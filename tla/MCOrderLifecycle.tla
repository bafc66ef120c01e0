-------------------------- MODULE MCOrderLifecycle --------------------------
(***************************************************************************)
(* Instances of OrderLifecycle for TLC: the venue names each order by its  *)
(* client id.                                                              *)
(***************************************************************************)
EXTENDS OrderLifecycle

CONSTANTS c1, c2

MCNameOf == [c \in Cid |-> c]

\* One order at a venue that reports a partial fill as a snapshot.
Plain == [sent |-> {c1}, size |-> 2, maxCancels |-> 1, maxDrops |-> 1, completesAsOpen |-> FALSE,
          fillReports |-> {"snapshot"}, lookupsMayFail |-> FALSE, partialListings |-> FALSE]

\* One order through everything that can go wrong with it.
Faulty == [Plain EXCEPT !.maxCancels = 2, !.maxDrops = 2,
                        !.fillReports = {"execution", "snapshot"}, !.lookupsMayFail = TRUE]

\* Two orders, never cancelled, at a venue that reports a complete fill as Open
\* and whose snapshots may leave orders out.
Pair == [Plain EXCEPT !.sent = {c1, c2}, !.size = 1, !.maxCancels = 0,
                      !.completesAsOpen = TRUE, !.partialListings = TRUE]

FaultyOrPair == {Faulty, Pair}

PlainOnly == {Plain}

\* The venue of the pair, with a cancel.
Completing == {[Plain EXCEPT !.size = 1, !.maxDrops = 0, !.completesAsOpen = TRUE]}

Executions == {[Plain EXCEPT !.fillReports = {"execution"}]}
=============================================================================
