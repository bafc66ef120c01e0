----------------------------- MODULE MCSharedSocket -----------------------------
(***************************************************************************)
(* Instances of SharedSocket for TLC: two streams that share a slot.       *)
(***************************************************************************)
EXTENDS SharedSocket, TLC

CONSTANTS s1, s2, a, b

MCStream == {s1, s2}

MCSlotsOf == s1 :> {a} @@ s2 :> {a, b}

Setting(p, f, t, q, leavers) ==
    [provider |-> p, frames |-> f, faults |-> 1, timeouts |-> t, queue |-> q, leavers |-> leavers]

\* Commands that overtake each other; late answers; the same with two frames around a
\* loss and a re-attach, and one stream that stays; the other protocols.
MCSettings ==
    {Setting("Alpaca", 0, 0, 2, MCStream), Setting("Alpaca", 0, 1, 1, MCStream),
     Setting("Alpaca", 2, 1, 1, {s1}),
     Setting("Massive", 0, 1, 1, MCStream), Setting("LSE", 0, 1, 1, MCStream)}
=============================================================================
