----------------------------- MODULE FillRouting -----------------------------
(***************************************************************************)
(* Where the fills of the engine's orders go when positions are hedged     *)
(* (OmsMode::Hedging): the routing tables of `InstrumentState` in          *)
(* rustrade/src/engine/state/instrument/mod.rs, over a venue whose fills,  *)
(* reports and answers arrive late, in any order, some never.              *)
(*                                                                         *)
(* A fill names only the order id the venue chose.  The position the       *)
(* strategy chose for the order is known under its client id, so a fill    *)
(* waits for the report that ties the two ids together, and a fill that    *)
(* comes after its order has ended must still find the position.           *)
(*                                                                         *)
(* The orders are those of module Orders reduced to what routing reads:    *)
(* no stamps, one venue order under a client id, and a window of retired   *)
(* ids that forgets nothing.                                               *)
(***************************************************************************)
EXTENDS Integers, Sequences, FiniteSets

CONSTANTS
    Cid,         \* ClientOrderIds
    Position,    \* PositionIds a strategy chooses
    OrderId,     \* the venue's ids, also the PositionIds of last resort
    Request,     \* per client id: what the strategy sends, [quantity, buys, position, id]
    MaxRouting,  \* MAX_RETIRED_ROUTING
    HashOrders,  \* orders in which a hash map may yield its keys
    Settings,    \* what one run of the system is like, see `setting`
    None         \* the absent entry of a map, or an absent id

Quantity(c) == Request[c].quantity

\* The venue gives an order an id of its own.
IdOf(c) == Request[c].id

Slot == Position \cup OrderId

ASSUME RequestAssumption ==
    /\ Position \cap OrderId = {}
    /\ \A c \in Cid : /\ Quantity(c) \in Nat \ {0}
                      /\ Request[c].position \in Position
                      /\ IdOf(c) \in OrderId
    /\ \A c, d \in Cid : IdOf(c) = IdOf(d) => c = d
    /\ MaxRouting \in Nat \ {0}

\* One unit of an order, executed when the order's cumulative became `upTo`.
Fill == UNION {[cid : {c}, upTo : 1..Quantity(c)] : c \in Cid}

VARIABLES
    state,    \* InstrumentState
    venue,    \* the venue's orders
    flying,   \* fills executed and not delivered
    cancels,  \* client ids whose cancel request is not answered
    setting   \* see Setting

vars == <<state, venue, flying, cancels, setting>>

\* One run of the system.
Setting == [totals  : BOOLEAN,      \* whether fills carry their order's cumulative
            cancels : SUBSET Cid,   \* the orders the strategy may cancel
            splits  : BOOLEAN,      \* whether the instrument splits
            hash    : HashOrders]   \* the order in which the hash maps yield their keys

\* A tracked order: `id` is None until the venue has reported one.
Order == [status : {"OpenInFlight", "Open", "CancelInFlight"},
          id : OrderId \cup {None}, filled : Nat]

InstrumentState ==
    [orders     : [Cid -> Order \cup {None}],       \* Orders.0
     over       : SUBSET Cid,                       \* Orders.1
     positionOf : [Cid -> Position \cup {None}],    \* position_ids
     cidOf      : [OrderId -> Cid \cup {None}],     \* exchange_id_to_cid
     routing    : Seq([id : OrderId, position : Position]),  \* retired_routing
     pending    : Seq(Fill),                        \* pending_fills
     held       : [Slot -> Int],                    \* position.positions, signed; 0 is none
     \* History, read by the properties alone.
     applied    : [Fill -> Seq(Slot)],              \* where each fill was booked
     drained    : SUBSET Fill,                      \* fills discarded after a cancel
     settled    : SUBSET Cid,                       \* orders whose first answer tied their two ids
     evicted    : SUBSET OrderId,                   \* routing dropped at MaxRouting
     closed     : SUBSET Slot,                      \* positions that have exited
     unmapped   : SUBSET Cid,                       \* orders a split took the mapping from,
     resting    : SUBSET Cid]                       \* and the tracked ones among them

Is(s, c, status) == s.orders[c] # None /\ s.orders[c].status = status

SomeInFlight(s) == \E c \in Cid : Is(s, c, "OpenInFlight")

\* A hash map yields each of its keys, and an absent entry is no entry.
ASSUME SettingAssumption ==
    /\ Settings \subseteq Setting
    /\ \A h \in HashOrders : h \in Seq(Cid) /\ \A c \in Cid : \E i \in DOMAIN h : h[i] = c
    /\ None \notin Cid \cup Slot \cup Order

-----------------------------------------------------------------------------
(* Orders.                                                                 *)

Retire(s, c) == [s EXCEPT !.orders[c] = None, !.over = @ \cup {c}]

\* A report of an order: "Open" with what is filled, "FullyFilled", or "Ended"
\* for the other ends (cancelled, expired, rejected).
Retires(r) == r.state # "Open" \/ r.filled = Quantity(r.cid)

\* Orders::update_from_order_snapshot.  A cancel in flight is not ended by a
\* report that the order is open, whatever is filled.
OrdersAfterReport(s, r) ==
    LET held == s.orders[r.cid]
        cancelled == Is(s, r.cid, "CancelInFlight")
        ends == Retires(r) /\ (cancelled => r.state # "Open")
        stale == held # None /\ r.state = "Open" /\ r.filled < held.filled
    IN  CASE held = None /\ ends -> [s EXCEPT !.over = @ \cup {r.cid}]
          [] held = None /\ ~ends /\ r.cid \in s.over -> s
          [] stale -> s
          [] held # None /\ ~stale /\ ends -> Retire(s, r.cid)
          [] OTHER ->
                [s EXCEPT !.orders[r.cid] =
                    [status |-> IF cancelled THEN "CancelInFlight" ELSE "Open",
                     id |-> IdOf(r.cid), filled |-> r.filled]]

\* Orders::update_from_cancel_response.
OrdersAfterCancel(s, c, ok) ==
    CASE s.orders[c] # None /\ ok -> Retire(s, c)
      [] Is(s, c, "CancelInFlight") /\ ~ok ->
            IF s.orders[c].id = None THEN [s EXCEPT !.orders[c] = None]
            ELSE [s EXCEPT !.orders[c].status = "Open"]
      [] OTHER -> s

-----------------------------------------------------------------------------
(* The routing tables.                                                     *)

\* Mutant: the map grows past its bound.
RememberAll(s, entry) ==
    IF \E i \in DOMAIN s.routing : s.routing[i] = entry THEN s
    ELSE [s EXCEPT !.routing = Append(@, entry)]

\* insert_retired_routing: a known id keeps its place; a full map drops its oldest.
Remember(s, entry) ==
    LET at == {i \in DOMAIN s.routing : s.routing[i].id = entry.id} IN
    IF at # {} THEN [s EXCEPT !.routing = [i \in DOMAIN @ |-> IF i \in at THEN entry ELSE @[i]]]
    ELSE IF Len(s.routing) < MaxRouting THEN [s EXCEPT !.routing = Append(@, entry)]
    ELSE [s EXCEPT !.routing = Append(Tail(@), entry), !.evicted = @ \cup {Head(s.routing).id}]

\* What ties the ids of an order that is no longer tracked to its position.
Demotes(s, c) ==
    /\ s.orders[c] = None
    /\ s.cidOf[IdOf(c)] = c
    /\ s.positionOf[c] # None

\* Mutant: only one of the live maps is pruned.
PrunePositions(s) ==
    [s EXCEPT !.positionOf = [c \in Cid |-> IF s.orders[c] = None THEN None ELSE @[c]]]

\* The live maps keep the tracked orders alone.
Prune(s) ==
    [s EXCEPT !.positionOf = [c \in Cid |-> IF s.orders[c] = None THEN None ELSE @[c]],
              !.cidOf = [i \in OrderId |-> IF @[i] # None /\ s.orders[@[i]] = None THEN None ELSE @[i]]]

\* Mutant: the routing of an order that is over is not kept.
CleanupForgets(s) == Prune(s)

Demote(t, s, c) ==
    IF Demotes(s, c) THEN Remember(t, [id |-> IdOf(c), position |-> s.positionOf[c]]) ELSE t

\* cleanup_routing_tables: demote, in the order the map yields, then prune.
Cleanup(s) ==
    LET demoted[i \in 0..Len(setting.hash)] ==
            IF i = 0 THEN s ELSE Demote(demoted[i - 1], s, setting.hash[i])
    IN  Prune(demoted[Len(setting.hash)])

\* The two ids of the order, and its position, which the cleanup has just
\* dropped if the report retired the order.
Settle(s, before, c) ==
    [s EXCEPT !.cidOf[IdOf(c)] = c,
              !.positionOf[c] = IF @ = None THEN before.positionOf[c] ELSE @,
              !.settled = IF Is(before, c, "OpenInFlight") THEN @ \cup {c} ELSE @]

-----------------------------------------------------------------------------
(* update_from_trade                                                       *)

\* The tracked orders the venue has reported under `id`, in a status of `among`.
Reported(s, id, among) ==
    {c \in Cid : s.orders[c] # None /\ s.orders[c].id = id /\ s.orders[c].status \in among}

Retired(s, id) == {i \in DOMAIN s.routing : s.routing[i].id = id}

\* Where the fill goes: a position, the fallback under the raw order id, or
\* nowhere yet (None), while an open request is unanswered.
Route(s, id) ==
    LET c == s.cidOf[id]
        matching == Reported(s, id, {"Open", "CancelInFlight"})
    IN  IF c # None /\ s.positionOf[c] # None THEN s.positionOf[c]
        ELSE IF matching # {} THEN
            LET d == CHOOSE d \in matching : TRUE
            IN  IF s.positionOf[d] # None THEN s.positionOf[d] ELSE id
        ELSE IF Retired(s, id) # {} THEN s.routing[CHOOSE i \in Retired(s, id) : TRUE].position
        ELSE IF SomeInFlight(s) THEN None
        ELSE id

Signed(f) == IF Request[f.cid].buys THEN 1 ELSE -1

\* Steps 3 and 4: the position takes the fill; one it closes takes with it the
\* mappings of the orders that are over.
Book(s, f, slot) ==
    LET now == s.held[slot] + Signed(f)
        booked == [s EXCEPT !.held[slot] = now, !.applied[f] = Append(@, slot)]
    IN  IF now # 0 THEN booked
        ELSE [booked EXCEPT
                !.closed = @ \cup {slot},
                !.positionOf = [c \in Cid |->
                    IF @[c] = slot /\ s.orders[c] = None THEN None ELSE @[c]]]

\* Step 5: the order takes the cumulative its fill reports, which may retire it.
Advance(s, f) ==
    LET id == IdOf(f.cid)
        matching == Reported(s, id, {"Open"}) \cap
                    (IF s.cidOf[id] # None THEN {s.cidOf[id]} ELSE Cid)
    IN  IF ~setting.totals THEN s
        ELSE LET behind == {c \in matching : s.orders[c].filled < f.upTo} IN
             IF behind = {} THEN s
             ELSE LET c == CHOOSE c \in behind : TRUE IN
                  IF f.upTo = Quantity(c) THEN Cleanup(Retire(s, c))
                  ELSE [s EXCEPT !.orders[c].filled = f.upTo]

AfterTrade(s, f) ==
    LET slot == Route(s, IdOf(f.cid)) IN
    IF slot = None THEN [s EXCEPT !.pending = Append(@, f)]
    ELSE Advance(Book(s, f, slot), f)

-----------------------------------------------------------------------------
(* update_from_order_snapshot                                              *)

\* The reports that tie the two ids: the first one of an open request, or the
\* last one of an order tracked as Open, if it is of a kind read for the id.
Settles(s, r) ==
    /\ \/ Is(s, r.cid, "OpenInFlight")
       \/ Is(s, r.cid, "Open") /\ Retires(r)
    /\ r.state \in {"Open", "FullyFilled"}

\* The fills of a queue that are in a set, in order.
Among(queue, fills) ==
    LET kept[i \in 0..Len(queue)] ==
            IF i = 0 THEN <<>>
            ELSE IF queue[i] \in fills THEN Append(kept[i - 1], queue[i]) ELSE kept[i - 1]
    IN  kept[Len(queue)]

\* Each fill in turn.
Replay(s, fills) ==
    LET replayed[i \in 0..Len(fills)] ==
            IF i = 0 THEN s ELSE AfterTrade(replayed[i - 1], fills[i])
    IN  replayed[Len(fills)]

AfterReport(s, r) ==
    LET after == Cleanup(OrdersAfterReport(s, r))
        settled == Settle(after, s, r.cid)
        ofOrder == {f \in Fill : IdOf(f.cid) = IdOf(r.cid)}
        waiting == [settled EXCEPT !.pending = Among(@, Fill \ ofOrder)]
    IN  CASE ~Settles(s, r) -> after
          [] Settles(s, r) /\ s.pending = <<>> -> settled
          [] OTHER -> Cleanup(Replay(waiting, Among(s.pending, ofOrder)))

\* Mutant: a cancel's answer discards whatever waits.
NothingIsAwaited(s) == TRUE

NoneCanAnswer(s) == ~SomeInFlight(s)

\* update_from_cancel_response: once no open request is unanswered, what still
\* waits is discarded.
AfterCancelResponse(s, c, ok) ==
    LET after == Cleanup(OrdersAfterCancel(s, c, ok)) IN
    IF ~NoneCanAnswer(after) THEN after
    ELSE [after EXCEPT !.pending = <<>>, !.drained = @ \cup {after.pending[i] : i \in DOMAIN after.pending}]

-----------------------------------------------------------------------------
(* The engine.                                                             *)

\* record_in_flight_open, with the position the strategy chose.  A closing order
\* is sent for what its position holds: flipping one is undefined when hedging.
SendOpen(c) ==
    /\ venue[c].status = "unsent"
    /\ Request[c].buys \/ state.held[Request[c].position] >= Quantity(c)
    /\ state' = [state EXCEPT
            !.orders[c] = [status |-> "OpenInFlight", id |-> None, filled |-> 0],
            !.positionOf[c] = Request[c].position]
    /\ venue' = [venue EXCEPT ![c].status = "sent"]
    /\ UNCHANGED <<flying, cancels, setting>>

SendCancel(c) ==
    /\ c \in setting.cancels
    /\ Is(state, c, "OpenInFlight") \/ Is(state, c, "Open")
    /\ state' = [state EXCEPT !.orders[c].status = "CancelInFlight"]
    /\ cancels' = cancels \cup {c}
    /\ UNCHANGED <<venue, flying, setting>>

\* A fill is delivered once: the clients drop repeats.
ReceiveFill(f) ==
    /\ f \in flying
    /\ flying' = flying \ {f}
    /\ state' = AfterTrade(state, f)
    /\ UNCHANGED <<venue, cancels, setting>>

\* A report says what was so of the order at some time since it was accepted:
\* the answer to the request, an update of the stream, or a listing.
True(r) ==
    LET v == venue[r.cid] IN
    CASE r.state = "Open" -> v.status \in {"working", "filled", "ended"} /\ r.filled <= v.filled
      [] r.state = "FullyFilled" -> v.status = "filled" /\ r.filled = v.filled
      [] r.state = "Ended" -> v.status \in {"ended", "refused"} /\ r.filled = v.filled

Report ==
    UNION {[cid : {c}, state : {"Open", "FullyFilled", "Ended"}, filled : 0..Quantity(c)] : c \in Cid}

ReceiveReport(r) ==
    /\ True(r)
    /\ state' = AfterReport(state, r)
    /\ UNCHANGED <<venue, flying, cancels, setting>>

ReceiveCancelResponse(c, ok) ==
    /\ c \in cancels
    /\ ok => venue[c].status = "ended"
    /\ cancels' = cancels \ {c}
    /\ state' = AfterCancelResponse(state, c, ok)
    /\ UNCHANGED <<venue, flying, setting>>

\* Mutant: the mappings are pruned as elsewhere, which leaves those of tracked orders.
UnmapEnded(s, closed) ==
    [s EXCEPT !.positionOf = [c \in Cid |-> IF s.orders[c] = None THEN None ELSE @[c]]]

\* Every mapping to a position just closed goes, whatever becomes of its order.
Unmap(s, closed) ==
    [s EXCEPT !.positionOf = [c \in Cid |-> IF @[c] \in closed THEN None ELSE @[c]]]

\* process_corporate_action: a reverse split whose ratio exceeds every quantity
\* held rounds each position to zero and closes it, and unmaps it by value.
Split ==
    LET open == {p \in Slot : state.held[p] # 0} IN
    /\ setting.splits
    /\ open # {}
    /\ state.unmapped = {}  \* one split is enough
    /\ state' = [Unmap(state, open) EXCEPT
            !.held = [p \in Slot |-> 0],
            !.unmapped = {c \in Cid : state.positionOf[c] \in open},
            !.resting = {c \in Cid : state.orders[c] # None /\ state.positionOf[c] \in open}]
    /\ UNCHANGED <<venue, flying, cancels, setting>>

-----------------------------------------------------------------------------
(* The venue.                                                              *)

Decide(c, status) ==
    /\ venue[c].status = "sent"
    /\ venue' = [venue EXCEPT ![c].status = status]
    /\ UNCHANGED <<state, flying, cancels, setting>>

Execute(c) ==
    LET filled == venue[c].filled + 1 IN
    /\ venue[c].status = "working"
    /\ venue' = [venue EXCEPT ![c] =
            [status |-> IF filled = Quantity(c) THEN "filled" ELSE "working", filled |-> filled]]
    /\ flying' = flying \cup {[cid |-> c, upTo |-> filled]}
    /\ UNCHANGED <<state, cancels, setting>>

\* A cancel, or the expiry of what is left of an immediate-or-cancel order.
End(c) ==
    /\ venue[c].status = "working"
    /\ venue' = [venue EXCEPT ![c].status = "ended"]
    /\ UNCHANGED <<state, flying, cancels, setting>>

-----------------------------------------------------------------------------

Init ==
    /\ state = [orders |-> [c \in Cid |-> None], over |-> {},
                positionOf |-> [c \in Cid |-> None], cidOf |-> [i \in OrderId |-> None],
                routing |-> <<>>, pending |-> <<>>, held |-> [p \in Slot |-> 0],
                applied |-> [f \in Fill |-> <<>>], drained |-> {}, settled |-> {},
                evicted |-> {}, closed |-> {}, unmapped |-> {}, resting |-> {}]
    /\ venue = [c \in Cid |-> [status |-> "unsent", filled |-> 0]]
    /\ flying = {}
    /\ cancels = {}
    /\ setting \in Settings

Next ==
    \/ \E c \in Cid :
        \/ SendOpen(c) \/ SendCancel(c)
        \/ \E ok \in BOOLEAN : ReceiveCancelResponse(c, ok)
        \/ \E status \in {"working", "refused"} : Decide(c, status)
        \/ Execute(c) \/ End(c)
    \/ \E f \in Fill : ReceiveFill(f)
    \/ \E r \in Report : ReceiveReport(r)
    \/ Split

Spec == Init /\ [][Next]_vars

-----------------------------------------------------------------------------
(* Correctness.                                                            *)

\* Type correctness, and the bound on the routing kept of retired orders.
RoutingTypeOK ==
    /\ state \in InstrumentState
    /\ Len(state.routing) <= MaxRouting
    /\ venue \in [Cid -> [status : {"unsent", "sent", "refused", "working", "filled", "ended"},
                          filled : Nat]]
    /\ flying \subseteq Fill
    /\ cancels \subseteq Cid
    /\ setting \in Setting

Waiting(f) == \E i \in DOMAIN state.pending : state.pending[i] = f

Executed(f) == f.upTo <= venue[f.cid].filled

\* Routing that the code gives up on purpose: at MaxRouting retirements, and of
\* an order whose position a split closed.
GivenUp(c) == IdOf(c) \in state.evicted \/ c \in state.unmapped

\* Once a report has tied the ids of an order together, each of its fills, the
\* ones that came before the report and the ones that come after the order's
\* end, is booked to the position the strategy chose and none waits; unless its
\* routing was given up, or its position has closed meanwhile.
FillsReachTheirPosition ==
    \A f \in Fill :
        LET c == f.cid  p == Request[c].position IN
        c \in state.settled /\ ~GivenUp(c) /\ p \notin state.closed =>
            /\ ~Waiting(f)
            /\ \A i \in DOMAIN state.applied[f] : state.applied[f][i] = p

\* The claim of the documentation: routing survives an order's end, so that of
\* the orders whose ids are tied only one beyond the bound, or one whose
\* position a split closed, has a fill booked under its raw order id.
LateFillsRoute ==
    \A f \in Fill :
        f.cid \in state.settled /\ ~GivenUp(f.cid) =>
            \A i \in DOMAIN state.applied[f] : state.applied[f][i] # IdOf(f.cid)

\* A fill is booked once, and until then it is on its way, waits for its
\* order's report, or was discarded by a cancel's answer; of an order whose ids
\* are tied none is discarded, on the terms above.  A replay neither repeats a
\* fill nor forgets one.
EveryFillAccounted ==
    /\ \A f \in Fill : Executed(f) =>
        LET places == (IF f \in flying THEN 1 ELSE 0)
                      + Cardinality({i \in DOMAIN state.pending : state.pending[i] = f})
                      + (IF f \in state.drained THEN 1 ELSE 0)
                      + Len(state.applied[f])
        IN  places = 1
    /\ \A f \in state.drained :
        \/ f.cid \notin state.settled \/ GivenUp(f.cid)
        \/ Request[f.cid].position \in state.closed

\* A split that closes a position unmaps the orders resting on it: none of
\* their fills reopens it.
FlooredStaysClosed ==
    [][\A f \in Fill :
        f.cid \in state.resting =>
            \A i \in DOMAIN state'.applied[f] :
                i \in DOMAIN state.applied[f] \/ state'.applied[f][i] # Request[f.cid].position]_vars

\* The live maps do not grow with the orders that are over: they hold those of
\* one at most.
LiveMapsBounded ==
    /\ Cardinality({c \in Cid : state.orders[c] = None /\ state.positionOf[c] # None}) <= 1
    /\ Cardinality({i \in OrderId : state.cidOf[i] # None /\ state.orders[state.cidOf[i]] = None}) <= 1
=============================================================================
