------------------------------- MODULE Orders -------------------------------
(***************************************************************************)
(* The engine's order manager, `Orders` of                                 *)
(* rustrade/src/engine/state/order/mod.rs: for one instrument, the active  *)
(* orders keyed by ClientOrderId, and the bounded window of the ids of the *)
(* orders that ended most recently.                                        *)
(*                                                                         *)
(* Every operation of the implementation is one action, taken with any     *)
(* argument a caller can pass.  OrderLifecycle composes the same actions   *)
(* with a venue, a network and an ExecutionManager, so that the arguments  *)
(* are the ones those produce.                                             *)
(***************************************************************************)
EXTENDS Integers, Sequences, FiniteSets

CONSTANTS
    Cid,             \* ClientOrderIds
    OrderId,         \* identifiers a venue assigns
    ClientAssigned,  \* VenueOrderId::ClientAssigned: the venue never named the order
    Amount,          \* cumulative fills, in units of the smallest step
    Quantity,        \* order quantities, in the same units
    Time,            \* exchange stamps and send times
    MaxRetired,      \* MAX_RECENTLY_RETIRED_ORDERS
    Untracked,       \* the entry of an id that is not a key of the map
    NoOpen,          \* None of an Option<Open>
    NoTime           \* an Open order carries no send time

ASSUME CidAssumption == IsFiniteSet(Cid)
ASSUME AmountAssumption == Amount \subseteq Nat
ASSUME QuantityAssumption == Quantity \subseteq Nat \ {0}
ASSUME TimeAssumption == Time \subseteq Nat
ASSUME MaxRetiredAssumption == MaxRetired \in Nat \ {0}
ASSUME NullAssumption == /\ ClientAssigned \notin OrderId
                         /\ NoTime \notin Time

VARIABLES
    tracked,  \* Orders.0
    retired   \* Orders.1, oldest first

vars == <<tracked, retired>>

VenueOrderId == OrderId \cup {ClientAssigned}

\* What the venue last said of a live order.
Open == [id : VenueOrderId, time : Time, filled : Amount]

\* ActiveOrderState, flattened: `open` is what open_meta() returns, `sent` the
\* time_sent of the request in flight.
Order == [quantity : Quantity,
          status   : {"OpenInFlight", "Open", "CancelInFlight"},
          open     : Open \cup {NoOpen},
          sent     : Time \cup {NoTime}]

ASSUME UntrackedAssumption == /\ Untracked \notin Order
                              /\ NoOpen \notin Open

IsTracked(c) == tracked[c] # Untracked

Is(c, status) == IsTracked(c) /\ tracked[c].status = status

-----------------------------------------------------------------------------
(* Snapshots: an Order with an OrderState, told apart as far as the        *)
(* manager tells them apart.  "Ended" is every inactive state that none    *)
(* of the three others is.                                                 *)

Active == {"OpenInFlight", "Open", "CancelInFlight"}

Snapshot ==
    [cid : Cid, quantity : Quantity, state : {"OpenInFlight"}, open : {NoOpen}, sent : Time]
    \cup [cid : Cid, quantity : Quantity, state : {"Open"}, open : Open, sent : {NoTime}]
    \cup [cid : Cid, quantity : Quantity, state : {"CancelInFlight"},
          open : Open \cup {NoOpen}, sent : Time]
    \cup [cid : Cid, quantity : Quantity,
          state : {"Ended", "DuplicateCid", "NotPlaced", "OutcomeUnknown"},
          open : {NoOpen}, sent : {NoTime}]

\* The active order a snapshot describes, or the one an open request creates.
AsOrder(s) == [quantity |-> s.quantity, status |-> s.state, open |-> s.open, sent |-> s.sent]

\* Mutant: a reported fill is taken for an increment.
AsOpenAdding(order, open) ==
    [order EXCEPT !.status = "Open", !.sent = NoTime,
                  !.open = IF @ = NoOpen THEN open ELSE [open EXCEPT !.filled = @ + order.open.filled]]

AsOpen(order, open) == [order EXCEPT !.status = "Open", !.open = open, !.sent = NoTime]

AsCancelInFlight(order, open, sent) ==
    [order EXCEPT !.status = "CancelInFlight", !.open = open, !.sent = sent]

\* Mutant: an order filled exactly counts as having something left.
OnlyOverfillEnds(quantity, open) == quantity - open.filled < 0

NothingRemains(quantity, open) == quantity - open.filled = 0

\* Positive evidence of two different venue orders: two names that differ.
Contradicts(id, other) == id \in OrderId /\ other \in OrderId /\ id # other

IsSameOrderAs(id, other) == id \in OrderId /\ other \in OrderId /\ id = other

\* Mutant: the stamps alone order two states.
IsStampedLater(held, update) == held.time <= update.time

IsSupersededBy(held, update) ==
    /\ held.filled <= update.filled
    /\ held.time <= update.time \/ held.filled < update.filled

-----------------------------------------------------------------------------
(* The window of recently retired ids.                                     *)

Remembers(window, c) == \E i \in 1..Len(window) : window[i] = c

\* Mutant: an id already remembered takes a second place.
RememberAgain(window, c) == Append(IF Len(window) = MaxRetired THEN Tail(window) ELSE window, c)

\* RecentlyRetired::insert: a remembered id keeps its place; a full window
\* drops its oldest.
Remember(window, c) ==
    IF Remembers(window, c) THEN window
    ELSE Append(IF Len(window) = MaxRetired THEN Tail(window) ELSE window, c)

\* Mutant: a new open request leaves the id remembered.
ForgetNothing(window, c) == window

\* RecentlyRetired::forget, of a window that holds an id at most once.
Forget(window, c) ==
    IF ~Remembers(window, c) THEN window
    ELSE LET at == CHOOSE i \in 1..Len(window) : window[i] = c
         IN  [j \in 1..(Len(window) - 1) |-> window[IF j < at THEN j ELSE j + 1]]

Keep(c, order) == tracked' = [tracked EXCEPT ![c] = order]

\* Drop the order without a trace: a late report of it is still applied.
Drop(c) == tracked' = [tracked EXCEPT ![c] = Untracked] /\ UNCHANGED retired

\* Mutant: an order that ends is removed without being remembered.
RetireWithoutTrace(c) == Drop(c)

\* `self.1.insert(entry.remove().key.cid)`
Retire(c) ==
    /\ tracked' = [tracked EXCEPT ![c] = Untracked]
    /\ retired' = Remember(retired, c)

-----------------------------------------------------------------------------
(* update_from_order_snapshot                                              *)

\* A never-placed report about an order the venue has reported working.
IsContradictedNeverPlaced(s) ==
    /\ s.state = "NotPlaced"
    /\ IsTracked(s.cid)
    /\ tracked[s.cid].open # NoOpen

IsFailedOpenToIgnore(s) == s.state = "OutcomeUnknown" \/ IsContradictedNeverPlaced(s)

\* Mutant: an active snapshot tracks its order whether or not it is remembered as ended.
TrackLateReports(s) ==
    IF s.state \in Active
    THEN Keep(s.cid, AsOrder(s)) /\ retired' = Forget(retired, s.cid)
    ELSE retired' = Remember(retired, s.cid) /\ UNCHANGED tracked

\* A snapshot of an id that is not a key of the map.
UpdateUntracked(s) ==
    \/ /\ s.state \notin Active
       /\ retired' = Remember(retired, s.cid)
       /\ UNCHANGED tracked
    \/ /\ s.state \in {"Open", "CancelInFlight"}
       /\ Remembers(retired, s.cid)
       /\ UNCHANGED vars
    \/ /\ s.state = "Open"
       /\ ~Remembers(retired, s.cid)
       /\ NothingRemains(s.quantity, s.open)
       /\ retired' = Remember(retired, s.cid)
       /\ UNCHANGED tracked
    \/ /\ \/ s.state = "Open" /\ ~NothingRemains(s.quantity, s.open)
          \/ s.state = "CancelInFlight"
       /\ ~Remembers(retired, s.cid)
       /\ Keep(s.cid, AsOrder(s))
       /\ UNCHANGED retired
    \/ /\ s.state = "OpenInFlight"
       /\ Keep(s.cid, AsOrder(s))
       /\ retired' = Forget(retired, s.cid)

\* A snapshot saying a tracked order has ended.
UpdateEnded(s) ==
    \/ /\ s.state = "DuplicateCid"
       /\ ~Is(s.cid, "OpenInFlight")
       /\ UNCHANGED vars
    \/ /\ s.state = "DuplicateCid" => Is(s.cid, "OpenInFlight")
       /\ Retire(s.cid)

\* An active snapshot of a tracked order, by the state it is tracked in.
UpdateOpenInFlight(s) ==
    \/ /\ s.state = "OpenInFlight"
       /\ UNCHANGED vars
    \/ /\ s.state = "Open"
       /\ NothingRemains(s.quantity, s.open)
       /\ Retire(s.cid)
    \/ /\ s.state = "Open"
       /\ ~NothingRemains(s.quantity, s.open)
       /\ Keep(s.cid, AsOpen(tracked[s.cid], s.open))
       /\ UNCHANGED retired
    \/ /\ s.state = "CancelInFlight"
       /\ Keep(s.cid, AsCancelInFlight(tracked[s.cid], s.open, s.sent))
       /\ UNCHANGED retired

\* Mutant: the venue order a report names is not compared.
AcceptsForeign(held, update) == IsSupersededBy(held, update)

\* Whether a tracked open state takes `update`: it is not another venue order's,
\* and it is not older.
Accepts(held, update) == ~Contradicts(held.id, update.id) /\ IsSupersededBy(held, update)

UpdateOpen(s) ==
    LET held == tracked[s.cid].open IN
    \/ /\ s.state = "OpenInFlight"
       /\ UNCHANGED vars
    \/ /\ s.state = "Open"
       /\ ~Accepts(held, s.open)
       /\ UNCHANGED vars
    \/ /\ s.state = "Open"
       /\ Accepts(held, s.open)
       /\ NothingRemains(s.quantity, s.open)
       /\ Retire(s.cid)
    \/ /\ s.state = "Open"
       /\ Accepts(held, s.open)
       /\ ~NothingRemains(s.quantity, s.open)
       /\ Keep(s.cid, AsOpen(tracked[s.cid], s.open))
       /\ UNCHANGED retired
    \/ /\ s.state = "CancelInFlight"
       /\ LET latest == IF s.open # NoOpen /\ Accepts(held, s.open) THEN s.open ELSE held
          IN  Keep(s.cid, AsCancelInFlight(tracked[s.cid], latest, s.sent))
       /\ UNCHANGED retired

\* The cancel stays in flight whatever the snapshot says of the order: this arm
\* has no check for an order with nothing left to fill.
UpdateCancelInFlight(s) ==
    LET held == tracked[s.cid].open IN
    \/ /\ s.state \in {"OpenInFlight", "CancelInFlight"}
       /\ UNCHANGED vars
    \/ /\ s.state = "Open"
       /\ held # NoOpen /\ ~Accepts(held, s.open)
       /\ UNCHANGED vars
    \/ /\ s.state = "Open"
       /\ held # NoOpen => Accepts(held, s.open)
       /\ Keep(s.cid, AsCancelInFlight(tracked[s.cid], s.open, tracked[s.cid].sent))
       /\ UNCHANGED retired

UpdateFromOrderSnapshot(s) ==
    \/ IsFailedOpenToIgnore(s) /\ UNCHANGED vars
    \/ /\ ~IsFailedOpenToIgnore(s)
       /\ \/ ~IsTracked(s.cid) /\ UpdateUntracked(s)
          \/ IsTracked(s.cid) /\ s.state \notin Active /\ UpdateEnded(s)
          \/ Is(s.cid, "OpenInFlight") /\ s.state \in Active /\ UpdateOpenInFlight(s)
          \/ Is(s.cid, "Open") /\ s.state \in Active /\ UpdateOpen(s)
          \/ Is(s.cid, "CancelInFlight") /\ s.state \in Active /\ UpdateCancelInFlight(s)

-----------------------------------------------------------------------------
(* The other operations.                                                   *)

\* Mutant: a refused cancel of an order the venue never reported retires it.
RefusedCancelRetires(c, ok) ==
    IF ~IsTracked(c) \/ (~ok /\ ~Is(c, "CancelInFlight")) THEN UNCHANGED vars
    ELSE IF ok \/ tracked[c].open = NoOpen THEN Retire(c)
    ELSE Keep(c, AsOpen(tracked[c], tracked[c].open)) /\ UNCHANGED retired

\* Mutant: a refused cancel of an order the venue never reported changes nothing.
RefusedCancelIgnored(c, ok) ==
    IF ~IsTracked(c) \/ (~ok /\ (~Is(c, "CancelInFlight") \/ tracked[c].open = NoOpen)) THEN UNCHANGED vars
    ELSE IF ok THEN Retire(c)
    ELSE Keep(c, AsOpen(tracked[c], tracked[c].open)) /\ UNCHANGED retired

\* update_from_cancel_response.  A refused cancel gives the order back as the
\* venue last reported it; one the venue never reported is dropped, not retired.
UpdateFromCancelResponse(c, ok) ==
    \/ ~IsTracked(c) /\ UNCHANGED vars
    \/ IsTracked(c) /\ ok /\ Retire(c)
    \/ /\ Is(c, "OpenInFlight") \/ Is(c, "Open")
       /\ ~ok
       /\ UNCHANGED vars
    \/ /\ Is(c, "CancelInFlight") /\ ~ok
       /\ tracked[c].open # NoOpen
       /\ Keep(c, AsOpen(tracked[c], tracked[c].open))
       /\ UNCHANGED retired
    \/ /\ Is(c, "CancelInFlight") /\ ~ok
       /\ tracked[c].open = NoOpen
       /\ Drop(c)

\* update_from_fill: `filled` is the order's cumulative as one of its fills reports it.
UpdateFromFill(c, id, filled) ==
    LET advances == Is(c, "Open") /\ tracked[c].open.id = id /\ tracked[c].open.filled < filled IN
    \/ ~advances /\ UNCHANGED vars
    \/ /\ advances
       /\ tracked[c].quantity - filled <= 0
       /\ Retire(c)
    \/ /\ advances
       /\ tracked[c].quantity - filled > 0
       /\ Keep(c, [tracked[c] EXCEPT !.open = [@ EXCEPT !.filled = filled]])
       /\ UNCHANGED retired

\* remove_open: the order is proved to be venue order `id`.
RemovesOpen(c, id) == Is(c, "Open") /\ IsSameOrderAs(tracked[c].open.id, id)

RemoveOpen(c, id) ==
    \/ RemovesOpen(c, id) /\ Retire(c)
    \/ ~RemovesOpen(c, id) /\ UNCHANGED vars

\* record_in_flight_open: a tracked order keeps its place; a new one is an order
\* by the engine's own hand, even under the id of a retired one.
RecordInFlightOpen(c, quantity, sent) ==
    \/ IsTracked(c) /\ UNCHANGED vars
    \/ /\ ~IsTracked(c)
       /\ retired' = Forget(retired, c)
       /\ Keep(c, [quantity |-> quantity, status |-> "OpenInFlight",
                   open |-> NoOpen, sent |-> sent])

\* Mutant: a cancel resent restarts the clock of the one in flight.
RestampCancel(c, sent) ==
    IF IsTracked(c)
    THEN Keep(c, AsCancelInFlight(tracked[c], tracked[c].open, sent)) /\ UNCHANGED retired
    ELSE UNCHANGED vars

\* record_in_flight_cancel: a cancel resent while one is in flight keeps the first.
RecordInFlightCancel(c, sent) ==
    \/ /\ ~IsTracked(c) \/ Is(c, "CancelInFlight")
       /\ UNCHANGED vars
    \/ /\ Is(c, "OpenInFlight") \/ Is(c, "Open")
       /\ Keep(c, AsCancelInFlight(tracked[c], tracked[c].open, sent))
       /\ UNCHANGED retired

\* Every sequence that lists each element of S once.
Listings(S) ==
    {p \in [1..Cardinality(S) -> S] :
        \A i, j \in 1..Cardinality(S) : p[i] = p[j] => i = j}

\* A window is the last MaxRetired entries of what was ever remembered.
Latest(window) ==
    SubSeq(window, IF Len(window) > MaxRetired THEN Len(window) - MaxRetired + 1 ELSE 1,
           Len(window))

\* clear: drains the map in its hash order, which is any order, remembering
\* each id; none of them is in the window (TrackedNotRetired).
Clear ==
    /\ \E drained \in Listings({c \in Cid : IsTracked(c)}) : retired' = Latest(retired \o drained)
    /\ tracked' = [c \in Cid |-> Untracked]

\* A deserialised Orders: the window is not serialised.
Restore == retired' = <<>> /\ UNCHANGED tracked

-----------------------------------------------------------------------------

Init ==
    /\ tracked = [c \in Cid |-> Untracked]
    /\ retired = <<>>

Next ==
    \/ \E s \in Snapshot : UpdateFromOrderSnapshot(s)
    \/ \E c \in Cid :
        \/ \E ok \in BOOLEAN : UpdateFromCancelResponse(c, ok)
        \/ \E id \in OrderId, filled \in Amount : UpdateFromFill(c, id, filled)
        \/ \E id \in VenueOrderId : RemoveOpen(c, id)
        \/ \E quantity \in Quantity, sent \in Time : RecordInFlightOpen(c, quantity, sent)
        \/ \E sent \in Time : RecordInFlightCancel(c, sent)
    \/ Clear
    \/ Restore

Spec == Init /\ [][Next]_vars

-----------------------------------------------------------------------------
(* Correctness.                                                            *)

\* Type correctness: an order has a venue state exactly when it is not an
\* unanswered open, and a send time exactly when a request is in flight.
WellFormed(order) ==
    /\ order \in Order
    /\ order.status = "OpenInFlight" => order.open = NoOpen
    /\ order.status = "Open" => order.open # NoOpen
    /\ order.status = "Open" <=> order.sent = NoTime

TypeOK ==
    /\ tracked \in [Cid -> Order \cup {Untracked}]
    /\ \A c \in Cid : IsTracked(c) => WellFormed(tracked[c])
    /\ retired \in Seq(Cid)

\* The window is bounded, and an id takes one place in it, so that
\* MAX_RECENTLY_RETIRED_ORDERS places remember that many orders.
RetiredWindow ==
    /\ Len(retired) <= MaxRetired
    /\ \A i, j \in 1..Len(retired) : retired[i] = retired[j] => i = j

\* An id the window remembers as ended is not a key of the map: an order is
\* never both live and over, whichever connection reported which.
TrackedNotRetired == \A c \in Cid : IsTracked(c) => ~Remembers(retired, c)

\* "Retired orders stay retired": while the window remembers an id, nothing but
\* a new open request by the engine tracks it again.
RetiredStayRetired ==
    [][\A c \in Cid :
        Remembers(retired, c) /\ IsTracked(c)' => tracked'[c].status = "OpenInFlight"]_vars

\* For as long as an order is tracked, what the venue said of it is never
\* forgotten and its cumulative fill never falls, whatever the order of the
\* reports, fills, cancels and refusals in between.
FillNeverRegresses ==
    [][\A c \in Cid :
        /\ IsTracked(c) /\ IsTracked(c)'
        /\ tracked[c].open # NoOpen
        => /\ tracked'[c].open # NoOpen
           /\ tracked[c].open.filled <= tracked'[c].open.filled]_vars

\* A report that names one venue order never replaces the state of another
\* tracked under the same client id ("one client id is covering two distinct
\* exchange orders").
ForeignOrderRefused ==
    [][\A c \in Cid :
        /\ IsTracked(c) /\ IsTracked(c)'
        /\ tracked[c].open # NoOpen
        => ~Contradicts(tracked[c].open.id, tracked'[c].open.id)]_vars

\* A request in flight keeps its send time until it is answered, so resending
\* it cannot put off its in-flight deadline; and only an answer turns a cancel
\* in flight back into an open order, with the state the venue last reported.
InFlightUntilAnswered ==
    [][\A c \in Cid :
        IsTracked(c) /\ IsTracked(c)' =>
        /\ (tracked'[c].status = tracked[c].status => tracked'[c].sent = tracked[c].sent)
        /\ (tracked[c].status = "CancelInFlight" =>
                \/ tracked'[c].status = "CancelInFlight"
                \/ tracked'[c].status = "Open" /\ tracked'[c].open = tracked[c].open)
        /\ (tracked[c].status # "OpenInFlight" => tracked'[c].status # "OpenInFlight")]_vars
=============================================================================
