------------------------ MODULE OrderLifecycleProofs ------------------------
(***************************************************************************)
(* The orders of a whole system: whatever the venue and the run are like   *)
(* (Settings), whatever is lost, late or repeated, the engine calls its    *)
(* Orders with arguments that Orders is meant for, and remembers as ended  *)
(* only what has ended.                                                    *)
(*                                                                         *)
(* The inductive invariant says what each message means.  A report is true *)
(* when it is made, and stays true in every queue, since what is over      *)
(* stays over: so the engine may act on it late.  The exception is a       *)
(* complete listing, which says by silence that an order is over: that is  *)
(* true only of the orders the venue had when it was read, and the         *)
(* invariant says that the orders recorded when the outage began are some  *)
(* of those.                                                               *)
(***************************************************************************)
EXTENDS OrderLifecycle, OrdersProofs

\* The order has ended at the venue, or never reached it and no longer can.
Finished(c) ==
    \/ venue[c].state = "over"
    \/ venue[c].state = "none" /\ ~open[c].onWire /\ open[c].phase # "unsent"

\* What the venue and the manager report of an order.
OrderReport ==
    {s \in Snapshot :
        /\ s.quantity = Size
        /\ s.state \in {"Open", "Ended", "NotPlaced", "OutcomeUnknown"}
        /\ s.state = "Open" => /\ s.open.id = NameOf[s.cid] /\ s.open.time = Now
                               /\ s.open.filled \in 0..Size}

AccountEvent ==
    [kind : {"Order", "Listed"}, order : OrderReport]
    \cup [kind : {"Fill"}, cid : Cid, filled : 0..Size]
    \cup [kind : {"Cancelled"}, cid : Cid, ok : BOOLEAN]
    \cup [kind : {"Reconnecting"}]
    \cup [kind : {"Listing"}, listed : SUBSET OrderReport, complete : BOOLEAN, over : SUBSET Cid]
    \cup [kind : {"Unlisted"}, cid : Cid, id : VenueOrderId]

\* A report is true when it is made, and stays so: what it says is over stays over.
IsTrue(s) ==
    /\ s.state = "Open" =>
          venue[s.cid].state # "none" /\ s.open.filled \in 0..venue[s.cid].filled
    /\ s.state = "Open" /\ s.open.filled = Size =>
          venue[s.cid].state = "over" /\ setting.completesAsOpen
    /\ s.state = "Ended" => venue[s.cid].state = "over"
    /\ s.state = "NotPlaced" => Finished(s.cid)

Tells(event) ==
    /\ event.kind \in {"Order", "Listed"} => IsTrue(event.order)
    /\ event.kind = "Fill" => /\ event.filled \in 0..venue[event.cid].filled
                              /\ event.filled = Size => venue[event.cid].state = "over"
    /\ event.kind = "Cancelled" /\ event.ok => venue[event.cid].state = "over"
    /\ event.kind = "Listing" =>
          IsFiniteSet(event.listed) /\ \A s \in event.listed : s.state = "Open" /\ IsTrue(s)
    /\ event.kind = "Unlisted" => venue[event.cid].state = "over"

\* The queues hold true events.
FeedIsTrue == feed \in Seq(AccountEvent) /\ \A i \in DOMAIN feed : Tells(feed[i])
StreamIsTrue == stream \in Seq(AccountEvent) /\ \A i \in DOMAIN stream : Tells(stream[i])

\* The requests of an order, and the answers to them, against the venue.
RequestAgrees(c) ==
    /\ open[c].onWire \/ open[c].phase = "unsent" => venue[c].state = "none"
    /\ open[c].phase = "unsent" => ~open[c].onWire
    /\ venue[c].state = "live" => venue[c].filled < Size
    /\ venue[c].state = "none" => venue[c].filled = 0
    /\ open[c].answer # NoAnswer =>
          /\ open[c].phase # "unsent"
          /\ open[c].answer \in OrderReport
          /\ open[c].answer.cid = c
          /\ IsTrue(open[c].answer)
    /\ \A k \in 1..MaxCancels : cancel[c][k] = "accepted" => venue[c].state = "over"

RequestsAgree == \A c \in Cid : RequestAgrees(c)

\* What the engine tracks of an order, against the venue.
Agrees(c, order) ==
    /\ order.quantity = Size
    /\ open[c].phase # "unsent"
    /\ order.status = "CancelInFlight" => MaxCancels > 0
    /\ order.open # NoOpen =>
          /\ venue[c].state # "none"
          /\ order.open.id = NameOf[c] /\ order.open.time = Now
          /\ order.open.filled \in 0..Size /\ order.open.filled \in 0..venue[c].filled
          /\ order.open.filled = Size => setting.completesAsOpen /\ MaxCancels > 0

TrackedAgrees == \A c \in Cid : IsTracked(c) => Agrees(c, tracked[c])

\* The window holds no id of an order that may still trade.
RetiredIsFinished == \A c \in Cid : Remembers(retired, c) => Finished(c)

Holds(c) == IsTracked(c) /\ tracked[c].open # NoOpen

\* Events after which the engine may hold c as open.
Opens(event, c) ==
    \/ event.kind \in {"Order", "Listed"} /\ event.order.cid = c /\ event.order.state = "Open"
    \/ event.kind = "Listing" /\ \E s \in event.listed : s.cid = c

\* The engine may hold c as open when it takes the event at p of its feed.
MayHoldAt(c, p) == Holds(c) \/ \E i \in 1..(p - 1) : Opens(feed[i], c)

\* A complete listing leaves out only what is over.
Settles(event, c) ==
    event.kind = "Listing" /\ event.complete
    => venue[c].state = "over" \/ \E s \in event.listed : s.cid = c

\* A listing is read after the notice of the outage before it went to the feed, so after
\* the reports of every order that the engine has on record from that notice.
FeedSettles ==
    /\ \A c \in Cid : openAtResync[c] # NotRecorded =>
          venue[c].state # "none" /\ \A i \in DOMAIN feed : Settles(feed[i], c)
    /\ \A p \in DOMAIN feed : feed[p].kind = "Reconnecting" =>
          \A c \in Cid : MayHoldAt(c, p) =>
              \A i \in DOMAIN feed : p < i => Settles(feed[i], c)

\* The engine has c on record, or a notice on the feed may put it there.
MayBeRecorded(c) ==
    \/ openAtResync[c] # NotRecorded
    \/ \E p \in DOMAIN feed : feed[p].kind = "Reconnecting" /\ MayHoldAt(c, p)

StreamSettles ==
    \A i \in DOMAIN stream :
        /\ \A c \in Cid : MayBeRecorded(c) => Settles(stream[i], c)
        /\ stream[i].kind = "Reconnecting" => i = Len(stream) /\ link = "down"

LifecycleInv ==
    /\ LifecycleTypeOK /\ OrdersInv
    /\ FeedIsTrue /\ StreamIsTrue /\ FeedSettles /\ StreamSettles
    /\ RequestsAgree /\ TrackedAgrees /\ RetiredIsFinished

-----------------------------------------------------------------------------
(* Values.                                                                 *)

LEMMA Scales ==
    ASSUME setting \in Settings
    PROVE  /\ setting \in Setting
           /\ Size \in Nat \ {0} /\ Size \in Quantity
           /\ 0..Size \subseteq Amount
           /\ MaxCancels \in Nat
<1>1. setting \in Setting
  BY SettingsAssumption
<1>2. Size \in Quantity /\ MaxCancels \in Nat
  BY <1>1 DEF Setting, Size, MaxCancels
<1>3. 0..Size \subseteq Amount
  BY ScaleAssumption DEF Size
<1> QED
  BY <1>1, <1>2, <1>3, QuantityAssumption

\* The reports the venue and the manager make.
LEMMA Reporting ==
    ASSUME setting \in Settings, NEW c \in Cid
    PROVE  /\ \A filled \in 0..Size :
                /\ OpenReport(c, filled) \in OrderReport
                /\ OpenReport(c, filled).cid = c
                /\ OpenReport(c, filled).state = "Open"
                /\ OpenReport(c, filled).open = OpenAt(c, filled)
                /\ OpenReport(c, filled).open.filled = filled
           /\ \A state \in {"Ended", "NotPlaced", "OutcomeUnknown"} :
                /\ Report(c, state) \in OrderReport
                /\ Report(c, state).cid = c
                /\ Report(c, state).state = state
<1>1. Size \in Quantity /\ 0..Size \subseteq Amount /\ 0 \in Time /\ NameOf[c] \in OrderId
  BY Scales, ScaleAssumption, NameAssumption
<1>2. ASSUME NEW filled \in 0..Size
      PROVE  /\ OpenReport(c, filled) \in OrderReport
             /\ OpenReport(c, filled).cid = c
             /\ OpenReport(c, filled).state = "Open"
             /\ OpenReport(c, filled).open = OpenAt(c, filled)
             /\ OpenReport(c, filled).open.filled = filled
  <2>1. /\ OpenAt(c, filled) \in Open
        /\ OpenAt(c, filled).id = NameOf[c] /\ OpenAt(c, filled).filled = filled
        /\ OpenAt(c, filled).time = Now
    BY <1>1 DEF OpenAt, Open, VenueOrderId, Now
  <2>2. OpenReport(c, filled) = [cid |-> c, quantity |-> Size, state |-> "Open",
                                 open |-> OpenAt(c, filled), sent |-> NoTime]
    BY DEF OpenReport, Report
  <2>3. OpenReport(c, filled) \in Snapshot
    BY <2>1, <2>2, <1>1 DEF Snapshot
  <2> QED
    BY <2>1, <2>2, <2>3 DEF OrderReport
<1>3. ASSUME NEW state \in {"Ended", "NotPlaced", "OutcomeUnknown"}
      PROVE  /\ Report(c, state) \in OrderReport
             /\ Report(c, state).cid = c
             /\ Report(c, state).state = state
  <2>1. Report(c, state) \in Snapshot
    BY <1>1 DEF Report, Snapshot
  <2> QED
    BY <2>1 DEF Report, OrderReport
<1> QED
  BY <1>2, <1>3

\* What an event carries.
LEMMA EventFields ==
    ASSUME NEW e \in AccountEvent
    PROVE  /\ e.kind \in {"Order", "Listed"} => e.order \in OrderReport
           /\ e.kind = "Fill" => e.cid \in Cid /\ e.filled \in 0..Size
           /\ e.kind = "Cancelled" => e.cid \in Cid /\ e.ok \in BOOLEAN
           /\ e.kind = "Listing" =>
                e.listed \in SUBSET OrderReport /\ e.complete \in BOOLEAN /\ e.over \in SUBSET Cid
           /\ e.kind = "Unlisted" => e.cid \in Cid /\ e.id \in VenueOrderId
<1>1. CASE e \in [kind : {"Order", "Listed"}, order : OrderReport]
  BY <1>1
<1>2. CASE e \in [kind : {"Fill"}, cid : Cid, filled : 0..Size]
  BY <1>2
<1>3. CASE e \in [kind : {"Cancelled"}, cid : Cid, ok : BOOLEAN]
  BY <1>3
<1>4. CASE e \in [kind : {"Reconnecting"}]
  BY <1>4
<1>5. CASE e \in [kind : {"Listing"}, listed : SUBSET OrderReport, complete : BOOLEAN,
                  over : SUBSET Cid]
  BY <1>5
<1>6. CASE e \in [kind : {"Unlisted"}, cid : Cid, id : VenueOrderId]
  BY <1>6
<1> QED
  BY <1>1, <1>2, <1>3, <1>4, <1>5, <1>6 DEF AccountEvent

\* The events the venue and the manager make.
LEMMA Events ==
    /\ \A s \in OrderReport : /\ OrderEvent(s) \in AccountEvent
                              /\ OrderEvent(s).kind = "Order" /\ OrderEvent(s).order = s
    /\ \A c \in Cid, filled \in 0..Size :
          /\ FillEvent(c, filled) \in AccountEvent
          /\ FillEvent(c, filled).kind = "Fill"
          /\ FillEvent(c, filled).cid = c /\ FillEvent(c, filled).filled = filled
    /\ \A c \in Cid, ok \in BOOLEAN :
          /\ CancelEvent(c, ok) \in AccountEvent
          /\ CancelEvent(c, ok).kind = "Cancelled"
          /\ CancelEvent(c, ok).cid = c /\ (CancelEvent(c, ok).ok <=> ok)
    /\ Reconnecting \in AccountEvent /\ Reconnecting.kind = "Reconnecting"
    /\ \A c \in Cid, id \in VenueOrderId :
          /\ UnlistedEvent(c, id) \in AccountEvent
          /\ UnlistedEvent(c, id).kind = "Unlisted"
          /\ UnlistedEvent(c, id).cid = c /\ UnlistedEvent(c, id).id = id
<1>1. \A s \in OrderReport : /\ OrderEvent(s) \in AccountEvent
                             /\ OrderEvent(s).kind = "Order" /\ OrderEvent(s).order = s
  BY DEF OrderEvent, AccountEvent
<1>2. \A c \in Cid, filled \in 0..Size :
          /\ FillEvent(c, filled) \in AccountEvent
          /\ FillEvent(c, filled).kind = "Fill"
          /\ FillEvent(c, filled).cid = c /\ FillEvent(c, filled).filled = filled
  BY DEF FillEvent, AccountEvent
<1>3. \A c \in Cid, ok \in BOOLEAN :
          /\ CancelEvent(c, ok) \in AccountEvent
          /\ CancelEvent(c, ok).kind = "Cancelled"
          /\ CancelEvent(c, ok).cid = c /\ (CancelEvent(c, ok).ok <=> ok)
  BY DEF CancelEvent, AccountEvent
<1>4. Reconnecting \in AccountEvent /\ Reconnecting.kind = "Reconnecting"
  BY DEF Reconnecting, AccountEvent
<1>5. \A c \in Cid, id \in VenueOrderId :
          /\ UnlistedEvent(c, id) \in AccountEvent
          /\ UnlistedEvent(c, id).kind = "Unlisted"
          /\ UnlistedEvent(c, id).cid = c /\ UnlistedEvent(c, id).id = id
  BY DEF UnlistedEvent, AccountEvent
<1> QED
  BY <1>1, <1>2, <1>3, <1>4, <1>5

-----------------------------------------------------------------------------
(* Queues.                                                                 *)

LEMMA Appended ==
    ASSUME NEW S, NEW s \in Seq(S), NEW e \in S
    PROVE  /\ Append(s, e) \in Seq(S)
           /\ Len(s) \in Nat
           /\ DOMAIN s = 1..Len(s) /\ DOMAIN Append(s, e) = 1..(Len(s) + 1)
           /\ \A i \in 1..Len(s) : Append(s, e)[i] = s[i]
           /\ Append(s, e)[Len(s) + 1] = e
  OBVIOUS

LEMMA Taken ==
    ASSUME NEW S, NEW s \in Seq(S), s # <<>>
    PROVE  /\ Head(s) \in S /\ Tail(s) \in Seq(S)
           /\ Len(s) \in Nat \ {0}
           /\ Head(s) = s[1] /\ 1 \in DOMAIN s
           /\ Len(Tail(s)) = Len(s) - 1
           /\ DOMAIN s = 1..Len(s) /\ DOMAIN Tail(s) = 1..(Len(s) - 1)
           /\ \A i \in 1..(Len(s) - 1) : Tail(s)[i] = s[i + 1]
  OBVIOUS

LEMMA Joined ==
    ASSUME NEW S, NEW s \in Seq(S), NEW t \in Seq(S)
    PROVE  /\ s \o t \in Seq(S)
           /\ Len(s) \in Nat /\ Len(t) \in Nat
           /\ DOMAIN s = 1..Len(s) /\ DOMAIN t = 1..Len(t)
           /\ DOMAIN (s \o t) = 1..(Len(s) + Len(t))
           /\ \A i \in 1..Len(s) : (s \o t)[i] = s[i]
           /\ \A i \in (Len(s) + 1)..(Len(s) + Len(t)) : (s \o t)[i] = t[i - Len(s)]
  OBVIOUS

\* One event, or two, as a queue of their own.
LEMMA OneOrTwo ==
    ASSUME NEW S, NEW e \in S, NEW f \in S
    PROVE  /\ <<e>> \in Seq(S) /\ DOMAIN <<e>> = {1} /\ <<e>>[1] = e
           /\ <<e, f>> \in Seq(S) /\ DOMAIN <<e, f>> = {1, 2}
           /\ <<e, f>>[1] = e /\ <<e, f>>[2] = f
  OBVIOUS

-----------------------------------------------------------------------------
(* What stays true.                                                        *)

\* What is over stays over, and no request is taken back.
Onward ==
    /\ setting' = setting
    /\ \A c \in Cid :
        /\ venue[c].state # "none" => venue'[c].state # "none"
        /\ venue[c].state = "over" => venue'[c].state = "over"
        /\ 0..venue[c].filled \subseteq 0..venue'[c].filled
        /\ Finished(c) => Finished(c)'
        /\ open[c].phase # "unsent" => open'[c].phase # "unsent"

LEMMA SameVenue ==
    ASSUME UNCHANGED <<setting, venue, open>>
    PROVE  Onward
  BY DEF Onward, Finished

LEMMA SameReports ==
    ASSUME setting' = setting
    PROVE  Size' = Size /\ MaxCancels' = MaxCancels
           /\ OrderReport' = OrderReport /\ AccountEvent' = AccountEvent
  BY DEF Size, MaxCancels, OrderReport, AccountEvent

LEMMA StaysTrue ==
    ASSUME Onward, NEW s \in OrderReport, IsTrue(s)
    PROVE  IsTrue(s)'
<1>1. s.cid \in Cid
  BY SnapshotWellFormed DEF OrderReport
<1>2. Size' = Size
  BY SameReports DEF Onward
<1> QED
  BY <1>1, <1>2 DEF IsTrue, Onward

LEMMA StaysTold ==
    ASSUME Onward, NEW e \in AccountEvent, Tells(e)
    PROVE  Tells(e)'
<1>1. Size' = Size
  BY SameReports DEF Onward
<1>2. e.kind \in {"Order", "Listed"} => IsTrue(e.order)'
  BY StaysTrue, EventFields DEF Tells
<1>3. e.kind = "Listing" =>
          IsFiniteSet(e.listed) /\ \A s \in e.listed : s.state = "Open" /\ IsTrue(s)'
  <2> SUFFICES ASSUME e.kind = "Listing", NEW s \in e.listed PROVE s.state = "Open" /\ IsTrue(s)'
    BY DEF Tells
  <2>1. s \in OrderReport /\ s.state = "Open" /\ IsTrue(s)
    BY EventFields DEF Tells
  <2> QED
    BY <2>1, StaysTrue
<1>4. /\ e.kind = "Fill" => /\ e.filled \in 0..venue'[e.cid].filled
                            /\ e.filled = Size => venue'[e.cid].state = "over"
      /\ e.kind = "Cancelled" /\ e.ok => venue'[e.cid].state = "over"
      /\ e.kind = "Unlisted" => venue'[e.cid].state = "over"
  BY EventFields DEF Tells, Onward
<1> QED
  BY <1>1, <1>2, <1>3, <1>4 DEF Tells

LEMMA StaysSettled ==
    ASSUME Onward, NEW e, NEW c \in Cid, Settles(e, c)
    PROVE  Settles(e, c)'
  BY DEF Settles, Onward

\* The engine's record, when the engine does nothing.
LEMMA EngineIdle ==
    ASSUME LifecycleInv, Onward, UNCHANGED <<tracked, retired>>
    PROVE  OrdersInv' /\ TrackedAgrees' /\ RetiredIsFinished'
<1>1. OrdersInv'
  BY Unchanged DEF LifecycleInv, vars
<1>2. Size' = Size /\ MaxCancels' = MaxCancels
  BY SameReports DEF Onward
<1>3. TrackedAgrees'
  BY <1>2 DEF LifecycleInv, TrackedAgrees, Agrees, IsTracked, Onward
<1>4. RetiredIsFinished'
  BY DEF LifecycleInv, RetiredIsFinished, Remembers, Onward
<1> QED
  BY <1>1, <1>3, <1>4

-----------------------------------------------------------------------------
(* What a step does to the queues.                                         *)

\* Events that are neither a notice of an outage nor a listing.
Ordinary(e) == e.kind \notin {"Reconnecting", "Listing"}

LEMMA OrdinarySettles == ASSUME NEW e, Ordinary(e), NEW c PROVE Settles(e, c)
  BY DEF Ordinary, Settles

\* The engine comes to hold no order.
HoldsNoMore == \A c \in Cid : Holds(c)' => Holds(c)

LEMMA FeedStays ==
    ASSUME LifecycleInv, Onward, HoldsNoMore, UNCHANGED <<feed, openAtResync>>
    PROVE  /\ FeedIsTrue' /\ FeedSettles'
           /\ \A c \in Cid : MayBeRecorded(c)' => MayBeRecorded(c)
<1>1. AccountEvent' = AccountEvent
  BY SameReports DEF Onward
<1>2. /\ feed \in Seq(AccountEvent)
      /\ \A i \in DOMAIN feed : feed[i] \in AccountEvent /\ Tells(feed[i])
  BY DEF LifecycleInv, FeedIsTrue
<1>3. FeedIsTrue'
  BY <1>1, <1>2, StaysTold DEF FeedIsTrue
<1>4. \A c \in Cid : \A p \in DOMAIN feed : MayHoldAt(c, p)' => MayHoldAt(c, p)
  BY DEF HoldsNoMore, MayHoldAt, Opens
<1>5. FeedSettles'
  BY <1>4, StaysSettled DEF LifecycleInv, FeedSettles, Onward
<1>6. \A c \in Cid : MayBeRecorded(c)' => MayBeRecorded(c)
  BY <1>4 DEF MayBeRecorded
<1> QED
  BY <1>3, <1>5, <1>6

LEMMA StreamStays ==
    ASSUME LifecycleInv, Onward, UNCHANGED <<stream, link>>,
           \A c \in Cid : MayBeRecorded(c)' => MayBeRecorded(c)
    PROVE  StreamIsTrue' /\ StreamSettles'
<1>1. AccountEvent' = AccountEvent
  BY SameReports DEF Onward
<1>2. /\ stream \in Seq(AccountEvent)
      /\ \A i \in DOMAIN stream : stream[i] \in AccountEvent /\ Tells(stream[i])
  BY DEF LifecycleInv, StreamIsTrue
<1>3. StreamIsTrue'
  BY <1>1, <1>2, StaysTold DEF StreamIsTrue
<1>4. StreamSettles'
  BY StaysSettled DEF LifecycleInv, StreamSettles
<1> QED
  BY <1>3, <1>4

\* The venue's events join the stream.
LEMMA Emitted ==
    ASSUME LifecycleInv, Onward, HoldsNoMore, UNCHANGED <<feed, openAtResync, link>>,
           NEW events \in Seq(AccountEvent), Emit(events),
           \A i \in DOMAIN events : Ordinary(events[i]) /\ Tells(events[i])'
    PROVE  /\ FeedIsTrue' /\ FeedSettles'
           /\ StreamIsTrue' /\ StreamSettles'
<1>1. /\ FeedIsTrue' /\ FeedSettles'
      /\ \A c \in Cid : MayBeRecorded(c)' => MayBeRecorded(c)
  BY FeedStays
<1>2. CASE UNCHANGED stream
  BY <1>1, <1>2, StreamStays
<1>3. CASE link # "down" /\ stream' = stream \o events
  <2>1. /\ stream \in Seq(AccountEvent)
        /\ \A i \in DOMAIN stream : stream[i] \in AccountEvent /\ Tells(stream[i])
    BY DEF LifecycleInv, StreamIsTrue
  <2>2. AccountEvent' = AccountEvent
    BY SameReports DEF Onward
  <2>3. /\ stream' \in Seq(AccountEvent)
        /\ Len(stream) \in Nat /\ Len(events) \in Nat
        /\ DOMAIN stream = 1..Len(stream) /\ DOMAIN events = 1..Len(events)
        /\ DOMAIN stream' = 1..(Len(stream) + Len(events))
        /\ \A i \in 1..Len(stream) : stream'[i] = stream[i]
        /\ \A i \in (Len(stream) + 1)..(Len(stream) + Len(events)) :
              stream'[i] = events[i - Len(stream)]
    BY <1>3, <2>1, Joined
  <2>4. \A i \in DOMAIN stream' :
            \/ i \in DOMAIN stream /\ stream'[i] = stream[i]
            \/ \E j \in DOMAIN events : stream'[i] = events[j]
    <3> SUFFICES ASSUME NEW i \in DOMAIN stream', i > Len(stream)
                 PROVE  \E j \in DOMAIN events : stream'[i] = events[j]
      BY <2>3
    <3>1. /\ i - Len(stream) \in DOMAIN events
          /\ i \in (Len(stream) + 1)..(Len(stream) + Len(events))
      BY <2>3
    <3> QED
      BY <3>1, <2>3
  <2>5. StreamIsTrue'
    BY <2>1, <2>2, <2>3, <2>4, StaysTold DEF StreamIsTrue
  <2>6. \A i \in DOMAIN stream : stream[i].kind # "Reconnecting"
    BY <1>3 DEF LifecycleInv, StreamSettles
  <2>7. StreamSettles'
    BY <1>1, <2>4, <2>6, StaysSettled, OrdinarySettles
       DEF LifecycleInv, StreamSettles, Ordinary
  <2> QED
    BY <1>1, <2>5, <2>7
<1> QED
  BY <1>2, <1>3 DEF Emit

\* The manager forwards an answer.
LEMMA Forwarded ==
    ASSUME LifecycleInv, Onward, HoldsNoMore, UNCHANGED <<openAtResync, stream, link>>,
           NEW event \in AccountEvent, feed' = Append(feed, event),
           Ordinary(event), Tells(event)'
    PROVE  /\ FeedIsTrue' /\ FeedSettles'
           /\ StreamIsTrue' /\ StreamSettles'
<1>1. AccountEvent' = AccountEvent
  BY SameReports DEF Onward
<1>2. /\ feed \in Seq(AccountEvent)
      /\ \A i \in DOMAIN feed : feed[i] \in AccountEvent /\ Tells(feed[i])
  BY DEF LifecycleInv, FeedIsTrue
<1>3. /\ feed' \in Seq(AccountEvent)
      /\ Len(feed) \in Nat
      /\ DOMAIN feed = 1..Len(feed) /\ DOMAIN feed' = 1..(Len(feed) + 1)
      /\ \A i \in 1..Len(feed) : feed'[i] = feed[i]
      /\ feed'[Len(feed) + 1] = event
  BY <1>2, Appended
<1>4. \A i \in DOMAIN feed' :
          \/ i \in DOMAIN feed /\ feed'[i] = feed[i]
          \/ i = Len(feed) + 1 /\ feed'[i] = event
  BY <1>3
<1>5. FeedIsTrue'
  BY <1>1, <1>2, <1>3, <1>4, StaysTold DEF FeedIsTrue
<1>6. ASSUME NEW p \in DOMAIN feed', feed'[p].kind = "Reconnecting", NEW c \in Cid, MayHoldAt(c, p)'
      PROVE  p \in DOMAIN feed /\ feed[p].kind = "Reconnecting" /\ MayHoldAt(c, p)
  <2>1. p \in DOMAIN feed /\ feed[p].kind = "Reconnecting"
    BY <1>4, <1>6 DEF Ordinary
  <2>2. \A i \in 1..(p - 1) : i \in DOMAIN feed /\ feed'[i] = feed[i]
    BY <2>1, <1>3
  <2>3. MayHoldAt(c, p)
    BY <1>6, <2>2 DEF MayHoldAt, HoldsNoMore, Opens
  <2> QED
    BY <2>1, <2>3
<1>7. FeedSettles'
  BY <1>4, <1>6, StaysSettled, OrdinarySettles DEF LifecycleInv, FeedSettles, Onward
<1>8. \A c \in Cid : MayBeRecorded(c)' => MayBeRecorded(c)
  BY <1>6 DEF MayBeRecorded
<1> QED
  BY <1>5, <1>7, <1>8, StreamStays

-----------------------------------------------------------------------------
(* The account stream.                                                     *)

\* An order that is, or may be, on record for a resync was at the venue.
LEMMA RecordedWasPlaced ==
    ASSUME LifecycleInv, NEW c \in Cid, MayBeRecorded(c)
    PROVE  venue[c].state # "none"
<1>1. CASE openAtResync[c] # NotRecorded
  BY <1>1 DEF LifecycleInv, FeedSettles
<1>2. CASE Holds(c)
  BY <1>2 DEF LifecycleInv, TrackedAgrees, Agrees, Holds
<1>3. ASSUME NEW i \in DOMAIN feed, Opens(feed[i], c)
      PROVE  venue[c].state # "none"
  BY <1>3 DEF LifecycleInv, FeedIsTrue, Tells, IsTrue, Opens
<1>4. \A p \in DOMAIN feed : \A i \in 1..(p - 1) : i \in DOMAIN feed
  <2>1. Len(feed) \in Nat /\ DOMAIN feed = 1..Len(feed)
    BY DEF LifecycleInv, FeedIsTrue
  <2> QED
    BY <2>1
<1> QED
  BY <1>1, <1>2, <1>3, <1>4 DEF MayBeRecorded, MayHoldAt

\* What the venue answers of an order it has, or had.
LEMMA AnswerAtVenue ==
    ASSUME LifecycleInv, NEW c \in Cid, venue[c].state # "none"
    PROVE  /\ StateAtVenue(c) \in OrderReport
           /\ StateAtVenue(c).cid = c
           /\ IsTrue(StateAtVenue(c))
           /\ Live(c) => StateAtVenue(c).state = "Open"
<1>1. /\ setting \in Settings
      /\ venue[c].state \in {"none", "live", "over"} /\ venue[c].filled \in 0..Size
  BY DEF LifecycleInv, LifecycleTypeOK
<1>2. Size \in Nat
  BY <1>1, Scales
<1>3. CASE Live(c)
  <2>1. StateAtVenue(c) = OpenReport(c, venue[c].filled)
    BY <1>3 DEF StateAtVenue
  <2>2. venue[c].filled # Size
    BY <1>1, <1>2, <1>3 DEF LifecycleInv, RequestsAgree, RequestAgrees, Live
  <2> QED
    BY <1>1, <2>1, <2>2, Reporting DEF IsTrue
<1>4. CASE ~Live(c)
  <2>1. StateAtVenue(c) = Report(c, "Ended")
    BY <1>4 DEF StateAtVenue
  <2>2. venue[c].state = "over"
    BY <1>1, <1>4 DEF Live
  <2> QED
    BY <1>1, <1>4, <2>1, <2>2, Reporting DEF IsTrue
<1> QED
  BY <1>3, <1>4

\* A queue of a listing and what waited for it.
LEMMA ListingFirst ==
    ASSUME LifecycleInv, Onward, HoldsNoMore, UNCHANGED <<feed, openAtResync>>,
           link = "subscribed",
           NEW listing \in AccountEvent, listing.kind = "Listing", Tells(listing),
           \A c \in Cid : MayBeRecorded(c) => Settles(listing, c),
           stream' = <<listing>> \o stream
    PROVE  /\ FeedIsTrue' /\ FeedSettles'
           /\ StreamIsTrue' /\ StreamSettles'
<1>1. /\ FeedIsTrue' /\ FeedSettles'
      /\ \A c \in Cid : MayBeRecorded(c)' => MayBeRecorded(c)
  BY FeedStays
<1>2. /\ stream \in Seq(AccountEvent)
      /\ \A i \in DOMAIN stream : stream[i] \in AccountEvent /\ Tells(stream[i])
      /\ \A i \in DOMAIN stream : stream[i].kind # "Reconnecting"
  BY DEF LifecycleInv, StreamIsTrue, StreamSettles
<1>3. AccountEvent' = AccountEvent
  BY SameReports DEF Onward
<1>4. /\ stream' \in Seq(AccountEvent)
      /\ Len(stream) \in Nat /\ DOMAIN stream = 1..Len(stream)
      /\ DOMAIN stream' = 1..(1 + Len(stream))
      /\ stream'[1] = listing
      /\ \A i \in 2..(1 + Len(stream)) : stream'[i] = stream[i - 1]
  BY <1>2
<1>5. \A i \in DOMAIN stream' :
          \/ stream'[i] = listing
          \/ \E j \in DOMAIN stream : stream'[i] = stream[j]
  <2> SUFFICES ASSUME NEW i \in DOMAIN stream', i # 1
               PROVE  \E j \in DOMAIN stream : stream'[i] = stream[j]
    BY <1>4
  <2>1. i \in 2..(1 + Len(stream)) /\ i - 1 \in DOMAIN stream
    BY <1>4
  <2> QED
    BY <2>1, <1>4
<1>6. StreamIsTrue'
  BY <1>2, <1>3, <1>4, <1>5, StaysTold DEF StreamIsTrue
<1>7. StreamSettles'
  BY <1>1, <1>2, <1>5, StaysSettled DEF LifecycleInv, StreamSettles
<1> QED
  BY <1>1, <1>6, <1>7

LEMMA ReadListingQueues ==
    ASSUME LifecycleInv, ReadListing
    PROVE  /\ FeedIsTrue' /\ FeedSettles'
           /\ StreamIsTrue' /\ StreamSettles'
<1> DEFINE live == {StateAtVenue(c) : c \in {d \in Cid : Live(d)}}
           over == {c \in Cid : venue[c].state = "over"}
<1>1. /\ setting' = setting /\ venue' = venue /\ open' = open
      /\ feed' = feed /\ openAtResync' = openAtResync /\ tracked' = tracked
      /\ link = "subscribed"
  BY DEF ReadListing, engine
<1>2. Onward /\ HoldsNoMore
  BY <1>1, SameVenue DEF HoldsNoMore, Holds, IsTracked
<1>3. \A c \in Cid : Live(c) => /\ StateAtVenue(c) \in OrderReport
                                /\ StateAtVenue(c).cid = c
                                /\ StateAtVenue(c).state = "Open"
                                /\ IsTrue(StateAtVenue(c))
  BY AnswerAtVenue DEF Live
<1>4. /\ over \in SUBSET Cid
      /\ live \in SUBSET OrderReport /\ IsFiniteSet(live)
      /\ \A s \in live : s.state = "Open" /\ IsTrue(s)
      /\ \A c \in Cid : Live(c) => \E s \in live : s.cid = c
  <2>1. IsFiniteSet({d \in Cid : Live(d)})
    BY CidAssumption, FS_Subset
  <2> DEFINE answers == [c \in {d \in Cid : Live(d)} |-> StateAtVenue(c)]
  <2>2. answers \in Surjection({d \in Cid : Live(d)}, live)
    BY DEF Surjection
  <2>3. IsFiniteSet(live)
    BY <2>1, <2>2, FS_Surjection
  <2> QED
    BY <1>3, <2>3
<1>5. \A c \in Cid : MayBeRecorded(c) => venue[c].state = "over" \/ \E s \in live : s.cid = c
  <2>1. \A c \in Cid : venue[c].state \in {"none", "live", "over"}
    BY DEF LifecycleInv, LifecycleTypeOK
  <2> HIDE DEF live
  <2> QED
    BY <2>1, <1>4, RecordedWasPlaced DEF Live
<1>6. \/ stream' = <<ListingEvent(live, TRUE, over)>> \o stream
      \/ \E some \in SUBSET live : stream' = <<ListingEvent(some, FALSE, over)>> \o stream
  BY DEF ReadListing
<1> HIDE DEF live, over
<1>7. CASE stream' = <<ListingEvent(live, TRUE, over)>> \o stream
  <2>1. PICK listing : listing = ListingEvent(live, TRUE, over)
    OBVIOUS
  <2>2. /\ listing \in AccountEvent
        /\ listing.kind = "Listing" /\ listing.listed = live
    BY <2>1, <1>4 DEF ListingEvent, AccountEvent
  <2>3. Tells(listing)
    BY <2>2, <1>4 DEF Tells
  <2>4. \A c \in Cid : MayBeRecorded(c) => Settles(listing, c)
    BY <2>2, <1>5 DEF Settles
  <2> QED
    BY <1>1, <1>2, <1>7, <2>1, <2>2, <2>3, <2>4, ListingFirst
<1>8. ASSUME NEW some \in SUBSET live, stream' = <<ListingEvent(some, FALSE, over)>> \o stream
      PROVE  /\ FeedIsTrue' /\ FeedSettles'
             /\ StreamIsTrue' /\ StreamSettles'
  <2>1. PICK listing : listing = ListingEvent(some, FALSE, over)
    OBVIOUS
  <2>2. /\ listing \in AccountEvent
        /\ listing.kind = "Listing" /\ listing.listed = some /\ ~listing.complete
    BY <2>1, <1>4 DEF ListingEvent, AccountEvent
  <2>3. Tells(listing)
    BY <2>2, <1>4, FS_Subset DEF Tells
  <2>4. \A c \in Cid : Settles(listing, c)
    BY <2>2 DEF Settles
  <2> QED
    BY <1>1, <1>2, <1>8, <2>1, <2>2, <2>3, <2>4, ListingFirst
<1> QED
  BY <1>6, <1>7, <1>8

\* The stream breaks, behind what had arrived.
LEMMA DropLinkQueues ==
    ASSUME LifecycleInv, DropLink
    PROVE  /\ FeedIsTrue' /\ FeedSettles'
           /\ StreamIsTrue' /\ StreamSettles'
<1>1. /\ setting' = setting /\ venue' = venue /\ open' = open
      /\ feed' = feed /\ openAtResync' = openAtResync /\ tracked' = tracked
      /\ link = "up" /\ link' = "down"
  BY DEF DropLink, engine
<1>2. Onward /\ HoldsNoMore
  BY <1>1, SameVenue DEF HoldsNoMore, Holds, IsTracked
<1>3. /\ FeedIsTrue' /\ FeedSettles'
      /\ \A c \in Cid : MayBeRecorded(c)' => MayBeRecorded(c)
  BY <1>1, <1>2, FeedStays
<1>4. PICK arrived \in 0..Len(stream) :
          stream' = Append(SubSeq(stream, 1, arrived), Reconnecting)
  BY DEF DropLink
<1>5. /\ stream \in Seq(AccountEvent)
      /\ \A i \in DOMAIN stream : stream[i] \in AccountEvent /\ Tells(stream[i])
      /\ \A i \in DOMAIN stream : stream[i].kind # "Reconnecting"
  BY <1>1 DEF LifecycleInv, StreamIsTrue, StreamSettles
<1>6. PICK kept : kept = SubSeq(stream, 1, arrived)
  OBVIOUS
<1>7. /\ kept \in Seq(AccountEvent) /\ Len(kept) \in Nat
      /\ DOMAIN kept = 1..Len(kept)
      /\ \A i \in DOMAIN kept : i \in DOMAIN stream /\ kept[i] = stream[i]
  BY <1>5, <1>6
<1>8. Reconnecting \in AccountEvent /\ Reconnecting.kind = "Reconnecting"
  BY Events
<1>9. /\ stream' \in Seq(AccountEvent)
      /\ DOMAIN stream' = 1..(Len(kept) + 1)
      /\ \A i \in 1..Len(kept) : stream'[i] = kept[i]
      /\ stream'[Len(kept) + 1] = Reconnecting
      /\ Len(stream') = Len(kept) + 1
  BY <1>4, <1>6, <1>7, <1>8, Appended
<1>10. \A i \in DOMAIN stream' :
           \/ i \in DOMAIN stream /\ stream'[i] = stream[i]
           \/ i = Len(stream') /\ stream'[i] = Reconnecting
  BY <1>7, <1>9
<1>11. AccountEvent' = AccountEvent
  BY SameReports, <1>1
<1>12. Tells(Reconnecting)' /\ \A c \in Cid : Settles(Reconnecting, c)'
  BY <1>8 DEF Tells, Settles, Reconnecting
<1>13. StreamIsTrue'
  BY <1>5, <1>9, <1>10, <1>11, <1>12, <1>2, StaysTold DEF StreamIsTrue
<1>14. StreamSettles'
  BY <1>1, <1>2, <1>3, <1>5, <1>10, <1>12, StaysSettled DEF LifecycleInv, StreamSettles
<1> QED
  BY <1>3, <1>13, <1>14

\* Nothing is on the stream before re-initialisation begins, or after it fails.
LEMMA EmptiedQueues ==
    ASSUME LifecycleInv, Onward, HoldsNoMore, UNCHANGED <<feed, openAtResync>>, stream' = <<>>
    PROVE  /\ FeedIsTrue' /\ FeedSettles'
           /\ StreamIsTrue' /\ StreamSettles'
<1>1. FeedIsTrue' /\ FeedSettles'
  BY FeedStays
<1>2. StreamIsTrue' /\ StreamSettles'
  BY DEF StreamIsTrue, StreamSettles
<1> QED
  BY <1>1, <1>2

LEMMA ForwardEventQueues ==
    ASSUME LifecycleInv, ForwardEvent
    PROVE  /\ FeedIsTrue' /\ FeedSettles'
           /\ StreamIsTrue' /\ StreamSettles'
<1>1. /\ setting' = setting /\ venue' = venue /\ open' = open /\ link' = link
      /\ openAtResync' = openAtResync /\ tracked' = tracked
      /\ stream # <<>> /\ stream' = Tail(stream) /\ feed' = Append(feed, Head(stream))
  BY DEF ForwardEvent, Forward, engine
<1>2. Onward /\ HoldsNoMore
  BY <1>1, SameVenue DEF HoldsNoMore, Holds, IsTracked
<1>3. AccountEvent' = AccountEvent
  BY SameReports, <1>1
<1>4. /\ feed \in Seq(AccountEvent) /\ stream \in Seq(AccountEvent)
      /\ \A i \in DOMAIN feed : feed[i] \in AccountEvent /\ Tells(feed[i])
      /\ \A i \in DOMAIN stream : stream[i] \in AccountEvent /\ Tells(stream[i])
  BY DEF LifecycleInv, FeedIsTrue, StreamIsTrue
<1>5. PICK event : event = Head(stream)
  OBVIOUS
<1>6. /\ event \in AccountEvent /\ stream' \in Seq(AccountEvent)
      /\ Len(stream) \in Nat \ {0}
      /\ event = stream[1] /\ 1 \in DOMAIN stream
      /\ DOMAIN stream = 1..Len(stream) /\ DOMAIN stream' = 1..(Len(stream) - 1)
      /\ \A i \in 1..(Len(stream) - 1) : stream'[i] = stream[i + 1]
  BY <1>1, <1>4, <1>5, Taken
<1>7. /\ feed' \in Seq(AccountEvent)
      /\ Len(feed) \in Nat
      /\ DOMAIN feed = 1..Len(feed) /\ DOMAIN feed' = 1..(Len(feed) + 1)
      /\ \A i \in 1..Len(feed) : feed'[i] = feed[i]
      /\ feed'[Len(feed) + 1] = event
  BY <1>1, <1>4, <1>5, <1>6, Appended
<1>8. \A i \in DOMAIN feed' :
          \/ i \in DOMAIN feed /\ feed'[i] = feed[i]
          \/ i = Len(feed) + 1 /\ feed'[i] = event
  BY <1>7
<1>9. \A i \in DOMAIN stream' :
          /\ i + 1 \in DOMAIN stream /\ stream'[i] = stream[i + 1]
          /\ i = Len(stream') <=> i + 1 = Len(stream)
  <2>1. Len(stream') = Len(stream) - 1
    BY <1>1, <1>4, Taken
  <2> QED
    BY <2>1, <1>6
<1>10. Tells(event)
  BY <1>4, <1>6
<1>11. FeedIsTrue' /\ StreamIsTrue'
  BY <1>2, <1>3, <1>4, <1>6, <1>7, <1>8, <1>9, <1>10, StaysTold DEF FeedIsTrue, StreamIsTrue
<1>12. ASSUME NEW p \in DOMAIN feed, NEW c \in Cid
       PROVE  MayHoldAt(c, p)' => MayHoldAt(c, p)
  <2>1. \A i \in 1..(p - 1) : i \in DOMAIN feed /\ feed'[i] = feed[i]
    BY <1>7
  <2> QED
    BY <2>1, <1>2 DEF MayHoldAt, HoldsNoMore, Opens
<1>13. \A c \in Cid : MayBeRecorded(c) => Settles(event, c)
  BY <1>6 DEF LifecycleInv, StreamSettles
<1>14. FeedSettles'
  <2>1. \A c \in Cid : openAtResync[c] # NotRecorded => Settles(event, c)
    BY <1>13 DEF MayBeRecorded
  <2>2. \A p \in DOMAIN feed : feed[p].kind = "Reconnecting" =>
            \A c \in Cid : MayHoldAt(c, p) => Settles(event, c)
    BY <1>13 DEF MayBeRecorded
  <2>3. \A p, i \in DOMAIN feed' : p < i => p \in DOMAIN feed /\ feed'[p] = feed[p]
    BY <1>7
  <2> QED
    BY <1>1, <1>2, <1>8, <1>12, <2>1, <2>2, <2>3, StaysSettled
       DEF LifecycleInv, FeedSettles, Onward
<1>15. CASE event.kind = "Reconnecting"
  <2>1. Len(stream) = 1
    BY <1>15, <1>6 DEF LifecycleInv, StreamSettles
  <2>2. StreamSettles'
    BY <2>1, <1>6 DEF StreamSettles
  <2> QED
    BY <2>2, <1>11, <1>14
<1>16. CASE event.kind # "Reconnecting"
  <2>1. \A p \in DOMAIN feed' : feed'[p].kind = "Reconnecting" =>
            p \in DOMAIN feed /\ feed[p].kind = "Reconnecting"
    BY <1>8, <1>16
  <2>2. \A c \in Cid : MayBeRecorded(c)' => MayBeRecorded(c)
    BY <2>1, <1>1, <1>12 DEF MayBeRecorded
  <2>3. StreamSettles'
    BY <2>2, <1>1, <1>2, <1>9, StaysSettled DEF LifecycleInv, StreamSettles
  <2> QED
    BY <2>3, <1>11, <1>14
<1> QED
  BY <1>15, <1>16

-----------------------------------------------------------------------------
(* The engine takes an event.                                              *)

\* The event at the head of the feed gives way to events that say no more than it did.
LEMMA EngineTakes ==
    ASSUME LifecycleInv, UNCHANGED <<setting, outside>>, feed # <<>>,
           NEW front \in Seq(AccountEvent), feed' = front \o Tail(feed),
           \A i \in DOMAIN front :
              /\ Ordinary(front[i]) /\ Tells(front[i])
              /\ \A c \in Cid : Opens(front[i], c) => Opens(Head(feed), c),
           \A c \in Cid : Holds(c)' => Holds(c) \/ Opens(Head(feed), c),
           \A c \in Cid : openAtResync'[c] # NotRecorded =>
              \/ openAtResync[c] # NotRecorded
              \/ Head(feed).kind = "Reconnecting" /\ Holds(c)
    PROVE  /\ FeedIsTrue' /\ FeedSettles'
           /\ StreamIsTrue' /\ StreamSettles'
<1>1. /\ setting' = setting /\ venue' = venue /\ open' = open
      /\ stream' = stream /\ link' = link
  BY DEF outside
<1>2. Onward
  BY <1>1, SameVenue
<1>3. AccountEvent' = AccountEvent
  BY SameReports, <1>1
<1>4. /\ feed \in Seq(AccountEvent)
      /\ \A i \in DOMAIN feed : feed[i] \in AccountEvent /\ Tells(feed[i])
  BY DEF LifecycleInv, FeedIsTrue
<1> DEFINE n == Len(front)
<1>5. /\ Len(feed) \in Nat \ {0} /\ Tail(feed) \in Seq(AccountEvent)
      /\ Head(feed) = feed[1] /\ 1 \in DOMAIN feed
      /\ Len(Tail(feed)) = Len(feed) - 1
      /\ DOMAIN feed = 1..Len(feed)
      /\ \A i \in 1..(Len(feed) - 1) : Tail(feed)[i] = feed[i + 1]
  BY <1>4, Taken
<1>6. /\ feed' \in Seq(AccountEvent)
      /\ n \in Nat /\ DOMAIN front = 1..n
      /\ DOMAIN feed' = 1..(n + Len(feed) - 1)
      /\ \A i \in 1..n : feed'[i] = front[i]
      /\ \A i \in (n + 1)..(n + Len(feed) - 1) : feed'[i] = Tail(feed)[i - n]
  BY <1>5, Joined
<1> HIDE DEF n
<1>7. \A i \in (n + 1)..(n + Len(feed) - 1) :
          /\ i - n + 1 \in DOMAIN feed /\ 1 < i - n + 1
          /\ feed'[i] = feed[i - n + 1]
  <2> SUFFICES ASSUME NEW i \in (n + 1)..(n + Len(feed) - 1)
               PROVE  /\ i - n + 1 \in DOMAIN feed /\ 1 < i - n + 1
                      /\ feed'[i] = feed[i - n + 1]
    OBVIOUS
  <2>1. i - n \in 1..(Len(feed) - 1)
    BY <1>5, <1>6
  <2> QED
    BY <2>1, <1>5, <1>6
<1>8. \A i \in DOMAIN feed' :
          \/ i \in DOMAIN front /\ feed'[i] = front[i]
          \/ i \in (n + 1)..(n + Len(feed) - 1)
  BY <1>5, <1>6
<1>9. FeedIsTrue'
  <2>1. \A i \in DOMAIN front : front[i] \in AccountEvent
    BY <1>6
  <2> QED
    BY <1>2, <1>3, <1>4, <1>6, <1>7, <1>8, <2>1, StaysTold DEF FeedIsTrue
<1>10. ASSUME NEW p \in DOMAIN feed', feed'[p].kind = "Reconnecting", NEW c \in Cid, MayHoldAt(c, p)'
       PROVE  /\ p \in (n + 1)..(n + Len(feed) - 1)
              /\ feed[p - n + 1].kind = "Reconnecting" /\ MayHoldAt(c, p - n + 1)
  <2>1. p \in (n + 1)..(n + Len(feed) - 1)
    BY <1>8, <1>10 DEF Ordinary
  <2>2. PICK q : q = p - n + 1
    OBVIOUS
  <2>3. q \in Nat /\ 1 \in 1..(q - 1)
    BY <2>1, <2>2, <1>5, <1>6
  <2>4. MayHoldAt(c, q) <=> (Holds(c) \/ \E i \in 1..(q - 1) : Opens(feed[i], c))
    BY DEF MayHoldAt
  <2>5. Holds(c)' \/ \E i \in 1..(p - 1) : Opens(feed'[i], c)
    BY <1>10 DEF MayHoldAt, Opens
  <2>6. CASE Holds(c)'
    <3>1. Holds(c) \/ Opens(feed[1], c)
      BY <2>6, <1>5
    <3>2. MayHoldAt(c, q)
      BY <3>1, <2>3, <2>4
    <3> QED
      BY <3>2, <2>1, <2>2, <1>7, <1>10
  <2>7. ASSUME NEW i \in 1..(p - 1), Opens(feed'[i], c)
        PROVE  MayHoldAt(c, q)
    <3>1. i \in DOMAIN feed'
      BY <2>1, <1>5, <1>6
    <3>2. CASE i \in DOMAIN front /\ feed'[i] = front[i]
      <4>1. Opens(feed[1], c)
        BY <3>2, <2>7, <1>5
      <4> QED
        BY <4>1, <2>3, <2>4
    <3>3. CASE i \in (n + 1)..(n + Len(feed) - 1)
      <4>1. i - n + 1 \in 1..(q - 1)
        BY <3>3, <2>1, <2>2, <1>5, <1>6
      <4>2. Opens(feed[i - n + 1], c)
        BY <3>3, <2>7, <1>7
      <4> QED
        BY <4>1, <4>2, <2>4
    <3> QED
      BY <3>1, <3>2, <3>3, <1>8
  <2>8. MayHoldAt(c, q)
    BY <2>5, <2>6, <2>7, <2>2
  <2> QED
    BY <2>1, <2>2, <2>8, <1>7, <1>10
<1>11. \A c \in Cid : openAtResync'[c] # NotRecorded =>
          \/ openAtResync[c] # NotRecorded
          \/ feed[1].kind = "Reconnecting" /\ MayHoldAt(c, 1)
  BY <1>5 DEF MayHoldAt
<1>12. FeedSettles'
  <2>1. \A c \in Cid : openAtResync'[c] # NotRecorded =>
            venue[c].state # "none" /\ \A i \in DOMAIN feed : 1 < i => Settles(feed[i], c)
    <3>1. \A c \in Cid : openAtResync'[c] # NotRecorded => MayBeRecorded(c)
      BY <1>5, <1>11 DEF MayBeRecorded
    <3> QED
      BY <3>1, <1>5, <1>11, RecordedWasPlaced DEF LifecycleInv, FeedSettles
  <2>2. \A p \in (n + 1)..(n + Len(feed) - 1) : \A i \in DOMAIN feed' : p < i =>
            i \in (n + 1)..(n + Len(feed) - 1) /\ p - n + 1 < i - n + 1
    BY <1>5, <1>6
  <2>3. \A p \in DOMAIN feed' : feed'[p].kind = "Reconnecting" =>
            \A c \in Cid : MayHoldAt(c, p)' =>
                \A i \in DOMAIN feed' : p < i =>
                    /\ i \in (n + 1)..(n + Len(feed) - 1)
                    /\ Settles(feed[i - n + 1], c)
    BY <1>7, <1>10, <2>2 DEF LifecycleInv, FeedSettles
  <2>4. \A i \in DOMAIN front, c \in Cid : Settles(front[i], c)
    BY OrdinarySettles
  <2>5. \A c \in Cid : openAtResync'[c] # NotRecorded =>
            venue[c].state # "none" /\ \A i \in DOMAIN feed' : Settles(feed'[i], c)
    BY <1>7, <1>8, <2>1, <2>4
  <2>6. \A p \in DOMAIN feed' : feed'[p].kind = "Reconnecting" =>
            \A c \in Cid : MayHoldAt(c, p)' =>
                \A i \in DOMAIN feed' : p < i => Settles(feed'[i], c)
    BY <1>7, <2>3
  <2>7. \A e, c : Settles(e, c)' <=> Settles(e, c)
    BY <1>1 DEF Settles
  <2>8. (\A c \in Cid : openAtResync[c] # NotRecorded =>
            venue[c].state # "none" /\ \A i \in DOMAIN feed : Settles(feed[i], c))'
    BY <1>1, <2>5, <2>7
  <2>9. (\A p \in DOMAIN feed : feed[p].kind = "Reconnecting" =>
          \A c \in Cid : MayHoldAt(c, p) =>
              \A i \in DOMAIN feed : p < i => Settles(feed[i], c))'
    BY <2>6, <2>7
  <2> QED
    BY <2>8, <2>9 DEF FeedSettles
<1>13. \A c \in Cid : MayBeRecorded(c)' => MayBeRecorded(c)
  BY <1>5, <1>7, <1>10, <1>11 DEF MayBeRecorded
<1> QED
  BY <1>1, <1>2, <1>9, <1>12, <1>13, StreamStays

\* What the engine does with one order that it may track.
LEMMA OneOrder ==
    ASSUME LifecycleInv, UNCHANGED <<setting, venue, open>>, NEW c \in Cid,
           \/ UNCHANGED <<tracked, retired>>
           \/ Finished(c) /\ Retire(c)
           \/ Finished(c) /\ UNCHANGED tracked /\ retired' = Remember(retired, c)
           \/ Drop(c)
           \/ \E order : Agrees(c, order) /\ Keep(c, order) /\ UNCHANGED retired
    PROVE  TrackedAgrees' /\ RetiredIsFinished'
<1>1. /\ tracked \in [Cid -> Order \cup {Untracked}]
      /\ retired \in Seq(Cid) /\ Bounded(retired)
  BY WindowOfInv DEF LifecycleInv, OrdersInv, TypeOK
<1>2. RetiredIsFinished'
  <2>1. \A d \in Cid : Remembers(retired', d) => Remembers(retired, d) \/ (d = c /\ Finished(c))
    BY <1>1, RememberWindow DEF Retire, Drop
  <2> QED
    BY <2>1 DEF LifecycleInv, RetiredIsFinished, Finished, Remembers
<1>3. TrackedAgrees'
  <2>1. \A d \in Cid : tracked'[d] # Untracked => Agrees(d, tracked'[d])
    <3>1. \A d \in Cid : tracked[d] # Untracked => Agrees(d, tracked[d])
      BY DEF LifecycleInv, TrackedAgrees, IsTracked
    <3>2. CASE \E order : Agrees(c, order) /\ Keep(c, order)
      BY <3>1, <3>2, <1>1 DEF Keep
    <3>3. CASE tracked' = tracked
      BY <3>1, <3>3
    <3>4. CASE tracked' = [tracked EXCEPT ![c] = Untracked]
      BY <3>1, <3>4, <1>1
    <3> QED
      BY <3>2, <3>3, <3>4 DEF Retire, Drop
  <2> QED
    BY <2>1 DEF TrackedAgrees, IsTracked, Agrees, Size, MaxCancels
<1> QED
  BY <1>2, <1>3

LEMMA EngineTakesOne ==
    ASSUME LifecycleInv, UNCHANGED <<setting, outside>>, feed # <<>>, feed' = Tail(feed),
           \A c \in Cid : Holds(c)' => Holds(c) \/ Opens(Head(feed), c),
           \A c \in Cid : openAtResync'[c] # NotRecorded =>
              \/ openAtResync[c] # NotRecorded
              \/ Head(feed).kind = "Reconnecting" /\ Holds(c)
    PROVE  /\ FeedIsTrue' /\ FeedSettles'
           /\ StreamIsTrue' /\ StreamSettles'
<1>1. feed \in Seq(AccountEvent)
  BY DEF LifecycleInv, FeedIsTrue
<1>2. PICK front \in Seq(AccountEvent) : front = <<>>
  <2>1. <<>> \in Seq(AccountEvent)
    OBVIOUS
  <2> QED
    BY <2>1
<1>3. DOMAIN front = {} /\ feed' = front \o Tail(feed)
  BY <1>1, <1>2, Taken
<1> QED
  BY <1>3, EngineTakes

\* The event at the head of the feed is one, and true.
LEMMA HeadIsTrue ==
    ASSUME LifecycleInv, feed # <<>>
    PROVE  Head(feed) \in AccountEvent /\ Tells(Head(feed))
  BY Taken DEF LifecycleInv, FeedIsTrue

\* What update_from_order_snapshot makes of the reports of a venue and a manager.
LEMMA ReportEffect ==
    ASSUME OrdersInv, NEW s \in Snapshot, UpdateFromOrderSnapshot(s),
           s.state \in {"Open", "Ended", "NotPlaced", "OutcomeUnknown"}
    PROVE  \/ UNCHANGED <<tracked, retired>>
           \/ /\ s.state = "Open" => NothingRemains(s.quantity, s.open)
              /\ s.state # "OutcomeUnknown"
              /\ Retire(s.cid) \/ (UNCHANGED tracked /\ retired' = Remember(retired, s.cid))
           \/ /\ s.state = "Open"
              /\ ~NothingRemains(s.quantity, s.open) \/ Is(s.cid, "CancelInFlight")
              /\ \E order \in Order :
                    /\ Keep(s.cid, order) /\ UNCHANGED retired
                    /\ order.open = s.open
                    /\ order.quantity = IF IsTracked(s.cid) THEN tracked[s.cid].quantity
                                        ELSE s.quantity
                    /\ order.status = "CancelInFlight" => Is(s.cid, "CancelInFlight")
<1>1. /\ s.cid \in Cid
      /\ s.state = "Open" => s.open \in Open /\ AsOrder(s) \in Order
  BY SnapshotWellFormed DEF WellFormed, Active
<1>2. CASE UNCHANGED vars
  BY <1>2 DEF vars
<1>3. CASE ~IsTracked(s.cid) /\ UpdateUntracked(s) /\ s.state # "OutcomeUnknown"
  <2>1. CASE retired' = Remember(retired, s.cid) /\ UNCHANGED tracked
             /\ (s.state = "Open" => NothingRemains(s.quantity, s.open))
    BY <2>1, <1>3
  <2>2. CASE UNCHANGED vars
    BY <1>2, <2>2
  <2>3. CASE /\ s.state = "Open" /\ ~NothingRemains(s.quantity, s.open)
             /\ Keep(s.cid, AsOrder(s)) /\ UNCHANGED retired
    <3>1. PICK order : order = AsOrder(s)
      OBVIOUS
    <3>2. order.open = s.open /\ order.quantity = s.quantity /\ order.status = "Open"
      BY <2>3, <3>1 DEF AsOrder
    <3> QED
      BY <1>1, <1>3, <2>3, <3>1, <3>2
  <2> QED
    BY <1>3, <2>1, <2>2, <2>3 DEF UpdateUntracked, Active
<1>4. CASE IsTracked(s.cid) /\ s.state \notin Active /\ UpdateEnded(s) /\ s.state # "OutcomeUnknown"
  BY <1>4, <1>2 DEF UpdateEnded, Active
<1>5. CASE Is(s.cid, "OpenInFlight") \/ Is(s.cid, "Open")
  <2>1. IsTracked(s.cid) /\ tracked[s.cid] \in Order
    BY <1>1, <1>5, TrackedWellFormed DEF Is, WellFormed
  <2>2. CASE s.state = "Open" /\ NothingRemains(s.quantity, s.open) /\ Retire(s.cid)
    BY <2>2
  <2>3. CASE /\ s.state = "Open" /\ ~NothingRemains(s.quantity, s.open)
             /\ Keep(s.cid, AsOpen(tracked[s.cid], s.open)) /\ UNCHANGED retired
    <3>1. PICK order : order = AsOpen(tracked[s.cid], s.open)
      OBVIOUS
    <3>2. /\ order \in Order
          /\ order.open = s.open /\ order.quantity = tracked[s.cid].quantity
          /\ order.status = "Open"
      BY <2>1, <2>3, <1>1, <3>1 DEF AsOpen, Order
    <3> QED
      BY <2>1, <2>3, <3>1, <3>2
  <2> QED
    BY <1>2, <1>4, <1>5, <2>1, <2>2, <2>3
       DEF UpdateFromOrderSnapshot, UpdateOpenInFlight, UpdateOpen, IsFailedOpenToIgnore, Is, Active
<1>6. CASE Is(s.cid, "CancelInFlight") /\ s.state = "Open" /\ UpdateCancelInFlight(s)
  <2>1. IsTracked(s.cid) /\ tracked[s.cid] \in Order
    BY <1>1, <1>6, TrackedWellFormed DEF Is, WellFormed
  <2>2. CASE UNCHANGED vars
    BY <1>2, <2>2
  <2>3. CASE /\ Keep(s.cid, AsCancelInFlight(tracked[s.cid], s.open, tracked[s.cid].sent))
             /\ UNCHANGED retired
    <3>1. PICK order : order = AsCancelInFlight(tracked[s.cid], s.open, tracked[s.cid].sent)
      OBVIOUS
    <3>2. /\ order \in Order
          /\ order.open = s.open /\ order.quantity = tracked[s.cid].quantity
      BY <2>1, <1>1, <1>6, <3>1 DEF AsCancelInFlight, Order
    <3> QED
      BY <1>6, <2>1, <2>3, <3>1, <3>2
  <2> QED
    BY <1>6, <2>2, <2>3 DEF UpdateCancelInFlight
<1> QED
  BY <1>2, <1>3, <1>4, <1>5, <1>6
     DEF UpdateFromOrderSnapshot, IsFailedOpenToIgnore, Active

LEMMA TakeOrderEffect ==
    ASSUME LifecycleInv, TakeOrder
    PROVE  /\ Head(feed).order \in Snapshot /\ UpdateFromOrderSnapshot(Head(feed).order)
           /\ OrdersInv' /\ TrackedAgrees' /\ RetiredIsFinished'
           /\ \A c \in Cid : Holds(c)' => Holds(c) \/ Opens(Head(feed), c)
<1>1. PICK s : s = Head(feed).order
  OBVIOUS
<1>2. /\ setting' = setting /\ venue' = venue /\ open' = open
      /\ feed # <<>> /\ Head(feed).kind \in {"Order", "Listed"}
      /\ UpdateFromOrderSnapshot(s)
  BY <1>1 DEF TakeOrder, Takes, outside
<1>3. s \in OrderReport /\ IsTrue(s)
  BY <1>1, <1>2, HeadIsTrue, EventFields DEF Tells
<1>4. /\ s \in Snapshot /\ s.quantity = Size
      /\ s.state \in {"Open", "Ended", "NotPlaced", "OutcomeUnknown"}
      /\ s.state = "Open" => /\ s.open.id = NameOf[s.cid] /\ s.open.time = Now
                             /\ s.open.filled \in 0..Size
  BY <1>3 DEF OrderReport
<1>5. s.cid \in Cid /\ (s.state = "Open" => s.open \in Open)
  BY <1>4, SnapshotWellFormed
<1>6. OrdersInv /\ setting \in Settings
  BY DEF LifecycleInv, LifecycleTypeOK
<1>7. OrdersInv'
  BY <1>2, <1>4, <1>6, SnapshotStep
<1>8. Size \in Nat
  BY <1>6, Scales
<1>9. CASE UNCHANGED <<tracked, retired>>
  <2>1. TrackedAgrees' /\ RetiredIsFinished'
    BY <1>2, <1>5, <1>9, OneOrder
  <2> QED
    BY <1>1, <1>2, <1>4, <1>7, <1>9, <2>1 DEF Holds, IsTracked
<1>10. CASE /\ s.state = "Open" => NothingRemains(s.quantity, s.open)
            /\ s.state # "OutcomeUnknown"
            /\ Retire(s.cid) \/ (UNCHANGED tracked /\ retired' = Remember(retired, s.cid))
  <2>1. s.state = "Open" => s.open.filled = Size
    BY <1>4, <1>8, <1>10 DEF NothingRemains
  <2>2. Finished(s.cid)
    BY <2>1, <1>3, <1>4, <1>10 DEF IsTrue, Finished
  <2>3. TrackedAgrees' /\ RetiredIsFinished'
    BY <2>2, <1>2, <1>5, <1>10, OneOrder
  <2>4. \A c \in Cid : Holds(c)' => Holds(c)
    BY <1>10, <1>5, <1>6 DEF Holds, IsTracked, Retire, OrdersInv, TypeOK
  <2> QED
    BY <1>1, <1>2, <1>4, <1>7, <2>3, <2>4
<1>11. ASSUME s.state = "Open",
              ~NothingRemains(s.quantity, s.open) \/ Is(s.cid, "CancelInFlight"),
              NEW order \in Order, Keep(s.cid, order), UNCHANGED retired,
              order.open = s.open,
              order.quantity = IF IsTracked(s.cid) THEN tracked[s.cid].quantity ELSE s.quantity,
              order.status = "CancelInFlight" => Is(s.cid, "CancelInFlight")
       PROVE  /\ TrackedAgrees' /\ RetiredIsFinished'
              /\ \A c \in Cid : Holds(c)' => Holds(c) \/ Opens(Head(feed), c)
  <2>1. IsTracked(s.cid) => Agrees(s.cid, tracked[s.cid])
    BY <1>5 DEF LifecycleInv, TrackedAgrees
  <2>2. order.quantity = Size
    BY <2>1, <1>4, <1>11 DEF Agrees
  <2>3. Is(s.cid, "CancelInFlight") => MaxCancels > 0
    BY <2>1 DEF Agrees, Is
  <2>4. venue[s.cid].state # "none" /\ open[s.cid].phase # "unsent"
    BY <1>3, <1>5, <1>11 DEF IsTrue, LifecycleInv, RequestsAgree, RequestAgrees
  <2>5. s.open.filled = Size => setting.completesAsOpen /\ MaxCancels > 0
    BY <2>3, <1>3, <1>4, <1>8, <1>11 DEF IsTrue, NothingRemains
  <2>6. Agrees(s.cid, order)
    <3>1. s.open.filled \in 0..venue[s.cid].filled
      BY <1>3, <1>11 DEF IsTrue
    <3> QED
      BY <2>2, <2>3, <2>4, <2>5, <3>1, <1>4, <1>11 DEF Agrees
  <2>7. TrackedAgrees' /\ RetiredIsFinished'
    BY <2>6, <1>2, <1>5, <1>11, OneOrder
  <2>8. \A c \in Cid : Holds(c)' => Holds(c) \/ c = s.cid
    BY <1>5, <1>6, <1>11 DEF Holds, IsTracked, Keep, OrdersInv, TypeOK
  <2>9. Opens(Head(feed), s.cid)
    BY <1>1, <1>2, <1>11 DEF Opens
  <2> QED
    BY <2>7, <2>8, <2>9
<1>12. \/ UNCHANGED <<tracked, retired>>
       \/ /\ s.state = "Open" => NothingRemains(s.quantity, s.open)
          /\ s.state # "OutcomeUnknown"
          /\ Retire(s.cid) \/ (UNCHANGED tracked /\ retired' = Remember(retired, s.cid))
       \/ /\ s.state = "Open"
          /\ ~NothingRemains(s.quantity, s.open) \/ Is(s.cid, "CancelInFlight")
          /\ \E order \in Order :
                /\ Keep(s.cid, order) /\ UNCHANGED retired
                /\ order.open = s.open
                /\ order.quantity = IF IsTracked(s.cid) THEN tracked[s.cid].quantity
                                    ELSE s.quantity
                /\ order.status = "CancelInFlight" => Is(s.cid, "CancelInFlight")
  BY <1>2, <1>4, <1>6, ReportEffect
<1> QED
  BY <1>1, <1>2, <1>4, <1>7, <1>9, <1>10, <1>11, <1>12

\* A request that does not move agrees with a venue that does not either.
LEMMA RequestStands ==
    ASSUME setting' = setting, venue' = venue, NEW c \in Cid, RequestAgrees(c), open'[c] = open[c],
           \A k \in 1..MaxCancels : cancel'[c][k] = "accepted" => cancel[c][k] = "accepted"
    PROVE  RequestAgrees(c)'
<1>1. Size' = Size /\ MaxCancels' = MaxCancels /\ OrderReport' = OrderReport
  BY SameReports
<1>2. Finished(c) => Finished(c)'
  BY DEF Finished
<1>3. open[c].answer # NoAnswer => IsTrue(open[c].answer)'
  BY <1>1, <1>2 DEF RequestAgrees, IsTrue
<1> QED
  BY <1>1, <1>3 DEF RequestAgrees

\* The venue, the network and the manager see nothing of what the engine does.
LEMMA EngineTyped ==
    ASSUME LifecycleInv, UNCHANGED <<setting, outside>>, OrdersInv',
           openAtResync' \in [Cid -> VenueOrderId \cup {NotRecorded}],
           unproven' \in [Cid -> {"no", "inFlight", "other"}]
    PROVE  LifecycleTypeOK' /\ RequestsAgree'
<1>1. /\ setting' = setting /\ venue' = venue /\ open' = open /\ cancel' = cancel
      /\ link' = link
  BY DEF outside
<1>2. Size' = Size /\ MaxCancels' = MaxCancels /\ OrderReport' = OrderReport
  BY <1>1, SameReports
<1>3. LifecycleTypeOK'
  BY <1>1, <1>2 DEF LifecycleInv, LifecycleTypeOK, OrdersInv
<1>4. RequestsAgree'
  <2>1. \A d \in Cid : RequestAgrees(d)
    BY DEF LifecycleInv, RequestsAgree
  <2>2. ASSUME NEW d \in Cid PROVE RequestAgrees(d)'
    BY <1>1, <2>1, RequestStands
  <2> QED
    BY <2>2 DEF RequestsAgree
<1> QED
  BY <1>3, <1>4

LEMMA TakeOrderKeeps ==
    ASSUME LifecycleInv, TakeOrder
    PROVE  LifecycleInv' /\ Next
<1>1. /\ setting' = setting /\ outside' = outside /\ openAtResync' = openAtResync
      /\ unproven' = unproven
      /\ feed # <<>> /\ feed' = Tail(feed)
  BY DEF TakeOrder, Takes
<1>2. /\ Head(feed).order \in Snapshot /\ UpdateFromOrderSnapshot(Head(feed).order)
      /\ OrdersInv' /\ TrackedAgrees' /\ RetiredIsFinished'
      /\ \A c \in Cid : Holds(c)' => Holds(c) \/ Opens(Head(feed), c)
  BY TakeOrderEffect
<1>3. /\ FeedIsTrue' /\ FeedSettles'
      /\ StreamIsTrue' /\ StreamSettles'
  BY <1>1, <1>2, EngineTakesOne
<1>4. LifecycleTypeOK' /\ RequestsAgree'
  BY <1>1, <1>2, EngineTyped DEF LifecycleInv, LifecycleTypeOK
<1>5. Next
  BY <1>2 DEF Next
<1> QED
  BY <1>2, <1>3, <1>4, <1>5 DEF LifecycleInv

LEMMA TakeFillKeeps ==
    ASSUME LifecycleInv, TakeFill
    PROVE  LifecycleInv' /\ Next
<1>1. /\ setting' = setting /\ outside' = outside /\ openAtResync' = openAtResync
      /\ unproven' = unproven
      /\ venue' = venue /\ open' = open
      /\ feed # <<>> /\ feed' = Tail(feed) /\ Head(feed).kind = "Fill"
  BY DEF TakeFill, Takes, outside
<1>2. PICK c, filled : c = Head(feed).cid /\ filled = Head(feed).filled
  OBVIOUS
<1>3. /\ c \in Cid /\ filled \in 0..Size /\ filled \in 0..venue[c].filled
      /\ filled = Size => venue[c].state = "over"
  BY <1>1, <1>2, HeadIsTrue, EventFields DEF Tells
<1>4. UpdateFromFill(c, NameOf[c], filled)
  BY <1>2 DEF TakeFill
<1>5. /\ OrdersInv /\ Size \in Nat \ {0}
      /\ NameOf[c] \in OrderId /\ filled \in Amount
      /\ tracked \in [Cid -> Order \cup {Untracked}]
  BY <1>3, Scales, NameAssumption DEF LifecycleInv, LifecycleTypeOK, OrdersInv, TypeOK
<1>6. OrdersInv'
  BY <1>3, <1>4, <1>5, FillStep
<1>7. /\ TrackedAgrees' /\ RetiredIsFinished'
      /\ \A d \in Cid : Holds(d)' => Holds(d)
  <2>1. CASE UNCHANGED vars
    BY <1>1, <1>3, <2>1, OneOrder DEF vars, Holds, IsTracked
  <2>2. CASE Is(c, "Open") /\ tracked[c].quantity - filled <= 0 /\ Retire(c)
    <3>1. tracked[c].quantity = Size
      BY <1>3, <2>2 DEF Is, LifecycleInv, TrackedAgrees, Agrees
    <3>2. Finished(c)
      BY <3>1, <1>3, <1>5, <2>2 DEF Finished
    <3>3. TrackedAgrees' /\ RetiredIsFinished'
      BY <3>2, <1>1, <1>3, <2>2, OneOrder
    <3>4. \A d \in Cid : Holds(d)' => Holds(d)
      BY <1>3, <1>5, <2>2 DEF Holds, IsTracked, Retire
    <3> QED
      BY <3>3, <3>4
  <2>3. CASE /\ Is(c, "Open") /\ tracked[c].quantity - filled > 0
             /\ Keep(c, [tracked[c] EXCEPT !.open = [@ EXCEPT !.filled = filled]])
             /\ UNCHANGED retired
    <3>1. WellFormed(tracked[c]) /\ Agrees(c, tracked[c]) /\ IsTracked(c)
      BY <1>3, <1>5, <2>3, TrackedWellFormed DEF Is, LifecycleInv, TrackedAgrees
    <3>2. tracked[c].open \in Open /\ tracked[c] \in Order /\ Holds(c)
      BY <3>1, <2>3 DEF WellFormed, Order, Is, Holds
    <3>3. PICK order : order = [tracked[c] EXCEPT !.open = [@ EXCEPT !.filled = filled]]
      OBVIOUS
    <3>4. /\ order.quantity = tracked[c].quantity /\ order.status = tracked[c].status
          /\ order.open.id = tracked[c].open.id /\ order.open.filled = filled
          /\ order.open.time = tracked[c].open.time
      BY <3>2, <3>3 DEF Order, Open
    <3>5. tracked[c].quantity = Size /\ filled # Size /\ tracked[c].open # NoOpen
      BY <3>1, <3>2, <1>3, <1>5, <2>3 DEF Agrees, Holds
    <3>6. Agrees(c, order)
      BY <3>1, <3>4, <3>5, <1>3 DEF Agrees
    <3>7. TrackedAgrees' /\ RetiredIsFinished'
      BY <3>3, <3>6, <1>1, <1>3, <2>3, OneOrder
    <3>8. \A d \in Cid : Holds(d)' => Holds(d)
      BY <3>2, <1>3, <1>5, <2>3 DEF Holds, IsTracked, Keep
    <3> QED
      BY <3>7, <3>8
  <2> QED
    BY <1>4, <2>1, <2>2, <2>3 DEF UpdateFromFill
<1>8. /\ FeedIsTrue' /\ FeedSettles'
       /\ StreamIsTrue' /\ StreamSettles'
  BY <1>1, <1>7, EngineTakesOne
<1>9. LifecycleTypeOK' /\ RequestsAgree'
  BY <1>1, <1>6, EngineTyped DEF LifecycleInv, LifecycleTypeOK
<1>10. Next
  BY <1>3, <1>4, <1>5 DEF Next
<1> QED
  BY <1>6, <1>7, <1>8, <1>9, <1>10 DEF LifecycleInv

LEMMA TakeCancelledKeeps ==
    ASSUME LifecycleInv, TakeCancelled
    PROVE  LifecycleInv' /\ Next
<1>1. /\ setting' = setting /\ outside' = outside /\ openAtResync' = openAtResync
      /\ unproven' = unproven
      /\ venue' = venue /\ open' = open
      /\ feed # <<>> /\ feed' = Tail(feed) /\ Head(feed).kind = "Cancelled"
  BY DEF TakeCancelled, Takes, outside
<1>2. /\ Head(feed).cid \in Cid /\ Head(feed).ok \in BOOLEAN
      /\ Head(feed).ok => venue[Head(feed).cid].state = "over"
  BY <1>1, HeadIsTrue, EventFields DEF Tells
<1>3. UpdateFromCancelResponse(Head(feed).cid, Head(feed).ok)
  BY DEF TakeCancelled
<1>4. OrdersInv /\ tracked \in [Cid -> Order \cup {Untracked}]
  BY DEF LifecycleInv, OrdersInv, TypeOK
<1>5. OrdersInv'
  BY <1>2, <1>3, <1>4, CancelResponseStep
<1>6. PICK c \in Cid : c = Head(feed).cid
  BY <1>2
<1>7. /\ TrackedAgrees' /\ RetiredIsFinished'
      /\ \A d \in Cid : Holds(d)' => Holds(d)
  <2>1. CASE UNCHANGED vars
    BY <1>1, <2>1, OneOrder DEF vars, Holds, IsTracked
  <2>2. CASE Finished(c) /\ Retire(c)
    <3>1. TrackedAgrees' /\ RetiredIsFinished'
      BY <1>1, <2>2, OneOrder
    <3>2. \A d \in Cid : Holds(d)' => Holds(d)
      BY <1>4, <2>2 DEF Holds, IsTracked, Retire
    <3> QED
      BY <3>1, <3>2
  <2>3. CASE Drop(c)
    <3>1. TrackedAgrees' /\ RetiredIsFinished'
      BY <1>1, <2>3, OneOrder
    <3>2. \A d \in Cid : Holds(d)' => Holds(d)
      BY <1>4, <2>3 DEF Holds, IsTracked, Drop
    <3> QED
      BY <3>1, <3>2
  <2>4. CASE /\ Is(c, "CancelInFlight") /\ tracked[c].open # NoOpen
              /\ Keep(c, AsOpen(tracked[c], tracked[c].open)) /\ UNCHANGED retired
    <3>1. WellFormed(tracked[c]) /\ Agrees(c, tracked[c]) /\ Holds(c)
      BY <1>4, <2>4, TrackedWellFormed DEF Is, LifecycleInv, TrackedAgrees, Holds
    <3>2. PICK order : order = AsOpen(tracked[c], tracked[c].open)
      OBVIOUS
    <3>3. /\ order.quantity = tracked[c].quantity /\ order.status = "Open"
          /\ order.open = tracked[c].open
      BY <3>1, <3>2 DEF AsOpen, WellFormed, Order
    <3>4. Agrees(c, order)
      BY <3>1, <3>3 DEF Agrees
    <3>5. TrackedAgrees' /\ RetiredIsFinished'
      BY <3>2, <3>4, <1>1, <2>4, OneOrder
    <3>6. \A d \in Cid : Holds(d)' => Holds(d)
      BY <3>1, <1>4, <2>4 DEF Holds, IsTracked, Keep
    <3> QED
      BY <3>5, <3>6
  <2>5. Head(feed).ok => Finished(c)
    BY <1>2, <1>6 DEF Finished
  <2> QED
    BY <2>5, <1>3, <1>6, <2>1, <2>2, <2>3, <2>4 DEF UpdateFromCancelResponse
<1>8. /\ FeedIsTrue' /\ FeedSettles'
       /\ StreamIsTrue' /\ StreamSettles'
  BY <1>1, <1>7, EngineTakesOne
<1>9. LifecycleTypeOK' /\ RequestsAgree'
  BY <1>1, <1>5, EngineTyped DEF LifecycleInv, LifecycleTypeOK
<1>10. Next
  BY <1>2, <1>3 DEF Next
<1> QED
  BY <1>5, <1>7, <1>8, <1>9, <1>10 DEF LifecycleInv

LEMMA BeginAccountResyncKeeps ==
    ASSUME LifecycleInv, BeginAccountResync
    PROVE  LifecycleInv' /\ UNCHANGED vars
<1>1. /\ setting' = setting /\ outside' = outside /\ venue' = venue /\ open' = open
      /\ tracked' = tracked /\ retired' = retired /\ unproven' = unproven
      /\ feed # <<>> /\ feed' = Tail(feed) /\ Head(feed).kind = "Reconnecting"
      /\ openAtResync' = [c \in Cid |-> IF Is(c, "Open") THEN tracked[c].open.id ELSE NotRecorded]
  BY DEF BeginAccountResync, Takes, outside
<1>2. OrdersInv' /\ TrackedAgrees' /\ RetiredIsFinished'
  BY <1>1, SameVenue, EngineIdle
<1>3. \A c \in Cid : Is(c, "Open") => Holds(c) /\ tracked[c].open \in Open
  BY TrackedWellFormed DEF LifecycleInv, Is, Holds, WellFormed, Order
<1>4. openAtResync' \in [Cid -> VenueOrderId \cup {NotRecorded}]
  BY <1>1, <1>3 DEF Open
<1>5. \A c \in Cid : openAtResync'[c] # NotRecorded => Holds(c)
  BY <1>1, <1>3
<1>6. \A c \in Cid : Holds(c)' => Holds(c)
  BY <1>1 DEF Holds, IsTracked
<1>7. /\ FeedIsTrue' /\ FeedSettles'
      /\ StreamIsTrue' /\ StreamSettles'
  BY <1>1, <1>5, <1>6, EngineTakesOne
<1>8. LifecycleTypeOK' /\ RequestsAgree'
  BY <1>1, <1>2, <1>4, EngineTyped DEF LifecycleInv, LifecycleTypeOK
<1> QED
  BY <1>1, <1>2, <1>7, <1>8 DEF LifecycleInv, vars

LEMMA RemoveUnlistedKeeps ==
    ASSUME LifecycleInv, RemoveUnlisted
    PROVE  LifecycleInv' /\ Next
<1>1. /\ setting' = setting /\ outside' = outside /\ openAtResync' = openAtResync
      /\ unproven' = unproven
      /\ venue' = venue /\ open' = open
      /\ feed # <<>> /\ feed' = Tail(feed) /\ Head(feed).kind = "Unlisted"
  BY DEF RemoveUnlisted, Takes, outside
<1>2. PICK c, id : c = Head(feed).cid /\ id = Head(feed).id
  OBVIOUS
<1>3. c \in Cid /\ id \in VenueOrderId /\ Finished(c)
  BY <1>1, <1>2, HeadIsTrue, EventFields DEF Tells, Finished
<1>4. RemoveOpen(c, id)
  BY <1>2 DEF RemoveUnlisted
<1>5. OrdersInv /\ tracked \in [Cid -> Order \cup {Untracked}]
  BY DEF LifecycleInv, OrdersInv, TypeOK
<1>6. OrdersInv'
  BY <1>3, <1>4, <1>5, RemoveOpenStep
<1>7. Retire(c) \/ UNCHANGED <<tracked, retired>>
  BY <1>4 DEF RemoveOpen, vars
<1>8. TrackedAgrees' /\ RetiredIsFinished'
  BY <1>1, <1>3, <1>7, OneOrder
<1>9. \A d \in Cid : Holds(d)' => Holds(d)
  BY <1>3, <1>5, <1>7 DEF Holds, IsTracked, Retire
<1>10. /\ FeedIsTrue' /\ FeedSettles'
       /\ StreamIsTrue' /\ StreamSettles'
  BY <1>1, <1>9, EngineTakesOne
<1>11. LifecycleTypeOK' /\ RequestsAgree'
  BY <1>1, <1>6, EngineTyped DEF LifecycleInv, LifecycleTypeOK
<1>12. Next
  BY <1>3, <1>4 DEF Next
<1> QED
  BY <1>6, <1>8, <1>10, <1>11, <1>12 DEF LifecycleInv

\* The parts of an account snapshot, each true of its order.
LEMMA Parts ==
    ASSUME NEW S, NEW p \in Listings(S), IsFiniteSet(S)
    PROVE  /\ \E n \in Nat : DOMAIN p = 1..n
           /\ \A i \in DOMAIN p : p[i] \in S
<1>1. Cardinality(S) \in Nat
  BY FS_CardinalityType
<1>2. p \in [1..Cardinality(S) -> S]
  BY DEF Listings
<1> QED
  BY <1>1, <1>2

LEMMA ApplyAccountSnapshotKeeps ==
    ASSUME LifecycleInv, ApplyAccountSnapshot
    PROVE  LifecycleInv' /\ UNCHANGED vars
<1>1. /\ setting' = setting /\ outside' = outside /\ venue' = venue /\ open' = open
      /\ tracked' = tracked /\ retired' = retired
      /\ feed # <<>> /\ Head(feed).kind = "Listing"
      /\ openAtResync' = [c \in Cid |-> NotRecorded]
  BY DEF ApplyAccountSnapshot, Takes, outside
<1>2. unproven' \in [Cid -> {"no", "inFlight", "other"}]
  <2>1. unproven \in [Cid -> {"no", "inFlight", "other"}]
    BY DEF LifecycleInv, LifecycleTypeOK
  <2> QED
    BY <2>1 DEF ApplyAccountSnapshot
<1>3. OrdersInv' /\ TrackedAgrees' /\ RetiredIsFinished'
  BY <1>1, SameVenue, EngineIdle
<1>4. PICK head \in AccountEvent : head = Head(feed)
  BY <1>1, HeadIsTrue
<1>5. /\ head.listed \in SUBSET OrderReport /\ IsFiniteSet(head.listed)
      /\ \A s \in head.listed : s.state = "Open" /\ IsTrue(s)
  BY <1>1, <1>4, HeadIsTrue, EventFields DEF Tells
<1>6. LeftOut(head) \in SUBSET Cid /\ IsFiniteSet(LeftOut(head))
  <2>1. LeftOut(head) \in SUBSET Cid
    BY DEF LeftOut
  <2> QED
    BY <2>1, CidAssumption, FS_Subset
<1>7. \A c \in LeftOut(head) : venue[c].state = "over" /\ openAtResync[c] \in VenueOrderId
  <2> SUFFICES ASSUME NEW c \in LeftOut(head)
               PROVE  venue[c].state = "over" /\ openAtResync[c] \in VenueOrderId
    OBVIOUS
  <2>1. /\ c \in Cid /\ head.complete /\ openAtResync[c] # NotRecorded
        /\ \A s \in head.listed : s.cid # c
    BY DEF LeftOut
  <2>2. 1 \in DOMAIN feed /\ feed[1] = head
    BY <1>1, <1>4, Taken DEF LifecycleInv, FeedIsTrue
  <2>3. Settles(head, c)
    BY <2>1, <2>2 DEF LifecycleInv, FeedSettles
  <2>4. openAtResync[c] \in VenueOrderId
    BY <2>1 DEF LifecycleInv, LifecycleTypeOK
  <2> QED
    BY <2>1, <2>3, <2>4, <1>1, <1>4 DEF Settles
<1>8. PICK first \in Listings(head.listed), rest \in Listings(LeftOut(head)) :
          feed' = [i \in DOMAIN first |-> [kind |-> "Listed", order |-> first[i]]]
                  \o [i \in DOMAIN rest |-> UnlistedEvent(rest[i], openAtResync[rest[i]])]
                  \o Tail(feed)
  BY <1>4 DEF ApplyAccountSnapshot
<1>9. PICK listed : listed = [i \in DOMAIN first |-> [kind |-> "Listed", order |-> first[i]]]
  OBVIOUS
<1>10. PICK unlisted :
          unlisted = [i \in DOMAIN rest |-> UnlistedEvent(rest[i], openAtResync[rest[i]])]
  OBVIOUS
<1> DEFINE SaysNoMore(e) ==
              /\ Ordinary(e) /\ Tells(e)
              /\ \A c \in Cid : Opens(e, c) => Opens(head, c)
<1>11. listed \in Seq(AccountEvent) /\ \A i \in DOMAIN listed : SaysNoMore(listed[i])
  <2>1. PICK n \in Nat : DOMAIN first = 1..n
    BY <1>5, Parts
  <2>2. ASSUME NEW i \in 1..n
        PROVE  listed[i] \in AccountEvent /\ SaysNoMore(listed[i])
    <3>1. PICK s : s = first[i]
      OBVIOUS
    <3>2. s \in head.listed
      BY <2>1, <3>1, <1>5, Parts
    <3>3. s \in OrderReport /\ s.state = "Open" /\ IsTrue(s)
      BY <3>2, <1>5
    <3>4. listed[i] = [kind |-> "Listed", order |-> s]
      BY <2>1, <3>1, <1>9
    <3>5. listed[i] \in AccountEvent
      BY <3>3, <3>4 DEF AccountEvent
    <3>6. listed[i].kind = "Listed" /\ listed[i].order = s
      BY <3>4
    <3>7. Ordinary(listed[i]) /\ Tells(listed[i])
      BY <3>3, <3>6 DEF Ordinary, Tells
    <3>8. \A c \in Cid : Opens(listed[i], c) => Opens(head, c)
      BY <3>2, <3>6, <1>1, <1>4 DEF Opens
    <3> QED
      BY <3>5, <3>7, <3>8
  <2>3. DOMAIN listed = 1..n
    BY <2>1, <1>9
  <2>4. listed \in Seq(AccountEvent)
    <3>1. listed \in [1..n -> AccountEvent]
      BY <2>1, <2>2, <1>9
    <3> QED
      BY <3>1
  <2> QED
    BY <2>2, <2>3, <2>4
<1>12. unlisted \in Seq(AccountEvent) /\ \A i \in DOMAIN unlisted : SaysNoMore(unlisted[i])
  <2>1. PICK n \in Nat : DOMAIN rest = 1..n
    BY <1>6, Parts
  <2>2. ASSUME NEW i \in 1..n
        PROVE  unlisted[i] \in AccountEvent /\ SaysNoMore(unlisted[i])
    <3>1. PICK c : c = rest[i]
      OBVIOUS
    <3>2. c \in LeftOut(head)
      BY <2>1, <3>1, <1>6, Parts
    <3>3. c \in Cid /\ venue[c].state = "over" /\ openAtResync[c] \in VenueOrderId
      BY <3>2, <1>6, <1>7
    <3>4. unlisted[i] = UnlistedEvent(c, openAtResync[c])
      BY <2>1, <3>1, <1>10
    <3>5. /\ unlisted[i] \in AccountEvent
          /\ unlisted[i].kind = "Unlisted" /\ unlisted[i].cid = c
      BY <3>3, <3>4, Events
    <3>6. Ordinary(unlisted[i]) /\ Tells(unlisted[i])
      BY <3>3, <3>5 DEF Ordinary, Tells
    <3>7. \A d \in Cid : ~Opens(unlisted[i], d)
      BY <3>5 DEF Opens
    <3> QED
      BY <3>5, <3>6, <3>7
  <2>3. DOMAIN unlisted = 1..n
    BY <2>1, <1>10
  <2>4. unlisted \in Seq(AccountEvent)
    <3>1. unlisted \in [1..n -> AccountEvent]
      BY <2>1, <2>2, <1>10
    <3> QED
      BY <3>1
  <2> QED
    BY <2>2, <2>3, <2>4
<1> HIDE DEF SaysNoMore
<1>13. PICK front : front = listed \o unlisted
  OBVIOUS
<1>14. front \in Seq(AccountEvent) /\ \A i \in DOMAIN front : SaysNoMore(front[i])
  <2>1. /\ front \in Seq(AccountEvent)
        /\ Len(listed) \in Nat /\ Len(unlisted) \in Nat
        /\ DOMAIN listed = 1..Len(listed) /\ DOMAIN unlisted = 1..Len(unlisted)
        /\ DOMAIN front = 1..(Len(listed) + Len(unlisted))
        /\ \A i \in 1..Len(listed) : front[i] = listed[i]
        /\ \A i \in (Len(listed) + 1)..(Len(listed) + Len(unlisted)) :
              front[i] = unlisted[i - Len(listed)]
    BY <1>11, <1>12, <1>13, Joined
  <2>2. \A i \in (Len(listed) + 1)..(Len(listed) + Len(unlisted)) :
            i - Len(listed) \in DOMAIN unlisted
    BY <2>1
  <2>3. \A i \in DOMAIN front : i \in 1..Len(listed)
                             \/ i \in (Len(listed) + 1)..(Len(listed) + Len(unlisted))
    BY <2>1
  <2> QED
    BY <2>1, <2>2, <2>3, <1>11, <1>12
<1>15. feed' = front \o Tail(feed)
  BY <1>8, <1>9, <1>10, <1>13
<1>16. \A c \in Cid : Holds(c)' => Holds(c)
  BY <1>1 DEF Holds, IsTracked
<1>17. \A c \in Cid : openAtResync'[c] = NotRecorded
  BY <1>1
<1>18. /\ FeedIsTrue' /\ FeedSettles'
       /\ StreamIsTrue' /\ StreamSettles'
  BY <1>1, <1>4, <1>14, <1>15, <1>16, <1>17, EngineTakes DEF SaysNoMore
<1>19. LifecycleTypeOK' /\ RequestsAgree'
  BY <1>1, <1>2, <1>3, EngineTyped
<1> QED
  BY <1>1, <1>3, <1>18, <1>19 DEF LifecycleInv, vars

-----------------------------------------------------------------------------
(* The engine sends a request.                                             *)

\* A request as the manager keeps it.
OpenRequest == [phase  : {"unsent", "awaited", "lookedUp", "settled"},
                onWire : BOOLEAN,
                answer : Snapshot \cup {NoAnswer}]

LEMMA SendOpenKeeps ==
    ASSUME LifecycleInv, NEW c \in Cid, SendOpen(c)
    PROVE  LifecycleInv' /\ Next
<1>1. /\ setting' = setting /\ venue' = venue /\ cancel' = cancel /\ stream' = stream
      /\ link' = link /\ feed' = feed /\ openAtResync' = openAtResync /\ unproven' = unproven
      /\ ~IsTracked(c) /\ open[c].phase = "unsent"
      /\ RecordInFlightOpen(c, Size, 0)
  BY DEF SendOpen, Now
<1>2. PICK request :
          request = [phase |-> "awaited", onWire |-> TRUE, answer |-> NoAnswer]
  OBVIOUS
<1>3. /\ request \in OpenRequest /\ request.phase = "awaited" /\ request.onWire
      /\ request.answer = NoAnswer
  BY <1>2 DEF OpenRequest
<1>4. /\ open \in [Cid -> OpenRequest]
      /\ open' = [open EXCEPT ![c] = request]
  BY <1>2 DEF LifecycleInv, LifecycleTypeOK, OpenRequest, SendOpen
<1>5. \A d \in Cid : open'[d] = IF d = c THEN request ELSE open[d]
  BY <1>4
<1>6. venue[c].state = "none" /\ ~Finished(c)
  BY <1>1 DEF LifecycleInv, RequestsAgree, RequestAgrees, Finished
<1>7. Onward
  BY <1>1, <1>3, <1>5, <1>6 DEF Onward, Finished
<1>8. /\ OrdersInv /\ setting \in Settings
      /\ tracked \in [Cid -> Order \cup {Untracked}] /\ retired \in Seq(Cid) /\ Bounded(retired)
      /\ Size \in Quantity /\ 0 \in Time
  BY Scales, ScaleAssumption, WindowOfInv DEF LifecycleInv, LifecycleTypeOK, OrdersInv, TypeOK
<1>9. OrdersInv' /\ Next
  BY <1>1, <1>8, InFlightOpenStep DEF Next
<1>10. Size' = Size /\ MaxCancels' = MaxCancels /\ OrderReport' = OrderReport
  BY <1>1, SameReports
<1>11. PICK order : order = [quantity |-> Size, status |-> "OpenInFlight",
                             open |-> NoOpen, sent |-> 0]
  OBVIOUS
<1>12. Keep(c, order) /\ retired' = Forget(retired, c)
  BY <1>1, <1>11 DEF RecordInFlightOpen
<1>13. \A d \in Cid : tracked'[d] = IF d = c THEN order ELSE tracked[d]
  BY <1>8, <1>12 DEF Keep
<1>14. TrackedAgrees'
  <2>1. \A d \in Cid : d # c /\ tracked[d] # Untracked => Agrees(d, tracked[d])
    BY DEF LifecycleInv, TrackedAgrees, IsTracked
  <2>2. ASSUME NEW d \in Cid, d # c, tracked[d] # Untracked, Agrees(d, tracked[d])
        PROVE  Agrees(d, tracked[d])'
    BY <2>2, <1>1, <1>5, <1>10, <1>13 DEF Agrees
  <2>3. Agrees(c, tracked[c])'
    BY <1>3, <1>5, <1>10, <1>11, <1>13 DEF Agrees
  <2> QED
    BY <2>1, <2>2, <2>3, <1>13 DEF TrackedAgrees, IsTracked
<1>15. RetiredIsFinished'
  <2>1. \A d \in Cid : Remembers(retired', d) => d # c /\ Remembers(retired, d)
    BY <1>8, <1>12, ForgetWindow
  <2> QED
    BY <2>1, <1>1, <1>5 DEF LifecycleInv, RetiredIsFinished, Finished, Remembers
<1>16. HoldsNoMore
  BY <1>11, <1>13 DEF HoldsNoMore, Holds, IsTracked
<1>17. /\ FeedIsTrue' /\ FeedSettles'
       /\ StreamIsTrue' /\ StreamSettles'
  BY <1>1, <1>7, <1>16, FeedStays, StreamStays
<1>18. LifecycleTypeOK'
  <2>1. open' \in [Cid -> OpenRequest]
    BY <1>3, <1>4
  <2> QED
    BY <2>1, <1>1, <1>9, <1>10 DEF LifecycleInv, LifecycleTypeOK, OrdersInv, OpenRequest
<1>19. RequestsAgree'
  <2>1. \A d \in Cid : RequestAgrees(d)
    BY DEF LifecycleInv, RequestsAgree
  <2>2. ASSUME NEW d \in Cid, d # c PROVE RequestAgrees(d)'
    BY <1>1, <1>5, <2>1, <2>2, RequestStands
  <2>3. RequestAgrees(c)'
    BY <1>1, <1>3, <1>5, <1>6, <1>10, <2>1 DEF RequestAgrees
  <2> QED
    BY <2>2, <2>3 DEF RequestsAgree
<1> QED
  BY <1>9, <1>14, <1>15, <1>17, <1>18, <1>19 DEF LifecycleInv

LEMMA SendCancelKeeps ==
    ASSUME LifecycleInv, NEW c \in Cid, NEW k \in 1..MaxCancels, SendCancel(c, k)
    PROVE  LifecycleInv' /\ Next
<1>1. /\ setting' = setting /\ venue' = venue /\ open' = open /\ stream' = stream
      /\ link' = link /\ feed' = feed /\ openAtResync' = openAtResync /\ unproven' = unproven
      /\ IsTracked(c)
      /\ RecordInFlightCancel(c, 0)
      /\ cancel' = [cancel EXCEPT ![c][k] = "onWire"]
  BY DEF SendCancel, Now
<1>2. Onward
  BY <1>1, SameVenue
<1>3. /\ OrdersInv /\ setting \in Settings
      /\ tracked \in [Cid -> Order \cup {Untracked}]
      /\ MaxCancels \in Nat /\ 0 \in Time
  BY Scales, ScaleAssumption DEF LifecycleInv, LifecycleTypeOK, OrdersInv, TypeOK
<1>4. OrdersInv' /\ Next
  BY <1>1, <1>3, InFlightCancelStep DEF Next
<1>5. Size' = Size /\ MaxCancels' = MaxCancels /\ OrderReport' = OrderReport
  BY <1>1, SameReports
<1>6. TrackedAgrees' /\ RetiredIsFinished' /\ HoldsNoMore
  <2>1. CASE UNCHANGED vars
    BY <2>1, <1>1, OneOrder DEF vars, HoldsNoMore, Holds, IsTracked
  <2>2. CASE /\ Keep(c, AsCancelInFlight(tracked[c], tracked[c].open, 0))
             /\ UNCHANGED retired
    <3>1. Agrees(c, tracked[c]) /\ tracked[c] \in Order
      BY <1>1, <1>3, TrackedWellFormed DEF LifecycleInv, TrackedAgrees, WellFormed
    <3>2. PICK order : order = AsCancelInFlight(tracked[c], tracked[c].open, 0)
      OBVIOUS
    <3>3. order.quantity = tracked[c].quantity /\ order.open = tracked[c].open
      BY <3>1, <3>2 DEF AsCancelInFlight, Order
    <3>4. MaxCancels > 0
      BY <1>3
    <3>5. Agrees(c, order)
      BY <3>1, <3>3, <3>4 DEF Agrees
    <3>6. TrackedAgrees' /\ RetiredIsFinished'
      BY <3>2, <3>5, <2>2, <1>1, OneOrder
    <3>7. HoldsNoMore
      BY <3>2, <3>3, <2>2, <1>1, <1>3 DEF HoldsNoMore, Holds, IsTracked, Keep
    <3> QED
      BY <3>6, <3>7
  <2> QED
    BY <2>1, <2>2, <1>1 DEF RecordInFlightCancel
<1>7. /\ FeedIsTrue' /\ FeedSettles'
      /\ StreamIsTrue' /\ StreamSettles'
  BY <1>1, <1>2, <1>6, FeedStays, StreamStays
<1>8. \A d \in Cid, j \in 1..MaxCancels :
          cancel'[d][j] = IF d = c /\ j = k THEN "onWire" ELSE cancel[d][j]
  BY <1>1 DEF LifecycleInv, LifecycleTypeOK
<1>9. LifecycleTypeOK'
  <2>1. cancel' \in [Cid -> [1..MaxCancels ->
                {"unsent", "onWire", "late", "lost", "accepted", "refused", "done"}]]
    BY <1>1 DEF LifecycleInv, LifecycleTypeOK
  <2> QED
    BY <2>1, <1>1, <1>4, <1>5 DEF LifecycleInv, LifecycleTypeOK, OrdersInv
<1>10. RequestsAgree'
  <2>1. \A d \in Cid : RequestAgrees(d)
    BY DEF LifecycleInv, RequestsAgree
  <2>2. ASSUME NEW d \in Cid PROVE RequestAgrees(d)'
    BY <1>1, <1>8, <2>1, RequestStands
  <2> QED
    BY <2>2 DEF RequestsAgree
<1> QED
  BY <1>4, <1>6, <1>7, <1>9, <1>10 DEF LifecycleInv

-----------------------------------------------------------------------------
(* The venue, the network and the manager.                                 *)

\* What the venue holds of an order.
VenueOrder == [state : {"none", "live", "over"}, filled : 0..Size]

CancelState == {"unsent", "onWire", "late", "lost", "accepted", "refused", "done"}

LEMMA TypesOfRequests ==
    ASSUME LifecycleInv
    PROVE  /\ setting \in Settings
           /\ venue \in [Cid -> VenueOrder]
           /\ open \in [Cid -> OpenRequest]
           /\ cancel \in [Cid -> [1..MaxCancels -> CancelState]]
           /\ link \in {"up", "down", "subscribed"}
  BY DEF LifecycleInv, LifecycleTypeOK, VenueOrder, OpenRequest, CancelState

LEMMA OutsideMoves ==
    ASSUME LifecycleInv, Onward, UNCHANGED <<setting, engine>>,
           venue' \in [Cid -> VenueOrder],
           open' \in [Cid -> OpenRequest],
           cancel' \in [Cid -> [1..MaxCancels -> CancelState]],
           link' \in {"up", "down", "subscribed"},
           FeedIsTrue' /\ FeedSettles' /\ StreamIsTrue' /\ StreamSettles',
           RequestsAgree'
    PROVE  LifecycleInv' /\ UNCHANGED vars
<1>1. /\ tracked' = tracked /\ retired' = retired /\ openAtResync' = openAtResync
      /\ unproven' = unproven /\ setting' = setting
  BY DEF engine
<1>2. OrdersInv' /\ TrackedAgrees' /\ RetiredIsFinished'
  BY <1>1, EngineIdle
<1>3. Size' = Size /\ MaxCancels' = MaxCancels
  BY <1>1, SameReports
<1>4. LifecycleTypeOK'
  BY <1>1, <1>2, <1>3
     DEF LifecycleInv, LifecycleTypeOK, OrdersInv, VenueOrder, OpenRequest, CancelState
<1> QED
  BY <1>1, <1>2, <1>4 DEF LifecycleInv, vars

\* An order that a step leaves alone.
LEMMA OthersAgree ==
    ASSUME LifecycleInv, Onward, NEW c \in Cid,
           venue'[c] = venue[c], open'[c] = open[c], cancel'[c] = cancel[c]
    PROVE  RequestAgrees(c)'
<1>1. RequestAgrees(c)
  BY DEF LifecycleInv, RequestsAgree
<1>2. Size' = Size /\ MaxCancels' = MaxCancels /\ OrderReport' = OrderReport
  BY SameReports DEF Onward
<1>3. PICK answer : answer = open[c].answer
  OBVIOUS
<1>4. answer \in OrderReport /\ IsTrue(answer) => IsTrue(answer)'
  BY StaysTrue
<1>5. IsTrue(answer)' <=> IsTrue(open[c].answer)'
  BY <1>3 DEF IsTrue
<1> QED
  BY <1>1, <1>2, <1>3, <1>4, <1>5 DEF RequestAgrees

\* The engine's record is untouched.
LEMMA EngineRests ==
    ASSUME UNCHANGED engine
    PROVE  UNCHANGED <<tracked, retired, openAtResync, unproven>> /\ HoldsNoMore
  BY DEF engine, HoldsNoMore, Holds, IsTracked

LEMMA VenueTakesOpenKeeps ==
    ASSUME LifecycleInv, NEW c \in Cid, VenueTakesOpen(c)
    PROVE  LifecycleInv' /\ UNCHANGED vars
<1>1. /\ setting' = setting /\ cancel' = cancel /\ link' = link /\ feed' = feed
      /\ engine' = engine /\ open[c].onWire
  BY DEF VenueTakesOpen
<1>2. UNCHANGED <<tracked, retired, openAtResync, unproven>> /\ HoldsNoMore
  BY <1>1, EngineRests
<1>3. /\ setting \in Settings /\ venue \in [Cid -> VenueOrder] /\ open \in [Cid -> OpenRequest]
      /\ cancel \in [Cid -> [1..MaxCancels -> CancelState]]
      /\ link \in {"up", "down", "subscribed"}
      /\ Size \in Nat \ {0} /\ 0 \in 0..Size /\ Size \in 0..Size
  BY TypesOfRequests, Scales
<1>4. RequestAgrees(c)
  BY DEF LifecycleInv, RequestsAgree
<1>5. PICK outcome \in {"rests", "refused", "fills"} :
        /\ venue' = [venue EXCEPT ![c] =
                        [state  |-> IF outcome = "rests" THEN "live" ELSE "over",
                         filled |-> IF outcome = "fills" THEN Size ELSE 0]]
        /\ Emit(CASE outcome = "rests" -> <<OrderEvent(OpenReport(c, 0))>>
                  [] outcome = "refused" -> <<>>
                  [] outcome = "fills" -> <<FillEvent(c, Size), OrderEvent(Report(c, "Ended"))>>)
        /\ open' = [open EXCEPT ![c] =
                [@ EXCEPT !.onWire = FALSE,
                          !.answer = IF open[c].phase # "awaited" THEN open[c].answer
                                     ELSE IF outcome = "rests" THEN OpenReport(c, 0)
                                     ELSE Report(c, "Ended")]]
  BY DEF VenueTakesOpen
<1>6. PICK order : order = [state  |-> IF outcome = "rests" THEN "live" ELSE "over",
                            filled |-> IF outcome = "fills" THEN Size ELSE 0]
  OBVIOUS
<1>7. /\ order \in VenueOrder /\ order.state = IF outcome = "rests" THEN "live" ELSE "over"
      /\ outcome = "rests" => order.filled < Size
      /\ outcome = "fills" => order.filled = Size
      /\ order.filled \in Nat
  BY <1>3, <1>6 DEF VenueOrder
<1>8. PICK request :
        request = [open[c] EXCEPT !.onWire = FALSE,
                                  !.answer = IF open[c].phase # "awaited" THEN open[c].answer
                                             ELSE IF outcome = "rests" THEN OpenReport(c, 0)
                                             ELSE Report(c, "Ended")]
  OBVIOUS
<1>9. /\ OpenReport(c, 0) \in OrderReport /\ OpenReport(c, 0).cid = c
      /\ OpenReport(c, 0).state = "Open" /\ OpenReport(c, 0).open.filled = 0
      /\ Report(c, "Ended") \in OrderReport /\ Report(c, "Ended").cid = c
      /\ Report(c, "Ended").state = "Ended"
      /\ OrderReport \subseteq Snapshot
  BY <1>3, Reporting DEF OrderReport
<1>10. /\ open[c] \in OpenRequest
       /\ request \in OpenRequest /\ request.phase = open[c].phase /\ ~request.onWire
       /\ \/ request.answer = open[c].answer
          \/ outcome = "rests" /\ request.answer = OpenReport(c, 0)
          \/ outcome # "rests" /\ request.answer = Report(c, "Ended")
  BY <1>3, <1>8, <1>9 DEF OpenRequest
<1>11. /\ venue' = [venue EXCEPT ![c] = order]
       /\ open' = [open EXCEPT ![c] = request]
  <2>1. venue' = [venue EXCEPT ![c] = order]
    BY <1>5, <1>6
  <2>2. open' = [open EXCEPT ![c] = request]
    BY <1>5, <1>8
  <2> QED
    BY <2>1, <2>2
<1>12. /\ venue' \in [Cid -> VenueOrder] /\ open' \in [Cid -> OpenRequest]
       /\ \A d \in Cid : venue'[d] = IF d = c THEN order ELSE venue[d]
       /\ \A d \in Cid : open'[d] = IF d = c THEN request ELSE open[d]
  BY <1>3, <1>7, <1>10, <1>11
<1>13. venue[c].state = "none" /\ open[c].phase # "unsent" /\ venue[c].filled = 0
  BY <1>1, <1>4 DEF RequestAgrees
<1>14. Onward
  <2>1. 0..venue[c].filled \subseteq 0..order.filled
    BY <1>7, <1>13
  <2>2. ASSUME NEW d \in Cid PROVE 0..venue[d].filled \subseteq 0..venue'[d].filled
    BY <1>12, <2>1
  <2> QED
    BY <2>2, <1>1, <1>10, <1>12, <1>13 DEF Onward, Finished
<1>15. Size' = Size /\ MaxCancels' = MaxCancels /\ OrderReport' = OrderReport
  BY <1>1, SameReports
<1>16. RequestsAgree'
  <2>1. RequestAgrees(c)'
    <3>1. request.answer # NoAnswer =>
            request.answer \in OrderReport /\ request.answer.cid = c /\ IsTrue(request.answer)'
      <4>1. CASE request.answer = open[c].answer
        BY <4>1, <1>4, <1>14, StaysTrue DEF RequestAgrees
      <4>2. ASSUME NEW s, s = OpenReport(c, 0), outcome = "rests", request.answer = s
            PROVE  IsTrue(request.answer)'
        <5>1. 0 \in 0..order.filled
          BY <1>7
        <5> QED
          BY <4>2, <5>1, <1>3, <1>7, <1>9, <1>12, <1>15 DEF IsTrue
      <4>3. ASSUME NEW s, s = Report(c, "Ended"), outcome # "rests", request.answer = s
            PROVE  IsTrue(request.answer)'
        BY <4>3, <1>7, <1>9, <1>12 DEF IsTrue
      <4> QED
        BY <4>1, <4>2, <4>3, <1>9, <1>10
    <3>2. IsTrue(open[c].answer)' <=> IsTrue(request.answer)'
      BY <1>12 DEF IsTrue
    <3>3. \A k \in 1..MaxCancels : cancel[c][k] # "accepted"
      BY <1>4, <1>13 DEF RequestAgrees
    <3> QED
      BY <3>1, <3>2, <3>3, <1>1, <1>7, <1>10, <1>12, <1>13, <1>15 DEF RequestAgrees
  <2>2. \A d \in Cid : d # c => RequestAgrees(d)'
    BY <1>1, <1>12, <1>14, OthersAgree
  <2> QED
    BY <2>1, <2>2 DEF RequestsAgree
<1>17. /\ FeedIsTrue' /\ FeedSettles'
       /\ StreamIsTrue' /\ StreamSettles'
  <2>1. CASE outcome = "rests"
    <3>1. PICK s \in OrderReport : s = OpenReport(c, 0)
      BY <1>9
    <3>2. PICK e \in AccountEvent : e = OrderEvent(s)
      BY Events
    <3>3. e.kind = "Order" /\ e.order = s
      BY <3>2, Events
    <3>4. Ordinary(e) /\ Tells(e)'
      <4>1. 0 \in 0..order.filled
        BY <1>7
      <4> QED
        BY <2>1, <3>1, <3>3, <4>1, <1>3, <1>7, <1>9, <1>12, <1>15 DEF Ordinary, Tells, IsTrue
    <3>5. PICK events : events = <<e>>
      OBVIOUS
    <3>6. events \in Seq(AccountEvent) /\ \A i \in DOMAIN events : events[i] = e
      BY <3>5, OneOrTwo
    <3>7. Emit(events)
      BY <2>1, <3>1, <3>2, <3>5, <1>5
    <3> QED
      BY <3>4, <3>6, <3>7, <1>1, <1>2, <1>14, Emitted
  <2>2. CASE outcome = "refused"
    <3>1. PICK events : events = <<>>
      OBVIOUS
    <3>2. events \in Seq(AccountEvent) /\ DOMAIN events = {}
      BY <3>1
    <3>3. Emit(events)
      BY <2>2, <3>1, <1>5
    <3> QED
      BY <3>2, <3>3, <1>1, <1>2, <1>14, Emitted
  <2>3. CASE outcome = "fills"
    <3>1. PICK s \in OrderReport : s = Report(c, "Ended")
      BY <1>9
    <3>2. PICK e \in AccountEvent : e = OrderEvent(s)
      BY Events
    <3>3. PICK f \in AccountEvent : f = FillEvent(c, Size)
      BY <1>3, Events
    <3>4. /\ e.kind = "Order" /\ e.order = s
          /\ f.kind = "Fill" /\ f.cid = c /\ f.filled = Size
      BY <3>2, <3>3, <1>3, Events
    <3>5. Ordinary(e) /\ Tells(e)' /\ Ordinary(f) /\ Tells(f)'
      <4>1. Size \in 0..order.filled
        BY <1>3, <1>7, <2>3
      <4> QED
        BY <2>3, <3>1, <3>4, <4>1, <1>7, <1>9, <1>12 DEF Ordinary, Tells, IsTrue
    <3>6. PICK events : events = <<f, e>>
      OBVIOUS
    <3>7. events \in Seq(AccountEvent) /\ \A i \in DOMAIN events : events[i] = e \/ events[i] = f
      BY <3>6, OneOrTwo
    <3>8. Emit(events)
      BY <2>3, <3>1, <3>2, <3>3, <3>6, <1>5
    <3> QED
      BY <3>5, <3>7, <3>8, <1>1, <1>2, <1>14, Emitted
  <2> QED
    BY <2>1, <2>2, <2>3
<1> QED
  BY <1>1, <1>3, <1>12, <1>14, <1>16, <1>17, OutsideMoves

\* A live order trades on, or ends.
LEMMA LiveMoves ==
    ASSUME LifecycleInv, NEW c \in Cid, Live(c),
           NEW order \in VenueOrder, order.state # "none",
           order.state = "live" => order.filled < Size,
           0..venue[c].filled \subseteq 0..order.filled,
           venue' = [venue EXCEPT ![c] = order],
           UNCHANGED <<setting, open, link, feed, engine>>,
           cancel' \in [Cid -> [1..MaxCancels -> CancelState]],
           \A d \in Cid, k \in 1..MaxCancels :
               cancel'[d][k] = "accepted" => cancel[d][k] = "accepted" \/ venue'[d].state = "over",
           NEW events \in Seq(AccountEvent), Emit(events),
           \A i \in DOMAIN events : Ordinary(events[i]) /\ Tells(events[i])'
    PROVE  LifecycleInv' /\ UNCHANGED vars
<1>1. /\ setting' = setting /\ open' = open /\ link' = link /\ feed' = feed /\ engine' = engine
      /\ venue[c].state = "live"
  BY DEF Live
<1>2. UNCHANGED <<tracked, retired, openAtResync, unproven>> /\ HoldsNoMore
  BY <1>1, EngineRests
<1>3. /\ venue \in [Cid -> VenueOrder] /\ open \in [Cid -> OpenRequest]
      /\ link \in {"up", "down", "subscribed"}
  BY TypesOfRequests
<1>4. /\ venue' \in [Cid -> VenueOrder]
      /\ \A d \in Cid : venue'[d] = IF d = c THEN order ELSE venue[d]
  BY <1>3
<1>5. Onward
  BY <1>1, <1>4 DEF Onward, Finished
<1>6. Size' = Size /\ MaxCancels' = MaxCancels /\ OrderReport' = OrderReport
  BY <1>1, SameReports
<1>7. RequestsAgree'
  <2> SUFFICES ASSUME NEW d \in Cid PROVE RequestAgrees(d)'
    BY DEF RequestsAgree
  <2>1. RequestAgrees(d)
    BY DEF LifecycleInv, RequestsAgree
  <2>2. PICK answer : answer = open[d].answer
    OBVIOUS
  <2>3. open[d].answer # NoAnswer => IsTrue(open[d].answer)'
    <3>1. answer # NoAnswer => IsTrue(answer)'
      BY <2>1, <2>2, <1>5, StaysTrue DEF RequestAgrees
    <3> QED
      BY <3>1, <2>2, <1>1 DEF IsTrue
  <2>4. \A k \in 1..MaxCancels : cancel'[d][k] = "accepted" => venue'[d].state = "over"
    BY <2>1, <1>5 DEF RequestAgrees, Onward
  <2>5. /\ venue'[d].state = "live" => venue'[d].filled < Size
        /\ open[d].onWire \/ open[d].phase = "unsent" => venue'[d].state = "none"
    BY <2>1, <1>1, <1>4 DEF RequestAgrees
  <2> QED
    BY <2>1, <2>3, <2>4, <2>5, <1>1, <1>6 DEF RequestAgrees
<1>8. /\ FeedIsTrue' /\ FeedSettles'
      /\ StreamIsTrue' /\ StreamSettles'
  BY <1>1, <1>2, <1>5, Emitted
<1> QED
  BY <1>1, <1>3, <1>4, <1>5, <1>7, <1>8, OutsideMoves

LEMMA VenueFillsKeeps ==
    ASSUME LifecycleInv, NEW c \in Cid, VenueFills(c)
    PROVE  LifecycleInv' /\ UNCHANGED vars
<1>1. /\ setting' = setting /\ open' = open /\ link' = link /\ feed' = feed /\ engine' = engine
      /\ cancel' = cancel /\ Live(c) /\ venue[c].state = "live"
  BY DEF VenueFills, Live
<1>2. /\ setting \in Settings /\ venue \in [Cid -> VenueOrder]
      /\ cancel \in [Cid -> [1..MaxCancels -> CancelState]]
      /\ Size \in Nat \ {0} /\ OrderReport' = OrderReport /\ Size' = Size
  BY <1>1, TypesOfRequests, Scales, SameReports
<1>3. PICK filled : filled = venue[c].filled + 1
  OBVIOUS
<1>4. filled \in 0..Size
  BY <1>1, <1>2, <1>3 DEF LifecycleInv, RequestsAgree, RequestAgrees, VenueOrder
<1>5. PICK order : order = [state |-> IF filled = Size THEN "over" ELSE "live", filled |-> filled]
  OBVIOUS
<1>6. /\ order \in VenueOrder /\ order.state # "none"
      /\ order.state = "live" => order.filled < Size
      /\ filled = Size => order.state = "over"
      /\ order.filled = filled /\ filled \in 0..order.filled
      /\ 0..venue[c].filled \subseteq 0..order.filled
  <2>1. order \in VenueOrder /\ order.filled = filled /\ venue[c].filled \in Nat
    BY <1>2, <1>4, <1>5 DEF VenueOrder
  <2>2. filled \in 0..order.filled /\ 0..venue[c].filled \subseteq 0..order.filled
    BY <2>1, <1>3, <1>4
  <2> QED
    BY <2>1, <2>2, <1>2, <1>4, <1>5
<1>7. /\ venue' = [venue EXCEPT ![c] = order]
      /\ \/ filled < Size /\ Emit(<<FillEvent(c, filled)>>)
         \/ filled < Size /\ Emit(<<OrderEvent(OpenReport(c, filled))>>)
         \/ filled = Size /\ setting.completesAsOpen /\ Emit(<<OrderEvent(OpenReport(c, filled))>>)
         \/ filled = Size /\ Emit(<<FillEvent(c, filled), OrderEvent(Report(c, "Ended"))>>)
  BY <1>3, <1>5 DEF VenueFills
<1>8. venue'[c] = order
  BY <1>2, <1>7
<1>9. PICK fill \in AccountEvent : fill = FillEvent(c, filled)
  BY <1>4, Events
<1>10. PICK opened \in OrderReport : opened = OpenReport(c, filled)
  BY <1>2, <1>4, Reporting
<1>11. PICK ended \in OrderReport : ended = Report(c, "Ended")
  BY <1>2, Reporting
<1>12. PICK report \in AccountEvent : report = OrderEvent(opened)
  BY Events
<1>13. PICK end \in AccountEvent : end = OrderEvent(ended)
  BY Events
<1>14. Ordinary(fill) /\ Tells(fill)'
  <2>1. fill.kind = "Fill" /\ fill.cid = c /\ fill.filled = filled
    BY <1>4, <1>9, Events
  <2> QED
    BY <2>1, <1>2, <1>6, <1>8 DEF Ordinary, Tells
<1>15. filled < Size \/ setting.completesAsOpen => Ordinary(report) /\ Tells(report)'
  <2>1. report.kind = "Order" /\ report.order = opened
    BY <1>12, Events
  <2>2. opened.cid = c /\ opened.state = "Open" /\ opened.open.filled = filled
    BY <1>2, <1>4, <1>10, Reporting
  <2> QED
    BY <2>1, <2>2, <1>1, <1>2, <1>4, <1>6, <1>8 DEF Ordinary, Tells, IsTrue
<1>16. filled = Size => Ordinary(end) /\ Tells(end)'
  <2>1. end.kind = "Order" /\ end.order = ended
    BY <1>13, Events
  <2>2. ended.cid = c /\ ended.state = "Ended"
    BY <1>2, <1>11, Reporting
  <2> QED
    BY <2>1, <2>2, <1>6, <1>8 DEF Ordinary, Tells, IsTrue
<1>17. PICK events \in {<<fill>>, <<report>>, <<fill, end>>} :
          /\ Emit(events)
          /\ events = <<report>> => filled < Size \/ setting.completesAsOpen
          /\ events = <<fill, end>> => filled = Size
  <2>1. CASE filled < Size /\ Emit(<<FillEvent(c, filled)>>)
    <3>1. <<fill>> # <<fill, end>> /\ <<fill>> \in {<<fill>>, <<report>>, <<fill, end>>}
      OBVIOUS
    <3> QED
      BY <2>1, <3>1, <1>9
  <2>2. CASE (filled < Size \/ setting.completesAsOpen) /\ Emit(<<OrderEvent(OpenReport(c, filled))>>)
    <3>1. <<report>> # <<fill, end>> /\ <<report>> \in {<<fill>>, <<report>>, <<fill, end>>}
      OBVIOUS
    <3> QED
      BY <2>2, <3>1, <1>10, <1>12
  <2>3. CASE filled = Size /\ Emit(<<FillEvent(c, filled), OrderEvent(Report(c, "Ended"))>>)
    <3>1. <<report>> # <<fill, end>> /\ <<fill, end>> \in {<<fill>>, <<report>>, <<fill, end>>}
      OBVIOUS
    <3> QED
      BY <2>3, <3>1, <1>9, <1>11, <1>13
  <2> QED
    BY <2>1, <2>2, <2>3, <1>7
<1>18. events \in Seq(AccountEvent) /\ \A i \in DOMAIN events : Ordinary(events[i]) /\ Tells(events[i])'
  <2>1. CASE events = <<fill>>
    BY <2>1, <1>14, OneOrTwo
  <2>2. CASE events = <<report>>
    <3>1. /\ events \in Seq(AccountEvent) /\ \A i \in DOMAIN events : events[i] = report
      BY <2>2, OneOrTwo
    <3> QED
      BY <2>2, <3>1, <1>15, <1>17
  <2>3. CASE events = <<fill, end>>
    <3>1. /\ events \in Seq(AccountEvent)
          /\ \A i \in DOMAIN events : events[i] = fill \/ events[i] = end
      BY <2>3, OneOrTwo
    <3> QED
      BY <2>3, <3>1, <1>14, <1>16, <1>17
  <2> QED
    BY <2>1, <2>2, <2>3
<1>19. \A d \in Cid, k \in 1..MaxCancels :
           cancel'[d][k] = "accepted" => cancel[d][k] = "accepted" \/ venue'[d].state = "over"
  BY <1>1
<1> QED
  BY <1>1, <1>2, <1>6, <1>7, <1>17, <1>18, <1>19, LiveMoves

\* The venue reports the end of an order.
LEMMA EndReported ==
    ASSUME setting \in Settings, NEW c \in Cid, venue'[c].state = "over"
    PROVE  \E events \in Seq(AccountEvent) :
              /\ events = <<OrderEvent(Report(c, "Ended"))>>
              /\ \A i \in DOMAIN events : Ordinary(events[i]) /\ Tells(events[i])'
<1>1. PICK s \in OrderReport : s = Report(c, "Ended")
  BY Reporting
<1>2. s.cid = c /\ s.state = "Ended"
  BY <1>1, Reporting
<1>3. PICK e \in AccountEvent : e = OrderEvent(s)
  BY Events
<1>4. e.kind = "Order" /\ e.order = s
  BY <1>3, Events
<1>5. Ordinary(e) /\ Tells(e)'
  BY <1>2, <1>4 DEF Ordinary, Tells, IsTrue
<1>6. PICK events : events = <<e>>
  OBVIOUS
<1>7. events \in Seq(AccountEvent) /\ \A i \in DOMAIN events : events[i] = e
  BY <1>6, OneOrTwo
<1>8. \A i \in DOMAIN events : Ordinary(events[i]) /\ Tells(events[i])'
  BY <1>5, <1>7
<1> QED
  BY <1>1, <1>3, <1>6, <1>7, <1>8

LEMMA VenueEndsKeeps ==
    ASSUME LifecycleInv, NEW c \in Cid, VenueEnds(c)
    PROVE  LifecycleInv' /\ UNCHANGED vars
<1>1. /\ setting' = setting /\ open' = open /\ link' = link /\ feed' = feed /\ engine' = engine
      /\ cancel' = cancel /\ Live(c) /\ Emit(<<OrderEvent(Report(c, "Ended"))>>)
  BY DEF VenueEnds
<1>2. /\ setting \in Settings /\ venue \in [Cid -> VenueOrder]
      /\ cancel \in [Cid -> [1..MaxCancels -> CancelState]]
  BY TypesOfRequests
<1>3. PICK order \in VenueOrder :
          /\ order.state = "over" /\ order.filled = venue[c].filled
          /\ venue' = [venue EXCEPT ![c] = order]
  BY <1>2 DEF VenueEnds, VenueOrder
<1>4. venue'[c].state = "over"
  BY <1>2, <1>3
<1>5. PICK events \in Seq(AccountEvent) :
          /\ events = <<OrderEvent(Report(c, "Ended"))>>
          /\ \A i \in DOMAIN events : Ordinary(events[i]) /\ Tells(events[i])'
  BY <1>2, <1>4, EndReported
<1>6. \A d \in Cid, k \in 1..MaxCancels :
          cancel'[d][k] = "accepted" => cancel[d][k] = "accepted" \/ venue'[d].state = "over"
  BY <1>1
<1> QED
  BY <1>1, <1>2, <1>3, <1>5, <1>6, LiveMoves

\* A cancel request moves on, and nothing else.
LEMMA CancelMoves ==
    ASSUME LifecycleInv, NEW c \in Cid, NEW k \in 1..MaxCancels,
           NEW state \in CancelState, state # "accepted",
           cancel' = [cancel EXCEPT ![c][k] = state],
           UNCHANGED <<setting, venue, open, link, engine>>
    PROVE  /\ Onward /\ HoldsNoMore /\ UNCHANGED <<openAtResync>>
           /\ FeedIsTrue' /\ FeedSettles' /\ StreamIsTrue' /\ StreamSettles'
              => LifecycleInv' /\ UNCHANGED vars
<1>1. /\ setting' = setting /\ venue' = venue /\ open' = open /\ link' = link /\ engine' = engine
  OBVIOUS
<1>2. Onward /\ HoldsNoMore /\ openAtResync' = openAtResync
  BY <1>1, SameVenue, EngineRests
<1>3. /\ venue \in [Cid -> VenueOrder] /\ open \in [Cid -> OpenRequest]
      /\ cancel \in [Cid -> [1..MaxCancels -> CancelState]]
      /\ link \in {"up", "down", "subscribed"}
  BY TypesOfRequests
<1>4. cancel' \in [Cid -> [1..MaxCancels -> CancelState]]
  BY <1>3
<1>5. \A d \in Cid, j \in 1..MaxCancels : cancel'[d][j] = "accepted" => cancel[d][j] = "accepted"
  BY <1>3
<1>6. Size' = Size /\ MaxCancels' = MaxCancels /\ OrderReport' = OrderReport
  BY <1>1, SameReports
<1>7. RequestsAgree'
  <2>1. \A d \in Cid : RequestAgrees(d)
    BY DEF LifecycleInv, RequestsAgree
  <2>2. ASSUME NEW d \in Cid PROVE RequestAgrees(d)'
    BY <1>1, <1>5, <2>1, RequestStands
  <2> QED
    BY <2>2, <1>6 DEF RequestsAgree
<1> QED
  BY <1>1, <1>2, <1>3, <1>4, <1>7, OutsideMoves

LEMMA VenueTakesCancelKeeps ==
    ASSUME LifecycleInv, NEW c \in Cid, NEW k \in 1..MaxCancels, VenueTakesCancel(c, k)
    PROVE  LifecycleInv' /\ UNCHANGED vars
<1>1. /\ setting' = setting /\ open' = open /\ link' = link /\ feed' = feed /\ engine' = engine
  BY DEF VenueTakesCancel
<1>2. /\ setting \in Settings /\ venue \in [Cid -> VenueOrder]
      /\ cancel \in [Cid -> [1..MaxCancels -> CancelState]]
  BY TypesOfRequests
<1>3. CASE Live(c)
  <2>1. PICK state \in CancelState : cancel' = [cancel EXCEPT ![c][k] = state]
    BY <1>2 DEF VenueTakesCancel, CancelState
  <2>2. PICK order \in VenueOrder :
            /\ order.state = "over" /\ order.filled = venue[c].filled
            /\ venue' = [venue EXCEPT ![c] = order]
    BY <1>2, <1>3 DEF VenueTakesCancel, VenueOrder
  <2>3. venue'[c].state = "over"
    BY <1>2, <2>2
  <2>4. PICK events \in Seq(AccountEvent) :
            /\ events = <<OrderEvent(Report(c, "Ended"))>>
            /\ \A i \in DOMAIN events : Ordinary(events[i]) /\ Tells(events[i])'
    BY <1>2, <2>3, EndReported
  <2>5. Emit(events)
    BY <1>3, <2>4 DEF VenueTakesCancel
  <2>6. cancel' \in [Cid -> [1..MaxCancels -> CancelState]]
    BY <1>2, <2>1
  <2>7. \A d \in Cid, j \in 1..MaxCancels :
            cancel'[d][j] = "accepted" => cancel[d][j] = "accepted" \/ venue'[d].state = "over"
    BY <1>2, <2>1, <2>3
  <2> QED
    BY <1>1, <1>3, <2>2, <2>4, <2>5, <2>6, <2>7, LiveMoves
<1>4. CASE ~Live(c)
  <2>1. PICK state \in CancelState : state # "accepted" /\ cancel' = [cancel EXCEPT ![c][k] = state]
    BY <1>2, <1>4 DEF VenueTakesCancel, CancelState
  <2>2. venue' = venue /\ stream' = stream
    BY <1>4 DEF VenueTakesCancel, Emit
  <2>3. Onward /\ HoldsNoMore /\ openAtResync' = openAtResync
    BY <1>1, <2>1, <2>2, CancelMoves
  <2>4. FeedIsTrue' /\ FeedSettles' /\ StreamIsTrue' /\ StreamSettles'
    BY <1>1, <2>2, <2>3, FeedStays, StreamStays
  <2> QED
    BY <1>1, <2>1, <2>2, <2>4, CancelMoves
<1> QED
  BY <1>3, <1>4

-----------------------------------------------------------------------------
(* The network, the manager and the account stream.                        *)

\* An open request moves on, and nothing else.
LEMMA OpenMoves ==
    ASSUME LifecycleInv, NEW c \in Cid, open[c].phase # "unsent",
           NEW request \in OpenRequest,
           request.phase # "unsent",
           request.onWire => open[c].onWire,
           request.answer # NoAnswer =>
               request.answer \in OrderReport /\ request.answer.cid = c /\ IsTrue(request.answer),
           open' = [open EXCEPT ![c] = request],
           UNCHANGED <<setting, venue, cancel, link, engine>>
    PROVE  /\ Onward /\ HoldsNoMore /\ UNCHANGED <<openAtResync>>
           /\ FeedIsTrue' /\ FeedSettles' /\ StreamIsTrue' /\ StreamSettles'
              => LifecycleInv' /\ UNCHANGED vars
<1>1. /\ setting' = setting /\ venue' = venue /\ cancel' = cancel /\ link' = link
      /\ engine' = engine
  OBVIOUS
<1>2. HoldsNoMore /\ openAtResync' = openAtResync
  BY <1>1, EngineRests
<1>3. /\ venue \in [Cid -> VenueOrder] /\ open \in [Cid -> OpenRequest]
      /\ cancel \in [Cid -> [1..MaxCancels -> CancelState]]
      /\ link \in {"up", "down", "subscribed"}
  BY TypesOfRequests
<1>4. /\ open' \in [Cid -> OpenRequest]
      /\ \A d \in Cid : open'[d] = IF d = c THEN request ELSE open[d]
  BY <1>3
<1>5. Onward
  BY <1>1, <1>4 DEF Onward, Finished
<1>6. Size' = Size /\ MaxCancels' = MaxCancels /\ OrderReport' = OrderReport
  BY <1>1, SameReports
<1>7. RequestsAgree'
  <2>1. RequestAgrees(c)'
    <3>1. request.answer # NoAnswer => IsTrue(request.answer)'
      BY <1>5, StaysTrue
    <3>2. IsTrue(open[c].answer)' <=> IsTrue(request.answer)'
      BY <1>4 DEF IsTrue
    <3>3. RequestAgrees(c)
      BY DEF LifecycleInv, RequestsAgree
    <3> QED
      BY <3>1, <3>2, <3>3, <1>1, <1>4, <1>6 DEF RequestAgrees
  <2>2. \A d \in Cid : d # c => RequestAgrees(d)'
    BY <1>1, <1>4, <1>5, OthersAgree
  <2> QED
    BY <2>1, <2>2 DEF RequestsAgree
<1> QED
  BY <1>1, <1>2, <1>3, <1>4, <1>5, <1>7, OutsideMoves

LEMMA LoseOpenKeeps ==
    ASSUME LifecycleInv, NEW c \in Cid, LoseOpen(c)
    PROVE  LifecycleInv' /\ UNCHANGED vars
<1>1. /\ setting' = setting /\ venue' = venue /\ cancel' = cancel /\ stream' = stream
      /\ link' = link /\ feed' = feed /\ engine' = engine /\ open[c].onWire
  BY DEF LoseOpen
<1>2. open \in [Cid -> OpenRequest] /\ RequestAgrees(c)
  BY TypesOfRequests DEF LifecycleInv, RequestsAgree
<1>3. PICK request : request = [open[c] EXCEPT !.onWire = FALSE]
  OBVIOUS
<1>4. /\ request \in OpenRequest /\ request.phase = open[c].phase /\ ~request.onWire
      /\ request.answer = open[c].answer
  BY <1>2, <1>3 DEF OpenRequest
<1>5. open' = [open EXCEPT ![c] = request]
  BY <1>3 DEF LoseOpen
<1>6. /\ open[c].phase # "unsent"
      /\ request.answer # NoAnswer =>
            request.answer \in OrderReport /\ request.answer.cid = c /\ IsTrue(request.answer)
  BY <1>1, <1>2, <1>4 DEF RequestAgrees
<1>7. Onward /\ HoldsNoMore /\ openAtResync' = openAtResync
  BY <1>1, <1>4, <1>5, <1>6, OpenMoves
<1>8. FeedIsTrue' /\ FeedSettles' /\ StreamIsTrue' /\ StreamSettles'
  BY <1>1, <1>7, FeedStays, StreamStays
<1> QED
  BY <1>1, <1>4, <1>5, <1>6, <1>8, OpenMoves

LEMMA LoseCancelKeeps ==
    ASSUME LifecycleInv, NEW c \in Cid, NEW k \in 1..MaxCancels, LoseCancel(c, k)
    PROVE  LifecycleInv' /\ UNCHANGED vars
<1>1. /\ setting' = setting /\ venue' = venue /\ open' = open /\ stream' = stream
      /\ link' = link /\ feed' = feed /\ engine' = engine
  BY DEF LoseCancel
<1>2. PICK state \in CancelState : state # "accepted" /\ cancel' = [cancel EXCEPT ![c][k] = state]
  BY TypesOfRequests DEF LoseCancel, CancelState
<1>3. Onward /\ HoldsNoMore /\ openAtResync' = openAtResync
  BY <1>1, <1>2, CancelMoves
<1>4. FeedIsTrue' /\ FeedSettles' /\ StreamIsTrue' /\ StreamSettles'
  BY <1>1, <1>3, FeedStays, StreamStays
<1> QED
  BY <1>1, <1>2, <1>4, CancelMoves

LEMMA ForwardAnswerKeeps ==
    ASSUME LifecycleInv, NEW c \in Cid, ForwardAnswer(c)
    PROVE  LifecycleInv' /\ UNCHANGED vars
<1>1. /\ setting' = setting /\ venue' = venue /\ cancel' = cancel /\ stream' = stream
      /\ link' = link /\ engine' = engine /\ open[c].answer # NoAnswer
      /\ feed' = Append(feed, OrderEvent(open[c].answer))
  BY DEF ForwardAnswer, Forward
<1>2. open \in [Cid -> OpenRequest] /\ RequestAgrees(c)
  BY TypesOfRequests DEF LifecycleInv, RequestsAgree
<1>3. PICK request : request = [open[c] EXCEPT !.phase = "settled", !.answer = NoAnswer]
  OBVIOUS
<1>4. /\ request \in OpenRequest /\ request.phase = "settled"
      /\ request.onWire = open[c].onWire /\ request.answer = NoAnswer
  BY <1>2, <1>3 DEF OpenRequest
<1>5. open' = [open EXCEPT ![c] = request]
  BY <1>3 DEF ForwardAnswer
<1>6. open[c].phase # "unsent"
  BY <1>1, <1>2 DEF RequestAgrees
<1>7. Onward /\ HoldsNoMore /\ openAtResync' = openAtResync
  BY <1>1, <1>4, <1>5, <1>6, OpenMoves
<1>8. PICK s \in OrderReport : s = open[c].answer /\ IsTrue(s)
  BY <1>1, <1>2 DEF RequestAgrees
<1>9. PICK e \in AccountEvent : e = OrderEvent(s)
  BY Events
<1>10. e.kind = "Order" /\ e.order = s
  BY <1>9, Events
<1>11. Ordinary(e) /\ Tells(e)
  BY <1>8, <1>10 DEF Ordinary, Tells
<1>12. Tells(e)'
  BY <1>7, <1>11, StaysTold
<1>13. FeedIsTrue' /\ FeedSettles' /\ StreamIsTrue' /\ StreamSettles'
  BY <1>1, <1>7, <1>8, <1>9, <1>11, <1>12, Forwarded
<1> QED
  BY <1>1, <1>4, <1>5, <1>6, <1>13, OpenMoves

LEMMA TimeoutOpenKeeps ==
    ASSUME LifecycleInv, NEW c \in Cid, TimeoutOpen(c)
    PROVE  LifecycleInv' /\ UNCHANGED vars
<1>1. /\ setting' = setting /\ venue' = venue /\ cancel' = cancel /\ stream' = stream
      /\ link' = link /\ engine' = engine /\ open[c].phase = "awaited"
      /\ feed' = Append(feed, OrderEvent(Report(c, "OutcomeUnknown")))
  BY DEF TimeoutOpen, Forward
<1>2. open \in [Cid -> OpenRequest] /\ setting \in Settings
  BY TypesOfRequests
<1>3. PICK request : request = [open[c] EXCEPT !.phase = "lookedUp", !.answer = NoAnswer]
  OBVIOUS
<1>4. /\ request \in OpenRequest /\ request.phase = "lookedUp"
      /\ request.onWire = open[c].onWire /\ request.answer = NoAnswer
  BY <1>2, <1>3 DEF OpenRequest
<1>5. open' = [open EXCEPT ![c] = request]
  BY <1>3 DEF TimeoutOpen
<1>6. Onward /\ HoldsNoMore /\ openAtResync' = openAtResync
  BY <1>1, <1>4, <1>5, OpenMoves
<1>7. PICK s \in OrderReport : s = Report(c, "OutcomeUnknown") /\ s.state = "OutcomeUnknown"
  BY <1>2, Reporting
<1>8. PICK e \in AccountEvent : e = OrderEvent(s)
  BY Events
<1>9. e.kind = "Order" /\ e.order = s
  BY <1>8, Events
<1>10. Ordinary(e) /\ Tells(e)'
  BY <1>7, <1>9 DEF Ordinary, Tells, IsTrue
<1>11. FeedIsTrue' /\ FeedSettles' /\ StreamIsTrue' /\ StreamSettles'
  BY <1>1, <1>6, <1>7, <1>8, <1>10, Forwarded
<1> QED
  BY <1>1, <1>4, <1>5, <1>11, OpenMoves

LEMMA LookUpKeeps ==
    ASSUME LifecycleInv, NEW c \in Cid, LookUp(c)
    PROVE  LifecycleInv' /\ UNCHANGED vars
<1>1. /\ setting' = setting /\ venue' = venue /\ cancel' = cancel /\ stream' = stream
      /\ link' = link /\ feed' = feed /\ engine' = engine
      /\ open[c].phase = "lookedUp"
      /\ venue[c].state = "none" => ~open[c].onWire
  BY DEF LookUp
<1>2. open \in [Cid -> OpenRequest] /\ setting \in Settings
  BY TypesOfRequests
<1>3. PICK s : s = IF venue[c].state = "none" THEN Report(c, "NotPlaced") ELSE StateAtVenue(c)
  OBVIOUS
<1>4. s \in OrderReport /\ s.cid = c /\ IsTrue(s)
  <2>1. CASE venue[c].state = "none"
    <3>1. s \in OrderReport /\ s.cid = c /\ s.state = "NotPlaced"
      BY <2>1, <1>2, <1>3, Reporting
    <3> QED
      BY <3>1, <2>1, <1>1 DEF IsTrue, Finished
  <2>2. CASE venue[c].state # "none"
    BY <2>2, <1>3, AnswerAtVenue
  <2> QED
    BY <2>1, <2>2
<1>5. s \in Snapshot
  BY <1>4 DEF OrderReport
<1>6. PICK request : request = [open[c] EXCEPT !.answer = s]
  OBVIOUS
<1>7. /\ request \in OpenRequest /\ request.phase = open[c].phase
      /\ request.onWire = open[c].onWire /\ request.answer = s
  BY <1>2, <1>5, <1>6 DEF OpenRequest
<1>8. open' = [open EXCEPT ![c] = request]
  BY <1>3, <1>6 DEF LookUp
<1>9. Onward /\ HoldsNoMore /\ openAtResync' = openAtResync
  BY <1>1, <1>4, <1>7, <1>8, OpenMoves
<1>10. FeedIsTrue' /\ FeedSettles' /\ StreamIsTrue' /\ StreamSettles'
  BY <1>1, <1>9, FeedStays, StreamStays
<1> QED
  BY <1>1, <1>4, <1>7, <1>8, <1>10, OpenMoves

LEMMA LookupsRunOutKeeps ==
    ASSUME LifecycleInv, NEW c \in Cid, LookupsRunOut(c)
    PROVE  LifecycleInv' /\ UNCHANGED vars
<1>1. /\ setting' = setting /\ venue' = venue /\ cancel' = cancel /\ stream' = stream
      /\ link' = link /\ feed' = feed /\ engine' = engine
      /\ open[c].phase = "lookedUp" /\ open[c].answer = NoAnswer
  BY DEF LookupsRunOut
<1>2. open \in [Cid -> OpenRequest]
  BY TypesOfRequests
<1>3. PICK request : request = [open[c] EXCEPT !.phase = "settled"]
  OBVIOUS
<1>4. /\ request \in OpenRequest /\ request.phase = "settled"
      /\ request.onWire = open[c].onWire /\ request.answer = NoAnswer
  BY <1>1, <1>2, <1>3 DEF OpenRequest
<1>5. open' = [open EXCEPT ![c] = request]
  BY <1>3 DEF LookupsRunOut
<1>6. Onward /\ HoldsNoMore /\ openAtResync' = openAtResync
  BY <1>1, <1>4, <1>5, OpenMoves
<1>7. FeedIsTrue' /\ FeedSettles' /\ StreamIsTrue' /\ StreamSettles'
  BY <1>1, <1>6, FeedStays, StreamStays
<1> QED
  BY <1>1, <1>4, <1>5, <1>7, OpenMoves

\* The manager tells the engine how a cancel request went.
LEMMA CancelAnswered ==
    ASSUME LifecycleInv, NEW c \in Cid, NEW k \in 1..MaxCancels, NEW ok \in BOOLEAN,
           ok => venue[c].state = "over",
           NEW state \in CancelState, state # "accepted",
           cancel' = [cancel EXCEPT ![c][k] = state],
           UNCHANGED <<setting, venue, open, stream, link, engine>>,
           feed' = Append(feed, CancelEvent(c, ok))
    PROVE  LifecycleInv' /\ UNCHANGED vars
<1>1. /\ setting' = setting /\ venue' = venue /\ open' = open /\ stream' = stream
      /\ link' = link /\ engine' = engine
  OBVIOUS
<1>2. Onward /\ HoldsNoMore /\ openAtResync' = openAtResync
  BY <1>1, CancelMoves
<1>3. PICK e \in AccountEvent : e = CancelEvent(c, ok)
  BY Events
<1>4. e.kind = "Cancelled" /\ e.cid = c /\ (e.ok <=> ok)
  BY <1>3, Events
<1>5. Ordinary(e) /\ Tells(e)
  BY <1>4 DEF Ordinary, Tells
<1>6. Tells(e)'
  BY <1>2, <1>5, StaysTold
<1>7. FeedIsTrue' /\ FeedSettles' /\ StreamIsTrue' /\ StreamSettles'
  BY <1>1, <1>2, <1>3, <1>5, <1>6, Forwarded
<1> QED
  BY <1>1, <1>7, CancelMoves

LEMMA ForwardCancelAnswerKeeps ==
    ASSUME LifecycleInv, NEW c \in Cid, NEW k \in 1..MaxCancels, ForwardCancelAnswer(c, k)
    PROVE  LifecycleInv' /\ UNCHANGED vars
<1>1. /\ setting' = setting /\ venue' = venue /\ open' = open /\ stream' = stream
      /\ link' = link /\ engine' = engine
      /\ cancel' = [cancel EXCEPT ![c][k] = "done"]
  BY DEF ForwardCancelAnswer
<1>2. PICK ok \in BOOLEAN : ok = (cancel[c][k] = "accepted")
  OBVIOUS
<1>3. feed' = Append(feed, CancelEvent(c, ok))
  BY <1>2 DEF ForwardCancelAnswer, Forward
<1>4. ok => venue[c].state = "over"
  BY <1>2 DEF LifecycleInv, RequestsAgree, RequestAgrees
<1>5. "done" \in CancelState
  BY DEF CancelState
<1> QED
  BY <1>1, <1>3, <1>4, <1>5, CancelAnswered

LEMMA TimeoutCancelKeeps ==
    ASSUME LifecycleInv, NEW c \in Cid, NEW k \in 1..MaxCancels, TimeoutCancel(c, k)
    PROVE  LifecycleInv' /\ UNCHANGED vars
<1>1. /\ setting' = setting /\ venue' = venue /\ open' = open /\ stream' = stream
      /\ link' = link /\ engine' = engine
  BY DEF TimeoutCancel
<1>2. PICK state \in CancelState : state # "accepted" /\ cancel' = [cancel EXCEPT ![c][k] = state]
  BY TypesOfRequests DEF TimeoutCancel, CancelState
<1>3. PICK ok \in BOOLEAN : ok = FALSE
  OBVIOUS
<1>4. feed' = Append(feed, CancelEvent(c, ok)) /\ (ok => venue[c].state = "over")
  BY <1>3 DEF TimeoutCancel, Forward
<1> QED
  BY <1>1, <1>2, <1>4, CancelAnswered

\* A step of the account stream that leaves venue, requests and engine alone.
LEMMA StreamMoves ==
    ASSUME LifecycleInv, UNCHANGED <<setting, venue, open, cancel, engine>>,
           link' \in {"up", "down", "subscribed"},
           FeedIsTrue' /\ FeedSettles' /\ StreamIsTrue' /\ StreamSettles'
    PROVE  LifecycleInv' /\ UNCHANGED vars
<1>1. /\ setting' = setting /\ venue' = venue /\ open' = open /\ cancel' = cancel
      /\ engine' = engine
  OBVIOUS
<1>2. Onward
  BY <1>1, SameVenue
<1>3. /\ venue \in [Cid -> VenueOrder] /\ open \in [Cid -> OpenRequest]
      /\ cancel \in [Cid -> [1..MaxCancels -> CancelState]]
  BY TypesOfRequests
<1>4. RequestsAgree'
  BY <1>1, <1>2, OthersAgree DEF RequestsAgree
<1> QED
  BY <1>1, <1>2, <1>3, <1>4, OutsideMoves

LEMMA LinkKeeps ==
    ASSUME LifecycleInv, Link \/ ForwardEvent
    PROVE  LifecycleInv' /\ UNCHANGED vars
<1>1. /\ setting' = setting /\ venue' = venue /\ open' = open /\ cancel' = cancel
      /\ engine' = engine
      /\ link' \in {"up", "down", "subscribed"}
  BY TypesOfRequests DEF Link, DropLink, Subscribe, ReadListing, FailReinit, ForwardEvent
<1>2. Onward /\ HoldsNoMore /\ openAtResync' = openAtResync
  BY <1>1, SameVenue, EngineRests
<1>3. CASE DropLink
  BY <1>1, <1>3, DropLinkQueues, StreamMoves
<1>4. CASE Subscribe
  <2>1. feed' = feed /\ stream' = <<>>
    BY <1>4 DEF Subscribe
  <2> QED
    BY <2>1, <1>1, <1>2, EmptiedQueues, StreamMoves
<1>5. CASE ReadListing
  BY <1>1, <1>5, ReadListingQueues, StreamMoves
<1>6. CASE FailReinit
  <2>1. feed' = feed /\ stream' = <<>>
    BY <1>6 DEF FailReinit
  <2> QED
    BY <2>1, <1>1, <1>2, EmptiedQueues, StreamMoves
<1>7. CASE ForwardEvent
  BY <1>1, <1>7, ForwardEventQueues, StreamMoves
<1> QED
  BY <1>3, <1>4, <1>5, <1>6, <1>7 DEF Link

-----------------------------------------------------------------------------
(* The specification.                                                      *)

LEMMA LifecycleStart ==
    ASSUME LifecycleInit
    PROVE  LifecycleInv
<1>1. /\ setting \in Settings /\ stream = <<>> /\ feed = <<>> /\ link = "up"
      /\ venue = [c \in Cid |-> [state |-> "none", filled |-> 0]]
      /\ open = [c \in Cid |-> [phase |-> "unsent", onWire |-> FALSE, answer |-> NoAnswer]]
      /\ cancel = [c \in Cid |-> [k \in 1..MaxCancels |-> "unsent"]]
      /\ openAtResync = [c \in Cid |-> NotRecorded]
      /\ unproven = [c \in Cid |-> "no"]
      /\ Init
  BY DEF LifecycleInit
<1>2. OrdersInv
  BY <1>1, OrdersInvInit
<1>3. \A c \in Cid : ~IsTracked(c) /\ ~Remembers(retired, c)
  BY <1>1 DEF Init, IsTracked, Remembers
<1>4. 0 \in 0..Size
  BY <1>1, Scales
<1>5. LifecycleTypeOK
  BY <1>1, <1>2, <1>4 DEF LifecycleTypeOK, OrdersInv
<1>6. FeedIsTrue /\ StreamIsTrue /\ StreamSettles
  BY <1>1 DEF FeedIsTrue, StreamIsTrue, StreamSettles
<1>7. FeedSettles
  BY <1>1 DEF FeedSettles
<1>8. RequestsAgree
  BY <1>1 DEF RequestsAgree, RequestAgrees
<1>9. TrackedAgrees /\ RetiredIsFinished
  BY <1>3 DEF TrackedAgrees, RetiredIsFinished
<1> QED
  BY <1>2, <1>5, <1>6, <1>7, <1>8, <1>9 DEF LifecycleInv

LEMMA LifecycleStutters ==
    ASSUME LifecycleInv, UNCHANGED allVars
    PROVE  LifecycleInv' /\ UNCHANGED vars
<1>1. /\ setting' = setting /\ venue' = venue /\ open' = open /\ cancel' = cancel
      /\ stream' = stream /\ link' = link /\ feed' = feed /\ engine' = engine
  BY DEF allVars, outside
<1>2. Onward /\ HoldsNoMore /\ openAtResync' = openAtResync
  BY <1>1, SameVenue, EngineRests
<1>3. FeedIsTrue' /\ FeedSettles' /\ StreamIsTrue' /\ StreamSettles'
  BY <1>1, <1>2, FeedStays, StreamStays
<1>4. link' \in {"up", "down", "subscribed"}
  BY <1>1, TypesOfRequests
<1> QED
  BY <1>1, <1>3, <1>4, StreamMoves

\* Every step keeps the invariant, and is a step of Orders or none of its business.
LEMMA LifecycleSteps ==
    ASSUME LifecycleInv, [LifecycleNext]_allVars
    PROVE  LifecycleInv' /\ [Next]_vars
<1>1. ASSUME NEW c \in Cid, Venue(c)
      PROVE  LifecycleInv' /\ [Next]_vars
  BY <1>1, VenueTakesOpenKeeps, VenueFillsKeeps, VenueEndsKeeps, VenueTakesCancelKeeps DEF Venue
<1>2. ASSUME NEW c \in Cid, Network(c)
      PROVE  LifecycleInv' /\ [Next]_vars
  BY <1>2, LoseOpenKeeps, LoseCancelKeeps DEF Network
<1>3. ASSUME NEW c \in Cid, Manager(c)
      PROVE  LifecycleInv' /\ [Next]_vars
  BY <1>3, ForwardAnswerKeeps, TimeoutOpenKeeps, LookUpKeeps, LookupsRunOutKeeps,
     ForwardCancelAnswerKeeps, TimeoutCancelKeeps
     DEF Manager
<1>4. ASSUME NEW c \in Cid, SendOpen(c) \/ \E k \in 1..MaxCancels : SendCancel(c, k)
      PROVE  LifecycleInv' /\ [Next]_vars
  BY <1>4, SendOpenKeeps, SendCancelKeeps
<1>5. ASSUME Link \/ ForwardEvent
      PROVE  LifecycleInv' /\ [Next]_vars
  BY <1>5, LinkKeeps
<1>6. ASSUME Engine
      PROVE  LifecycleInv' /\ [Next]_vars
  BY <1>6, TakeOrderKeeps, TakeFillKeeps, TakeCancelledKeeps, BeginAccountResyncKeeps,
     ApplyAccountSnapshotKeeps, RemoveUnlistedKeeps
     DEF Engine
<1>7. ASSUME UNCHANGED allVars
      PROVE  LifecycleInv' /\ [Next]_vars
  BY <1>7, LifecycleStutters
<1> QED
  BY <1>1, <1>2, <1>3, <1>4, <1>5, <1>6, <1>7 DEF LifecycleNext, Rest

LEMMA LifecycleInvariant == LifecycleSpec => []LifecycleInv
<1>1. LifecycleInit => LifecycleInv
  BY LifecycleStart
<1>2. LifecycleInv /\ [LifecycleNext]_allVars => LifecycleInv'
  BY LifecycleSteps
<1> QED
  BY <1>1, <1>2, PTL DEF LifecycleSpec

\* Type correctness of the engine's orders, the manager, the venue and the stream together.
THEOREM LifecycleTyping == LifecycleSpec => []LifecycleTypeOK
<1>1. LifecycleInv => LifecycleTypeOK
  BY DEF LifecycleInv
<1> QED
  BY <1>1, LifecycleInvariant, PTL

\* In the whole system the engine calls its Orders as Orders is meant to be called: with
\* reports that are well formed, in every order the connections may deliver them.
THEOREM CallsOrders == LifecycleSpec => Spec
<1>1. LifecycleInit => Init
  BY DEF LifecycleInit
<1>2. LifecycleInv /\ [LifecycleNext]_allVars => [Next]_vars
  BY LifecycleSteps
<1> QED
  BY <1>1, <1>2, LifecycleInvariant, PTL DEF LifecycleSpec, Spec

\* So what Orders promises holds in the whole system: no report brings back an order
\* remembered as ended, takes back a fill, or replaces one venue order by another.
THEOREM OrdersKeepTheirPromises ==
    LifecycleSpec => RetiredStayRetired /\ FillNeverRegresses /\ ForeignOrderRefused
  BY CallsOrders, NoResurrection, FillsOnlyGrow, NoForeignReport, PTL

\* The engine remembers an order as ended only when it is over at the venue, or never
\* reached it and no longer can: neither a late answer, a timeout, a refused cancel nor
\* the silence of an account snapshot makes it forget an order that still trades.
THEOREM RetiredForGood == LifecycleSpec => []RetiredIsOver
<1>1. LifecycleInv => RetiredIsOver
  BY DEF LifecycleInv, RetiredIsFinished, RetiredIsOver, Finished
<1> QED
  BY <1>1, LifecycleInvariant, PTL

\* "An order cannot be retained as active once it has nothing left to fill": this holds
\* unless a venue reports a complete fill as Open with nothing remaining and the order may be
\* sent a cancel (order_manager keeps such an order when its cancel is refused).
THEOREM NothingLeftUntracked ==
    ASSUME \A s \in Settings : s.completesAsOpen => s.maxCancels = 0
    PROVE  LifecycleSpec => []NothingLeftIsUntracked
<1>1. LifecycleInv => NothingLeftIsUntracked
  <2> SUFFICES ASSUME LifecycleInv, NEW c \in Cid, IsTracked(c), tracked[c].open # NoOpen
               PROVE  tracked[c].open.filled < tracked[c].quantity
    BY DEF NothingLeftIsUntracked
  <2>1. Agrees(c, tracked[c]) /\ setting \in Settings
    BY DEF LifecycleInv, LifecycleTypeOK, TrackedAgrees
  <2>2. Size \in Nat
    BY <2>1, Scales
  <2>3. tracked[c].open.filled \in 0..Size /\ tracked[c].open.filled # Size
    BY <2>1 DEF Agrees, MaxCancels
  <2> QED
    BY <2>1, <2>2, <2>3 DEF Agrees
<1> QED
  BY <1>1, LifecycleInvariant, PTL
=============================================================================
