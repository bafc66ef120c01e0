--------------------------- MODULE OrderLifecycle ---------------------------
(***************************************************************************)
(* The life of the engine's orders from the request to the last report:    *)
(* the engine and its Orders, the ExecutionManager that carries requests   *)
(* and answers, the venue, and the account stream, which can be lost and   *)
(* resynchronised.                                                         *)
(*                                                                         *)
(*   engine  --open, cancel-->  manager  --network-->  venue               *)
(*   engine  <--feed (FIFO)---  manager  <--answers--  venue               *)
(*                                       <--stream (FIFO, can break)--     *)
(*                                                                         *)
(* Answers and stream travel on different connections, so either can       *)
(* overtake the other.  Each client order id names one order for good,     *)
(* as the engine assumes.                                                  *)
(***************************************************************************)
EXTENDS Orders

CONSTANTS
    NameOf,           \* NameOf[c]: the venue's OrderId of the order sent as c
    Settings,         \* what the venue and the run may be like: see Setting
    MaxBacklog,       \* how many events the stream, and the feed, may hold
    NoAnswer,
    NotRecorded

\* A venue, and the bounds of one run with it.
Setting ==
    [sent            : SUBSET Cid,  \* the orders the strategy may send
     size            : Quantity,    \* the quantity of every order
     maxCancels      : Nat,         \* how many cancel requests one order may be sent
     maxDrops        : Nat,         \* how many times the account stream may break
     completesAsOpen : BOOLEAN,     \* a complete fill is reported as Open with nothing remaining
     fillReports     : SUBSET {"execution", "snapshot"},  \* how a partial fill is reported
     lookupsMayFail  : BOOLEAN,     \* the lookups of an unknown outcome may run out
     partialListings : BOOLEAN]     \* an account snapshot may not declare its orders complete

ASSUME SettingsAssumption == \A setting \in Settings : setting \in Setting
ASSUME BoundsAssumption == MaxBacklog \in Nat \ {0}
ASSUME NameAssumption ==
    /\ NameOf \in [Cid -> OrderId]
    /\ \A c, d \in Cid : NameOf[c] = NameOf[d] => c = d
\* Every cumulative fill of an order of a setting is an amount, and zero a stamp.
ASSUME ScaleAssumption ==
    /\ \A setting \in Settings : 0..setting.size \subseteq Amount
    /\ 0 \in Time
ASSUME AbsenceAssumption == NoAnswer \notin Snapshot /\ NotRecorded \notin VenueOrderId

VARIABLES
    setting,       \* one of Settings, for good
    venue,         \* what the venue holds under each client id
    open,          \* the open request of each order, from the engine to its answer
    cancel,        \* the cancel requests of each order
    stream,        \* account events on the way from the venue to the manager
    link,          \* the account stream's connection
    drops,         \* how often the stream broke
    feed,          \* the engine's feed: what the manager forwarded
    openAtResync,  \* InstrumentState.orders_open_at_resync
    unproven       \* history: orders a resync could not settle (see ApplyAccountSnapshot)

outside == <<venue, open, cancel, stream, link, drops>>
engine == <<tracked, retired, openAtResync, unproven>>
allVars == <<setting, outside, feed, engine>>

Size == setting.size
MaxCancels == setting.maxCancels
MaxDrops == setting.maxDrops

-----------------------------------------------------------------------------
(* Messages.  Every stamp is the same one, so that stamps never order two  *)
(* reports of the same cumulative fill.                                    *)

Now == 0

OpenAt(c, filled) == [id |-> NameOf[c], time |-> Now, filled |-> filled]

Report(c, state) ==
    [cid |-> c, quantity |-> Size, state |-> state, open |-> NoOpen, sent |-> NoTime]

OpenReport(c, filled) == [Report(c, "Open") EXCEPT !.open = OpenAt(c, filled)]

OrderEvent(s) == [kind |-> "Order", order |-> s]
FillEvent(c, filled) == [kind |-> "Fill", cid |-> c, filled |-> filled]
CancelEvent(c, ok) == [kind |-> "Cancelled", cid |-> c, ok |-> ok]
Reconnecting == [kind |-> "Reconnecting"]
\* `over` is history: the orders over at the venue when it was read.
ListingEvent(listed, complete, over) ==
    [kind |-> "Listing", listed |-> listed, complete |-> complete, over |-> over]
UnlistedEvent(c, id) == [kind |-> "Unlisted", cid |-> c, id |-> id]

Live(c) == venue[c].state = "live"

\* What the venue answers when asked about order c.
StateAtVenue(c) == IF Live(c) THEN OpenReport(c, venue[c].filled) ELSE Report(c, "Ended")

\* The venue's events reach the stream unless its connection is down.
Emit(events) ==
    IF link = "down" \/ events = <<>> THEN UNCHANGED stream
    ELSE Len(stream) < MaxBacklog /\ stream' = stream \o events

\* The manager forwards one event to the engine.
Forward(event) == Len(feed) < MaxBacklog /\ feed' = Append(feed, event)

-----------------------------------------------------------------------------
(* The engine's requests.  The strategy acts on a whole event, so not      *)
(* between the orders of one account snapshot.                             *)

MidSnapshot == feed # <<>> /\ Head(feed).kind \in {"Listed", "Unlisted"}

SendOpen(c) ==
    /\ c \in setting.sent
    /\ ~MidSnapshot
    /\ ~IsTracked(c)
    /\ open[c].phase = "unsent"
    /\ RecordInFlightOpen(c, Size, Now)
    /\ open' = [open EXCEPT ![c] = [phase |-> "awaited", onWire |-> TRUE, answer |-> NoAnswer]]
    /\ UNCHANGED <<setting, venue, cancel, stream, link, drops, feed, openAtResync, unproven>>

SendCancel(c, k) ==
    /\ ~MidSnapshot
    /\ IsTracked(c)
    /\ cancel[c][k] = "unsent"
    /\ RecordInFlightCancel(c, Now)
    /\ cancel' = [cancel EXCEPT ![c][k] = "onWire"]
    /\ UNCHANGED <<setting, venue, open, stream, link, drops, feed, openAtResync, unproven>>

-----------------------------------------------------------------------------
(* The venue.                                                              *)

\* The venue takes the request: it rests, is refused, or fills at once.
VenueTakesOpen(c) ==
    /\ open[c].onWire
    /\ \E outcome \in {"rests", "refused", "fills"} :
        /\ venue' = [venue EXCEPT ![c] =
                        [state  |-> IF outcome = "rests" THEN "live" ELSE "over",
                         filled |-> IF outcome = "fills" THEN Size ELSE 0]]
        /\ Emit(CASE outcome = "rests" -> <<OrderEvent(OpenReport(c, 0))>>
                  [] outcome = "refused" -> <<>>
                  [] outcome = "fills" -> <<FillEvent(c, Size), OrderEvent(Report(c, "Ended"))>>)
        /\ open' = [open EXCEPT ![c] =
                [@ EXCEPT !.onWire = FALSE,
                          !.answer = IF open[c].phase # "awaited" THEN open[c].answer
                                     ELSE IF outcome = "rests" THEN OpenReport(c, 0)
                                     ELSE Report(c, "Ended")]]
    /\ UNCHANGED <<setting, cancel, link, drops, feed, engine>>

\* A fill, reported as an execution carrying the order's cumulative, or as a
\* snapshot of the order.
VenueFills(c) ==
    /\ Live(c)
    /\ LET filled == venue[c].filled + 1 IN
        /\ venue' = [venue EXCEPT ![c] = [state  |-> IF filled = Size THEN "over" ELSE "live",
                                          filled |-> filled]]
        /\ \/ /\ filled < Size
              /\ "execution" \in setting.fillReports
              /\ Emit(<<FillEvent(c, filled)>>)
           \/ /\ filled < Size
              /\ "snapshot" \in setting.fillReports
              /\ Emit(<<OrderEvent(OpenReport(c, filled))>>)
           \/ filled = Size /\ setting.completesAsOpen /\ Emit(<<OrderEvent(OpenReport(c, filled))>>)
           \/ filled = Size /\ ~setting.completesAsOpen
              /\ Emit(<<FillEvent(c, filled), OrderEvent(Report(c, "Ended"))>>)
    /\ UNCHANGED <<setting, open, cancel, link, drops, feed, engine>>

\* The order expires, or the venue cancels it.
VenueEnds(c) ==
    /\ Live(c)
    /\ venue' = [venue EXCEPT ![c].state = "over"]
    /\ Emit(<<OrderEvent(Report(c, "Ended"))>>)
    /\ UNCHANGED <<setting, open, cancel, link, drops, feed, engine>>

\* A cancel ends a live order; the venue refuses one of any other.
VenueTakesCancel(c, k) ==
    /\ cancel[c][k] \in {"onWire", "late"}
    /\ cancel' = [cancel EXCEPT ![c][k] =
            IF @ = "late" THEN "done" ELSE IF Live(c) THEN "accepted" ELSE "refused"]
    /\ venue' = IF Live(c) THEN [venue EXCEPT ![c].state = "over"] ELSE venue
    /\ Emit(IF Live(c) THEN <<OrderEvent(Report(c, "Ended"))>> ELSE <<>>)
    /\ UNCHANGED <<setting, open, link, drops, feed, engine>>

-----------------------------------------------------------------------------
(* The network loses a request.                                            *)

LoseOpen(c) ==
    /\ open[c].onWire
    /\ open' = [open EXCEPT ![c].onWire = FALSE]
    /\ UNCHANGED <<setting, venue, cancel, stream, link, drops, feed, engine>>

LoseCancel(c, k) ==
    /\ cancel[c][k] \in {"onWire", "late"}
    /\ cancel' = [cancel EXCEPT ![c][k] = IF @ = "late" THEN "done" ELSE "lost"]
    /\ UNCHANGED <<setting, venue, open, stream, link, drops, feed, engine>>

-----------------------------------------------------------------------------
(* The manager: one future per request, each bounded by request_timeout.   *)

\* The venue's answer arrives, or the finding of a lookup.
ForwardAnswer(c) ==
    /\ open[c].answer # NoAnswer
    /\ Forward(OrderEvent(open[c].answer))
    /\ open' = [open EXCEPT ![c] = [@ EXCEPT !.phase = "settled", !.answer = NoAnswer]]
    /\ UNCHANGED <<setting, venue, cancel, stream, link, drops, engine>>

\* Mutant: a request that times out is not looked up.
TimeoutWithoutLookup(c) ==
    /\ open[c].phase = "awaited"
    /\ Forward(OrderEvent(Report(c, "OutcomeUnknown")))
    /\ open' = [open EXCEPT ![c] = [@ EXCEPT !.phase = "settled", !.answer = NoAnswer]]
    /\ UNCHANGED <<setting, venue, cancel, stream, link, drops, engine>>

\* No answer in time: the engine is told the outcome is unknown, and the order
\* is looked up.  An answer that comes later is dropped.
TimeoutOpen(c) ==
    /\ open[c].phase = "awaited"
    /\ Forward(OrderEvent(Report(c, "OutcomeUnknown")))
    /\ open' = [open EXCEPT ![c] = [@ EXCEPT !.phase = "lookedUp", !.answer = NoAnswer]]
    /\ UNCHANGED <<setting, venue, cancel, stream, link, drops, engine>>

\* Mutant: the venue not knowing the order concludes it at once.
LookUpWithoutGrace(c) ==
    /\ open[c].phase = "lookedUp"
    /\ open[c].answer = NoAnswer
    /\ open' = [open EXCEPT ![c].answer =
            IF venue[c].state = "none" THEN Report(c, "NotPlaced") ELSE StateAtVenue(c)]
    /\ UNCHANGED <<setting, venue, cancel, stream, link, drops, feed, engine>>

\* A lookup concludes: the venue's state of the order, or that it was never
\* placed.  The grace period covers the request's delivery: while the request
\* may still reach the venue, not knowing the order concludes nothing.
LookUp(c) ==
    /\ open[c].phase = "lookedUp"
    /\ open[c].answer = NoAnswer
    /\ venue[c].state = "none" => ~open[c].onWire
    /\ open' = [open EXCEPT ![c].answer =
            IF venue[c].state = "none" THEN Report(c, "NotPlaced") ELSE StateAtVenue(c)]
    /\ UNCHANGED <<setting, venue, cancel, stream, link, drops, feed, engine>>

\* The lookups run out: nothing more is reported.
LookupsRunOut(c) ==
    /\ setting.lookupsMayFail
    /\ open[c].phase = "lookedUp"
    /\ open[c].answer = NoAnswer
    /\ open' = [open EXCEPT ![c].phase = "settled"]
    /\ UNCHANGED <<setting, venue, cancel, stream, link, drops, feed, engine>>

ForwardCancelAnswer(c, k) ==
    /\ cancel[c][k] \in {"accepted", "refused"}
    /\ Forward(CancelEvent(c, cancel[c][k] = "accepted"))
    /\ cancel' = [cancel EXCEPT ![c][k] = "done"]
    /\ UNCHANGED <<setting, venue, open, stream, link, drops, engine>>

\* A cancel that times out is answered as failed, and not looked up; it may
\* still reach the venue.
TimeoutCancel(c, k) ==
    /\ cancel[c][k] \in {"onWire", "lost", "accepted", "refused"}
    /\ Forward(CancelEvent(c, FALSE))
    /\ cancel' = [cancel EXCEPT ![c][k] = IF @ = "onWire" THEN "late" ELSE "done"]
    /\ UNCHANGED <<setting, venue, open, stream, link, drops, engine>>

ForwardEvent ==
    /\ link # "subscribed"
    /\ stream # <<>>
    /\ Forward(Head(stream))
    /\ stream' = Tail(stream)
    /\ UNCHANGED <<setting, venue, open, cancel, link, drops, engine>>

-----------------------------------------------------------------------------
(* The account stream breaks and is re-initialised.                        *)

\* What had not arrived is lost; the notice follows what had.
DropLink ==
    /\ link = "up"
    /\ drops < MaxDrops
    /\ drops' = drops + 1
    /\ link' = "down"
    /\ \E arrived \in 0..Len(stream) :
        stream' = Append(SubSeq(stream, 1, arrived), Reconnecting)
    /\ UNCHANGED <<setting, venue, open, cancel, feed, engine>>

\* Re-initialisation begins once the notice has been forwarded: it opens the
\* stream first, and holds back what that brings.
Subscribe ==
    /\ link = "down"
    /\ stream = <<>>
    /\ link' = "subscribed"
    /\ UNCHANGED <<setting, venue, open, cancel, stream, drops, feed, engine>>

\* Then it reads the account snapshot and delivers that first.  A list of orders
\* that is not declared complete may leave some out.
ReadListing ==
    /\ link = "subscribed"
    /\ link' = "up"
    /\ LET live == {StateAtVenue(c) : c \in {d \in Cid : Live(d)}}
           over == {c \in Cid : venue[c].state = "over"}
       IN  \/ stream' = <<ListingEvent(live, TRUE, over)>> \o stream
           \/ /\ setting.partialListings
              /\ \E some \in SUBSET live : stream' = <<ListingEvent(some, FALSE, over)>> \o stream
    /\ UNCHANGED <<setting, venue, open, cancel, drops, feed, engine>>

\* The attempt fails: it is retried from the start, with no new notice.
FailReinit ==
    /\ link = "subscribed"
    /\ drops < MaxDrops
    /\ drops' = drops + 1
    /\ link' = "down"
    /\ stream' = <<>>
    /\ UNCHANGED <<setting, venue, open, cancel, feed, engine>>

-----------------------------------------------------------------------------
(* The engine takes the next event of its feed.                            *)

Takes(kind) == feed # <<>> /\ Head(feed).kind = kind

TakeOrder ==
    /\ Takes("Order") \/ Takes("Listed")
    /\ UpdateFromOrderSnapshot(Head(feed).order)
    /\ feed' = Tail(feed)
    /\ UNCHANGED <<setting, outside, openAtResync, unproven>>

TakeFill ==
    /\ Takes("Fill")
    /\ UpdateFromFill(Head(feed).cid, NameOf[Head(feed).cid], Head(feed).filled)
    /\ feed' = Tail(feed)
    /\ UNCHANGED <<setting, outside, openAtResync, unproven>>

TakeCancelled ==
    /\ Takes("Cancelled")
    /\ UpdateFromCancelResponse(Head(feed).cid, Head(feed).ok)
    /\ feed' = Tail(feed)
    /\ UNCHANGED <<setting, outside, openAtResync, unproven>>

\* begin_account_resync
BeginAccountResync ==
    /\ Takes("Reconnecting")
    /\ openAtResync' = [c \in Cid |-> IF Is(c, "Open") THEN tracked[c].open.id ELSE NotRecorded]
    /\ feed' = Tail(feed)
    /\ UNCHANGED <<setting, outside, tracked, retired, unproven>>

\* The orders on record that a complete list leaves out.
LeftOut(listing) ==
    {c \in Cid : listing.complete /\ openAtResync[c] # NotRecorded} \ {s.cid : s \in listing.listed}

\* update_from_account_snapshot: every listed order is applied, then each order
\* on record that is not listed is removed if it is still that open venue order.
\* One event to the engine: its parts go to the front of the feed, and nothing
\* else happens in the engine until they are done.  The history variable
\* notes each order over at the venue when it was read that the snapshot neither
\* removes nor finds remembered as retired, and whether a request of it is in
\* flight.
ApplyAccountSnapshot ==
    /\ Takes("Listing")
    /\ LET listed   == Head(feed).listed
           unlisted == LeftOut(Head(feed))
       IN /\ \E first \in Listings(listed), rest \in Listings(unlisted) :
                feed' = [i \in DOMAIN first |-> [kind |-> "Listed", order |-> first[i]]]
                        \o [i \in DOMAIN rest |-> UnlistedEvent(rest[i], openAtResync[rest[i]])]
                        \o Tail(feed)
          /\ unproven' = [c \in Cid |->
                IF \/ Remembers(retired, c)
                   \/ c \in unlisted /\ RemovesOpen(c, openAtResync[c]) THEN "no"
                ELSE IF c \notin Head(feed).over THEN unproven[c]
                ELSE IF Is(c, "OpenInFlight") \/ Is(c, "CancelInFlight") THEN "inFlight"
                ELSE "other"]
    /\ openAtResync' = [c \in Cid |-> NotRecorded]
    /\ UNCHANGED <<setting, outside, tracked, retired>>

RemoveUnlisted ==
    /\ Takes("Unlisted")
    /\ RemoveOpen(Head(feed).cid, Head(feed).id)
    /\ feed' = Tail(feed)
    /\ UNCHANGED <<setting, outside, openAtResync, unproven>>

-----------------------------------------------------------------------------

LifecycleInit ==
    /\ Init
    /\ setting \in Settings
    /\ venue = [c \in Cid |-> [state |-> "none", filled |-> 0]]
    /\ open = [c \in Cid |-> [phase |-> "unsent", onWire |-> FALSE, answer |-> NoAnswer]]
    /\ cancel = [c \in Cid |-> [k \in 1..MaxCancels |-> "unsent"]]
    /\ stream = <<>>
    /\ link = "up"
    /\ drops = 0
    /\ feed = <<>>
    /\ openAtResync = [c \in Cid |-> NotRecorded]
    /\ unproven = [c \in Cid |-> "no"]

Venue(c) ==
    \/ VenueTakesOpen(c) \/ VenueFills(c) \/ VenueEnds(c)
    \/ \E k \in 1..MaxCancels : VenueTakesCancel(c, k)

Network(c) == LoseOpen(c) \/ \E k \in 1..MaxCancels : LoseCancel(c, k)

Manager(c) ==
    \/ ForwardAnswer(c) \/ TimeoutOpen(c) \/ LookUp(c) \/ LookupsRunOut(c)
    \/ \E k \in 1..MaxCancels : ForwardCancelAnswer(c, k) \/ TimeoutCancel(c, k)

Link == DropLink \/ Subscribe \/ ReadListing \/ FailReinit

Engine ==
    \/ TakeOrder \/ TakeFill \/ TakeCancelled
    \/ BeginAccountResync \/ ApplyAccountSnapshot \/ RemoveUnlisted

\* Nothing is owed to anyone: no request or answer is on its way, no event is
\* undelivered and the account stream is up.
Quiet ==
    /\ feed = <<>> /\ stream = <<>> /\ link = "up"
    /\ \A c \in Cid :
        /\ open[c].phase \in {"unsent", "settled"} /\ ~open[c].onWire
        /\ \A k \in 1..MaxCancels : cancel[c][k] \in {"unsent", "done"}

\* Orders may rest for good; any other stop would be a deadlock.
Rest == Quiet /\ UNCHANGED allVars

LifecycleNext ==
    \/ \E c \in Cid :
        \/ SendOpen(c)
        \/ \E k \in 1..MaxCancels : SendCancel(c, k)
        \/ Venue(c) \/ Network(c) \/ Manager(c)
    \/ ForwardEvent \/ Link \/ Engine \/ Rest

LifecycleSpec == LifecycleInit /\ [][LifecycleNext]_allVars

\* The engine takes every event of its feed; the manager polls its futures and
\* the stream, times each request out and re-initialises a broken stream.  A
\* request on the wire is delivered or lost.  Neither the strategy nor the
\* venue is obliged to do anything more.
FairLifecycleSpec ==
    /\ LifecycleSpec
    /\ WF_allVars(Engine)
    /\ WF_allVars(ForwardEvent)
    /\ WF_allVars(Subscribe) /\ WF_allVars(ReadListing)
    /\ \A c \in Cid :
        /\ WF_allVars(ForwardAnswer(c)) /\ WF_allVars(TimeoutOpen(c)) /\ WF_allVars(LookUp(c))
        /\ WF_allVars(VenueTakesOpen(c) \/ LoseOpen(c))

-----------------------------------------------------------------------------
(* Correctness.                                                            *)

\* Type correctness of the composition.
LifecycleTypeOK ==
    /\ TypeOK
    /\ setting \in Settings
    /\ venue \in [Cid -> [state : {"none", "live", "over"}, filled : 0..Size]]
    /\ open \in [Cid -> [phase  : {"unsent", "awaited", "lookedUp", "settled"},
                         onWire : BOOLEAN,
                         answer : Snapshot \cup {NoAnswer}]]
    /\ cancel \in [Cid -> [1..MaxCancels ->
            {"unsent", "onWire", "late", "lost", "accepted", "refused", "done"}]]
    /\ link \in {"up", "down", "subscribed"}
    /\ openAtResync \in [Cid -> VenueOrderId \cup {NotRecorded}]
    /\ unproven \in [Cid -> {"no", "inFlight", "other"}]

\* The engine remembers an order as ended only if it has: the order is over at
\* the venue, or never reached it and no longer can.  A live order remembered as
\* ended would have its every report ignored.
RetiredIsOver ==
    \A c \in Cid :
        Remembers(retired, c) =>
            \/ venue[c].state = "over"
            \/ venue[c].state = "none" /\ ~open[c].onWire

\* Once nothing is owed, every order live at the venue is tracked as Open:
\* neither a refused cancel, a timeout, a failed lookup nor a broken stream
\* loses one for good.
LiveOrdersTracked == Quiet => \A c \in Cid : Live(c) => Is(c, "Open")

\* Once nothing is owed, an order over at the venue is not tracked as Open, unless
\* it was over when the account was last read and that resync could not settle it.
EndedOrdersUntracked ==
    Quiet => \A c \in Cid : Is(c, "Open") /\ venue[c].state = "over" => unproven[c] # "no"

\* An order in flight is left alone by the account snapshot, since "its request is
\* still being answered, and the answer settles it": so once nothing is owed, one
\* that was over at the venue when the snapshot was read is not tracked.
AnswerSettlesInFlight ==
    Quiet => \A c \in Cid : unproven[c] = "inFlight" => ~IsTracked(c)

\* Once nothing is owed, an order still in flight is one whose lookups ran out
\* before the venue had it.
InFlightIsExplained ==
    Quiet => \A c \in Cid :
        /\ ~Is(c, "CancelInFlight")
        /\ Is(c, "OpenInFlight") => setting.lookupsMayFail /\ venue[c].state # "live"

\* A venue that reports fills as snapshots has its cumulative fill tracked
\* exactly, once nothing is owed.
FilledAgrees ==
    Quiet => \A c \in Cid : Live(c) /\ IsTracked(c) => tracked[c].open.filled = venue[c].filled

\* "An order cannot be retained as active once it has nothing left to fill".
NothingLeftIsUntracked ==
    \A c \in Cid :
        IsTracked(c) /\ tracked[c].open # NoOpen
        => tracked[c].open.filled < tracked[c].quantity

\* An open request does not stay in flight for ever: its answer, its timeout and
\* the lookup, or the venue's report ends it, or a cancel takes it over.
OpenRequestResolves ==
    \A c \in Cid : Is(c, "OpenInFlight") ~> ~Is(c, "OpenInFlight")
=============================================================================
