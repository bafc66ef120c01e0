---------------------- MODULE OrderLifecycleQuietProofs ----------------------
(***************************************************************************)
(* What the engine is left with when nothing is owed to anyone: every      *)
(* order live at the venue is tracked, none that is over there still is,   *)
(* and what is tracked of an order is what the venue holds.                *)
(*                                                                         *)
(* The first invariant (OrderLifecycleProofs) says that no message is      *)
(* false; this one says that none is missing.  Whatever the engine does    *)
(* not know of an order yet is due: its request is still pending, a report *)
(* that tells it is on its way, or the stream that lost the report is down *)
(* and will be listed again.  The engine ignores no report that tells it   *)
(* anything, so when nothing is due there is nothing it does not know.     *)
(***************************************************************************)
EXTENDS OrderLifecycleProofs

Pending == {"awaited", "lookedUp"}

\* A request may be answered for as long as it is pending, and is answered for good.
RequestIsPending(c) ==
    /\ open[c].answer # NoAnswer =>
          /\ ~open[c].onWire /\ open[c].phase \in Pending
          /\ open[c].answer.state # "OutcomeUnknown"
    /\ open[c].onWire => open[c].phase \in Pending \/ setting.lookupsMayFail
    /\ open[c].phase # "unsent" => c \in setting.sent

CancelPends(c, k) == cancel[c][k] \in {"onWire", "lost", "accepted", "refused"}

AnswersCancel(event, c) == event.kind = "Cancelled" /\ event.cid = c

CancelIsAnswered(c) ==
    Is(c, "CancelInFlight") =>
        \/ \E k \in 1..MaxCancels : CancelPends(c, k)
        \/ \E e \in Range(feed) : AnswersCancel(e, c)

\* Reports after which an open request is no longer in flight.
Concludes(event, c) ==
    /\ event.kind \in {"Order", "Listed"} /\ event.order.cid = c
    /\ event.order.state # "OutcomeUnknown"

OpenIsAnswered(c) ==
    Is(c, "OpenInFlight") =>
        \/ setting.lookupsMayFail
        \/ open[c].phase \in Pending
        \/ \E e \in Range(feed) : Concludes(e, c)

Reported == Range(stream) \cup Range(feed)

\* A live order the engine does not hold is due twice: from its request and from the stream.
LiveIsReported(c) ==
    Live(c) =>
        \/ Holds(c)
        \/ /\ \/ setting.lookupsMayFail
              \/ open[c].phase \in Pending
              \/ \E e \in Range(feed) : Opens(e, c)
           /\ \/ setting.partialListings
              \/ link # "up"
              \/ \E e \in Reported : Opens(e, c)

\* Events after which the engine no longer tracks c as Open, if they are not in vain.
Ends(event, c) ==
    \/ /\ event.kind \in {"Order", "Listed"} /\ event.order.cid = c
       /\ \/ event.order.state = "Ended"
          \/ event.order.state = "Open" /\ event.order.open.filled = Size
    \/ event.kind = "Listing" /\ c \in event.over

\* A part of an account snapshot that is about another order.
AnotherPart(event, c) ==
    \/ event.kind = "Listed" /\ event.order.cid # c
    \/ event.kind = "Unlisted" /\ event.cid # c

\* The account snapshot being applied removes c: nothing comes in between.
RemovalDue(c) ==
    \E p \in DOMAIN feed :
        /\ feed[p].kind = "Unlisted" /\ feed[p].cid = c /\ RemovesOpen(c, feed[p].id)
        /\ \A i \in 1..(p - 1) : AnotherPart(feed[i], c)

\* The engine does not hold c, and nothing will make it.
NeverOpened(c) ==
    /\ ~Holds(c)
    /\ open[c].answer # NoAnswer => open[c].answer.state # "Open"
    /\ \A e \in Reported : ~Opens(e, c)

\* The window has room for every order there is, and no order is complete and kept.
RoomToRemember ==
    /\ Cardinality(setting.sent) <= MaxRetired
    /\ setting.completesAsOpen => MaxCancels = 0

EndIsReported(c) ==
    RoomToRemember /\ venue[c].state = "over" =>
        \/ Remembers(retired, c)
        \/ unproven[c] # "no"
        \/ link # "up"
        \/ \E e \in Reported : Ends(e, c)
        \/ RemovalDue(c)
        \/ NeverOpened(c)

ReportsFill(event, c, filled) ==
    \/ /\ event.kind \in {"Order", "Listed"} /\ event.order.cid = c
       /\ event.order.state = "Open" /\ event.order.open.filled = filled
    \/ event.kind = "Listing" /\ \E s \in event.listed : s.cid = c /\ s.open.filled = filled

\* Every fill is reported, on a stream whose listings leave nothing out.
FillsAreReported == setting.fillReports \subseteq {"snapshot"} /\ ~setting.partialListings

FillIsReported(c) ==
    FillsAreReported /\ Live(c) =>
        \/ Holds(c) /\ tracked[c].open.filled = venue[c].filled
        \/ link # "up"
        \/ \E e \in Reported : ReportsFill(e, c, venue[c].filled)

NothingIsMissing(c) ==
    /\ RequestIsPending(c) /\ CancelIsAnswered(c) /\ OpenIsAnswered(c)
    /\ LiveIsReported(c) /\ EndIsReported(c) /\ FillIsReported(c)

QuietInv == \A c \in Cid : NothingIsMissing(c)


-----------------------------------------------------------------------------
(* What is due stays due.                                                  *)

FeedKept == \A i \in DOMAIN feed : i \in DOMAIN feed' /\ feed'[i] = feed[i]

\* Nothing on the stream is lost, but with the link.
StreamKept == link' # "up" \/ (link = "up" /\ Range(stream) \subseteq Reported')

\* A listing tells all there is to tell of c.
ToldInFull(c) ==
    /\ Live(c) => setting.partialListings \/ \E e \in Reported : Opens(e, c)
    /\ venue[c].state = "over" => \E e \in Reported : Ends(e, c)
    /\ FillsAreReported /\ Live(c) => \E e \in Reported : ReportsFill(e, c, venue[c].filled)

LEMMA FeedOfKept ==
    ASSUME FeedKept
    PROVE  Range(feed) \subseteq Range(feed')
  BY DEF FeedKept, Range

LEMMA RemovalStaysDue ==
    ASSUME NEW c \in Cid, feed \in Seq(AccountEvent), FeedKept, tracked'[c] = tracked[c],
           RemovalDue(c)
    PROVE  RemovalDue(c)'
<1>1. PICK p \in DOMAIN feed :
         /\ feed[p].kind = "Unlisted" /\ feed[p].cid = c /\ RemovesOpen(c, feed[p].id)
         /\ \A i \in 1..(p - 1) : AnotherPart(feed[i], c)
  BY DEF RemovalDue
<1>2. p \in 1..Len(feed) /\ Len(feed) \in Nat
  OBVIOUS
<1>3. p \in DOMAIN feed' /\ feed'[p] = feed[p]
  BY DEF FeedKept
<1>4. \A i \in 1..(p - 1) : feed'[i] = feed[i]
  BY <1>2 DEF FeedKept
<1>5. \A i \in 1..(p - 1) : AnotherPart(feed'[i], c)
  BY <1>1, <1>4
<1>6. RemovesOpen(c, feed[p].id)'
  <2>1. PICK id : id = feed[p].id
    OBVIOUS
  <2>2. RemovesOpen(c, id)'
    BY <1>1, <2>1 DEF RemovesOpen, Is, IsTracked
  <2>3. feed'[p].id = id
    BY <1>3, <2>1
  <2> QED
    BY <2>2, <2>3 DEF RemovesOpen
<1> QED
  BY <1>1, <1>3, <1>5, <1>6 DEF RemovalDue

\* A step that changes nothing the engine holds of c, and loses nothing that is due.
LEMMA OrderKept ==
    ASSUME NEW c \in Cid, NothingIsMissing(c), feed \in Seq(AccountEvent),
           setting' = setting, tracked'[c] = tracked[c], unproven'[c] = unproven[c],
           Remembers(retired, c) => Remembers(retired', c),
           FeedKept, StreamKept \/ ToldInFull(c)',
           RequestIsPending(c)',
           open[c].phase \in Pending =>
              \/ open'[c].phase \in Pending
              \/ setting.lookupsMayFail
              \/ \E e \in Range(feed') : Concludes(e, c) /\ (Live(c) => Opens(e, c)),
           \A k \in 1..MaxCancels : CancelPends(c, k) =>
              CancelPends(c, k)' \/ \E e \in Range(feed') : AnswersCancel(e, c),
           (Live(c)' => Live(c)) \/ LiveIsReported(c)',
           \/ venue'[c].state = "over" =>
                 venue[c].state = "over" /\ (NeverOpened(c) => NeverOpened(c)')
           \/ EndIsReported(c)',
           (Live(c)' => Live(c) /\ venue'[c].filled = venue[c].filled) \/ FillIsReported(c)'
    PROVE  NothingIsMissing(c)'
<1>1. /\ Size' = Size /\ MaxCancels' = MaxCancels
      /\ (RoomToRemember' <=> RoomToRemember) /\ (FillsAreReported' <=> FillsAreReported)
  BY DEF Size, MaxCancels, RoomToRemember, FillsAreReported
<1>2. /\ IsTracked(c)' <=> IsTracked(c)
      /\ Is(c, "CancelInFlight")' <=> Is(c, "CancelInFlight")
      /\ Is(c, "OpenInFlight")' <=> Is(c, "OpenInFlight")
      /\ Holds(c)' <=> Holds(c)
  BY DEF IsTracked, Is, Holds
<1>3. Range(feed) \subseteq Range(feed')
  BY FeedOfKept
<1>4. StreamKept => \/ link' # "up"
                    \/ link = "up" /\ \A e \in Reported : e \in Reported'
  BY <1>3 DEF StreamKept, Reported
<1>5. CancelIsAnswered(c)'
  BY <1>1, <1>2, <1>3 DEF NothingIsMissing, CancelIsAnswered
<1>6. OpenIsAnswered(c)'
  BY <1>2, <1>3 DEF NothingIsMissing, OpenIsAnswered
<1>7. LiveIsReported(c)'
  <2> SUFFICES ASSUME Live(c)', Live(c), ~Holds(c)
               PROVE  /\ \/ setting'.lookupsMayFail
                         \/ open'[c].phase \in Pending
                         \/ \E e \in Range(feed') : Opens(e, c)
                      /\ \/ setting'.partialListings
                         \/ link' # "up"
                         \/ \E e \in Reported' : Opens(e, c)
    BY <1>2 DEF LiveIsReported
  <2>1. \/ setting'.lookupsMayFail
        \/ open'[c].phase \in Pending
        \/ \E e \in Range(feed') : Opens(e, c)
    BY <1>3 DEF NothingIsMissing, LiveIsReported
  <2>2. \/ setting'.partialListings
        \/ link' # "up"
        \/ \E e \in Reported' : Opens(e, c)
    BY <1>4 DEF NothingIsMissing, LiveIsReported, ToldInFull
  <2> QED
    BY <2>1, <2>2
<1>8. EndIsReported(c)'
  <2> SUFFICES ASSUME RoomToRemember, venue'[c].state = "over", venue[c].state = "over",
                      NeverOpened(c) => NeverOpened(c)'
               PROVE  \/ Remembers(retired', c)
                      \/ unproven'[c] # "no"
                      \/ link' # "up"
                      \/ \E e \in Reported' : Ends(e, c)'
                      \/ RemovalDue(c)'
                      \/ NeverOpened(c)'
    BY <1>1 DEF EndIsReported, Remembers
  <2>1. \A e : Ends(e, c) => Ends(e, c)'
    BY <1>1 DEF Ends
  <2>2. RemovalDue(c) => RemovalDue(c)'
    BY RemovalStaysDue
  <2> QED
    BY <1>4, <2>1, <2>2 DEF NothingIsMissing, EndIsReported, ToldInFull
<1>9. FillIsReported(c)'
  <2> SUFFICES ASSUME FillsAreReported, Live(c)', Live(c), venue'[c].filled = venue[c].filled
               PROVE  \/ Holds(c)' /\ tracked'[c].open.filled = venue'[c].filled
                      \/ link' # "up"
                      \/ \E e \in Reported' : ReportsFill(e, c, venue'[c].filled)
    BY <1>1 DEF FillIsReported
  <2> QED
    BY <1>1, <1>2, <1>4 DEF NothingIsMissing, FillIsReported, ToldInFull
<1> QED
  BY <1>5, <1>6, <1>7, <1>8, <1>9 DEF NothingIsMissing

\* A step that is about other orders.
LEMMA OthersKept ==
    ASSUME NEW c \in Cid, NothingIsMissing(c), feed \in Seq(AccountEvent),
           setting' = setting, tracked'[c] = tracked[c], unproven'[c] = unproven[c],
           Remembers(retired, c) => Remembers(retired', c),
           venue'[c] = venue[c], open'[c] = open[c], cancel'[c] = cancel[c],
           FeedKept, StreamKept,
           \A e \in Reported' : e \in Reported \/ ~Opens(e, c)
    PROVE  NothingIsMissing(c)'
<1>1. MaxCancels' = MaxCancels /\ (Live(c)' <=> Live(c))
  BY DEF MaxCancels, Live
<1>2. RequestIsPending(c)'
  BY DEF NothingIsMissing, RequestIsPending
<1>3. \A k \in 1..MaxCancels : CancelPends(c, k) => CancelPends(c, k)'
  BY DEF CancelPends
<1>4. NeverOpened(c) => NeverOpened(c)'
  BY DEF NeverOpened, Holds, IsTracked
<1> QED
  BY <1>1, <1>2, <1>3, <1>4, OrderKept

-----------------------------------------------------------------------------
(* What an operation outside the engine does to the queues.                *)

LEMMA ForwardedKeeps ==
    ASSUME feed \in Seq(AccountEvent), UNCHANGED <<stream, link>>,
           NEW event \in AccountEvent, feed' = Append(feed, event)
    PROVE  /\ FeedKept /\ StreamKept
           /\ event \in Range(feed')
           /\ \A e \in Reported' : e \in Reported \/ e = event
<1>1. /\ Len(feed) \in Nat
      /\ DOMAIN feed = 1..Len(feed) /\ DOMAIN feed' = 1..(Len(feed) + 1)
      /\ \A i \in 1..Len(feed) : feed'[i] = feed[i]
      /\ feed'[Len(feed) + 1] = event
  BY Appended
<1>2. FeedKept
  BY <1>1 DEF FeedKept
<1>3. event \in Range(feed')
  BY <1>1 DEF Range
<1>4. \A e \in Range(feed') : e \in Range(feed) \/ e = event
  BY <1>1 DEF Range
<1> QED
  BY <1>2, <1>3, <1>4 DEF StreamKept, Reported

LEMMA EmittedKeeps ==
    ASSUME stream \in Seq(AccountEvent), UNCHANGED <<feed, link>>,
           NEW events \in Seq(AccountEvent), Emit(events)
    PROVE  /\ FeedKept /\ StreamKept
           /\ \A i \in DOMAIN events : link' = "up" => events[i] \in Reported'
           /\ \A e \in Reported' : e \in Reported \/ \E i \in DOMAIN events : e = events[i]
<1>1. FeedKept
  BY DEF FeedKept
<1>2. CASE UNCHANGED stream /\ (link = "down" \/ events = <<>>)
  BY <1>1, <1>2 DEF StreamKept, Reported
<1>3. CASE stream' = stream \o events
  <2>1. /\ Len(stream) \in Nat /\ Len(events) \in Nat
        /\ DOMAIN stream = 1..Len(stream) /\ DOMAIN events = 1..Len(events)
        /\ DOMAIN stream' = 1..(Len(stream) + Len(events))
        /\ \A i \in 1..Len(stream) : stream'[i] = stream[i]
        /\ \A i \in (Len(stream) + 1)..(Len(stream) + Len(events)) :
              stream'[i] = events[i - Len(stream)]
    BY <1>3, Joined
  <2>2. Range(stream) \subseteq Range(stream')
    BY <2>1 DEF Range
  <2>3. \A i \in DOMAIN events : events[i] \in Range(stream')
    <3>1. \A i \in DOMAIN events : Len(stream) + i \in DOMAIN stream'
                                   /\ stream'[Len(stream) + i] = events[i]
      BY <2>1
    <3> QED
      BY <3>1 DEF Range
  <2>4. \A e \in Range(stream') : e \in Range(stream) \/ \E i \in DOMAIN events : e = events[i]
    <3>1. \A j \in DOMAIN stream' : \/ j \in DOMAIN stream /\ stream'[j] = stream[j]
                                    \/ \E i \in DOMAIN events : stream'[j] = events[i]
      <4> TAKE j \in DOMAIN stream'
      <4>1. CASE j \in 1..Len(stream)
        BY <2>1, <4>1
      <4>2. CASE j \notin 1..Len(stream)
        <5>1. j - Len(stream) \in DOMAIN events /\ stream'[j] = events[j - Len(stream)]
          BY <2>1, <4>2
        <5> QED
          BY <5>1
      <4> QED
        BY <4>1, <4>2
    <3> QED
      BY <3>1 DEF Range
  <2> QED
    BY <1>1, <2>2, <2>3, <2>4 DEF StreamKept, Reported
<1> QED
  BY <1>2, <1>3 DEF Emit

\* Nothing is reported of an order that the venue does not have.
LEMMA UnplacedIsUnreported ==
    ASSUME LifecycleInv, NEW c \in Cid, venue[c].state = "none"
    PROVE  ~Holds(c) /\ \A e \in Reported : ~Opens(e, c)
<1>1. ~Holds(c)
  BY DEF LifecycleInv, TrackedAgrees, Agrees, Holds
<1>2. ASSUME NEW e \in Reported PROVE e \in AccountEvent /\ Tells(e)
  BY <1>2 DEF LifecycleInv, FeedIsTrue, StreamIsTrue, Reported, Range
<1>3. ASSUME NEW e \in Reported, Opens(e, c) PROVE FALSE
  BY <1>2, <1>3 DEF Opens, Tells, IsTrue
<1> QED
  BY <1>1, <1>3

-----------------------------------------------------------------------------
(* The requests.                                                           *)

\* A step of the open request of d, and of nothing else outside the engine.
LEMMA OpenRequestMoves ==
    ASSUME LifecycleInv, QuietInv, NEW d \in Cid, NEW request \in OpenRequest,
           open' = [open EXCEPT ![d] = request],
           UNCHANGED <<setting, venue, cancel, stream, link, engine>>,
           FeedKept, StreamKept,
           \A e \in Reported' :
              \/ e \in Reported
              \/ \A c \in Cid : Opens(e, c) =>
                    c = d /\ open[d].answer # NoAnswer /\ open[d].answer.state = "Open",
           open[d].phase # "unsent",
           request.answer # NoAnswer =>
              /\ ~request.onWire /\ request.phase \in Pending
              /\ request.answer.state # "OutcomeUnknown"
              /\ venue[d].state = "over" /\ request.answer.state = "Open" =>
                    request.answer = open[d].answer,
           request.onWire => request.phase \in Pending \/ setting.lookupsMayFail,
           open[d].phase \in Pending =>
              \/ request.phase \in Pending
              \/ setting.lookupsMayFail
              \/ \E e \in Range(feed') : Concludes(e, d) /\ (Live(d) => Opens(e, d))
    PROVE  QuietInv'
<1>1. /\ feed \in Seq(AccountEvent)
      /\ open \in [Cid -> OpenRequest]
      /\ \A c \in Cid : NothingIsMissing(c)
  BY TypesOfRequests DEF LifecycleInv, FeedIsTrue, QuietInv
<1>2. /\ tracked' = tracked /\ retired' = retired /\ unproven' = unproven
      /\ setting' = setting /\ venue' = venue /\ cancel' = cancel
  BY DEF engine
<1>3. open'[d] = request /\ \A c \in Cid : c # d => open'[c] = open[c]
  BY <1>1
<1>4. ASSUME NEW c \in Cid, c # d PROVE NothingIsMissing(c)'
  <2>1. \A e \in Reported' : e \in Reported \/ ~Opens(e, c)
    BY <1>4
  <2> QED
    BY <1>1, <1>2, <1>3, <1>4, <2>1, OthersKept
<1>5. NothingIsMissing(d)'
  <2>1. RequestIsPending(d)'
    BY <1>1, <1>2, <1>3 DEF RequestIsPending, NothingIsMissing
  <2>2. \A k \in 1..MaxCancels : CancelPends(d, k) => CancelPends(d, k)'
    BY <1>2 DEF CancelPends
  <2>3. venue[d].state = "over" /\ NeverOpened(d) => NeverOpened(d)'
    <3> SUFFICES ASSUME venue[d].state = "over", NeverOpened(d) PROVE NeverOpened(d)'
      OBVIOUS
    <3>1. ~Holds(d)'
      BY <1>2 DEF NeverOpened, Holds, IsTracked
    <3>2. open'[d].answer # NoAnswer => open'[d].answer.state # "Open"
      BY <1>3 DEF NeverOpened
    <3>3. \A e \in Reported' : ~Opens(e, d)
      BY DEF NeverOpened
    <3> QED
      BY <3>1, <3>2, <3>3 DEF NeverOpened
  <2>4. Live(d)' => Live(d)
    BY <1>2 DEF Live
  <2> QED
    BY <1>1, <1>2, <1>3, <2>1, <2>2, <2>3, <2>4, OrderKept
<1> QED
  BY <1>4, <1>5 DEF QuietInv

\* A request and its answer as they are.
LEMMA RequestOf ==
    ASSUME LifecycleInv, QuietInv, NEW d \in Cid
    PROVE  /\ open[d] \in OpenRequest
           /\ RequestAgrees(d) /\ RequestIsPending(d)
  BY TypesOfRequests DEF LifecycleInv, RequestsAgree, QuietInv, NothingIsMissing

\* The queues as they are, while only the requests change.
LEMMA QueuesRest ==
    ASSUME UNCHANGED <<feed, stream, link>>
    PROVE  FeedKept /\ StreamKept /\ Reported' = Reported
  BY DEF FeedKept, StreamKept, Reported

LEMMA LoseOpenIsNotMissed ==
    ASSUME LifecycleInv, QuietInv, NEW d \in Cid, LoseOpen(d)
    PROVE  QuietInv'
<1>1. /\ UNCHANGED <<setting, venue, cancel, stream, link, engine>> /\ feed' = feed
      /\ open[d].onWire
  BY DEF LoseOpen
<1>2. open[d] \in OpenRequest /\ RequestAgrees(d) /\ RequestIsPending(d)
  BY RequestOf
<1>3. PICK request : request = [open[d] EXCEPT !.onWire = FALSE]
  OBVIOUS
<1>4. /\ request \in OpenRequest /\ request.phase = open[d].phase /\ ~request.onWire
      /\ request.answer = open[d].answer
  BY <1>2, <1>3 DEF OpenRequest
<1>5. open' = [open EXCEPT ![d] = request]
  BY <1>3 DEF LoseOpen
<1>6. FeedKept /\ StreamKept /\ Reported' = Reported
  BY <1>1, QueuesRest
<1>7. open[d].phase # "unsent" /\ open[d].answer = NoAnswer
  BY <1>1, <1>2 DEF RequestAgrees, RequestIsPending
<1> QED
  BY <1>1, <1>4, <1>5, <1>6, <1>7, OpenRequestMoves

LEMMA ForwardAnswerIsNotMissed ==
    ASSUME LifecycleInv, QuietInv, NEW d \in Cid, ForwardAnswer(d)
    PROVE  QuietInv'
<1>1. /\ UNCHANGED <<setting, venue, cancel, stream, link, engine>>
      /\ open[d].answer # NoAnswer
      /\ feed' = Append(feed, OrderEvent(open[d].answer))
  BY DEF ForwardAnswer, Forward
<1>2. open[d] \in OpenRequest /\ RequestAgrees(d) /\ RequestIsPending(d)
  BY RequestOf
<1>3. PICK request : request = [open[d] EXCEPT !.phase = "settled", !.answer = NoAnswer]
  OBVIOUS
<1>4. /\ request \in OpenRequest /\ request.phase = "settled"
      /\ request.onWire = open[d].onWire /\ request.answer = NoAnswer
  BY <1>2, <1>3 DEF OpenRequest
<1>5. open' = [open EXCEPT ![d] = request]
  BY <1>3 DEF ForwardAnswer
<1>6. /\ open[d].phase # "unsent" /\ ~open[d].onWire
      /\ open[d].answer \in OrderReport /\ open[d].answer.cid = d
      /\ open[d].answer.state # "OutcomeUnknown"
      /\ Live(d) => open[d].answer.state = "Open"
  BY <1>1, <1>2 DEF RequestAgrees, RequestIsPending, IsTrue, Finished, OrderReport, Live
<1>7. PICK e \in AccountEvent : e = OrderEvent(open[d].answer)
  BY <1>6, Events
<1>8. e.kind = "Order" /\ e.order = open[d].answer
  BY <1>6, <1>7, Events
<1>9. /\ FeedKept /\ StreamKept /\ e \in Range(feed')
      /\ \A x \in Reported' : x \in Reported \/ x = e
  BY <1>1, <1>7, ForwardedKeeps DEF LifecycleInv, FeedIsTrue
<1>10. Concludes(e, d) /\ (Live(d) => Opens(e, d))
  BY <1>6, <1>8 DEF Concludes, Opens
<1>11. \A c \in Cid : Opens(e, c) => c = d /\ open[d].answer.state = "Open"
  BY <1>6, <1>8 DEF Opens
<1>12. \A x \in Reported' :
         \/ x \in Reported
         \/ \A c \in Cid : Opens(x, c) =>
               c = d /\ open[d].answer # NoAnswer /\ open[d].answer.state = "Open"
  BY <1>1, <1>9, <1>11
<1>13. ~request.onWire
  BY <1>4, <1>6
<1> QED
  BY <1>1, <1>4, <1>5, <1>6, <1>9, <1>10, <1>12, <1>13, OpenRequestMoves

LEMMA TimeoutOpenIsNotMissed ==
    ASSUME LifecycleInv, QuietInv, NEW d \in Cid, TimeoutOpen(d)
    PROVE  QuietInv'
<1>1. /\ UNCHANGED <<setting, venue, cancel, stream, link, engine>>
      /\ open[d].phase = "awaited"
      /\ feed' = Append(feed, OrderEvent(Report(d, "OutcomeUnknown")))
  BY DEF TimeoutOpen, Forward
<1>2. open[d] \in OpenRequest
  BY RequestOf
<1>3. PICK request : request = [open[d] EXCEPT !.phase = "lookedUp", !.answer = NoAnswer]
  OBVIOUS
<1>4. /\ request \in OpenRequest /\ request.phase = "lookedUp" /\ request.phase \in Pending
      /\ request.answer = NoAnswer
  BY <1>2, <1>3 DEF OpenRequest, Pending
<1>5. open' = [open EXCEPT ![d] = request]
  BY <1>3 DEF TimeoutOpen
<1>6. PICK s \in OrderReport : s = Report(d, "OutcomeUnknown") /\ s.state = "OutcomeUnknown"
  BY TypesOfRequests, Reporting
<1>7. PICK e \in AccountEvent : e = OrderEvent(s)
  BY Events
<1>8. e.kind = "Order" /\ e.order = s
  BY <1>7, Events
<1>9. /\ FeedKept /\ StreamKept
      /\ \A x \in Reported' : x \in Reported \/ x = e
  BY <1>1, <1>6, <1>7, ForwardedKeeps DEF LifecycleInv, FeedIsTrue
<1>10. \A c \in Cid : ~Opens(e, c)
  BY <1>6, <1>8 DEF Opens
<1>11. \A x \in Reported' :
         \/ x \in Reported
         \/ \A c \in Cid : Opens(x, c) =>
               c = d /\ open[d].answer # NoAnswer /\ open[d].answer.state = "Open"
  BY <1>9, <1>10
<1> QED
  BY <1>1, <1>4, <1>5, <1>9, <1>11, OpenRequestMoves

LEMMA LookUpIsNotMissed ==
    ASSUME LifecycleInv, QuietInv, NEW d \in Cid, LookUp(d)
    PROVE  QuietInv'
<1>1. /\ UNCHANGED <<setting, venue, cancel, stream, link, engine>> /\ feed' = feed
      /\ open[d].phase = "lookedUp"
      /\ venue[d].state = "none" => ~open[d].onWire
  BY DEF LookUp
<1>2. open[d] \in OpenRequest /\ RequestAgrees(d) /\ setting \in Settings
  BY RequestOf, TypesOfRequests
<1>3. PICK s : s = IF venue[d].state = "none" THEN Report(d, "NotPlaced") ELSE StateAtVenue(d)
  OBVIOUS
<1>4. /\ s \in OrderReport
      /\ s.state # "OutcomeUnknown"
      /\ venue[d].state = "over" => s.state # "Open"
  <2>1. CASE venue[d].state = "none"
    BY <2>1, <1>2, <1>3, Reporting
  <2>2. CASE Live(d)
    BY <2>2, <1>3, AnswerAtVenue DEF Live
  <2>3. CASE venue[d].state # "none" /\ ~Live(d)
    <3>1. s = Report(d, "Ended")
      BY <2>3, <1>3 DEF StateAtVenue
    <3> QED
      BY <3>1, <1>2, Reporting
  <2> QED
    BY <2>1, <2>2, <2>3
<1>5. s \in Snapshot
  BY <1>4 DEF OrderReport
<1>6. PICK request : request = [open[d] EXCEPT !.answer = s]
  OBVIOUS
<1>7. /\ request \in OpenRequest /\ request.phase = open[d].phase
      /\ request.onWire = open[d].onWire /\ request.answer = s
  BY <1>2, <1>5, <1>6 DEF OpenRequest
<1>8. open' = [open EXCEPT ![d] = request]
  BY <1>3, <1>6 DEF LookUp
<1>9. ~open[d].onWire /\ "lookedUp" \in Pending
  BY <1>1, <1>2 DEF RequestAgrees, Pending
<1>10. FeedKept /\ StreamKept /\ Reported' = Reported
  BY <1>1, QueuesRest
<1> QED
  BY <1>1, <1>4, <1>7, <1>8, <1>9, <1>10, OpenRequestMoves

LEMMA LookupsRunOutIsNotMissed ==
    ASSUME LifecycleInv, QuietInv, NEW d \in Cid, LookupsRunOut(d)
    PROVE  QuietInv'
<1>1. /\ UNCHANGED <<setting, venue, cancel, stream, link, engine>> /\ feed' = feed
      /\ setting.lookupsMayFail
      /\ open[d].phase = "lookedUp" /\ open[d].answer = NoAnswer
  BY DEF LookupsRunOut
<1>2. open[d] \in OpenRequest
  BY RequestOf
<1>3. PICK request : request = [open[d] EXCEPT !.phase = "settled"]
  OBVIOUS
<1>4. request \in OpenRequest /\ request.answer = NoAnswer
  BY <1>1, <1>2, <1>3 DEF OpenRequest
<1>5. open' = [open EXCEPT ![d] = request]
  BY <1>3 DEF LookupsRunOut
<1>6. FeedKept /\ StreamKept /\ Reported' = Reported
  BY <1>1, QueuesRest
<1> QED
  BY <1>1, <1>4, <1>5, <1>6, OpenRequestMoves

\* A step of one cancel request of d: it still pends, or its answer is given.
LEMMA CancelRequestMoves ==
    ASSUME LifecycleInv, QuietInv, NEW d \in Cid, NEW k \in 1..MaxCancels,
           NEW state \in CancelState,
           cancel' = [cancel EXCEPT ![d][k] = state],
           UNCHANGED <<setting, venue, open, stream, link, engine>>,
           FeedKept, StreamKept,
           \A e \in Reported' : e \in Reported \/ \A c \in Cid : ~Opens(e, c),
           CancelPends(d, k) =>
              \/ state \in {"onWire", "lost", "accepted", "refused"}
              \/ \E e \in Range(feed') : AnswersCancel(e, d)
    PROVE  QuietInv'
<1>1. /\ feed \in Seq(AccountEvent)
      /\ cancel \in [Cid -> [1..MaxCancels -> CancelState]]
      /\ \A c \in Cid : NothingIsMissing(c)
  BY TypesOfRequests DEF LifecycleInv, FeedIsTrue, QuietInv
<1>2. /\ tracked' = tracked /\ retired' = retired /\ unproven' = unproven
      /\ setting' = setting /\ venue' = venue /\ open' = open
  BY DEF engine
<1>3. /\ \A c \in Cid : c # d => cancel'[c] = cancel[c]
      /\ \A j \in 1..MaxCancels : cancel'[d][j] = IF j = k THEN state ELSE cancel[d][j]
  BY <1>1
<1>4. ASSUME NEW c \in Cid, c # d PROVE NothingIsMissing(c)'
  BY <1>1, <1>2, <1>3, <1>4, OthersKept
<1>5. NothingIsMissing(d)'
  <2>1. RequestIsPending(d)'
    BY <1>1, <1>2 DEF RequestIsPending, NothingIsMissing
  <2>2. \A j \in 1..MaxCancels : CancelPends(d, j) =>
           CancelPends(d, j)' \/ \E e \in Range(feed') : AnswersCancel(e, d)
    BY <1>3 DEF CancelPends
  <2>3. venue[d].state = "over" /\ NeverOpened(d) => NeverOpened(d)'
    BY <1>2 DEF NeverOpened, Holds, IsTracked
  <2>4. Live(d)' => Live(d)
    BY <1>2 DEF Live
  <2> QED
    BY <1>1, <1>2, <2>1, <2>2, <2>3, <2>4, OrderKept
<1> QED
  BY <1>4, <1>5 DEF QuietInv

LEMMA LoseCancelIsNotMissed ==
    ASSUME LifecycleInv, QuietInv, NEW d \in Cid, NEW k \in 1..MaxCancels, LoseCancel(d, k)
    PROVE  QuietInv'
<1>1. UNCHANGED <<setting, venue, open, stream, link, engine>> /\ feed' = feed
  BY DEF LoseCancel
<1>2. PICK state \in CancelState :
         /\ cancel' = [cancel EXCEPT ![d][k] = state]
         /\ CancelPends(d, k) => state \in {"onWire", "lost", "accepted", "refused"}
  BY TypesOfRequests DEF LoseCancel, CancelState, CancelPends
<1>3. FeedKept /\ StreamKept /\ Reported' = Reported
  BY <1>1, QueuesRest
<1> QED
  BY <1>1, <1>2, <1>3, CancelRequestMoves

\* The manager answers a cancel.
LEMMA CancelAnswerIsNotMissed ==
    ASSUME LifecycleInv, QuietInv, NEW d \in Cid, NEW k \in 1..MaxCancels, NEW ok \in BOOLEAN,
           NEW state \in CancelState,
           cancel' = [cancel EXCEPT ![d][k] = state],
           UNCHANGED <<setting, venue, open, stream, link, engine>>,
           feed' = Append(feed, CancelEvent(d, ok))
    PROVE  QuietInv'
<1>1. PICK e \in AccountEvent : e = CancelEvent(d, ok)
  BY Events
<1>2. e.kind = "Cancelled" /\ e.cid = d
  BY <1>1, Events
<1>3. /\ FeedKept /\ StreamKept /\ e \in Range(feed')
      /\ \A x \in Reported' : x \in Reported \/ x = e
  BY <1>1, ForwardedKeeps DEF LifecycleInv, FeedIsTrue
<1>4. AnswersCancel(e, d) /\ \A c \in Cid : ~Opens(e, c)
  BY <1>2 DEF AnswersCancel, Opens
<1> QED
  BY <1>3, <1>4, CancelRequestMoves

LEMMA ForwardCancelAnswerIsNotMissed ==
    ASSUME LifecycleInv, QuietInv, NEW d \in Cid, NEW k \in 1..MaxCancels,
           ForwardCancelAnswer(d, k)
    PROVE  QuietInv'
<1>1. /\ UNCHANGED <<setting, venue, open, stream, link, engine>>
      /\ cancel' = [cancel EXCEPT ![d][k] = "done"]
  BY DEF ForwardCancelAnswer
<1>2. PICK ok \in BOOLEAN : ok = (cancel[d][k] = "accepted")
  OBVIOUS
<1>3. feed' = Append(feed, CancelEvent(d, ok)) /\ "done" \in CancelState
  BY <1>2 DEF ForwardCancelAnswer, Forward, CancelState
<1> QED
  BY <1>1, <1>3, CancelAnswerIsNotMissed

LEMMA TimeoutCancelIsNotMissed ==
    ASSUME LifecycleInv, QuietInv, NEW d \in Cid, NEW k \in 1..MaxCancels, TimeoutCancel(d, k)
    PROVE  QuietInv'
<1>1. UNCHANGED <<setting, venue, open, stream, link, engine>>
  BY DEF TimeoutCancel
<1>2. PICK state \in CancelState : cancel' = [cancel EXCEPT ![d][k] = state]
  BY DEF TimeoutCancel, CancelState
<1>3. PICK ok \in BOOLEAN : ok = FALSE
  OBVIOUS
<1>4. feed' = Append(feed, CancelEvent(d, ok))
  BY <1>3 DEF TimeoutCancel, Forward
<1> QED
  BY <1>1, <1>2, <1>4, CancelAnswerIsNotMissed

-----------------------------------------------------------------------------
(* The venue.                                                              *)

\* What the venue emits of d is no other order's business.
LEMMA OthersUnmoved ==
    ASSUME LifecycleInv, QuietInv, NEW d \in Cid,
           UNCHANGED <<setting, feed, link, engine>>,
           NEW events \in Seq(AccountEvent), Emit(events),
           \A i \in DOMAIN events : \A c \in Cid : Opens(events[i], c) => c = d,
           \A c \in Cid : c # d =>
              venue'[c] = venue[c] /\ open'[c] = open[c] /\ cancel'[c] = cancel[c]
    PROVE  \A c \in Cid : c # d => NothingIsMissing(c)'
<1>1. /\ feed \in Seq(AccountEvent) /\ stream \in Seq(AccountEvent)
      /\ \A c \in Cid : NothingIsMissing(c)
  BY DEF LifecycleInv, FeedIsTrue, StreamIsTrue, QuietInv
<1>2. /\ tracked' = tracked /\ retired' = retired /\ unproven' = unproven
      /\ setting' = setting
  BY DEF engine
<1>3. /\ FeedKept /\ StreamKept
      /\ \A e \in Reported' : e \in Reported \/ \E i \in DOMAIN events : e = events[i]
  BY <1>1, EmittedKeeps
<1> TAKE c \in Cid
<1> HAVE c # d
<1>4. \A e \in Reported' : e \in Reported \/ ~Opens(e, c)
  BY <1>3
<1> QED
  BY <1>1, <1>2, <1>3, <1>4, OthersKept

\* A live order trades or ends, and the venue says so.
LEMMA LiveMoveIsReported ==
    ASSUME LifecycleInv, QuietInv, NEW d \in Cid, Live(d),
           NEW order \in VenueOrder, order.state # "none",
           venue' = [venue EXCEPT ![d] = order],
           UNCHANGED <<setting, open, feed, link, engine>>,
           \A c \in Cid : c # d => cancel'[c] = cancel[c],
           \A k \in 1..MaxCancels : CancelPends(d, k) => CancelPends(d, k)',
           NEW events \in Seq(AccountEvent), Emit(events),
           \A i \in DOMAIN events : \A c \in Cid : Opens(events[i], c) => c = d,
           order.state = "over" => \E i \in DOMAIN events : Ends(events[i], d)',
           order.state = "live" /\ FillsAreReported =>
              \E i \in DOMAIN events : ReportsFill(events[i], d, order.filled)
    PROVE  QuietInv'
<1>1. /\ feed \in Seq(AccountEvent) /\ stream \in Seq(AccountEvent)
      /\ venue \in [Cid -> VenueOrder]
      /\ \A c \in Cid : NothingIsMissing(c)
  BY TypesOfRequests DEF LifecycleInv, FeedIsTrue, StreamIsTrue, QuietInv
<1>2. /\ tracked' = tracked /\ retired' = retired /\ unproven' = unproven
      /\ setting' = setting /\ open' = open
  BY DEF engine
<1>3. venue'[d] = order /\ \A c \in Cid : c # d => venue'[c] = venue[c]
  BY <1>1
<1>4. /\ FeedKept /\ StreamKept
      /\ \A i \in DOMAIN events : link' = "up" => events[i] \in Reported'
  BY <1>1, EmittedKeeps
<1>5. \A c \in Cid : c # d => NothingIsMissing(c)'
  BY <1>2, <1>3, OthersUnmoved
<1>6. NothingIsMissing(d)'
  <2>1. RequestIsPending(d)'
    BY <1>1, <1>2 DEF RequestIsPending, NothingIsMissing
  <2>2. venue'[d].state = "over" => EndIsReported(d)'
    <3>1. order.state = "over" => link' # "up" \/ \E e \in Reported' : Ends(e, d)'
      BY <1>4
    <3> QED
      BY <1>3, <3>1 DEF EndIsReported
  <2>3. FillIsReported(d)'
    <3>1. FillsAreReported' <=> FillsAreReported
      BY <1>2 DEF FillsAreReported
    <3>2. order.state = "live" /\ FillsAreReported =>
             link' # "up" \/ \E e \in Reported' : ReportsFill(e, d, order.filled)
      BY <1>4
    <3> QED
      BY <1>3, <3>1, <3>2 DEF FillIsReported, Live
  <2>4. venue'[d].state = "over" \/ order.state = "live"
    BY <1>3 DEF VenueOrder
  <2>5. \/ venue'[d].state = "over" =>
              venue[d].state = "over" /\ (NeverOpened(d) => NeverOpened(d)')
        \/ EndIsReported(d)'
    BY <2>2
  <2> QED
    BY <1>1, <1>2, <1>4, <2>1, <2>3, <2>5, OrderKept
<1> QED
  BY <1>5, <1>6 DEF QuietInv

\* The report that d has ended.
LEMMA EndingEvent ==
    ASSUME setting \in Settings, setting' = setting, NEW d \in Cid
    PROVE  \E end \in AccountEvent :
              /\ end = OrderEvent(Report(d, "Ended"))
              /\ Ends(end, d)' /\ \A c \in Cid : ~Opens(end, c)
<1>1. PICK s \in OrderReport : s = Report(d, "Ended") /\ s.cid = d /\ s.state = "Ended"
  BY Reporting
<1>2. PICK end \in AccountEvent : end = OrderEvent(s)
  BY Events
<1>3. end.kind = "Order" /\ end.order = s
  BY <1>2, Events
<1>4. Ends(end, d)'
  BY <1>1, <1>3 DEF Ends
<1>5. \A c \in Cid : ~Opens(end, c)
  BY <1>1, <1>3 DEF Opens
<1> QED
  BY <1>1, <1>2, <1>4, <1>5

\* The report that d is open.
LEMMA OpeningEvent ==
    ASSUME setting \in Settings, setting' = setting, NEW d \in Cid, NEW filled \in 0..Size
    PROVE  \E report \in AccountEvent :
              /\ report = OrderEvent(OpenReport(d, filled))
              /\ Opens(report, d) /\ ReportsFill(report, d, filled)
              /\ filled = Size => Ends(report, d)'
              /\ \A c \in Cid : Opens(report, c) => c = d
<1>1. PICK s \in OrderReport :
         /\ s = OpenReport(d, filled)
         /\ s.cid = d /\ s.state = "Open" /\ s.open.filled = filled
  BY Reporting
<1>2. PICK report \in AccountEvent : report = OrderEvent(s)
  BY Events
<1>3. report.kind = "Order" /\ report.order = s
  BY <1>2, Events
<1>4. filled = Size => Ends(report, d)'
  BY <1>1, <1>3, SameReports DEF Ends
<1>5. /\ Opens(report, d) /\ ReportsFill(report, d, filled)
      /\ \A c \in Cid : Opens(report, c) => c = d
  BY <1>1, <1>3 DEF Opens, ReportsFill
<1> QED
  BY <1>1, <1>2, <1>4, <1>5

\* The report of a fill says nothing else.
LEMMA FillingEvent ==
    ASSUME NEW d \in Cid, NEW filled \in 0..Size
    PROVE  \E fill \in AccountEvent :
              fill = FillEvent(d, filled) /\ \A c \in Cid : ~Opens(fill, c)
<1>1. PICK fill \in AccountEvent : fill = FillEvent(d, filled)
  BY Events
<1>2. fill.kind = "Fill"
  BY <1>1, Events
<1> QED
  BY <1>1, <1>2 DEF Opens

LEMMA VenueFillsIsNotMissed ==
    ASSUME LifecycleInv, QuietInv, NEW d \in Cid, VenueFills(d)
    PROVE  QuietInv'
<1>1. /\ UNCHANGED <<setting, open, feed, link, engine>>
      /\ cancel' = cancel /\ Live(d) /\ venue[d].state = "live" /\ setting' = setting
  BY DEF VenueFills, Live
<1>2. /\ setting \in Settings /\ venue \in [Cid -> VenueOrder] /\ Size \in Nat \ {0}
  BY <1>1, TypesOfRequests, Scales
<1>3. PICK filled : filled = venue[d].filled + 1
  OBVIOUS
<1>4. filled \in 0..Size
  BY <1>1, <1>2, <1>3 DEF LifecycleInv, RequestsAgree, RequestAgrees, VenueOrder
<1>5. PICK order : order = [state |-> IF filled = Size THEN "over" ELSE "live", filled |-> filled]
  OBVIOUS
<1>6. /\ order \in VenueOrder /\ order.state # "none" /\ order.filled = filled
      /\ order.state = "over" => filled = Size
      /\ order.state = "live" => filled < Size
  BY <1>2, <1>4, <1>5 DEF VenueOrder
<1>7. PICK fill \in AccountEvent : fill = FillEvent(d, filled) /\ \A c \in Cid : ~Opens(fill, c)
  BY <1>4, FillingEvent
<1>8. PICK report \in AccountEvent :
         /\ report = OrderEvent(OpenReport(d, filled))
         /\ Opens(report, d) /\ ReportsFill(report, d, filled)
         /\ filled = Size => Ends(report, d)'
         /\ \A c \in Cid : Opens(report, c) => c = d
  BY <1>1, <1>2, <1>4, OpeningEvent
<1>9. PICK end \in AccountEvent :
         /\ end = OrderEvent(Report(d, "Ended"))
         /\ Ends(end, d)' /\ \A c \in Cid : ~Opens(end, c)
  BY <1>1, <1>2, EndingEvent
<1>10. /\ venue' = [venue EXCEPT ![d] = order]
       /\ \/ /\ filled < Size /\ "execution" \in setting.fillReports
             /\ Emit(<<FillEvent(d, filled)>>)
          \/ filled < Size /\ Emit(<<OrderEvent(OpenReport(d, filled))>>)
          \/ filled = Size /\ Emit(<<OrderEvent(OpenReport(d, filled))>>)
          \/ filled = Size /\ Emit(<<FillEvent(d, filled), OrderEvent(Report(d, "Ended"))>>)
  BY <1>3, <1>5 DEF VenueFills
<1>11. CASE filled < Size /\ "execution" \in setting.fillReports /\ Emit(<<FillEvent(d, filled)>>)
  <2>1. PICK events : events = <<fill>>
    OBVIOUS
  <2>2. events \in Seq(AccountEvent) /\ \A i \in DOMAIN events : events[i] = fill
    BY <2>1, OneOrTwo
  <2>3. Emit(events)
    BY <2>1, <1>7, <1>11
  <2>4. ~FillsAreReported /\ order.state # "over"
    BY <1>2, <1>6, <1>11 DEF FillsAreReported
  <2>5. \A i \in DOMAIN events : \A c \in Cid : Opens(events[i], c) => c = d
    BY <2>2, <1>7
  <2>6. \A k \in 1..MaxCancels : CancelPends(d, k) => CancelPends(d, k)'
    BY <1>1 DEF CancelPends
  <2> QED
    BY <1>1, <1>6, <1>10, <2>2, <2>3, <2>4, <2>5, <2>6, LiveMoveIsReported
<1>12. CASE Emit(<<OrderEvent(OpenReport(d, filled))>>)
  <2>1. PICK events : events = <<report>>
    OBVIOUS
  <2>2. /\ events \in Seq(AccountEvent) /\ 1 \in DOMAIN events /\ events[1] = report
        /\ \A i \in DOMAIN events : events[i] = report
    BY <2>1, OneOrTwo
  <2>3. Emit(events)
    BY <2>1, <1>8, <1>12
  <2>4. \A i \in DOMAIN events : \A c \in Cid : Opens(events[i], c) => c = d
    BY <2>2, <1>8
  <2>5. /\ order.state = "over" => Ends(events[1], d)'
        /\ ReportsFill(events[1], d, order.filled)
    BY <2>2, <1>6, <1>8
  <2>6. \A k \in 1..MaxCancels : CancelPends(d, k) => CancelPends(d, k)'
    BY <1>1 DEF CancelPends
  <2> QED
    BY <1>1, <1>6, <1>10, <2>2, <2>3, <2>4, <2>5, <2>6, LiveMoveIsReported
<1>13. CASE filled = Size /\ Emit(<<FillEvent(d, filled), OrderEvent(Report(d, "Ended"))>>)
  <2>1. PICK events : events = <<fill, end>>
    OBVIOUS
  <2>2. /\ events \in Seq(AccountEvent) /\ 2 \in DOMAIN events /\ events[2] = end
        /\ \A i \in DOMAIN events : events[i] = fill \/ events[i] = end
    BY <2>1, OneOrTwo
  <2>3. Emit(events)
    BY <2>1, <1>7, <1>9, <1>13
  <2>4. \A i \in DOMAIN events : \A c \in Cid : Opens(events[i], c) => c = d
    BY <2>2, <1>7, <1>9
  <2>5. Ends(events[2], d)' /\ order.state # "live"
    BY <2>2, <1>2, <1>6, <1>9, <1>13
  <2>6. \A k \in 1..MaxCancels : CancelPends(d, k) => CancelPends(d, k)'
    BY <1>1 DEF CancelPends
  <2> QED
    BY <1>1, <1>6, <1>10, <2>2, <2>3, <2>4, <2>5, <2>6, LiveMoveIsReported
<1> QED
  BY <1>10, <1>11, <1>12, <1>13

\* A live order ends without trading.
LEMMA EndIsNotMissed ==
    ASSUME LifecycleInv, QuietInv, NEW d \in Cid, Live(d),
           venue' = [venue EXCEPT ![d].state = "over"],
           Emit(<<OrderEvent(Report(d, "Ended"))>>),
           UNCHANGED <<setting, open, feed, link, engine>>,
           \A c \in Cid : c # d => cancel'[c] = cancel[c],
           \A k \in 1..MaxCancels : CancelPends(d, k) => CancelPends(d, k)'
    PROVE  QuietInv'
<1>1. setting \in Settings /\ venue \in [Cid -> VenueOrder] /\ setting' = setting
  BY TypesOfRequests
<1>2. PICK order : order = [venue[d] EXCEPT !.state = "over"]
  OBVIOUS
<1>3. order \in VenueOrder /\ order.state = "over"
  BY <1>1, <1>2 DEF VenueOrder
<1>4. venue' = [venue EXCEPT ![d] = order]
  BY <1>2
<1>5. PICK end \in AccountEvent :
         /\ end = OrderEvent(Report(d, "Ended"))
         /\ Ends(end, d)' /\ \A c \in Cid : ~Opens(end, c)
  BY <1>1, EndingEvent
<1>6. PICK events : events = <<end>>
  OBVIOUS
<1>7. /\ events \in Seq(AccountEvent) /\ 1 \in DOMAIN events /\ events[1] = end
      /\ \A i \in DOMAIN events : events[i] = end
  BY <1>6, OneOrTwo
<1>8. Emit(events)
  BY <1>5, <1>6
<1>9. \A i \in DOMAIN events : \A c \in Cid : Opens(events[i], c) => c = d
  BY <1>5, <1>7
<1>10. Ends(events[1], d)'
  BY <1>5, <1>7
<1> QED
  BY <1>3, <1>4, <1>7, <1>8, <1>9, <1>10, LiveMoveIsReported

LEMMA VenueEndsIsNotMissed ==
    ASSUME LifecycleInv, QuietInv, NEW d \in Cid, VenueEnds(d)
    PROVE  QuietInv'
<1>1. /\ UNCHANGED <<setting, open, feed, link, engine>>
      /\ cancel' = cancel /\ Live(d)
      /\ venue' = [venue EXCEPT ![d].state = "over"]
      /\ Emit(<<OrderEvent(Report(d, "Ended"))>>)
  BY DEF VenueEnds
<1>2. \A k \in 1..MaxCancels : CancelPends(d, k) => CancelPends(d, k)'
  BY <1>1 DEF CancelPends
<1> QED
  BY <1>1, <1>2, EndIsNotMissed

LEMMA VenueTakesCancelIsNotMissed ==
    ASSUME LifecycleInv, QuietInv, NEW d \in Cid, NEW k \in 1..MaxCancels, VenueTakesCancel(d, k)
    PROVE  QuietInv'
<1>1. /\ UNCHANGED <<setting, open, link, feed, engine>>
      /\ venue' = IF Live(d) THEN [venue EXCEPT ![d].state = "over"] ELSE venue
      /\ Emit(IF Live(d) THEN <<OrderEvent(Report(d, "Ended"))>> ELSE <<>>)
  BY DEF VenueTakesCancel
<1>2. cancel \in [Cid -> [1..MaxCancels -> CancelState]]
  BY TypesOfRequests
<1>3. PICK state \in CancelState :
         /\ cancel' = [cancel EXCEPT ![d][k] = state]
         /\ CancelPends(d, k) => state \in {"onWire", "lost", "accepted", "refused"}
  BY DEF VenueTakesCancel, CancelState, CancelPends
<1>4. CASE Live(d)
  <2>1. \A c \in Cid : c # d => cancel'[c] = cancel[c]
    BY <1>2, <1>3
  <2>2. \A j \in 1..MaxCancels : CancelPends(d, j) => CancelPends(d, j)'
    BY <1>2, <1>3 DEF CancelPends
  <2> QED
    BY <1>1, <1>4, <2>1, <2>2, EndIsNotMissed
<1>5. CASE ~Live(d)
  <2>1. UNCHANGED <<setting, venue, open, stream, link, engine>> /\ feed' = feed
    BY <1>1, <1>5 DEF Emit
  <2>2. FeedKept /\ StreamKept /\ Reported' = Reported
    BY <2>1, QueuesRest
  <2> QED
    BY <1>3, <2>1, <2>2, CancelRequestMoves
<1> QED
  BY <1>4, <1>5

LEMMA VenueTakesOpenIsNotMissed ==
    ASSUME LifecycleInv, QuietInv, NEW d \in Cid, VenueTakesOpen(d)
    PROVE  QuietInv'
<1>1. /\ UNCHANGED <<setting, feed, link, engine>>
      /\ cancel' = cancel /\ setting' = setting /\ link' = link /\ feed' = feed
      /\ open[d].onWire
  BY DEF VenueTakesOpen
<1>2. /\ setting \in Settings /\ venue \in [Cid -> VenueOrder] /\ open \in [Cid -> OpenRequest]
      /\ Size \in Nat \ {0} /\ 0 \in 0..Size /\ Size \in 0..Size
  BY TypesOfRequests, Scales
<1>3. RequestAgrees(d) /\ RequestIsPending(d) /\ NothingIsMissing(d)
  BY RequestOf DEF QuietInv
<1>4. PICK outcome \in {"rests", "refused", "fills"} :
        /\ venue' = [venue EXCEPT ![d] =
                        [state  |-> IF outcome = "rests" THEN "live" ELSE "over",
                         filled |-> IF outcome = "fills" THEN Size ELSE 0]]
        /\ Emit(CASE outcome = "rests" -> <<OrderEvent(OpenReport(d, 0))>>
                  [] outcome = "refused" -> <<>>
                  [] outcome = "fills" -> <<FillEvent(d, Size), OrderEvent(Report(d, "Ended"))>>)
        /\ open' = [open EXCEPT ![d] =
                [@ EXCEPT !.onWire = FALSE,
                          !.answer = IF open[d].phase # "awaited" THEN open[d].answer
                                     ELSE IF outcome = "rests" THEN OpenReport(d, 0)
                                     ELSE Report(d, "Ended")]]
  BY DEF VenueTakesOpen
<1>5. /\ OpenReport(d, 0) \in OrderReport /\ OpenReport(d, 0).state = "Open"
      /\ Report(d, "Ended") \in OrderReport /\ Report(d, "Ended").state = "Ended"
      /\ OrderReport \subseteq Snapshot
  BY <1>2, Reporting DEF OrderReport
<1>6. venue[d].state = "none" /\ open[d].phase # "unsent" /\ open[d].answer = NoAnswer
  BY <1>1, <1>3 DEF RequestAgrees, RequestIsPending
<1>7. PICK request :
        request = [open[d] EXCEPT !.onWire = FALSE,
                                  !.answer = IF open[d].phase # "awaited" THEN open[d].answer
                                             ELSE IF outcome = "rests" THEN OpenReport(d, 0)
                                             ELSE Report(d, "Ended")]
  OBVIOUS
<1>8. /\ request.phase = open[d].phase /\ ~request.onWire
      /\ \/ request.answer = NoAnswer
         \/ /\ open[d].phase = "awaited"
            /\ \/ outcome = "rests" /\ request.answer = OpenReport(d, 0)
               \/ outcome # "rests" /\ request.answer = Report(d, "Ended")
  BY <1>2, <1>6, <1>7 DEF OpenRequest
<1>9. PICK order : order = [state  |-> IF outcome = "rests" THEN "live" ELSE "over",
                            filled |-> IF outcome = "fills" THEN Size ELSE 0]
  OBVIOUS
<1>10. /\ outcome = "rests" => order.state = "live" /\ order.filled = 0
       /\ outcome # "rests" => order.state = "over"
  BY <1>9
<1>11. /\ \A c \in Cid : venue'[c] = IF c = d THEN order ELSE venue[c]
       /\ \A c \in Cid : open'[c] = IF c = d THEN request ELSE open[c]
  <2>1. venue' = [venue EXCEPT ![d] = order]
    BY <1>4, <1>9
  <2>2. open' = [open EXCEPT ![d] = request]
    BY <1>4, <1>7
  <2> QED
    BY <1>2, <2>1, <2>2
<1>12. /\ tracked' = tracked /\ retired' = retired /\ unproven' = unproven
  BY <1>1 DEF engine
<1>13. /\ feed \in Seq(AccountEvent) /\ stream \in Seq(AccountEvent)
  BY DEF LifecycleInv, FeedIsTrue, StreamIsTrue
<1>14. ~Holds(d) /\ \A e \in Reported : ~Opens(e, d)
  BY <1>6, UnplacedIsUnreported
<1>15. PICK opening \in AccountEvent :
         /\ opening = OrderEvent(OpenReport(d, 0))
         /\ Opens(opening, d) /\ ReportsFill(opening, d, 0)
         /\ \A c \in Cid : Opens(opening, c) => c = d
  BY <1>1, <1>2, OpeningEvent
<1>16. PICK fill \in AccountEvent : fill = FillEvent(d, Size) /\ \A c \in Cid : ~Opens(fill, c)
  BY <1>2, FillingEvent
<1>17. PICK end \in AccountEvent :
         /\ end = OrderEvent(Report(d, "Ended"))
         /\ Ends(end, d)' /\ \A c \in Cid : ~Opens(end, c)
  BY <1>1, <1>2, EndingEvent
<1>18. PICK events \in Seq(AccountEvent) :
         /\ Emit(events)
         /\ \A i \in DOMAIN events : \A c \in Cid : Opens(events[i], c) => c = d
         /\ outcome = "rests" => \E i \in DOMAIN events :
               Opens(events[i], d) /\ ReportsFill(events[i], d, 0)
         /\ outcome = "fills" => \E i \in DOMAIN events : Ends(events[i], d)'
         /\ outcome = "refused" => DOMAIN events = {}
  <2>1. CASE outcome = "rests"
    <3>1. PICK events : events = <<opening>>
      OBVIOUS
    <3>2. /\ events \in Seq(AccountEvent) /\ 1 \in DOMAIN events
          /\ \A i \in DOMAIN events : events[i] = opening
      BY <3>1, OneOrTwo
    <3>3. Emit(events)
      BY <2>1, <3>1, <1>4, <1>15
    <3>4. \A i \in DOMAIN events : \A c \in Cid : Opens(events[i], c) => c = d
      BY <3>2, <1>15
    <3>5. Opens(events[1], d) /\ ReportsFill(events[1], d, 0)
      BY <3>2, <1>15
    <3> QED
      BY <2>1, <3>2, <3>3, <3>4, <3>5
  <2>2. CASE outcome = "refused"
    <3>1. PICK events : events = <<>>
      OBVIOUS
    <3>2. events \in Seq(AccountEvent) /\ DOMAIN events = {}
      BY <3>1
    <3>3. Emit(events)
      BY <2>2, <3>1, <1>4
    <3> QED
      BY <2>2, <3>2, <3>3
  <2>3. CASE outcome = "fills"
    <3>1. PICK events : events = <<fill, end>>
      OBVIOUS
    <3>2. /\ events \in Seq(AccountEvent) /\ 2 \in DOMAIN events /\ events[2] = end
          /\ \A i \in DOMAIN events : events[i] = fill \/ events[i] = end
      BY <3>1, OneOrTwo
    <3>3. Emit(events)
      BY <2>3, <3>1, <1>4, <1>16, <1>17
    <3>4. \A i \in DOMAIN events : \A c \in Cid : Opens(events[i], c) => c = d
      BY <3>2, <1>16, <1>17
    <3>5. Ends(events[2], d)'
      BY <3>2, <1>17
    <3> QED
      BY <2>3, <3>2, <3>3, <3>4, <3>5
  <2> QED
    BY <2>1, <2>2, <2>3
<1>19. /\ FeedKept /\ StreamKept
       /\ \A i \in DOMAIN events : link' = "up" => events[i] \in Reported'
       /\ \A e \in Reported' : e \in Reported \/ \E i \in DOMAIN events : e = events[i]
  BY <1>1, <1>13, <1>18, EmittedKeeps
<1>20. \A c \in Cid : c # d => NothingIsMissing(c)'
  BY <1>1, <1>11, <1>18, OthersUnmoved
<1>21. RequestIsPending(d)'
  BY <1>1, <1>3, <1>5, <1>8, <1>11 DEF RequestIsPending, Pending
<1>22. LiveIsReported(d)'
  <2> SUFFICES ASSUME Live(d)'
               PROVE  /\ setting'.lookupsMayFail \/ open'[d].phase \in Pending
                      /\ link' # "up" \/ \E e \in Reported' : Opens(e, d)
    BY DEF LiveIsReported
  <2>1. outcome = "rests"
    BY <1>10, <1>11 DEF Live
  <2>2. setting'.lookupsMayFail \/ open'[d].phase \in Pending
    BY <1>1, <1>3, <1>8, <1>11 DEF RequestIsPending
  <2>3. link' # "up" \/ \E e \in Reported' : Opens(e, d)
    BY <2>1, <1>18, <1>19
  <2> QED
    BY <2>2, <2>3
<1>23. FillIsReported(d)'
  <2> SUFFICES ASSUME Live(d)'
               PROVE  link' # "up" \/ \E e \in Reported' : ReportsFill(e, d, venue'[d].filled)
    BY DEF FillIsReported
  <2>1. outcome = "rests" /\ venue'[d].filled = 0
    BY <1>10, <1>11 DEF Live
  <2> QED
    BY <2>1, <1>18, <1>19
<1>24. EndIsReported(d)'
  <2>1. CASE outcome = "rests"
    BY <2>1, <1>10, <1>11 DEF EndIsReported
  <2>2. CASE outcome = "fills"
    <3>1. link' # "up" \/ \E e \in Reported' : Ends(e, d)'
      BY <2>2, <1>18, <1>19
    <3> QED
      BY <3>1 DEF EndIsReported
  <2>3. CASE outcome = "refused"
    <3>1. ~Holds(d)'
      BY <1>12, <1>14 DEF Holds, IsTracked
    <3>2. open'[d].answer # NoAnswer => open'[d].answer.state # "Open"
      BY <2>3, <1>5, <1>8, <1>11
    <3>3. \A e \in Reported' : ~Opens(e, d)
      BY <2>3, <1>14, <1>18, <1>19
    <3> QED
      BY <3>1, <3>2, <3>3 DEF EndIsReported, NeverOpened
  <2> QED
    BY <2>1, <2>2, <2>3
<1>25. NothingIsMissing(d)'
  <2>1. \A k \in 1..MaxCancels : CancelPends(d, k) => CancelPends(d, k)'
    BY <1>1 DEF CancelPends
  <2>2. open[d].phase \in Pending => open'[d].phase \in Pending
    BY <1>8, <1>11
  <2> QED
    BY <1>1, <1>3, <1>12, <1>13, <1>19, <1>21, <1>22, <1>23, <1>24, <2>1, <2>2, OrderKept
<1> QED
  BY <1>20, <1>25 DEF QuietInv

-----------------------------------------------------------------------------
(* The account stream.                                                     *)

\* A step of the stream alone.
LEMMA StreamStepIsNotMissed ==
    ASSUME LifecycleInv, QuietInv, UNCHANGED <<setting, venue, open, cancel, engine>>,
           FeedKept,
           \A c \in Cid : StreamKept \/ ToldInFull(c)',
           \A c \in Cid, e \in Reported' : \/ e \in Reported
                                           \/ ~Opens(e, c)
                                           \/ Live(c)
    PROVE  QuietInv'
<1>1. /\ feed \in Seq(AccountEvent)
      /\ \A c \in Cid : NothingIsMissing(c)
  BY DEF LifecycleInv, FeedIsTrue, QuietInv
<1>2. /\ tracked' = tracked /\ retired' = retired /\ unproven' = unproven
      /\ setting' = setting /\ venue' = venue /\ open' = open /\ cancel' = cancel
  BY DEF engine
<1>3. ASSUME NEW c \in Cid PROVE NothingIsMissing(c)'
  <2>1. RequestIsPending(c)'
    BY <1>1, <1>2 DEF RequestIsPending, NothingIsMissing
  <2>2. \A k \in 1..MaxCancels : CancelPends(c, k) => CancelPends(c, k)'
    BY <1>2 DEF CancelPends
  <2>3. venue[c].state = "over" /\ NeverOpened(c) => NeverOpened(c)'
    BY <1>2 DEF NeverOpened, Holds, IsTracked, Live
  <2>4. Live(c)' => Live(c)
    BY <1>2 DEF Live
  <2> QED
    BY <1>1, <1>2, <2>1, <2>2, <2>3, <2>4, OrderKept
<1> QED
  BY <1>3 DEF QuietInv

LEMMA ForwardEventIsNotMissed ==
    ASSUME LifecycleInv, QuietInv, ForwardEvent
    PROVE  QuietInv'
<1>1. /\ UNCHANGED <<setting, venue, open, cancel, engine>>
      /\ link' = link /\ stream # <<>> /\ stream' = Tail(stream)
      /\ feed' = Append(feed, Head(stream))
  BY DEF ForwardEvent, Forward
<1>2. feed \in Seq(AccountEvent) /\ stream \in Seq(AccountEvent)
  BY DEF LifecycleInv, FeedIsTrue, StreamIsTrue
<1>3. /\ Head(stream) \in AccountEvent
      /\ Len(stream) \in Nat \ {0}
      /\ Head(stream) = stream[1]
      /\ DOMAIN stream = 1..Len(stream) /\ DOMAIN stream' = 1..(Len(stream) - 1)
      /\ \A i \in 1..(Len(stream) - 1) : stream'[i] = stream[i + 1]
  BY <1>1, <1>2, Taken
<1>4. /\ Len(feed) \in Nat
      /\ DOMAIN feed = 1..Len(feed) /\ DOMAIN feed' = 1..(Len(feed) + 1)
      /\ \A i \in 1..Len(feed) : feed'[i] = feed[i]
      /\ feed'[Len(feed) + 1] = Head(stream)
  BY <1>1, <1>2, <1>3, Appended
<1>5. FeedKept
  BY <1>4 DEF FeedKept
<1>6. /\ Range(feed) \subseteq Range(feed') /\ Head(stream) \in Range(feed')
      /\ \A e \in Range(feed') : e \in Range(feed) \/ e = Head(stream)
  BY <1>4 DEF Range
<1>7. /\ \A e \in Range(stream) : e = Head(stream) \/ e \in Range(stream')
      /\ Range(stream') \subseteq Range(stream) /\ Head(stream) \in Range(stream)
  <2>1. \A i \in DOMAIN stream : stream[i] = Head(stream) \/ stream[i] \in Range(stream')
    <3> TAKE i \in DOMAIN stream
    <3>1. CASE i = 1
      BY <3>1, <1>3
    <3>2. CASE i # 1
      <4>1. i - 1 \in DOMAIN stream' /\ stream'[i - 1] = stream[i]
        BY <3>2, <1>3
      <4> QED
        BY <4>1 DEF Range
    <3> QED
      BY <3>1, <3>2
  <2>2. \A i \in DOMAIN stream' : i + 1 \in DOMAIN stream /\ stream'[i] = stream[i + 1]
    BY <1>3
  <2>3. 1 \in DOMAIN stream
    BY <1>3
  <2> QED
    BY <2>1, <2>2, <2>3, <1>3 DEF Range
<1>8. StreamKept
  BY <1>1, <1>6, <1>7 DEF StreamKept, Reported
<1>9. \A e \in Reported' : e \in Reported
  BY <1>6, <1>7 DEF Reported
<1> QED
  BY <1>1, <1>5, <1>8, <1>9, StreamStepIsNotMissed

LEMMA DropLinkIsNotMissed ==
    ASSUME LifecycleInv, QuietInv, DropLink
    PROVE  QuietInv'
<1>1. /\ UNCHANGED <<setting, venue, open, cancel, engine>>
      /\ feed' = feed /\ link' = "down"
      /\ \E arrived \in 0..Len(stream) :
            stream' = Append(SubSeq(stream, 1, arrived), Reconnecting)
  BY DEF DropLink
<1>2. stream \in Seq(AccountEvent)
  BY DEF LifecycleInv, StreamIsTrue
<1>3. FeedKept /\ StreamKept
  <2>1. FeedKept
    BY <1>1 DEF FeedKept
  <2>2. link' # "up"
    BY <1>1
  <2>3. StreamKept
    BY <2>2 DEF StreamKept
  <2> QED
    BY <2>1, <2>3
<1>4. \A e \in Range(stream') : e \in Range(stream) \/ e = Reconnecting
  <2>1. PICK arrived \in 0..Len(stream) :
           stream' = Append(SubSeq(stream, 1, arrived), Reconnecting)
    BY <1>1
  <2>2. /\ DOMAIN stream' = 1..(arrived + 1) /\ DOMAIN stream = 1..Len(stream)
        /\ Len(stream) \in Nat
        /\ \A i \in 1..arrived : stream'[i] = stream[i]
        /\ stream'[arrived + 1] = Reconnecting
    BY <2>1, <1>2
  <2> QED
    BY <2>2 DEF Range
<1>5. \A c \in Cid : ~Opens(Reconnecting, c)
  BY Events DEF Opens
<1>6. \A c \in Cid, e \in Reported' : e \in Reported \/ ~Opens(e, c)
  BY <1>1, <1>4, <1>5 DEF Reported
<1> QED
  BY <1>1, <1>3, <1>6, StreamStepIsNotMissed

LEMMA SubscribeIsNotMissed ==
    ASSUME LifecycleInv, QuietInv, Subscribe
    PROVE  QuietInv'
<1>1. /\ UNCHANGED <<setting, venue, open, cancel, engine>>
      /\ feed' = feed /\ stream' = stream /\ link' = "subscribed"
  BY DEF Subscribe
<1>2. FeedKept /\ StreamKept /\ Reported' = Reported
  BY <1>1 DEF FeedKept, StreamKept, Reported
<1> QED
  BY <1>1, <1>2, StreamStepIsNotMissed

LEMMA FailReinitIsNotMissed ==
    ASSUME LifecycleInv, QuietInv, FailReinit
    PROVE  QuietInv'
<1>1. /\ UNCHANGED <<setting, venue, open, cancel, engine>>
      /\ feed' = feed /\ stream' = <<>> /\ link' = "down"
  BY DEF FailReinit
<1>2. FeedKept /\ StreamKept
  <2>1. FeedKept
    BY <1>1 DEF FeedKept
  <2>2. link' # "up"
    BY <1>1
  <2>3. StreamKept
    BY <2>2 DEF StreamKept
  <2> QED
    BY <2>1, <2>3
<1>3. \A e \in Reported' : e \in Reported
  BY <1>1 DEF Reported, Range
<1> QED
  BY <1>1, <1>2, <1>3, StreamStepIsNotMissed

\* A listing tells of every order it says it lists, and of those that are over.
LEMMA ListingTells ==
    ASSUME LifecycleInv, QuietInv, UNCHANGED <<setting, venue, open, cancel, engine>>,
           feed' = feed,
           NEW listing, listing.kind = "Listing",
           listing.over = {c \in Cid : venue[c].state = "over"},
           \A c \in Cid : (\E s \in listing.listed : s.cid = c) => Live(c),
           ~setting.partialListings => \A c \in Cid : Live(c) =>
              \E s \in listing.listed : s.cid = c /\ s.open.filled = venue[c].filled,
           stream' = <<listing>> \o stream
    PROVE  QuietInv'
<1>1. stream \in Seq(AccountEvent) /\ feed \in Seq(AccountEvent)
  BY DEF LifecycleInv, StreamIsTrue, FeedIsTrue
<1>2. venue' = venue /\ setting' = setting
  OBVIOUS
<1>3. /\ Len(stream) \in Nat /\ DOMAIN stream = 1..Len(stream)
      /\ DOMAIN stream' = 1..(1 + Len(stream))
      /\ stream'[1] = listing
      /\ \A i \in 2..(1 + Len(stream)) : stream'[i] = stream[i - 1]
  BY <1>1
<1>4. listing \in Range(stream')
  BY <1>3 DEF Range
<1>5. \A e \in Range(stream') : e = listing \/ e \in Range(stream)
  <2>1. \A i \in DOMAIN stream' : i # 1 => i - 1 \in DOMAIN stream /\ stream'[i] = stream[i - 1]
    BY <1>3
  <2> QED
    BY <2>1, <1>3 DEF Range
<1>6. FeedKept
  BY DEF FeedKept
<1>7. \A c \in Cid, e \in Reported' : e \in Reported \/ ~Opens(e, c) \/ Live(c)
  <2>1. \A c \in Cid : Opens(listing, c) => Live(c)
    BY DEF Opens
  <2> QED
    BY <2>1, <1>5 DEF Reported
<1>8. ASSUME NEW c \in Cid PROVE ToldInFull(c)'
  <2>1. listing \in Reported'
    BY <1>4 DEF Reported
  <2>2. Live(c)' => setting'.partialListings \/ Opens(listing, c)
    BY <1>2 DEF Live, Opens
  <2>3. venue'[c].state = "over" => Ends(listing, c)'
    BY <1>2 DEF Ends
  <2>4. FillsAreReported' /\ Live(c)' => ReportsFill(listing, c, venue'[c].filled)
    BY <1>2 DEF FillsAreReported, Live, ReportsFill
  <2> QED
    BY <2>1, <2>2, <2>3, <2>4 DEF ToldInFull
<1> QED
  BY <1>6, <1>7, <1>8, StreamStepIsNotMissed

LEMMA ReadListingIsNotMissed ==
    ASSUME LifecycleInv, QuietInv, ReadListing
    PROVE  QuietInv'
<1> DEFINE live == {StateAtVenue(c) : c \in {d \in Cid : Live(d)}}
           over == {c \in Cid : venue[c].state = "over"}
<1>1. UNCHANGED <<setting, venue, open, cancel, engine>> /\ feed' = feed
  BY DEF ReadListing
<1>2. \A c \in Cid : Live(c) => /\ StateAtVenue(c).cid = c
                                /\ StateAtVenue(c).open.filled = venue[c].filled
  <2>1. setting \in Settings /\ venue \in [Cid -> VenueOrder]
    BY TypesOfRequests
  <2>2. \A c \in Cid : venue[c].filled \in 0..Size
    BY <2>1 DEF VenueOrder
  <2> QED
    BY <2>1, <2>2, Reporting DEF StateAtVenue
<1>3. /\ \A c \in Cid : (\E s \in live : s.cid = c) => Live(c)
      /\ \A c \in Cid : Live(c) => \E s \in live : s.cid = c /\ s.open.filled = venue[c].filled
  BY <1>2
<1>4. \/ stream' = <<ListingEvent(live, TRUE, over)>> \o stream
      \/ /\ setting.partialListings
         /\ \E some \in SUBSET live : stream' = <<ListingEvent(some, FALSE, over)>> \o stream
  BY DEF ReadListing
<1>5. over = {c \in Cid : venue[c].state = "over"}
  OBVIOUS
<1> HIDE DEF live, over
<1>6. CASE stream' = <<ListingEvent(live, TRUE, over)>> \o stream
  <2>1. PICK listing : listing = ListingEvent(live, TRUE, over)
    OBVIOUS
  <2>2. listing.kind = "Listing" /\ listing.listed = live /\ listing.over = over
    BY <2>1 DEF ListingEvent
  <2>3. stream' = <<listing>> \o stream
    BY <1>6, <2>1
  <2>4. /\ listing.over = {c \in Cid : venue[c].state = "over"}
        /\ \A c \in Cid : (\E s \in listing.listed : s.cid = c) => Live(c)
        /\ \A c \in Cid : Live(c) =>
              \E s \in listing.listed : s.cid = c /\ s.open.filled = venue[c].filled
    BY <2>2, <1>3, <1>5
  <2> QED
    BY <1>1, <2>2, <2>3, <2>4, ListingTells
<1>7. ASSUME NEW some \in SUBSET live, setting.partialListings,
             stream' = <<ListingEvent(some, FALSE, over)>> \o stream
      PROVE  QuietInv'
  <2>1. PICK listing : listing = ListingEvent(some, FALSE, over)
    OBVIOUS
  <2>2. listing.kind = "Listing" /\ listing.listed = some /\ listing.over = over
    BY <2>1 DEF ListingEvent
  <2>3. stream' = <<listing>> \o stream
    BY <1>7, <2>1
  <2>4. /\ listing.over = {c \in Cid : venue[c].state = "over"}
        /\ \A c \in Cid : (\E s \in listing.listed : s.cid = c) => Live(c)
    BY <2>2, <1>3, <1>5
  <2> QED
    BY <1>1, <1>7, <2>2, <2>3, <2>4, ListingTells
<1> QED
  BY <1>4, <1>6, <1>7

-----------------------------------------------------------------------------
(* The strategy.                                                           *)

\* The strategy acts on whole events, so never while a removal is due.
LEMMA NoRemovalBetweenEvents ==
    ASSUME LifecycleInv, ~MidSnapshot, NEW c \in Cid
    PROVE  ~RemovalDue(c)
<1> SUFFICES ASSUME RemovalDue(c) PROVE FALSE
  OBVIOUS
<1>1. PICK p \in DOMAIN feed :
         /\ feed[p].kind = "Unlisted" /\ feed[p].cid = c /\ RemovesOpen(c, feed[p].id)
         /\ \A i \in 1..(p - 1) : AnotherPart(feed[i], c)
  BY DEF RemovalDue
<1>2. feed \in Seq(AccountEvent)
  BY DEF LifecycleInv, FeedIsTrue
<1>3. feed # <<>> /\ p \in Nat /\ p >= 1 /\ Head(feed) = feed[1]
  BY <1>2
<1>4. feed[1].kind \in {"Listed", "Unlisted"}
  <2>1. CASE p = 1
    BY <2>1, <1>1
  <2>2. CASE p # 1
    <3>1. 1 \in 1..(p - 1)
      BY <2>2, <1>3
    <3> QED
      BY <3>1, <1>1 DEF AnotherPart
  <2> QED
    BY <2>1, <2>2
<1> QED
  BY <1>3, <1>4 DEF MidSnapshot

LEMMA SendOpenIsNotMissed ==
    ASSUME LifecycleInv, QuietInv, NEW d \in Cid, SendOpen(d)
    PROVE  QuietInv'
<1>1. /\ UNCHANGED <<setting, venue, cancel, stream, link, feed, unproven>>
      /\ setting' = setting /\ venue' = venue /\ cancel' = cancel /\ unproven' = unproven
      /\ feed' = feed /\ stream' = stream /\ link' = link
      /\ d \in setting.sent /\ ~MidSnapshot /\ ~IsTracked(d) /\ open[d].phase = "unsent"
      /\ RecordInFlightOpen(d, Size, Now)
      /\ open' = [open EXCEPT ![d] = [phase |-> "awaited", onWire |-> TRUE, answer |-> NoAnswer]]
  BY DEF SendOpen
<1>2. /\ open \in [Cid -> OpenRequest] /\ feed \in Seq(AccountEvent)
      /\ tracked \in [Cid -> Order \cup {Untracked}] /\ RequestAgrees(d)
      /\ \A c \in Cid : NothingIsMissing(c)
  BY TypesOfRequests, RequestOf DEF LifecycleInv, FeedIsTrue, OrdersInv, TypeOK, QuietInv
<1>3. venue[d].state = "none"
  BY <1>1, <1>2 DEF RequestAgrees
<1>4. ~Remembers(retired, d)
  BY <1>1, <1>3 DEF LifecycleInv, RetiredIsFinished, Finished
<1>5. PICK order : /\ order.status = "OpenInFlight" /\ order.open = NoOpen
                   /\ tracked' = [tracked EXCEPT ![d] = order]
                   /\ retired' = Forget(retired, d)
  <2>1. PICK order : order = [quantity |-> Size, status |-> "OpenInFlight",
                              open |-> NoOpen, sent |-> Now]
    OBVIOUS
  <2>2. order.status = "OpenInFlight" /\ order.open = NoOpen
    BY <2>1
  <2> QED
    BY <1>1, <2>1, <2>2 DEF RecordInFlightOpen, Keep
<1>6. retired' = retired
  BY <1>4, <1>5 DEF Forget
<1>7. /\ tracked'[d] = order /\ \A c \in Cid : c # d => tracked'[c] = tracked[c]
      /\ \A c \in Cid : c # d => open'[c] = open[c]
      /\ open'[d] = [phase |-> "awaited", onWire |-> TRUE, answer |-> NoAnswer]
  BY <1>1, <1>2, <1>5
<1>8. FeedKept /\ StreamKept /\ Reported' = Reported
  BY <1>1, QueuesRest
<1>9. ASSUME NEW c \in Cid, c # d PROVE NothingIsMissing(c)'
  BY <1>1, <1>2, <1>6, <1>7, <1>8, <1>9, OthersKept
<1>10. NothingIsMissing(d)'
  <2>1. RequestIsPending(d)'
    BY <1>1, <1>7 DEF RequestIsPending, Pending
  <2>2. ~Is(d, "CancelInFlight")'
    BY <1>5, <1>7 DEF Is
  <2>3. open'[d].phase \in Pending
    BY <1>7 DEF Pending
  <2>4. venue'[d].state # "over" /\ ~Live(d)'
    BY <1>1, <1>3 DEF Live
  <2> QED
    BY <2>1, <2>2, <2>3, <2>4
       DEF NothingIsMissing, CancelIsAnswered, OpenIsAnswered, LiveIsReported, EndIsReported,
           FillIsReported
<1> QED
  BY <1>9, <1>10 DEF QuietInv

LEMMA SendCancelIsNotMissed ==
    ASSUME LifecycleInv, QuietInv, NEW d \in Cid, NEW k \in 1..MaxCancels, SendCancel(d, k)
    PROVE  QuietInv'
<1>1. /\ UNCHANGED <<feed, stream, link>>
      /\ setting' = setting /\ venue' = venue /\ open' = open /\ unproven' = unproven
      /\ feed' = feed /\ stream' = stream /\ link' = link
      /\ ~MidSnapshot /\ IsTracked(d)
      /\ RecordInFlightCancel(d, Now)
      /\ cancel' = [cancel EXCEPT ![d][k] = "onWire"]
  BY DEF SendCancel
<1>2. /\ cancel \in [Cid -> [1..MaxCancels -> CancelState]] /\ feed \in Seq(AccountEvent)
      /\ tracked \in [Cid -> Order \cup {Untracked}]
      /\ \A c \in Cid : NothingIsMissing(c)
      /\ tracked[d] \in Order
  BY <1>1, TypesOfRequests DEF LifecycleInv, FeedIsTrue, OrdersInv, TypeOK, QuietInv, IsTracked
<1>3. PICK order : /\ order # Untracked
                   /\ order.status # "OpenInFlight" /\ order.open = tracked[d].open
                   /\ tracked' = [tracked EXCEPT ![d] = order]
                   /\ retired' = retired
  <2>1. CASE UNCHANGED vars /\ Is(d, "CancelInFlight")
    <3>1. tracked' = tracked /\ retired' = retired
      BY <2>1 DEF vars
    <3>2. tracked' = [tracked EXCEPT ![d] = tracked[d]]
      BY <3>1, <1>2
    <3> QED
      BY <2>1, <3>1, <3>2 DEF Is, IsTracked
  <2>2. CASE /\ Keep(d, AsCancelInFlight(tracked[d], tracked[d].open, Now))
             /\ retired' = retired
    <3>1. PICK order : order = AsCancelInFlight(tracked[d], tracked[d].open, Now)
      OBVIOUS
    <3>2. order.status = "CancelInFlight" /\ order.open = tracked[d].open
      BY <3>1, <1>2 DEF AsCancelInFlight, Order
    <3>3. order # Untracked
      <4>1. WellFormed(order)
        <5>1. tracked[d].open \in Open \cup {NoOpen} /\ Now \in Time
          BY <1>2, ScaleAssumption DEF Order, Now
        <5> QED
          BY <1>1, <3>1, <5>1, TrackedWellFormed DEF LifecycleInv
      <4> QED
        BY <4>1, UntrackedAssumption DEF WellFormed
    <3> QED
      BY <2>2, <3>1, <3>2, <3>3 DEF Keep
  <2> QED
    BY <1>1, <2>1, <2>2 DEF RecordInFlightCancel
<1>4. /\ tracked'[d] = order /\ \A c \in Cid : c # d => tracked'[c] = tracked[c]
      /\ \A c \in Cid : c # d => cancel'[c] = cancel[c]
      /\ cancel'[d][k] = "onWire"
  BY <1>1, <1>2, <1>3
<1>5. FeedKept /\ StreamKept /\ Reported' = Reported
  BY <1>1, QueuesRest
<1>6. ASSUME NEW c \in Cid, c # d PROVE NothingIsMissing(c)'
  BY <1>1, <1>2, <1>3, <1>4, <1>5, <1>6, OthersKept
<1>7. NothingIsMissing(d)'
  <2>1. /\ Size' = Size /\ MaxCancels' = MaxCancels
        /\ (RoomToRemember' <=> RoomToRemember) /\ (FillsAreReported' <=> FillsAreReported)
    BY <1>1 DEF Size, MaxCancels, RoomToRemember, FillsAreReported
  <2>2. Holds(d)' <=> Holds(d)
    BY <1>1, <1>3, <1>4 DEF Holds, IsTracked
  <2>3. RequestIsPending(d)'
    BY <1>1, <1>2 DEF NothingIsMissing, RequestIsPending
  <2>4. CancelIsAnswered(d)'
    BY <1>4, <2>1 DEF CancelIsAnswered, CancelPends
  <2>5. OpenIsAnswered(d)'
    BY <1>3, <1>4 DEF OpenIsAnswered, Is
  <2>6. LiveIsReported(d)'
    BY <1>1, <1>2, <1>5, <2>2 DEF NothingIsMissing, LiveIsReported, Live
  <2>7. FillIsReported(d)'
    BY <1>1, <1>2, <1>3, <1>4, <1>5, <2>1, <2>2 DEF NothingIsMissing, FillIsReported, Live
  <2>8. EndIsReported(d)'
    <3>1. ~RemovalDue(d)
      BY <1>1, NoRemovalBetweenEvents
    <3>2. NeverOpened(d) => NeverOpened(d)'
      BY <1>1, <1>5, <2>2 DEF NeverOpened
    <3>3. \A e : Ends(e, d) => Ends(e, d)'
      BY <2>1 DEF Ends
    <3> QED
      BY <1>1, <1>2, <1>3, <1>5, <2>1, <3>1, <3>2, <3>3 DEF NothingIsMissing, EndIsReported
  <2> QED
    BY <2>3, <2>4, <2>5, <2>6, <2>7, <2>8 DEF NothingIsMissing
<1> QED
  BY <1>6, <1>7 DEF QuietInv

-----------------------------------------------------------------------------
(* The engine.                                                             *)

\* What the engine must make of c when it takes an event: all that the event tells of c.
OrderTaken(event, c) ==
    /\ Is(c, "CancelInFlight")' => Is(c, "CancelInFlight") /\ ~AnswersCancel(event, c)
    /\ Is(c, "OpenInFlight")' => Is(c, "OpenInFlight") /\ ~Concludes(event, c)
    /\ Holds(c) => Holds(c)' \/ Remembers(retired', c)
    /\ Holds(c)' => Holds(c) \/ Opens(event, c)
    /\ Live(c) /\ Opens(event, c) =>
          Holds(c)' /\ event.order.open.filled <= tracked'[c].open.filled
    /\ RoomToRemember /\ Remembers(retired, c) => Remembers(retired', c)
    /\ RoomToRemember /\ Ends(event, c) => Remembers(retired', c)
    /\ event.kind = "Unlisted" /\ event.cid = c /\ RemovesOpen(c, event.id) =>
          ~RoomToRemember \/ Remembers(retired', c)
    /\ AnotherPart(event, c) => tracked'[c] = tracked[c]

LEMMA TakenIsNotMissed ==
    ASSUME LifecycleInv, LifecycleInv', StepsWell, QuietInv,
           UNCHANGED <<setting, outside, unproven>>, feed # <<>>, feed' = Tail(feed),
           Head(feed).kind # "Listing",
           NEW c \in Cid, OrderTaken(Head(feed), c)
    PROVE  NothingIsMissing(c)'
<1>1. /\ setting' = setting /\ venue' = venue /\ open' = open /\ cancel' = cancel
      /\ stream' = stream /\ link' = link /\ unproven' = unproven
      /\ NothingIsMissing(c)
  BY DEF outside, QuietInv
<1>2. /\ Size' = Size /\ MaxCancels' = MaxCancels
      /\ (RoomToRemember' <=> RoomToRemember) /\ (FillsAreReported' <=> FillsAreReported)
      /\ (Live(c)' <=> Live(c))
  BY <1>1 DEF Size, MaxCancels, RoomToRemember, FillsAreReported, Live
<1>3. PICK event : event = Head(feed)
  OBVIOUS
<1>4. /\ feed \in Seq(AccountEvent)
      /\ Len(feed) \in Nat \ {0} /\ event = feed[1]
      /\ DOMAIN feed = 1..Len(feed) /\ DOMAIN feed' = 1..(Len(feed) - 1)
      /\ \A i \in 1..(Len(feed) - 1) : feed'[i] = feed[i + 1]
  BY <1>3, Taken DEF LifecycleInv, FeedIsTrue
<1>5. \A e \in Range(feed) : e = event \/ e \in Range(feed')
  <2>1. \A i \in DOMAIN feed : feed[i] = event \/ \E j \in DOMAIN feed' : feed'[j] = feed[i]
    <3> TAKE i \in DOMAIN feed
    <3>1. CASE i = 1
      BY <3>1, <1>4
    <3>2. CASE i # 1
      <4>1. i - 1 \in DOMAIN feed' /\ feed'[i - 1] = feed[i]
        BY <3>2, <1>4
      <4> QED
        BY <4>1
    <3> QED
      BY <3>1, <3>2
  <2> QED
    BY <2>1 DEF Range
<1>6. \A e \in Range(feed') : e \in Range(feed)
  <2>1. \A i \in DOMAIN feed' : i + 1 \in DOMAIN feed /\ feed'[i] = feed[i + 1]
    BY <1>4
  <2> QED
    BY <2>1 DEF Range
<1>7. /\ \A e \in Reported : e = event \/ e \in Reported'
      /\ \A e \in Reported' : e \in Reported
  BY <1>1, <1>5, <1>6 DEF Reported
<1>8. Live(c) => ~Remembers(retired', c)
  BY <1>1, <1>2 DEF LifecycleInv, RetiredIsFinished, Finished, Live
<1>9. OrderTaken(event, c)
  BY <1>3
<1>10. RequestIsPending(c)'
  BY <1>1 DEF NothingIsMissing, RequestIsPending
<1>11. CancelIsAnswered(c)'
  <2>1. \A k : CancelPends(c, k) => CancelPends(c, k)'
    BY <1>1 DEF CancelPends
  <2> QED
    BY <2>1, <1>1, <1>2, <1>5, <1>9 DEF NothingIsMissing, CancelIsAnswered, OrderTaken
<1>12. OpenIsAnswered(c)'
  BY <1>1, <1>5, <1>9 DEF NothingIsMissing, OpenIsAnswered, OrderTaken
<1>13. LiveIsReported(c)'
  BY <1>1, <1>2, <1>5, <1>7, <1>8, <1>9 DEF NothingIsMissing, LiveIsReported, OrderTaken
<1>14. EndIsReported(c)'
  <2> SUFFICES ASSUME RoomToRemember, venue[c].state = "over", ~Remembers(retired', c)
               PROVE  \/ unproven'[c] # "no"
                      \/ link' # "up"
                      \/ \E e \in Reported' : Ends(e, c)'
                      \/ RemovalDue(c)'
                      \/ NeverOpened(c)'
    BY <1>1, <1>2 DEF EndIsReported
  <2>1. \A e : Ends(e, c) => Ends(e, c)'
    BY <1>2 DEF Ends
  <2>2. ASSUME RemovalDue(c) PROVE RemovalDue(c)'
    <3>1. PICK p \in DOMAIN feed :
             /\ feed[p].kind = "Unlisted" /\ feed[p].cid = c /\ RemovesOpen(c, feed[p].id)
             /\ \A i \in 1..(p - 1) : AnotherPart(feed[i], c)
      BY <2>2 DEF RemovalDue
    <3>2. p # 1
      BY <3>1, <1>4, <1>9 DEF OrderTaken
    <3>3. p - 1 \in DOMAIN feed' /\ feed'[p - 1] = feed[p] /\ 1 \in 1..(p - 1)
      BY <3>2, <1>4
    <3>4. tracked'[c] = tracked[c]
      BY <3>1, <3>3, <1>4, <1>9 DEF OrderTaken
    <3>5. \A i \in 1..((p - 1) - 1) : i + 1 \in 1..(p - 1) /\ feed'[i] = feed[i + 1]
      BY <3>2, <1>4
    <3>6. \A i \in 1..((p - 1) - 1) : AnotherPart(feed'[i], c)
      BY <3>1, <3>5
    <3>7. RemovesOpen(c, feed[p - 1].id)'
      <4>1. PICK id : id = feed[p].id
        OBVIOUS
      <4>2. RemovesOpen(c, id)'
        BY <3>1, <3>4, <4>1 DEF RemovesOpen, Is, IsTracked
      <4>3. feed'[p - 1].id = id
        BY <3>3, <4>1
      <4> QED
        BY <4>2, <4>3 DEF RemovesOpen
    <3>8. PICK q : q = p - 1
      OBVIOUS
    <3>9. /\ q \in DOMAIN feed' /\ feed'[q].kind = "Unlisted" /\ feed'[q].cid = c
          /\ RemovesOpen(c, feed[q].id)'
          /\ \A i \in 1..(q - 1) : AnotherPart(feed'[i], c)
      BY <3>1, <3>3, <3>6, <3>7, <3>8
    <3> QED
      BY <3>9 DEF RemovalDue, RemovesOpen
  <2>3. ASSUME NeverOpened(c), \A e \in Reported : ~Opens(e, c) PROVE NeverOpened(c)'
    <3>1. event \in Reported
      BY <1>4 DEF Reported, Range
    <3>2. ~Holds(c)'
      BY <2>3, <3>1, <1>9 DEF NeverOpened, OrderTaken
    <3> QED
      BY <2>3, <3>2, <1>1, <1>7 DEF NeverOpened
  <2>4. ~Remembers(retired, c)
    BY <1>9 DEF OrderTaken
  <2>5. ~Ends(event, c)
    BY <1>9 DEF OrderTaken
  <2> QED
    BY <2>1, <2>2, <2>3, <2>4, <2>5, <1>1, <1>7 DEF NothingIsMissing, EndIsReported, NeverOpened
<1>15. FillIsReported(c)'
  <2> SUFFICES ASSUME FillsAreReported, Live(c), link = "up"
               PROVE  \/ Holds(c)' /\ tracked'[c].open.filled = venue'[c].filled
                      \/ \E e \in Reported' : ReportsFill(e, c, venue'[c].filled)
    BY <1>1, <1>2 DEF FillIsReported
  <2>1. Holds(c)' => /\ tracked'[c].open.filled \in 0..venue[c].filled
                     /\ venue[c].filled \in Nat
    <3>1. IsTracked(c)' => Agrees(c, tracked[c])'
      BY DEF LifecycleInv, TrackedAgrees
    <3>2. Holds(c)' => tracked'[c].open.filled \in 0..venue[c].filled
      BY <3>1, <1>1 DEF Holds, IsTracked, Agrees
    <3>3. venue[c].filled \in Nat
      <4>1. setting \in Settings /\ venue[c].filled \in 0..Size
        BY DEF LifecycleInv, LifecycleTypeOK
      <4> QED
        BY <4>1, Scales
    <3> QED
      BY <3>2, <3>3
  <2>2. CASE Holds(c) /\ tracked[c].open.filled = venue[c].filled
    <3>1. Holds(c)'
      BY <2>2, <1>8, <1>9 DEF OrderTaken
    <3>2. tracked[c].open.filled <= tracked'[c].open.filled
      BY <2>2, <3>1 DEF StepsWell, Succeeds, Holds, IsTracked
    <3>3. tracked'[c].open.filled = venue[c].filled
      BY <2>1, <2>2, <3>1, <3>2
    <3> QED
      BY <3>1, <3>3, <1>1
  <2>3. CASE ReportsFill(event, c, venue[c].filled)
    <3>1. event.kind # "Listing"
      BY <1>3
    <3>2. Opens(event, c) /\ event.order.open.filled = venue[c].filled
      BY <2>3, <3>1 DEF ReportsFill, Opens
    <3>3. Holds(c)' /\ venue[c].filled <= tracked'[c].open.filled
      BY <3>2, <1>9 DEF OrderTaken
    <3>4. tracked'[c].open.filled = venue[c].filled
      BY <2>1, <3>3
    <3> QED
      BY <3>3, <3>4, <1>1
  <2> QED
    BY <2>2, <2>3, <1>1, <1>7 DEF NothingIsMissing, FillIsReported
<1> QED
  BY <1>10, <1>11, <1>12, <1>13, <1>14, <1>15 DEF NothingIsMissing

\* An event about other orders.
LEMMA Untouched ==
    ASSUME NEW c \in Cid, NEW event, tracked'[c] = tracked[c],
           RoomToRemember /\ Remembers(retired, c) => Remembers(retired', c),
           ~AnswersCancel(event, c), ~Concludes(event, c), ~Opens(event, c), ~Ends(event, c),
           ~(event.kind = "Unlisted" /\ event.cid = c)
    PROVE  OrderTaken(event, c)
<1>1. /\ IsTracked(c)' <=> IsTracked(c)
      /\ Is(c, "CancelInFlight")' <=> Is(c, "CancelInFlight")
      /\ Is(c, "OpenInFlight")' <=> Is(c, "OpenInFlight")
      /\ Holds(c)' <=> Holds(c)
  BY DEF IsTracked, Is, Holds
<1> QED
  BY <1>1 DEF OrderTaken

\* A window with room for every order drops none.
LEMMA WindowKeeps ==
    ASSUME LifecycleInv, LifecycleInv', QuietInv, UNCHANGED <<setting, outside>>,
           NEW d \in Cid, retired' = Remember(retired, d), RoomToRemember,
           NEW c \in Cid, Remembers(retired, c)
    PROVE  Remembers(retired', c)
<1>1. /\ retired \in Seq(Cid) /\ Len(retired) \in Nat /\ Bounded(retired)
      /\ setting \in Settings
  BY WindowOfInv DEF LifecycleInv, LifecycleTypeOK
<1>2. CASE Remembers(retired, d)
  BY <1>2 DEF Remember
<1>3. CASE ~Remembers(retired, d)
  <2>1. \A x \in Cid : Finished(x) => x \in setting.sent
    <3> SUFFICES ASSUME NEW x \in Cid, Finished(x) PROVE open[x].phase # "unsent"
      BY DEF QuietInv, NothingIsMissing, RequestIsPending
    <3> QED
      BY DEF LifecycleInv, RequestsAgree, RequestAgrees, Finished
  <2>2. d \in setting.sent
    <3>1. Remembers(retired', d)
      BY <1>1, RememberWindow
    <3>2. Finished(d)'
      BY <3>1 DEF LifecycleInv, RetiredIsFinished
    <3>3. Finished(d)
      BY <3>2 DEF Finished, outside
    <3> QED
      BY <2>1, <3>3
  <2>3. \A i \in 1..Len(retired) : retired[i] \in setting.sent \ {d}
    <3> TAKE i \in 1..Len(retired)
    <3>1. retired[i] \in Cid /\ Remembers(retired, retired[i])
      BY <1>1 DEF Remembers
    <3>2. retired[i] # d
      BY <1>3 DEF Remembers
    <3>3. Finished(retired[i])
      BY <3>1 DEF LifecycleInv, RetiredIsFinished
    <3> QED
      BY <3>1, <3>2, <3>3, <2>1
  <2>4. IsFiniteSet(setting.sent) /\ Cardinality(setting.sent) \in Nat
    <3>1. setting.sent \in SUBSET Cid
      BY <1>1, SettingsAssumption DEF Setting
    <3>2. IsFiniteSet(setting.sent)
      BY <3>1, CidAssumption, FS_Subset
    <3> QED
      BY <3>2, FS_CardinalityType
  <2>5. PICK others : others = setting.sent \ {d}
    OBVIOUS
  <2>6. IsFiniteSet(others) /\ Cardinality(others) = Cardinality(setting.sent) - 1
    BY <2>2, <2>4, <2>5, FS_RemoveElement
  <2>7. IsFiniteSet(1..Len(retired)) /\ Cardinality(1..Len(retired)) = Len(retired)
    <3>1. Len(retired) \in Int /\ 1 \in Int
      BY <1>1
    <3>2. /\ IsFiniteSet(1..Len(retired))
          /\ Cardinality(1..Len(retired)) = IF 1 > Len(retired) THEN 0 ELSE Len(retired) - 1 + 1
      BY <3>1, FS_Interval
    <3> QED
      BY <3>2, <1>1
  <2>8. ~(Cardinality(others) < Cardinality(1..Len(retired)))
    <3> SUFFICES ASSUME Cardinality(others) < Cardinality(1..Len(retired)) PROVE FALSE
      OBVIOUS
    <3>1. retired \in [1..Len(retired) -> others]
      BY <1>1, <2>3, <2>5
    <3>2. \E i, j \in 1..Len(retired) : i # j /\ retired[i] = retired[j]
      BY <3>1, <2>6, <2>7, FS_PigeonHole
    <3> QED
      BY <3>2, <1>1 DEF Bounded
  <2>9. Len(retired) < MaxRetired
    BY <1>1, <2>4, <2>6, <2>7, <2>8, MaxRetiredAssumption DEF RoomToRemember
  <2>10. retired' = Append(retired, d)
    BY <1>3, <2>9, <1>1, MaxRetiredAssumption DEF Remember
  <2>11. /\ Len(retired') = Len(retired) + 1
         /\ \A i \in 1..Len(retired) : retired'[i] = retired[i]
    BY <1>1, <2>10
  <2> QED
    BY <1>1, <2>11 DEF Remembers
<1> QED
  BY <1>2, <1>3

\* When update_from_order_snapshot changes nothing, the report told nothing.
LEMMA ReportArms ==
    ASSUME OrdersInv, NEW s \in Snapshot, UpdateFromOrderSnapshot(s),
           s.state \in {"Open", "Ended", "NotPlaced", "OutcomeUnknown"}
    PROVE  \/ /\ UNCHANGED <<tracked, retired>>
              /\ \/ s.state = "OutcomeUnknown"
                 \/ s.state = "NotPlaced" /\ Holds(s.cid)
                 \/ s.state = "Open" /\ Remembers(retired, s.cid)
                 \/ s.state = "Open" /\ Holds(s.cid) /\ ~Accepts(tracked[s.cid].open, s.open)
           \/ /\ s.state = "Open" => NothingRemains(s.quantity, s.open)
              /\ s.state # "OutcomeUnknown"
              /\ \/ Retire(s.cid)
                 \/ /\ ~IsTracked(s.cid)
                    /\ UNCHANGED tracked /\ retired' = Remember(retired, s.cid)
           \/ /\ s.state = "Open"
              /\ ~NothingRemains(s.quantity, s.open) \/ Is(s.cid, "CancelInFlight")
              /\ UNCHANGED retired
              /\ \E order \in Order :
                    /\ Keep(s.cid, order)
                    /\ order.open = s.open
                    /\ order.status = IF Is(s.cid, "CancelInFlight") THEN "CancelInFlight"
                                      ELSE "Open"
<1>1. /\ s.cid \in Cid
      /\ s.state = "Open" => s.open \in Open /\ AsOrder(s) \in Order
  BY SnapshotWellFormed DEF WellFormed, Active
<1>2. CASE IsFailedOpenToIgnore(s) /\ UNCHANGED vars
  BY <1>2 DEF IsFailedOpenToIgnore, IsContradictedNeverPlaced, Holds, vars
<1>3. CASE ~IsTracked(s.cid) /\ UpdateUntracked(s) /\ s.state # "OutcomeUnknown"
  <2>1. CASE retired' = Remember(retired, s.cid) /\ UNCHANGED tracked
             /\ (s.state = "Open" => NothingRemains(s.quantity, s.open))
    BY <2>1, <1>3
  <2>2. CASE s.state = "Open" /\ Remembers(retired, s.cid) /\ UNCHANGED vars
    BY <2>2 DEF vars
  <2>3. CASE /\ s.state = "Open" /\ ~NothingRemains(s.quantity, s.open)
             /\ Keep(s.cid, AsOrder(s)) /\ UNCHANGED retired
    <3>1. PICK order : order = AsOrder(s)
      OBVIOUS
    <3>2. order.open = s.open /\ order.status = "Open"
      BY <2>3, <3>1 DEF AsOrder
    <3>3. ~Is(s.cid, "CancelInFlight")
      BY <1>3 DEF Is
    <3> QED
      BY <1>1, <2>3, <3>1, <3>2, <3>3
  <2> QED
    BY <1>3, <2>1, <2>2, <2>3 DEF UpdateUntracked, Active
<1>4. CASE IsTracked(s.cid) /\ s.state \notin Active /\ UpdateEnded(s) /\ s.state # "OutcomeUnknown"
  BY <1>4 DEF UpdateEnded, Active
<1>5. CASE /\ s.state = "Open"
           /\ \/ Is(s.cid, "OpenInFlight") /\ UpdateOpenInFlight(s)
              \/ Is(s.cid, "Open") /\ UpdateOpen(s)
  <2>1. IsTracked(s.cid) /\ tracked[s.cid] \in Order /\ ~Is(s.cid, "CancelInFlight")
    BY <1>1, <1>5, TrackedWellFormed DEF Is, WellFormed
  <2>2. CASE NothingRemains(s.quantity, s.open) /\ Retire(s.cid)
    BY <1>5, <2>2
  <2>3. CASE /\ ~NothingRemains(s.quantity, s.open)
             /\ Keep(s.cid, AsOpen(tracked[s.cid], s.open)) /\ UNCHANGED retired
    <3>1. PICK order : order = AsOpen(tracked[s.cid], s.open)
      OBVIOUS
    <3>2. order \in Order /\ order.open = s.open /\ order.status = "Open"
      BY <2>1, <1>5, <1>1, <3>1 DEF AsOpen, Order
    <3> QED
      BY <1>5, <2>1, <2>3, <3>1, <3>2
  <2>4. CASE Is(s.cid, "Open") /\ ~Accepts(tracked[s.cid].open, s.open) /\ UNCHANGED vars
    <3>1. Holds(s.cid)
      BY <1>1, <2>4, TrackedWellFormed DEF Is, WellFormed, Holds
    <3> QED
      BY <1>5, <2>4, <3>1 DEF vars
  <2> QED
    BY <1>5, <2>2, <2>3, <2>4 DEF UpdateOpenInFlight, UpdateOpen
<1>6. CASE Is(s.cid, "CancelInFlight") /\ s.state = "Open" /\ UpdateCancelInFlight(s)
  <2>1. IsTracked(s.cid) /\ tracked[s.cid] \in Order
    BY <1>1, <1>6, TrackedWellFormed DEF Is, WellFormed
  <2>2. CASE /\ tracked[s.cid].open # NoOpen /\ ~Accepts(tracked[s.cid].open, s.open)
             /\ UNCHANGED vars
    BY <1>6, <2>1, <2>2 DEF vars, Holds
  <2>3. CASE /\ Keep(s.cid, AsCancelInFlight(tracked[s.cid], s.open, tracked[s.cid].sent))
             /\ UNCHANGED retired
    <3>1. PICK order : order = AsCancelInFlight(tracked[s.cid], s.open, tracked[s.cid].sent)
      OBVIOUS
    <3>2. order \in Order /\ order.open = s.open /\ order.status = "CancelInFlight"
      BY <2>1, <1>1, <1>6, <3>1 DEF AsCancelInFlight, Order
    <3> QED
      BY <1>6, <2>3, <3>1, <3>2
  <2> QED
    BY <1>6, <2>2, <2>3 DEF UpdateCancelInFlight
<1> QED
  BY <1>2, <1>3, <1>4, <1>5, <1>6
     DEF UpdateFromOrderSnapshot, IsFailedOpenToIgnore, Active

\* A report about another order.
LEMMA OtherReport ==
    ASSUME NEW event, event.kind \in {"Order", "Listed"}, NEW c \in Cid, event.order.cid # c
    PROVE  /\ ~AnswersCancel(event, c) /\ ~Concludes(event, c)
           /\ ~Opens(event, c) /\ ~Ends(event, c) /\ event.kind # "Unlisted"
  BY DEF AnswersCancel, Concludes, Opens, Ends

LEMMA TakeOrderTakes ==
    ASSUME LifecycleInv, LifecycleInv', QuietInv, TakeOrder, NEW c \in Cid
    PROVE  OrderTaken(Head(feed), c)
<1>1. PICK event, s : event = Head(feed) /\ s = Head(feed).order
  OBVIOUS
<1>2. /\ setting' = setting /\ outside' = outside
      /\ feed # <<>> /\ event.kind \in {"Order", "Listed"} /\ event.order = s
      /\ UpdateFromOrderSnapshot(s)
  BY <1>1 DEF TakeOrder, Takes
<1>3. s \in OrderReport /\ IsTrue(s)
  BY <1>1, <1>2, HeadIsTrue, EventFields DEF Tells
<1>4. /\ s \in Snapshot /\ s.quantity = Size
      /\ s.state \in {"Open", "Ended", "NotPlaced", "OutcomeUnknown"}
      /\ s.state = "Open" => /\ s.open.id = NameOf[s.cid] /\ s.open.time = Now
                             /\ s.open.filled \in 0..Size
  BY <1>3 DEF OrderReport
<1>5. s.cid \in Cid /\ (s.state = "Open" => s.open \in Open)
  BY <1>4, SnapshotWellFormed
<1>6. /\ OrdersInv /\ setting \in Settings /\ Size \in Nat
      /\ retired \in Seq(Cid) /\ Bounded(retired)
      /\ tracked \in [Cid -> Order \cup {Untracked}]
  BY Scales, WindowOfInv DEF LifecycleInv, LifecycleTypeOK, OrdersInv, TypeOK
<1>7. PICK d \in Cid : d = s.cid
  BY <1>5
<1>8. s.state = "Open" => (NothingRemains(s.quantity, s.open) <=> s.open.filled = Size)
  BY <1>4, <1>6 DEF NothingRemains
<1>9. IsTracked(d) => WellFormed(tracked[d]) /\ Agrees(d, tracked[d])
  BY <1>6, TrackedWellFormed DEF LifecycleInv, TrackedAgrees
<1>10. /\ Opens(event, d) <=> s.state = "Open"
       /\ Concludes(event, d) => s.state # "OutcomeUnknown"
       /\ ~AnswersCancel(event, d) /\ event.kind # "Unlisted"
       /\ ~AnotherPart(event, d)
       /\ Ends(event, d) => s.state = "Ended" \/ (s.state = "Open" /\ s.open.filled = Size)
  BY <1>2, <1>7 DEF Opens, Concludes, AnswersCancel, AnotherPart, Ends
<1>11. CASE /\ UNCHANGED <<tracked, retired>>
            /\ \/ s.state = "OutcomeUnknown"
               \/ s.state = "NotPlaced" /\ Holds(s.cid)
               \/ s.state = "Open" /\ Remembers(retired, s.cid)
               \/ s.state = "Open" /\ Holds(s.cid) /\ ~Accepts(tracked[s.cid].open, s.open)
  <2>1. tracked' = tracked /\ retired' = retired
    BY <1>11
  <2>2. CASE c # d
    BY <2>1, <2>2, <1>1, <1>2, <1>7, OtherReport, Untouched
  <2>3. OrderTaken(event, d)
    <3>1. /\ IsTracked(d)' <=> IsTracked(d)
          /\ Is(d, "CancelInFlight")' <=> Is(d, "CancelInFlight")
          /\ Is(d, "OpenInFlight")' <=> Is(d, "OpenInFlight")
          /\ Holds(d)' <=> Holds(d)
      BY <2>1 DEF IsTracked, Is, Holds
    <3>2. CASE s.state = "OutcomeUnknown"
      BY <3>1, <3>2, <2>1, <1>10 DEF OrderTaken
    <3>3. Holds(d) => ~Is(d, "OpenInFlight")
      BY <1>9 DEF Holds, Is, WellFormed
    <3>4. CASE s.state = "NotPlaced" /\ Holds(d)
      BY <3>1, <3>3, <3>4, <2>1, <1>10 DEF OrderTaken
    <3>5. CASE s.state = "Open" /\ Remembers(retired, d)
      <4>1. ~Live(d)
        BY <3>5 DEF LifecycleInv, RetiredIsFinished, Finished, Live
      <4>2. ~IsTracked(d)
        BY <3>5, <1>6 DEF OrdersInv, TrackedNotRetired
      <4> QED
        BY <3>1, <3>5, <4>1, <4>2, <2>1, <1>10 DEF OrderTaken, Is, Holds
    <3>6. CASE s.state = "Open" /\ Holds(d) /\ ~Accepts(tracked[d].open, s.open)
      <4>1. /\ tracked[d].open.id = s.open.id /\ tracked[d].open.time = s.open.time
            /\ tracked[d].open.filled \in 0..Size /\ s.open.filled \in 0..Size
        BY <3>6, <1>4, <1>7, <1>9 DEF Holds, Agrees
      <4>2. tracked[d].open.time <= s.open.time
        BY <4>1, <3>6, <1>4 DEF Now
      <4>3. ~(tracked[d].open.filled <= s.open.filled)
        BY <3>6, <4>1, <4>2 DEF Accepts, Contradicts, IsSupersededBy
      <4>4. s.open.filled # Size /\ s.open.filled <= tracked[d].open.filled
        BY <4>1, <4>3, <1>6
      <4>5. event.order.open.filled <= tracked'[d].open.filled
        BY <4>4, <2>1, <1>2
      <4> QED
        BY <3>1, <3>3, <3>6, <4>4, <4>5, <2>1, <1>10 DEF OrderTaken
    <3> QED
      BY <1>11, <1>7, <3>2, <3>4, <3>5, <3>6
  <2> QED
    BY <1>1, <2>2, <2>3
<1>12. CASE /\ s.state = "Open" => NothingRemains(s.quantity, s.open)
            /\ s.state # "OutcomeUnknown"
            /\ \/ Retire(s.cid)
               \/ /\ ~IsTracked(s.cid)
                  /\ UNCHANGED tracked /\ retired' = Remember(retired, s.cid)
  <2>1. /\ retired' = Remember(retired, d)
        /\ ~IsTracked(d)'
        /\ \A x \in Cid : x # d => tracked'[x] = tracked[x]
    BY <1>12, <1>6, <1>7 DEF Retire, IsTracked
  <2>2. CASE c # d
    <3>1. RoomToRemember /\ Remembers(retired, c) => Remembers(retired', c)
      BY <2>1, <1>2, WindowKeeps
    <3>2. tracked'[c] = tracked[c]
      BY <2>1, <2>2
    <3> QED
      BY <3>1, <3>2, <2>2, <1>1, <1>2, <1>7, OtherReport, Untouched
  <2>3. OrderTaken(event, d)
    <3>1. Remembers(retired', d)
      BY <2>1, <1>6, RememberWindow
    <3>2. s.state = "Open" => ~Live(d)
      BY <1>3, <1>7, <1>8, <1>12 DEF IsTrue, Live
    <3>3. ~Is(d, "CancelInFlight")' /\ ~Is(d, "OpenInFlight")' /\ ~Holds(d)'
      BY <2>1 DEF Is, Holds
    <3> QED
      BY <3>1, <3>2, <3>3, <1>10 DEF OrderTaken
  <2> QED
    BY <1>1, <2>2, <2>3
<1>13. ASSUME s.state = "Open",
              ~NothingRemains(s.quantity, s.open) \/ Is(s.cid, "CancelInFlight"),
              UNCHANGED retired,
              NEW order \in Order, Keep(s.cid, order), order.open = s.open,
              order.status = IF Is(s.cid, "CancelInFlight") THEN "CancelInFlight" ELSE "Open"
       PROVE  OrderTaken(event, c)
  <2>1. /\ tracked'[d] = order
        /\ \A x \in Cid : x # d => tracked'[x] = tracked[x]
        /\ retired' = retired
    BY <1>13, <1>6, <1>7 DEF Keep
  <2>2. CASE c # d
    <3>1. tracked'[c] = tracked[c]
      BY <2>1, <2>2
    <3> QED
      BY <3>1, <2>1, <2>2, <1>2, <1>7, OtherReport, Untouched
  <2>3. OrderTaken(event, d)
    <3>1. order # Untracked /\ s.open # NoOpen
      BY <1>5, <1>13, UntrackedAssumption
    <3>2. /\ Holds(d)'
          /\ Is(d, "CancelInFlight")' => Is(d, "CancelInFlight")
          /\ ~Is(d, "OpenInFlight")'
      BY <3>1, <2>1, <1>7, <1>13 DEF Holds, IsTracked, Is
    <3>3. event.order.open.filled <= tracked'[d].open.filled
      <4>1. tracked'[d].open.filled = s.open.filled /\ s.open.filled \in 0..Size
        BY <2>1, <1>4, <1>13
      <4> QED
        BY <4>1, <1>2, <1>6
    <3>4. RoomToRemember => ~Ends(event, d)
      <4> SUFFICES ASSUME RoomToRemember, s.open.filled = Size PROVE FALSE
        BY <1>10, <1>13
      <4>1. Is(d, "CancelInFlight")
        BY <1>7, <1>8, <1>13
      <4>2. MaxCancels > 0
        BY <4>1, <1>9 DEF Is, Agrees
      <4>3. setting.completesAsOpen
        BY <1>3, <1>13 DEF IsTrue
      <4> QED
        BY <4>2, <4>3 DEF RoomToRemember
    <3>5. Remembers(retired, d) => Remembers(retired', d)
      BY <2>1
    <3> QED
      BY <3>2, <3>3, <3>4, <3>5, <1>10, <1>13 DEF OrderTaken
  <2> QED
    BY <2>2, <2>3
<1>14. \/ /\ UNCHANGED <<tracked, retired>>
          /\ \/ s.state = "OutcomeUnknown"
             \/ s.state = "NotPlaced" /\ Holds(s.cid)
             \/ s.state = "Open" /\ Remembers(retired, s.cid)
             \/ s.state = "Open" /\ Holds(s.cid) /\ ~Accepts(tracked[s.cid].open, s.open)
       \/ /\ s.state = "Open" => NothingRemains(s.quantity, s.open)
          /\ s.state # "OutcomeUnknown"
          /\ \/ Retire(s.cid)
             \/ /\ ~IsTracked(s.cid)
                /\ UNCHANGED tracked /\ retired' = Remember(retired, s.cid)
       \/ /\ s.state = "Open"
          /\ ~NothingRemains(s.quantity, s.open) \/ Is(s.cid, "CancelInFlight")
          /\ UNCHANGED retired
          /\ \E order \in Order :
                /\ Keep(s.cid, order)
                /\ order.open = s.open
                /\ order.status = IF Is(s.cid, "CancelInFlight") THEN "CancelInFlight"
                                  ELSE "Open"
  BY <1>2, <1>4, <1>6, ReportArms
<1> QED
  BY <1>1, <1>11, <1>12, <1>13, <1>14

\* An event that tells nothing of c but what its kind says.
Silent(event, c) ==
    /\ ~AnswersCancel(event, c) /\ ~Concludes(event, c) /\ ~Opens(event, c) /\ ~Ends(event, c)
    /\ ~(event.kind = "Unlisted" /\ event.cid = c)

\* An order that ends, and the others.
LEMMA RetireTakes ==
    ASSUME LifecycleInv, LifecycleInv', QuietInv, UNCHANGED <<setting, outside>>,
           NEW event, NEW d \in Cid, Retire(d),
           ~Opens(event, d), ~AnotherPart(event, d),
           \A x \in Cid : x # d => Silent(event, x),
           NEW c \in Cid
    PROVE  OrderTaken(event, c)
<1>1. /\ retired \in Seq(Cid) /\ Bounded(retired) /\ retired' = Remember(retired, d)
      /\ ~IsTracked(d)'
      /\ \A x \in Cid : x # d => tracked'[x] = tracked[x]
  BY WindowOfInv DEF LifecycleInv, OrdersInv, TypeOK, Retire, IsTracked
<1>2. CASE c # d
  <2>1. RoomToRemember /\ Remembers(retired, c) => Remembers(retired', c)
    BY <1>1, WindowKeeps
  <2>2. tracked'[c] = tracked[c]
    BY <1>1, <1>2
  <2> QED
    BY <2>1, <2>2, <1>2, Untouched DEF Silent
<1>3. CASE c = d
  <2>1. Remembers(retired', d)
    BY <1>1, RememberWindow
  <2>2. ~Is(d, "CancelInFlight")' /\ ~Is(d, "OpenInFlight")' /\ ~Holds(d)'
    BY <1>1 DEF Is, Holds
  <2> QED
    BY <1>3, <2>1, <2>2 DEF OrderTaken
<1> QED
  BY <1>2, <1>3

\* The other orders, when only d is touched and none is remembered.
LEMMA OthersTaken ==
    ASSUME NEW event, NEW c \in Cid, tracked'[c] = tracked[c], UNCHANGED retired,
           Silent(event, c)
    PROVE  OrderTaken(event, c)
<1>1. retired' = retired
  OBVIOUS
<1> QED
  BY <1>1, Untouched DEF Silent

LEMMA TakeFillTakes ==
    ASSUME LifecycleInv, LifecycleInv', QuietInv, TakeFill, NEW c \in Cid
    PROVE  OrderTaken(Head(feed), c)
<1>1. PICK event : event = Head(feed)
  OBVIOUS
<1>2. /\ setting' = setting /\ outside' = outside
      /\ feed # <<>> /\ event.kind = "Fill"
      /\ UpdateFromFill(event.cid, NameOf[event.cid], event.filled)
  BY <1>1 DEF TakeFill, Takes
<1>3. PICK d \in Cid, filled \in 0..Size : d = event.cid /\ filled = event.filled
  BY <1>1, <1>2, HeadIsTrue, EventFields
<1>4. /\ tracked \in [Cid -> Order \cup {Untracked}] /\ OrdersInv
  BY DEF LifecycleInv, OrdersInv, TypeOK
<1>5. \A x \in Cid : Silent(event, x) /\ ~AnotherPart(event, x)
  BY <1>2 DEF Silent, AnswersCancel, Concludes, Opens, Ends, AnotherPart
<1>6. CASE UNCHANGED vars
  BY <1>1, <1>5, <1>6, OthersTaken DEF vars
<1>7. CASE Retire(d)
  BY <1>1, <1>2, <1>5, <1>7, RetireTakes DEF Silent
<1>8. CASE /\ Is(d, "Open")
           /\ Keep(d, [tracked[d] EXCEPT !.open = [@ EXCEPT !.filled = filled]])
           /\ UNCHANGED retired
  <2>1. WellFormed(tracked[d]) /\ IsTracked(d)
    BY <1>4, <1>8, TrackedWellFormed DEF Is
  <2>2. tracked[d].open \in Open /\ tracked[d] \in Order /\ Holds(d)
    BY <2>1, <1>8 DEF WellFormed, Order, Is, Holds
  <2>3. PICK order : order = [tracked[d] EXCEPT !.open = [@ EXCEPT !.filled = filled]]
    OBVIOUS
  <2>4. order.status = "Open"
    BY <2>2, <2>3, <1>8 DEF Order, Is
  <2>5. /\ tracked'[d] = order /\ retired' = retired
        /\ \A x \in Cid : x # d => tracked'[x] = tracked[x]
    BY <1>4, <1>8, <2>3 DEF Keep
  <2>6. Holds(d)'
    <3>1. IsTracked(d)'
      <4>1. filled \in Amount
        BY Scales DEF LifecycleInv, LifecycleTypeOK
      <4>2. order \in Order
        BY <4>1, <2>2, <2>3 DEF Order, Open
      <4> QED
        BY <4>2, <2>5, UntrackedAssumption DEF IsTracked
    <3>2. WellFormed(tracked[d])'
      BY <3>1 DEF LifecycleInv, OrdersInv, TypeOK
    <3> QED
      BY <3>1, <3>2, <2>4, <2>5 DEF Holds, WellFormed
  <2>7. CASE c = d
    <3>1. ~Is(d, "CancelInFlight")' /\ ~Is(d, "OpenInFlight")'
      BY <2>4, <2>5 DEF Is
    <3>2. Remembers(retired, d) => Remembers(retired', d)
      BY <2>5
    <3> QED
      BY <1>1, <1>5, <2>2, <2>6, <2>7, <3>1, <3>2 DEF OrderTaken, Silent
  <2>8. CASE c # d
    <3>1. tracked'[c] = tracked[c]
      BY <2>5, <2>8
    <3> QED
      BY <1>1, <1>5, <2>5, <3>1, OthersTaken
  <2> QED
    BY <2>7, <2>8
<1> QED
  BY <1>2, <1>3, <1>6, <1>7, <1>8 DEF UpdateFromFill

LEMMA TakeCancelledTakes ==
    ASSUME LifecycleInv, LifecycleInv', QuietInv, TakeCancelled, NEW c \in Cid
    PROVE  OrderTaken(Head(feed), c)
<1>1. PICK event : event = Head(feed)
  OBVIOUS
<1>2. /\ setting' = setting /\ outside' = outside
      /\ feed # <<>> /\ event.kind = "Cancelled"
      /\ UpdateFromCancelResponse(event.cid, event.ok)
  BY <1>1 DEF TakeCancelled, Takes
<1>3. PICK d \in Cid : d = event.cid
  BY <1>1, <1>2, HeadIsTrue, EventFields
<1>4. /\ tracked \in [Cid -> Order \cup {Untracked}] /\ OrdersInv
  BY DEF LifecycleInv, OrdersInv, TypeOK
<1>5. /\ \A x \in Cid : x # d => Silent(event, x)
      /\ ~Opens(event, d) /\ ~AnotherPart(event, d) /\ ~Concludes(event, d) /\ ~Ends(event, d)
  BY <1>2, <1>3 DEF Silent, AnswersCancel, Concludes, Opens, Ends, AnotherPart
<1>6. CASE Retire(d)
  BY <1>1, <1>2, <1>5, <1>6, RetireTakes
<1>7. CASE /\ UNCHANGED retired
           /\ \A x \in Cid : x # d => tracked'[x] = tracked[x]
           /\ ~Is(d, "CancelInFlight")'
           /\ Is(d, "OpenInFlight")' => Is(d, "OpenInFlight")
           /\ Holds(d)' <=> Holds(d)
  <2>1. retired' = retired
    BY <1>7
  <2>2. CASE c = d
    <3>1. event.kind # "Unlisted"
      BY <1>2
    <3>2. Remembers(retired, d) => Remembers(retired', d)
      BY <2>1
    <3> QED
      BY <1>1, <1>5, <1>7, <2>2, <3>1, <3>2 DEF OrderTaken
  <2>3. CASE c # d
    BY <1>1, <1>5, <1>7, <2>1, <2>3, OthersTaken
  <2> QED
    BY <2>2, <2>3
<1>8. CASE UNCHANGED vars /\ ~Is(d, "CancelInFlight")
  <2>1. tracked' = tracked /\ retired' = retired
    BY <1>8 DEF vars
  <2> QED
    BY <2>1, <1>7, <1>8 DEF Is, Holds, IsTracked
<1>9. CASE /\ Is(d, "CancelInFlight") /\ tracked[d].open # NoOpen
           /\ Keep(d, AsOpen(tracked[d], tracked[d].open)) /\ UNCHANGED retired
  <2>1. tracked[d] \in Order /\ Holds(d)
    BY <1>4, <1>9, TrackedWellFormed DEF Is, WellFormed, Holds
  <2>2. PICK order : order = AsOpen(tracked[d], tracked[d].open)
    OBVIOUS
  <2>3. order.status = "Open" /\ order.open = tracked[d].open /\ order \in Order
    BY <2>1, <2>2 DEF AsOpen, Order
  <2>4. tracked'[d] = order /\ \A x \in Cid : x # d => tracked'[x] = tracked[x]
    BY <1>4, <1>9, <2>2 DEF Keep
  <2>5. order # Untracked
    BY <2>3, UntrackedAssumption
  <2>6. ~Is(d, "CancelInFlight")' /\ ~Is(d, "OpenInFlight")' /\ Holds(d)'
    BY <1>9, <2>3, <2>4, <2>5 DEF Is, Holds, IsTracked
  <2> QED
    BY <1>7, <1>9, <2>1, <2>4, <2>6
<1>10. CASE tracked[d].open = NoOpen /\ Drop(d)
  <2>1. ~IsTracked(d)' /\ \A x \in Cid : x # d => tracked'[x] = tracked[x]
    BY <1>4, <1>10 DEF Drop, IsTracked
  <2>2. ~Is(d, "CancelInFlight")' /\ ~Is(d, "OpenInFlight")' /\ ~Holds(d)' /\ ~Holds(d)
    BY <2>1, <1>10 DEF Is, Holds
  <2>3. UNCHANGED retired
    BY <1>10 DEF Drop
  <2> QED
    BY <1>7, <2>1, <2>2, <2>3
<1>11. Is(d, "OpenInFlight") \/ Is(d, "Open") => ~Is(d, "CancelInFlight")
  BY DEF Is
<1>12. ~IsTracked(d) => ~Is(d, "CancelInFlight")
  BY DEF Is
<1> QED
  BY <1>2, <1>3, <1>6, <1>8, <1>9, <1>10, <1>11, <1>12 DEF UpdateFromCancelResponse

LEMMA RemoveUnlistedTakes ==
    ASSUME LifecycleInv, LifecycleInv', QuietInv, RemoveUnlisted, NEW c \in Cid
    PROVE  OrderTaken(Head(feed), c)
<1>1. PICK event : event = Head(feed)
  OBVIOUS
<1>2. /\ setting' = setting /\ outside' = outside
      /\ feed # <<>> /\ event.kind = "Unlisted"
      /\ RemoveOpen(event.cid, event.id)
  BY <1>1 DEF RemoveUnlisted, Takes
<1>3. PICK d \in Cid : d = event.cid
  BY <1>1, <1>2, HeadIsTrue, EventFields
<1>4. /\ \A x \in Cid : x # d => Silent(event, x)
      /\ ~Opens(event, d) /\ ~AnotherPart(event, d) /\ ~Concludes(event, d) /\ ~Ends(event, d)
      /\ ~AnswersCancel(event, d)
  BY <1>2, <1>3 DEF Silent, AnswersCancel, Concludes, Opens, Ends, AnotherPart
<1>5. CASE Retire(d)
  BY <1>1, <1>2, <1>4, <1>5, RetireTakes
<1>6. CASE ~RemovesOpen(d, event.id) /\ UNCHANGED vars
  <2>1. tracked' = tracked /\ retired' = retired
    BY <1>6 DEF vars
  <2>2. CASE c = d
    <3>1. /\ Is(d, "CancelInFlight")' <=> Is(d, "CancelInFlight")
          /\ Is(d, "OpenInFlight")' <=> Is(d, "OpenInFlight")
          /\ Holds(d)' <=> Holds(d)
      BY <2>1 DEF IsTracked, Is, Holds
    <3> QED
      BY <1>1, <1>4, <1>6, <2>1, <2>2, <3>1 DEF OrderTaken
  <2>3. CASE c # d
    BY <1>1, <1>4, <2>1, <2>3, OthersTaken
  <2> QED
    BY <2>2, <2>3
<1> QED
  BY <1>2, <1>3, <1>5, <1>6 DEF RemoveOpen

LEMMA BeginAccountResyncTakes ==
    ASSUME LifecycleInv, BeginAccountResync, NEW c \in Cid
    PROVE  OrderTaken(Head(feed), c)
<1>1. /\ tracked' = tracked /\ retired' = retired
      /\ Head(feed).kind = "Reconnecting"
  BY DEF BeginAccountResync, Takes
<1>2. Silent(Head(feed), c)
  BY <1>1 DEF Silent, AnswersCancel, Concludes, Opens, Ends
<1> QED
  BY <1>1, <1>2, OthersTaken

LEMMA EngineTakesIsNotMissed ==
    ASSUME LifecycleInv, QuietInv,
           TakeOrder \/ TakeFill \/ TakeCancelled \/ BeginAccountResync \/ RemoveUnlisted
    PROVE  QuietInv'
<1>1. LifecycleInv' /\ [Next]_vars
  BY TakeOrderKeeps, TakeFillKeeps, TakeCancelledKeeps, BeginAccountResyncKeeps,
     RemoveUnlistedKeeps
<1>2. StepsWell
  BY <1>1, NextStepsWell DEF LifecycleInv
<1>3. /\ UNCHANGED <<setting, outside, unproven>> /\ feed # <<>> /\ feed' = Tail(feed)
      /\ Head(feed).kind # "Listing"
  BY DEF TakeOrder, TakeFill, TakeCancelled, BeginAccountResync, RemoveUnlisted, Takes
<1>4. \A c \in Cid : OrderTaken(Head(feed), c)
  BY <1>1, TakeOrderTakes, TakeFillTakes, TakeCancelledTakes, BeginAccountResyncTakes,
     RemoveUnlistedTakes
<1> QED
  BY <1>1, <1>2, <1>3, <1>4, TakenIsNotMissed DEF QuietInv

\* A listing of a finite set, and that it leaves out nothing and repeats nothing.
LEMMA WholeParts ==
    ASSUME NEW S, NEW p \in Listings(S), IsFiniteSet(S)
    PROVE  /\ DOMAIN p = 1..Cardinality(S) /\ Cardinality(S) \in Nat
           /\ \A i \in DOMAIN p : p[i] \in S
           /\ \A i, j \in DOMAIN p : p[i] = p[j] => i = j
           /\ \A x \in S : \E i \in DOMAIN p : p[i] = x
<1>1. Cardinality(S) \in Nat
  BY FS_CardinalityType
<1>2. /\ p \in [1..Cardinality(S) -> S]
      /\ \A i, j \in 1..Cardinality(S) : p[i] = p[j] => i = j
  BY DEF Listings
<1>3. p \in Injection(1..Cardinality(S), S)
  BY <1>2 DEF Injection, IsInjective
<1>4. Cardinality(1..Cardinality(S)) = Cardinality(S)
  <2>1. 1 \in Int /\ Cardinality(S) \in Int
    BY <1>1
  <2>2. Cardinality(1..Cardinality(S))
          = IF 1 > Cardinality(S) THEN 0 ELSE Cardinality(S) - 1 + 1
    BY <2>1, FS_Interval
  <2> QED
    BY <2>2, <1>1
<1>5. p \in Surjection(1..Cardinality(S), S)
  BY <1>3, <1>4, FS_Injection
<1>6. \A x \in S : \E i \in 1..Cardinality(S) : p[i] = x
  BY <1>5 DEF Surjection
<1> QED
  BY <1>1, <1>2, <1>6

LEMMA AsSequence ==
    ASSUME NEW S, NEW n \in Nat, NEW f \in [1..n -> S]
    PROVE  f \in Seq(S) /\ Len(f) = n
  OBVIOUS

\* The account snapshot in parts: what it lists, then what it leaves out, then the rest.
LEMMA SnapshotInParts ==
    ASSUME LifecycleInv, ApplyAccountSnapshot
    PROVE  /\ feed \in Seq(AccountEvent) /\ feed # <<>>
           /\ \A e \in Range(feed) : e = Head(feed) \/ e \in Range(feed')
           /\ \A s \in Head(feed).listed :
                 \E e \in Range(feed') : e.kind = "Listed" /\ e.order = s
           /\ \A e \in Range(feed') :
                 \/ e \in Range(feed)
                 \/ e.kind = "Listed" /\ e.order \in Head(feed).listed
                 \/ e.kind = "Unlisted"
           /\ \A c \in LeftOut(Head(feed)) :
                 \E p \in DOMAIN feed' :
                    /\ feed'[p].kind = "Unlisted" /\ feed'[p].cid = c
                    /\ feed'[p].id = openAtResync[c]
                    /\ \A i \in 1..(p - 1) : AnotherPart(feed'[i], c)
<1>1. feed # <<>> /\ Head(feed).kind = "Listing" /\ feed \in Seq(AccountEvent)
  BY DEF ApplyAccountSnapshot, Takes, LifecycleInv, FeedIsTrue
<1>2. PICK head \in AccountEvent : head = Head(feed)
  BY <1>1, HeadIsTrue
<1>3. /\ head.listed \in SUBSET OrderReport /\ IsFiniteSet(head.listed)
  BY <1>1, <1>2, HeadIsTrue, EventFields DEF Tells
<1>4. LeftOut(head) \in SUBSET Cid /\ IsFiniteSet(LeftOut(head))
  <2>1. LeftOut(head) \in SUBSET Cid
    BY DEF LeftOut
  <2> QED
    BY <2>1, CidAssumption, FS_Subset
<1>5. PICK first \in Listings(head.listed), rest \in Listings(LeftOut(head)) :
          feed' = [i \in DOMAIN first |-> [kind |-> "Listed", order |-> first[i]]]
                  \o [i \in DOMAIN rest |-> UnlistedEvent(rest[i], openAtResync[rest[i]])]
                  \o Tail(feed)
  BY <1>2 DEF ApplyAccountSnapshot
<1>6. PICK listed : listed = [i \in DOMAIN first |-> [kind |-> "Listed", order |-> first[i]]]
  OBVIOUS
<1>7. PICK unlisted :
          unlisted = [i \in DOMAIN rest |-> UnlistedEvent(rest[i], openAtResync[rest[i]])]
  OBVIOUS
<1>8. PICK n, m : n = Cardinality(head.listed) /\ m = Cardinality(LeftOut(head))
  OBVIOUS
<1>9. /\ n \in Nat /\ DOMAIN first = 1..n
      /\ \A i \in 1..n : first[i] \in head.listed
      /\ \A s \in head.listed : \E i \in 1..n : first[i] = s
  BY <1>3, <1>5, <1>8, WholeParts
<1>10. /\ m \in Nat /\ DOMAIN rest = 1..m
       /\ \A i \in 1..m : rest[i] \in LeftOut(head)
       /\ \A i, j \in 1..m : rest[i] = rest[j] => i = j
       /\ \A c \in LeftOut(head) : \E i \in 1..m : rest[i] = c
  BY <1>4, <1>5, <1>8, WholeParts
<1>11. \A i \in 1..n : listed[i].kind = "Listed" /\ listed[i].order = first[i]
  BY <1>6, <1>9
<1>12. \A i \in 1..m : /\ unlisted[i].kind = "Unlisted" /\ unlisted[i].cid = rest[i]
                       /\ unlisted[i].id = openAtResync[rest[i]]
  BY <1>7, <1>10 DEF UnlistedEvent
<1>13. PICK tail : tail = Tail(feed)
  OBVIOUS
<1>14. PICK l : l = Len(tail)
  OBVIOUS
<1>15. /\ l \in Nat /\ DOMAIN tail = 1..l /\ DOMAIN feed = 1..(l + 1)
       /\ \A i \in 1..l : tail[i] = feed[i + 1]
       /\ feed[1] = head
  BY <1>1, <1>2, <1>13, <1>14
<1>16. /\ DOMAIN feed' = 1..(n + m + l)
       /\ \A i \in 1..n : feed'[i] = listed[i]
       /\ \A i \in (n + 1)..(n + m) : feed'[i] = unlisted[i - n]
       /\ \A i \in (n + m + 1)..(n + m + l) : feed'[i] = tail[i - (n + m)]
  <2>1. PICK some : some = {listed[i] : i \in 1..n} \cup {unlisted[i] : i \in 1..m}
                           \cup {tail[i] : i \in 1..l}
    OBVIOUS
  <2>2. listed \in [1..n -> some] /\ unlisted \in [1..m -> some] /\ tail \in [1..l -> some]
    <3>1. tail \in Seq(AccountEvent)
      BY <1>1, <1>13
    <3>2. tail = [i \in 1..l |-> tail[i]]
      BY <3>1, <1>14
    <3> QED
      BY <2>1, <1>6, <1>7, <1>9, <1>10, <3>2
  <2>3. /\ listed \in Seq(some) /\ Len(listed) = n
        /\ unlisted \in Seq(some) /\ Len(unlisted) = m
        /\ tail \in Seq(some) /\ Len(tail) = l
    <3>1. listed \in Seq(some) /\ Len(listed) = n
      BY <2>2, <1>9, AsSequence
    <3>2. unlisted \in Seq(some) /\ Len(unlisted) = m
      BY <2>2, <1>10, AsSequence
    <3>3. tail \in Seq(some) /\ Len(tail) = l
      BY <2>2, <1>15, AsSequence
    <3> QED
      BY <3>1, <3>2, <3>3
  <2>4. PICK front : front = listed \o unlisted
    OBVIOUS
  <2>5. /\ front \in Seq(some)
        /\ DOMAIN front = 1..(n + m) /\ Len(front) = n + m
        /\ \A i \in 1..n : front[i] = listed[i]
        /\ \A i \in (n + 1)..(n + m) : front[i] = unlisted[i - n]
    <3>1. /\ front \in Seq(some)
          /\ DOMAIN front = 1..(Len(listed) + Len(unlisted))
          /\ \A i \in 1..Len(listed) : front[i] = listed[i]
          /\ \A i \in (Len(listed) + 1)..(Len(listed) + Len(unlisted)) :
                front[i] = unlisted[i - Len(listed)]
      <4>1. listed \in Seq(some) /\ unlisted \in Seq(some)
        BY <2>3
      <4> QED
        BY <4>1, <2>4, Joined
    <3>2. /\ DOMAIN front = 1..(n + m)
          /\ \A i \in 1..n : front[i] = listed[i]
          /\ \A i \in (n + 1)..(n + m) : front[i] = unlisted[i - n]
      BY <3>1, <2>3
    <3>3. Len(front) = n + m
      <4>1. Len(front) = Len(listed) + Len(unlisted)
        BY <2>3, <2>4
      <4> QED
        BY <4>1, <2>3
    <3> QED
      BY <3>1, <3>2, <3>3
  <2>6. feed' = front \o tail
    BY <1>5, <1>6, <1>7, <1>13, <2>4
  <2>7. /\ DOMAIN feed' = 1..(n + m + l)
        /\ \A i \in 1..(n + m) : feed'[i] = front[i]
        /\ \A i \in (n + m + 1)..(n + m + l) : feed'[i] = tail[i - (n + m)]
    <3>1. PICK whole : whole = front \o tail
      OBVIOUS
    <3>2. /\ DOMAIN whole = 1..(Len(front) + Len(tail))
          /\ \A i \in 1..Len(front) : whole[i] = front[i]
          /\ \A i \in (Len(front) + 1)..(Len(front) + Len(tail)) :
                whole[i] = tail[i - Len(front)]
      <4>1. front \in Seq(some) /\ tail \in Seq(some)
        BY <2>3, <2>5
      <4> QED
        BY <4>1, <3>1, Joined
    <3>3. feed' = whole
      BY <2>6, <3>1
    <3> QED
      BY <3>2, <3>3, <2>3, <2>5
  <2>8. \A i \in 1..n : i \in 1..(n + m)
    BY <1>9, <1>10
  <2>9. \A i \in (n + 1)..(n + m) : i \in 1..(n + m)
    BY <1>9, <1>10
  <2> QED
    BY <2>5, <2>7, <2>8, <2>9
<1>17. \A e \in Range(feed) : e = head \/ e \in Range(feed')
  <2>1. \A i \in DOMAIN feed : i # 1 => \E j \in DOMAIN feed' : feed'[j] = feed[i]
    <3> SUFFICES ASSUME NEW i \in DOMAIN feed, i # 1
                 PROVE  \E j \in DOMAIN feed' : feed'[j] = feed[i]
      OBVIOUS
    <3>1. PICK j : j = n + m + (i - 1)
      OBVIOUS
    <3>2. i - 1 \in 1..l /\ i - 1 + 1 = i
      BY <1>15
    <3>3. /\ j \in (n + m + 1)..(n + m + l) /\ j - (n + m) = i - 1
          /\ j \in DOMAIN feed'
      BY <3>1, <3>2, <1>9, <1>10, <1>15, <1>16
    <3>4. feed'[j] = tail[i - 1] /\ tail[i - 1] = feed[i]
      BY <3>2, <3>3, <1>15, <1>16
    <3> QED
      BY <3>3, <3>4
  <2> QED
    BY <2>1, <1>15 DEF Range
<1>18. \A s \in head.listed : \E e \in Range(feed') : e.kind = "Listed" /\ e.order = s
  <2> SUFFICES ASSUME NEW s \in head.listed
               PROVE  \E i \in DOMAIN feed' : feed'[i].kind = "Listed" /\ feed'[i].order = s
    BY DEF Range
  <2>1. PICK i \in 1..n : first[i] = s
    BY <1>9
  <2>2. i \in DOMAIN feed' /\ feed'[i] = listed[i]
    BY <1>9, <1>10, <1>15, <1>16
  <2> QED
    BY <2>1, <2>2, <1>11
<1>19. \A e \in Range(feed') : \/ e \in Range(feed)
                               \/ e.kind = "Listed" /\ e.order \in head.listed
                               \/ e.kind = "Unlisted"
  <2> SUFFICES ASSUME NEW i \in DOMAIN feed'
               PROVE  \/ \E j \in DOMAIN feed : feed'[i] = feed[j]
                      \/ feed'[i].kind = "Listed" /\ feed'[i].order \in head.listed
                      \/ feed'[i].kind = "Unlisted"
    BY DEF Range
  <2>1. CASE i \in 1..n
    BY <2>1, <1>9, <1>11, <1>16
  <2>2. CASE i \in (n + 1)..(n + m)
    <3>1. i - n \in 1..m
      BY <2>2, <1>9, <1>10
    <3> QED
      BY <2>2, <3>1, <1>12, <1>16
  <2>3. CASE i \in (n + m + 1)..(n + m + l)
    <3>1. i - (n + m) \in 1..l
      BY <2>3, <1>9, <1>10, <1>15
    <3>2. i - (n + m) + 1 \in DOMAIN feed
      BY <3>1, <1>15
    <3> QED
      BY <2>3, <3>1, <3>2, <1>15, <1>16
  <2> QED
    BY <2>1, <2>2, <2>3, <1>9, <1>10, <1>15, <1>16
<1>20. ASSUME NEW c \in LeftOut(head)
       PROVE  \E p \in DOMAIN feed' :
                 /\ feed'[p].kind = "Unlisted" /\ feed'[p].cid = c
                 /\ feed'[p].id = openAtResync[c]
                 /\ \A i \in 1..(p - 1) : AnotherPart(feed'[i], c)
  <2>1. PICK j \in 1..m : rest[j] = c
    BY <1>10
  <2>2. PICK p : p = n + j
    OBVIOUS
  <2>3. /\ p \in (n + 1)..(n + m) /\ p - n = j /\ p \in DOMAIN feed'
    BY <2>1, <2>2, <1>9, <1>10, <1>15, <1>16
  <2>4. feed'[p] = unlisted[j]
    BY <2>3, <1>16
  <2>5. ASSUME NEW i \in 1..(p - 1) PROVE AnotherPart(feed'[i], c)
    <3>1. CASE i \in 1..n
      <4>1. feed'[i].kind = "Listed" /\ feed'[i].order = first[i] /\ first[i] \in head.listed
        BY <3>1, <1>9, <1>11, <1>16
      <4>2. \A s \in head.listed : s.cid # c
        BY DEF LeftOut
      <4> QED
        BY <4>1, <4>2 DEF AnotherPart
    <3>2. CASE i \in (n + 1)..(p - 1)
      <4>1. i \in (n + 1)..(n + m) /\ i - n \in 1..m /\ i - n # j
        BY <3>2, <2>2, <2>3, <1>9, <1>10
      <4>2. feed'[i] = unlisted[i - n]
        BY <4>1, <1>16
      <4>3. rest[i - n] # c
        BY <4>1, <2>1, <1>10
      <4> QED
        BY <4>1, <4>2, <4>3, <1>12 DEF AnotherPart
    <3> QED
      BY <3>1, <3>2, <2>3, <1>9
  <2> QED
    BY <2>1, <2>3, <2>4, <2>5, <1>12
<1> QED
  BY <1>1, <1>2, <1>17, <1>18, <1>19, <1>20

LEMMA ApplyAccountSnapshotIsNotMissed ==
    ASSUME LifecycleInv, QuietInv, ApplyAccountSnapshot
    PROVE  QuietInv'
<1>1. /\ setting' = setting /\ venue' = venue /\ open' = open /\ cancel' = cancel
      /\ stream' = stream /\ link' = link
      /\ tracked' = tracked /\ retired' = retired
      /\ feed # <<>> /\ Head(feed).kind = "Listing"
  BY DEF ApplyAccountSnapshot, Takes, outside
<1>2. PICK head : head = Head(feed)
  OBVIOUS
<1>3. /\ feed \in Seq(AccountEvent)
      /\ \A e \in Range(feed) : e = head \/ e \in Range(feed')
      /\ \A s \in head.listed : \E e \in Range(feed') : e.kind = "Listed" /\ e.order = s
      /\ \A e \in Range(feed') :
            \/ e \in Range(feed)
            \/ e.kind = "Listed" /\ e.order \in head.listed
            \/ e.kind = "Unlisted"
      /\ \A c \in LeftOut(head) :
            \E p \in DOMAIN feed' :
               /\ feed'[p].kind = "Unlisted" /\ feed'[p].cid = c
               /\ feed'[p].id = openAtResync[c]
               /\ \A i \in 1..(p - 1) : AnotherPart(feed'[i], c)
  BY <1>2, SnapshotInParts
<1>4. head.kind = "Listing" /\ head = feed[1] /\ 1 \in DOMAIN feed /\ head \in Reported
      /\ \A s \in head.listed : s.state = "Open"
  <2>1. head = feed[1] /\ 1 \in DOMAIN feed
    BY <1>1, <1>2, <1>3, Taken
  <2>2. Tells(head)
    BY <1>1, <1>2, HeadIsTrue
  <2> QED
    BY <2>1, <2>2, <1>1, <1>2 DEF Tells, Reported, Range
<1>5. /\ \A e \in Reported : e = head \/ e \in Reported'
      /\ \A e \in Reported' : \/ e \in Reported
                              \/ e.kind = "Listed" /\ e.order \in head.listed
                              \/ e.kind = "Unlisted"
  BY <1>1, <1>3 DEF Reported
<1>6. /\ Size' = Size /\ MaxCancels' = MaxCancels
      /\ (RoomToRemember' <=> RoomToRemember) /\ (FillsAreReported' <=> FillsAreReported)
  BY <1>1 DEF Size, MaxCancels, RoomToRemember, FillsAreReported
<1> SUFFICES ASSUME NEW c \in Cid PROVE NothingIsMissing(c)'
  BY DEF QuietInv
<1>7. NothingIsMissing(c)
  BY DEF QuietInv
<1>8. /\ IsTracked(c)' <=> IsTracked(c)
      /\ Is(c, "CancelInFlight")' <=> Is(c, "CancelInFlight")
      /\ Is(c, "OpenInFlight")' <=> Is(c, "OpenInFlight")
      /\ Holds(c)' <=> Holds(c)
      /\ Live(c)' <=> Live(c)
  BY <1>1 DEF IsTracked, Is, Holds, Live
<1>9. Opens(head, c) => \E e \in Range(feed') : Opens(e, c)
  <2> SUFFICES ASSUME Opens(head, c) PROVE \E e \in Range(feed') : Opens(e, c)
    OBVIOUS
  <2>1. PICK s \in head.listed : s.cid = c
    BY <1>4 DEF Opens
  <2>2. PICK e \in Range(feed') : e.kind = "Listed" /\ e.order = s
    BY <1>3
  <2>3. Opens(e, c)
    BY <2>1, <2>2, <1>4 DEF Opens
  <2> QED
    BY <2>3
<1>10. RequestIsPending(c)'
  BY <1>1, <1>7 DEF NothingIsMissing, RequestIsPending
<1>11. CancelIsAnswered(c)'
  <2>1. \A k : CancelPends(c, k) => CancelPends(c, k)'
    BY <1>1 DEF CancelPends
  <2>2. ~AnswersCancel(head, c)
    BY <1>4 DEF AnswersCancel
  <2> QED
    BY <2>1, <2>2, <1>3, <1>6, <1>7, <1>8 DEF NothingIsMissing, CancelIsAnswered
<1>12. OpenIsAnswered(c)'
  <2>1. ~Concludes(head, c)
    BY <1>4 DEF Concludes
  <2> QED
    BY <2>1, <1>1, <1>3, <1>7, <1>8 DEF NothingIsMissing, OpenIsAnswered
<1>13. LiveIsReported(c)'
  <2>1. (\E e \in Range(feed) : Opens(e, c)) => \E e \in Range(feed') : Opens(e, c)
    BY <1>3, <1>9
  <2>2. (\E e \in Reported : Opens(e, c)) => \E e \in Reported' : Opens(e, c)
    <3>1. Range(feed') \subseteq Reported'
      BY DEF Reported
    <3> QED
      BY <3>1, <1>5, <1>9
  <2> QED
    BY <2>1, <2>2, <1>1, <1>7, <1>8 DEF NothingIsMissing, LiveIsReported
<1>14. EndIsReported(c)'
  <2> SUFFICES ASSUME RoomToRemember, venue[c].state = "over", ~Remembers(retired, c)
               PROVE  \/ unproven'[c] # "no"
                      \/ link' # "up"
                      \/ \E e \in Reported' : Ends(e, c)'
                      \/ RemovalDue(c)'
                      \/ NeverOpened(c)'
    BY <1>1, <1>6 DEF EndIsReported
  <2>1. \A e : Ends(e, c) => Ends(e, c)'
    BY <1>6 DEF Ends
  <2>2. CASE c \in LeftOut(head) /\ RemovesOpen(c, openAtResync[c])
    <3>1. PICK p \in DOMAIN feed' :
             /\ feed'[p].kind = "Unlisted" /\ feed'[p].cid = c
             /\ feed'[p].id = openAtResync[c]
             /\ \A i \in 1..(p - 1) : AnotherPart(feed'[i], c)
      BY <2>2, <1>3
    <3>2. PICK id : id = openAtResync[c]
      OBVIOUS
    <3>3. RemovesOpen(c, id)'
      BY <2>2, <3>2, <1>1 DEF RemovesOpen, Is, IsTracked
    <3>4. feed'[p].id = id
      BY <3>1, <3>2
    <3>5. RemovesOpen(c, feed[p].id)'
      BY <3>3, <3>4 DEF RemovesOpen
    <3> QED
      BY <3>1, <3>5 DEF RemovalDue, RemovesOpen
  <2>3. CASE ~(c \in LeftOut(head) /\ RemovesOpen(c, openAtResync[c]))
    <3>1. unproven'[c] = IF c \notin head.over THEN unproven[c]
                         ELSE IF Is(c, "OpenInFlight") \/ Is(c, "CancelInFlight") THEN "inFlight"
                         ELSE "other"
      BY <2>3, <1>2 DEF ApplyAccountSnapshot
    <3> SUFFICES ASSUME c \notin head.over, unproven[c] = "no"
                 PROVE  \/ link' # "up"
                        \/ \E e \in Reported' : Ends(e, c)'
                        \/ NeverOpened(c)'
      BY <3>1
    <3>2. ~Ends(head, c)
      BY <1>4 DEF Ends
    <3>3. ~RemovalDue(c)
      <4> SUFFICES ASSUME RemovalDue(c) PROVE FALSE
        OBVIOUS
      <4>1. PICK p \in DOMAIN feed :
               /\ feed[p].kind = "Unlisted"
               /\ \A i \in 1..(p - 1) : AnotherPart(feed[i], c)
        BY DEF RemovalDue
      <4>2. p \in Nat /\ p >= 1 /\ p # 1
        BY <4>1, <1>3, <1>4
      <4>3. 1 \in 1..(p - 1)
        BY <4>2
      <4> QED
        BY <4>1, <4>3, <1>4 DEF AnotherPart
    <3>4. NeverOpened(c) => NeverOpened(c)'
      <4> SUFFICES ASSUME NeverOpened(c) PROVE NeverOpened(c)'
        OBVIOUS
      <4>1. ~Opens(head, c)
        BY <1>4 DEF NeverOpened
      <4>2. \A s \in head.listed : s.cid # c
        BY <4>1, <1>4 DEF Opens
      <4>3. \A e \in Reported' : ~Opens(e, c)
        <5> SUFFICES ASSUME NEW e \in Reported', Opens(e, c) PROVE FALSE
          OBVIOUS
        <5>1. e \notin Reported
          BY DEF NeverOpened
        <5>2. CASE e.kind = "Listed" /\ e.order \in head.listed
          BY <4>2, <5>2 DEF Opens
        <5>3. CASE e.kind = "Unlisted"
          BY <5>3 DEF Opens
        <5> QED
          BY <5>1, <5>2, <5>3, <1>5
      <4> QED
        BY <4>3, <1>1, <1>8 DEF NeverOpened
    <3> QED
      BY <2>1, <3>2, <3>3, <3>4, <1>1, <1>5, <1>7 DEF NothingIsMissing, EndIsReported
  <2> QED
    BY <2>2, <2>3
<1>15. FillIsReported(c)'
  <2> SUFFICES ASSUME FillsAreReported, Live(c), link = "up",
                      ~(Holds(c) /\ tracked[c].open.filled = venue[c].filled)
               PROVE  \E e \in Reported' : ReportsFill(e, c, venue'[c].filled)
    BY <1>1, <1>6, <1>8 DEF FillIsReported
  <2>1. PICK e \in Reported : ReportsFill(e, c, venue[c].filled)
    BY <1>7 DEF NothingIsMissing, FillIsReported
  <2>2. CASE e = head
    <3>1. PICK s \in head.listed : s.cid = c /\ s.open.filled = venue[c].filled
      BY <2>1, <2>2, <1>4 DEF ReportsFill
    <3>2. PICK x \in Range(feed') : x.kind = "Listed" /\ x.order = s
      BY <1>3
    <3>3. ReportsFill(x, c, venue[c].filled) /\ x \in Reported'
      BY <3>1, <3>2, <1>4 DEF ReportsFill, Reported
    <3> QED
      BY <3>3, <1>1
  <2>3. CASE e # head
    BY <2>1, <2>3, <1>1, <1>5
  <2> QED
    BY <2>2, <2>3
<1> QED
  BY <1>10, <1>11, <1>12, <1>13, <1>14, <1>15 DEF NothingIsMissing

-----------------------------------------------------------------------------
(* The invariant.                                                          *)

LEMMA QuietStart == ASSUME LifecycleInit PROVE QuietInv
<1>1. /\ feed = <<>> /\ stream = <<>>
      /\ \A c \in Cid : /\ ~IsTracked(c) /\ venue[c].state = "none"
                        /\ open[c] = [phase |-> "unsent", onWire |-> FALSE, answer |-> NoAnswer]
  BY DEF LifecycleInit, Init, IsTracked
<1>2. \A c \in Cid : RequestIsPending(c)
  BY <1>1 DEF RequestIsPending
<1>3. \A c \in Cid : CancelIsAnswered(c) /\ OpenIsAnswered(c)
  BY <1>1 DEF CancelIsAnswered, OpenIsAnswered, Is
<1>4. \A c \in Cid : LiveIsReported(c) /\ EndIsReported(c) /\ FillIsReported(c)
  BY <1>1 DEF LiveIsReported, EndIsReported, FillIsReported, Live
<1> QED
  BY <1>2, <1>3, <1>4 DEF QuietInv, NothingIsMissing

LEMMA QuietStutters ==
    ASSUME LifecycleInv, QuietInv, UNCHANGED allVars
    PROVE  QuietInv'
<1>1. /\ UNCHANGED <<setting, venue, open, cancel, engine>>
      /\ UNCHANGED <<feed, stream, link>>
  BY DEF allVars, outside
<1>2. FeedKept /\ StreamKept /\ Reported' = Reported
  BY <1>1, QueuesRest
<1> QED
  BY <1>1, <1>2, StreamStepIsNotMissed

LEMMA QuietSteps ==
    ASSUME LifecycleInv, QuietInv, [LifecycleNext]_allVars
    PROVE  QuietInv'
<1>1. ASSUME NEW c \in Cid, Venue(c)
      PROVE  QuietInv'
  BY <1>1, VenueTakesOpenIsNotMissed, VenueFillsIsNotMissed, VenueEndsIsNotMissed,
     VenueTakesCancelIsNotMissed
     DEF Venue
<1>2. ASSUME NEW c \in Cid, Network(c)
      PROVE  QuietInv'
  BY <1>2, LoseOpenIsNotMissed, LoseCancelIsNotMissed DEF Network
<1>3. ASSUME NEW c \in Cid, Manager(c)
      PROVE  QuietInv'
  BY <1>3, ForwardAnswerIsNotMissed, TimeoutOpenIsNotMissed, LookUpIsNotMissed,
     LookupsRunOutIsNotMissed, ForwardCancelAnswerIsNotMissed, TimeoutCancelIsNotMissed
     DEF Manager
<1>4. ASSUME NEW c \in Cid, SendOpen(c) \/ \E k \in 1..MaxCancels : SendCancel(c, k)
      PROVE  QuietInv'
  BY <1>4, SendOpenIsNotMissed, SendCancelIsNotMissed
<1>5. ASSUME Link \/ ForwardEvent
      PROVE  QuietInv'
  BY <1>5, ForwardEventIsNotMissed, DropLinkIsNotMissed, SubscribeIsNotMissed,
     ReadListingIsNotMissed, FailReinitIsNotMissed
     DEF Link
<1>6. ASSUME Engine
      PROVE  QuietInv'
  BY <1>6, EngineTakesIsNotMissed, ApplyAccountSnapshotIsNotMissed DEF Engine
<1>7. ASSUME UNCHANGED allVars
      PROVE  QuietInv'
  BY <1>7, QuietStutters
<1> QED
  BY <1>1, <1>2, <1>3, <1>4, <1>5, <1>6, <1>7 DEF LifecycleNext, Rest

LEMMA QuietInvariant == LifecycleSpec => [](LifecycleInv /\ QuietInv)
<1>1. LifecycleInit => LifecycleInv /\ QuietInv
  BY LifecycleStart, QuietStart
<1>2. LifecycleInv /\ QuietInv /\ [LifecycleNext]_allVars => (LifecycleInv /\ QuietInv)'
  BY LifecycleSteps, QuietSteps
<1> QED
  BY <1>1, <1>2, PTL DEF LifecycleSpec

-----------------------------------------------------------------------------
(* Once nothing is owed.                                                   *)

\* Once nothing is owed, no report is on its way and no request is pending.
LEMMA NothingOwed ==
    ASSUME LifecycleInv, QuietInv, Quiet, NEW c \in Cid
    PROVE  /\ NothingIsMissing(c) /\ setting \in Settings
           /\ link = "up" /\ open[c].phase \notin Pending /\ open[c].answer = NoAnswer
           /\ \A k \in 1..MaxCancels : ~CancelPends(c, k)
           /\ Range(feed) = {} /\ Reported = {} /\ ~RemovalDue(c)
<1>1. feed = <<>> /\ stream = <<>>
  BY DEF Quiet
<1>2. DOMAIN feed = {} /\ DOMAIN stream = {}
  BY <1>1
<1>3. Range(feed) = {} /\ Reported = {} /\ ~RemovalDue(c)
  BY <1>2 DEF Reported, Range, RemovalDue
<1>4. link = "up" /\ open[c].phase \notin Pending
  BY DEF Quiet, Pending
<1>5. \A k \in 1..MaxCancels : ~CancelPends(c, k)
  BY DEF Quiet, CancelPends
<1>6. NothingIsMissing(c)
  BY DEF QuietInv
<1>7. open[c].answer = NoAnswer
  BY <1>4, <1>6 DEF NothingIsMissing, RequestIsPending
<1>8. setting \in Settings
  BY DEF LifecycleInv, LifecycleTypeOK
<1> QED
  BY <1>3, <1>4, <1>5, <1>6, <1>7, <1>8

\* Once nothing is owed, no cancel is in flight, an open request only if its lookups ran out,
\* and every live order is tracked as Open.
LEMMA SettledAtRest ==
    ASSUME LifecycleInv, QuietInv, Quiet, NEW c \in Cid,
           ~setting.lookupsMayFail \/ ~setting.partialListings
    PROVE  /\ ~Is(c, "CancelInFlight")
           /\ Is(c, "OpenInFlight") => setting.lookupsMayFail
           /\ Live(c) => Is(c, "Open")
<1>1. ~Is(c, "CancelInFlight")
  BY NothingOwed DEF NothingIsMissing, CancelIsAnswered
<1>2. Is(c, "OpenInFlight") => setting.lookupsMayFail
  BY NothingOwed DEF NothingIsMissing, OpenIsAnswered
<1>3. Live(c) => Holds(c)
  BY NothingOwed DEF NothingIsMissing, LiveIsReported
<1>4. Holds(c) => Is(c, "Open")
  <2> SUFFICES ASSUME Holds(c) PROVE tracked[c].status = "Open"
    BY DEF Holds, Is
  <2>1. WellFormed(tracked[c]) /\ tracked[c].open # NoOpen /\ IsTracked(c)
    BY TrackedWellFormed DEF LifecycleInv, Holds
  <2> QED
    BY <2>1, <1>1 DEF WellFormed, Order, Is
<1> QED
  BY <1>1, <1>2, <1>3, <1>4

\* Once nothing is owed, every order live at the venue is tracked as Open: neither a refused
\* cancel, a timeout, a failed lookup nor a broken stream loses one for good.  A venue whose
\* lookups may run out must list its orders completely: the listing is then what finds them.
THEOREM LiveOrdersStayTracked ==
    ASSUME \A s \in Settings : ~s.lookupsMayFail \/ ~s.partialListings
    PROVE  LifecycleSpec => []LiveOrdersTracked
<1>1. LifecycleInv /\ QuietInv => LiveOrdersTracked
  <2> SUFFICES ASSUME LifecycleInv, QuietInv, Quiet, NEW c \in Cid, Live(c)
               PROVE  Is(c, "Open")
    BY DEF LiveOrdersTracked
  <2>1. ~setting.lookupsMayFail \/ ~setting.partialListings
    BY DEF LifecycleInv, LifecycleTypeOK
  <2> QED
    BY <2>1, SettledAtRest
<1> QED
  BY <1>1, QuietInvariant, PTL

\* Once nothing is owed, an order still in flight is one whose lookups ran out before the
\* venue had it: every cancel is answered, and so is every other open request.
THEOREM FlightsEnd ==
    ASSUME \A s \in Settings : ~s.lookupsMayFail \/ ~s.partialListings
    PROVE  LifecycleSpec => []InFlightIsExplained
<1>1. LifecycleInv /\ QuietInv => InFlightIsExplained
  <2> SUFFICES ASSUME LifecycleInv, QuietInv, Quiet, NEW c \in Cid
               PROVE  /\ ~Is(c, "CancelInFlight")
                      /\ Is(c, "OpenInFlight") => setting.lookupsMayFail
                                                  /\ venue[c].state # "live"
    BY DEF InFlightIsExplained
  <2>1. ~setting.lookupsMayFail \/ ~setting.partialListings
    BY DEF LifecycleInv, LifecycleTypeOK
  <2>2. /\ ~Is(c, "CancelInFlight")
        /\ Is(c, "OpenInFlight") => setting.lookupsMayFail
        /\ Live(c) => Is(c, "Open")
    BY <2>1, SettledAtRest
  <2> QED
    BY <2>2 DEF Live, Is
<1> QED
  BY <1>1, QuietInvariant, PTL

\* Once nothing is owed, an order over at the venue is not tracked as Open, unless it was over
\* when the account was last read and that resync could not settle it.  The window must have
\* room for every order, since an order forgotten may be tracked again by a late report; and
\* an order reported complete as Open must not be kept for a cancel in flight.
THEOREM EndedOrdersAreDropped ==
    ASSUME \A s \in Settings :
              /\ Cardinality(s.sent) <= MaxRetired
              /\ s.completesAsOpen => s.maxCancels = 0
    PROVE  LifecycleSpec => []EndedOrdersUntracked
<1>1. LifecycleInv /\ QuietInv => EndedOrdersUntracked
  <2> SUFFICES ASSUME LifecycleInv, QuietInv, Quiet, NEW c \in Cid,
                      Is(c, "Open"), venue[c].state = "over", unproven[c] = "no"
               PROVE  FALSE
    BY DEF EndedOrdersUntracked
  <2>1. RoomToRemember
    <3>1. setting \in Settings
      BY NothingOwed
    <3> QED
      BY <3>1 DEF RoomToRemember, MaxCancels
  <2>2. ~Remembers(retired, c)
    BY DEF LifecycleInv, OrdersInv, TrackedNotRetired, Is
  <2>3. Holds(c)
    BY TrackedWellFormed DEF LifecycleInv, Is, WellFormed, Holds
  <2>4. ~NeverOpened(c)
    BY <2>3 DEF NeverOpened
  <2> QED
    BY <2>1, <2>2, <2>4, NothingOwed DEF NothingIsMissing, EndIsReported
<1> QED
  BY <1>1, QuietInvariant, PTL

\* A venue that reports every fill as a snapshot, and lists its orders completely, has its
\* cumulative fill tracked exactly once nothing is owed, whatever was lost, late or reordered.
THEOREM FilledIsTracked ==
    ASSUME \A s \in Settings : s.fillReports \subseteq {"snapshot"} /\ ~s.partialListings
    PROVE  LifecycleSpec => []FilledAgrees
<1>1. LifecycleInv /\ QuietInv => FilledAgrees
  <2> SUFFICES ASSUME LifecycleInv, QuietInv, Quiet, NEW c \in Cid, Live(c)
               PROVE  tracked[c].open.filled = venue[c].filled
    BY DEF FilledAgrees
  <2>1. FillsAreReported
    <3>1. setting \in Settings
      BY NothingOwed
    <3> QED
      BY <3>1 DEF FillsAreReported
  <2> QED
    BY <2>1, NothingOwed DEF NothingIsMissing, FillIsReported
<1> QED
  BY <1>1, QuietInvariant, PTL
=============================================================================
