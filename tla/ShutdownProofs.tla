--------------------------- MODULE ShutdownProofs ---------------------------
(***************************************************************************)
(* A drain loses nothing: with any exchanges, requests and orders of their *)
(* tasks, an engine that ended at the end of its feed has seen the answer  *)
(* of every request sent before the drain, and what each answered request  *)
(* did to the account.                                                     *)
(*                                                                         *)
(* An answer is never in sight all the way: a request waits in a channel   *)
(* ahead of the drain, then it is in flight, then its answer is on the way *)
(* to the engine. The inductive invariant says that it is always in one of *)
(* these places, and that a task ends only when the places it empties hold *)
(* nothing more, unless the stop was cut short.                            *)
(***************************************************************************)
EXTENDS Shutdown, FiniteSetTheorems, TLAPS

Channel(x) == ToSet(requests[x])

\* Neither an abort nor a deadline has cut the stop short.
Whole == ~severed /\ engine.ended # "immediate"

\* Requests are taken to their exchange's manager, and a manager that is down keeps nothing.
Homes ==
    \A x \in Exchange :
        /\ \A r \in Request :
              Of(r, "request") \in Channel(x) \/ r \in manager[x].inFlight \/ r \in manager[x].lookups
                  => ExchangeOf[r] = x
        /\ ~Up(x) => manager[x] = Down /\ requests[x] = <<>> /\ accounts[x] = <<>>

\* What the engine has asked of the managers.
Asked ==
    /\ engine.owed \subseteq engine.sent
    /\ \A x \in Exchange :
        /\ Plain("drain") \in Channel(x) \/ manager[x].draining => engine.draining
        /\ Plain("shutdown") \in Channel(x) => HasEnded

\* The drain is behind every request it must wait for.
DrainIsBehind ==
    \A x \in Exchange : \A j \in 1..Len(requests[x]) : \A r \in engine.owed :
        requests[x][j] = Of(r, "request") =>
            /\ ~manager[x].draining
            /\ \A i \in 1..j : requests[x][i] # Plain("drain")

\* A request is sent once, and nobody but the venue's answer moves it on.
SentOnce ==
    \A r \in Request :
        /\ r \notin engine.sent => venue[r] = "none"
        /\ \A x \in Exchange :
            /\ Of(r, "request") \in Channel(x) => r \in engine.sent /\ venue[r] = "none"
            /\ \A i, j \in 1..Len(requests[x]) :
                  requests[x][i] = Of(r, "request") /\ requests[x][j] = Of(r, "request") => i = j

\* The account stream carries what the venue does to the account, and that it broke.
AccountEvent == {Of(r, "trade") : r \in Request} \cup {Reconnecting(x) : x \in Exchange}

AccountsAreOfTheVenue ==
    /\ accounts \in [Exchange -> Seq(AccountEvent)]
    /\ \A x \in Exchange : missed[x] \subseteq AccountEvent /\ IsFiniteSet(missed[x])

\* A feed ends behind what it carries.
FeedsEndLast ==
    Whole =>
        /\ "account" \notin senders => \A x \in Exchange : ~Up(x) /\ outs[x] = <<>>
        /\ HasEnded => feed = <<>> /\ senders = {}

\* The events that are on their way to the engine, or there.
OnTheWay == engine.seen \cup ToSet(feed) \cup UNION {ToSet(outs[x]) : x \in Exchange}

\* Every request the drain waits for waits itself, is in flight or has its answer on the way.
OwedIsAccounted ==
    Whole => \A r \in engine.owed :
        \/ \E x \in Exchange : Of(r, "request") \in Channel(x) \/ r \in manager[x].inFlight
        \/ \E kind \in Answers : Of(r, kind) \in OnTheWay

IsAnswered(r) == Of(r, "response") \in OnTheWay \/ Of(r, "found") \in OnTheWay

\* An answer passed on is one the venue gave.
AnswersAreGiven == \A r \in Request : IsAnswered(r) => venue[r] = "answered"

\* What an order did to the account is on its way or waits behind a break of the stream, unless its
\* manager was down before it answered.
TradesAreKept ==
    Whole => \A r \in Request :
        Of(r, "trade") \in emitted =>
            \/ Of(r, "trade") \in ToSet(accounts[ExchangeOf[r]]) \cup missed[ExchangeOf[r]]
            \/ Of(r, "trade") \in OnTheWay
            \/ ~Up(ExchangeOf[r]) /\ ~IsAnswered(r)

\* A stream that has broken, or that misses something, has said so.
NoticesAreKept ==
    Whole => \A x \in Exchange :
        x \in reopening \/ missed[x] # {} =>
            Reconnecting(x) \in ToSet(accounts[x]) \cup OnTheWay

ShutdownInv ==
    /\ ShutdownTypeOK
    /\ Homes /\ Asked /\ DrainIsBehind /\ SentOnce
    /\ AccountsAreOfTheVenue /\ FeedsEndLast /\ OwedIsAccounted
    /\ AnswersAreGiven /\ TradesAreKept /\ NoticesAreKept

-----------------------------------------------------------------------------
(* Queues, and the events on their way.                                    *)

\* What a queue holds after each operation on it.
LEMMA Appending ==
    ASSUME NEW S, NEW s \in Seq(S), NEW e \in S
    PROVE  Append(s, e) \in Seq(S) /\ ToSet(Append(s, e)) = ToSet(s) \cup {e}
<1>1. /\ Append(s, e) \in Seq(S) /\ Len(s) \in Nat
      /\ DOMAIN Append(s, e) = 1..(Len(s) + 1) /\ DOMAIN s = 1..Len(s)
      /\ \A i \in 1..Len(s) : Append(s, e)[i] = s[i]
      /\ Append(s, e)[Len(s) + 1] = e
  OBVIOUS
<1>2. 1..(Len(s) + 1) = 1..Len(s) \cup {Len(s) + 1}
  BY <1>1
<1> QED
  BY <1>1, <1>2 DEF ToSet

LEMMA Taking ==
    ASSUME NEW S, NEW s \in Seq(S), s # <<>>
    PROVE  /\ Head(s) \in S /\ Tail(s) \in Seq(S)
           /\ Len(s) \in Nat \ {0} /\ Len(Tail(s)) = Len(s) - 1
           /\ Head(s) = s[1] /\ \A i \in 1..Len(Tail(s)) : Tail(s)[i] = s[i + 1]
           /\ ToSet(s) = {Head(s)} \cup ToSet(Tail(s))
<1>1. /\ Head(s) \in S /\ Tail(s) \in Seq(S)
      /\ Len(s) \in Nat \ {0} /\ Len(Tail(s)) = Len(s) - 1
      /\ Head(s) = s[1] /\ \A i \in 1..Len(Tail(s)) : Tail(s)[i] = s[i + 1]
      /\ DOMAIN s = 1..Len(s) /\ DOMAIN Tail(s) = 1..Len(Tail(s))
  OBVIOUS
<1>2. ToSet(s) \subseteq {Head(s)} \cup ToSet(Tail(s))
  <2> SUFFICES ASSUME NEW i \in 1..Len(s), i # 1 PROVE s[i] \in ToSet(Tail(s))
    BY <1>1 DEF ToSet
  <2>1. i - 1 \in 1..Len(Tail(s)) /\ Tail(s)[i - 1] = s[i]
    BY <1>1
  <2> QED
    BY <2>1, <1>1 DEF ToSet
<1>3. {Head(s)} \cup ToSet(Tail(s)) \subseteq ToSet(s)
  <2>1. \A i \in 1..Len(Tail(s)) : i + 1 \in 1..Len(s)
    BY <1>1
  <2>2. 1 \in 1..Len(s)
    BY <1>1
  <2> QED
    BY <2>1, <2>2, <1>1 DEF ToSet
<1> QED
  BY <1>1, <1>2, <1>3

LEMMA Joining ==
    ASSUME NEW S, NEW s \in Seq(S), NEW t \in Seq(S)
    PROVE  s \o t \in Seq(S) /\ ToSet(s \o t) = ToSet(s) \cup ToSet(t)
<1>1. /\ s \o t \in Seq(S) /\ Len(s) \in Nat /\ Len(t) \in Nat
      /\ DOMAIN (s \o t) = 1..(Len(s) + Len(t))
      /\ DOMAIN s = 1..Len(s) /\ DOMAIN t = 1..Len(t)
      /\ \A i \in 1..Len(s) : (s \o t)[i] = s[i]
      /\ \A i \in (Len(s) + 1)..(Len(s) + Len(t)) : (s \o t)[i] = t[i - Len(s)]
  OBVIOUS
<1>2. ToSet(s \o t) \subseteq ToSet(s) \cup ToSet(t)
  <2> SUFFICES ASSUME NEW i \in (Len(s) + 1)..(Len(s) + Len(t)) PROVE t[i - Len(s)] \in ToSet(t)
    BY <1>1 DEF ToSet
  <2>1. i - Len(s) \in 1..Len(t)
    BY <1>1
  <2> QED
    BY <2>1, <1>1 DEF ToSet
<1>3. ToSet(s) \subseteq ToSet(s \o t)
  <2>1. \A i \in 1..Len(s) : i \in 1..(Len(s) + Len(t))
    BY <1>1
  <2> QED
    BY <2>1, <1>1 DEF ToSet
<1>4. ToSet(t) \subseteq ToSet(s \o t)
  <2> SUFFICES ASSUME NEW i \in 1..Len(t) PROVE t[i] \in ToSet(s \o t)
    BY <1>1 DEF ToSet
  <2>1. i + Len(s) \in (Len(s) + 1)..(Len(s) + Len(t)) /\ (i + Len(s)) - Len(s) = i
    BY <1>1
  <2>2. (s \o t)[i + Len(s)] = t[i] /\ i + Len(s) \in DOMAIN (s \o t)
    BY <2>1, <1>1
  <2> QED
    BY <2>2 DEF ToSet
<1> QED
  BY <1>1, <1>2, <1>3, <1>4

LEMMA Few == ASSUME NEW e PROVE ToSet(<<>>) = {} /\ ToSet(<<e>>) = {e}
BY DEF ToSet

LEMMA Kinds ==
    /\ \A r \in Request, kind \in Answers \cup {"trade"} :
          Of(r, kind) \in EventType /\ IsReport(Of(r, kind))
    /\ \A x \in Exchange : Reconnecting(x) \in EventType /\ IsReport(Reconnecting(x))
<1>1. \A r \in Request, kind \in Answers \cup {"trade"} : Of(r, kind) \in EventType
  BY DEF EventType
<1>2. \A x \in Exchange : Reconnecting(x) \in EventType
  BY DEF EventType
<1>3. \A r \in Request, kind \in Answers \cup {"trade"} : IsReport(Of(r, kind))
  BY DEF IsReport, Of
<1>4. \A x \in Exchange : IsReport(Reconnecting(x))
  BY DEF IsReport, Reconnecting
<1> QED
  BY <1>1, <1>2, <1>3, <1>4

\* The events of different requests, and of different kinds, are different.
LEMMA Different ==
    /\ AccountEvent \subseteq EventType
    /\ \A r, q \in Request, kind \in {"trade", "response", "timeout", "found"},
             other \in {"trade", "response", "timeout", "found"} :
          Of(r, kind) = Of(q, other) => r = q /\ kind = other
    /\ \A r \in Request, kind \in {"response", "timeout", "found"} : Of(r, kind) \notin AccountEvent
<1>1. AccountEvent \subseteq EventType
  BY DEF AccountEvent, EventType
<1>2. \A kind, other : \A r, q \in Request : Of(r, kind) = Of(q, other) => r = q /\ kind = other
  BY DEF Of
<1>3. \A r \in Request, kind \in {"response", "timeout", "found"} : Of(r, kind) \notin AccountEvent
  BY DEF Of, AccountEvent, Reconnecting
<1> QED
  BY <1>1, <1>2, <1>3

\* What a manager passes on is on its way, unless the channel is severed.
LEMMA Responding ==
    ASSUME ShutdownTypeOK, NEW x \in Exchange, NEW events \in Seq(EventType),
           Respond(x, events), feed' = feed, engine' = engine
    PROVE  /\ outs' \in [Exchange -> Seq(EventType)]
           /\ OnTheWay' \subseteq OnTheWay \cup ToSet(events)
           /\ ~severed => OnTheWay \cup ToSet(events) \subseteq OnTheWay'
           /\ \A y \in Exchange \ {x} : outs'[y] = outs[y]
<1>1. outs \in [Exchange -> Seq(EventType)]
  BY DEF ShutdownTypeOK
<1>2. CASE severed
  BY <1>1, <1>2 DEF Respond, OnTheWay
<1>3. CASE ~severed
  <2>1. outs' = [outs EXCEPT ![x] = outs[x] \o events]
    BY <1>3 DEF Respond
  <2>2. /\ outs[x] \o events \in Seq(EventType)
        /\ ToSet(outs[x] \o events) = ToSet(outs[x]) \cup ToSet(events)
    BY <1>1, Joining
  <2>3. outs'[x] = outs[x] \o events /\ \A y \in Exchange \ {x} : outs'[y] = outs[y]
    BY <1>1, <2>1
  <2>4. outs' \in [Exchange -> Seq(EventType)]
    BY <1>1, <2>1, <2>2
  <2>5. UNION {ToSet(outs'[y]) : y \in Exchange}
            = (UNION {ToSet(outs[y]) : y \in Exchange}) \cup ToSet(events)
    BY <2>2, <2>3
  <2> QED
    BY <2>3, <2>4, <2>5 DEF OnTheWay
<1> QED
  BY <1>2, <1>3

\* What a forwarder puts into the feed is on its way, unless the engine has ended.
LEMMA Feeding ==
    ASSUME ShutdownTypeOK, NEW event \in EventType, ToFeed(event), outs' = outs, engine' = engine
    PROVE  /\ feed' \in Seq(EventType)
           /\ OnTheWay' \subseteq OnTheWay \cup {event} /\ OnTheWay \subseteq OnTheWay'
           /\ ~HasEnded => event \in OnTheWay'
           /\ HasEnded => feed' = feed
<1>1. feed \in Seq(EventType)
  BY DEF ShutdownTypeOK
<1>2. CASE HasEnded
  BY <1>1, <1>2 DEF ToFeed, OnTheWay
<1>3. CASE ~HasEnded
  <2>1. feed' = Append(feed, event)
    BY <1>3 DEF ToFeed
  <2>2. feed' \in Seq(EventType) /\ ToSet(feed') = ToSet(feed) \cup {event}
    BY <1>1, <2>1, Appending
  <2> QED
    BY <1>3, <2>2 DEF OnTheWay
<1> QED
  BY <1>2, <1>3

-----------------------------------------------------------------------------
(* What the parts of the invariant rest on.                                *)

\* A step that leaves the managers and the venue alone and loses no report.
LEMMA ManagersIdle ==
    ASSUME ShutdownInv, ShutdownTypeOK', FeedsEndLast',
           UNCHANGED <<requests, manager, venue, accounts, emitted, missed, reopening>>,
           engine'.owed = engine.owed, engine'.sent = engine.sent,
           engine'.draining = engine.draining, engine'.ended = engine.ended,
           Whole' => Whole,
           \A e \in EventType : IsReport(e) /\ e \in OnTheWay' => e \in OnTheWay,
           Whole' => \A e \in EventType : IsReport(e) /\ e \in OnTheWay => e \in OnTheWay'
    PROVE  ShutdownInv'
<1>1. /\ requests' = requests /\ manager' = manager /\ venue' = venue
      /\ accounts' = accounts /\ emitted' = emitted /\ missed' = missed /\ reopening' = reopening
      /\ engine'.owed = engine.owed /\ engine'.sent = engine.sent
      /\ engine'.draining = engine.draining /\ engine'.ended = engine.ended
  OBVIOUS
<1>2. Homes' /\ Asked' /\ DrainIsBehind' /\ SentOnce' /\ AccountsAreOfTheVenue'
  BY <1>1 DEF ShutdownInv, Homes, Asked, DrainIsBehind, SentOnce, Channel, Up, HasEnded,
              AccountsAreOfTheVenue
<1>3. \A r \in Request, kind \in Answers \cup {"trade"} :
          /\ Of(r, kind) \in OnTheWay' => Of(r, kind) \in OnTheWay
          /\ Whole' => (Of(r, kind) \in OnTheWay => Of(r, kind) \in OnTheWay')
  BY Kinds
<1>4. \A r \in Request : IsAnswered(r)' => IsAnswered(r)
  BY <1>3 DEF IsAnswered, Answers
<1>5. AnswersAreGiven'
  BY <1>1, <1>4 DEF ShutdownInv, AnswersAreGiven
<1>6. OwedIsAccounted'
  <2> SUFFICES ASSUME Whole', NEW r \in engine'.owed
               PROVE  \/ \E x \in Exchange : Of(r, "request") \in Channel(x)' \/ r \in manager'[x].inFlight
                      \/ \E kind \in Answers : Of(r, kind) \in OnTheWay'
    BY DEF OwedIsAccounted
  <2>1. r \in engine.owed /\ r \in Request
    BY <1>1 DEF ShutdownInv, ShutdownTypeOK
  <2>2. \/ \E x \in Exchange : Of(r, "request") \in Channel(x) \/ r \in manager[x].inFlight
        \/ \E kind \in Answers : Of(r, kind) \in OnTheWay
    BY <2>1 DEF ShutdownInv, OwedIsAccounted
  <2> QED
    BY <1>1, <1>3, <2>1, <2>2 DEF Channel
<1>7. TradesAreKept'
  BY <1>1, <1>3, <1>4 DEF ShutdownInv, TradesAreKept, Up
<1>8. NoticesAreKept'
  <2>1. \A x \in Exchange : Whole' /\ Reconnecting(x) \in OnTheWay => Reconnecting(x) \in OnTheWay'
    BY Kinds
  <2> QED
    BY <1>1, <2>1 DEF ShutdownInv, NoticesAreKept
<1> QED
  BY <1>2, <1>5, <1>6, <1>7, <1>8 DEF ShutdownInv

\* A manager's step that takes no message, by what it does to what is in flight and on its way.
LEMMA ChannelsIdle ==
    ASSUME ShutdownInv, ShutdownTypeOK', AccountsAreOfTheVenue',
           UNCHANGED <<engine, requests, feed, senders, severed, emitted, missed, reopening>>,
           NEW x \in Exchange, Up(x),
           \A y \in Exchange : manager'[y].draining = manager[y].draining,
           \A y \in Exchange \ {x} :
               manager'[y] = manager[y] /\ accounts'[y] = accounts[y] /\ outs'[y] = outs[y],
           Up(x)',
           \A r \in manager'[x].inFlight \cup manager'[x].lookups :
               r \in manager[x].inFlight \cup manager[x].lookups,
           \A r \in Request : venue'[r] = "none" <=> venue[r] = "none",
           \A r \in Request : IsAnswered(r)' => venue'[r] = "answered",
           \A r \in Request : IsAnswered(r)' /\ ~IsAnswered(r) => ExchangeOf[r] = x,
           Whole => /\ OnTheWay \subseteq OnTheWay'
                    /\ \A r \in manager[x].inFlight :
                          r \in manager'[x].inFlight \/ \E kind \in Answers : Of(r, kind) \in OnTheWay'
                    /\ ToSet(accounts[x]) \subseteq ToSet(accounts'[x]) \cup OnTheWay'
    PROVE  ShutdownInv'
<1>1. /\ engine' = engine /\ requests' = requests /\ feed' = feed /\ senders' = senders
      /\ severed' = severed /\ emitted' = emitted /\ missed' = missed /\ reopening' = reopening
      /\ (Whole' <=> Whole) /\ (HasEnded' <=> HasEnded)
  BY DEF Whole, HasEnded
<1>2. \A y \in Exchange : (Up(y)' <=> Up(y)) /\ Channel(y)' = Channel(y)
  BY <1>1 DEF Up, Channel
<1>3. Homes'
  BY <1>1, <1>2 DEF ShutdownInv, Homes, Up
<1>4. Asked' /\ DrainIsBehind' /\ SentOnce'
  BY <1>1, <1>2 DEF ShutdownInv, Asked, DrainIsBehind, SentOnce
<1>5. FeedsEndLast'
  BY <1>1, <1>2 DEF ShutdownInv, FeedsEndLast
<1>6. AnswersAreGiven'
  BY DEF AnswersAreGiven
<1>7. OwedIsAccounted'
  <2> SUFFICES ASSUME Whole', NEW r \in engine'.owed
               PROVE  \/ \E y \in Exchange : Of(r, "request") \in Channel(y)' \/ r \in manager'[y].inFlight
                      \/ \E kind \in Answers : Of(r, kind) \in OnTheWay'
    BY DEF OwedIsAccounted
  <2>1. r \in engine.owed /\ r \in Request
    BY <1>1 DEF ShutdownInv, ShutdownTypeOK
  <2>2. \/ \E y \in Exchange : Of(r, "request") \in Channel(y) \/ r \in manager[y].inFlight
        \/ \E kind \in Answers : Of(r, kind) \in OnTheWay
    BY <1>1, <2>1 DEF ShutdownInv, OwedIsAccounted
  <2> QED
    BY <1>1, <1>2, <2>1, <2>2
<1>8. TradesAreKept'
  <2> SUFFICES ASSUME Whole', NEW r \in Request, Of(r, "trade") \in emitted'
               PROVE  \/ Of(r, "trade") \in ToSet(accounts'[ExchangeOf[r]]) \cup missed'[ExchangeOf[r]]
                      \/ Of(r, "trade") \in OnTheWay'
                      \/ ~Up(ExchangeOf[r])' /\ ~IsAnswered(r)'
    BY DEF TradesAreKept
  <2>1. ExchangeOf[r] \in Exchange
    BY RequestAssumption
  <2>2. \/ Of(r, "trade") \in ToSet(accounts[ExchangeOf[r]]) \cup missed[ExchangeOf[r]]
        \/ Of(r, "trade") \in OnTheWay
        \/ ~Up(ExchangeOf[r]) /\ ~IsAnswered(r)
    BY <1>1 DEF ShutdownInv, TradesAreKept
  <2>3. ASSUME Of(r, "trade") \in ToSet(accounts[ExchangeOf[r]])
        PROVE  Of(r, "trade") \in ToSet(accounts'[ExchangeOf[r]]) \cup OnTheWay'
    BY <1>1, <2>1, <2>3
  <2>4. ASSUME Of(r, "trade") \in OnTheWay PROVE Of(r, "trade") \in OnTheWay'
    BY <1>1, <2>4
  <2>5. ASSUME ~Up(ExchangeOf[r]), ~IsAnswered(r)
        PROVE  ~Up(ExchangeOf[r])' /\ ~IsAnswered(r)'
    BY <1>2, <2>1, <2>5
  <2> QED
    BY <1>1, <2>2, <2>3, <2>4, <2>5
<1>9. NoticesAreKept'
  BY <1>1 DEF ShutdownInv, NoticesAreKept
<1> QED
  BY <1>3, <1>4, <1>5, <1>6, <1>7, <1>8, <1>9 DEF ShutdownInv

-----------------------------------------------------------------------------
(* The forwarders, and the call that stops the system.                     *)

LEMMA ForwardMarketKeeps == ASSUME ShutdownInv, ForwardMarket PROVE ShutdownInv'
<1>1. /\ engine' = engine /\ requests' = requests /\ manager' = manager /\ outs' = outs
      /\ venue' = venue /\ accounts' = accounts /\ breaks' = breaks /\ emitted' = emitted
      /\ missed' = missed /\ reopening' = reopening /\ caller' = caller /\ severed' = severed
  BY DEF ForwardMarket, managers, venues, recovering, stopping
<1>2. ShutdownTypeOK /\ FeedsEndLast /\ "market" \in senders
  BY DEF ShutdownInv, ForwardMarket
<1>3. CASE market = 0
  <2>1. senders' = senders \ {"market"} /\ feed' = feed /\ market' = market
    BY <1>3 DEF ForwardMarket
  <2>2. ShutdownTypeOK' /\ OnTheWay' = OnTheWay /\ (Whole' <=> Whole) /\ (HasEnded' <=> HasEnded)
    <3>1. ShutdownTypeOK'
      BY <1>1, <1>2, <2>1 DEF ShutdownTypeOK
    <3> QED
      BY <1>1, <2>1, <3>1 DEF OnTheWay, Whole, HasEnded
  <2>3. FeedsEndLast'
    BY <1>1, <1>2, <2>1, <2>2 DEF FeedsEndLast, Up
  <2> QED
    BY <1>1, <2>2, <2>3, ManagersIdle
<1>4. CASE market # 0
  <2>1. senders' = senders /\ market' = market - 1 /\ ToFeed(Plain("market"))
    BY <1>4 DEF ForwardMarket
  <2>2. Plain("market") \in EventType /\ ~IsReport(Plain("market"))
    BY DEF EventType, IsReport, Plain, Answers
  <2>3. /\ feed' \in Seq(EventType)
        /\ OnTheWay' \subseteq OnTheWay \cup {Plain("market")} /\ OnTheWay \subseteq OnTheWay'
    BY <1>1, <1>2, <2>1, <2>2, Feeding
  <2>4. ShutdownTypeOK' /\ (Whole' <=> Whole) /\ (HasEnded' <=> HasEnded)
    <3>1. market' \in Nat
      BY <1>2, <1>4, <2>1 DEF ShutdownTypeOK
    <3> QED
      BY <1>1, <1>2, <2>1, <2>3, <3>1 DEF ShutdownTypeOK, Whole, HasEnded
  <2>5. FeedsEndLast'
    BY <1>1, <1>2, <2>1, <2>4 DEF FeedsEndLast, Up
  <2> QED
    BY <1>1, <2>2, <2>3, <2>4, <2>5, ManagersIdle
<1> QED
  BY <1>3, <1>4

LEMMA ForwardAccountKeeps ==
    ASSUME ShutdownInv, NEW x \in Exchange, ForwardAccount(x)
    PROVE  ShutdownInv'
<1>1. /\ senders' = senders /\ market' = market /\ engine' = engine /\ requests' = requests
      /\ manager' = manager /\ venue' = venue /\ accounts' = accounts /\ breaks' = breaks
      /\ emitted' = emitted /\ missed' = missed /\ reopening' = reopening /\ caller' = caller /\ severed' = severed
      /\ "account" \in senders /\ outs[x] # <<>>
      /\ outs' = [outs EXCEPT ![x] = Tail(@)] /\ ToFeed(Head(outs[x]))
  BY DEF ForwardAccount, venues, recovering, stopping
<1>2. ShutdownTypeOK /\ FeedsEndLast /\ outs \in [Exchange -> Seq(EventType)]
      /\ feed \in Seq(EventType)
  BY DEF ShutdownInv, ShutdownTypeOK
<1>3. /\ Head(outs[x]) \in EventType /\ Tail(outs[x]) \in Seq(EventType)
      /\ ToSet(outs[x]) = {Head(outs[x])} \cup ToSet(Tail(outs[x]))
  BY <1>1, <1>2, Taking
<1>4. outs'[x] = Tail(outs[x]) /\ \A y \in Exchange \ {x} : outs'[y] = outs[y]
  BY <1>1, <1>2
<1>5. /\ feed' \in Seq(EventType)
      /\ ToSet(feed') \subseteq ToSet(feed) \cup {Head(outs[x])}
      /\ ~HasEnded => ToSet(feed') = ToSet(feed) \cup {Head(outs[x])}
  <2>1. CASE HasEnded
    BY <1>1, <1>2, <2>1 DEF ToFeed
  <2>2. CASE ~HasEnded
    BY <1>1, <1>2, <1>3, <2>2, Appending DEF ToFeed
  <2> QED
    BY <2>1, <2>2
<1>6. ShutdownTypeOK' /\ (Whole' <=> Whole) /\ (HasEnded' <=> HasEnded)
  BY <1>1, <1>2, <1>3, <1>5 DEF ShutdownTypeOK, Whole, HasEnded
<1>7. Whole => ~HasEnded
  BY <1>1, <1>2 DEF FeedsEndLast
<1>8. OnTheWay' \subseteq OnTheWay /\ (Whole => OnTheWay' = OnTheWay)
  <2>1. (UNION {ToSet(outs'[y]) : y \in Exchange}) \cup {Head(outs[x])}
            = UNION {ToSet(outs[y]) : y \in Exchange}
    BY <1>3, <1>4
  <2> QED
    BY <1>1, <1>5, <1>7, <2>1 DEF OnTheWay
<1>9. FeedsEndLast'
  BY <1>1, <1>6, <1>7 DEF FeedsEndLast
<1> QED
  BY <1>1, <1>6, <1>8, <1>9, ManagersIdle

LEMMA AccountEndsKeeps == ASSUME ShutdownInv, AccountEnds PROVE ShutdownInv'
<1>1. /\ feed' = feed /\ market' = market /\ engine' = engine /\ requests' = requests
      /\ manager' = manager /\ outs' = outs /\ venue' = venue /\ accounts' = accounts
      /\ breaks' = breaks /\ emitted' = emitted /\ missed' = missed /\ reopening' = reopening /\ caller' = caller
      /\ severed' = severed /\ senders' = senders \ {"account"}
      /\ \A x \in Exchange : ~Up(x) /\ outs[x] = <<>>
  BY DEF AccountEnds, managers, venues, recovering, stopping, Up
<1>2. ShutdownTypeOK' /\ OnTheWay' = OnTheWay /\ (Whole' <=> Whole) /\ (HasEnded' <=> HasEnded)
  <2>1. ShutdownTypeOK'
    BY <1>1 DEF ShutdownInv, ShutdownTypeOK
  <2> QED
    BY <1>1, <2>1 DEF OnTheWay, Whole, HasEnded
<1>3. FeedsEndLast'
  BY <1>1, <1>2 DEF ShutdownInv, FeedsEndLast, Up
<1> QED
  BY <1>1, <1>2, <1>3, ManagersIdle

\* The event that stops the system is put into the feed.
LEMMA Stopping ==
    ASSUME ShutdownInv, NEW kind \in {"immediate", "drain"}, ToFeed(Plain(kind)),
           UNCHANGED <<market, engine, severed, managers, venues>>,
           senders' = senders \/ senders' = senders \ {"caller"},
           caller' \in [how : {"shutdown", "abort", "afterBacktest"},
                       at : {"running", "account", "engine", "execution", "returned"}]
    PROVE  ShutdownInv'
<1>1. /\ market' = market /\ engine' = engine /\ requests' = requests /\ manager' = manager
      /\ outs' = outs /\ venue' = venue /\ accounts' = accounts /\ breaks' = breaks
      /\ emitted' = emitted /\ missed' = missed /\ reopening' = reopening /\ severed' = severed
  BY DEF managers, venues, recovering
<1>2. ShutdownTypeOK /\ FeedsEndLast
  BY DEF ShutdownInv
<1>3. Plain(kind) \in EventType /\ ~IsReport(Plain(kind))
  BY DEF EventType, IsReport, Plain, Answers
<1>4. /\ feed' \in Seq(EventType)
      /\ OnTheWay' \subseteq OnTheWay \cup {Plain(kind)} /\ OnTheWay \subseteq OnTheWay'
      /\ HasEnded => feed' = feed
  BY <1>1, <1>2, <1>3, Feeding
<1>5. ShutdownTypeOK' /\ (Whole' <=> Whole) /\ (HasEnded' <=> HasEnded)
  <2>1. senders' \subseteq {"market", "account", "caller"}
    BY <1>2 DEF ShutdownTypeOK
  <2>2. ShutdownTypeOK'
    BY <1>1, <1>2, <1>4, <2>1 DEF ShutdownTypeOK
  <2> QED
    BY <1>1, <2>2 DEF Whole, HasEnded
<1>6. FeedsEndLast'
  BY <1>1, <1>2, <1>4, <1>5 DEF FeedsEndLast, Up
<1> QED
  BY <1>1, <1>3, <1>4, <1>5, <1>6, ManagersIdle

LEMMA StopNowKeeps == ASSUME ShutdownInv, StopNow PROVE ShutdownInv'
<1>1. caller' = [caller EXCEPT !.at = "engine"] /\ ToFeed(Plain("immediate")) /\ senders' = senders
      /\ UNCHANGED <<market, engine, severed, managers, venues>>
  BY DEF StopNow
<1>2. caller' \in [how : {"shutdown", "abort", "afterBacktest"},
                   at : {"running", "account", "engine", "execution", "returned"}]
  BY <1>1 DEF ShutdownInv, ShutdownTypeOK
<1> QED
  BY <1>1, <1>2, Stopping

LEMMA StopAfterBacktestKeeps == ASSUME ShutdownInv, StopAfterBacktest PROVE ShutdownInv'
<1>1. caller' = [caller EXCEPT !.at = "account"] /\ ToFeed(Plain("drain"))
      /\ senders' = senders \ {"caller"}
      /\ UNCHANGED <<market, engine, severed, managers, venues>>
  BY DEF StopAfterBacktest
<1>2. caller' \in [how : {"shutdown", "abort", "afterBacktest"},
                   at : {"running", "account", "engine", "execution", "returned"}]
  BY <1>1 DEF ShutdownInv, ShutdownTypeOK
<1> QED
  BY <1>1, <1>2, Stopping

\* Severing the account forwarder drops what is on its way, and cuts the stop short.
LEMMA Severing ==
    ASSUME ShutdownTypeOK, NEW forwarders, Sever(forwarders), feed' = feed, engine' = engine
    PROVE  /\ outs' \in [Exchange -> Seq(EventType)]
           /\ senders' \subseteq {"market", "account", "caller"} /\ severed' = TRUE
           /\ OnTheWay' \subseteq OnTheWay /\ ~Whole'
<1>1. /\ severed' = TRUE /\ senders' = senders \ forwarders
      /\ outs' = [x \in Exchange |-> <<>>]
  BY DEF Sever
<1>2. \A x \in Exchange : outs'[x] = <<>> /\ ToSet(outs'[x]) = {}
  BY <1>1, Few
<1> QED
  BY <1>1, <1>2 DEF ShutdownTypeOK, OnTheWay, Whole

LEMMA AwaitAccountKeeps == ASSUME ShutdownInv, AwaitAccount PROVE ShutdownInv'
<1>1. /\ feed' = feed /\ market' = market /\ engine' = engine /\ requests' = requests
      /\ manager' = manager /\ venue' = venue /\ accounts' = accounts /\ breaks' = breaks
      /\ emitted' = emitted /\ missed' = missed /\ reopening' = reopening /\ caller' = [caller EXCEPT !.at = "engine"]
      /\ AwaitFeed
  BY DEF AwaitAccount, venues, recovering
<1>2. /\ ShutdownTypeOK /\ FeedsEndLast
      /\ caller' \in [how : {"shutdown", "abort", "afterBacktest"},
                      at : {"running", "account", "engine", "execution", "returned"}]
  BY <1>1 DEF ShutdownInv, ShutdownTypeOK
<1>3. CASE UNCHANGED <<senders, severed, outs>>
  <2>1. ShutdownTypeOK'
    BY <1>1, <1>2, <1>3 DEF ShutdownTypeOK
  <2>2. OnTheWay' = OnTheWay /\ (Whole' <=> Whole) /\ (HasEnded' <=> HasEnded)
    BY <1>1, <1>3 DEF OnTheWay, Whole, HasEnded
  <2>3. FeedsEndLast'
    BY <1>1, <1>2, <1>3, <2>2 DEF FeedsEndLast, Up
  <2> QED
    BY <1>1, <2>1, <2>2, <2>3, ManagersIdle
<1>4. CASE Sever({"account"})
  <2>1. /\ outs' \in [Exchange -> Seq(EventType)]
        /\ senders' \subseteq {"market", "account", "caller"} /\ severed' = TRUE
        /\ OnTheWay' \subseteq OnTheWay /\ ~Whole'
    BY <1>1, <1>2, <1>4, Severing
  <2>2. ShutdownTypeOK'
    BY <1>1, <1>2, <2>1 DEF ShutdownTypeOK
  <2>3. FeedsEndLast'
    BY <2>1 DEF FeedsEndLast
  <2> QED
    BY <1>1, <2>1, <2>2, <2>3, ManagersIdle
<1> QED
  BY <1>1, <1>3, <1>4 DEF AwaitFeed

LEMMA AwaitExecutionKeeps == ASSUME ShutdownInv, AwaitExecution PROVE ShutdownInv'
<1>1. /\ feed' = feed /\ senders' = senders /\ market' = market /\ engine' = engine
      /\ requests' = requests /\ manager' = manager /\ outs' = outs /\ venue' = venue
      /\ accounts' = accounts /\ breaks' = breaks /\ emitted' = emitted /\ missed' = missed /\ reopening' = reopening
      /\ severed' = severed /\ caller' = [caller EXCEPT !.at = "returned"]
  BY DEF AwaitExecution, feeding, managers, venues, recovering
<1>2. caller' \in [how : {"shutdown", "abort", "afterBacktest"},
                   at : {"running", "account", "engine", "execution", "returned"}]
  BY <1>1 DEF ShutdownInv, ShutdownTypeOK
<1>3. ShutdownTypeOK'
  BY <1>1, <1>2 DEF ShutdownInv, ShutdownTypeOK
<1>4. OnTheWay' = OnTheWay /\ (Whole' <=> Whole) /\ (HasEnded' <=> HasEnded)
  BY <1>1 DEF OnTheWay, Whole, HasEnded
<1>5. FeedsEndLast'
  BY <1>1, <1>4 DEF ShutdownInv, FeedsEndLast, Up
<1> QED
  BY <1>1, <1>3, <1>4, <1>5, ManagersIdle

-----------------------------------------------------------------------------
(* The managers.                                                           *)

\* What a manager, its requests and its account stream are.
LEMMA ManagerType ==
    ASSUME ShutdownTypeOK, NEW x \in Exchange
    PROVE  /\ manager[x] \in [up : BOOLEAN, draining : BOOLEAN,
                              inFlight : SUBSET Request, lookups : SUBSET (Request \ Cancel)]
           /\ accounts[x] \in Seq(EventType) /\ outs[x] \in Seq(EventType)
           /\ requests[x] \in Seq({Plain("drain"), Plain("shutdown")}
                                   \cup {Of(r, "request") : r \in Request})
BY DEF ShutdownTypeOK

LEMMA TakeAccountKeeps ==
    ASSUME ShutdownInv, NEW x \in Exchange, TakeAccount(x)
    PROVE  ShutdownInv'
<1>1. /\ engine' = engine /\ requests' = requests /\ manager' = manager /\ venue' = venue
      /\ breaks' = breaks /\ emitted' = emitted /\ missed' = missed /\ reopening' = reopening /\ feed' = feed
      /\ senders' = senders /\ market' = market /\ caller' = caller /\ severed' = severed
      /\ accounts' = [accounts EXCEPT ![x] = Tail(@)] /\ Up(x) /\ accounts[x] # <<>>
      /\ Respond(x, <<Head(accounts[x])>>)
  BY DEF TakeAccount, feeding, recovering, stopping
<1>2. /\ ShutdownTypeOK /\ AnswersAreGiven /\ accounts \in [Exchange -> Seq(AccountEvent)]
      /\ \A y \in Exchange : missed[y] \subseteq AccountEvent /\ IsFiniteSet(missed[y])
  BY DEF ShutdownInv, AccountsAreOfTheVenue
<1>3. /\ Head(accounts[x]) \in AccountEvent /\ Tail(accounts[x]) \in Seq(AccountEvent)
      /\ ToSet(accounts[x]) = {Head(accounts[x])} \cup ToSet(Tail(accounts[x]))
  BY <1>1, <1>2, Taking
<1>4. /\ outs' \in [Exchange -> Seq(EventType)]
      /\ OnTheWay' \subseteq OnTheWay \cup {Head(accounts[x])}
      /\ ~severed => OnTheWay \cup {Head(accounts[x])} \subseteq OnTheWay'
      /\ \A y \in Exchange \ {x} : outs'[y] = outs[y]
  <2>1. <<Head(accounts[x])>> \in Seq(EventType)
    BY <1>3, Different
  <2> QED
    BY <1>1, <1>2, <2>1, Few, Responding
<1>5. ShutdownTypeOK' /\ AccountsAreOfTheVenue'
  <2>1. accounts' \in [Exchange -> Seq(AccountEvent)]
    BY <1>1, <1>2, <1>3
  <2>2. accounts' \in [Exchange -> Seq(EventType)]
    BY <2>1, Different
  <2>3. ShutdownTypeOK'
    BY <1>1, <1>2, <1>4, <2>2 DEF ShutdownTypeOK
  <2>4. AccountsAreOfTheVenue'
    BY <1>1, <1>2, <2>1 DEF AccountsAreOfTheVenue
  <2> QED
    BY <2>3, <2>4
<1>6. Up(x)' /\ \A y \in Exchange : manager'[y].draining = manager[y].draining
  BY <1>1 DEF Up
<1>7. accounts'[x] = Tail(accounts[x]) /\ \A y \in Exchange \ {x} : accounts'[y] = accounts[y]
  BY <1>1, <1>2
<1>8. \A r \in Request : IsAnswered(r)' => IsAnswered(r) /\ venue'[r] = "answered"
  BY <1>1, <1>2, <1>3, <1>4, Different DEF IsAnswered, AnswersAreGiven
<1>9. Whole => ToSet(accounts[x]) \subseteq ToSet(accounts'[x]) \cup OnTheWay'
               /\ OnTheWay \subseteq OnTheWay'
  BY <1>3, <1>4, <1>7 DEF Whole
<1> QED
  BY <1>1, <1>4, <1>5, <1>6, <1>7, <1>8, <1>9, ChannelsIdle

LEMMA SendRequestKeeps ==
    ASSUME ShutdownInv, NEW x \in Exchange, NEW r \in Request, SendRequest(x, r)
    PROVE  ShutdownInv'
<1>1. /\ engine' = engine /\ requests' = requests /\ manager' = manager /\ accounts' = accounts
      /\ breaks' = breaks /\ emitted' = emitted /\ missed' = missed /\ reopening' = reopening /\ feed' = feed
      /\ senders' = senders /\ market' = market /\ caller' = caller /\ severed' = severed
      /\ outs' = outs /\ venue[r] = "unsent" /\ venue' = [venue EXCEPT ![r] = "booked"] /\ Up(x)
  BY DEF SendRequest, feeding, managers, recovering, stopping
<1>2. ShutdownTypeOK /\ AnswersAreGiven /\ AccountsAreOfTheVenue
      /\ venue \in [Request -> {"none", "unsent", "booked", "emitted", "answered"}]
  BY DEF ShutdownInv, ShutdownTypeOK
<1>3. ShutdownTypeOK' /\ AccountsAreOfTheVenue'
  BY <1>1, <1>2 DEF ShutdownTypeOK, AccountsAreOfTheVenue
<1>4. Up(x)' /\ OnTheWay' = OnTheWay
  BY <1>1 DEF Up, OnTheWay
<1>5. \A q \in Request : venue'[q] = "none" <=> venue[q] = "none"
  BY <1>1, <1>2
<1>6. \A q \in Request : IsAnswered(q)' => IsAnswered(q) /\ venue'[q] = "answered"
  BY <1>1, <1>2, <1>4 DEF IsAnswered, AnswersAreGiven
<1> QED
  BY <1>1, <1>3, <1>4, <1>5, <1>6, ChannelsIdle

\* A request that is resolved leaves the manager with its answer in the response channel.
LEMMA Resolving ==
    ASSUME ShutdownInv, NEW x \in Exchange, NEW r \in Request, Up(x),
           r \in manager[x].inFlight \cup manager[x].lookups,
           NEW m \in [up : BOOLEAN, draining : BOOLEAN,
                      inFlight : SUBSET Request, lookups : SUBSET (Request \ Cancel)],
           m.up, m.draining = manager[x].draining,
           m.inFlight \cup m.lookups \subseteq manager[x].inFlight \cup manager[x].lookups,
           manager[x].inFlight \ {r} \subseteq m.inFlight,
           manager' = [manager EXCEPT ![x] = m],
           NEW kind \in Answers, Respond(x, <<Of(r, kind)>>),
           kind # "timeout" => venue[r] = "answered",
           UNCHANGED <<engine, requests, feeding, venues, stopping>>
    PROVE  ShutdownInv'
<1>1. /\ engine' = engine /\ requests' = requests /\ venue' = venue /\ accounts' = accounts
      /\ breaks' = breaks /\ emitted' = emitted /\ missed' = missed /\ reopening' = reopening /\ feed' = feed
      /\ senders' = senders /\ market' = market /\ caller' = caller /\ severed' = severed
  BY DEF feeding, venues, recovering, stopping
<1>2. ShutdownTypeOK /\ AnswersAreGiven /\ AccountsAreOfTheVenue /\ Homes
  BY DEF ShutdownInv
<1>3. /\ outs' \in [Exchange -> Seq(EventType)]
      /\ OnTheWay' \subseteq OnTheWay \cup {Of(r, kind)}
      /\ ~severed => OnTheWay \cup {Of(r, kind)} \subseteq OnTheWay'
      /\ \A y \in Exchange \ {x} : outs'[y] = outs[y]
  <2>1. <<Of(r, kind)>> \in Seq(EventType)
    BY Kinds
  <2> QED
    BY <1>1, <1>2, <2>1, Few, Responding
<1>4. manager'[x] = m /\ \A y \in Exchange \ {x} : manager'[y] = manager[y]
  BY <1>2 DEF ShutdownTypeOK
<1>5. ShutdownTypeOK' /\ AccountsAreOfTheVenue'
  <2>1. manager' \in [Exchange -> [up : BOOLEAN, draining : BOOLEAN,
                                   inFlight : SUBSET Request, lookups : SUBSET (Request \ Cancel)]]
    BY <1>2 DEF ShutdownTypeOK
  <2>2. ShutdownTypeOK'
    BY <1>1, <1>2, <1>3, <2>1 DEF ShutdownTypeOK
  <2> QED
    BY <1>1, <1>2, <2>2 DEF AccountsAreOfTheVenue
<1>6. Up(x)' /\ \A y \in Exchange : manager'[y].draining = manager[y].draining
  BY <1>4 DEF Up
<1>7. ExchangeOf[r] = x
  BY <1>2 DEF Homes
<1>8. ASSUME NEW q \in Request, IsAnswered(q)'
      PROVE  /\ venue'[q] = "answered"
             /\ ~IsAnswered(q) => ExchangeOf[q] = x
  <2>1. CASE IsAnswered(q)
    BY <1>1, <1>2, <2>1 DEF AnswersAreGiven
  <2>2. CASE ~IsAnswered(q)
    <3>1. Of(q, "response") = Of(r, kind) \/ Of(q, "found") = Of(r, kind)
      BY <1>3, <1>8, <2>2 DEF IsAnswered
    <3>2. q = r /\ kind # "timeout"
      BY <3>1, Different DEF Answers
    <3> QED
      BY <1>1, <1>7, <3>2
  <2> QED
    BY <2>1, <2>2
<1>9. Whole => /\ OnTheWay \subseteq OnTheWay'
               /\ \A q \in manager[x].inFlight :
                      q \in manager'[x].inFlight \/ \E k \in Answers : Of(q, k) \in OnTheWay'
               /\ ToSet(accounts[x]) \subseteq ToSet(accounts'[x]) \cup OnTheWay'
  BY <1>1, <1>3, <1>4 DEF Whole
<1> QED
  BY <1>1, <1>3, <1>4, <1>5, <1>6, <1>8, <1>9, ChannelsIdle

LEMMA TakeResponseKeeps ==
    ASSUME ShutdownInv, NEW x \in Exchange, NEW r \in Request, TakeResponse(x, r)
    PROVE  ShutdownInv'
<1>1. manager[x] \in [up : BOOLEAN, draining : BOOLEAN,
                      inFlight : SUBSET Request, lookups : SUBSET (Request \ Cancel)]
  BY ManagerType DEF ShutdownInv
<1>2. PICK m : m = [manager[x] EXCEPT !.inFlight = @ \ {r}]
  OBVIOUS
<1>3. /\ Up(x) /\ r \in manager[x].inFlight /\ venue[r] = "answered"
      /\ manager' = [manager EXCEPT ![x] = m] /\ Respond(x, <<Of(r, "response")>>)
      /\ UNCHANGED <<engine, requests, feeding, venues, stopping>>
  BY <1>2 DEF TakeResponse
<1>4. /\ m \in [up : BOOLEAN, draining : BOOLEAN,
                inFlight : SUBSET Request, lookups : SUBSET (Request \ Cancel)]
      /\ m.up /\ m.draining = manager[x].draining
      /\ m.inFlight = manager[x].inFlight \ {r} /\ m.lookups = manager[x].lookups
  BY <1>1, <1>2, <1>3 DEF Up
<1>5. "response" \in Answers
  BY DEF Answers
<1> QED
  BY <1>3, <1>4, <1>5, Resolving

LEMMA TimeOutKeeps ==
    ASSUME ShutdownInv, NEW x \in Exchange, NEW r \in Request, TimeOut(x, r)
    PROVE  ShutdownInv'
<1>1. manager[x] \in [up : BOOLEAN, draining : BOOLEAN,
                      inFlight : SUBSET Request, lookups : SUBSET (Request \ Cancel)]
  BY ManagerType DEF ShutdownInv
<1>2. PICK m : m = [manager[x] EXCEPT !.inFlight = @ \ {r},
                                      !.lookups = IF r \in Cancel THEN @ ELSE @ \cup {r}]
  OBVIOUS
<1>3. /\ Up(x) /\ r \in manager[x].inFlight
      /\ manager' = [manager EXCEPT ![x] = m] /\ Respond(x, <<Of(r, "timeout")>>)
      /\ UNCHANGED <<engine, requests, feeding, venues, stopping>>
  BY <1>2 DEF TimeOut
<1>4. /\ m \in [up : BOOLEAN, draining : BOOLEAN,
                inFlight : SUBSET Request, lookups : SUBSET (Request \ Cancel)]
      /\ m.up /\ m.draining = manager[x].draining
      /\ m.inFlight = manager[x].inFlight \ {r} /\ m.lookups \subseteq manager[x].lookups \cup {r}
  BY <1>1, <1>2, <1>3 DEF Up
<1>5. "timeout" \in Answers
  BY DEF Answers
<1> QED
  BY <1>3, <1>4, <1>5, Resolving

LEMMA LookUpKeeps ==
    ASSUME ShutdownInv, NEW x \in Exchange, NEW r \in Request, LookUp(x, r)
    PROVE  ShutdownInv'
<1>1. manager[x] \in [up : BOOLEAN, draining : BOOLEAN,
                      inFlight : SUBSET Request, lookups : SUBSET (Request \ Cancel)]
  BY ManagerType DEF ShutdownInv
<1>2. PICK m : m = [manager[x] EXCEPT !.lookups = @ \ {r}]
  OBVIOUS
<1>3. /\ Up(x) /\ r \in manager[x].lookups /\ manager' = [manager EXCEPT ![x] = m]
      /\ UNCHANGED <<engine, requests, feeding, venues, stopping>>
  BY <1>2 DEF LookUp
<1>4. /\ m \in [up : BOOLEAN, draining : BOOLEAN,
                inFlight : SUBSET Request, lookups : SUBSET (Request \ Cancel)]
      /\ m.up /\ m.draining = manager[x].draining
      /\ m.inFlight = manager[x].inFlight /\ m.lookups = manager[x].lookups \ {r}
  BY <1>1, <1>2, <1>3 DEF Up
<1>5. CASE venue[r] = "answered" /\ Respond(x, <<Of(r, "found")>>)
  <2>1. "found" \in Answers
    BY DEF Answers
  <2> QED
    BY <1>3, <1>4, <1>5, <2>1, Resolving
<1>6. CASE outs' = outs
  <2>1. /\ engine' = engine /\ requests' = requests /\ venue' = venue /\ accounts' = accounts
        /\ breaks' = breaks /\ emitted' = emitted /\ missed' = missed /\ reopening' = reopening /\ feed' = feed
        /\ senders' = senders /\ market' = market /\ caller' = caller /\ severed' = severed
    BY <1>3 DEF feeding, venues, recovering, stopping
  <2>2. ShutdownTypeOK /\ AnswersAreGiven /\ AccountsAreOfTheVenue
    BY DEF ShutdownInv
  <2>3. manager'[x] = m /\ \A y \in Exchange \ {x} : manager'[y] = manager[y]
    BY <1>3, <2>2 DEF ShutdownTypeOK
  <2>4. ShutdownTypeOK' /\ AccountsAreOfTheVenue'
    <3>1. manager' \in [Exchange -> [up : BOOLEAN, draining : BOOLEAN,
                                     inFlight : SUBSET Request, lookups : SUBSET (Request \ Cancel)]]
      BY <1>3, <1>4, <2>2 DEF ShutdownTypeOK
    <3>2. ShutdownTypeOK'
      BY <1>6, <2>1, <2>2, <3>1 DEF ShutdownTypeOK
    <3> QED
      BY <2>1, <2>2, <3>2 DEF AccountsAreOfTheVenue
  <2>5. Up(x)' /\ OnTheWay' = OnTheWay
        /\ \A y \in Exchange : manager'[y].draining = manager[y].draining
    BY <1>4, <1>6, <2>1, <2>3 DEF Up, OnTheWay
  <2>6. \A q \in Request : IsAnswered(q)' => IsAnswered(q) /\ venue'[q] = "answered"
    BY <2>1, <2>2, <2>5 DEF IsAnswered, AnswersAreGiven
  <2> QED
    BY <1>3, <1>4, <1>6, <2>1, <2>3, <2>4, <2>5, <2>6, ChannelsIdle
<1> QED
  BY <1>3, <1>5, <1>6 DEF LookUp

-----------------------------------------------------------------------------
(* The venue.                                                              *)

\* A step of the venue, by what it does to the answers and to the account streams.
LEMMA VenueMoves ==
    ASSUME ShutdownInv, ShutdownTypeOK', AccountsAreOfTheVenue',
           UNCHANGED <<engine, requests, manager, outs, feeding, stopping>>,
           \A y \in Exchange : ~Up(y) => accounts'[y] = accounts[y],
           \A r \in Request : /\ venue'[r] = "none" <=> venue[r] = "none"
                              /\ venue[r] = "answered" => venue'[r] = "answered",
           \A y \in Exchange :
               ToSet(accounts[y]) \cup missed[y] \subseteq ToSet(accounts'[y]) \cup missed'[y],
           \A r \in Request : Of(r, "trade") \in emitted' \ emitted =>
               \/ Of(r, "trade") \in ToSet(accounts'[ExchangeOf[r]]) \cup missed'[ExchangeOf[r]]
               \/ ~Up(ExchangeOf[r]) /\ venue[r] # "answered",
           \A y \in Exchange : y \in reopening' \/ missed'[y] # {} =>
               \/ Reconnecting(y) \in ToSet(accounts'[y])
               \/ /\ y \in reopening \/ missed[y] # {}
                  /\ ToSet(accounts[y]) \subseteq ToSet(accounts'[y])
    PROVE  ShutdownInv'
<1>1. /\ engine' = engine /\ requests' = requests /\ manager' = manager /\ outs' = outs
      /\ feed' = feed /\ senders' = senders /\ severed' = severed
      /\ (Whole' <=> Whole) /\ (HasEnded' <=> HasEnded) /\ OnTheWay' = OnTheWay
  BY DEF feeding, stopping, Whole, HasEnded, OnTheWay
<1>2. \A y \in Exchange : (Up(y)' <=> Up(y)) /\ Channel(y)' = Channel(y)
  BY <1>1 DEF Up, Channel
<1>3. Homes'
  BY <1>1, <1>2 DEF ShutdownInv, Homes
<1>4. Asked' /\ DrainIsBehind' /\ SentOnce'
  BY <1>1, <1>2 DEF ShutdownInv, Asked, DrainIsBehind, SentOnce
<1>5. FeedsEndLast' /\ OwedIsAccounted'
  BY <1>1, <1>2 DEF ShutdownInv, FeedsEndLast, OwedIsAccounted
<1>6. AnswersAreGiven'
  BY <1>1 DEF ShutdownInv, AnswersAreGiven, IsAnswered
<1>7. TradesAreKept'
  <2> SUFFICES ASSUME Whole', NEW r \in Request, Of(r, "trade") \in emitted'
               PROVE  \/ Of(r, "trade") \in ToSet(accounts'[ExchangeOf[r]]) \cup missed'[ExchangeOf[r]]
                      \/ Of(r, "trade") \in OnTheWay'
                      \/ ~Up(ExchangeOf[r])' /\ ~IsAnswered(r)'
    BY DEF TradesAreKept
  <2>1. ExchangeOf[r] \in Exchange /\ (IsAnswered(r)' <=> IsAnswered(r))
    BY <1>1, RequestAssumption DEF IsAnswered
  <2>2. IsAnswered(r) => venue[r] = "answered"
    BY DEF ShutdownInv, AnswersAreGiven
  <2>3. Of(r, "trade") \in emitted =>
            \/ Of(r, "trade") \in ToSet(accounts[ExchangeOf[r]]) \cup missed[ExchangeOf[r]]
            \/ Of(r, "trade") \in OnTheWay
            \/ ~Up(ExchangeOf[r]) /\ ~IsAnswered(r)
    BY <1>1 DEF ShutdownInv, TradesAreKept
  <2>4. CASE Of(r, "trade") \in emitted
    BY <1>1, <1>2, <2>1, <2>3, <2>4
  <2>5. CASE Of(r, "trade") \notin emitted
    BY <1>2, <2>1, <2>2, <2>5
  <2> QED
    BY <2>4, <2>5
<1>8. NoticesAreKept'
  <2> SUFFICES ASSUME Whole', NEW y \in Exchange, y \in reopening' \/ missed'[y] # {}
               PROVE  Reconnecting(y) \in ToSet(accounts'[y]) \cup OnTheWay
    BY <1>1 DEF NoticesAreKept
  <2>1. y \in reopening \/ missed[y] # {} => Reconnecting(y) \in ToSet(accounts[y]) \cup OnTheWay
    BY <1>1 DEF ShutdownInv, NoticesAreKept
  <2> QED
    BY <2>1
<1> QED
  BY <1>3, <1>4, <1>5, <1>6, <1>7, <1>8 DEF ShutdownInv

\* What the venue emits is ready on its stream, or missed by one that broke.
LEMMA Emitting ==
    ASSUME ShutdownInv, NEW x \in Exchange, NEW event \in AccountEvent, Emit(x, event)
    PROVE  /\ AccountsAreOfTheVenue' /\ emitted' = emitted \cup {event}
           /\ accounts' \in [Exchange -> Seq(EventType)]
           /\ missed' \in [Exchange -> SUBSET EventType]
           /\ \A y \in Exchange : /\ ~Up(y) => accounts'[y] = accounts[y]
                                  /\ ToSet(accounts[y]) \subseteq ToSet(accounts'[y])
                                  /\ missed[y] \subseteq missed'[y]
                                  /\ y \notin reopening => missed'[y] = missed[y]
           /\ Up(x) \/ x \in reopening => event \in ToSet(accounts'[x]) \cup missed'[x]
<1>1. /\ accounts \in [Exchange -> Seq(AccountEvent)] /\ AccountEvent \subseteq EventType
      /\ missed \in [Exchange -> SUBSET EventType]
      /\ \A y \in Exchange : missed[y] \subseteq AccountEvent /\ IsFiniteSet(missed[y])
  BY Different DEF ShutdownInv, ShutdownTypeOK, AccountsAreOfTheVenue
<1>2. accounts \in [Exchange -> Seq(EventType)]
  BY DEF ShutdownInv, ShutdownTypeOK
<1>3. CASE x \in reopening
  <2>1. accounts' = accounts /\ missed' = [missed EXCEPT ![x] = @ \cup {event}]
        /\ emitted' = emitted \cup {event}
    BY <1>3 DEF Emit
  <2>2. missed'[x] = missed[x] \cup {event} /\ \A y \in Exchange \ {x} : missed'[y] = missed[y]
    BY <1>1, <2>1
  <2>3. IsFiniteSet(missed[x] \cup {event})
    BY <1>1, FS_AddElement
  <2>4. AccountsAreOfTheVenue'
    BY <1>1, <2>1, <2>2, <2>3 DEF AccountsAreOfTheVenue
  <2>5. missed' \in [Exchange -> SUBSET EventType]
    BY <1>1, <2>1
  <2> QED
    BY <1>2, <1>3, <2>1, <2>2, <2>4, <2>5
<1>4. CASE x \notin reopening
  <2>1. /\ missed' = missed /\ emitted' = emitted \cup {event}
        /\ accounts' = IF Up(x) THEN [accounts EXCEPT ![x] = Append(@, event)] ELSE accounts
    BY <1>4 DEF Emit
  <2>2. CASE Up(x)
    <3>1. /\ Append(accounts[x], event) \in Seq(AccountEvent)
          /\ ToSet(Append(accounts[x], event)) = ToSet(accounts[x]) \cup {event}
      BY <1>1, Appending
    <3>2. /\ accounts' = [accounts EXCEPT ![x] = Append(@, event)]
          /\ accounts'[x] = Append(accounts[x], event)
          /\ \A y \in Exchange \ {x} : accounts'[y] = accounts[y]
      BY <1>1, <2>1, <2>2
    <3>3. accounts' \in [Exchange -> Seq(AccountEvent)]
      BY <1>1, <3>1, <3>2
    <3>4. accounts' \in [Exchange -> Seq(EventType)]
      BY <1>1, <3>3
    <3>5. AccountsAreOfTheVenue'
      BY <1>1, <2>1, <3>3 DEF AccountsAreOfTheVenue
    <3> QED
      BY <1>1, <2>1, <2>2, <3>1, <3>2, <3>4, <3>5
  <2>3. CASE ~Up(x)
    <3>1. AccountsAreOfTheVenue'
      BY <1>1, <2>1, <2>3 DEF AccountsAreOfTheVenue
    <3> QED
      BY <1>1, <1>2, <1>4, <2>1, <2>3, <3>1
  <2> QED
    BY <2>2, <2>3
<1> QED
  BY <1>3, <1>4

LEMMA AcceptsKeeps ==
    ASSUME ShutdownInv, NEW r \in Request, Accepts(r)
    PROVE  ShutdownInv'
<1>1. /\ UNCHANGED <<engine, requests, manager, outs, feeding, stopping>>
      /\ engine' = engine /\ requests' = requests /\ manager' = manager /\ outs' = outs
      /\ feed' = feed /\ senders' = senders /\ market' = market /\ caller' = caller
      /\ severed' = severed /\ breaks' = breaks /\ reopening' = reopening
      /\ venue[r] = "booked" /\ venue' = [venue EXCEPT ![r] = "emitted"]
      /\ Emit(ExchangeOf[r], Of(r, "trade"))
  BY DEF Accepts, feeding, managers, stopping
<1>2. /\ ShutdownTypeOK /\ ExchangeOf[r] \in Exchange
      /\ venue \in [Request -> {"none", "unsent", "booked", "emitted", "answered"}]
  BY RequestAssumption DEF ShutdownInv, ShutdownTypeOK
<1>3. PICK trade : trade = Of(r, "trade")
  OBVIOUS
<1>4. PICK x \in Exchange : x = ExchangeOf[r]
  BY <1>2
<1>5. trade \in AccountEvent /\ trade \in EventType /\ Emit(x, trade)
  BY <1>1, <1>3, <1>4, Different DEF AccountEvent
<1>6. /\ AccountsAreOfTheVenue' /\ emitted' = emitted \cup {trade}
      /\ accounts' \in [Exchange -> Seq(EventType)] /\ missed' \in [Exchange -> SUBSET EventType]
      /\ \A y \in Exchange : /\ ~Up(y) => accounts'[y] = accounts[y]
                             /\ ToSet(accounts[y]) \subseteq ToSet(accounts'[y])
                             /\ missed[y] \subseteq missed'[y]
                             /\ y \notin reopening => missed'[y] = missed[y]
      /\ Up(x) \/ x \in reopening => trade \in ToSet(accounts'[x]) \cup missed'[x]
  BY <1>5, Emitting
<1>7. ShutdownTypeOK'
  <2>1. emitted' \subseteq EventType
    BY <1>2, <1>5, <1>6 DEF ShutdownTypeOK
  <2> QED
    BY <1>1, <1>2, <1>6, <2>1 DEF ShutdownTypeOK
<1>8. \A q \in Request : /\ venue'[q] = "none" <=> venue[q] = "none"
                         /\ venue[q] = "answered" => venue'[q] = "answered"
  BY <1>1, <1>2
<1>9. ASSUME NEW q \in Request, Of(q, "trade") \in emitted' \ emitted
      PROVE  \/ Of(q, "trade") \in ToSet(accounts'[ExchangeOf[q]]) \cup missed'[ExchangeOf[q]]
             \/ ~Up(ExchangeOf[q]) /\ venue[q] # "answered"
  <2>1. q = r
    BY <1>3, <1>6, <1>9, Different
  <2> QED
    BY <1>1, <1>3, <1>4, <1>6, <2>1
<1>10. \A y \in Exchange :
          /\ ToSet(accounts[y]) \cup missed[y] \subseteq ToSet(accounts'[y]) \cup missed'[y]
          /\ y \in reopening' \/ missed'[y] # {} =>
                /\ y \in reopening \/ missed[y] # {}
                /\ ToSet(accounts[y]) \subseteq ToSet(accounts'[y])
  BY <1>1, <1>6
<1> QED
  BY <1>1, <1>6, <1>7, <1>8, <1>9, <1>10, VenueMoves

LEMMA AnswersRequestKeeps ==
    ASSUME ShutdownInv, NEW r \in Request, AnswersRequest(r)
    PROVE  ShutdownInv'
<1>1. /\ UNCHANGED <<engine, requests, manager, outs, feeding, stopping>>
      /\ engine' = engine /\ requests' = requests /\ manager' = manager /\ outs' = outs
      /\ feed' = feed /\ senders' = senders /\ market' = market /\ caller' = caller
      /\ severed' = severed /\ breaks' = breaks /\ missed' = missed /\ reopening' = reopening /\ emitted' = emitted
      /\ accounts' = accounts
      /\ venue[r] \in {"booked", "emitted"} /\ venue' = [venue EXCEPT ![r] = "answered"]
  BY DEF AnswersRequest, feeding, managers, recovering, stopping
<1>2. /\ ShutdownTypeOK /\ AccountsAreOfTheVenue
      /\ venue \in [Request -> {"none", "unsent", "booked", "emitted", "answered"}]
  BY DEF ShutdownInv, ShutdownTypeOK
<1>3. ShutdownTypeOK' /\ AccountsAreOfTheVenue'
  BY <1>1, <1>2 DEF ShutdownTypeOK, AccountsAreOfTheVenue
<1>4. \A q \in Request : /\ venue'[q] = "none" <=> venue[q] = "none"
                         /\ venue[q] = "answered" => venue'[q] = "answered"
  BY <1>1, <1>2
<1> QED
  BY <1>1, <1>3, <1>4, VenueMoves

\* The set of what a sequence holds is finite.
LEMMA Finite == ASSUME NEW S, NEW s \in Seq(S) PROVE IsFiniteSet(ToSet(s))
<1>1. /\ Len(s) \in Nat /\ DOMAIN s = 1..Len(s) /\ s \in [1..Len(s) -> ToSet(s)]
      /\ \A e \in ToSet(s) : \E i \in 1..Len(s) : s[i] = e
  BY DEF ToSet
<1>2. s \in Surjection(1..Len(s), ToSet(s))
  BY <1>1 DEF Surjection
<1>3. IsFiniteSet(1..Len(s))
  <2>1. 1 \in Int /\ Len(s) \in Int
    BY <1>1
  <2> QED
    BY <2>1, FS_Interval
<1> QED
  BY <1>2, <1>3, FS_Surjection

LEMMA BreakStreamKeeps ==
    ASSUME ShutdownInv, NEW x \in Exchange, BreakStream(x)
    PROVE  ShutdownInv'
<1>1. /\ UNCHANGED <<engine, requests, manager, outs, feeding, stopping>>
      /\ engine' = engine /\ requests' = requests /\ manager' = manager /\ outs' = outs
      /\ feed' = feed /\ senders' = senders /\ market' = market /\ caller' = caller
      /\ severed' = severed /\ emitted' = emitted /\ venue' = venue
      /\ Up(x) /\ breaks > 0 /\ breaks' = breaks - 1
      /\ reopening' = reopening \cup {x}
      /\ missed' = [missed EXCEPT ![x] = @ \cup ToSet(accounts[x])]
      /\ accounts' = [accounts EXCEPT ![x] = <<Reconnecting(x)>>]
  BY DEF BreakStream, feeding, managers, stopping
<1>2. /\ ShutdownTypeOK /\ accounts \in [Exchange -> Seq(AccountEvent)] /\ breaks \in Nat
      /\ missed \in [Exchange -> SUBSET EventType] /\ AccountEvent \subseteq EventType
      /\ \A y \in Exchange : missed[y] \subseteq AccountEvent /\ IsFiniteSet(missed[y])
  BY Different DEF ShutdownInv, ShutdownTypeOK, AccountsAreOfTheVenue
<1>3. /\ <<Reconnecting(x)>> \in Seq(AccountEvent)
      /\ accounts'[x] = <<Reconnecting(x)>> /\ Reconnecting(x) \in ToSet(accounts'[x])
      /\ \A y \in Exchange \ {x} : accounts'[y] = accounts[y]
  <2>1. Reconnecting(x) \in AccountEvent
    BY DEF AccountEvent
  <2>2. accounts'[x] = <<Reconnecting(x)>>
    BY <1>1, <1>2
  <2> QED
    BY <1>1, <1>2, <2>1, <2>2, Few
<1>4. /\ ToSet(accounts[x]) \subseteq AccountEvent
      /\ missed'[x] = missed[x] \cup ToSet(accounts[x])
      /\ \A y \in Exchange \ {x} : missed'[y] = missed[y]
  BY <1>1, <1>2 DEF ToSet
<1>5. AccountsAreOfTheVenue'
  <2>1. accounts' \in [Exchange -> Seq(AccountEvent)]
    BY <1>1, <1>2, <1>3
  <2>2. IsFiniteSet(missed[x]) /\ IsFiniteSet(ToSet(accounts[x]))
    BY <1>2, Finite
  <2>3. IsFiniteSet(missed[x] \cup ToSet(accounts[x]))
    BY <2>2, FS_Union
  <2> QED
    BY <1>2, <1>4, <2>1, <2>3 DEF AccountsAreOfTheVenue
<1>6. ShutdownTypeOK'
  <2>1. accounts' \in [Exchange -> Seq(EventType)]
    BY <1>2, <1>5 DEF AccountsAreOfTheVenue
  <2>2. missed' \in [Exchange -> SUBSET EventType]
    BY <1>1, <1>2, <1>4
  <2>3. breaks' \in Nat /\ reopening' \subseteq Exchange
    BY <1>1, <1>2 DEF ShutdownTypeOK
  <2> QED
    BY <1>1, <1>2, <2>1, <2>2, <2>3 DEF ShutdownTypeOK
<1>7. \A y \in Exchange :
          /\ ToSet(accounts[y]) \cup missed[y] \subseteq ToSet(accounts'[y]) \cup missed'[y]
          /\ y \in reopening' \/ missed'[y] # {} =>
                \/ Reconnecting(y) \in ToSet(accounts'[y])
                \/ /\ y \in reopening \/ missed[y] # {}
                   /\ ToSet(accounts[y]) \subseteq ToSet(accounts'[y])
  BY <1>1, <1>3, <1>4
<1> QED
  BY <1>1, <1>3, <1>5, <1>6, <1>7, VenueMoves

\* The events a re-initialised stream begins with are some of those it had missed.
LEMMA Orders ==
    ASSUME NEW S, IsFiniteSet(S), NEW events \in SetToAllKPermutations(S)
    PROVE  events \in Seq(S) /\ ToSet(events) \subseteq S
<1>1. PICK T \in SUBSET S : events \in SetToSeqs(T)
  BY DEF SetToAllKPermutations
<1>2. Cardinality(T) \in Nat
  BY FS_Subset, FS_CardinalityType
<1>3. events \in [1..Cardinality(T) -> T]
  BY <1>1 DEF SetToSeqs
<1>4. events \in Seq(S)
  BY <1>2, <1>3
<1> QED
  BY <1>3, <1>4 DEF ToSet

LEMMA ReopenStreamKeeps ==
    ASSUME ShutdownInv, NEW x \in Exchange, ReopenStream(x)
    PROVE  ShutdownInv'
<1>1. /\ UNCHANGED <<engine, requests, manager, outs, feeding, stopping>>
      /\ engine' = engine /\ requests' = requests /\ manager' = manager /\ outs' = outs
      /\ feed' = feed /\ senders' = senders /\ market' = market /\ caller' = caller
      /\ severed' = severed /\ emitted' = emitted /\ venue' = venue /\ breaks' = breaks
      /\ Up(x) /\ x \in reopening /\ reopening' = reopening \ {x} /\ accounts[x] = <<>>
  BY DEF ReopenStream, feeding, managers, stopping
<1>2. PICK events \in SetToAllKPermutations(missed[x]) :
          /\ accounts' = [accounts EXCEPT ![x] = events]
          /\ missed' = [missed EXCEPT ![x] = @ \ ToSet(events)]
  BY DEF ReopenStream
<1>3. /\ ShutdownTypeOK /\ accounts \in [Exchange -> Seq(AccountEvent)]
      /\ missed \in [Exchange -> SUBSET EventType] /\ AccountEvent \subseteq EventType
      /\ \A y \in Exchange : missed[y] \subseteq AccountEvent /\ IsFiniteSet(missed[y])
  BY Different DEF ShutdownInv, ShutdownTypeOK, AccountsAreOfTheVenue
<1>4. /\ accounts'[x] = events /\ missed'[x] = missed[x] \ ToSet(events)
      /\ \A y \in Exchange \ {x} : accounts'[y] = accounts[y] /\ missed'[y] = missed[y]
      /\ ToSet(accounts[x]) = {}
  BY <1>1, <1>2, <1>3, Few
<1>5. events \in Seq(missed[x]) /\ events \in Seq(AccountEvent)
  <2>1. events \in Seq(missed[x])
    BY <1>3, Orders
  <2> QED
    BY <1>3, <2>1
<1>6. AccountsAreOfTheVenue'
  <2>1. accounts' \in [Exchange -> Seq(AccountEvent)]
    BY <1>2, <1>3, <1>5
  <2>2. IsFiniteSet(missed[x] \ ToSet(events))
    BY <1>3, FS_Subset
  <2> QED
    BY <1>3, <1>4, <2>1, <2>2 DEF AccountsAreOfTheVenue
<1>7. ShutdownTypeOK'
  <2>1. accounts' \in [Exchange -> Seq(EventType)]
    BY <1>3, <1>6 DEF AccountsAreOfTheVenue
  <2>2. missed' \in [Exchange -> SUBSET EventType] /\ reopening' \subseteq Exchange
    BY <1>1, <1>2, <1>3 DEF ShutdownTypeOK
  <2> QED
    BY <1>1, <1>3, <2>1, <2>2 DEF ShutdownTypeOK
<1>8. \A y \in Exchange :
          /\ ToSet(accounts[y]) \cup missed[y] \subseteq ToSet(accounts'[y]) \cup missed'[y]
          /\ y \in reopening' \/ missed'[y] # {} =>
                /\ y \in reopening \/ missed[y] # {}
                /\ ToSet(accounts[y]) \subseteq ToSet(accounts'[y])
  BY <1>1, <1>4
<1> QED
  BY <1>1, <1>4, <1>6, <1>7, <1>8, VenueMoves

-----------------------------------------------------------------------------
(* A manager takes what the engine sent it, and stops.                     *)

Message == {Plain("drain"), Plain("shutdown")} \cup {Of(r, "request") : r \in Request}

\* A message is one of three kinds, and each is what its kind says.
LEMMA Messages ==
    /\ Plain("drain").kind = "drain" /\ Plain("shutdown").kind = "shutdown"
    /\ \A r \in Request : Of(r, "request").kind = "request" /\ Of(r, "request").request = r
    /\ \A r \in Request : Of(r, "request") # Plain("drain") /\ Of(r, "request") # Plain("shutdown")
    /\ \A r, q \in Request : Of(r, "request") = Of(q, "request") => r = q
    /\ \A m \in Message : /\ m.kind = "drain" => m = Plain("drain")
                          /\ m.kind = "shutdown" => m = Plain("shutdown")
                          /\ m.kind = "request" => m.request \in Request /\ m = Of(m.request, "request")
<1>1. /\ Plain("drain").kind = "drain" /\ Plain("shutdown").kind = "shutdown"
      /\ \A r \in Request : Of(r, "request").kind = "request" /\ Of(r, "request").request = r
  BY DEF Plain, Of
<1>2. /\ \A r \in Request : Of(r, "request") # Plain("drain") /\ Of(r, "request") # Plain("shutdown")
      /\ \A r, q \in Request : Of(r, "request") = Of(q, "request") => r = q
  BY <1>1
<1> QED
  BY <1>1, <1>2 DEF Message

\* Managers that go down leave their ends of the channels empty.
LEMMA GoingDown ==
    ASSUME ShutdownInv, engine' = engine, venue' = venue,
           \A x \in Exchange :
               \/ manager'[x] = manager[x] /\ requests'[x] = requests[x] /\ accounts'[x] = accounts[x]
               \/ manager'[x] = Down /\ requests'[x] = <<>> /\ accounts'[x] = <<>>
    PROVE  Homes' /\ Asked' /\ DrainIsBehind' /\ SentOnce'
<1>1. \A x \in Exchange :
          \/ /\ manager'[x] = manager[x] /\ requests'[x] = requests[x] /\ accounts'[x] = accounts[x]
             /\ Channel(x)' = Channel(x)
          \/ /\ manager'[x] = Down /\ requests'[x] = <<>> /\ accounts'[x] = <<>>
             /\ Channel(x)' = {} /\ Len(requests'[x]) = 0
  <2>1. ToSet(<<>>) = {} /\ Len(<<>>) = 0
    BY Few
  <2> QED
    BY <2>1 DEF Channel
<1>2. /\ ~Down.draining /\ Down.inFlight = {} /\ Down.lookups = {}
  BY DEF Down
<1>3. Homes'
  BY <1>1, <1>2 DEF ShutdownInv, Homes, Up
<1>4. Asked'
  BY <1>1, <1>2 DEF ShutdownInv, Asked, HasEnded
<1>5. DrainIsBehind'
  BY <1>1, <1>2 DEF ShutdownInv, DrainIsBehind
<1>6. SentOnce'
  BY <1>1 DEF ShutdownInv, SentOnce
<1> QED
  BY <1>3, <1>4, <1>5, <1>6

\* What Stop does to the state's types.
LEMMA StopType ==
    ASSUME ShutdownInv, NEW x \in Exchange, Stop(x), missed' = missed
    PROVE  /\ manager' \in [Exchange -> [up : BOOLEAN, draining : BOOLEAN,
                                         inFlight : SUBSET Request, lookups : SUBSET (Request \ Cancel)]]
           /\ requests' \in [Exchange -> Seq(Message)]
           /\ accounts' \in [Exchange -> Seq(EventType)] /\ AccountsAreOfTheVenue'
           /\ manager'[x] = Down /\ requests'[x] = <<>> /\ accounts'[x] = <<>>
           /\ \A y \in Exchange \ {x} :
                 manager'[y] = manager[y] /\ requests'[y] = requests[y] /\ accounts'[y] = accounts[y]
<1>1. /\ manager \in [Exchange -> [up : BOOLEAN, draining : BOOLEAN,
                                   inFlight : SUBSET Request, lookups : SUBSET (Request \ Cancel)]]
      /\ requests \in [Exchange -> Seq(Message)] /\ accounts \in [Exchange -> Seq(AccountEvent)]
      /\ accounts \in [Exchange -> Seq(EventType)]
  BY DEF ShutdownInv, ShutdownTypeOK, AccountsAreOfTheVenue, Message
<1>2. /\ Down \in [up : BOOLEAN, draining : BOOLEAN,
                   inFlight : SUBSET Request, lookups : SUBSET (Request \ Cancel)]
      /\ <<>> \in Seq(Message) /\ <<>> \in Seq(AccountEvent) /\ <<>> \in Seq(EventType)
  BY DEF Down
<1>3. /\ manager' = [manager EXCEPT ![x] = Down] /\ requests' = [requests EXCEPT ![x] = <<>>]
      /\ accounts' = [accounts EXCEPT ![x] = <<>>]
  BY DEF Stop
<1>4. accounts' \in [Exchange -> Seq(AccountEvent)]
  BY <1>1, <1>2, <1>3
<1>5. AccountsAreOfTheVenue'
  BY <1>4 DEF ShutdownInv, AccountsAreOfTheVenue
<1>6. /\ manager' \in [Exchange -> [up : BOOLEAN, draining : BOOLEAN,
                                    inFlight : SUBSET Request, lookups : SUBSET (Request \ Cancel)]]
      /\ requests' \in [Exchange -> Seq(Message)] /\ accounts' \in [Exchange -> Seq(EventType)]
  BY <1>1, <1>2, <1>3
<1> QED
  BY <1>1, <1>3, <1>5, <1>6

\* A manager that stops when the stop of the system has been cut short.
LEMMA StopShort ==
    ASSUME ShutdownInv, NEW x \in Exchange, Stop(x), ~Whole,
           UNCHANGED <<engine, outs, venue, recovering, feeding, stopping>>
    PROVE  ShutdownInv'
<1>1. /\ engine' = engine /\ outs' = outs /\ venue' = venue /\ breaks' = breaks
      /\ emitted' = emitted /\ missed' = missed /\ reopening' = reopening /\ feed' = feed /\ senders' = senders
      /\ market' = market /\ caller' = caller /\ severed' = severed
  BY DEF feeding, recovering, stopping
<1>2. ShutdownTypeOK'
  <2>1. requests' \in [Exchange -> Seq({Plain("drain"), Plain("shutdown")}
                                       \cup {Of(r, "request") : r \in Request})]
    BY <1>1, StopType DEF Message
  <2>2. /\ manager' \in [Exchange -> [up : BOOLEAN, draining : BOOLEAN,
                                      inFlight : SUBSET Request, lookups : SUBSET (Request \ Cancel)]]
        /\ accounts' \in [Exchange -> Seq(EventType)]
    BY <1>1, StopType
  <2> QED
    BY <1>1, <2>1, <2>2 DEF ShutdownInv, ShutdownTypeOK
<1>3. Homes' /\ Asked' /\ DrainIsBehind' /\ SentOnce' /\ AccountsAreOfTheVenue'
  BY <1>1, StopType, GoingDown
<1>4. ~Whole' /\ OnTheWay' = OnTheWay
  BY <1>1 DEF Whole, OnTheWay
<1>5. FeedsEndLast' /\ OwedIsAccounted' /\ TradesAreKept' /\ NoticesAreKept'
  BY <1>4 DEF FeedsEndLast, OwedIsAccounted, TradesAreKept, NoticesAreKept
<1>6. AnswersAreGiven'
  BY <1>1, <1>4 DEF ShutdownInv, AnswersAreGiven, IsAnswered
<1> QED
  BY <1>2, <1>3, <1>5, <1>6 DEF ShutdownInv

LEMMA StopSeveredKeeps ==
    ASSUME ShutdownInv, NEW x \in Exchange, StopSevered(x)
    PROVE  ShutdownInv'
BY StopShort DEF StopSevered, Whole

LEMMA DrainedKeeps ==
    ASSUME ShutdownInv, NEW x \in Exchange, Drained(x)
    PROVE  ShutdownInv'
<1>1. /\ Up(x) /\ manager[x].draining /\ manager[x].inFlight = {} /\ Stop(x)
      /\ Respond(x, accounts[x])
      /\ engine' = engine /\ venue' = venue /\ breaks' = breaks
      /\ emitted' = emitted /\ missed' = missed /\ reopening' = reopening /\ feed' = feed /\ senders' = senders
      /\ market' = market /\ caller' = caller /\ severed' = severed
  BY DEF Drained, StopDrained, OwesNothing, feeding, recovering, stopping
<1>2. /\ ShutdownTypeOK /\ accounts[x] \in Seq(AccountEvent) /\ accounts[x] \in Seq(EventType)
  BY DEF ShutdownInv, AccountsAreOfTheVenue, ShutdownTypeOK
<1>3. /\ outs' \in [Exchange -> Seq(EventType)]
      /\ OnTheWay' \subseteq OnTheWay \cup ToSet(accounts[x])
      /\ ~severed => OnTheWay \cup ToSet(accounts[x]) \subseteq OnTheWay'
      /\ \A y \in Exchange \ {x} : outs'[y] = outs[y]
  BY <1>1, <1>2, Responding
<1>4. ToSet(accounts[x]) \subseteq AccountEvent
  BY <1>2 DEF ToSet
<1>5. ShutdownTypeOK'
  <2>1. requests' \in [Exchange -> Seq({Plain("drain"), Plain("shutdown")}
                                       \cup {Of(r, "request") : r \in Request})]
    BY <1>1, StopType DEF Message
  <2>2. /\ manager' \in [Exchange -> [up : BOOLEAN, draining : BOOLEAN,
                                      inFlight : SUBSET Request, lookups : SUBSET (Request \ Cancel)]]
        /\ accounts' \in [Exchange -> Seq(EventType)]
    BY <1>1, StopType
  <2> QED
    BY <1>1, <1>2, <1>3, <2>1, <2>2 DEF ShutdownTypeOK
<1>6. /\ manager'[x] = Down
      /\ \A y \in Exchange \ {x} :
            manager'[y] = manager[y] /\ requests'[y] = requests[y] /\ accounts'[y] = accounts[y]
  BY <1>1, StopType
<1>7. Homes' /\ Asked' /\ DrainIsBehind' /\ SentOnce' /\ AccountsAreOfTheVenue'
  BY <1>1, StopType, GoingDown
<1>8. Whole' <=> Whole
  BY <1>1 DEF Whole
<1>9. FeedsEndLast'
  <2>1. Whole => "account" \in senders /\ ~HasEnded
    BY <1>1 DEF ShutdownInv, FeedsEndLast
  <2> QED
    BY <1>1, <1>8, <2>1 DEF FeedsEndLast, HasEnded
<1>10. \A r \in Request : IsAnswered(r)' => IsAnswered(r)
  BY <1>3, <1>4, Different DEF IsAnswered
<1>11. AnswersAreGiven'
  BY <1>1, <1>10 DEF ShutdownInv, AnswersAreGiven
<1>12. OwedIsAccounted'
  <2> SUFFICES ASSUME Whole', NEW r \in engine'.owed
               PROVE  \/ \E y \in Exchange : Of(r, "request") \in Channel(y)' \/ r \in manager'[y].inFlight
                      \/ \E kind \in Answers : Of(r, kind) \in OnTheWay'
    BY DEF OwedIsAccounted
  <2>1. /\ r \in engine.owed /\ ~severed
        /\ \/ \E y \in Exchange : Of(r, "request") \in Channel(y) \/ r \in manager[y].inFlight
           \/ \E kind \in Answers : Of(r, kind) \in OnTheWay
    BY <1>1, <1>8 DEF ShutdownInv, OwedIsAccounted, Whole
  <2>2. Of(r, "request") \notin Channel(x)
    <3> SUFFICES ASSUME Of(r, "request") \in Channel(x) PROVE FALSE
      OBVIOUS
    <3>1. PICK j \in 1..Len(requests[x]) : requests[x][j] = Of(r, "request")
      BY <1>2, ManagerType DEF Channel, ToSet
    <3> QED
      BY <1>1, <2>1, <3>1 DEF ShutdownInv, DrainIsBehind
  <2>3. \A y \in Exchange \ {x} : Channel(y)' = Channel(y)
    BY <1>6 DEF Channel
  <2> QED
    BY <1>1, <1>3, <1>6, <2>1, <2>2, <2>3
<1>13. TradesAreKept'
  <2> SUFFICES ASSUME Whole', NEW r \in Request, Of(r, "trade") \in emitted'
               PROVE  \/ Of(r, "trade") \in ToSet(accounts'[ExchangeOf[r]]) \cup missed'[ExchangeOf[r]]
                      \/ Of(r, "trade") \in OnTheWay'
                      \/ ~Up(ExchangeOf[r])' /\ ~IsAnswered(r)'
    BY DEF TradesAreKept
  <2>1. ExchangeOf[r] \in Exchange /\ ~severed
    BY <1>8, RequestAssumption DEF Whole
  <2>2. \/ Of(r, "trade") \in ToSet(accounts[ExchangeOf[r]]) \cup missed[ExchangeOf[r]]
        \/ Of(r, "trade") \in OnTheWay
        \/ ~Up(ExchangeOf[r]) /\ ~IsAnswered(r)
    BY <1>1, <1>8 DEF ShutdownInv, TradesAreKept
  <2>3. CASE ExchangeOf[r] = x
    BY <1>1, <1>3, <2>1, <2>2, <2>3
  <2>4. CASE ExchangeOf[r] # x
    BY <1>1, <1>3, <1>6, <1>10, <2>1, <2>2, <2>4 DEF Up
  <2> QED
    BY <2>3, <2>4
<1>14. NoticesAreKept'
  <2> SUFFICES ASSUME Whole', NEW y \in Exchange, y \in reopening \/ missed[y] # {}
               PROVE  Reconnecting(y) \in ToSet(accounts'[y]) \cup OnTheWay'
    BY <1>1 DEF NoticesAreKept
  <2>1. ~severed /\ Reconnecting(y) \in ToSet(accounts[y]) \cup OnTheWay
    BY <1>8 DEF Whole, ShutdownInv, NoticesAreKept
  <2>2. CASE y = x
    BY <1>3, <2>1, <2>2
  <2>3. CASE y # x
    BY <1>3, <1>6, <2>1, <2>3
  <2> QED
    BY <2>2, <2>3
<1> QED
  BY <1>5, <1>7, <1>9, <1>11, <1>12, <1>13, <1>14 DEF ShutdownInv

\* A message taken from a channel.
LEMMA TakingMessage ==
    ASSUME ShutdownInv, NEW x \in Exchange, requests[x] # <<>>,
           requests' = [requests EXCEPT ![x] = Tail(@)]
    PROVE  /\ requests' \in [Exchange -> Seq(Message)]
           /\ Head(requests[x]) \in Message /\ Channel(x) = {Head(requests[x])} \cup Channel(x)'
           /\ Len(requests[x]) \in Nat \ {0} /\ Len(requests'[x]) = Len(requests[x]) - 1
           /\ Head(requests[x]) = requests[x][1]
           /\ \A i \in 1..Len(requests'[x]) :
                 i + 1 \in 1..Len(requests[x]) /\ requests'[x][i] = requests[x][i + 1]
           /\ \A y \in Exchange \ {x} : requests'[y] = requests[y] /\ Channel(y)' = Channel(y)
<1>1. requests \in [Exchange -> Seq(Message)]
  BY DEF ShutdownInv, ShutdownTypeOK, Message
<1>2. /\ Head(requests[x]) \in Message /\ Tail(requests[x]) \in Seq(Message)
      /\ Len(requests[x]) \in Nat \ {0} /\ Len(Tail(requests[x])) = Len(requests[x]) - 1
      /\ Head(requests[x]) = requests[x][1]
      /\ \A i \in 1..Len(Tail(requests[x])) : Tail(requests[x])[i] = requests[x][i + 1]
      /\ ToSet(requests[x]) = {Head(requests[x])} \cup ToSet(Tail(requests[x]))
  BY <1>1, Taking
<1>3. requests'[x] = Tail(requests[x]) /\ \A y \in Exchange \ {x} : requests'[y] = requests[y]
  BY <1>1
<1>4. \A i \in 1..(Len(requests[x]) - 1) : i + 1 \in 1..Len(requests[x])
  BY <1>2
<1> QED
  BY <1>1, <1>2, <1>3, <1>4 DEF Channel

\* What stays true of the channels when a message is taken, but for the managers' state.
LEMMA TakingKeeps ==
    ASSUME ShutdownInv, NEW x \in Exchange, requests[x] # <<>>,
           requests' = [requests EXCEPT ![x] = Tail(@)], engine' = engine,
           \A y \in Exchange : manager'[y].draining = manager[y].draining
    PROVE  Asked' /\ DrainIsBehind'
<1>1. Asked'
  <2>1. Channel(x) = {Head(requests[x])} \cup Channel(x)'
    BY TakingMessage
  <2>2. \A y \in Exchange \ {x} : Channel(y)' = Channel(y)
    BY TakingMessage
  <2>3. \A y \in Exchange : Channel(y)' \subseteq Channel(y)
    BY <2>1, <2>2
  <2>4. Asked
    BY DEF ShutdownInv
  <2> QED
    BY <2>3, <2>4 DEF Asked, HasEnded
<1>2. ASSUME NEW y \in Exchange, NEW j \in 1..Len(requests'[y]), NEW r \in engine.owed,
             requests'[y][j] = Of(r, "request")
      PROVE  ~manager[y].draining /\ \A i \in 1..j : requests'[y][i] # Plain("drain")
  <2>1. CASE y = x
    <3>1. j + 1 \in 1..Len(requests[x]) /\ requests[x][j + 1] = Of(r, "request")
      BY <1>2, <2>1, TakingMessage
    <3>2. ~manager[x].draining /\ \A i \in 1..(j + 1) : requests[x][i] # Plain("drain")
      BY <3>1 DEF ShutdownInv, DrainIsBehind
    <3>3. \A i \in 1..j : i + 1 \in 1..(j + 1) /\ i \in 1..Len(requests'[x])
      BY <2>1, TakingMessage
    <3> QED
      BY <2>1, <3>2, <3>3, TakingMessage
  <2>2. CASE y # x
    BY <1>2, <2>2, TakingMessage DEF ShutdownInv, DrainIsBehind
  <2> QED
    BY <2>1, <2>2
<1> QED
  BY <1>1, <1>2 DEF DrainIsBehind

\* A request is still there at most once.
LEMMA TakenOnce ==
    ASSUME ShutdownInv, NEW x \in Exchange, requests[x] # <<>>,
           requests' = [requests EXCEPT ![x] = Tail(@)], NEW r \in Request
    PROVE  /\ \A y \in Exchange : \A i, j \in 1..Len(requests'[y]) :
                 requests'[y][i] = Of(r, "request") /\ requests'[y][j] = Of(r, "request") => i = j
           /\ Head(requests[x]) = Of(r, "request") => Of(r, "request") \notin Channel(x)'
<1>1. ASSUME NEW y \in Exchange, NEW i \in 1..Len(requests'[y]), NEW j \in 1..Len(requests'[y]),
             requests'[y][i] = Of(r, "request"), requests'[y][j] = Of(r, "request")
      PROVE  i = j
  <2>1. CASE y = x
    <3>1. /\ i + 1 \in 1..Len(requests[x]) /\ requests[x][i + 1] = Of(r, "request")
          /\ j + 1 \in 1..Len(requests[x]) /\ requests[x][j + 1] = Of(r, "request")
      BY <1>1, <2>1, TakingMessage
    <3>2. i + 1 = j + 1
      BY <3>1 DEF ShutdownInv, SentOnce
    <3> QED
      BY <3>2
  <2>2. CASE y # x
    BY <1>1, <2>2, TakingMessage DEF ShutdownInv, SentOnce
  <2> QED
    BY <2>1, <2>2
<1>2. ASSUME Head(requests[x]) = Of(r, "request"), Of(r, "request") \in Channel(x)'
      PROVE  FALSE
  <2>1. requests'[x] \in Seq(Message)
    BY TakingMessage
  <2>2. PICK i \in 1..Len(requests'[x]) : requests'[x][i] = Of(r, "request")
    BY <1>2, <2>1 DEF Channel, ToSet
  <2>3. i + 1 \in 1..Len(requests[x]) /\ requests[x][i + 1] = Of(r, "request")
    BY <2>2, TakingMessage
  <2>4. 1 \in 1..Len(requests[x]) /\ requests[x][1] = Of(r, "request")
    BY <1>2, TakingMessage
  <2>5. i + 1 = 1
    BY <2>3, <2>4 DEF ShutdownInv, SentOnce
  <2> QED
    BY <2>5
<1> QED
  BY <1>1, <1>2

\* The drain, which nobody waits behind.
LEMMA TakeDrain ==
    ASSUME ShutdownInv, NEW x \in Exchange, Up(x), requests[x] # <<>>, Head(requests[x]).kind = "drain",
           requests' = [requests EXCEPT ![x] = Tail(@)],
           manager' = [manager EXCEPT ![x].draining = TRUE],
           UNCHANGED <<engine, venue, accounts, outs, recovering, feeding, stopping>>
    PROVE  ShutdownInv'
<1>1. /\ engine' = engine /\ outs' = outs /\ venue' = venue /\ breaks' = breaks
      /\ emitted' = emitted /\ missed' = missed /\ reopening' = reopening /\ feed' = feed /\ senders' = senders
      /\ market' = market /\ caller' = caller /\ severed' = severed /\ accounts' = accounts
  BY DEF feeding, recovering, stopping
<1>2. Head(requests[x]) = Plain("drain") /\ ShutdownTypeOK
  BY TakingMessage, Messages DEF ShutdownInv
<1>3. /\ manager' \in [Exchange -> [up : BOOLEAN, draining : BOOLEAN,
                                    inFlight : SUBSET Request, lookups : SUBSET (Request \ Cancel)]]
      /\ manager'[x].up /\ manager'[x].draining /\ manager'[x].inFlight = manager[x].inFlight
      /\ manager'[x].lookups = manager[x].lookups
      /\ \A y \in Exchange \ {x} : manager'[y] = manager[y]
  <2>1. PICK m : m = [manager[x] EXCEPT !.draining = TRUE]
    OBVIOUS
  <2>2. /\ manager[x] \in [up : BOOLEAN, draining : BOOLEAN,
                          inFlight : SUBSET Request, lookups : SUBSET (Request \ Cancel)]
        /\ manager[x].up
    BY <1>2, ManagerType DEF Up
  <2>3. /\ m \in [up : BOOLEAN, draining : BOOLEAN,
                       inFlight : SUBSET Request, lookups : SUBSET (Request \ Cancel)]
        /\ m.up /\ m.draining /\ m.inFlight = manager[x].inFlight /\ m.lookups = manager[x].lookups
    BY <2>1, <2>2
  <2>4. manager' = [manager EXCEPT ![x] = m]
    BY <2>1
  <2>5. manager \in [Exchange -> [up : BOOLEAN, draining : BOOLEAN,
                                 inFlight : SUBSET Request, lookups : SUBSET (Request \ Cancel)]]
    BY <1>2 DEF ShutdownTypeOK
  <2>6. manager'[x] = m /\ \A y \in Exchange \ {x} : manager'[y] = manager[y]
    BY <2>4, <2>5
  <2>7. manager' \in [Exchange -> [up : BOOLEAN, draining : BOOLEAN,
                                  inFlight : SUBSET Request, lookups : SUBSET (Request \ Cancel)]]
    BY <2>3, <2>4, <2>5
  <2> QED
    BY <2>3, <2>6, <2>7
<1>4. ShutdownTypeOK'
  <2>1. requests' \in [Exchange -> Seq({Plain("drain"), Plain("shutdown")}
                                       \cup {Of(r, "request") : r \in Request})]
    BY TakingMessage DEF Message
  <2>2. manager' \in [Exchange -> [up : BOOLEAN, draining : BOOLEAN,
                                  inFlight : SUBSET Request, lookups : SUBSET (Request \ Cancel)]]
    BY <1>3
  <2> QED
    BY <1>1, <1>2, <2>1, <2>2 DEF ShutdownTypeOK
<1>5. /\ Plain("drain") \in Channel(x) /\ \A y \in Exchange : Channel(y)' \subseteq Channel(y)
      /\ \A y \in Exchange, r \in Request :
            Of(r, "request") \in Channel(y) => Of(r, "request") \in Channel(y)'
  <2>1. /\ Channel(x) = {Plain("drain")} \cup Channel(x)'
        /\ \A y \in Exchange \ {x} : Channel(y)' = Channel(y)
    BY <1>2, TakingMessage
  <2>2. \A r \in Request : Of(r, "request") # Plain("drain")
    BY Messages
  <2> QED
    BY <2>1, <2>2
<1>6. Homes'
  BY <1>1, <1>3, <1>5, TakingMessage DEF ShutdownInv, Homes, Up
<1>7. Asked'
  BY <1>1, <1>3, <1>5 DEF ShutdownInv, Asked, HasEnded
<1>8. DrainIsBehind'
  <2> SUFFICES ASSUME NEW y \in Exchange, NEW j \in 1..Len(requests'[y]), NEW r \in engine.owed,
                      requests'[y][j] = Of(r, "request")
               PROVE  ~manager'[y].draining /\ \A i \in 1..j : requests'[y][i] # Plain("drain")
    BY <1>1 DEF DrainIsBehind
  <2>1. CASE y = x
    <3>1. j + 1 \in 1..Len(requests[x]) /\ requests[x][j + 1] = Of(r, "request")
      BY <2>1, TakingMessage
    <3>2. 1 \in 1..(j + 1)
      BY <3>1
    <3>3. requests[x][1] # Plain("drain")
      BY <3>1, <3>2 DEF ShutdownInv, DrainIsBehind
    <3> QED
      BY <1>2, <3>3, TakingMessage
  <2>2. CASE y # x
    BY <1>3, <2>2, TakingMessage DEF ShutdownInv, DrainIsBehind
  <2> QED
    BY <2>1, <2>2
<1>9. SentOnce'
  BY <1>1, <1>5, TakenOnce DEF ShutdownInv, SentOnce
<1>10. (Whole' <=> Whole) /\ OnTheWay' = OnTheWay /\ (HasEnded' <=> HasEnded)
       /\ \A y \in Exchange : Up(y)' <=> Up(y)
  BY <1>1, <1>3 DEF Whole, OnTheWay, HasEnded, Up
<1>11. FeedsEndLast' /\ AnswersAreGiven' /\ TradesAreKept' /\ NoticesAreKept'
       /\ AccountsAreOfTheVenue'
  <2>1. FeedsEndLast' /\ AccountsAreOfTheVenue'
    BY <1>1, <1>10 DEF ShutdownInv, FeedsEndLast, AccountsAreOfTheVenue
  <2>2. AnswersAreGiven'
    BY <1>1, <1>10 DEF ShutdownInv, AnswersAreGiven, IsAnswered
  <2>3. TradesAreKept'
    BY <1>1, <1>10, RequestAssumption DEF ShutdownInv, TradesAreKept, IsAnswered
  <2>4. NoticesAreKept'
    BY <1>1, <1>10 DEF ShutdownInv, NoticesAreKept
  <2> QED
    BY <2>1, <2>2, <2>3, <2>4
<1>12. OwedIsAccounted'
  <2> SUFFICES ASSUME Whole', NEW r \in engine'.owed
               PROVE  \/ \E y \in Exchange : Of(r, "request") \in Channel(y)' \/ r \in manager'[y].inFlight
                      \/ \E kind \in Answers : Of(r, kind) \in OnTheWay'
    BY DEF OwedIsAccounted
  <2>1. r \in engine.owed /\ r \in Request
    BY <1>1, <1>2 DEF ShutdownTypeOK
  <2>2. \/ \E y \in Exchange : Of(r, "request") \in Channel(y) \/ r \in manager[y].inFlight
        \/ \E kind \in Answers : Of(r, kind) \in OnTheWay
    BY <1>10, <2>1 DEF ShutdownInv, OwedIsAccounted
  <2> QED
    BY <1>3, <1>5, <1>10, <2>1, <2>2
<1> QED
  BY <1>4, <1>6, <1>7, <1>8, <1>9, <1>11, <1>12 DEF ShutdownInv

\* A request, which is then in flight.
LEMMA TakeOne ==
    ASSUME ShutdownInv, NEW x \in Exchange, Up(x), requests[x] # <<>>, NEW r \in Request,
           Head(requests[x]) = Of(r, "request"),
           requests' = [requests EXCEPT ![x] = Tail(@)],
           manager' = [manager EXCEPT ![x].inFlight = @ \cup {r}],
           venue' = [venue EXCEPT ![r] = "unsent"],
           UNCHANGED <<engine, accounts, outs, recovering, feeding, stopping>>
    PROVE  ShutdownInv'
<1>1. /\ engine' = engine /\ outs' = outs /\ breaks' = breaks
      /\ emitted' = emitted /\ missed' = missed /\ reopening' = reopening /\ feed' = feed /\ senders' = senders
      /\ market' = market /\ caller' = caller /\ severed' = severed /\ accounts' = accounts
  BY DEF feeding, recovering, stopping
<1>2. ShutdownTypeOK
  BY DEF ShutdownInv
<1>3. /\ manager' \in [Exchange -> [up : BOOLEAN, draining : BOOLEAN,
                                    inFlight : SUBSET Request, lookups : SUBSET (Request \ Cancel)]]
      /\ manager'[x].up /\ manager'[x].draining = manager[x].draining
      /\ manager'[x].inFlight = manager[x].inFlight \cup {r}
      /\ manager'[x].lookups = manager[x].lookups
      /\ \A y \in Exchange \ {x} : manager'[y] = manager[y]
  <2>1. PICK m : m = [manager[x] EXCEPT !.inFlight = manager[x].inFlight \cup {r}]
    OBVIOUS
  <2>2. /\ manager[x] \in [up : BOOLEAN, draining : BOOLEAN,
                          inFlight : SUBSET Request, lookups : SUBSET (Request \ Cancel)]
        /\ manager[x].up
    BY <1>2, ManagerType DEF Up
  <2>3. /\ m \in [up : BOOLEAN, draining : BOOLEAN,
                       inFlight : SUBSET Request, lookups : SUBSET (Request \ Cancel)]
        /\ m.up /\ m.draining = manager[x].draining
          /\ m.inFlight = manager[x].inFlight \cup {r} /\ m.lookups = manager[x].lookups
    BY <2>1, <2>2
  <2>4. manager' = [manager EXCEPT ![x] = m]
    BY <2>1
  <2>5. manager \in [Exchange -> [up : BOOLEAN, draining : BOOLEAN,
                                 inFlight : SUBSET Request, lookups : SUBSET (Request \ Cancel)]]
    BY <1>2 DEF ShutdownTypeOK
  <2>6. manager'[x] = m /\ \A y \in Exchange \ {x} : manager'[y] = manager[y]
    BY <2>4, <2>5
  <2>7. manager' \in [Exchange -> [up : BOOLEAN, draining : BOOLEAN,
                                  inFlight : SUBSET Request, lookups : SUBSET (Request \ Cancel)]]
    BY <2>3, <2>4, <2>5
  <2> QED
    BY <2>3, <2>6, <2>7
<1>4. /\ venue' \in [Request -> {"none", "unsent", "booked", "emitted", "answered"}]
      /\ venue'[r] = "unsent" /\ \A q \in Request \ {r} : venue'[q] = venue[q]
  BY <1>2 DEF ShutdownTypeOK
<1>5. ShutdownTypeOK'
  <2>1. requests' \in [Exchange -> Seq({Plain("drain"), Plain("shutdown")}
                                       \cup {Of(q, "request") : q \in Request})]
    BY TakingMessage DEF Message
  <2>2. /\ feed' \in Seq(EventType) /\ senders' \subseteq {"market", "account", "caller"}
        /\ market' \in Nat /\ breaks' \in Nat
        /\ engine' \in [draining : BOOLEAN, ended : {"no", "immediate", "feedEnded"},
                        seen : SUBSET EventType, sent : SUBSET Request, owed : SUBSET Request]
        /\ outs' \in [Exchange -> Seq(EventType)] /\ accounts' \in [Exchange -> Seq(EventType)]
        /\ emitted' \subseteq EventType /\ reopening' \subseteq Exchange
        /\ missed' \in [Exchange -> SUBSET EventType]
        /\ caller' \in [how : {"shutdown", "abort", "afterBacktest"},
                        at : {"running", "account", "engine", "execution", "returned"}]
        /\ severed' \in BOOLEAN
    BY <1>1, <1>2 DEF ShutdownTypeOK
  <2> QED
    BY <1>3, <1>4, <2>1, <2>2 DEF ShutdownTypeOK
<1>6. /\ Of(r, "request") \in Channel(x) /\ Of(r, "request") \notin Channel(x)'
      /\ \A y \in Exchange : Channel(y)' \subseteq Channel(y)
      /\ \A y \in Exchange, q \in Request \ {r} :
            Of(q, "request") \in Channel(y) => Of(q, "request") \in Channel(y)'
  <2>1. /\ Channel(x) = {Of(r, "request")} \cup Channel(x)'
        /\ \A y \in Exchange \ {x} : Channel(y)' = Channel(y)
    BY TakingMessage
  <2>2. \A q \in Request \ {r} : Of(q, "request") # Of(r, "request")
    BY Messages
  <2>3. Of(r, "request") \notin Channel(x)'
    BY TakenOnce
  <2> QED
    BY <2>1, <2>2, <2>3
<1>7. ExchangeOf[r] = x /\ r \in engine.sent /\ venue[r] = "none"
  BY <1>6 DEF ShutdownInv, Homes, SentOnce
<1>8. Homes'
  BY <1>1, <1>3, <1>6, <1>7, TakingMessage DEF ShutdownInv, Homes, Up
<1>9. Asked' /\ DrainIsBehind'
  <2>1. \A y \in Exchange : manager'[y].draining = manager[y].draining
    BY <1>3
  <2> QED
    BY <1>1, <2>1, TakingKeeps
<1>10. SentOnce'
  <2> SUFFICES ASSUME NEW q \in Request
               PROVE  /\ q \notin engine'.sent => venue'[q] = "none"
                      /\ \A y \in Exchange : Of(q, "request") \in Channel(y)'
                                              => q \in engine'.sent /\ venue'[q] = "none"
    BY TakenOnce DEF SentOnce
  <2>1. CASE q = r
    BY <1>1, <1>6, <1>7, <2>1 DEF ShutdownInv, Homes
  <2>2. CASE q # r
    BY <1>1, <1>4, <1>6, <2>2 DEF ShutdownInv, SentOnce
  <2> QED
    BY <2>1, <2>2
<1>11. (Whole' <=> Whole) /\ OnTheWay' = OnTheWay /\ (HasEnded' <=> HasEnded)
       /\ \A y \in Exchange : Up(y)' <=> Up(y)
  BY <1>1, <1>3 DEF Whole, OnTheWay, HasEnded, Up
<1>12. FeedsEndLast' /\ AnswersAreGiven' /\ TradesAreKept' /\ NoticesAreKept'
       /\ AccountsAreOfTheVenue'
  <2>1. FeedsEndLast' /\ AccountsAreOfTheVenue'
    BY <1>1, <1>11 DEF ShutdownInv, FeedsEndLast, AccountsAreOfTheVenue
  <2>2. AnswersAreGiven'
    BY <1>4, <1>7, <1>11 DEF ShutdownInv, AnswersAreGiven, IsAnswered
  <2>3. TradesAreKept'
    BY <1>1, <1>11, RequestAssumption DEF ShutdownInv, TradesAreKept, IsAnswered
  <2>4. NoticesAreKept'
    BY <1>1, <1>11 DEF ShutdownInv, NoticesAreKept
  <2> QED
    BY <2>1, <2>2, <2>3, <2>4
<1>13. OwedIsAccounted'
  <2> SUFFICES ASSUME Whole', NEW q \in engine'.owed
               PROVE  \/ \E y \in Exchange : Of(q, "request") \in Channel(y)' \/ q \in manager'[y].inFlight
                      \/ \E kind \in Answers : Of(q, kind) \in OnTheWay'
    BY DEF OwedIsAccounted
  <2>1. q \in engine.owed /\ q \in Request
    BY <1>1, <1>2 DEF ShutdownTypeOK
  <2>2. \/ \E y \in Exchange : Of(q, "request") \in Channel(y) \/ q \in manager[y].inFlight
        \/ \E kind \in Answers : Of(q, kind) \in OnTheWay
    BY <1>11, <2>1 DEF ShutdownInv, OwedIsAccounted
  <2> QED
    BY <1>3, <1>6, <1>11, <2>1, <2>2
<1> QED
  BY <1>5, <1>8, <1>9, <1>10, <1>12, <1>13 DEF ShutdownInv

LEMMA TakeRequestKeeps ==
    ASSUME ShutdownInv, NEW x \in Exchange, TakeRequest(x)
    PROVE  ShutdownInv'
<1>1. /\ Up(x) /\ requests[x] # <<>>
      /\ engine' = engine /\ outs' = outs /\ recovering' = recovering
      /\ feeding' = feeding /\ stopping' = stopping
  BY DEF TakeRequest
<1>2. CASE Head(requests[x]).kind = "shutdown" /\ Stop(x) /\ venue' = venue
  <2>1. requests[x] \in Seq(Message)
    BY DEF ShutdownInv, ShutdownTypeOK, Message
  <2>2. Head(requests[x]) \in Message /\ Head(requests[x]) \in Channel(x)
    BY <1>1, <2>1, Taking DEF Channel
  <2>3. HasEnded
    BY <1>2, <2>2, Messages DEF ShutdownInv, Asked
  <2>4. ~Whole
    BY <1>1, <2>3 DEF ShutdownInv, FeedsEndLast
  <2> QED
    BY <1>1, <1>2, <2>4, StopShort
<1>3. CASE /\ Head(requests[x]).kind = "drain"
           /\ manager' = [manager EXCEPT ![x].draining = TRUE]
           /\ requests' = [requests EXCEPT ![x] = Tail(@)]
           /\ venue' = venue /\ accounts' = accounts
  BY <1>1, <1>3, TakeDrain
<1>4. CASE /\ Head(requests[x]).kind = "request"
           /\ manager' = [manager EXCEPT ![x].inFlight = @ \cup {Head(requests[x]).request}]
           /\ venue' = [venue EXCEPT ![Head(requests[x]).request] = "unsent"]
           /\ requests' = [requests EXCEPT ![x] = Tail(@)]
           /\ accounts' = accounts
  <2>1. PICK r \in Request : r = Head(requests[x]).request /\ Head(requests[x]) = Of(r, "request")
    BY <1>1, <1>4, TakingMessage, Messages
  <2> QED
    BY <1>1, <1>4, <2>1, TakeOne
<1> QED
  BY <1>2, <1>3, <1>4 DEF TakeRequest

LEMMA AwaitEngineKeeps == ASSUME ShutdownInv, AwaitEngine PROVE ShutdownInv'
<1>1. /\ feed' = feed /\ market' = market /\ engine' = engine /\ venue' = venue
      /\ breaks' = breaks /\ emitted' = emitted /\ missed' = missed /\ reopening' = reopening
      /\ caller' = [caller EXCEPT !.at = "execution"]
      /\ IF caller.how = "afterBacktest" THEN UNCHANGED <<senders, severed, outs>>
         ELSE Sever({"market", "account"})
      /\ IF caller.how = "abort"
         THEN /\ manager' = [x \in Exchange |-> Down]
              /\ requests' = [x \in Exchange |-> <<>>]
              /\ accounts' = [x \in Exchange |-> <<>>]
         ELSE UNCHANGED <<requests, manager, accounts>>
  BY DEF AwaitEngine, recovering
<1>2. /\ ShutdownTypeOK /\ AccountsAreOfTheVenue
      /\ caller' \in [how : {"shutdown", "abort", "afterBacktest"},
                      at : {"running", "account", "engine", "execution", "returned"}]
  BY <1>1 DEF ShutdownInv, ShutdownTypeOK
<1>3. /\ Homes' /\ Asked' /\ DrainIsBehind' /\ SentOnce'
  BY <1>1, GoingDown
<1>4. /\ manager' \in [Exchange -> [up : BOOLEAN, draining : BOOLEAN,
                                    inFlight : SUBSET Request, lookups : SUBSET (Request \ Cancel)]]
      /\ requests' \in [Exchange -> Seq({Plain("drain"), Plain("shutdown")}
                                        \cup {Of(r, "request") : r \in Request})]
      /\ accounts' \in [Exchange -> Seq(EventType)] /\ AccountsAreOfTheVenue'
  <2>1. CASE caller.how = "abort"
    <3>1. /\ Down \in [up : BOOLEAN, draining : BOOLEAN,
                      inFlight : SUBSET Request, lookups : SUBSET (Request \ Cancel)]
          /\ \A S : <<>> \in Seq(S)
      BY DEF Down
    <3>2. /\ manager' = [x \in Exchange |-> Down] /\ requests' = [x \in Exchange |-> <<>>]
          /\ accounts' = [x \in Exchange |-> <<>>]
      BY <1>1, <2>1
    <3>3. AccountsAreOfTheVenue'
      BY <1>1, <1>2, <3>1, <3>2 DEF AccountsAreOfTheVenue
    <3> QED
      BY <3>1, <3>2, <3>3
  <2>2. CASE caller.how # "abort"
    BY <1>1, <1>2, <2>2 DEF ShutdownTypeOK, AccountsAreOfTheVenue
  <2> QED
    BY <2>1, <2>2
<1>5. CASE caller.how = "afterBacktest"
  <2>1. /\ senders' = senders /\ severed' = severed /\ outs' = outs /\ requests' = requests
        /\ manager' = manager /\ accounts' = accounts
    BY <1>1, <1>5
  <2>2. ShutdownTypeOK'
    BY <1>1, <1>2, <1>4, <2>1 DEF ShutdownTypeOK
  <2>3. OnTheWay' = OnTheWay /\ (Whole' <=> Whole) /\ (HasEnded' <=> HasEnded)
    BY <1>1, <2>1 DEF OnTheWay, Whole, HasEnded
  <2>4. FeedsEndLast'
    BY <1>1, <2>1, <2>3 DEF ShutdownInv, FeedsEndLast, Up
  <2> QED
    BY <1>1, <2>1, <2>2, <2>3, <2>4, ManagersIdle
<1>6. CASE caller.how # "afterBacktest"
  <2>1. /\ outs' \in [Exchange -> Seq(EventType)]
        /\ senders' \subseteq {"market", "account", "caller"} /\ severed' = TRUE
        /\ OnTheWay' \subseteq OnTheWay /\ ~Whole'
    BY <1>1, <1>2, <1>6, Severing
  <2>2. ShutdownTypeOK'
    BY <1>1, <1>2, <1>4, <2>1 DEF ShutdownTypeOK
  <2>3. FeedsEndLast' /\ OwedIsAccounted' /\ TradesAreKept' /\ NoticesAreKept'
    BY <2>1 DEF FeedsEndLast, OwedIsAccounted, TradesAreKept, NoticesAreKept
  <2>4. AnswersAreGiven'
    BY <1>1, <2>1 DEF ShutdownInv, AnswersAreGiven, IsAnswered
  <2> QED
    BY <1>3, <1>4, <2>2, <2>3, <2>4 DEF ShutdownInv
<1> QED
  BY <1>5, <1>6

-----------------------------------------------------------------------------
(* The engine.                                                             *)

\* A message for every manager that is up.
LEMMA Telling ==
    ASSUME ShutdownInv, NEW message \in {Plain("drain"), Plain("shutdown")},
           requests' = ToManagers(message),
           UNCHANGED <<manager, venue, accounts>>,
           engine'.owed = engine.owed, engine'.sent = engine.sent,
           engine.draining => engine'.draining, HasEnded => HasEnded',
           message = Plain("drain") => engine'.draining,
           message = Plain("shutdown") => HasEnded'
    PROVE  /\ Homes' /\ Asked' /\ DrainIsBehind' /\ SentOnce'
           /\ requests' \in [Exchange -> Seq(Message)]
           /\ \A x \in Exchange : Channel(x) \subseteq Channel(x)'
<1>1. requests \in [Exchange -> Seq(Message)] /\ message \in Message
  BY DEF ShutdownInv, ShutdownTypeOK, Message
<1>2. /\ manager' = manager /\ venue' = venue /\ accounts' = accounts
      /\ \A x \in Exchange : Up(x)' <=> Up(x)
  BY DEF Up
<1>3. \A x \in Exchange :
          /\ Up(x) => requests'[x] = Append(requests[x], message)
          /\ ~Up(x) => requests'[x] = requests[x]
  BY DEF ToManagers, Up
<1>4. requests' \in [Exchange -> Seq(Message)]
  BY <1>1 DEF ToManagers
<1>5. ASSUME NEW x \in Exchange
      PROVE  /\ Channel(x) \subseteq Channel(x)' /\ Channel(x)' \subseteq Channel(x) \cup {message}
             /\ \A i \in 1..Len(requests[x]) : requests'[x][i] = requests[x][i]
             /\ \A i \in 1..Len(requests'[x]) : i \in 1..Len(requests[x]) \/ requests'[x][i] = message
  <2>1. CASE Up(x)
    <3>1. ToSet(Append(requests[x], message)) = ToSet(requests[x]) \cup {message}
      BY <1>1, Appending
    <3>2. requests[x] \in Seq(Message) /\ requests'[x] = Append(requests[x], message)
      BY <1>1, <1>3, <2>1
    <3>3. /\ \A i \in 1..Len(requests[x]) : requests'[x][i] = requests[x][i]
          /\ \A i \in 1..Len(requests'[x]) : i \in 1..Len(requests[x]) \/ requests'[x][i] = message
      BY <3>2
    <3> QED
      BY <3>1, <3>2, <3>3 DEF Channel
  <2>2. CASE ~Up(x)
    BY <1>3, <2>2 DEF Channel
  <2> QED
    BY <2>1, <2>2
<1>6. \A r \in Request : Of(r, "request") # message
  BY Messages
<1>7. Homes'
  BY <1>2, <1>3, <1>5, <1>6 DEF ShutdownInv, Homes
<1>8. Asked'
  <2>1. Plain("drain") # Plain("shutdown")
    BY DEF Plain
  <2> QED
    BY <1>2, <1>5, <2>1 DEF ShutdownInv, Asked
<1>9. DrainIsBehind'
  <2> SUFFICES ASSUME NEW x \in Exchange, NEW j \in 1..Len(requests'[x]), NEW r \in engine.owed,
                      requests'[x][j] = Of(r, "request")
               PROVE  ~manager[x].draining /\ \A i \in 1..j : requests'[x][i] # Plain("drain")
    BY <1>2 DEF DrainIsBehind
  <2>1. r \in Request
    BY DEF ShutdownInv, ShutdownTypeOK
  <2>2. j \in 1..Len(requests[x]) /\ requests[x][j] = Of(r, "request")
    BY <1>5, <1>6, <2>1
  <2>3. ~manager[x].draining /\ \A i \in 1..j : requests[x][i] # Plain("drain")
    BY <2>2 DEF ShutdownInv, DrainIsBehind
  <2>4. \A i \in 1..j : i \in 1..Len(requests[x])
    BY <2>2
  <2> QED
    BY <1>5, <2>3, <2>4
<1>10. SentOnce'
  <2> SUFFICES ASSUME NEW r \in Request
               PROVE  /\ r \notin engine'.sent => venue'[r] = "none"
                      /\ \A x \in Exchange :
                          /\ Of(r, "request") \in Channel(x)' => r \in engine'.sent /\ venue'[r] = "none"
                          /\ \A i, j \in 1..Len(requests'[x]) :
                                requests'[x][i] = Of(r, "request") /\ requests'[x][j] = Of(r, "request")
                                    => i = j
    BY DEF SentOnce
  <2>1. \A x \in Exchange : \A i \in 1..Len(requests'[x]) :
            requests'[x][i] = Of(r, "request")
                => i \in 1..Len(requests[x]) /\ requests[x][i] = Of(r, "request")
    BY <1>5, <1>6
  <2> QED
    BY <1>2, <1>5, <1>6, <2>1 DEF ShutdownInv, SentOnce
<1> QED
  BY <1>4, <1>5, <1>7, <1>8, <1>9, <1>10

\* An event that the engine takes and sends nothing for.
LEMMA Seeing ==
    ASSUME ShutdownTypeOK, feed # <<>>, feed' = Tail(feed), outs' = outs,
           engine'.seen = engine.seen \cup (IF IsReport(Head(feed)) THEN {Head(feed)} ELSE {})
    PROVE  /\ feed' \in Seq(EventType) /\ engine'.seen \subseteq EventType
           /\ OnTheWay' \subseteq OnTheWay
           /\ \A e \in EventType : IsReport(e) /\ e \in OnTheWay => e \in OnTheWay'
<1>1. /\ feed \in Seq(EventType) /\ engine.seen \subseteq EventType
  BY DEF ShutdownTypeOK
<1>2. /\ Head(feed) \in EventType /\ Tail(feed) \in Seq(EventType)
      /\ ToSet(feed) = {Head(feed)} \cup ToSet(Tail(feed))
  BY <1>1, Taking
<1> QED
  BY <1>1, <1>2 DEF OnTheWay

\* The engine's end, told to every manager.
LEMMA Ending ==
    ASSUME ShutdownInv, NEW how \in {"immediate", "feedEnded"}, ~HasEnded, End(how),
           UNCHANGED <<senders, market, manager, outs, venues, stopping>>,
           feed' = <<>>,
           how = "feedEnded" => feed = <<>> /\ senders = {}
    PROVE  ShutdownInv'
<1>1. /\ senders' = senders /\ market' = market /\ manager' = manager /\ outs' = outs
      /\ venue' = venue /\ accounts' = accounts /\ breaks' = breaks /\ emitted' = emitted
      /\ missed' = missed /\ reopening' = reopening /\ caller' = caller /\ severed' = severed
      /\ engine' = [engine EXCEPT !.ended = how] /\ requests' = ToManagers(Plain("shutdown"))
  BY DEF venues, recovering, stopping, End
<1>2. ShutdownTypeOK
  BY DEF ShutdownInv
<1>3. /\ engine' \in [draining : BOOLEAN, ended : {"no", "immediate", "feedEnded"},
                        seen : SUBSET EventType, sent : SUBSET Request, owed : SUBSET Request]
      /\ engine'.ended = how /\ engine'.seen = engine.seen /\ engine'.sent = engine.sent
      /\ engine'.owed = engine.owed /\ engine'.draining = engine.draining
  BY <1>1, <1>2 DEF ShutdownTypeOK
<1>4. HasEnded' /\ Plain("shutdown") # Plain("drain")
  BY <1>3 DEF HasEnded, Plain
<1>5. /\ Homes' /\ Asked' /\ DrainIsBehind' /\ SentOnce'
      /\ requests' \in [Exchange -> Seq(Message)]
      /\ \A x \in Exchange : Channel(x) \subseteq Channel(x)'
  BY <1>1, <1>3, <1>4, Telling
<1>6. ShutdownTypeOK'
  <2>1. feed' \in Seq(EventType)
    OBVIOUS
  <2> QED
    BY <1>1, <1>2, <1>3, <1>5, <2>1 DEF ShutdownTypeOK, Message
<1>7. OnTheWay' \subseteq OnTheWay /\ (Whole' => Whole /\ how = "feedEnded" /\ OnTheWay' = OnTheWay)
  <2>1. ToSet(<<>>) = {}
    BY Few
  <2>2. Whole' => Whole /\ how = "feedEnded"
    BY <1>1, <1>3 DEF Whole, HasEnded
  <2> QED
    BY <1>1, <1>3, <2>1, <2>2 DEF OnTheWay
<1>8. FeedsEndLast'
  BY <1>1, <1>7 DEF ShutdownInv, FeedsEndLast, Up
<1>9. OwedIsAccounted'
  BY <1>1, <1>3, <1>5, <1>7 DEF ShutdownInv, OwedIsAccounted
<1>10. AnswersAreGiven' /\ AccountsAreOfTheVenue'
  BY <1>1, <1>7 DEF ShutdownInv, AnswersAreGiven, IsAnswered, AccountsAreOfTheVenue
<1>11. TradesAreKept' /\ NoticesAreKept'
  BY <1>1, <1>7 DEF ShutdownInv, TradesAreKept, NoticesAreKept, IsAnswered, Up
<1> QED
  BY <1>5, <1>6, <1>8, <1>9, <1>10, <1>11 DEF ShutdownInv

LEMMA FeedEndedKeeps == ASSUME ShutdownInv, FeedEnded PROVE ShutdownInv'
<1>1. /\ ~HasEnded /\ feed = <<>> /\ senders = {} /\ End("feedEnded")
      /\ UNCHANGED <<senders, market, manager, outs, venues, stopping>> /\ feed' = feed
  BY DEF FeedEnded, feeding
<1> QED
  BY <1>1, Ending

\* The drain, told to every manager.
LEMMA Draining ==
    ASSUME ShutdownInv, ~HasEnded, feed # <<>>, Head(feed).kind = "drain", StartDraining,
           feed' = Tail(feed),
           UNCHANGED <<senders, market, manager, outs, venues, stopping>>
    PROVE  ShutdownInv'
<1>1. /\ senders' = senders /\ market' = market /\ manager' = manager /\ outs' = outs
      /\ venue' = venue /\ accounts' = accounts /\ breaks' = breaks /\ emitted' = emitted
      /\ missed' = missed /\ reopening' = reopening /\ caller' = caller /\ severed' = severed
      /\ engine' = [engine EXCEPT !.draining = TRUE] /\ requests' = ToManagers(Plain("drain"))
  BY DEF venues, recovering, stopping, StartDraining
<1>2. ShutdownTypeOK /\ ~IsReport(Head(feed))
  BY DEF ShutdownInv, IsReport, Answers
<1>3. /\ engine' \in [draining : BOOLEAN, ended : {"no", "immediate", "feedEnded"},
                        seen : SUBSET EventType, sent : SUBSET Request, owed : SUBSET Request]
      /\ engine'.ended = engine.ended /\ engine'.seen = engine.seen /\ engine'.sent = engine.sent
      /\ engine'.owed = engine.owed /\ engine'.draining
  BY <1>1, <1>2 DEF ShutdownTypeOK
<1>4. (HasEnded' <=> HasEnded) /\ Plain("drain") # Plain("shutdown") /\ (Whole' <=> Whole)
  BY <1>1, <1>3 DEF HasEnded, Plain, Whole
<1>5. /\ Homes' /\ Asked' /\ DrainIsBehind' /\ SentOnce'
      /\ requests' \in [Exchange -> Seq(Message)]
      /\ \A x \in Exchange : Channel(x) \subseteq Channel(x)'
  BY <1>1, <1>3, <1>4, Telling
<1>6. /\ feed' \in Seq(EventType) /\ OnTheWay' \subseteq OnTheWay
      /\ \A e \in EventType : IsReport(e) /\ e \in OnTheWay => e \in OnTheWay'
  BY <1>1, <1>2, <1>3, Seeing
<1>7. ShutdownTypeOK'
  BY <1>1, <1>2, <1>3, <1>5, <1>6 DEF ShutdownTypeOK, Message
<1>8. FeedsEndLast'
  BY <1>1, <1>4 DEF ShutdownInv, FeedsEndLast, Up
<1>9. /\ \A r \in Request, kind \in Answers \cup {"trade"} :
            Of(r, kind) \in OnTheWay <=> Of(r, kind) \in OnTheWay'
      /\ \A r \in Request : IsAnswered(r)' <=> IsAnswered(r)
  <2>1. \A r \in Request, kind \in Answers \cup {"trade"} :
            Of(r, kind) \in OnTheWay <=> Of(r, kind) \in OnTheWay'
    BY <1>6, Kinds
  <2> QED
    BY <2>1 DEF IsAnswered, Answers
<1>10. OwedIsAccounted'
  <2> SUFFICES ASSUME Whole', NEW r \in engine'.owed
               PROVE  \/ \E y \in Exchange : Of(r, "request") \in Channel(y)' \/ r \in manager'[y].inFlight
                      \/ \E kind \in Answers : Of(r, kind) \in OnTheWay'
    BY DEF OwedIsAccounted
  <2>1. r \in engine.owed /\ r \in Request
    BY <1>2, <1>3 DEF ShutdownTypeOK
  <2>2. \/ \E y \in Exchange : Of(r, "request") \in Channel(y) \/ r \in manager[y].inFlight
        \/ \E kind \in Answers : Of(r, kind) \in OnTheWay
    BY <1>4, <2>1 DEF ShutdownInv, OwedIsAccounted
  <2> QED
    BY <1>1, <1>5, <1>9, <2>1, <2>2
<1>11. AnswersAreGiven' /\ AccountsAreOfTheVenue'
  BY <1>1, <1>9 DEF ShutdownInv, AnswersAreGiven, AccountsAreOfTheVenue
<1>12. TradesAreKept'
  BY <1>1, <1>4, <1>9 DEF ShutdownInv, TradesAreKept, Up
<1>13. NoticesAreKept'
  <2>1. \A x \in Exchange : Reconnecting(x) \in OnTheWay => Reconnecting(x) \in OnTheWay'
    BY <1>6, Kinds
  <2> QED
    BY <1>1, <1>4, <2>1 DEF ShutdownInv, NoticesAreKept
<1> QED
  BY <1>5, <1>7, <1>8, <1>10, <1>11, <1>12, <1>13 DEF ShutdownInv

\* A request the engine sends as it processes an event.
LEMMA Sending ==
    ASSUME ShutdownInv, ~HasEnded, feed # <<>>, feed' = Tail(feed),
           NEW r \in MaySend(Head(feed)),
           engine' = [engine EXCEPT
               !.seen = engine.seen \cup (IF IsReport(Head(feed)) THEN {Head(feed)} ELSE {}),
               !.sent = @ \cup {r},
               !.owed = IF engine.draining THEN @ ELSE @ \cup {r}],
           requests' = [requests EXCEPT ![ExchangeOf[r]] = Append(@, Of(r, "request"))],
           UNCHANGED <<senders, market, manager, outs, venues, stopping>>
    PROVE  ShutdownInv'
<1>1. /\ senders' = senders /\ market' = market /\ manager' = manager /\ outs' = outs
      /\ venue' = venue /\ accounts' = accounts /\ breaks' = breaks /\ emitted' = emitted
      /\ missed' = missed /\ reopening' = reopening /\ caller' = caller /\ severed' = severed
  BY DEF venues, recovering, stopping
<1>2. PICK x \in Exchange : x = ExchangeOf[r]
  BY RequestAssumption DEF MaySend
<1>3. ShutdownTypeOK /\ r \in Request /\ r \notin engine.sent /\ Up(x)
  BY <1>2 DEF ShutdownInv, MaySend, Up
<1>4. /\ engine'.seen = engine.seen \cup (IF IsReport(Head(feed)) THEN {Head(feed)} ELSE {})
      /\ engine'.ended = engine.ended /\ engine'.draining = engine.draining
      /\ engine'.sent = engine.sent \cup {r}
      /\ engine'.owed \subseteq engine.owed \cup {r} /\ engine'.owed \subseteq Request
      /\ engine.draining => engine'.owed = engine.owed
      /\ engine' \in [draining : BOOLEAN, ended : {"no", "immediate", "feedEnded"},
                      seen : {engine'.seen}, sent : SUBSET Request, owed : SUBSET Request]
  BY <1>3 DEF ShutdownTypeOK
<1>5. /\ feed' \in Seq(EventType) /\ engine'.seen \subseteq EventType
      /\ OnTheWay' \subseteq OnTheWay
      /\ \A e \in EventType : IsReport(e) /\ e \in OnTheWay => e \in OnTheWay'
  BY <1>1, <1>3, <1>4, Seeing
<1>6. requests \in [Exchange -> Seq(Message)] /\ Of(r, "request") \in Message
  BY <1>3 DEF ShutdownTypeOK, Message
<1>7. /\ requests' \in [Exchange -> Seq(Message)]
      /\ requests'[x] = Append(requests[x], Of(r, "request"))
      /\ Channel(x)' = Channel(x) \cup {Of(r, "request")}
      /\ \A y \in Exchange \ {x} : requests'[y] = requests[y] /\ Channel(y)' = Channel(y)
  <2>1. /\ Append(requests[x], Of(r, "request")) \in Seq(Message)
        /\ ToSet(Append(requests[x], Of(r, "request"))) = ToSet(requests[x]) \cup {Of(r, "request")}
    BY <1>6, Appending
  <2> QED
    BY <1>2, <1>6, <2>1 DEF Channel
<1>8. /\ \A i \in 1..Len(requests[x]) : requests'[x][i] = requests[x][i]
      /\ Len(requests[x]) \in Nat /\ Len(requests'[x]) = Len(requests[x]) + 1
      /\ \A i \in 1..Len(requests'[x]) :
            i \in 1..Len(requests[x]) \/ (requests'[x][i] = Of(r, "request") /\ i = Len(requests[x]) + 1)
  <2>1. requests[x] \in Seq(Message) /\ Of(r, "request") \in Message
    BY <1>6
  <2> QED
    BY <1>7, <2>1
<1>9. ShutdownTypeOK'
  <2>1. engine' \in [draining : BOOLEAN, ended : {"no", "immediate", "feedEnded"},
                        seen : SUBSET EventType, sent : SUBSET Request, owed : SUBSET Request]
    BY <1>4, <1>5
  <2> QED
    BY <1>1, <1>3, <1>5, <1>7, <2>1 DEF ShutdownTypeOK, Message
<1>10. /\ Of(r, "request") # Plain("drain") /\ Of(r, "request") # Plain("shutdown")
       /\ \A q \in Request : Of(q, "request") = Of(r, "request") => q = r
  BY <1>3, Messages
<1>11. \A y \in Exchange : Of(r, "request") \notin Channel(y)
  BY <1>3 DEF ShutdownInv, SentOnce
<1>12. /\ (Whole' <=> Whole) /\ (HasEnded' <=> HasEnded) /\ \A y \in Exchange : Up(y)' <=> Up(y)
  BY <1>1, <1>4 DEF Whole, HasEnded, Up
<1>13. Homes'
  BY <1>1, <1>2, <1>3, <1>7, <1>10, <1>12 DEF ShutdownInv, Homes
<1>14. Asked'
  <2>1. engine'.owed \subseteq engine'.sent
    BY <1>4 DEF ShutdownInv, Asked
  <2>2. \A y \in Exchange : /\ Plain("drain") \in Channel(y)' => Plain("drain") \in Channel(y)
                            /\ Plain("shutdown") \in Channel(y)' => Plain("shutdown") \in Channel(y)
    BY <1>7, <1>10
  <2> QED
    BY <1>1, <1>4, <1>12, <2>1, <2>2 DEF ShutdownInv, Asked
<1>15. DrainIsBehind'
  <2> SUFFICES ASSUME NEW y \in Exchange, NEW j \in 1..Len(requests'[y]), NEW q \in engine'.owed,
                      requests'[y][j] = Of(q, "request")
               PROVE  ~manager[y].draining /\ \A i \in 1..j : requests'[y][i] # Plain("drain")
    BY <1>1 DEF DrainIsBehind
  <2>1. CASE engine.draining
    <3>1. q \in engine.owed /\ q \in engine.sent /\ q \in Request
      BY <1>3, <1>4, <2>1 DEF ShutdownInv, Asked, ShutdownTypeOK
    <3>2. j \in 1..Len(requests[y]) /\ requests[y][j] = Of(q, "request")
      BY <1>3, <1>7, <1>8, <1>10, <3>1
    <3>3. ~manager[y].draining /\ \A i \in 1..j : requests[y][i] # Plain("drain")
      BY <3>1, <3>2 DEF ShutdownInv, DrainIsBehind
    <3>4. \A i \in 1..j : i \in 1..Len(requests[y])
      BY <3>2
    <3> QED
      BY <1>7, <1>8, <3>3, <3>4
  <2>2. CASE ~engine.draining
    <3>1. ~manager[y].draining /\ Plain("drain") \notin Channel(y)'
      BY <1>7, <1>10, <2>2 DEF ShutdownInv, Asked
    <3>2. requests'[y] \in Seq(Message)
      BY <1>7
    <3>3. \A i \in 1..j : i \in 1..Len(requests'[y])
      BY <3>2
    <3> QED
      BY <3>1, <3>2, <3>3 DEF Channel, ToSet
  <2> QED
    BY <2>1, <2>2
<1>16. SentOnce'
  <2> SUFFICES ASSUME NEW q \in Request
               PROVE  /\ q \notin engine'.sent => venue'[q] = "none"
                      /\ \A y \in Exchange :
                          /\ Of(q, "request") \in Channel(y)' => q \in engine'.sent /\ venue'[q] = "none"
                          /\ \A i, j \in 1..Len(requests'[y]) :
                                requests'[y][i] = Of(q, "request") /\ requests'[y][j] = Of(q, "request")
                                    => i = j
    BY DEF SentOnce
  <2>1. CASE q # r
    <3>1. \A y \in Exchange : \A i \in 1..Len(requests'[y]) :
              requests'[y][i] = Of(q, "request")
                  => i \in 1..Len(requests[y]) /\ requests[y][i] = Of(q, "request")
      BY <1>7, <1>8, <1>10, <2>1
    <3> QED
      BY <1>1, <1>4, <1>7, <1>10, <2>1, <3>1 DEF ShutdownInv, SentOnce
  <2>2. CASE q = r
    <3>1. venue'[q] = "none" /\ q \in engine'.sent
      BY <1>1, <1>3, <1>4, <2>2 DEF ShutdownInv, SentOnce
    <3>2. ASSUME NEW y \in Exchange, NEW i \in 1..Len(requests[y])
          PROVE  requests[y][i] # Of(r, "request")
      BY <1>6, <1>11, <3>2 DEF Channel, ToSet
    <3>3. ASSUME NEW y \in Exchange, NEW i \in 1..Len(requests'[y]), requests'[y][i] = Of(q, "request")
          PROVE  i = Len(requests[x]) + 1
      <4>1. CASE y = x
        BY <1>8, <2>2, <3>2, <3>3, <4>1
      <4>2. CASE y # x
        BY <1>7, <2>2, <3>2, <3>3, <4>2
      <4> QED
        BY <4>1, <4>2
    <3> QED
      BY <3>1, <3>3
  <2> QED
    BY <2>1, <2>2
<1>17. FeedsEndLast' /\ AccountsAreOfTheVenue'
  BY <1>1, <1>12 DEF ShutdownInv, FeedsEndLast, AccountsAreOfTheVenue
<1>18. /\ \A q \in Request, kind \in Answers \cup {"trade"} :
             Of(q, kind) \in OnTheWay <=> Of(q, kind) \in OnTheWay'
       /\ \A q \in Request : IsAnswered(q)' <=> IsAnswered(q)
  <2>1. \A q \in Request, kind \in Answers \cup {"trade"} :
            Of(q, kind) \in OnTheWay <=> Of(q, kind) \in OnTheWay'
    BY <1>5, Kinds
  <2> QED
    BY <2>1 DEF IsAnswered, Answers
<1>19. OwedIsAccounted'
  <2> SUFFICES ASSUME Whole', NEW q \in engine'.owed
               PROVE  \/ \E y \in Exchange : Of(q, "request") \in Channel(y)' \/ q \in manager'[y].inFlight
                      \/ \E kind \in Answers : Of(q, kind) \in OnTheWay'
    BY DEF OwedIsAccounted
  <2>1. CASE q = r
    BY <1>7, <2>1
  <2>2. CASE q # r
    <3>1. q \in engine.owed /\ q \in Request
      BY <1>4, <2>2
    <3>2. \/ \E y \in Exchange : Of(q, "request") \in Channel(y) \/ q \in manager[y].inFlight
          \/ \E kind \in Answers : Of(q, kind) \in OnTheWay
      BY <1>12, <3>1 DEF ShutdownInv, OwedIsAccounted
    <3> QED
      BY <1>1, <1>7, <1>18, <3>1, <3>2
  <2> QED
    BY <2>1, <2>2
<1>20. AnswersAreGiven'
  BY <1>1, <1>18 DEF ShutdownInv, AnswersAreGiven
<1>21. TradesAreKept'
  BY <1>1, <1>12, <1>18, RequestAssumption DEF ShutdownInv, TradesAreKept
<1>22. NoticesAreKept'
  <2>1. \A y \in Exchange : Reconnecting(y) \in OnTheWay => Reconnecting(y) \in OnTheWay'
    BY <1>5, Kinds
  <2> QED
    BY <1>1, <1>12, <2>1 DEF ShutdownInv, NoticesAreKept
<1> QED
  BY <1>9, <1>13, <1>14, <1>15, <1>16, <1>17, <1>19, <1>20, <1>21, <1>22 DEF ShutdownInv

LEMMA TakeEventKeeps == ASSUME ShutdownInv, TakeEvent PROVE ShutdownInv'
<1>1. /\ ~HasEnded /\ feed # <<>>
      /\ UNCHANGED <<senders, market, manager, outs, venues, stopping>>
  BY DEF TakeEvent
<1>2. CASE Head(feed).kind = "immediate" /\ End("immediate") /\ feed' = <<>>
  BY <1>1, <1>2, Ending
<1>3. CASE Head(feed).kind = "drain" /\ StartDraining /\ feed' = Tail(feed)
  BY <1>1, <1>3, Draining
<1>4. CASE Process(Head(feed)) /\ feed' = Tail(feed)
  <2> DEFINE seen == engine.seen \cup (IF IsReport(Head(feed)) THEN {Head(feed)} ELSE {})
  <2>1. CASE engine' = [engine EXCEPT !.seen = seen] /\ requests' = requests
    <3>1. /\ senders' = senders /\ market' = market /\ manager' = manager /\ outs' = outs
          /\ venue' = venue /\ accounts' = accounts /\ breaks' = breaks /\ emitted' = emitted
          /\ missed' = missed /\ reopening' = reopening /\ caller' = caller /\ severed' = severed
      BY <1>1 DEF venues, recovering, stopping
    <3>2. ShutdownTypeOK
      BY DEF ShutdownInv
    <3>3. /\ engine'.seen = seen /\ engine'.ended = engine.ended /\ engine'.sent = engine.sent
          /\ engine'.owed = engine.owed /\ engine'.draining = engine.draining
          /\ engine' \in [draining : BOOLEAN, ended : {"no", "immediate", "feedEnded"},
                          seen : {seen}, sent : SUBSET Request, owed : SUBSET Request]
      BY <2>1, <3>2 DEF ShutdownTypeOK
    <3>4. /\ feed' \in Seq(EventType) /\ engine'.seen \subseteq EventType
          /\ OnTheWay' \subseteq OnTheWay
          /\ \A e \in EventType : IsReport(e) /\ e \in OnTheWay => e \in OnTheWay'
      BY <1>1, <1>4, <3>1, <3>2, <3>3, Seeing
    <3>5. ShutdownTypeOK'
      <4>1. engine' \in [draining : BOOLEAN, ended : {"no", "immediate", "feedEnded"},
                        seen : SUBSET EventType, sent : SUBSET Request, owed : SUBSET Request]
        BY <3>3, <3>4
      <4> QED
        BY <2>1, <3>1, <3>2, <3>4, <4>1 DEF ShutdownTypeOK
    <3>6. (Whole' <=> Whole) /\ (HasEnded' <=> HasEnded)
      BY <3>1, <3>3 DEF Whole, HasEnded
    <3>7. FeedsEndLast'
      BY <1>1, <3>1, <3>6 DEF ShutdownInv, FeedsEndLast, Up
    <3> QED
      BY <2>1, <3>1, <3>3, <3>4, <3>5, <3>6, <3>7, ManagersIdle
  <2>2. CASE \E r \in MaySend(Head(feed)) :
                 /\ engine' = [engine EXCEPT !.seen = seen,
                                             !.sent = @ \cup {r},
                                             !.owed = IF engine.draining THEN @ ELSE @ \cup {r}]
                 /\ requests' = [requests EXCEPT ![ExchangeOf[r]] = Append(@, Of(r, "request"))]
    BY <1>1, <1>4, <2>2, Sending
  <2> QED
    BY <1>4, <2>1, <2>2 DEF Process
<1> QED
  BY <1>2, <1>3, <1>4 DEF TakeEvent

-----------------------------------------------------------------------------
(* The theorems.                                                           *)

LEMMA InitInv == ASSUME Init PROVE ShutdownInv
<1>1. PICK setting \in Settings :
          /\ market = setting.market /\ breaks = setting.breaks
          /\ caller = [how |-> setting.how, at |-> "running"]
  BY DEF Init
<1>2. /\ market \in Nat /\ breaks \in Nat
      /\ caller \in [how : {"shutdown", "abort", "afterBacktest"},
                     at : {"running", "account", "engine", "execution", "returned"}]
  BY <1>1, BoundsAssumption
<1>3. /\ feed = <<>> /\ senders = {"market", "account", "caller"}
      /\ engine = [draining |-> FALSE, ended |-> "no", seen |-> {}, sent |-> {}, owed |-> {}]
      /\ requests = [x \in Exchange |-> <<>>]
      /\ manager = [x \in Exchange |-> [up |-> TRUE, draining |-> FALSE, inFlight |-> {}, lookups |-> {}]]
      /\ outs = [x \in Exchange |-> <<>>] /\ venue = [r \in Request |-> "none"]
      /\ accounts = [x \in Exchange |-> <<>>] /\ emitted = {} /\ severed = FALSE
      /\ reopening = {} /\ missed = [x \in Exchange |-> {}]
  BY DEF Init
<1>4. ShutdownTypeOK
  <2>1. \A S : <<>> \in Seq(S)
    OBVIOUS
  <2>2. /\ feed \in Seq(EventType) /\ outs \in [Exchange -> Seq(EventType)]
        /\ accounts \in [Exchange -> Seq(EventType)]
        /\ requests \in [Exchange -> Seq({Plain("drain"), Plain("shutdown")}
                                         \cup {Of(r, "request") : r \in Request})]
    BY <1>3, <2>1
  <2>3. /\ manager \in [Exchange -> [up : BOOLEAN, draining : BOOLEAN,
                                     inFlight : SUBSET Request, lookups : SUBSET (Request \ Cancel)]]
        /\ engine \in [draining : BOOLEAN, ended : {"no", "immediate", "feedEnded"},
                       seen : SUBSET EventType, sent : SUBSET Request, owed : SUBSET Request]
    BY <1>3
  <2>4. /\ venue \in [Request -> {"none", "unsent", "booked", "emitted", "answered"}]
        /\ senders \subseteq {"market", "account", "caller"}
        /\ emitted \subseteq EventType /\ reopening \subseteq Exchange
        /\ missed \in [Exchange -> SUBSET EventType] /\ severed \in BOOLEAN
    BY <1>3
  <2> QED
    BY <1>2, <2>2, <2>3, <2>4 DEF ShutdownTypeOK
<1>5. /\ OnTheWay = {} /\ \A x \in Exchange : Channel(x) = {} /\ Len(requests[x]) = 0
  <2>1. ToSet(<<>>) = {} /\ Len(<<>>) = 0
    BY Few
  <2> QED
    BY <1>3, <2>1 DEF OnTheWay, Channel
<1>6. /\ engine.owed = {} /\ engine.sent = {} /\ ~HasEnded
      /\ \A x \in Exchange : /\ Up(x) /\ ~manager[x].draining
                             /\ manager[x].inFlight = {} /\ manager[x].lookups = {}
  BY <1>3 DEF HasEnded, Up
<1>7. Homes /\ Asked /\ DrainIsBehind
  BY <1>5, <1>6 DEF Homes, Asked, DrainIsBehind
<1>8. SentOnce
  BY <1>3, <1>5, <1>6 DEF SentOnce
<1>9. FeedsEndLast /\ OwedIsAccounted /\ AnswersAreGiven /\ TradesAreKept /\ NoticesAreKept
  BY <1>3, <1>5, <1>6 DEF FeedsEndLast, OwedIsAccounted, AnswersAreGiven, IsAnswered, TradesAreKept,
                          NoticesAreKept
<1>10. AccountsAreOfTheVenue
  BY <1>3, FS_EmptySet DEF AccountsAreOfTheVenue
<1> QED
  BY <1>4, <1>7, <1>8, <1>9, <1>10 DEF ShutdownInv

LEMMA StutterKeeps == ASSUME ShutdownInv, UNCHANGED vars PROVE ShutdownInv'
<1>1. /\ feed' = feed /\ senders' = senders /\ market' = market /\ engine' = engine
      /\ requests' = requests /\ manager' = manager /\ outs' = outs /\ venue' = venue
      /\ accounts' = accounts /\ breaks' = breaks /\ emitted' = emitted /\ missed' = missed /\ reopening' = reopening
      /\ caller' = caller /\ severed' = severed
  BY DEF vars, feeding, managers, venues, recovering, stopping
<1>2. ShutdownTypeOK'
  BY <1>1 DEF ShutdownInv, ShutdownTypeOK
<1>3. OnTheWay' = OnTheWay /\ (Whole' <=> Whole) /\ (HasEnded' <=> HasEnded)
  BY <1>1 DEF OnTheWay, Whole, HasEnded
<1>4. FeedsEndLast'
  BY <1>1, <1>3 DEF ShutdownInv, FeedsEndLast, Up
<1> QED
  BY <1>1, <1>2, <1>3, <1>4, ManagersIdle

\* Every step keeps the invariant.
LEMMA NextKeepsInv == ASSUME ShutdownInv, [Next]_vars PROVE ShutdownInv'
<1>1. CASE TakeEvent
  BY <1>1, TakeEventKeeps
<1>2. CASE FeedEnded
  BY <1>2, FeedEndedKeeps
<1>3. CASE Forwarders
  BY <1>3, ForwardMarketKeeps, AccountEndsKeeps, ForwardAccountKeeps DEF Forwarders
<1>4. CASE \E x \in Exchange : Manager(x)
  <2>1. PICK x \in Exchange : Manager(x)
    BY <1>4
  <2>2. CASE \E r \in Request : SendRequest(x, r) \/ Resolve(x, r) \/ LookUp(x, r)
    BY <2>2, SendRequestKeeps, TakeResponseKeeps, TimeOutKeeps, LookUpKeeps DEF Resolve
  <2>3. CASE TakeAccount(x) \/ ReopenStream(x) \/ TakeRequest(x) \/ Drained(x) \/ StopSevered(x)
    BY <2>3, TakeAccountKeeps, ReopenStreamKeeps, TakeRequestKeeps, DrainedKeeps, StopSeveredKeeps
  <2> QED
    BY <2>1, <2>2, <2>3 DEF Manager
<1>5. CASE Venue
  BY <1>5, AcceptsKeeps, AnswersRequestKeeps, BreakStreamKeeps DEF Venue
<1>6. CASE Caller
  BY <1>6, StopNowKeeps, StopAfterBacktestKeeps, AwaitAccountKeeps, AwaitEngineKeeps,
     AwaitExecutionKeeps DEF Caller
<1>7. CASE UNCHANGED vars
  BY <1>7, StutterKeeps
<1> QED
  BY <1>1, <1>2, <1>3, <1>4, <1>5, <1>6, <1>7 DEF Next

LEMMA Invariance == Spec => []ShutdownInv
<1>1. Init => ShutdownInv
  BY InitInv
<1>2. ShutdownInv /\ [Next]_vars => ShutdownInv'
  BY NextKeepsInv
<1> QED
  BY <1>1, <1>2, PTL DEF Spec

\* Every channel, task and record of the shutdown has its type, whatever is sent and however it
\* stops.
THEOREM ShutdownTyping == Spec => []ShutdownTypeOK
<1>1. ShutdownInv => ShutdownTypeOK
  BY DEF ShutdownInv
<1> QED
  BY <1>1, Invariance, PTL

\* A drain that was not cut short ends the engine after the answer of every request sent before
\* it: with every place between the two empty, the answer can only be where it was going.
THEOREM DrainAnswers == Spec => []DrainAnswersAll
<1>1. ShutdownInv => DrainAnswersAll
  <2> SUFFICES ASSUME ShutdownInv, DrainIsOver, NEW r \in engine.owed PROVE HasSeen(r, Answers)
    BY DEF DrainAnswersAll
  <2>1. Whole /\ HasEnded
    BY DEF DrainIsOver, Whole, HasEnded
  <2>2. feed = <<>> /\ \A x \in Exchange : ~Up(x) /\ outs[x] = <<>>
    BY <2>1 DEF ShutdownInv, FeedsEndLast
  <2>3. ToSet(<<>>) = {}
    BY Few
  <2>4. \A x \in Exchange : Channel(x) = {} /\ manager[x].inFlight = {} /\ ToSet(outs[x]) = {}
    BY <2>2, <2>3 DEF ShutdownInv, Homes, Channel, Down
  <2>5. OnTheWay = engine.seen
    BY <2>2, <2>3, <2>4 DEF OnTheWay
  <2>6. \E kind \in Answers : Of(r, kind) \in OnTheWay
    BY <2>1, <2>4 DEF ShutdownInv, OwedIsAccounted
  <2> QED
    BY <2>5, <2>6 DEF HasSeen
<1> QED
  BY <1>1, Invariance, PTL

\* And after what each answered request did to the account, which no manager may leave behind in
\* its account stream: what a broken stream has not delivered is all that can be missing, and the
\* engine has its notice.
THEOREM DrainDelivers == Spec => []DrainDeliversEvents
<1>1. ShutdownInv => DrainDeliversEvents
  <2> SUFFICES ASSUME ShutdownInv, DrainIsOver, NEW r \in engine.owed,
                      HasSeen(r, {"response", "found"}), Of(r, "trade") \in emitted
               PROVE  \/ Of(r, "trade") \in engine.seen
                      \/ /\ Of(r, "trade") \in missed[ExchangeOf[r]]
                         /\ Reconnecting(ExchangeOf[r]) \in engine.seen
    BY DEF DrainDeliversEvents
  <2>1. Whole /\ HasEnded /\ r \in Request /\ ExchangeOf[r] \in Exchange
    BY RequestAssumption DEF DrainIsOver, Whole, HasEnded, ShutdownInv, ShutdownTypeOK
  <2>2. feed = <<>> /\ \A x \in Exchange : ~Up(x) /\ outs[x] = <<>>
    BY <2>1 DEF ShutdownInv, FeedsEndLast
  <2>3. ToSet(<<>>) = {}
    BY Few
  <2>4. \A x \in Exchange : ToSet(accounts[x]) = {} /\ ToSet(outs[x]) = {}
    BY <2>2, <2>3 DEF ShutdownInv, Homes
  <2>5. OnTheWay = engine.seen
    BY <2>2, <2>3, <2>4 DEF OnTheWay
  <2>6. IsAnswered(r)
    BY <2>5 DEF HasSeen, IsAnswered
  <2>7. Of(r, "trade") \in missed[ExchangeOf[r]] \cup engine.seen
    BY <2>1, <2>4, <2>5, <2>6 DEF ShutdownInv, TradesAreKept
  <2>8. missed[ExchangeOf[r]] # {} => Reconnecting(ExchangeOf[r]) \in engine.seen
    BY <2>1, <2>4, <2>5 DEF ShutdownInv, NoticesAreKept
  <2> QED
    BY <2>7, <2>8
<1> QED
  BY <1>1, Invariance, PTL

=============================================================================
