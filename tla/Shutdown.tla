------------------------------ MODULE Shutdown ------------------------------
(***************************************************************************)
(* How a System stops (rustrade/src/system/mod.rs): the task that calls    *)
(* shutdown, abort or shutdown_after_backtest, the tasks that forward the  *)
(* market and the account events into the engine's one feed, the engine,   *)
(* and for each exchange the ExecutionManager with the requests it owes an *)
(* answer to, over a venue that emits what an order does to the account    *)
(* before it answers the order.                                            *)
(*                                                                         *)
(* What an event does to the engine's state is the business of the other   *)
(* modules; here it matters that the engine saw it before it ended.        *)
(***************************************************************************)
EXTENDS Naturals, FiniteSets, Sequences, SequencesExt

CONSTANTS
    Exchange,
    Request,           \* the requests the engine may send
    Cancel,            \* those of them that cancel; the others open
    ExchangeOf,        \* where each is sent
    Settings,          \* the calls a run explores, each with its bounds: the market events
                       \* of the run, and how often an account stream may break
    ActsOnDisconnect   \* whether OnDisconnectStrategy sends requests

ASSUME RequestAssumption == Cancel \subseteq Request /\ ExchangeOf \in [Request -> Exchange]
ASSUME BoundsAssumption ==
    /\ Settings \subseteq [how : {"shutdown", "abort", "afterBacktest"}, market : Nat, breaks : Nat]
    /\ ActsOnDisconnect \in BOOLEAN

VARIABLES
    feed,      \* the engine's feed
    senders,   \* who still holds a FeedTx
    market,    \* market events not forwarded yet
    engine,    \* Engine: `draining`, how it `ended`, what it has `seen` and `sent`
    requests,  \* each manager's request channel
    manager,   \* each ExecutionManager
    venue,     \* how far the venue is with each request
    accounts,  \* each manager's account stream: what it holds ready, and nobody has read
    reopening, \* the exchanges whose account stream broke and is not re-initialised yet
    missed,    \* what the venue emitted that a broken stream has not delivered
    outs,      \* what each manager sent to its response channel
    caller,    \* where the call that stops the system has got to
    severed,   \* whether account_to_engine was aborted
    breaks,    \* how often an account stream may still break
    emitted    \* history: the account events the venues emitted

feeding == <<feed, senders, market>>
managers == <<requests, manager, outs>>
recovering == <<reopening, missed, breaks, emitted>>
venues == <<venue, accounts, recovering>>
stopping == <<caller, severed>>
vars == <<feeding, engine, managers, venues, stopping>>

-----------------------------------------------------------------------------
(* Events.                                                                 *)

Of(r, kind) == [kind |-> kind, request |-> r]

Reconnecting(x) == [kind |-> "reconnecting", exchange |-> x]

Plain(kind) == [kind |-> kind]

Answers == {"response", "timeout", "found"}

IsReport(event) == event.kind \in Answers \cup {"trade", "reconnecting"}

HasEnded == engine.ended # "no"

\* The engine's end of every request channel, while the manager holds the other.
ToManagers(request) ==
    [x \in Exchange |-> IF manager[x].up THEN Append(requests[x], request) ELSE requests[x]]

-----------------------------------------------------------------------------
(* The engine.                                                             *)

\* The requests the engine may send as it processes an event: the strategy's,
\* unless a drain is in progress, and those of OnDisconnectStrategy.
MaySend(event) ==
    {r \in Request :
        /\ r \notin engine.sent
        /\ manager[ExchangeOf[r]].up
        /\ ~engine.draining \/ (ActsOnDisconnect /\ event.kind = "reconnecting")}

Process(event) ==
    LET seen == engine.seen \cup (IF IsReport(event) THEN {event} ELSE {}) IN
    \/ engine' = [engine EXCEPT !.seen = seen] /\ UNCHANGED requests
    \/ \E r \in MaySend(event) :
        /\ engine' = [engine EXCEPT !.seen = seen,
                                    !.sent = @ \cup {r},
                                    !.owed = IF engine.draining THEN @ ELSE @ \cup {r}]
        /\ requests' = [requests EXCEPT ![ExchangeOf[r]] = Append(@, Of(r, "request"))]

\* Mutant: the managers are not told.
DrainNobody == engine' = [engine EXCEPT !.draining = TRUE] /\ UNCHANGED requests

StartDraining ==
    /\ engine' = [engine EXCEPT !.draining = TRUE]
    /\ requests' = ToManagers(Plain("drain"))

End(how) ==
    /\ engine' = [engine EXCEPT !.ended = how]
    /\ requests' = ToManagers(Plain("shutdown"))

TakeEvent ==
    /\ ~HasEnded
    /\ feed # <<>>
    /\ LET event == Head(feed) IN
       \/ event.kind = "immediate" /\ End("immediate") /\ feed' = <<>>
       \/ event.kind = "drain" /\ StartDraining /\ feed' = Tail(feed)
       \/ event.kind \notin {"immediate", "drain"} /\ Process(event) /\ feed' = Tail(feed)
    /\ UNCHANGED <<senders, market, manager, outs, venues, stopping>>

FeedEnded ==
    /\ ~HasEnded
    /\ feed = <<>>
    /\ senders = {}
    /\ End("feedEnded")
    /\ UNCHANGED <<manager, outs, feeding, venues, stopping>>

-----------------------------------------------------------------------------
(* The tasks that forward into the feed.                                   *)

ToFeed(event) == feed' = IF HasEnded THEN feed ELSE Append(feed, event)

ForwardMarket ==
    /\ "market" \in senders
    /\ IF market = 0
       THEN senders' = senders \ {"market"} /\ UNCHANGED <<feed, market>>
       ELSE market' = market - 1 /\ ToFeed(Plain("market")) /\ UNCHANGED senders
    /\ UNCHANGED <<engine, managers, venues, stopping>>

ForwardAccount(x) ==
    /\ "account" \in senders
    /\ outs[x] # <<>>
    /\ outs' = [outs EXCEPT ![x] = Tail(@)]
    /\ ToFeed(Head(outs[x]))
    /\ UNCHANGED <<senders, market, engine, requests, manager, venues, stopping>>

\* The account feed ends as the last manager's response channel does.
AccountEnds ==
    /\ "account" \in senders
    /\ \A x \in Exchange : ~manager[x].up /\ outs[x] = <<>>
    /\ senders' = senders \ {"account"}
    /\ UNCHANGED <<feed, market, engine, managers, venues, stopping>>

-----------------------------------------------------------------------------
(* The manager of exchange x.                                              *)

Up(x) == manager[x].up

Respond(x, events) == outs' = [outs EXCEPT ![x] = IF severed THEN @ ELSE @ \o events]

\* A manager that has stopped is dropped with its ends of the channels.
Down == [up |-> FALSE, draining |-> FALSE, inFlight |-> {}, lookups |-> {}]

Stop(x) ==
    /\ manager' = [manager EXCEPT ![x] = Down]
    /\ requests' = [requests EXCEPT ![x] = <<>>]
    /\ accounts' = [accounts EXCEPT ![x] = <<>>]

TakeAccount(x) ==
    /\ Up(x)
    /\ accounts[x] # <<>>
    /\ accounts' = [accounts EXCEPT ![x] = Tail(@)]
    /\ Respond(x, <<Head(accounts[x])>>)
    /\ UNCHANGED <<engine, requests, manager, venue, feeding, recovering, stopping>>

\* A re-initialisation is polled once the notice of the break has been read, and attempted until
\* one succeeds. Its stream yields what the fill recovery read back (FillRecovery), then what came
\* after it subscribed.
ReopenStream(x) ==
    /\ Up(x)
    /\ x \in reopening
    /\ accounts[x] = <<>>
    /\ reopening' = reopening \ {x}
    /\ \E events \in SetToAllKPermutations(missed[x]) :
        /\ accounts' = [accounts EXCEPT ![x] = events]
        /\ missed' = [missed EXCEPT ![x] = @ \ ToSet(events)]
    /\ UNCHANGED <<engine, venue, breaks, emitted, feeding, managers, stopping>>

\* A request's future sends it once it is polled; Shutdown abandons what is in flight.
TakeRequest(x) ==
    /\ Up(x)
    /\ ~manager[x].draining
    /\ requests[x] # <<>>
    /\ LET request == Head(requests[x]) IN
       \/ /\ request.kind = "shutdown"
          /\ Stop(x)
          /\ UNCHANGED venue
       \/ /\ request.kind = "drain"
          /\ manager' = [manager EXCEPT ![x].draining = TRUE]
          /\ requests' = [requests EXCEPT ![x] = Tail(@)]
          /\ UNCHANGED <<venue, accounts>>
       \/ /\ request.kind = "request"
          /\ manager' = [manager EXCEPT ![x].inFlight = @ \cup {request.request}]
          /\ venue' = [venue EXCEPT ![request.request] = "unsent"]
          /\ requests' = [requests EXCEPT ![x] = Tail(@)]
          /\ UNCHANGED accounts
    /\ UNCHANGED <<engine, outs, feeding, recovering, stopping>>

SendRequest(x, r) ==
    /\ Up(x)
    /\ r \in manager[x].inFlight
    /\ venue[r] = "unsent"
    /\ venue' = [venue EXCEPT ![r] = "booked"]
    /\ UNCHANGED <<engine, accounts, feeding, managers, recovering, stopping>>

TakeResponse(x, r) ==
    /\ Up(x)
    /\ r \in manager[x].inFlight
    /\ venue[r] = "answered"
    /\ manager' = [manager EXCEPT ![x].inFlight = @ \ {r}]
    /\ Respond(x, <<Of(r, "response")>>)
    /\ UNCHANGED <<engine, requests, feeding, venues, stopping>>

\* Mutant: a cancel is looked up as well.
TimeOutAndLookUp(x, r) ==
    /\ Up(x)
    /\ r \in manager[x].inFlight
    /\ venue[r] \notin {"unsent", "answered"}
    /\ manager' = [manager EXCEPT ![x].inFlight = @ \ {r}, ![x].lookups = @ \cup {r}]
    /\ Respond(x, <<Of(r, "timeout")>>)
    /\ UNCHANGED <<engine, requests, feeding, venues, stopping>>

\* An open's outcome is then unknown, and it is looked up.
TimeOut(x, r) ==
    /\ Up(x)
    /\ r \in manager[x].inFlight
    /\ venue[r] \notin {"unsent", "answered"}
    /\ manager' = [manager EXCEPT ![x].inFlight = @ \ {r},
                                  ![x].lookups = IF r \in Cancel THEN @ ELSE @ \cup {r}]
    /\ Respond(x, <<Of(r, "timeout")>>)
    /\ UNCHANGED <<engine, requests, feeding, venues, stopping>>

\* The venue answers a lookup, like a request, behind what it emitted before.
LookUp(x, r) ==
    /\ Up(x)
    /\ r \in manager[x].lookups
    /\ manager' = [manager EXCEPT ![x].lookups = @ \ {r}]
    /\ \/ venue[r] = "answered" /\ Respond(x, <<Of(r, "found")>>)
       \/ UNCHANGED outs
    /\ UNCHANGED <<engine, requests, feeding, venues, stopping>>

OwesNothing(x) == manager[x].inFlight = {} /\ manager[x].lookups = {}

\* Mutant: the manager stops with its account stream unread.
StopWithoutTail(x) ==
    /\ Up(x)
    /\ manager[x].draining
    /\ OwesNothing(x)
    /\ Stop(x)
    /\ UNCHANGED outs

\* Every event already available is forwarded, then the response channel closes: a stream that is
\* not re-initialised yet has none but the notice of its break.
StopDrained(x) ==
    /\ Up(x)
    /\ manager[x].draining
    /\ OwesNothing(x)
    /\ Respond(x, accounts[x])
    /\ Stop(x)

Drained(x) ==
    /\ StopDrained(x)
    /\ UNCHANGED <<engine, venue, feeding, recovering, stopping>>

\* A send that fails because the channel's reader went with account_to_engine.
StopSevered(x) ==
    /\ Up(x)
    /\ severed
    /\ Stop(x)
    /\ UNCHANGED <<engine, outs, venue, feeding, recovering, stopping>>

-----------------------------------------------------------------------------
(* The venue.                                                              *)

\* The venue emits on the account stream of exchange x, if there is one to read it.
Emit(x, event) ==
    /\ emitted' = emitted \cup {event}
    /\ IF x \in reopening
       THEN missed' = [missed EXCEPT ![x] = @ \cup {event}] /\ UNCHANGED accounts
       ELSE /\ accounts' = IF Up(x) THEN [accounts EXCEPT ![x] = Append(@, event)] ELSE accounts
            /\ UNCHANGED missed

\* Accepting a request changes the account; one event stands for those the venue emits of it.
Accepts(r) ==
    /\ venue[r] = "booked"
    /\ venue' = [venue EXCEPT ![r] = "emitted"]
    /\ Emit(ExchangeOf[r], Of(r, "trade"))
    /\ UNCHANGED <<engine, reopening, breaks, feeding, managers, stopping>>

\* After the events of an accepted request; at once for a refused one.
AnswersRequest(r) ==
    /\ venue[r] \in {"booked", "emitted"}
    /\ venue' = [venue EXCEPT ![r] = "answered"]
    /\ UNCHANGED <<engine, accounts, feeding, managers, recovering, stopping>>

\* The account stream lags or drops: what it held is gone, for the fill recovery to read back.
\* After the notice nothing is ready until the stream is re-initialised.
BreakStream(x) ==
    /\ Up(x)
    /\ x \notin reopening
    /\ breaks > 0
    /\ breaks' = breaks - 1
    /\ reopening' = reopening \cup {x}
    /\ missed' = [missed EXCEPT ![x] = @ \cup ToSet(accounts[x])]
    /\ accounts' = [accounts EXCEPT ![x] = <<Reconnecting(x)>>]
    /\ UNCHANGED <<engine, venue, emitted, feeding, managers, stopping>>

-----------------------------------------------------------------------------
(* The call that stops the system.                                         *)

\* shutdown and abort: the engine ends at the event, and the forwarders are aborted.
StopNow ==
    /\ caller.at = "running"
    /\ caller.how \in {"shutdown", "abort"}
    /\ caller' = [caller EXCEPT !.at = "engine"]
    /\ ToFeed(Plain("immediate"))
    /\ UNCHANGED <<senders, market, engine, severed, managers, venues>>

StopAfterBacktest ==
    /\ caller.at = "running"
    /\ caller.how = "afterBacktest"
    /\ "market" \notin senders
    /\ ToFeed(Plain("drain"))
    /\ senders' = senders \ {"caller"}
    /\ caller' = [caller EXCEPT !.at = "account"]
    /\ UNCHANGED <<market, engine, severed, managers, venues>>

\* The forwarders are aborted, and what was on its way is dropped with the merged channel.
Sever(forwarders) ==
    /\ severed' = TRUE
    /\ senders' = senders \ forwarders
    /\ outs' = [x \in Exchange |-> <<>>]

\* Mutant: the account forwarder is aborted as soon as the drain is asked for.
AwaitNothing ==
    /\ senders' = senders \ {"account"}
    /\ outs' = [x \in Exchange |-> <<>>]
    /\ UNCHANGED severed

\* The account feed ends, or the deadline passes and it is severed.
AwaitFeed ==
    \/ "account" \notin senders /\ UNCHANGED <<senders, severed, outs>>
    \/ Sever({"account"})

AwaitAccount ==
    /\ caller.at = "account"
    /\ AwaitFeed
    /\ caller' = [caller EXCEPT !.at = "engine"]
    /\ UNCHANGED <<feed, market, engine, requests, manager, venues>>

AwaitEngine ==
    /\ caller.at = "engine"
    /\ HasEnded
    /\ IF caller.how = "afterBacktest" THEN UNCHANGED <<senders, severed, outs>>
       ELSE Sever({"market", "account"})
    /\ IF caller.how = "abort"
       THEN /\ manager' = [x \in Exchange |-> Down]
            /\ requests' = [x \in Exchange |-> <<>>]
            /\ accounts' = [x \in Exchange |-> <<>>]
       ELSE UNCHANGED <<requests, manager, accounts>>
    /\ caller' = [caller EXCEPT !.at = "execution"]
    /\ UNCHANGED <<feed, market, engine, venue, recovering>>

AwaitExecution ==
    /\ caller.at = "execution"
    /\ \A x \in Exchange : ~Up(x) /\ outs[x] = <<>>
    /\ caller' = [caller EXCEPT !.at = "returned"]
    /\ UNCHANGED <<engine, severed, feeding, managers, venues>>

-----------------------------------------------------------------------------
Init ==
    /\ feed = <<>>
    /\ senders = {"market", "account", "caller"}
    /\ engine = [draining |-> FALSE, ended |-> "no", seen |-> {}, sent |-> {}, owed |-> {}]
    /\ requests = [x \in Exchange |-> <<>>]
    /\ manager = [x \in Exchange |-> [up |-> TRUE, draining |-> FALSE, inFlight |-> {}, lookups |-> {}]]
    /\ outs = [x \in Exchange |-> <<>>]
    /\ venue = [r \in Request |-> "none"]
    /\ accounts = [x \in Exchange |-> <<>>]
    /\ reopening = {}
    /\ missed = [x \in Exchange |-> {}]
    /\ emitted = {}
    /\ severed = FALSE
    /\ \E setting \in Settings :
        /\ market = setting.market
        /\ breaks = setting.breaks
        /\ caller = [how |-> setting.how, at |-> "running"]

Resolve(x, r) == TakeResponse(x, r) \/ TimeOut(x, r)

Manager(x) ==
    \/ TakeAccount(x) \/ ReopenStream(x)
    \/ TakeRequest(x) \/ Drained(x) \/ StopSevered(x)
    \/ \E r \in Request : SendRequest(x, r) \/ Resolve(x, r) \/ LookUp(x, r)

Forwarders == ForwardMarket \/ AccountEnds \/ \E x \in Exchange : ForwardAccount(x)

Venue ==
    \/ \E r \in Request : Accepts(r) \/ AnswersRequest(r)
    \/ \E x \in Exchange : BreakStream(x)

Caller == StopNow \/ StopAfterBacktest \/ AwaitAccount \/ AwaitEngine \/ AwaitExecution

Next ==
    \/ TakeEvent \/ FeedEnded
    \/ Forwarders
    \/ \E x \in Exchange : Manager(x)
    \/ Venue
    \/ Caller

Spec == Init /\ [][Next]_vars

\* Every task that can run is run, and a request or lookup ends by its timeout.
\* Nothing is asked of the venue, nor of the deadline of shutdown_after_backtest.
Fairness ==
    /\ WF_vars(TakeEvent) /\ WF_vars(FeedEnded)
    /\ WF_vars(ForwardMarket) /\ WF_vars(AccountEnds)
    /\ \A x \in Exchange :
        /\ WF_vars(ForwardAccount(x)) /\ WF_vars(TakeAccount(x))
        /\ WF_vars(TakeRequest(x)) /\ WF_vars(Drained(x))
        /\ \A r \in Request :
            WF_vars(SendRequest(x, r)) /\ WF_vars(Resolve(x, r)) /\ WF_vars(LookUp(x, r))
    /\ WF_vars(AwaitAccount /\ ~severed') /\ WF_vars(AwaitEngine) /\ WF_vars(AwaitExecution)

FairSpec == Spec /\ Fairness

-----------------------------------------------------------------------------
(* Properties.                                                             *)

EventType ==
    {Plain("market"), Plain("drain"), Plain("immediate")}
    \cup {Of(r, kind) : r \in Request, kind \in Answers \cup {"trade"}}
    \cup {Reconnecting(x) : x \in Exchange}

\* Every part of the state has its type.
ShutdownTypeOK ==
    /\ feed \in Seq(EventType)
    /\ senders \subseteq {"market", "account", "caller"}
    /\ market \in Nat /\ breaks \in Nat
    /\ engine \in [draining : BOOLEAN, ended : {"no", "immediate", "feedEnded"},
                   seen : SUBSET EventType, sent : SUBSET Request, owed : SUBSET Request]
    /\ requests \in [Exchange -> Seq({Plain("drain"), Plain("shutdown")}
                                     \cup {Of(r, "request") : r \in Request})]
    /\ manager \in [Exchange -> [up : BOOLEAN, draining : BOOLEAN,
                                 inFlight : SUBSET Request, lookups : SUBSET (Request \ Cancel)]]
    /\ outs \in [Exchange -> Seq(EventType)]
    /\ venue \in [Request -> {"none", "unsent", "booked", "emitted", "answered"}]
    /\ accounts \in [Exchange -> Seq(EventType)]
    /\ reopening \subseteq Exchange
    /\ missed \in [Exchange -> SUBSET EventType]
    /\ emitted \subseteq EventType
    /\ caller \in [how : {"shutdown", "abort", "afterBacktest"},
                   at : {"running", "account", "engine", "execution", "returned"}]
    /\ severed \in BOOLEAN

HasSeen(r, kinds) == \E kind \in kinds : Of(r, kind) \in engine.seen

DrainIsOver == engine.ended = "feedEnded" /\ ~severed

\* A drain that was not cut short by its deadline ends the engine after every request sent
\* before it has been answered, or has timed out, and the engine has seen that
\* (shutdown.rs: every request resolves into either a response or a timeout).
DrainAnswersAll == DrainIsOver => \A r \in engine.owed : HasSeen(r, Answers)

\* And of every request the venue answered, a lookup's answer included, the engine has seen
\* what it did to the account, or has been told that the stream which should have carried it
\* broke: the ledgers are never truncated in silence (drain_ready_account_events).
DrainDeliversEvents ==
    DrainIsOver =>
        \A r \in engine.owed :
            HasSeen(r, {"response", "found"}) /\ Of(r, "trade") \in emitted =>
                \/ Of(r, "trade") \in engine.seen
                \/ /\ Of(r, "trade") \in missed[ExchangeOf[r]]
                   /\ Reconnecting(ExchangeOf[r]) \in engine.seen

\* A call that stops the system returns, whatever the venue does.
StopReturns == caller.at # "running" ~> caller.at = "returned"

=============================================================================
