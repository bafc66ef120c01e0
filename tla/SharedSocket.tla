----------------------------- MODULE SharedSocket -----------------------------
(***************************************************************************)
(* One socket shared by many streams                                       *)
(* (rustrade-data/src/subscriber/shared/{actor,registry,mod}.rs): a task   *)
(* owns the socket, keeps a registration for every attached stream, sends  *)
(* a slot to the provider once however many streams ask for it, and after  *)
(* a loss re-subscribes on behalf of the streams that have not come back   *)
(* yet, holding their frames until they do or their time is up.            *)
(*                                                                         *)
(* The task handles one command at a time; a handshake inside a command    *)
(* reads the socket, so frames are routed while commands wait.  What the   *)
(* provider decides, it decides as the message is sent; the answer is read *)
(* later, perhaps after the task has stopped waiting for it.               *)
(***************************************************************************)
EXTENDS Naturals, FiniteSets, Sequences, SequencesExt

CONSTANTS
    Stream,      \* streams, each with a batch of its own
    Slot,        \* subscriptions as the provider counts them
    SlotsOf,     \* the slots a stream's batch asks for
    Id,          \* 1..n: attach ids (never reused; see FreshId)
    Grace,       \* REATTACH_GRACE, in ticks
    Settings,    \* the protocols a run explores, each with its bounds
    Nobody,      \* no registration
    NoStream     \* no caller to answer

ASSUME SlotsOfAssumption == IsFiniteSet(Slot) /\ SlotsOf \in [Stream -> (SUBSET Slot) \ {{}}]
ASSUME GraceAssumption == Grace \in Nat \ {0}
ASSUME NullAssumption ==
    /\ 0 \notin Id /\ NoStream \notin Stream
    /\ Nobody \notin [stream : Stream, sink : {"Live", "Held", "Lost"}, left : 0..Grace,
                      frames : Seq(Nat), due : Seq(Nat)]
ASSUME SettingsAssumption ==
    Settings \subseteq [provider : {"Alpaca", "Massive", "LSE"},
                        frames : Nat, faults : Nat, timeouts : Nat, queue : Nat,
                        leavers : SUBSET Stream]

VARIABLES
    setting,        \* whose protocol the connection speaks, and the bounds of the run
    registrations,  \* Registry::registrations
    index,          \* Registry::index, as pairs of a slot and a holder
    socket,         \* the task's socket, the provider's side of it and what is unread
    current,        \* the handshake the task is in
    queue,          \* commands sent to the task
    phase,          \* what each stream is doing
    attachment,     \* the id of each stream's attachment
    published,      \* data frames sent so far
    faults,         \* faults so far
    timeouts        \* handshakes given up too early so far

vars ==
    <<setting, registrations, index, socket, current, queue, phase, attachment,
      published, faults, timeouts>>

NoId == 0

provider == setting.provider

\* Bounds: data frames the provider sends; refusals, losses, failed connects and
\* failed sends; handshakes that stop waiting for an answer on its way; commands
\* waiting; and the streams that may be dropped.
MaxFrames == setting.frames
MaxFaults == setting.faults
MaxTimeouts == setting.timeouts
MaxQueue == setting.queue
Leavers == setting.leavers

\* Protocol::REFUSAL_IS_ATOMIC, whether Protocol::release returns a handshake, Protocol::KEEPALIVE.
RefusalIsAtomic == provider = "Alpaca"
ConfirmsRelease == provider = "Alpaca"
HasKeepalive == provider = "Massive"

-----------------------------------------------------------------------------
(* Registrations and the index over them.                                  *)

\* `frames`: what was sent to an attached stream, or is held for it; `due`: what
\* the socket delivered for the stream since this socket routes to it.
Registration ==
    [stream : Stream, sink : {"Live", "Held", "Lost"}, left : 0..Grace,
     frames : Seq(1..MaxFrames), due : Seq(1..MaxFrames)]

Live(s) == [stream |-> s, sink |-> "Live", left |-> 0, frames |-> <<>>, due |-> <<>>]

IsEmpty(rs) == \A id \in Id : rs[id] = Nobody

IsRouted(rs, id) == rs[id] # Nobody /\ rs[id].sink # "Lost"

IsLive(rs, id) == rs[id] # Nobody /\ rs[id].sink = "Live"

IsWaiting(rs, id) == rs[id] # Nobody /\ rs[id].sink # "Live"

IsRequestedBy(rs, id, s) == rs[id] # Nobody /\ SlotsOf[rs[id].stream] = SlotsOf[s]

Link(ix, id, s) == ix \cup (SlotsOf[s] \X {id})

Unlink(ix, id) == {h \in ix : h[2] # id}

HeldSlots(ix) == {h[1] : h \in ix}

Orphaned(before, after) == HeldSlots(before) \ HeldSlots(after)

\* An id no registration, attachment or command names stands for a new one.
FreshIds ==
    Id \ ({id \in Id : registrations[id] # Nobody}
          \cup {attachment[s] : s \in Stream} \cup {current.id}
          \cup {queue[i].id : i \in DOMAIN queue})

FreshId == CHOOSE id \in FreshIds : TRUE

\* Mutant: every loss starts the wait again.
LoseAllAfresh(rs) ==
    [id \in Id |-> IF rs[id] = Nobody THEN Nobody
                   ELSE [rs[id] EXCEPT !.sink = "Lost", !.frames = <<>>, !.due = <<>>, !.left = Grace]]

\* lose_all: an attached registration waits for Grace; one that was waiting keeps its deadline.
LoseAll(rs) ==
    [id \in Id |-> IF rs[id] = Nobody THEN Nobody
                   ELSE [rs[id] EXCEPT !.sink = "Lost", !.frames = <<>>, !.due = <<>>,
                                       !.left = IF IsLive(rs, id) THEN Grace ELSE @]]

\* hold_lost: a new socket holds frames for every registration that lost its own.
HoldLost(rs) == [id \in Id |-> IF rs[id] = Nobody THEN Nobody ELSE [rs[id] EXCEPT !.sink = "Held"]]

LinkAll(rs) == UNION {SlotsOf[rs[id].stream] \X {id} : id \in {i \in Id : IsRouted(rs, i)}}

\* forget_lost: the request supersedes what its stream left behind.
ForgetLost(rs, s) ==
    LET own == {id \in Id : IsRequestedBy(rs, id, s) /\ ~IsRouted(rs, id)} IN
    IF own = {} THEN {rs} ELSE {[rs EXCEPT ![id] = Nobody] : id \in own}

-----------------------------------------------------------------------------
(* The socket.                                                             *)

ClosedSocket ==
    [open |-> FALSE, subscribed |-> {}, provided |-> {}, wire |-> <<>>,
     unanswered |-> FALSE, silent |-> FALSE, late |-> FALSE]

\* `provided` is what the provider streams; `wire` what it sent and nobody read;
\* `late` that a release ended without its confirmation.
OpenSocket == [ClosedSocket EXCEPT !.open = TRUE]

Data(x, n) == [kind |-> "data", slot |-> x, n |-> n]

Answer(ok, refused) == [kind |-> "answer", ok |-> ok, refused |-> refused]

Pong == [kind |-> "pong"]

\* The provider may refuse: what it accepts of the slots sent, and what it answers.
Accepted(sending) ==
    {accepted \in SUBSET sending :
        /\ RefusalIsAtomic => accepted \in {{}, sending}
        /\ accepted # sending => faults < MaxFaults}

\* Alpaca reports all it streams; Massive names what it accepts; the London
\* Strategic Edge answers each subscribe by itself.
SubscribeAnswers(provided, sending, accepted) ==
    CASE provider = "Alpaca" ->
            <<IF accepted = sending THEN Answer(provided \cup sending, FALSE) ELSE Answer({}, TRUE)>>
      [] provider = "Massive" -> <<Answer(accepted, accepted # sending)>>
      [] provider = "LSE" ->
            LET order == SetToSeq(sending)
            IN  [i \in DOMAIN order |-> Answer({order[i]} \cap accepted, order[i] \notin accepted)]

Subscribed(sock, sending, accepted) ==
    IF sock.silent THEN sock
    ELSE [sock EXCEPT !.provided = @ \cup accepted,
                      !.wire = @ \o SubscribeAnswers(sock.provided, sending, accepted)]

\* Only Alpaca's answer to an unsubscribe is one a handshake reads.
Unsubscribed(sock, slots) ==
    LET left == [sock EXCEPT !.subscribed = @ \ slots] IN
    IF sock.silent THEN left
    ELSE [left EXCEPT !.provided = @ \ slots,
                      !.wire = IF ConfirmsRelease THEN Append(@, Answer(sock.provided \ slots, FALSE)) ELSE @]

\* What a handshake still waits for once it has read an answer.  A count is a
\* set of that many slots, whichever they are.
Outstanding(answer) ==
    CASE provider = "Alpaca" /\ current.op = "subscribing" ->
            IF current.outstanding \subseteq answer.ok THEN {} ELSE current.outstanding
      [] provider = "Alpaca" /\ current.op = "releasing" ->
            IF current.outstanding \cap answer.ok = {} THEN {} ELSE current.outstanding
      [] provider = "Massive" -> current.outstanding \ answer.ok
      [] provider = "LSE" -> current.outstanding \ {CHOOSE x \in current.outstanding : TRUE}

-----------------------------------------------------------------------------
(* Answering callers, and the ways an operation ends.                      *)

Idle ==
    [op |-> "idle", id |-> NoId, stream |-> NoStream, waits |-> FALSE, fresh |-> FALSE,
     sending |-> {}, outstanding |-> {}]

Attach(s) == [op |-> "attach", stream |-> s, waits |-> TRUE, id |-> NoId]

Detach(id) == [op |-> "detach", stream |-> NoStream, waits |-> FALSE, id |-> id]

Fault == faults < MaxFaults /\ faults' = faults + 1

\* Mutant: an attachment nobody waits for is forgotten.
ReplyToNobody(q, s, waits, id) ==
    IF waits
    THEN /\ phase' = [phase EXCEPT ![s] = "attached"]
         /\ attachment' = [attachment EXCEPT ![s] = id]
         /\ queue' = q
    ELSE queue' = q /\ UNCHANGED <<phase, attachment>>

\* The attachment is handed over; one nobody waits for is dropped, and its detach follows.
ReplyAttached(q, s, waits, id) ==
    IF waits
    THEN /\ phase' = [phase EXCEPT ![s] = "attached"]
         /\ attachment' = [attachment EXCEPT ![s] = id]
         /\ queue' = q
    ELSE queue' = Append(q, Detach(id)) /\ UNCHANGED <<phase, attachment>>

\* An error is retried by the stream; a release on nobody's behalf answers nobody.
ReplyError(q, s, waits) ==
    /\ phase' = IF waits THEN [phase EXCEPT ![s] = "seeking"] ELSE phase
    /\ queue' = q
    /\ UNCHANGED attachment

\* lose: every stream on the socket ends.
LoseSocket(rs) ==
    /\ socket' = ClosedSocket
    /\ registrations' = LoseAll(rs)
    /\ index' = {}
    /\ current' = Idle

\* Mutant: a release does not wait for the provider to confirm it.
ReleaseWithoutWaiting(rs, ix, sock, slots, q, s, waits) ==
    /\ registrations' = rs
    /\ index' = ix
    /\ socket' = IF IsEmpty(rs) THEN ClosedSocket
                 ELSE IF sock.open THEN Unsubscribed(sock, slots) ELSE sock
    /\ current' = Idle
    /\ ReplyError(q, s, waits)
    /\ UNCHANGED faults

\* release: unsubscribe what nothing holds, or close the socket if nothing remains.
Release(rs, ix, sock, slots, q, s, waits) ==
    \/ /\ IsEmpty(rs) \/ ~sock.open \/ slots = {}
       /\ registrations' = rs
       /\ index' = ix
       /\ socket' = IF IsEmpty(rs) THEN ClosedSocket ELSE sock
       /\ current' = Idle
       /\ ReplyError(q, s, waits)
       /\ UNCHANGED faults
    \/ /\ ~IsEmpty(rs) /\ sock.open /\ slots # {}
       /\ registrations' = rs
       /\ index' = ix
       /\ socket' = Unsubscribed(sock, slots)
       /\ \/ /\ ConfirmsRelease
             /\ current' = [Idle EXCEPT !.op = "releasing", !.stream = s, !.waits = waits,
                                        !.outstanding = slots]
             /\ queue' = q
             /\ UNCHANGED <<phase, attachment>>
          \/ /\ ~ConfirmsRelease
             /\ current' = Idle
             /\ ReplyError(q, s, waits)
       /\ UNCHANGED faults
    \/ /\ ~IsEmpty(rs) /\ sock.open /\ slots # {}
       /\ Fault
       /\ LoseSocket(rs)
       /\ ReplyError(q, s, waits)

\* subscribe: register the request and send what the socket does not hold yet; on
\* a fresh socket that is everything any registration holds.
Subscribe(rs, ix, sock, fresh, q, s, waits) ==
    LET id == FreshId
        with == [rs EXCEPT ![id] = Live(s)]
        linked == Link(ix, id, s)
        sending == (SlotsOf[s] \cup (IF fresh THEN HeldSlots(ix) ELSE {})) \ sock.subscribed
    IN  /\ FreshIds # {}
        /\ \/ /\ sending = {}
              /\ registrations' = with
              /\ index' = linked
              /\ socket' = sock
              /\ current' = Idle
              /\ ReplyAttached(q, s, waits, id)
              /\ UNCHANGED faults
           \/ /\ sending # {}
              /\ \E accepted \in IF sock.silent THEN {sending} ELSE Accepted(sending) :
                    /\ socket' = Subscribed(sock, sending, accepted)
                    /\ faults' = IF accepted = sending THEN faults ELSE faults + 1
              /\ registrations' = with
              /\ index' = linked
              /\ current' = [op |-> "subscribing", id |-> id, stream |-> s, waits |-> waits,
                             fresh |-> fresh, sending |-> sending, outstanding |-> sending]
              /\ queue' = q
              /\ UNCHANGED <<phase, attachment>>
           \/ /\ sending # {}
              /\ Fault
              /\ LoseSocket(rs)
              /\ ReplyError(q, s, waits)

\* Mutant: a failed reconnect keeps its socket.
EndSubscribeKeepingSocket(sock, slots) ==
    LET rs == [registrations EXCEPT ![current.id] = Nobody]
        ix == Unlink(index, current.id)
    IN  Release(rs, ix, sock, slots, queue, current.stream, current.waits)

\* A subscribe that failed with `slots` to release.  On a fresh socket it leaves
\* nothing trustworthy: every stream goes back to waiting for the next one.
EndSubscribe(sock, slots) ==
    LET rs == [registrations EXCEPT ![current.id] = Nobody]
        ix == Unlink(index, current.id)
    IN  \/ /\ current.fresh
           /\ LoseSocket(rs)
           /\ ReplyError(queue, current.stream, current.waits)
           /\ UNCHANGED faults
        \/ /\ ~current.fresh
           /\ Release(rs, ix, sock, slots, queue, current.stream, current.waits)

AddedSlots == Orphaned(index, Unlink(index, current.id))

\* Mutant: every refusal is taken to have added nothing.
NoSlots == {}

\* A refusal that is atomic added nothing that could be released.
RefusedSlots == IF RefusalIsAtomic THEN {} ELSE AddedSlots

-----------------------------------------------------------------------------
(* Commands.                                                               *)

Takes(op) == current = Idle /\ queue # <<>> /\ Head(queue).op = op

\* Mutant: the registration keeps its id.
ReattachInPlace ==
    LET request == Head(queue) IN
    /\ Takes("attach") /\ socket.open
    /\ \E held \in Id :
          /\ IsRequestedBy(registrations, held, request.stream)
          /\ registrations[held].sink = "Held"
          /\ registrations' = [registrations EXCEPT ![held] = [@ EXCEPT !.sink = "Live", !.left = 0]]
          /\ ReplyAttached(Tail(queue), request.stream, request.waits, held)
    /\ UNCHANGED <<setting, index, socket, current, published, faults, timeouts>>

\* Mutant: the held frames are handed over from the last to the first.
MoveToBackwards(id, rs, held) ==
    [rs EXCEPT ![held] = Nobody,
               ![id] = [rs[held] EXCEPT !.sink = "Live", !.left = 0, !.frames = Reverse(@)]]

\* reattach: the stream's held registration becomes live again, under a new id, and
\* what was held for it goes into its channel.
MoveTo(id, rs, held) ==
    [rs EXCEPT ![held] = Nobody, ![id] = [rs[held] EXCEPT !.sink = "Live", !.left = 0]]

Reattach ==
    LET request == Head(queue) IN
    /\ Takes("attach") /\ socket.open /\ FreshIds # {}
    /\ \E held \in Id :
          /\ IsRequestedBy(registrations, held, request.stream)
          /\ registrations[held].sink = "Held"
          /\ registrations' = MoveTo(FreshId, registrations, held)
          /\ index' = Link(Unlink(index, held), FreshId, request.stream)
    /\ ReplyAttached(Tail(queue), request.stream, request.waits, FreshId)
    /\ UNCHANGED <<setting, socket, current, published, faults, timeouts>>

\* P::check may refuse a request before anything is done for it.
AttachToOpen ==
    LET request == Head(queue) IN
    /\ Takes("attach") /\ socket.open
    /\ ~\E held \in Id : /\ IsRequestedBy(registrations, held, request.stream)
                         /\ registrations[held].sink = "Held"
    /\ \/ Subscribe(registrations, index, socket, FALSE, Tail(queue), request.stream, request.waits)
       \/ /\ Fault
          /\ ReplyError(Tail(queue), request.stream, request.waits)
          /\ UNCHANGED <<registrations, index, socket, current>>
    /\ UNCHANGED <<setting, published, timeouts>>

\* The first stream to come back reconnects for all of them.
Reconnect ==
    LET request == Head(queue) IN
    /\ Takes("attach") /\ ~socket.open
    /\ \E rs \in ForgetLost(registrations, request.stream) :
          \/ Subscribe(HoldLost(rs), LinkAll(HoldLost(rs)), OpenSocket, TRUE,
                       Tail(queue), request.stream, request.waits)
          \/ /\ Fault
             /\ LoseSocket(HoldLost(rs))
             /\ ReplyError(Tail(queue), request.stream, request.waits)
          \/ /\ Fault
             /\ registrations' = rs
             /\ ReplyError(Tail(queue), request.stream, request.waits)
             /\ UNCHANGED <<index, socket, current>>
    /\ UNCHANGED <<setting, published, timeouts>>

\* detach removes an attached registration only: one that lost its socket is
\* waiting for its stream, whose old attachment this is.
TakeDetach ==
    LET id == Head(queue).id
        ix == Unlink(index, id)
    IN  /\ Takes("detach")
        /\ \/ /\ IsLive(registrations, id)
              /\ Release([registrations EXCEPT ![id] = Nobody], ix, socket, Orphaned(index, ix),
                         Tail(queue), NoStream, FALSE)
           \/ /\ ~IsLive(registrations, id)
              /\ queue' = Tail(queue)
              /\ UNCHANGED <<registrations, index, socket, current, phase, attachment, faults>>
        /\ UNCHANGED <<setting, published, timeouts>>

\* expire: give up on whoever has not come back in time.
Expire ==
    LET expired == {id \in Id : IsWaiting(registrations, id) /\ registrations[id].left = 0}
        rs == [id \in Id |-> IF id \in expired THEN Nobody ELSE registrations[id]]
        ix == {h \in index : h[2] \notin expired}
    IN  /\ current = Idle /\ expired # {}
        /\ Release(rs, ix, socket, Orphaned(index, ix), queue, NoStream, FALSE)
        /\ UNCHANGED <<setting, published, timeouts>>

-----------------------------------------------------------------------------
(* Reading the socket.                                                     *)

\* Any read shows the socket alive.
Reads(kind) == socket.wire # <<>> /\ Head(socket.wire).kind = kind

AfterRead == [socket EXCEPT !.wire = Tail(@), !.unanswered = FALSE]

\* A data frame goes to every holder of its slot: to the stream, or kept for it.
Route(rs, frame) ==
    [id \in Id |->
        IF rs[id] = Nobody THEN Nobody
        ELSE [rs[id] EXCEPT
                !.frames = IF <<frame.slot, id>> \in index THEN Append(@, frame.n) ELSE @,
                !.due = IF IsRouted(rs, id) /\ frame.slot \in SlotsOf[rs[id].stream]
                        THEN Append(@, frame.n) ELSE @]]

ReadData ==
    /\ Reads("data")
    /\ socket' = AfterRead
    /\ registrations' = Route(registrations, Head(socket.wire))
    /\ UNCHANGED <<setting, index, current, queue, phase, attachment, published, faults, timeouts>>

\* A pong, or an answer no handshake waits for.
ReadUnawaited ==
    /\ Reads("pong") \/ (Reads("answer") /\ current = Idle)
    /\ socket' = AfterRead
    /\ UNCHANGED <<setting, registrations, index, current, queue, phase, attachment, published,
                   faults, timeouts>>

\* A release ends whether it was confirmed, refused or given up on.
EndRelease(sock, late) ==
    /\ socket' = [sock EXCEPT !.late = @ \/ late]
    /\ current' = Idle
    /\ ReplyError(queue, current.stream, current.waits)
    /\ UNCHANGED <<registrations, index, faults>>

\* One answer taken by the handshake under way.
ReadAnswer ==
    LET answer == Head(socket.wire) IN
    /\ Reads("answer") /\ current # Idle
    /\ \/ /\ ~answer.refused /\ Outstanding(answer) # {}
          /\ socket' = AfterRead
          /\ current' = [current EXCEPT !.outstanding = Outstanding(answer)]
          /\ UNCHANGED <<registrations, index, queue, phase, attachment, faults>>
       \/ /\ ~answer.refused /\ Outstanding(answer) = {}
          /\ current.op = "subscribing"
          /\ socket' = [AfterRead EXCEPT !.subscribed = @ \cup current.sending]
          /\ current' = Idle
          /\ ReplyAttached(queue, current.stream, current.waits, current.id)
          /\ UNCHANGED <<registrations, index, faults>>
       \/ /\ ~answer.refused /\ Outstanding(answer) = {}
          /\ current.op = "releasing"
          /\ EndRelease(AfterRead, FALSE)
       \/ /\ answer.refused
          /\ current.op = "subscribing"
          /\ EndSubscribe(AfterRead, RefusedSlots)
       \/ /\ answer.refused
          /\ current.op = "releasing"
          /\ EndRelease(AfterRead, TRUE)
    /\ UNCHANGED <<setting, published, timeouts>>

\* The handshake stops waiting, with answers on their way or with none to come.
TimeOut ==
    /\ current # Idle
    /\ \/ socket.wire = <<>> /\ UNCHANGED timeouts
       \/ socket.wire # <<>> /\ timeouts < MaxTimeouts /\ timeouts' = timeouts + 1
    /\ \/ current.op = "subscribing" /\ EndSubscribe(socket, AddedSlots)
       \/ current.op = "releasing" /\ EndRelease(socket, TRUE)
    /\ UNCHANGED <<setting, published>>

\* The socket ends, errs, or is closed by the provider; a subscribe under way
\* fails with it, and its registration goes.
Lose ==
    /\ socket.open
    /\ LoseSocket(IF current.op = "subscribing" THEN [registrations EXCEPT ![current.id] = Nobody]
                  ELSE registrations)
    /\ IF current = Idle THEN UNCHANGED <<phase, attachment, queue>>
       ELSE ReplyError(queue, current.stream, current.waits)

LostByNetwork == Fault /\ Lose /\ UNCHANGED <<setting, published, timeouts>>

\* The transport gives up on a silent socket, and the next read or send fails.
GiveUp == socket.silent /\ Lose /\ UNCHANGED <<setting, published, faults, timeouts>>

\* Mutant: a ping nobody answered is sent again.
PingForEver ==
    /\ current = Idle /\ socket.open /\ HasKeepalive /\ socket.wire = <<>>
    /\ socket' = [socket EXCEPT !.unanswered = TRUE,
                                !.wire = IF socket.silent THEN @ ELSE Append(@, Pong)]
    /\ UNCHANGED <<setting, registrations, index, current, queue, phase, attachment, published,
                   faults, timeouts>>

\* keepalive: lose a socket that delivered nothing since the last ping.  A ping
\* is due long after whatever arrived was read (KEEPALIVE is 20 s).
Keepalive ==
    /\ current = Idle /\ socket.open /\ HasKeepalive /\ socket.wire = <<>>
    /\ \/ socket.unanswered /\ Lose /\ UNCHANGED faults
       \/ /\ ~socket.unanswered
          /\ socket' = [socket EXCEPT !.unanswered = TRUE,
                                      !.wire = IF socket.silent THEN @ ELSE Append(@, Pong)]
          /\ UNCHANGED <<registrations, index, current, queue, phase, attachment, faults>>
    /\ UNCHANGED <<setting, published, timeouts>>

-----------------------------------------------------------------------------
(* Streams, the provider and time.                                         *)

\* The caller of the attach of `s` under way or queued.
Dropped(q, s) == [i \in DOMAIN q |-> IF q[i].stream = s THEN [q[i] EXCEPT !.waits = FALSE] ELSE q[i]]

Join(s) ==
    /\ phase[s] = "gone"
    /\ phase' = [phase EXCEPT ![s] = "seeking"]
    /\ UNCHANGED <<setting, registrations, index, socket, current, queue, attachment, published,
                   faults, timeouts>>

SendAttach(s) ==
    /\ phase[s] = "seeking" /\ Len(queue) < MaxQueue
    /\ phase' = [phase EXCEPT ![s] = "waiting"]
    /\ queue' = Append(queue, Attach(s))
    /\ UNCHANGED <<setting, registrations, index, socket, current, attachment, published, faults,
                   timeouts>>

\* Mutant: the stream forgets that its attachment is gone.
SeeEndKeepingAttachment(s) ==
    /\ phase[s] = "attached" /\ ~IsLive(registrations, attachment[s])
    /\ phase' = [phase EXCEPT ![s] = "seeking"]
    /\ queue' = Append(queue, Detach(attachment[s]))
    /\ UNCHANGED <<setting, registrations, index, socket, current, attachment, published, faults,
                   timeouts>>

\* The channel of an attached stream ended: the reconnect wrapper drops the
\* attachment and attaches again.
SeeEnd(s) ==
    /\ phase[s] = "attached" /\ ~IsLive(registrations, attachment[s])
    /\ phase' = [phase EXCEPT ![s] = "seeking"]
    /\ queue' = Append(queue, Detach(attachment[s]))
    /\ attachment' = [attachment EXCEPT ![s] = NoId]
    /\ UNCHANGED <<setting, registrations, index, socket, current, published, faults, timeouts>>

\* A stream is dropped: between attempts, waiting for one, or attached.
Leave(s) ==
    /\ s \in Leavers /\ phase[s] # "gone" /\ Len(queue) < MaxQueue
    /\ phase' = [phase EXCEPT ![s] = "gone"]
    /\ attachment' = [attachment EXCEPT ![s] = NoId]
    /\ queue' = CASE phase[s] = "attached" -> Append(queue, Detach(attachment[s]))
                  [] phase[s] = "waiting" -> Dropped(queue, s)
                  [] phase[s] = "seeking" -> queue
    /\ current' = IF current.stream = s THEN [current EXCEPT !.waits = FALSE] ELSE current
    /\ UNCHANGED <<setting, registrations, index, socket, published, faults, timeouts>>

\* The provider sends data for what it streams.
Publish(x) ==
    /\ socket.open /\ ~socket.silent /\ x \in socket.provided
    /\ published < MaxFrames
    /\ published' = published + 1
    /\ socket' = [socket EXCEPT !.wire = Append(@, Data(x, published + 1))]
    /\ UNCHANGED <<setting, registrations, index, current, queue, phase, attachment, faults,
                   timeouts>>

\* A route is dropped without a close, whoever the provider: nothing more comes,
\* and sends seem to succeed.
GoSilent ==
    /\ socket.open /\ ~socket.silent /\ Fault
    /\ socket' = [socket EXCEPT !.silent = TRUE]
    /\ UNCHANGED <<setting, registrations, index, current, queue, phase, attachment, published,
                   timeouts>>

Tick ==
    /\ \E id \in Id : IsWaiting(registrations, id) /\ registrations[id].left > 0
    /\ registrations' =
          [id \in Id |-> IF IsWaiting(registrations, id) /\ registrations[id].left > 0
                         THEN [registrations[id] EXCEPT !.left = @ - 1] ELSE registrations[id]]
    /\ UNCHANGED <<setting, index, socket, current, queue, phase, attachment, published, faults,
                   timeouts>>

Init ==
    /\ setting \in Settings
    /\ registrations = [id \in Id |-> Nobody]
    /\ index = {}
    /\ socket = ClosedSocket
    /\ current = Idle
    /\ queue = <<>>
    /\ phase = [s \in Stream |-> "gone"]
    /\ attachment = [s \in Stream |-> NoId]
    /\ published = 0 /\ faults = 0 /\ timeouts = 0

Command == Reattach \/ AttachToOpen \/ Reconnect \/ TakeDetach

Read == ReadData \/ ReadUnawaited \/ ReadAnswer

Caller(s) == SendAttach(s) \/ SeeEnd(s)

Next ==
    \/ Command \/ Read \/ TimeOut \/ LostByNetwork \/ GiveUp \/ Keepalive \/ Expire
    \/ \E s \in Stream : Caller(s) \/ Join(s) \/ Leave(s)
    \/ \E x \in Slot : Publish(x)
    \/ GoSilent \/ Tick

Spec == Init /\ [][Next]_vars

\* The task's loop polls whatever is ready and `select!` picks at random, so a
\* timer is not passed over for ever by commands; streams retry without limit.
\* Without a keepalive nothing in the code ends a silent socket: there the network
\* is trusted to, once handshakes keep being sent into it.
Fairness ==
    /\ WF_vars(Command) /\ WF_vars(Read)
    /\ WF_vars(socket.wire = <<>> /\ TimeOut) /\ WF_vars(Tick)
    /\ SF_vars(Expire) /\ SF_vars(Keepalive)
    /\ SF_vars(~HasKeepalive /\ current # Idle /\ GiveUp)
    /\ \A s \in Stream : SF_vars(SendAttach(s)) /\ WF_vars(SeeEnd(s))

FairSpec == Spec /\ Fairness

-----------------------------------------------------------------------------
(* Properties.                                                             *)

Frame ==
    [kind : {"data"}, slot : Slot, n : 1..MaxFrames]
    \cup [kind : {"answer"}, ok : SUBSET Slot, refused : BOOLEAN] \cup [kind : {"pong"}]

\* Type invariant: a registration is nobody's or a stream's; a stream has an
\* attachment exactly while it is attached.
SocketTypeOK ==
    /\ setting \in Settings
    /\ registrations \in [Id -> Registration \cup {Nobody}]
    /\ index \in SUBSET (Slot \X Id)
    /\ socket \in [open : BOOLEAN, subscribed : SUBSET Slot, provided : SUBSET Slot, wire : Seq(Frame),
                   unanswered : BOOLEAN, silent : BOOLEAN, late : BOOLEAN]
    /\ current \in [op : {"idle", "subscribing", "releasing"}, id : Id \cup {NoId},
                    stream : Stream \cup {NoStream}, waits : BOOLEAN, fresh : BOOLEAN,
                    sending : SUBSET Slot, outstanding : SUBSET Slot]
    /\ queue \in Seq([op : {"attach", "detach"}, stream : Stream \cup {NoStream}, waits : BOOLEAN,
                      id : Id \cup {NoId}])
    /\ phase \in [Stream -> {"gone", "seeking", "waiting", "attached"}]
    /\ attachment \in [Stream -> Id \cup {NoId}]
    /\ \A s \in Stream : phase[s] = "attached" <=> attachment[s] # NoId
    /\ published \in 0..MaxFrames /\ faults \in 0..MaxFaults /\ timeouts \in 0..MaxTimeouts

\* Between two operations an open socket serves somebody, and is subscribed to
\* what its registrations hold, whichever subscribes, releases and reconnects
\* failed before (actor.rs:180-184, 255-280, 378-400).
SocketServesRegistry ==
    current = Idle /\ socket.open =>
        ~IsEmpty(registrations) /\ socket.subscribed = HeldSlots(index)

\* A registration's stream has been sent, or is held, every frame for its slots
\* that the socket delivered since it routes to the registration, once and in
\* order, through a re-attach too (registry.rs:259-291).
FramesReachTheirStream ==
    \A id \in Id : registrations[id] # Nobody => registrations[id].frames = registrations[id].due

\* Between two operations the provider streams nothing that no registration
\* holds: what a failed attach may have added was reclaimed (actor.rs:255-280).
\* Where a refusal is atomic this needs every release to have been confirmed.
NothingStreamsUnwanted ==
    current = Idle /\ socket.open /\ ~socket.silent /\ (RefusalIsAtomic => ~socket.late) =>
        socket.provided \subseteq HeldSlots(index)

\* Where releases are waited for, and confirmed in time, a handshake takes no
\* other answer for its own: what it confirmed, the provider streams (actor.rs:381-382).
ConfirmedIsStreamed ==
    ConfirmsRelease /\ ~socket.late => socket.subscribed \subseteq socket.provided

\* A registration goes only when its time is up, when its own stream asks again,
\* or when nobody is attached to it any longer: no detach of an earlier attachment
\* takes a stream's place, waiting or re-attached (registry.rs:244-291).
PlacesAreKept ==
    [][\A id \in Id :
          registrations[id] # Nobody /\ registrations'[id] = Nobody =>
             \/ IsWaiting(registrations, id) /\ registrations[id].left = 0
             \/ /\ IsWaiting(registrations, id)
                /\ Takes("attach") /\ IsRequestedBy(registrations, id, Head(queue).stream)
             \/ IsLive(registrations, id) /\ \A s \in Stream : attachment[s] # id]_vars

\* While a registration waits for its stream its time only runs down: a
\* reconnect that fails does not extend it (registry.rs:304-325).
GraceRunsFromTheLoss ==
    [][\A id \in Id :
          IsWaiting(registrations, id) /\ IsWaiting(registrations', id) =>
             registrations'[id].left <= registrations[id].left]_vars

\* A stream that keeps asking is attached in the end, though the socket is lost,
\* refuses it for a while, or goes silent: where the provider is pinged the task
\* finds that out by itself (actor.rs:454-479), and where it is not, attaches
\* time out on the socket until the network ends it (mod.rs:41-48, 121).
EveryStreamAttaches ==
    \A s \in Stream : phase[s] = "seeking" ~> phase[s] \in {"attached", "gone"}

\* Once every stream is gone for good the socket closes and nothing is
\* re-subscribed on their behalf: a registration whose caller stopped waiting
\* is removed by itself (actor.rs:111-117, 339-376).
UnwantedSocketCloses ==
    (\A s \in Stream : phase[s] = "gone") ~>
        (\E s \in Stream : phase[s] # "gone") \/ (~socket.open /\ IsEmpty(registrations))
=============================================================================
