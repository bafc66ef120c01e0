-------------------------- MODULE SharedSocketProofs --------------------------
(***************************************************************************)
(* One socket serves any number of streams: whatever attaches, leaves, is  *)
(* refused, lost or given up on, and for every protocol, the socket is     *)
(* subscribed to what its registrations hold, each frame reaches the       *)
(* streams that asked for it, and nothing streams that nobody wants.       *)
(*                                                                         *)
(* The invariant has two halves.  On the callers' side an id names one     *)
(* attachment, whoever holds it: a registration, a stream, a queued detach *)
(* or the handshake under way; so a detach can only be of an attachment    *)
(* nobody has.  On the socket's side the index is what the registrations   *)
(* ask for, and the two accounts of the connection, the task's and the     *)
(* provider's, differ by what the handshake under way is about to settle.  *)
(***************************************************************************)
EXTENDS SharedSocket, FiniteSetTheorems, SequenceTheorems, TLAPS

Op == {"idle", "subscribing", "releasing"}

Handshake ==
    [op : Op, id : Id \cup {NoId}, stream : Stream \cup {NoStream}, waits : BOOLEAN,
     fresh : BOOLEAN, sending : SUBSET Slot, outstanding : SUBSET Slot]

Request ==
    [op : {"attach", "detach"}, stream : Stream \cup {NoStream}, waits : BOOLEAN, id : Id \cup {NoId}]

Registrations == [Id -> Registration \cup {Nobody}]

Connection ==
    [open : BOOLEAN, subscribed : SUBSET Slot, provided : SUBSET Slot, wire : Seq(Frame),
     unanswered : BOOLEAN, silent : BOOLEAN, late : BOOLEAN]

Phases == [Stream -> {"gone", "seeking", "waiting", "attached"}]

Attachments == [Stream -> Id \cup {NoId}]

\* What is so of the callers while the command of `s` is handled, which `waits`
\* for the attachment `id`: whoever waits is asking once, and an id in use names
\* one attachment.
CallersOK(q, phases, attachments, s, waits, id) ==
    /\ q \in Seq(Request) /\ phases \in Phases /\ attachments \in Attachments
    /\ waits => s \in Stream /\ phases[s] = "waiting"
    /\ \A i \in 1..Len(q) :
          /\ q[i].op = "attach" => q[i].stream \in Stream
          /\ q[i].waits => /\ q[i].op = "attach" /\ phases[q[i].stream] = "waiting"
                           /\ ~(waits /\ s = q[i].stream)
          /\ q[i].op = "detach" => q[i].id # NoId
          /\ q[i].id # NoId => q[i].id # id /\ \A t \in Stream : attachments[t] # q[i].id
    /\ \A i, j \in 1..Len(q) :
          q[i].waits /\ q[j].waits /\ q[i].stream = q[j].stream => i = j
    /\ \A t \in Stream :
          /\ phases[t] = "attached" <=> attachments[t] # NoId
          /\ attachments[t] # NoId => /\ attachments[t] # id
                                      /\ \A u \in Stream : attachments[u] = attachments[t] => u = t

Callers == CallersOK(queue, phase, attachment, current.stream, current.waits, current.id)

\* Registrations that had every frame that was theirs.
Served(rs) ==
    /\ rs \in Registrations
    /\ \A id \in Id : rs[id] # Nobody => rs[id].frames = rs[id].due

\* The handshake under way.
HandshakeOK(cur, rs) ==
    /\ cur \in Handshake
    /\ cur.op = "idle" => cur = Idle
    /\ cur.op = "releasing" => cur.id = NoId /\ ConfirmsRelease
    /\ cur.op = "subscribing" =>
          /\ cur.stream \in Stream /\ cur.id \in Id /\ IsLive(rs, cur.id)
          /\ rs[cur.id].stream = cur.stream
          /\ cur.sending # {}

\* A closed socket serves nobody, and all wait for the next.
ConnectionOK(sock, cur, rs) ==
    /\ sock \in Connection
    /\ ~sock.open => sock = ClosedSocket /\ cur = Idle /\ \A id \in Id : ~IsRouted(rs, id)
    /\ sock.open => ~IsEmpty(rs)

\* What the registrations hold apart from the one being subscribed.
HeldBefore(cur, ix) == HeldSlots(Unlink(ix, cur.id))

\* The socket is subscribed to what is held, or is about to be.
SubscribedOK(sock, cur, ix) ==
    sock.open =>
        /\ cur.op # "subscribing" => sock.subscribed = HeldSlots(ix)
        /\ cur.op = "subscribing" =>
              /\ sock.subscribed \cup cur.sending = HeldSlots(ix)
              /\ ~cur.fresh => /\ sock.subscribed = HeldBefore(cur, ix)
                               /\ cur.sending \cap HeldBefore(cur, ix) = {}

\* Every release so far was confirmed, where that matters.
InTime(sock) == RefusalIsAtomic => ~sock.late

WantedOK(sock, ix) == sock.open /\ ~sock.silent /\ InTime(sock) => sock.provided \subseteq HeldSlots(ix)

Answers(w) == {i \in 1..Len(w) : w[i].kind = "answer"}

\* The one answer a subscribe waits for.
SubscribeIsAnswered(sock, cur, ix, i) ==
    /\ Answers(sock.wire) = {i}
    /\ cur.outstanding = cur.sending
    /\ \/ sock.wire[i] = Answer(sock.provided, FALSE) /\ cur.sending \subseteq sock.provided
       \/ sock.wire[i] = Answer({}, TRUE) /\ sock.provided \subseteq HeldBefore(cur, ix)

\* The answer to a release is the last, and no earlier one can be taken for it.
ReleaseIsAnswered(sock, cur, i) ==
    /\ sock.wire[i] = Answer(sock.provided, FALSE) /\ cur.outstanding \cap sock.provided = {}
    /\ \A j \in Answers(sock.wire) \ {i} :
          j < i /\ (sock.wire[j].refused \/ cur.outstanding \cap sock.wire[j].ok # {})

\* No answer on the wire can be taken for the release's.
ReleaseIsUnanswered(sock, cur) ==
    \A j \in Answers(sock.wire) : sock.wire[j].refused \/ cur.outstanding \cap sock.wire[j].ok # {}

\* While every release is confirmed in time no answer is taken for another's; on a
\* silent socket there may be none to come.
AnswersOK(sock, cur, ix) ==
    sock.open /\ ConfirmsRelease /\ ~sock.late =>
        /\ sock.subscribed \subseteq sock.provided
        /\ cur.op = "idle" => Answers(sock.wire) = {}
        /\ cur.op = "subscribing" =>
              \/ \E i \in Answers(sock.wire) : SubscribeIsAnswered(sock, cur, ix, i)
              \/ sock.silent /\ Answers(sock.wire) = {}
        /\ cur.op = "releasing" =>
              \/ \E i \in Answers(sock.wire) : ReleaseIsAnswered(sock, cur, i)
              \/ sock.silent /\ ReleaseIsUnanswered(sock, cur)

\* What a release may be asked for: the slots that separate what the socket is
\* subscribed to from what is held, when no answer can be mistaken for its own.
Releasable(rs, ix, sock, slots) ==
    /\ Served(rs) /\ ix = LinkAll(rs) /\ sock \in Connection /\ slots \in SUBSET Slot
    /\ ~sock.open => sock = ClosedSocket /\ \A id \in Id : ~IsRouted(rs, id)
    /\ sock.open => sock.subscribed \ slots = HeldSlots(ix)
    /\ sock.open /\ ~sock.silent /\ InTime(sock) => sock.provided \ slots \subseteq HeldSlots(ix)
    /\ sock.open /\ ConfirmsRelease /\ ~sock.late =>
          /\ sock.subscribed \subseteq sock.provided
          /\ slots = {} => Answers(sock.wire) = {}
          /\ \A j \in Answers(sock.wire) : sock.wire[j].refused \/ slots \cap sock.wire[j].ok # {}

\* What a subscribe starts from: an open socket with nothing unsettled, which a
\* reconnect has just opened.
Subscribable(rs, ix, sock, fresh) ==
    /\ Served(rs) /\ ix = LinkAll(rs) /\ sock \in Connection /\ sock.open
    /\ fresh => sock.subscribed = {}
    /\ ~fresh => sock.subscribed = HeldSlots(ix)
    /\ ~sock.silent /\ InTime(sock) => sock.provided \subseteq HeldSlots(ix)
    /\ ConfirmsRelease /\ ~sock.late =>
          sock.subscribed \subseteq sock.provided /\ Answers(sock.wire) = {}

\* The task's half: the registrations, the index, the socket and the handshake.
RegistryOK(rs, ix, sock, cur) ==
    /\ Served(rs) /\ HandshakeOK(cur, rs) /\ ConnectionOK(sock, cur, rs) /\ ix = LinkAll(rs)
    /\ SubscribedOK(sock, cur, ix) /\ WantedOK(sock, ix) /\ AnswersOK(sock, cur, ix)

Operation == HandshakeOK(current, registrations)

Registry == RegistryOK(registrations, index, socket, current)

Bounded ==
    /\ setting \in Settings
    /\ published \in 0..MaxFrames /\ faults \in 0..MaxFaults /\ timeouts \in 0..MaxTimeouts

SocketInv == Bounded /\ Callers /\ Registry

-----------------------------------------------------------------------------
(* Queues, ids and the types of registrations.                             *)

LEMMA Appending ==
    ASSUME NEW S, NEW q \in Seq(S), NEW e \in S
    PROVE  /\ Append(q, e) \in Seq(S) /\ Len(Append(q, e)) = Len(q) + 1
           /\ Len(q) \in Nat
           /\ \A i \in 1..Len(q) : i \in 1..(Len(q) + 1) /\ Append(q, e)[i] = q[i]
           /\ Len(q) + 1 \in 1..(Len(q) + 1) /\ Append(q, e)[Len(q) + 1] = e
           /\ \A i \in 1..(Len(q) + 1) : i \in 1..Len(q) \/ i = Len(q) + 1
OBVIOUS

LEMMA Taking ==
    ASSUME NEW S, NEW q \in Seq(S), q # <<>>
    PROVE  /\ Head(q) \in S /\ Tail(q) \in Seq(S) /\ Len(q) \in Nat \ {0}
           /\ 1 \in 1..Len(q) /\ Head(q) = q[1]
           /\ Len(Tail(q)) = Len(q) - 1
           /\ \A i \in 1..Len(Tail(q)) : i + 1 \in 1..Len(q) /\ i + 1 # 1 /\ Tail(q)[i] = q[i + 1]
           /\ \A i \in 1..Len(q) \ {1} : i - 1 \in 1..Len(Tail(q)) /\ Tail(q)[i - 1] = q[i]
<1>1. /\ Head(q) \in S /\ Tail(q) \in Seq(S) /\ Len(q) \in Nat \ {0}
      /\ Head(q) = q[1] /\ Len(Tail(q)) = Len(q) - 1
      /\ \A i \in 1..Len(Tail(q)) : Tail(q)[i] = q[i + 1]
  OBVIOUS
<1>2. /\ 1 \in 1..Len(q)
      /\ \A i \in 1..Len(Tail(q)) : i + 1 \in 1..Len(q) /\ i + 1 # 1
      /\ \A i \in 1..Len(q) \ {1} : i - 1 \in 1..Len(Tail(q)) /\ (i - 1) + 1 = i
  BY <1>1
<1>3. \A i \in 1..Len(q) \ {1} : Tail(q)[i - 1] = q[i]
  <2> SUFFICES ASSUME NEW i \in 1..Len(q) \ {1} PROVE Tail(q)[i - 1] = q[i]
    OBVIOUS
  <2>1. i - 1 \in 1..Len(Tail(q)) /\ (i - 1) + 1 = i
    BY <1>2
  <2>2. Tail(q)[i - 1] = q[(i - 1) + 1]
    BY <1>1, <2>1
  <2> QED
    BY <2>1, <2>2
<1> QED
  BY <1>1, <1>2, <1>3

\* A fresh id is in nobody's hands.
LEMMA FreshIdIsFree ==
    ASSUME FreshIds # {}, queue \in Seq(Request)
    PROVE  /\ FreshId \in Id /\ FreshId # NoId /\ registrations[FreshId] = Nobody
           /\ \A s \in Stream : attachment[s] # FreshId
           /\ \A i \in 1..Len(queue) : queue[i].id # FreshId
<1>1. FreshId \in FreshIds
  BY DEF FreshId
<1>2. DOMAIN queue = 1..Len(queue)
  OBVIOUS
<1> QED
  BY <1>1, <1>2, NullAssumption DEF FreshIds, NoId

\* What may be said of a pending attachment may be said of none, and of a free one.
LEMMA CallersForAnId ==
    ASSUME NEW q, NEW phases, NEW attachments, NEW s, NEW waits, NEW id,
           CallersOK(q, phases, attachments, s, waits, id)
    PROVE  /\ CallersOK(q, phases, attachments, s, waits, NoId)
           /\ \A free :
                 /\ \A t \in Stream : attachments[t] # free
                 /\ \A i \in 1..Len(q) : q[i].id # free
                 => CallersOK(q, phases, attachments, s, waits, free)
<1>1. CallersOK(q, phases, attachments, s, waits, NoId)
  BY Zenon DEF CallersOK
<1>2. ASSUME NEW free, \A t \in Stream : attachments[t] # free, \A i \in 1..Len(q) : q[i].id # free
      PROVE  CallersOK(q, phases, attachments, s, waits, free)
  BY <1>2, Zenon DEF CallersOK
<1> QED
  BY <1>1, <1>2, Zenon

-----------------------------------------------------------------------------
(* The callers, as commands are taken and answered.                        *)

LEMMA CommandTaken ==
    ASSUME Callers, current = Idle, queue # <<>>
    PROVE  /\ CallersOK(Tail(queue), phase, attachment, Head(queue).stream, Head(queue).waits, NoId)
           /\ Head(queue) \in Request
           /\ Head(queue).op = "attach" => Head(queue).stream \in Stream
           /\ Head(queue).op = "detach" =>
                 /\ Head(queue).id \in Id /\ \A t \in Stream : attachment[t] # Head(queue).id
                 /\ ~Head(queue).waits
           /\ \A i \in 1..Len(Tail(queue)) : \E j \in 1..Len(queue) : Tail(queue)[i] = queue[j]
<1> DEFINE q == Tail(queue)  c == Head(queue)
<1>1. queue \in Seq(Request)
  BY DEF Callers, CallersOK
<1>2. /\ c \in Request /\ q \in Seq(Request) /\ 1 \in 1..Len(queue) /\ c = queue[1]
      /\ \A i \in 1..Len(q) : i + 1 \in 1..Len(queue) /\ i + 1 # 1 /\ q[i] = queue[i + 1]
      /\ \A i, j \in 1..Len(q) : i + 1 = j + 1 => i = j
  BY <1>1, Taking
<1>3. CallersOK(queue, phase, attachment, NoStream, FALSE, NoId)
  BY DEF Callers, Idle
<1>4. /\ c.op = "attach" => c.stream \in Stream
      /\ c.waits => c.op = "attach" /\ phase[c.stream] = "waiting"
      /\ c.op = "detach" => c.id # NoId
      /\ c.id # NoId => \A t \in Stream : attachment[t] # c.id
  BY <1>2, <1>3 DEF CallersOK
<1>5. /\ phase \in Phases /\ attachment \in Attachments
      /\ \A t \in Stream :
            /\ phase[t] = "attached" <=> attachment[t] # NoId
            /\ attachment[t] # NoId => \A u \in Stream : attachment[u] = attachment[t] => u = t
  BY <1>3 DEF CallersOK
<1>6. ASSUME NEW i \in 1..Len(q)
      PROVE  /\ q[i].op = "attach" => q[i].stream \in Stream
             /\ q[i].waits => /\ q[i].op = "attach" /\ phase[q[i].stream] = "waiting"
                              /\ ~(c.waits /\ c.stream = q[i].stream)
             /\ q[i].op = "detach" => q[i].id # NoId
             /\ q[i].id # NoId => \A t \in Stream : attachment[t] # q[i].id
  BY <1>2, <1>3, <1>6 DEF CallersOK
<1>7. ASSUME NEW i \in 1..Len(q), NEW j \in 1..Len(q),
             q[i].waits, q[j].waits, q[i].stream = q[j].stream
      PROVE  i = j
  BY <1>2, <1>3, <1>7 DEF CallersOK
<1>8. CallersOK(q, phase, attachment, c.stream, c.waits, NoId)
  BY <1>2, <1>4, <1>5, <1>6, <1>7 DEF CallersOK
<1>9. c.op = "detach" => c.id \in Id /\ ~c.waits
  BY <1>2, <1>4 DEF Request
<1> QED
  BY <1>2, <1>4, <1>8, <1>9

LEMMA AttachReplied ==
    ASSUME NEW q, NEW s, NEW waits, NEW id \in Id,
           CallersOK(q, phase, attachment, s, waits, id), ReplyAttached(q, s, waits, id)
    PROVE  CallersOK(queue', phase', attachment', NoStream, FALSE, NoId)
<1>1. id # NoId
  BY NullAssumption DEF NoId
<1>2. CASE waits
  <2>1. /\ queue' = q /\ phase' = [phase EXCEPT ![s] = "attached"]
        /\ attachment' = [attachment EXCEPT ![s] = id] /\ s \in Stream /\ phase[s] = "waiting"
    BY <1>2 DEF ReplyAttached, CallersOK
  <2>2. /\ phase' \in Phases /\ attachment' \in Attachments
        /\ phase'[s] = "attached" /\ attachment'[s] = id
        /\ \A t \in Stream \ {s} : phase'[t] = phase[t] /\ attachment'[t] = attachment[t]
    BY <2>1 DEF CallersOK, Phases, Attachments
  <2>3. ASSUME NEW i \in 1..Len(q)
        PROVE  /\ q[i].op = "attach" => q[i].stream \in Stream
               /\ q[i].waits => q[i].op = "attach" /\ phase'[q[i].stream] = "waiting"
               /\ q[i].op = "detach" => q[i].id # NoId
               /\ q[i].id # NoId => \A t \in Stream : attachment'[t] # q[i].id
    <3>1. /\ q[i].op = "attach" => q[i].stream \in Stream
          /\ q[i].waits => /\ q[i].op = "attach" /\ phase[q[i].stream] = "waiting"
                           /\ s # q[i].stream
          /\ q[i].op = "detach" => q[i].id # NoId
          /\ q[i].id # NoId => q[i].id # id /\ \A t \in Stream : attachment[t] # q[i].id
      BY <1>2, <2>3 DEF CallersOK
    <3> QED
      BY <2>2, <3>1
  <2>4. ASSUME NEW t \in Stream
        PROVE  /\ phase'[t] = "attached" <=> attachment'[t] # NoId
               /\ attachment'[t] # NoId => \A u \in Stream : attachment'[u] = attachment'[t] => u = t
    BY <1>1, <2>2, <2>4 DEF CallersOK
  <2> QED
    BY <2>1, <2>2, <2>3, <2>4 DEF CallersOK
<1>3. CASE ~waits
  <2>1. queue' = Append(q, Detach(id)) /\ phase' = phase /\ attachment' = attachment
    BY <1>3 DEF ReplyAttached
  <2>2. Detach(id) \in Request /\ q \in Seq(Request)
    BY DEF Detach, Request, CallersOK
  <2>3. /\ queue' \in Seq(Request) /\ Len(queue') = Len(q) + 1
        /\ \A i \in 1..Len(queue') :
              \/ i \in 1..Len(q) /\ queue'[i] = q[i]
              \/ queue'[i] = Detach(id)
    BY <2>1, <2>2, Appending
  <2>4. /\ Detach(id).op = "detach" /\ Detach(id).waits = FALSE /\ Detach(id).id = id
    BY DEF Detach
  <2>5. \A t \in Stream : attachment[t] # id
    BY <1>1 DEF CallersOK
  <2>6. ASSUME NEW i \in 1..Len(queue')
        PROVE  /\ queue'[i].op = "attach" => queue'[i].stream \in Stream
               /\ queue'[i].waits => queue'[i].op = "attach" /\ phase'[queue'[i].stream] = "waiting"
               /\ queue'[i].op = "detach" => queue'[i].id # NoId
               /\ queue'[i].id # NoId => \A t \in Stream : attachment'[t] # queue'[i].id
    <3>1. CASE i \in 1..Len(q) /\ queue'[i] = q[i]
      BY <2>1, <3>1 DEF CallersOK
    <3>2. CASE queue'[i] = Detach(id)
      BY <1>1, <2>1, <2>4, <2>5, <3>2
    <3> QED
      BY <2>3, <3>1, <3>2
  <2>7. ASSUME NEW i \in 1..Len(queue'), NEW j \in 1..Len(queue'),
               queue'[i].waits, queue'[j].waits, queue'[i].stream = queue'[j].stream
        PROVE  i = j
    <3>1. i \in 1..Len(q) /\ queue'[i] = q[i] /\ j \in 1..Len(q) /\ queue'[j] = q[j]
      BY <2>3, <2>4, <2>7
    <3> QED
      BY <2>7, <3>1 DEF CallersOK
  <2>8. ASSUME NEW t \in Stream
        PROVE  /\ phase'[t] = "attached" <=> attachment'[t] # NoId
               /\ attachment'[t] # NoId => \A u \in Stream : attachment'[u] = attachment'[t] => u = t
    BY <2>1, <2>8 DEF CallersOK
  <2>9. phase' \in Phases /\ attachment' \in Attachments
    BY <2>1 DEF CallersOK
  <2> QED
    BY <2>3, <2>6, <2>7, <2>8, <2>9 DEF CallersOK
<1> QED
  BY <1>2, <1>3

LEMMA ErrorReplied ==
    ASSUME NEW q, NEW s, NEW waits, NEW id,
           CallersOK(q, phase, attachment, s, waits, id), ReplyError(q, s, waits)
    PROVE  CallersOK(queue', phase', attachment', NoStream, FALSE, NoId)
<1>1. queue' = q /\ attachment' = attachment
  BY DEF ReplyError
<1>2. CASE ~waits
  <2>1. phase' = phase
    BY <1>2 DEF ReplyError
  <2> QED
    BY <1>1, <2>1, Zenon DEF CallersOK
<1>3. CASE waits
  <2>1. phase' = [phase EXCEPT ![s] = "seeking"] /\ s \in Stream /\ phase[s] = "waiting"
    BY <1>3 DEF ReplyError, CallersOK
  <2>2. /\ phase' \in Phases /\ phase'[s] = "seeking"
        /\ \A t \in Stream \ {s} : phase'[t] = phase[t]
    BY <2>1 DEF CallersOK, Phases
  <2>3. ASSUME NEW i \in 1..Len(q)
        PROVE  /\ q[i].op = "attach" => q[i].stream \in Stream
               /\ q[i].waits => q[i].op = "attach" /\ phase'[q[i].stream] = "waiting"
               /\ q[i].op = "detach" => q[i].id # NoId
               /\ q[i].id # NoId => \A t \in Stream : attachment[t] # q[i].id
    <3>1. /\ q[i].op = "attach" => q[i].stream \in Stream
          /\ q[i].waits => /\ q[i].op = "attach" /\ phase[q[i].stream] = "waiting"
                           /\ s # q[i].stream
          /\ q[i].op = "detach" => q[i].id # NoId
          /\ q[i].id # NoId => \A t \in Stream : attachment[t] # q[i].id
      BY <1>3, <2>3 DEF CallersOK
    <3> QED
      BY <2>2, <3>1
  <2>4. \A t \in Stream : phase'[t] = "attached" <=> attachment[t] # NoId
    BY <2>1, <2>2 DEF CallersOK
  <2>5. /\ q \in Seq(Request) /\ attachment \in Attachments
        /\ \A i, j \in 1..Len(q) :
              q[i].waits /\ q[j].waits /\ q[i].stream = q[j].stream => i = j
        /\ \A t \in Stream : attachment[t] # NoId =>
              \A u \in Stream : attachment[u] = attachment[t] => u = t
    BY DEF CallersOK
  <2> QED
    BY <1>1, <2>2, <2>3, <2>4, <2>5 DEF CallersOK
<1> QED
  BY <1>2, <1>3

LEMMA Forwarded ==
    ASSUME NEW q, NEW s, NEW waits, NEW id,
           CallersOK(q, phase, attachment, s, waits, id),
           queue' = q, UNCHANGED <<phase, attachment>>
    PROVE  CallersOK(queue', phase', attachment', s, waits, id)
<1>1. queue' = q /\ phase' = phase /\ attachment' = attachment
  OBVIOUS
<1> QED
  BY <1>1

LEMMA CallersIdle ==
    ASSUME CallersOK(queue', phase', attachment', NoStream, FALSE, NoId), current' = Idle
    PROVE  Callers'
BY DEF Callers, Idle

LEMMA ReleaseCallers ==
    ASSUME NEW rs, NEW ix, NEW sock, NEW slots, NEW q, NEW s, NEW waits, NEW id,
           CallersOK(q, phase, attachment, s, waits, id),
           Release(rs, ix, sock, slots, q, s, waits)
    PROVE  Callers'
<1>1. CASE current' = Idle /\ ReplyError(q, s, waits)
  BY <1>1, ErrorReplied, CallersIdle
<1>2. CASE /\ current' = [Idle EXCEPT !.op = "releasing", !.stream = s, !.waits = waits,
                                      !.outstanding = slots]
           /\ queue' = q /\ UNCHANGED <<phase, attachment>>
  <2>1. current'.stream = s /\ current'.waits = waits /\ current'.id = NoId
    BY <1>2 DEF Idle
  <2>2. CallersOK(q, phase, attachment, s, waits, NoId)
    BY CallersForAnId
  <2>3. CallersOK(queue', phase', attachment', s, waits, NoId)
    BY <1>2, <2>2, Forwarded
  <2> QED
    BY <2>1, <2>3 DEF Callers
<1> QED
  BY <1>1, <1>2, Zenon DEF Release, LoseSocket

LEMMA SubscribeCallers ==
    ASSUME NEW rs, NEW ix, NEW sock, NEW fresh, NEW q, NEW s, NEW waits,
           CallersOK(q, phase, attachment, s, waits, NoId), queue \in Seq(Request),
           \A i \in 1..Len(q) : \E j \in 1..Len(queue) : q[i] = queue[j],
           Subscribe(rs, ix, sock, fresh, q, s, waits)
    PROVE  Callers'
<1>1. FreshIds # {}
  BY DEF Subscribe
<1>2. /\ FreshId \in Id /\ \A t \in Stream : attachment[t] # FreshId
      /\ \A i \in 1..Len(q) : q[i].id # FreshId
  BY <1>1, FreshIdIsFree
<1>3. CallersOK(q, phase, attachment, s, waits, FreshId)
  BY <1>2, CallersForAnId
<1>4. CASE current' = Idle /\ ReplyAttached(q, s, waits, FreshId)
  BY <1>2, <1>3, <1>4, AttachReplied, CallersIdle
<1>5. CASE current' = Idle /\ ReplyError(q, s, waits)
  BY <1>5, ErrorReplied, CallersIdle
<1>6. CASE /\ current'.stream = s /\ current'.waits = waits /\ current'.id = FreshId
           /\ queue' = q /\ UNCHANGED <<phase, attachment>>
  <2>1. CallersOK(queue', phase', attachment', s, waits, FreshId)
    BY <1>3, <1>6, Forwarded
  <2> QED
    BY <1>6, <2>1 DEF Callers
<1> QED
  BY <1>4, <1>5, <1>6 DEF Subscribe, LoseSocket

LEMMA EndSubscribeCallers ==
    ASSUME Callers, NEW sock, NEW slots, EndSubscribe(sock, slots)
    PROVE  Callers'
<1>1. CallersOK(queue, phase, attachment, current.stream, current.waits, current.id)
  BY DEF Callers
<1>2. CASE /\ LoseSocket([registrations EXCEPT ![current.id] = Nobody])
           /\ ReplyError(queue, current.stream, current.waits)
  <2>1. current' = Idle
    BY <1>2 DEF LoseSocket
  <2> QED
    BY <1>1, <1>2, <2>1, ErrorReplied, CallersIdle
<1>3. CASE Release([registrations EXCEPT ![current.id] = Nobody], Unlink(index, current.id),
                   sock, slots, queue, current.stream, current.waits)
  BY <1>1, <1>3, ReleaseCallers
<1> QED
  BY <1>2, <1>3 DEF EndSubscribe

LEMMA EndReleaseCallers ==
    ASSUME Callers, NEW sock, NEW late, EndRelease(sock, late)
    PROVE  Callers'
<1>1. CallersOK(queue, phase, attachment, current.stream, current.waits, current.id)
  BY DEF Callers
<1>2. ReplyError(queue, current.stream, current.waits) /\ current' = Idle
  BY DEF EndRelease
<1> QED
  BY <1>1, <1>2, ErrorReplied, CallersIdle

\* A step of the socket alone.
LEMMA CallersRest ==
    ASSUME Callers, UNCHANGED <<queue, phase, attachment>>,
           \/ current' = current
           \/ \E left : current' = [current EXCEPT !.outstanding = left]
           \/ current' = Idle,
           current \in Handshake
    PROVE  Callers'
<1>1. CASE current' = Idle
  <2>1. CallersOK(queue, phase, attachment, NoStream, FALSE, NoId)
    <3>1. CallersOK(queue, phase, attachment, current.stream, current.waits, NoId)
      BY CallersForAnId DEF Callers
    <3> QED
      BY <3>1, Zenon DEF CallersOK
  <2> QED
    BY <1>1, <2>1, Forwarded, CallersIdle
<1>2. CASE /\ current'.stream = current.stream /\ current'.waits = current.waits
           /\ current'.id = current.id
  <2>1. CallersOK(queue', phase', attachment', current.stream, current.waits, current.id)
    BY Forwarded DEF Callers
  <2> QED
    BY <1>2, <2>1 DEF Callers
<1> QED
  BY <1>1, <1>2 DEF Handshake

LEMMA LoseCallers == ASSUME Callers, Operation, Lose PROVE Callers'
<1>1. CallersOK(queue, phase, attachment, current.stream, current.waits, current.id)
  BY DEF Callers
<1>2. current' = Idle
  BY DEF Lose, LoseSocket
<1>3. CASE current = Idle
  BY <1>2, <1>3, CallersRest DEF Lose, Operation, HandshakeOK
<1>4. CASE current # Idle
  BY <1>1, <1>2, <1>4, ErrorReplied, CallersIdle DEF Lose
<1> QED
  BY <1>3, <1>4

\* A request joins the queue.
LEMMA Requested ==
    ASSUME Callers, NEW r \in Request, queue' = Append(queue, r), current' = current,
           phase' \in Phases, attachment' \in Attachments,
           r.waits => r.op = "attach" /\ phase'[r.stream] = "waiting",
           r.op = "attach" => r.stream \in Stream,
           r.op = "detach" => r.id # NoId,
           r.id # NoId => r.id # current.id /\ \A t \in Stream : attachment'[t] # r.id,
           \A t \in Stream : phase[t] = "waiting" => phase'[t] = "waiting" /\ ~(r.waits /\ r.stream = t),
           \A t \in Stream : attachment'[t] \in {attachment[t], NoId},
           \A t \in Stream : phase'[t] = "attached" <=> attachment'[t] # NoId
    PROVE  Callers'
<1> DEFINE q == Append(queue, r)
<1>1. CallersOK(queue, phase, attachment, current.stream, current.waits, current.id)
  BY DEF Callers
<1>2. queue \in Seq(Request) /\ attachment \in Attachments
  BY <1>1 DEF CallersOK
<1>3. /\ q \in Seq(Request) /\ Len(q) = Len(queue) + 1
      /\ \A i \in 1..Len(q) : (i \in 1..Len(queue) /\ q[i] = queue[i]) \/ (q[i] = r /\ i = Len(queue) + 1)
  BY <1>2, Appending
<1>4. ASSUME NEW i \in 1..Len(q)
      PROVE  /\ q[i].op = "attach" => q[i].stream \in Stream
             /\ q[i].waits => /\ q[i].op = "attach" /\ phase'[q[i].stream] = "waiting"
                              /\ ~(current.waits /\ current.stream = q[i].stream)
             /\ q[i].op = "detach" => q[i].id # NoId
             /\ q[i].id # NoId => q[i].id # current.id /\ \A t \in Stream : attachment'[t] # q[i].id
  <2>1. CASE i \in 1..Len(queue) /\ q[i] = queue[i]
    <3>1. /\ q[i].op = "attach" => q[i].stream \in Stream
          /\ q[i].waits => /\ q[i].op = "attach" /\ phase[q[i].stream] = "waiting"
                           /\ ~(current.waits /\ current.stream = q[i].stream)
          /\ q[i].op = "detach" => q[i].id # NoId
          /\ q[i].id # NoId => q[i].id # current.id /\ \A t \in Stream : attachment[t] # q[i].id
      BY <1>1, <2>1 DEF CallersOK
    <3> QED
      BY <3>1
  <2>2. CASE q[i] = r
    <3>1. current.waits => current.stream \in Stream /\ phase[current.stream] = "waiting"
      BY <1>1 DEF CallersOK
    <3> QED
      BY <2>2, <3>1
  <2> QED
    BY <1>3, <2>1, <2>2
<1>5. ASSUME NEW i \in 1..Len(q), NEW j \in 1..Len(q),
             q[i].waits, q[j].waits, q[i].stream = q[j].stream
      PROVE  i = j
  <2>1. \A k \in 1..Len(queue) : queue[k].waits =>
            queue[k].stream \in Stream /\ phase[queue[k].stream] = "waiting"
    BY <1>1 DEF CallersOK
  <2>2. CASE i \in 1..Len(queue) /\ q[i] = queue[i] /\ j \in 1..Len(queue) /\ q[j] = queue[j]
    BY <1>1, <1>5, <2>2 DEF CallersOK
  <2> QED
    BY <1>3, <1>5, <2>1, <2>2
<1>6. \A t \in Stream :
          attachment'[t] # NoId => /\ attachment'[t] # current.id
                                   /\ \A u \in Stream : attachment'[u] = attachment'[t] => u = t
  BY <1>1 DEF CallersOK
<1>7. current.waits => current.stream \in Stream /\ phase'[current.stream] = "waiting"
  BY <1>1 DEF CallersOK
<1>8. CallersOK(q, phase', attachment', current.stream, current.waits, current.id)
  BY <1>3, <1>4, <1>5, <1>6, <1>7 DEF CallersOK
<1> QED
  BY <1>8 DEF Callers

LEMMA SendAttachCallers ==
    ASSUME Callers, NEW s \in Stream, SendAttach(s) PROVE Callers'
<1>1. /\ queue' = Append(queue, Attach(s)) /\ current' = current /\ attachment' = attachment
      /\ phase' = [phase EXCEPT ![s] = "waiting"] /\ phase[s] = "seeking"
  BY DEF SendAttach
<1>2. /\ phase \in Phases /\ attachment \in Attachments
      /\ \A t \in Stream : phase[t] = "attached" <=> attachment[t] # NoId
  BY DEF Callers, CallersOK
<1>3. /\ phase' \in Phases /\ phase'[s] = "waiting"
      /\ \A t \in Stream \ {s} : phase'[t] = phase[t]
  BY <1>1, <1>2 DEF Phases
<1> DEFINE r == Attach(s)
<1>4. /\ r \in Request /\ r.op = "attach" /\ r.stream = s /\ r.id = NoId
      /\ queue' = Append(queue, r)
  BY <1>1 DEF Attach, Request
<1> HIDE DEF r
<1>5. /\ r.waits => r.op = "attach" /\ phase'[r.stream] = "waiting"
      /\ r.op = "attach" => r.stream \in Stream
      /\ r.op = "detach" => r.id # NoId
      /\ r.id # NoId => r.id # current.id /\ \A t \in Stream : attachment'[t] # r.id
  BY <1>3, <1>4
<1>6. \A t \in Stream : phase[t] = "waiting" => phase'[t] = "waiting" /\ ~(r.waits /\ r.stream = t)
  BY <1>1, <1>3, <1>4
<1>7. /\ \A t \in Stream : attachment'[t] \in {attachment[t], NoId}
      /\ \A t \in Stream : phase'[t] = "attached" <=> attachment'[t] # NoId
      /\ attachment' \in Attachments /\ current' = current
  BY <1>1, <1>2, <1>3
<1> QED
  BY <1>3, <1>4, <1>5, <1>6, <1>7, Requested

\* An attachment is dropped and its detach sent.
LEMMA Detached ==
    ASSUME Callers, NEW s \in Stream, phase[s] = "attached",
           NEW next \in {"seeking", "gone"}, phase' = [phase EXCEPT ![s] = next],
           attachment' = [attachment EXCEPT ![s] = NoId],
           queue' = Append(queue, Detach(attachment[s])), current' = current
    PROVE  Callers'
<1>1. /\ phase \in Phases /\ attachment \in Attachments
      /\ \A t \in Stream :
            /\ phase[t] = "attached" <=> attachment[t] # NoId
            /\ attachment[t] # NoId => /\ attachment[t] # current.id
                                       /\ \A u \in Stream : attachment[u] = attachment[t] => u = t
  BY DEF Callers, CallersOK
<1>2. /\ phase' \in Phases /\ phase'[s] = next /\ \A t \in Stream \ {s} : phase'[t] = phase[t]
      /\ attachment' \in Attachments /\ attachment'[s] = NoId
      /\ \A t \in Stream \ {s} : attachment'[t] = attachment[t]
  BY <1>1 DEF Phases, Attachments
<1> DEFINE id == attachment[s]
<1>3. id # NoId /\ id \in Id /\ id # current.id
  BY <1>1 DEF Attachments
<1> DEFINE r == Detach(id)
<1>4. /\ r \in Request /\ r.op = "detach" /\ r.waits = FALSE /\ r.id = id
      /\ queue' = Append(queue, r)
  BY <1>3 DEF Detach, Request
<1> HIDE DEF r
<1>5. \A t \in Stream : attachment'[t] # id
  BY <1>1, <1>2, <1>3
<1>6. /\ r.waits => r.op = "attach" /\ phase'[r.stream] = "waiting"
      /\ r.op = "attach" => r.stream \in Stream
      /\ r.op = "detach" => r.id # NoId
      /\ r.id # NoId => r.id # current.id /\ \A t \in Stream : attachment'[t] # r.id
  BY <1>3, <1>4, <1>5
<1>7. \A t \in Stream : phase[t] = "waiting" => phase'[t] = "waiting" /\ ~(r.waits /\ r.stream = t)
  BY <1>2, <1>4
<1>8. /\ \A t \in Stream : attachment'[t] \in {attachment[t], NoId}
      /\ \A t \in Stream : phase'[t] = "attached" <=> attachment'[t] # NoId
  BY <1>1, <1>2
<1> QED
  BY <1>2, <1>4, <1>6, <1>7, <1>8, Requested

\* A caller that stops waiting, or was not.
LEMMA CallerGone ==
    ASSUME Callers, NEW s \in Stream, phase[s] \in {"seeking", "waiting", "gone"},
           NEW next \in {"seeking", "gone"}, phase' = [phase EXCEPT ![s] = next],
           attachment' = attachment,
           phase[s] = "waiting" => queue' = Dropped(queue, s),
           phase[s] # "waiting" => queue' = queue,
           current \in Handshake,
           \/ phase[s] # "waiting" /\ current' = current
           \/ current' = IF current.stream = s THEN [current EXCEPT !.waits = FALSE] ELSE current
    PROVE  Callers'
<1>1. CallersOK(queue, phase, attachment, current.stream, current.waits, current.id)
  BY DEF Callers
<1>2. /\ phase \in Phases /\ queue \in Seq(Request)
  BY <1>1 DEF CallersOK
<1>3. phase' \in Phases /\ phase'[s] = next /\ \A t \in Stream \ {s} : phase'[t] = phase[t]
  BY <1>2 DEF Phases
<1>4. /\ current'.stream = current.stream /\ current'.id = current.id
      /\ current'.waits => current.waits /\ current.stream # s
  <2>1. current.waits => phase[current.stream] = "waiting"
    BY <1>1 DEF CallersOK
  <2> QED
    BY <2>1 DEF Handshake
<1>5. /\ queue' \in Seq(Request) /\ Len(queue') = Len(queue)
      /\ \A i \in 1..Len(queue) :
            /\ queue'[i].op = queue[i].op /\ queue'[i].stream = queue[i].stream
            /\ queue'[i].id = queue[i].id
            /\ queue'[i].waits => queue[i].waits /\ queue[i].stream # s
  <2>1. CASE phase[s] = "waiting"
    <3>1. queue' = [i \in 1..Len(queue) |->
                       IF queue[i].stream = s THEN [queue[i] EXCEPT !.waits = FALSE] ELSE queue[i]]
      BY <1>2, <2>1 DEF Dropped
    <3>2. \A i \in 1..Len(queue) : queue[i] \in Request
      BY <1>2
    <3>3. \A i \in 1..Len(queue) : queue'[i] \in Request
      BY <3>1, <3>2 DEF Request
    <3>4. Len(queue) \in Nat /\ DOMAIN queue' = 1..Len(queue)
      BY <1>2, <3>1
    <3>5. queue' \in Seq(Request) /\ Len(queue') = Len(queue)
      BY <3>1, <3>3, <3>4
    <3>6. ASSUME NEW i \in 1..Len(queue)
          PROVE  /\ queue'[i].op = queue[i].op /\ queue'[i].stream = queue[i].stream
                 /\ queue'[i].id = queue[i].id
                 /\ queue'[i].waits => queue[i].waits /\ queue[i].stream # s
      BY <3>1, <3>2, <3>6 DEF Request
    <3> QED
      BY <3>5, <3>6
  <2>2. CASE phase[s] # "waiting"
    BY <1>1, <1>2, <2>2 DEF CallersOK
  <2> QED
    BY <2>1, <2>2
<1>6. ASSUME NEW i \in 1..Len(queue)
      PROVE  /\ queue'[i].op = "attach" => queue'[i].stream \in Stream
             /\ queue'[i].waits => /\ queue'[i].op = "attach" /\ phase'[queue'[i].stream] = "waiting"
                                   /\ ~(current'.waits /\ current'.stream = queue'[i].stream)
             /\ queue'[i].op = "detach" => queue'[i].id # NoId
             /\ queue'[i].id # NoId => /\ queue'[i].id # current'.id
                                       /\ \A t \in Stream : attachment[t] # queue'[i].id
  <2>1. /\ queue[i].op = "attach" => queue[i].stream \in Stream
        /\ queue[i].waits => /\ queue[i].op = "attach" /\ phase[queue[i].stream] = "waiting"
                             /\ ~(current.waits /\ current.stream = queue[i].stream)
        /\ queue[i].op = "detach" => queue[i].id # NoId
        /\ queue[i].id # NoId => queue[i].id # current.id /\ \A t \in Stream : attachment[t] # queue[i].id
    BY <1>1, <1>6 DEF CallersOK
  <2> QED
    BY <1>3, <1>4, <1>5, <2>1
<1>7. ASSUME NEW i \in 1..Len(queue), NEW j \in 1..Len(queue),
             queue'[i].waits, queue'[j].waits, queue'[i].stream = queue'[j].stream
      PROVE  i = j
  BY <1>1, <1>5, <1>7 DEF CallersOK
<1>8. current'.waits => current'.stream \in Stream /\ phase'[current'.stream] = "waiting"
  BY <1>1, <1>3, <1>4 DEF CallersOK
<1>9. /\ attachment' \in Attachments
      /\ \A t \in Stream :
          /\ phase'[t] = "attached" <=> attachment'[t] # NoId
          /\ attachment'[t] # NoId => /\ attachment'[t] # current'.id
                                      /\ \A u \in Stream : attachment'[u] = attachment'[t] => u = t
  BY <1>1, <1>3, <1>4 DEF CallersOK
<1>10. CallersOK(queue', phase', attachment', current'.stream, current'.waits, current'.id)
  BY <1>3, <1>5, <1>6, <1>7, <1>8, <1>9 DEF CallersOK
<1> QED
  BY <1>10 DEF Callers

LEMMA StreamCallers ==
    ASSUME Callers, Operation, NEW s \in Stream, Caller(s) \/ Join(s) \/ Leave(s)
    PROVE  Callers'
<1>1. CASE SendAttach(s)
  BY <1>1, SendAttachCallers
<1>2. CASE SeeEnd(s)
  BY <1>2, Detached DEF SeeEnd
<1>3. CASE Join(s)
  BY <1>3, CallerGone DEF Join, Operation, HandshakeOK
<1>4. CASE Leave(s) /\ phase[s] = "attached"
  <2>1. current.stream = s => current.waits = FALSE
    BY <1>4 DEF Callers, CallersOK, Operation, HandshakeOK, Handshake
  <2>2. current' = current
    BY <1>4, <2>1 DEF Leave, Operation, HandshakeOK, Handshake
  <2> QED
    BY <1>4, <2>2, Detached DEF Leave
<1>5. CASE Leave(s) /\ phase[s] # "attached"
  <2>1. /\ phase \in Phases /\ attachment \in Attachments /\ attachment[s] = NoId
    BY <1>5 DEF Callers, CallersOK
  <2>2. attachment' = attachment /\ phase[s] \in {"seeking", "waiting"}
    BY <1>5, <2>1 DEF Leave, Phases, Attachments
  <2> QED
    BY <1>5, <2>2, CallerGone DEF Leave, Operation, HandshakeOK
<1> QED
  BY <1>1, <1>2, <1>3, <1>4, <1>5 DEF Caller

LEMMA CommandCallers == ASSUME Callers, Command PROVE Callers'
<1> DEFINE request == Head(queue)
<1>1. /\ current = Idle /\ queue # <<>> /\ queue \in Seq(Request)
      /\ CallersOK(Tail(queue), phase, attachment, request.stream, request.waits, NoId)
      /\ \A i \in 1..Len(Tail(queue)) : \E j \in 1..Len(queue) : Tail(queue)[i] = queue[j]
  <2>1. current = Idle /\ queue # <<>>
    BY DEF Command, Reattach, AttachToOpen, Reconnect, TakeDetach, Takes
  <2>2. queue \in Seq(Request)
    BY DEF Callers, CallersOK
  <2> QED
    BY <2>1, <2>2, CommandTaken
<1>2. ASSUME current' = Idle, ReplyError(Tail(queue), request.stream, request.waits) PROVE Callers'
  BY <1>1, <1>2, ErrorReplied, CallersIdle
<1>3. ASSUME NEW rs, NEW ix, NEW sock, NEW fresh,
             Subscribe(rs, ix, sock, fresh, Tail(queue), request.stream, request.waits)
      PROVE  Callers'
  BY <1>1, <1>3, SubscribeCallers
<1>4. CASE Reattach
  <2>1. /\ FreshIds # {} /\ current' = Idle
        /\ ReplyAttached(Tail(queue), request.stream, request.waits, FreshId)
    BY <1>1, <1>4 DEF Reattach
  <2>2. /\ FreshId \in Id /\ \A t \in Stream : attachment[t] # FreshId
        /\ \A i \in 1..Len(Tail(queue)) : Tail(queue)[i].id # FreshId
    BY <1>1, <2>1, FreshIdIsFree
  <2>3. CallersOK(Tail(queue), phase, attachment, request.stream, request.waits, FreshId)
    BY <1>1, <2>2, CallersForAnId
  <2> QED
    BY <2>1, <2>2, <2>3, AttachReplied, CallersIdle
<1>5. CASE AttachToOpen
  <2>1. \/ Subscribe(registrations, index, socket, FALSE, Tail(queue), request.stream, request.waits)
        \/ current' = Idle /\ ReplyError(Tail(queue), request.stream, request.waits)
    BY <1>1, <1>5 DEF AttachToOpen
  <2> QED
    BY <1>2, <1>3, <2>1
<1>6. CASE Reconnect
  <2>1. PICK rs \in ForgetLost(registrations, request.stream) :
          \/ Subscribe(HoldLost(rs), LinkAll(HoldLost(rs)), OpenSocket, TRUE,
                       Tail(queue), request.stream, request.waits)
          \/ current' = Idle /\ ReplyError(Tail(queue), request.stream, request.waits)
    BY <1>1, <1>6 DEF Reconnect, LoseSocket
  <2> QED
    BY <1>2, <1>3, <2>1
<1>7. CASE TakeDetach
  <2>1. CallersOK(Tail(queue), phase, attachment, NoStream, FALSE, NoId)
    BY <1>1, Zenon DEF CallersOK
  <2>2. CASE Release([registrations EXCEPT ![request.id] = Nobody], Unlink(index, request.id), socket,
                     Orphaned(index, Unlink(index, request.id)), Tail(queue), NoStream, FALSE)
    BY <2>1, <2>2, ReleaseCallers
  <2>3. CASE queue' = Tail(queue) /\ UNCHANGED <<current, phase, attachment>>
    <3>1. current' = Idle
      BY <1>1, <2>3
    <3> QED
      BY <2>1, <2>3, <3>1, Forwarded, CallersIdle
  <2> QED
    BY <1>7, <2>2, <2>3 DEF TakeDetach
<1> QED
  BY <1>4, <1>5, <1>6, <1>7 DEF Command

\* Every step keeps the callers' half of the invariant.
LEMMA CallersStep ==
    ASSUME Callers, Operation, [Next]_vars PROVE Callers'
<1> USE DEF Operation, HandshakeOK
<1>1. CASE Command
  BY <1>1, CommandCallers
<1>2. CASE ReadData \/ ReadUnawaited
  BY <1>2, CallersRest DEF ReadData, ReadUnawaited
<1>3. CASE ReadAnswer
  <2>1. CASE /\ current' = [current EXCEPT !.outstanding = Outstanding(Head(socket.wire))]
             /\ UNCHANGED <<queue, phase, attachment>>
    BY <2>1, CallersRest
  <2>2. CASE /\ current.op = "subscribing" /\ current' = Idle
             /\ ReplyAttached(queue, current.stream, current.waits, current.id)
    <3>1. CallersOK(queue, phase, attachment, current.stream, current.waits, current.id)
      BY DEF Callers
    <3> QED
      BY <2>2, <3>1, AttachReplied, CallersIdle
  <2>3. CASE EndRelease(AfterRead, FALSE) \/ EndRelease(AfterRead, TRUE)
    BY <2>3, EndReleaseCallers
  <2>4. CASE EndSubscribe(AfterRead, RefusedSlots)
    BY <2>4, EndSubscribeCallers
  <2> QED
    BY <1>3, <2>1, <2>2, <2>3, <2>4 DEF ReadAnswer
<1>4. CASE TimeOut
  BY <1>4, EndSubscribeCallers, EndReleaseCallers DEF TimeOut
<1>5. CASE LostByNetwork \/ GiveUp
  BY <1>5, LoseCallers DEF LostByNetwork, GiveUp
<1>6. CASE Keepalive
  <2>1. CASE Lose
    BY <2>1, LoseCallers
  <2>2. CASE UNCHANGED <<current, queue, phase, attachment>>
    BY <2>2, CallersRest
  <2> QED
    BY <1>6, <2>1, <2>2 DEF Keepalive
<1>7. CASE Expire
  <2>1. CallersOK(queue, phase, attachment, NoStream, FALSE, NoId)
    BY <1>7 DEF Expire, Callers, Idle
  <2>2. \E rs, ix, slots : Release(rs, ix, socket, slots, queue, NoStream, FALSE)
    BY <1>7, Zenon DEF Expire
  <2> QED
    BY <2>1, <2>2, ReleaseCallers
<1>8. ASSUME NEW s \in Stream, Caller(s) \/ Join(s) \/ Leave(s) PROVE Callers'
  BY <1>8, StreamCallers
<1>9. CASE GoSilent \/ Tick \/ \E x \in Slot : Publish(x)
  BY <1>9, CallersRest DEF GoSilent, Tick, Publish
<1>10. CASE UNCHANGED vars
  BY <1>10, CallersRest DEF vars
<1> QED
  BY <1>1, <1>2, <1>3, <1>4, <1>5, <1>6, <1>7, <1>8, <1>9, <1>10 DEF Next, Read

-----------------------------------------------------------------------------
(* Registrations, and the index over them.                                 *)

LEMMA NobodyIsNoRegistration == \A r \in Registration : r # Nobody
<1> SUFFICES ASSUME Nobody \in Registration PROVE FALSE
  OBVIOUS
<1>1. /\ Nobody.frames \in Seq(1..MaxFrames) /\ Nobody.due \in Seq(1..MaxFrames)
      /\ 1..MaxFrames \subseteq Nat
  BY DEF Registration
<1>2. Nobody.frames \in Seq(Nat) /\ Nobody.due \in Seq(Nat)
  BY <1>1, SeqMonotonic
<1>3. Nobody \in [stream : Stream, sink : {"Live", "Held", "Lost"}, left : 0..Grace,
                  frames : Seq(Nat), due : Seq(Nat)]
  BY <1>2 DEF Registration
<1> QED
  BY <1>3, NullAssumption

LEMMA LiveIsRegistration ==
    ASSUME NEW s \in Stream
    PROVE  /\ Live(s) \in Registration /\ Live(s) # Nobody
           /\ Live(s).stream = s /\ Live(s).sink = "Live" /\ Live(s).frames = Live(s).due
<1>1. 0 \in 0..Grace
  BY GraceAssumption
<1>2. Live(s) \in Registration
  BY <1>1 DEF Live, Registration
<1> QED
  BY <1>2, NobodyIsNoRegistration DEF Live

LEMMA ServedOne ==
    ASSUME NEW rs, Served(rs), NEW id \in Id
    PROVE  /\ Served([rs EXCEPT ![id] = Nobody])
           /\ \A r \in Registration : r.frames = r.due => Served([rs EXCEPT ![id] = r])
BY DEF Served, Registrations

LEMMA RegistrationFields ==
    \E F : /\ <<>> \in F
           /\ Registration = [stream : Stream, sink : {"Live", "Held", "Lost"}, left : 0..Grace,
                              frames : F, due : F]
<1>1. <<>> \in Seq(1..MaxFrames)
  OBVIOUS
<1> QED
  BY <1>1 DEF Registration

LEMMA SinkChanged ==
    ASSUME NEW r \in Registration, NEW sink \in {"Live", "Held", "Lost"}, NEW e,
           e = [r EXCEPT !.sink = sink]
    PROVE  /\ e \in Registration /\ e.sink = sink /\ e.left = r.left /\ e.stream = r.stream
           /\ e.frames = r.frames /\ e.due = r.due
<1>1. PICK F : /\ <<>> \in F
               /\ Registration = [stream : Stream, sink : {"Live", "Held", "Lost"}, left : 0..Grace,
                                  frames : F, due : F]
  BY RegistrationFields, Zenon
<1> QED
  BY <1>1

LEMMA Reattached ==
    ASSUME NEW r \in Registration
    PROVE  /\ [r EXCEPT !.sink = "Live", !.left = 0] \in Registration
           /\ [r EXCEPT !.sink = "Live", !.left = 0].sink = "Live"
           /\ [r EXCEPT !.sink = "Live", !.left = 0].stream = r.stream
           /\ [r EXCEPT !.sink = "Live", !.left = 0].frames = r.frames
           /\ [r EXCEPT !.sink = "Live", !.left = 0].due = r.due
<1>1. 0 \in 0..Grace
  BY GraceAssumption
<1>2. PICK F : /\ <<>> \in F
               /\ Registration = [stream : Stream, sink : {"Live", "Held", "Lost"}, left : 0..Grace,
                                  frames : F, due : F]
  BY RegistrationFields, Zenon
<1> QED
  BY <1>1, <1>2

\* What a loss and a new socket make of a registration.
LEMMA ChangedAll ==
    ASSUME NEW rs, Served(rs), NEW id \in Id, rs[id] # Nobody
    PROVE  /\ LoseAll(rs)[id] \in Registration /\ HoldLost(rs)[id] \in Registration
           /\ LoseAll(rs)[id].frames = LoseAll(rs)[id].due
           /\ HoldLost(rs)[id].frames = HoldLost(rs)[id].due
           /\ LoseAll(rs)[id].sink = "Lost" /\ LoseAll(rs)[id].stream = rs[id].stream
           /\ HoldLost(rs)[id].sink = "Held" /\ HoldLost(rs)[id].stream = rs[id].stream
           /\ HoldLost(rs)[id].left = rs[id].left
           /\ LoseAll(rs)[id].left = IF IsLive(rs, id) THEN Grace ELSE rs[id].left
<1> DEFINE left == IF IsLive(rs, id) THEN Grace ELSE rs[id].left
<1>1. rs[id] \in Registration /\ rs[id].frames = rs[id].due
  BY DEF Served, Registrations
<1>2. left \in 0..Grace
  BY <1>1, GraceAssumption DEF Registration
<1>3. /\ LoseAll(rs)[id] = [rs[id] EXCEPT !.sink = "Lost", !.frames = <<>>, !.due = <<>>, !.left = left]
      /\ HoldLost(rs)[id] = [rs[id] EXCEPT !.sink = "Held"]
  BY <1>1 DEF LoseAll, HoldLost, Registration
<1> HIDE DEF left
<1> DEFINE h == HoldLost(rs)[id]  e == LoseAll(rs)[id]  r == rs[id]
<1>4. /\ r \in Registration /\ h = [r EXCEPT !.sink = "Held"]
      /\ e = [r EXCEPT !.sink = "Lost", !.frames = <<>>, !.due = <<>>, !.left = left]
  BY <1>1, <1>3, Zenon
<1> HIDE DEF h, e, r
<1>5. /\ h \in Registration /\ h.sink = "Held" /\ h.left = r.left /\ h.stream = r.stream
      /\ h.frames = r.frames /\ h.due = r.due
  BY <1>4, SinkChanged
<1>6. /\ e \in Registration /\ e.sink = "Lost" /\ e.left = left /\ e.stream = r.stream
      /\ e.frames = <<>> /\ e.due = <<>>
  <2>1. PICK F : /\ <<>> \in F
                 /\ Registration = [stream : Stream, sink : {"Live", "Held", "Lost"}, left : 0..Grace,
                                    frames : F, due : F]
    BY RegistrationFields, Zenon
  <2> QED
    BY <1>2, <1>4, <2>1
<1>7. left = IF IsLive(rs, id) THEN Grace ELSE rs[id].left
  BY DEF left
<1> QED
  BY <1>1, <1>5, <1>6, <1>7 DEF h, e, r

LEMMA ServedAll ==
    ASSUME NEW rs, Served(rs)
    PROVE  Served(LoseAll(rs)) /\ Served(HoldLost(rs))
<1>1. ASSUME NEW id \in Id, rs[id] # Nobody
      PROVE  /\ LoseAll(rs)[id] \in Registration /\ LoseAll(rs)[id].frames = LoseAll(rs)[id].due
             /\ HoldLost(rs)[id] \in Registration /\ HoldLost(rs)[id].frames = HoldLost(rs)[id].due
  BY <1>1, ChangedAll
<1>2. /\ LoseAll(rs) \in Registrations /\ HoldLost(rs) \in Registrations
      /\ \A id \in Id : rs[id] = Nobody => LoseAll(rs)[id] = Nobody /\ HoldLost(rs)[id] = Nobody
  <2>1. /\ LoseAll(rs) = [id \in Id |-> LoseAll(rs)[id]] /\ HoldLost(rs) = [id \in Id |-> HoldLost(rs)[id]]
        /\ \A id \in Id : rs[id] = Nobody => LoseAll(rs)[id] = Nobody /\ HoldLost(rs)[id] = Nobody
    BY Zenon DEF LoseAll, HoldLost
  <2> QED
    BY <1>1, <2>1, Zenon DEF Registrations
<1> QED
  BY <1>1, <1>2 DEF Served

LEMMA SinksAfter ==
    ASSUME NEW rs, Served(rs), NEW id \in Id
    PROVE  /\ LoseAll(rs)[id] = Nobody <=> rs[id] = Nobody
           /\ HoldLost(rs)[id] = Nobody <=> rs[id] = Nobody
           /\ ~IsRouted(LoseAll(rs), id) /\ ~IsLive(LoseAll(rs), id)
           /\ IsRouted(HoldLost(rs), id) <=> rs[id] # Nobody
<1>1. CASE rs[id] = Nobody
  <2>1. LoseAll(rs)[id] = Nobody /\ HoldLost(rs)[id] = Nobody
    BY <1>1 DEF LoseAll, HoldLost
  <2> QED
    BY <1>1, <2>1 DEF IsRouted, IsLive
<1>2. CASE rs[id] # Nobody
  <2>1. LoseAll(rs)[id] # Nobody /\ HoldLost(rs)[id] # Nobody
    BY <1>2, ChangedAll, NobodyIsNoRegistration
  <2> QED
    BY <1>2, <2>1, ChangedAll DEF IsRouted, IsLive
<1> QED
  BY <1>1, <1>2

\* The index holds the slots of each registration that is routed to.
LEMMA Links ==
    ASSUME NEW rs
    PROVE  /\ \A h : h \in LinkAll(rs) <=>
                  \E id \in Id : IsRouted(rs, id) /\ \E x \in SlotsOf[rs[id].stream] : h = <<x, id>>
           /\ \A x, id : <<x, id>> \in LinkAll(rs) <=>
                  id \in Id /\ IsRouted(rs, id) /\ x \in SlotsOf[rs[id].stream]
           /\ \A x : x \in HeldSlots(LinkAll(rs)) <=>
                  \E id \in Id : IsRouted(rs, id) /\ x \in SlotsOf[rs[id].stream]
<1>1. \A h : h \in LinkAll(rs) <=>
          \E id \in Id : IsRouted(rs, id) /\ \E x \in SlotsOf[rs[id].stream] : h = <<x, id>>
  <2>1. \A h, id : h \in SlotsOf[rs[id].stream] \X {id} <=>
            \E x \in SlotsOf[rs[id].stream] : h = <<x, id>>
    OBVIOUS
  <2> QED
    BY <2>1 DEF LinkAll
<1>2. \A x, id : <<x, id>> \in LinkAll(rs) <=>
          id \in Id /\ IsRouted(rs, id) /\ x \in SlotsOf[rs[id].stream]
  BY <1>1
<1>3. \A x : x \in HeldSlots(LinkAll(rs)) <=>
          \E id \in Id : IsRouted(rs, id) /\ x \in SlotsOf[rs[id].stream]
  <2>1. \A h \in LinkAll(rs) : \E x, id : h = <<x, id>>
    BY <1>1
  <2>2. ASSUME NEW x, NEW id, <<x, id>> \in LinkAll(rs) PROVE x \in HeldSlots(LinkAll(rs))
    <3>1. PICK h \in LinkAll(rs) : h = <<x, id>>
      BY <2>2
    <3>2. x = h[1]
      BY <3>1
    <3>3. \E g \in LinkAll(rs) : x = g[1]
      BY <3>2, Zenon
    <3> QED
      BY <3>3 DEF HeldSlots
  <2>3. ASSUME NEW x, x \in HeldSlots(LinkAll(rs)) PROVE \E id : <<x, id>> \in LinkAll(rs)
    <3>1. PICK h \in LinkAll(rs) : x = h[1]
      BY <2>3 DEF HeldSlots
    <3>2. PICK y, id : h = <<y, id>>
      BY <2>1
    <3>3. x = y
      BY <3>1, <3>2
    <3> QED
      BY <3>1, <3>2, <3>3
  <2> QED
    BY <1>2, <2>2, <2>3
<1> QED
  BY <1>1, <1>2, <1>3

\* A link of a registry belongs to a routed registration.
LEMMA LinkHasOwner ==
    ASSUME NEW rs, NEW h \in LinkAll(rs)
    PROVE  \E id \in Id : IsRouted(rs, id) /\ \E x \in SlotsOf[rs[id].stream] : h = <<x, id>>
<1>1. \A g : g \in LinkAll(rs) <=>
          \E id \in Id : IsRouted(rs, id) /\ \E x \in SlotsOf[rs[id].stream] : g = <<x, id>>
  BY Links
<1> QED
  BY <1>1, Zenon

LEMMA LinksAreTyped ==
    ASSUME NEW rs, Served(rs)
    PROVE  LinkAll(rs) \in SUBSET (Slot \X Id) /\ HeldSlots(LinkAll(rs)) \in SUBSET Slot
<1>1. \A id \in Id : IsRouted(rs, id) => SlotsOf[rs[id].stream] \subseteq Slot
  BY SlotsOfAssumption DEF Served, Registrations, Registration, IsRouted
<1>2. /\ \A h \in LinkAll(rs) :
             \E id \in Id : IsRouted(rs, id) /\ \E x \in SlotsOf[rs[id].stream] : h = <<x, id>>
      /\ \A x \in HeldSlots(LinkAll(rs)) :
             \E id \in Id : IsRouted(rs, id) /\ x \in SlotsOf[rs[id].stream]
  BY Links
<1> QED
  BY <1>1, <1>2

LEMMA SameLinks ==
    ASSUME NEW rs, NEW rt,
           \A id \in Id : /\ IsRouted(rt, id) <=> IsRouted(rs, id)
                          /\ IsRouted(rs, id) => SlotsOf[rt[id].stream] = SlotsOf[rs[id].stream]
    PROVE  LinkAll(rt) = LinkAll(rs)
<1>1. \A h : h \in LinkAll(rt) <=> h \in LinkAll(rs)
  BY Links
<1> QED
  BY <1>1

LEMMA Unlinking ==
    ASSUME NEW rs, Served(rs), NEW id \in Id
    PROVE  /\ LinkAll([rs EXCEPT ![id] = Nobody]) = Unlink(LinkAll(rs), id)
           /\ HeldSlots(Unlink(LinkAll(rs), id)) \subseteq HeldSlots(LinkAll(rs))
<1> DEFINE rt == [rs EXCEPT ![id] = Nobody]
<1>1. /\ rt[id] = Nobody /\ \A other \in Id \ {id} : rt[other] = rs[other]
  BY DEF Served, Registrations
<1> HIDE DEF rt
<1>2. ~IsRouted(rt, id) /\ \A other \in Id \ {id} : IsRouted(rt, other) <=> IsRouted(rs, other)
  BY <1>1 DEF IsRouted
<1>3. \A h : h \in LinkAll(rt) <=> h \in LinkAll(rs) /\ h[2] # id
  <2>1. ASSUME NEW h, h \in LinkAll(rt) PROVE h \in LinkAll(rs) /\ h[2] # id
    <3>1. PICK other \in Id : IsRouted(rt, other) /\ \E x \in SlotsOf[rt[other].stream] : h = <<x, other>>
      BY <2>1, Links
    <3> QED
      BY <1>1, <1>2, <3>1, Links
  <2>2. ASSUME NEW h, h \in LinkAll(rs), h[2] # id PROVE h \in LinkAll(rt)
    <3>1. PICK other \in Id : IsRouted(rs, other) /\ \E x \in SlotsOf[rs[other].stream] : h = <<x, other>>
      BY <2>2, Links
    <3>2. other # id
      BY <2>2, <3>1
    <3> QED
      BY <1>1, <1>2, <3>1, <3>2, Links
  <2> QED
    BY <2>1, <2>2
<1>4. LinkAll(rt) = Unlink(LinkAll(rs), id)
  BY <1>3 DEF Unlink
<1>5. HeldSlots(Unlink(LinkAll(rs), id)) \subseteq HeldSlots(LinkAll(rs))
  BY DEF HeldSlots, Unlink
<1> QED
  BY <1>4, <1>5 DEF rt

LEMMA Linking ==
    ASSUME NEW rs, Served(rs), NEW id \in Id, rs[id] = Nobody, NEW s \in Stream,
           NEW r \in Registration, r.sink # "Lost", SlotsOf[r.stream] = SlotsOf[s]
    PROVE  /\ LinkAll([rs EXCEPT ![id] = r]) = Link(LinkAll(rs), id, s)
           /\ Unlink(Link(LinkAll(rs), id, s), id) = LinkAll(rs)
           /\ HeldSlots(Link(LinkAll(rs), id, s)) = HeldSlots(LinkAll(rs)) \cup SlotsOf[s]
<1> DEFINE rt == [rs EXCEPT ![id] = r]
<1>1. rt[id] = r /\ \A other \in Id \ {id} : rt[other] = rs[other]
  BY DEF Served, Registrations
<1> HIDE DEF rt
<1>2. /\ IsRouted(rt, id) /\ ~IsRouted(rs, id)
      /\ \A other \in Id \ {id} : IsRouted(rt, other) <=> IsRouted(rs, other)
  BY <1>1, NobodyIsNoRegistration DEF IsRouted
<1>3. \A h : h \in SlotsOf[s] \X {id} <=> \E x \in SlotsOf[s] : h = <<x, id>>
  OBVIOUS
<1>4. LinkAll(rt) = Link(LinkAll(rs), id, s)
  <2>1. ASSUME NEW h, h \in LinkAll(rt) PROVE h \in LinkAll(rs) \cup (SlotsOf[s] \X {id})
    <3>1. PICK other \in Id : IsRouted(rt, other) /\ \E x \in SlotsOf[rt[other].stream] : h = <<x, other>>
      BY <2>1, Links
    <3>2. CASE other = id
      BY <1>1, <1>3, <3>1, <3>2
    <3>3. CASE other # id
      BY <1>1, <1>2, <3>1, <3>3, Links
    <3> QED
      BY <3>2, <3>3
  <2>2. ASSUME NEW h, h \in LinkAll(rs) PROVE h \in LinkAll(rt)
    <3>1. PICK other \in Id : IsRouted(rs, other) /\ \E x \in SlotsOf[rs[other].stream] : h = <<x, other>>
      BY <2>2, Links
    <3>2. other # id
      BY <1>2, <3>1
    <3> QED
      BY <1>1, <1>2, <3>1, <3>2, Links
  <2>3. ASSUME NEW h, h \in SlotsOf[s] \X {id} PROVE h \in LinkAll(rt)
    BY <1>1, <1>2, <1>3, <2>3, Links
  <2> QED
    BY <2>1, <2>2, <2>3 DEF Link
<1>5. Unlink(Link(LinkAll(rs), id, s), id) = LinkAll(rs)
  <2>1. \A h \in LinkAll(rs) : h[2] # id
    BY <1>2, Links
  <2>2. \A h \in SlotsOf[s] \X {id} : h[2] = id
    OBVIOUS
  <2> QED
    BY <2>1, <2>2 DEF Unlink, Link
<1>6. HeldSlots(Link(LinkAll(rs), id, s)) = HeldSlots(LinkAll(rs)) \cup SlotsOf[s]
  <2>1. {h[1] : h \in SlotsOf[s] \X {id}} = SlotsOf[s]
    <3>1. ASSUME NEW x \in SlotsOf[s] PROVE x \in {h[1] : h \in SlotsOf[s] \X {id}}
      <4>1. <<x, id>> \in SlotsOf[s] \X {id} /\ <<x, id>>[1] = x
        OBVIOUS
      <4> QED
        BY <4>1
    <3>2. ASSUME NEW h \in SlotsOf[s] \X {id} PROVE h[1] \in SlotsOf[s]
      OBVIOUS
    <3> QED
      BY <3>1, <3>2
  <2> QED
    BY <2>1 DEF HeldSlots, Link
<1> QED
  BY <1>4, <1>5, <1>6 DEF rt

LEMMA NoLinks ==
    ASSUME NEW rs, \A id \in Id : ~IsRouted(rs, id)
    PROVE  LinkAll(rs) = {} /\ HeldSlots(LinkAll(rs)) = {}
<1>1. LinkAll(rs) = {}
  BY Links
<1> QED
  BY <1>1 DEF HeldSlots

\* The links of a registry that some registrations have left.
LEMMA LinksThatStay ==
    ASSUME NEW rs, NEW rt, NEW gone \in SUBSET Id,
           \A id \in Id : IsRouted(rt, id) <=> id \notin gone /\ IsRouted(rs, id),
           \A id \in Id \ gone : rt[id] = rs[id]
    PROVE  /\ LinkAll(rt) = {h \in LinkAll(rs) : h[2] \notin gone}
           /\ HeldSlots(LinkAll(rt)) \subseteq HeldSlots(LinkAll(rs))
<1>1. ASSUME NEW h PROVE h \in LinkAll(rt) <=> h \in LinkAll(rs) /\ h[2] \notin gone
  <2>1. ASSUME h \in LinkAll(rt) PROVE h \in LinkAll(rs) /\ h[2] \notin gone
    <3>1. PICK id \in Id : IsRouted(rt, id) /\ \E x \in SlotsOf[rt[id].stream] : h = <<x, id>>
      BY <2>1, LinkHasOwner
    <3>2. id \notin gone /\ rt[id] = rs[id] /\ IsRouted(rs, id)
      BY <3>1
    <3>3. h[2] = id
      BY <3>1
    <3>4. h \in LinkAll(rs)
      BY <3>1, <3>2, Links
    <3> QED
      BY <3>2, <3>3, <3>4
  <2>2. ASSUME h \in LinkAll(rs), h[2] \notin gone PROVE h \in LinkAll(rt)
    <3>1. PICK id \in Id : IsRouted(rs, id) /\ \E x \in SlotsOf[rs[id].stream] : h = <<x, id>>
      BY <2>2, LinkHasOwner
    <3>2. h[2] = id
      BY <3>1
    <3>3. rt[id] = rs[id] /\ IsRouted(rt, id)
      BY <2>2, <3>1, <3>2
    <3> QED
      BY <3>1, <3>3, Links
  <2> QED
    BY <2>1, <2>2
<1>2. ASSUME NEW x \in HeldSlots(LinkAll(rt)) PROVE x \in HeldSlots(LinkAll(rs))
  <2>1. PICK id \in Id : IsRouted(rt, id) /\ x \in SlotsOf[rt[id].stream]
    BY Links
  <2>2. IsRouted(rs, id) /\ rt[id] = rs[id]
    BY <2>1
  <2> QED
    BY <2>1, <2>2, Links
<1> QED
  BY <1>1, <1>2

\* Several registrations go at once.
LEMMA UnlinkingAll ==
    ASSUME NEW rs, Served(rs), NEW gone \in SUBSET Id
    PROVE  LET rt == [id \in Id |-> IF id \in gone THEN Nobody ELSE rs[id]] IN
           /\ Served(rt)
           /\ LinkAll(rt) = {h \in LinkAll(rs) : h[2] \notin gone}
           /\ HeldSlots(LinkAll(rt)) \subseteq HeldSlots(LinkAll(rs))
<1> DEFINE rt == [id \in Id |-> IF id \in gone THEN Nobody ELSE rs[id]]
<1>1. Served(rt) /\ \A id \in Id : rt[id] = IF id \in gone THEN Nobody ELSE rs[id]
  BY DEF Served, Registrations
<1> HIDE DEF rt
<1>2. /\ \A id \in Id : IsRouted(rt, id) <=> id \notin gone /\ IsRouted(rs, id)
      /\ \A id \in Id \ gone : rt[id] = rs[id]
  BY <1>1 DEF IsRouted
<1>3. /\ LinkAll(rt) = {h \in LinkAll(rs) : h[2] \notin gone}
      /\ HeldSlots(LinkAll(rt)) \subseteq HeldSlots(LinkAll(rs))
  BY <1>2, LinksThatStay
<1> QED
  BY <1>1, <1>3 DEF rt

-----------------------------------------------------------------------------
(* What is unread on the socket.                                           *)

LEMMA FrameKinds ==
    /\ \A f \in Frame : f.kind \in {"data", "answer", "pong"}
    /\ \A f \in Frame : f.kind = "data" => f.slot \in Slot /\ f.n \in 1..MaxFrames
    /\ \A f \in Frame : f.kind = "answer" =>
          f.ok \in SUBSET Slot /\ f.refused \in BOOLEAN /\ f = Answer(f.ok, f.refused)
    /\ \A ok \in SUBSET Slot, refused \in BOOLEAN :
          LET f == Answer(ok, refused) IN
          f \in Frame /\ f.kind = "answer" /\ f.ok = ok /\ f.refused = refused
    /\ \A x \in Slot, n \in 1..MaxFrames : Data(x, n) \in Frame /\ Data(x, n).kind = "data"
    /\ Pong \in Frame /\ Pong.kind = "pong"
<1>1. \A f \in Frame : f.kind \in {"data", "answer", "pong"}
  BY DEF Frame
<1>2. \A f \in Frame : f.kind = "data" => f.slot \in Slot /\ f.n \in 1..MaxFrames
  BY DEF Frame
<1>3. ASSUME NEW f \in Frame, f.kind = "answer"
      PROVE  f.ok \in SUBSET Slot /\ f.refused \in BOOLEAN /\ f = Answer(f.ok, f.refused)
  <2>1. f \in [kind : {"answer"}, ok : SUBSET Slot, refused : BOOLEAN]
    BY <1>3 DEF Frame
  <2> QED
    BY <2>1 DEF Answer
<1>4. ASSUME NEW ok \in SUBSET Slot, NEW refused \in BOOLEAN
      PROVE  LET f == Answer(ok, refused) IN
             f \in Frame /\ f.kind = "answer" /\ f.ok = ok /\ f.refused = refused
  BY DEF Frame, Answer
<1>5. /\ \A x \in Slot, n \in 1..MaxFrames : Data(x, n) \in Frame /\ Data(x, n).kind = "data"
      /\ Pong \in Frame /\ Pong.kind = "pong"
  BY DEF Frame, Data, Pong
<1> QED
  BY <1>1, <1>2, <1>3, <1>4, <1>5

\* One frame read.
LEMMA WireRead ==
    ASSUME NEW w \in Seq(Frame), w # <<>>
    PROVE  /\ Tail(w) \in Seq(Frame) /\ Head(w) \in Frame /\ Head(w) = w[1]
           /\ Head(w).kind = "answer" <=> 1 \in Answers(w)
           /\ \A i \in Answers(w) : i \in Nat \ {0}
           /\ \A i \in Answers(w) \ {1} : i - 1 \in Answers(Tail(w)) /\ Tail(w)[i - 1] = w[i]
           /\ \A i \in Answers(Tail(w)) : i + 1 \in Answers(w) /\ i + 1 # 1 /\ Tail(w)[i] = w[i + 1]
           /\ \A i \in Answers(Tail(w)) : i \in Nat \ {0}
BY Taking DEF Answers

\* One frame sent.
LEMMA WireSent ==
    ASSUME NEW w \in Seq(Frame), NEW f \in Frame
    PROVE  /\ w \o <<f>> = Append(w, f) /\ Append(w, f) \in Seq(Frame)
           /\ \A i \in Answers(w) : Append(w, f)[i] = w[i] /\ i < Len(w) + 1
           /\ Append(w, f)[Len(w) + 1] = f
           /\ f.kind # "answer" => Answers(Append(w, f)) = Answers(w)
           /\ f.kind = "answer" => Answers(Append(w, f)) = Answers(w) \cup {Len(w) + 1}
<1>1. /\ w \o <<f>> = Append(w, f) /\ Append(w, f) \in Seq(Frame)
      /\ Len(Append(w, f)) = Len(w) + 1 /\ Len(w) \in Nat
      /\ \A i \in 1..Len(w) : Append(w, f)[i] = w[i]
      /\ Append(w, f)[Len(w) + 1] = f
  OBVIOUS
<1>2. \A i \in 1..Len(w) : i < Len(w) + 1
  BY <1>1
<1>3. 1..(Len(w) + 1) = 1..Len(w) \cup {Len(w) + 1}
  BY <1>1
<1> DEFINE v == Append(w, f)
<1>4. Answers(v) = {i \in 1..Len(w) \cup {Len(w) + 1} : v[i].kind = "answer"}
  BY <1>1, <1>3 DEF Answers
<1>5. v[Len(w) + 1] = f /\ \A i \in 1..Len(w) : v[i] = w[i]
  BY <1>1
<1> HIDE DEF v
<1>6. /\ f.kind # "answer" => Answers(v) = Answers(w)
      /\ f.kind = "answer" => Answers(v) = Answers(w) \cup {Len(w) + 1}
  BY <1>4, <1>5 DEF Answers
<1>7. \A i \in Answers(w) : v[i] = w[i] /\ i < Len(w) + 1
  BY <1>2, <1>5 DEF Answers
<1> QED
  BY <1>1, <1>6, <1>7 DEF v

LEMMA ConnectionFields ==
    \E W : /\ W = Seq(Frame) /\ <<>> \in W
           /\ Connection = [open : BOOLEAN, subscribed : SUBSET Slot, provided : SUBSET Slot, wire : W,
                            unanswered : BOOLEAN, silent : BOOLEAN, late : BOOLEAN]
<1>1. <<>> \in Seq(Frame)
  OBVIOUS
<1> QED
  BY <1>1 DEF Connection

LEMMA ClosedIsAConnection ==
    /\ ClosedSocket \in Connection /\ ~ClosedSocket.open
    /\ OpenSocket \in Connection /\ OpenSocket.open /\ OpenSocket.subscribed = {}
    /\ OpenSocket.provided = {} /\ ~OpenSocket.silent /\ OpenSocket.wire = <<>>
    /\ Answers(OpenSocket.wire) = {}
<1>1. PICK W : /\ <<>> \in W
               /\ Connection = [open : BOOLEAN, subscribed : SUBSET Slot, provided : SUBSET Slot,
                                wire : W, unanswered : BOOLEAN, silent : BOOLEAN, late : BOOLEAN]
  BY ConnectionFields, Zenon
<1>2. /\ ClosedSocket \in Connection /\ ~ClosedSocket.open
      /\ OpenSocket \in Connection /\ OpenSocket.open /\ OpenSocket.subscribed = {}
      /\ OpenSocket.provided = {} /\ ~OpenSocket.silent /\ OpenSocket.wire = <<>>
  BY <1>1 DEF ClosedSocket, OpenSocket
<1>3. Answers(<<>>) = {}
  BY DEF Answers
<1> QED
  BY <1>2, <1>3

LEMMA IdleIsAHandshake == /\ Idle \in Handshake /\ Idle.op = "idle" /\ \A rs : HandshakeOK(Idle, rs)
<1>1. Idle \in Handshake /\ Idle.op = "idle"
  BY DEF Idle, Handshake, Op
<1> QED
  BY <1>1 DEF HandshakeOK

\* The state is judged by values: `setting` stays.
LEMMA RegistryNext ==
    ASSUME setting' = setting, RegistryOK(registrations', index', socket', current')
    PROVE  Registry'
BY DEF Registry, RegistryOK, Served, Registrations, Registration, HandshakeOK, Handshake, ConnectionOK,
       Connection, Frame, MaxFrames, provider, ConfirmsRelease, RefusalIsAtomic, HasKeepalive,
       SubscribedOK, WantedOK, InTime, AnswersOK, HeldBefore, SubscribeIsAnswered, ReleaseIsAnswered

-----------------------------------------------------------------------------
(* The ways an operation ends.                                             *)

\* Losing the socket leaves everybody waiting, and nothing else to account for.
LEMMA SocketLost ==
    ASSUME NEW rs, Served(rs), LoseSocket(rs)
    PROVE  RegistryOK(registrations', index', socket', current')
<1>1. /\ registrations' = LoseAll(rs) /\ index' = {} /\ socket' = ClosedSocket /\ current' = Idle
  BY DEF LoseSocket
<1> DEFINE rt == LoseAll(rs)
<1>2. Served(rt) /\ \A id \in Id : ~IsRouted(rt, id)
  BY ServedAll, SinksAfter
<1> HIDE DEF rt
<1>3. LinkAll(rt) = {}
  BY <1>2, NoLinks
<1>4. HandshakeOK(Idle, rt) /\ ConnectionOK(ClosedSocket, Idle, rt)
  <2>1. ~ClosedSocket.open /\ ~ClosedSocket.silent /\ ClosedSocket \in Connection
    BY ClosedIsAConnection DEF ClosedSocket
  <2> QED
    BY <1>2, <2>1, IdleIsAHandshake DEF ConnectionOK
<1>5. SubscribedOK(ClosedSocket, Idle, {}) /\ WantedOK(ClosedSocket, {}) /\ AnswersOK(ClosedSocket, Idle, {})
  BY ClosedIsAConnection, Zenon DEF SubscribedOK, WantedOK, AnswersOK
<1>6. RegistryOK(rt, {}, ClosedSocket, Idle)
  BY <1>2, <1>3, <1>4, <1>5 DEF RegistryOK
<1> QED
  BY <1>1, <1>6, Zenon DEF rt

LEMMA UnsubscribedIs ==
    ASSUME NEW sock \in Connection, NEW slots \in SUBSET Slot
    PROVE  LET e == Unsubscribed(sock, slots) IN
           /\ e \in Connection /\ e.open = sock.open /\ e.silent = sock.silent /\ e.late = sock.late
           /\ e.subscribed = sock.subscribed \ slots
           /\ ~sock.silent => e.provided = sock.provided \ slots
           /\ ~sock.silent /\ ConfirmsRelease =>
                 e.wire = Append(sock.wire, Answer(sock.provided \ slots, FALSE))
<1> DEFINE e == Unsubscribed(sock, slots)
<1> DEFINE answer == Answer(sock.provided \ slots, FALSE)
<1>1. PICK W : /\ W = Seq(Frame)
               /\ Connection = [open : BOOLEAN, subscribed : SUBSET Slot, provided : SUBSET Slot,
                                wire : W, unanswered : BOOLEAN, silent : BOOLEAN, late : BOOLEAN]
  BY ConnectionFields, Zenon
<1>2. answer \in Frame
  <2>1. sock.provided \ slots \in SUBSET Slot
    BY <1>1
  <2> QED
    BY <2>1, FrameKinds
<1> HIDE DEF answer
<1>3. sock.wire \in W /\ Append(sock.wire, answer) \in W
  <2>1. sock.wire \in Seq(Frame)
    BY <1>1
  <2>2. Append(sock.wire, answer) \in Seq(Frame)
    BY <1>2, <2>1, Appending
  <2> QED
    BY <1>1, <2>1, <2>2
<1> DEFINE wire == IF ConfirmsRelease THEN Append(sock.wire, answer) ELSE sock.wire
<1>4. wire \in W
  BY <1>3
<1> HIDE DEF wire
<1>5. sock.silent => e = [sock EXCEPT !.subscribed = @ \ slots]
  BY DEF Unsubscribed
<1> DEFINE left == [sock EXCEPT !.subscribed = @ \ slots]
<1>6. /\ left \in Connection /\ left.open = sock.open /\ left.silent = sock.silent
      /\ left.late = sock.late /\ left.subscribed = sock.subscribed \ slots
      /\ left.provided = sock.provided
      /\ ~sock.silent => e = [left EXCEPT !.provided = @ \ slots, !.wire = wire]
  <2>1. ~sock.silent => e = [left EXCEPT !.provided = @ \ slots, !.wire = wire]
    BY <1>1 DEF Unsubscribed, wire, answer
  <2> QED
    BY <1>1, <2>1
<1> HIDE DEF e, left
<1>7. /\ e \in Connection /\ e.open = sock.open /\ e.silent = sock.silent /\ e.late = sock.late
      /\ e.subscribed = sock.subscribed \ slots
      /\ ~sock.silent => e.provided = sock.provided \ slots /\ e.wire = wire
  <2>1. CASE sock.silent
    BY <1>5, <1>6, <2>1 DEF left
  <2>2. CASE ~sock.silent
    BY <1>1, <1>4, <1>6, <2>2
  <2> QED
    BY <2>1, <2>2
<1>8. ConfirmsRelease => wire = Append(sock.wire, Answer(sock.provided \ slots, FALSE))
  BY DEF wire, answer
<1> QED
  BY <1>7, <1>8 DEF e

LEMMA Protocols ==
    /\ ConfirmsRelease <=> RefusalIsAtomic
    /\ ConfirmsRelease <=> provider = "Alpaca"
    /\ HasKeepalive => ~ConfirmsRelease
BY DEF ConfirmsRelease, RefusalIsAtomic, HasKeepalive

\* An operation that ends with nothing to settle.
LEMMA NothingToSettle ==
    ASSUME NEW rs, NEW ix, NEW sock, Releasable(rs, ix, sock, {}), sock.open => ~IsEmpty(rs)
    PROVE  RegistryOK(rs, ix, sock, Idle)
<1>1. HandshakeOK(Idle, rs) /\ Idle.op = "idle"
  BY IdleIsAHandshake
<1>2. ConnectionOK(sock, Idle, rs)
  BY DEF Releasable, ConnectionOK
<1>3. SubscribedOK(sock, Idle, ix) /\ WantedOK(sock, ix) /\ AnswersOK(sock, Idle, ix)
  BY <1>1 DEF Releasable, SubscribedOK, WantedOK, AnswersOK
<1> QED
  BY <1>1, <1>2, <1>3 DEF RegistryOK, Releasable

LEMMA Released ==
    ASSUME NEW rs, NEW ix, NEW sock, NEW slots, NEW q, NEW s \in Stream \cup {NoStream},
           NEW waits \in BOOLEAN,
           Releasable(rs, ix, sock, slots), Release(rs, ix, sock, slots, q, s, waits)
    PROVE  RegistryOK(registrations', index', socket', current')
<1>1. CASE /\ IsEmpty(rs) \/ ~sock.open \/ slots = {}
           /\ registrations' = rs /\ index' = ix /\ current' = Idle
           /\ socket' = IF IsEmpty(rs) THEN ClosedSocket ELSE sock
  <2>1. CASE IsEmpty(rs)
    <3>1. \A id \in Id : ~IsRouted(rs, id)
      BY <2>1 DEF IsEmpty, IsRouted
    <3>2. Releasable(rs, ix, ClosedSocket, {})
      BY <3>1, ClosedIsAConnection DEF Releasable, ClosedSocket
    <3>3. RegistryOK(rs, ix, ClosedSocket, Idle)
      BY <3>2, ClosedIsAConnection, NothingToSettle
    <3> QED
      BY <1>1, <2>1, <3>3
  <2>2. CASE ~IsEmpty(rs)
    <3>1. Releasable(rs, ix, sock, {})
      BY <1>1, <2>2 DEF Releasable
    <3>2. RegistryOK(rs, ix, sock, Idle)
      BY <2>2, <3>1, NothingToSettle
    <3> QED
      BY <1>1, <2>2, <3>2
  <2> QED
    BY <2>1, <2>2
<1>2. CASE /\ ~IsEmpty(rs) /\ sock.open /\ slots # {}
           /\ registrations' = rs /\ index' = ix /\ socket' = Unsubscribed(sock, slots)
           /\ \/ /\ ConfirmsRelease
                 /\ current' = [Idle EXCEPT !.op = "releasing", !.stream = s, !.waits = waits,
                                            !.outstanding = slots]
              \/ ~ConfirmsRelease /\ current' = Idle
  <2> DEFINE e == Unsubscribed(sock, slots)
  <2>1. sock \in Connection /\ slots \in SUBSET Slot
    BY DEF Releasable
  <2>2. /\ e \in Connection /\ e.open /\ e.silent = sock.silent /\ e.late = sock.late
        /\ e.subscribed = sock.subscribed \ slots
        /\ ~sock.silent => e.provided = sock.provided \ slots
        /\ ~sock.silent /\ ConfirmsRelease =>
              e.wire = Append(sock.wire, Answer(sock.provided \ slots, FALSE))
    <3>1. /\ e \in Connection /\ e.open = sock.open /\ e.silent = sock.silent /\ e.late = sock.late
          /\ e.subscribed = sock.subscribed \ slots
          /\ ~sock.silent => e.provided = sock.provided \ slots
          /\ ~sock.silent /\ ConfirmsRelease =>
                e.wire = Append(sock.wire, Answer(sock.provided \ slots, FALSE))
      BY <2>1, UnsubscribedIs, Zenon
    <3>2. e.open
      BY <1>2, <3>1
    <3> QED
      BY <3>1, <3>2, Zenon
  <2> HIDE DEF e
  <2>4. WantedOK(e, ix) /\ e.subscribed = HeldSlots(ix)
    BY <1>2, <2>2 DEF Releasable, WantedOK, InTime
  <2>5. CASE ~ConfirmsRelease /\ current' = Idle
    <3>1. Releasable(rs, ix, e, {})
      BY <1>2, <2>2, <2>4, <2>5 DEF Releasable, WantedOK
    <3>2. RegistryOK(rs, ix, e, Idle)
      BY <1>2, <3>1, NothingToSettle
    <3> QED
      BY <1>2, <2>5, <3>2 DEF e
  <2>6. CASE /\ ConfirmsRelease
             /\ current' = [Idle EXCEPT !.op = "releasing", !.stream = s, !.waits = waits,
                                        !.outstanding = slots]
    <3> DEFINE cur == [Idle EXCEPT !.op = "releasing", !.stream = s, !.waits = waits,
                                   !.outstanding = slots]
    <3>1. cur \in Handshake /\ cur.op = "releasing" /\ cur.id = NoId /\ cur.outstanding = slots
      BY <2>1 DEF Idle, Handshake, Op
    <3> HIDE DEF cur
    <3>2. HandshakeOK(cur, rs)
      BY <2>6, <3>1 DEF HandshakeOK
    <3>3. ConnectionOK(e, cur, rs) /\ SubscribedOK(e, cur, ix)
      BY <1>2, <2>2, <2>4, <3>1 DEF ConnectionOK, SubscribedOK
    <3>4. AnswersOK(e, cur, ix)
      <4> SUFFICES ASSUME ~sock.late
                   PROVE  /\ e.subscribed \subseteq e.provided
                          /\ \/ \E i \in Answers(e.wire) : ReleaseIsAnswered(e, cur, i)
                             \/ e.silent /\ ReleaseIsUnanswered(e, cur)
        BY <2>2, <3>1 DEF AnswersOK
      <4>0. CASE sock.silent
        <5>1. e.silent /\ e.provided = sock.provided /\ e.wire = sock.wire
          BY <2>1, <2>2, <4>0 DEF e, Unsubscribed, Connection
        <5>2. /\ sock.subscribed \subseteq sock.provided
              /\ \A j \in Answers(sock.wire) : sock.wire[j].refused \/ slots \cap sock.wire[j].ok # {}
          BY <1>2, <2>6 DEF Releasable
        <5>3. e.subscribed \subseteq e.provided
          BY <2>2, <5>1, <5>2
        <5>4. ReleaseIsUnanswered(e, cur)
          BY <3>1, <5>1, <5>2 DEF ReleaseIsUnanswered
        <5> QED
          BY <5>1, <5>3, <5>4
      <4> SUFFICES ASSUME ~sock.silent
                   PROVE  /\ e.subscribed \subseteq e.provided
                          /\ \E i \in Answers(e.wire) : ReleaseIsAnswered(e, cur, i)
        BY <4>0
      <4> DEFINE answer == Answer(sock.provided \ slots, FALSE)  n == Len(sock.wire) + 1
      <4>1. /\ ~sock.silent /\ e.provided = sock.provided \ slots /\ e.wire = Append(sock.wire, answer)
        BY <2>2, <2>6
      <4>2. sock.wire \in Seq(Frame) /\ sock.provided \ slots \in SUBSET Slot
        BY <2>1 DEF Connection
      <4>3. answer \in Frame /\ answer.kind = "answer"
        BY <4>2, FrameKinds
      <4> HIDE DEF answer
      <4>4. /\ Answers(e.wire) = Answers(sock.wire) \cup {n} /\ e.wire[n] = answer
            /\ \A i \in Answers(sock.wire) : e.wire[i] = sock.wire[i] /\ i < n
        <5> DEFINE w == sock.wire
        <5>1. w \in Seq(Frame) /\ e.wire = Append(w, answer) /\ n = Len(w) + 1
          BY <4>1, <4>2
        <5> HIDE DEF w, n
        <5>2. /\ \A i \in Answers(w) : Append(w, answer)[i] = w[i] /\ i < Len(w) + 1
              /\ Append(w, answer)[Len(w) + 1] = answer
              /\ Answers(Append(w, answer)) = Answers(w) \cup {Len(w) + 1}
          BY <4>3, <5>1, WireSent
        <5> QED
          BY <5>1, <5>2 DEF w
      <4> HIDE DEF n
      <4>5. /\ sock.subscribed \subseteq sock.provided
            /\ \A j \in Answers(sock.wire) : sock.wire[j].refused \/ slots \cap sock.wire[j].ok # {}
        BY <1>2, <2>6 DEF Releasable
      <4>6. e.wire[n] = Answer(e.provided, FALSE) /\ cur.outstanding \cap e.provided = {}
        BY <3>1, <4>1, <4>4 DEF answer
      <4>7. \A j \in Answers(e.wire) \ {n} :
               j < n /\ (e.wire[j].refused \/ cur.outstanding \cap e.wire[j].ok # {})
        BY <3>1, <4>4, <4>5
      <4>8. ReleaseIsAnswered(e, cur, n)
        BY <4>6, <4>7 DEF ReleaseIsAnswered
      <4> QED
        BY <2>2, <4>1, <4>4, <4>5, <4>8
    <3>5. RegistryOK(rs, ix, e, cur)
      BY <2>4, <3>2, <3>3, <3>4 DEF RegistryOK, Releasable
    <3> QED
      BY <1>2, <2>6, <3>5 DEF e, cur
  <2> QED
    BY <1>2, <2>5, <2>6
<1>3. CASE LoseSocket(rs)
  BY <1>3, SocketLost DEF Releasable
<1> QED
  BY <1>1, <1>2, <1>3 DEF Release

-----------------------------------------------------------------------------
(* Subscribing.                                                            *)

LEMMA Enumerated ==
    ASSUME NEW S, IsFiniteSet(S)
    PROVE  \E n \in Nat : SetToSeq(S) \in [1..n -> S]
<1> DEFINE n == Cardinality(S)
<1>1. n \in Nat /\ ExistsBijection(1..n, S)
  BY FS_CardinalityType
<1> HIDE DEF n
<1>2. \E f \in [1..n -> S] : IsInjective(f)
  BY <1>1 DEF ExistsBijection, Bijection, Injection
<1>3. SetToSeq(S) \in [1..n -> S]
  BY <1>2, Zenon DEF SetToSeq, n
<1> QED
  BY <1>1, <1>3

LEMMA AnswersAreFrames ==
    ASSUME setting \in Settings, NEW provided \in SUBSET Slot, NEW sending \in SUBSET Slot,
           NEW accepted \in SUBSET sending
    PROVE  SubscribeAnswers(provided, sending, accepted) \in Seq(Frame)
<1>1. provider \in {"Alpaca", "Massive", "LSE"}
  BY SettingsAssumption DEF provider
<1>2. /\ \A ok \in SUBSET Slot, refused \in BOOLEAN : Answer(ok, refused) \in Frame
      /\ \A f \in Frame : <<f>> \in Seq(Frame)
  BY FrameKinds
<1>3. CASE provider = "Alpaca"
  <2>1. provided \cup sending \in SUBSET Slot /\ {} \in SUBSET Slot
    OBVIOUS
  <2>2. /\ accepted = sending => SubscribeAnswers(provided, sending, accepted) = <<Answer(provided \cup sending, FALSE)>>
        /\ accepted # sending => SubscribeAnswers(provided, sending, accepted) = <<Answer({}, TRUE)>>
    BY <1>3 DEF SubscribeAnswers
  <2>3. Answer(provided \cup sending, FALSE) \in Frame /\ Answer({}, TRUE) \in Frame
    BY <1>2, <2>1
  <2> QED
    BY <1>2, <2>2, <2>3
<1>4. CASE provider = "Massive"
  <2>1. SubscribeAnswers(provided, sending, accepted) = <<Answer(accepted, accepted # sending)>>
    BY <1>4 DEF SubscribeAnswers
  <2>2. Answer(accepted, accepted # sending) \in Frame
    BY <1>2
  <2> QED
    BY <1>2, <2>1, <2>2
<1>5. CASE provider = "LSE"
  <2> DEFINE order == SetToSeq(sending)
  <2>1. IsFiniteSet(sending)
    BY SlotsOfAssumption, FS_Subset
  <2>2. PICK n \in Nat : order \in [1..n -> sending]
    BY <2>1, Enumerated
  <2>3. SubscribeAnswers(provided, sending, accepted) =
           [i \in DOMAIN order |-> Answer({order[i]} \cap accepted, order[i] \notin accepted)]
    BY <1>5 DEF SubscribeAnswers
  <2> HIDE DEF order
  <2>4. \A i \in 1..n : Answer({order[i]} \cap accepted, order[i] \notin accepted) \in Frame
    BY <1>2
  <2>5. SubscribeAnswers(provided, sending, accepted) \in [1..n -> Frame]
    BY <2>2, <2>3, <2>4
  <2> QED
    BY <2>5
<1> QED
  BY <1>1, <1>3, <1>4, <1>5

LEMMA SubscribedIs ==
    ASSUME setting \in Settings, NEW sock \in Connection, NEW sending \in SUBSET Slot,
           NEW accepted \in SUBSET sending
    PROVE  LET e == Subscribed(sock, sending, accepted) IN
           /\ e \in Connection /\ e.open = sock.open /\ e.silent = sock.silent /\ e.late = sock.late
           /\ e.subscribed = sock.subscribed
           /\ ~sock.silent => /\ e.provided = sock.provided \cup accepted
                              /\ e.wire = sock.wire \o SubscribeAnswers(sock.provided, sending, accepted)
<1> DEFINE e == Subscribed(sock, sending, accepted)
           answers == SubscribeAnswers(sock.provided, sending, accepted)
<1>1. PICK W : /\ W = Seq(Frame)
               /\ Connection = [open : BOOLEAN, subscribed : SUBSET Slot, provided : SUBSET Slot,
                                wire : W, unanswered : BOOLEAN, silent : BOOLEAN, late : BOOLEAN]
  BY ConnectionFields, Zenon
<1>2. answers \in Seq(Frame)
  <2>1. sock.provided \in SUBSET Slot
    BY <1>1
  <2> QED
    BY <2>1, AnswersAreFrames
<1>3. /\ sock.silent => e = sock
      /\ ~sock.silent => e = [sock EXCEPT !.provided = @ \cup accepted, !.wire = @ \o answers]
  BY DEF Subscribed
<1> HIDE DEF e, answers
<1>4. sock.wire \o answers \in W
  <2>1. sock.wire \in Seq(Frame)
    BY <1>1
  <2>2. sock.wire \o answers \in Seq(Frame)
    BY <1>2, <2>1
  <2> QED
    BY <1>1, <2>2
<1>5. /\ e \in Connection /\ e.open = sock.open /\ e.silent = sock.silent /\ e.late = sock.late
      /\ e.subscribed = sock.subscribed
      /\ ~sock.silent => e.provided = sock.provided \cup accepted /\ e.wire = sock.wire \o answers
  <2>1. CASE sock.silent
    BY <1>3, <2>1
  <2>2. CASE ~sock.silent
    BY <1>1, <1>3, <1>4, <2>2
  <2> QED
    BY <2>1, <2>2
<1> QED
  BY <1>5 DEF e, answers

\* What a stream's subscribe adds to the registrations and to what is held.
LEMMA Added ==
    ASSUME NEW rs, Served(rs), NEW id \in Id, rs[id] = Nobody, NEW s \in Stream
    PROVE  LET with == [rs EXCEPT ![id] = Live(s)] IN
           /\ Served(with) /\ ~IsEmpty(with) /\ IsLive(with, id) /\ with[id].stream = s
           /\ LinkAll(with) = Link(LinkAll(rs), id, s)
           /\ HeldSlots(LinkAll(with)) = HeldSlots(LinkAll(rs)) \cup SlotsOf[s]
           /\ Unlink(LinkAll(with), id) = LinkAll(rs)
           /\ HeldSlots(LinkAll(with)) \in SUBSET Slot
<1> DEFINE with == [rs EXCEPT ![id] = Live(s)]
<1>1. /\ Live(s) \in Registration /\ Live(s) # Nobody
      /\ Live(s).stream = s /\ Live(s).sink = "Live" /\ Live(s).frames = Live(s).due
  BY LiveIsRegistration
<1>2. Served(with)
  BY <1>1, ServedOne
<1>3. with[id] = Live(s)
  BY DEF Served, Registrations
<1>4. /\ LinkAll(with) = Link(LinkAll(rs), id, s)
      /\ Unlink(Link(LinkAll(rs), id, s), id) = LinkAll(rs)
      /\ HeldSlots(Link(LinkAll(rs), id, s)) = HeldSlots(LinkAll(rs)) \cup SlotsOf[s]
  BY <1>1, Linking
<1>5. HeldSlots(LinkAll(with)) \in SUBSET Slot
  BY <1>2, LinksAreTyped
<1> QED
  BY <1>1, <1>2, <1>3, <1>4, <1>5, Zenon DEF IsEmpty, IsLive

LEMMA SubscribeKeeps ==
    ASSUME setting \in Settings, NEW rs, NEW ix, NEW sock, NEW fresh \in BOOLEAN, NEW q,
           NEW s \in Stream, NEW waits \in BOOLEAN, queue \in Seq(Request), rs[FreshId] = Nobody,
           Subscribable(rs, ix, sock, fresh), Subscribe(rs, ix, sock, fresh, q, s, waits)
    PROVE  RegistryOK(registrations', index', socket', current')
<1> DEFINE id == FreshId  with == [rs EXCEPT ![id] = Live(s)]  linked == Link(ix, id, s)
           sending == (SlotsOf[s] \cup (IF fresh THEN HeldSlots(ix) ELSE {})) \ sock.subscribed
<1>1. id \in Id /\ id # NoId
  BY FreshIdIsFree DEF Subscribe
<1>2. \/ /\ sending = {} /\ registrations' = with /\ index' = linked /\ socket' = sock
         /\ current' = Idle
      \/ /\ sending # {} /\ registrations' = with /\ index' = linked
         /\ \E accepted \in IF sock.silent THEN {sending} ELSE Accepted(sending) :
               socket' = Subscribed(sock, sending, accepted)
         /\ current' = [op |-> "subscribing", id |-> id, stream |-> s, waits |-> waits,
                        fresh |-> fresh, sending |-> sending, outstanding |-> sending]
      \/ LoseSocket(rs)
  BY DEF Subscribe
<1> DEFINE before == HeldSlots(ix)  after == HeldSlots(linked)
<1>3. /\ Served(rs) /\ ix = LinkAll(rs) /\ rs[id] = Nobody /\ with = [rs EXCEPT ![id] = Live(s)]
      /\ SlotsOf[s] \subseteq Slot /\ SlotsOf[s] # {}
  BY SlotsOfAssumption DEF Subscribable
<1> HIDE DEF id, with
<1>4. /\ Served(with) /\ ~IsEmpty(with) /\ IsLive(with, id) /\ with[id].stream = s
      /\ linked = LinkAll(with) /\ after = before \cup SlotsOf[s] /\ Unlink(linked, id) = ix
      /\ after \in SUBSET Slot
  <2>1. /\ Served(with) /\ ~IsEmpty(with) /\ IsLive(with, id) /\ with[id].stream = s
        /\ LinkAll(with) = Link(LinkAll(rs), id, s)
        /\ HeldSlots(LinkAll(with)) = HeldSlots(LinkAll(rs)) \cup SlotsOf[s]
        /\ Unlink(LinkAll(with), id) = LinkAll(rs)
        /\ HeldSlots(LinkAll(with)) \in SUBSET Slot
    BY <1>1, <1>3, Added, Zenon DEF with
  <2> QED
    BY <1>3, <2>1, Zenon
<1> HIDE DEF linked, after, before
<1>5. /\ sock.subscribed \cup sending = after
      /\ ~fresh => sock.subscribed = before /\ sending \cap before = {}
      /\ sending \in SUBSET Slot /\ (sending = {} => ~fresh)
      /\ before \subseteq after
  <2>1. /\ fresh => sock.subscribed = {}
        /\ ~fresh => sock.subscribed = before
    BY DEF Subscribable, before
  <2>2. /\ sending \subseteq SlotsOf[s] \cup before
        /\ fresh => sending = (SlotsOf[s] \cup before) \ sock.subscribed
        /\ ~fresh => sending = SlotsOf[s] \ sock.subscribed
    BY DEF before
  <2> HIDE DEF sending
  <2> QED
    BY <1>3, <1>4, <2>1, <2>2
<1>6. /\ sock \in Connection /\ sock.open
      /\ ~sock.silent /\ InTime(sock) => sock.provided \subseteq before
      /\ ConfirmsRelease /\ ~sock.late =>
            sock.subscribed \subseteq sock.provided /\ Answers(sock.wire) = {}
  BY DEF Subscribable, before
<1> HIDE DEF sending
<1>7. CASE sending = {} /\ registrations' = with /\ index' = linked /\ socket' = sock /\ current' = Idle
  <2>1. sock.subscribed = after /\ sock.provided \subseteq before => sock.provided \subseteq after
    BY <1>5, <1>7
  <2>2. Releasable(with, linked, sock, {})
    BY <1>4, <1>5, <1>6, <1>7 DEF Releasable, after
  <2>3. RegistryOK(with, linked, sock, Idle)
    BY <1>4, <2>2, NothingToSettle
  <2> QED
    BY <1>7, <2>3
<1>8. ASSUME sending # {}, registrations' = with, index' = linked,
             NEW accepted \in IF sock.silent THEN {sending} ELSE Accepted(sending),
             socket' = Subscribed(sock, sending, accepted),
             current' = [op |-> "subscribing", id |-> id, stream |-> s, waits |-> waits,
                         fresh |-> fresh, sending |-> sending, outstanding |-> sending]
      PROVE  RegistryOK(registrations', index', socket', current')
  <2> DEFINE e == Subscribed(sock, sending, accepted)
             cur == [op |-> "subscribing", id |-> id, stream |-> s, waits |-> waits,
                     fresh |-> fresh, sending |-> sending, outstanding |-> sending]
  <2>1. accepted \in SUBSET sending /\ (~sock.silent /\ RefusalIsAtomic => accepted \in {{}, sending})
    BY <1>8 DEF Accepted
  <2>2. /\ e \in Connection /\ e.open = sock.open /\ e.silent = sock.silent /\ e.late = sock.late
        /\ e.subscribed = sock.subscribed
        /\ ~sock.silent => /\ e.provided = sock.provided \cup accepted
                           /\ e.wire = sock.wire \o SubscribeAnswers(sock.provided, sending, accepted)
    <3>1. sock \in Connection /\ sending \in SUBSET Slot /\ accepted \in SUBSET sending
      BY <1>5, <1>6, <2>1
    <3> QED
      BY <3>1, SubscribedIs, Zenon
  <2>3. /\ cur.op = "subscribing" /\ cur.id = id /\ cur.stream = s /\ cur.fresh = fresh
        /\ cur.sending = sending /\ cur.outstanding = sending /\ cur \in Handshake
    BY <1>1, <1>5 DEF Handshake, Op
  <2> HIDE DEF e, cur
  <2>4. HandshakeOK(cur, with)
    BY <1>1, <1>4, <1>8, <2>3 DEF HandshakeOK
  <2>5. ConnectionOK(e, cur, with)
    BY <1>4, <1>6, <2>2 DEF ConnectionOK
  <2>6. HeldBefore(cur, linked) = before
    BY <1>4, <2>3 DEF HeldBefore, before
  <2>7. SubscribedOK(e, cur, linked)
    BY <1>5, <2>2, <2>3, <2>6 DEF SubscribedOK, after
  <2>8. WantedOK(e, linked)
    <3>1. ASSUME ~sock.silent, InTime(sock) PROVE e.provided \subseteq after
      BY <1>5, <1>6, <2>1, <2>2, <3>1
    <3> QED
      BY <2>2, <3>1 DEF WantedOK, InTime, after
  <2>9. AnswersOK(e, cur, linked)
    <3> SUFFICES ASSUME ConfirmsRelease, ~sock.late
                 PROVE  /\ e.subscribed \subseteq e.provided
                        /\ \/ \E i \in Answers(e.wire) : SubscribeIsAnswered(e, cur, linked, i)
                           \/ e.silent /\ Answers(e.wire) = {}
      BY <2>2, <2>3 DEF AnswersOK
    <3>0. CASE sock.silent
      <4>1. e = sock
        BY <3>0 DEF e, Subscribed
      <4> QED
        BY <1>6, <3>0, <4>1
    <3> SUFFICES ASSUME ~sock.silent
                 PROVE  /\ e.subscribed \subseteq e.provided
                        /\ \E i \in Answers(e.wire) : SubscribeIsAnswered(e, cur, linked, i)
      BY <3>0
    <3> DEFINE ok == accepted = sending
               answer == IF ok THEN Answer(sock.provided \cup sending, FALSE) ELSE Answer({}, TRUE)
               w == sock.wire
               n == Len(w) + 1
    <3>1. /\ provider = "Alpaca" /\ RefusalIsAtomic /\ ~sock.silent /\ InTime(sock)
      BY <1>6, Protocols DEF InTime
    <3>2. SubscribeAnswers(sock.provided, sending, accepted) = <<answer>>
      BY <3>1 DEF SubscribeAnswers
    <3>3. w \in Seq(Frame) /\ sock.provided \cup sending \in SUBSET Slot /\ {} \in SUBSET Slot
      BY <1>5, <1>6 DEF Connection
    <3>4. answer \in Frame /\ answer.kind = "answer"
      <4>1. /\ Answer(sock.provided \cup sending, FALSE) \in Frame
            /\ Answer(sock.provided \cup sending, FALSE).kind = "answer"
            /\ Answer({}, TRUE) \in Frame /\ Answer({}, TRUE).kind = "answer"
        BY <3>3, FrameKinds
      <4> QED
        BY <4>1
    <3>5. e.wire = w \o <<answer>> /\ e.provided = sock.provided \cup accepted
      BY <2>2, <3>1, <3>2
    <3> HIDE DEF answer
    <3>6. Answers(w) = {} /\ sock.subscribed \subseteq sock.provided /\ sock.provided \subseteq before
      BY <1>6, <3>1
    <3> HIDE DEF w
    <3>7. /\ w \o <<answer>> = Append(w, answer) /\ Append(w, answer)[n] = answer
          /\ Answers(Append(w, answer)) = Answers(w) \cup {n}
      BY <3>3, <3>4, WireSent
    <3> HIDE DEF n
    <3>8. Answers(e.wire) = {n} /\ e.wire[n] = answer
      BY <3>5, <3>6, <3>7
    <3>9. CASE ok
      <4>1. answer = Answer(e.provided, FALSE) /\ sending \subseteq e.provided
        BY <3>5, <3>9 DEF answer
      <4>2. SubscribeIsAnswered(e, cur, linked, n)
        BY <2>3, <3>8, <4>1 DEF SubscribeIsAnswered
      <4> QED
        BY <2>2, <3>5, <3>6, <3>8, <4>2
    <3>10. CASE ~ok
      <4>1. accepted = {}
        BY <2>1, <3>1, <3>10
      <4>2. answer = Answer({}, TRUE) /\ e.provided = sock.provided
        BY <3>5, <3>10, <4>1 DEF answer
      <4>3. SubscribeIsAnswered(e, cur, linked, n)
        BY <2>3, <2>6, <3>6, <3>8, <4>2 DEF SubscribeIsAnswered
      <4> QED
        BY <2>2, <3>6, <3>8, <4>2, <4>3
    <3> QED
      BY <3>9, <3>10
  <2>10. RegistryOK(with, linked, e, cur)
    BY <1>4, <2>4, <2>5, <2>7, <2>8, <2>9 DEF RegistryOK
  <2> QED
    BY <1>8, <2>10 DEF e, cur
<1>9. CASE LoseSocket(rs)
  BY <1>3, <1>9, SocketLost
<1> QED
  BY <1>2, <1>7, <1>8, <1>9

-----------------------------------------------------------------------------
(* Reading the socket.                                                     *)

\* A socket with something to read is open.
LEMMA ReadingIsOpen ==
    ASSUME Registry, socket.wire # <<>> \/ current # Idle
    PROVE  /\ socket \in Connection /\ socket.open /\ ~IsEmpty(registrations)
           /\ socket.wire \in Seq(Frame)
BY DEF Registry, RegistryOK, ConnectionOK, ClosedSocket, Connection

LEMMA AfterReadIs ==
    ASSUME socket \in Connection, socket.wire # <<>>
    PROVE  /\ AfterRead \in Connection /\ AfterRead.open = socket.open
           /\ AfterRead.subscribed = socket.subscribed /\ AfterRead.provided = socket.provided
           /\ AfterRead.silent = socket.silent /\ AfterRead.late = socket.late
           /\ AfterRead.wire = Tail(socket.wire)
<1>1. PICK W : /\ W = Seq(Frame)
               /\ Connection = [open : BOOLEAN, subscribed : SUBSET Slot, provided : SUBSET Slot,
                                wire : W, unanswered : BOOLEAN, silent : BOOLEAN, late : BOOLEAN]
  BY ConnectionFields, Zenon
<1>2. Tail(socket.wire) \in W
  <2>1. socket.wire \in Seq(Frame)
    BY <1>1
  <2> QED
    BY <1>1, <2>1
<1> QED
  BY <1>1, <1>2 DEF AfterRead

\* The connection changes, and what it is subscribed to does not.
LEMMA SocketChanged ==
    ASSUME NEW rs, NEW ix, NEW sock, NEW cur, RegistryOK(rs, ix, sock, cur), sock.open,
           NEW e \in Connection, e.open, e.subscribed = sock.subscribed, e.provided = sock.provided,
           ~e.silent => ~sock.silent, e.late = sock.late,
           AnswersOK(e, cur, ix)
    PROVE  RegistryOK(rs, ix, e, cur)
<1>1. ConnectionOK(e, cur, rs) /\ SubscribedOK(e, cur, ix) /\ WantedOK(e, ix)
  BY DEF RegistryOK, ConnectionOK, SubscribedOK, WantedOK, InTime
<1> QED
  BY <1>1 DEF RegistryOK

\* What is read is no answer: those under way are still to come.
LEMMA StillAnswered ==
    ASSUME NEW sock, NEW e, NEW cur, NEW ix, sock.wire \in Seq(Frame), sock.wire # <<>>,
           Head(sock.wire).kind # "answer", AnswersOK(sock, cur, ix),
           e.open = sock.open, e.subscribed = sock.subscribed, e.provided = sock.provided,
           e.silent = sock.silent, e.late = sock.late, e.wire = Tail(sock.wire)
    PROVE  AnswersOK(e, cur, ix)
<1> DEFINE w == sock.wire
<1>1. /\ 1 \notin Answers(w)
      /\ \A i \in Answers(w) : i \in Nat \ {0} /\ i - 1 \in Answers(e.wire) /\ e.wire[i - 1] = w[i]
      /\ \A i \in Answers(e.wire) : i \in Nat \ {0} /\ i + 1 \in Answers(w) /\ e.wire[i] = w[i + 1]
  <2>1. /\ Head(w).kind = "answer" <=> 1 \in Answers(w)
        /\ \A i \in Answers(w) : i \in Nat \ {0}
        /\ \A i \in Answers(w) \ {1} : i - 1 \in Answers(Tail(w)) /\ Tail(w)[i - 1] = w[i]
        /\ \A i \in Answers(Tail(w)) : i + 1 \in Answers(w) /\ i + 1 # 1 /\ Tail(w)[i] = w[i + 1]
        /\ \A i \in Answers(Tail(w)) : i \in Nat \ {0}
    BY WireRead
  <2> HIDE DEF w
  <2> QED
    BY <2>1 DEF w
<1> HIDE DEF w
<1> SUFFICES ASSUME sock.open, ConfirmsRelease, ~sock.late
             PROVE  /\ sock.subscribed \subseteq sock.provided
                    /\ cur.op = "idle" => Answers(e.wire) = {}
                    /\ cur.op = "subscribing" =>
                          \/ \E i \in Answers(e.wire) : SubscribeIsAnswered(e, cur, ix, i)
                          \/ sock.silent /\ Answers(e.wire) = {}
                    /\ cur.op = "releasing" =>
                          \/ \E i \in Answers(e.wire) : ReleaseIsAnswered(e, cur, i)
                          \/ sock.silent /\ ReleaseIsUnanswered(e, cur)
  BY DEF AnswersOK
<1>2. /\ sock.subscribed \subseteq sock.provided
      /\ cur.op = "idle" => Answers(w) = {}
      /\ cur.op = "subscribing" => \/ \E i \in Answers(w) : SubscribeIsAnswered(sock, cur, ix, i)
                                   \/ sock.silent /\ Answers(w) = {}
      /\ cur.op = "releasing" => \/ \E i \in Answers(w) : ReleaseIsAnswered(sock, cur, i)
                                 \/ sock.silent /\ ReleaseIsUnanswered(sock, cur)
  BY DEF AnswersOK, w
<1>3. Answers(w) = {} => Answers(e.wire) = {}
  BY <1>1
<1>4. ASSUME NEW i \in Answers(w), SubscribeIsAnswered(sock, cur, ix, i)
      PROVE  SubscribeIsAnswered(e, cur, ix, i - 1)
  <2>1. Answers(w) = {i}
    BY <1>4 DEF SubscribeIsAnswered, w
  <2>2. \A j \in Answers(e.wire) : j = i - 1
    BY <1>1, <2>1
  <2>3. Answers(e.wire) = {i - 1} /\ e.wire[i - 1] = w[i]
    BY <1>1, <2>2
  <2> QED
    BY <1>4, <2>3 DEF SubscribeIsAnswered, w
<1>5. ASSUME NEW i \in Answers(w), ReleaseIsAnswered(sock, cur, i)
      PROVE  ReleaseIsAnswered(e, cur, i - 1)
  <2>1. ASSUME NEW j \in Answers(e.wire) \ {i - 1}
        PROVE  j < i - 1 /\ (e.wire[j].refused \/ cur.outstanding \cap e.wire[j].ok # {})
    <3>1. /\ j + 1 \in Answers(w) /\ e.wire[j] = w[j + 1] /\ j \in Nat /\ i \in Nat
      BY <1>1
    <3>2. j + 1 # i
      BY <3>1
    <3>3. j + 1 < i /\ (w[j + 1].refused \/ cur.outstanding \cap w[j + 1].ok # {})
      BY <1>5, <3>1, <3>2 DEF ReleaseIsAnswered, w
    <3>4. j < i - 1
      BY <3>1, <3>3
    <3> QED
      BY <3>1, <3>3, <3>4
  <2>2. e.wire[i - 1] = w[i]
    BY <1>1
  <2> QED
    BY <1>5, <2>1, <2>2 DEF ReleaseIsAnswered, w
<1>6. ASSUME ReleaseIsUnanswered(sock, cur)
      PROVE  ReleaseIsUnanswered(e, cur)
  <2> SUFFICES ASSUME NEW j \in Answers(e.wire)
               PROVE  e.wire[j].refused \/ cur.outstanding \cap e.wire[j].ok # {}
    BY DEF ReleaseIsUnanswered
  <2>1. j + 1 \in Answers(w) /\ e.wire[j] = w[j + 1]
    BY <1>1
  <2> QED
    BY <1>6, <2>1 DEF ReleaseIsUnanswered, w
<1> QED
  BY <1>1, <1>2, <1>3, <1>4, <1>5, <1>6

\* A data frame reaches whoever holds its slot.
LEMMA Routed ==
    ASSUME Registry, NEW frame \in Frame, frame.kind = "data", NEW rt, rt = Route(registrations, frame)
    PROVE  /\ Served(rt)
           /\ \A id \in Id : /\ rt[id] = Nobody <=> registrations[id] = Nobody
                             /\ registrations[id] # Nobody =>
                                   /\ rt[id].sink = registrations[id].sink
                                   /\ rt[id].stream = registrations[id].stream
                                   /\ rt[id].left = registrations[id].left
<1>1. Served(registrations) /\ index = LinkAll(registrations)
  BY DEF Registry, RegistryOK
<1>2. frame.n \in 1..MaxFrames
  BY FrameKinds
<1>3. rt = [id \in Id |-> rt[id]] /\ \A id \in Id : registrations[id] = Nobody => rt[id] = Nobody
  BY Zenon DEF Route
<1>4. ASSUME NEW id \in Id, registrations[id] # Nobody
      PROVE  /\ rt[id] \in Registration /\ rt[id].frames = rt[id].due
             /\ rt[id].sink = registrations[id].sink
             /\ rt[id].stream = registrations[id].stream
             /\ rt[id].left = registrations[id].left
  <2> DEFINE r == registrations[id]
             frames == IF <<frame.slot, id>> \in index THEN Append(r.frames, frame.n) ELSE r.frames
             due == IF IsRouted(registrations, id) /\ frame.slot \in SlotsOf[r.stream]
                    THEN Append(r.due, frame.n) ELSE r.due
  <2>1. r \in Registration /\ r.frames = r.due
    BY <1>1, <1>4 DEF Served, Registrations
  <2>2. <<frame.slot, id>> \in index <=> IsRouted(registrations, id) /\ frame.slot \in SlotsOf[r.stream]
    BY <1>1, Links
  <2>3. frames = due
    BY <2>1, <2>2
  <2>4. PICK F : /\ F = Seq(1..MaxFrames)
                 /\ Registration = [stream : Stream, sink : {"Live", "Held", "Lost"}, left : 0..Grace,
                                    frames : F, due : F]
    BY DEF Registration
  <2>5. r.frames \in F /\ Append(r.frames, frame.n) \in F
    <3>1. r.frames \in Seq(1..MaxFrames)
      BY <2>1, <2>4
    <3>2. Append(r.frames, frame.n) \in Seq(1..MaxFrames)
      BY <1>2, <3>1, Appending
    <3> QED
      BY <2>4, <3>1, <3>2
  <2>6. frames \in F
    BY <2>5
  <2>7. rt[id] = [r EXCEPT !.frames = frames, !.due = due]
    BY <1>4, <2>1, <2>4 DEF Route
  <2> HIDE DEF r, frames, due
  <2>8. /\ rt[id] \in Registration /\ rt[id].frames = frames /\ rt[id].due = due
        /\ rt[id].sink = r.sink /\ rt[id].stream = r.stream /\ rt[id].left = r.left
    BY <2>1, <2>3, <2>4, <2>6, <2>7
  <2> QED
    BY <2>3, <2>8 DEF r
<1>5. \A id \in Id : rt[id] = Nobody <=> registrations[id] = Nobody
  BY <1>3, <1>4, NobodyIsNoRegistration
<1>6. rt \in Registrations
  BY <1>3, <1>4, Zenon DEF Registrations
<1> QED
  BY <1>4, <1>5, <1>6 DEF Served

\* The registrations keep their places and streams.
LEMMA PlacesKept ==
    ASSUME NEW rs, NEW ix, NEW sock, NEW cur, RegistryOK(rs, ix, sock, cur), NEW rt, Served(rt),
           \A id \in Id : /\ rt[id] = Nobody <=> rs[id] = Nobody
                          /\ rs[id] # Nobody => rt[id].sink = rs[id].sink /\ rt[id].stream = rs[id].stream
    PROVE  RegistryOK(rt, ix, sock, cur)
<1>1. \A id \in Id : /\ IsRouted(rt, id) <=> IsRouted(rs, id)
                     /\ IsLive(rt, id) <=> IsLive(rs, id)
                     /\ IsRouted(rs, id) => SlotsOf[rt[id].stream] = SlotsOf[rs[id].stream]
  BY DEF IsRouted, IsLive
<1>2. LinkAll(rt) = LinkAll(rs)
  BY <1>1, SameLinks
<1>3. IsEmpty(rt) <=> IsEmpty(rs)
  BY DEF IsEmpty
<1>4. HandshakeOK(cur, rt)
  BY <1>1 DEF RegistryOK, HandshakeOK, IsLive
<1>5. ConnectionOK(sock, cur, rt)
  BY <1>1, <1>3 DEF RegistryOK, ConnectionOK
<1> QED
  BY <1>2, <1>4, <1>5 DEF RegistryOK

LEMMA ReadDataKeeps == ASSUME Registry, ReadData PROVE Registry'
<1> DEFINE frame == Head(socket.wire)  rt == Route(registrations, frame)
<1>1. /\ socket.wire # <<>> /\ frame.kind = "data" /\ socket' = AfterRead /\ registrations' = rt
      /\ index' = index /\ current' = current /\ setting' = setting
  BY DEF ReadData, Reads
<1>2. socket \in Connection /\ socket.open /\ socket.wire \in Seq(Frame)
  BY <1>1, ReadingIsOpen
<1>3. frame \in Frame
  BY <1>1, <1>2
<1> HIDE DEF frame
<1>4. /\ Served(rt)
      /\ \A id \in Id : /\ rt[id] = Nobody <=> registrations[id] = Nobody
                        /\ registrations[id] # Nobody =>
                              /\ rt[id].sink = registrations[id].sink
                              /\ rt[id].stream = registrations[id].stream
  BY <1>1, <1>3, Routed
<1> HIDE DEF rt
<1>5. RegistryOK(rt, index, socket, current)
  BY <1>4, PlacesKept DEF Registry
<1> DEFINE e == AfterRead
<1>6. /\ e \in Connection /\ e.open = socket.open /\ e.subscribed = socket.subscribed
      /\ e.provided = socket.provided /\ e.silent = socket.silent /\ e.late = socket.late
      /\ e.wire = Tail(socket.wire)
  BY <1>1, <1>2, AfterReadIs
<1> HIDE DEF e
<1>7. AnswersOK(socket, current, index)
  BY DEF Registry, RegistryOK, ConnectionOK
<1>8. AnswersOK(e, current, index)
  BY <1>1, <1>2, <1>6, <1>7, StillAnswered DEF frame
<1>9. RegistryOK(rt, index, e, current)
  BY <1>2, <1>5, <1>6, <1>7, <1>8, SocketChanged
<1> QED
  BY <1>1, <1>9, RegistryNext DEF e

LEMMA ReadUnawaitedKeeps == ASSUME Registry, ReadUnawaited PROVE Registry'
<1>1. /\ socket.wire # <<>> /\ socket' = AfterRead /\ registrations' = registrations
      /\ index' = index /\ current' = current /\ setting' = setting
      /\ Head(socket.wire).kind = "pong" \/ (Head(socket.wire).kind = "answer" /\ current = Idle)
  BY DEF ReadUnawaited, Reads
<1>2. socket \in Connection /\ socket.open /\ socket.wire \in Seq(Frame)
  BY <1>1, ReadingIsOpen
<1> DEFINE e == AfterRead
<1>3. /\ e \in Connection /\ e.open = socket.open /\ e.subscribed = socket.subscribed
      /\ e.provided = socket.provided /\ e.silent = socket.silent /\ e.late = socket.late
      /\ e.wire = Tail(socket.wire)
  BY <1>1, <1>2, AfterReadIs
<1> HIDE DEF e
<1>4. AnswersOK(socket, current, index)
  BY DEF Registry, RegistryOK, ConnectionOK
<1>5. AnswersOK(e, current, index)
  <2>1. CASE Head(socket.wire).kind = "pong"
    <3>1. Head(socket.wire).kind # "answer"
      BY <2>1
    <3> QED
      BY <1>1, <1>2, <1>3, <1>4, <3>1, StillAnswered
  <2>2. CASE Head(socket.wire).kind = "answer" /\ current = Idle
    <3>1. 1 \in Answers(socket.wire)
      BY <1>1, <1>2, <2>2, WireRead
    <3> QED
      BY <1>3, <1>4, <2>2, <3>1, IdleIsAHandshake DEF AnswersOK
  <2> QED
    BY <1>1, <2>1, <2>2
<1>6. RegistryOK(registrations, index, socket, current)
  BY DEF Registry
<1>7. RegistryOK(registrations, index, e, current)
  BY <1>2, <1>3, <1>4, <1>5, <1>6, SocketChanged
<1> QED
  BY <1>1, <1>7, RegistryNext DEF e

\* The failed subscribe's registration goes, and what it asked for is released.
LEMMA EndSubscribeKeeps ==
    ASSUME Registry, setting' = setting, current.op = "subscribing", NEW sock, NEW slots,
           EndSubscribe(sock, slots),
           ~current.fresh => Releasable([registrations EXCEPT ![current.id] = Nobody],
                                        Unlink(index, current.id), sock, slots)
    PROVE  Registry'
<1> DEFINE rs == [registrations EXCEPT ![current.id] = Nobody]
<1>1. Served(rs) /\ current.stream \in Stream \cup {NoStream} /\ current.waits \in BOOLEAN
  BY ServedOne DEF Registry, RegistryOK, HandshakeOK, Handshake
<1> HIDE DEF rs
<1>2. CASE LoseSocket(rs)
  BY <1>1, <1>2, SocketLost, RegistryNext
<1>3. CASE /\ ~current.fresh
           /\ Release(rs, Unlink(index, current.id), sock, slots, queue, current.stream, current.waits)
  <2>1. Releasable(rs, Unlink(index, current.id), sock, slots)
    BY <1>3 DEF rs
  <2> QED
    BY <1>1, <1>3, <2>1, Released, RegistryNext
<1> QED
  BY <1>2, <1>3 DEF EndSubscribe, rs

\* What is left of the registrations, the index and the socket's subscriptions
\* without the subscribe under way.
LEMMA WithoutTheSubscribe ==
    ASSUME Registry, current.op = "subscribing"
    PROVE  LET rs == [registrations EXCEPT ![current.id] = Nobody]
               ix == Unlink(index, current.id)
           IN  /\ Served(rs) /\ ix = LinkAll(rs) /\ AddedSlots \in SUBSET Slot
               /\ HeldSlots(ix) = HeldBefore(current, index)
               /\ ~current.fresh => /\ socket.subscribed = HeldSlots(ix)
                                    /\ socket.subscribed \ AddedSlots = HeldSlots(ix)
                                    /\ AddedSlots = current.sending
               /\ HeldSlots(index) \ AddedSlots \subseteq HeldSlots(ix)
               /\ socket.open /\ socket \in Connection /\ current.sending # {}
<1> DEFINE rs == [registrations EXCEPT ![current.id] = Nobody]  ix == Unlink(index, current.id)
<1>1. /\ Served(registrations) /\ index = LinkAll(registrations) /\ current.id \in Id
      /\ current.sending # {} /\ current # Idle
  BY IdleIsAHandshake DEF Registry, RegistryOK, HandshakeOK
<1>2. socket.open /\ socket \in Connection
  BY <1>1, ReadingIsOpen
<1>3. /\ Served(rs) /\ LinkAll(rs) = ix /\ HeldSlots(ix) \subseteq HeldSlots(index)
      /\ HeldSlots(index) \in SUBSET Slot
  BY <1>1, ServedOne, Unlinking, LinksAreTyped
<1>4. HeldSlots(ix) = HeldBefore(current, index) /\ AddedSlots = HeldSlots(index) \ HeldSlots(ix)
  BY DEF HeldBefore, AddedSlots, Orphaned
<1>5. /\ socket.subscribed \cup current.sending = HeldSlots(index)
      /\ ~current.fresh => /\ socket.subscribed = HeldSlots(ix)
                           /\ current.sending \cap HeldSlots(ix) = {}
  BY <1>2, <1>4 DEF Registry, RegistryOK, SubscribedOK
<1> HIDE DEF rs, ix
<1>6. /\ AddedSlots \in SUBSET Slot /\ HeldSlots(index) \ AddedSlots \subseteq HeldSlots(ix)
      /\ ~current.fresh => /\ socket.subscribed \ AddedSlots = HeldSlots(ix)
                           /\ AddedSlots = current.sending
  BY <1>3, <1>4, <1>5
<1> QED
  BY <1>1, <1>2, <1>3, <1>4, <1>5, <1>6 DEF rs, ix

\* What a handshake still waits for is part of what it waited for.
LEMMA OutstandingIs ==
    ASSUME setting \in Settings, Operation, current.op # "idle", NEW answer
    PROVE  /\ Outstanding(answer) \subseteq current.outstanding
           /\ ConfirmsRelease /\ current.op = "subscribing" =>
                 Outstanding(answer) = IF current.outstanding \subseteq answer.ok THEN {}
                                       ELSE current.outstanding
           /\ ConfirmsRelease /\ current.op = "releasing" =>
                 Outstanding(answer) = IF current.outstanding \cap answer.ok = {} THEN {}
                                       ELSE current.outstanding
<1>1. provider \in {"Alpaca", "Massive", "LSE"}
  BY SettingsAssumption DEF provider
<1>2. current.op \in {"subscribing", "releasing"}
  BY DEF Operation, HandshakeOK, Handshake, Op
<1>3. CASE provider = "Alpaca"
  BY <1>2, <1>3 DEF Outstanding
<1>4. CASE provider = "Massive"
  BY <1>4, Protocols DEF Outstanding
<1>5. CASE provider = "LSE"
  BY <1>5, Protocols DEF Outstanding
<1> QED
  BY <1>1, <1>3, <1>4, <1>5

\* A handshake that ends well: everything it settled is settled.
LEMMA Settled ==
    ASSUME Registry, NEW sock \in Connection, sock.open,
           sock.subscribed = HeldSlots(index),
           ~sock.silent /\ InTime(sock) => sock.provided \subseteq HeldSlots(index),
           ConfirmsRelease /\ ~sock.late =>
              sock.subscribed \subseteq sock.provided /\ Answers(sock.wire) = {},
           socket.open
    PROVE  RegistryOK(registrations, index, sock, Idle)
<1>1. Served(registrations) /\ index = LinkAll(registrations) /\ ~IsEmpty(registrations)
  BY DEF Registry, RegistryOK, ConnectionOK
<1>2. Releasable(registrations, index, sock, {})
  BY <1>1 DEF Releasable
<1> QED
  BY <1>1, <1>2, NothingToSettle

LEMMA EndReleaseKeeps ==
    ASSUME Registry, setting' = setting, current.op = "releasing", NEW sock \in Connection,
           NEW late \in BOOLEAN, EndRelease(sock, late),
           sock.open, sock.subscribed = socket.subscribed, sock.provided = socket.provided,
           sock.silent = socket.silent, sock.late = socket.late,
           ~late /\ ~sock.late => Answers(sock.wire) = {}
    PROVE  Registry'
<1> DEFINE e == [sock EXCEPT !.late = @ \/ late]
<1>1. socket' = e /\ current' = Idle /\ registrations' = registrations /\ index' = index
  BY DEF EndRelease
<1>2. current # Idle /\ ConfirmsRelease
  BY IdleIsAHandshake DEF Registry, RegistryOK, HandshakeOK
<1>3. socket \in Connection /\ socket.open
  BY <1>2, ReadingIsOpen
<1>4. PICK W : Connection = [open : BOOLEAN, subscribed : SUBSET Slot, provided : SUBSET Slot,
                             wire : W, unanswered : BOOLEAN, silent : BOOLEAN, late : BOOLEAN]
  BY ConnectionFields, Zenon
<1>5. /\ e \in Connection /\ e.open = sock.open /\ e.subscribed = sock.subscribed
      /\ e.provided = sock.provided /\ e.silent = sock.silent /\ e.wire = sock.wire
      /\ e.late <=> sock.late \/ late
  BY <1>4
<1> HIDE DEF e
<1>6. /\ socket.subscribed = HeldSlots(index)
      /\ ~socket.silent /\ InTime(socket) => socket.provided \subseteq HeldSlots(index)
      /\ ConfirmsRelease /\ ~socket.late => socket.subscribed \subseteq socket.provided
  BY <1>3 DEF Registry, RegistryOK, SubscribedOK, WantedOK, AnswersOK, ConnectionOK
<1>7. /\ e.open /\ e.subscribed = HeldSlots(index)
      /\ ~e.silent /\ InTime(e) => e.provided \subseteq HeldSlots(index)
      /\ ConfirmsRelease /\ ~e.late => e.subscribed \subseteq e.provided /\ Answers(e.wire) = {}
  BY <1>5, <1>6 DEF InTime
<1>8. RegistryOK(registrations, index, e, Idle)
  BY <1>3, <1>5, <1>7, Settled
<1> QED
  BY <1>1, <1>8, RegistryNext DEF e

LEMMA ReadAnswerKeeps == ASSUME setting \in Settings, Registry, ReadAnswer PROVE Registry'
<1> DEFINE answer == Head(socket.wire)  e == AfterRead  w == socket.wire
<1>1. w # <<>> /\ answer.kind = "answer" /\ current # Idle /\ setting' = setting
  BY DEF ReadAnswer, Reads
<1>2. socket \in Connection /\ socket.open /\ w \in Seq(Frame) /\ ~IsEmpty(registrations)
  BY <1>1, ReadingIsOpen
<1>3. /\ e \in Connection /\ e.open = socket.open /\ e.subscribed = socket.subscribed
      /\ e.provided = socket.provided /\ e.silent = socket.silent /\ e.late = socket.late
      /\ e.wire = Tail(w)
  BY <1>1, <1>2, AfterReadIs
<1>4. /\ answer = w[1] /\ 1 \in Answers(w) /\ answer \in Frame
      /\ \A i \in Answers(w) : i \in Nat \ {0}
      /\ \A i \in Answers(w) \ {1} : i - 1 \in Answers(Tail(w)) /\ Tail(w)[i - 1] = w[i]
      /\ \A i \in Answers(Tail(w)) : i + 1 \in Answers(w) /\ i + 1 # 1 /\ Tail(w)[i] = w[i + 1]
      /\ \A i \in Answers(Tail(w)) : i \in Nat \ {0}
  <2>1. Head(w).kind = "answer"
    BY <1>1
  <2> HIDE DEF w, answer
  <2>2. /\ Head(w) \in Frame /\ Head(w) = w[1]
        /\ Head(w).kind = "answer" <=> 1 \in Answers(w)
        /\ \A i \in Answers(w) : i \in Nat \ {0}
        /\ \A i \in Answers(w) \ {1} : i - 1 \in Answers(Tail(w)) /\ Tail(w)[i - 1] = w[i]
        /\ \A i \in Answers(Tail(w)) : i + 1 \in Answers(w) /\ i + 1 # 1 /\ Tail(w)[i] = w[i + 1]
        /\ \A i \in Answers(Tail(w)) : i \in Nat \ {0}
    BY <1>1, <1>2, WireRead
  <2> QED
    BY <2>1, <2>2, Zenon DEF answer, w
<1>5. answer.refused \in BOOLEAN /\ answer.ok \in SUBSET Slot
  BY <1>1, <1>4, FrameKinds
<1> HIDE DEF answer, e, w
<1>6. RegistryOK(registrations, index, socket, current)
  BY DEF Registry
<1>7. /\ current \in Handshake /\ current.op \in {"subscribing", "releasing"} /\ Operation
  BY <1>1, <1>6 DEF RegistryOK, HandshakeOK, ConnectionOK, Operation, Handshake, Op
<1>8. /\ Outstanding(answer) \subseteq current.outstanding
      /\ ConfirmsRelease /\ current.op = "subscribing" =>
            Outstanding(answer) = IF current.outstanding \subseteq answer.ok THEN {}
                                  ELSE current.outstanding
      /\ ConfirmsRelease /\ current.op = "releasing" =>
            Outstanding(answer) = IF current.outstanding \cap answer.ok = {} THEN {}
                                  ELSE current.outstanding
  BY <1>7, OutstandingIs
\* The only answer there is, where releases are confirmed in time.
<1>9. ASSUME ConfirmsRelease, ~socket.late, current.op = "subscribing"
      PROVE  /\ Answers(e.wire) = {} /\ socket.subscribed \subseteq socket.provided
             /\ ~answer.refused => /\ Outstanding(answer) = {}
                                   /\ current.sending \subseteq socket.provided
             /\ answer.refused => socket.provided \subseteq HeldBefore(current, index)
  <2>1. PICK i \in Answers(w) : SubscribeIsAnswered(socket, current, index, i)
    BY <1>2, <1>4, <1>6, <1>9 DEF RegistryOK, AnswersOK, w
  <2>2. Answers(w) = {i} /\ i = 1
    BY <1>4, <2>1 DEF SubscribeIsAnswered, w
  <2>3. Answers(Tail(w)) = {}
    BY <1>4, <2>2
  <2>4. /\ current.outstanding = current.sending
        /\ \/ answer = Answer(socket.provided, FALSE) /\ current.sending \subseteq socket.provided
           \/ answer = Answer({}, TRUE) /\ socket.provided \subseteq HeldBefore(current, index)
    BY <1>4, <2>1, <2>2 DEF SubscribeIsAnswered, w
  <2>5. socket.subscribed \subseteq socket.provided
    BY <1>2, <1>6, <1>9 DEF RegistryOK, AnswersOK
  <2>6. CASE answer = Answer(socket.provided, FALSE) /\ current.sending \subseteq socket.provided
    <3>1. answer.ok = socket.provided /\ ~answer.refused
      BY <2>6 DEF Answer
    <3>2. Outstanding(answer) = {}
      BY <1>8, <1>9, <2>4, <2>6, <3>1
    <3> QED
      BY <1>3, <2>3, <2>5, <2>6, <3>1, <3>2
  <2>7. CASE answer = Answer({}, TRUE) /\ socket.provided \subseteq HeldBefore(current, index)
    <3>1. answer.refused
      BY <2>7 DEF Answer
    <3> QED
      BY <1>3, <2>3, <2>5, <2>7, <3>1
  <2> QED
    BY <2>4, <2>6, <2>7
<1>10. ASSUME ConfirmsRelease, ~socket.late, current.op = "releasing", ~answer.refused
       PROVE  \/ Outstanding(answer) = {} /\ Answers(e.wire) = {}
              \/ /\ Outstanding(answer) = current.outstanding /\ current.outstanding # {}
                 /\ \/ \E i \in Answers(e.wire) : ReleaseIsAnswered(e, current, i)
                    \/ socket.silent /\ ReleaseIsUnanswered(e, current)
  <2>0. CASE socket.silent /\ ReleaseIsUnanswered(socket, current)
    <3>1. \A j \in Answers(w) : w[j].refused \/ current.outstanding \cap w[j].ok # {}
      BY <2>0 DEF ReleaseIsUnanswered, w
    <3>2. current.outstanding \cap answer.ok # {}
      BY <1>4, <1>10, <3>1
    <3>3. Outstanding(answer) = current.outstanding /\ current.outstanding # {}
      BY <1>8, <1>10, <3>2
    <3>4. ASSUME NEW j \in Answers(e.wire)
          PROVE  e.wire[j].refused \/ current.outstanding \cap e.wire[j].ok # {}
      <4>1. j + 1 \in Answers(w) /\ e.wire[j] = w[j + 1]
        BY <1>3, <1>4
      <4> QED
        BY <3>1, <4>1
    <3>5. ReleaseIsUnanswered(e, current)
      BY <3>4 DEF ReleaseIsUnanswered
    <3> QED
      BY <2>0, <3>3, <3>5
  <2> SUFFICES ASSUME ~(socket.silent /\ ReleaseIsUnanswered(socket, current))
               PROVE  \/ Outstanding(answer) = {} /\ Answers(e.wire) = {}
                      \/ /\ Outstanding(answer) = current.outstanding /\ current.outstanding # {}
                         /\ \E i \in Answers(e.wire) : ReleaseIsAnswered(e, current, i)
    BY <2>0
  <2>1. PICK i \in Answers(w) : ReleaseIsAnswered(socket, current, i)
    BY <1>2, <1>6, <1>10 DEF RegistryOK, AnswersOK, w
  <2>2. /\ w[i] = Answer(socket.provided, FALSE) /\ current.outstanding \cap socket.provided = {}
        /\ \A j \in Answers(w) \ {i} : j < i /\ (w[j].refused \/ current.outstanding \cap w[j].ok # {})
    BY <2>1 DEF ReleaseIsAnswered, w
  <2>3. CASE i = 1
    <3>1. answer.ok = socket.provided
      BY <1>4, <2>2, <2>3 DEF Answer
    <3>2. Outstanding(answer) = {}
      BY <1>8, <1>10, <2>2, <3>1
    <3>3. ASSUME NEW j \in Answers(Tail(w)) PROVE FALSE
      <4>1. j + 1 \in Answers(w) \ {1} /\ j \in Nat \ {0}
        BY <1>4
      <4>2. j + 1 < 1
        BY <2>2, <2>3, <4>1
      <4> QED
        BY <4>1, <4>2
    <3> QED
      BY <1>3, <3>2, <3>3
  <2>4. CASE i # 1
    <3>1. current.outstanding \cap answer.ok # {}
      BY <1>4, <1>10, <2>2, <2>4
    <3>2. Outstanding(answer) = current.outstanding /\ current.outstanding # {}
      BY <1>8, <1>10, <3>1
    <3>3. i \in Nat /\ i - 1 \in Answers(Tail(w)) /\ Tail(w)[i - 1] = w[i]
      BY <1>4, <2>4
    <3>4. ASSUME NEW j \in Answers(Tail(w)) \ {i - 1}
          PROVE  j < i - 1 /\ (Tail(w)[j].refused \/ current.outstanding \cap Tail(w)[j].ok # {})
      <4>1. j \in Nat /\ j + 1 \in Answers(w) /\ Tail(w)[j] = w[j + 1]
        BY <1>4
      <4>2. j + 1 # i
        BY <3>3, <4>1
      <4>3. j + 1 < i /\ (w[j + 1].refused \/ current.outstanding \cap w[j + 1].ok # {})
        BY <2>2, <4>1, <4>2
      <4>4. j < i - 1
        BY <3>3, <4>1, <4>3
      <4> QED
        BY <4>1, <4>3, <4>4
    <3>5. ReleaseIsAnswered(e, current, i - 1)
      BY <1>3, <2>2, <3>3, <3>4 DEF ReleaseIsAnswered
    <3> QED
      BY <1>3, <3>2, <3>3, <3>5
  <2> QED
    BY <2>3, <2>4
<1>11. CASE /\ ~answer.refused /\ Outstanding(answer) # {} /\ socket' = e
            /\ current' = [current EXCEPT !.outstanding = Outstanding(answer)]
            /\ UNCHANGED <<registrations, index>>
  <2> DEFINE cur == [current EXCEPT !.outstanding = Outstanding(answer)]
  <2>1. /\ cur \in Handshake /\ cur.op = current.op /\ cur.id = current.id
        /\ cur.stream = current.stream /\ cur.fresh = current.fresh
        /\ cur.sending = current.sending /\ cur.outstanding = Outstanding(answer)
    BY <1>7, <1>8 DEF Handshake
  <2> HIDE DEF cur
  <2>2. HandshakeOK(cur, registrations) /\ ConnectionOK(e, cur, registrations)
    BY <1>2, <1>3, <1>6, <1>7, <2>1 DEF RegistryOK, HandshakeOK, ConnectionOK
  <2>3. SubscribedOK(e, cur, index) /\ WantedOK(e, index)
    BY <1>3, <1>6, <2>1 DEF RegistryOK, SubscribedOK, HeldBefore, WantedOK, InTime
  <2>4. AnswersOK(e, cur, index)
    <3> SUFFICES ASSUME ConfirmsRelease, ~socket.late
                 PROVE  /\ e.subscribed \subseteq e.provided
                        /\ cur.op = "releasing"
                        /\ \/ \E i \in Answers(e.wire) : ReleaseIsAnswered(e, cur, i)
                           \/ e.silent /\ ReleaseIsUnanswered(e, cur)
      BY <1>3 DEF AnswersOK
    <3>1. current.op = "releasing"
      BY <1>7, <1>9, <1>11
    <3>2. e.subscribed \subseteq e.provided
      BY <1>2, <1>3, <1>6 DEF RegistryOK, AnswersOK
    <3>3. \/ \E i \in Answers(e.wire) : ReleaseIsAnswered(e, current, i)
          \/ e.silent /\ ReleaseIsUnanswered(e, current)
      BY <1>3, <1>10, <1>11, <3>1
    <3>4. cur.outstanding = current.outstanding
      BY <1>10, <1>11, <2>1, <3>1
    <3>5. /\ \A i : ReleaseIsAnswered(e, current, i) => ReleaseIsAnswered(e, cur, i)
          /\ ReleaseIsUnanswered(e, current) => ReleaseIsUnanswered(e, cur)
      BY <3>4 DEF ReleaseIsAnswered, ReleaseIsUnanswered
    <3> QED
      BY <2>1, <3>1, <3>2, <3>3, <3>5
  <2>5. RegistryOK(registrations, index, e, cur)
    BY <1>6, <2>2, <2>3, <2>4 DEF RegistryOK
  <2> QED
    BY <1>1, <1>11, <2>5, RegistryNext DEF cur
<1>12. CASE /\ ~answer.refused /\ Outstanding(answer) = {} /\ current.op = "subscribing"
            /\ socket' = [e EXCEPT !.subscribed = @ \cup current.sending]
            /\ current' = Idle /\ UNCHANGED <<registrations, index>>
  <2> DEFINE f == [e EXCEPT !.subscribed = @ \cup current.sending]
  <2>1. PICK W : Connection = [open : BOOLEAN, subscribed : SUBSET Slot, provided : SUBSET Slot,
                               wire : W, unanswered : BOOLEAN, silent : BOOLEAN, late : BOOLEAN]
    BY ConnectionFields, Zenon
  <2>2. current.sending \in SUBSET Slot
    BY <1>7 DEF Handshake
  <2>3. /\ f \in Connection /\ f.open = socket.open /\ f.provided = socket.provided
        /\ f.subscribed = socket.subscribed \cup current.sending
        /\ f.silent = socket.silent /\ f.late = socket.late /\ f.wire = e.wire
    BY <1>3, <2>1, <2>2
  <2> HIDE DEF f
  <2>4. /\ socket.subscribed \cup current.sending = HeldSlots(index)
        /\ ~socket.silent /\ InTime(socket) => socket.provided \subseteq HeldSlots(index)
    BY <1>2, <1>6, <1>12 DEF RegistryOK, SubscribedOK, WantedOK
  <2>5. /\ ~f.silent /\ InTime(f) => f.provided \subseteq HeldSlots(index)
        /\ ConfirmsRelease /\ ~f.late => f.subscribed \subseteq f.provided /\ Answers(f.wire) = {}
    BY <1>9, <1>12, <2>3, <2>4 DEF InTime
  <2>6. RegistryOK(registrations, index, f, Idle)
    BY <1>2, <1>7, <2>3, <2>4, <2>5, Settled
  <2> QED
    BY <1>1, <1>12, <2>6, RegistryNext DEF f
<1>13. CASE /\ ~answer.refused /\ Outstanding(answer) = {} /\ current.op = "releasing"
            /\ EndRelease(e, FALSE)
  <2>1. ConfirmsRelease
    BY <1>7, <1>13 DEF Operation, HandshakeOK
  <2>2. ~e.late => Answers(e.wire) = {}
    BY <1>3, <1>10, <1>13, <2>1
  <2> QED
    BY <1>1, <1>2, <1>3, <1>13, <2>2, EndReleaseKeeps
<1>14. CASE answer.refused /\ current.op = "subscribing" /\ EndSubscribe(e, RefusedSlots)
  <2> DEFINE rs == [registrations EXCEPT ![current.id] = Nobody]  ix == Unlink(index, current.id)
  <2>1. /\ Served(rs) /\ ix = LinkAll(rs) /\ AddedSlots \in SUBSET Slot
        /\ HeldSlots(ix) = HeldBefore(current, index)
        /\ ~current.fresh => /\ socket.subscribed = HeldSlots(ix)
                             /\ socket.subscribed \ AddedSlots = HeldSlots(ix)
        /\ HeldSlots(index) \ AddedSlots \subseteq HeldSlots(ix)
    BY <1>14, WithoutTheSubscribe, Zenon
  <2>2. ~socket.silent /\ InTime(socket) => socket.provided \subseteq HeldSlots(index)
    BY <1>2, <1>6 DEF RegistryOK, WantedOK
  <2> HIDE DEF rs, ix
  <2>3. ASSUME ~current.fresh PROVE Releasable(rs, ix, e, RefusedSlots)
    <3>1. CASE RefusalIsAtomic
      <4>1. RefusedSlots = {} /\ ConfirmsRelease
        BY <3>1, Protocols DEF RefusedSlots
      <4>2. ~socket.late => /\ Answers(e.wire) = {} /\ socket.subscribed \subseteq socket.provided
                            /\ socket.provided \subseteq HeldSlots(ix)
        BY <1>9, <1>14, <2>1, <4>1
      <4> QED
        BY <1>2, <1>3, <1>7, <2>1, <2>3, <3>1, <4>1, <4>2 DEF Releasable, InTime
    <3>2. CASE ~RefusalIsAtomic
      <4>1. RefusedSlots = AddedSlots /\ ~ConfirmsRelease
        BY <3>2, Protocols DEF RefusedSlots
      <4>2. ~socket.silent /\ InTime(socket) => socket.provided \ AddedSlots \subseteq HeldSlots(ix)
        BY <2>1, <2>2
      <4> QED
        BY <1>2, <1>3, <1>7, <2>1, <2>3, <4>1, <4>2 DEF Releasable, InTime
    <3> QED
      BY <3>1, <3>2
  <2> QED
    BY <1>1, <1>14, <2>3, EndSubscribeKeeps DEF rs, ix
<1>15. CASE answer.refused /\ current.op = "releasing" /\ EndRelease(e, TRUE)
  BY <1>1, <1>2, <1>3, <1>15, EndReleaseKeeps
<1> QED
  BY <1>11, <1>12, <1>13, <1>14, <1>15 DEF ReadAnswer, answer, e

LEMMA TimeOutKeeps == ASSUME setting \in Settings, Registry, TimeOut PROVE Registry'
<1>1. /\ current # Idle /\ setting' = setting
      /\ \/ current.op = "subscribing" /\ EndSubscribe(socket, AddedSlots)
         \/ current.op = "releasing" /\ EndRelease(socket, TRUE)
  BY DEF TimeOut
<1>2. socket \in Connection /\ socket.open
  BY <1>1, ReadingIsOpen
<1>3. CASE current.op = "subscribing" /\ EndSubscribe(socket, AddedSlots)
  <2> DEFINE rs == [registrations EXCEPT ![current.id] = Nobody]  ix == Unlink(index, current.id)
  <2>1. /\ Served(rs) /\ ix = LinkAll(rs) /\ AddedSlots \in SUBSET Slot
        /\ ~current.fresh => /\ socket.subscribed \ AddedSlots = HeldSlots(ix)
                             /\ AddedSlots = current.sending
        /\ HeldSlots(index) \ AddedSlots \subseteq HeldSlots(ix)
        /\ current.sending # {}
    BY <1>3, WithoutTheSubscribe, Zenon
  <2> HIDE DEF rs, ix
  <2>2. ASSUME ~current.fresh PROVE Releasable(rs, ix, socket, AddedSlots)
    <3>1. /\ ~socket.silent /\ InTime(socket) => socket.provided \subseteq HeldSlots(index)
      BY <1>2 DEF Registry, RegistryOK, WantedOK, ConnectionOK
    <3>2. ASSUME ConfirmsRelease, ~socket.late
          PROVE  /\ socket.subscribed \subseteq socket.provided /\ AddedSlots # {}
                 /\ \A j \in Answers(socket.wire) :
                       socket.wire[j].refused \/ AddedSlots \cap socket.wire[j].ok # {}
      <4>2. socket.subscribed \subseteq socket.provided
        BY <1>2, <3>2 DEF Registry, RegistryOK, AnswersOK
      <4>0. CASE Answers(socket.wire) = {}
        BY <2>1, <2>2, <4>0, <4>2
      <4> SUFFICES ASSUME Answers(socket.wire) # {}
                   PROVE  /\ AddedSlots # {}
                          /\ \A j \in Answers(socket.wire) :
                                socket.wire[j].refused \/ AddedSlots \cap socket.wire[j].ok # {}
        BY <4>0, <4>2
      <4>1. PICK i \in Answers(socket.wire) : SubscribeIsAnswered(socket, current, index, i)
        BY <1>2, <1>3, <3>2 DEF Registry, RegistryOK, AnswersOK
      <4>3. CASE /\ socket.wire[i] = Answer(socket.provided, FALSE)
                 /\ current.sending \subseteq socket.provided
        <5>1. socket.wire[i].ok = socket.provided
          BY <4>3 DEF Answer
        <5>2. AddedSlots \cap socket.wire[i].ok # {}
          BY <2>1, <2>2, <4>3, <5>1
        <5>3. \A j \in Answers(socket.wire) : j = i
          BY <4>1 DEF SubscribeIsAnswered
        <5> QED
          BY <2>1, <2>2, <4>2, <5>2, <5>3
      <4>4. CASE socket.wire[i] = Answer({}, TRUE)
        <5>1. socket.wire[i].refused
          BY <4>4 DEF Answer
        <5>2. \A j \in Answers(socket.wire) : j = i
          BY <4>1 DEF SubscribeIsAnswered
        <5> QED
          BY <2>1, <2>2, <4>2, <5>1, <5>2
      <4> QED
        BY <4>1, <4>3, <4>4 DEF SubscribeIsAnswered
    <3>3. ~socket.silent /\ InTime(socket) => socket.provided \ AddedSlots \subseteq HeldSlots(ix)
      BY <2>1, <3>1
    <3> QED
      BY <1>2, <2>1, <2>2, <3>1, <3>2, <3>3 DEF Releasable
  <2> QED
    BY <1>1, <1>3, <2>2, EndSubscribeKeeps DEF rs, ix
<1>4. CASE current.op = "releasing" /\ EndRelease(socket, TRUE)
  BY <1>1, <1>2, <1>4, EndReleaseKeeps
<1> QED
  BY <1>1, <1>3, <1>4

LEMMA LoseKeeps == ASSUME Registry, setting' = setting, Lose PROVE Registry'
<1>1. CASE current.op = "subscribing" /\ LoseSocket([registrations EXCEPT ![current.id] = Nobody])
  <2> DEFINE rs == [registrations EXCEPT ![current.id] = Nobody]
  <2>1. Served(rs)
    BY <1>1, ServedOne DEF Registry, RegistryOK, HandshakeOK
  <2> HIDE DEF rs
  <2>2. LoseSocket(rs)
    BY <1>1 DEF rs
  <2> QED
    BY <2>1, <2>2, SocketLost, RegistryNext
<1>2. CASE LoseSocket(registrations)
  BY <1>2, SocketLost, RegistryNext DEF Registry, RegistryOK
<1> QED
  BY <1>1, <1>2 DEF Lose

\* The connection and what is unread on it.
LEMMA FrameArrives ==
    ASSUME socket \in Connection, NEW f \in Frame, f.kind # "answer", NEW unanswered \in BOOLEAN, NEW e,
           e = [socket EXCEPT !.unanswered = unanswered, !.wire = Append(@, f)]
    PROVE  /\ e \in Connection /\ e.open = socket.open
           /\ e.subscribed = socket.subscribed /\ e.provided = socket.provided
           /\ e.silent = socket.silent /\ e.late = socket.late
           /\ \A cur, ix : AnswersOK(socket, cur, ix) => AnswersOK(e, cur, ix)
<1>1. PICK W : /\ W = Seq(Frame)
               /\ Connection = [open : BOOLEAN, subscribed : SUBSET Slot, provided : SUBSET Slot,
                                wire : W, unanswered : BOOLEAN, silent : BOOLEAN, late : BOOLEAN]
  BY ConnectionFields, Zenon
<1> DEFINE w == socket.wire
<1>2. w \in Seq(Frame)
  BY <1>1
<1> HIDE DEF w
<1>3. /\ Append(w, f) \in Seq(Frame) /\ Answers(Append(w, f)) = Answers(w)
      /\ \A i \in Answers(w) : Append(w, f)[i] = w[i]
  BY <1>2, WireSent
<1>4. /\ e \in Connection /\ e.open = socket.open
      /\ e.subscribed = socket.subscribed /\ e.provided = socket.provided
      /\ e.silent = socket.silent /\ e.late = socket.late /\ e.wire = Append(w, f)
  BY <1>1, <1>3 DEF w
<1>5. Answers(e.wire) = Answers(w) /\ \A i \in Answers(w) : e.wire[i] = w[i]
  BY <1>3, <1>4
<1>6. ASSUME NEW cur, NEW ix, AnswersOK(socket, cur, ix) PROVE AnswersOK(e, cur, ix)
  <2>1. \A i \in Answers(w) : SubscribeIsAnswered(socket, cur, ix, i) => SubscribeIsAnswered(e, cur, ix, i)
    BY <1>4, <1>5 DEF SubscribeIsAnswered, w
  <2>2. \A i \in Answers(w) : ReleaseIsAnswered(socket, cur, i) => ReleaseIsAnswered(e, cur, i)
    BY <1>4, <1>5 DEF ReleaseIsAnswered, w
  <2>3. ReleaseIsUnanswered(socket, cur) => ReleaseIsUnanswered(e, cur)
    BY <1>5 DEF ReleaseIsUnanswered, w
  <2> QED
    BY <1>4, <1>5, <1>6, <2>1, <2>2, <2>3 DEF AnswersOK, w
<1> QED
  BY <1>4, <1>6

LEMMA KeepaliveKeeps == ASSUME Registry, Keepalive PROVE Registry'
<1>1. socket.open /\ HasKeepalive /\ setting' = setting /\ current = Idle
  BY DEF Keepalive
<1>2. socket \in Connection /\ AnswersOK(socket, current, index)
  BY DEF Registry, RegistryOK, ConnectionOK
<1>3. CASE Lose
  BY <1>1, <1>3, LoseKeeps
<1>4. CASE /\ socket' = [socket EXCEPT !.unanswered = TRUE,
                                       !.wire = IF socket.silent THEN @ ELSE Append(@, Pong)]
           /\ UNCHANGED <<registrations, index, current>>
  <2>1. /\ socket' \in Connection /\ socket'.open = socket.open
        /\ socket'.subscribed = socket.subscribed /\ socket'.provided = socket.provided
        /\ socket'.silent = socket.silent /\ socket'.late = socket.late
    <3>1. CASE ~socket.silent
      <4>1. socket' = [socket EXCEPT !.unanswered = TRUE, !.wire = Append(@, Pong)]
        BY <1>4, <3>1
      <4>2. Pong \in Frame /\ Pong.kind # "answer"
        BY FrameKinds
      <4> QED
        BY <1>2, <4>1, <4>2, FrameArrives
    <3>2. CASE socket.silent
      <4>1. socket' = [socket EXCEPT !.unanswered = TRUE]
        BY <1>2, <1>4, <3>2 DEF Connection
      <4>2. PICK W : Connection = [open : BOOLEAN, subscribed : SUBSET Slot, provided : SUBSET Slot,
                                   wire : W, unanswered : BOOLEAN, silent : BOOLEAN, late : BOOLEAN]
        BY ConnectionFields, Zenon
      <4> QED
        BY <1>2, <4>1, <4>2
    <3> QED
      BY <3>1, <3>2
  <2>2. AnswersOK(socket', current, index)
    BY <1>1, Protocols DEF AnswersOK
  <2>3. RegistryOK(registrations, index, socket, current)
    BY DEF Registry
  <2>4. RegistryOK(registrations, index, socket', current)
    BY <1>1, <1>2, <2>1, <2>2, <2>3, SocketChanged
  <2> QED
    BY <1>1, <1>4, <2>4, RegistryNext
<1> QED
  BY <1>3, <1>4 DEF Keepalive

LEMMA PublishKeeps ==
    ASSUME Bounded, Registry, NEW x \in Slot, Publish(x) PROVE Registry'
<1> DEFINE f == Data(x, published + 1)
<1>1. /\ socket.open /\ setting' = setting /\ socket' = [socket EXCEPT !.wire = Append(@, f)]
      /\ UNCHANGED <<registrations, index, current>> /\ published < MaxFrames
  BY DEF Publish
<1>2. MaxFrames \in Nat /\ published \in 0..MaxFrames
  BY SettingsAssumption DEF Bounded, MaxFrames
<1>3. f \in Frame /\ f.kind # "answer"
  <2>1. published + 1 \in 1..MaxFrames
    BY <1>1, <1>2
  <2>2. f \in Frame /\ f.kind = "data"
    BY <2>1, FrameKinds
  <2> QED
    BY <2>2
<1> HIDE DEF f
<1>4. socket \in Connection /\ AnswersOK(socket, current, index)
  BY DEF Registry, RegistryOK, ConnectionOK
<1>5. socket.unanswered \in BOOLEAN /\ socket' = [socket EXCEPT !.unanswered = socket.unanswered, !.wire = Append(@, f)]
  BY <1>1, <1>4 DEF Connection
<1>6. /\ socket' \in Connection /\ socket'.open = socket.open
      /\ socket'.subscribed = socket.subscribed /\ socket'.provided = socket.provided
      /\ socket'.silent = socket.silent /\ socket'.late = socket.late
      /\ AnswersOK(socket', current, index)
  BY <1>3, <1>4, <1>5, FrameArrives
<1>7. RegistryOK(registrations, index, socket, current)
  BY DEF Registry
<1>8. RegistryOK(registrations, index, socket', current)
  BY <1>1, <1>4, <1>6, <1>7, SocketChanged
<1> QED
  BY <1>1, <1>8, RegistryNext

LEMMA GoSilentKeeps == ASSUME Registry, GoSilent PROVE Registry'
<1>1. /\ socket.open /\ socket' = [socket EXCEPT !.silent = TRUE]
      /\ setting' = setting /\ UNCHANGED <<registrations, index, current>>
  BY DEF GoSilent
<1>2. PICK W : Connection = [open : BOOLEAN, subscribed : SUBSET Slot, provided : SUBSET Slot,
                             wire : W, unanswered : BOOLEAN, silent : BOOLEAN, late : BOOLEAN]
  BY ConnectionFields, Zenon
<1>3. socket \in Connection
  BY DEF Registry, RegistryOK, ConnectionOK
<1>4. /\ socket' \in Connection /\ socket'.open = socket.open
      /\ socket'.subscribed = socket.subscribed /\ socket'.provided = socket.provided
      /\ socket'.silent /\ socket'.late = socket.late /\ socket'.wire = socket.wire
  BY <1>1, <1>2, <1>3
<1>5. AnswersOK(socket', current, index)
  <2>1. AnswersOK(socket, current, index)
    BY DEF Registry, RegistryOK
  <2>2. /\ \A i : /\ SubscribeIsAnswered(socket, current, index, i) =>
                         SubscribeIsAnswered(socket', current, index, i)
                  /\ ReleaseIsAnswered(socket, current, i) => ReleaseIsAnswered(socket', current, i)
        /\ ReleaseIsUnanswered(socket, current) => ReleaseIsUnanswered(socket', current)
    BY <1>4 DEF SubscribeIsAnswered, ReleaseIsAnswered, ReleaseIsUnanswered
  <2> QED
    BY <1>4, <2>1, <2>2 DEF AnswersOK
<1>6. RegistryOK(registrations, index, socket, current)
  BY DEF Registry
<1>7. RegistryOK(registrations, index, socket', current)
  BY <1>1, <1>4, <1>5, <1>6, SocketChanged
<1> QED
  BY <1>1, <1>7, RegistryNext

LEMMA TimePasses ==
    ASSUME Registry, Tick
    PROVE  /\ Served(registrations')
           /\ \A id \in Id :
                 /\ registrations'[id] = Nobody <=> registrations[id] = Nobody
                 /\ registrations[id] # Nobody => /\ registrations'[id].sink = registrations[id].sink
                                                  /\ registrations'[id].stream = registrations[id].stream
                                                  /\ registrations'[id].left <= registrations[id].left
<1>1. /\ registrations' =
            [id \in Id |-> IF IsWaiting(registrations, id) /\ registrations[id].left > 0
                           THEN [registrations[id] EXCEPT !.left = @ - 1] ELSE registrations[id]]
      /\ setting' = setting /\ UNCHANGED <<index, socket, current>>
  BY DEF Tick
<1>2. Served(registrations)
  BY DEF Registry, RegistryOK
<1>3. ASSUME NEW id \in Id, registrations[id] # Nobody
      PROVE  LET r == registrations[id]
                 t == registrations'[id]
             IN  /\ t \in Registration /\ t.frames = t.due /\ t.sink = r.sink /\ t.stream = r.stream
                 /\ t.left <= r.left
  <2> DEFINE r == registrations[id]  t == registrations'[id]
  <2>1. r \in Registration /\ r.frames = r.due
    BY <1>2, <1>3 DEF Served, Registrations
  <2>2. PICK F : Registration = [stream : Stream, sink : {"Live", "Held", "Lost"}, left : 0..Grace,
                                 frames : F, due : F]
    BY RegistrationFields, Zenon
  <2>3. t = r \/ (r.left > 0 /\ t = [r EXCEPT !.left = @ - 1])
    BY <1>1
  <2> HIDE DEF r, t
  <2>4. r.left \in 0..Grace /\ (r.left > 0 => r.left - 1 \in 0..Grace /\ r.left - 1 <= r.left) /\ r.left <= r.left
    BY <2>1, <2>2, GraceAssumption
  <2>5. CASE t = r
    BY <2>1, <2>4, <2>5 DEF r, t
  <2>6. CASE r.left > 0 /\ t = [r EXCEPT !.left = @ - 1]
    <3>1. /\ t \in Registration /\ t.frames = r.frames /\ t.due = r.due /\ t.sink = r.sink
          /\ t.stream = r.stream /\ t.left = r.left - 1
      BY <2>1, <2>2, <2>4, <2>6
    <3> QED
      BY <2>1, <2>4, <2>6, <3>1 DEF r, t
  <2> QED
    BY <2>3, <2>5, <2>6
<1>4. ASSUME NEW id \in Id, registrations[id] = Nobody PROVE registrations'[id] = Nobody
  BY <1>1, <1>4 DEF IsWaiting
<1>5. \A id \in Id : registrations'[id] = Nobody <=> registrations[id] = Nobody
  BY <1>3, <1>4, NobodyIsNoRegistration
<1>6. registrations' = [id \in Id |-> registrations'[id]]
  BY <1>1
<1>7. registrations' \in Registrations
  BY <1>3, <1>4, <1>6, Zenon DEF Registrations
<1>8. Served(registrations')
  BY <1>3, <1>5, <1>7 DEF Served
<1> QED
  BY <1>3, <1>5, <1>8

LEMMA TickKeeps == ASSUME Registry, Tick PROVE Registry'
<1>1. setting' = setting /\ UNCHANGED <<index, socket, current>>
  BY DEF Tick
<1>2. RegistryOK(registrations, index, socket, current)
  BY DEF Registry
<1>3. RegistryOK(registrations', index, socket, current)
  BY <1>2, TimePasses, PlacesKept
<1> QED
  BY <1>1, <1>3, RegistryNext

\* A stream's own steps change no more than whether the task's caller waits.
LEMMA CallerKeeps ==
    ASSUME Registry, NEW s \in Stream, Caller(s) \/ Join(s) \/ Leave(s) PROVE Registry'
<1>1. CASE UNCHANGED <<setting, registrations, index, socket, current>>
  BY <1>1, RegistryNext DEF Registry
<1>2. CASE Leave(s) /\ current' = [current EXCEPT !.waits = FALSE] /\ current.stream = s
  <2>1. UNCHANGED <<setting, registrations, index, socket>>
    BY <1>2 DEF Leave
  <2>2. current \in Handshake /\ current # Idle
    <3>1. Idle.stream = NoStream
      BY DEF Idle
    <3> QED
      BY <1>2, <3>1, NullAssumption DEF Registry, RegistryOK, HandshakeOK
  <2> DEFINE cur == [current EXCEPT !.waits = FALSE]
  <2>3. /\ cur \in Handshake /\ cur.op = current.op /\ cur.id = current.id
        /\ cur.stream = current.stream /\ cur.fresh = current.fresh
        /\ cur.sending = current.sending /\ cur.outstanding = current.outstanding
    BY <2>2 DEF Handshake
  <2> HIDE DEF cur
  <2>4. HandshakeOK(cur, registrations) /\ ConnectionOK(socket, cur, registrations)
    BY <2>2, <2>3 DEF Registry, RegistryOK, HandshakeOK, ConnectionOK
  <2>5. SubscribedOK(socket, cur, index)
    BY <2>3 DEF Registry, RegistryOK, SubscribedOK, HeldBefore
  <2>6. AnswersOK(socket, cur, index)
    <3>1. /\ \A i : /\ SubscribeIsAnswered(socket, current, index, i) =>
                           SubscribeIsAnswered(socket, cur, index, i)
                    /\ ReleaseIsAnswered(socket, current, i) => ReleaseIsAnswered(socket, cur, i)
          /\ ReleaseIsUnanswered(socket, current) => ReleaseIsUnanswered(socket, cur)
      BY <2>3 DEF SubscribeIsAnswered, ReleaseIsAnswered, ReleaseIsUnanswered, HeldBefore
    <3> QED
      BY <2>3, <3>1 DEF Registry, RegistryOK, AnswersOK
  <2>7. RegistryOK(registrations, index, socket, cur)
    BY <2>4, <2>5, <2>6 DEF Registry, RegistryOK
  <2> QED
    BY <1>2, <2>1, <2>7, RegistryNext DEF cur
<1> QED
  BY <1>1, <1>2 DEF Caller, SendAttach, SeeEnd, Join, Leave

-----------------------------------------------------------------------------
(* Commands, and giving up.                                                *)

\* A command starts with nothing under way.
LEMMA BetweenOperations ==
    ASSUME Registry, current = Idle
    PROVE  /\ Served(registrations) /\ index = LinkAll(registrations) /\ socket \in Connection
           /\ ~socket.open => socket = ClosedSocket /\ \A id \in Id : ~IsRouted(registrations, id)
           /\ socket.open => socket.subscribed = HeldSlots(index) /\ ~IsEmpty(registrations)
           /\ socket.open /\ ~socket.silent /\ InTime(socket) => socket.provided \subseteq HeldSlots(index)
           /\ socket.open /\ ConfirmsRelease /\ ~socket.late =>
                 socket.subscribed \subseteq socket.provided /\ Answers(socket.wire) = {}
BY IdleIsAHandshake DEF Registry, RegistryOK, ConnectionOK, SubscribedOK, WantedOK, AnswersOK

\* Registrations go, and the slots only they held are released.
LEMMA ReleasableOrphans ==
    ASSUME Registry, current = Idle, NEW gone \in SUBSET Id, NEW rs, NEW ix,
           rs = [id \in Id |-> IF id \in gone THEN Nobody ELSE registrations[id]],
           ix = {h \in index : h[2] \notin gone}
    PROVE  Releasable(rs, ix, socket, Orphaned(index, ix))
<1>1. /\ Served(registrations) /\ index = LinkAll(registrations) /\ socket \in Connection
      /\ ~socket.open => socket = ClosedSocket /\ \A id \in Id : ~IsRouted(registrations, id)
      /\ socket.open => socket.subscribed = HeldSlots(index)
      /\ socket.open /\ ~socket.silent /\ InTime(socket) => socket.provided \subseteq HeldSlots(index)
      /\ socket.open /\ ConfirmsRelease /\ ~socket.late =>
            socket.subscribed \subseteq socket.provided /\ Answers(socket.wire) = {}
  BY BetweenOperations
<1>2. /\ Served(rs) /\ LinkAll(rs) = ix /\ HeldSlots(ix) \subseteq HeldSlots(index)
  <2>1. /\ Served(rs) /\ LinkAll(rs) = {h \in LinkAll(registrations) : h[2] \notin gone}
        /\ HeldSlots(LinkAll(rs)) \subseteq HeldSlots(LinkAll(registrations))
    BY <1>1, UnlinkingAll
  <2> QED
    BY <1>1, <2>1
<1>3. \A id \in Id : ~IsRouted(registrations, id) => ~IsRouted(rs, id)
  BY DEF IsRouted
<1>4. HeldSlots(index) \in SUBSET Slot
  BY <1>1, LinksAreTyped
<1> DEFINE slots == Orphaned(index, ix)
<1>5. slots = HeldSlots(index) \ HeldSlots(ix)
  BY DEF Orphaned
<1> HIDE DEF slots
<1>6. /\ slots \in SUBSET Slot
      /\ socket.open => socket.subscribed \ slots = HeldSlots(ix)
      /\ socket.open /\ ~socket.silent /\ InTime(socket) => socket.provided \ slots \subseteq HeldSlots(ix)
  BY <1>1, <1>2, <1>4, <1>5
<1>7. Releasable(rs, ix, socket, slots)
  BY <1>1, <1>2, <1>3, <1>6 DEF Releasable
<1> QED
  BY <1>7 DEF slots

LEMMA TakeDetachKeeps == ASSUME Registry, Callers, TakeDetach PROVE Registry'
<1> DEFINE id == Head(queue).id  ix == Unlink(index, id)  rs == [registrations EXCEPT ![id] = Nobody]
<1>1. /\ current = Idle /\ queue # <<>> /\ Head(queue).op = "detach" /\ setting' = setting
      /\ \/ Release(rs, ix, socket, Orphaned(index, ix), Tail(queue), NoStream, FALSE)
         \/ UNCHANGED <<registrations, index, socket, current>>
  BY DEF TakeDetach, Takes
<1>2. id \in Id
  BY <1>1, CommandTaken
<1>3. /\ rs = [i \in Id |-> IF i \in {id} THEN Nobody ELSE registrations[i]]
      /\ ix = {h \in index : h[2] \notin {id}}
  <2>1. registrations = [i \in Id |-> registrations[i]]
    BY <1>1, BetweenOperations DEF Served, Registrations
  <2> HIDE DEF id
  <2> QED
    BY <1>2, <2>1 DEF Unlink
<1> HIDE DEF id, ix, rs
<1>4. Releasable(rs, ix, socket, Orphaned(index, ix))
  <2>1. {id} \in SUBSET Id
    BY <1>2
  <2> QED
    BY <1>1, <1>3, <2>1, ReleasableOrphans
<1>5. CASE Release(rs, ix, socket, Orphaned(index, ix), Tail(queue), NoStream, FALSE)
  BY <1>1, <1>4, <1>5, Released, RegistryNext
<1>6. CASE UNCHANGED <<registrations, index, socket, current>>
  BY <1>1, <1>6, RegistryNext DEF Registry
<1> QED
  BY <1>1, <1>5, <1>6

LEMMA ExpireKeeps == ASSUME Registry, Expire PROVE Registry'
<1> DEFINE expired == {id \in Id : IsWaiting(registrations, id) /\ registrations[id].left = 0}
           rs == [id \in Id |-> IF id \in expired THEN Nobody ELSE registrations[id]]
           ix == {h \in index : h[2] \notin expired}
<1>1. /\ current = Idle /\ setting' = setting
      /\ Release(rs, ix, socket, Orphaned(index, ix), queue, NoStream, FALSE)
  BY DEF Expire
<1>2. expired \in SUBSET Id
  OBVIOUS
<1> HIDE DEF expired
<1>3. Releasable(rs, ix, socket, Orphaned(index, ix))
  BY <1>1, <1>2, ReleasableOrphans
<1> HIDE DEF rs, ix
<1> QED
  BY <1>1, <1>3, Released, RegistryNext

\* A command in hand: whose it is, and the id it may use.
LEMMA AttachTaken ==
    ASSUME Callers, Takes("attach")
    PROVE  /\ current = Idle /\ queue # <<>> /\ queue \in Seq(Request)
           /\ Head(queue).stream \in Stream /\ Head(queue).waits \in BOOLEAN
<1>1. current = Idle /\ queue # <<>> /\ Head(queue).op = "attach"
  BY DEF Takes
<1>2. Head(queue) \in Request /\ Head(queue).stream \in Stream
  BY <1>1, CommandTaken
<1>3. queue \in Seq(Request)
  BY DEF Callers, CallersOK
<1> QED
  BY <1>1, <1>2, <1>3 DEF Request

LEMMA AttachToOpenKeeps == ASSUME setting \in Settings, Registry, Callers, AttachToOpen PROVE Registry'
<1> DEFINE s == Head(queue).stream  waits == Head(queue).waits
<1>1. /\ Takes("attach") /\ socket.open /\ setting' = setting
      /\ \/ Subscribe(registrations, index, socket, FALSE, Tail(queue), s, waits)
         \/ UNCHANGED <<registrations, index, socket, current>>
  BY DEF AttachToOpen
<1>2. s \in Stream /\ waits \in BOOLEAN /\ queue \in Seq(Request) /\ current = Idle
  BY <1>1, AttachTaken
<1> HIDE DEF s, waits
<1>3. CASE Subscribe(registrations, index, socket, FALSE, Tail(queue), s, waits)
  <2>1. Subscribable(registrations, index, socket, FALSE)
    BY <1>1, <1>2, BetweenOperations DEF Subscribable
  <2>2. registrations[FreshId] = Nobody
    BY <1>2, <1>3, FreshIdIsFree DEF Subscribe
  <2>3. FALSE \in BOOLEAN
    OBVIOUS
  <2> QED
    BY <1>1, <1>2, <1>3, <2>1, <2>2, <2>3, SubscribeKeeps, RegistryNext
<1>4. CASE UNCHANGED <<registrations, index, socket, current>>
  BY <1>1, <1>4, RegistryNext DEF Registry
<1> QED
  BY <1>1, <1>3, <1>4

LEMMA ReconnectKeeps == ASSUME setting \in Settings, Registry, Callers, Reconnect PROVE Registry'
<1> DEFINE s == Head(queue).stream  waits == Head(queue).waits
<1>1. Takes("attach") /\ ~socket.open /\ setting' = setting
  BY DEF Reconnect
<1>2. PICK rs \in ForgetLost(registrations, s) :
          \/ Subscribe(HoldLost(rs), LinkAll(HoldLost(rs)), OpenSocket, TRUE, Tail(queue), s, waits)
          \/ LoseSocket(HoldLost(rs))
          \/ registrations' = rs /\ UNCHANGED <<index, socket, current>>
  BY DEF Reconnect
<1>3. s \in Stream /\ waits \in BOOLEAN /\ queue \in Seq(Request) /\ current = Idle
  BY <1>1, AttachTaken
<1>4. /\ Served(registrations) /\ index = LinkAll(registrations) /\ socket = ClosedSocket
      /\ \A id \in Id : ~IsRouted(registrations, id)
  BY <1>1, <1>3, BetweenOperations
<1> HIDE DEF s, waits
<1>5. rs = registrations \/ \E id \in Id : rs = [registrations EXCEPT ![id] = Nobody]
  BY <1>2 DEF ForgetLost
<1>6. /\ Served(rs) /\ \A id \in Id : rs[id] = registrations[id] \/ rs[id] = Nobody
  BY <1>4, <1>5, ServedOne DEF Served, Registrations
<1>7. \A id \in Id : ~IsRouted(rs, id)
  BY <1>4, <1>6 DEF IsRouted
<1> DEFINE held == HoldLost(rs)
<1>8. Served(held) /\ \A id \in Id : held[id] = Nobody <=> rs[id] = Nobody
  BY <1>6, ServedAll, SinksAfter
<1> HIDE DEF held
<1>9. CASE Subscribe(held, LinkAll(held), OpenSocket, TRUE, Tail(queue), s, waits)
  <2>1. Subscribable(held, LinkAll(held), OpenSocket, TRUE)
    BY <1>8, ClosedIsAConnection DEF Subscribable
  <2>2. FreshId \in Id /\ registrations[FreshId] = Nobody
    BY <1>3, <1>9, FreshIdIsFree DEF Subscribe
  <2>3. held[FreshId] = Nobody /\ TRUE \in BOOLEAN
    BY <1>6, <1>8, <2>2
  <2>4. RegistryOK(registrations', index', socket', current')
    BY <1>3, <1>9, <2>1, <2>3, SubscribeKeeps
  <2> QED
    BY <1>1, <2>4, RegistryNext
<1>10. CASE LoseSocket(held)
  BY <1>1, <1>8, <1>10, SocketLost, RegistryNext
<1>11. CASE registrations' = rs /\ UNCHANGED <<index, socket, current>>
  <2>1. LinkAll(rs) = LinkAll(registrations)
    BY <1>4, <1>7, NoLinks
  <2>2. ConnectionOK(ClosedSocket, Idle, rs)
    BY <1>7, ClosedIsAConnection DEF ConnectionOK, ClosedSocket
  <2>3. SubscribedOK(ClosedSocket, Idle, index) /\ WantedOK(ClosedSocket, index) /\ AnswersOK(ClosedSocket, Idle, index)
    BY ClosedIsAConnection, Zenon DEF SubscribedOK, WantedOK, AnswersOK
  <2>4. RegistryOK(rs, index, socket, current)
    BY <1>3, <1>4, <1>6, <2>1, <2>2, <2>3, IdleIsAHandshake DEF RegistryOK
  <2> QED
    BY <1>1, <1>11, <2>4, RegistryNext
<1> QED
  BY <1>2, <1>9, <1>10, <1>11 DEF held

LEMMA ReattachKeeps == ASSUME setting \in Settings, Registry, Callers, Reattach PROVE Registry'
<1> DEFINE s == Head(queue).stream
<1>1. /\ Takes("attach") /\ socket.open /\ FreshIds # {}
      /\ setting' = setting /\ UNCHANGED <<socket, current>>
  BY DEF Reattach
<1>2. PICK held \in Id :
          /\ IsRequestedBy(registrations, held, s) /\ registrations[held].sink = "Held"
          /\ registrations' = MoveTo(FreshId, registrations, held)
          /\ index' = Link(Unlink(index, held), FreshId, s)
  BY DEF Reattach
<1>3. s \in Stream /\ queue \in Seq(Request) /\ current = Idle
  BY <1>1, AttachTaken
<1> HIDE DEF s
<1>4. FreshId \in Id /\ registrations[FreshId] = Nobody
  BY <1>1, <1>3, FreshIdIsFree
<1> DEFINE rs == registrations  r == rs[held]  t == [r EXCEPT !.sink = "Live", !.left = 0]
           rt == [rs EXCEPT ![held] = Nobody]  moved == [rt EXCEPT ![FreshId] = t]
<1>5. Served(rs) /\ index = LinkAll(rs)
  BY <1>3, BetweenOperations
<1>6. /\ r \in Registration /\ r.frames = r.due /\ r.sink = "Held" /\ SlotsOf[r.stream] = SlotsOf[s]
  BY <1>2, <1>5 DEF Served, Registrations, IsRequestedBy
<1>7. /\ t \in Registration /\ t.sink = "Live" /\ t.stream = r.stream /\ t.frames = t.due
  <2> HIDE DEF r
  <2>1. /\ [r EXCEPT !.sink = "Live", !.left = 0] \in Registration
        /\ [r EXCEPT !.sink = "Live", !.left = 0].sink = "Live"
        /\ [r EXCEPT !.sink = "Live", !.left = 0].stream = r.stream
        /\ [r EXCEPT !.sink = "Live", !.left = 0].frames = r.frames
        /\ [r EXCEPT !.sink = "Live", !.left = 0].due = r.due
    BY <1>6, Reattached, Zenon
  <2> QED
    BY <1>6, <2>1, Zenon
<1>8. registrations' = moved
  BY <1>2, Zenon DEF MoveTo
<1> HIDE DEF r, t
<1>9. /\ Served(rt) /\ rt[FreshId] = Nobody /\ rt[held] = Nobody
      /\ LinkAll(rt) = Unlink(index, held)
      /\ rs = [rt EXCEPT ![held] = r]
  <2>1. Served(rt)
    BY <1>5, ServedOne
  <2>2. rt[FreshId] = Nobody /\ rt[held] = Nobody /\ rs = [rt EXCEPT ![held] = r]
    BY <1>4, <1>5 DEF Served, Registrations, r
  <2>3. LinkAll(rt) = Unlink(index, held)
    BY <1>5, Unlinking
  <2> QED
    BY <2>1, <2>2, <2>3
<1> HIDE DEF rt, rs
<1>10. Served(moved) /\ moved[FreshId] = t
  <2>1. Served(moved)
    BY <1>4, <1>7, <1>9, ServedOne
  <2> QED
    BY <1>4, <1>9, <2>1 DEF Served, Registrations
<1>11. HeldSlots(LinkAll(rs)) = HeldSlots(LinkAll(rt)) \cup SlotsOf[s]
  <2>1. /\ Served(rt) /\ rt[held] = Nobody /\ s \in Stream
        /\ r \in Registration /\ r.sink # "Lost" /\ SlotsOf[r.stream] = SlotsOf[s]
    BY <1>3, <1>6, <1>9
  <2>2. /\ LinkAll([rt EXCEPT ![held] = r]) = Link(LinkAll(rt), held, s)
        /\ HeldSlots(Link(LinkAll(rt), held, s)) = HeldSlots(LinkAll(rt)) \cup SlotsOf[s]
    BY <2>1, Linking
  <2> QED
    BY <1>9, <2>2
<1>12. /\ LinkAll(moved) = Link(LinkAll(rt), FreshId, s)
       /\ HeldSlots(LinkAll(moved)) = HeldSlots(LinkAll(rt)) \cup SlotsOf[s]
  <2>1. /\ Served(rt) /\ FreshId \in Id /\ rt[FreshId] = Nobody /\ s \in Stream
        /\ t \in Registration /\ t.sink # "Lost" /\ SlotsOf[t.stream] = SlotsOf[s]
    BY <1>3, <1>4, <1>6, <1>7, <1>9
  <2>2. \A fresh : fresh \in Id /\ rt[fresh] = Nobody =>
           /\ LinkAll([rt EXCEPT ![fresh] = t]) = Link(LinkAll(rt), fresh, s)
           /\ HeldSlots(Link(LinkAll(rt), fresh, s)) = HeldSlots(LinkAll(rt)) \cup SlotsOf[s]
    BY <2>1, Linking
  <2>3. /\ LinkAll([rt EXCEPT ![FreshId] = t]) = Link(LinkAll(rt), FreshId, s)
        /\ HeldSlots(Link(LinkAll(rt), FreshId, s)) = HeldSlots(LinkAll(rt)) \cup SlotsOf[s]
    BY <2>1, <2>2, Zenon
  <2> QED
    BY <2>3
<1> HIDE DEF moved
<1>13. index' = LinkAll(moved) /\ HeldSlots(LinkAll(moved)) = HeldSlots(index)
  BY <1>2, <1>5, <1>9, <1>11, <1>12 DEF rs
<1>14. ~IsEmpty(moved)
  BY <1>4, <1>7, <1>10, NobodyIsNoRegistration DEF IsEmpty
<1>15. Releasable(moved, LinkAll(moved), socket, {})
  <2>1. /\ socket \in Connection /\ socket.subscribed = HeldSlots(index)
        /\ ~socket.silent /\ InTime(socket) => socket.provided \subseteq HeldSlots(index)
        /\ ConfirmsRelease /\ ~socket.late =>
              socket.subscribed \subseteq socket.provided /\ Answers(socket.wire) = {}
    BY <1>1, <1>3, BetweenOperations
  <2> QED
    BY <1>1, <1>10, <1>13, <2>1 DEF Releasable
<1>16. RegistryOK(moved, LinkAll(moved), socket, Idle)
  BY <1>14, <1>15, NothingToSettle
<1> QED
  BY <1>1, <1>3, <1>8, <1>13, <1>16, RegistryNext

-----------------------------------------------------------------------------
(* The invariant holds.                                                    *)

LEMMA FaultsCounted ==
    ASSUME [Next]_vars
    PROVE  /\ setting' = setting
           /\ faults' = faults \/ (faults < MaxFaults /\ faults' = faults + 1)
           /\ timeouts' = timeouts \/ (timeouts < MaxTimeouts /\ timeouts' = timeouts + 1)
           /\ published' = published \/ (published < MaxFrames /\ published' = published + 1)
<1> DEFINE Counted == faults' = faults \/ (faults < MaxFaults /\ faults' = faults + 1)
<1>1. ASSUME NEW rs, NEW ix, NEW sock, NEW slots, NEW q, NEW s, NEW waits,
             Release(rs, ix, sock, slots, q, s, waits)
      PROVE  Counted
  BY <1>1 DEF Release, Fault
<1>2. ASSUME NEW rs, NEW ix, NEW sock, NEW fresh, NEW q, NEW s, NEW waits,
             Subscribe(rs, ix, sock, fresh, q, s, waits)
      PROVE  Counted
  <2>1. \A sending : \A accepted \in IF sock.silent THEN {sending} ELSE Accepted(sending) :
            accepted = sending \/ faults < MaxFaults
    BY DEF Accepted
  <2> QED
    BY <1>2, <2>1 DEF Subscribe, Fault
<1>3. ASSUME NEW sock, NEW slots, EndSubscribe(sock, slots) PROVE Counted
  BY <1>1, <1>3 DEF EndSubscribe
<1>4. ASSUME NEW sock, NEW late, EndRelease(sock, late) PROVE Counted
  BY <1>4 DEF EndRelease
<1> DEFINE Still == setting' = setting /\ timeouts' = timeouts /\ published' = published
<1>5. CASE Reattach
  BY <1>5 DEF Reattach
<1>6. CASE AttachToOpen
  <2>1. Still
    BY <1>6 DEF AttachToOpen
  <2>2. Counted
    BY <1>2, <1>6 DEF AttachToOpen, Fault
  <2> QED
    BY <2>1, <2>2
<1>7. CASE Reconnect
  <2>1. Still
    BY <1>7 DEF Reconnect
  <2>2. Counted
    BY <1>2, <1>7 DEF Reconnect, Fault
  <2> QED
    BY <2>1, <2>2
<1>8. CASE TakeDetach
  <2>1. Still
    BY <1>8 DEF TakeDetach
  <2>2. Counted
    BY <1>1, <1>8 DEF TakeDetach
  <2> QED
    BY <2>1, <2>2
<1>9. CASE Expire
  <2>1. Still
    BY <1>9 DEF Expire
  <2>2. Counted
    BY <1>1, <1>9 DEF Expire
  <2> QED
    BY <2>1, <2>2
<1>10. CASE ReadData \/ ReadUnawaited
  BY <1>10 DEF ReadData, ReadUnawaited
<1>11. CASE ReadAnswer
  <2>1. Still
    BY <1>11 DEF ReadAnswer
  <2>2. Counted
    BY <1>3, <1>4, <1>11 DEF ReadAnswer
  <2> QED
    BY <2>1, <2>2
<1>12. CASE TimeOut
  <2>1. Counted
    BY <1>3, <1>4, <1>12 DEF TimeOut
  <2> QED
    BY <1>12, <2>1 DEF TimeOut
<1>13. CASE LostByNetwork \/ GiveUp
  BY <1>13 DEF LostByNetwork, GiveUp, Fault
<1>14. CASE Keepalive
  BY <1>14 DEF Keepalive
<1>15. ASSUME NEW s \in Stream, Caller(s) \/ Join(s) \/ Leave(s) PROVE Still /\ Counted
  BY <1>15 DEF Caller, SendAttach, SeeEnd, Join, Leave
<1>16. ASSUME NEW x \in Slot, Publish(x)
       PROVE  /\ setting' = setting /\ timeouts' = timeouts /\ Counted
              /\ published < MaxFrames /\ published' = published + 1
  BY <1>16 DEF Publish
<1>17. CASE GoSilent \/ Tick
  BY <1>17 DEF GoSilent, Fault, Tick
<1>18. CASE UNCHANGED vars
  BY <1>18 DEF vars
<1> QED
  BY <1>5, <1>6, <1>7, <1>8, <1>9, <1>10, <1>11, <1>12, <1>13, <1>14, <1>15, <1>16, <1>17, <1>18
     DEF Next, Command, Read

LEMMA BoundedStep == ASSUME Bounded, [Next]_vars PROVE Bounded'
<1>1. MaxFrames \in Nat /\ MaxFaults \in Nat /\ MaxTimeouts \in Nat
  BY SettingsAssumption DEF Bounded, MaxFrames, MaxFaults, MaxTimeouts
<1>2. /\ setting' = setting
      /\ MaxFrames' = MaxFrames /\ MaxFaults' = MaxFaults /\ MaxTimeouts' = MaxTimeouts
  BY FaultsCounted DEF MaxFrames, MaxFaults, MaxTimeouts
<1> QED
  BY <1>1, <1>2, FaultsCounted DEF Bounded

LEMMA RegistryStep == ASSUME SocketInv, [Next]_vars PROVE Registry'
<1>1. setting \in Settings /\ Bounded /\ Callers /\ Registry
  BY DEF SocketInv, Bounded
<1>2. CASE Command
  BY <1>1, <1>2, ReattachKeeps, AttachToOpenKeeps, ReconnectKeeps, TakeDetachKeeps DEF Command
<1>3. CASE Read
  BY <1>1, <1>3, ReadDataKeeps, ReadUnawaitedKeeps, ReadAnswerKeeps DEF Read
<1>4. CASE TimeOut \/ Keepalive \/ Expire \/ GoSilent \/ Tick
  BY <1>1, <1>4, TimeOutKeeps, KeepaliveKeeps, ExpireKeeps, GoSilentKeeps, TickKeeps
<1>5. CASE LostByNetwork \/ GiveUp
  BY <1>1, <1>5, LoseKeeps DEF LostByNetwork, GiveUp
<1>6. CASE \E s \in Stream : Caller(s) \/ Join(s) \/ Leave(s)
  BY <1>1, <1>6, CallerKeeps
<1>7. CASE \E x \in Slot : Publish(x)
  BY <1>1, <1>7, PublishKeeps
<1>8. CASE UNCHANGED vars
  BY <1>1, <1>8, RegistryNext DEF vars, Registry
<1> QED
  BY <1>2, <1>3, <1>4, <1>5, <1>6, <1>7, <1>8 DEF Next

LEMMA SocketInvInit == ASSUME Init PROVE SocketInv
<1>1. Bounded
  BY SettingsAssumption DEF Init, Bounded, MaxFrames, MaxFaults, MaxTimeouts
<1>2. Callers
  <2>1. queue \in Seq(Request) /\ Len(queue) = 0
    BY DEF Init
  <2>2. phase \in Phases /\ attachment \in Attachments
    BY DEF Init, Phases, Attachments
  <2>3. \A s \in Stream : phase[s] = "gone" /\ attachment[s] = NoId
    BY DEF Init
  <2>4. current.waits = FALSE
    BY DEF Init, Idle
  <2> QED
    BY <2>1, <2>2, <2>3, <2>4 DEF Callers, CallersOK
<1>3. Registry
  <2>1. Served(registrations) /\ \A id \in Id : ~IsRouted(registrations, id)
    BY DEF Init, Served, Registrations, IsRouted
  <2>2. index = LinkAll(registrations)
    BY <2>1, NoLinks DEF Init
  <2>3. socket = ClosedSocket /\ current = Idle
    BY DEF Init
  <2>4. socket \in Connection /\ ~socket.open /\ ~socket.silent
    BY <2>3, ClosedIsAConnection DEF ClosedSocket
  <2> QED
    BY <2>1, <2>2, <2>3, <2>4, IdleIsAHandshake
       DEF Registry, RegistryOK, ConnectionOK, SubscribedOK, WantedOK, AnswersOK
<1> QED
  BY <1>1, <1>2, <1>3 DEF SocketInv

\* The callers' half and the task's half hold together in every reachable state.
THEOREM SocketInvariant == Spec => []SocketInv
<1>1. Init => SocketInv
  BY SocketInvInit
<1>2. SocketInv /\ [Next]_vars => SocketInv'
  <2> SUFFICES ASSUME SocketInv, [Next]_vars PROVE SocketInv'
    OBVIOUS
  <2>1. Bounded /\ Callers /\ Operation
    BY DEF SocketInv, Registry, RegistryOK, Operation
  <2>2. Bounded' /\ Callers' /\ Registry'
    BY <2>1, BoundedStep, CallersStep, RegistryStep
  <2> QED
    BY <2>2 DEF SocketInv
<1> QED
  BY <1>1, <1>2, PTL DEF Spec

-----------------------------------------------------------------------------
(* What every reachable state owes its streams and its provider.           *)

\* Type correctness, for any streams, slots and protocols: a stream has an
\* attachment exactly while it is attached.
THEOREM SocketTyping == Spec => []SocketTypeOK
<1>1. SocketInv => SocketTypeOK
  <2> SUFFICES ASSUME SocketInv PROVE SocketTypeOK
    OBVIOUS
  <2>1. /\ Served(registrations) /\ current \in Handshake /\ socket \in Connection
        /\ index = LinkAll(registrations)
    BY DEF SocketInv, Registry, RegistryOK, HandshakeOK, ConnectionOK
  <2>2. /\ queue \in Seq(Request) /\ phase \in Phases /\ attachment \in Attachments
        /\ \A s \in Stream : phase[s] = "attached" <=> attachment[s] # NoId
    BY DEF SocketInv, Callers, CallersOK
  <2>3. index \in SUBSET (Slot \X Id)
    BY <2>1, LinksAreTyped
  <2> QED
    BY <2>1, <2>2, <2>3
       DEF SocketInv, Bounded, SocketTypeOK, Served, Registrations, Handshake, Op, Connection,
           Request, Phases, Attachments
<1> QED
  BY <1>1, SocketInvariant, PTL

\* Between two operations an open socket serves somebody and is subscribed to
\* exactly what its registrations hold (actor.rs:180-184, 255-280, 378-400).
THEOREM SocketServesItsRegistry == Spec => []SocketServesRegistry
<1>1. SocketInv => SocketServesRegistry
  BY IdleIsAHandshake DEF SocketInv, Registry, RegistryOK, ConnectionOK, SubscribedOK, SocketServesRegistry
<1> QED
  BY <1>1, SocketInvariant, PTL

\* A stream has been sent, or is held, what the socket delivered for its slots,
\* once and in order, through a re-attach too (registry.rs:259-291).
THEOREM EveryFrameReachesItsStream == Spec => []FramesReachTheirStream
<1>1. SocketInv => FramesReachTheirStream
  BY DEF SocketInv, Registry, RegistryOK, Served, FramesReachTheirStream
<1> QED
  BY <1>1, SocketInvariant, PTL

\* Between two operations the provider streams nothing that no registration
\* holds, where every release that matters was confirmed (actor.rs:255-280).
THEOREM UnwantedIsReclaimed == Spec => []NothingStreamsUnwanted
<1>1. SocketInv => NothingStreamsUnwanted
  BY DEF SocketInv, Registry, RegistryOK, WantedOK, InTime, NothingStreamsUnwanted
<1> QED
  BY <1>1, SocketInvariant, PTL

\* Where releases are waited for and confirmed in time, the provider streams
\* what a handshake took to be confirmed (actor.rs:381-382).
THEOREM WhatIsConfirmedIsStreamed == Spec => []ConfirmedIsStreamed
<1>1. SocketInv => ConfirmedIsStreamed
  <2> SUFFICES ASSUME SocketInv, ConfirmsRelease, ~socket.late
               PROVE  socket.subscribed \subseteq socket.provided
    BY DEF ConfirmedIsStreamed
  <2>1. CASE socket.open
    BY <2>1 DEF SocketInv, Registry, RegistryOK, AnswersOK
  <2>2. CASE ~socket.open
    <3>1. socket = ClosedSocket
      BY <2>2 DEF SocketInv, Registry, RegistryOK, ConnectionOK
    <3> QED
      BY <3>1 DEF ClosedSocket
  <2> QED
    BY <2>1, <2>2
<1> QED
  BY <1>1, SocketInvariant, PTL

-----------------------------------------------------------------------------
(* What a step may do to a registration.                                   *)

\* Why a registration may go.
MayGo(id) ==
    \/ IsWaiting(registrations, id) /\ registrations[id].left = 0
    \/ /\ IsWaiting(registrations, id)
       /\ Takes("attach") /\ IsRequestedBy(registrations, id, Head(queue).stream)
    \/ IsLive(registrations, id) /\ \A s \in Stream : attachment[s] # id

PlaceOK(id) ==
    \/ registrations[id] = Nobody
    \/ registrations'[id] = Nobody /\ MayGo(id)
    \/ /\ registrations'[id] # Nobody
       /\ IsWaiting(registrations, id) /\ IsWaiting(registrations', id) =>
             registrations'[id].left <= registrations[id].left

\* A registration in place, and no longer to wait if it was waiting.
SameAt(rs, rt, id) ==
    /\ rt[id] = Nobody <=> rs[id] = Nobody
    /\ IsWaiting(rs, id) => IsWaiting(rt, id) /\ rt[id].left = rs[id].left

LEMMA LossKeepsPlaces ==
    ASSUME NEW rs, Served(rs), NEW id \in Id
    PROVE  SameAt(rs, LoseAll(rs), id) /\ SameAt(rs, HoldLost(rs), id)
<1>1. CASE rs[id] = Nobody
  BY <1>1, SinksAfter DEF SameAt, IsWaiting
<1>2. CASE rs[id] # Nobody
  <2>1. IsWaiting(rs, id) => ~IsLive(rs, id)
    BY DEF IsWaiting, IsLive
  <2> QED
    BY <1>2, <2>1, ChangedAll, SinksAfter DEF SameAt, IsWaiting
<1> QED
  BY <1>1, <1>2

LEMMA ReleaseKeepsPlaces ==
    ASSUME NEW rs, Served(rs), NEW ix, NEW sock, NEW slots, NEW q, NEW s, NEW waits,
           Release(rs, ix, sock, slots, q, s, waits)
    PROVE  \A id \in Id : SameAt(rs, registrations', id)
<1>1. registrations' = rs \/ registrations' = LoseAll(rs)
  BY DEF Release, LoseSocket
<1> QED
  BY <1>1, LossKeepsPlaces DEF SameAt

LEMMA SubscribeKeepsPlaces ==
    ASSUME NEW rs, Served(rs), NEW ix, NEW sock, NEW fresh, NEW q, NEW s, NEW waits,
           Subscribe(rs, ix, sock, fresh, q, s, waits)
    PROVE  \A id \in Id : id = FreshId \/ SameAt(rs, registrations', id)
<1>1. registrations' = [rs EXCEPT ![FreshId] = Live(s)] \/ registrations' = LoseAll(rs)
  BY DEF Subscribe, LoseSocket
<1>2. CASE registrations' = [rs EXCEPT ![FreshId] = Live(s)]
  <2>1. \A id \in Id : id = FreshId \/ registrations'[id] = rs[id]
    BY <1>2 DEF Served, Registrations
  <2> QED
    BY <2>1 DEF SameAt, IsWaiting
<1>3. CASE registrations' = LoseAll(rs)
  BY <1>3, LossKeepsPlaces
<1> QED
  BY <1>1, <1>2, <1>3

\* The step takes some registrations away and then keeps every place.
LEMMA PlacesFrom ==
    ASSUME Served(registrations), NEW rs,
           \A id \in Id : registrations[id] # Nobody =>
               /\ SameAt(registrations, rs, id) \/ (rs[id] = Nobody /\ MayGo(id))
               /\ SameAt(rs, registrations', id)
    PROVE  \A id \in Id : PlaceOK(id)
<1> SUFFICES ASSUME NEW id \in Id, registrations[id] # Nobody PROVE PlaceOK(id)
  BY DEF PlaceOK
<1>1. registrations[id].left \in Nat
  BY GraceAssumption DEF Served, Registrations, Registration
<1>2. CASE SameAt(registrations, rs, id) /\ SameAt(rs, registrations', id)
  <2>1. /\ registrations'[id] # Nobody
        /\ IsWaiting(registrations, id) => registrations'[id].left = registrations[id].left
    BY <1>2 DEF SameAt
  <2> QED
    BY <1>1, <2>1 DEF PlaceOK
<1>3. CASE rs[id] = Nobody /\ MayGo(id) /\ SameAt(rs, registrations', id)
  BY <1>3 DEF SameAt, PlaceOK
<1> QED
  BY <1>2, <1>3

\* The registration of a failed subscribe was nobody's attachment yet.
LEMMA NobodyAttachedYet ==
    ASSUME Callers, Registry, current.op = "subscribing"
    PROVE  current.id \in Id /\ MayGo(current.id)
<1>1. current.id \in Id /\ IsLive(registrations, current.id)
  BY DEF Registry, RegistryOK, HandshakeOK
<1>2. \A s \in Stream : attachment[s] # current.id
  BY <1>1, NullAssumption DEF Callers, CallersOK, NoId
<1> QED
  BY <1>1, <1>2 DEF MayGo

LEMMA OneGoes ==
    ASSUME Served(registrations), NEW gone \in Id, MayGo(gone),
           \A id \in Id : SameAt([registrations EXCEPT ![gone] = Nobody], registrations', id)
    PROVE  \A id \in Id : PlaceOK(id)
<1> DEFINE rs == [registrations EXCEPT ![gone] = Nobody]
<1>1. \A id \in Id : SameAt(registrations, rs, id) \/ (rs[id] = Nobody /\ MayGo(id))
  BY DEF Served, Registrations, SameAt, IsWaiting
<1>2. \A id \in Id : SameAt(rs, registrations', id)
  OBVIOUS
<1> HIDE DEF rs
<1> QED
  BY <1>1, <1>2, PlacesFrom

LEMMA NoneGoes ==
    ASSUME Served(registrations), \A id \in Id : SameAt(registrations, registrations', id)
    PROVE  \A id \in Id : PlaceOK(id)
<1>1. \A id \in Id : SameAt(registrations, registrations, id)
  BY DEF SameAt
<1> QED
  BY <1>1, PlacesFrom

LEMMA UnchangedPlaces ==
    ASSUME Served(registrations), registrations' = registrations PROVE \A id \in Id : PlaceOK(id)
<1>1. \A id \in Id : SameAt(registrations, registrations', id)
  BY DEF SameAt
<1> QED
  BY <1>1, NoneGoes

LEMMA EndSubscribePlaces ==
    ASSUME Callers, Registry, current.op = "subscribing",
           NEW sock, NEW slots, EndSubscribe(sock, slots)
    PROVE  \A id \in Id : PlaceOK(id)
<1> DEFINE rs == [registrations EXCEPT ![current.id] = Nobody]
<1>1. Served(registrations) /\ current.id \in Id /\ MayGo(current.id)
  BY NobodyAttachedYet DEF Registry, RegistryOK
<1>2. Served(rs)
  BY <1>1, ServedOne
<1>3. registrations' = LoseAll(rs) \/ \E ix, q, s, waits : Release(rs, ix, sock, slots, q, s, waits)
  BY Zenon DEF EndSubscribe, LoseSocket
<1>4. \A id \in Id : SameAt(rs, registrations', id)
  <2> HIDE DEF rs
  <2> QED
    BY <1>2, <1>3, LossKeepsPlaces, ReleaseKeepsPlaces
<1> QED
  BY <1>1, <1>4, OneGoes

LEMMA LosePlaces ==
    ASSUME Callers, Registry, Lose PROVE \A id \in Id : PlaceOK(id)
<1>1. Served(registrations)
  BY DEF Registry, RegistryOK
<1>2. CASE current.op = "subscribing"
  <2> DEFINE rs == [registrations EXCEPT ![current.id] = Nobody]
  <2>1. current.id \in Id /\ MayGo(current.id)
    BY <1>2, NobodyAttachedYet
  <2>2. Served(rs) /\ registrations' = LoseAll(rs)
    BY <1>1, <1>2, <2>1, ServedOne DEF Lose, LoseSocket
  <2>3. \A id \in Id : SameAt(rs, registrations', id)
    BY <2>2, LossKeepsPlaces
  <2> QED
    BY <1>1, <2>1, <2>3, OneGoes
<1>3. CASE current.op # "subscribing"
  <2>1. registrations' = LoseAll(registrations)
    BY <1>3 DEF Lose, LoseSocket
  <2> QED
    BY <1>1, <2>1, LossKeepsPlaces, NoneGoes
<1> QED
  BY <1>2, <1>3

LEMMA ReattachPlaces ==
    ASSUME Callers, Registry, Reattach PROVE \A id \in Id : PlaceOK(id)
<1>1. PICK held \in Id :
          /\ IsRequestedBy(registrations, held, Head(queue).stream) /\ registrations[held].sink = "Held"
          /\ registrations' = MoveTo(FreshId, registrations, held)
  BY DEF Reattach
<1>2. Takes("attach") /\ FreshIds # {} /\ queue \in Seq(Request)
  BY DEF Reattach, Callers, CallersOK
<1>3. FreshId \in Id /\ registrations[FreshId] = Nobody /\ registrations[held] # Nobody
  BY <1>1, <1>2, FreshIdIsFree DEF IsRequestedBy
<1>4. MayGo(held)
  BY <1>1, <1>2 DEF MayGo, IsRequestedBy, IsWaiting
<1>5. Served(registrations)
  BY DEF Registry, RegistryOK
<1> DEFINE rs == [registrations EXCEPT ![held] = Nobody]
<1>6. ASSUME NEW id \in Id, registrations[id] # Nobody
      PROVE  /\ SameAt(registrations, rs, id) \/ (rs[id] = Nobody /\ MayGo(id))
             /\ SameAt(rs, registrations', id)
  <2>1. registrations'[id] = rs[id]
    BY <1>1, <1>3, <1>5, <1>6 DEF MoveTo, Served, Registrations
  <2>2. rs[id] = registrations[id] \/ (id = held /\ rs[id] = Nobody)
    BY <1>5 DEF Served, Registrations
  <2> QED
    BY <1>4, <2>1, <2>2 DEF SameAt, IsWaiting
<1> HIDE DEF rs
<1> QED
  BY <1>5, <1>6, PlacesFrom

LEMMA AttachToOpenPlaces ==
    ASSUME Callers, Registry, AttachToOpen PROVE \A id \in Id : PlaceOK(id)
<1>1. Served(registrations) /\ Takes("attach")
  BY DEF Registry, RegistryOK, AttachToOpen
<1>2. CASE registrations' = registrations
  BY <1>1, <1>2, UnchangedPlaces
<1>3. CASE \E ix, sock, q, s, waits : Subscribe(registrations, ix, sock, FALSE, q, s, waits)
  <2>1. FreshIds # {} /\ queue \in Seq(Request)
    BY <1>3 DEF Subscribe, Callers, CallersOK
  <2>2. registrations[FreshId] = Nobody
    BY <2>1, FreshIdIsFree
  <2>3. \A id \in Id : id = FreshId \/ SameAt(registrations, registrations', id)
    BY <1>1, <1>3, SubscribeKeepsPlaces
  <2>4. \A id \in Id : SameAt(registrations, registrations, id)
    BY DEF SameAt
  <2> QED
    BY <1>1, <2>2, <2>3, <2>4, PlacesFrom
<1>4. \/ registrations' = registrations
      \/ \E ix, sock, q, s, waits : Subscribe(registrations, ix, sock, FALSE, q, s, waits)
  BY Zenon DEF AttachToOpen
<1> QED
  BY <1>2, <1>3, <1>4

LEMMA ReconnectPlaces ==
    ASSUME Callers, Registry, Reconnect PROVE \A id \in Id : PlaceOK(id)
<1> DEFINE s == Head(queue).stream
<1>1. PICK rs \in ForgetLost(registrations, s) :
          \/ Subscribe(HoldLost(rs), LinkAll(HoldLost(rs)), OpenSocket, TRUE, Tail(queue), s,
                       Head(queue).waits)
          \/ LoseSocket(HoldLost(rs))
          \/ registrations' = rs
  BY DEF Reconnect
<1>2. Served(registrations) /\ Takes("attach") /\ queue \in Seq(Request)
  BY DEF Registry, RegistryOK, Reconnect, Callers, CallersOK
<1>3. /\ Served(rs)
      /\ \A id \in Id : registrations[id] # Nobody =>
            SameAt(registrations, rs, id) \/ (rs[id] = Nobody /\ MayGo(id))
  <2>1. CASE rs = registrations
    BY <1>2, <2>1 DEF SameAt
  <2>2. ASSUME NEW gone \in Id, IsRequestedBy(registrations, gone, s), ~IsRouted(registrations, gone),
               rs = [registrations EXCEPT ![gone] = Nobody]
        PROVE  <1>3!1 /\ <1>3!2
    <3>1. Served(rs) /\ \A id \in Id : rs[id] = registrations[id] \/ (id = gone /\ rs[id] = Nobody)
      BY <1>2, <2>2, ServedOne DEF Served, Registrations
    <3>2. MayGo(gone)
      BY <1>2, <2>2 DEF MayGo, IsRequestedBy, IsRouted, IsWaiting
    <3> QED
      BY <3>1, <3>2 DEF SameAt, IsWaiting
  <2> QED
    BY <2>1, <2>2 DEF ForgetLost
<1>4. Served(HoldLost(rs)) /\ \A id \in Id : SameAt(rs, HoldLost(rs), id)
  BY <1>3, ServedAll, LossKeepsPlaces
<1>5. ASSUME NEW id \in Id, registrations[id] # Nobody PROVE SameAt(rs, registrations', id)
  <2>1. CASE Subscribe(HoldLost(rs), LinkAll(HoldLost(rs)), OpenSocket, TRUE, Tail(queue), s,
                       Head(queue).waits)
    <3>1. registrations[FreshId] = Nobody
      BY <1>2, <2>1, FreshIdIsFree DEF Subscribe
    <3>2. SameAt(HoldLost(rs), registrations', id)
      BY <1>4, <1>5, <2>1, <3>1, SubscribeKeepsPlaces
    <3> QED
      BY <1>4, <3>2 DEF SameAt
  <2>2. CASE LoseSocket(HoldLost(rs))
    <3>1. SameAt(HoldLost(rs), registrations', id)
      BY <1>4, <2>2, LossKeepsPlaces DEF LoseSocket
    <3> QED
      BY <1>4, <3>1 DEF SameAt
  <2>3. CASE registrations' = rs
    BY <2>3 DEF SameAt
  <2> QED
    BY <1>1, <2>1, <2>2, <2>3
<1> QED
  BY <1>2, <1>3, <1>5, PlacesFrom

LEMMA TakeDetachPlaces ==
    ASSUME Callers, Registry, TakeDetach PROVE \A id \in Id : PlaceOK(id)
<1> DEFINE gone == Head(queue).id  rs == [registrations EXCEPT ![gone] = Nobody]
<1>1. Served(registrations) /\ Takes("detach")
  BY DEF Registry, RegistryOK, TakeDetach
<1>2. gone \in Id /\ \A t \in Stream : attachment[t] # gone
  BY <1>1, CommandTaken DEF Takes
<1>3. CASE registrations' = registrations
  BY <1>1, <1>3, UnchangedPlaces
<1>4. CASE IsLive(registrations, gone) /\ \E ix, slots, q : Release(rs, ix, socket, slots, q, NoStream, FALSE)
  <2>1. MayGo(gone) /\ Served(rs)
    BY <1>1, <1>2, <1>4, ServedOne DEF MayGo
  <2>2. \A id \in Id : SameAt(rs, registrations', id)
    <3> HIDE DEF rs
    <3> QED
      BY <1>4, <2>1, ReleaseKeepsPlaces
  <2> QED
    BY <1>1, <1>2, <2>1, <2>2, OneGoes
<1>5. \/ registrations' = registrations
      \/ IsLive(registrations, gone) /\ \E ix, slots, q : Release(rs, ix, socket, slots, q, NoStream, FALSE)
  BY Zenon DEF TakeDetach
<1> QED
  BY <1>3, <1>4, <1>5

LEMMA ExpirePlaces ==
    ASSUME Registry, Expire PROVE \A id \in Id : PlaceOK(id)
<1> DEFINE rs == [id \in Id |-> IF id \in {i \in Id : IsWaiting(registrations, i) /\ registrations[i].left = 0}
                               THEN Nobody ELSE registrations[id]]
<1>1. Served(registrations) /\ \E ix, slots, q : Release(rs, ix, socket, slots, q, NoStream, FALSE)
  BY Zenon DEF Registry, RegistryOK, Expire
<1>2. /\ Served(rs)
      /\ \A id \in Id : SameAt(registrations, rs, id) \/ (rs[id] = Nobody /\ MayGo(id))
  BY <1>1 DEF Served, Registrations, SameAt, MayGo, IsWaiting
<1> HIDE DEF rs
<1>3. \A id \in Id : SameAt(rs, registrations', id)
  BY <1>1, <1>2, ReleaseKeepsPlaces
<1> QED
  BY <1>1, <1>2, <1>3, PlacesFrom

LEMMA ReadDataPlaces ==
    ASSUME Registry, ReadData PROVE \A id \in Id : PlaceOK(id)
<1> DEFINE frame == Head(socket.wire)
<1>1. socket.wire # <<>> /\ frame.kind = "data" /\ registrations' = Route(registrations, frame)
  BY DEF ReadData, Reads
<1>2. socket.wire \in Seq(Frame)
  BY <1>1, ReadingIsOpen
<1>3. frame \in Frame
  BY <1>1, <1>2
<1>4. Served(registrations)
  BY DEF Registry, RegistryOK
<1> HIDE DEF frame
<1>5. \A id \in Id : SameAt(registrations, registrations', id)
  BY <1>1, <1>3, Routed DEF SameAt, IsWaiting
<1> QED
  BY <1>4, <1>5, NoneGoes

LEMMA TickPlaces ==
    ASSUME Registry, Tick PROVE \A id \in Id : PlaceOK(id)
BY TimePasses DEF PlaceOK

LEMMA PlacesStep == ASSUME SocketInv, [Next]_vars PROVE \A id \in Id : PlaceOK(id)
<1>1. Callers /\ Registry /\ Served(registrations)
  BY DEF SocketInv, Registry, RegistryOK
<1>2. CASE Command
  BY <1>1, <1>2, ReattachPlaces, AttachToOpenPlaces, ReconnectPlaces, TakeDetachPlaces DEF Command
<1>3. CASE ReadData
  BY <1>1, <1>3, ReadDataPlaces
<1>4. CASE ReadAnswer
  <2>1. CASE registrations' = registrations
    BY <1>1, <2>1, UnchangedPlaces
  <2>2. CASE current.op = "subscribing" /\ EndSubscribe(AfterRead, RefusedSlots)
    BY <1>1, <2>2, EndSubscribePlaces
  <2> QED
    BY <1>4, <2>1, <2>2 DEF ReadAnswer, EndRelease
<1>5. CASE TimeOut
  <2>1. CASE current.op = "subscribing" /\ EndSubscribe(socket, AddedSlots)
    BY <1>1, <2>1, EndSubscribePlaces
  <2>2. CASE EndRelease(socket, TRUE)
    BY <1>1, <2>2, UnchangedPlaces DEF EndRelease
  <2> QED
    BY <1>5, <2>1, <2>2 DEF TimeOut
<1>6. CASE LostByNetwork \/ GiveUp \/ Keepalive
  <2>1. CASE Lose
    BY <1>1, <2>1, LosePlaces
  <2>2. CASE registrations' = registrations
    BY <1>1, <2>2, UnchangedPlaces
  <2> QED
    BY <1>6, <2>1, <2>2 DEF LostByNetwork, GiveUp, Keepalive
<1>7. CASE Expire
  BY <1>1, <1>7, ExpirePlaces
<1>8. CASE Tick
  BY <1>1, <1>8, TickPlaces
<1>9. CASE UNCHANGED registrations
  BY <1>1, <1>9, UnchangedPlaces
<1>10. ASSUME ReadUnawaited \/ GoSilent \/ (\E s \in Stream : Caller(s) \/ Join(s) \/ Leave(s))
              \/ (\E x \in Slot : Publish(x)) \/ UNCHANGED vars
       PROVE  UNCHANGED registrations
  BY <1>10 DEF ReadUnawaited, GoSilent, Caller, SendAttach, SeeEnd, Join, Leave, Publish, vars
<1> QED
  BY <1>2, <1>3, <1>4, <1>5, <1>6, <1>7, <1>8, <1>9, <1>10 DEF Next, Read

\* A registration goes only when its time is up, when its own stream asks again,
\* or when nobody is attached to it: a detach that comes late takes nobody's
\* place (registry.rs:244-291).
THEOREM PlacesAreKeptAlways == Spec => PlacesAreKept
<1> DEFINE Kept == \A id \in Id :
                      registrations[id] # Nobody /\ registrations'[id] = Nobody => MayGo(id)
<1>1. SocketInv /\ [Next]_vars => Kept
  BY PlacesStep DEF PlaceOK
<1>2. Spec => [][Kept]_vars
  BY <1>1, SocketInvariant, PTL DEF Spec
<1> QED
  BY <1>2 DEF PlacesAreKept, MayGo

\* The time a registration has left never grows while it waits, whatever
\* reconnects fail meanwhile (registry.rs:304-325).
THEOREM GraceRunsFromTheLossAlways == Spec => GraceRunsFromTheLoss
<1> DEFINE Runs == \A id \in Id :
                      IsWaiting(registrations, id) /\ IsWaiting(registrations', id) =>
                         registrations'[id].left <= registrations[id].left
<1>1. SocketInv /\ [Next]_vars => Runs
  BY PlacesStep DEF PlaceOK, IsWaiting
<1>2. Spec => [][Runs]_vars
  BY <1>1, SocketInvariant, PTL DEF Spec
<1> QED
  BY <1>2 DEF GraceRunsFromTheLoss
=============================================================================
