------------------------------- MODULE SeqLock -------------------------------
(***************************************************************************)
(* The sequence lock under the engine's HistoricalClock, SeqLockInstant of *)
(* rustrade/src/engine/clock/seqlock.rs, one action per atomic access, on  *)
(* the memory the language promises and no stronger: a relaxed load may    *)
(* return a stale store.                                                   *)
(*                                                                         *)
(* Memory is the usual view machine.  Each location holds the stores made  *)
(* to it, in order, each with the view it publishes; a thread may read any *)
(* store at or after its own view of the location.  An acquiring load      *)
(* takes over the view of the store it reads; a relaxed one only makes it  *)
(* acquirable, for a later acquire fence.  A releasing store publishes the *)
(* thread's view; a relaxed one the view of the last release fence.        *)
(*                                                                         *)
(* Every store is made by the thread that holds the version odd, which has *)
(* seen the last store to each location (WriterExclusive), so stores are   *)
(* appended.                                                               *)
(***************************************************************************)
EXTENDS Integers, Sequences

CONSTANTS
    Thread,
    Instant,   \* <<seconds, nanoseconds>> pairs: the RawInstants
    Start,     \* the instant the clock is created with
    MaxCalls,  \* how many calls each thread makes
    NoTime     \* the argument of load, which has none

ASSUME InstantAssumption == Instant \subseteq Nat \X Nat
ASSUME CallsAssumption == MaxCalls \in Nat /\ Start \in Instant /\ NoTime \notin Instant

VARIABLES
    memory,      \* the stores to each location, oldest first
    current,     \* each thread's view
    acquirable,  \* the view an acquire fence would give it
    released,    \* the view its last release fence publishes
    call,        \* the local state of the call each thread is in
    calls,       \* how many calls each thread has begun
    seen         \* history: the latest instant each thread learned was held

views == <<current, acquirable, released>>
vars == <<memory, views, call, calls, seen>>

Location == {"version", "secs", "nanos"}

IsBefore(a, b) == a[1] < b[1] \/ (a[1] = b[1] /\ a[2] < b[2])

IsEven(version) == version % 2 = 0

-----------------------------------------------------------------------------
(* The memory.                                                             *)

Join(v, w) == [l \in Location |-> IF v[l] >= w[l] THEN v[l] ELSE w[l]]

Last(location) == Len(memory[location])

Value(location, i) == memory[location][i].value

\* Thread t, whose view is `view`, reads the i-th store to the location.
Load(t, view, location, i, acquires) ==
    LET read == [view EXCEPT ![location] = i]
        stored == memory[location][i].view
    IN /\ i >= view[location]
       /\ current' = [current EXCEPT ![t] = IF acquires THEN Join(read, stored) ELSE read]
       /\ acquirable' = [acquirable EXCEPT ![t] = Join(Join(@, read), stored)]

LoadRelaxed(t, location, i) ==
    Load(t, current[t], location, i, FALSE) /\ UNCHANGED <<memory, released>>

\* Thread t stores to the location, and publishes `view`.
Store(t, location, value, view) ==
    LET own == [current[t] EXCEPT ![location] = Last(location) + 1]
    IN /\ memory' = [memory EXCEPT ![location] =
                        Append(@, [value |-> value, view |-> [view EXCEPT ![location] = own[location]]])]
       /\ current' = [current EXCEPT ![t] = own]
       /\ acquirable' = [acquirable EXCEPT ![t] = Join(@, own)]

\* Mutant: the fence is left out.
WithoutAcquireFence(t) == current[t]

\* fence(Acquire)
AcquireFence(t) == Join(current[t], acquirable[t])

-----------------------------------------------------------------------------
(* load_raw                                                                *)

At(t, pc) == call[t].pc = pc

GoTo(t, pc) == call' = [call EXCEPT ![t].pc = pc]

Idle == [pc |-> "idle", time |-> NoTime, version |-> 0, secs |-> 0, nanos |-> 0]

\* The call ends, having learned that `instant` was held.
Return(t, instant) ==
    /\ call' = [call EXCEPT ![t] = Idle]
    /\ seen' = [seen EXCEPT ![t] = instant]

\* A thread calls load, or advance(time).
Begin(t) ==
    /\ At(t, "idle")
    /\ calls[t] < MaxCalls
    /\ calls' = [calls EXCEPT ![t] = @ + 1]
    /\ \E time \in Instant \cup {NoTime} :
        call' = [call EXCEPT ![t] = [Idle EXCEPT !.pc = "readBefore", !.time = time]]
    /\ UNCHANGED <<memory, views, seen>>

ReadBefore(t, i) ==
    /\ At(t, "readBefore")
    /\ Load(t, current[t], "version", i, TRUE)
    /\ IF IsEven(Value("version", i))
       THEN call' = [call EXCEPT ![t] = [@ EXCEPT !.pc = "readSecs", !.version = Value("version", i)]]
       ELSE UNCHANGED call
    /\ UNCHANGED <<memory, released, calls, seen>>

ReadSecs(t, i) ==
    /\ At(t, "readSecs")
    /\ LoadRelaxed(t, "secs", i)
    /\ call' = [call EXCEPT ![t] = [@ EXCEPT !.pc = "readNanos", !.secs = Value("secs", i)]]
    /\ UNCHANGED <<calls, seen>>

ReadNanos(t, i) ==
    /\ At(t, "readNanos")
    /\ LoadRelaxed(t, "nanos", i)
    /\ call' = [call EXCEPT ![t] = [@ EXCEPT !.pc = "readAgain", !.nanos = Value("nanos", i)]]
    /\ UNCHANGED <<calls, seen>>

\* An instant read whole answers a load, and an advance to one no later.
Answers(t, instant) == IF call[t].time = NoTime THEN TRUE ELSE ~IsBefore(instant, call[t].time)

\* The fence, and the second load of the version.
ReadAgain(t, i) ==
    LET instant == <<call[t].secs, call[t].nanos>> IN
    /\ At(t, "readAgain")
    /\ Load(t, AcquireFence(t), "version", i, FALSE)
    /\ \/ Value("version", i) # call[t].version /\ GoTo(t, "readBefore") /\ UNCHANGED seen
       \/ /\ Value("version", i) = call[t].version
          /\ IF Answers(t, instant) THEN Return(t, instant)
             ELSE GoTo(t, "readLock") /\ UNCHANGED seen
    /\ UNCHANGED <<memory, released, calls>>

-----------------------------------------------------------------------------
(* advance, from lock on                                                   *)

ReadLock(t, i) ==
    /\ At(t, "readLock")
    /\ LoadRelaxed(t, "version", i)
    /\ IF IsEven(Value("version", i))
       THEN call' = [call EXCEPT ![t] = [@ EXCEPT !.pc = "swap", !.version = Value("version", i)]]
       ELSE UNCHANGED call
    /\ UNCHANGED <<calls, seen>>

\* The version is still the one read.
IsUnchanged(t) == Value("version", Last("version")) = call[t].version

\* fence(Release), of the view the same step gives the thread
ReleaseFence(t) == released' = [released EXCEPT ![t] = current'[t]]

\* compare_exchange_weak succeeds: an acquiring load of the last store and a
\* relaxed store right after it, which goes on publishing what that one did.
Lock(t) ==
    LET last == memory["version"][Last("version")]
        own == Join([current[t] EXCEPT !["version"] = Last("version") + 1], last.view)
    IN /\ At(t, "swap")
       /\ IsUnchanged(t)
       /\ memory' = [memory EXCEPT !["version"] =
                        Append(@, [value |-> call[t].version + 1,
                                   view  |-> [Join(released[t], last.view)
                                                 EXCEPT !["version"] = Last("version") + 1]])]
       /\ current' = [current EXCEPT ![t] = own]
       /\ acquirable' = [acquirable EXCEPT ![t] = Join(@, own)]
       /\ ReleaseFence(t)
       /\ GoTo(t, "readHeldSecs")
       /\ UNCHANGED <<calls, seen>>

\* It fails, as it may at any time; it reads like a relaxed load.
FailLock(t, i) ==
    /\ At(t, "swap")
    /\ LoadRelaxed(t, "version", i)
    /\ GoTo(t, "readLock")
    /\ UNCHANGED <<calls, seen>>

ReadHeldSecs(t, i) ==
    /\ At(t, "readHeldSecs")
    /\ LoadRelaxed(t, "secs", i)
    /\ call' = [call EXCEPT ![t] = [@ EXCEPT !.pc = "readHeldNanos", !.secs = Value("secs", i)]]
    /\ UNCHANGED <<calls, seen>>

\* Whether the time is later than the instant held.
IsLater(t, nanos) == IsBefore(<<call[t].secs, nanos>>, call[t].time)

ReadHeldNanos(t, i) ==
    /\ At(t, "readHeldNanos")
    /\ LoadRelaxed(t, "nanos", i)
    /\ call' = [call EXCEPT ![t] =
            [@ EXCEPT !.pc = IF IsLater(t, Value("nanos", i)) THEN "storeSecs" ELSE "unlock",
                      !.nanos = Value("nanos", i)]]
    /\ UNCHANGED <<calls, seen>>

StoreSecs(t) ==
    /\ At(t, "storeSecs")
    /\ Store(t, "secs", call[t].time[1], released[t])
    /\ GoTo(t, "storeNanos")
    /\ UNCHANGED <<released, calls, seen>>

StoreNanos(t) ==
    /\ At(t, "storeNanos")
    /\ Store(t, "nanos", call[t].time[2], released[t])
    /\ GoTo(t, "unlock")
    /\ UNCHANGED <<released, calls, seen>>

\* Mutant: the next version is odd again.
OddVersion(t) == call[t].version + 1

NextVersion(t) == call[t].version + 2

\* The releasing store of the next even version.  The later of the time and the
\* instant it was compared with is now held.
Unlock(t) ==
    LET heldBefore == <<call[t].secs, call[t].nanos>> IN
    /\ At(t, "unlock")
    /\ Store(t, "version", NextVersion(t), current[t])
    /\ Return(t, IF IsBefore(heldBefore, call[t].time) THEN call[t].time ELSE heldBefore)
    /\ UNCHANGED <<released, calls>>

-----------------------------------------------------------------------------

\* SeqLockInstant::new
Init ==
    LET none == [l \in Location |-> 1]
        first(value) == <<[value |-> value, view |-> none]>>
    IN /\ memory = [version |-> first(0), secs |-> first(Start[1]), nanos |-> first(Start[2])]
       /\ current = [t \in Thread |-> none]
       /\ acquirable = current
       /\ released = current
       /\ call = [t \in Thread |-> Idle]
       /\ calls = [t \in Thread |-> 0]
       /\ seen = [t \in Thread |-> Start]

Loads(t) ==
    \/ \E i \in 1..Last("version") :
        ReadBefore(t, i) \/ ReadAgain(t, i) \/ ReadLock(t, i) \/ FailLock(t, i)
    \/ \E i \in 1..Last("secs") : ReadSecs(t, i) \/ ReadHeldSecs(t, i)
    \/ \E i \in 1..Last("nanos") : ReadNanos(t, i) \/ ReadHeldNanos(t, i)

Step(t) == Loads(t) \/ Lock(t) \/ StoreSecs(t) \/ StoreNanos(t) \/ Unlock(t)

\* Every call has returned.
Done == /\ \A t \in Thread : At(t, "idle") /\ calls[t] = MaxCalls
        /\ UNCHANGED vars

Next == Done \/ \E t \in Thread : Begin(t) \/ Step(t)

Spec == Init /\ [][Next]_vars

\* A thread takes its steps; it does not for ever read a version that has been
\* overwritten, nor for ever fail a swap it could make.
FairSpec ==
    /\ Spec
    /\ \A t \in Thread :
        /\ WF_vars(Step(t))
        /\ SF_vars(\/ ReadBefore(t, Last("version")) \/ ReadAgain(t, Last("version"))
                   \/ ReadLock(t, Last("version")))
        /\ SF_vars(Lock(t))

-----------------------------------------------------------------------------
(* Correctness.                                                            *)

View == [Location -> Nat \ {0}]

Holds(t) == call[t].pc \in {"readHeldSecs", "readHeldNanos", "storeSecs", "storeNanos", "unlock"}

\* "A second writer spins until the first is done": the version is odd exactly
\* while one thread holds it, and that thread has seen the last store to each
\* location, so it compares its time with the instant really held.
WriterExclusive ==
    /\ \A t, u \in Thread : Holds(t) /\ Holds(u) => t = u
    /\ ~IsEven(Value("version", Last("version"))) <=> \E t \in Thread : Holds(t)
    /\ \A t \in Thread : Holds(t) => \A l \in Location : current[t][l] = Last(l)

\* Type correctness; the version counts its own stores, and excludes writers.
SeqLockTypeOK ==
    /\ \A l \in Location : \A i \in 1..Last(l) : memory[l][i].view \in View
    /\ \A i \in 1..Last("version") : Value("version", i) = i - 1
    /\ \A i \in 1..Last("secs") : Value("secs", i) \in {instant[1] : instant \in Instant}
    /\ \A i \in 1..Last("nanos") : Value("nanos", i) \in {instant[2] : instant \in Instant}
    /\ {current, acquirable, released} \subseteq [Thread -> View]
    /\ \A t \in Thread :
        /\ call[t].time \in Instant \cup {NoTime}
        /\ call[t].version \in Nat /\ call[t].secs \in Nat /\ call[t].nanos \in Nat
    /\ calls \in [Thread -> 0..MaxCalls]
    /\ WriterExclusive

\* Every instant held, by both of its fields.
Held == [i \in 1..Last("nanos") |-> <<Value("secs", i), Value("nanos", i)>>]

Promised == INSTANCE MonotonicInstant WITH held <- Held, known <- seen

\* "The instant never moves backwards whatever order concurrent writers arrive
\* in"; a load returns an instant held whole, "never a mix", and on one thread
\* never an earlier one than it has read or advanced to.
KeepsItsPromise == Promised!MonotonicSpec

\* Every call returns: a spinning reader or writer is let through.
CallsReturn == \A t \in Thread : ~At(t, "idle") ~> At(t, "idle")
=============================================================================
