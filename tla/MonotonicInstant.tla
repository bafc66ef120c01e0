--------------------------- MODULE MonotonicInstant ---------------------------
(***************************************************************************)
(* What the shared clock promises: it only moves forwards, and a thread    *)
(* learns whole instants it really held, never one before an instant the   *)
(* thread already knows of.  A thread may lag behind the others.           *)
(***************************************************************************)
EXTENDS Integers, Sequences

CONSTANTS
    Thread,
    Instant,   \* <<seconds, nanoseconds>> pairs
    Start      \* the instant held at first

VARIABLES
    held,   \* every instant held so far, the current one last
    known   \* the latest instant each thread knows was held

promise == <<held, known>>

IsBefore(a, b) == a[1] < b[1] \/ (a[1] = b[1] /\ a[2] < b[2])

Latest == held[Len(held)]

Advance(time) ==
    /\ IsBefore(Latest, time)
    /\ held' = Append(held, time)
    /\ UNCHANGED known

Learn(t) ==
    /\ \E i, j \in 1..Len(held) :
        /\ i <= j
        /\ known[t] = held[i]
        /\ known' = [known EXCEPT ![t] = held[j]]
    /\ UNCHANGED held

PromiseInit ==
    /\ held = <<Start>>
    /\ known = [t \in Thread |-> Start]

PromiseNext ==
    \/ \E time \in Instant : Advance(time)
    \/ \E t \in Thread : Learn(t)

MonotonicSpec == PromiseInit /\ [][PromiseNext]_promise
=============================================================================
