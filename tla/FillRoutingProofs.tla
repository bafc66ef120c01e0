-------------------------- MODULE FillRoutingProofs --------------------------
(***************************************************************************)
(* Proofs about FillRouting, for any orders, quantities and settings, and  *)
(* any number of fills, reports and cancels.                               *)
(***************************************************************************)
EXTENDS FillRouting, FiniteSetTheorems, SequenceTheorems, WellFoundedInduction, TLAPS

-----------------------------------------------------------------------------
(* The inductive invariant, stated of any instrument state `s`, so that the *)
(* states inside a handler can be judged by it.                            *)

Known(s, c) == IdOf(c) \in {s.routing[i].id : i \in DOMAIN s.routing}

\* A report has tied the two ids of the order.
Tied(s, c) == s.cidOf[IdOf(c)] = c \/ Known(s, c) \/ c \in s.settled

Lost(s, c) ==
    \/ IdOf(c) \in s.evicted \/ c \in s.unmapped
    \/ Request[c].position \in s.closed

\* Each table says of an order what the strategy and the venue chose.
TablesOK(s) ==
    /\ \A c \in Cid : s.positionOf[c] \in {None, Request[c].position}
    /\ \A i \in OrderId : s.cidOf[i] # None => i = IdOf(s.cidOf[i])
    /\ \A i \in DOMAIN s.routing, c \in Cid :
            s.routing[i].id = IdOf(c) => s.routing[i].position = Request[c].position

\* A tracked order has its own id or none yet; one whose ids are tied has its id
\* while it is tracked, and is not tracked again; retired routing is of orders
\* that are over.
OrdersOK(s) ==
    /\ \A c \in Cid : s.orders[c] # None =>
        /\ c \notin s.over
        /\ s.orders[c].id \in {None, IdOf(c)}
        /\ s.orders[c].status = "OpenInFlight" => s.orders[c].id = None /\ s.orders[c].filled = 0
        /\ s.orders[c].status = "Open" => s.orders[c].id = IdOf(c)
        /\ Tied(s, c) => s.orders[c].id = IdOf(c)
        /\ ~Known(s, c)
    /\ \A c \in Cid : s.orders[c] = None /\ Tied(s, c) => c \in s.over

\* An order in flight keeps its position; one whose ids are tied can be routed
\* by the live maps or, when it is over, by the retired ones; and nothing leads
\* from an order a split unmapped while it was tracked.
Routed(s) ==
    /\ \A c \in Cid :
        Is(s, c, "OpenInFlight") /\ c \notin s.unmapped => s.positionOf[c] = Request[c].position
    /\ \A c \in s.settled :
        \/ s.cidOf[IdOf(c)] = c /\ s.positionOf[c] = Request[c].position
        \/ Known(s, c)
        \/ Lost(s, c)
    /\ s.resting \subseteq s.unmapped
    /\ \A c \in s.resting : s.positionOf[c] = None /\ ~Known(s, c)

Bounded(s) == s \in InstrumentState /\ Len(s.routing) <= MaxRouting

MapsOK(s) == Bounded(s) /\ TablesOK(s) /\ OrdersOK(s) /\ Routed(s)

Holds(queue, x) == \E i \in DOMAIN queue : queue[i] = x

Distinct(queue) == \A i, j \in DOMAIN queue : queue[i] = queue[j] => i = j

\* Where a fill is in the engine.
Waits(s, f) == Holds(s.pending, f)

Nowhere(s, f) == ~Waits(s, f) /\ f \notin s.drained /\ s.applied[f] = <<>>

InOnePlace(s, f) ==
    \/ Waits(s, f) /\ f \notin s.drained /\ s.applied[f] = <<>>
    \/ ~Waits(s, f) /\ f \in s.drained /\ s.applied[f] = <<>>
    \/ ~Waits(s, f) /\ f \notin s.drained /\ Len(s.applied[f]) = 1

\* Each fill of `outside` is not in the engine, each other one is in one place.
Accounted(s, outside) ==
    /\ Distinct(s.pending)
    /\ \A f \in Fill : IF f \in outside THEN Nowhere(s, f) ELSE InOnePlace(s, f)

\* The fills of an order in flight wait; those of an order whose ids are tied
\* reach its position.
FillsOK(s) ==
    \A f \in Fill :
        /\ Is(s, f.cid, "OpenInFlight") => f \notin s.drained /\ s.applied[f] = <<>>
        /\ f.cid \in s.settled /\ ~Lost(s, f.cid) =>
            /\ ~Waits(s, f) /\ f \notin s.drained
            /\ \A i \in DOMAIN s.applied[f] : s.applied[f][i] = Request[f.cid].position

\* The live maps hold one order that is over.
OneLeft(s, c) ==
    /\ \A d \in Cid : s.orders[d] = None /\ s.positionOf[d] # None => d = c
    /\ \A i \in OrderId : s.cidOf[i] # None /\ s.orders[s.cidOf[i]] = None => s.cidOf[i] = c

VenueOK ==
    /\ venue \in [Cid -> [status : {"unsent", "sent", "refused", "working", "filled", "ended"},
                          filled : Nat]]
    /\ \A c \in Cid :
        /\ venue[c].filled <= Quantity(c)
        /\ venue[c].status \in {"unsent", "sent"} => venue[c].filled = 0
        /\ venue[c].status = "working" => venue[c].filled < Quantity(c)

\* The engine knows nothing of an order it has not sent.
Fresh(s, c) ==
    /\ s.orders[c] = None /\ c \notin s.over /\ ~Tied(s, c)
    /\ s.positionOf[c] = None /\ c \notin s.unmapped

UnsentOK == \A c \in Cid : venue[c].status = "unsent" => Fresh(state, c)

OutsideFills == flying \cup {f \in Fill : ~Executed(f)}

RoutingInv ==
    /\ MapsOK(state) /\ FillsOK(state) /\ Accounted(state, OutsideFills)
    /\ \E c \in Cid \cup {None} : OneLeft(state, c)
    /\ VenueOK /\ UnsentOK
    /\ flying \subseteq Fill /\ \A f \in flying : Executed(f)
    /\ cancels \subseteq Cid /\ setting \in Settings

-----------------------------------------------------------------------------
(* Induction along a sequence, and what the recursive definitions compute. *)

LEMMA Induction ==
    ASSUME NEW S, NEW n \in Nat, 0 \in S, \A i \in 0..(n - 1) : i \in S => i + 1 \in S
    PROVE  \A i \in 0..n : i \in S
<1> DEFINE T == {i \in 0..n : i \notin S}
<1>1. SUFFICES ASSUME T # {} PROVE FALSE
    OBVIOUS
<1>2. T \subseteq Nat
    OBVIOUS
<1>3. PICK x \in T : \A y \in T : <<y, x>> \notin OpToRel(<, Nat)
    <2> HIDE DEF T
    <2> QED
        BY <1>1, <1>2, NatLessThanWellFounded, WFMin
<1>4. x \in 1..n
    OBVIOUS
<1>5. x - 1 \in S
    <2>1. \A y, z \in Nat : y < z => <<y, z>> \in OpToRel(<, Nat)
        BY Zenon DEF OpToRel
    <2>2. x \in Nat /\ x - 1 \in Nat /\ x - 1 < x /\ x - 1 \in 0..n
        BY <1>4
    <2>3. <<x - 1, x>> \in OpToRel(<, Nat)
        BY <2>1, <2>2
    <2> HIDE DEF T
    <2>4. x - 1 \notin T
        BY <2>3, <1>3
    <2> QED
        BY <2>2, <2>4 DEF T
<1> QED
    BY <1>4, <1>5

\* A run of `n` steps from `s`, each that of Demote, AfterTrade or Among.
DemoteRun(run, s, n) ==
    run = [i \in 0..n |-> IF i = 0 THEN s ELSE Demote(run[i - 1], s, setting.hash[i])]

ReplayRun(run, s, fills, n) ==
    run = [i \in 0..n |-> IF i = 0 THEN s ELSE AfterTrade(run[i - 1], fills[i])]

AmongRun(run, queue, fills, n) ==
    run = [i \in 0..n |->
            IF i = 0 THEN <<>>
            ELSE IF queue[i] \in fills THEN Append(run[i - 1], queue[i]) ELSE run[i - 1]]

LEMMA DemoteRunExists ==
    ASSUME NEW s, NEW n \in Nat
    PROVE  \E run : DemoteRun(run, s, n)
<1> DEFINE After(x, i) == Demote(x, s, setting.hash[i])
           S == {k \in 0..n : \E run : DemoteRun(run, s, k)}
<1>1. 0 \in S
    <2> DEFINE f == [i \in 0..0 |-> s]
    <2>1. DemoteRun(f, s, 0)
        BY DEF DemoteRun
    <2> QED
        BY <2>1
<1>2. ASSUME NEW k \in 0..(n - 1), k \in S
      PROVE  k + 1 \in S
    <2>1. PICK f : DemoteRun(f, s, k)
        BY <1>2
    <2> DEFINE g == [i \in 0..(k + 1) |-> IF i <= k THEN f[i] ELSE After(f[k], k + 1)]
    <2>2. ASSUME NEW i \in 0..(k + 1)
          PROVE  g[i] = IF i = 0 THEN s ELSE After(g[i - 1], i)
        <3>1. CASE i = k + 1
            BY <3>1
        <3>2. CASE i # k + 1
            <4>1. i \in 0..k /\ g[i] = f[i] /\ (i # 0 => g[i - 1] = f[i - 1])
                BY <3>2
            <4> QED
                BY <4>1, <2>1 DEF DemoteRun
        <3> QED
            BY <3>1, <3>2
    <2>3. DemoteRun(g, s, k + 1)
        <3> HIDE DEF g
        <3>1. g = [i \in 0..(k + 1) |-> g[i]]
            BY DEF g
        <3> QED
            BY <3>1, <2>2 DEF DemoteRun
    <2> QED
        BY <2>3
<1>3. \A i \in 0..n : i \in S
    <2> HIDE DEF S
    <2> QED
        BY <1>1, <1>2, Induction
<1> QED
    BY <1>3

LEMMA ReplayRunExists ==
    ASSUME NEW s, NEW fills, NEW n \in Nat
    PROVE  \E run : ReplayRun(run, s, fills, n)
<1> DEFINE After(x, i) == AfterTrade(x, fills[i])
           S == {k \in 0..n : \E run : ReplayRun(run, s, fills, k)}
<1>1. 0 \in S
    <2> DEFINE f == [i \in 0..0 |-> s]
    <2>1. ReplayRun(f, s, fills, 0)
        BY DEF ReplayRun
    <2> QED
        BY <2>1
<1>2. ASSUME NEW k \in 0..(n - 1), k \in S
      PROVE  k + 1 \in S
    <2>1. PICK f : ReplayRun(f, s, fills, k)
        BY <1>2
    <2> DEFINE g == [i \in 0..(k + 1) |-> IF i <= k THEN f[i] ELSE After(f[k], k + 1)]
    <2>2. ASSUME NEW i \in 0..(k + 1)
          PROVE  g[i] = IF i = 0 THEN s ELSE After(g[i - 1], i)
        <3>1. CASE i = k + 1
            BY <3>1
        <3>2. CASE i # k + 1
            <4>1. i \in 0..k /\ g[i] = f[i] /\ (i # 0 => g[i - 1] = f[i - 1])
                BY <3>2
            <4> QED
                BY <4>1, <2>1 DEF ReplayRun
        <3> QED
            BY <3>1, <3>2
    <2>3. ReplayRun(g, s, fills, k + 1)
        <3> HIDE DEF g
        <3>1. g = [i \in 0..(k + 1) |-> g[i]]
            BY DEF g
        <3> QED
            BY <3>1, <2>2 DEF ReplayRun
    <2> QED
        BY <2>3
<1>3. \A i \in 0..n : i \in S
    <2> HIDE DEF S
    <2> QED
        BY <1>1, <1>2, Induction
<1> QED
    BY <1>3

LEMMA AmongRunExists ==
    ASSUME NEW queue, NEW fills, NEW n \in Nat
    PROVE  \E run : AmongRun(run, queue, fills, n)
<1> DEFINE After(x, i) == IF queue[i] \in fills THEN Append(x, queue[i]) ELSE x
           S == {k \in 0..n : \E run : AmongRun(run, queue, fills, k)}
<1>1. 0 \in S
    <2> DEFINE f == [i \in 0..0 |-> <<>>]
    <2>1. AmongRun(f, queue, fills, 0)
        BY DEF AmongRun
    <2> QED
        BY <2>1
<1>2. ASSUME NEW k \in 0..(n - 1), k \in S
      PROVE  k + 1 \in S
    <2>1. PICK f : AmongRun(f, queue, fills, k)
        BY <1>2
    <2> DEFINE g == [i \in 0..(k + 1) |-> IF i <= k THEN f[i] ELSE After(f[k], k + 1)]
    <2>2. ASSUME NEW i \in 0..(k + 1)
          PROVE  g[i] = IF i = 0 THEN <<>> ELSE After(g[i - 1], i)
        <3>1. CASE i = k + 1
            BY <3>1
        <3>2. CASE i # k + 1
            <4>1. i \in 0..k /\ g[i] = f[i] /\ (i # 0 => g[i - 1] = f[i - 1])
                BY <3>2
            <4> QED
                BY <4>1, <2>1 DEF AmongRun
        <3> QED
            BY <3>1, <3>2
    <2>3. AmongRun(g, queue, fills, k + 1)
        <3> HIDE DEF g
        <3>1. g = [i \in 0..(k + 1) |-> g[i]]
            BY DEF g
        <3> QED
            BY <3>1, <2>2 DEF AmongRun
    <2> QED
        BY <2>3
<1>3. \A i \in 0..n : i \in S
    <2> HIDE DEF S
    <2> QED
        BY <1>1, <1>2, Induction
<1> QED
    BY <1>3

LEMMA DemoteRuns ==
    ASSUME NEW s, setting.hash \in Seq(Cid)
    PROVE  \E run : DemoteRun(run, s, Len(setting.hash)) /\ Cleanup(s) = Prune(run[Len(setting.hash)])
<1> DEFINE n == Len(setting.hash)
           After(x, i) == Demote(x, s, setting.hash[i])
           done[i \in 0..n] == IF i = 0 THEN s ELSE After(done[i - 1], i)
<1>1. n \in Nat
    OBVIOUS
<1>2. DemoteRun(done, s, n)
    <2>1. \E f : f = [i \in 0..n |-> IF i = 0 THEN s ELSE After(f[i - 1], i)]
        <3>1. \E f : DemoteRun(f, s, n)
            BY <1>1, DemoteRunExists, Zenon
        <3> QED
            BY <3>1 DEF DemoteRun
    <2> QED
        BY <2>1 DEF DemoteRun
<1>3. Cleanup(s) = Prune(done[n])
    BY DEF Cleanup
<1> QED
    BY <1>2, <1>3

LEMMA ReplayRuns ==
    ASSUME NEW s, NEW fills, fills \in Seq(Fill)
    PROVE  \E run : ReplayRun(run, s, fills, Len(fills)) /\ Replay(s, fills) = run[Len(fills)]
<1> DEFINE n == Len(fills)
           After(x, i) == AfterTrade(x, fills[i])
           done[i \in 0..n] == IF i = 0 THEN s ELSE After(done[i - 1], i)
<1>1. n \in Nat
    OBVIOUS
<1>2. ReplayRun(done, s, fills, n)
    <2>1. \E f : f = [i \in 0..n |-> IF i = 0 THEN s ELSE After(f[i - 1], i)]
        <3>1. \E f : ReplayRun(f, s, fills, n)
            BY <1>1, ReplayRunExists, Zenon
        <3> QED
            BY <3>1 DEF ReplayRun
    <2> QED
        BY <2>1 DEF ReplayRun
<1>3. Replay(s, fills) = done[n]
    BY DEF Replay
<1> QED
    BY <1>2, <1>3

LEMMA AmongRuns ==
    ASSUME NEW queue, NEW fills, queue \in Seq(Fill)
    PROVE  \E run : AmongRun(run, queue, fills, Len(queue)) /\ Among(queue, fills) = run[Len(queue)]
<1> DEFINE n == Len(queue)
           After(x, i) == IF queue[i] \in fills THEN Append(x, queue[i]) ELSE x
           done[i \in 0..n] == IF i = 0 THEN <<>> ELSE After(done[i - 1], i)
<1>1. n \in Nat
    OBVIOUS
<1>2. AmongRun(done, queue, fills, n)
    <2>1. \E f : f = [i \in 0..n |-> IF i = 0 THEN <<>> ELSE After(f[i - 1], i)]
        <3>1. \E f : AmongRun(f, queue, fills, n)
            BY <1>1, AmongRunExists, Zenon
        <3> QED
            BY <3>1 DEF AmongRun
    <2> QED
        BY <2>1 DEF AmongRun
<1>3. Among(queue, fills) = done[n]
    BY DEF Among
<1> QED
    BY <1>2, <1>3

-----------------------------------------------------------------------------
(* Queues.                                                                 *)

LEMMA FillFacts ==
    \A f \in Fill : /\ f.cid \in Cid /\ IdOf(f.cid) \in OrderId
                    /\ f.upTo \in Nat /\ f.upTo >= 1 /\ f.upTo <= Quantity(f.cid)
                    /\ Quantity(f.cid) \in Nat /\ f = [cid |-> f.cid, upTo |-> f.upTo]
<1> TAKE f \in Fill
<1>1. PICK c \in Cid : f \in [cid : {c}, upTo : 1..Quantity(c)]
    BY DEF Fill
<1> QED
    BY <1>1, RequestAssumption

LEMMA AppendHolds ==
    ASSUME NEW queue, NEW S, queue \in Seq(S), NEW x \in S
    PROVE  /\ Append(queue, x) \in Seq(S)
           /\ \A y : Holds(Append(queue, x), y) <=> Holds(queue, y) \/ y = x
           /\ Distinct(queue) /\ ~Holds(queue, x) => Distinct(Append(queue, x))
<1> DEFINE n == Len(queue)
           longer == Append(queue, x)
<1>1. /\ longer \in Seq(S) /\ DOMAIN longer = 1..(n + 1) /\ DOMAIN queue = 1..n /\ n \in Nat
      /\ longer[n + 1] = x /\ \A i \in 1..n : longer[i] = queue[i]
    OBVIOUS
<1> HIDE DEF longer, n
<1>2. ASSUME NEW y
      PROVE  Holds(longer, y) <=> Holds(queue, y) \/ y = x
    <2>1. \A i \in 1..(n + 1) : i \in 1..n \/ i = n + 1
        BY <1>1
    <2>2. 1..n \subseteq 1..(n + 1) /\ n + 1 \in 1..(n + 1)
        BY <1>1
    <2> QED
        BY <1>1, <2>1, <2>2 DEF Holds
<1>3. ASSUME Distinct(queue), ~Holds(queue, x), NEW i \in 1..(n + 1), NEW j \in 1..(n + 1),
             longer[i] = longer[j]
      PROVE  i = j
    <2>1. CASE i \in 1..n /\ j \in 1..n
        BY <1>1, <1>3, <2>1 DEF Distinct
    <2>2. CASE i \notin 1..n \/ j \notin 1..n
        BY <1>1, <1>3, <2>2 DEF Holds
    <2> QED
        BY <2>1, <2>2
<1>4. Distinct(queue) /\ ~Holds(queue, x) => Distinct(longer)
    BY <1>1, <1>3 DEF Distinct
<1> QED
    BY <1>1, <1>2, <1>4 DEF longer

LEMMA AmongKeeps ==
    ASSUME NEW queue, NEW fills, queue \in Seq(Fill), Distinct(queue)
    PROVE  LET kept == Among(queue, fills) IN
           /\ kept \in Seq(Fill) /\ Distinct(kept)
           /\ \A f : Holds(kept, f) <=> f \in fills /\ Holds(queue, f)
<1> DEFINE n == Len(queue)
<1>1. PICK run : AmongRun(run, queue, fills, n) /\ Among(queue, fills) = run[n]
    BY AmongRuns
<1>2. n \in Nat /\ DOMAIN queue = 1..n
    OBVIOUS
<1> DEFINE Right(i) == /\ run[i] \in Seq(Fill) /\ Distinct(run[i])
                       /\ \A f : Holds(run[i], f) <=> f \in fills /\ \E j \in 1..i : queue[j] = f
           S == {i \in 0..n : Right(i)}
<1> HIDE DEF n
<1>3. 0 \in S
    <2>1. run[0] = <<>>
        BY <1>1, <1>2 DEF AmongRun
    <2>2. DOMAIN run[0] = {} /\ run[0] \in Seq(Fill)
        BY <2>1
    <2>3. Distinct(run[0]) /\ \A f : ~Holds(run[0], f)
        BY <2>2 DEF Holds, Distinct
    <2>4. ~\E j \in 1..0 : TRUE
        OBVIOUS
    <2> QED
        BY <1>2, <2>2, <2>3, <2>4
<1>4. ASSUME NEW i \in 0..(n - 1), i \in S
      PROVE  i + 1 \in S
    <2>1. /\ i + 1 \in 0..n /\ i + 1 \in 1..n /\ i + 1 # 0 /\ (i + 1) - 1 = i /\ i \in Nat
          /\ 1..(i + 1) = 1..i \cup {i + 1}
        BY <1>2
    <2>2. run[i + 1] = IF queue[i + 1] \in fills THEN Append(run[i], queue[i + 1]) ELSE run[i]
        BY <1>1, <2>1 DEF AmongRun
    <2>3. Right(i)
        BY <1>4
    <2>4. queue[i + 1] \in Fill
        BY <1>2, <2>1
    <2>5. ~\E j \in 1..i : queue[j] = queue[i + 1]
        BY <1>2, <2>1 DEF Distinct
    <2>6. CASE queue[i + 1] \in fills
        <3>1. ~Holds(run[i], queue[i + 1])
            BY <2>3, <2>5
        <3>2. /\ run[i + 1] \in Seq(Fill) /\ Distinct(run[i + 1])
              /\ \A f : Holds(run[i + 1], f) <=> Holds(run[i], f) \/ f = queue[i + 1]
            BY <2>2, <2>3, <2>4, <2>6, <3>1, AppendHolds
        <3>3. \A f : Holds(run[i + 1], f) <=> f \in fills /\ \E j \in 1..(i + 1) : queue[j] = f
            BY <2>1, <2>3, <2>6, <3>2
        <3> QED
            BY <2>1, <3>2, <3>3
    <2>7. CASE queue[i + 1] \notin fills
        <3>1. run[i + 1] = run[i]
            BY <2>2, <2>7
        <3>2. \A f : Holds(run[i + 1], f) <=> f \in fills /\ \E j \in 1..(i + 1) : queue[j] = f
            BY <2>1, <2>3, <2>7, <3>1
        <3> QED
            BY <2>1, <2>3, <3>1, <3>2
    <2> QED
        BY <2>6, <2>7
<1>5. n \in S
    <2> HIDE DEF S
    <2>1. \A i \in 0..n : i \in S
        BY <1>2, <1>3, <1>4, Induction
    <2> QED
        BY <1>2, <2>1
<1>6. Right(n)
    BY <1>5
<1> QED
    BY <1>1, <1>2, <1>6 DEF Holds

-----------------------------------------------------------------------------
(* The routing tables.                                                     *)

\* What remembering changes: the retired routing, and what it drops.
RoutingChanges(s, t) ==
    /\ t.orders = s.orders /\ t.over = s.over /\ t.positionOf = s.positionOf /\ t.cidOf = s.cidOf
    /\ t.pending = s.pending /\ t.held = s.held /\ t.applied = s.applied /\ t.drained = s.drained
    /\ t.settled = s.settled /\ t.closed = s.closed /\ t.unmapped = s.unmapped
    /\ t.resting = s.resting /\ s.evicted \subseteq t.evicted

Entry == [id : OrderId, position : Position]

LEMMA StateTypes ==
    ASSUME NEW s, s \in InstrumentState
    PROVE  /\ s.orders \in [Cid -> Order \cup {None}] /\ s.over \subseteq Cid
           /\ s.positionOf \in [Cid -> Position \cup {None}]
           /\ s.cidOf \in [OrderId -> Cid \cup {None}]
           /\ s.routing \in Seq(Entry) /\ s.pending \in Seq(Fill) /\ s.held \in [Slot -> Int]
           /\ s.applied \in [Fill -> Seq(Slot)] /\ s.drained \subseteq Fill
           /\ s.settled \subseteq Cid /\ s.evicted \subseteq OrderId /\ s.closed \subseteq Slot
           /\ s.unmapped \subseteq Cid /\ s.resting \subseteq Cid
           /\ DOMAIN s = {"orders", "over", "positionOf", "cidOf", "routing", "pending", "held",
                          "applied", "drained", "settled", "evicted", "closed", "unmapped",
                          "resting"}
    BY DEF InstrumentState, Entry

LEMMA RoutingUpdate ==
    ASSUME NEW s, s \in InstrumentState, NEW r \in Seq(Entry)
    PROVE  LET t == [s EXCEPT !.routing = r] IN
           t \in InstrumentState /\ RoutingChanges(s, t) /\ t.routing = r /\ t.evicted = s.evicted
    BY DEF RoutingChanges, InstrumentState, Entry

LEMMA RememberKeeps ==
    ASSUME NEW s, Bounded(s), NEW entry \in Entry
    PROVE  LET t == Remember(s, entry) IN
           /\ Bounded(t) /\ RoutingChanges(s, t)
           /\ \A i \in DOMAIN t.routing : t.routing[i] = entry \/ Holds(s.routing, t.routing[i])
           /\ \E i \in DOMAIN t.routing : t.routing[i].id = entry.id
           /\ \A i \in DOMAIN s.routing :
                \/ s.routing[i].id \in t.evicted
                \/ \E j \in DOMAIN t.routing : t.routing[j].id = s.routing[i].id
<1> DEFINE q == s.routing
           n == Len(q)
           at == {i \in DOMAIN q : q[i].id = entry.id}
           t == Remember(s, entry)
<1>1. /\ q \in Seq(Entry) /\ n \in Nat /\ n <= MaxRouting /\ DOMAIN q = 1..n
      /\ MaxRouting \in Nat /\ MaxRouting >= 1 /\ entry.id \in OrderId
      /\ \A i \in 1..n : q[i] \in Entry /\ q[i].id \in OrderId
    <2>1. q \in Seq(Entry) /\ n <= MaxRouting
        BY StateTypes DEF Bounded
    <2>2. \A e \in Entry : e.id \in OrderId
        BY DEF Entry
    <2> QED
        BY <2>1, <2>2, RequestAssumption
<1>2. CASE at # {}
    <2> DEFINE r == [i \in 1..n |-> IF i \in at THEN entry ELSE q[i]]
    <2>1. t = [s EXCEPT !.routing = r]
        BY <1>1, <1>2, StateTypes DEF Remember, Bounded
    <2>2. r \in Seq(Entry) /\ Len(r) = n /\ DOMAIN r = 1..n
        BY <1>1
    <2>3. Bounded(t) /\ RoutingChanges(s, t) /\ t.routing = r
        <3>1. s \in InstrumentState
            BY DEF Bounded
        <3> HIDE DEF r, q, n, t, at
        <3>2. t \in InstrumentState /\ RoutingChanges(s, t) /\ t.routing = r
            BY <2>1, <2>2, <3>1, RoutingUpdate
        <3> QED
            BY <1>1, <2>2, <3>2 DEF Bounded
    <2>4. \A i \in 1..n : (r[i] = entry \/ r[i] = q[i]) /\ r[i].id = q[i].id
        OBVIOUS
    <2>5. \E i \in 1..n : r[i].id = entry.id
        BY <1>1, <1>2
    <2> HIDE DEF r, t
    <2> QED
        BY <1>1, <2>2, <2>3, <2>4, <2>5 DEF t, Holds
<1>3. CASE at = {} /\ n < MaxRouting
    <2> DEFINE r == Append(q, entry)
    <2>1. t = [s EXCEPT !.routing = r]
        BY <1>1, <1>3 DEF Remember
    <2>2. /\ r \in Seq(Entry) /\ Len(r) = n + 1 /\ DOMAIN r = 1..(n + 1)
          /\ r[n + 1] = entry /\ \A i \in 1..n : r[i] = q[i]
        BY <1>1
    <2> HIDE DEF r
    <2>3. Bounded(t) /\ RoutingChanges(s, t) /\ t.routing = r
        <3>1. s \in InstrumentState
            BY DEF Bounded
        <3> HIDE DEF q, n, t, at
        <3>2. t \in InstrumentState /\ RoutingChanges(s, t) /\ t.routing = r
            BY <2>1, <2>2, <3>1, RoutingUpdate
        <3> QED
            BY <1>1, <1>3, <2>2, <3>2 DEF Bounded
    <2> HIDE DEF t
    <2>4. /\ \A i \in 1..(n + 1) : i \in 1..n \/ i = n + 1
          /\ 1..n \subseteq 1..(n + 1) /\ n + 1 \in 1..(n + 1)
        BY <1>1
    <2> QED
        BY <1>1, <2>2, <2>3, <2>4 DEF t, Holds
<1>4. CASE at = {} /\ ~(n < MaxRouting)
    <2> DEFINE r == Append(Tail(q), entry)
    <2>1. t = [s EXCEPT !.routing = r, !.evicted = @ \cup {Head(q).id}]
        BY <1>1, <1>4 DEF Remember
    <2>8. Head(q).id \in OrderId
        BY <1>1, <1>4
    <2>2. /\ r \in Seq(Entry) /\ Len(r) = n /\ DOMAIN r = 1..n /\ n >= 1
          /\ r[n] = entry /\ \A i \in 1..(n - 1) : r[i] = q[i + 1]
          /\ Head(q) = q[1]
        BY <1>1, <1>4
    <2> HIDE DEF r
    <2>3. Bounded(t) /\ RoutingChanges(s, t) /\ t.routing = r /\ t.evicted = s.evicted \cup {q[1].id}
        <3> DEFINE id == Head(q).id
        <3>1. s \in InstrumentState /\ id \in OrderId /\ id = q[1].id
            BY <2>2, <2>8 DEF Bounded
        <3>2. t = [s EXCEPT !.routing = r, !.evicted = @ \cup {id}]
            BY <2>1
        <3> HIDE DEF q, n, t, at, id
        <3>3. /\ t \in InstrumentState /\ RoutingChanges(s, t) /\ t.routing = r
              /\ t.evicted = s.evicted \cup {id}
            BY <2>2, <3>1, <3>2 DEF InstrumentState, RoutingChanges, Entry
        <3> QED
            BY <1>1, <1>4, <2>2, <3>1, <3>3 DEF Bounded
    <2> HIDE DEF t
    <2>4. \A i \in 1..n : i = n \/ (i \in 1..(n - 1) /\ i + 1 \in 1..n)
        BY <1>1, <2>2
    <2>5. \A i \in 1..n : i = 1 \/ (i - 1 \in 1..(n - 1) /\ i - 1 \in 1..n /\ (i - 1) + 1 = i)
        BY <1>1, <2>2
    <2>6. \A i \in 1..n : r[i] = entry \/ Holds(q, r[i])
        BY <1>1, <2>2, <2>4 DEF Holds
    <2>7. n \in 1..n
        BY <1>1, <2>2
    <2> QED
        <3>1. \E i \in 1..n : r[i].id = entry.id
            BY <2>2, <2>7
        <3>2. ASSUME NEW i \in 1..n
              PROVE  q[i].id \in t.evicted \/ \E j \in 1..n : r[j].id = q[i].id
            BY <2>2, <2>3, <2>5
        <3>3. \A i \in DOMAIN t.routing : t.routing[i] = entry \/ Holds(q, t.routing[i])
            BY <2>2, <2>3, <2>6
        <3>4. \E i \in DOMAIN t.routing : t.routing[i].id = entry.id
            BY <2>2, <2>3, <3>1
        <3>5. \A i \in DOMAIN q :
                  q[i].id \in t.evicted \/ \E j \in DOMAIN t.routing : t.routing[j].id = q[i].id
            BY <1>1, <2>2, <2>3, <3>2
        <3> QED
            BY <2>3, <3>3, <3>4, <3>5, Zenon DEF t
<1> QED
    BY <1>2, <1>3, <1>4

\* Remembering the routing of an order.
LEMMA RemembersOrder ==
    ASSUME NEW s, Bounded(s), TablesOK(s), NEW c \in Cid
    PROVE  LET t == Remember(s, [id |-> IdOf(c), position |-> Request[c].position]) IN
           /\ Bounded(t) /\ RoutingChanges(s, t) /\ TablesOK(t) /\ Known(t, c)
           /\ \A d \in Cid : Known(t, d) => Known(s, d) \/ d = c
           /\ \A d \in Cid : Known(s, d) => Known(t, d) \/ IdOf(d) \in t.evicted
<1> DEFINE entry == [id |-> IdOf(c), position |-> Request[c].position]
           t == Remember(s, entry)
<1>1. entry \in Entry /\ entry.id = IdOf(c) /\ entry.position = Request[c].position
    BY RequestAssumption DEF Entry
<1> HIDE DEF entry
<1>2. /\ Bounded(t) /\ RoutingChanges(s, t)
      /\ \A i \in DOMAIN t.routing : t.routing[i] = entry \/ Holds(s.routing, t.routing[i])
      /\ \E i \in DOMAIN t.routing : t.routing[i].id = entry.id
      /\ \A i \in DOMAIN s.routing :
            \/ s.routing[i].id \in t.evicted
            \/ \E j \in DOMAIN t.routing : t.routing[j].id = s.routing[i].id
    BY <1>1, RememberKeeps
<1> HIDE DEF t
<1>3. ASSUME NEW i \in DOMAIN t.routing, NEW d \in Cid, t.routing[i].id = IdOf(d)
      PROVE  t.routing[i].position = Request[d].position /\ (Known(s, d) \/ d = c)
    <2>1. CASE t.routing[i] = entry
        BY <1>1, <1>3, <2>1, RequestAssumption
    <2>2. CASE Holds(s.routing, t.routing[i])
        BY <1>3, <2>2 DEF Holds, TablesOK, Known
    <2> QED
        BY <1>2, <2>1, <2>2
<1>4. TablesOK(t)
    BY <1>2, <1>3 DEF TablesOK, RoutingChanges
<1>5. Known(t, c) /\ \A d \in Cid : Known(t, d) => Known(s, d) \/ d = c
    BY <1>1, <1>2, <1>3 DEF Known
<1>6. \A d \in Cid : Known(s, d) => Known(t, d) \/ IdOf(d) \in t.evicted
    BY <1>2 DEF Known
<1> QED
    BY <1>2, <1>4, <1>5, <1>6 DEF t, entry

\* What demoting those of `gone` makes of the tables.
Demoted(s, t, gone) ==
    /\ Bounded(t) /\ RoutingChanges(s, t) /\ TablesOK(t)
    /\ \A d \in Cid : Known(t, d) => Known(s, d) \/ Demotes(s, d)
    /\ \A d \in Cid :
        Known(s, d) \/ (d \in gone /\ Demotes(s, d)) => Known(t, d) \/ IdOf(d) \in t.evicted

LEMMA DemoteOne ==
    ASSUME NEW s, Bounded(s), TablesOK(s), NEW t, NEW gone, Demoted(s, t, gone), NEW c \in Cid
    PROVE  Demoted(s, Demote(t, s, c), gone \cup {c})
<1>1. CASE ~Demotes(s, c)
    BY <1>1 DEF Demoted, Demote
<1>2. CASE Demotes(s, c)
    <2> DEFINE u == Remember(t, [id |-> IdOf(c), position |-> Request[c].position])
    <2>1. s.positionOf[c] = Request[c].position
        BY <1>2 DEF TablesOK, Demotes
    <2>2. Demote(t, s, c) = u
        BY <1>2, <2>1 DEF Demote
    <2>3. /\ Bounded(u) /\ RoutingChanges(t, u) /\ TablesOK(u) /\ Known(u, c)
          /\ \A d \in Cid : Known(u, d) => Known(t, d) \/ d = c
          /\ \A d \in Cid : Known(t, d) => Known(u, d) \/ IdOf(d) \in u.evicted
        BY RemembersOrder DEF Demoted
    <2> HIDE DEF u
    <2>4. RoutingChanges(s, u) /\ t.evicted \subseteq u.evicted
        BY <2>3 DEF Demoted, RoutingChanges
    <2> QED
        BY <1>2, <2>2, <2>3, <2>4 DEF Demoted
<1> QED
    BY <1>1, <1>2

\* What the cleanup makes of a state: the live maps keep the tracked orders alone,
\* and what tied those of the others to their positions is remembered or evicted.
Cleaned(s, t) ==
    /\ Bounded(t) /\ TablesOK(t)
    /\ t.orders = s.orders /\ t.over = s.over
    /\ t.pending = s.pending /\ t.held = s.held /\ t.applied = s.applied /\ t.drained = s.drained
    /\ t.settled = s.settled /\ t.closed = s.closed /\ t.unmapped = s.unmapped
    /\ t.resting = s.resting /\ s.evicted \subseteq t.evicted
    /\ \A c \in Cid : t.positionOf[c] = IF s.orders[c] = None THEN None ELSE s.positionOf[c]
    /\ \A i \in OrderId :
        t.cidOf[i] = IF s.cidOf[i] # None /\ s.orders[s.cidOf[i]] = None THEN None ELSE s.cidOf[i]
    /\ \A d \in Cid : Known(t, d) => Known(s, d) \/ Demotes(s, d)
    /\ \A d \in Cid : Known(s, d) \/ Demotes(s, d) => Known(t, d) \/ IdOf(d) \in t.evicted

LEMMA CleanupCleans ==
    ASSUME NEW s, Bounded(s), TablesOK(s), setting \in Settings
    PROVE  Cleaned(s, Cleanup(s))
<1> DEFINE h == setting.hash
           n == Len(h)
<1>1. h \in Seq(Cid) /\ n \in Nat /\ DOMAIN h = 1..n /\ \A c \in Cid : \E i \in 1..n : h[i] = c
    <2>1. h \in Seq(Cid) /\ \A c \in Cid : \E i \in DOMAIN h : h[i] = c
        BY SettingAssumption DEF Setting
    <2> QED
        BY <2>1
<1>2. PICK run : DemoteRun(run, s, n) /\ Cleanup(s) = Prune(run[n])
    BY <1>1, DemoteRuns
<1> DEFINE Gone(i) == {h[j] : j \in 1..i}
           S == {i \in 0..n : Demoted(s, run[i], Gone(i))}
<1>3. 0 \in S
    <2>1. run[0] = s
        BY <1>1, <1>2 DEF DemoteRun
    <2>2. Gone(0) = {}
        OBVIOUS
    <2> HIDE DEF Gone, n
    <2>3. Demoted(s, s, {})
        BY DEF Demoted, RoutingChanges
    <2>4. Demoted(s, run[0], Gone(0))
        BY <2>1, <2>2, <2>3, Zenon
    <2>5. 0 \in 0..n
        BY <1>1
    <2> QED
        BY <2>4, <2>5
<1>4. ASSUME NEW i \in 0..(n - 1), i \in S
      PROVE  i + 1 \in S
    <2>1. /\ i + 1 \in 0..n /\ i + 1 \in 1..n /\ i + 1 # 0 /\ (i + 1) - 1 = i
          /\ 1..(i + 1) = 1..i \cup {i + 1}
        BY <1>1
    <2>2. run[i + 1] = Demote(run[i], s, h[i + 1])
        BY <1>2, <2>1 DEF DemoteRun
    <2>3. Gone(i + 1) = Gone(i) \cup {h[i + 1]}
        BY <2>1
    <2>4. h[i + 1] \in Cid /\ Demoted(s, run[i], Gone(i))
        BY <1>1, <1>4, <2>1
    <2> HIDE DEF Gone, h, n
    <2>5. Demoted(s, run[i + 1], Gone(i + 1))
        BY <2>2, <2>3, <2>4, DemoteOne
    <2> QED
        BY <2>1, <2>5
<1>5. Demoted(s, run[n], Cid)
    <2>1. Gone(n) = Cid
        <3> HIDE DEF h, n
        <3> QED
            BY <1>1
    <2> HIDE DEF S, Gone, h, n
    <2>2. \A i \in 0..n : i \in S
        BY <1>1, <1>3, <1>4, Induction
    <2> QED
        BY <1>1, <2>1, <2>2 DEF S
<1> DEFINE r == run[n]
           t == Prune(r)
<1> HIDE DEF r, h, n, S, Gone
<1>6. /\ r \in InstrumentState /\ Len(r.routing) <= MaxRouting /\ RoutingChanges(s, r) /\ TablesOK(r)
    BY <1>5 DEF Demoted, Bounded, r
<1>7. /\ t \in InstrumentState /\ t.routing = r.routing /\ t.orders = r.orders /\ t.over = r.over
      /\ t.pending = r.pending /\ t.held = r.held /\ t.applied = r.applied /\ t.drained = r.drained
      /\ t.settled = r.settled /\ t.closed = r.closed /\ t.unmapped = r.unmapped
      /\ t.resting = r.resting /\ t.evicted = r.evicted
      /\ t.positionOf = [c \in Cid |-> IF r.orders[c] = None THEN None ELSE r.positionOf[c]]
      /\ t.cidOf = [i \in OrderId |->
            IF r.cidOf[i] # None /\ r.orders[r.cidOf[i]] = None THEN None ELSE r.cidOf[i]]
    BY <1>6 DEF Prune, InstrumentState
<1> HIDE DEF t
<1>8. TablesOK(t)
    BY <1>6, <1>7 DEF TablesOK
<1>9. \A d \in Cid : Known(t, d) <=> Known(r, d)
    BY <1>7 DEF Known
<1>10. /\ \A c \in Cid : t.positionOf[c] = IF s.orders[c] = None THEN None ELSE s.positionOf[c]
       /\ \A i \in OrderId :
            t.cidOf[i] = IF s.cidOf[i] # None /\ s.orders[s.cidOf[i]] = None THEN None ELSE s.cidOf[i]
    BY <1>6, <1>7 DEF RoutingChanges
<1>11. Cleaned(s, t)
    BY <1>5, <1>6, <1>7, <1>8, <1>9, <1>10 DEF Cleaned, Bounded, RoutingChanges, Demoted, r
<1> QED
    BY <1>2, <1>11 DEF t, r

LEMMA CleanupKeepsMaps ==
    ASSUME NEW s, MapsOK(s), setting \in Settings
    PROVE  /\ Cleaned(s, Cleanup(s)) /\ MapsOK(Cleanup(s)) /\ OneLeft(Cleanup(s), None)
           /\ \A c \in Cid : Tied(Cleanup(s), c) => Tied(s, c)
           /\ \A c \in Cid : Lost(s, c) => Lost(Cleanup(s), c)
<1> DEFINE t == Cleanup(s)
<1>1. Cleaned(s, t) /\ Bounded(s) /\ TablesOK(s) /\ OrdersOK(s) /\ Routed(s)
    BY CleanupCleans DEF MapsOK
<1> HIDE DEF t
<1>2. /\ s \in InstrumentState /\ None \notin Cid
      /\ \A c \in Cid : IdOf(c) \in OrderId /\ Request[c].position \in Position
    BY RequestAssumption, SettingAssumption DEF MapsOK, Bounded
<1>3. /\ s.orders \in [Cid -> Order \cup {None}] /\ s.settled \subseteq Cid /\ s.resting \subseteq Cid
      /\ s.cidOf \in [OrderId -> Cid \cup {None}] /\ None \notin Position
    BY <1>2, StateTypes, SettingAssumption DEF Slot
<1>4. ASSUME NEW c \in Cid, Tied(t, c)
      PROVE  Tied(s, c)
    <2>1. CASE t.cidOf[IdOf(c)] = c
        BY <1>1, <1>2, <2>1 DEF Tied, Cleaned
    <2>2. CASE Known(t, c)
        BY <1>1, <2>2 DEF Tied, Cleaned, Demotes
    <2>3. CASE c \in t.settled
        BY <1>1, <2>3 DEF Tied, Cleaned
    <2> QED
        BY <1>4, <2>1, <2>2, <2>3 DEF Tied
<1>5. \A c \in Cid : Lost(s, c) => Lost(t, c)
    BY <1>1 DEF Lost, Cleaned
<1>6. \A c \in Cid : s.orders[c] # None => ~Known(s, c) /\ ~Demotes(s, c)
    BY <1>1 DEF OrdersOK, Demotes
<1>7. OrdersOK(t)
    BY <1>1, <1>4, <1>6 DEF OrdersOK, Cleaned
<1>8. Routed(t)
    <2>1. ASSUME NEW c \in Cid, Is(t, c, "OpenInFlight"), c \notin t.unmapped
          PROVE  t.positionOf[c] = Request[c].position
        BY <1>1, <2>1 DEF Routed, Cleaned, Is
    <2>2. ASSUME NEW c \in t.settled
          PROVE  \/ t.cidOf[IdOf(c)] = c /\ t.positionOf[c] = Request[c].position
                 \/ Known(t, c) \/ Lost(t, c)
        <3>1. c \in Cid /\ c \in s.settled
            BY <1>1, <1>3, <2>2 DEF Cleaned
        <3>2. CASE s.cidOf[IdOf(c)] = c /\ s.positionOf[c] = Request[c].position /\ s.orders[c] # None
            BY <1>1, <1>2, <3>1, <3>2 DEF Cleaned
        <3>3. CASE s.cidOf[IdOf(c)] = c /\ s.positionOf[c] = Request[c].position /\ s.orders[c] = None
            <4>1. Demotes(s, c)
                BY <1>2, <1>3, <3>1, <3>3 DEF Demotes
            <4> QED
                BY <1>1, <3>1, <4>1 DEF Cleaned, Lost
        <3>4. CASE Known(s, c)
            BY <1>1, <3>1, <3>4 DEF Cleaned, Lost
        <3>5. CASE Lost(s, c)
            BY <1>5, <3>1, <3>5
        <3> QED
            BY <1>1, <3>1, <3>2, <3>3, <3>4, <3>5 DEF Routed
    <2>3. ASSUME NEW c \in t.resting
          PROVE  t.positionOf[c] = None /\ ~Known(t, c)
        <3>1. c \in Cid /\ s.positionOf[c] = None /\ ~Known(s, c)
            BY <1>1, <1>3, <2>3 DEF Cleaned, Routed
        <3> QED
            BY <1>1, <3>1 DEF Cleaned, Demotes
    <2>4. t.resting \subseteq t.unmapped
        BY <1>1 DEF Cleaned, Routed
    <2> QED
        BY <2>1, <2>2, <2>3, <2>4 DEF Routed
<1>9. OneLeft(t, None)
    <2>1. ASSUME NEW i \in OrderId, t.cidOf[i] # None
          PROVE  t.orders[t.cidOf[i]] # None
        BY <1>1, <2>1 DEF Cleaned
    <2>2. \A d \in Cid : t.orders[d] = None => t.positionOf[d] = None
        BY <1>1 DEF Cleaned
    <2> QED
        BY <2>1, <2>2 DEF OneLeft
<1> QED
    BY <1>1, <1>4, <1>5, <1>7, <1>8, <1>9 DEF MapsOK, Cleaned, t

-----------------------------------------------------------------------------
(* The orders.                                                             *)

\* What a report or an answer changes: the order `c`, and whether it is over.
OrderChanges(s, t, c) ==
    /\ t \in InstrumentState
    /\ t.positionOf = s.positionOf /\ t.cidOf = s.cidOf /\ t.routing = s.routing
    /\ t.pending = s.pending /\ t.held = s.held /\ t.applied = s.applied /\ t.drained = s.drained
    /\ t.settled = s.settled /\ t.evicted = s.evicted /\ t.closed = s.closed
    /\ t.unmapped = s.unmapped /\ t.resting = s.resting
    /\ \A d \in Cid : d # c => t.orders[d] = s.orders[d]

\* And what it may make of the order.
OrderMoves(s, t, c) ==
    /\ OrderChanges(s, t, c)
    /\ s.over \subseteq t.over /\ t.over \subseteq s.over \cup {c}
    /\ Is(t, c, "OpenInFlight") => Is(s, c, "OpenInFlight")
    /\ t.orders[c] # None =>
        /\ c \notin t.over /\ t.orders[c].id \in {None, IdOf(c)}
        /\ t.orders[c].status = "OpenInFlight" => t.orders[c].id = None /\ t.orders[c].filled = 0
        /\ t.orders[c].status = "Open" => t.orders[c].id = IdOf(c)
        /\ Tied(s, c) => t.orders[c].id = IdOf(c)
        /\ ~Known(s, c)
    /\ t.orders[c] = None /\ Tied(s, c) => c \in t.over

LEMMA OrderMovesKeeps ==
    ASSUME NEW s, MapsOK(s), NEW c \in Cid, NEW t, OrderMoves(s, t, c)
    PROVE  /\ MapsOK(t)
           /\ \A d \in Cid : (Tied(t, d) <=> Tied(s, d)) /\ (Lost(t, d) <=> Lost(s, d))
<1>1. \A d \in Cid : /\ Known(t, d) <=> Known(s, d)
                     /\ Tied(t, d) <=> Tied(s, d)
                     /\ Lost(t, d) <=> Lost(s, d)
    BY DEF OrderMoves, OrderChanges, Known, Tied, Lost
<1>2. Bounded(t) /\ TablesOK(t)
    BY DEF OrderMoves, OrderChanges, Bounded, TablesOK, MapsOK
<1>3. ASSUME NEW d \in Cid, t.orders[d] # None
      PROVE  /\ d \notin t.over
             /\ t.orders[d].id \in {None, IdOf(d)}
             /\ t.orders[d].status = "OpenInFlight" => t.orders[d].id = None /\ t.orders[d].filled = 0
             /\ t.orders[d].status = "Open" => t.orders[d].id = IdOf(d)
             /\ Tied(t, d) => t.orders[d].id = IdOf(d)
             /\ ~Known(t, d)
    <2>1. CASE d = c
        BY <1>1, <1>3, <2>1 DEF OrderMoves, OrderChanges
    <2>2. CASE d # c
        BY <1>1, <1>3, <2>2 DEF OrderMoves, OrderChanges, OrdersOK, MapsOK
    <2> QED
        BY <2>1, <2>2
<1>4. ASSUME NEW d \in Cid, t.orders[d] = None, Tied(t, d)
      PROVE  d \in t.over
    BY <1>1, <1>4 DEF OrderMoves, OrderChanges, OrdersOK, MapsOK
<1>5. OrdersOK(t)
    BY <1>3, <1>4 DEF OrdersOK
<1>6. Routed(t)
    <2>1. /\ \A d \in Cid : Is(t, d, "OpenInFlight") => Is(s, d, "OpenInFlight")
          /\ s.settled \subseteq Cid /\ s.resting \subseteq Cid
        BY StateTypes DEF OrderMoves, OrderChanges, Is, MapsOK, Bounded
    <2> QED
        BY <1>1, <2>1 DEF Routed, OrderMoves, OrderChanges, MapsOK
<1> QED
    BY <1>1, <1>2, <1>5, <1>6 DEF MapsOK

LEMMA MovesToNone ==
    ASSUME NEW s, NEW t, NEW c \in Cid, OrderChanges(s, t, c), t.orders[c] = None,
           s.over \subseteq t.over, t.over \subseteq s.over \cup {c}, Tied(s, c) => c \in t.over
    PROVE  OrderMoves(s, t, c)
    BY DEF OrderMoves, Is

LEMMA MovesToOrder ==
    ASSUME NEW s, MapsOK(s), NEW c \in Cid, c \notin s.over, ~Known(s, c), NEW order \in Order,
           order.status # "OpenInFlight", order.id \in {None, IdOf(c)},
           order.status = "Open" \/ Tied(s, c) => order.id = IdOf(c)
    PROVE  /\ OrderMoves(s, [s EXCEPT !.orders[c] = order], c)
           /\ [s EXCEPT !.orders[c] = order].orders[c] = order
<1> DEFINE t == [s EXCEPT !.orders[c] = order]
<1>1. s \in InstrumentState /\ DOMAIN s.orders = Cid /\ order # None
    BY StateTypes, SettingAssumption DEF MapsOK, Bounded
<1>2. /\ t \in InstrumentState
      /\ t.positionOf = s.positionOf /\ t.cidOf = s.cidOf /\ t.routing = s.routing
      /\ t.pending = s.pending /\ t.held = s.held /\ t.applied = s.applied
      /\ t.drained = s.drained /\ t.settled = s.settled /\ t.evicted = s.evicted
      /\ t.closed = s.closed /\ t.unmapped = s.unmapped /\ t.resting = s.resting
      /\ t.over = s.over /\ t.orders = [s.orders EXCEPT ![c] = order]
    <2>1. t \in InstrumentState
        BY <1>1 DEF InstrumentState
    <2>2. /\ t.positionOf = s.positionOf /\ t.cidOf = s.cidOf /\ t.routing = s.routing
          /\ t.pending = s.pending /\ t.held = s.held /\ t.applied = s.applied
          /\ t.drained = s.drained
        BY <1>1 DEF InstrumentState
    <2>3. /\ t.settled = s.settled /\ t.evicted = s.evicted /\ t.closed = s.closed
          /\ t.unmapped = s.unmapped /\ t.resting = s.resting
          /\ t.over = s.over /\ t.orders = [s.orders EXCEPT ![c] = order]
        BY <1>1 DEF InstrumentState
    <2> QED
        BY <2>1, <2>2, <2>3
<1> HIDE DEF t
<1>3. t.orders[c] = order /\ \A d \in Cid : d # c => t.orders[d] = s.orders[d]
    BY <1>1, <1>2
<1> QED
    BY <1>1, <1>2, <1>3 DEF OrderMoves, OrderChanges, Is, t

LEMMA MovesNowhere ==
    ASSUME NEW s, MapsOK(s), NEW c \in Cid
    PROVE  OrderMoves(s, s, c)
    BY DEF OrderMoves, OrderChanges, MapsOK, Bounded, OrdersOK

LEMMA RetireMoves ==
    ASSUME NEW s, MapsOK(s), NEW c \in Cid
    PROVE  OrderMoves(s, Retire(s, c), c) /\ Retire(s, c).orders[c] = None /\ c \in Retire(s, c).over
<1> DEFINE t == Retire(s, c)
<1>1. s \in InstrumentState /\ DOMAIN s.orders = Cid
    BY StateTypes DEF MapsOK, Bounded
<1>2. OrderChanges(s, t, c) /\ t.orders[c] = None /\ t.over = s.over \cup {c}
    <2>1. /\ t \in InstrumentState
          /\ t.orders = [s.orders EXCEPT ![c] = None] /\ t.over = s.over \cup {c}
        BY <1>1 DEF Retire, InstrumentState
    <2>2. /\ t.positionOf = s.positionOf /\ t.cidOf = s.cidOf /\ t.routing = s.routing
          /\ t.pending = s.pending /\ t.held = s.held /\ t.applied = s.applied
          /\ t.drained = s.drained /\ t.settled = s.settled /\ t.evicted = s.evicted
          /\ t.closed = s.closed /\ t.unmapped = s.unmapped /\ t.resting = s.resting
        BY <1>1 DEF Retire, InstrumentState
    <2> HIDE DEF t
    <2> QED
        BY <1>1, <2>1, <2>2 DEF OrderChanges
<1> HIDE DEF t
<1>3. OrderMoves(s, t, c)
    BY <1>2, MovesToNone
<1> QED
    BY <1>2, <1>3 DEF t

LEMMA ReportFacts ==
    \A r \in Report : /\ r.cid \in Cid /\ r.state \in {"Open", "FullyFilled", "Ended"}
                      /\ r.filled \in Nat /\ r.filled <= Quantity(r.cid)
<1> TAKE r \in Report
<1>1. PICK c \in Cid :
        r \in [cid : {c}, state : {"Open", "FullyFilled", "Ended"}, filled : 0..Quantity(c)]
    BY DEF Report
<1> QED
    BY <1>1, RequestAssumption

\* A report that ties the ids of an order leaves it under its id, or over.
Told(t, c) ==
    /\ ~Is(t, c, "OpenInFlight")
    /\ t.orders[c] = None => c \in t.over
    /\ t.orders[c] # None => t.orders[c].id = IdOf(c)

LEMMA ReportMoves ==
    ASSUME NEW s, MapsOK(s), NEW r \in Report
    PROVE  /\ OrderMoves(s, OrdersAfterReport(s, r), r.cid)
           /\ Settles(s, r) => Told(OrdersAfterReport(s, r), r.cid)
<1> DEFINE c == r.cid
           held == s.orders[c]
           t == OrdersAfterReport(s, r)
           cancelled == Is(s, c, "CancelInFlight")
           ends == Retires(r) /\ (cancelled => r.state # "Open")
           stale == held # None /\ r.state = "Open" /\ r.filled < held.filled
           order == [status |-> IF cancelled THEN "CancelInFlight" ELSE "Open",
                     id |-> IdOf(c), filled |-> r.filled]
<1>1. /\ s \in InstrumentState /\ s.orders \in [Cid -> Order \cup {None}] /\ s.over \subseteq Cid
      /\ c \in Cid /\ r.filled \in Nat /\ IdOf(c) \in OrderId /\ None \notin Order
    BY StateTypes, ReportFacts, RequestAssumption, SettingAssumption DEF MapsOK, Bounded
<1>2. Settles(s, r) => held # None
    BY DEF Settles, Is
<1>3. CASE held = None /\ ends
    <2>1. t = [s EXCEPT !.over = s.over \cup {c}]
        BY <1>3 DEF OrdersAfterReport
    <2>4. s.orders[c] = None
        BY <1>3
    <2> HIDE DEF t, c, held, ends
    <2>2. OrderChanges(s, t, c) /\ t.orders[c] = None /\ t.over = s.over \cup {c}
        BY <1>1, <2>1, <2>4 DEF OrderChanges, InstrumentState
    <2>3. OrderMoves(s, t, c)
        BY <1>1, <2>2, MovesToNone
    <2> QED
        BY <1>2, <1>3, <2>3 DEF t, c, held
<1>4. CASE held = None /\ ~ends /\ c \in s.over
    <2>1. t = s
        BY <1>4 DEF OrdersAfterReport
    <2> QED
        BY <1>1, <1>2, <1>4, <2>1, MovesNowhere
<1>5. CASE stale
    <2>1. t = s
        BY <1>5 DEF OrdersAfterReport
    <2>2. ~Is(s, c, "OpenInFlight")
        BY <1>1, <1>5 DEF Is, MapsOK, OrdersOK
    <2>3. Settles(s, r) => Told(s, c)
        BY <1>1, <1>5, <2>2 DEF Settles, Is, MapsOK, OrdersOK, Told
    <2> QED
        BY <1>1, <2>1, <2>3, MovesNowhere
<1>6. CASE held # None /\ ~stale /\ ends
    <2>1. t = Retire(s, c)
        BY <1>6 DEF OrdersAfterReport
    <2> QED
        BY <1>1, <2>1, RetireMoves DEF Told, Is
<1>7. CASE ~stale /\ ~ends /\ (held # None \/ c \notin s.over)
    <2>1. t = [s EXCEPT !.orders[c] = order]
        BY <1>7 DEF OrdersAfterReport
    <2>2. /\ order \in Order /\ order.status # "OpenInFlight" /\ order.id = IdOf(c)
        BY <1>1 DEF Order
    <2>3. c \notin s.over /\ ~Known(s, c)
        BY <1>1, <1>7 DEF MapsOK, OrdersOK, Tied
    <2> HIDE DEF order, t
    <2>4. OrderMoves(s, t, c) /\ t.orders[c] = order
        BY <1>1, <2>1, <2>2, <2>3, MovesToOrder
    <2> QED
        BY <1>1, <2>2, <2>4 DEF Told, Is, t
<1> QED
    BY <1>3, <1>4, <1>5, <1>6, <1>7

LEMMA CancelMoves ==
    ASSUME NEW s, MapsOK(s), NEW c \in Cid, NEW ok \in BOOLEAN
    PROVE  OrderMoves(s, OrdersAfterCancel(s, c, ok), c)
<1> DEFINE t == OrdersAfterCancel(s, c, ok)
           held == s.orders[c]
           cancelled == Is(s, c, "CancelInFlight")
<1>1. /\ s \in InstrumentState /\ s.orders \in [Cid -> Order \cup {None}] /\ s.over \subseteq Cid
      /\ None \notin Order
    BY StateTypes, SettingAssumption DEF MapsOK, Bounded
<1>2. CASE held # None /\ ok
    <2>1. t = Retire(s, c)
        BY <1>2 DEF OrdersAfterCancel
    <2> QED
        BY <2>1, RetireMoves
<1>3. CASE cancelled /\ ~ok /\ held.id = None
    <2>1. t = [s EXCEPT !.orders[c] = None]
        BY <1>3 DEF OrdersAfterCancel
    <2>2. OrderChanges(s, t, c) /\ t.orders[c] = None /\ t.over = s.over
        <3> HIDE DEF t
        <3> QED
            BY <1>1, <2>1 DEF OrderChanges, InstrumentState
    <2>3. ~Tied(s, c)
        BY <1>1, <1>3, SettingAssumption, RequestAssumption DEF MapsOK, OrdersOK, Is, Slot
    <2> HIDE DEF t
    <2>4. OrderMoves(s, t, c)
        BY <2>2, <2>3, MovesToNone
    <2> QED
        BY <2>4 DEF t
<1>4. CASE cancelled /\ ~ok /\ held.id # None
    <2> DEFINE order == [held EXCEPT !.status = "Open"]
    <2>1. t = [s EXCEPT !.orders[c].status = "Open"]
        BY <1>4 DEF OrdersAfterCancel
    <2>2. t = [s EXCEPT !.orders[c] = order]
        BY <1>1, <2>1
    <2>3. held \in Order
        BY <1>1, <1>4 DEF Is
    <2>4. order \in Order /\ order.status = "Open" /\ order.id = held.id
        BY <2>3 DEF Order
    <2>5. held.id = IdOf(c) /\ c \notin s.over /\ ~Known(s, c)
        BY <1>1, <1>4, <2>3 DEF MapsOK, OrdersOK
    <2> HIDE DEF order, t, held
    <2> QED
        BY <2>2, <2>4, <2>5, MovesToOrder DEF t
<1>5. CASE ~(held # None /\ ok) /\ ~(cancelled /\ ~ok)
    <2>1. t = s
        BY <1>5 DEF OrdersAfterCancel
    <2> QED
        BY <2>1, MovesNowhere
<1> QED
    BY <1>2, <1>3, <1>4, <1>5

-----------------------------------------------------------------------------
(* A fill.                                                                 *)

\* A step of the orders and the tables alone.
TablesStep(s, t) ==
    /\ t.pending = s.pending /\ t.applied = s.applied /\ t.drained = s.drained
    /\ t.settled = s.settled /\ t.unmapped = s.unmapped /\ t.resting = s.resting
    /\ \A c \in Cid : Lost(s, c) => Lost(t, c)
    /\ \A c \in Cid : Is(t, c, "OpenInFlight") => Is(s, c, "OpenInFlight")

LEMMA TablesStepKeeps ==
    ASSUME NEW s, NEW t, TablesStep(s, t)
    PROVE  /\ FillsOK(s) => FillsOK(t)
           /\ \A outside : Accounted(s, outside) => Accounted(t, outside)
    BY FillFacts DEF TablesStep, FillsOK, Accounted, Nowhere, InOnePlace, Waits

LEMMA TablesSteps ==
    /\ \A s, t : Cleaned(s, t) => TablesStep(s, t)
    /\ \A s, t : \A c \in Cid : OrderMoves(s, t, c) => TablesStep(s, t)
    /\ \A s, t, u : TablesStep(s, t) /\ TablesStep(t, u) => TablesStep(s, u)
<1>1. ASSUME NEW s, NEW t, Cleaned(s, t)
      PROVE  TablesStep(s, t)
    BY <1>1 DEF Cleaned, TablesStep, Lost, Is
<1>2. ASSUME NEW s, NEW t, NEW c \in Cid, OrderMoves(s, t, c)
      PROVE  TablesStep(s, t)
    BY <1>2 DEF OrderMoves, OrderChanges, TablesStep, Lost, Is
<1>3. ASSUME NEW s, NEW t, NEW u, TablesStep(s, t), TablesStep(t, u)
      PROVE  TablesStep(s, u)
    BY <1>3 DEF TablesStep
<1> QED
    BY <1>1, <1>2, <1>3

StayFresh(s, t) == \A c \in Cid : Fresh(s, c) => Fresh(t, c)

LEMMA FreshSteps ==
    /\ \A s, t : Cleaned(s, t) => StayFresh(s, t)
    /\ \A s, t : \A c \in Cid :
        OrderMoves(s, t, c) => \A d \in Cid : d # c /\ Fresh(s, d) => Fresh(t, d)
<1>1. ASSUME NEW s, NEW t, Cleaned(s, t), NEW c \in Cid, Fresh(s, c)
      PROVE  Fresh(t, c)
    <2>1. ~Known(s, c) /\ ~Demotes(s, c)
        BY <1>1 DEF Fresh, Tied, Demotes
    <2>2. ~Tied(t, c)
        BY <1>1, <2>1, RequestAssumption, SettingAssumption DEF Fresh, Tied, Cleaned
    <2> QED
        BY <1>1, <2>2 DEF Fresh, Cleaned
<1>2. ASSUME NEW s, NEW t, NEW c \in Cid, OrderMoves(s, t, c), NEW d \in Cid, d # c, Fresh(s, d)
      PROVE  Fresh(t, d)
    <2>1. Tied(t, d) <=> Tied(s, d)
        BY <1>2 DEF OrderMoves, OrderChanges, Tied, Known
    <2> QED
        BY <1>2, <2>1 DEF OrderMoves, OrderChanges, Fresh
<1>3. \A s, t : Cleaned(s, t) => StayFresh(s, t)
    BY <1>1 DEF StayFresh
<1> QED
    BY <1>2, <1>3

\* Where a fill is routed, by what is known of its order.
LEMMA RouteFacts ==
    ASSUME NEW s, MapsOK(s), NEW f \in Fill
    PROVE  LET c == f.cid  slot == Route(s, IdOf(c)) IN
           /\ slot \in Slot \cup {None}
           /\ c \in s.settled /\ ~Lost(s, c) => slot = Request[c].position
           /\ Is(s, c, "OpenInFlight") => slot = None
           /\ c \in s.resting => slot # Request[c].position
<1> DEFINE c == f.cid
           id == IdOf(c)
           p == Request[c].position
           slot == Route(s, id)
           matching == Reported(s, id, {"Open", "CancelInFlight"})
<1>1. /\ c \in Cid /\ id \in OrderId /\ p \in Position /\ None \notin Slot /\ None \notin Cid
      /\ p \in Slot /\ id \in Slot /\ p # id
    BY FillFacts, RequestAssumption, SettingAssumption DEF Slot
<1>2. /\ TablesOK(s) /\ OrdersOK(s) /\ Routed(s) /\ s \in InstrumentState
      /\ s.cidOf \in [OrderId -> Cid \cup {None}]
    BY StateTypes DEF MapsOK, Bounded
<1>3. s.cidOf[id] \in {None, c}
    BY <1>1, <1>2, RequestAssumption DEF TablesOK
<1>4. matching \subseteq {c} /\ (matching # {} => s.orders[c] # None)
    BY <1>1, <1>2, RequestAssumption DEF Reported, OrdersOK, Slot
<1>5. Retired(s, id) # {} <=> Known(s, c)
    BY DEF Retired, Known
<1>6. \A i \in Retired(s, id) : s.routing[i].position = p
    BY <1>1, <1>2 DEF Retired, TablesOK
<1>7. s.positionOf[c] \in {None, p}
    BY <1>1, <1>2 DEF TablesOK
<1> HIDE DEF matching, c, id, p
<1>8. CASE s.cidOf[id] # None /\ s.positionOf[s.cidOf[id]] # None
    <2>5. s.cidOf[id] = c
        BY <1>3, <1>8
    <2>1. slot = p /\ s.positionOf[c] # None
        BY <1>7, <1>8, <2>5 DEF Route
    <2>2. s.cidOf[id] = c
        BY <1>3, <1>8
    <2>3. ~Is(s, c, "OpenInFlight")
        BY <1>1, <1>2, <2>2 DEF OrdersOK, Tied, Is, id, Slot
    <2>4. c \notin s.resting
        BY <1>2, <2>1 DEF Routed
    <2> QED
        BY <1>1, <2>1, <2>3, <2>4 DEF c, id, p
<1>9. CASE ~(s.cidOf[id] # None /\ s.positionOf[s.cidOf[id]] # None) /\ matching # {}
    <2> DEFINE d == CHOOSE d \in matching : TRUE
    <2>1. d = c
        BY <1>4, <1>9
    <2>8. slot = IF s.positionOf[d] # None THEN s.positionOf[d] ELSE id
        BY <1>9 DEF Route, matching
    <2> HIDE DEF d, slot
    <2>2. slot = IF s.positionOf[c] # None THEN s.positionOf[c] ELSE id
        BY <2>1, <2>8
    <2>3. s.orders[c] # None /\ s.orders[c].status # "OpenInFlight" /\ ~Known(s, c)
        BY <1>1, <1>2, <1>4, <1>9 DEF matching, Reported, OrdersOK
    <2>4. c \in s.settled /\ ~Lost(s, c) => s.cidOf[id] = c /\ s.positionOf[c] = p
        BY <1>2, <2>3 DEF Routed, id, p
    <2>5. c \in s.settled => Lost(s, c)
        BY <1>1, <1>9, <2>4
    <2>6. c \in s.resting => s.positionOf[c] = None
        BY <1>2 DEF Routed
    <2>7. slot \in {p, id}
        BY <1>7, <2>2
    <2> QED
        BY <1>1, <2>2, <2>3, <2>5, <2>6, <2>7 DEF c, id, p, slot, Is
<1>10. CASE /\ ~(s.cidOf[id] # None /\ s.positionOf[s.cidOf[id]] # None) /\ matching = {}
            /\ Retired(s, id) # {}
    <2>1. slot = p
        BY <1>6, <1>10 DEF Route, matching
    <2>2. s.orders[c] = None /\ c \notin s.resting
        BY <1>1, <1>2, <1>5, <1>10 DEF OrdersOK, Routed
    <2> QED
        BY <1>1, <2>1, <2>2 DEF c, id, p, Is
<1>11. CASE /\ ~(s.cidOf[id] # None /\ s.positionOf[s.cidOf[id]] # None) /\ matching = {}
            /\ Retired(s, id) = {}
    <2>1. slot = IF SomeInFlight(s) THEN None ELSE id
        BY <1>11 DEF Route, matching
    <2>2. Is(s, c, "OpenInFlight") => slot = None
        BY <1>1, <2>1 DEF SomeInFlight
    <2>3. c \in s.settled => Lost(s, c)
        BY <1>1, <1>2, <1>5, <1>11 DEF Routed, id, p
    <2> QED
        BY <1>1, <2>1, <2>2, <2>3 DEF c, id, p
<1> QED
    BY <1>8, <1>9, <1>10, <1>11

\* What booking a fill changes: its position, and the live maps of orders that are
\* over, of a position it closes.
Booked(s, t, f, slot) ==
    /\ t \in InstrumentState
    /\ t.orders = s.orders /\ t.over = s.over /\ t.cidOf = s.cidOf /\ t.routing = s.routing
    /\ t.pending = s.pending /\ t.drained = s.drained /\ t.settled = s.settled
    /\ t.evicted = s.evicted /\ t.unmapped = s.unmapped /\ t.resting = s.resting
    /\ t.applied = [s.applied EXCEPT ![f] = Append(@, slot)]
    /\ s.closed \subseteq t.closed
    /\ \A c \in Cid :
        \/ t.positionOf[c] = s.positionOf[c]
        \/ t.positionOf[c] = None /\ s.orders[c] = None /\ s.positionOf[c] \in t.closed

LEMMA BookBooks ==
    ASSUME NEW s, s \in InstrumentState, NEW f \in Fill, NEW slot \in Slot
    PROVE  Booked(s, Book(s, f, slot), f, slot)
<1> DEFINE now == s.held[slot] + Signed(f)
           booked == [s EXCEPT !.held[slot] = now, !.applied[f] = Append(@, slot)]
           t == Book(s, f, slot)
<1>1. now \in Int
    BY StateTypes DEF Signed
<1> HIDE DEF now
<1>2. /\ booked \in InstrumentState
      /\ booked.orders = s.orders /\ booked.over = s.over /\ booked.cidOf = s.cidOf
      /\ booked.routing = s.routing /\ booked.pending = s.pending /\ booked.drained = s.drained
      /\ booked.settled = s.settled /\ booked.evicted = s.evicted /\ booked.closed = s.closed
      /\ booked.unmapped = s.unmapped /\ booked.resting = s.resting
      /\ booked.positionOf = s.positionOf
      /\ booked.applied = [s.applied EXCEPT ![f] = Append(@, slot)]
    <2> DEFINE h == [s.held EXCEPT ![slot] = now]
               a == [s.applied EXCEPT ![f] = Append(s.applied[f], slot)]
    <2>1. /\ s.applied \in [Fill -> Seq(Slot)] /\ s.held \in [Slot -> Int]
          /\ s.applied[f] \in Seq(Slot)
        BY StateTypes
    <2>2. h \in [Slot -> Int]
        BY <1>1, <2>1
    <2>3. Append(s.applied[f], slot) \in Seq(Slot)
        BY <2>1
    <2>4. a \in [Fill -> Seq(Slot)]
        BY <2>1, <2>3
    <2>5. booked = [s EXCEPT !.held = h, !.applied = a]
        OBVIOUS
    <2>6. a = [s.applied EXCEPT ![f] = Append(@, slot)]
        OBVIOUS
    <2> HIDE DEF h, a, booked
    <2> QED
        BY <2>2, <2>4, <2>5, <2>6 DEF InstrumentState
<1>3. CASE now # 0
    <2>1. t = booked
        BY <1>3 DEF Book, now
    <2> HIDE DEF booked
    <2> QED
        BY <1>2, <2>1 DEF Booked
<1>4. CASE now = 0
    <2> DEFINE kept == [c \in Cid |->
            IF booked.positionOf[c] = slot /\ s.orders[c] = None THEN None ELSE booked.positionOf[c]]
    <2>1. t = [booked EXCEPT !.closed = @ \cup {slot}, !.positionOf = kept]
        BY <1>4 DEF Book, now
    <2> HIDE DEF booked, t
    <2>2. kept \in [Cid -> Position \cup {None}]
        BY <1>2, StateTypes
    <2>3. /\ t \in InstrumentState
          /\ t.orders = booked.orders /\ t.over = booked.over /\ t.cidOf = booked.cidOf
          /\ t.routing = booked.routing /\ t.pending = booked.pending
          /\ t.drained = booked.drained /\ t.settled = booked.settled
          /\ t.evicted = booked.evicted /\ t.unmapped = booked.unmapped
          /\ t.resting = booked.resting /\ t.applied = booked.applied
          /\ t.closed = booked.closed \cup {slot} /\ t.positionOf = kept
        <3> HIDE DEF kept
        <3> QED
            BY <1>2, <2>1, <2>2 DEF InstrumentState
    <2>4. \A c \in Cid :
            \/ t.positionOf[c] = s.positionOf[c]
            \/ t.positionOf[c] = None /\ s.orders[c] = None /\ s.positionOf[c] \in t.closed
        BY <1>2, <2>3
    <2> HIDE DEF kept
    <2>5. Booked(s, t, f, slot)
        BY <1>2, <2>3, <2>4 DEF Booked
    <2> QED
        BY <2>5 DEF t
<1> QED
    BY <1>3, <1>4

LEMMA BookedKeepsMaps ==
    ASSUME NEW s, MapsOK(s), NEW t, NEW f \in Fill, NEW slot \in Slot, Booked(s, t, f, slot)
    PROVE  MapsOK(t) /\ \A c \in Cid : Lost(s, c) => Lost(t, c)
<1>1. /\ \A c \in Cid : Known(t, c) <=> Known(s, c)
      /\ \A c \in Cid : Tied(t, c) <=> Tied(s, c)
      /\ \A c \in Cid : Lost(s, c) => Lost(t, c)
    BY DEF Booked, Known, Tied, Lost
<1>2. Bounded(t) /\ TablesOK(t)
    BY DEF Booked, Bounded, TablesOK, MapsOK
<1>3. OrdersOK(t)
    BY <1>1 DEF Booked, OrdersOK, MapsOK
<1>4. Routed(t)
    <2>1. s.settled \subseteq Cid /\ s.resting \subseteq Cid
        BY StateTypes DEF MapsOK, Bounded
    <2>2. ASSUME NEW c \in Cid, Is(t, c, "OpenInFlight"), c \notin t.unmapped
          PROVE  t.positionOf[c] = Request[c].position
        BY <2>2 DEF Booked, Routed, MapsOK, Is
    <2>3. ASSUME NEW c \in t.settled
          PROVE  \/ t.cidOf[IdOf(c)] = c /\ t.positionOf[c] = Request[c].position
                 \/ Known(t, c) \/ Lost(t, c)
        <3>1. c \in Cid /\ c \in s.settled
            BY <2>1, <2>3 DEF Booked
        <3>2. CASE s.cidOf[IdOf(c)] = c /\ s.positionOf[c] = Request[c].position
            BY <3>1, <3>2 DEF Booked, Lost
        <3> QED
            BY <1>1, <3>1, <3>2 DEF Routed, MapsOK
    <2>4. ASSUME NEW c \in t.resting
          PROVE  t.positionOf[c] = None /\ ~Known(t, c)
        <3>1. c \in Cid /\ s.positionOf[c] = None /\ ~Known(s, c)
            BY <2>1, <2>4 DEF Booked, Routed, MapsOK
        <3> QED
            BY <1>1, <3>1 DEF Booked
    <2>5. t.resting \subseteq t.unmapped
        BY DEF Booked, Routed, MapsOK
    <2> QED
        BY <2>2, <2>3, <2>4, <2>5 DEF Routed
<1> QED
    BY <1>1, <1>2, <1>3, <1>4 DEF MapsOK

\* The orders advance by the fill, and are cleaned up if it ends its order.
LEMMA AdvanceKeeps ==
    ASSUME NEW s, MapsOK(s), NEW f \in Fill, setting \in Settings
    PROVE  LET t == Advance(s, f) IN
           /\ MapsOK(t) /\ TablesStep(s, t) /\ StayFresh(s, t)
           /\ \/ /\ t.positionOf = s.positionOf /\ t.cidOf = s.cidOf
                 /\ \A d \in Cid : t.orders[d] = None => s.orders[d] = None
              \/ OneLeft(t, None)
<1> DEFINE id == IdOf(f.cid)
           matching == Reported(s, id, {"Open"}) \cap
                       (IF s.cidOf[id] # None THEN {s.cidOf[id]} ELSE Cid)
           behind == {c \in matching : s.orders[c].filled < f.upTo}
           c == CHOOSE c \in behind : TRUE
           t == Advance(s, f)
<1>1. s \in InstrumentState /\ s.orders \in [Cid -> Order \cup {None}] /\ OrdersOK(s)
    BY StateTypes DEF MapsOK, Bounded
<1>2. CASE ~setting.totals \/ behind = {}
    <2>1. t = s
        BY <1>2 DEF Advance
    <2> QED
        BY <2>1 DEF TablesStep, StayFresh
<1>3. CASE setting.totals /\ behind # {}
    <2>1. c \in behind
        BY <1>3
    <2>2. /\ c \in Cid /\ s.orders[c] # None /\ s.orders[c].status = "Open"
        BY <2>1 DEF Reported
    <2>3. t = IF f.upTo = Quantity(c) THEN Cleanup(Retire(s, c))
              ELSE [s EXCEPT !.orders[c].filled = f.upTo]
        BY <1>3 DEF Advance
    <2> HIDE DEF c, t
    <2>4. CASE f.upTo = Quantity(c)
        <3> DEFINE u == Retire(s, c)
        <3>1. OrderMoves(s, u, c) /\ t = Cleanup(u)
            BY <2>2, <2>3, <2>4, RetireMoves
        <3> HIDE DEF u
        <3>2. MapsOK(u)
            BY <2>2, <3>1, OrderMovesKeeps
        <3>3. Cleaned(u, t) /\ MapsOK(t) /\ OneLeft(t, None)
            BY <3>1, <3>2, CleanupKeepsMaps
        <3>4. TablesStep(s, u) /\ TablesStep(u, t)
            BY <2>2, <3>1, <3>3, TablesSteps
        <3>5. TablesStep(s, t)
            BY <3>4, TablesSteps
        <3>6. StayFresh(s, u) /\ StayFresh(u, t)
            BY <2>2, <3>1, <3>3, FreshSteps DEF StayFresh, Fresh
        <3> QED
            BY <3>3, <3>5, <3>6 DEF t, StayFresh
    <2>5. CASE f.upTo # Quantity(c)
        <3> DEFINE order == [s.orders[c] EXCEPT !.filled = f.upTo]
        <3>1. s.orders[c] \in Order
            BY <1>1, <2>2
        <3>2. /\ order \in Order /\ order.status = "Open" /\ order.id = s.orders[c].id
            BY <2>2, <3>1, FillFacts DEF Order
        <3>3. order.id = IdOf(c) /\ c \notin s.over /\ ~Known(s, c)
            BY <1>1, <2>2, <3>2 DEF OrdersOK
        <3>4. t = [s EXCEPT !.orders[c] = order]
            BY <1>1, <2>2, <2>3, <2>5
        <3> HIDE DEF order
        <3>5. OrderMoves(s, t, c) /\ t.orders[c] = order
            BY <2>2, <3>2, <3>3, <3>4, MovesToOrder
        <3>6. MapsOK(t) /\ TablesStep(s, t)
            BY <2>2, <3>5, OrderMovesKeeps, TablesSteps
        <3>7. order # None
            BY <3>2, SettingAssumption
        <3>8. /\ t.positionOf = s.positionOf /\ t.cidOf = s.cidOf
              /\ \A d \in Cid : t.orders[d] = None => s.orders[d] = None
            BY <3>5, <3>7 DEF OrderMoves, OrderChanges
        <3>9. StayFresh(s, t)
            BY <2>2, <3>5, FreshSteps DEF StayFresh, Fresh
        <3> QED
            BY <3>6, <3>8, <3>9 DEF t
    <2> QED
        BY <2>4, <2>5
<1> QED
    BY <1>2, <1>3

\* No fill of an order a split unmapped while it was tracked is booked to its position.
Shuns(s, t) ==
    \A f \in Fill : \A i \in DOMAIN t.applied[f] :
        \/ i \in DOMAIN s.applied[f] /\ t.applied[f][i] = s.applied[f][i]
        \/ f.cid \in s.resting => t.applied[f][i] # Request[f.cid].position

\* What the fills an instrument is told of change: no order is in flight that was not.
FillsStep(s, t) ==
    /\ t.settled = s.settled /\ t.unmapped = s.unmapped /\ t.resting = s.resting
    /\ \A c \in Cid : Lost(s, c) => Lost(t, c)
    /\ \A c \in Cid : Is(t, c, "OpenInFlight") => Is(s, c, "OpenInFlight")
    /\ Shuns(s, t) /\ StayFresh(s, t)

LEMMA FillsSteps ==
    /\ \A s : FillsStep(s, s)
    /\ \A s, t : TablesStep(s, t) /\ StayFresh(s, t) => FillsStep(s, t)
    /\ \A s, t, u : FillsStep(s, t) /\ FillsStep(t, u) => FillsStep(s, u)
<1>1. ASSUME NEW s
      PROVE  FillsStep(s, s)
    BY DEF FillsStep, Shuns, StayFresh
<1>2. ASSUME NEW s, NEW t, TablesStep(s, t), StayFresh(s, t)
      PROVE  FillsStep(s, t)
    BY <1>2 DEF FillsStep, TablesStep, Shuns
<1>3. ASSUME NEW s, NEW t, NEW u, FillsStep(s, t), FillsStep(t, u)
      PROVE  FillsStep(s, u)
    <2>1. ASSUME NEW f \in Fill, NEW i \in DOMAIN u.applied[f]
          PROVE  \/ i \in DOMAIN s.applied[f] /\ u.applied[f][i] = s.applied[f][i]
                 \/ f.cid \in s.resting => u.applied[f][i] # Request[f.cid].position
        BY <1>3, <2>1 DEF FillsStep, Shuns
    <2>2. Shuns(s, u)
        BY <2>1 DEF Shuns
    <2> QED
        BY <1>3, <2>2 DEF FillsStep, StayFresh
<1> QED
    BY <1>1, <1>2, <1>3

\* A fill that waits.
Pends(s, t, f) == t = [s EXCEPT !.pending = Append(@, f)]

LEMMA PendingKeeps ==
    ASSUME NEW s, MapsOK(s), FillsOK(s), NEW outside, NEW f \in outside, f \in Fill,
           Accounted(s, outside), f.cid \in s.settled => Lost(s, f.cid), NEW t,
           Pends(s, t, f)
    PROVE  /\ MapsOK(t) /\ FillsOK(t) /\ Accounted(t, outside \ {f}) /\ FillsStep(s, t)
           /\ \A c : OneLeft(s, c) => OneLeft(t, c)
<1>1. s \in InstrumentState /\ s.pending \in Seq(Fill) /\ s.settled \subseteq Cid
    BY StateTypes DEF MapsOK, Bounded
<1> DEFINE q == Append(s.pending, f)
<1>2. /\ q \in Seq(Fill) /\ \A y : Holds(q, y) <=> Holds(s.pending, y) \/ y = f
      /\ Distinct(s.pending) /\ ~Holds(s.pending, f) => Distinct(q)
    BY <1>1, AppendHolds
<1>3. t = [s EXCEPT !.pending = q]
    BY DEF Pends
<1> HIDE DEF q
<1>4. /\ t \in InstrumentState /\ t.pending = q
      /\ t.orders = s.orders /\ t.over = s.over /\ t.cidOf = s.cidOf /\ t.routing = s.routing
      /\ t.positionOf = s.positionOf /\ t.applied = s.applied
      /\ t.drained = s.drained /\ t.settled = s.settled /\ t.closed = s.closed
      /\ t.evicted = s.evicted /\ t.unmapped = s.unmapped /\ t.resting = s.resting
    BY <1>1, <1>2, <1>3 DEF InstrumentState
<1>5. /\ \A c : Known(t, c) <=> Known(s, c)
      /\ \A c : Tied(t, c) <=> Tied(s, c)
      /\ \A c : Lost(t, c) <=> Lost(s, c)
      /\ \A c : Is(t, c, "OpenInFlight") <=> Is(s, c, "OpenInFlight")
    BY <1>4 DEF Known, Tied, Lost, Is
<1>6. MapsOK(t)
    <2>1. Bounded(t) /\ TablesOK(t) /\ OrdersOK(t)
        <3>1. Bounded(t) /\ TablesOK(t)
            BY <1>4 DEF MapsOK, Bounded, TablesOK
        <3>2. OrdersOK(t)
            BY <1>4, <1>5 DEF MapsOK, OrdersOK
        <3> QED
            BY <3>1, <3>2
    <2>2. Routed(t)
        BY <1>1, <1>4, <1>5 DEF MapsOK, Routed
    <2> QED
        BY <2>1, <2>2 DEF MapsOK
<1>7. FillsOK(t)
    BY <1>2, <1>4, <1>5 DEF FillsOK, Waits
<1>8. Accounted(t, outside \ {f})
    <2>1. Nowhere(s, f)
        BY DEF Accounted
    <2>2. Distinct(t.pending)
        BY <1>2, <1>4, <2>1 DEF Accounted, Nowhere, Waits
    <2>3. ASSUME NEW g \in Fill
          PROVE  IF g \in outside \ {f} THEN Nowhere(t, g) ELSE InOnePlace(t, g)
        <3>1. CASE g = f
            BY <1>2, <1>4, <2>1, <3>1 DEF Nowhere, InOnePlace, Waits
        <3>2. CASE g # f
            BY <1>2, <1>4, <3>2 DEF Accounted, Nowhere, InOnePlace, Waits
        <3> QED
            BY <3>1, <3>2
    <2> QED
        BY <2>2, <2>3 DEF Accounted
<1>9. FillsStep(s, t)
    BY <1>4, <1>5 DEF FillsStep, Shuns, StayFresh, Fresh
<1>10. \A c : OneLeft(s, c) => OneLeft(t, c)
    BY <1>4 DEF OneLeft
<1> QED
    BY <1>6, <1>7, <1>8, <1>9, <1>10

\* A fill that is booked.
LEMMA BookedKeeps ==
    ASSUME NEW s, MapsOK(s), FillsOK(s), NEW outside, NEW f \in outside, f \in Fill,
           Accounted(s, outside), NEW slot \in Slot, ~Is(s, f.cid, "OpenInFlight"),
           f.cid \in s.settled /\ ~Lost(s, f.cid) => slot = Request[f.cid].position,
           f.cid \in s.resting => slot # Request[f.cid].position,
           NEW t, Booked(s, t, f, slot)
    PROVE  /\ MapsOK(t) /\ FillsOK(t) /\ Accounted(t, outside \ {f}) /\ FillsStep(s, t)
           /\ \A c : OneLeft(s, c) => OneLeft(t, c)
<1>1. /\ s \in InstrumentState /\ s.applied \in [Fill -> Seq(Slot)]
      /\ Nowhere(s, f)
    BY StateTypes DEF MapsOK, Bounded, Accounted
<1>2. /\ t.applied[f] = <<slot>>
      /\ \A g \in Fill : g # f => t.applied[g] = s.applied[g]
    BY <1>1 DEF Booked, Nowhere
<1>3. MapsOK(t) /\ \A c \in Cid : Lost(s, c) => Lost(t, c)
    BY BookedKeepsMaps
<1>4. /\ t.pending = s.pending /\ t.drained = s.drained /\ t.settled = s.settled
      /\ t.orders = s.orders /\ t.unmapped = s.unmapped /\ t.resting = s.resting
      /\ t.cidOf = s.cidOf
      /\ \A c \in Cid : t.positionOf[c] \in {s.positionOf[c], None}
    BY DEF Booked
<1>5. /\ \A c : Is(t, c, "OpenInFlight") <=> Is(s, c, "OpenInFlight")
      /\ \A g : Waits(t, g) <=> Waits(s, g)
    BY <1>4 DEF Is, Waits
<1>6. Len(<<slot>>) = 1 /\ \A i \in DOMAIN <<slot>> : <<slot>>[i] = slot
    OBVIOUS
<1>7. FillsOK(t)
    <2> SUFFICES ASSUME NEW g \in Fill
                 PROVE  /\ Is(t, g.cid, "OpenInFlight") => g \notin t.drained /\ t.applied[g] = <<>>
                        /\ g.cid \in t.settled /\ ~Lost(t, g.cid) =>
                            /\ ~Waits(t, g) /\ g \notin t.drained
                            /\ \A i \in DOMAIN t.applied[g] : t.applied[g][i] = Request[g.cid].position
        BY DEF FillsOK
    <2>1. g.cid \in Cid
        BY FillFacts
    <2>2. CASE g = f
        BY <1>1, <1>2, <1>3, <1>4, <1>5, <1>6, <2>1, <2>2 DEF Nowhere
    <2>3. CASE g # f
        BY <1>2, <1>3, <1>4, <1>5, <2>1, <2>3 DEF FillsOK
    <2> QED
        BY <2>2, <2>3
<1>8. Accounted(t, outside \ {f})
    <2>1. ASSUME NEW g \in Fill
          PROVE  IF g \in outside \ {f} THEN Nowhere(t, g) ELSE InOnePlace(t, g)
        <3>1. CASE g = f
            BY <1>1, <1>2, <1>4, <1>5, <1>6, <3>1 DEF Nowhere, InOnePlace
        <3>2. CASE g # f
            BY <1>2, <1>4, <1>5, <3>2 DEF Accounted, Nowhere, InOnePlace
        <3> QED
            BY <3>1, <3>2
    <2> QED
        BY <1>4, <2>1 DEF Accounted
<1>9. FillsStep(s, t)
    <2>1. Shuns(s, t)
        <3> SUFFICES ASSUME NEW g \in Fill, NEW i \in DOMAIN t.applied[g]
                     PROVE  \/ i \in DOMAIN s.applied[g] /\ t.applied[g][i] = s.applied[g][i]
                            \/ g.cid \in s.resting => t.applied[g][i] # Request[g.cid].position
            BY DEF Shuns
        <3>1. CASE g = f
            BY <1>2, <1>6, <3>1
        <3>2. CASE g # f
            BY <1>2, <3>2
        <3> QED
            BY <3>1, <3>2
    <2> QED
        <3>1. \A c : Tied(t, c) <=> Tied(s, c)
            BY DEF Booked, Tied, Known
        <3>2. StayFresh(s, t)
            BY <3>1 DEF StayFresh, Fresh, Booked
        <3> QED
            BY <1>3, <1>4, <1>5, <2>1, <3>2 DEF FillsStep
<1>10. \A c : OneLeft(s, c) => OneLeft(t, c)
    BY <1>4 DEF OneLeft
<1> QED
    BY <1>3, <1>7, <1>8, <1>9, <1>10

\* The engine is told of a fill that it does not have.
LEMMA AfterTradeKeeps ==
    ASSUME NEW s, MapsOK(s), FillsOK(s), NEW outside, NEW f \in outside, f \in Fill,
           Accounted(s, outside), setting \in Settings
    PROVE  LET t == AfterTrade(s, f) IN
           /\ MapsOK(t) /\ FillsOK(t) /\ Accounted(t, outside \ {f}) /\ FillsStep(s, t)
           /\ (\E c \in Cid \cup {None} : OneLeft(s, c)) => \E c \in Cid \cup {None} : OneLeft(t, c)
<1> DEFINE slot == Route(s, IdOf(f.cid))
           t == AfterTrade(s, f)
<1>1. /\ slot \in Slot \cup {None}
      /\ f.cid \in s.settled /\ ~Lost(s, f.cid) => slot = Request[f.cid].position
      /\ Is(s, f.cid, "OpenInFlight") => slot = None
      /\ f.cid \in s.resting => slot # Request[f.cid].position
      /\ None \notin Slot /\ Request[f.cid].position \in Slot /\ s \in InstrumentState
    BY RouteFacts, FillFacts, RequestAssumption, SettingAssumption DEF Slot, MapsOK, Bounded
<1>2. t = IF slot = None THEN [s EXCEPT !.pending = Append(@, f)] ELSE Advance(Book(s, f, slot), f)
    BY DEF AfterTrade
<1> HIDE DEF slot, t
<1>3. CASE slot = None
    <2>1. t = [s EXCEPT !.pending = Append(@, f)] /\ (f.cid \in s.settled => Lost(s, f.cid))
        BY <1>1, <1>2, <1>3
    <2>2. /\ MapsOK(t) /\ FillsOK(t) /\ Accounted(t, outside \ {f}) /\ FillsStep(s, t)
          /\ \A c : OneLeft(s, c) => OneLeft(t, c)
        <3>1. ASSUME NEW u, Pends(s, u, f)
              PROVE  /\ MapsOK(u) /\ FillsOK(u) /\ Accounted(u, outside \ {f}) /\ FillsStep(s, u)
                     /\ \A c : OneLeft(s, c) => OneLeft(u, c)
            BY <2>1, <3>1, PendingKeeps
        <3>2. Pends(s, t, f)
            BY <2>1 DEF Pends
        <3> QED
            BY <3>1, <3>2
    <2> QED
        BY <2>2 DEF t
<1>4. CASE slot # None
    <2> DEFINE b == Book(s, f, slot)
    <2>1. t = Advance(b, f) /\ slot \in Slot
        BY <1>1, <1>2, <1>4
    <2>2. Booked(s, b, f, slot)
        BY <1>1, <2>1, BookBooks
    <2> HIDE DEF b
    <2>3. /\ MapsOK(b) /\ FillsOK(b) /\ Accounted(b, outside \ {f}) /\ FillsStep(s, b)
          /\ \A c : OneLeft(s, c) => OneLeft(b, c)
        BY <1>1, <1>4, <2>1, <2>2, BookedKeeps
    <2>4. /\ MapsOK(t) /\ TablesStep(b, t) /\ StayFresh(b, t)
          /\ \/ /\ t.positionOf = b.positionOf /\ t.cidOf = b.cidOf
                /\ \A d \in Cid : t.orders[d] = None => b.orders[d] = None
             \/ OneLeft(t, None)
        BY <2>1, <2>3, AdvanceKeeps
    <2>5. FillsOK(t) /\ Accounted(t, outside \ {f})
        BY <2>3, <2>4, TablesStepKeeps
    <2>6. FillsStep(s, t)
        BY <2>3, <2>4, FillsSteps
    <2>7. \A c : OneLeft(b, c) => OneLeft(t, c) \/ OneLeft(t, None)
        <3>1. b.cidOf \in [OrderId -> Cid \cup {None}]
            BY <2>3, StateTypes DEF MapsOK, Bounded
        <3> QED
            BY <2>4, <3>1 DEF OneLeft
    <2> QED
        BY <2>3, <2>4, <2>5, <2>6, <2>7 DEF t
<1> QED
    BY <1>3, <1>4

-----------------------------------------------------------------------------
(* The replay of a queue.                                                  *)

LEMMA ReplayKeeps ==
    ASSUME NEW s, MapsOK(s), FillsOK(s), NEW fills, fills \in Seq(Fill), Distinct(fills),
           NEW outside, \A f : Holds(fills, f) => f \notin outside,
           Accounted(s, outside \cup {f \in Fill : Holds(fills, f)}), setting \in Settings
    PROVE  LET t == Replay(s, fills) IN
           MapsOK(t) /\ FillsOK(t) /\ Accounted(t, outside) /\ FillsStep(s, t)
<1> DEFINE n == Len(fills)
<1>1. PICK run : ReplayRun(run, s, fills, n) /\ Replay(s, fills) = run[n]
    BY ReplayRuns
<1>2. n \in Nat /\ DOMAIN fills = 1..n /\ \A i \in 1..n : fills[i] \in Fill
    OBVIOUS
<1> DEFINE Left(i) == outside \cup {f \in Fill : \E j \in (i + 1)..n : fills[j] = f}
           Right(i) == /\ MapsOK(run[i]) /\ FillsOK(run[i]) /\ Accounted(run[i], Left(i))
                       /\ FillsStep(s, run[i])
           S == {i \in 0..n : Right(i)}
<1> HIDE DEF n
<1>3. 0 \in S
    <2>1. run[0] = s
        BY <1>1, <1>2 DEF ReplayRun
    <2>2. Left(0) = outside \cup {f \in Fill : Holds(fills, f)}
        BY <1>2 DEF Holds
    <2>3. FillsStep(s, s)
        BY FillsSteps
    <2> HIDE DEF Left
    <2>4. Right(0)
        BY <2>1, <2>2, <2>3
    <2>5. 0 \in 0..n
        BY <1>2
    <2> HIDE DEF Right
    <2> QED
        BY <2>4, <2>5
<1>4. ASSUME NEW i \in 0..(n - 1), i \in S
      PROVE  i + 1 \in S
    <2>1. /\ i + 1 \in 0..n /\ i + 1 \in 1..n /\ i + 1 # 0 /\ (i + 1) - 1 = i
          /\ (i + 1)..n = {i + 1} \cup ((i + 1) + 1)..n /\ i + 1 \notin ((i + 1) + 1)..n
          /\ ((i + 1) + 1)..n \subseteq 1..n
        BY <1>2
    <2>2. run[i + 1] = AfterTrade(run[i], fills[i + 1])
        BY <1>1, <2>1 DEF ReplayRun
    <2>3. Right(i)
        BY <1>4
    <2>4. fills[i + 1] \in Fill /\ fills[i + 1] \in Left(i) /\ fills[i + 1] \notin outside
        BY <1>2, <2>1 DEF Holds
    <2>5. Left(i + 1) = Left(i) \ {fills[i + 1]}
        <3>1. \A j \in ((i + 1) + 1)..n : fills[j] # fills[i + 1]
            BY <1>2, <2>1 DEF Distinct
        <3>2. ASSUME NEW f
              PROVE  (\E j \in (i + 1)..n : fills[j] = f)
                        <=> f = fills[i + 1] \/ \E j \in ((i + 1) + 1)..n : fills[j] = f
            BY <2>1
        <3> QED
            BY <2>4, <3>1, <3>2
    <2> DEFINE L == Left(i)
               f == fills[i + 1]
               t == run[i]
               u == run[i + 1]
    <2>6. /\ MapsOK(t) /\ FillsOK(t) /\ Accounted(t, L) /\ FillsStep(s, t)
          /\ f \in L /\ f \in Fill /\ u = AfterTrade(t, f) /\ Left(i + 1) = L \ {f}
        BY <2>2, <2>3, <2>4, <2>5
    <2> HIDE DEF Left, L, f, t, u
    <2>7. MapsOK(u) /\ FillsOK(u) /\ Accounted(u, L \ {f}) /\ FillsStep(t, u)
        BY <2>6, AfterTradeKeeps
    <2>8. FillsStep(s, u)
        BY <2>6, <2>7, FillsSteps
    <2>9. Right(i + 1)
        BY <2>6, <2>7, <2>8 DEF u
    <2> QED
        BY <2>1, <2>9
<1>5. n \in S
    <2> HIDE DEF S
    <2>1. \A i \in 0..n : i \in S
        BY <1>2, <1>3, <1>4, Induction
    <2> QED
        BY <1>2, <2>1
<1>6. Right(n) /\ Left(n) = outside
    BY <1>2, <1>5
<1> QED
    BY <1>1, <1>6

-----------------------------------------------------------------------------
(* A report.                                                               *)

\* What tying the ids of an order changes, and a queue that loses its fills.
Settled(s, after, t, c) ==
    /\ t \in InstrumentState
    /\ t.orders = after.orders /\ t.over = after.over /\ t.routing = after.routing
    /\ t.applied = after.applied /\ t.drained = after.drained
    /\ t.evicted = after.evicted /\ t.closed = after.closed
    /\ t.unmapped = after.unmapped /\ t.resting = after.resting
    /\ t.settled = IF Is(s, c, "OpenInFlight") THEN after.settled \cup {c} ELSE after.settled
    /\ t.cidOf[IdOf(c)] = c
    /\ \A i \in OrderId : i # IdOf(c) => t.cidOf[i] = after.cidOf[i]
    /\ t.positionOf[c] = IF after.positionOf[c] = None THEN s.positionOf[c] ELSE after.positionOf[c]
    /\ \A d \in Cid : d # c => t.positionOf[d] = after.positionOf[d]
    /\ Distinct(t.pending)
    /\ \A f \in Fill : Waits(t, f) <=> Waits(after, f) /\ f.cid # c

\* What has become of the order when its ids are tied.
Answered(s, after, c) ==
    /\ TablesStep(s, after) /\ Told(after, c)
    /\ after.positionOf[c] \in {None, s.positionOf[c]}
    /\ Is(s, c, "OpenInFlight") \/ Is(s, c, "Open")

LEMMA SettledKeepsMaps ==
    ASSUME NEW s, MapsOK(s), NEW c \in Cid, NEW after, MapsOK(after), Answered(s, after, c),
           NEW t, Settled(s, after, t, c)
    PROVE  /\ MapsOK(t)
           /\ \A d \in Cid : Lost(t, d) <=> Lost(after, d)
           /\ \A d \in Cid : d # c => (Tied(t, d) <=> Tied(after, d))
<1>1. /\ \A d \in Cid : IdOf(d) \in OrderId /\ Request[d].position \in Position
      /\ \A d \in Cid : d # c => IdOf(d) # IdOf(c)
      /\ None \notin Cid /\ None \notin Position
      /\ s.settled \subseteq Cid /\ s.resting \subseteq Cid
      /\ after.settled \subseteq Cid /\ after.resting \subseteq Cid
    BY StateTypes, RequestAssumption, SettingAssumption DEF Slot, MapsOK, Bounded
<1>2. /\ \A d \in Cid : Known(t, d) <=> Known(after, d)
      /\ \A d \in Cid : Lost(t, d) <=> Lost(after, d)
    BY DEF Settled, Known, Lost
<1>3. \A d \in Cid : d # c => (Tied(t, d) <=> Tied(after, d))
    BY <1>1, <1>2 DEF Settled, Tied
<1>4. Bounded(t)
    BY DEF Settled, MapsOK, Bounded
<1>5. TablesOK(t)
    <2>1. \A d \in Cid : t.positionOf[d] \in {None, Request[d].position}
        BY DEF Settled, MapsOK, TablesOK
    <2>2. \A i \in OrderId : t.cidOf[i] # None => i = IdOf(t.cidOf[i])
        BY DEF Settled, MapsOK, TablesOK
    <2>3. \A i \in DOMAIN t.routing, d \in Cid :
            t.routing[i].id = IdOf(d) => t.routing[i].position = Request[d].position
        BY DEF Settled, MapsOK, TablesOK
    <2> QED
        BY <2>1, <2>2, <2>3 DEF TablesOK
<1>6. OrdersOK(t)
    <2>1. ASSUME NEW d \in Cid, t.orders[d] # None
          PROVE  /\ d \notin t.over
                 /\ t.orders[d].id \in {None, IdOf(d)}
                 /\ t.orders[d].status = "OpenInFlight" =>
                        t.orders[d].id = None /\ t.orders[d].filled = 0
                 /\ t.orders[d].status = "Open" => t.orders[d].id = IdOf(d)
                 /\ Tied(t, d) => t.orders[d].id = IdOf(d)
                 /\ ~Known(t, d)
        <3>1. t.orders[d] = after.orders[d] /\ t.over = after.over
            BY DEF Settled
        <3>2. Tied(t, d) => t.orders[d].id = IdOf(d)
            BY <1>3, <2>1, <3>1 DEF Answered, Told, MapsOK, OrdersOK
        <3> QED
            BY <1>2, <2>1, <3>1, <3>2 DEF MapsOK, OrdersOK
    <2>2. ASSUME NEW d \in Cid, t.orders[d] = None, Tied(t, d)
          PROVE  d \in t.over
        <3>1. t.orders[d] = after.orders[d] /\ t.over = after.over
            BY DEF Settled
        <3> QED
            BY <1>3, <2>2, <3>1 DEF Answered, Told, MapsOK, OrdersOK
    <2> QED
        BY <2>1, <2>2 DEF OrdersOK
<1>7. Routed(t)
    <2>1. ASSUME NEW d \in Cid, Is(t, d, "OpenInFlight"), d \notin t.unmapped
          PROVE  t.positionOf[d] = Request[d].position
        <3>1. d # c
            BY <2>1 DEF Settled, Answered, Told, Is
        <3> QED
            BY <2>1, <3>1 DEF Settled, MapsOK, Routed, Is
    <2>2. ASSUME NEW d \in t.settled
          PROVE  \/ t.cidOf[IdOf(d)] = d /\ t.positionOf[d] = Request[d].position
                 \/ Known(t, d) \/ Lost(t, d)
        <3>1. CASE d # c
            <4>1. d \in after.settled /\ d \in Cid
                BY <1>1, <2>2, <3>1 DEF Settled
            <4> QED
                BY <1>1, <1>2, <3>1, <4>1 DEF Settled, MapsOK, Routed
        <3>2. CASE d = c /\ s.positionOf[c] = Request[c].position
            BY <3>2 DEF Settled, Answered
        <3>3. CASE d = c /\ s.positionOf[c] # Request[c].position
            <4>1. Lost(s, c)
                <5>1. CASE Is(s, c, "OpenInFlight")
                    BY <3>3, <5>1 DEF MapsOK, Routed, Lost
                <5>2. CASE ~Is(s, c, "OpenInFlight")
                    <6>1. c \in s.settled /\ ~Known(s, c)
                        BY <2>2, <3>3, <5>2 DEF Settled, Answered, TablesStep, MapsOK, OrdersOK, Is
                    <6> QED
                        BY <3>3, <6>1 DEF MapsOK, Routed
                <5> QED
                    BY <5>1, <5>2
            <4> QED
                BY <1>2, <3>3, <4>1 DEF Answered, TablesStep
        <3> QED
            BY <3>1, <3>2, <3>3
    <2>3. ASSUME NEW d \in t.resting
          PROVE  t.positionOf[d] = None /\ ~Known(t, d)
        <3>1. /\ d \in Cid /\ d \in after.resting /\ d \in s.resting
            BY <1>1, <2>3 DEF Settled, Answered, TablesStep
        <3>2. s.positionOf[d] = None /\ after.positionOf[d] = None /\ ~Known(after, d)
            BY <3>1 DEF MapsOK, Routed
        <3> QED
            BY <1>2, <3>1, <3>2 DEF Settled
    <2>4. t.resting \subseteq t.unmapped
        BY DEF Settled, MapsOK, Routed
    <2> QED
        BY <2>1, <2>2, <2>3, <2>4 DEF Routed
<1> QED
    BY <1>2, <1>3, <1>4, <1>5, <1>6, <1>7 DEF MapsOK

LEMMA SettledKeepsFills ==
    ASSUME NEW s, MapsOK(s), FillsOK(s), NEW c \in Cid, NEW after, MapsOK(after),
           FillsOK(after), Answered(s, after, c), NEW t, Settled(s, after, t, c),
           NEW outside, Accounted(after, outside)
    PROVE  /\ FillsOK(t)
           /\ Accounted(t, outside \cup {f \in Fill : Waits(after, f) /\ f.cid = c})
           /\ OneLeft(after, None) => OneLeft(t, c)
<1>1. \A d \in Cid : Lost(t, d) <=> Lost(after, d)
    BY SettledKeepsMaps
<1>2. FillsOK(t)
    <2> SUFFICES ASSUME NEW g \in Fill
                 PROVE  /\ Is(t, g.cid, "OpenInFlight") => g \notin t.drained /\ t.applied[g] = <<>>
                        /\ g.cid \in t.settled /\ ~Lost(t, g.cid) =>
                            /\ ~Waits(t, g) /\ g \notin t.drained
                            /\ \A i \in DOMAIN t.applied[g] : t.applied[g][i] = Request[g.cid].position
        BY DEF FillsOK
    <2>1. g.cid \in Cid
        BY FillFacts
    <2>2. t.orders = after.orders /\ t.drained = after.drained /\ t.applied = after.applied
        BY DEF Settled
    <2>3. Is(t, g.cid, "OpenInFlight") => g \notin t.drained /\ t.applied[g] = <<>>
        BY <2>2 DEF FillsOK, Is
    <2>4. ASSUME g.cid \in t.settled, ~Lost(t, g.cid)
          PROVE  /\ ~Waits(t, g) /\ g \notin t.drained
                 /\ \A i \in DOMAIN t.applied[g] : t.applied[g][i] = Request[g.cid].position
        <3>1. CASE g.cid \in after.settled
            BY <1>1, <2>1, <2>2, <2>4, <3>1 DEF FillsOK, Settled
        <3>2. CASE g.cid \notin after.settled
            <4>1. g.cid = c /\ Is(s, c, "OpenInFlight")
                BY <2>4, <3>2 DEF Settled
            <4>2. g \notin s.drained /\ s.applied[g] = <<>> /\ ~Waits(t, g)
                BY <4>1 DEF FillsOK, Settled
            <4> QED
                BY <2>2, <4>2 DEF Answered, TablesStep
        <3> QED
            BY <3>1, <3>2
    <2> QED
        BY <2>3, <2>4
<1>3. Accounted(t, outside \cup {f \in Fill : Waits(after, f) /\ f.cid = c})
    <2> SUFFICES ASSUME NEW g \in Fill
                 PROVE  IF g \in outside \cup {f \in Fill : Waits(after, f) /\ f.cid = c}
                        THEN Nowhere(t, g) ELSE InOnePlace(t, g)
        BY DEF Accounted, Settled
    <2>1. t.drained = after.drained /\ t.applied = after.applied
          /\ (Waits(t, g) <=> Waits(after, g) /\ g.cid # c)
        BY DEF Settled
    <2> QED
        BY <2>1 DEF Accounted, Nowhere, InOnePlace
<1>4. ASSUME OneLeft(after, None)
      PROVE  OneLeft(t, c)
    <2>1. after.positionOf \in [Cid -> Position \cup {None}] /\ None \notin Cid
          /\ after.cidOf \in [OrderId -> Cid \cup {None}]
        BY StateTypes, SettingAssumption DEF MapsOK, Bounded
    <2>2. ASSUME NEW d \in Cid, t.orders[d] = None, t.positionOf[d] # None
          PROVE  d = c
        BY <1>4, <2>1, <2>2 DEF Settled, OneLeft
    <2>3. ASSUME NEW i \in OrderId, t.cidOf[i] # None, t.orders[t.cidOf[i]] = None
          PROVE  t.cidOf[i] = c
        BY <1>4, <2>1, <2>3 DEF Settled, OneLeft
    <2> QED
        BY <2>2, <2>3 DEF OneLeft
<1> QED
    BY <1>2, <1>3, <1>4

\* What a handler keeps.
Handled(s, t, outside) ==
    /\ MapsOK(t) /\ FillsOK(t) /\ Accounted(t, outside) /\ Shuns(s, t)
    /\ \E c \in Cid \cup {None} : OneLeft(t, c)

LEMMA SettleSettles ==
    ASSUME NEW s, MapsOK(s), NEW c \in Cid, NEW after, MapsOK(after), NEW queue \in Seq(Fill),
           Distinct(queue), \A f \in Fill : Holds(queue, f) <=> Waits(after, f) /\ f.cid # c,
           NEW t, t = [Settle(after, s, c) EXCEPT !.pending = queue]
    PROVE  Settled(s, after, t, c)
<1> DEFINE settled == IF Is(s, c, "OpenInFlight") THEN after.settled \cup {c} ELSE after.settled
           cidOf == [after.cidOf EXCEPT ![IdOf(c)] = c]
           position == IF after.positionOf[c] = None THEN s.positionOf[c] ELSE after.positionOf[c]
           positionOf == [after.positionOf EXCEPT ![c] = position]
           tied == Settle(after, s, c)
<1>1. /\ after \in InstrumentState /\ s \in InstrumentState /\ IdOf(c) \in OrderId
      /\ after.cidOf \in [OrderId -> Cid \cup {None}] /\ after.settled \subseteq Cid
      /\ after.positionOf \in [Cid -> Position \cup {None}]
      /\ s.positionOf \in [Cid -> Position \cup {None}]
    BY StateTypes, RequestAssumption DEF MapsOK, Bounded
<1>2. tied = [after EXCEPT !.cidOf = cidOf, !.positionOf = positionOf, !.settled = settled]
    BY DEF Settle
<1>3. /\ cidOf \in [OrderId -> Cid \cup {None}] /\ settled \subseteq Cid
      /\ positionOf \in [Cid -> Position \cup {None}]
      /\ cidOf[IdOf(c)] = c /\ \A i \in OrderId : i # IdOf(c) => cidOf[i] = after.cidOf[i]
      /\ positionOf[c] = position /\ \A d \in Cid : d # c => positionOf[d] = after.positionOf[d]
    BY <1>1
<1> HIDE DEF tied, cidOf, positionOf
<1>4. t = [tied EXCEPT !.pending = queue]
    BY DEF tied
<1>5. /\ tied \in InstrumentState
      /\ tied.orders = after.orders /\ tied.over = after.over /\ tied.routing = after.routing
      /\ tied.applied = after.applied /\ tied.drained = after.drained
      /\ tied.evicted = after.evicted /\ tied.closed = after.closed
      /\ tied.unmapped = after.unmapped /\ tied.resting = after.resting
      /\ tied.settled = settled /\ tied.cidOf = cidOf /\ tied.positionOf = positionOf
    <2> HIDE DEF settled
    <2> QED
        BY <1>1, <1>2, <1>3 DEF InstrumentState
<1>6. /\ t \in InstrumentState /\ t.pending = queue
      /\ t.orders = after.orders /\ t.over = after.over /\ t.routing = after.routing
      /\ t.applied = after.applied /\ t.drained = after.drained
      /\ t.evicted = after.evicted /\ t.closed = after.closed
      /\ t.unmapped = after.unmapped /\ t.resting = after.resting
      /\ t.settled = settled /\ t.cidOf = cidOf /\ t.positionOf = positionOf
    <2> HIDE DEF settled
    <2> QED
        BY <1>4, <1>5 DEF InstrumentState
<1> QED
    BY <1>3, <1>6 DEF Settled, Waits

LEMMA AfterReportKeeps ==
    ASSUME NEW s, MapsOK(s), FillsOK(s), NEW outside, Accounted(s, outside),
           NEW r \in Report, setting \in Settings
    PROVE  LET t == AfterReport(s, r) IN
           /\ Handled(s, t, outside)
           /\ \A d \in Cid : d # r.cid /\ Fresh(s, d) => Fresh(t, d)
<1> DEFINE c == r.cid
           told == OrdersAfterReport(s, r)
           after == Cleanup(told)
           settled == Settle(after, s, c)
           ofOrder == {f \in Fill : IdOf(f.cid) = IdOf(c)}
           waiting == [settled EXCEPT !.pending = Among(@, Fill \ ofOrder)]
           mine == Among(s.pending, ofOrder)
           t == AfterReport(s, r)
<1>1. c \in Cid
    BY ReportFacts
<1>2. /\ OrderMoves(s, told, c)
      /\ Settles(s, r) => Told(told, c)
    BY ReportMoves
<1> HIDE DEF told
<1>3. MapsOK(told) /\ TablesStep(s, told)
    BY <1>1, <1>2, OrderMovesKeeps, TablesSteps
<1>4. /\ Cleaned(told, after) /\ MapsOK(after) /\ OneLeft(after, None) /\ TablesStep(told, after)
    BY <1>3, CleanupKeepsMaps, TablesSteps
<1> HIDE DEF after
<1>5. TablesStep(s, after)
    BY <1>3, <1>4, TablesSteps
<1>6. FillsOK(after) /\ Accounted(after, outside)
    BY <1>5, TablesStepKeeps
<1>7. \A d \in Cid : d # c /\ Fresh(s, d) => Fresh(after, d)
    BY <1>1, <1>2, <1>4, FreshSteps DEF StayFresh
<1>8. t = CASE ~Settles(s, r) -> after
            [] Settles(s, r) /\ s.pending = <<>> -> settled
            [] OTHER -> Cleanup(Replay(waiting, mine))
    BY DEF AfterReport, after, told
<1>9. after.pending = s.pending /\ after.applied = s.applied /\ after.resting = s.resting
    BY <1>5 DEF TablesStep
<1>10. CASE ~Settles(s, r)
    <2>1. t = after
        BY <1>8, <1>10
    <2>2. Shuns(s, after)
        BY <1>9 DEF Shuns
    <2> HIDE DEF t
    <2> QED
        BY <1>4, <1>6, <1>7, <2>1, <2>2 DEF Handled, t
<1>11. CASE Settles(s, r)
    <2>1. Answered(s, after, c)
        <3>1. Told(after, c)
            BY <1>2, <1>4, <1>11 DEF Told, Cleaned, Is
        <3>2. after.positionOf[c] \in {None, s.positionOf[c]}
            BY <1>1, <1>2, <1>4 DEF OrderMoves, OrderChanges, Cleaned
        <3> QED
            BY <1>5, <1>11, <3>1, <3>2 DEF Answered, Settles
    <2>2. s.pending \in Seq(Fill) /\ Distinct(s.pending)
        BY StateTypes DEF MapsOK, Bounded, Accounted
    <2>3. ofOrder = {f \in Fill : f.cid = c}
        BY <1>1, FillFacts, RequestAssumption
    <2>4. ASSUME NEW u, Settled(s, after, u, c)
          PROVE  \A d \in Cid : d # c /\ Fresh(after, d) => Fresh(u, d)
        <3>1. \A d \in Cid : d # c => (Tied(u, d) <=> Tied(after, d))
            BY <1>1, <1>4, <2>1, <2>4, SettledKeepsMaps
        <3> QED
            BY <2>4, <3>1 DEF Settled, Fresh
    <2>5. ASSUME NEW u, Settled(s, after, u, c)
          PROVE  /\ MapsOK(u) /\ FillsOK(u) /\ OneLeft(u, c) /\ Shuns(s, u)
                 /\ Accounted(u, outside \cup {f \in Fill : Waits(after, f) /\ f.cid = c})
                 /\ u.resting = s.resting
        <3>1. MapsOK(u) /\ FillsOK(u) /\ OneLeft(u, c)
              /\ Accounted(u, outside \cup {f \in Fill : Waits(after, f) /\ f.cid = c})
            BY <1>1, <1>4, <1>6, <2>1, <2>5, SettledKeepsMaps, SettledKeepsFills
        <3>2. Shuns(s, u) /\ u.resting = s.resting
            BY <1>9, <2>5 DEF Settled, Shuns
        <3> QED
            BY <3>1, <3>2
    <2>6. after \in InstrumentState
        BY <1>4 DEF MapsOK, Bounded
    <2>7. CASE s.pending = <<>>
        <3>1. t = settled
            BY <1>8, <1>11, <2>7
        <3>2. \A f : ~Waits(after, f)
            BY <1>9, <2>7 DEF Waits, Holds
        <3>3. settled = [Settle(after, s, c) EXCEPT !.pending = <<>>]
            <4>1. settled.pending = <<>> /\ settled = [settled EXCEPT !.pending = settled.pending]
                BY <1>9, <2>6, <2>7 DEF Settle, InstrumentState
            <4> QED
                BY <4>1
        <3>4. <<>> \in Seq(Fill) /\ Distinct(<<>>) /\ \A f : ~Holds(<<>>, f)
            BY DEF Distinct, Holds
        <3> DEFINE u == settled
        <3> HIDE DEF u
        <3>5. u = [Settle(after, s, c) EXCEPT !.pending = <<>>]
            BY <3>3 DEF u
        <3>6. Settled(s, after, u, c)
            BY <1>1, <1>4, <3>2, <3>4, <3>5, SettleSettles
        <3>7. Accounted(u, outside)
            <4>1. {f \in Fill : Waits(after, f) /\ f.cid = c} = {}
                BY <3>2
            <4>2. outside \cup {} = outside
                OBVIOUS
            <4> QED
                BY <2>5, <3>6, <4>1, <4>2
        <3>8. Handled(s, u, outside) /\ \A d \in Cid : d # c /\ Fresh(s, d) => Fresh(u, d)
            BY <1>1, <1>7, <2>4, <2>5, <3>6, <3>7 DEF Handled
        <3> QED
            BY <3>1, <3>8 DEF u
    <2>8. CASE s.pending # <<>>
        <3> DEFINE others == Among(s.pending, Fill \ ofOrder)
        <3>1. t = Cleanup(Replay(waiting, mine))
            BY <1>8, <1>11, <2>8
        <3>2. /\ others \in Seq(Fill) /\ Distinct(others)
              /\ \A f \in Fill : Holds(others, f) <=> f.cid # c /\ Waits(after, f)
            <4>1. /\ others \in Seq(Fill) /\ Distinct(others)
                  /\ \A f : Holds(others, f) <=> f \in Fill \ ofOrder /\ Holds(s.pending, f)
                BY <2>2, AmongKeeps
            <4> QED
                BY <1>9, <2>3, <4>1 DEF Waits
        <3>3. /\ mine \in Seq(Fill) /\ Distinct(mine)
              /\ \A f : Holds(mine, f) <=> f \in Fill /\ f.cid = c /\ Waits(after, f)
            <4>1. /\ mine \in Seq(Fill) /\ Distinct(mine)
                  /\ \A f : Holds(mine, f) <=> f \in ofOrder /\ Holds(s.pending, f)
                BY <2>2, AmongKeeps
            <4> QED
                BY <1>9, <2>3, <4>1 DEF Waits
        <3>4. waiting = [Settle(after, s, c) EXCEPT !.pending = others]
            <4>1. settled.pending = s.pending
                BY <1>9 DEF Settle
            <4> QED
                BY <4>1
        <3> HIDE DEF waiting, mine, others
        <3>5. Settled(s, after, waiting, c)
            BY <1>1, <1>4, <3>2, <3>4, SettleSettles
        <3> DEFINE replayed == Replay(waiting, mine)
        <3>6. \A f : Holds(mine, f) => f \notin outside
            BY <1>6, <3>3 DEF Accounted, Nowhere
        <3>7. Accounted(waiting, outside \cup {f \in Fill : Holds(mine, f)})
            <4>1. {f \in Fill : Holds(mine, f)} = {f \in Fill : Waits(after, f) /\ f.cid = c}
                BY <3>3
            <4> QED
                BY <2>5, <3>5, <4>1
        <3>8. MapsOK(replayed) /\ FillsOK(replayed) /\ Accounted(replayed, outside)
              /\ FillsStep(waiting, replayed)
            BY <2>5, <3>3, <3>5, <3>6, <3>7, ReplayKeeps
        <3> HIDE DEF replayed
        <3> DEFINE u == Cleanup(replayed)
        <3>9. /\ MapsOK(u) /\ Cleaned(replayed, u) /\ OneLeft(u, None)
              /\ TablesStep(replayed, u) /\ StayFresh(replayed, u)
            BY <3>8, CleanupKeepsMaps, TablesSteps, FreshSteps
        <3> HIDE DEF u
        <3>10. FillsOK(u) /\ Accounted(u, outside) /\ FillsStep(waiting, u)
            BY <3>8, <3>9, TablesStepKeeps, FillsSteps
        <3>11. Shuns(s, u)
            <4>1. waiting.applied = s.applied /\ waiting.resting = s.resting
                BY <1>9, <2>5, <3>5 DEF Settled
            <4> QED
                BY <3>10, <4>1 DEF FillsStep, Shuns
        <3>12. \A d \in Cid : d # c /\ Fresh(s, d) => Fresh(u, d)
            BY <1>7, <2>4, <3>5, <3>10 DEF FillsStep, StayFresh
        <3>13. Handled(s, u, outside)
            BY <3>9, <3>10, <3>11 DEF Handled
        <3>14. t = u
            BY <3>1 DEF u, replayed
        <3> HIDE DEF t
        <3> QED
            BY <3>12, <3>13, <3>14 DEF t
    <2> QED
        BY <2>7, <2>8
<1> QED
    BY <1>10, <1>11

-----------------------------------------------------------------------------
(* The other handlers.                                                     *)

LEMMA MovesKeep ==
    ASSUME NEW s, MapsOK(s), FillsOK(s), NEW outside, Accounted(s, outside), NEW c \in Cid,
           NEW t, OrderMoves(s, t, c)
    PROVE  MapsOK(t) /\ FillsOK(t) /\ Accounted(t, outside) /\ Shuns(s, t)
<1>1. MapsOK(t) /\ TablesStep(s, t)
    BY OrderMovesKeeps, TablesSteps
<1>2. FillsOK(t) /\ Accounted(t, outside)
    BY <1>1, TablesStepKeeps
<1>3. Shuns(s, t)
    BY <1>1 DEF TablesStep, Shuns
<1> QED
    BY <1>1, <1>2, <1>3

\* What waits is discarded when no open request is unanswered.
Drains(s, t) ==
    t = [s EXCEPT !.pending = <<>>, !.drained = @ \cup {s.pending[i] : i \in DOMAIN s.pending}]

LEMMA DrainKeeps ==
    ASSUME NEW s, MapsOK(s), FillsOK(s), NEW outside, Accounted(s, outside), NoneCanAnswer(s),
           NEW t, Drains(s, t)
    PROVE  /\ MapsOK(t) /\ FillsOK(t) /\ Accounted(t, outside) /\ Shuns(s, t) /\ StayFresh(s, t)
           /\ \A c : OneLeft(s, c) => OneLeft(t, c)
<1> DEFINE waiting == {s.pending[i] : i \in DOMAIN s.pending}
<1>1. /\ s \in InstrumentState /\ s.pending \in Seq(Fill) /\ s.settled \subseteq Cid
      /\ s.drained \subseteq Fill /\ s.resting \subseteq Cid
    BY StateTypes DEF MapsOK, Bounded
<1>2. waiting \subseteq Fill /\ \A f : f \in waiting <=> Waits(s, f)
    BY <1>1 DEF Waits, Holds
<1>3. t = [s EXCEPT !.pending = <<>>, !.drained = @ \cup waiting]
    BY DEF Drains
<1> HIDE DEF waiting
<1>4. /\ t \in InstrumentState /\ t.pending = <<>> /\ t.drained = s.drained \cup waiting
      /\ t.orders = s.orders /\ t.over = s.over /\ t.cidOf = s.cidOf /\ t.routing = s.routing
      /\ t.positionOf = s.positionOf /\ t.applied = s.applied
      /\ t.settled = s.settled /\ t.closed = s.closed
      /\ t.evicted = s.evicted /\ t.unmapped = s.unmapped /\ t.resting = s.resting
    <2> DEFINE none == <<>>
               more == s.drained \cup waiting
    <2>1. none \in Seq(Fill) /\ more \subseteq Fill
        BY <1>1, <1>2
    <2>2. t = [s EXCEPT !.pending = none, !.drained = more]
        BY <1>3
    <2> HIDE DEF none, more
    <2>3. /\ t \in InstrumentState /\ t.pending = none /\ t.drained = more
          /\ t.orders = s.orders /\ t.over = s.over /\ t.cidOf = s.cidOf /\ t.routing = s.routing
          /\ t.positionOf = s.positionOf /\ t.applied = s.applied
          /\ t.settled = s.settled /\ t.closed = s.closed
          /\ t.evicted = s.evicted /\ t.unmapped = s.unmapped /\ t.resting = s.resting
        BY <1>1, <2>1, <2>2 DEF InstrumentState
    <2> QED
        BY <2>3 DEF none, more
<1>5. /\ \A c : Known(t, c) <=> Known(s, c)
      /\ \A c : Tied(t, c) <=> Tied(s, c)
      /\ \A c : Lost(t, c) <=> Lost(s, c)
      /\ \A c : Is(t, c, "OpenInFlight") <=> Is(s, c, "OpenInFlight")
    BY <1>4 DEF Known, Tied, Lost, Is
<1>6. \A f : ~Waits(t, f)
    BY <1>4 DEF Waits, Holds
<1>7. MapsOK(t)
    <2>1. Bounded(t) /\ TablesOK(t)
        BY <1>4 DEF MapsOK, Bounded, TablesOK
    <2>2. OrdersOK(t)
        BY <1>4, <1>5 DEF MapsOK, OrdersOK
    <2>3. Routed(t)
        BY <1>1, <1>4, <1>5 DEF MapsOK, Routed
    <2> QED
        BY <2>1, <2>2, <2>3 DEF MapsOK
<1>8. FillsOK(t)
    <2> SUFFICES ASSUME NEW g \in Fill
                 PROVE  /\ Is(t, g.cid, "OpenInFlight") => g \notin t.drained /\ t.applied[g] = <<>>
                        /\ g.cid \in t.settled /\ ~Lost(t, g.cid) =>
                            /\ ~Waits(t, g) /\ g \notin t.drained
                            /\ \A i \in DOMAIN t.applied[g] : t.applied[g][i] = Request[g.cid].position
        BY DEF FillsOK
    <2>1. ~Is(s, g.cid, "OpenInFlight")
        BY FillFacts DEF NoneCanAnswer, SomeInFlight
    <2> QED
        BY <1>2, <1>4, <1>5, <1>6, <2>1 DEF FillsOK
<1>9. Accounted(t, outside)
    <2>1. Distinct(t.pending)
        BY <1>4 DEF Distinct
    <2>2. ASSUME NEW g \in Fill
          PROVE  IF g \in outside THEN Nowhere(t, g) ELSE InOnePlace(t, g)
        BY <1>2, <1>4, <1>6 DEF Accounted, Nowhere, InOnePlace
    <2> QED
        BY <2>1, <2>2 DEF Accounted
<1>10. Shuns(s, t) /\ StayFresh(s, t) /\ \A c : OneLeft(s, c) => OneLeft(t, c)
    BY <1>4, <1>5 DEF Shuns, StayFresh, Fresh, OneLeft
<1> QED
    BY <1>7, <1>8, <1>9, <1>10

LEMMA AfterCancelKeeps ==
    ASSUME NEW s, MapsOK(s), FillsOK(s), NEW outside, Accounted(s, outside), NEW c \in Cid,
           NEW ok \in BOOLEAN, setting \in Settings
    PROVE  LET t == AfterCancelResponse(s, c, ok) IN
           Handled(s, t, outside) /\ StayFresh(s, t)
<1> DEFINE told == OrdersAfterCancel(s, c, ok)
           after == Cleanup(told)
           drained == [after EXCEPT !.pending = <<>>,
                          !.drained = @ \cup {after.pending[i] : i \in DOMAIN after.pending}]
           t == AfterCancelResponse(s, c, ok)
<1>1. OrderMoves(s, told, c)
    BY CancelMoves
<1>2. s.orders[c] = None => told = s
    BY DEF OrdersAfterCancel, Is
<1> HIDE DEF told
<1>3. MapsOK(told) /\ FillsOK(told) /\ Accounted(told, outside) /\ Shuns(s, told)
    BY <1>1, MovesKeep
<1>4. StayFresh(s, told)
    BY <1>1, <1>2, FreshSteps DEF StayFresh, Fresh
<1>5. /\ MapsOK(after) /\ OneLeft(after, None) /\ TablesStep(told, after)
      /\ StayFresh(told, after)
    BY <1>3, CleanupKeepsMaps, TablesSteps, FreshSteps
<1>6. t = IF ~NoneCanAnswer(after) THEN after ELSE drained
    BY DEF AfterCancelResponse, told
<1> HIDE DEF after
<1>7. /\ FillsOK(after) /\ Accounted(after, outside) /\ Shuns(s, after) /\ StayFresh(s, after)
      /\ after.resting = s.resting
    <2>1. FillsOK(after) /\ Accounted(after, outside)
        BY <1>3, <1>5, TablesStepKeeps
    <2>2. after.resting = s.resting /\ after.applied = s.applied
        BY <1>1, <1>5 DEF TablesStep, OrderMoves, OrderChanges
    <2> QED
        BY <1>4, <1>5, <2>1, <2>2 DEF StayFresh, Shuns
<1>8. CASE ~NoneCanAnswer(after)
    <2>1. t = after
        BY <1>6, <1>8
    <2> HIDE DEF t
    <2> QED
        BY <1>5, <1>7, <2>1 DEF Handled, t
<1>9. CASE NoneCanAnswer(after)
    <2>1. t = drained
        BY <1>6, <1>9
    <2>2. /\ MapsOK(drained) /\ FillsOK(drained) /\ Accounted(drained, outside)
          /\ Shuns(after, drained) /\ StayFresh(after, drained) /\ OneLeft(drained, None)
        <3>1. Drains(after, drained)
            BY DEF Drains
        <3> HIDE DEF drained
        <3> QED
            BY <1>5, <1>7, <1>9, <3>1, DrainKeeps
    <2>3. drained.applied = after.applied
        OBVIOUS
    <2> HIDE DEF drained, t
    <2>4. Shuns(s, drained) /\ StayFresh(s, drained)
        BY <1>7, <2>2, <2>3 DEF Shuns, StayFresh
    <2> QED
        BY <2>1, <2>2, <2>4 DEF Handled, t
<1> QED
    BY <1>8, <1>9

-----------------------------------------------------------------------------
(* The steps.                                                              *)

\* What a step makes of the invariant, from what its handler keeps.
LEMMA StepKeeps ==
    ASSUME Handled(state, state', OutsideFills'), VenueOK', UnsentOK', flying' \subseteq Fill,
           \A f \in flying' : Executed(f)', cancels' \subseteq Cid, setting' \in Settings
    PROVE  RoutingInv' /\ Shuns(state, state')
    BY DEF RoutingInv, Handled

LEMMA SettingKeeps == setting' = setting /\ RoutingInv => setting' \in Settings
    BY DEF RoutingInv

LEMMA InitKeeps == Init => RoutingInv
<1> SUFFICES ASSUME Init PROVE RoutingInv
    OBVIOUS
<1>1. /\ None \notin Cid \cup Slot \cup Order /\ MaxRouting \in Nat /\ MaxRouting >= 1
      /\ \A c \in Cid : Quantity(c) \in Nat /\ Quantity(c) >= 1 /\ IdOf(c) \in OrderId
                        /\ Request[c].position \in Position
    BY RequestAssumption, SettingAssumption
<1>2. /\ state.orders = [c \in Cid |-> None] /\ state.over = {}
      /\ state.positionOf = [c \in Cid |-> None] /\ state.cidOf = [i \in OrderId |-> None]
      /\ state.routing = <<>> /\ state.pending = <<>> /\ state.held = [p \in Slot |-> 0]
      /\ state.applied = [f \in Fill |-> <<>>] /\ state.drained = {} /\ state.settled = {}
      /\ state.evicted = {} /\ state.closed = {} /\ state.unmapped = {} /\ state.resting = {}
      /\ DOMAIN state = {"orders", "over", "positionOf", "cidOf", "routing", "pending", "held",
                         "applied", "drained", "settled", "evicted", "closed", "unmapped", "resting"}
    BY DEF Init
<1>3. state \in InstrumentState
    <2>1. <<>> \in Seq(Entry) /\ <<>> \in Seq(Fill) /\ <<>> \in Seq(Slot)
        OBVIOUS
    <2> QED
        BY <2>1 DEF Init, InstrumentState, Entry
<1>4. \A c \in Cid : ~Known(state, c) /\ ~Tied(state, c) /\ state.orders[c] = None
    BY <1>1, <1>2 DEF Known, Tied
<1>5. MapsOK(state)
    <2>1. Bounded(state) /\ TablesOK(state)
        BY <1>1, <1>2, <1>3 DEF Bounded, TablesOK
    <2>2. OrdersOK(state) /\ Routed(state)
        BY <1>2, <1>4 DEF OrdersOK, Routed, Is
    <2> QED
        BY <2>1, <2>2 DEF MapsOK
<1>6. FillsOK(state)
    BY <1>2, <1>4, FillFacts DEF FillsOK, Is
<1>7. VenueOK /\ \A c \in Cid : venue[c].status = "unsent" /\ venue[c].filled = 0
    BY <1>1 DEF Init, VenueOK
<1>8. \A f \in Fill : f \in OutsideFills
    BY <1>7, FillFacts DEF OutsideFills, Executed
<1>9. Accounted(state, OutsideFills)
    BY <1>2, <1>8 DEF Accounted, Nowhere, Waits, Holds, Distinct
<1>10. OneLeft(state, None)
    BY <1>2 DEF OneLeft
<1>11. UnsentOK
    BY <1>2, <1>4 DEF UnsentOK, Fresh
<1> QED
    BY <1>5, <1>6, <1>7, <1>9, <1>10, <1>11 DEF RoutingInv, Init

\* The strategy sends an order.
LEMMA SendOpenKeeps ==
    ASSUME RoutingInv, NEW c \in Cid, SendOpen(c)
    PROVE  RoutingInv' /\ Shuns(state, state')
<1> DEFINE s == state
           t == state'
           order == [status |-> "OpenInFlight", id |-> None, filled |-> 0]
           p == Request[c].position
<1>1. /\ MapsOK(s) /\ FillsOK(s) /\ Accounted(s, OutsideFills) /\ VenueOK /\ UnsentOK
      /\ s \in InstrumentState /\ flying \subseteq Fill
      /\ venue[c].status = "unsent" /\ venue' = [venue EXCEPT ![c].status = "sent"]
      /\ flying' = flying /\ cancels' = cancels /\ setting' = setting
    BY DEF RoutingInv, SendOpen, MapsOK, Bounded
<1>2. /\ p \in Position /\ None \notin Cid /\ None \notin Order /\ order \in Order /\ None \notin Position
      /\ s.orders \in [Cid -> Order \cup {None}] /\ s.positionOf \in [Cid -> Position \cup {None}]
      /\ s.cidOf \in [OrderId -> Cid \cup {None}] /\ IdOf(c) \in OrderId
      /\ s.settled \subseteq Cid /\ s.resting \subseteq Cid
    BY <1>1, StateTypes, RequestAssumption, SettingAssumption DEF Order, Slot
<1>3. Fresh(s, c)
    BY <1>1 DEF UnsentOK
<1>4. t = [s EXCEPT !.orders[c] = order, !.positionOf[c] = p]
    BY DEF SendOpen
<1> HIDE DEF s, t, order, p
<1>5. /\ t \in InstrumentState
      /\ t.orders = [s.orders EXCEPT ![c] = order]
      /\ t.positionOf = [s.positionOf EXCEPT ![c] = p]
      /\ t.over = s.over /\ t.cidOf = s.cidOf /\ t.routing = s.routing
      /\ t.pending = s.pending /\ t.drained = s.drained /\ t.applied = s.applied
      /\ t.settled = s.settled /\ t.closed = s.closed
      /\ t.evicted = s.evicted /\ t.unmapped = s.unmapped /\ t.resting = s.resting
    <2> DEFINE orders == [s.orders EXCEPT ![c] = order]
               positionOf == [s.positionOf EXCEPT ![c] = p]
    <2>1. orders \in [Cid -> Order \cup {None}] /\ positionOf \in [Cid -> Position \cup {None}]
        BY <1>2 DEF order, p
    <2>2. t = [s EXCEPT !.orders = orders, !.positionOf = positionOf]
        BY <1>4
    <2> HIDE DEF orders, positionOf
    <2>3. /\ t \in InstrumentState /\ t.orders = orders /\ t.positionOf = positionOf
          /\ t.over = s.over /\ t.cidOf = s.cidOf /\ t.routing = s.routing
          /\ t.pending = s.pending /\ t.drained = s.drained /\ t.applied = s.applied
          /\ t.settled = s.settled /\ t.closed = s.closed
          /\ t.evicted = s.evicted /\ t.unmapped = s.unmapped /\ t.resting = s.resting
        BY <1>1, <2>1, <2>2 DEF InstrumentState
    <2> QED
        BY <2>3 DEF orders, positionOf
<1>6. /\ t.orders[c] = order /\ \A d \in Cid : d # c => t.orders[d] = s.orders[d]
      /\ t.positionOf[c] = p /\ \A d \in Cid : d # c => t.positionOf[d] = s.positionOf[d]
      /\ order.status = "OpenInFlight" /\ order.id = None /\ order.filled = 0 /\ order # None
    BY <1>2, <1>5 DEF order
<1>7. /\ \A d : Known(t, d) <=> Known(s, d)
      /\ \A d : Tied(t, d) <=> Tied(s, d)
      /\ \A d : Lost(t, d) <=> Lost(s, d)
      /\ \A f : Waits(t, f) <=> Waits(s, f)
    BY <1>5 DEF Known, Tied, Lost, Waits
<1>8. ~Tied(s, c) /\ ~Known(s, c) /\ c \notin s.over /\ c \notin s.unmapped /\ c \notin s.settled
      /\ s.orders[c] = None
    BY <1>3 DEF Fresh, Tied
<1>9. MapsOK(t)
    <2>1. Bounded(t)
        BY <1>1, <1>5 DEF MapsOK, Bounded
    <2>2. TablesOK(t)
        <3>1. \A d \in Cid : t.positionOf[d] \in {None, Request[d].position}
            BY <1>1, <1>6 DEF p, MapsOK, TablesOK
        <3> QED
            BY <1>1, <1>5, <3>1 DEF MapsOK, TablesOK
    <2>3. OrdersOK(t)
        <3>1. ASSUME NEW d \in Cid, t.orders[d] # None
              PROVE  /\ d \notin t.over /\ t.orders[d].id \in {None, IdOf(d)}
                     /\ t.orders[d].status = "OpenInFlight" =>
                            t.orders[d].id = None /\ t.orders[d].filled = 0
                     /\ t.orders[d].status = "Open" => t.orders[d].id = IdOf(d)
                     /\ Tied(t, d) => t.orders[d].id = IdOf(d)
                     /\ ~Known(t, d)
            <4>1. CASE d = c
                BY <1>5, <1>6, <1>7, <1>8, <4>1
            <4>2. CASE d # c
                BY <1>1, <1>5, <1>6, <1>7, <3>1, <4>2 DEF MapsOK, OrdersOK
            <4> QED
                BY <4>1, <4>2
        <3>2. ASSUME NEW d \in Cid, t.orders[d] = None, Tied(t, d)
              PROVE  d \in t.over
            BY <1>1, <1>5, <1>6, <1>7, <3>2 DEF MapsOK, OrdersOK
        <3> QED
            BY <3>1, <3>2 DEF OrdersOK
    <2>4. Routed(t)
        <3>1. ASSUME NEW d \in Cid, Is(t, d, "OpenInFlight"), d \notin t.unmapped
              PROVE  t.positionOf[d] = Request[d].position
            BY <1>1, <1>5, <1>6, <3>1 DEF MapsOK, Routed, Is, p
        <3>2. ASSUME NEW d \in t.settled
              PROVE  \/ t.cidOf[IdOf(d)] = d /\ t.positionOf[d] = Request[d].position
                     \/ Known(t, d) \/ Lost(t, d)
            BY <1>1, <1>2, <1>5, <1>6, <1>7, <1>8, <3>2 DEF MapsOK, Routed
        <3>3. ASSUME NEW d \in t.resting
              PROVE  t.positionOf[d] = None /\ ~Known(t, d) /\ d \in t.unmapped
            BY <1>1, <1>2, <1>5, <1>6, <1>7, <1>8, <3>3 DEF MapsOK, Routed
        <3> QED
            BY <3>1, <3>2, <3>3 DEF Routed
    <2> QED
        BY <2>1, <2>2, <2>3, <2>4 DEF MapsOK
<1>10. \A f \in Fill : f.cid = c => f \in OutsideFills
    BY <1>1, FillFacts DEF VenueOK, OutsideFills, Executed
<1>11. FillsOK(t)
    <2>1. ASSUME NEW f \in Fill, Is(t, f.cid, "OpenInFlight")
          PROVE  f \notin t.drained /\ t.applied[f] = <<>>
        <3>1. CASE f.cid = c
            BY <1>1, <1>5, <1>10, <3>1 DEF Accounted, Nowhere
        <3>2. CASE f.cid # c
            BY <1>1, <1>5, <1>6, <2>1, <3>2, FillFacts DEF FillsOK, Is
        <3> QED
            BY <3>1, <3>2
    <2> QED
        BY <1>1, <1>5, <1>7, <2>1 DEF FillsOK
<1>12. Accounted(t, OutsideFills)
    BY <1>1, <1>5, <1>7 DEF Accounted, Nowhere, InOnePlace
<1>13. \E d \in Cid \cup {None} : OneLeft(t, d)
    <2>1. PICK d \in Cid \cup {None} : OneLeft(s, d)
        BY DEF RoutingInv, s
    <2>2. OneLeft(t, d)
        BY <1>2, <1>5, <1>6, <2>1 DEF OneLeft
    <2> QED
        BY <2>2
<1>14. /\ VenueOK' /\ \A d \in Cid : venue'[d].filled = venue[d].filled
       /\ \A d \in Cid : venue'[d].status = "unsent" => d # c /\ venue[d].status = "unsent"
    BY <1>1 DEF VenueOK
<1>15. UnsentOK'
    <2>1. ASSUME NEW d \in Cid, d # c, Fresh(s, d)
          PROVE  Fresh(t, d)
        BY <1>5, <1>6, <1>7, <2>1 DEF Fresh
    <2> QED
        BY <1>1, <1>14, <2>1 DEF UnsentOK, s, t
<1>16. OutsideFills' = OutsideFills /\ \A f \in Fill : Executed(f)' <=> Executed(f)
    BY <1>1, <1>14, FillFacts DEF OutsideFills, Executed
<1>17. Handled(state, state', OutsideFills')
    <2>1. Shuns(s, t)
        BY <1>5 DEF Shuns
    <2> QED
        BY <1>9, <1>11, <1>12, <1>13, <1>16, <2>1 DEF Handled, s, t
<1>18. flying' \subseteq Fill /\ (\A f \in flying' : Executed(f)') /\ cancels' \subseteq Cid
       /\ setting' \in Settings
    BY <1>1, <1>16 DEF RoutingInv
<1> QED
    BY <1>14, <1>15, <1>17, <1>18, StepKeeps

\* Nothing changes of the venue and of the fills on their way.
VenueStays ==
    /\ UNCHANGED <<venue, flying, setting>>
    /\ cancels' \subseteq Cid

LEMMA HandlerKeeps ==
    ASSUME RoutingInv, VenueStays, Handled(state, state', OutsideFills),
           \A c \in Cid : venue[c].status = "unsent" /\ Fresh(state, c) => Fresh(state', c)
    PROVE  RoutingInv' /\ Shuns(state, state')
<1>1. /\ venue' = venue /\ flying' = flying /\ setting' = setting /\ cancels' \subseteq Cid
    BY DEF VenueStays
<1>2. VenueOK' /\ OutsideFills' = OutsideFills /\ \A f \in Fill : Executed(f)' <=> Executed(f)
    BY <1>1 DEF RoutingInv, VenueOK, OutsideFills, Executed
<1>3. UnsentOK'
    BY <1>1 DEF RoutingInv, UnsentOK
<1>4. flying' \subseteq Fill /\ (\A f \in flying' : Executed(f)') /\ setting' \in Settings
    BY <1>1, <1>2 DEF RoutingInv
<1> QED
    BY <1>1, <1>2, <1>3, <1>4, StepKeeps

LEMMA SendCancelKeeps ==
    ASSUME RoutingInv, NEW c \in Cid, SendCancel(c)
    PROVE  RoutingInv' /\ Shuns(state, state')
<1> DEFINE s == state
           t == state'
           order == [s.orders[c] EXCEPT !.status = "CancelInFlight"]
<1>1. /\ MapsOK(s) /\ FillsOK(s) /\ Accounted(s, OutsideFills)
      /\ s.orders \in [Cid -> Order \cup {None}] /\ s.orders[c] # None /\ s.cidOf \in [OrderId -> Cid \cup {None}]
    BY StateTypes DEF RoutingInv, SendCancel, Is, MapsOK, Bounded
<1>2. /\ order \in Order /\ order.status = "CancelInFlight" /\ order.id = s.orders[c].id
    BY <1>1 DEF Order
<1>3. /\ c \notin s.over /\ ~Known(s, c) /\ order.id \in {None, IdOf(c)}
      /\ Tied(s, c) => order.id = IdOf(c)
    BY <1>1, <1>2 DEF MapsOK, OrdersOK
<1>4. t = [s EXCEPT !.orders[c] = order]
    BY <1>1 DEF SendCancel
<1> HIDE DEF s, t, order
<1>5. OrderMoves(s, t, c) /\ t.orders[c] = order
    BY <1>1, <1>2, <1>3, <1>4, MovesToOrder
<1>6. MapsOK(t) /\ FillsOK(t) /\ Accounted(t, OutsideFills) /\ Shuns(s, t)
    BY <1>1, <1>5, MovesKeep
<1>7. order # None
    BY <1>2, SettingAssumption
<1>8. \E d \in Cid \cup {None} : OneLeft(t, d)
    <2>1. PICK d \in Cid \cup {None} : OneLeft(s, d)
        BY DEF RoutingInv, s
    <2>2. OneLeft(t, d)
        BY <1>1, <1>5, <1>7, <2>1 DEF OneLeft, OrderMoves, OrderChanges
    <2> QED
        BY <2>2
<1>9. \A d \in Cid : Fresh(s, d) => Fresh(t, d)
    BY <1>1, <1>5, FreshSteps DEF Fresh
<1>10. Handled(state, state', OutsideFills)
    BY <1>6, <1>8 DEF Handled, s, t
<1>11. VenueStays
    BY DEF SendCancel, VenueStays, RoutingInv
<1> QED
    BY <1>9, <1>10, <1>11, HandlerKeeps DEF s, t

LEMMA ReceiveFillKeeps ==
    ASSUME RoutingInv, NEW f \in Fill, ReceiveFill(f)
    PROVE  RoutingInv' /\ Shuns(state, state')
<1>1. /\ MapsOK(state) /\ FillsOK(state) /\ Accounted(state, OutsideFills) /\ VenueOK /\ UnsentOK
      /\ setting \in Settings /\ f \in flying /\ flying \subseteq Fill
      /\ \A g \in flying : Executed(g)
      /\ \E c \in Cid \cup {None} : OneLeft(state, c)
    BY DEF RoutingInv, ReceiveFill
<1>2. /\ flying' = flying \ {f} /\ venue' = venue /\ cancels' = cancels /\ setting' = setting
      /\ state' = AfterTrade(state, f)
    BY DEF ReceiveFill
<1>3. f \in OutsideFills
    BY <1>1 DEF OutsideFills
<1>4. \A g \in Fill : Executed(g)' <=> Executed(g)
    BY <1>2 DEF Executed
<1>5. OutsideFills' = OutsideFills \ {f}
    BY <1>1, <1>2, <1>4 DEF OutsideFills
<1> DEFINE s == state
           t == state'
           out == OutsideFills
<1>6. /\ MapsOK(s) /\ FillsOK(s) /\ Accounted(s, out) /\ f \in out /\ t = AfterTrade(s, f)
      /\ \E c \in Cid \cup {None} : OneLeft(s, c)
    BY <1>1, <1>2, <1>3
<1> HIDE DEF s, t, out
<1>7. /\ MapsOK(t) /\ FillsOK(t) /\ Accounted(t, out \ {f}) /\ FillsStep(s, t)
      /\ \E c \in Cid \cup {None} : OneLeft(t, c)
    BY <1>1, <1>6, AfterTradeKeeps
<1>8. Handled(state, state', OutsideFills')
    BY <1>5, <1>7 DEF Handled, FillsStep, s, t, out
<1>9. UnsentOK'
    BY <1>1, <1>2, <1>7 DEF UnsentOK, FillsStep, StayFresh, s, t
<1>10. VenueOK'
    BY <1>1, <1>2 DEF VenueOK
<1>11. flying' \subseteq Fill /\ (\A g \in flying' : Executed(g)') /\ cancels' \subseteq Cid
       /\ setting' \in Settings
    BY <1>1, <1>2, <1>4 DEF RoutingInv
<1> QED
    BY <1>8, <1>9, <1>10, <1>11, StepKeeps

LEMMA ReceiveReportKeeps ==
    ASSUME RoutingInv, NEW r \in Report, ReceiveReport(r)
    PROVE  RoutingInv' /\ Shuns(state, state')
<1> DEFINE s == state
           t == state'
           out == OutsideFills
<1>1. /\ MapsOK(s) /\ FillsOK(s) /\ Accounted(s, out) /\ setting \in Settings
      /\ t = AfterReport(s, r)
    BY DEF RoutingInv, ReceiveReport
<1>2. venue[r.cid].status # "unsent"
    BY ReportFacts DEF ReceiveReport, True
<1>3. VenueStays
    BY DEF ReceiveReport, VenueStays, RoutingInv
<1> HIDE DEF s, t, out
<1>4. /\ Handled(s, t, out)
      /\ \A d \in Cid : d # r.cid /\ Fresh(s, d) => Fresh(t, d)
    BY <1>1, AfterReportKeeps
<1>5. Handled(state, state', OutsideFills)
    BY <1>4 DEF s, t, out
<1>6. \A c \in Cid : venue[c].status = "unsent" /\ Fresh(state, c) => Fresh(state', c)
    BY <1>2, <1>4 DEF s, t
<1> QED
    BY <1>3, <1>5, <1>6, HandlerKeeps

LEMMA ReceiveCancelResponseKeeps ==
    ASSUME RoutingInv, NEW c \in Cid, NEW ok \in BOOLEAN, ReceiveCancelResponse(c, ok)
    PROVE  RoutingInv' /\ Shuns(state, state')
<1> DEFINE s == state
           t == state'
           out == OutsideFills
<1>1. /\ MapsOK(s) /\ FillsOK(s) /\ Accounted(s, out) /\ setting \in Settings
      /\ t = AfterCancelResponse(s, c, ok)
    BY DEF RoutingInv, ReceiveCancelResponse
<1>2. VenueStays
    BY DEF ReceiveCancelResponse, VenueStays, RoutingInv
<1> HIDE DEF s, t, out
<1>3. Handled(s, t, out) /\ StayFresh(s, t)
    BY <1>1, AfterCancelKeeps
<1>4. /\ Handled(state, state', OutsideFills)
      /\ \A d \in Cid : Fresh(state, d) => Fresh(state', d)
    BY <1>3 DEF StayFresh, s, t, out
<1> QED
    BY <1>2, <1>4, HandlerKeeps

LEMMA SplitKeeps ==
    ASSUME RoutingInv, Split
    PROVE  RoutingInv' /\ Shuns(state, state')
<1> DEFINE s == state
           t == state'
           open == {p \in Slot : s.held[p] # 0}
           gone == {c \in Cid : s.positionOf[c] \in open}
           rest == {c \in Cid : s.orders[c] # None /\ s.positionOf[c] \in open}
           left == [c \in Cid |-> IF s.positionOf[c] \in open THEN None ELSE s.positionOf[c]]
           none == [p \in Slot |-> 0]
<1>1. /\ MapsOK(s) /\ FillsOK(s) /\ Accounted(s, OutsideFills) /\ s \in InstrumentState
      /\ s.unmapped = {} /\ s.positionOf \in [Cid -> Position \cup {None}]
      /\ s.settled \subseteq Cid /\ s.resting \subseteq Cid /\ None \notin Slot
      /\ s.cidOf \in [OrderId -> Cid \cup {None}]
    BY StateTypes, SettingAssumption DEF RoutingInv, Split, MapsOK, Bounded
<1>2. VenueStays
    BY DEF Split, VenueStays, RoutingInv
<1>3. t = [Unmap(s, open) EXCEPT !.held = none, !.unmapped = gone, !.resting = rest]
    BY DEF Split
<1>4. Unmap(s, open) = [s EXCEPT !.positionOf = left]
    BY <1>1 DEF Unmap
<1>5. left \in [Cid -> Position \cup {None}] /\ gone \subseteq Cid /\ rest \subseteq Cid
      /\ none \in [Slot -> Int]
    BY <1>1
<1> HIDE DEF s, t, left, gone, rest, none
<1>6. /\ t \in InstrumentState /\ t.positionOf = left /\ t.unmapped = gone /\ t.resting = rest
      /\ t.orders = s.orders /\ t.over = s.over /\ t.cidOf = s.cidOf /\ t.routing = s.routing
      /\ t.pending = s.pending /\ t.applied = s.applied /\ t.drained = s.drained
      /\ t.settled = s.settled /\ t.evicted = s.evicted /\ t.closed = s.closed
    <2> DEFINE u == [s EXCEPT !.positionOf = left]
    <2>1. t = [u EXCEPT !.held = none, !.unmapped = gone, !.resting = rest]
        BY <1>3, <1>4
    <2>2. /\ u \in InstrumentState /\ u.positionOf = left
          /\ u.orders = s.orders /\ u.over = s.over /\ u.cidOf = s.cidOf /\ u.routing = s.routing
          /\ u.pending = s.pending /\ u.applied = s.applied /\ u.drained = s.drained
          /\ u.settled = s.settled /\ u.evicted = s.evicted /\ u.closed = s.closed
        BY <1>1, <1>5 DEF InstrumentState
    <2> HIDE DEF u
    <2> QED
        BY <1>5, <2>1, <2>2 DEF InstrumentState
<1>7. /\ \A d : Known(t, d) <=> Known(s, d)
      /\ \A d : Tied(t, d) <=> Tied(s, d)
      /\ \A d : Lost(s, d) => Lost(t, d)
      /\ \A f : Waits(t, f) <=> Waits(s, f)
      /\ \A d : Is(t, d, "OpenInFlight") <=> Is(s, d, "OpenInFlight")
    BY <1>1, <1>6 DEF Known, Tied, Lost, Waits, Is
<1>8. /\ \A c \in Cid : t.positionOf[c] \in {None, s.positionOf[c]}
      /\ \A c \in Cid : c \in t.unmapped \/ t.positionOf[c] = s.positionOf[c]
      /\ \A c \in Cid : s.positionOf[c] = None => c \notin t.unmapped
      /\ \A c \in t.resting : c \in Cid /\ t.positionOf[c] = None /\ s.orders[c] # None /\ c \in t.unmapped
    BY <1>1, <1>6 DEF left, gone, rest
<1>9. MapsOK(t)
    <2>1. Bounded(t) /\ TablesOK(t)
        BY <1>1, <1>6, <1>8 DEF MapsOK, Bounded, TablesOK
    <2>2. OrdersOK(t)
        BY <1>1, <1>6, <1>7 DEF MapsOK, OrdersOK
    <2>3. Routed(t)
        <3>1. ASSUME NEW d \in Cid, Is(t, d, "OpenInFlight"), d \notin t.unmapped
              PROVE  t.positionOf[d] = Request[d].position
            BY <1>1, <1>7, <1>8, <3>1 DEF MapsOK, Routed
        <3>2. ASSUME NEW d \in t.settled
              PROVE  \/ t.cidOf[IdOf(d)] = d /\ t.positionOf[d] = Request[d].position
                     \/ Known(t, d) \/ Lost(t, d)
            <4>1. d \in s.settled /\ d \in Cid
                BY <1>1, <1>6, <3>2
            <4>2. CASE d \in t.unmapped
                BY <4>2 DEF Lost
            <4>3. CASE d \notin t.unmapped
                BY <1>1, <1>6, <1>7, <1>8, <4>1, <4>3 DEF MapsOK, Routed
            <4> QED
                BY <4>2, <4>3
        <3>3. ASSUME NEW d \in t.resting
              PROVE  t.positionOf[d] = None /\ ~Known(t, d) /\ d \in t.unmapped
            BY <1>1, <1>7, <1>8, <3>3 DEF MapsOK, OrdersOK
        <3> QED
            BY <3>1, <3>2, <3>3 DEF Routed
    <2> QED
        BY <2>1, <2>2, <2>3 DEF MapsOK
<1>10. FillsOK(t) /\ Accounted(t, OutsideFills) /\ Shuns(s, t)
    BY <1>1, <1>6, <1>7 DEF FillsOK, Accounted, Nowhere, InOnePlace, Shuns
<1>11. \E d \in Cid \cup {None} : OneLeft(t, d)
    <2>1. PICK d \in Cid \cup {None} : OneLeft(s, d)
        BY DEF RoutingInv, s
    <2>2. OneLeft(t, d)
        BY <1>6, <1>8, <2>1 DEF OneLeft
    <2> QED
        BY <2>2
<1>12. Handled(state, state', OutsideFills)
    BY <1>9, <1>10, <1>11 DEF Handled, s, t
<1>13. \A c \in Cid : Fresh(s, c) => Fresh(t, c)
    BY <1>6, <1>7, <1>8 DEF Fresh
<1> QED
    BY <1>2, <1>12, <1>13, HandlerKeeps DEF s, t

\* What only the venue does.
LEMMA VenueKeeps ==
    ASSUME RoutingInv, state' = state, cancels' = cancels, setting' = setting, VenueOK',
           \A c \in Cid : venue'[c].status = "unsent" => venue[c].status = "unsent",
           flying' \subseteq Fill, \A f \in flying' : Executed(f)', OutsideFills' = OutsideFills
    PROVE  RoutingInv' /\ Shuns(state, state')
<1>1. Handled(state, state', OutsideFills')
    BY DEF RoutingInv, Handled, Shuns
<1>2. UnsentOK'
    BY DEF RoutingInv, UnsentOK
<1> QED
    BY <1>1, <1>2, StepKeeps DEF RoutingInv

LEMMA StatusKeeps ==
    ASSUME RoutingInv, NEW c \in Cid, NEW status \in {"refused", "working", "ended"},
           venue' = [venue EXCEPT ![c].status = status], venue[c].status \in {"sent", "working"},
           status = "working" => venue[c].status = "sent",
           UNCHANGED <<state, flying, cancels, setting>>
    PROVE  RoutingInv' /\ Shuns(state, state')
<1>1. /\ VenueOK /\ flying \subseteq Fill /\ (\A f \in flying : Executed(f))
      /\ Quantity(c) \in Nat /\ Quantity(c) >= 1
    BY RequestAssumption DEF RoutingInv
<1>2. /\ VenueOK' /\ \A d \in Cid : venue'[d].filled = venue[d].filled
      /\ \A d \in Cid : venue'[d].status = "unsent" => venue[d].status = "unsent"
    BY <1>1 DEF VenueOK
<1>3. \A f \in Fill : Executed(f)' <=> Executed(f)
    BY <1>2, FillFacts DEF Executed
<1>4. OutsideFills' = OutsideFills /\ flying' \subseteq Fill /\ \A f \in flying' : Executed(f)'
    BY <1>1, <1>3 DEF OutsideFills
<1> QED
    BY <1>2, <1>4, VenueKeeps

LEMMA ExecuteKeeps ==
    ASSUME RoutingInv, NEW c \in Cid, Execute(c)
    PROVE  RoutingInv' /\ Shuns(state, state')
<1> DEFINE filled == venue[c].filled + 1
           f == [cid |-> c, upTo |-> filled]
<1>1. /\ VenueOK /\ flying \subseteq Fill /\ (\A g \in flying : Executed(g))
      /\ Quantity(c) \in Nat /\ venue[c].status = "working"
      /\ venue[c].filled \in Nat /\ venue[c].filled < Quantity(c)
      /\ venue' = [venue EXCEPT ![c] =
            [status |-> IF filled = Quantity(c) THEN "filled" ELSE "working", filled |-> filled]]
      /\ flying' = flying \cup {f} /\ UNCHANGED <<state, cancels, setting>>
    BY RequestAssumption DEF RoutingInv, VenueOK, Execute
<1>2. filled \in 1..Quantity(c) /\ filled \in Nat /\ filled <= Quantity(c)
    BY <1>1
<1>3. f \in Fill /\ f.cid = c /\ f.upTo = filled
    BY <1>2 DEF Fill
<1>4. /\ venue'[c].filled = filled
      /\ venue'[c].status \in {"filled", "working"}
      /\ venue'[c].status = "working" => filled # Quantity(c)
      /\ \A d \in Cid : d # c => venue'[d] = venue[d]
      /\ venue' \in [Cid -> [status : {"unsent", "sent", "refused", "working", "filled", "ended"},
                             filled : Nat]]
    BY <1>1, <1>2 DEF VenueOK
<1>5. VenueOK' /\ \A d \in Cid : venue'[d].status = "unsent" => venue[d].status = "unsent"
    BY <1>1, <1>2, <1>4 DEF VenueOK
<1>6. ASSUME NEW g \in Fill
      PROVE  Executed(g)' <=> Executed(g) \/ g = f
    <2>1. g.cid \in Cid /\ g.upTo \in Nat /\ g = [cid |-> g.cid, upTo |-> g.upTo]
        BY FillFacts
    <2>2. CASE g.cid # c
        BY <1>3, <1>4, <2>1, <2>2 DEF Executed
    <2>3. CASE g.cid = c
        <3>1. Executed(g)' <=> g.upTo <= filled
            BY <1>4, <2>3 DEF Executed
        <3>2. g = f <=> g.upTo = filled
            BY <2>1, <2>3
        <3> QED
            BY <1>1, <2>1, <2>3, <3>1, <3>2 DEF Executed
    <2> QED
        BY <2>2, <2>3
<1>7. ~Executed(f)
    BY <1>1, <1>3 DEF Executed
<1> HIDE DEF f
<1>8. OutsideFills' = OutsideFills
    BY <1>1, <1>3, <1>6, <1>7 DEF OutsideFills
<1>9. flying' \subseteq Fill /\ \A g \in flying' : Executed(g)'
    BY <1>1, <1>3, <1>6
<1> QED
    BY <1>1, <1>5, <1>8, <1>9, VenueKeeps

LEMMA NextKeeps ==
    RoutingInv /\ [Next]_vars => RoutingInv' /\ Shuns(state, state')
<1> SUFFICES ASSUME RoutingInv, [Next]_vars
             PROVE  RoutingInv' /\ Shuns(state, state')
    OBVIOUS
<1>1. ASSUME NEW c \in Cid, SendOpen(c)
      PROVE  RoutingInv' /\ Shuns(state, state')
    BY <1>1, SendOpenKeeps
<1>2. ASSUME NEW c \in Cid, SendCancel(c)
      PROVE  RoutingInv' /\ Shuns(state, state')
    BY <1>2, SendCancelKeeps
<1>3. ASSUME NEW c \in Cid, NEW ok \in BOOLEAN, ReceiveCancelResponse(c, ok)
      PROVE  RoutingInv' /\ Shuns(state, state')
    BY <1>3, ReceiveCancelResponseKeeps
<1>4. ASSUME NEW c \in Cid, NEW status \in {"working", "refused"}, Decide(c, status)
      PROVE  RoutingInv' /\ Shuns(state, state')
    BY <1>4, StatusKeeps DEF Decide
<1>5. ASSUME NEW c \in Cid, Execute(c)
      PROVE  RoutingInv' /\ Shuns(state, state')
    BY <1>5, ExecuteKeeps
<1>6. ASSUME NEW c \in Cid, End(c)
      PROVE  RoutingInv' /\ Shuns(state, state')
    BY <1>6, StatusKeeps DEF End
<1>7. ASSUME NEW f \in Fill, ReceiveFill(f)
      PROVE  RoutingInv' /\ Shuns(state, state')
    BY <1>7, ReceiveFillKeeps
<1>8. ASSUME NEW r \in Report, ReceiveReport(r)
      PROVE  RoutingInv' /\ Shuns(state, state')
    BY <1>8, ReceiveReportKeeps
<1>9. CASE Split
    BY <1>9, SplitKeeps
<1>10. CASE UNCHANGED vars
    <2>1. VenueOK' /\ OutsideFills' = OutsideFills /\ \A f \in flying : Executed(f)'
        BY <1>10 DEF vars, RoutingInv, VenueOK, OutsideFills, Executed
    <2> QED
        BY <1>10, <2>1, VenueKeeps DEF vars, RoutingInv
<1> QED
    BY <1>1, <1>2, <1>3, <1>4, <1>5, <1>6, <1>7, <1>8, <1>9, <1>10 DEF Next

-----------------------------------------------------------------------------
(* The theorems.                                                           *)

LEMMA RoutingInvariant == Spec => []RoutingInv
<1>1. RoutingInv /\ [Next]_vars => RoutingInv'
    BY NextKeeps
<1> QED
    BY InitKeeps, <1>1, PTL DEF Spec

\* The tables have their types, and the routing kept of retired orders
\* (insert_retired_routing) never exceeds its bound.
THEOREM RoutingTyped == Spec => []RoutingTypeOK
<1>1. RoutingInv => RoutingTypeOK
    BY SettingAssumption DEF RoutingInv, RoutingTypeOK, MapsOK, Bounded, VenueOK
<1> QED
    BY RoutingInvariant, <1>1, PTL

\* Once update_from_order_snapshot has tied the ids of an order together, no
\* fill of it waits, and update_from_trade has booked each to the position the
\* strategy chose, whatever the order in which fills, reports and cancels came,
\* unless the routing was given up or the position has closed.
THEOREM FillsRouted == Spec => []FillsReachTheirPosition
<1>1. RoutingInv => FillsReachTheirPosition
    BY DEF RoutingInv, FillsReachTheirPosition, FillsOK, Lost, GivenUp, Waiting, Waits, Holds
<1> QED
    BY RoutingInvariant, <1>1, PTL

\* A fill is in one place: on its way, waiting, discarded by a cancel's answer,
\* or booked once; the replay of what waited for a report neither repeats a fill
\* nor loses one, and no fill of an order whose ids are tied is discarded.
THEOREM FillsAccounted == Spec => []EveryFillAccounted
<1>1. ASSUME RoutingInv
      PROVE  EveryFillAccounted
    <2>1. /\ Accounted(state, OutsideFills) /\ FillsOK(state) /\ state \in InstrumentState
          /\ flying \subseteq Fill
        BY <1>1 DEF RoutingInv, MapsOK, Bounded
    <2>2. /\ state.applied \in [Fill -> Seq(Slot)] /\ state.drained \subseteq Fill
        BY <2>1, StateTypes
    <2>3. ASSUME NEW f \in Fill, Executed(f)
          PROVE  (IF f \in flying THEN 1 ELSE 0)
                 + Cardinality({i \in DOMAIN state.pending : state.pending[i] = f})
                 + (IF f \in state.drained THEN 1 ELSE 0) + Len(state.applied[f]) = 1
        <3> DEFINE at == {i \in DOMAIN state.pending : state.pending[i] = f}
                   n == Cardinality(at)
                   m == Len(state.applied[f])
        <3>1. Len(<<>>) = 0
            OBVIOUS
        <3>2. Waits(state, f) => n = 1
            <4>1. ASSUME Waits(state, f)
                  PROVE  n = 1
                <5>1. PICK i \in DOMAIN state.pending : state.pending[i] = f
                    BY <4>1 DEF Waits, Holds
                <5>2. at = {i}
                    BY <2>1, <5>1 DEF Accounted, Distinct
                <5> QED
                    BY <5>2, FS_Singleton
            <4> QED
                BY <4>1
        <3>3. ~Waits(state, f) => n = 0
            <4>1. ~Waits(state, f) => at = {}
                BY DEF Waits, Holds
            <4> QED
                BY <4>1, FS_EmptySet
        <3>4. f \in OutsideFills <=> f \in flying
            BY <2>3 DEF OutsideFills
        <3>5. CASE f \in flying
            <4>1. n = 0 /\ f \notin state.drained /\ m = 0
                BY <2>1, <3>1, <3>3, <3>4, <3>5 DEF Accounted, Nowhere
            <4> HIDE DEF n, m
            <4>2. 1 + n + 0 + m = 1
                BY <4>1
            <4> QED
                BY <3>5, <4>1, <4>2 DEF n, m
        <3>6. CASE f \notin flying
            <4>1. InOnePlace(state, f)
                BY <2>1, <3>4, <3>6 DEF Accounted
            <4>2. \/ n = 1 /\ f \notin state.drained /\ m = 0
                  \/ n = 0 /\ f \in state.drained /\ m = 0
                  \/ n = 0 /\ f \notin state.drained /\ m = 1
                BY <3>1, <3>2, <3>3, <4>1 DEF InOnePlace
            <4> HIDE DEF n, m
            <4>3. 0 + n + (IF f \in state.drained THEN 1 ELSE 0) + m = 1
                BY <4>2
            <4> QED
                BY <3>6, <4>3 DEF n, m
        <3> QED
            BY <3>5, <3>6
    <2>4. \A f \in state.drained :
            \/ f.cid \notin state.settled \/ GivenUp(f.cid)
            \/ Request[f.cid].position \in state.closed
        BY <2>1, <2>2 DEF FillsOK, Lost, GivenUp
    <2> QED
        BY <2>3, <2>4 DEF EveryFillAccounted
<1> QED
    BY RoutingInvariant, <1>1, PTL

\* The maps of live orders (position_ids and exchange_id_to_cid) hold one order
\* that is over at most, however many there have been: cleanup_routing_tables
\* prunes after every report and answer.
THEOREM LiveMapsStayBounded == Spec => []LiveMapsBounded
<1>1. ASSUME RoutingInv
      PROVE  LiveMapsBounded
    <2>1. PICK c \in Cid \cup {None} : OneLeft(state, c)
        BY <1>1 DEF RoutingInv
    <2>2. TablesOK(state) /\ state.cidOf \in [OrderId -> Cid \cup {None}]
        BY <1>1, StateTypes DEF RoutingInv, MapsOK, Bounded
    <2>3. ASSUME NEW S, NEW x, S \subseteq {x}
          PROVE  Cardinality(S) <= 1
        <3>1. S = {} \/ S = {x}
            BY <2>3
        <3>2. Cardinality(S) \in {0, 1}
            BY <3>1, FS_EmptySet, FS_Singleton
        <3> QED
            BY <3>2
    <2>4. {d \in Cid : state.orders[d] = None /\ state.positionOf[d] # None} \subseteq {c}
        BY <2>1 DEF OneLeft
    <2>5. {i \in OrderId : state.cidOf[i] # None /\ state.orders[state.cidOf[i]] = None}
            \subseteq {IdOf(c)}
        BY <2>1, <2>2 DEF OneLeft, TablesOK
    <2>6. Cardinality({d \in Cid : state.orders[d] = None /\ state.positionOf[d] # None}) <= 1
        BY <2>3, <2>4
    <2>7. Cardinality({i \in OrderId :
                state.cidOf[i] # None /\ state.orders[state.cidOf[i]] = None}) <= 1
        BY <2>3, <2>5
    <2> QED
        BY <2>6, <2>7 DEF LiveMapsBounded
<1> QED
    BY RoutingInvariant, <1>1, PTL

\* No step books a fill of an order to the position that a split closed while
\* the order rested on it: process_corporate_action unmaps it for good.
THEOREM FlooredPositionStaysClosed == Spec => FlooredStaysClosed
<1> DEFINE Stays ==
        \A f \in Fill :
            f.cid \in state.resting =>
                \A i \in DOMAIN state'.applied[f] :
                    i \in DOMAIN state.applied[f] \/ state'.applied[f][i] # Request[f.cid].position
<1>1. RoutingInv /\ [Next]_vars => [Stays]_vars
    <2>1. RoutingInv /\ [Next]_vars => Shuns(state, state')
        BY NextKeeps
    <2>2. Shuns(state, state') => Stays
        BY DEF Shuns
    <2> QED
        BY <2>1, <2>2
<1> HIDE DEF Stays
<1>2. Spec => [][Stays]_vars
    BY RoutingInvariant, <1>1, PTL DEF Spec
<1> QED
    BY <1>2 DEF FlooredStaysClosed, Stays
=============================================================================
