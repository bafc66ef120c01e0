---------------------------- MODULE SeqLockProofs ----------------------------
(***************************************************************************)
(* The sequence lock implements MonotonicInstant for any number of threads *)
(* and of calls and any set of instants, on the same weak memory.          *)
(*                                                                         *)
(* A version publishes as many instants as the view stored with it has     *)
(* stores to each field (Published).  A reader that took an even version   *)
(* has seen the instants it publishes; if it read a later store to either  *)
(* field, that store was made under a later odd version, which its fence   *)
(* has let it see, so the second read of the version differs (TagsFields). *)
(* So what it returns is the last instant its version publishes.           *)
(***************************************************************************)
EXTENDS SeqLock, SequenceTheorems, TLAPS

Cell == [value : Nat, view : View]

Fields == {"secs", "nanos"}

ViewOf(l, i) == memory[l][i].view

\* How many instants the i-th version publishes.
Published(i) == ViewOf("version", i)["nanos"]

HeldAt(m) == <<Value("secs", m), Value("nanos", m)>>

Within(view) == \A l \in Location : view[l] <= Last(l)

IsOdd(i) == i % 2 = 1

-----------------------------------------------------------------------------
(* The inductive invariant.                                                *)

MemoryOK ==
    /\ memory \in [Location -> Seq(Cell)]
    /\ \A l \in Location : Last(l) >= 1 /\ \A i \in 1..Last(l) : Within(ViewOf(l, i))

ViewsOK ==
    /\ current \in [Thread -> View] /\ acquirable \in [Thread -> View]
    /\ released \in [Thread -> View]
    /\ \A t \in Thread : Within(current[t]) /\ Within(acquirable[t]) /\ Within(released[t])

ValuesOK ==
    /\ \A i \in 1..Last("version") : Value("version", i) = i - 1
    /\ \A i \in 1..Last("secs") : Value("secs", i) \in {instant[1] : instant \in Instant}
    /\ \A i \in 1..Last("nanos") : Value("nanos", i) \in {instant[2] : instant \in Instant}

\* The versions publish more and more instants, whole ones.
PublishesWhole ==
    \A i \in 1..Last("version") :
        /\ ViewOf("version", i)["secs"] = Published(i)
        /\ \A j \in 1..i : Published(j) <= Published(i)

\* A store to a field is published by every even version from the one on that
\* its own view, tagged by the writer's release fence, has the odd one of.
TagsFields ==
    \A l \in Fields : \A a \in 1..Last(l) : \A i \in 1..Last("version") :
        IsOdd(i) /\ i >= ViewOf(l, a)["version"] => a <= Published(i)

Calls == {"idle", "readBefore", "readSecs", "readNanos", "readAgain", "readLock", "swap",
          "readHeldSecs", "readHeldNanos", "storeSecs", "storeNanos", "unlock"}

CallType == [pc : Calls, time : Instant \cup {NoTime}, version : Nat, secs : Nat, nanos : Nat]

CallOK(t) ==
    /\ (Holds(t) \/ At(t, "readLock") \/ At(t, "swap")) => call[t].time \in Instant
    /\ At(t, "swap") => IsEven(call[t].version)

\* What a reader has seen, and what it will have to acknowledge.
ReaderOK(t) ==
    LET i == call[t].version + 1 IN
    /\ call[t].pc \in {"readSecs", "readNanos", "readAgain"} =>
          /\ IsOdd(i) /\ i <= Last("version")
          /\ \A l \in Fields : current[t][l] >= Published(i)
    /\ call[t].pc \in {"readNanos", "readAgain"} =>
          \E a \in Published(i)..Last("secs") :
              /\ call[t].secs = Value("secs", a)
              /\ acquirable[t]["version"] >= ViewOf("secs", a)["version"]
    /\ At(t, "readAgain") =>
          \E b \in Published(i)..Last("nanos") :
              /\ call[t].nanos = Value("nanos", b)
              /\ acquirable[t]["version"] >= ViewOf("nanos", b)["version"]

\* The version is odd, and what the thread has compared and stored is what is held.
WriterOK(t) ==
    LET n == Last("nanos")
        heldBefore == <<call[t].secs, call[t].nanos>> IN
    Holds(t) =>
        /\ \A u \in Thread : Holds(u) => u = t
        /\ ~IsOdd(Last("version"))
        /\ call[t].version = Last("version") - 2
        /\ \A l \in Location : current[t][l] = Last(l)
        /\ released[t]["version"] = Last("version")
        /\ Last("secs") = IF At(t, "storeNanos") THEN n + 1 ELSE n
        /\ At(t, "readHeldNanos") => call[t].secs = Value("secs", n)
        /\ call[t].pc \in {"storeSecs", "storeNanos"} =>
              /\ heldBefore = HeldAt(n)
              /\ IsBefore(heldBefore, call[t].time)
        /\ At(t, "storeNanos") => Value("secs", n + 1) = call[t].time[1]
        /\ At(t, "unlock") =>
              HeldAt(n) = IF IsBefore(heldBefore, call[t].time) THEN call[t].time ELSE heldBefore

\* While nobody writes, the last version publishes everything.
Unlocked == \A t \in Thread : ~Holds(t)

UnlockedOK ==
    Unlocked =>
        /\ IsOdd(Last("version"))
        /\ Last("secs") = Published(Last("version")) /\ Last("nanos") = Published(Last("version"))

\* What a thread knows of is published by a version it has seen.
SeenOK(t) ==
    \E m \in 1..Published(current[t]["version"]) : seen[t] = HeldAt(m)

ThreadOK(t) == CallOK(t) /\ ReaderOK(t) /\ WriterOK(t) /\ SeenOK(t)

SeqLockInv ==
    /\ MemoryOK /\ ViewsOK /\ ValuesOK
    /\ PublishesWhole /\ TagsFields /\ UnlockedOK
    /\ call \in [Thread -> CallType] /\ calls \in [Thread -> 0..MaxCalls]
    /\ seen \in [Thread -> Nat \X Nat]
    /\ \A t \in Thread : ThreadOK(t)

-----------------------------------------------------------------------------
(* The memory.                                                             *)

\* What the type of the memory says of one store.
LEMMA StoreType ==
    ASSUME MemoryOK, NEW l \in Location, NEW i \in 1..Last(l)
    PROVE  /\ memory[l][i] \in Cell /\ ViewOf(l, i) \in View /\ Value(l, i) \in Nat
           /\ Last(l) \in Nat
           /\ \A k \in Location : Last(k) \in Nat /\ ViewOf(l, i)[k] \in 1..Last(k)
<1>1. memory[l] \in Seq(Cell) /\ \A k \in Location : memory[k] \in Seq(Cell)
  BY DEF MemoryOK
<1>2. memory[l][i] \in Cell
  BY <1>1 DEF Last
<1>3. ViewOf(l, i) \in View /\ Value(l, i) \in Nat
  BY <1>2 DEF Cell, ViewOf, Value
<1>4. \A k \in Location : Last(k) \in Nat
  BY <1>1 DEF Last
<1>5. Within(ViewOf(l, i))
  BY DEF MemoryOK
<1>6. ASSUME NEW k \in Location PROVE ViewOf(l, i)[k] \in 1..Last(k)
  <2>1. ViewOf(l, i)[k] \in Nat \ {0}
    BY <1>3 DEF View
  <2>2. ViewOf(l, i)[k] <= Last(k)
    BY <1>5 DEF Within
  <2> QED
    BY <2>1, <2>2, <1>4
<1> QED
  BY <1>2, <1>3, <1>4, <1>6

\* A thread's views point to stores that are there.
LEMMA ViewType ==
    ASSUME MemoryOK, ViewsOK, NEW t \in Thread, NEW k \in Location
    PROVE  /\ current[t] \in View /\ acquirable[t] \in View /\ released[t] \in View
           /\ Last(k) \in Nat
           /\ current[t][k] \in 1..Last(k) /\ acquirable[t][k] \in 1..Last(k)
           /\ released[t][k] \in 1..Last(k)
<1>1. Last(k) \in Nat
  BY DEF MemoryOK, Last
<1>2. current[t] \in View /\ acquirable[t] \in View /\ released[t] \in View
  BY DEF ViewsOK
<1> QED
  BY <1>1, <1>2 DEF ViewsOK, View, Within

\* How many instants a version publishes.
LEMMA PublishedType ==
    ASSUME MemoryOK, PublishesWhole, NEW i \in 1..Last("version")
    PROVE  /\ Last("version") \in Nat /\ Last("secs") \in Nat /\ Last("nanos") \in Nat
           /\ Published(i) \in 1..Last("nanos") /\ Published(i) \in 1..Last("secs")
           /\ \A j \in 1..i : Published(j) <= Published(i)
           /\ \A l \in Fields : ViewOf("version", i)[l] = Published(i)
<1>1. /\ Last("version") \in Nat /\ Last("secs") \in Nat /\ Last("nanos") \in Nat
      /\ ViewOf("version", i)["secs"] \in 1..Last("secs")
      /\ ViewOf("version", i)["nanos"] \in 1..Last("nanos")
  BY StoreType DEF Location
<1>2. ViewOf("version", i)["secs"] = Published(i) /\ \A j \in 1..i : Published(j) <= Published(i)
  BY DEF PublishesWhole
<1> QED
  BY <1>1, <1>2 DEF Published, Fields

\* The join of two views holds the later store of each location.
LEMMA JoinType ==
    ASSUME NEW v \in View, NEW w \in View
    PROVE  /\ Join(v, w) \in View
           /\ \A k \in Location : /\ v[k] <= Join(v, w)[k] /\ w[k] <= Join(v, w)[k]
                                  /\ Join(v, w)[k] = v[k] \/ Join(v, w)[k] = w[k]
  BY DEF Join, View

\* And points to stores that are there when both do.
LEMMA JoinWithin ==
    ASSUME NEW v \in View, NEW w \in View, Within(v), Within(w)
    PROVE  Within(Join(v, w))
<1> SUFFICES ASSUME NEW k \in Location PROVE Join(v, w)[k] <= Last(k)
  BY DEF Within
<1>1. v[k] <= Last(k) /\ w[k] <= Last(k)
  BY DEF Within
<1>2. Join(v, w)[k] = v[k] \/ Join(v, w)[k] = w[k]
  BY JoinType
<1> QED
  BY <1>1, <1>2

\* A store to one location leaves every other store as it was.
LEMMA Appended ==
    ASSUME MemoryOK, NEW l \in Location, NEW cell \in Cell,
           memory' = [memory EXCEPT ![l] = Append(@, cell)]
    PROVE  /\ memory' \in [Location -> Seq(Cell)]
           /\ Last(l)' = Last(l) + 1 /\ memory'[l][Last(l) + 1] = cell
           /\ \A i \in 1..Last(l) : memory'[l][i] = memory[l][i]
           /\ \A k \in Location \ {l} : memory'[k] = memory[k] /\ Last(k)' = Last(k)
<1>1. memory[l] \in Seq(Cell) /\ \A k \in Location : memory[k] \in Seq(Cell)
  BY DEF MemoryOK
<1>2. memory'[l] = Append(memory[l], cell) /\ \A k \in Location \ {l} : memory'[k] = memory[k]
  BY DEF MemoryOK
<1> QED
  BY <1>1, <1>2 DEF MemoryOK, Last

\* What a load does to the views: those of the thread grow by what it read.
LEMMA Loaded ==
    ASSUME MemoryOK, ViewsOK, NEW t \in Thread,
           NEW view \in View, Within(view), \A k \in Location : current[t][k] <= view[k],
           NEW l \in Location, NEW i \in 1..Last(l), NEW acquires \in BOOLEAN,
           Load(t, view, l, i, acquires), UNCHANGED <<memory, released>>
    PROVE  /\ ViewsOK'
           /\ \A u \in Thread \ {t} : current'[u] = current[u] /\ acquirable'[u] = acquirable[u]
           /\ \A k \in Location : /\ view[k] <= current'[t][k]
                                  /\ current'[t][k] \in current[t][k]..Last(k)
                                  /\ acquirable[t][k] <= acquirable'[t][k]
                                  /\ ViewOf(l, i)[k] <= acquirable'[t][k]
                                  /\ acquires => ViewOf(l, i)[k] <= current'[t][k]
           /\ view[l] <= i /\ i <= current'[t][l]
<1> DEFINE read == [view EXCEPT ![l] = i]
           stored == ViewOf(l, i)
<1>1. stored \in View /\ Within(stored) /\ \A k \in Location : Last(k) \in Nat
  BY StoreType DEF Within
<1>2. /\ view[l] <= i
      /\ current' = [current EXCEPT ![t] = IF acquires THEN Join(read, stored) ELSE read]
      /\ acquirable' = [acquirable EXCEPT ![t] = Join(Join(acquirable[t], read), stored)]
  BY DEF Load, ViewOf
<1>3. /\ read \in View /\ Within(read) /\ read[l] = i
      /\ \A k \in Location : view[k] <= read[k]
  BY <1>1, <1>2 DEF View, Within
<1>4. /\ acquirable[t] \in View /\ Within(acquirable[t]) /\ current[t] \in View
      /\ Within(current[t])
  BY DEF ViewsOK
<1>5. /\ Join(read, stored) \in View /\ Within(Join(read, stored))
      /\ \A k \in Location : read[k] <= Join(read, stored)[k] /\ stored[k] <= Join(read, stored)[k]
  <2>1. Join(read, stored) \in View /\ Within(Join(read, stored))
    BY <1>1, <1>3, JoinType, JoinWithin
  <2> QED
    BY <2>1, <1>1, <1>3, JoinType
<1>6. /\ Join(acquirable[t], read) \in View /\ Within(Join(acquirable[t], read))
      /\ \A k \in Location : acquirable[t][k] <= Join(acquirable[t], read)[k]
  <2>1. Join(acquirable[t], read) \in View /\ Within(Join(acquirable[t], read))
    BY <1>3, <1>4, JoinType, JoinWithin
  <2> QED
    BY <2>1, <1>3, <1>4, JoinType
<1> HIDE DEF read, stored
<1>7. /\ acquirable'[t] \in View /\ Within(acquirable'[t])
      /\ \A k \in Location : acquirable[t][k] <= acquirable'[t][k] /\ stored[k] <= acquirable'[t][k]
  <2>1. acquirable'[t] = Join(Join(acquirable[t], read), stored)
    BY <1>2 DEF ViewsOK
  <2>2. \A k \in Location : /\ acquirable[t][k] \in Nat /\ stored[k] \in Nat
                            /\ Join(acquirable[t], read)[k] \in Nat
    BY <1>1, <1>4, <1>6 DEF View
  <2> QED
    BY <2>1, <2>2, <1>1, <1>6, JoinType DEF Within, View
<1>8. /\ current'[t] \in View /\ Within(current'[t])
      /\ \A k \in Location : read[k] <= current'[t][k] /\ (acquires => stored[k] <= current'[t][k])
  <2>1. current'[t] = IF acquires THEN Join(read, stored) ELSE read
    BY <1>2 DEF ViewsOK
  <2> QED
    BY <2>1, <1>1, <1>3, <1>5 DEF View
<1>9. ViewsOK'
  BY <1>2, <1>7, <1>8 DEF ViewsOK, Within, Last
<1> QED
  <2>1. \A k \in Location : /\ current[t][k] \in Nat /\ current'[t][k] \in Nat /\ view[k] \in Nat
                            /\ read[k] \in Nat /\ Last(k) \in Nat
    BY <1>1, <1>3, <1>4, <1>8 DEF View
  <2>2. \A k \in Location : /\ view[k] <= current'[t][k]
                            /\ current'[t][k] \in current[t][k]..Last(k)
    BY <2>1, <1>3, <1>8 DEF Within
  <2>3. \A u \in Thread \ {t} : current'[u] = current[u] /\ acquirable'[u] = acquirable[u]
    BY <1>2 DEF ViewsOK
  <2> QED
    BY <2>2, <2>3, <1>2, <1>3, <1>7, <1>8, <1>9 DEF stored

-----------------------------------------------------------------------------
(* Loads.                                                                  *)

\* While the memory stays, the parts about the memory do, and those about the
\* threads that take no step.
LEMMA MemoryKept ==
    ASSUME SeqLockInv, UNCHANGED <<memory, released>>, ViewsOK',
           NEW t \in Thread, Holds(t)' <=> Holds(t),
           \A u \in Thread \ {t} : /\ current'[u] = current[u] /\ acquirable'[u] = acquirable[u]
                                   /\ call'[u] = call[u] /\ seen'[u] = seen[u]
    PROVE  /\ MemoryOK' /\ ValuesOK' /\ PublishesWhole' /\ TagsFields' /\ UnlockedOK'
           /\ \A u \in Thread \ {t} : ThreadOK(u)'
<1>1. MemoryOK' /\ ValuesOK' /\ PublishesWhole' /\ TagsFields'
  BY DEF SeqLockInv, MemoryOK, ValuesOK, PublishesWhole, TagsFields, Within, ViewOf, Published,
         Last, Value
<1>2. \A u \in Thread : Holds(u)' <=> Holds(u)
  BY DEF Holds
<1>3. UnlockedOK'
  BY <1>2 DEF SeqLockInv, UnlockedOK, Unlocked, Published, ViewOf, Last
<1>4. ASSUME NEW u \in Thread \ {t} PROVE ThreadOK(u)'
  <2>1. ThreadOK(u) /\ call'[u] = call[u]
    BY DEF SeqLockInv
  <2>2. CallOK(u)'
    BY <2>1 DEF ThreadOK, CallOK, Holds, At
  <2>3. ReaderOK(u)'
    BY <2>1 DEF ThreadOK, ReaderOK, At, Published, ViewOf, Value, Last
  <2>4. WriterOK(u)'
    BY <2>1, <1>2 DEF ThreadOK, WriterOK, At, Published, ViewOf, Value, Last, HeldAt
  <2>5. SeenOK(u)'
    BY <2>1 DEF ThreadOK, SeenOK, Published, ViewOf, Value, HeldAt
  <2> QED
    BY <2>2, <2>3, <2>4, <2>5 DEF ThreadOK
<1> QED
  BY <1>1, <1>3, <1>4

\* A step of one thread that leaves the memory alone keeps the invariant if it
\* does for that thread.
LEMMA LoadOfOne ==
    ASSUME SeqLockInv, UNCHANGED <<memory, released, calls>>, ViewsOK',
           call' \in [Thread -> CallType], seen' \in [Thread -> Nat \X Nat],
           NEW t \in Thread, Holds(t)' <=> Holds(t), ThreadOK(t)',
           \A u \in Thread \ {t} : /\ current'[u] = current[u] /\ acquirable'[u] = acquirable[u]
                                   /\ call'[u] = call[u] /\ seen'[u] = seen[u]
    PROVE  SeqLockInv'
<1>1. /\ MemoryOK' /\ ValuesOK' /\ PublishesWhole' /\ TagsFields' /\ UnlockedOK'
      /\ \A u \in Thread \ {t} : ThreadOK(u)'
  BY MemoryKept
<1>2. calls' \in [Thread -> 0..MaxCalls]
  BY DEF SeqLockInv
<1> QED
  BY <1>1, <1>2 DEF SeqLockInv

\* A load keeps the invariant if it does for the thread that makes it.
LEMMA LoadKeeps ==
    ASSUME SeqLockInv, NEW t \in Thread,
           NEW view \in View, Within(view), \A k \in Location : current[t][k] <= view[k],
           NEW l \in Location, NEW i \in 1..Last(l), NEW acquires \in BOOLEAN,
           Load(t, view, l, i, acquires), UNCHANGED <<memory, released, calls>>,
           NEW c \in CallType, call' = [call EXCEPT ![t] = c],
           Holds(t)' <=> Holds(t),
           NEW instant \in Nat \X Nat, seen' = [seen EXCEPT ![t] = instant],
           ThreadOK(t)'
    PROVE  SeqLockInv'
<1>1. /\ ViewsOK'
      /\ \A u \in Thread \ {t} : current'[u] = current[u] /\ acquirable'[u] = acquirable[u]
  BY Loaded DEF SeqLockInv
<1>2. \A u \in Thread \ {t} : call'[u] = call[u] /\ seen'[u] = seen[u]
  BY DEF SeqLockInv
<1>3. call' \in [Thread -> CallType] /\ seen' \in [Thread -> Nat \X Nat]
  BY DEF SeqLockInv
<1> QED
  BY <1>1, <1>2, <1>3, LoadOfOne

\* What a thread knows of stays known as its view grows.
LEMMA SeenKept ==
    ASSUME SeqLockInv, NEW t \in Thread, UNCHANGED memory, ViewsOK',
           current[t]["version"] <= current'[t]["version"], seen'[t] = seen[t]
    PROVE  SeenOK(t)'
<1> DEFINE v == current[t]["version"]
           w == current'[t]["version"]
<1>1. v \in 1..Last("version") /\ w \in 1..Last("version") /\ v \in 1..w
  <2>1. Last("version") \in Nat /\ v \in 1..Last("version")
    BY ViewType DEF SeqLockInv, Location
  <2>2. current'[t] \in View /\ current'[t]["version"] <= Last("version")
    BY DEF ViewsOK, Within, Location, Last
  <2> QED
    BY <2>1, <2>2 DEF View, Location
<1>2. Published(v) <= Published(w) /\ Published(v) \in Nat /\ Published(w) \in Nat
  BY <1>1, PublishedType DEF SeqLockInv
<1>3. PICK m \in 1..Published(v) : seen[t] = HeldAt(m)
  BY DEF SeqLockInv, ThreadOK, SeenOK
<1>4. m \in 1..Published(w)
  BY <1>2, <1>3
<1> QED
  BY <1>3, <1>4 DEF SeenOK, Published, ViewOf, HeldAt, Value

\* A load from where the thread is.
LEMMA Reads ==
    ASSUME SeqLockInv, NEW t \in Thread, NEW l \in Location, NEW i \in 1..Last(l),
           NEW acquires \in BOOLEAN, Load(t, current[t], l, i, acquires),
           memory' = memory, released' = released
    PROVE  /\ ViewsOK' /\ current[t] \in View /\ Within(current[t])
           /\ i \in current[t][l]..Last(l)
           /\ \A k \in Location : /\ current[t][k] \in Nat /\ current[t][k] <= current[t][k]
                                  /\ current'[t][k] \in current[t][k]..Last(k)
                                  /\ acquirable[t][k] <= acquirable'[t][k]
                                  /\ ViewOf(l, i)[k] <= acquirable'[t][k]
                                  /\ acquires => ViewOf(l, i)[k] <= current'[t][k]
<1>1. MemoryOK /\ ViewsOK
  BY DEF SeqLockInv
<1>2. /\ current[t] \in View /\ Within(current[t])
      /\ \A k \in Location : current[t][k] \in Nat /\ current[t][k] <= current[t][k]
  BY <1>1 DEF ViewsOK, View
<1> QED
  BY <1>1, <1>2, Loaded

\* Such a load keeps the invariant if it does what the thread knows of its call.
LEMMA ReadKeeps ==
    ASSUME SeqLockInv, NEW t \in Thread, NEW l \in Location, NEW i \in 1..Last(l),
           NEW acquires \in BOOLEAN, Load(t, current[t], l, i, acquires),
           memory' = memory, released' = released, calls' = calls, seen' = seen,
           NEW c \in CallType, call' = [call EXCEPT ![t] = c], Holds(t)' <=> Holds(t),
           CallOK(t)', ReaderOK(t)', WriterOK(t)'
    PROVE  SeqLockInv'
<1>1. /\ ViewsOK'
      /\ current[t]["version"] <= current'[t]["version"]
  BY Reads DEF Location
<1>2. SeenOK(t)'
  BY <1>1, SeenKept
<1>3. ThreadOK(t)'
  BY <1>2 DEF ThreadOK
<1>4. \A u \in Thread \ {t} : current'[u] = current[u] /\ acquirable'[u] = acquirable[u]
  BY DEF Load, SeqLockInv, ViewsOK
<1>5. /\ call' \in [Thread -> CallType] /\ seen' \in [Thread -> Nat \X Nat]
      /\ \A u \in Thread \ {t} : call'[u] = call[u] /\ seen'[u] = seen[u]
  BY DEF SeqLockInv
<1> QED
  BY <1>1, <1>3, <1>4, <1>5, LoadOfOne

\* The first load of load_raw.
LEMMA ReadBeforeKeeps ==
    ASSUME SeqLockInv, NEW t \in Thread, NEW i \in 1..Last("version"), ReadBefore(t, i)
    PROVE  SeqLockInv'
<1>1. /\ MemoryOK /\ PublishesWhole /\ call \in [Thread -> CallType] /\ call[t] \in CallType
      /\ Value("version", i) = i - 1 /\ ThreadOK(t)
  BY DEF SeqLockInv, ValuesOK
<1>2. /\ Load(t, current[t], "version", i, TRUE)
      /\ memory' = memory /\ released' = released /\ calls' = calls /\ seen' = seen
      /\ call[t].pc = "readBefore" /\ "version" \in Location
  BY DEF ReadBefore, At, Location
<1>3. CASE ~IsEven(i - 1)
  <2>1. call' = call /\ call' = [call EXCEPT ![t] = call[t]]
    BY <1>1, <1>3 DEF ReadBefore
  <2>2. (Holds(t)' <=> Holds(t)) /\ CallOK(t)' /\ ReaderOK(t)' /\ WriterOK(t)'
    BY <1>2, <2>1 DEF Holds, CallOK, ReaderOK, WriterOK, At
  <2> QED
    BY <1>1, <1>2, <2>1, <2>2, ReadKeeps
<1>4. CASE IsEven(i - 1)
  <2> DEFINE c == [call[t] EXCEPT !.pc = "readSecs", !.version = i - 1]
  <2>1. call' = [call EXCEPT ![t] = c]
    BY <1>1, <1>4 DEF ReadBefore
  <2>2. c \in CallType /\ c.pc = "readSecs" /\ c.version + 1 = i /\ IsOdd(i)
    <3>1. i - 1 \in Nat /\ (i - 1) + 1 = i
      OBVIOUS
    <3>2. IsOdd(i)
      BY <1>4, <3>1 DEF IsEven, IsOdd
    <3> QED
      BY <1>1, <3>1, <3>2 DEF CallType, Calls
  <2>3. call'[t] = c
    BY <1>1, <2>1
  <2> HIDE DEF c
  <2>4. (Holds(t)' <=> Holds(t)) /\ CallOK(t)' /\ WriterOK(t)'
    BY <1>2, <2>2, <2>3 DEF Holds, CallOK, WriterOK, At
  <2>5. \A k \in Location : ViewOf("version", i)[k] <= current'[t][k]
    BY <1>2, Reads
  <2>6. \A l \in Fields : current'[t][l] >= Published(i)
    <3>1. \A l \in Fields : ViewOf("version", i)[l] = Published(i)
      BY <1>1, PublishedType
    <3> QED
      BY <2>5, <3>1 DEF Fields, Location
  <2>7. Published(i)' = Published(i) /\ Last("version")' = Last("version")
    BY <1>2 DEF Published, ViewOf, Last
  <2>8. ReaderOK(t)'
    BY <2>2, <2>3, <2>6, <2>7 DEF ReaderOK, At
  <2> QED
    BY <1>2, <2>1, <2>2, <2>4, <2>8, ReadKeeps
<1> QED
  BY <1>3, <1>4

\* The relaxed load of the seconds.
LEMMA ReadSecsKeeps ==
    ASSUME SeqLockInv, NEW t \in Thread, NEW i \in 1..Last("secs"), ReadSecs(t, i)
    PROVE  SeqLockInv'
<1> DEFINE c == [call[t] EXCEPT !.pc = "readNanos", !.secs = Value("secs", i)]
           v == call[t].version + 1
<1>1. /\ MemoryOK /\ PublishesWhole /\ call \in [Thread -> CallType] /\ call[t] \in CallType
      /\ ThreadOK(t)
  BY DEF SeqLockInv
<1>2. /\ Load(t, current[t], "secs", i, FALSE) /\ call' = [call EXCEPT ![t] = c]
      /\ memory' = memory /\ released' = released /\ calls' = calls /\ seen' = seen
      /\ call[t].pc = "readSecs" /\ "secs" \in Location /\ "version" \in Location
  BY DEF ReadSecs, LoadRelaxed, At, Location
<1>3. Value("secs", i) \in Nat /\ ViewOf("secs", i)["version"] \in Nat
  BY <1>1, StoreType DEF Location, View
<1>4. /\ c \in CallType /\ c.pc = "readNanos" /\ c.version = call[t].version
      /\ c.secs = Value("secs", i) /\ call'[t] = c
  BY <1>1, <1>2, <1>3 DEF CallType, Calls
<1> HIDE DEF c
<1>5. (Holds(t)' <=> Holds(t)) /\ CallOK(t)' /\ WriterOK(t)'
  BY <1>2, <1>4 DEF Holds, CallOK, WriterOK, At
<1>6. /\ IsOdd(v) /\ v \in 1..Last("version")
      /\ \A l \in Fields : current[t][l] >= Published(v)
  <2>1. /\ IsOdd(v) /\ v <= Last("version") /\ v \in Nat \ {0}
        /\ \A l \in Fields : current[t][l] >= Published(v)
    BY <1>1, <1>2 DEF ThreadOK, ReaderOK, At, CallType
  <2> QED
    BY <2>1
<1>7. /\ \A l \in Fields : current'[t][l] >= Published(v)
      /\ i \in Published(v)..Last("secs")
      /\ acquirable'[t]["version"] >= ViewOf("secs", i)["version"]
  <2>1. /\ \A k \in Location : current[t][k] \in Nat /\ current'[t][k] \in current[t][k]..Last(k)
        /\ i \in current[t]["secs"]..Last("secs")
        /\ ViewOf("secs", i)["version"] <= acquirable'[t]["version"]
    BY <1>2, Reads
  <2>2. Published(v) \in Nat
    BY <1>1, <1>6, PublishedType
  <2> QED
    BY <1>6, <2>1, <2>2 DEF Fields, Location
<1>8. /\ \A j : Published(j)' = Published(j) /\ ViewOf("secs", j)' = ViewOf("secs", j)
                /\ Value("secs", j)' = Value("secs", j)
      /\ \A l : Last(l)' = Last(l)
  BY <1>2 DEF Published, ViewOf, Last, Value
<1>9. ReaderOK(t)'
  BY <1>4, <1>6, <1>7, <1>8 DEF ReaderOK, At
<1> QED
  BY <1>2, <1>4, <1>5, <1>9, ReadKeeps

\* The relaxed load of the nanoseconds.
LEMMA ReadNanosKeeps ==
    ASSUME SeqLockInv, NEW t \in Thread, NEW i \in 1..Last("nanos"), ReadNanos(t, i)
    PROVE  SeqLockInv'
<1> DEFINE c == [call[t] EXCEPT !.pc = "readAgain", !.nanos = Value("nanos", i)]
           v == call[t].version + 1
<1>1. /\ MemoryOK /\ PublishesWhole /\ call \in [Thread -> CallType] /\ call[t] \in CallType
      /\ ThreadOK(t) /\ ViewsOK
  BY DEF SeqLockInv
<1>2. /\ Load(t, current[t], "nanos", i, FALSE) /\ call' = [call EXCEPT ![t] = c]
      /\ memory' = memory /\ released' = released /\ calls' = calls /\ seen' = seen
      /\ call[t].pc = "readNanos" /\ "nanos" \in Location /\ "version" \in Location
  BY DEF ReadNanos, LoadRelaxed, At, Location
<1>3. Value("nanos", i) \in Nat /\ ViewOf("nanos", i)["version"] \in Nat
  BY <1>1, StoreType DEF Location, View
<1>4. /\ c \in CallType /\ c.pc = "readAgain" /\ c.version = call[t].version
      /\ c.secs = call[t].secs /\ c.nanos = Value("nanos", i) /\ call'[t] = c
  BY <1>1, <1>2, <1>3 DEF CallType, Calls
<1> HIDE DEF c
<1>5. (Holds(t)' <=> Holds(t)) /\ CallOK(t)' /\ WriterOK(t)'
  BY <1>2, <1>4 DEF Holds, CallOK, WriterOK, At
<1>6. /\ IsOdd(v) /\ v \in 1..Last("version")
      /\ \A l \in Fields : current[t][l] >= Published(v)
  <2>1. /\ IsOdd(v) /\ v <= Last("version") /\ v \in Nat \ {0}
        /\ \A l \in Fields : current[t][l] >= Published(v)
    BY <1>1, <1>2 DEF ThreadOK, ReaderOK, At, CallType
  <2> QED
    BY <2>1
<1>7. PICK a \in Published(v)..Last("secs") :
          /\ call[t].secs = Value("secs", a)
          /\ acquirable[t]["version"] >= ViewOf("secs", a)["version"]
  BY <1>1, <1>2 DEF ThreadOK, ReaderOK, At
<1>8. /\ \A l \in Fields : current'[t][l] >= Published(v)
      /\ i \in Published(v)..Last("nanos")
      /\ acquirable'[t]["version"] >= ViewOf("nanos", i)["version"]
      /\ acquirable'[t]["version"] >= ViewOf("secs", a)["version"]
  <2>1. /\ ViewsOK'
        /\ \A k \in Location : current[t][k] \in Nat /\ current'[t][k] \in current[t][k]..Last(k)
        /\ i \in current[t]["nanos"]..Last("nanos")
        /\ ViewOf("nanos", i)["version"] <= acquirable'[t]["version"]
        /\ acquirable[t]["version"] <= acquirable'[t]["version"]
    BY <1>2, Reads
  <2>2. Published(v) \in Nat \ {0}
    BY <1>1, <1>6, PublishedType
  <2>3. a \in 1..Last("secs")
    BY <2>2
  <2>4. /\ acquirable[t]["version"] \in Nat /\ ViewOf("secs", a)["version"] \in Nat
        /\ acquirable'[t]["version"] \in Nat
    BY <1>1, <2>1, <2>3, StoreType DEF Location, View, ViewsOK
  <2> QED
    BY <1>6, <1>7, <2>1, <2>2, <2>4 DEF Fields, Location
<1>9. /\ \A j : Published(j)' = Published(j)
      /\ \A l, j : ViewOf(l, j)' = ViewOf(l, j) /\ Value(l, j)' = Value(l, j)
      /\ \A l : Last(l)' = Last(l)
  BY <1>2 DEF Published, ViewOf, Last, Value
<1>10. ReaderOK(t)'
  BY <1>4, <1>6, <1>7, <1>8, <1>9 DEF ReaderOK, At
<1> QED
  BY <1>2, <1>4, <1>5, <1>10, ReadKeeps

\* The relaxed load before a swap.
LEMMA ReadLockKeeps ==
    ASSUME SeqLockInv, NEW t \in Thread, NEW i \in 1..Last("version"), ReadLock(t, i)
    PROVE  SeqLockInv'
<1>1. /\ call \in [Thread -> CallType] /\ call[t] \in CallType
      /\ Value("version", i) = i - 1 /\ ThreadOK(t)
  BY DEF SeqLockInv, ValuesOK
<1>2. /\ Load(t, current[t], "version", i, FALSE)
      /\ memory' = memory /\ released' = released /\ calls' = calls /\ seen' = seen
      /\ call[t].pc = "readLock" /\ "version" \in Location
  BY DEF ReadLock, LoadRelaxed, At, Location
<1>3. CASE ~IsEven(i - 1)
  <2>1. call' = call /\ call' = [call EXCEPT ![t] = call[t]]
    BY <1>1, <1>3 DEF ReadLock
  <2>2. (Holds(t)' <=> Holds(t)) /\ CallOK(t)' /\ ReaderOK(t)' /\ WriterOK(t)'
    BY <1>1, <1>2, <2>1 DEF Holds, CallOK, ReaderOK, WriterOK, At, ThreadOK
  <2> QED
    BY <1>1, <1>2, <2>1, <2>2, ReadKeeps
<1>4. CASE IsEven(i - 1)
  <2> DEFINE c == [call[t] EXCEPT !.pc = "swap", !.version = i - 1]
  <2>1. call' = [call EXCEPT ![t] = c]
    BY <1>1, <1>4 DEF ReadLock
  <2>2. c \in CallType /\ c.pc = "swap" /\ c.time = call[t].time /\ IsEven(c.version)
    <3>1. i - 1 \in Nat
      OBVIOUS
    <3> QED
      BY <1>1, <1>4, <3>1 DEF CallType, Calls
  <2>3. call'[t] = c
    BY <1>1, <2>1
  <2> HIDE DEF c
  <2>4. (Holds(t)' <=> Holds(t)) /\ CallOK(t)' /\ ReaderOK(t)' /\ WriterOK(t)'
    BY <1>1, <1>2, <2>2, <2>3 DEF Holds, CallOK, ReaderOK, WriterOK, At, ThreadOK
  <2> QED
    BY <1>2, <2>1, <2>2, <2>4, ReadKeeps
<1> QED
  BY <1>3, <1>4

\* The swap fails.
LEMMA FailLockKeeps ==
    ASSUME SeqLockInv, NEW t \in Thread, NEW i \in 1..Last("version"), FailLock(t, i)
    PROVE  SeqLockInv'
<1> DEFINE c == [call[t] EXCEPT !.pc = "readLock"]
<1>1. call \in [Thread -> CallType] /\ call[t] \in CallType /\ ThreadOK(t)
  BY DEF SeqLockInv
<1>2. /\ Load(t, current[t], "version", i, FALSE) /\ call' = [call EXCEPT ![t] = c]
      /\ memory' = memory /\ released' = released /\ calls' = calls /\ seen' = seen
      /\ call[t].pc = "swap" /\ "version" \in Location
  BY DEF FailLock, LoadRelaxed, At, Location, GoTo
<1>3. c \in CallType /\ c.pc = "readLock" /\ c.time = call[t].time /\ call'[t] = c
  BY <1>1, <1>2 DEF CallType, Calls
<1> HIDE DEF c
<1>4. (Holds(t)' <=> Holds(t)) /\ CallOK(t)' /\ ReaderOK(t)' /\ WriterOK(t)'
  BY <1>1, <1>2, <1>3 DEF Holds, CallOK, ReaderOK, WriterOK, At, ThreadOK
<1> QED
  BY <1>2, <1>3, <1>4, ReadKeeps

\* The thread that holds the version reads the last store to either field.
LEMMA HeldRead ==
    ASSUME SeqLockInv, NEW t \in Thread, Holds(t), NEW l \in Location, NEW i \in 1..Last(l),
           Load(t, current[t], l, i, FALSE), memory' = memory, released' = released
    PROVE  /\ i = Last(l) /\ current'[t] = current[t]
           /\ \A k \in Location : current'[t][k] = Last(k)
<1>1. MemoryOK /\ ViewsOK /\ \A k \in Location : current[t][k] = Last(k)
  BY DEF SeqLockInv, ThreadOK, WriterOK
<1>2. \A k \in Location : Last(k) \in Nat /\ current'[t][k] \in current[t][k]..Last(k)
  BY <1>1, Reads, ViewType
<1>3. \A k \in Location : current'[t][k] = Last(k)
  BY <1>1, <1>2
<1>4. ViewsOK' /\ i \in current[t][l]..Last(l)
  BY Reads
<1>5. current'[t] = current[t]
  BY <1>1, <1>3, <1>4 DEF ViewsOK, View
<1> QED
  BY <1>1, <1>2, <1>3, <1>4, <1>5

\* The writer reads the seconds really held.
LEMMA ReadHeldSecsKeeps ==
    ASSUME SeqLockInv, NEW t \in Thread, NEW i \in 1..Last("secs"), ReadHeldSecs(t, i)
    PROVE  SeqLockInv'
<1> DEFINE c == [call[t] EXCEPT !.pc = "readHeldNanos", !.secs = Value("secs", i)]
<1>1. /\ MemoryOK /\ call \in [Thread -> CallType] /\ call[t] \in CallType
      /\ CallOK(t) /\ WriterOK(t)
  BY DEF SeqLockInv, ThreadOK
<1>2. /\ Load(t, current[t], "secs", i, FALSE) /\ call' = [call EXCEPT ![t] = c]
      /\ memory' = memory /\ released' = released /\ calls' = calls /\ seen' = seen
      /\ call[t].pc = "readHeldSecs" /\ "secs" \in Location /\ Holds(t)
  BY DEF ReadHeldSecs, LoadRelaxed, At, Location, Holds
<1>3. Value("secs", i) \in Nat
  BY <1>1, StoreType DEF Location
<1>4. /\ c \in CallType /\ c.pc = "readHeldNanos" /\ c.version = call[t].version
      /\ c.time = call[t].time /\ c.secs = Value("secs", i) /\ call'[t] = c
  BY <1>1, <1>2, <1>3 DEF CallType, Calls
<1> HIDE DEF c
<1>5. (Holds(t)' <=> Holds(t)) /\ CallOK(t)' /\ ReaderOK(t)'
  BY <1>1, <1>2, <1>4 DEF Holds, CallOK, ReaderOK, At
<1>6. i = Last("secs") /\ current'[t] = current[t]
  BY <1>2, HeldRead
<1>7. \A u \in Thread : Holds(u)' <=> Holds(u)
  BY <1>1, <1>2, <1>5 DEF Holds
<1>8. /\ \A l, j : Value(l, j)' = Value(l, j)
      /\ \A l : Last(l)' = Last(l)
  BY <1>2 DEF Last, Value
<1>9. WriterOK(t)'
  <2>1. /\ \A u \in Thread : Holds(u) => u = t
        /\ ~IsOdd(Last("version")) /\ call[t].version = Last("version") - 2
        /\ \A l \in Location : current[t][l] = Last(l)
        /\ released[t]["version"] = Last("version") /\ Last("secs") = Last("nanos")
    BY <1>1, <1>2 DEF WriterOK, At
  <2> QED
    BY <1>2, <1>4, <1>6, <1>7, <1>8, <2>1 DEF WriterOK, At
<1> QED
  BY <1>2, <1>4, <1>5, <1>9, ReadKeeps

\* It compares its time with the instant really held.
LEMMA ReadHeldNanosKeeps ==
    ASSUME SeqLockInv, NEW t \in Thread, NEW i \in 1..Last("nanos"), ReadHeldNanos(t, i)
    PROVE  SeqLockInv'
<1> DEFINE later == IsLater(t, Value("nanos", i))
           c == [call[t] EXCEPT !.pc = IF later THEN "storeSecs" ELSE "unlock",
                                !.nanos = Value("nanos", i)]
<1>1. /\ MemoryOK /\ call \in [Thread -> CallType] /\ call[t] \in CallType
      /\ CallOK(t) /\ WriterOK(t)
  BY DEF SeqLockInv, ThreadOK
<1>2. /\ Load(t, current[t], "nanos", i, FALSE) /\ call' = [call EXCEPT ![t] = c]
      /\ memory' = memory /\ released' = released /\ calls' = calls /\ seen' = seen
      /\ call[t].pc = "readHeldNanos" /\ "nanos" \in Location /\ Holds(t)
  BY DEF ReadHeldNanos, LoadRelaxed, At, Location, Holds
<1>3. Value("nanos", i) \in Nat
  BY <1>1, StoreType DEF Location
<1> HIDE DEF later
<1>4. /\ c \in CallType /\ c.pc = (IF later THEN "storeSecs" ELSE "unlock")
      /\ c.version = call[t].version /\ c.time = call[t].time /\ c.secs = call[t].secs
      /\ c.nanos = Value("nanos", i) /\ call'[t] = c
  BY <1>1, <1>2, <1>3 DEF CallType, Calls
<1> HIDE DEF c
<1>5. (Holds(t)' <=> Holds(t)) /\ CallOK(t)' /\ ReaderOK(t)'
  BY <1>1, <1>2, <1>4 DEF Holds, CallOK, ReaderOK, At
<1>6. i = Last("nanos") /\ current'[t] = current[t]
  BY <1>2, HeldRead
<1>7. \A u \in Thread : Holds(u)' <=> Holds(u)
  BY <1>1, <1>2, <1>5 DEF Holds
<1>8. /\ \A l, j : Value(l, j)' = Value(l, j)
      /\ \A l : Last(l)' = Last(l)
  BY <1>2 DEF Last, Value
<1>9. WriterOK(t)'
  <2>1. /\ \A u \in Thread : Holds(u) => u = t
        /\ ~IsOdd(Last("version")) /\ call[t].version = Last("version") - 2
        /\ \A l \in Location : current[t][l] = Last(l)
        /\ released[t]["version"] = Last("version") /\ Last("secs") = Last("nanos")
        /\ call[t].secs = Value("secs", Last("nanos"))
    BY <1>1, <1>2 DEF WriterOK, At
  <2>2. <<c.secs, c.nanos>> = HeldAt(Last("nanos")) /\ later = IsBefore(<<c.secs, c.nanos>>, c.time)
    BY <1>4, <1>6, <2>1 DEF HeldAt, later, IsLater
  <2>3. HeldAt(Last("nanos"))' = HeldAt(Last("nanos"))
    BY <1>8 DEF HeldAt
  <2> QED
    BY <1>2, <1>4, <1>6, <1>7, <1>8, <2>1, <2>2, <2>3 DEF WriterOK, At
<1> QED
  BY <1>2, <1>4, <1>5, <1>9, ReadKeeps

\* The view after the acquire fence.
LEMMA Fence ==
    ASSUME MemoryOK, ViewsOK, NEW t \in Thread
    PROVE  /\ AcquireFence(t) \in View /\ Within(AcquireFence(t))
           /\ \A k \in Location : /\ current[t][k] <= AcquireFence(t)[k]
                                  /\ acquirable[t][k] <= AcquireFence(t)[k]
<1>1. /\ current[t] \in View /\ acquirable[t] \in View
      /\ Within(current[t]) /\ Within(acquirable[t])
  BY DEF ViewsOK
<1> QED
  BY <1>1, JoinType DEF AcquireFence, Within

\* The version read twice publishes the instant read between, last of all.
LEMMA ReadWhole ==
    ASSUME SeqLockInv, NEW t \in Thread, At(t, "readAgain"),
           NEW i \in 1..Last("version"), Load(t, AcquireFence(t), "version", i, FALSE),
           Value("version", i) = call[t].version
    PROVE  /\ Published(i) \in 1..Last("nanos")
           /\ <<call[t].secs, call[t].nanos>> = HeldAt(Published(i))
           /\ \E m \in 1..Published(i) : seen[t] = HeldAt(m)
<1> DEFINE v == call[t].version + 1
           n == Published(i)
<1>1. /\ MemoryOK /\ ViewsOK /\ PublishesWhole /\ TagsFields /\ ReaderOK(t) /\ SeenOK(t)
      /\ call[t] \in CallType /\ Value("version", i) = i - 1
  BY DEF SeqLockInv, ThreadOK, ValuesOK
<1>2. v = i /\ IsOdd(i)
  <2>1. v = i
    BY <1>1
  <2> QED
    BY <1>1, <2>1 DEF ReaderOK, At
<1>3. /\ n \in 1..Last("nanos") /\ n \in 1..Last("secs")
      /\ \A j \in 1..i : Published(j) <= n
  BY <1>1, PublishedType
<1>4. /\ acquirable[t]["version"] \in Nat /\ current[t]["version"] \in 1..i
      /\ acquirable[t]["version"] <= i
  <2>1. AcquireFence(t)["version"] <= i
    BY DEF Load
  <2>2. /\ current[t]["version"] <= AcquireFence(t)["version"]
        /\ acquirable[t]["version"] <= AcquireFence(t)["version"]
        /\ AcquireFence(t)["version"] \in Nat
    BY <1>1, Fence DEF Location, View
  <2>3. acquirable[t]["version"] \in Nat /\ current[t]["version"] \in Nat \ {0}
    BY <1>1 DEF ViewsOK, View, Location
  <2> QED
    BY <2>1, <2>2, <2>3
<1>5. PICK a \in n..Last("secs") :
          /\ call[t].secs = Value("secs", a)
          /\ acquirable[t]["version"] >= ViewOf("secs", a)["version"]
  BY <1>1, <1>2 DEF ReaderOK, At
<1>6. PICK b \in n..Last("nanos") :
          /\ call[t].nanos = Value("nanos", b)
          /\ acquirable[t]["version"] >= ViewOf("nanos", b)["version"]
  BY <1>1, <1>2 DEF ReaderOK, At
<1>7. a = n
  <2>1. a \in 1..Last("secs") /\ ViewOf("secs", a)["version"] \in Nat
    BY <1>1, <1>3, StoreType DEF Location, View
  <2>2. i >= ViewOf("secs", a)["version"]
    BY <1>4, <1>5, <2>1
  <2>3. a <= n
    BY <1>1, <1>2, <2>1, <2>2 DEF TagsFields, Fields
  <2> QED
    BY <1>3, <2>3
<1>8. b = n
  <2>1. b \in 1..Last("nanos") /\ ViewOf("nanos", b)["version"] \in Nat
    BY <1>1, <1>3, StoreType DEF Location, View
  <2>2. i >= ViewOf("nanos", b)["version"]
    BY <1>4, <1>6, <2>1
  <2>3. b <= n
    BY <1>1, <1>2, <2>1, <2>2 DEF TagsFields, Fields
  <2> QED
    BY <1>3, <2>3
<1>9. PICK m \in 1..Published(current[t]["version"]) : seen[t] = HeldAt(m)
  BY <1>1 DEF SeenOK
<1>10. m \in 1..n
  <2>1. Published(current[t]["version"]) <= n
    BY <1>3, <1>4
  <2>2. current[t]["version"] \in 1..Last("version")
    BY <1>1, ViewType DEF Location
  <2>3. Published(current[t]["version"]) \in Nat
    BY <1>1, <2>2, PublishedType
  <2> QED
    BY <1>3, <2>1, <2>3
<1> QED
  BY <1>3, <1>5, <1>6, <1>7, <1>8, <1>9, <1>10 DEF HeldAt

\* The fence and the second load of the version.
LEMMA ReadAgainKeeps ==
    ASSUME SeqLockInv, NEW t \in Thread, NEW i \in 1..Last("version"), ReadAgain(t, i)
    PROVE  SeqLockInv'
<1> DEFINE instant == <<call[t].secs, call[t].nanos>>
           retry == [call[t] EXCEPT !.pc = "readBefore"]
           lock == [call[t] EXCEPT !.pc = "readLock"]
<1>1. /\ MemoryOK /\ ViewsOK /\ call \in [Thread -> CallType] /\ call[t] \in CallType
      /\ seen \in [Thread -> Nat \X Nat] /\ "version" \in Location
  BY DEF SeqLockInv, Location
<1>2. /\ Load(t, AcquireFence(t), "version", i, FALSE) /\ At(t, "readAgain")
      /\ memory' = memory /\ released' = released /\ calls' = calls
      /\ UNCHANGED <<memory, released, calls>>
  BY DEF ReadAgain
<1>3. /\ AcquireFence(t) \in View /\ Within(AcquireFence(t))
      /\ \A k \in Location : current[t][k] <= AcquireFence(t)[k]
  BY <1>1, Fence
<1>4. /\ ViewsOK' /\ i <= current'[t]["version"]
      /\ current[t]["version"] <= current'[t]["version"]
      /\ current'[t]["version"] <= Last("version")
  <2>1. /\ ViewsOK' /\ i <= current'[t]["version"]
        /\ current'[t]["version"] \in current[t]["version"]..Last("version")
    BY <1>1, <1>2, <1>3, Loaded
  <2> QED
    BY <2>1
<1>5. /\ retry \in CallType /\ retry.pc = "readBefore"
      /\ lock \in CallType /\ lock.pc = "readLock" /\ lock.time = call[t].time
      /\ Idle \in CallType /\ Idle.pc = "idle"
  BY <1>1 DEF CallType, Calls, Idle
<1>6. ASSUME NEW c \in CallType, call' = [call EXCEPT ![t] = c],
             c.pc \in {"readBefore", "readLock", "idle"},
             c.pc = "readLock" => c.time \in Instant
      PROVE  (Holds(t)' <=> Holds(t)) /\ CallOK(t)' /\ ReaderOK(t)' /\ WriterOK(t)'
  <2>1. call'[t] = c
    BY <1>1, <1>6
  <2> QED
    BY <1>2, <1>6, <2>1 DEF Holds, CallOK, ReaderOK, WriterOK, At
<1>7. ASSUME UNCHANGED seen
      PROVE  SeenOK(t)' /\ seen[t] \in Nat \X Nat /\ seen' = [seen EXCEPT ![t] = seen[t]]
  BY <1>1, <1>2, <1>4, <1>7, SeenKept
<1> HIDE DEF retry, lock
<1>8. CASE Value("version", i) # call[t].version
  <2>1. call' = [call EXCEPT ![t] = retry] /\ UNCHANGED seen
    BY <1>8 DEF ReadAgain, GoTo, retry
  <2>2. (Holds(t)' <=> Holds(t)) /\ ThreadOK(t)'
    BY <1>5, <1>6, <1>7, <2>1 DEF ThreadOK
  <2> QED
    BY <1>1, <1>2, <1>3, <1>5, <1>7, <2>1, <2>2, LoadKeeps
<1>9. CASE Value("version", i) = call[t].version /\ ~Answers(t, instant)
  <2>1. call' = [call EXCEPT ![t] = lock] /\ UNCHANGED seen
    BY <1>9 DEF ReadAgain, GoTo, lock
  <2>2. lock.time \in Instant
    BY <1>1, <1>5, <1>9 DEF Answers, CallType
  <2>3. (Holds(t)' <=> Holds(t)) /\ ThreadOK(t)'
    BY <1>5, <1>6, <1>7, <2>1, <2>2 DEF ThreadOK
  <2> QED
    BY <1>1, <1>2, <1>3, <1>5, <1>7, <2>1, <2>3, LoadKeeps
<1>10. CASE Value("version", i) = call[t].version /\ Answers(t, instant)
  <2>1. call' = [call EXCEPT ![t] = Idle] /\ seen' = [seen EXCEPT ![t] = instant]
    BY <1>10 DEF ReadAgain, Return
  <2>2. instant \in Nat \X Nat
    BY <1>1 DEF CallType
  <2>3. SeenOK(t)'
    <3>1. Published(i) \in 1..Last("nanos") /\ instant = HeldAt(Published(i))
      BY <1>2, <1>10, ReadWhole
    <3>2. current'[t]["version"] \in 1..Last("version") /\ i \in 1..current'[t]["version"]
      BY <1>1, <1>4 DEF ViewsOK, View
    <3>3. /\ Published(current'[t]["version"]) \in Nat
          /\ Published(i) <= Published(current'[t]["version"])
      BY <1>1, <3>2, PublishedType DEF SeqLockInv
    <3>4. Published(i) \in 1..Published(current'[t]["version"])
      BY <3>1, <3>3
    <3>5. seen'[t] = HeldAt(Published(i))
      BY <1>1, <2>1, <3>1
    <3> QED
      BY <1>2, <3>4, <3>5 DEF SeenOK, Published, ViewOf, HeldAt, Value
  <2>4. (Holds(t)' <=> Holds(t)) /\ ThreadOK(t)'
    BY <1>5, <1>6, <2>1, <2>3 DEF ThreadOK
  <2> HIDE DEF instant
  <2> QED
    BY <1>1, <1>2, <1>3, <1>5, <2>1, <2>2, <2>4, LoadKeeps
<1> QED
  BY <1>8, <1>9, <1>10

\* A thread calls.
LEMMA BeginKeeps ==
    ASSUME SeqLockInv, NEW t \in Thread, Begin(t)
    PROVE  SeqLockInv'
<1>1. PICK time \in Instant \cup {NoTime} :
          call' = [call EXCEPT ![t] = [Idle EXCEPT !.pc = "readBefore", !.time = time]]
  BY DEF Begin
<1> DEFINE c == [Idle EXCEPT !.pc = "readBefore", !.time = time]
<1>2. /\ call \in [Thread -> CallType] /\ calls \in [Thread -> 0..MaxCalls]
      /\ seen \in [Thread -> Nat \X Nat] /\ call[t].pc = "idle"
      /\ memory' = memory /\ current' = current /\ acquirable' = acquirable
      /\ released' = released /\ seen' = seen
  BY DEF SeqLockInv, Begin, At, views
<1>3. c \in CallType /\ c.pc = "readBefore" /\ call'[t] = c
  BY <1>1, <1>2 DEF CallType, Calls, Idle
<1>4. call' \in [Thread -> CallType] /\ \A u \in Thread \ {t} : call'[u] = call[u]
  BY <1>1, <1>2, <1>3
<1> HIDE DEF c
<1>5. calls' \in [Thread -> 0..MaxCalls]
  BY <1>2, CallsAssumption DEF Begin
<1>6. ViewsOK'
  BY <1>2 DEF SeqLockInv, ViewsOK, Within, Last
<1>7. (Holds(t)' <=> Holds(t)) /\ CallOK(t)' /\ ReaderOK(t)' /\ WriterOK(t)'
  BY <1>2, <1>3 DEF Holds, CallOK, ReaderOK, WriterOK, At
<1>8. SeenOK(t)'
  <2>1. SeenOK(t)
    BY DEF SeqLockInv, ThreadOK
  <2> QED
    BY <1>2, <2>1 DEF SeenOK, Published, ViewOf, HeldAt, Value
<1>9. /\ MemoryOK' /\ ValuesOK' /\ PublishesWhole' /\ TagsFields' /\ UnlockedOK'
      /\ \A u \in Thread \ {t} : ThreadOK(u)'
  <2>1. /\ UNCHANGED <<memory, released>>
        /\ \A u \in Thread \ {t} : /\ current'[u] = current[u] /\ acquirable'[u] = acquirable[u]
                                   /\ call'[u] = call[u] /\ seen'[u] = seen[u]
    BY <1>2, <1>4
  <2> QED
    BY <1>6, <1>7, <2>1, MemoryKept
<1>10. ThreadOK(t)'
  BY <1>7, <1>8 DEF ThreadOK
<1>11. seen' \in [Thread -> Nat \X Nat]
  BY <1>2
<1> QED
  BY <1>4, <1>5, <1>6, <1>9, <1>10, <1>11 DEF SeqLockInv

-----------------------------------------------------------------------------
(* Stores.                                                                 *)

\* A store whose view points to stores that are there, and to itself.
LEMMA StoredMemory ==
    ASSUME MemoryOK, NEW l \in Location, NEW cell \in Cell,
           memory' = [memory EXCEPT ![l] = Append(@, cell)],
           cell.view[l] = Last(l) + 1,
           \A k \in Location \ {l} : cell.view[k] <= Last(k)
    PROVE  /\ MemoryOK' /\ memory'[l][Last(l) + 1] = cell
           /\ Last(l)' = Last(l) + 1 /\ \A k \in Location \ {l} : Last(k)' = Last(k)
           /\ \A k \in Location : Last(k) \in Nat /\ Last(k) <= Last(k)'
           /\ \A k \in Location : \A i \in 1..Last(k) : memory'[k][i] = memory[k][i]
<1>1. /\ memory' \in [Location -> Seq(Cell)]
      /\ Last(l)' = Last(l) + 1 /\ memory'[l][Last(l) + 1] = cell
      /\ \A i \in 1..Last(l) : memory'[l][i] = memory[l][i]
      /\ \A k \in Location \ {l} : memory'[k] = memory[k] /\ Last(k)' = Last(k)
  BY Appended
<1>2. \A k \in Location : Last(k) \in Nat
  BY DEF MemoryOK, Last
<1>3. \A k \in Location : Last(k) <= Last(k)' /\ Last(k)' \in Nat
  BY <1>1, <1>2
<1>4. \A k \in Location : \A i \in 1..Last(k) : memory'[k][i] = memory[k][i]
  BY <1>1
<1>5. ASSUME NEW k \in Location, NEW i \in 1..Last(k)', NEW j \in Location
      PROVE  (ViewOf(k, i)[j])' <= Last(j)'
  <2>1. CASE i <= Last(k)
    <3>1. i \in 1..Last(k) /\ ViewOf(k, i)[j] \in 1..Last(j)
      BY <1>2, <2>1, StoreType
    <3>2. (ViewOf(k, i)[j])' = ViewOf(k, i)[j]
      BY <1>4, <3>1 DEF ViewOf
    <3> QED
      BY <1>2, <1>3, <3>1, <3>2
  <2>2. CASE ~(i <= Last(k))
    <3>1. k = l /\ i = Last(l) + 1
      BY <1>1, <1>2, <2>2
    <3>2. (ViewOf(k, i)[j])' = cell.view[j]
      BY <1>1, <3>1 DEF ViewOf
    <3> QED
      BY <1>1, <1>2, <3>2 DEF Cell, View
  <2> QED
    BY <2>1, <2>2
<1>6. MemoryOK'
  <2>1. \A k \in Location : Last(k)' >= 1
    BY <1>2, <1>3 DEF MemoryOK
  <2> QED
    BY <1>1, <1>5, <2>1 DEF MemoryOK, Within
<1> QED
  BY <1>1, <1>2, <1>3, <1>4, <1>6

\* The thread that stores has seen its store.
LEMMA StoredViews ==
    ASSUME ViewsOK, NEW t \in Thread, NEW own \in View,
           \A k \in Location : Last(k) \in Nat /\ Last(k)' \in Nat /\ Last(k) <= Last(k)',
           \A k \in Location : own[k] <= Last(k)',
           current' = [current EXCEPT ![t] = own],
           acquirable' = [acquirable EXCEPT ![t] = Join(@, own)],
           released' = released \/ released' = [released EXCEPT ![t] = own]
    PROVE  ViewsOK'
<1> DEFINE joined == Join(acquirable[t], own)
<1>1. ASSUME NEW view \in View, Within(view)
      PROVE  \A k \in Location : view[k] <= Last(k)'
  BY <1>1 DEF View, Within
<1>2. /\ \A u \in Thread : /\ current[u] \in View /\ acquirable[u] \in View
                           /\ released[u] \in View
                           /\ \A k \in Location : /\ current[u][k] <= Last(k)'
                                                  /\ acquirable[u][k] <= Last(k)'
                                                  /\ released[u][k] <= Last(k)'
  BY <1>1 DEF ViewsOK
<1>3. joined \in View /\ \A k \in Location : joined[k] <= Last(k)'
  BY <1>2, JoinType
<1> HIDE DEF joined
<1>4. acquirable' = [acquirable EXCEPT ![t] = joined]
  BY DEF joined
<1>5. /\ current' \in [Thread -> View]
      /\ \A u \in Thread : \A k \in Location : current'[u][k] <= Last(k)'
  BY <1>2 DEF ViewsOK
<1>6. /\ acquirable' \in [Thread -> View]
      /\ \A u \in Thread : \A k \in Location : acquirable'[u][k] <= Last(k)'
  BY <1>2, <1>3, <1>4 DEF ViewsOK
<1>7. /\ released' \in [Thread -> View]
      /\ \A u \in Thread : \A k \in Location : released'[u][k] <= Last(k)'
  BY <1>2 DEF ViewsOK
<1> QED
  BY <1>5, <1>6, <1>7 DEF ViewsOK, Within

\* A store of another thread's disturbs no thread that does not hold the version.
LEMMA OthersKept ==
    ASSUME SeqLockInv,
           \A k \in Location : Last(k) \in Nat /\ Last(k)' \in Nat /\ Last(k) <= Last(k)',
           \A k \in Location : \A i \in 1..Last(k) : memory'[k][i] = memory[k][i],
           NEW u \in Thread, ~Holds(u), current'[u] = current[u],
           acquirable'[u] = acquirable[u], call'[u] = call[u], seen'[u] = seen[u]
    PROVE  ThreadOK(u)' /\ ~Holds(u)'
<1>1. MemoryOK /\ ViewsOK /\ PublishesWhole /\ ThreadOK(u) /\ call[u] \in CallType
  BY DEF SeqLockInv
<1>2. ~Holds(u)' /\ CallOK(u)' /\ WriterOK(u)'
  BY <1>1 DEF Holds, ThreadOK, CallOK, WriterOK, At
<1>3. \A i \in 1..Last("version") : /\ Published(i)' = Published(i)
                                   /\ Published(i) \in 1..Last("secs")
                                   /\ Published(i) \in 1..Last("nanos")
  BY <1>1, PublishedType DEF Published, ViewOf, Location
<1>4. ReaderOK(u)'
  <2>v. PICK v : v = call[u].version + 1
    OBVIOUS
  <2>p. PICK p : p = Published(v)
    OBVIOUS
  <2>1. SUFFICES ASSUME call[u].pc \in {"readSecs", "readNanos", "readAgain"}
                 PROVE  ReaderOK(u)'
    BY DEF ReaderOK, At
  <2>2. /\ IsOdd(v) /\ v \in 1..Last("version") /\ v <= Last("version")'
        /\ \A l \in Fields : current'[u][l] >= p
    <3>1. /\ IsOdd(v) /\ v <= Last("version") /\ v \in Nat \ {0}
          /\ \A l \in Fields : current[u][l] >= p
      BY <1>1, <2>1, <2>v, <2>p DEF ThreadOK, ReaderOK, At, CallType
    <3> QED
      BY <3>1 DEF Location
  <2>3. Published(v)' = p /\ p \in 1..Last("secs") /\ p \in 1..Last("nanos")
    BY <1>3, <2>2, <2>p
  <2>4. ASSUME call[u].pc \in {"readNanos", "readAgain"}
        PROVE  \E a \in p..Last("secs")' :
                  /\ call[u].secs = Value("secs", a)'
                  /\ acquirable[u]["version"] >= (ViewOf("secs", a)["version"])'
    <3>1. PICK a \in p..Last("secs") :
              /\ call[u].secs = Value("secs", a)
              /\ acquirable[u]["version"] >= ViewOf("secs", a)["version"]
      BY <1>1, <2>4, <2>v, <2>p DEF ThreadOK, ReaderOK, At
    <3>2. a \in p..Last("secs")' /\ memory'["secs"][a] = memory["secs"][a]
      BY <2>3, <3>1 DEF Location
    <3> QED
      BY <3>1, <3>2 DEF Value, ViewOf
  <2>5. ASSUME At(u, "readAgain")
        PROVE  \E b \in p..Last("nanos")' :
                  /\ call[u].nanos = Value("nanos", b)'
                  /\ acquirable[u]["version"] >= (ViewOf("nanos", b)["version"])'
    <3>1. PICK b \in p..Last("nanos") :
              /\ call[u].nanos = Value("nanos", b)
              /\ acquirable[u]["version"] >= ViewOf("nanos", b)["version"]
      BY <1>1, <2>5, <2>v, <2>p DEF ThreadOK, ReaderOK, At
    <3>2. b \in p..Last("nanos")' /\ memory'["nanos"][b] = memory["nanos"][b]
      BY <2>3, <3>1 DEF Location
    <3> QED
      BY <3>1, <3>2 DEF Value, ViewOf
  <2>6. v = (call[u].version + 1)' /\ call'[u].pc = call[u].pc
    BY <2>v
  <2>7. call[u].pc \in {"readNanos", "readAgain"} =>
        (\E a \in Published(call[u].version + 1)..Last("secs") :
            /\ call[u].secs = Value("secs", a)
            /\ acquirable[u]["version"] >= ViewOf("secs", a)["version"])'
    BY <2>3, <2>4, <2>6
  <2>8. call[u].pc = "readAgain" =>
        (\E b \in Published(call[u].version + 1)..Last("nanos") :
            /\ call[u].nanos = Value("nanos", b)
            /\ acquirable[u]["version"] >= ViewOf("nanos", b)["version"])'
    BY <2>3, <2>5, <2>6 DEF At
  <2>9. (/\ IsOdd(call[u].version + 1) /\ call[u].version + 1 <= Last("version")
         /\ \A l \in Fields : current[u][l] >= Published(call[u].version + 1))'
    BY <2>2, <2>3, <2>6
  <2> QED
    BY <2>7, <2>8, <2>9 DEF ReaderOK, At
<1>5. SeenOK(u)'
  <2>v. PICK v : v = current[u]["version"]
    OBVIOUS
  <2>1. v \in 1..Last("version") /\ v = current'[u]["version"]
    BY <1>1, <2>v, ViewType DEF Location
  <2>2. PICK m \in 1..Published(v) : seen[u] = HeldAt(m)
    BY <1>1, <2>v DEF ThreadOK, SeenOK
  <2>3. m \in 1..Last("secs") /\ m \in 1..Last("nanos") /\ Published(v)' = Published(v)
    <3>1. /\ Published(v)' = Published(v)
          /\ Published(v) \in 1..Last("secs") /\ Published(v) \in 1..Last("nanos")
      BY <1>3, <2>1
    <3>2. m \in 1..Published(v)
      BY <2>2
    <3> QED
      BY <3>1, <3>2 DEF Location
  <2>4. HeldAt(m)' = HeldAt(m)
    BY <2>3 DEF HeldAt, Value, Location
  <2> QED
    BY <2>1, <2>2, <2>3, <2>4 DEF SeenOK
<1> QED
  BY <1>2, <1>4, <1>5 DEF ThreadOK

\* The writer stores one field, under the odd version.
LEMMA FieldStored ==
    ASSUME SeqLockInv, NEW t \in Thread, Holds(t), NEW l \in Fields, NEW value \in Nat,
           l = "secs" => value \in {instant[1] : instant \in Instant},
           l = "nanos" => value \in {instant[2] : instant \in Instant},
           Store(t, l, value, released[t]), released' = released, calls' = calls, seen' = seen,
           NEW pc \in {"storeNanos", "unlock"}, call' = [call EXCEPT ![t].pc = pc]
    PROVE  /\ MemoryOK' /\ ViewsOK' /\ ValuesOK' /\ PublishesWhole' /\ TagsFields' /\ UnlockedOK'
           /\ call' \in [Thread -> CallType] /\ call'[t] = [call[t] EXCEPT !.pc = pc]
           /\ \A u \in Thread \ {t} : ThreadOK(u)' /\ ~Holds(u)'
           /\ CallOK(t)' /\ ReaderOK(t)' /\ SeenOK(t)' /\ Holds(t)'
           /\ \A k \in Location : current'[t][k] = Last(k)' /\ Last(k) \in Nat
           /\ Last(l)' = Last(l) + 1 /\ \A k \in Location \ {l} : Last(k)' = Last(k)
           /\ memory'[l][Last(l) + 1].value = value
           /\ \A k \in Location : \A i \in 1..Last(k) : memory'[k][i] = memory[k][i]
<1>1. /\ MemoryOK /\ ViewsOK /\ ValuesOK /\ PublishesWhole /\ TagsFields
      /\ call \in [Thread -> CallType] /\ call[t] \in CallType
      /\ CallOK(t) /\ WriterOK(t) /\ SeenOK(t)
  BY DEF SeqLockInv, ThreadOK
<1>2. /\ \A u \in Thread \ {t} : ~Holds(u)
      /\ ~IsOdd(Last("version")) /\ released[t]["version"] = Last("version")
      /\ \A k \in Location : current[t][k] = Last(k)
      /\ call[t].time \in Instant
  BY <1>1 DEF WriterOK, CallOK
<1>3. l \in Location /\ l # "version"
  BY DEF Fields, Location
<1>n. PICK n : n = Last(l) + 1
  OBVIOUS
<1>4. /\ \A k \in Location : Last(k) \in Nat
      /\ n \in Nat \ {0} /\ current[t] \in View /\ released[t] \in View
      /\ \A k \in Location : current[t][k] <= Last(k) /\ released[t][k] <= Last(k)
  BY <1>1, <1>3, <1>n, ViewType DEF ViewsOK, Within
<1> DEFINE own == [current[t] EXCEPT ![l] = n]
           view == [released[t] EXCEPT ![l] = n]
           cell == [value |-> value, view |-> view]
<1>5. /\ own \in View /\ view \in View /\ own[l] = n /\ view[l] = n
      /\ \A k \in Location \ {l} : own[k] = Last(k) /\ view[k] <= Last(k)
      /\ view["version"] = Last("version") /\ own["version"] = current[t]["version"]
  BY <1>2, <1>3, <1>4 DEF View, Location
<1>6. /\ memory' = [memory EXCEPT ![l] = Append(@, cell)]
      /\ current' = [current EXCEPT ![t] = own]
      /\ acquirable' = [acquirable EXCEPT ![t] = Join(@, own)]
  BY <1>3, <1>5, <1>n DEF Store
<1> HIDE DEF own, view
<1>7. cell \in Cell /\ cell.view = view /\ cell.value = value
  BY <1>5 DEF Cell
<1> HIDE DEF cell
<1>8. /\ MemoryOK' /\ memory'[l][n] = cell
      /\ Last(l)' = n /\ \A k \in Location \ {l} : Last(k)' = Last(k)
      /\ \A k \in Location : Last(k) \in Nat /\ Last(k) <= Last(k)'
      /\ \A k \in Location : \A i \in 1..Last(k) : memory'[k][i] = memory[k][i]
  <2>1. cell.view[l] = Last(l) + 1 /\ \A k \in Location \ {l} : cell.view[k] <= Last(k)
    BY <1>4, <1>5, <1>7, <1>n
  <2>2. /\ MemoryOK' /\ memory'[l][Last(l) + 1] = cell
        /\ Last(l)' = Last(l) + 1 /\ \A k \in Location \ {l} : Last(k)' = Last(k)
        /\ \A k \in Location : Last(k) \in Nat /\ Last(k) <= Last(k)'
        /\ \A k \in Location : \A i \in 1..Last(k) : memory'[k][i] = memory[k][i]
    BY <1>1, <1>3, <1>6, <1>7, <2>1, StoredMemory
  <2> QED
    BY <1>n, <2>2
<1>9. \A k \in Location : Last(k)' \in Nat /\ own[k] = Last(k)'
  BY <1>4, <1>5, <1>8
<1>10. ViewsOK'
  <2>1. /\ \A k \in Location : Last(k) \in Nat /\ Last(k)' \in Nat /\ Last(k) <= Last(k)'
        /\ \A k \in Location : own[k] <= Last(k)'
    BY <1>8, <1>9
  <2> QED
    BY <1>1, <1>5, <1>6, <2>1, StoredViews
<1>11. /\ call'[t] = [call[t] EXCEPT !.pc = pc] /\ call'[t] \in CallType
       /\ call' \in [Thread -> CallType] /\ call'[t].pc = pc
       /\ call'[t].time = call[t].time
       /\ \A u \in Thread \ {t} : call'[u] = call[u]
  BY <1>1 DEF CallType, Calls
<1>12. /\ current'[t] = own
       /\ \A u \in Thread \ {t} : /\ current'[u] = current[u] /\ acquirable'[u] = acquirable[u]
  BY <1>1, <1>6 DEF ViewsOK
<1>13. \A u \in Thread \ {t} : ThreadOK(u)' /\ ~Holds(u)'
  <2>1. ASSUME NEW u \in Thread \ {t} PROVE ThreadOK(u)' /\ ~Holds(u)'
    BY <1>2, <1>8, <1>9, <1>11, <1>12, OthersKept
  <2> QED
    BY <2>1
<1>14. Holds(t)' /\ CallOK(t)' /\ ReaderOK(t)'
  BY <1>2, <1>11 DEF Holds, CallOK, ReaderOK, At
<1>15. /\ Last("version")' = Last("version")
       /\ \A i \in 1..Last("version") : /\ Published(i)' = Published(i)
                                       /\ ViewOf("version", i)' = ViewOf("version", i)
                                       /\ Value("version", i)' = Value("version", i)
                                       /\ Published(i) \in 1..Last("nanos")
                                       /\ Published(i) \in 1..Last("secs")
  BY <1>1, <1>3, <1>8, PublishedType DEF Published, ViewOf, Value, Location
<1>16. PublishesWhole'
  <2>1. \A i \in 1..Last("version") : \A j \in 1..i : j \in 1..Last("version")
    BY <1>4 DEF Location
  <2>2. ASSUME NEW i \in 1..Last("version")
        PROVE  /\ (ViewOf("version", i)["secs"] = Published(i))'
               /\ \A j \in 1..i : (Published(j) <= Published(i))'
    BY <1>1, <1>15, <2>1 DEF PublishesWhole
  <2> QED
    BY <1>15, <2>2 DEF PublishesWhole
<1>17. UnlockedOK'
  BY <1>14 DEF UnlockedOK, Unlocked
<1>18. ASSUME NEW k \in Fields, NEW a \in 1..Last(k)'
       PROVE  \/ a \in 1..Last(k) /\ memory'[k][a] = memory[k][a]
              \/ k = l /\ a = n /\ memory'[k][a] = cell
  <2>1. k \in Location
    BY DEF Fields, Location
  <2> QED
    BY <1>8, <1>n, <2>1
<1>19. TagsFields'
  <2>1. SUFFICES ASSUME NEW k \in Fields, NEW a \in 1..Last(k)', NEW i \in 1..Last("version"),
                        IsOdd(i), i >= memory'[k][a].view["version"]
                 PROVE  a <= Published(i)
    BY <1>15 DEF TagsFields, ViewOf
  <2>2. CASE a \in 1..Last(k) /\ memory'[k][a] = memory[k][a]
    BY <1>1, <2>1, <2>2 DEF TagsFields, ViewOf
  <2>3. CASE k = l /\ a = n /\ memory'[k][a] = cell
    <3>1. i >= Last("version") /\ i <= Last("version")
      BY <1>5, <1>7, <2>1, <2>3
    <3>2. i = Last("version")
      BY <1>4, <3>1 DEF Location
    <3> QED
      BY <1>2, <2>1, <3>2
  <2> QED
    BY <1>18, <2>2, <2>3
<1>20. ValuesOK'
  <2>1. \A i \in 1..Last("version")' : Value("version", i)' = i - 1
    BY <1>1, <1>15 DEF ValuesOK
  <2>2. ASSUME NEW i \in 1..Last("secs")'
        PROVE  Value("secs", i)' \in {instant[1] : instant \in Instant}
    <3>1. \/ i \in 1..Last("secs") /\ memory'["secs"][i] = memory["secs"][i]
          \/ "secs" = l /\ memory'["secs"][i] = cell
      BY <1>18 DEF Fields
    <3> QED
      BY <1>1, <1>7, <3>1 DEF ValuesOK, Value
  <2>3. ASSUME NEW i \in 1..Last("nanos")'
        PROVE  Value("nanos", i)' \in {instant[2] : instant \in Instant}
    <3>1. \/ i \in 1..Last("nanos") /\ memory'["nanos"][i] = memory["nanos"][i]
          \/ "nanos" = l /\ memory'["nanos"][i] = cell
      BY <1>18 DEF Fields
    <3> QED
      BY <1>1, <1>7, <3>1 DEF ValuesOK, Value
  <2> QED
    BY <2>1, <2>2, <2>3 DEF ValuesOK
<1>21. SeenOK(t)'
  <2>v. PICK v : v = current[t]["version"]
    OBVIOUS
  <2>1. v \in 1..Last("version") /\ v = current'[t]["version"]
    BY <1>1, <1>5, <1>12, <2>v, ViewType DEF Location
  <2>2. PICK m \in 1..Published(v) : seen[t] = HeldAt(m)
    BY <1>1, <2>v DEF SeenOK
  <2>3. m \in 1..Last("secs") /\ m \in 1..Last("nanos") /\ Published(v)' = Published(v)
    <3>1. /\ Published(v)' = Published(v)
          /\ Published(v) \in 1..Last("secs") /\ Published(v) \in 1..Last("nanos")
      BY <1>15, <2>1
    <3>2. m \in 1..Published(v)
      BY <2>2
    <3> QED
      BY <1>4, <3>1, <3>2 DEF Location
  <2>4. HeldAt(m)' = HeldAt(m)
    BY <1>8, <2>3 DEF HeldAt, Value, Location
  <2> QED
    BY <2>1, <2>2, <2>3, <2>4 DEF SeenOK
<1>22. Last(l)' = Last(l) + 1 /\ memory'[l][Last(l) + 1].value = value
  BY <1>7, <1>8, <1>n
<1> QED
  BY <1>8, <1>9, <1>10, <1>11, <1>12, <1>13, <1>14, <1>16, <1>17, <1>19, <1>20, <1>21, <1>22

\* The seconds of a later time are stored.
LEMMA StoreSecsKeeps ==
    ASSUME SeqLockInv, NEW t \in Thread, StoreSecs(t)
    PROVE  SeqLockInv'
<1>1. /\ call[t] \in CallType /\ CallOK(t) /\ WriterOK(t) /\ call[t].pc = "storeSecs" /\ Holds(t)
      /\ MemoryOK /\ calls \in [Thread -> 0..MaxCalls] /\ seen \in [Thread -> Nat \X Nat]
  BY DEF SeqLockInv, ThreadOK, StoreSecs, At, Holds
<1>n. PICK n : n = Last("nanos")
  OBVIOUS
<1>2. /\ ~IsOdd(Last("version")) /\ call[t].version = Last("version") - 2
      /\ released[t]["version"] = Last("version") /\ Last("secs") = n
      /\ <<call[t].secs, call[t].nanos>> = HeldAt(n)
      /\ IsBefore(<<call[t].secs, call[t].nanos>>, call[t].time)
      /\ call[t].time \in Instant
  BY <1>1, <1>n DEF WriterOK, CallOK, At
<1>3. /\ "secs" \in Fields /\ call[t].time[1] \in Nat
      /\ call[t].time[1] \in {instant[1] : instant \in Instant}
      /\ Store(t, "secs", call[t].time[1], released[t])
      /\ released' = released /\ calls' = calls /\ seen' = seen
      /\ call' = [call EXCEPT ![t].pc = "storeNanos"]
  BY <1>2, InstantAssumption DEF StoreSecs, GoTo, Fields
<1>4. /\ MemoryOK' /\ ViewsOK' /\ ValuesOK' /\ PublishesWhole' /\ TagsFields' /\ UnlockedOK'
      /\ call' \in [Thread -> CallType] /\ call'[t] = [call[t] EXCEPT !.pc = "storeNanos"]
      /\ \A u \in Thread \ {t} : ThreadOK(u)' /\ ~Holds(u)'
      /\ CallOK(t)' /\ ReaderOK(t)' /\ SeenOK(t)' /\ Holds(t)'
      /\ \A k \in Location : current'[t][k] = Last(k)' /\ Last(k) \in Nat
      /\ Last("secs")' = Last("secs") + 1
      /\ \A k \in Location \ {"secs"} : Last(k)' = Last(k)
      /\ memory'["secs"][Last("secs") + 1].value = call[t].time[1]
      /\ \A k \in Location : \A i \in 1..Last(k) : memory'[k][i] = memory[k][i]
  <2>1. PICK l, value, pc : l = "secs" /\ value = call[t].time[1] /\ pc = "storeNanos"
    OBVIOUS
  <2>2. /\ l \in Fields /\ value \in Nat /\ Store(t, l, value, released[t])
        /\ l = "secs" => value \in {instant[1] : instant \in Instant}
        /\ l = "nanos" => value \in {instant[2] : instant \in Instant}
        /\ pc \in {"storeNanos", "unlock"} /\ call' = [call EXCEPT ![t].pc = pc]
        /\ SeqLockInv /\ Holds(t) /\ released' = released /\ calls' = calls /\ seen' = seen
    BY <1>1, <1>3, <2>1
  <2>3. /\ MemoryOK' /\ ViewsOK' /\ ValuesOK' /\ PublishesWhole' /\ TagsFields' /\ UnlockedOK'
        /\ call' \in [Thread -> CallType] /\ call'[t] = [call[t] EXCEPT !.pc = pc]
        /\ \A u \in Thread \ {t} : ThreadOK(u)' /\ ~Holds(u)'
        /\ CallOK(t)' /\ ReaderOK(t)' /\ SeenOK(t)' /\ Holds(t)'
        /\ \A k \in Location : current'[t][k] = Last(k)' /\ Last(k) \in Nat
        /\ Last(l)' = Last(l) + 1 /\ \A k \in Location \ {l} : Last(k)' = Last(k)
        /\ memory'[l][Last(l) + 1].value = value
        /\ \A k \in Location : \A i \in 1..Last(k) : memory'[k][i] = memory[k][i]
    BY <2>2, FieldStored
  <2> QED
    BY <2>1, <2>3
<1>5. /\ call'[t].pc = "storeNanos" /\ call'[t].version = call[t].version
      /\ call'[t].time = call[t].time /\ call'[t].secs = call[t].secs
      /\ call'[t].nanos = call[t].nanos
  <2>1. call'[t] = [call[t] EXCEPT !.pc = "storeNanos"] /\ call[t] \in CallType
    BY <1>1, <1>4
  <2> QED
    BY <2>1 DEF CallType
<1>6. /\ Last("nanos")' = n /\ Last("secs")' = n + 1 /\ Last("version")' = Last("version")
      /\ HeldAt(n)' = HeldAt(n) /\ Value("secs", n + 1)' = call[t].time[1]
  <2>1. n \in 1..Last("secs") /\ n \in 1..Last("nanos")
    BY <1>1, <1>2, <1>4, <1>n DEF MemoryOK, Location
  <2> QED
    BY <1>2, <1>4, <1>n, <2>1 DEF HeldAt, Value, Location
<1>7. WriterOK(t)'
  BY <1>2, <1>3, <1>4, <1>5, <1>6 DEF WriterOK, At
<1>8. \A u \in Thread : ThreadOK(u)'
  BY <1>4, <1>7 DEF ThreadOK
<1> QED
  BY <1>1, <1>3, <1>4, <1>8 DEF SeqLockInv

\* Its nanoseconds are: it is held.
LEMMA StoreNanosKeeps ==
    ASSUME SeqLockInv, NEW t \in Thread, StoreNanos(t)
    PROVE  SeqLockInv'
<1>1. /\ call[t] \in CallType /\ CallOK(t) /\ WriterOK(t) /\ call[t].pc = "storeNanos" /\ Holds(t)
      /\ MemoryOK /\ calls \in [Thread -> 0..MaxCalls] /\ seen \in [Thread -> Nat \X Nat]
  BY DEF SeqLockInv, ThreadOK, StoreNanos, At, Holds
<1>n. PICK n : n = Last("nanos") + 1
  OBVIOUS
<1>2. /\ ~IsOdd(Last("version")) /\ call[t].version = Last("version") - 2
      /\ released[t]["version"] = Last("version") /\ Last("secs") = n
      /\ Value("secs", n) = call[t].time[1]
      /\ IsBefore(<<call[t].secs, call[t].nanos>>, call[t].time)
      /\ call[t].time \in Instant
  BY <1>1, <1>n DEF WriterOK, CallOK, At
<1>3. /\ "nanos" \in Fields /\ call[t].time[2] \in Nat
      /\ call[t].time[2] \in {instant[2] : instant \in Instant}
      /\ Store(t, "nanos", call[t].time[2], released[t])
      /\ released' = released /\ calls' = calls /\ seen' = seen
      /\ call' = [call EXCEPT ![t].pc = "unlock"]
  BY <1>2, InstantAssumption DEF StoreNanos, GoTo, Fields
<1>4. /\ MemoryOK' /\ ViewsOK' /\ ValuesOK' /\ PublishesWhole' /\ TagsFields' /\ UnlockedOK'
      /\ call' \in [Thread -> CallType] /\ call'[t] = [call[t] EXCEPT !.pc = "unlock"]
      /\ \A u \in Thread \ {t} : ThreadOK(u)' /\ ~Holds(u)'
      /\ CallOK(t)' /\ ReaderOK(t)' /\ SeenOK(t)' /\ Holds(t)'
      /\ \A k \in Location : current'[t][k] = Last(k)' /\ Last(k) \in Nat
      /\ Last("nanos")' = Last("nanos") + 1
      /\ \A k \in Location \ {"nanos"} : Last(k)' = Last(k)
      /\ memory'["nanos"][Last("nanos") + 1].value = call[t].time[2]
      /\ \A k \in Location : \A i \in 1..Last(k) : memory'[k][i] = memory[k][i]
  <2>1. PICK l, value, pc : l = "nanos" /\ value = call[t].time[2] /\ pc = "unlock"
    OBVIOUS
  <2>2. /\ l \in Fields /\ value \in Nat /\ Store(t, l, value, released[t])
        /\ l = "secs" => value \in {instant[1] : instant \in Instant}
        /\ l = "nanos" => value \in {instant[2] : instant \in Instant}
        /\ pc \in {"storeNanos", "unlock"} /\ call' = [call EXCEPT ![t].pc = pc]
        /\ SeqLockInv /\ Holds(t) /\ released' = released /\ calls' = calls /\ seen' = seen
    BY <1>1, <1>3, <2>1
  <2>3. /\ MemoryOK' /\ ViewsOK' /\ ValuesOK' /\ PublishesWhole' /\ TagsFields' /\ UnlockedOK'
        /\ call' \in [Thread -> CallType] /\ call'[t] = [call[t] EXCEPT !.pc = pc]
        /\ \A u \in Thread \ {t} : ThreadOK(u)' /\ ~Holds(u)'
        /\ CallOK(t)' /\ ReaderOK(t)' /\ SeenOK(t)' /\ Holds(t)'
        /\ \A k \in Location : current'[t][k] = Last(k)' /\ Last(k) \in Nat
        /\ Last(l)' = Last(l) + 1 /\ \A k \in Location \ {l} : Last(k)' = Last(k)
        /\ memory'[l][Last(l) + 1].value = value
        /\ \A k \in Location : \A i \in 1..Last(k) : memory'[k][i] = memory[k][i]
    BY <2>2, FieldStored
  <2> QED
    BY <2>1, <2>3
<1>5. /\ call'[t].pc = "unlock" /\ call'[t].version = call[t].version
      /\ call'[t].time = call[t].time /\ call'[t].secs = call[t].secs
      /\ call'[t].nanos = call[t].nanos
  <2>1. call'[t] = [call[t] EXCEPT !.pc = "unlock"] /\ call[t] \in CallType
    BY <1>1, <1>4
  <2> QED
    BY <2>1 DEF CallType
<1>6. /\ Last("nanos")' = n /\ Last("secs")' = n /\ Last("version")' = Last("version")
      /\ HeldAt(n)' = call[t].time
  <2>1. n \in 1..Last("secs")
    BY <1>1, <1>2, <1>4, <1>n DEF MemoryOK, Location
  <2>2. Value("secs", n)' = call[t].time[1] /\ Value("nanos", n)' = call[t].time[2]
    BY <1>2, <1>4, <1>n, <2>1 DEF Value, Location
  <2>3. <<call[t].time[1], call[t].time[2]>> = call[t].time
    BY <1>2, InstantAssumption
  <2> QED
    BY <1>2, <1>4, <1>n, <2>2, <2>3 DEF HeldAt, Location
<1>7. WriterOK(t)'
  BY <1>2, <1>3, <1>4, <1>5, <1>6 DEF WriterOK, At
<1>8. \A u \in Thread : ThreadOK(u)'
  BY <1>4, <1>7 DEF ThreadOK
<1> QED
  BY <1>1, <1>3, <1>4, <1>8 DEF SeqLockInv

\* A new version publishes at least what the last did, and all if it is even.
LEMMA VersionStored ==
    ASSUME SeqLockInv, NEW t \in Thread, NEW n, n = Last("version") + 1, NEW cell \in Cell,
           memory' = [memory EXCEPT !["version"] = Append(@, cell)],
           cell.value = Last("version"), cell.view["version"] = n,
           \A k \in Fields : cell.view[k] <= Last(k),
           cell.view["secs"] = cell.view["nanos"],
           Published(Last("version")) <= cell.view["nanos"],
           IsOdd(n) => \A k \in Fields : cell.view[k] = Last(k),
           \A u \in Thread \ {t} : ~Holds(u) /\ seen'[u] = seen[u],
           NEW own \in View, own["version"] = n, \A k \in Fields : own[k] <= Last(k),
           current' = [current EXCEPT ![t] = own],
           acquirable' = [acquirable EXCEPT ![t] = Join(@, own)],
           released' = released \/ released' = [released EXCEPT ![t] = own],
           NEW c \in CallType, call' = [call EXCEPT ![t] = c]
    PROVE  /\ MemoryOK' /\ ViewsOK' /\ ValuesOK' /\ PublishesWhole' /\ TagsFields'
           /\ call' \in [Thread -> CallType] /\ call'[t] = c
           /\ \A u \in Thread \ {t} : ThreadOK(u)' /\ ~Holds(u)'
           /\ Last("version")' = n /\ \A k \in Fields : Last(k)' = Last(k)
           /\ Published(n)' = cell.view["nanos"] /\ \A m : HeldAt(m)' = HeldAt(m)
<1>1. /\ MemoryOK /\ ViewsOK /\ ValuesOK /\ PublishesWhole /\ TagsFields
      /\ call \in [Thread -> CallType]
  BY DEF SeqLockInv
<1>2. /\ "version" \in Location /\ Location \ {"version"} = Fields
      /\ \A k \in Location : Last(k) \in Nat
  BY <1>1 DEF Location, Fields, MemoryOK, Last
<1>3. /\ MemoryOK' /\ memory'["version"][n] = cell
      /\ Last("version")' = n /\ \A k \in Fields : Last(k)' = Last(k)
      /\ \A k \in Location : Last(k) <= Last(k)' /\ Last(k)' \in Nat
      /\ \A k \in Location : \A i \in 1..Last(k) : memory'[k][i] = memory[k][i]
  <2>1. cell.view["version"] = Last("version") + 1
    OBVIOUS
  <2>2. /\ MemoryOK' /\ memory'["version"][Last("version") + 1] = cell
        /\ Last("version")' = Last("version") + 1
        /\ \A k \in Location \ {"version"} : Last(k)' = Last(k)
        /\ \A k \in Location : Last(k) \in Nat /\ Last(k) <= Last(k)'
        /\ \A k \in Location : \A i \in 1..Last(k) : memory'[k][i] = memory[k][i]
    BY <1>1, <1>2, <2>1, StoredMemory
  <2>3. Last("version")' = n /\ \A k \in Fields : Last(k)' = Last(k)
    BY <1>2, <2>2
  <2>4. \A k \in Location : Last(k)' \in Nat
    <3>1. \A k \in Fields : Last(k)' \in Nat
      BY <1>2, <2>3
    <3>2. Last("version")' \in Nat
      BY <1>2, <2>3
    <3> QED
      BY <1>2, <3>1, <3>2
  <2>5. memory'["version"][n] = cell
    BY <2>2
  <2> QED
    BY <2>2, <2>3, <2>4, <2>5
<1>4. ViewsOK'
  <2>1. /\ \A k \in Location : Last(k) \in Nat /\ Last(k)' \in Nat /\ Last(k) <= Last(k)'
        /\ \A k \in Location : own[k] <= Last(k)'
    BY <1>2, <1>3
  <2> QED
    BY <1>1, <2>1, StoredViews
<1>5. /\ call' \in [Thread -> CallType] /\ call'[t] = c
      /\ \A u \in Thread \ {t} : call'[u] = call[u]
  BY <1>1
<1>6. \A u \in Thread \ {t} : ThreadOK(u)' /\ ~Holds(u)'
  <2>1. \A u \in Thread \ {t} : current'[u] = current[u] /\ acquirable'[u] = acquirable[u]
    BY <1>1 DEF ViewsOK
  <2>2. ASSUME NEW u \in Thread \ {t} PROVE ThreadOK(u)' /\ ~Holds(u)'
    BY <1>2, <1>3, <1>5, <2>1, OthersKept
  <2> QED
    BY <2>2
<1>7. /\ \A i \in 1..Last("version") : /\ Published(i)' = Published(i)
                                      /\ ViewOf("version", i)' = ViewOf("version", i)
                                      /\ Value("version", i)' = Value("version", i)
                                      /\ Published(i) <= Published(Last("version"))
                                      /\ Published(i) \in Nat
      /\ Published(n)' = cell.view["nanos"] /\ ViewOf("version", n)' = cell.view
      /\ Value("version", n)' = cell.value
  <2>1. Last("version") \in 1..Last("version")
    BY <1>1, <1>2 DEF MemoryOK
  <2>2. \A i \in 1..Last("version") : /\ Published(i) <= Published(Last("version"))
                                     /\ Published(i) \in Nat
    BY <1>1, <2>1, PublishedType
  <2>3. \A i \in 1..Last("version") : memory'["version"][i] = memory["version"][i]
    BY <1>2, <1>3
  <2> QED
    BY <1>3, <2>2, <2>3 DEF Published, ViewOf, Value
<1>8. \A i \in 1..n : i \in 1..Last("version") \/ i = n
  BY <1>2
<1>9. \A k \in Fields : memory'[k] = memory[k]
  BY <1>1, <1>2 DEF MemoryOK
<1>10. \A m : HeldAt(m)' = HeldAt(m)
  BY <1>9 DEF HeldAt, Value, Fields
<1>11. ValuesOK'
  <2>1. ASSUME NEW i \in 1..n PROVE Value("version", i)' = i - 1
    BY <1>1, <1>2, <1>7, <1>8 DEF ValuesOK
  <2>2. /\ \A i \in 1..Last("secs")' : Value("secs", i)' \in {instant[1] : instant \in Instant}
        /\ \A i \in 1..Last("nanos")' : Value("nanos", i)' \in {instant[2] : instant \in Instant}
    BY <1>1, <1>3, <1>9 DEF ValuesOK, Value, Fields
  <2> QED
    BY <1>3, <2>1, <2>2 DEF ValuesOK
<1>12. PublishesWhole'
  <2>1. SUFFICES ASSUME NEW i \in 1..n
                 PROVE  /\ (ViewOf("version", i)["secs"] = Published(i))'
                        /\ \A j \in 1..i : (Published(j) <= Published(i))'
    BY <1>3 DEF PublishesWhole
  <2>2. CASE i \in 1..Last("version")
    <3>1. \A j \in 1..i : j \in 1..Last("version")
      BY <1>2, <2>2
    <3> QED
      BY <1>1, <1>7, <2>2, <3>1 DEF PublishesWhole
  <2>3. CASE i = n
    <3>1. cell.view["nanos"] \in Nat
      BY DEF Cell, View, Location
    <3>2. Published(Last("version")) \in Nat
      BY <1>1, <1>2, <1>7 DEF MemoryOK
    <3>3. \A j \in 1..n : (Published(j))' <= cell.view["nanos"]
      BY <1>7, <1>8, <3>1, <3>2
    <3> QED
      BY <1>7, <2>3, <3>3
  <2> QED
    BY <1>8, <2>2, <2>3
<1>13. TagsFields'
  <2>1. SUFFICES ASSUME NEW k \in Fields, NEW a \in 1..Last(k), NEW i \in 1..n,
                        IsOdd(i), i >= ViewOf(k, a)["version"]
                 PROVE  a <= Published(i)'
    BY <1>3, <1>9 DEF TagsFields, ViewOf
  <2>2. CASE i \in 1..Last("version")
    BY <1>1, <1>7, <2>1, <2>2 DEF TagsFields
  <2>3. CASE i = n
    <3>1. cell.view["nanos"] = Last(k)
      BY <2>1, <2>3 DEF Fields
    <3> QED
      BY <1>7, <2>3, <3>1
  <2> QED
    BY <1>8, <2>2, <2>3
<1> QED
  BY <1>3, <1>4, <1>5, <1>6, <1>7, <1>10, <1>11, <1>12, <1>13

\* The swap succeeds: nobody held the version, and the thread has seen every store.
LEMMA LockKeeps ==
    ASSUME SeqLockInv, NEW t \in Thread, Lock(t)
    PROVE  SeqLockInv'
<1>1. /\ MemoryOK /\ ViewsOK /\ ValuesOK /\ PublishesWhole /\ UnlockedOK
      /\ call \in [Thread -> CallType] /\ call[t] \in CallType
      /\ CallOK(t) /\ SeenOK(t) /\ call[t].pc = "swap"
      /\ calls \in [Thread -> 0..MaxCalls] /\ seen \in [Thread -> Nat \X Nat]
      /\ calls' = calls /\ seen' = seen /\ ~Holds(t)
  BY DEF SeqLockInv, ThreadOK, Lock, At, Holds
<1>v. PICK v : v = Last("version")
  OBVIOUS
<1>2. /\ v \in Nat \ {0} /\ v \in 1..Last("version") /\ "version" \in Location
      /\ \A k \in Location : Last(k) \in Nat
  BY <1>1, <1>v DEF MemoryOK, Location, Last
<1>3. call[t].version = v - 1 /\ IsOdd(v)
  <2>1. call[t].version = v - 1
    BY <1>1, <1>2, <1>v DEF Lock, IsUnchanged, ValuesOK
  <2>2. (v - 1) % 2 = 0
    BY <1>1, <2>1 DEF CallOK, At, IsEven
  <2> QED
    BY <1>2, <2>1, <2>2 DEF IsOdd
<1>4. \A u \in Thread : ~Holds(u)
  BY <1>3, <1>v DEF SeqLockInv, ThreadOK, WriterOK
<1>n. PICK n : n = v + 1
  OBVIOUS
<1> DEFINE stored == ViewOf("version", v)
           mine == [current[t] EXCEPT !["version"] = n]
           own == Join(mine, stored)
           joined == Join(released[t], stored)
           view == [joined EXCEPT !["version"] = n]
           cell == [value |-> call[t].version + 1, view |-> view]
           c == [call[t] EXCEPT !.pc = "readHeldSecs"]
<1>5. /\ Last("secs") = Published(v) /\ Last("nanos") = Published(v)
      /\ \A k \in Fields : stored[k] = Last(k)
      /\ stored \in View /\ stored["version"] <= v
  <2>1. Last("secs") = Published(v) /\ Last("nanos") = Published(v)
    BY <1>1, <1>4, <1>v DEF UnlockedOK, Unlocked
  <2>2. \A k \in Fields : stored[k] = Published(v)
    BY <1>1, <1>2, PublishedType
  <2>3. stored \in View /\ stored["version"] \in 1..Last("version")
    BY <1>1, <1>2, StoreType
  <2> QED
    BY <1>2, <1>v, <2>1, <2>2, <2>3 DEF Fields
<1>6. /\ current[t] \in View /\ released[t] \in View
      /\ \A k \in Location : current[t][k] <= Last(k) /\ released[t][k] <= Last(k)
      /\ current[t]["version"] \in 1..Last("version")
  BY <1>1, <1>2, ViewType DEF ViewsOK, Within
<1> HIDE DEF stored
<1>7. /\ mine \in View /\ mine["version"] = n /\ \A k \in Fields : mine[k] <= Last(k)
  BY <1>2, <1>6, <1>n DEF View, Location, Fields
<1> HIDE DEF mine
<1>8. /\ own \in View /\ own["version"] = n /\ \A k \in Fields : own[k] = Last(k)
  <2>1. /\ own \in View
        /\ \A k \in Location : /\ mine[k] <= own[k] /\ stored[k] <= own[k]
                               /\ own[k] = mine[k] \/ own[k] = stored[k]
    BY <1>5, <1>7, JoinType
  <2> HIDE DEF own
  <2>2. own["version"] = n
    BY <1>2, <1>5, <1>7, <1>n, <2>1 DEF View
  <2>3. ASSUME NEW k \in Fields PROVE own[k] = Last(k)
    <3>1. k \in Location
      BY DEF Fields, Location
    <3> QED
      BY <1>2, <1>5, <1>7, <2>1, <3>1 DEF View
  <2> QED
    BY <2>1, <2>2, <2>3
<1>9. /\ joined \in View /\ \A k \in Fields : joined[k] = Last(k)
  <2>1. /\ joined \in View
        /\ \A k \in Location : /\ stored[k] <= joined[k]
                               /\ joined[k] = released[t][k] \/ joined[k] = stored[k]
    BY <1>5, <1>6, JoinType
  <2> HIDE DEF joined
  <2>2. ASSUME NEW k \in Fields PROVE joined[k] = Last(k)
    <3>1. k \in Location
      BY DEF Fields, Location
    <3> QED
      BY <1>2, <1>5, <1>6, <2>1, <3>1 DEF View
  <2> QED
    BY <2>1, <2>2
<1> HIDE DEF own, joined
<1>10. view \in View /\ view["version"] = n /\ \A k \in Fields : view[k] = Last(k)
  BY <1>2, <1>9, <1>n DEF View, Location, Fields
<1> HIDE DEF view
<1>11. cell \in Cell /\ cell.value = v /\ cell.view = view
  BY <1>2, <1>3, <1>10 DEF Cell
<1>12. /\ memory' = [memory EXCEPT !["version"] = Append(@, cell)]
       /\ current' = [current EXCEPT ![t] = own]
       /\ acquirable' = [acquirable EXCEPT ![t] = Join(@, own)]
  BY <1>n, <1>v DEF Lock, cell, own, view, joined, mine, stored, ViewOf
<1> HIDE DEF cell
<1>13. current'[t] = own /\ released' = [released EXCEPT ![t] = own] /\ released'[t] = own
  BY <1>1, <1>12 DEF Lock, ReleaseFence, ViewsOK
<1>14. /\ c \in CallType /\ c.pc = "readHeldSecs" /\ c.version = v - 1
       /\ c.time \in Instant /\ call' = [call EXCEPT ![t] = c]
  BY <1>1, <1>3 DEF CallType, Calls, Lock, GoTo, CallOK, At
<1> HIDE DEF c
<1>15. /\ MemoryOK' /\ ViewsOK' /\ ValuesOK' /\ PublishesWhole' /\ TagsFields'
       /\ call' \in [Thread -> CallType] /\ call'[t] = c
       /\ \A u \in Thread \ {t} : ThreadOK(u)' /\ ~Holds(u)'
       /\ Last("version")' = n /\ \A k \in Fields : Last(k)' = Last(k)
       /\ Published(n)' = view["nanos"] /\ \A m : HeldAt(m)' = HeldAt(m)
  <2>1. /\ n = Last("version") + 1 /\ cell.value = Last("version") /\ cell.view["version"] = n
        /\ \A k \in Fields : cell.view[k] <= Last(k)
        /\ cell.view["secs"] = cell.view["nanos"]
        /\ Published(Last("version")) <= cell.view["nanos"]
        /\ \A k \in Fields : cell.view[k] = Last(k)
        /\ \A k \in Fields : own[k] <= Last(k)
    BY <1>2, <1>5, <1>8, <1>10, <1>11, <1>n, <1>v DEF Fields, Location
  <2>2. \A u \in Thread \ {t} : ~Holds(u) /\ seen'[u] = seen[u]
    BY <1>1, <1>4
  <2> QED
    <3>1. /\ MemoryOK' /\ ViewsOK' /\ ValuesOK' /\ PublishesWhole' /\ TagsFields'
          /\ call' \in [Thread -> CallType] /\ call'[t] = c
          /\ \A u \in Thread \ {t} : ThreadOK(u)' /\ ~Holds(u)'
          /\ Last("version")' = n /\ \A k \in Fields : Last(k)' = Last(k)
          /\ Published(n)' = cell.view["nanos"] /\ \A m : HeldAt(m)' = HeldAt(m)
      BY <1>8, <1>11, <1>12, <1>13, <1>14, <2>1, <2>2, VersionStored
    <3> QED
      BY <1>11, <3>1
<1>16. Holds(t)' /\ CallOK(t)' /\ ReaderOK(t)'
  BY <1>14, <1>15 DEF Holds, CallOK, ReaderOK, At
<1>17. SeenOK(t)'
  <2>1. PICK m \in 1..Published(current[t]["version"]) : seen[t] = HeldAt(m)
    BY <1>1 DEF SeenOK
  <2>2. /\ Published(current[t]["version"]) <= Published(v)
        /\ Published(current[t]["version"]) \in Nat
    BY <1>1, <1>2, <1>6, <1>v, PublishedType
  <2>3. m \in 1..view["nanos"]
    BY <1>2, <1>5, <1>10, <2>1, <2>2 DEF Fields, Location
  <2>4. current'[t]["version"] = n
    BY <1>8, <1>13
  <2>5. m \in 1..(Published(current[t]["version"]))'
    BY <1>15, <2>3, <2>4
  <2> QED
    BY <1>1, <1>15, <2>1, <2>5 DEF SeenOK
<1>18. WriterOK(t)'
  <2>1. ~IsOdd(n) /\ c.version = n - 2
    BY <1>2, <1>3, <1>14, <1>n DEF IsOdd
  <2>2. \A k \in Location : current'[t][k] = Last(k)'
    BY <1>8, <1>13, <1>15 DEF Location, Fields
  <2>3. released'[t]["version"] = n
    BY <1>8, <1>13
  <2>4. Last("secs")' = Last("nanos")'
    BY <1>5, <1>15 DEF Fields
  <2> QED
    BY <1>14, <1>15, <2>1, <2>2, <2>3, <2>4 DEF WriterOK, At
<1>19. UnlockedOK'
  BY <1>16 DEF UnlockedOK, Unlocked
<1>20. \A u \in Thread : ThreadOK(u)'
  BY <1>15, <1>16, <1>17, <1>18 DEF ThreadOK
<1> QED
  BY <1>1, <1>15, <1>19, <1>20 DEF SeqLockInv

\* The instant a writer leaves is held, and all is published.
LEMMA UnlockLearns ==
    ASSUME SeqLockInv, NEW t \in Thread, Unlock(t)
    PROVE  /\ seen' = [seen EXCEPT ![t] = HeldAt(Last("nanos"))]
           /\ HeldAt(Last("nanos")) \in Nat \X Nat
           /\ Last("nanos") \in Nat \ {0} /\ Last("secs") = Last("nanos")
<1>1. MemoryOK /\ WriterOK(t) /\ Holds(t) /\ call[t].pc = "unlock"
  BY DEF SeqLockInv, ThreadOK, Unlock, At, Holds
<1>2. /\ Last("secs") = Last("nanos")
      /\ HeldAt(Last("nanos")) = IF IsBefore(<<call[t].secs, call[t].nanos>>, call[t].time)
                                THEN call[t].time ELSE <<call[t].secs, call[t].nanos>>
  BY <1>1 DEF WriterOK, At
<1>3. Last("nanos") \in Nat \ {0}
  BY <1>1 DEF MemoryOK, Last, Location
<1>4. Value("secs", Last("nanos")) \in Nat /\ Value("nanos", Last("nanos")) \in Nat
  BY <1>1, <1>2, <1>3, StoreType DEF Location
<1>5. seen' = [seen EXCEPT ![t] = HeldAt(Last("nanos"))]
  BY <1>2 DEF Unlock, Return
<1> QED
  BY <1>2, <1>3, <1>4, <1>5 DEF HeldAt

\* The releasing store of the next even version.
LEMMA UnlockKeeps ==
    ASSUME SeqLockInv, NEW t \in Thread, Unlock(t)
    PROVE  SeqLockInv'
<1>1. /\ MemoryOK /\ ViewsOK /\ PublishesWhole /\ WriterOK(t) /\ Holds(t)
      /\ call \in [Thread -> CallType] /\ call[t] \in CallType /\ call[t].pc = "unlock"
      /\ calls \in [Thread -> 0..MaxCalls] /\ seen \in [Thread -> Nat \X Nat]
      /\ calls' = calls /\ released' = released
  BY DEF SeqLockInv, ThreadOK, Unlock, At, Holds
<1>v. PICK v : v = Last("version")
  OBVIOUS
<1>n. PICK n : n = v + 1
  OBVIOUS
<1>m. PICK m : m = Last("nanos")
  OBVIOUS
<1>2. /\ v \in Nat \ {0} /\ v \in 1..Last("version") /\ "version" \in Location
      /\ \A k \in Location : Last(k) \in Nat
  BY <1>1, <1>v DEF MemoryOK, Location, Last
<1>3. /\ \A u \in Thread \ {t} : ~Holds(u)
      /\ IsOdd(n) /\ call[t].version = v - 2 /\ \A k \in Location : current[t][k] = Last(k)
      /\ \A k \in Fields : Last(k) = m
  <2>1. ~IsOdd(v) /\ Last("secs") = Last("nanos")
    BY <1>1, <1>v DEF WriterOK, At
  <2>2. IsOdd(n)
    BY <1>2, <1>n, <2>1 DEF IsOdd
  <2> QED
    BY <1>1, <1>m, <1>v, <2>1, <2>2 DEF WriterOK, Fields
<1> DEFINE own == [current[t] EXCEPT !["version"] = n]
           cell == [value |-> call[t].version + 2, view |-> own]
<1>4. current[t] \in View
  BY <1>1 DEF ViewsOK
<1>5. own \in View /\ own["version"] = n /\ \A k \in Fields : own[k] = m
  BY <1>2, <1>3, <1>4, <1>n DEF View, Location, Fields
<1>6. /\ memory' = [memory EXCEPT !["version"] = Append(@, cell)]
      /\ current' = [current EXCEPT ![t] = own]
      /\ acquirable' = [acquirable EXCEPT ![t] = Join(@, own)]
  BY <1>2, <1>4, <1>n, <1>v DEF Unlock, Store, NextVersion, View
<1> HIDE DEF own
<1>7. cell \in Cell /\ cell.value = v /\ cell.view = own
  BY <1>2, <1>3, <1>5 DEF Cell
<1> HIDE DEF cell
<1>8. /\ seen' = [seen EXCEPT ![t] = HeldAt(m)] /\ HeldAt(m) \in Nat \X Nat
      /\ m \in Nat \ {0}
  BY <1>m, UnlockLearns
<1>9. /\ Idle \in CallType /\ Idle.pc = "idle" /\ call' = [call EXCEPT ![t] = Idle]
  BY DEF CallType, Calls, Idle, Unlock, Return
<1>10. current'[t] = own /\ seen'[t] = HeldAt(m)
  BY <1>1, <1>6, <1>8 DEF ViewsOK
<1>11. /\ MemoryOK' /\ ViewsOK' /\ ValuesOK' /\ PublishesWhole' /\ TagsFields'
       /\ call' \in [Thread -> CallType] /\ call'[t] = Idle
       /\ \A u \in Thread \ {t} : ThreadOK(u)' /\ ~Holds(u)'
       /\ Last("version")' = n /\ \A k \in Fields : Last(k)' = Last(k)
       /\ Published(n)' = m /\ \A j : HeldAt(j)' = HeldAt(j)
  <2>1. Published(Last("version")) <= Last("nanos")
    BY <1>1, <1>2, <1>v, PublishedType
  <2>2. /\ n = Last("version") + 1 /\ cell.value = Last("version") /\ cell.view["version"] = n
        /\ \A k \in Fields : cell.view[k] <= Last(k)
        /\ cell.view["secs"] = cell.view["nanos"]
        /\ Published(Last("version")) <= cell.view["nanos"]
        /\ \A k \in Fields : cell.view[k] = Last(k)
        /\ \A k \in Fields : own[k] <= Last(k)
    BY <1>3, <1>5, <1>7, <1>8, <1>m, <1>n, <1>v, <2>1 DEF Fields
  <2>3. \A u \in Thread \ {t} : ~Holds(u) /\ seen'[u] = seen[u]
    BY <1>1, <1>3, <1>8
  <2>4. /\ MemoryOK' /\ ViewsOK' /\ ValuesOK' /\ PublishesWhole' /\ TagsFields'
        /\ call' \in [Thread -> CallType] /\ call'[t] = Idle
        /\ \A u \in Thread \ {t} : ThreadOK(u)' /\ ~Holds(u)'
        /\ Last("version")' = n /\ \A k \in Fields : Last(k)' = Last(k)
        /\ Published(n)' = cell.view["nanos"] /\ \A j : HeldAt(j)' = HeldAt(j)
    BY <1>1, <1>5, <1>6, <1>7, <1>9, <2>2, <2>3, VersionStored
  <2> QED
    BY <1>5, <1>7, <2>4 DEF Fields
<1>12. ~Holds(t)' /\ CallOK(t)' /\ ReaderOK(t)' /\ WriterOK(t)'
  BY <1>9, <1>11 DEF Holds, CallOK, ReaderOK, WriterOK, At
<1>13. SeenOK(t)'
  <2>1. m \in 1..(Published(current[t]["version"]))'
    BY <1>5, <1>8, <1>10, <1>11
  <2> QED
    BY <1>10, <1>11, <2>1 DEF SeenOK
<1>14. UnlockedOK'
  <2>1. (Published(Last("version")))' = m
    BY <1>11
  <2> QED
    BY <1>3, <1>11, <2>1 DEF UnlockedOK, Fields
<1>15. /\ \A u \in Thread : ThreadOK(u)'
       /\ seen' \in [Thread -> Nat \X Nat]
  BY <1>1, <1>8, <1>11, <1>12, <1>13 DEF ThreadOK
<1> QED
  BY <1>1, <1>11, <1>14, <1>15 DEF SeqLockInv

-----------------------------------------------------------------------------
(* The invariant.                                                          *)

\* The lock is made with one store to each location, and no call.
LEMMA InitOK ==
    Init => SeqLockInv
<1> SUFFICES ASSUME Init PROVE SeqLockInv
  OBVIOUS
<1> DEFINE none == [l \in Location |-> 1]
<1>1. Start \in Nat \X Nat /\ Start = <<Start[1], Start[2]>> /\ Start \in Instant
  BY InstantAssumption, CallsAssumption
<1>2. /\ memory = [version |-> <<[value |-> 0, view |-> none]>>,
                   secs |-> <<[value |-> Start[1], view |-> none]>>,
                   nanos |-> <<[value |-> Start[2], view |-> none]>>]
      /\ current = [t \in Thread |-> none] /\ acquirable = current /\ released = current
      /\ call = [t \in Thread |-> Idle] /\ calls = [t \in Thread |-> 0]
      /\ seen = [t \in Thread |-> Start]
  BY DEF Init
<1>3. none \in View /\ \A k \in Location : none[k] = 1
  BY DEF View
<1> HIDE DEF none
<1>4. /\ memory["version"] = <<[value |-> 0, view |-> none]>>
      /\ memory["secs"] = <<[value |-> Start[1], view |-> none]>>
      /\ memory["nanos"] = <<[value |-> Start[2], view |-> none]>>
      /\ DOMAIN memory = Location
      /\ memory = [l \in Location |-> memory[l]]
  BY <1>2 DEF Location
<1>5. \A l \in Location : /\ memory[l] \in Seq(Cell) /\ Last(l) = 1
                         /\ ViewOf(l, 1) = none
  <2>1. ASSUME NEW l \in Location, NEW value \in Nat,
               memory[l] = <<[value |-> value, view |-> none]>>
        PROVE  memory[l] \in Seq(Cell) /\ Last(l) = 1 /\ ViewOf(l, 1) = none
    <3>1. [value |-> value, view |-> none] \in Cell
      BY <1>3 DEF Cell
    <3> QED
      BY <2>1, <3>1 DEF Last, ViewOf
  <2>2. Start[1] \in Nat /\ Start[2] \in Nat
    BY <1>1
  <2> QED
    BY <1>4, <2>1, <2>2 DEF Location
<1>6. /\ Value("version", 1) = 0 /\ Value("secs", 1) = Start[1]
      /\ Value("nanos", 1) = Start[2] /\ HeldAt(1) = Start /\ Published(1) = 1
      /\ \A l \in Location : \A i \in 1..Last(l) : i = 1
  BY <1>1, <1>3, <1>4, <1>5 DEF Value, HeldAt, Published, Location
<1>7. MemoryOK
  <2>1. memory \in [Location -> Seq(Cell)]
    BY <1>4, <1>5
  <2> QED
    BY <1>3, <1>5, <1>6, <2>1 DEF MemoryOK, Within
<1>8. ViewsOK
  BY <1>2, <1>3, <1>5 DEF ViewsOK, Within
<1>9. ValuesOK
  BY <1>1, <1>6 DEF ValuesOK, Location
<1>10. PublishesWhole /\ TagsFields
  <2>1. \A l \in Location : ViewOf(l, 1)["secs"] = 1
    BY <1>3, <1>5 DEF Location
  <2>2. PublishesWhole
    BY <1>5, <1>6, <2>1 DEF PublishesWhole, Location
  <2>3. TagsFields
    BY <1>5, <1>6 DEF TagsFields, Fields, Location
  <2> QED
    BY <2>2, <2>3
<1>11. UnlockedOK
  BY <1>5, <1>6 DEF UnlockedOK, IsOdd, Location
<1>12. /\ call \in [Thread -> CallType] /\ \A t \in Thread : call[t].pc = "idle"
       /\ calls \in [Thread -> 0..MaxCalls] /\ seen \in [Thread -> Nat \X Nat]
  BY <1>1, <1>2, CallsAssumption DEF Idle, CallType, Calls
<1>13. ASSUME NEW t \in Thread PROVE ThreadOK(t)
  <2>1. CallOK(t) /\ ReaderOK(t) /\ WriterOK(t)
    BY <1>12 DEF CallOK, ReaderOK, WriterOK, At, Holds
  <2>2. current[t]["version"] = 1 /\ seen[t] = HeldAt(1)
    BY <1>2, <1>3, <1>6 DEF Location
  <2>3. SeenOK(t)
    BY <1>6, <2>2 DEF SeenOK
  <2> QED
    BY <2>1, <2>3 DEF ThreadOK
<1> QED
  BY <1>7, <1>8, <1>9, <1>10, <1>11, <1>12, <1>13 DEF SeqLockInv

\* A step that changes nothing keeps it.
LEMMA StutterKeeps ==
    ASSUME SeqLockInv, UNCHANGED vars
    PROVE  SeqLockInv'
<1>1. /\ memory' = memory /\ current' = current /\ acquirable' = acquirable
      /\ released' = released /\ call' = call /\ calls' = calls /\ seen' = seen
  BY DEF vars, views
<1>2. MemoryOK' /\ ViewsOK' /\ ValuesOK' /\ PublishesWhole' /\ TagsFields' /\ UnlockedOK'
  BY <1>1 DEF SeqLockInv, MemoryOK, ViewsOK, ValuesOK, PublishesWhole, TagsFields, UnlockedOK,
              Unlocked, Holds, Within, ViewOf, Published, Last, Value
<1>3. ASSUME NEW t \in Thread PROVE ThreadOK(t)'
  <2>1. ThreadOK(t)
    BY DEF SeqLockInv
  <2> QED
    BY <1>1, <2>1 DEF ThreadOK, CallOK, ReaderOK, WriterOK, SeenOK, At, Holds, Published,
                      ViewOf, Value, Last, HeldAt
<1> QED
  BY <1>1, <1>2, <1>3 DEF SeqLockInv

\* Every access of every call keeps it.
LEMMA StepKeeps ==
    SeqLockInv /\ [Next]_vars => SeqLockInv'
<1> SUFFICES ASSUME SeqLockInv, [Next]_vars PROVE SeqLockInv'
  OBVIOUS
<1>1. CASE Done \/ UNCHANGED vars
  BY <1>1, StutterKeeps DEF Done
<1>2. CASE \E t \in Thread : Begin(t) \/ Step(t)
  <2>1. PICK t \in Thread : Begin(t) \/ Step(t)
    BY <1>2
  <2>2. CASE Begin(t)
    BY <2>2, BeginKeeps
  <2>3. CASE Lock(t)
    BY <2>3, LockKeeps
  <2>4. CASE StoreSecs(t)
    BY <2>4, StoreSecsKeeps
  <2>5. CASE StoreNanos(t)
    BY <2>5, StoreNanosKeeps
  <2>6. CASE Unlock(t)
    BY <2>6, UnlockKeeps
  <2>7. CASE \E i \in 1..Last("version") :
                ReadBefore(t, i) \/ ReadAgain(t, i) \/ ReadLock(t, i) \/ FailLock(t, i)
    BY <2>7, ReadBeforeKeeps, ReadAgainKeeps, ReadLockKeeps, FailLockKeeps
  <2>8. CASE \E i \in 1..Last("secs") : ReadSecs(t, i) \/ ReadHeldSecs(t, i)
    BY <2>8, ReadSecsKeeps, ReadHeldSecsKeeps
  <2>9. CASE \E i \in 1..Last("nanos") : ReadNanos(t, i) \/ ReadHeldNanos(t, i)
    BY <2>9, ReadNanosKeeps, ReadHeldNanosKeeps
  <2> QED
    BY <2>1, <2>2, <2>3, <2>4, <2>5, <2>6, <2>7, <2>8, <2>9 DEF Step, Loads
<1> QED
  BY <1>1, <1>2 DEF Next

\* The invariant holds in every state: the order in which load_raw and advance
\* of seqlock.rs access the three words, with their fences, keeps every version
\* publishing whole instants.
THEOREM Invariance ==
    Spec => []SeqLockInv
  BY InitOK, StepKeeps, PTL DEF Spec

\* The invariant bears the types, and that writers exclude each other.
LEMMA InvTypeOK ==
    SeqLockInv => SeqLockTypeOK
<1> SUFFICES ASSUME SeqLockInv PROVE SeqLockTypeOK
  OBVIOUS
<1>1. /\ MemoryOK /\ ViewsOK /\ ValuesOK /\ UnlockedOK
      /\ call \in [Thread -> CallType] /\ calls \in [Thread -> 0..MaxCalls]
      /\ \A t \in Thread : WriterOK(t)
  BY DEF SeqLockInv, ThreadOK
<1>2. \A l \in Location : \A i \in 1..Last(l) : memory[l][i].view \in View
  BY <1>1, StoreType DEF ViewOf
<1>3. \A t \in Thread : /\ call[t].time \in Instant \cup {NoTime} /\ call[t].version \in Nat
                       /\ call[t].secs \in Nat /\ call[t].nanos \in Nat
  BY <1>1 DEF CallType
<1>4. WriterExclusive
  <2>v. PICK v : v = Last("version")
    OBVIOUS
  <2>1. v \in Nat \ {0} /\ Value("version", v) = v - 1
    <3>1. v \in Nat \ {0}
      BY <1>1, <2>v DEF MemoryOK, Last, Location
    <3> QED
      BY <1>1, <2>v, <3>1 DEF ValuesOK
  <2>2. IsEven(v - 1) <=> IsOdd(v)
    BY <2>1 DEF IsEven, IsOdd
  <2>3. (\E t \in Thread : Holds(t)) <=> ~IsOdd(v)
    BY <1>1, <2>v DEF WriterOK, UnlockedOK, Unlocked
  <2>4. \A t, u \in Thread : Holds(t) /\ Holds(u) => t = u
    BY <1>1 DEF WriterOK
  <2>5. \A t \in Thread : Holds(t) => \A l \in Location : current[t][l] = Last(l)
    BY <1>1 DEF WriterOK
  <2> QED
    BY <2>v, <2>1, <2>2, <2>3, <2>4, <2>5 DEF WriterExclusive
<1> QED
  BY <1>1, <1>2, <1>3, <1>4 DEF SeqLockTypeOK, ValuesOK, ViewsOK

\* The version counts its own stores and is odd exactly while one thread holds
\* it, and that thread has seen every store: advance's lock excludes writers and
\* compares with the instant really held, however stale a relaxed load may be.
THEOREM TypeCorrect ==
    Spec => []SeqLockTypeOK
  BY Invariance, InvTypeOK, PTL

-----------------------------------------------------------------------------
(* The refinement.                                                         *)

\* The instants held, by both of their fields.
LEMMA HeldType ==
    ASSUME SeqLockInv
    PROVE  /\ Last("nanos") \in Nat \ {0} /\ Len(Held) = Last("nanos")
           /\ Held \in Seq(Nat \X Nat) /\ \A i \in 1..Last("nanos") : Held[i] = HeldAt(i)
<1>1. /\ MemoryOK /\ UnlockedOK /\ PublishesWhole /\ \A t \in Thread : WriterOK(t)
  BY DEF SeqLockInv, ThreadOK
<1>2. Last("nanos") \in Nat \ {0} /\ Last("secs") \in Nat /\ Last("version") \in Nat \ {0}
  BY <1>1 DEF MemoryOK, Last, Location
<1>3. Last("nanos") <= Last("secs")
  <2>1. CASE Unlocked
    BY <1>1, <1>2, <2>1 DEF UnlockedOK
  <2>2. CASE ~Unlocked
    <3>1. Last("secs") = Last("nanos") \/ Last("secs") = Last("nanos") + 1
      BY <1>1, <2>2 DEF Unlocked, WriterOK
    <3> QED
      BY <1>2, <3>1
  <2> QED
    BY <2>1, <2>2
<1>4. \A i \in 1..Last("nanos") : HeldAt(i) \in Nat \X Nat
  <2>1. \A i \in 1..Last("nanos") : i \in 1..Last("secs")
    BY <1>2, <1>3
  <2> QED
    BY <1>1, <2>1, StoreType DEF HeldAt, Location
<1>5. Held = [i \in 1..Last("nanos") |-> HeldAt(i)]
  BY DEF Held, HeldAt
<1> QED
  BY <1>2, <1>4, <1>5

\* Nothing more is held when neither field is stored.
LEMMA HeldKept ==
    ASSUME SeqLockInv, Last("nanos")' = Last("nanos"),
           \A i \in 1..Last("nanos") : HeldAt(i)' = HeldAt(i)
    PROVE  Held' = Held
  BY DEF Held, HeldAt

\* The lock is made with the instant the clock is.
LEMMA InitPromised ==
    Init => Promised!PromiseInit
<1> SUFFICES ASSUME Init PROVE Promised!PromiseInit
  OBVIOUS
<1>1. Start = <<Start[1], Start[2]>>
  BY InstantAssumption, CallsAssumption
<1>2. Last("nanos") = 1 /\ Value("secs", 1) = Start[1] /\ Value("nanos", 1) = Start[2]
  BY DEF Init, Last, Value
<1>3. Held = <<Start>>
  BY <1>1, <1>2 DEF Held
<1> QED
  BY <1>3 DEF Promised!PromiseInit, Init

\* A call that returns has learned an instant held whole, no earlier than before.
LEMMA Learns ==
    ASSUME SeqLockInv, NEW t \in Thread,
           NEW j \in 1..Last("nanos"), NEW m \in 1..j, seen[t] = HeldAt(m),
           seen' = [seen EXCEPT ![t] = HeldAt(j)], Held' = Held
    PROVE  Promised!PromiseNext
<1>1. j \in 1..Len(Held) /\ m \in 1..Len(Held) /\ m <= j /\ Held[j] = HeldAt(j) /\ Held[m] = HeldAt(m)
  BY HeldType
<1>2. Promised!Learn(t)
  BY <1>1 DEF Promised!Learn
<1> QED
  BY <1>2 DEF Promised!PromiseNext

\* Every access maps to a step of the promise or to none.
LEMMA StepPromised ==
    SeqLockInv /\ [Next]_vars => [Promised!PromiseNext]_(Promised!promise)
<1> SUFFICES ASSUME SeqLockInv, [Next]_vars
             PROVE  Promised!PromiseNext \/ (Held' = Held /\ seen' = seen)
  BY DEF Promised!promise
<1>1. ASSUME memory' = memory PROVE Held' = Held
  BY <1>1 DEF Held, Value, Last
<1>2. CASE Done \/ UNCHANGED vars
  BY <1>1, <1>2 DEF Done, vars
<1>3. ASSUME NEW t \in Thread, Begin(t) PROVE Held' = Held /\ seen' = seen
  BY <1>1, <1>3 DEF Begin
<1>4. ASSUME NEW t \in Thread, Loads(t), memory' = memory, seen' = seen
      PROVE  Held' = Held /\ seen' = seen
  BY <1>1, <1>4
<1>5. ASSUME NEW t \in Thread, Loads(t)
      PROVE  memory' = memory /\ (seen' = seen \/ \E i \in 1..Last("version") : ReadAgain(t, i))
  BY <1>5 DEF Loads, ReadBefore, ReadAgain, ReadLock, FailLock, ReadSecs, ReadHeldSecs, ReadNanos,
              ReadHeldNanos, LoadRelaxed
<1>6. ASSUME NEW t \in Thread, NEW i \in 1..Last("version"), ReadAgain(t, i), seen' # seen
      PROVE  Promised!PromiseNext
  <2>1. /\ At(t, "readAgain") /\ Load(t, AcquireFence(t), "version", i, FALSE) /\ memory' = memory
        /\ Value("version", i) = call[t].version
        /\ seen' = [seen EXCEPT ![t] = <<call[t].secs, call[t].nanos>>]
    BY <1>6 DEF ReadAgain, Return, GoTo
  <2>2. /\ Published(i) \in 1..Last("nanos")
        /\ <<call[t].secs, call[t].nanos>> = HeldAt(Published(i))
        /\ \E m \in 1..Published(i) : seen[t] = HeldAt(m)
    BY <2>1, ReadWhole
  <2> QED
    BY <1>1, <2>1, <2>2, Learns
<1>7. ASSUME NEW t \in Thread, Unlock(t)
      PROVE  Promised!PromiseNext
  <2>1. /\ seen' = [seen EXCEPT ![t] = HeldAt(Last("nanos"))]
        /\ Last("nanos") \in Nat \ {0}
    BY <1>7, UnlockLearns
  <2>2. Held' = Held
    <3>1. memory'["secs"] = memory["secs"] /\ memory'["nanos"] = memory["nanos"]
      BY <1>7 DEF Unlock, Store, SeqLockInv, MemoryOK, Location
    <3> QED
      BY <3>1 DEF Held, Value, Last
  <2>3. \E m \in 1..Last("nanos") : seen[t] = HeldAt(m)
    <3>v. PICK v : v = current[t]["version"]
      OBVIOUS
    <3>1. MemoryOK /\ ViewsOK /\ PublishesWhole /\ SeenOK(t)
      BY DEF SeqLockInv, ThreadOK
    <3>2. v \in 1..Last("version")
      BY <3>1, <3>v, ViewType DEF Location
    <3>3. Published(v) \in 1..Last("nanos")
      BY <3>1, <3>2, PublishedType
    <3>p. PICK p : p = Published(v)
      OBVIOUS
    <3>4. PICK m \in 1..p : seen[t] = HeldAt(m)
      BY <3>1, <3>v, <3>p DEF SeenOK
    <3>5. m \in 1..Last("nanos")
      BY <2>1, <3>3, <3>4, <3>p
    <3> QED
      BY <3>4, <3>5
  <2>4. Last("nanos") \in 1..Last("nanos")
    BY <2>1
  <2> QED
    BY <2>1, <2>2, <2>3, <2>4, Learns
<1>8. ASSUME NEW t \in Thread, Lock(t) \/ StoreSecs(t)
      PROVE  Held' = Held /\ seen' = seen
  <2>1. CASE Lock(t)
    <3>1. memory'["secs"] = memory["secs"] /\ memory'["nanos"] = memory["nanos"]
      BY <2>1 DEF Lock, SeqLockInv, MemoryOK, Location
    <3> QED
      BY <2>1, <3>1 DEF Held, Value, Last, Lock
  <2>2. CASE StoreSecs(t)
    <3>1. /\ MemoryOK /\ memory'["nanos"] = memory["nanos"]
          /\ Last("secs") = Last("nanos") /\ seen' = seen
      BY <2>2 DEF StoreSecs, Store, SeqLockInv, MemoryOK, Location, ThreadOK, WriterOK, Holds, At
    <3>2. \A i \in 1..Last("secs") : memory'["secs"][i] = memory["secs"][i]
      <4>1. PICK cell : memory'["secs"] = Append(memory["secs"], cell)
        BY <2>2, <3>1 DEF StoreSecs, Store, MemoryOK, Location
      <4>2. memory["secs"] \in Seq(Cell)
        BY <3>1 DEF MemoryOK, Location
      <4> QED
        BY <4>1, <4>2 DEF Last
    <3> QED
      BY <3>1, <3>2 DEF Held, Value, Last
  <2> QED
    BY <1>8, <2>1, <2>2
<1>9. ASSUME NEW t \in Thread, StoreNanos(t)
      PROVE  Promised!PromiseNext
  <2>n. PICK n : n = Last("nanos")
    OBVIOUS
  <2>t. PICK time : time = call[t].time
    OBVIOUS
  <2>1. /\ MemoryOK /\ Holds(t) /\ call[t].pc = "storeNanos" /\ WriterOK(t) /\ CallOK(t)
    BY <1>9 DEF SeqLockInv, ThreadOK, StoreNanos, At, Holds
  <2>2. /\ Last("secs") = n + 1 /\ Value("secs", n + 1) = time[1]
        /\ <<call[t].secs, call[t].nanos>> = HeldAt(n)
        /\ IsBefore(<<call[t].secs, call[t].nanos>>, time)
        /\ time \in Instant /\ time = <<time[1], time[2]>> /\ time \in Nat \X Nat
    BY <2>1, <2>n, <2>t, InstantAssumption DEF WriterOK, CallOK, At
  <2>3. /\ n \in Nat \ {0} /\ Len(Held) = n /\ Held \in Seq(Nat \X Nat)
        /\ \A i \in 1..n : Held[i] = HeldAt(i)
    BY <2>n, HeldType
  <2> DEFINE own == [current[t] EXCEPT !["nanos"] = Last("nanos") + 1]
             cell == [value |-> time[2], view |-> [released[t] EXCEPT !["nanos"] = own["nanos"]]]
  <2>4. memory' = [memory EXCEPT !["nanos"] = Append(@, cell)] /\ cell.value = time[2]
    BY <1>9, <2>t DEF StoreNanos, Store
  <2> HIDE DEF cell
  <2>5. /\ memory'["secs"] = memory["secs"] /\ memory["nanos"] \in Seq(Cell)
        /\ memory'["nanos"] = Append(memory["nanos"], cell)
    BY <2>1, <2>4 DEF MemoryOK, Location
  <2>6. /\ Last("nanos")' = n + 1 /\ memory'["nanos"][n + 1] = cell
        /\ \A i \in 1..n : memory'["nanos"][i] = memory["nanos"][i]
    BY <2>5, <2>n DEF Last
  <2>7. /\ \A i \in 1..n : HeldAt(i)' = HeldAt(i)
        /\ HeldAt(n + 1)' = time
    BY <2>2, <2>4, <2>5, <2>6 DEF HeldAt, Value
  <2>8. Held' = [i \in 1..(n + 1) |-> HeldAt(i)']
    BY <2>6 DEF Held, HeldAt
  <2>9. Held' = Append(Held, time)
    <3>1. /\ Append(Held, time) \in Seq(Nat \X Nat) /\ Len(Append(Held, time)) = n + 1
          /\ \A i \in 1..n : Append(Held, time)[i] = Held[i]
          /\ Append(Held, time)[n + 1] = time
      BY <2>2, <2>3
    <3>2. \A i \in 1..(n + 1) : i \in 1..n \/ i = n + 1
      BY <2>3
    <3>3. \A i \in 1..(n + 1) : HeldAt(i)' = Append(Held, time)[i]
      BY <2>3, <2>7, <3>1, <3>2
    <3>4. \A i \in 1..(n + 1) : HeldAt(i)' \in Nat \X Nat
      <4>1. \A i \in 1..n : Held[i] \in Nat \X Nat
        BY <2>3
      <4> QED
        BY <2>2, <2>3, <2>7, <3>2, <4>1
    <3>5. Held' \in Seq(Nat \X Nat) /\ Len(Held') = n + 1
      BY <2>3, <2>8, <3>4
    <3>6. \A i \in 1..Len(Held') : Held'[i] = Append(Held, time)[i]
      BY <2>8, <3>3, <3>5
    <3> QED
      BY <3>1, <3>5, <3>6, SeqEqual
  <2>10. Promised!Advance(time)
    <3>1. Promised!IsBefore(Promised!Latest, time)
      <4>1. Held[Len(Held)] = <<call[t].secs, call[t].nanos>>
        BY <2>2, <2>3
      <4> QED
        BY <2>2, <4>1 DEF Promised!IsBefore, Promised!Latest, IsBefore
    <3>2. seen' = seen
      BY <1>9 DEF StoreNanos
    <3> QED
      BY <2>9, <3>1, <3>2 DEF Promised!Advance
  <2> QED
    BY <2>2, <2>10 DEF Promised!PromiseNext
<1> QED
  BY <1>2, <1>3, <1>4, <1>5, <1>6, <1>7, <1>8, <1>9 DEF Next, Step

\* "The instant never moves backwards whatever order concurrent writers arrive
\* in"; load returns one held whole, "never a mix", and on one thread never an
\* earlier one than it has read or advanced to: load_raw and advance keep the
\* promise of MonotonicInstant, with any number of threads and calls.
THEOREM Implements ==
    Spec => KeepsItsPromise
<1>1. SeqLockInv /\ [Next]_vars => [Promised!PromiseNext]_(Promised!promise)
  BY StepPromised
<1> QED
  BY <1>1, InitPromised, Invariance, PTL DEF Spec, KeepsItsPromise, Promised!MonotonicSpec
=============================================================================
