---------------------------- MODULE OrdersProofs ----------------------------
(***************************************************************************)
(* What Orders guarantees for every set of ids, quantities and stamps and  *)
(* every size of the window.  The inductive invariant is the conjunction   *)
(* of the type invariant and of the two facts about the window, each of    *)
(* which needs the others: forgetting an id empties its place only because *)
(* it has one place, and an order that ends finds a place of its own only  *)
(* because it was not remembered while it was tracked.                     *)
(***************************************************************************)
EXTENDS Orders, FiniteSetTheorems, TLAPS

OrdersInv == TypeOK /\ RetiredWindow /\ TrackedNotRetired

\* RetiredWindow, of any window.
Bounded(window) ==
    /\ Len(window) <= MaxRetired
    /\ \A i, j \in 1..Len(window) : window[i] = window[j] => i = j

-----------------------------------------------------------------------------
(* The window.                                                             *)

\* RecentlyRetired::insert keeps the window bounded, adds the id, and adds no other.
LEMMA RememberWindow ==
    ASSUME NEW window \in Seq(Cid), NEW c \in Cid, Bounded(window)
    PROVE  /\ Remember(window, c) \in Seq(Cid)
           /\ Bounded(Remember(window, c))
           /\ Remembers(Remember(window, c), c)
           /\ \A d \in Cid : Remembers(Remember(window, c), d) => d = c \/ Remembers(window, d)
<1> DEFINE room == IF Len(window) = MaxRetired THEN Tail(window) ELSE window
<1>1. CASE Remembers(window, c)
  BY <1>1 DEF Remember
<1>2. CASE ~Remembers(window, c)
  <2>1. Remember(window, c) = Append(room, c)
    BY <1>2 DEF Remember
  <2>2. /\ room \in Seq(Cid)
        /\ Len(room) < MaxRetired
        /\ \A i \in 1..Len(room) : \E j \in 1..Len(window) : room[i] = window[j]
        /\ \A i, j \in 1..Len(room) : room[i] = room[j] => i = j
    <3>1. CASE Len(window) = MaxRetired
      <4>1. /\ room = Tail(window)
            /\ Len(window) \in Nat \ {0}
        BY <3>1, MaxRetiredAssumption
      <4>2. /\ Len(room) = Len(window) - 1
            /\ \A i \in 1..Len(room) : i + 1 \in 1..Len(window) /\ room[i] = window[i + 1]
        BY <4>1
      <4> QED
        BY <3>1, <4>1, <4>2 DEF Bounded
    <3>2. CASE Len(window) # MaxRetired
      BY <3>2, MaxRetiredAssumption DEF Bounded
    <3> QED
      BY <3>1, <3>2
  <2>3. \A i \in 1..Len(room) : room[i] # c
    BY <1>2, <2>2 DEF Remembers
  <2> HIDE DEF room
  <2>4. /\ Append(room, c) \in Seq(Cid)
        /\ Len(Append(room, c)) = Len(room) + 1
        /\ Append(room, c)[Len(room) + 1] = c
        /\ \A i \in 1..Len(room) : Append(room, c)[i] = room[i]
    BY <2>2
  <2>5. Bounded(Append(room, c))
    BY <2>2, <2>3, <2>4, MaxRetiredAssumption DEF Bounded
  <2>6. Remembers(Append(room, c), c)
    BY <2>2, <2>4 DEF Remembers
  <2>7. \A d \in Cid : Remembers(Append(room, c), d) => d = c \/ Remembers(window, d)
    BY <2>2, <2>4 DEF Remembers
  <2> QED
    BY <2>1, <2>4, <2>5, <2>6, <2>7
<1> QED
  BY <1>1, <1>2

\* RecentlyRetired::forget removes the id, and adds none.
LEMMA ForgetWindow ==
    ASSUME NEW window \in Seq(Cid), NEW c \in Cid, Bounded(window)
    PROVE  /\ Forget(window, c) \in Seq(Cid)
           /\ Bounded(Forget(window, c))
           /\ \A d \in Cid : Remembers(Forget(window, c), d) => d # c /\ Remembers(window, d)
<1>1. CASE ~Remembers(window, c)
  BY <1>1 DEF Forget
<1>2. CASE Remembers(window, c)
  <2> DEFINE at == CHOOSE i \in 1..Len(window) : window[i] = c
             rest == [j \in 1..(Len(window) - 1) |-> window[IF j < at THEN j ELSE j + 1]]
  <2>1. at \in 1..Len(window) /\ window[at] = c
    BY <1>2 DEF Remembers
  <2>2. Forget(window, c) = rest
    BY <1>2 DEF Forget
  <2> HIDE DEF at
  <2>3. Len(window) \in Nat \ {0}
    BY <2>1
  <2>4. \A j \in 1..(Len(window) - 1) : rest[j] \in Cid
    BY <2>1, <2>3
  <2>5. rest \in Seq(Cid) /\ Len(rest) = Len(window) - 1
    BY <2>3, <2>4
  <2>6. \A j \in 1..Len(rest) :
            /\ rest[j] = window[IF j < at THEN j ELSE j + 1]
            /\ (IF j < at THEN j ELSE j + 1) \in 1..Len(window)
            /\ (IF j < at THEN j ELSE j + 1) # at
    BY <2>1, <2>5
  <2> HIDE DEF rest
  <2>7. Bounded(rest)
    <3>1. Len(rest) <= MaxRetired
      BY <2>3, <2>5, MaxRetiredAssumption DEF Bounded
    <3>2. ASSUME NEW i \in 1..Len(rest), NEW j \in 1..Len(rest), rest[i] = rest[j]
          PROVE  i = j
      <4>1. (IF i < at THEN i ELSE i + 1) = (IF j < at THEN j ELSE j + 1)
        BY <2>6, <3>2 DEF Bounded
      <4> QED
        BY <2>1, <2>5, <4>1
    <3> QED
      BY <3>1, <3>2 DEF Bounded
  <2>8. ASSUME NEW d \in Cid, Remembers(rest, d) PROVE d # c /\ Remembers(window, d)
    <3>1. PICK j \in 1..Len(rest) : rest[j] = d
      BY <2>8 DEF Remembers
    <3>2. PICK i \in 1..Len(window) : i # at /\ window[i] = d
      BY <2>6, <3>1
    <3>3. window[i] # c
      BY <2>1, <3>2 DEF Bounded
    <3> QED
      BY <3>2, <3>3 DEF Remembers
  <2> QED
    BY <2>2, <2>5, <2>7, <2>8
<1> QED
  BY <1>1, <1>2

-----------------------------------------------------------------------------
(* The shapes of a step.                                                   *)

\* What a step that changes one entry has to show of the window it leaves.
LEMMA ChangeOne ==
    ASSUME OrdersInv, NEW c \in Cid, NEW entry,
           tracked' = [tracked EXCEPT ![c] = entry],
           entry = Untracked \/ WellFormed(entry),
           retired' \in Seq(Cid), Bounded(retired'),
           \A d \in Cid : Remembers(retired', d) =>
                             IF d = c THEN entry = Untracked ELSE Remembers(retired, d)
    PROVE  OrdersInv'
<1>1. tracked \in [Cid -> Order \cup {Untracked}]
  BY DEF OrdersInv, TypeOK
<1>2. \A d \in Cid : tracked'[d] = IF d = c THEN entry ELSE tracked[d]
  BY <1>1
<1>3. TypeOK'
  <2>1. tracked' \in [Cid -> Order \cup {Untracked}]
    BY <1>1 DEF WellFormed
  <2>2. \A d \in Cid : IsTracked(d)' => WellFormed(tracked'[d])
    BY <1>2 DEF OrdersInv, TypeOK, IsTracked
  <2> QED
    BY <2>1, <2>2 DEF TypeOK
<1>4. RetiredWindow'
  BY DEF Bounded, RetiredWindow
<1>5. TrackedNotRetired'
  BY <1>2 DEF OrdersInv, TrackedNotRetired, IsTracked, Remembers
<1> QED
  BY <1>3, <1>4, <1>5 DEF OrdersInv

\* Nothing changes.
LEMMA Unchanged == ASSUME OrdersInv, UNCHANGED vars PROVE OrdersInv'
BY DEF OrdersInv, TypeOK, WellFormed, RetiredWindow, TrackedNotRetired, IsTracked, Remembers, vars

\* The window, as the lemmas on windows take it.
LEMMA WindowOfInv == ASSUME OrdersInv PROVE retired \in Seq(Cid) /\ Bounded(retired)
BY DEF OrdersInv, TypeOK, RetiredWindow, Bounded

\* An order is tracked, or its entry replaced, with the window left alone.
LEMMA Kept ==
    ASSUME OrdersInv, NEW c \in Cid, NEW order, WellFormed(order),
           Keep(c, order), UNCHANGED retired, IsTracked(c) \/ ~Remembers(retired, c)
    PROVE  OrdersInv'
<1>1. ~Remembers(retired, c)
  BY DEF OrdersInv, TrackedNotRetired
<1>2. retired' \in Seq(Cid) /\ Bounded(retired')
  BY WindowOfInv
<1> QED
  BY <1>1, <1>2, ChangeOne DEF Keep

\* An order is tracked and its id forgotten.
LEMMA KeptForgotten ==
    ASSUME OrdersInv, NEW c \in Cid, NEW order, WellFormed(order),
           Keep(c, order), retired' = Forget(retired, c)
    PROVE  OrdersInv'
<1>1. /\ retired' \in Seq(Cid)
      /\ Bounded(retired')
      /\ \A d \in Cid : Remembers(retired', d) => d # c /\ Remembers(retired, d)
  BY WindowOfInv, ForgetWindow
<1> QED
  BY <1>1, ChangeOne DEF Keep

\* An order is removed and remembered.
LEMMA Retired == ASSUME OrdersInv, NEW c \in Cid, Retire(c) PROVE OrdersInv'
<1>1. /\ retired' \in Seq(Cid)
      /\ Bounded(retired')
      /\ \A d \in Cid : Remembers(retired', d) => d = c \/ Remembers(retired, d)
  BY WindowOfInv, RememberWindow DEF Retire
<1> QED
  BY <1>1, ChangeOne DEF Retire

\* An order is removed without a trace.
LEMMA Dropped == ASSUME OrdersInv, NEW c \in Cid, Drop(c) PROVE OrdersInv'
BY WindowOfInv, ChangeOne DEF Drop

\* The end of an order that is not tracked is remembered.
LEMMA RememberedUntracked ==
    ASSUME OrdersInv, NEW c \in Cid, ~IsTracked(c),
           retired' = Remember(retired, c), UNCHANGED tracked
    PROVE  OrdersInv'
<1>1. tracked' = [tracked EXCEPT ![c] = Untracked]
  BY DEF OrdersInv, TypeOK, IsTracked
<1> QED
  BY <1>1, Retired DEF Retire

-----------------------------------------------------------------------------
(* Clearing, where every tracked id enters the window at once.             *)

\* A sequence without repetitions leaves a window when cut to its latest entries.
LEMMA LatestWindow ==
    ASSUME NEW entries \in Seq(Cid),
           \A i, j \in 1..Len(entries) : entries[i] = entries[j] => i = j
    PROVE  Latest(entries) \in Seq(Cid) /\ Bounded(Latest(entries))
<1> DEFINE first == IF Len(entries) > MaxRetired THEN Len(entries) - MaxRetired + 1 ELSE 1
<1>1. /\ Len(entries) \in Nat
      /\ first \in 1..(Len(entries) + 1)
      /\ Len(entries) - first + 1 <= MaxRetired
  BY MaxRetiredAssumption
<1>2. Latest(entries) = SubSeq(entries, first, Len(entries))
  BY DEF Latest
<1> HIDE DEF first
<1>3. /\ SubSeq(entries, first, Len(entries)) \in Seq(Cid)
      /\ Len(SubSeq(entries, first, Len(entries))) = Len(entries) - first + 1
      /\ \A i \in 1..(Len(entries) - first + 1) :
            SubSeq(entries, first, Len(entries))[i] = entries[first + i - 1]
  BY <1>1
<1> DEFINE latest == SubSeq(entries, first, Len(entries))
<1>4. ASSUME NEW i \in 1..Len(latest), NEW j \in 1..Len(latest), latest[i] = latest[j]
      PROVE  i = j
  <2>1. first + i - 1 \in 1..Len(entries) /\ first + j - 1 \in 1..Len(entries)
    BY <1>1, <1>3
  <2>2. entries[first + i - 1] = entries[first + j - 1]
    BY <1>3, <1>4
  <2>3. first + i - 1 = first + j - 1
    BY <2>1, <2>2
  <2> QED
    BY <2>3, <1>1, <1>3
<1> QED
  BY <1>1, <1>2, <1>3, <1>4 DEF Bounded

\* The orders drained by a clear are listed once each.
LEMMA ListingsOfTracked ==
    ASSUME NEW S \in SUBSET Cid, NEW p \in Listings(S)
    PROVE  /\ p \in Seq(Cid)
           /\ \A i \in 1..Len(p) : p[i] \in S
           /\ \A i, j \in 1..Len(p) : p[i] = p[j] => i = j
<1>1. Cardinality(S) \in Nat
  BY CidAssumption, FS_Subset, FS_CardinalityType
<1>2. p \in [1..Cardinality(S) -> S]
  BY DEF Listings
<1>3. p \in Seq(Cid) /\ Len(p) = Cardinality(S)
  BY <1>1, <1>2
<1> QED
  BY <1>2, <1>3 DEF Listings

LEMMA Cleared == ASSUME OrdersInv, Clear PROVE OrdersInv'
<1> DEFINE live == {c \in Cid : IsTracked(c)}
<1>1. PICK drained \in Listings(live) : retired' = Latest(retired \o drained)
  BY DEF Clear
<1>2. /\ drained \in Seq(Cid)
      /\ \A i \in 1..Len(drained) : drained[i] \in live
      /\ \A i, j \in 1..Len(drained) : drained[i] = drained[j] => i = j
  BY ListingsOfTracked
<1>3. /\ retired \in Seq(Cid)
      /\ \A i, j \in 1..Len(retired) : retired[i] = retired[j] => i = j
      /\ \A i \in 1..Len(retired) : retired[i] \notin live
  BY DEF OrdersInv, TypeOK, RetiredWindow, TrackedNotRetired, Remembers
<1> HIDE DEF live
<1> DEFINE all == retired \o drained
<1>4. /\ all \in Seq(Cid)
      /\ Len(all) = Len(retired) + Len(drained)
      /\ \A i \in 1..Len(retired) : all[i] = retired[i]
      /\ \A i \in (Len(retired) + 1)..Len(all) :
            i - Len(retired) \in 1..Len(drained) /\ all[i] = drained[i - Len(retired)]
  BY <1>2, <1>3
<1> HIDE DEF all
<1>5. \A i, j \in 1..Len(all) : all[i] = all[j] => i = j
  <2> SUFFICES ASSUME NEW i \in 1..Len(all), NEW j \in 1..Len(all), all[i] = all[j]
               PROVE  i = j
    OBVIOUS
  <2>1. Len(retired) \in Nat /\ Len(drained) \in Nat /\ i \in Int /\ j \in Int
    BY <1>2, <1>3, <1>4
  <2>2. CASE i \in 1..Len(retired) /\ j \in 1..Len(retired)
    BY <2>2, <1>3, <1>4
  <2>3. CASE i \in 1..Len(retired) /\ j \in (Len(retired) + 1)..Len(all)
    <3>1. all[i] \notin live /\ all[j] \in live
      BY <2>3, <1>2, <1>3, <1>4
    <3> QED
      BY <3>1
  <2>4. CASE i \in (Len(retired) + 1)..Len(all) /\ j \in 1..Len(retired)
    <3>1. all[i] \in live /\ all[j] \notin live
      BY <2>4, <1>2, <1>3, <1>4
    <3> QED
      BY <3>1
  <2>5. CASE i \in (Len(retired) + 1)..Len(all) /\ j \in (Len(retired) + 1)..Len(all)
    <3>1. /\ drained[i - Len(retired)] = drained[j - Len(retired)]
          /\ i - Len(retired) \in 1..Len(drained)
          /\ j - Len(retired) \in 1..Len(drained)
      BY <2>5, <1>4
    <3>2. i - Len(retired) = j - Len(retired)
      BY <3>1, <1>2
    <3> QED
      BY <3>2, <2>1
  <2> QED
    BY <2>1, <2>2, <2>3, <2>4, <2>5, <1>4
<1>6. retired' = Latest(all)
  BY <1>1 DEF all
<1>7. retired' \in Seq(Cid) /\ Bounded(retired')
  BY <1>4, <1>5, <1>6, LatestWindow
<1>8. \A c \in Cid : ~IsTracked(c)'
  BY DEF Clear, IsTracked
<1>9. tracked' \in [Cid -> Order \cup {Untracked}]
  BY DEF Clear
<1> QED
  BY <1>7, <1>8, <1>9 DEF OrdersInv, TypeOK, RetiredWindow, TrackedNotRetired, Bounded

-----------------------------------------------------------------------------
(* The operations.                                                         *)

\* The order of an active snapshot is well formed, but for the open that a
\* cancel in flight may lack.
LEMMA SnapshotWellFormed ==
    ASSUME NEW s \in Snapshot
    PROVE  /\ s.cid \in Cid /\ s.quantity \in Quantity
           /\ s.state \in Active => WellFormed(AsOrder(s))
           /\ s.state = "Open" => s.open \in Open
           /\ s.state = "CancelInFlight" => s.open \in Open \cup {NoOpen} /\ s.sent \in Time
BY NullAssumption, UntrackedAssumption
   DEF Snapshot, Active, AsOrder, WellFormed, Order

\* A tracked order stays well formed under each replacement the manager makes.
LEMMA TrackedWellFormed ==
    ASSUME OrdersInv, NEW c \in Cid, IsTracked(c)
    PROVE  /\ WellFormed(tracked[c])
           /\ \A open \in Open : WellFormed(AsOpen(tracked[c], open))
           /\ \A open \in Open \cup {NoOpen}, sent \in Time :
                 WellFormed(AsCancelInFlight(tracked[c], open, sent))
<1>1. WellFormed(tracked[c])
  BY DEF OrdersInv, TypeOK
<1> DEFINE order == tracked[c]
<1>2. order \in Order
  BY <1>1 DEF WellFormed
<1> HIDE DEF order
<1>3. \A open \in Open : WellFormed(AsOpen(order, open))
  BY <1>2, UntrackedAssumption DEF AsOpen, WellFormed, Order
<1>4. \A open \in Open \cup {NoOpen}, sent \in Time :
         WellFormed(AsCancelInFlight(order, open, sent))
  BY <1>2, NullAssumption DEF AsCancelInFlight, WellFormed, Order
<1> QED
  BY <1>1, <1>3, <1>4 DEF order

LEMMA UpdateUntrackedStep ==
    ASSUME OrdersInv, NEW s \in Snapshot, ~IsTracked(s.cid), UpdateUntracked(s)
    PROVE  OrdersInv'
<1>1. s.cid \in Cid /\ (s.state \in Active => WellFormed(AsOrder(s)))
  BY SnapshotWellFormed
<1>2. CASE retired' = Remember(retired, s.cid) /\ UNCHANGED tracked
  BY <1>1, <1>2, RememberedUntracked
<1>3. CASE UNCHANGED vars
  BY <1>3, Unchanged
<1>4. CASE /\ s.state \in {"Open", "CancelInFlight"} /\ ~Remembers(retired, s.cid)
           /\ Keep(s.cid, AsOrder(s)) /\ UNCHANGED retired
  BY <1>1, <1>4, Kept DEF Active
<1>5. CASE /\ s.state = "OpenInFlight"
           /\ Keep(s.cid, AsOrder(s)) /\ retired' = Forget(retired, s.cid)
  BY <1>1, <1>5, KeptForgotten DEF Active
<1> QED
  BY <1>2, <1>3, <1>4, <1>5 DEF UpdateUntracked

LEMMA UpdateTrackedStep ==
    ASSUME OrdersInv, NEW s \in Snapshot, IsTracked(s.cid),
           \/ UpdateEnded(s)
           \/ UpdateOpenInFlight(s)
           \/ Is(s.cid, "Open") /\ UpdateOpen(s)
           \/ Is(s.cid, "CancelInFlight") /\ UpdateCancelInFlight(s)
    PROVE  OrdersInv'
<1>1. /\ s.cid \in Cid
      /\ s.state = "Open" => s.open \in Open
      /\ s.state = "CancelInFlight" => s.open \in Open \cup {NoOpen} /\ s.sent \in Time
  BY SnapshotWellFormed
<1>2. WellFormed(tracked[s.cid])
  BY <1>1, TrackedWellFormed
<1>3. CASE UNCHANGED vars
  BY <1>3, Unchanged
<1>4. CASE Retire(s.cid)
  BY <1>1, <1>4, Retired
<1>5. CASE /\ s.state = "Open"
           /\ Keep(s.cid, AsOpen(tracked[s.cid], s.open)) /\ UNCHANGED retired
  <2>1. WellFormed(AsOpen(tracked[s.cid], s.open))
    BY <1>1, <1>5, TrackedWellFormed
  <2> QED
    BY <1>1, <1>5, <2>1, Kept
<1>6. CASE \E open \in Open \cup {NoOpen}, sent \in Time :
              /\ Keep(s.cid, AsCancelInFlight(tracked[s.cid], open, sent))
              /\ UNCHANGED retired
  <2>1. PICK open \in Open \cup {NoOpen}, sent \in Time :
              /\ Keep(s.cid, AsCancelInFlight(tracked[s.cid], open, sent))
              /\ UNCHANGED retired
    BY <1>6
  <2>2. WellFormed(AsCancelInFlight(tracked[s.cid], open, sent))
    BY <1>1, TrackedWellFormed
  <2> QED
    BY <1>1, <2>1, <2>2, Kept
<1>7. CASE UpdateEnded(s)
  BY <1>3, <1>4, <1>7 DEF UpdateEnded
<1>8. CASE UpdateOpenInFlight(s)
  BY <1>1, <1>3, <1>4, <1>5, <1>6, <1>8 DEF UpdateOpenInFlight
<1>9. CASE Is(s.cid, "Open") /\ UpdateOpen(s)
  <2>1. tracked[s.cid].open \in Open
    BY <1>2, <1>9 DEF WellFormed, Order, Is
  <2> QED
    BY <1>1, <1>3, <1>4, <1>5, <1>6, <1>9, <2>1 DEF UpdateOpen
<1>10. CASE Is(s.cid, "CancelInFlight") /\ UpdateCancelInFlight(s)
  <2>1. tracked[s.cid].sent \in Time
    BY <1>2, <1>10 DEF WellFormed, Order, Is
  <2> QED
    BY <1>1, <1>3, <1>6, <1>10, <2>1 DEF UpdateCancelInFlight
<1> QED
  BY <1>7, <1>8, <1>9, <1>10

LEMMA SnapshotStep ==
    ASSUME OrdersInv, NEW s \in Snapshot, UpdateFromOrderSnapshot(s)
    PROVE  OrdersInv'
<1>1. CASE UNCHANGED vars
  BY <1>1, Unchanged
<1>2. CASE ~IsTracked(s.cid) /\ UpdateUntracked(s)
  BY <1>2, UpdateUntrackedStep
<1>3. CASE IsTracked(s.cid) /\ s.state \notin Active /\ UpdateEnded(s)
  BY <1>3, SnapshotWellFormed, Retired, Unchanged DEF UpdateEnded
<1>4. CASE /\ s.state \in Active
           /\ \/ Is(s.cid, "OpenInFlight") /\ UpdateOpenInFlight(s)
              \/ Is(s.cid, "Open") /\ UpdateOpen(s)
              \/ Is(s.cid, "CancelInFlight") /\ UpdateCancelInFlight(s)
  BY <1>4, UpdateTrackedStep DEF Is
<1> QED
  BY <1>1, <1>2, <1>3, <1>4 DEF UpdateFromOrderSnapshot

LEMMA CancelResponseStep ==
    ASSUME OrdersInv, NEW c \in Cid, NEW ok \in BOOLEAN, UpdateFromCancelResponse(c, ok)
    PROVE  OrdersInv'
<1>1. CASE UNCHANGED vars
  BY <1>1, Unchanged
<1>2. CASE Retire(c)
  BY <1>2, Retired
<1>3. CASE /\ IsTracked(c) /\ tracked[c].open # NoOpen
           /\ Keep(c, AsOpen(tracked[c], tracked[c].open)) /\ UNCHANGED retired
  <2>1. tracked[c].open \in Open
    BY <1>3, TrackedWellFormed DEF WellFormed, Order
  <2>2. WellFormed(AsOpen(tracked[c], tracked[c].open))
    BY <1>3, <2>1, TrackedWellFormed
  <2> QED
    BY <1>3, <2>2, Kept
<1>4. CASE Drop(c)
  BY <1>4, Dropped
<1> QED
  BY <1>1, <1>2, <1>3, <1>4 DEF UpdateFromCancelResponse, Is

LEMMA FillStep ==
    ASSUME OrdersInv, NEW c \in Cid, NEW id \in OrderId, NEW filled \in Amount,
           UpdateFromFill(c, id, filled)
    PROVE  OrdersInv'
<1>1. CASE UNCHANGED vars
  BY <1>1, Unchanged
<1>2. CASE Retire(c)
  BY <1>2, Retired
<1>3. CASE /\ Is(c, "Open")
           /\ Keep(c, [tracked[c] EXCEPT !.open = [@ EXCEPT !.filled = filled]])
           /\ UNCHANGED retired
  <2>1. WellFormed(tracked[c]) /\ IsTracked(c)
    BY <1>3, TrackedWellFormed DEF Is
  <2>2. tracked[c] \in Order /\ tracked[c].open \in Open
    BY <1>3, <2>1 DEF WellFormed, Order, Is
  <2>3. [tracked[c].open EXCEPT !.filled = filled] \in Open
    BY <2>2 DEF Open
  <2>4. WellFormed([tracked[c] EXCEPT !.open = [@ EXCEPT !.filled = filled]])
    BY <2>1, <2>2, <2>3, UntrackedAssumption, <1>3 DEF WellFormed, Order, Is
  <2> QED
    BY <1>3, <2>1, <2>4, Kept
<1> QED
  BY <1>1, <1>2, <1>3 DEF UpdateFromFill

LEMMA RemoveOpenStep ==
    ASSUME OrdersInv, NEW c \in Cid, NEW id \in VenueOrderId, RemoveOpen(c, id)
    PROVE  OrdersInv'
BY Retired, Unchanged DEF RemoveOpen

LEMMA InFlightOpenStep ==
    ASSUME OrdersInv, NEW c \in Cid, NEW quantity \in Quantity, NEW sent \in Time,
           RecordInFlightOpen(c, quantity, sent)
    PROVE  OrdersInv'
<1> DEFINE order == [quantity |-> quantity, status |-> "OpenInFlight",
                     open |-> NoOpen, sent |-> sent]
<1>1. WellFormed(order)
  BY NullAssumption DEF WellFormed, Order
<1> HIDE DEF order
<1>2. CASE Keep(c, order) /\ retired' = Forget(retired, c)
  BY <1>1, <1>2, KeptForgotten
<1> QED
  BY <1>2, Unchanged DEF RecordInFlightOpen, order

LEMMA InFlightCancelStep ==
    ASSUME OrdersInv, NEW c \in Cid, NEW sent \in Time, RecordInFlightCancel(c, sent)
    PROVE  OrdersInv'
<1>1. CASE UNCHANGED vars
  BY <1>1, Unchanged
<1>2. CASE /\ IsTracked(c)
           /\ Keep(c, AsCancelInFlight(tracked[c], tracked[c].open, sent))
           /\ UNCHANGED retired
  <2>1. tracked[c].open \in Open \cup {NoOpen}
    BY <1>2, TrackedWellFormed DEF WellFormed, Order
  <2>2. WellFormed(AsCancelInFlight(tracked[c], tracked[c].open, sent))
    BY <1>2, <2>1, TrackedWellFormed
  <2> QED
    BY <1>2, <2>2, Kept
<1> QED
  BY <1>1, <1>2 DEF RecordInFlightCancel, Is

LEMMA Restored == ASSUME OrdersInv, Restore PROVE OrdersInv'
BY MaxRetiredAssumption
   DEF Restore, OrdersInv, TypeOK, WellFormed, RetiredWindow, TrackedNotRetired, IsTracked,
       Remembers

-----------------------------------------------------------------------------

LEMMA OrdersInvInit == Init => OrdersInv
BY MaxRetiredAssumption
   DEF Init, OrdersInv, TypeOK, RetiredWindow, TrackedNotRetired, IsTracked, Remembers

LEMMA OrdersInvStep == OrdersInv /\ [Next]_vars => OrdersInv'
<1> SUFFICES ASSUME OrdersInv, [Next]_vars PROVE OrdersInv'
  OBVIOUS
<1>1. CASE UNCHANGED vars
  BY <1>1, Unchanged
<1>2. ASSUME NEW s \in Snapshot, UpdateFromOrderSnapshot(s) PROVE OrdersInv'
  BY <1>2, SnapshotStep
<1>3. ASSUME NEW c \in Cid, NEW ok \in BOOLEAN, UpdateFromCancelResponse(c, ok) PROVE OrdersInv'
  BY <1>3, CancelResponseStep
<1>4. ASSUME NEW c \in Cid, NEW id \in OrderId, NEW filled \in Amount,
             UpdateFromFill(c, id, filled)
      PROVE  OrdersInv'
  BY <1>4, FillStep
<1>5. ASSUME NEW c \in Cid, NEW id \in VenueOrderId, RemoveOpen(c, id) PROVE OrdersInv'
  BY <1>5, RemoveOpenStep
<1>6. ASSUME NEW c \in Cid, NEW quantity \in Quantity, NEW sent \in Time,
             RecordInFlightOpen(c, quantity, sent)
      PROVE  OrdersInv'
  BY <1>6, InFlightOpenStep
<1>7. ASSUME NEW c \in Cid, NEW sent \in Time, RecordInFlightCancel(c, sent) PROVE OrdersInv'
  BY <1>7, InFlightCancelStep
<1>8. CASE Clear
  BY <1>8, Cleared
<1>9. CASE Restore
  BY <1>9, Restored
<1> QED
  BY <1>1, <1>2, <1>3, <1>4, <1>5, <1>6, <1>7, <1>8, <1>9 DEF Next

LEMMA OrdersInvariant == Spec => []OrdersInv
BY OrdersInvInit, OrdersInvStep, PTL DEF Spec

\* Type correctness: in every state the manager can reach, a tracked order has
\* a venue state unless its open is unanswered, and a send time while a request is.
THEOREM TypeCorrect == Spec => []TypeOK
<1>1. OrdersInv => TypeOK
  BY DEF OrdersInv
<1> QED
  BY <1>1, OrdersInvariant, PTL

\* MAX_RECENTLY_RETIRED_ORDERS places remember that many different ids.
THEOREM WindowBounded == Spec => []RetiredWindow
<1>1. OrdersInv => RetiredWindow
  BY DEF OrdersInv
<1> QED
  BY <1>1, OrdersInvariant, PTL

\* No operation leaves an order both live and remembered as ended.
THEOREM NeverLiveAndRetired == Spec => []TrackedNotRetired
<1>1. OrdersInv => TrackedNotRetired
  BY DEF OrdersInv
<1> QED
  BY <1>1, OrdersInvariant, PTL

-----------------------------------------------------------------------------
(* What no step does, for any constants: bring back an order that ended,   *)
(* lose what the venue said of a live one, or take another venue order's   *)
(* state for it.                                                           *)


\* What a step may make of an entry: nothing, or an order whose venue state is
\* no older than the one held and not another venue order's.
Succeeds(held, entry) ==
    held # Untracked /\ entry # Untracked /\ held.open # NoOpen
    => /\ entry.open # NoOpen
       /\ held.open.filled <= entry.open.filled
       /\ ~Contradicts(held.open.id, entry.open.id)

\* The entries an operation may add: those of ids not remembered, and of the
\* engine's own requests.
MayAppear(c, entry) ==
    ~IsTracked(c) /\ entry # Untracked
    => ~Remembers(retired, c) \/ entry.status = "OpenInFlight"

StepsWell == \A c \in Cid : Succeeds(tracked[c], tracked'[c]) /\ MayAppear(c, tracked'[c])

-----------------------------------------------------------------------------
(* The shapes of a step.                                                   *)

\* An entry succeeds itself.
LEMMA SucceedsItself ==
    ASSUME OrdersInv, NEW c \in Cid
    PROVE  Succeeds(tracked[c], tracked[c])
<1> SUFFICES ASSUME tracked[c] # Untracked, tracked[c].open # NoOpen
             PROVE  /\ tracked[c].open.filled <= tracked[c].open.filled
                    /\ ~Contradicts(tracked[c].open.id, tracked[c].open.id)
  BY DEF Succeeds
<1>1. tracked[c].open.filled \in Nat
  BY AmountAssumption DEF OrdersInv, TypeOK, WellFormed, Order, Open, IsTracked
<1>2. ~Contradicts(tracked[c].open.id, tracked[c].open.id)
  BY DEF Contradicts
<1>3. \A n \in Nat : n <= n
  OBVIOUS
<1> QED
  BY <1>1, <1>2, <1>3

LEMMA StepsWellOne ==
    ASSUME OrdersInv, NEW c \in Cid, NEW entry, Keep(c, entry),
           Succeeds(tracked[c], entry), MayAppear(c, entry)
    PROVE  StepsWell
<1>1. \A d \in Cid : tracked'[d] = IF d = c THEN entry ELSE tracked[d]
  BY DEF Keep, OrdersInv, TypeOK
<1>2. ASSUME NEW d \in Cid, d # c
      PROVE  Succeeds(tracked[d], tracked'[d]) /\ MayAppear(d, tracked'[d])
  BY <1>1, <1>2, SucceedsItself DEF MayAppear, IsTracked
<1> QED
  BY <1>1, <1>2 DEF StepsWell

LEMMA StepsWellUnchanged == ASSUME OrdersInv, UNCHANGED tracked PROVE StepsWell
BY SucceedsItself DEF StepsWell, MayAppear, IsTracked

LEMMA StepsWellRemoved ==
    ASSUME OrdersInv, NEW c \in Cid, Retire(c) \/ Drop(c)
    PROVE  StepsWell
<1>1. Keep(c, Untracked)
  BY DEF Retire, Drop, Keep
<1> QED
  BY <1>1, StepsWellOne DEF Succeeds, MayAppear

\* A tracked order is replaced by one in the state accepted, or with the state it had.
LEMMA StepsWellAccepted ==
    ASSUME OrdersInv, NEW c \in Cid, IsTracked(c), NEW entry, Keep(c, entry),
           \/ tracked[c].open = NoOpen
           \/ entry.open = tracked[c].open
           \/ entry.open \in Open /\ Accepts(tracked[c].open, entry.open)
    PROVE  StepsWell
<1>1. Succeeds(tracked[c], entry)
  BY SucceedsItself, UntrackedAssumption DEF Succeeds, Accepts, IsSupersededBy, IsTracked
<1> QED
  BY <1>1, StepsWellOne DEF MayAppear

-----------------------------------------------------------------------------
(* The operations.                                                         *)

LEMMA SnapshotStepsWell ==
    ASSUME OrdersInv, NEW s \in Snapshot, UpdateFromOrderSnapshot(s)
    PROVE  StepsWell
<1>1. /\ s.cid \in Cid
      /\ s.state = "Open" => s.open \in Open
      /\ s.state = "CancelInFlight" => s.open \in Open \cup {NoOpen}
  BY SnapshotWellFormed
<1> DEFINE held == tracked[s.cid]
<1>2. held # Untracked => held \in Order /\ WellFormed(held)
  BY <1>1 DEF OrdersInv, TypeOK, IsTracked
<1>3. CASE UNCHANGED tracked
  BY <1>3, StepsWellUnchanged
<1>4. CASE Retire(s.cid)
  BY <1>1, <1>4, StepsWellRemoved
<1>5. CASE ~IsTracked(s.cid) /\ UpdateUntracked(s)
  <2>1. CASE Keep(s.cid, AsOrder(s)) /\ (~Remembers(retired, s.cid) \/ s.state = "OpenInFlight")
    <3>1. Succeeds(held, AsOrder(s)) /\ MayAppear(s.cid, AsOrder(s))
      BY <1>5, <2>1 DEF Succeeds, MayAppear, AsOrder, IsTracked
    <3> QED
      BY <1>1, <2>1, <3>1, StepsWellOne
  <2> QED
    BY <1>3, <1>5, <2>1 DEF UpdateUntracked, vars
<1>6. CASE UpdateEnded(s)
  BY <1>3, <1>4, <1>6 DEF UpdateEnded, vars
<1>7. CASE /\ IsTracked(s.cid)
           /\ \E open, sent : Keep(s.cid, AsCancelInFlight(held, open, sent))
                              /\ \/ held.open = NoOpen
                                 \/ open = held.open
                                 \/ open \in Open /\ Accepts(held.open, open)
  <2>1. PICK open, sent : Keep(s.cid, AsCancelInFlight(held, open, sent))
                              /\ \/ held.open = NoOpen
                                 \/ open = held.open
                                 \/ open \in Open /\ Accepts(held.open, open)
    BY <1>7
  <2>2. AsCancelInFlight(held, open, sent).open = open
    BY <1>2, <1>7 DEF AsCancelInFlight, Order, IsTracked
  <2> QED
    BY <1>1, <1>7, <2>1, <2>2, StepsWellAccepted
<1>8. CASE /\ IsTracked(s.cid)
           /\ Keep(s.cid, AsOpen(held, s.open))
           /\ s.state = "Open"
           /\ held.open = NoOpen \/ Accepts(held.open, s.open)
  <2>1. AsOpen(held, s.open).open = s.open
    BY <1>2, <1>8 DEF AsOpen, Order, IsTracked
  <2> QED
    BY <1>1, <1>8, <2>1, StepsWellAccepted
<1>9. CASE Is(s.cid, "OpenInFlight") /\ UpdateOpenInFlight(s)
  BY <1>2, <1>3, <1>4, <1>7, <1>8, <1>9 DEF UpdateOpenInFlight, Is, WellFormed, IsTracked, vars
<1>10. CASE Is(s.cid, "Open") /\ UpdateOpen(s)
  BY <1>1, <1>3, <1>4, <1>7, <1>8, <1>10 DEF UpdateOpen, Is, vars
<1>11. CASE Is(s.cid, "CancelInFlight") /\ UpdateCancelInFlight(s)
  BY <1>1, <1>3, <1>7, <1>11 DEF UpdateCancelInFlight, Is, vars
<1> QED
  BY <1>3, <1>5, <1>6, <1>9, <1>10, <1>11 DEF UpdateFromOrderSnapshot, vars

LEMMA CancelResponseStepsWell ==
    ASSUME OrdersInv, NEW c \in Cid, NEW ok \in BOOLEAN, UpdateFromCancelResponse(c, ok)
    PROVE  StepsWell
<1>1. CASE /\ IsTracked(c) /\ Keep(c, AsOpen(tracked[c], tracked[c].open))
  <2>1. AsOpen(tracked[c], tracked[c].open).open = tracked[c].open
    BY <1>1, TrackedWellFormed DEF AsOpen, WellFormed, Order
  <2> QED
    BY <1>1, <2>1, StepsWellAccepted
<1> QED
  BY <1>1, StepsWellUnchanged, StepsWellRemoved DEF UpdateFromCancelResponse, Is, vars

LEMMA FillStepsWell ==
    ASSUME OrdersInv, NEW c \in Cid, NEW id \in OrderId, NEW filled \in Amount,
           UpdateFromFill(c, id, filled)
    PROVE  StepsWell
<1> DEFINE entry == [tracked[c] EXCEPT !.open = [@ EXCEPT !.filled = filled]]
<1>1. CASE /\ Is(c, "Open") /\ tracked[c].open.filled < filled
           /\ Keep(c, entry)
  <2>1. WellFormed(tracked[c]) /\ IsTracked(c)
    BY <1>1, TrackedWellFormed DEF Is
  <2>2. tracked[c] \in Order /\ tracked[c].open \in Open
    BY <1>1, <2>1 DEF WellFormed, Order, Is
  <2>3. /\ entry.open \in Open
        /\ entry.open.filled = filled
        /\ entry.open.id = tracked[c].open.id
    BY <2>2 DEF Open, Order
  <2>4. tracked[c].open.filled <= filled
    BY <1>1, <2>2, AmountAssumption DEF Open
  <2>5. Succeeds(tracked[c], entry)
    BY <2>1, <2>2, <2>3, <2>4, UntrackedAssumption DEF Succeeds, Contradicts
  <2> HIDE DEF entry
  <2> QED
    BY <1>1, <2>1, <2>5, StepsWellOne DEF MayAppear
<1> QED
  BY <1>1, StepsWellUnchanged, StepsWellRemoved DEF UpdateFromFill, vars

LEMMA InFlightStepsWell ==
    ASSUME OrdersInv, NEW c \in Cid, NEW sent \in Time,
           \/ \E quantity \in Quantity : RecordInFlightOpen(c, quantity, sent)
           \/ RecordInFlightCancel(c, sent)
    PROVE  StepsWell
<1>1. CASE \E quantity \in Quantity : RecordInFlightOpen(c, quantity, sent)
  <2>1. PICK quantity \in Quantity : RecordInFlightOpen(c, quantity, sent)
    BY <1>1
  <2> DEFINE order == [quantity |-> quantity, status |-> "OpenInFlight",
                       open |-> NoOpen, sent |-> sent]
  <2>2. order.status = "OpenInFlight"
    OBVIOUS
  <2> HIDE DEF order
  <2>3. CASE ~IsTracked(c) /\ Keep(c, order)
    BY <2>2, <2>3, StepsWellOne DEF Succeeds, MayAppear, IsTracked
  <2> QED
    BY <2>1, <2>3, StepsWellUnchanged DEF RecordInFlightOpen, order, vars
<1>2. CASE IsTracked(c) /\ Keep(c, AsCancelInFlight(tracked[c], tracked[c].open, sent))
  <2>1. AsCancelInFlight(tracked[c], tracked[c].open, sent).open = tracked[c].open
    BY <1>2, TrackedWellFormed DEF AsCancelInFlight, WellFormed, Order
  <2> QED
    BY <1>2, <2>1, StepsWellAccepted
<1> QED
  BY <1>1, <1>2, StepsWellUnchanged DEF RecordInFlightCancel, Is, vars

LEMMA NextStepsWell == OrdersInv /\ [Next]_vars => StepsWell
<1> SUFFICES ASSUME OrdersInv, [Next]_vars PROVE StepsWell
  OBVIOUS
<1>1. CASE UNCHANGED tracked
  BY <1>1, StepsWellUnchanged
<1>2. ASSUME NEW s \in Snapshot, UpdateFromOrderSnapshot(s) PROVE StepsWell
  BY <1>2, SnapshotStepsWell
<1>3. ASSUME NEW c \in Cid, NEW ok \in BOOLEAN, UpdateFromCancelResponse(c, ok) PROVE StepsWell
  BY <1>3, CancelResponseStepsWell
<1>4. ASSUME NEW c \in Cid, NEW id \in OrderId, NEW filled \in Amount,
             UpdateFromFill(c, id, filled)
      PROVE  StepsWell
  BY <1>4, FillStepsWell
<1>5. ASSUME NEW c \in Cid, NEW id \in VenueOrderId, RemoveOpen(c, id) PROVE StepsWell
  BY <1>5, StepsWellRemoved, StepsWellUnchanged DEF RemoveOpen, vars
<1>6. ASSUME NEW c \in Cid, NEW sent \in Time,
             \/ \E quantity \in Quantity : RecordInFlightOpen(c, quantity, sent)
             \/ RecordInFlightCancel(c, sent)
      PROVE  StepsWell
  BY <1>6, InFlightStepsWell
<1>7. CASE Clear
  BY <1>7 DEF Clear, StepsWell, Succeeds, MayAppear
<1>8. CASE Restore
  BY <1>8, <1>1 DEF Restore
<1> QED
  BY <1>1, <1>2, <1>3, <1>4, <1>5, <1>6, <1>7, <1>8 DEF Next, vars

LEMMA StepsWellAlways == Spec => [][StepsWell]_vars
<1>1. OrdersInv /\ [Next]_vars => [StepsWell]_vars
  BY NextStepsWell
<1> QED
  BY <1>1, OrdersInvariant, PTL DEF Spec

-----------------------------------------------------------------------------

\* "Retired orders stay retired": no report brings back an order whose id is remembered.
THEOREM NoResurrection == Spec => RetiredStayRetired
<1>1. OrdersInv /\ StepsWell =>
        \A c \in Cid : Remembers(retired, c) /\ IsTracked(c)'
                       => tracked'[c].status = "OpenInFlight"
  BY DEF OrdersInv, TrackedNotRetired, StepsWell, MayAppear, IsTracked
<1>2. OrdersInv /\ [StepsWell]_vars =>
        [\A c \in Cid : Remembers(retired, c) /\ IsTracked(c)'
                        => tracked'[c].status = "OpenInFlight"]_vars
  BY <1>1
<1> QED
  BY <1>2, OrdersInvariant, StepsWellAlways, PTL DEF RetiredStayRetired

\* The cumulative fill of a tracked order never falls, in whatever order its
\* reports, fills, cancels and refusals arrive.
THEOREM FillsOnlyGrow == Spec => FillNeverRegresses
<1>1. [StepsWell]_vars =>
        [\A c \in Cid :
            /\ IsTracked(c) /\ IsTracked(c)'
            /\ tracked[c].open # NoOpen
            => /\ tracked'[c].open # NoOpen
               /\ tracked[c].open.filled <= tracked'[c].open.filled]_vars
  BY DEF StepsWell, Succeeds, IsTracked
<1> QED
  BY <1>1, StepsWellAlways, PTL DEF FillNeverRegresses

\* No report that names one venue order replaces the state of another.
THEOREM NoForeignReport == Spec => ForeignOrderRefused
<1>1. [StepsWell]_vars =>
        [\A c \in Cid :
            /\ IsTracked(c) /\ IsTracked(c)'
            /\ tracked[c].open # NoOpen
            => ~Contradicts(tracked[c].open.id, tracked'[c].open.id)]_vars
  BY DEF StepsWell, Succeeds, IsTracked
<1> QED
  BY <1>1, StepsWellAlways, PTL DEF ForeignOrderRefused

-----------------------------------------------------------------------------
(* A request in flight is ended by its answer alone, and keeps its send    *)
(* time until then.                                                        *)


\* What a step may make of an order while it stays tracked.
KeepsRequest(held, entry) ==
    held # Untracked /\ entry # Untracked =>
        /\ entry.status = held.status => entry.sent = held.sent
        /\ held.status = "CancelInFlight" =>
                \/ entry.status = "CancelInFlight"
                \/ entry.status = "Open" /\ entry.open = held.open
        /\ held.status # "OpenInFlight" => entry.status # "OpenInFlight"

RequestsKept == \A c \in Cid : KeepsRequest(tracked[c], tracked'[c])

-----------------------------------------------------------------------------
(* The shapes of a step.                                                   *)

LEMMA RequestsKeptOne ==
    ASSUME OrdersInv, NEW c \in Cid, NEW entry, Keep(c, entry), KeepsRequest(tracked[c], entry)
    PROVE  RequestsKept
<1>1. \A d \in Cid : tracked'[d] = IF d = c THEN entry ELSE tracked[d]
  BY DEF Keep, OrdersInv, TypeOK
<1>2. \A d \in Cid : KeepsRequest(tracked[d], tracked[d])
  BY DEF KeepsRequest
<1> QED
  BY <1>1, <1>2 DEF RequestsKept

LEMMA RequestsKeptUnchanged == ASSUME UNCHANGED tracked PROVE RequestsKept
BY DEF RequestsKept, KeepsRequest

LEMMA RequestsKeptRemoved ==
    ASSUME OrdersInv, NEW c \in Cid, Retire(c) \/ Drop(c)
    PROVE  RequestsKept
<1>1. Keep(c, Untracked)
  BY DEF Retire, Drop, Keep
<1> QED
  BY <1>1, RequestsKeptOne DEF KeepsRequest

\* An id that is not tracked may take any order.
LEMMA RequestsKeptNew ==
    ASSUME OrdersInv, NEW c \in Cid, ~IsTracked(c), NEW entry, Keep(c, entry)
    PROVE  RequestsKept
BY RequestsKeptOne DEF KeepsRequest, IsTracked

\* An order becomes open: it was not awaiting the answer of a cancel, or keeps the
\* state the venue last reported.
LEMMA RequestsKeptOpened ==
    ASSUME OrdersInv, NEW c \in Cid, IsTracked(c), NEW open,
           Keep(c, AsOpen(tracked[c], open)),
           Is(c, "CancelInFlight") => open = tracked[c].open
    PROVE  RequestsKept
<1>1. tracked[c] \in Order /\ WellFormed(tracked[c])
  BY TrackedWellFormed DEF WellFormed
<1> DEFINE entry == AsOpen(tracked[c], open)
<1>2. entry.status = "Open" /\ entry.open = open /\ entry.sent = NoTime
  BY <1>1 DEF AsOpen, Order
<1>3. KeepsRequest(tracked[c], entry)
  BY <1>1, <1>2 DEF KeepsRequest, WellFormed, Is
<1> QED
  BY <1>3, RequestsKeptOne

\* A cancel is put in flight, or the one in flight keeps its send time.
LEMMA RequestsKeptCancelled ==
    ASSUME OrdersInv, NEW c \in Cid, IsTracked(c), NEW open, NEW sent,
           Keep(c, AsCancelInFlight(tracked[c], open, sent)),
           Is(c, "CancelInFlight") => sent = tracked[c].sent
    PROVE  RequestsKept
<1>1. tracked[c] \in Order
  BY TrackedWellFormed DEF WellFormed
<1> DEFINE entry == AsCancelInFlight(tracked[c], open, sent)
<1>2. entry.status = "CancelInFlight" /\ entry.sent = sent
  BY <1>1 DEF AsCancelInFlight, Order
<1>3. KeepsRequest(tracked[c], entry)
  BY <1>1, <1>2 DEF KeepsRequest, Is, IsTracked
<1> QED
  BY <1>3, RequestsKeptOne

-----------------------------------------------------------------------------
(* The operations.                                                         *)

LEMMA SnapshotKeepsRequests ==
    ASSUME OrdersInv, NEW s \in Snapshot, UpdateFromOrderSnapshot(s)
    PROVE  RequestsKept
<1>1. s.cid \in Cid
  BY SnapshotWellFormed
<1>2. CASE UNCHANGED tracked
  BY <1>2, RequestsKeptUnchanged
<1>3. CASE Retire(s.cid)
  BY <1>1, <1>3, RequestsKeptRemoved
<1>4. CASE ~IsTracked(s.cid) /\ UpdateUntracked(s)
  BY <1>1, <1>2, <1>4, RequestsKeptNew DEF UpdateUntracked, vars
<1>5. CASE UpdateEnded(s)
  BY <1>2, <1>3, <1>5 DEF UpdateEnded, vars
<1>6. CASE Is(s.cid, "OpenInFlight") /\ UpdateOpenInFlight(s)
  BY <1>1, <1>2, <1>3, <1>6, RequestsKeptOpened, RequestsKeptCancelled
     DEF UpdateOpenInFlight, Is, vars
<1>7. CASE Is(s.cid, "Open") /\ UpdateOpen(s)
  BY <1>1, <1>2, <1>3, <1>7, RequestsKeptOpened, RequestsKeptCancelled DEF UpdateOpen, Is, vars
<1>8. CASE Is(s.cid, "CancelInFlight") /\ UpdateCancelInFlight(s)
  BY <1>1, <1>2, <1>8, RequestsKeptCancelled DEF UpdateCancelInFlight, Is, vars
<1> QED
  BY <1>2, <1>4, <1>5, <1>6, <1>7, <1>8 DEF UpdateFromOrderSnapshot, vars

LEMMA CancelResponseKeepsRequests ==
    ASSUME OrdersInv, NEW c \in Cid, NEW ok \in BOOLEAN, UpdateFromCancelResponse(c, ok)
    PROVE  RequestsKept
BY RequestsKeptUnchanged, RequestsKeptRemoved, RequestsKeptOpened
   DEF UpdateFromCancelResponse, Is, vars

LEMMA FillKeepsRequests ==
    ASSUME OrdersInv, NEW c \in Cid, NEW id \in OrderId, NEW filled \in Amount,
           UpdateFromFill(c, id, filled)
    PROVE  RequestsKept
<1> DEFINE entry == [tracked[c] EXCEPT !.open = [@ EXCEPT !.filled = filled]]
<1>1. CASE Is(c, "Open") /\ Keep(c, entry)
  <2>1. tracked[c] \in Order
    BY <1>1, TrackedWellFormed DEF Is, WellFormed
  <2>2. entry.status = tracked[c].status /\ entry.sent = tracked[c].sent
    BY <2>1 DEF Order
  <2>3. KeepsRequest(tracked[c], entry)
    BY <1>1, <2>2 DEF KeepsRequest, Is
  <2> HIDE DEF entry
  <2> QED
    BY <1>1, <2>3, RequestsKeptOne
<1> QED
  BY <1>1, RequestsKeptUnchanged, RequestsKeptRemoved DEF UpdateFromFill, vars

LEMMA NextKeepsRequests == OrdersInv /\ [Next]_vars => RequestsKept
<1> SUFFICES ASSUME OrdersInv, [Next]_vars PROVE RequestsKept
  OBVIOUS
<1>1. CASE UNCHANGED tracked
  BY <1>1, RequestsKeptUnchanged
<1>2. ASSUME NEW s \in Snapshot, UpdateFromOrderSnapshot(s) PROVE RequestsKept
  BY <1>2, SnapshotKeepsRequests
<1>3. ASSUME NEW c \in Cid, NEW ok \in BOOLEAN, UpdateFromCancelResponse(c, ok)
      PROVE  RequestsKept
  BY <1>3, CancelResponseKeepsRequests
<1>4. ASSUME NEW c \in Cid, NEW id \in OrderId, NEW filled \in Amount,
             UpdateFromFill(c, id, filled)
      PROVE  RequestsKept
  BY <1>4, FillKeepsRequests
<1>5. ASSUME NEW c \in Cid, NEW id \in VenueOrderId, RemoveOpen(c, id) PROVE RequestsKept
  BY <1>5, RequestsKeptRemoved, RequestsKeptUnchanged DEF RemoveOpen, vars
<1>6. ASSUME NEW c \in Cid, NEW quantity \in Quantity, NEW sent \in Time,
             RecordInFlightOpen(c, quantity, sent)
      PROVE  RequestsKept
  BY <1>6, RequestsKeptNew, RequestsKeptUnchanged DEF RecordInFlightOpen, vars
<1>7. ASSUME NEW c \in Cid, NEW sent \in Time, RecordInFlightCancel(c, sent)
      PROVE  RequestsKept
  BY <1>7, RequestsKeptCancelled, RequestsKeptUnchanged DEF RecordInFlightCancel, Is, vars
<1>8. CASE Clear
  BY <1>8 DEF Clear, RequestsKept, KeepsRequest
<1>9. CASE Restore
  BY <1>1, <1>9 DEF Restore
<1> QED
  BY <1>1, <1>2, <1>3, <1>4, <1>5, <1>6, <1>7, <1>8, <1>9 DEF Next, vars

-----------------------------------------------------------------------------

\* A request in flight keeps its send time until it is answered, and only an answer
\* turns a cancel in flight back into an open order, as the venue last reported it.
THEOREM OnlyAnAnswerEndsARequest == Spec => InFlightUntilAnswered
<1>1. OrdersInv /\ [Next]_vars =>
        [\A c \in Cid :
            IsTracked(c) /\ IsTracked(c)' =>
            /\ (tracked'[c].status = tracked[c].status => tracked'[c].sent = tracked[c].sent)
            /\ (tracked[c].status = "CancelInFlight" =>
                    \/ tracked'[c].status = "CancelInFlight"
                    \/ tracked'[c].status = "Open" /\ tracked'[c].open = tracked[c].open)
            /\ (tracked[c].status # "OpenInFlight" => tracked'[c].status # "OpenInFlight")]_vars
  BY NextKeepsRequests DEF RequestsKept, KeepsRequest, IsTracked
<1> QED
  BY <1>1, OrdersInvariant, PTL DEF Spec, InFlightUntilAnswered
=============================================================================
