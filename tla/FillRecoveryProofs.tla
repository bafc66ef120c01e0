-------------------------- MODULE FillRecoveryProofs --------------------------
(***************************************************************************)
(* No fill is lost in silence nor delivered twice, for any margins that    *)
(* hold what they are margins for, any sizes, and any number of breaks,    *)
(* failed reads and retried attempts.                                      *)
(*                                                                         *)
(* Whatever is not yet delivered nor reported was made no more than the    *)
(* overlap before the watermark's instant, however the host's clock steps  *)
(* (Reachable), so the next read, which ends no earlier than it begins,    *)
(* covers it.  An attempt to open the stream covers a fill by what it has  *)
(* read, by a gap, or by the span it has still to read; what it does not   *)
(* cover came with the new stream (AttemptCovers).                         *)
(***************************************************************************)
EXTENDS FillRecovery, FiniteSetTheorems, FunctionTheorems, SequenceTheorems, TLAPS

\* What the margins are for: an event is delivered, and an attempt to open the
\* stream made, within the overlap, and the host's clock keeps to the skew.
Margins ==
    /\ MaxDelay <= Overlap /\ MaxOpening <= Overlap
    /\ \A s \in Settings : s.offsets \subseteq -MaxSkew..MaxSkew

Event ==
    [kind : {"Fill"}, fill : Nat, time : Nat]
        \cup [kind : {"Other", "End"}, time : Nat]
        \cup [kind : {"Gaps"}, gaps : SUBSET Span, time : Nat]

-----------------------------------------------------------------------------
(* The inductive invariant.                                                *)

ClocksOK ==
    /\ setting \in Settings /\ setting \in Setting
    /\ now \in 0..MaxTime /\ offset \in setting.offsets /\ offset \in -MaxSkew..MaxSkew
    /\ retention \in Nat \cup {Unlimited}
    /\ made \in Seq(0..now)

\* An event comes no earlier than what it tells of, a fill with its time.
IsEvent(event) ==
    /\ event \in Event
    /\ event.time <= now
    /\ event.kind = "Fill" => event.fill \in Fills /\ event.time = made[event.fill]

StreamOK ==
    /\ link \in {"none", "up", "dead"}
    /\ phase \in {"down", "reading", "snapshot", "streaming"}
    /\ phase = "down" <=> link = "none"
    /\ wire \in Seq(Event) /\ \A i \in 1..Len(wire) : IsEvent(wire[i])
    /\ \A i, j \in 1..Len(wire) : i <= j => wire[i].time <= wire[j].time
    /\ pending \in Seq(Event)
    /\ \A i \in 1..Len(pending) : IsEvent(pending[i]) /\ pending[i].kind # "End"
    /\ pending # <<>> => phase = "streaming"

AttemptOK ==
    /\ attempt \in [began : 0..now, beganHost : Int, start : Int, end : Int, pages : Nat,
                    cursor : Int, fills : SUBSET Fills, gaps : SUBSET Span]
    /\ attempt.beganHost <= attempt.began + MaxSkew
    /\ attempt.pages # 0 => retention = Unlimited

IsMark(mark) ==
    /\ mark.time \in Int /\ mark.instant \in 0..now
    /\ mark.time <= mark.instant + MaxSkew
    /\ \/ mark.sample = NoSample
       \/ mark.sample \in Sample /\ mark.sample.stamp <= mark.sample.received

\* Only the first attempt to open the stream has no watermark.
Unmarked == watermark = NoWatermark /\ phase = "snapshot"

WatermarkOK == Unmarked \/ IsMark(watermark)

DeliveryOK ==
    /\ seen \in Seq(Fills) /\ delivered \in Seq(Fills) /\ gaps \subseteq Span
    /\ Len(seen) <= MaxRecent /\ Len(seen) <= Len(delivered)
    /\ Len(seen) < MaxRecent => Len(seen) = Len(delivered)
    /\ \A i \in 1..Len(seen) : seen[i] = delivered[Len(delivered) - Len(seen) + i]

Safe(f) == IsDelivered(f) \/ IsReported(f)

\* What was read tells of the fill, and waits to be delivered.
Awaited(f) ==
    \E i \in 1..Len(pending) :
        \/ pending[i].kind = "Fill" /\ pending[i].fill = f
        \/ /\ pending[i].kind = "Gaps"
           /\ \E gap \in pending[i].gaps : made[f] \in gap.start..gap.end

OnWire(f) == \E i \in 1..Len(wire) : wire[i].kind = "Fill" /\ wire[i].fill = f

\* It may be lost with the break, if so later than anything that was not.
Broken(f) == link = "dead" /\ \A i \in 1..Len(wire) : wire[i].kind # "End" => wire[i].time <= made[f]

Covered(f) ==
    \/ f \in attempt.fills
    \/ \E gap \in attempt.gaps : made[f] \in gap.start..gap.end
    \/ phase = "reading" /\ made[f] \in attempt.cursor..attempt.end

Opening == phase \in {"reading", "snapshot"}

\* Nothing on the wire is overdue.
Timely ==
    /\ Opening => /\ now <= attempt.began + MaxOpening
                  /\ \A i \in 1..Len(wire) : wire[i].time >= attempt.began
    /\ phase = "streaming" => \A i \in 1..Len(wire) : wire[i].time >= now - Overlap

StreamCovers ==
    phase = "streaming" => \A f \in Fills : Safe(f) \/ Awaited(f) \/ OnWire(f) \/ Broken(f)

AttemptCovers ==
    Opening => \A f \in Fills :
        Safe(f) \/ Covered(f) \/ OnWire(f) \/ (Broken(f) /\ made[f] >= attempt.began)

\* What is not safe is within reach of the next read; what is being read is not
\* awaited from it.
Reachable ==
    /\ \/ Unmarked
       \/ \A f \in Fills : Safe(f) \/ Awaited(f) \/ made[f] >= watermark.instant - Overlap
    /\ pending # <<>> =>
          \A f \in Fills : Safe(f) \/ Awaited(f) \/ made[f] >= now - Overlap

RecoveryInv ==
    /\ ClocksOK /\ StreamOK /\ AttemptOK /\ WatermarkOK /\ DeliveryOK
    /\ Timely /\ StreamCovers /\ AttemptCovers /\ Reachable /\ NoFillTwice
-----------------------------------------------------------------------------
(* What the invariant says of single events and clocks.                    *)

\* An event is as old as a time, and its kind tells what else it has.
LEMMA EventShape ==
    ASSUME NEW event \in Event
    PROVE  /\ event.time \in Nat
           /\ event.kind \in {"Fill", "Other", "End", "Gaps"}
           /\ event.kind = "Fill" => event.fill \in Nat
           /\ event.kind = "Gaps" => event.gaps \in SUBSET Span
BY DEF Event

LEMMA SpanShape ==
    ASSUME NEW start \in Int, NEW end \in Int
    PROVE  /\ Gap(start, end) \in Span
           /\ Gap(start, end).start = start /\ Gap(start, end).end = end
BY DEF Gap, Span

\* The items the stream and the manager make are events.
LEMMA ItemsAreEvents ==
    ASSUME ClocksOK
    PROVE  /\ now \in Nat
           /\ IsEvent(OtherItem) /\ OtherItem.kind = "Other" /\ OtherItem.time = now
           /\ IsEvent(EndItem) /\ EndItem.kind = "End" /\ EndItem.time = now
           /\ \A spans \in SUBSET Span :
                 /\ IsEvent(GapsItem(spans))
                 /\ GapsItem(spans).kind = "Gaps" /\ GapsItem(spans).gaps = spans
           /\ \A f \in Fills :
                 /\ IsEvent(FillItem(f, made[f]))
                 /\ FillItem(f, made[f]).kind = "Fill" /\ FillItem(f, made[f]).fill = f
<1>1. now \in Nat /\ made \in Seq(0..now)
    BY LimitAssumption DEF ClocksOK
<1>2. IsEvent(OtherItem) /\ OtherItem.kind = "Other" /\ OtherItem.time = now
    BY <1>1 DEF IsEvent, OtherItem, Event
<1>3. IsEvent(EndItem) /\ EndItem.kind = "End" /\ EndItem.time = now
    BY <1>1 DEF IsEvent, EndItem, Event
<1>4. ASSUME NEW spans \in SUBSET Span
      PROVE  /\ IsEvent(GapsItem(spans))
             /\ GapsItem(spans).kind = "Gaps" /\ GapsItem(spans).gaps = spans
    BY <1>1 DEF IsEvent, GapsItem, Event
<1>5. ASSUME NEW f \in Fills
      PROVE  /\ IsEvent(FillItem(f, made[f]))
             /\ FillItem(f, made[f]).kind = "Fill" /\ FillItem(f, made[f]).fill = f
    <2>1. f \in Nat /\ made[f] \in 0..now
        BY <1>1 DEF Fills
    <2> QED
        BY <2>1, <1>1 DEF IsEvent, FillItem, Event
<1> QED
    BY <1>1, <1>2, <1>3, <1>4, <1>5

\* The next read begins no later than the overlap before the watermark's
\* instant, and ends no earlier than it begins.
LEMMA ReadSpansTheOverlap ==
    ASSUME ClocksOK, IsMark(watermark)
    PROVE  /\ ReadFrom(watermark) \in Int /\ ReadTo(watermark) \in Int
           /\ ReadFrom(watermark) <= watermark.instant - Overlap
           /\ now <= ReadTo(watermark)
           /\ HostTime \in Int /\ HostTime <= now + MaxSkew
<1>1. /\ now \in Nat /\ offset \in Int /\ -MaxSkew <= offset /\ offset <= MaxSkew
      /\ Overlap \in Nat /\ MaxSkew \in Nat
    BY LimitAssumption DEF ClocksOK
<1>2. HostTime \in Int /\ HostTime <= now + MaxSkew /\ now <= HostTime + MaxSkew
    BY <1>1 DEF HostTime
<1>3. /\ watermark.time \in Int /\ watermark.instant \in Nat /\ watermark.instant <= now
      /\ watermark.time <= watermark.instant + MaxSkew
    BY <1>1 DEF IsMark
<1>4. CASE watermark.sample = NoSample
    <2>1. ReadFrom(watermark) = watermark.time - MaxSkew - Overlap
        BY <1>4 DEF ReadFrom
    <2>2. ReadTo(watermark) =
              Greater(Greater(HostTime, HostTime), watermark.time + (now - watermark.instant)) + MaxSkew
        BY <1>4 DEF ReadTo
    <2> QED
        BY <1>1, <1>2, <1>3, <2>1, <2>2 DEF Greater
<1>5. CASE watermark.sample # NoSample
    <2>1. /\ watermark.sample.stamp \in Nat /\ watermark.sample.received \in Nat
          /\ watermark.sample.stamp <= watermark.sample.received
        BY <1>5 DEF IsMark, Sample
    <2>2. ReadFrom(watermark) =
              Lesser(watermark.sample.stamp + (watermark.instant - watermark.sample.received),
                     watermark.time) - Overlap
        BY <1>5 DEF ReadFrom, EarliestAt
    <2>3. ReadTo(watermark) =
              Greater(Greater(watermark.sample.stamp + (now - watermark.sample.received), HostTime),
                      watermark.time + (now - watermark.instant)) + MaxSkew
        BY <1>5 DEF ReadTo, EarliestAt
    <2> QED
        BY <1>1, <1>2, <1>3, <2>1, <2>2, <2>3 DEF Greater, Lesser
<1> QED
    BY <1>2, <1>4, <1>5

\* What is read is delivered whole, one fill for each rank.
LEMMA OrderedIsWhole ==
    ASSUME ClocksOK, NEW fills \in SUBSET Fills
    PROVE  LET items == Ordered(fills) IN
           /\ items \in Seq(Event)
           /\ \A i \in 1..Len(items) : IsEvent(items[i]) /\ items[i].kind = "Fill"
           /\ \A f \in fills : \E i \in 1..Len(items) : items[i].fill = f
<1> DEFINE upTo(f) == {g \in fills : g <= f}
           rank == [f \in fills |-> Cardinality(upTo(f))]
           size == Cardinality(fills)
           chosen(i) == CHOOSE f \in fills : Cardinality({g \in fills : g <= f}) = i
<1>1. /\ Fills \subseteq Nat /\ IsFiniteSet(fills) /\ size \in Nat
      /\ \A f \in fills : IsFiniteSet(upTo(f)) /\ Cardinality(upTo(f)) \in 1..size
    <2>1. Len(made) \in Nat /\ Fills = 1..Len(made)
        BY DEF ClocksOK, Fills
    <2>2. IsFiniteSet(Fills)
        BY <2>1, FS_Interval
    <2>3. IsFiniteSet(fills) /\ size \in Nat
        BY <2>2, FS_Subset, FS_CardinalityType
    <2>4. ASSUME NEW f \in fills
          PROVE  IsFiniteSet(upTo(f)) /\ Cardinality(upTo(f)) \in 1..size
        <3>1. /\ IsFiniteSet(upTo(f)) /\ Cardinality(upTo(f)) <= size
              /\ Cardinality(upTo(f)) \in Nat
            BY <2>3, FS_Subset, FS_CardinalityType
        <3>2. f \in upTo(f)
            BY <2>1
        <3>3. Cardinality(upTo(f)) # 0
            BY <3>1, <3>2, FS_EmptySet
        <3> QED
            BY <2>3, <3>1, <3>3
    <2> QED
        BY <2>1, <2>3, <2>4
<1>2. ASSUME NEW f \in fills, NEW g \in fills, f < g
      PROVE  rank[f] # rank[g]
    <2>1. \A h \in fills : h \in Nat
        BY <1>1
    <2>2. f \in Nat /\ g \in Nat
        BY <2>1
    <2>3. /\ \A h \in fills : h <= f => h <= g
          /\ g <= g /\ ~(g <= f)
        BY <1>2, <2>1, <2>2
    <2>4. upTo(f) \in SUBSET upTo(g) /\ g \in upTo(g) /\ g \notin upTo(f)
        BY <2>3
    <2> QED
        BY <1>1, <2>4, FS_Subset
<1>3. rank \in Injection(fills, 1..size)
    <2>1. rank \in [fills -> 1..size]
        BY <1>1
    <2>2. \A f, g \in fills : rank[f] = rank[g] => f = g
        BY <1>1, <1>2
    <2> QED
        BY <2>1, <2>2, Fun_IsInj
<1>4. rank \in Surjection(fills, 1..size)
    <2>1. IsFiniteSet(1..size) /\ Cardinality(1..size) = size
        BY <1>1, FS_Interval
    <2> QED
        BY <1>3, <2>1, FS_Injection
<1>5. ASSUME NEW i \in 1..size
      PROVE  chosen(i) \in fills
    <2>1. \E f \in fills : rank[f] = i
        BY <1>4 DEF Surjection
    <2>2. \E f \in fills : Cardinality({g \in fills : g <= f}) = i
        BY <2>1
    <2> QED
        BY <2>2
<1>6. ASSUME NEW f \in fills
      PROVE  /\ rank[f] \in 1..size /\ chosen(rank[f]) = f
    <2>1. rank[f] \in 1..size /\ rank[f] = Cardinality({g \in fills : g <= f})
        BY <1>1
    <2>2. chosen(rank[f]) \in fills /\ Cardinality({g \in fills : g <= chosen(rank[f])}) = rank[f]
        BY <2>1
    <2>3. rank[chosen(rank[f])] = rank[f]
        BY <2>2
    <2>4. \A g, h \in fills : rank[g] = rank[h] => g = h
        BY <1>1, <1>2
    <2> QED
        BY <2>1, <2>2, <2>3, <2>4
<1> DEFINE items == [i \in 1..size |-> FillItem(chosen(i), made[chosen(i)])]
<1>7. Ordered(fills) = items
    BY DEF Ordered
<1>8. \A i \in 1..size :
          /\ IsEvent(items[i]) /\ items[i] \in Event
          /\ items[i].kind = "Fill" /\ items[i].fill = chosen(i)
    <2> TAKE i \in 1..size
    <2>1. PICK f \in Fills : f = chosen(i)
        BY <1>5
    <2>2. items[i] = FillItem(f, made[f])
        BY <2>1
    <2>3. /\ IsEvent(FillItem(f, made[f])) /\ FillItem(f, made[f]) \in Event
          /\ FillItem(f, made[f]).kind = "Fill" /\ FillItem(f, made[f]).fill = f
        BY ItemsAreEvents DEF IsEvent
    <2> HIDE DEF items, chosen
    <2> QED
        BY <2>1, <2>2, <2>3
<1> HIDE DEF items, chosen, size, rank
<1>9. items \in Seq(Event) /\ Len(items) = size
    <2>1. items = [i \in 1..size |-> items[i]]
        BY DEF items
    <2> QED
        BY <2>1, <1>1, <1>8
<1> QED
    BY <1>6, <1>7, <1>8, <1>9

LEMMA SeqWidens ==
    ASSUME NEW S, NEW T, S \subseteq T, NEW s \in Seq(S)
    PROVE  s \in Seq(T)
OBVIOUS

LEMMA EventStays ==
    ASSUME now \in Nat, now' \in Nat, now <= now', made' = made, NEW event, IsEvent(event)
    PROVE  IsEvent(event)'
BY EventShape DEF IsEvent, Fills

-----------------------------------------------------------------------------
(* The steps that deliver, read and open nothing.                          *)

LEMMA StepHostClockKeepsInv ==
    ASSUME RecoveryInv, Margins, StepHostClock
    PROVE  RecoveryInv'
<1>1. /\ now' = now /\ setting' = setting /\ retention' = retention /\ made' = made
      /\ link' = link /\ wire' = wire /\ phase' = phase /\ attempt' = attempt
      /\ pending' = pending /\ watermark' = watermark /\ seen' = seen
      /\ delivered' = delivered /\ gaps' = gaps
      /\ offset' \in setting.offsets
    BY DEF StepHostClock, venue, output
<1>2. ClocksOK'
    BY <1>1 DEF RecoveryInv, ClocksOK, Margins
<1>3. StreamOK' /\ AttemptOK' /\ WatermarkOK'
    BY <1>1 DEF RecoveryInv, StreamOK, AttemptOK, WatermarkOK, Unmarked, IsMark, IsEvent, Fills
<1>4. DeliveryOK' /\ Timely' /\ NoFillTwice'
    BY <1>1 DEF RecoveryInv, DeliveryOK, Timely, Opening, NoFillTwice, Fills
<1>5. StreamCovers' /\ AttemptCovers' /\ Reachable'
    BY <1>1 DEF RecoveryInv, StreamCovers, AttemptCovers, Reachable, Safe, IsDelivered,
                IsReported, Awaited, OnWire, Broken, Covered, Opening, Unmarked, Fills
<1> QED
    BY <1>2, <1>3, <1>4, <1>5 DEF RecoveryInv

\* Time passes no event that is due.
LEMMA TickKeepsInv ==
    ASSUME RecoveryInv, Margins, Tick
    PROVE  RecoveryInv'
<1>1. /\ now < MaxTime /\ pending = <<>> /\ now' = now + 1
      /\ phase = "streaming" => \A i \in 1..Len(wire) : now < wire[i].time + MaxDelay
      /\ phase \in {"reading", "snapshot"} => now < attempt.began + MaxOpening
    BY DEF Tick
<1>2. /\ setting' = setting /\ offset' = offset /\ retention' = retention /\ made' = made
      /\ link' = link /\ wire' = wire /\ phase' = phase /\ attempt' = attempt
      /\ pending' = pending /\ watermark' = watermark /\ seen' = seen
      /\ delivered' = delivered /\ gaps' = gaps
    BY DEF Tick, venue, output
<1>3. /\ now \in Nat /\ now' \in Nat /\ now' <= MaxTime /\ Overlap \in Nat
      /\ MaxDelay \in Nat /\ MaxOpening \in Nat /\ made \in Seq(0..now)
      /\ MaxDelay <= Overlap /\ MaxOpening <= Overlap
    BY <1>1, LimitAssumption DEF RecoveryInv, ClocksOK, Margins
<1>4. ClocksOK'
    <2>1. made \in Seq(0..now')
        BY <1>1, <1>3
    <2> QED
        BY <1>1, <1>2, <1>3, <2>1 DEF RecoveryInv, ClocksOK
<1>5. StreamOK'
    <2>1. \A event : IsEvent(event) => IsEvent(event)'
        BY <1>1, <1>2, <1>3, EventStays
    <2>2. \A i \in 1..Len(wire) : IsEvent(wire[i])'
        BY <1>2, <2>1 DEF RecoveryInv, StreamOK
    <2> QED
        BY <1>1, <1>2, <2>2 DEF RecoveryInv, StreamOK
<1>6. AttemptOK'
    <2>1. 0..now \subseteq 0..now'
        BY <1>1, <1>3
    <2> QED
        BY <1>2, <2>1 DEF RecoveryInv, AttemptOK, Fills
<1>7. WatermarkOK'
    <2>1. 0..now \subseteq 0..now'
        BY <1>1, <1>3
    <2> QED
        BY <1>2, <2>1 DEF RecoveryInv, WatermarkOK, Unmarked, IsMark
<1>8. Timely'
    <2>1. wire \in Seq(Event)
        BY DEF RecoveryInv, StreamOK
    <2>2. \A i \in 1..Len(wire) : wire[i].time \in Nat
        BY <2>1, EventShape
    <2>3. attempt.began \in Nat
        BY <1>3 DEF RecoveryInv, AttemptOK
    <2>4. Opening' => now' <= attempt.began + MaxOpening
        BY <1>1, <1>2, <1>3, <2>3 DEF Opening
    <2>5. Opening' => \A i \in 1..Len(wire) : wire[i].time >= attempt.began
        BY <1>2 DEF RecoveryInv, Timely, Opening
    <2>6. phase = "streaming" => \A i \in 1..Len(wire) : wire[i].time >= now' - Overlap
        BY <1>1, <1>3, <2>2
    <2> QED
        BY <1>2, <2>4, <2>5, <2>6 DEF Timely
<1>9. DeliveryOK' /\ NoFillTwice'
    BY <1>2 DEF RecoveryInv, DeliveryOK, NoFillTwice, Fills
<1>10. StreamCovers' /\ AttemptCovers'
    BY <1>2 DEF RecoveryInv, StreamCovers, AttemptCovers, Safe, IsDelivered, IsReported,
                Awaited, OnWire, Broken, Covered, Opening, Fills
<1>11. Reachable'
    BY <1>1, <1>2 DEF RecoveryInv, Reachable, Safe, IsDelivered, IsReported, Awaited,
                      Unmarked, Fills
<1> QED
    BY <1>4, <1>5, <1>6, <1>7, <1>8, <1>9, <1>10, <1>11 DEF RecoveryInv

\* An event later than those before it goes behind them.
LEMMA EventFollows ==
    ASSUME NEW events \in Seq(Event), NEW event \in Event,
           \A i, j \in 1..Len(events) : i <= j => events[i].time <= events[j].time,
           \A i \in 1..Len(events) : events[i].time <= event.time
    PROVE  LET grown == Append(events, event) IN
           /\ grown \in Seq(Event) /\ Len(grown) = Len(events) + 1
           /\ \A i \in 1..Len(events) : grown[i] = events[i]
           /\ grown[Len(events) + 1] = event
           /\ \A i, j \in 1..Len(grown) : i <= j => grown[i].time <= grown[j].time
<1> DEFINE grown == Append(events, event)
<1>1. /\ grown \in Seq(Event) /\ Len(grown) = Len(events) + 1 /\ Len(events) \in Nat
      /\ \A i \in 1..Len(events) : grown[i] = events[i]
      /\ grown[Len(events) + 1] = event
    OBVIOUS
<1>2. ASSUME NEW i \in 1..Len(grown), NEW j \in 1..Len(grown), i <= j
      PROVE  grown[i].time <= grown[j].time
    <2>1. CASE j \in 1..Len(events)
        <3>1. i \in 1..Len(events)
            BY <1>2, <2>1
        <3> QED
            BY <1>1, <1>2, <2>1, <3>1
    <2>2. CASE j = Len(events) + 1 /\ i \in 1..Len(events)
        BY <1>1, <2>2
    <2>3. CASE j = Len(events) + 1 /\ i = Len(events) + 1
        BY <1>1, <2>3, EventShape
    <2> QED
        BY <1>1, <1>2, <2>1, <2>2, <2>3
<1> QED
    BY <1>1, <1>2

\* What the stream sends goes behind what it has sent.
LEMMA WireGrows ==
    ASSUME RecoveryInv, now' = now, NEW event, IsEvent(event)', event.time = now,
           \A other : IsEvent(other) => IsEvent(other)',
           wire' = Append(wire, event)
    PROVE  /\ wire' \in Seq(Event) /\ Len(wire') = Len(wire) + 1
           /\ \A i \in 1..Len(wire') : IsEvent(wire[i])'
           /\ \A i, j \in 1..Len(wire') : i <= j => wire'[i].time <= wire'[j].time
           /\ \A i \in 1..Len(wire) : wire'[i] = wire[i]
           /\ wire'[Len(wire) + 1] = event
<1>1. /\ wire \in Seq(Event) /\ event \in Event
      /\ \A i, j \in 1..Len(wire) : i <= j => wire[i].time <= wire[j].time
      /\ \A i \in 1..Len(wire) : IsEvent(wire[i]) /\ wire[i].time <= event.time
    BY DEF RecoveryInv, StreamOK, IsEvent
<1>2. /\ wire' \in Seq(Event) /\ Len(wire') = Len(wire) + 1
      /\ \A i, j \in 1..Len(wire') : i <= j => wire'[i].time <= wire'[j].time
      /\ \A i \in 1..Len(wire) : wire'[i] = wire[i]
      /\ wire'[Len(wire) + 1] = event
    BY <1>1, EventFollows
<1>3. ASSUME NEW i \in 1..Len(wire')
      PROVE  IsEvent(wire[i])'
    <2>1. CASE i \in 1..Len(wire)
        BY <1>1, <1>2, <2>1
    <2>2. CASE i = Len(wire) + 1
        BY <1>2, <2>2
    <2>3. Len(wire) \in Nat
        BY <1>1
    <2> QED
        BY <1>2, <2>1, <2>2, <2>3
<1> QED
    BY <1>2, <1>3

\* An event that is no fill changes only the wire.
LEMMA VenueReportsKeepsInv ==
    ASSUME RecoveryInv, Margins, VenueReports
    PROVE  RecoveryInv'
<1>1. /\ now' = now /\ offset' = offset /\ setting' = setting /\ retention' = retention
      /\ made' = made /\ link' = link /\ phase' = phase /\ attempt' = attempt
      /\ pending' = pending /\ watermark' = watermark /\ seen' = seen
      /\ delivered' = delivered /\ gaps' = gaps
    BY DEF VenueReports, clock, output
<1>2. link = "up" /\ wire' = Append(wire, OtherItem)
    BY DEF VenueReports
<1>3. /\ now \in Nat /\ Overlap \in Nat /\ MaxOpening \in Nat
      /\ IsEvent(OtherItem) /\ OtherItem.time = now /\ OtherItem.kind = "Other"
    BY ItemsAreEvents, LimitAssumption DEF RecoveryInv
<1>4. \A event : IsEvent(event) => IsEvent(event)'
    BY <1>1, <1>3, EventStays
<1>5. /\ wire' \in Seq(Event) /\ Len(wire') = Len(wire) + 1 /\ Len(wire) \in Nat
      /\ \A i \in 1..Len(wire') : IsEvent(wire[i])'
      /\ \A i, j \in 1..Len(wire') : i <= j => wire'[i].time <= wire'[j].time
      /\ \A i \in 1..Len(wire) : wire'[i] = wire[i]
      /\ wire'[Len(wire) + 1] = OtherItem
    <2>1. Len(wire) \in Nat
        BY DEF RecoveryInv, StreamOK
    <2>2. PICK event : event = OtherItem
        OBVIOUS
    <2>3. IsEvent(event)' /\ event.time = now /\ wire' = Append(wire, event)
        BY <1>2, <1>3, <1>4, <2>2
    <2> QED
        BY <1>1, <1>4, <2>1, <2>2, <2>3, WireGrows
<1>6. ClocksOK' /\ AttemptOK' /\ WatermarkOK'
    BY <1>1 DEF RecoveryInv, ClocksOK, AttemptOK, WatermarkOK, Unmarked, IsMark, Fills
<1>7. StreamOK'
    BY <1>1, <1>4, <1>5 DEF RecoveryInv, StreamOK
<1>8. Timely'
    <2>1. \A i \in 1..Len(wire') : i \in 1..Len(wire) \/ i = Len(wire) + 1
        BY <1>5
    <2>2. now >= now - Overlap
        BY <1>3
    <2>3. Opening => attempt.began \in Nat /\ attempt.began <= now
        BY <1>3 DEF RecoveryInv, AttemptOK
    <2> QED
        BY <1>1, <1>3, <1>5, <2>1, <2>2, <2>3 DEF RecoveryInv, Timely, Opening
<1>9. DeliveryOK' /\ NoFillTwice' /\ Reachable'
    BY <1>1 DEF RecoveryInv, DeliveryOK, NoFillTwice, Reachable, Unmarked, Safe, IsDelivered,
                IsReported, Awaited, Fills
<1>10. StreamCovers' /\ AttemptCovers'
    <2>1. \A f \in Fills : OnWire(f) => OnWire(f)'
        BY <1>5 DEF OnWire
    <2>2. \A f \in Fills : ~Broken(f)
        BY <1>2 DEF Broken
    <2> QED
        BY <1>1, <2>1, <2>2 DEF RecoveryInv, StreamCovers, AttemptCovers, Safe, IsDelivered,
                                IsReported, Awaited, Covered, Opening, Fills
<1> QED
    BY <1>6, <1>7, <1>8, <1>9, <1>10 DEF RecoveryInv

\* A new fill is on the wire, or is lost later than what a dead stream still has.
LEMMA VenueFillsKeepsInv ==
    ASSUME RecoveryInv, Margins, VenueFills
    PROVE  RecoveryInv'
<1>1. /\ now' = now /\ offset' = offset /\ setting' = setting /\ retention' = retention
      /\ link' = link /\ phase' = phase /\ attempt' = attempt /\ pending' = pending
      /\ watermark' = watermark /\ seen' = seen /\ delivered' = delivered /\ gaps' = gaps
    BY DEF VenueFills, clock, output
<1>2. /\ made' = Append(made, now)
      /\ wire' = IF link = "up" THEN Append(wire, FillItem(Len(made) + 1, now)) ELSE wire
    BY DEF VenueFills
<1>3. /\ now \in Nat /\ Overlap \in Nat /\ made \in Seq(0..now) /\ now \in 0..now
    BY ItemsAreEvents, LimitAssumption DEF RecoveryInv, ClocksOK
<1>4. PICK new : new = Len(made) + 1
    OBVIOUS
<1>5. /\ made' \in Seq(0..now) /\ Len(made') = new /\ new \in Nat /\ new \in Fills'
      /\ made'[new] = now
      /\ Fills \subseteq Fills' /\ \A f \in Fills' : f \in Fills \/ f = new
      /\ \A f \in Fills : made'[f] = made[f] /\ f # new
    BY <1>2, <1>3, <1>4 DEF Fills
<1>6. \A event : IsEvent(event) => IsEvent(event)'
    BY <1>1, <1>5 DEF IsEvent
<1>7. PICK event : event = FillItem(new, now)
    OBVIOUS
<1>8. /\ IsEvent(event)' /\ event.time = now /\ event.kind = "Fill" /\ event.fill = new
    BY <1>1, <1>3, <1>5, <1>7 DEF IsEvent, FillItem, Event
<1>9. /\ wire' \in Seq(Event) /\ \A i \in 1..Len(wire') : IsEvent(wire[i])'
      /\ \A i, j \in 1..Len(wire') : i <= j => wire'[i].time <= wire'[j].time
      /\ Len(wire') \in Nat /\ Len(wire) \in Nat /\ Len(wire) <= Len(wire')
      /\ \A i \in 1..Len(wire) : wire'[i] = wire[i]
      /\ \A i \in 1..Len(wire') : i \in 1..Len(wire) \/ wire'[i] = event
      /\ link = "up" => Len(wire') \in 1..Len(wire') /\ wire'[Len(wire')] = event
      /\ link # "up" => wire' = wire
    <2>1. Len(wire) \in Nat /\ wire \in Seq(Event)
        BY DEF RecoveryInv, StreamOK
    <2>2. CASE link = "up"
        <3>1. /\ wire' \in Seq(Event) /\ Len(wire') = Len(wire) + 1
              /\ \A i \in 1..Len(wire') : IsEvent(wire[i])'
              /\ \A i, j \in 1..Len(wire') : i <= j => wire'[i].time <= wire'[j].time
              /\ \A i \in 1..Len(wire) : wire'[i] = wire[i]
              /\ wire'[Len(wire) + 1] = event
            BY <1>1, <1>2, <1>4, <1>6, <1>7, <1>8, <2>2, WireGrows
        <3>2. \A i \in 1..Len(wire') : i \in 1..Len(wire) \/ i = Len(wire) + 1
            BY <2>1, <3>1
        <3> QED
            BY <2>1, <2>2, <3>1, <3>2
    <2>3. CASE link # "up"
        BY <1>2, <1>6, <2>1, <2>3 DEF RecoveryInv, StreamOK
    <2> QED
        BY <2>2, <2>3
<1>10. ClocksOK' /\ WatermarkOK'
    BY <1>1, <1>5 DEF RecoveryInv, ClocksOK, WatermarkOK, Unmarked, IsMark
<1>11. AttemptOK'
    BY <1>1, <1>5 DEF RecoveryInv, AttemptOK
<1>12. StreamOK'
    BY <1>1, <1>6, <1>9 DEF RecoveryInv, StreamOK
<1>13. DeliveryOK'
    <2>1. seen \in Seq(Fills') /\ delivered \in Seq(Fills')
        BY <1>5, SeqWidens DEF RecoveryInv, DeliveryOK
    <2> QED
        BY <1>1, <2>1 DEF RecoveryInv, DeliveryOK
<1>14. Timely'
    <2>1. now >= now - Overlap
        BY <1>3
    <2>2. Opening => attempt.began \in Nat /\ attempt.began <= now
        BY <1>3 DEF RecoveryInv, AttemptOK
    <2> QED
        BY <1>1, <1>3, <1>8, <1>9, <2>1, <2>2 DEF RecoveryInv, Timely, Opening
<1>15. \A f \in Fills : /\ Safe(f) => Safe(f)'
                        /\ Awaited(f) => Awaited(f)'
                        /\ OnWire(f) => OnWire(f)'
                        /\ Broken(f) => Broken(f)'
                        /\ Covered(f) => Covered(f)'
    <2> TAKE f \in Fills
    <2>1. Safe(f) => Safe(f)'
        BY <1>1, <1>5 DEF Safe, IsDelivered, IsReported
    <2>2. Awaited(f) => Awaited(f)'
        BY <1>1, <1>5 DEF Awaited
    <2>3. OnWire(f) => OnWire(f)'
        BY <1>9 DEF OnWire
    <2>4. Broken(f) => Broken(f)'
        BY <1>1, <1>5, <1>9 DEF Broken
    <2>5. Covered(f) => Covered(f)'
        BY <1>1, <1>5 DEF Covered
    <2> QED
        BY <2>1, <2>2, <2>3, <2>4, <2>5
<1>16. phase # "down" => OnWire(new)' \/ Broken(new)'
    <2>1. CASE link = "up"
        BY <1>8, <1>9, <2>1 DEF OnWire
    <2>2. CASE link = "dead"
        BY <1>1, <1>5, <1>9, <2>2 DEF Broken, RecoveryInv, StreamOK, IsEvent
    <2> QED
        BY <2>1, <2>2 DEF RecoveryInv, StreamOK
<1>17. StreamCovers'
    <2>1. ASSUME phase = "streaming", NEW f \in Fills'
          PROVE  Safe(f)' \/ Awaited(f)' \/ OnWire(f)' \/ Broken(f)'
        <3>1. CASE f \in Fills
            BY <1>15, <2>1, <3>1 DEF RecoveryInv, StreamCovers
        <3>2. CASE f = new
            BY <1>16, <2>1, <3>2
        <3> QED
            BY <1>5, <3>1, <3>2
    <2> QED
        BY <1>1, <2>1 DEF StreamCovers
<1>18. AttemptCovers'
    <2>1. Opening => made'[new] >= attempt.began
        BY <1>3, <1>5 DEF RecoveryInv, AttemptOK
    <2>2. Opening' => Opening /\ phase # "down"
        BY <1>1 DEF Opening
    <2>3. ASSUME Opening', NEW f \in Fills'
          PROVE  \/ Safe(f)' \/ Covered(f)' \/ OnWire(f)'
                 \/ Broken(f)' /\ made'[f] >= attempt.began
        <3>1. CASE f \in Fills
            <4>1. made'[f] = made[f]
                BY <1>5, <3>1
            <4> QED
                BY <1>15, <2>2, <2>3, <3>1, <4>1 DEF RecoveryInv, AttemptCovers
        <3>2. CASE f = new
            BY <1>16, <2>1, <2>2, <2>3, <3>2
        <3> QED
            BY <1>5, <3>1, <3>2
    <2> QED
        BY <1>1, <2>3 DEF AttemptCovers
<1>19. Reachable'
    <2>1. now >= now - Overlap
        BY <1>3
    <2>2. Unmarked \/ now >= watermark.instant - Overlap
        BY <1>3 DEF RecoveryInv, WatermarkOK, IsMark
    <2>3. ASSUME NEW f \in Fills'
          PROVE  /\ \/ Unmarked \/ Safe(f)' \/ Awaited(f)'
                    \/ made'[f] >= watermark.instant - Overlap
                 /\ pending # <<>> => Safe(f)' \/ Awaited(f)' \/ made'[f] >= now - Overlap
        <3>1. CASE f \in Fills
            <4>1. made'[f] = made[f]
                BY <1>5, <3>1
            <4> QED
                BY <1>15, <3>1, <4>1 DEF RecoveryInv, Reachable
        <3>2. CASE f = new
            BY <1>5, <2>1, <2>2, <3>2
        <3> QED
            BY <1>5, <3>1, <3>2
    <2> QED
        BY <1>1, <2>3 DEF Reachable, Unmarked
<1>20. NoFillTwice'
    BY <1>1 DEF RecoveryInv, NoFillTwice
<1> QED
    BY <1>10, <1>11, <1>12, <1>13, <1>14, <1>17, <1>18, <1>19, <1>20 DEF RecoveryInv

\* What has not arrived when the stream breaks is later than what has.
LEMMA BreakKeepsInv ==
    ASSUME RecoveryInv, Margins, Break
    PROVE  RecoveryInv'
<1>1. /\ now' = now /\ offset' = offset /\ setting' = setting /\ retention' = retention
      /\ made' = made /\ phase' = phase /\ attempt' = attempt /\ pending' = pending
      /\ watermark' = watermark /\ seen' = seen /\ delivered' = delivered /\ gaps' = gaps
      /\ link = "up" /\ link' = "dead"
    BY DEF Break, clock, venue, output
<1>2. PICK arrived \in 0..Len(wire) : wire' = Append(SubSeq(wire, 1, arrived), EndItem)
    BY DEF Break
<1>3. PICK event, prefix : event = EndItem /\ prefix = SubSeq(wire, 1, arrived)
    OBVIOUS
<1>4. /\ now \in Nat /\ Overlap \in Nat
      /\ IsEvent(event) /\ event \in Event /\ event.time = now /\ event.kind = "End"
    BY <1>3, ItemsAreEvents, LimitAssumption DEF RecoveryInv, IsEvent
<1>5. /\ wire \in Seq(Event) /\ Len(wire) \in Nat /\ arrived \in Nat /\ arrived <= Len(wire)
      /\ prefix \in Seq(Event) /\ Len(prefix) = arrived
      /\ \A i \in 1..arrived : i \in 1..Len(wire) /\ prefix[i] = wire[i]
    <2>1. wire \in Seq(Event) /\ Len(wire) \in Nat /\ arrived \in Nat /\ arrived <= Len(wire)
        BY DEF RecoveryInv, StreamOK
    <2> QED
        BY <1>3, <2>1
<1>6. \A other : IsEvent(other) => IsEvent(other)'
    BY <1>1, <1>4, EventStays
<1>7. /\ wire' \in Seq(Event) /\ Len(wire') = arrived + 1
      /\ \A i \in 1..arrived : wire'[i] = wire[i]
      /\ wire'[arrived + 1] = event
      /\ \A i, j \in 1..Len(wire') : i <= j => wire'[i].time <= wire'[j].time
    <2>1. wire' = Append(prefix, event)
        BY <1>2, <1>3
    <2>2. \A i \in 1..Len(wire) : wire[i].time <= event.time
        BY <1>4 DEF RecoveryInv, StreamOK, IsEvent
    <2>3. \A i, j \in 1..Len(wire) : i <= j => wire[i].time <= wire[j].time
        BY DEF RecoveryInv, StreamOK
    <2>4. /\ \A i \in 1..Len(prefix) : prefix[i].time <= event.time
          /\ \A i, j \in 1..Len(prefix) : i <= j => prefix[i].time <= prefix[j].time
        BY <1>5, <2>2, <2>3
    <2> QED
        BY <1>4, <1>5, <2>1, <2>4, EventFollows
<1>8. \A i \in 1..Len(wire') : (i \in 1..arrived /\ i \in 1..Len(wire)) \/ i = arrived + 1
    BY <1>5, <1>7
<1>9. StreamOK'
    <2>1. \A i \in 1..Len(wire') : IsEvent(wire[i])'
        <3> TAKE i \in 1..Len(wire')
        <3>1. IsEvent(wire'[i])
            BY <1>4, <1>7, <1>8 DEF RecoveryInv, StreamOK
        <3> QED
            BY <1>6, <3>1
    <2> QED
        BY <1>1, <1>6, <1>7, <2>1 DEF RecoveryInv, StreamOK
<1>10. ClocksOK' /\ AttemptOK' /\ WatermarkOK'
    BY <1>1 DEF RecoveryInv, ClocksOK, AttemptOK, WatermarkOK, Unmarked, IsMark, Fills
<1>11. DeliveryOK' /\ NoFillTwice' /\ Reachable'
    BY <1>1 DEF RecoveryInv, DeliveryOK, NoFillTwice, Reachable, Unmarked, Safe, IsDelivered,
                IsReported, Awaited, Fills
<1>12. Timely'
    <2>1. now >= now - Overlap
        BY <1>4
    <2>2. Opening => attempt.began \in Nat /\ attempt.began <= now
        BY <1>4 DEF RecoveryInv, AttemptOK
    <2> QED
        BY <1>1, <1>4, <1>7, <1>8, <2>1, <2>2 DEF RecoveryInv, Timely, Opening
<1>13. ASSUME NEW f \in Fills, NEW i \in 1..Len(wire), wire[i].kind = "Fill", wire[i].fill = f
       PROVE  OnWire(f)' \/ (Broken(f)' /\ wire[i].time = made[f])
    <2>1. CASE i <= arrived
        <3>1. i \in 1..Len(wire') /\ wire'[i] = wire[i]
            BY <1>5, <1>7, <2>1
        <3> QED
            BY <1>13, <3>1 DEF OnWire
    <2>2. CASE i > arrived
        <3>1. wire[i].time = made[f]
            BY <1>13 DEF RecoveryInv, StreamOK, IsEvent
        <3>2. ASSUME NEW j \in 1..Len(wire'), wire'[j].kind # "End"
              PROVE  wire'[j].time <= made[f]
            <4>1. j \in 1..arrived /\ j \in 1..Len(wire) /\ wire'[j] = wire[j]
                BY <1>4, <1>7, <1>8, <3>2
            <4>2. j <= i
                BY <1>5, <2>2, <4>1
            <4> QED
                BY <3>1, <4>1, <4>2 DEF RecoveryInv, StreamOK
        <3> QED
            BY <1>1, <3>1, <3>2 DEF Broken
    <2> QED
        BY <1>5, <2>1, <2>2
<1>14. \A f \in Fills : ~Broken(f)
    BY <1>1 DEF Broken
<1>15. StreamCovers'
    BY <1>1, <1>13, <1>14 DEF RecoveryInv, StreamCovers, Safe, IsDelivered, IsReported, Awaited,
                              OnWire, Fills
<1>16. AttemptCovers'
    BY <1>1, <1>13, <1>14 DEF RecoveryInv, AttemptCovers, Timely, Safe, IsDelivered, IsReported,
                              OnWire, Covered, Opening, Fills
<1> QED
    BY <1>9, <1>10, <1>11, <1>12, <1>15, <1>16 DEF RecoveryInv

-----------------------------------------------------------------------------
(* An attempt to open the stream.                                          *)

\* The read that places itself by the watermark covers all that is not safe.
LEMMA SubscribeKeepsInv ==
    ASSUME RecoveryInv, Margins, Subscribe
    PROVE  RecoveryInv'
<1>1. /\ now' = now /\ offset' = offset /\ setting' = setting /\ retention' = retention
      /\ made' = made /\ pending' = pending /\ watermark' = watermark /\ seen' = seen
      /\ delivered' = delivered /\ gaps' = gaps
    BY DEF Subscribe, clock, venue, output
<1>2. phase = "down" /\ phase' = "reading" /\ link' = "up" /\ wire' = <<>>
    BY DEF Subscribe
<1>3. PICK from, end, oldest :
          from = ReadFrom(watermark) /\ end = ReadTo(watermark) /\ oldest = end - MaxSpan
    OBVIOUS
<1>4. /\ ClocksOK /\ ~Unmarked /\ IsMark(watermark) /\ pending = <<>>
      /\ now \in Nat /\ made \in Seq(0..now) /\ MaxOpening \in Nat
    <2>1. ClocksOK /\ ~Unmarked /\ IsMark(watermark) /\ pending = <<>>
        BY <1>2 DEF RecoveryInv, WatermarkOK, Unmarked, StreamOK
    <2> QED
        BY <2>1, LimitAssumption, ItemsAreEvents DEF ClocksOK
<1>5. /\ from \in Int /\ end \in Int /\ from <= watermark.instant - Overlap /\ now <= end
      /\ HostTime \in Int /\ HostTime <= now + MaxSkew
    BY <1>3, <1>4, ReadSpansTheOverlap
<1>6. oldest \in Int
    BY <1>3, <1>4, <1>5 DEF MaxSpan, ClocksOK, Setting
<1>7. attempt' =
          [began |-> now, beganHost |-> HostTime, start |-> from, end |-> end, pages |-> 0,
           cursor |-> Greater(from, oldest), fills |-> {},
           gaps |-> IF from < oldest THEN {Gap(from, oldest - 1)} ELSE {}]
    BY <1>3 DEF Subscribe, Attempt
<1>8. /\ attempt'.began = now /\ attempt'.beganHost = HostTime /\ attempt'.end = end
      /\ attempt'.pages = 0 /\ attempt'.cursor = Greater(from, oldest)
      /\ attempt'.gaps = (IF from < oldest THEN {Gap(from, oldest - 1)} ELSE {})
    BY <1>7
<1>9. AttemptOK'
    <2>1. /\ attempt' \in [began : 0..now, beganHost : Int, start : Int, end : Int, pages : Nat,
                            cursor : Int, fills : SUBSET Fills, gaps : SUBSET Span]
        <3>1. now \in 0..now /\ Greater(from, oldest) \in Int
            BY <1>4, <1>5, <1>6 DEF Greater
        <3>2. (IF from < oldest THEN {Gap(from, oldest - 1)} ELSE {}) \in SUBSET Span
            BY <1>5, <1>6, SpanShape
        <3> QED
            BY <1>5, <1>7, <3>1, <3>2
    <2> QED
        BY <1>1, <1>5, <1>8, <2>1 DEF AttemptOK, Fills
<1>10. ClocksOK' /\ WatermarkOK'
    BY <1>1, <1>2, <1>4 DEF ClocksOK, WatermarkOK, IsMark
<1>11. StreamOK'
    BY <1>1, <1>2, <1>4 DEF StreamOK
<1>12. Timely'
    BY <1>1, <1>2, <1>4, <1>8 DEF Timely, Opening
<1>13. DeliveryOK' /\ NoFillTwice'
    BY <1>1 DEF RecoveryInv, DeliveryOK, NoFillTwice, Fills
<1>14. \A f \in Fills : Safe(f) \/ made[f] >= watermark.instant - Overlap
    BY <1>4 DEF RecoveryInv, Reachable, Awaited
<1>15. Reachable'
    BY <1>1, <1>4, <1>14 DEF Reachable, Safe, IsDelivered, IsReported, Fills
<1>16. AttemptCovers'
    <2>1. ASSUME NEW f \in Fills, ~Safe(f)
          PROVE  Covered(f)'
        <3>1. made[f] \in from..end
            <4>1. made[f] \in 0..now
                BY <1>4 DEF Fills
            <4>2. made[f] >= watermark.instant - Overlap
                BY <1>14, <2>1
            <4>3. watermark.instant \in Int /\ Overlap \in Int
                BY <1>4, LimitAssumption DEF IsMark
            <4> QED
                BY <1>4, <1>5, <4>1, <4>2, <4>3
        <3>2. CASE made[f] \in Greater(from, oldest)..end
            BY <1>1, <1>2, <1>8, <3>2 DEF Covered
        <3>3. CASE made[f] < oldest
            <4>1. /\ attempt'.gaps = {Gap(from, oldest - 1)}
                  /\ made[f] \in Gap(from, oldest - 1).start..Gap(from, oldest - 1).end
                BY <1>5, <1>6, <1>8, <3>1, <3>3, SpanShape
            <4> QED
                BY <1>1, <4>1 DEF Covered
        <3> QED
            BY <1>5, <1>6, <3>1, <3>2, <3>3 DEF Greater
    <2>2. \A f : Safe(f)' <=> Safe(f)
        BY <1>1 DEF Safe, IsDelivered, IsReported
    <2>3. Fills' = Fills
        BY <1>1 DEF Fills
    <2> QED
        BY <2>1, <2>2, <2>3 DEF AttemptCovers
<1>17. StreamCovers'
    BY <1>2 DEF StreamCovers
<1> QED
    BY <1>9, <1>10, <1>11, <1>12, <1>13, <1>15, <1>16, <1>17 DEF RecoveryInv

\* What the read had left is found or reported.
LEMMA EndReadKeepsInv ==
    ASSUME RecoveryInv, phase = "reading",
           NEW found \in SUBSET Fills, NEW cut \in SUBSET Span, EndRead(found, cut),
           \A f \in Fills : made[f] \in attempt.cursor..attempt.end =>
               f \in found \/ \E gap \in cut : made[f] \in gap.start..gap.end
    PROVE  RecoveryInv'
<1>1. /\ now' = now /\ offset' = offset /\ setting' = setting /\ retention' = retention
      /\ made' = made /\ link' = link /\ wire' = wire /\ pending' = pending
      /\ watermark' = watermark /\ seen' = seen /\ delivered' = delivered /\ gaps' = gaps
      /\ phase' = "snapshot"
      /\ attempt' = [attempt EXCEPT !.fills = @ \cup found, !.gaps = @ \cup cut]
    BY DEF EndRead, clock, venue, output
<1>2. AttemptOK
    BY DEF RecoveryInv
<1>3. /\ attempt'.began = attempt.began /\ attempt'.beganHost = attempt.beganHost
      /\ attempt'.pages = attempt.pages
      /\ attempt'.fills = attempt.fills \cup found /\ attempt'.gaps = attempt.gaps \cup cut
    BY <1>1, <1>2 DEF AttemptOK
<1>4. AttemptOK'
    <2>1. attempt' \in [began : 0..now, beganHost : Int, start : Int, end : Int, pages : Nat,
                        cursor : Int, fills : SUBSET Fills, gaps : SUBSET Span]
        BY <1>1, <1>2 DEF AttemptOK
    <2> QED
        BY <1>1, <1>2, <1>3, <2>1 DEF AttemptOK, Fills
<1>5. ClocksOK' /\ WatermarkOK'
    BY <1>1 DEF RecoveryInv, ClocksOK, WatermarkOK, Unmarked, IsMark
<1>6. StreamOK'
    BY <1>1 DEF RecoveryInv, StreamOK, IsEvent, Fills
<1>7. Timely'
    BY <1>1, <1>3 DEF RecoveryInv, Timely, Opening
<1>8. DeliveryOK' /\ NoFillTwice'
    BY <1>1 DEF RecoveryInv, DeliveryOK, NoFillTwice, Fills
<1>9. Reachable'
    BY <1>1 DEF RecoveryInv, Reachable, Unmarked, Safe, IsDelivered, IsReported, Awaited, Fills
<1>10. AttemptCovers'
    <2>1. ASSUME NEW f \in Fills, Covered(f)
          PROVE  Covered(f)'
        BY <1>1, <1>3, <2>1 DEF Covered
    <2>2. Opening
        BY DEF Opening
    <2> QED
        BY <1>1, <1>3, <2>1, <2>2 DEF RecoveryInv, AttemptCovers, Safe, IsDelivered, IsReported,
                                      OnWire, Broken, Fills
<1>11. StreamCovers'
    BY <1>1 DEF StreamCovers
<1> QED
    BY <1>4, <1>5, <1>6, <1>7, <1>8, <1>9, <1>10, <1>11 DEF RecoveryInv

\* A call finds what is held of its span, and its gap covers what is not.
LEMMA HeldOrNoLonger ==
    ASSUME RecoveryInv, phase = "reading", NEW to \in Int
    PROVE  /\ Held(attempt.cursor, to) \in SUBSET Fills
           /\ NoLongerHeld \in SUBSET Span
           /\ \A f \in Fills : made[f] \in attempt.cursor..to =>
                 \/ f \in Held(attempt.cursor, to)
                 \/ \E gap \in NoLongerHeld : made[f] \in gap.start..gap.end
           /\ retention = Unlimited => NoLongerHeld = {}
<1>1. /\ attempt.cursor \in Int /\ now \in Nat /\ retention \in Nat \cup {Unlimited}
      /\ made \in Seq(0..now) /\ (attempt.pages # 0 => retention = Unlimited)
    BY ItemsAreEvents DEF RecoveryInv, AttemptOK, ClocksOK
<1>2. Held(attempt.cursor, to) \in SUBSET Fills
    BY DEF Held
<1>3. NoLongerHeld \in SUBSET Span /\ (retention = Unlimited => NoLongerHeld = {})
    <2>1. CASE retention = Unlimited
        BY <2>1 DEF NoLongerHeld
    <2>2. CASE retention # Unlimited
        <3>1. Greater(now - retention - 1, attempt.cursor) \in Int
            BY <1>1, <2>2 DEF Greater
        <3>2. Gap(attempt.cursor, Greater(now - retention - 1, attempt.cursor)) \in Span
            BY <1>1, <3>1, SpanShape
        <3> QED
            BY <2>2, <3>2 DEF NoLongerHeld
    <2> QED
        BY <2>1, <2>2
<1>4. ASSUME NEW f \in Fills, made[f] \in attempt.cursor..to, f \notin Held(attempt.cursor, to)
      PROVE  \E gap \in NoLongerHeld : made[f] \in gap.start..gap.end
    <2>1. /\ made[f] \in Nat /\ retention # Unlimited /\ retention \in Nat
          /\ made[f] < now - retention /\ attempt.cursor <= made[f]
        BY <1>1, <1>4 DEF Held, Fills
    <2>2. PICK last : last = Greater(now - retention - 1, attempt.cursor)
        OBVIOUS
    <2>3. last \in Int /\ made[f] <= last
        BY <1>1, <2>1, <2>2 DEF Greater
    <2>4. NoLongerHeld = {Gap(attempt.cursor, last)}
        BY <1>1, <2>1, <2>2 DEF NoLongerHeld
    <2>5. Gap(attempt.cursor, last).start = attempt.cursor /\ Gap(attempt.cursor, last).end = last
        BY <1>1, <2>3, SpanShape
    <2> QED
        BY <1>1, <2>1, <2>3, <2>4, <2>5
<1> QED
    BY <1>2, <1>3, <1>4

\* The gap of what a call leaves unread reaches to the end of the read.
LEMMA UnreadReaches ==
    ASSUME RecoveryInv, NEW from \in Int
    PROVE  /\ Unread(from) \in SUBSET Span
           /\ \A time \in from..attempt.end :
                 \E gap \in Unread(from) : time \in gap.start..gap.end
<1>1. attempt.end \in Int
    BY DEF RecoveryInv, AttemptOK
<1> QED
    BY <1>1, SpanShape DEF Unread

LEMMA ReadToEndKeepsInv ==
    ASSUME RecoveryInv, ReadToEnd
    PROVE  RecoveryInv'
<1>1. phase = "reading" /\ EndRead(Held(attempt.cursor, attempt.end), NoLongerHeld)
    BY DEF ReadToEnd
<1>2. attempt.end \in Int
    BY DEF RecoveryInv, AttemptOK
<1>3. PICK found, cut : found = Held(attempt.cursor, attempt.end) /\ cut = NoLongerHeld
    OBVIOUS
<1>4. /\ found \in SUBSET Fills /\ cut \in SUBSET Span /\ EndRead(found, cut)
      /\ \A f \in Fills : made[f] \in attempt.cursor..attempt.end =>
            f \in found \/ \E gap \in cut : made[f] \in gap.start..gap.end
    BY <1>1, <1>2, <1>3, HeldOrNoLonger
<1> QED
    BY <1>1, <1>4, EndReadKeepsInv

LEMMA FailReadKeepsInv ==
    ASSUME RecoveryInv, FailRead
    PROVE  RecoveryInv'
<1>1. phase = "reading" /\ EndRead({}, Unread(attempt.cursor))
    BY DEF FailRead, Reading
<1>2. attempt.cursor \in Int
    BY DEF RecoveryInv, AttemptOK
<1>3. PICK cut : cut = Unread(attempt.cursor)
    OBVIOUS
<1>4. /\ cut \in SUBSET Span /\ EndRead({}, cut)
      /\ \A f \in Fills : made[f] \in attempt.cursor..attempt.end =>
            \E gap \in cut : made[f] \in gap.start..gap.end
    BY <1>1, <1>2, <1>3, UnreadReaches
<1> QED
    BY <1>1, <1>4, EndReadKeepsInv

LEMMA ReadNoFurtherKeepsInv ==
    ASSUME RecoveryInv, ReadNoFurther
    PROVE  RecoveryInv'
<1>1. /\ phase = "reading"
      /\ EndRead(Held(attempt.cursor, attempt.cursor), NoLongerHeld \cup Unread(attempt.cursor))
    BY DEF ReadNoFurther, Reading
<1>2. attempt.cursor \in Int
    BY DEF RecoveryInv, AttemptOK
<1>3. PICK found, cut : /\ found = Held(attempt.cursor, attempt.cursor)
                        /\ cut = NoLongerHeld \cup Unread(attempt.cursor)
    OBVIOUS
<1>4. found \in SUBSET Fills /\ cut \in SUBSET Span /\ EndRead(found, cut)
    BY <1>1, <1>2, <1>3, HeldOrNoLonger, UnreadReaches
<1>5. \A f \in Fills : made[f] \in attempt.cursor..attempt.end =>
          \E gap \in cut : made[f] \in gap.start..gap.end
    BY <1>2, <1>3, UnreadReaches
<1> QED
    BY <1>1, <1>4, <1>5, EndReadKeepsInv

LEMMA ReadUpToKeepsInv ==
    ASSUME RecoveryInv, NEW resume \in Int, ReadUpTo(resume)
    PROVE  RecoveryInv'
<1>1. phase = "reading" /\ retention = Unlimited /\ attempt.cursor < resume
    BY DEF ReadUpTo, Reading
<1>2. attempt.cursor \in Int /\ attempt.pages \in Nat /\ attempt.end \in Int /\ AttemptOK
    BY DEF RecoveryInv, AttemptOK
<1>3. PICK found, gone : found = Held(attempt.cursor, resume - 1) /\ gone = NoLongerHeld
    OBVIOUS
<1>4. /\ found \in SUBSET Fills /\ gone \in SUBSET Span
      /\ \A f \in Fills : made[f] \in attempt.cursor..(resume - 1) => f \in found
    BY <1>1, <1>3, HeldOrNoLonger
<1>5. \A f \in Fills : made[f] \in Int
    BY DEF RecoveryInv, ClocksOK, Fills
<1>6. CASE attempt.pages + 1 >= MaxPages
    <2>1. PICK cut : cut = gone \cup Unread(resume)
        OBVIOUS
    <2>2. EndRead(found, cut) /\ cut \in SUBSET Span
        BY <1>3, <1>4, <1>6, <2>1, UnreadReaches DEF ReadUpTo
    <2>3. \A f \in Fills : made[f] \in attempt.cursor..attempt.end =>
              f \in found \/ \E gap \in cut : made[f] \in gap.start..gap.end
        BY <1>2, <1>4, <1>5, <2>1, UnreadReaches
    <2> QED
        BY <1>1, <1>4, <2>2, <2>3, EndReadKeepsInv
<1>7. CASE ~(attempt.pages + 1 >= MaxPages)
    <2>1. /\ now' = now /\ offset' = offset /\ setting' = setting /\ retention' = retention
          /\ made' = made /\ link' = link /\ wire' = wire /\ pending' = pending
          /\ watermark' = watermark /\ seen' = seen /\ delivered' = delivered
          /\ gaps' = gaps /\ phase' = phase
          /\ attempt' = [attempt EXCEPT !.fills = @ \cup found, !.gaps = @ \cup gone,
                                        !.cursor = resume, !.pages = @ + 1]
        BY <1>3, <1>7 DEF ReadUpTo, clock, venue, output
    <2>2. /\ attempt'.began = attempt.began /\ attempt'.beganHost = attempt.beganHost
          /\ attempt'.end = attempt.end /\ attempt'.cursor = resume
          /\ attempt'.fills = attempt.fills \cup found /\ attempt'.gaps = attempt.gaps \cup gone
        BY <1>2, <2>1 DEF AttemptOK
    <2>3. AttemptOK'
        <3> DEFINE Attempts == [began : 0..now, beganHost : Int, start : Int, end : Int,
                                pages : Nat, cursor : Int, fills : SUBSET Fills,
                                gaps : SUBSET Span]
        <3>1. PICK read, told : read = attempt.fills \cup found /\ told = attempt.gaps \cup gone
            OBVIOUS
        <3>2. /\ attempt \in Attempts /\ read \in SUBSET Fills /\ told \in SUBSET Span
              /\ attempt.pages + 1 \in Nat
            BY <1>2, <1>4, <3>1 DEF AttemptOK
        <3>3. [attempt EXCEPT !.fills = read, !.gaps = told] \in Attempts
            BY <3>2
        <3>4. attempt' = [[attempt EXCEPT !.fills = read, !.gaps = told]
                             EXCEPT !.cursor = resume, !.pages = attempt.pages + 1]
            BY <2>1, <3>1, <3>2
        <3>5. attempt' \in Attempts
            BY <3>2, <3>3, <3>4
        <3> QED
            BY <1>1, <1>2, <2>1, <2>2, <3>5 DEF AttemptOK, Fills
    <2>4. ClocksOK' /\ WatermarkOK'
        BY <2>1 DEF RecoveryInv, ClocksOK, WatermarkOK, Unmarked, IsMark
    <2>5. StreamOK'
        BY <2>1 DEF RecoveryInv, StreamOK, IsEvent, Fills
    <2>6. Timely' /\ StreamCovers'
        BY <1>1, <2>1, <2>2 DEF RecoveryInv, Timely, Opening, StreamCovers
    <2>7. DeliveryOK' /\ NoFillTwice'
        BY <2>1 DEF RecoveryInv, DeliveryOK, NoFillTwice, Fills
    <2>8. Reachable'
        BY <2>1 DEF RecoveryInv, Reachable, Unmarked, Safe, IsDelivered, IsReported, Awaited, Fills
    <2>9. AttemptCovers'
        <3>1. ASSUME NEW f \in Fills, Covered(f)
              PROVE  Covered(f)'
            <4>1. made[f] \in attempt.cursor..attempt.end =>
                      f \in found \/ made[f] \in resume..attempt.end
                BY <1>2, <1>4, <1>5
            <4> QED
                BY <1>1, <2>1, <2>2, <3>1, <4>1 DEF Covered
        <3>2. Opening
            BY <1>1 DEF Opening
        <3> QED
            BY <2>1, <2>2, <3>1, <3>2 DEF RecoveryInv, AttemptCovers, Safe, IsDelivered,
                                          IsReported, OnWire, Broken, Fills
    <2> QED
        BY <2>3, <2>4, <2>5, <2>6, <2>7, <2>8, <2>9 DEF RecoveryInv
<1> QED
    BY <1>6, <1>7

LEMMA FirstAttemptIsOK ==
    ASSUME ClocksOK, now' = now, made' = made, attempt' = FirstAttempt
    PROVE  AttemptOK'
<1>1. /\ now \in Nat /\ now \in 0..now /\ MaxSpan \in Nat /\ HostTime \in Int
      /\ HostTime <= now + MaxSkew
    BY ItemsAreEvents, LimitAssumption DEF ClocksOK, MaxSpan, Setting, HostTime
<1>2. FirstAttempt = [began |-> now, beganHost |-> HostTime, start |-> 0, end |-> 0, pages |-> 0,
                      cursor |-> Greater(0, 0 - MaxSpan), fills |-> {}, gaps |-> {}]
    BY DEF FirstAttempt, Attempt
<1>3. Greater(0, 0 - MaxSpan) \in Int
    BY <1>1 DEF Greater
<1>4. /\ attempt' \in [began : 0..now, beganHost : Int, start : Int, end : Int, pages : Nat,
                        cursor : Int, fills : SUBSET Fills, gaps : SUBSET Span]
      /\ attempt'.beganHost = HostTime /\ attempt'.began = now /\ attempt'.pages = 0
    BY <1>1, <1>2, <1>3
<1> QED
    BY <1>1, <1>4 DEF AttemptOK, Fills

LEMMA FailOpenKeepsInv ==
    ASSUME RecoveryInv, FailOpen
    PROVE  RecoveryInv'
<1>1. /\ now' = now /\ offset' = offset /\ setting' = setting /\ retention' = retention
      /\ made' = made /\ pending' = pending /\ watermark' = watermark /\ seen' = seen
      /\ delivered' = delivered /\ gaps' = gaps
      /\ phase = "snapshot" /\ phase' = "down" /\ link' = "none" /\ wire' = <<>>
      /\ watermark # NoWatermark /\ attempt' = FirstAttempt
    BY DEF FailOpen, clock, venue, output
<1>2. ClocksOK' /\ WatermarkOK' /\ AttemptOK'
    BY <1>1, FirstAttemptIsOK DEF RecoveryInv, ClocksOK, WatermarkOK, Unmarked, IsMark
<1>3. StreamOK'
    BY <1>1 DEF RecoveryInv, StreamOK
<1>4. Timely' /\ StreamCovers' /\ AttemptCovers'
    BY <1>1 DEF Timely, StreamCovers, AttemptCovers, Opening
<1>5. DeliveryOK' /\ NoFillTwice'
    BY <1>1 DEF RecoveryInv, DeliveryOK, NoFillTwice, Fills
<1>6. Reachable'
    BY <1>1 DEF RecoveryInv, Reachable, Unmarked, Safe, IsDelivered, IsReported, Awaited, Fills
<1> QED
    BY <1>2, <1>3, <1>4, <1>5, <1>6 DEF RecoveryInv

\* What an attempt has read, found or not, awaits delivery once the stream is open.
LEMMA ReadIsAwaited ==
    ASSUME RecoveryInv, Open
    PROVE  /\ pending' \in Seq(Event)
           /\ \A i \in 1..Len(pending') : IsEvent(pending'[i]) /\ pending'[i].kind # "End"
           /\ \A f \in Fills : Covered(f) => Awaited(f)'
<1>1. phase = "snapshot" /\ made' = made
    BY DEF Open, venue
<1>2. PICK read, told, other :
          /\ read = Ordered(attempt.fills) /\ other = OtherItem
          /\ told = IF attempt.gaps = {} THEN <<>> ELSE <<GapsItem(attempt.gaps)>>
    OBVIOUS
<1>3. pending' = read \o told \o <<other>>
    BY <1>2 DEF Open
<1>4. /\ read \in Seq(Event)
      /\ \A i \in 1..Len(read) : IsEvent(read[i]) /\ read[i].kind = "Fill"
      /\ \A f \in attempt.fills : \E i \in 1..Len(read) : read[i].fill = f
    <2>1. ClocksOK /\ attempt.fills \in SUBSET Fills
        BY DEF RecoveryInv, AttemptOK
    <2> QED
        BY <1>2, <2>1, OrderedIsWhole
<1>5. IsEvent(other) /\ other \in Event /\ other.kind = "Other"
    BY <1>2, ItemsAreEvents DEF RecoveryInv, IsEvent
<1>6. /\ told \in Seq(Event)
      /\ \A i \in 1..Len(told) : IsEvent(told[i]) /\ told[i].kind = "Gaps"
      /\ attempt.gaps # {} => /\ 1 \in 1..Len(told)
                              /\ told[1].kind = "Gaps" /\ told[1].gaps = attempt.gaps
    <2>1. PICK event : event = GapsItem(attempt.gaps)
        OBVIOUS
    <2>2. IsEvent(event) /\ event \in Event /\ event.kind = "Gaps" /\ event.gaps = attempt.gaps
        <3>1. ClocksOK /\ attempt.gaps \in SUBSET Span
            BY DEF RecoveryInv, AttemptOK
        <3> QED
            BY <2>1, <3>1, ItemsAreEvents DEF IsEvent
    <2>3. CASE attempt.gaps = {}
        BY <1>2, <2>3
    <2>4. CASE attempt.gaps # {}
        <3>1. told = <<event>>
            BY <1>2, <2>1, <2>4
        <3>2. told \in Seq(Event) /\ Len(told) = 1 /\ told[1] = event
            BY <2>2, <3>1
        <3> QED
            BY <2>2, <3>2
    <2> QED
        BY <2>3, <2>4
<1>7. /\ pending' \in Seq(Event) /\ Len(pending') = Len(read) + Len(told) + 1
      /\ Len(read) \in Nat /\ Len(told) \in Nat
      /\ \A i \in 1..Len(read) : pending'[i] = read[i]
      /\ \A i \in 1..Len(told) : pending'[Len(read) + i] = told[i]
      /\ pending'[Len(read) + Len(told) + 1] = other
    BY <1>3, <1>4, <1>5, <1>6
<1>8. ASSUME NEW i \in 1..Len(pending')
      PROVE  IsEvent(pending'[i]) /\ pending'[i].kind # "End"
    <2>1. CASE i \in 1..Len(read)
        BY <1>4, <1>7, <2>1
    <2>2. CASE i - Len(read) \in 1..Len(told)
        <3> DEFINE j == i - Len(read)
        <3>1. j \in 1..Len(told) /\ Len(read) + j = i
            BY <1>7, <2>2
        <3> HIDE DEF j
        <3>2. pending'[i] = told[j]
            BY <1>7, <3>1
        <3>3. IsEvent(told[j]) /\ told[j].kind # "End"
            BY <1>6, <3>1
        <3> QED
            BY <3>2, <3>3
    <2>3. CASE i = Len(read) + Len(told) + 1
        BY <1>5, <1>7, <2>3
    <2>4. Len(pending') \in Nat /\ i \in 1..Len(pending')
        BY <1>7
    <2>5. \/ i \in 1..Len(read) \/ i - Len(read) \in 1..Len(told)
          \/ i = Len(read) + Len(told) + 1
        BY <1>7, <2>4
    <2> QED
        BY <2>1, <2>2, <2>3, <2>5, Zenon
<1>9. ASSUME NEW f \in Fills, Covered(f)
      PROVE  Awaited(f)'
    <2>1. CASE f \in attempt.fills
        <3>1. PICK i \in 1..Len(read) : read[i].fill = f
            BY <1>4, <2>1
        <3>2. /\ i \in 1..Len(pending')
              /\ pending'[i].kind = "Fill" /\ pending'[i].fill = f
            BY <1>4, <1>7, <3>1
        <3> QED
            BY <3>2 DEF Awaited
    <2>2. CASE \E gap \in attempt.gaps : made[f] \in gap.start..gap.end
        <3>1. PICK i : i = Len(read) + 1
            OBVIOUS
        <3>2. /\ i \in 1..Len(pending')
              /\ pending'[i].kind = "Gaps" /\ pending'[i].gaps = attempt.gaps
            BY <1>6, <1>7, <2>2, <3>1
        <3> QED
            BY <1>1, <2>2, <3>2 DEF Awaited
    <2> QED
        BY <1>1, <1>9, <2>1, <2>2 DEF Covered
<1> QED
    BY <1>7, <1>8, <1>9

\* An open stream awaits what the attempt read, and brings what it did not.
LEMMA OpenKeepsInv ==
    ASSUME RecoveryInv, Margins, Open
    PROVE  RecoveryInv'
<1>1. /\ now' = now /\ offset' = offset /\ setting' = setting /\ retention' = retention
      /\ made' = made /\ link' = link /\ wire' = wire /\ seen' = seen
      /\ delivered' = delivered /\ gaps' = gaps
      /\ phase = "snapshot" /\ phase' = "streaming" /\ attempt' = FirstAttempt
      /\ watermark' = IF watermark = NoWatermark THEN Opened(attempt.beganHost, attempt.began)
                      ELSE watermark
    BY DEF Open, clock, venue
<1>2. /\ now \in Nat /\ Overlap \in Nat /\ MaxOpening \in Nat /\ MaxOpening <= Overlap
      /\ attempt.began \in 0..now /\ attempt.beganHost \in Int
      /\ attempt.beganHost <= attempt.began + MaxSkew
      /\ now <= attempt.began + MaxOpening /\ wire \in Seq(Event)
      /\ \A i \in 1..Len(wire) : wire[i].time >= attempt.began /\ wire[i].time \in Nat
    <2>1. now \in Nat /\ Overlap \in Nat /\ MaxOpening \in Nat /\ MaxOpening <= Overlap
        BY ItemsAreEvents, LimitAssumption DEF RecoveryInv, Margins
    <2>2. /\ attempt.began \in 0..now /\ attempt.beganHost \in Int
          /\ attempt.beganHost <= attempt.began + MaxSkew
        BY DEF RecoveryInv, AttemptOK
    <2>3. now <= attempt.began + MaxOpening
        BY <1>1 DEF RecoveryInv, Timely, Opening
    <2>4. \A i \in 1..Len(wire) : wire[i].time >= attempt.began
        BY <1>1 DEF RecoveryInv, Timely, Opening
    <2>5. wire \in Seq(Event) /\ \A i \in 1..Len(wire) : wire[i].time \in Nat
        BY EventShape DEF RecoveryInv, StreamOK
    <2> QED
        BY <2>1, <2>2, <2>3, <2>4, <2>5
<1>3. /\ pending' \in Seq(Event)
      /\ \A i \in 1..Len(pending') : IsEvent(pending'[i]) /\ pending'[i].kind # "End"
      /\ \A f \in Fills : Covered(f) => Awaited(f)'
    BY ReadIsAwaited
<1>4. \A event : IsEvent(event) => IsEvent(event)'
    BY <1>1, <1>2, EventStays
<1>5. ClocksOK' /\ AttemptOK'
    BY <1>1, FirstAttemptIsOK DEF RecoveryInv, ClocksOK
<1>6. WatermarkOK'
    <2>1. CASE watermark = NoWatermark
        <3>1. /\ watermark'.time = attempt.beganHost /\ watermark'.instant = attempt.began
              /\ watermark'.sample = NoSample
            BY <1>1, <2>1 DEF Opened
        <3> QED
            BY <1>1, <1>2, <3>1 DEF WatermarkOK, IsMark
    <2>2. CASE watermark # NoWatermark
        BY <1>1, <2>2 DEF RecoveryInv, WatermarkOK, Unmarked, IsMark
    <2> QED
        BY <2>1, <2>2
<1>7. StreamOK'
    <2>1. \A i \in 1..Len(pending') : IsEvent(pending[i])' /\ pending'[i].kind # "End"
        <3> TAKE i \in 1..Len(pending')
        <3>1. IsEvent(pending'[i]) /\ pending'[i].kind # "End"
            BY <1>3
        <3> QED
            BY <1>4, <3>1
    <2>2. \A i \in 1..Len(wire') : IsEvent(wire[i])'
        BY <1>1, <1>4 DEF RecoveryInv, StreamOK
    <2> QED
        BY <1>1, <1>3, <2>1, <2>2 DEF RecoveryInv, StreamOK
<1>8. Timely'
    <2>1. \A i \in 1..Len(wire) : wire[i].time >= now - Overlap
        BY <1>2
    <2> QED
        BY <1>1, <2>1 DEF Timely, Opening
<1>9. DeliveryOK' /\ NoFillTwice' /\ AttemptCovers'
    BY <1>1 DEF RecoveryInv, DeliveryOK, NoFillTwice, AttemptCovers, Opening, Fills
<1>10. ASSUME NEW f \in Fills
       PROVE  \/ Safe(f) \/ Awaited(f)'
              \/ OnWire(f) /\ made[f] >= attempt.began
              \/ Broken(f) /\ made[f] >= attempt.began
    <2>1. Safe(f) \/ Covered(f) \/ OnWire(f) \/ (Broken(f) /\ made[f] >= attempt.began)
        BY <1>1 DEF RecoveryInv, AttemptCovers, Opening
    <2>2. OnWire(f) => made[f] >= attempt.began
        BY <1>2 DEF OnWire, RecoveryInv, StreamOK, IsEvent
    <2> QED
        BY <1>3, <2>1, <2>2
<1>11. \A f : /\ Safe(f)' <=> Safe(f)
              /\ OnWire(f)' <=> OnWire(f)
              /\ Broken(f)' <=> Broken(f)
    BY <1>1 DEF Safe, IsDelivered, IsReported, OnWire, Broken
<1>12. Fills' = Fills /\ \A f \in Fills : made[f] \in Nat
    BY <1>1, <1>2 DEF Fills, RecoveryInv, ClocksOK
<1>13. StreamCovers'
    BY <1>10, <1>11, <1>12 DEF StreamCovers
<1>14. Reachable'
    <2>1. ASSUME NEW f \in Fills
          PROVE  Safe(f)' \/ Awaited(f)' \/ made[f] >= now - Overlap
        BY <1>2, <1>10, <1>11, <1>12
    <2>2. ASSUME NEW f \in Fills
          PROVE  Safe(f)' \/ Awaited(f)' \/ made[f] >= watermark'.instant - Overlap
        <3>1. CASE watermark = NoWatermark
            <4>1. watermark'.instant = attempt.began
                BY <1>1, <3>1 DEF Opened
            <4> QED
                BY <1>2, <1>10, <1>11, <1>12, <4>1
        <3>2. CASE watermark # NoWatermark
            <4>1. watermark' = watermark /\ ~Unmarked
                BY <1>1, <3>2 DEF Unmarked
            <4>2. ~Awaited(f)
                BY <1>1 DEF RecoveryInv, StreamOK, Awaited
            <4> QED
                BY <1>11, <4>1, <4>2 DEF RecoveryInv, Reachable
        <3> QED
            BY <3>1, <3>2
    <2> QED
        BY <1>1, <1>12, <2>1, <2>2 DEF Reachable
<1> QED
    BY <1>5, <1>6, <1>7, <1>8, <1>9, <1>13, <1>14 DEF RecoveryInv

-----------------------------------------------------------------------------
(* Delivery.                                                               *)

\* The deduper remembers the latest fills delivered, so a fill it does not know
\* is new, or older than all it has room for.
LEMMA DeliveryIsOnce ==
    ASSUME RecoveryInv, made' = made, NEW item, IsEvent(item),
           seen' = IF item.kind = "Fill" /\ ~IsDuplicate(item) THEN Record(item.fill) ELSE seen,
           delivered' = IF item.kind = "Fill" /\ ~IsDuplicate(item)
                        THEN Append(delivered, item.fill) ELSE delivered,
           gaps' = IF item.kind = "Gaps" THEN gaps \cup item.gaps ELSE gaps
    PROVE  /\ DeliveryOK' /\ NoFillTwice'
           /\ \A f \in Fills :
                 \/ Safe(f)
                 \/ item.kind = "Fill" /\ item.fill = f
                 \/ item.kind = "Gaps" /\ \E gap \in item.gaps : made[f] \in gap.start..gap.end
                 => Safe(f)'
<1>1. /\ seen \in Seq(Fills) /\ delivered \in Seq(Fills) /\ gaps \subseteq Span
      /\ Len(seen) <= MaxRecent /\ Len(seen) <= Len(delivered)
      /\ (Len(seen) < MaxRecent => Len(seen) = Len(delivered))
      /\ \A i \in 1..Len(seen) : seen[i] = delivered[Len(delivered) - Len(seen) + i]
      /\ MaxRecent \in Nat \ {0} /\ Len(seen) \in Nat /\ Len(delivered) \in Nat
    BY LimitAssumption DEF RecoveryInv, DeliveryOK
<1>2. gaps' \subseteq Span /\ gaps \subseteq gaps'
    BY <1>1, EventShape DEF IsEvent
<1>3. Fills' = Fills
    BY DEF Fills
<1>4. CASE item.kind = "Fill" /\ ~IsDuplicate(item)
    <2>1. PICK fill, kept : /\ fill = item.fill
                            /\ kept = IF Len(seen) = MaxRecent THEN Tail(seen) ELSE seen
        OBVIOUS
    <2>2. /\ fill \in Fills /\ delivered' = Append(delivered, fill) /\ seen' = Append(kept, fill)
          /\ \A i \in 1..Len(seen) : seen[i] # fill
        BY <1>4, <2>1 DEF IsEvent, Record, IsDuplicate
    <2>3. /\ kept \in Seq(Fills) /\ Len(kept) \in Nat
          /\ Len(kept) = (IF Len(seen) = MaxRecent THEN MaxRecent - 1 ELSE Len(seen))
          /\ \A i \in 1..Len(kept) : kept[i] = delivered[Len(delivered) - Len(kept) + i]
        <3>1. CASE Len(seen) = MaxRecent
            <4>1. /\ kept = Tail(seen) /\ seen # <<>>
                BY <1>1, <2>1, <3>1
            <4>2. /\ kept \in Seq(Fills) /\ Len(kept) = Len(seen) - 1
                  /\ \A i \in 1..Len(kept) : kept[i] = seen[i + 1]
                BY <1>1, <4>1
            <4>3. \A i \in 1..Len(kept) : kept[i] = delivered[Len(delivered) - Len(kept) + i]
                <5> TAKE i \in 1..Len(kept)
                <5>1. i + 1 \in 1..Len(seen)
                    BY <1>1, <4>2
                <5>2. Len(delivered) - Len(seen) + (i + 1) = Len(delivered) - Len(kept) + i
                    BY <1>1, <4>2
                <5> QED
                    BY <1>1, <4>2, <5>1, <5>2
            <4> QED
                BY <1>1, <3>1, <4>2, <4>3
        <3>2. CASE Len(seen) # MaxRecent
            BY <1>1, <2>1, <3>2
        <3> QED
            BY <3>1, <3>2
    <2>4. /\ delivered' \in Seq(Fills) /\ Len(delivered') = Len(delivered) + 1
          /\ \A i \in 1..Len(delivered) : delivered'[i] = delivered[i]
          /\ delivered'[Len(delivered) + 1] = fill
        BY <1>1, <2>2
    <2>5. /\ seen' \in Seq(Fills) /\ Len(seen') = Len(kept) + 1
          /\ \A i \in 1..Len(kept) : seen'[i] = kept[i]
          /\ seen'[Len(kept) + 1] = fill
        <3>1. kept \in Seq(Fills) /\ fill \in Fills /\ seen' = Append(kept, fill)
            BY <2>2, <2>3
        <3> QED
            BY <3>1
    <2>6. DeliveryOK'
        <3>1. ASSUME NEW i \in 1..Len(seen')
              PROVE  seen'[i] = delivered'[Len(delivered') - Len(seen') + i]
            <4>1. /\ Len(kept) \in Nat /\ Len(delivered) \in Nat /\ i \in 1..(Len(kept) + 1)
                  /\ Len(delivered') = Len(delivered) + 1 /\ Len(seen') = Len(kept) + 1
                BY <1>1, <2>3, <2>4, <2>5
            <4>2. /\ Len(delivered') - Len(seen') + i = Len(delivered) - Len(kept) + i
                  /\ i \in 1..Len(kept) \/ i = Len(kept) + 1
                BY <4>1
            <4>3. CASE i \in 1..Len(kept)
                <5>1. Len(delivered) - Len(kept) + i \in 1..Len(delivered)
                    BY <1>1, <2>3, <4>3
                <5> QED
                    BY <2>3, <2>4, <2>5, <4>2, <4>3, <5>1
            <4>4. CASE i = Len(kept) + 1
                <5>1. Len(delivered) - Len(kept) + i = Len(delivered) + 1
                    BY <4>1, <4>4
                <5> QED
                    BY <2>4, <2>5, <4>2, <4>4, <5>1
            <4> QED
                BY <4>2, <4>3, <4>4
        <3>2. /\ Len(seen') <= MaxRecent /\ Len(seen') <= Len(delivered')
              /\ (Len(seen') < MaxRecent => Len(seen') = Len(delivered'))
            BY <1>1, <2>3, <2>4, <2>5
        <3> QED
            BY <1>2, <1>3, <2>4, <2>5, <3>1, <3>2 DEF DeliveryOK
    <2>7. NoFillTwice'
        <3>1. ASSUME NEW i \in 1..Len(delivered'), NEW j \in 1..Len(delivered'),
                     i < j, delivered'[i] = delivered'[j]
              PROVE  j - i > MaxRecent
            <4>1. i \in 1..Len(delivered)
                BY <1>1, <2>4, <3>1
            <4>2. CASE j \in 1..Len(delivered)
                BY <2>4, <3>1, <4>1, <4>2 DEF RecoveryInv, NoFillTwice
            <4>3. CASE j = Len(delivered) + 1
                <5>1. delivered[i] = fill
                    BY <2>4, <3>1, <4>1, <4>3
                <5>2. CASE i > Len(delivered) - Len(seen)
                    <6>1. PICK k : k = i - (Len(delivered) - Len(seen))
                        OBVIOUS
                    <6>2. k \in 1..Len(seen) /\ Len(delivered) - Len(seen) + k = i
                        BY <1>1, <4>1, <5>2, <6>1
                    <6>3. seen[k] = fill
                        BY <1>1, <5>1, <6>2
                    <6> QED
                        BY <2>2, <6>2, <6>3
                <5>3. CASE i <= Len(delivered) - Len(seen)
                    BY <1>1, <4>1, <4>3, <5>3
                <5> QED
                    BY <1>1, <4>1, <5>2, <5>3
            <4> QED
                BY <1>1, <2>4, <4>2, <4>3
        <3> QED
            BY <3>1 DEF NoFillTwice
    <2>8. ASSUME NEW f \in Fills, Safe(f) \/ fill = f
          PROVE  Safe(f)'
        <3>1. CASE fill = f
            <4>1. Len(delivered) + 1 \in 1..Len(delivered')
                BY <1>1, <2>4
            <4> QED
                BY <2>4, <3>1, <4>1 DEF Safe, IsDelivered
        <3>2. CASE IsReported(f)
            BY <1>2, <3>2 DEF Safe, IsReported
        <3>3. CASE IsDelivered(f)
            <4>1. \A i \in 1..Len(delivered) : i \in 1..Len(delivered')
                BY <1>1, <2>4
            <4> QED
                BY <2>4, <3>3, <4>1 DEF Safe, IsDelivered
        <3> QED
            BY <2>8, <3>1, <3>2, <3>3 DEF Safe
    <2> QED
        BY <1>4, <2>1, <2>6, <2>7, <2>8
<1>5. CASE ~(item.kind = "Fill" /\ ~IsDuplicate(item))
    <2>1. seen' = seen /\ delivered' = delivered
        BY <1>5
    <2>2. DeliveryOK' /\ NoFillTwice'
        BY <1>1, <1>2, <1>3, <2>1 DEF DeliveryOK, RecoveryInv, NoFillTwice
    <2>3. ASSUME NEW f \in Fills, Safe(f)
          PROVE  Safe(f)'
        BY <1>2, <2>1, <2>3 DEF Safe, IsDelivered, IsReported
    <2>4. ASSUME NEW f \in Fills, item.kind = "Fill", item.fill = f
          PROVE  Safe(f)'
        <3>1. PICK i \in 1..Len(seen) : seen[i] = f
            BY <1>5, <2>4 DEF IsDuplicate
        <3>2. Len(delivered) - Len(seen) + i \in 1..Len(delivered)
            BY <1>1
        <3> QED
            BY <1>1, <2>1, <3>1, <3>2 DEF Safe, IsDelivered
    <2>5. ASSUME NEW f \in Fills, item.kind = "Gaps",
                 \E gap \in item.gaps : made[f] \in gap.start..gap.end
          PROVE  Safe(f)'
        BY <2>5 DEF Safe, IsReported
    <2> QED
        BY <2>2, <2>3, <2>4, <2>5
<1> QED
    BY <1>4, <1>5

\* A delivery moves the watermark to now, or leaves it; the end of a stream and
\* a fill it knows leave it.
LEMMA WatermarkMoves ==
    ASSUME ClocksOK, Margins, IsMark(watermark), now' = now, NEW item, IsEvent(item),
           watermark' = IF IsDuplicate(item) THEN watermark ELSE AfterDelivery(watermark, item)
    PROVE  /\ IsMark(watermark)'
           /\ watermark' = watermark \/ (item.kind # "End" /\ watermark'.instant = now)
<1>1. /\ now \in Nat /\ HostTime \in Int /\ HostTime <= now + MaxSkew
      /\ now \in 0..now /\ item.time \in Nat /\ item.time <= now
    BY ItemsAreEvents, ReadSpansTheOverlap, EventShape DEF IsEvent
<1>2. CASE watermark' = watermark
    BY <1>2 DEF IsMark
<1>3. CASE watermark' # watermark
    <2>1. item.kind # "End" /\ watermark' = Moved(watermark, item)
        BY <1>3 DEF AfterDelivery
    <2>2. /\ watermark'.time = HostTime /\ watermark'.instant = now
          /\ watermark'.sample = IF item.kind = "Fill" /\ HostTime - item.time < MaxSpan
                                 THEN Observe(watermark.sample, item.time) ELSE watermark.sample
        BY <2>1 DEF Moved
    <2>3. /\ [stamp |-> item.time, received |-> now] \in Sample
          /\ [stamp |-> item.time, received |-> now].stamp
                <= [stamp |-> item.time, received |-> now].received
        BY <1>1 DEF Sample
    <2>4. \/ watermark'.sample = [stamp |-> item.time, received |-> now]
          \/ watermark'.sample = watermark.sample
        BY <2>2 DEF Observe
    <2>5. \/ watermark'.sample = NoSample
          \/ watermark'.sample \in Sample /\ watermark'.sample.stamp <= watermark'.sample.received
        BY <2>3, <2>4 DEF IsMark
    <2> QED
        BY <1>1, <2>1, <2>2, <2>5 DEF IsMark
<1> QED
    BY <1>2, <1>3

\* What an attempt read is delivered first, and nothing it read is the end of
\* the stream.
LEMMA DeliverPendingKeepsInv ==
    ASSUME RecoveryInv, Margins, Deliver, pending # <<>>
    PROVE  RecoveryInv'
<1>1. PICK item : item = Head(pending \o wire)
    OBVIOUS
<1>2. /\ now' = now /\ offset' = offset /\ setting' = setting /\ retention' = retention
      /\ made' = made /\ attempt' = attempt /\ phase = "streaming"
      /\ pending' = Tail(pending) /\ wire' = wire
      /\ seen' = IF item.kind = "Fill" /\ ~IsDuplicate(item) THEN Record(item.fill) ELSE seen
      /\ delivered' = IF item.kind = "Fill" /\ ~IsDuplicate(item)
                      THEN Append(delivered, item.fill) ELSE delivered
      /\ gaps' = IF item.kind = "Gaps" THEN gaps \cup item.gaps ELSE gaps
      /\ watermark' = IF IsDuplicate(item) THEN watermark ELSE AfterDelivery(watermark, item)
      /\ phase' = IF item.kind = "End" THEN "down" ELSE phase
      /\ link' = IF item.kind = "End" THEN "none" ELSE link
    BY <1>1 DEF Deliver, clock, venue
<1>3. /\ pending \in Seq(Event) /\ wire \in Seq(Event) /\ Len(pending) \in Nat \ {0}
      /\ 1 \in 1..Len(pending) /\ item = pending[1]
    <2>1. pending \in Seq(Event) /\ wire \in Seq(Event) /\ Len(pending) \in Nat \ {0}
        BY DEF RecoveryInv, StreamOK
    <2> QED
        BY <1>1, <2>1
<1>4. IsEvent(item) /\ item.kind # "End"
    BY <1>3 DEF RecoveryInv, StreamOK
<1>5. /\ pending' \in Seq(Event) /\ Len(pending') = Len(pending) - 1
      /\ \A i \in 1..Len(pending') : i + 1 \in 1..Len(pending) /\ pending'[i] = pending[i + 1]
    BY <1>2, <1>3
<1>6. phase' = phase /\ link' = link
    BY <1>2, <1>4
<1>7. now \in Nat /\ \A event : IsEvent(event) => IsEvent(event)'
    BY <1>2, ItemsAreEvents, EventStays DEF RecoveryInv
<1>8. /\ IsMark(watermark)'
      /\ watermark' = watermark \/ watermark'.instant = now
    BY <1>2, <1>4, WatermarkMoves DEF RecoveryInv, WatermarkOK, Unmarked
<1>9. /\ DeliveryOK' /\ NoFillTwice'
      /\ \A f \in Fills :
            \/ Safe(f)
            \/ item.kind = "Fill" /\ item.fill = f
            \/ item.kind = "Gaps" /\ \E gap \in item.gaps : made[f] \in gap.start..gap.end
            => Safe(f)'
    BY <1>2, <1>4, DeliveryIsOnce
<1>10. ASSUME NEW f \in Fills, Safe(f) \/ Awaited(f)
       PROVE  Safe(f)' \/ Awaited(f)'
    <2>1. CASE Safe(f)
        BY <1>9, <2>1
    <2>2. CASE Awaited(f)
        <3>1. PICK i \in 1..Len(pending) :
                  \/ pending[i].kind = "Fill" /\ pending[i].fill = f
                  \/ /\ pending[i].kind = "Gaps"
                     /\ \E gap \in pending[i].gaps : made[f] \in gap.start..gap.end
            BY <2>2 DEF Awaited
        <3>2. CASE i = 1
            BY <1>3, <1>9, <3>1, <3>2
        <3>3. CASE i # 1
            <4>1. i - 1 \in 1..Len(pending') /\ (i - 1) + 1 = i
                BY <1>3, <1>5, <3>3
            <4>2. pending'[i - 1] = pending[i]
                BY <1>5, <4>1
            <4> QED
                BY <1>2, <3>1, <4>1, <4>2 DEF Awaited
        <3> QED
            BY <3>2, <3>3
    <2> QED
        BY <1>10, <2>1, <2>2
<1>11. ClocksOK' /\ AttemptOK' /\ WatermarkOK'
    BY <1>2, <1>8 DEF RecoveryInv, ClocksOK, AttemptOK, WatermarkOK, Fills
<1>12. StreamOK'
    <2>1. \A i \in 1..Len(pending') : IsEvent(pending[i])' /\ pending'[i].kind # "End"
        <3> TAKE i \in 1..Len(pending')
        <3>1. IsEvent(pending'[i]) /\ pending'[i].kind # "End"
            BY <1>5 DEF RecoveryInv, StreamOK
        <3> QED
            BY <1>7, <3>1
    <2>2. \A i \in 1..Len(wire') : IsEvent(wire[i])'
        BY <1>2, <1>7 DEF RecoveryInv, StreamOK
    <2> QED
        BY <1>2, <1>5, <1>6, <2>1, <2>2 DEF RecoveryInv, StreamOK
<1>13. Timely'
    BY <1>2, <1>6 DEF RecoveryInv, Timely, Opening
<1>14. Fills' = Fills
    BY <1>2 DEF Fills
<1>15. StreamCovers'
    <2>1. \A f \in Fills : Safe(f) \/ Awaited(f) \/ OnWire(f) \/ Broken(f)
        BY <1>2 DEF RecoveryInv, StreamCovers
    <2>2. \A f : (OnWire(f)' <=> OnWire(f)) /\ (Broken(f)' <=> Broken(f))
        BY <1>2, <1>6 DEF OnWire, Broken
    <2> QED
        BY <1>10, <1>14, <2>1, <2>2 DEF StreamCovers
<1>16. AttemptCovers'
    BY <1>2, <1>6 DEF AttemptCovers, Opening
<1>17. Reachable'
    <2>1. ~Unmarked
        BY <1>2 DEF Unmarked
    <2>2. \A f \in Fills : /\ Safe(f) \/ Awaited(f) \/ made[f] >= watermark.instant - Overlap
                           /\ Safe(f) \/ Awaited(f) \/ made[f] >= now - Overlap
        BY <2>1 DEF RecoveryInv, Reachable
    <2>3. ASSUME NEW f \in Fills
          PROVE  /\ Safe(f)' \/ Awaited(f)' \/ made[f] >= watermark'.instant - Overlap
                 /\ Safe(f)' \/ Awaited(f)' \/ made[f] >= now - Overlap
        <3>1. CASE Safe(f) \/ Awaited(f)
            BY <1>10, <3>1
        <3>2. CASE ~(Safe(f) \/ Awaited(f))
            BY <1>8, <2>2, <3>2
        <3> QED
            BY <3>1, <3>2
    <2> QED
        BY <1>2, <1>14, <2>3 DEF Reachable
<1> QED
    BY <1>9, <1>11, <1>12, <1>13, <1>15, <1>16, <1>17 DEF RecoveryInv

\* The watermark moves to now with an event that is not overdue: what the stream
\* has not brought by then is no earlier than that event.
LEMMA DeliverWireKeepsInv ==
    ASSUME RecoveryInv, Margins, Deliver, pending = <<>>
    PROVE  RecoveryInv'
<1>1. PICK item : item = Head(pending \o wire)
    OBVIOUS
<1>2. /\ now' = now /\ offset' = offset /\ setting' = setting /\ retention' = retention
      /\ made' = made /\ attempt' = attempt /\ phase = "streaming"
      /\ pending' = <<>> /\ wire' = Tail(wire) /\ pending \o wire # <<>>
      /\ seen' = IF item.kind = "Fill" /\ ~IsDuplicate(item) THEN Record(item.fill) ELSE seen
      /\ delivered' = IF item.kind = "Fill" /\ ~IsDuplicate(item)
                      THEN Append(delivered, item.fill) ELSE delivered
      /\ gaps' = IF item.kind = "Gaps" THEN gaps \cup item.gaps ELSE gaps
      /\ watermark' = IF IsDuplicate(item) THEN watermark ELSE AfterDelivery(watermark, item)
      /\ phase' = IF item.kind = "End" THEN "down" ELSE phase
      /\ link' = IF item.kind = "End" THEN "none" ELSE link
    BY <1>1 DEF Deliver, clock, venue
<1>3. /\ wire \in Seq(Event) /\ Len(wire) \in Nat \ {0} /\ 1 \in 1..Len(wire)
      /\ item = wire[1]
    <2>1. wire \in Seq(Event)
        BY DEF RecoveryInv, StreamOK
    <2>2. pending \o wire = wire
        BY <2>1
    <2>3. wire # <<>> /\ item = Head(wire)
        BY <1>1, <1>2, <2>2
    <2> QED
        BY <2>1, <2>3
<1>4. IsEvent(item)
    BY <1>3 DEF RecoveryInv, StreamOK
<1>5. /\ wire' \in Seq(Event) /\ Len(wire') = Len(wire) - 1
      /\ \A i \in 1..Len(wire') : i + 1 \in 1..Len(wire) /\ wire'[i] = wire[i + 1]
    BY <1>2, <1>3
<1>6. /\ now \in Nat /\ Overlap \in Nat /\ item.time \in Nat /\ item.time >= now - Overlap
      /\ \A event : IsEvent(event) => IsEvent(event)'
    <2>1. item.time \in Nat
        BY <1>4, EventShape DEF IsEvent
    <2>2. now \in Nat /\ Overlap \in Nat
        BY LimitAssumption, ItemsAreEvents DEF RecoveryInv
    <2>3. item.time >= now - Overlap
        BY <1>2, <1>3 DEF RecoveryInv, Timely
    <2> QED
        BY <1>2, <2>1, <2>2, <2>3, EventStays
<1>7. /\ IsMark(watermark)'
      /\ watermark' = watermark \/ (item.kind # "End" /\ watermark'.instant = now)
    BY <1>2, <1>4, WatermarkMoves DEF RecoveryInv, WatermarkOK, Unmarked
<1>8. /\ DeliveryOK' /\ NoFillTwice'
      /\ \A f \in Fills :
            \/ Safe(f)
            \/ item.kind = "Fill" /\ item.fill = f
            \/ item.kind = "Gaps" /\ \E gap \in item.gaps : made[f] \in gap.start..gap.end
            => Safe(f)'
    BY <1>2, <1>4, DeliveryIsOnce
<1>9. ClocksOK' /\ AttemptOK' /\ WatermarkOK'
    BY <1>2, <1>7 DEF RecoveryInv, ClocksOK, AttemptOK, WatermarkOK, Fills
<1>10. StreamOK'
    <2>1. \A i \in 1..Len(wire') : IsEvent(wire[i])'
        <3> TAKE i \in 1..Len(wire')
        <3>1. IsEvent(wire'[i])
            BY <1>5 DEF RecoveryInv, StreamOK
        <3> QED
            BY <1>6, <3>1
    <2>2. ASSUME NEW i \in 1..Len(wire'), NEW j \in 1..Len(wire'), i <= j
          PROVE  wire'[i].time <= wire'[j].time
        <3>1. /\ i + 1 \in 1..Len(wire) /\ wire'[i] = wire[i + 1]
              /\ j + 1 \in 1..Len(wire) /\ wire'[j] = wire[j + 1]
            BY <1>5
        <3>2. i + 1 <= j + 1
            BY <2>2
        <3> QED
            BY <3>1, <3>2 DEF RecoveryInv, StreamOK
    <2> QED
        BY <1>2, <1>5, <2>1, <2>2 DEF RecoveryInv, StreamOK
<1>11. Timely'
    <2>1. phase' = "streaming" => \A i \in 1..Len(wire') : wire'[i].time >= now - Overlap
        BY <1>2, <1>5 DEF RecoveryInv, Timely
    <2> QED
        BY <1>2, <2>1 DEF Timely, Opening
<1>12. Fills' = Fills /\ \A f \in Fills : made[f] \in Nat
    BY <1>2, <1>6 DEF Fills, RecoveryInv, ClocksOK
<1>13. \A f \in Fills : Safe(f) \/ OnWire(f) \/ Broken(f)
    BY <1>2 DEF RecoveryInv, StreamCovers, Awaited
<1>14. StreamCovers'
    <2>1. ASSUME item.kind # "End", NEW f \in Fills
          PROVE  Safe(f)' \/ OnWire(f)' \/ Broken(f)'
        <3>1. CASE Safe(f)
            BY <1>8, <3>1
        <3>2. CASE OnWire(f)
            <4>1. PICK i \in 1..Len(wire) : wire[i].kind = "Fill" /\ wire[i].fill = f
                BY <3>2 DEF OnWire
            <4>2. CASE i = 1
                BY <1>3, <1>8, <4>1, <4>2
            <4>3. CASE i # 1
                <5>1. i - 1 \in 1..Len(wire') /\ (i - 1) + 1 = i
                    BY <1>3, <1>5, <4>3
                <5> QED
                    BY <1>5, <4>1, <5>1 DEF OnWire
            <4> QED
                BY <4>2, <4>3
        <3>3. CASE Broken(f)
            BY <1>2, <1>5, <2>1, <3>3 DEF Broken
        <3> QED
            BY <1>13, <3>1, <3>2, <3>3
    <2> QED
        BY <1>2, <1>12, <2>1 DEF StreamCovers
<1>15. AttemptCovers'
    BY <1>2 DEF AttemptCovers, Opening
<1>16. Reachable'
    <2>1. \A f \in Fills : Safe(f) => Safe(f)'
        BY <1>8
    <2>2. CASE watermark' = watermark
        <3>1. \A f \in Fills : Safe(f) \/ made[f] >= watermark.instant - Overlap
            BY <1>2 DEF RecoveryInv, Reachable, Unmarked, Awaited
        <3> QED
            BY <1>2, <1>12, <2>1, <2>2, <3>1 DEF Reachable
    <2>3. CASE item.kind # "End" /\ watermark'.instant = now
        <3>1. ASSUME NEW f \in Fills
              PROVE  Safe(f) \/ made[f] >= now - Overlap
            <4>1. OnWire(f) => made[f] >= now - Overlap
                BY <1>2 DEF OnWire, RecoveryInv, Timely, StreamOK, IsEvent
            <4>2. Broken(f) => made[f] >= item.time
                BY <1>3, <1>6, <1>12, <2>3 DEF Broken
            <4> QED
                BY <1>6, <1>12, <1>13, <4>1, <4>2
        <3> QED
            BY <1>2, <1>12, <2>1, <2>3, <3>1 DEF Reachable
    <2> QED
        BY <1>7, <2>2, <2>3
<1> QED
    BY <1>8, <1>9, <1>10, <1>11, <1>14, <1>15, <1>16 DEF RecoveryInv

-----------------------------------------------------------------------------
(* The theorems.                                                           *)

LEMMA InitInv ==
    ASSUME Init, Margins
    PROVE  RecoveryInv
<1>1. /\ now = 0 /\ setting \in Settings /\ offset \in setting.offsets
      /\ retention \in setting.retentions /\ made = <<>> /\ link = "up" /\ wire = <<>>
      /\ phase = "snapshot" /\ attempt = FirstAttempt /\ pending = <<>>
      /\ watermark = NoWatermark /\ seen = <<>> /\ delivered = <<>> /\ gaps = {}
    BY DEF Init
<1>2. setting \in Setting
    BY <1>1, SettingsAssumption
<1>3. /\ MaxTime \in Nat /\ MaxSkew \in Nat /\ MaxOpening \in Nat /\ MaxRecent \in Nat \ {0}
      /\ MaxSpan \in Nat
    BY <1>2, LimitAssumption DEF Setting, MaxSpan
<1>4. ClocksOK
    <2>1. offset \in -MaxSkew..MaxSkew
        BY <1>1 DEF Margins
    <2>2. retention \in Nat \cup {Unlimited}
        BY <1>1, <1>2 DEF Setting
    <2> QED
        BY <1>1, <1>2, <1>3, <2>1, <2>2 DEF ClocksOK
<1>5. Fills = {}
    BY <1>1 DEF Fills
<1>6. /\ FirstAttempt = [began |-> 0, beganHost |-> HostTime, start |-> 0, end |-> 0, pages |-> 0,
                         cursor |-> Greater(0, 0 - MaxSpan), fills |-> {}, gaps |-> {}]
      /\ Greater(0, 0 - MaxSpan) \in Int /\ HostTime \in Int /\ HostTime <= MaxSkew
    <2>1. FirstAttempt = [began |-> now, beganHost |-> HostTime, start |-> 0, end |-> 0,
                          pages |-> 0, cursor |-> Greater(0, 0 - MaxSpan), fills |-> {},
                          gaps |-> {}]
        BY DEF FirstAttempt, Attempt
    <2>2. Greater(0, 0 - MaxSpan) \in Int
        BY <1>3 DEF Greater
    <2>3. HostTime \in Int /\ HostTime <= MaxSkew
        BY <1>1, <1>3, <1>4 DEF HostTime, ClocksOK
    <2> QED
        BY <1>1, <2>1, <2>2, <2>3
<1>7. AttemptOK
    <2>1. attempt \in [began : 0..now, beganHost : Int, start : Int, end : Int, pages : Nat,
                       cursor : Int, fills : SUBSET Fills, gaps : SUBSET Span]
        BY <1>1, <1>6
    <2> QED
        BY <1>1, <1>3, <1>6, <2>1 DEF AttemptOK
<1>8. StreamOK /\ WatermarkOK
    BY <1>1 DEF StreamOK, WatermarkOK, Unmarked
<1>9. DeliveryOK /\ NoFillTwice
    BY <1>1, <1>3 DEF DeliveryOK, NoFillTwice
<1>10. Timely
    BY <1>1, <1>3, <1>6 DEF Timely, Opening
<1>11. StreamCovers /\ AttemptCovers /\ Reachable
    BY <1>5 DEF StreamCovers, AttemptCovers, Reachable
<1> QED
    BY <1>4, <1>7, <1>8, <1>9, <1>10, <1>11 DEF RecoveryInv

LEMMA NextKeepsInv ==
    ASSUME RecoveryInv, Margins, [Next]_vars
    PROVE  RecoveryInv'
<1>1. CASE UNCHANGED vars
    <2>1. /\ now' = now /\ offset' = offset /\ setting' = setting /\ retention' = retention
          /\ made' = made /\ link' = link /\ wire' = wire /\ phase' = phase
          /\ attempt' = attempt /\ pending' = pending /\ watermark' = watermark
          /\ seen' = seen /\ delivered' = delivered /\ gaps' = gaps
        BY <1>1 DEF vars, clock, venue, output
    <2>2. ClocksOK' /\ StreamOK' /\ AttemptOK' /\ WatermarkOK' /\ DeliveryOK'
        BY <2>1 DEF RecoveryInv, ClocksOK, StreamOK, AttemptOK, WatermarkOK, Unmarked, DeliveryOK,
                    IsMark, IsEvent, Fills
    <2>3. Timely' /\ StreamCovers' /\ AttemptCovers' /\ Reachable' /\ NoFillTwice'
        BY <2>1 DEF RecoveryInv, Timely, StreamCovers, AttemptCovers, Reachable, NoFillTwice,
                    Unmarked, Opening, Safe, IsDelivered, IsReported, Awaited, OnWire, Broken,
                    Covered, Fills
    <2> QED
        BY <2>2, <2>3 DEF RecoveryInv
<1>2. CASE VenueFills
    BY <1>2, VenueFillsKeepsInv
<1>3. CASE VenueReports
    BY <1>3, VenueReportsKeepsInv
<1>4. CASE Break
    BY <1>4, BreakKeepsInv
<1>5. CASE StepHostClock
    BY <1>5, StepHostClockKeepsInv
<1>6. CASE Tick
    BY <1>6, TickKeepsInv
<1>7. CASE Subscribe
    BY <1>7, SubscribeKeepsInv
<1>8. CASE ReadToEnd
    BY <1>8, ReadToEndKeepsInv
<1>9. CASE FailRead
    BY <1>9, FailReadKeepsInv
<1>10. CASE ReadNoFurther
    BY <1>10, ReadNoFurtherKeepsInv
<1>11. ASSUME NEW resume \in 0..now, ReadUpTo(resume)
       PROVE  RecoveryInv'
    <2>1. resume \in Int
        OBVIOUS
    <2> QED
        BY <1>11, <2>1, ReadUpToKeepsInv
<1>12. CASE Open
    BY <1>12, OpenKeepsInv
<1>13. CASE FailOpen
    BY <1>13, FailOpenKeepsInv
<1>14. CASE Deliver
    BY <1>14, DeliverPendingKeepsInv, DeliverWireKeepsInv
<1>15. CASE Rest
    BY <1>1, <1>15 DEF Rest
<1> QED
    BY <1>1, <1>2, <1>3, <1>4, <1>5, <1>6, <1>7, <1>8, <1>9, <1>10, <1>11, <1>12, <1>13, <1>14,
       <1>15 DEF Next

\* Every state the recovery reaches satisfies the inductive invariant.
THEOREM Invariance ==
    ASSUME Margins
    PROVE  Spec => []RecoveryInv
<1>1. Init => RecoveryInv
    BY InitInv
<1>2. RecoveryInv /\ [Next]_vars => RecoveryInv'
    BY NextKeepsInv
<1> QED
    BY <1>1, <1>2, PTL DEF Spec

\* The recovery's state has its types: the deduper never grows past its size, and
\* nothing that was read waits while the stream is not open.
THEOREM TypeCorrect ==
    ASSUME Margins
    PROVE  Spec => []RecoveryTypeOK
<1>1. RecoveryInv => RecoveryTypeOK
    <2> SUFFICES ASSUME RecoveryInv
                 PROVE  RecoveryTypeOK
        OBVIOUS
    <2>1. /\ setting \in Settings /\ now \in 0..MaxTime /\ offset \in setting.offsets
          /\ made \in Seq(0..now)
        BY DEF RecoveryInv, ClocksOK
    <2>2. /\ link \in {"none", "up", "dead"}
          /\ phase \in {"down", "reading", "snapshot", "streaming"}
          /\ phase = "down" <=> link = "none"
          /\ pending # <<>> => phase = "streaming"
        BY DEF RecoveryInv, StreamOK
    <2>3. \/ watermark = NoWatermark
          \/ /\ watermark.time \in Int /\ watermark.instant \in 0..now
             /\ watermark.sample \in Sample \cup {NoSample}
        BY DEF RecoveryInv, WatermarkOK, Unmarked, IsMark
    <2>4. /\ seen \in Seq(Fills) /\ Len(seen) <= MaxRecent /\ delivered \in Seq(Fills)
          /\ \A gap \in gaps : gap \in Span
        BY DEF RecoveryInv, DeliveryOK
    <2> QED
        BY <2>1, <2>2, <2>3, <2>4 DEF RecoveryTypeOK
<1> QED
    BY <1>1, Invariance, PTL

\* "Whatever it could not read is a gap in the result": once a stream is in step
\* with the venue, every fill has been delivered or lies in a span that was
\* reported, whatever broke, failed or was cut before.
THEOREM NothingLostInSilence ==
    ASSUME Margins
    PROVE  Spec => []NoSilentLoss
<1>1. RecoveryInv => NoSilentLoss
    BY DEF RecoveryInv, StreamCovers, NoSilentLoss, InSync, Safe, Awaited, OnWire, Broken
<1> QED
    BY <1>1, Invariance, PTL

\* "A fill it reads that the new stream also delivers is delivered once", as long
\* as the deduper remembers it.
THEOREM DeliveredOnce ==
    ASSUME Margins
    PROVE  Spec => []NoFillTwice
<1>1. RecoveryInv => NoFillTwice
    BY DEF RecoveryInv
<1> QED
    BY <1>1, Invariance, PTL

-----------------------------------------------------------------------------
(* Where reads are not limited, nothing is reported as not read.           *)

\* The watermark's time is within the skew of its instant, and its sample no later.
IsClose(mark) ==
    /\ mark.time >= mark.instant - MaxSkew
    /\ mark.sample # NoSample => mark.sample.received <= mark.instant

WholeReads ==
    Unlimiting =>
        /\ retention = Unlimited
        /\ gaps = {} /\ attempt.gaps = {}
        /\ \A i \in 1..Len(pending) : pending[i].kind # "Gaps"
        /\ \A i \in 1..Len(wire) : wire[i].kind # "Gaps"
        /\ attempt.beganHost >= attempt.began - MaxSkew
        /\ Unmarked \/ IsClose(watermark)

\* From a watermark that is close, a read spans little more than the run.
LEMMA ReadFits ==
    ASSUME ClocksOK, IsMark(watermark), IsClose(watermark), Unlimiting
    PROVE  /\ Attempt(ReadFrom(watermark), ReadTo(watermark)).gaps = {}
           /\ Attempt(ReadFrom(watermark), ReadTo(watermark)).began = now
           /\ Attempt(ReadFrom(watermark), ReadTo(watermark)).beganHost = HostTime
<1>1. /\ now \in Nat /\ now <= MaxTime /\ MaxTime \in Nat /\ Overlap \in Nat /\ MaxSkew \in Nat
      /\ MaxSpan \in Nat /\ MaxSpan >= MaxTime + Overlap + 4 * MaxSkew
      /\ HostTime \in Int /\ HostTime <= now + MaxSkew
      /\ ReadFrom(watermark) \in Int /\ ReadTo(watermark) \in Int
    <2>1. now \in Nat /\ now <= MaxTime /\ MaxTime \in Nat /\ Overlap \in Nat /\ MaxSkew \in Nat
        BY LimitAssumption DEF ClocksOK
    <2>2. MaxSpan \in Nat
        BY DEF ClocksOK, Setting, MaxSpan
    <2>3. MaxSpan >= MaxTime + Overlap + 4 * MaxSkew
        BY DEF Unlimiting
    <2>4. /\ HostTime \in Int /\ HostTime <= now + MaxSkew
          /\ ReadFrom(watermark) \in Int /\ ReadTo(watermark) \in Int
        BY ReadSpansTheOverlap
    <2> QED
        BY <2>1, <2>2, <2>3, <2>4
<1>2. /\ watermark.time \in Int /\ watermark.instant \in Nat /\ watermark.instant <= now
      /\ watermark.time <= watermark.instant + MaxSkew
      /\ watermark.time >= watermark.instant - MaxSkew
    BY <1>1 DEF IsMark, IsClose
<1>3. ReadTo(watermark) - ReadFrom(watermark) <= MaxTime + Overlap + 4 * MaxSkew
    <2>1. CASE watermark.sample = NoSample
        <3>1. ReadFrom(watermark) = watermark.time - MaxSkew - Overlap
            BY <2>1 DEF ReadFrom
        <3>2. ReadTo(watermark) =
                  Greater(Greater(HostTime, HostTime), watermark.time + (now - watermark.instant))
                  + MaxSkew
            BY <2>1 DEF ReadTo
        <3> QED
            BY <1>1, <1>2, <3>1, <3>2 DEF Greater
    <2>2. CASE watermark.sample # NoSample
        <3>1. /\ watermark.sample.stamp \in Nat /\ watermark.sample.received \in Nat
              /\ watermark.sample.stamp <= watermark.sample.received
              /\ watermark.sample.received <= watermark.instant
            BY <2>2 DEF IsMark, IsClose, Sample
        <3>2. ReadFrom(watermark) =
                  Lesser(watermark.sample.stamp + (watermark.instant - watermark.sample.received),
                         watermark.time) - Overlap
            BY <2>2 DEF ReadFrom, EarliestAt
        <3>3. ReadTo(watermark) =
                  Greater(Greater(watermark.sample.stamp + (now - watermark.sample.received), HostTime),
                          watermark.time + (now - watermark.instant)) + MaxSkew
            BY <2>2 DEF ReadTo, EarliestAt
        <3> QED
            BY <1>1, <1>2, <3>1, <3>2, <3>3 DEF Greater, Lesser
    <2> QED
        BY <2>1, <2>2
<1>4. ~(ReadFrom(watermark) < ReadTo(watermark) - MaxSpan)
    BY <1>1, <1>3
<1> QED
    BY <1>4 DEF Attempt

\* A delivery leaves the watermark close.
LEMMA MovedIsClose ==
    ASSUME ClocksOK, NEW mark, IsMark(mark), IsClose(mark), NEW item
    PROVE  IsClose(AfterDelivery(mark, item))
<1>1. /\ now \in Nat /\ offset \in Int /\ offset >= -MaxSkew /\ MaxSkew \in Nat
      /\ HostTime \in Int /\ HostTime >= now - MaxSkew
    BY LimitAssumption DEF ClocksOK, HostTime
<1>2. mark.instant \in Nat /\ mark.instant <= now
    BY <1>1 DEF IsMark
<1>3. mark.sample # NoSample => mark.sample.received \in Nat /\ mark.sample.received <= now
    BY <1>1, <1>2 DEF IsMark, IsClose, Sample
<1>4. ASSUME NEW stamp, Observe(mark.sample, stamp) # NoSample
      PROVE  Observe(mark.sample, stamp).received <= now
    BY <1>1, <1>3, <1>4 DEF Observe
<1>5. /\ Moved(mark, item).time = HostTime /\ Moved(mark, item).instant = now
      /\ Moved(mark, item).sample # NoSample => Moved(mark, item).sample.received <= now
    BY <1>3, <1>4 DEF Moved
<1> QED
    BY <1>1, <1>5 DEF AfterDelivery, IsClose

LEMMA OpenIsWhole ==
    ASSUME RecoveryInv, WholeReads, Unlimiting, Open
    PROVE  /\ \A i \in 1..Len(pending') : pending'[i].kind # "Gaps"
           /\ IsClose(watermark')
<1>1. /\ pending' = Ordered(attempt.fills) \o <<>> \o <<OtherItem>>
      /\ attempt.fills \in SUBSET Fills /\ ClocksOK
    BY DEF Open, WholeReads, RecoveryInv, AttemptOK
<1>2. /\ Ordered(attempt.fills) \in Seq(Event) /\ OtherItem \in Event /\ OtherItem.kind = "Other"
      /\ \A i \in 1..Len(Ordered(attempt.fills)) : Ordered(attempt.fills)[i].kind = "Fill"
    BY <1>1, OrderedIsWhole, ItemsAreEvents DEF IsEvent
<1>3. pending' = Append(Ordered(attempt.fills), OtherItem)
    BY <1>1, <1>2
<1>4. \A i \in 1..Len(pending') : pending'[i].kind # "Gaps"
    BY <1>2, <1>3
<1>5. /\ attempt.began \in Nat /\ attempt.beganHost \in Int
      /\ attempt.beganHost >= attempt.began - MaxSkew
    BY LimitAssumption DEF RecoveryInv, ClocksOK, AttemptOK, WholeReads
<1>6. IsClose(watermark')
    BY <1>5 DEF Open, WholeReads, Unmarked, Opened, IsClose
<1> QED
    BY <1>4, <1>6

LEMMA DeliverIsWhole ==
    ASSUME RecoveryInv, WholeReads, Unlimiting, Deliver
    PROVE  /\ gaps' = {}
           /\ \A i \in 1..Len(pending') : pending'[i].kind # "Gaps"
           /\ \A i \in 1..Len(wire') : wire'[i].kind # "Gaps"
           /\ IsClose(watermark')
<1> DEFINE item == Head(pending \o wire)
<1>1. /\ pending \in Seq(Event) /\ wire \in Seq(Event) /\ ClocksOK
      /\ phase = "streaming" /\ pending \o wire # <<>> /\ IsMark(watermark) /\ gaps = {}
      /\ \A i \in 1..Len(pending) : pending[i].kind # "Gaps"
      /\ \A i \in 1..Len(wire) : wire[i].kind # "Gaps"
    BY DEF RecoveryInv, StreamOK, WatermarkOK, Unmarked, Deliver, WholeReads
<1>2. item.kind # "Gaps"
    <2>1. CASE pending = <<>>
        <3>1. pending \o wire = wire
            BY <1>1, <2>1
        <3>2. wire # <<>> /\ item = wire[1] /\ 1 \in 1..Len(wire)
            BY <1>1, <3>1
        <3> QED
            BY <1>1, <3>2
    <2>2. CASE pending # <<>>
        <3>1. item = pending[1] /\ 1 \in 1..Len(pending)
            BY <1>1, <2>2
        <3> QED
            BY <1>1, <3>1
    <2> QED
        BY <2>1, <2>2
<1>3. gaps' = {}
    BY <1>1, <1>2 DEF Deliver
<1>4. \A i \in 1..Len(pending') : pending'[i].kind # "Gaps"
    BY <1>1 DEF Deliver
<1>5. \A i \in 1..Len(wire') : wire'[i].kind # "Gaps"
    <2>1. CASE pending = <<>>
        <3>1. wire # <<>> /\ wire' = Tail(wire)
            BY <1>1, <2>1 DEF Deliver
        <3> QED
            BY <1>1, <3>1
    <2>2. CASE pending # <<>>
        BY <1>1, <2>2 DEF Deliver
    <2> QED
        BY <2>1, <2>2
<1>6. watermark' = watermark \/ watermark' = AfterDelivery(watermark, item)
    BY DEF Deliver
<1>7. IsClose(watermark)
    BY <1>1 DEF WholeReads, Unmarked
<1> QED
    BY <1>1, <1>3, <1>4, <1>5, <1>6, <1>7, MovedIsClose

LEMMA WholeReadsStep ==
    ASSUME RecoveryInv, Margins, WholeReads, [Next]_vars
    PROVE  WholeReads'
<1> SUFFICES ASSUME Unlimiting'
             PROVE  /\ retention' = Unlimited
                    /\ gaps' = {} /\ attempt'.gaps = {}
                    /\ \A i \in 1..Len(pending') : pending'[i].kind # "Gaps"
                    /\ \A i \in 1..Len(wire') : wire'[i].kind # "Gaps"
                    /\ attempt'.beganHost >= attempt'.began - MaxSkew
                    /\ Unmarked' \/ IsClose(watermark')
    BY DEF WholeReads, IsClose
<1>1. /\ setting' = setting /\ retention' = retention
    BY DEF Next, VenueFills, VenueReports, Break, StepHostClock, Tick, Subscribe, ReadToEnd, FailRead,
           ReadNoFurther, ReadUpTo, EndRead, Open, FailOpen, Deliver, Rest, venue, vars
<1>2. Unlimiting
    BY <1>1 DEF Unlimiting, Shortfalls, MaxSpan
<1>3. /\ retention = Unlimited /\ gaps = {} /\ attempt.gaps = {}
      /\ \A i \in 1..Len(pending) : pending[i].kind # "Gaps"
      /\ \A i \in 1..Len(wire) : wire[i].kind # "Gaps"
      /\ attempt.beganHost >= attempt.began - MaxSkew
      /\ Unmarked \/ IsClose(watermark)
    BY <1>2 DEF WholeReads
<1>4. /\ ClocksOK /\ wire \in Seq(Event) /\ pending \in Seq(Event)
      /\ now \in Nat /\ MaxSkew \in Nat /\ offset \in Int /\ offset >= -MaxSkew
      /\ HostTime \in Int /\ HostTime >= now - MaxSkew
      /\ OtherItem.kind = "Other" /\ EndItem.kind = "End"
      /\ OtherItem \in Event /\ EndItem \in Event
    BY ItemsAreEvents, LimitAssumption DEF RecoveryInv, StreamOK, ClocksOK, HostTime, IsEvent
<1> DEFINE Kept == /\ gaps' = {} /\ attempt'.gaps = {}
                   /\ attempt'.beganHost >= attempt'.began - MaxSkew
                   /\ \A i \in 1..Len(pending') : pending'[i].kind # "Gaps"
           Streamed == \A i \in 1..Len(wire') : wire'[i].kind # "Gaps"
           Marked == Unmarked' \/ IsClose(watermark')
<1>5. FirstAttempt.gaps = {} /\ FirstAttempt.began = now /\ FirstAttempt.beganHost = HostTime
    BY DEF FirstAttempt, Attempt
<1>6. CASE VenueFills
    <2>1. Kept /\ Marked
        BY <1>3, <1>6 DEF VenueFills, output, Unmarked
    <2>2. ASSUME NEW i \in 1..Len(wire') PROVE wire'[i].kind # "Gaps"
        <3> DEFINE e == FillItem(Len(made) + 1, now)
        <3>1. e.kind = "Fill"
            BY DEF FillItem
        <3> HIDE DEF e
        <3>2. wire' = wire \/ wire' = Append(wire, e)
            BY <1>6 DEF VenueFills, e
        <3>3. (i \in 1..Len(wire) /\ wire'[i] = wire[i]) \/ wire'[i] = e
            BY <1>4, <2>2, <3>2
        <3> QED
            BY <1>3, <3>1, <3>3
    <2> QED
        BY <1>1, <1>3, <2>1, <2>2
<1>7. CASE VenueReports
    <2>1. Kept /\ Marked
        BY <1>3, <1>7 DEF VenueReports, output, Unmarked
    <2>2. wire' = Append(wire, OtherItem)
        BY <1>7 DEF VenueReports
    <2>3. Streamed
        BY <1>3, <1>4, <2>2
    <2> QED
        BY <1>1, <1>3, <2>1, <2>3
<1>8. CASE Break
    <2>1. Kept /\ Marked
        BY <1>3, <1>8 DEF Break, output, Unmarked
    <2>2. PICK arrived \in 0..Len(wire) : wire' = Append(SubSeq(wire, 1, arrived), EndItem)
        BY <1>8 DEF Break
    <2>3. Streamed
        BY <1>3, <1>4, <2>2
    <2> QED
        BY <1>1, <1>3, <2>1, <2>3
<1>9. CASE StepHostClock \/ Tick \/ UNCHANGED vars \/ Rest
    <2>1. /\ gaps' = gaps /\ attempt' = attempt /\ pending' = pending /\ wire' = wire
          /\ watermark' = watermark /\ phase' = phase
        BY <1>9 DEF StepHostClock, Tick, Rest, vars, output
    <2> QED
        BY <1>1, <1>3, <2>1 DEF Unmarked
<1>10. CASE Subscribe
    <2>1. /\ phase = "down" /\ wire' = <<>> /\ pending' = pending /\ gaps' = gaps
          /\ watermark' = watermark /\ attempt' = Attempt(ReadFrom(watermark), ReadTo(watermark))
        BY <1>10 DEF Subscribe, output
    <2>2. IsMark(watermark) /\ IsClose(watermark)
        BY <1>3, <2>1 DEF RecoveryInv, WatermarkOK, Unmarked
    <2>3. attempt'.gaps = {} /\ attempt'.began = now /\ attempt'.beganHost = HostTime
        BY <1>2, <1>4, <2>1, <2>2, ReadFits
    <2> QED
        BY <1>1, <1>3, <1>4, <2>1, <2>2, <2>3
<1>11. CASE ReadToEnd \/ FailRead \/ ReadNoFurther \/ \E resume \in 0..now : ReadUpTo(resume)
    <2>1. Shortfalls = {} /\ NoLongerHeld = {}
        BY <1>2, <1>3 DEF Unlimiting, NoLongerHeld
    <2>2. PICK found : EndRead(found, {})
        BY <1>11, <2>1 DEF ReadToEnd, FailRead, ReadNoFurther, ReadUpTo, Reading
    <2>3. /\ attempt'.gaps = attempt.gaps /\ attempt'.began = attempt.began
          /\ attempt'.beganHost = attempt.beganHost
        BY <2>2 DEF EndRead, RecoveryInv, AttemptOK
    <2>4. /\ phase = "reading" /\ wire' = wire /\ pending' = pending /\ gaps' = gaps
          /\ watermark' = watermark
        BY <1>11, <2>1, <2>2 DEF EndRead, output, ReadToEnd, Reading, FailRead, ReadNoFurther, ReadUpTo
    <2>5. IsClose(watermark)
        BY <1>3, <2>4 DEF Unmarked
    <2> QED
        BY <1>1, <1>3, <2>3, <2>4, <2>5
<1>12. CASE Open
    <2>1. gaps' = gaps /\ wire' = wire /\ attempt' = FirstAttempt
        BY <1>12 DEF Open
    <2> QED
        BY <1>1, <1>2, <1>3, <1>4, <1>5, <1>12, <2>1, OpenIsWhole
<1>13. CASE FailOpen
    <2>1. /\ gaps' = gaps /\ wire' = <<>> /\ attempt' = FirstAttempt /\ pending' = pending
          /\ watermark' = watermark /\ watermark # NoWatermark
        BY <1>13 DEF FailOpen, output
    <2> QED
        BY <1>1, <1>3, <1>4, <1>5, <2>1 DEF Unmarked
<1>14. CASE Deliver
    <2>1. attempt' = attempt
        BY <1>14 DEF Deliver
    <2> QED
        BY <1>1, <1>2, <1>3, <1>14, <2>1, DeliverIsWhole
<1> QED
    BY <1>6, <1>7, <1>8, <1>9, <1>10, <1>11, <1>12, <1>13, <1>14 DEF Next

\* Where no read fails or is cut, every fill is delivered once the stream is in
\* step, whichever way the local clock differs from the venue's or steps, and
\* whenever the stream breaks.
THEOREM AllAreDelivered ==
    ASSUME Margins
    PROVE  Spec => []EveryFillDelivered
<1>1. Init /\ RecoveryInv => WholeReads
    <2> SUFFICES ASSUME Init, RecoveryInv, Unlimiting PROVE WholeReads
        BY DEF WholeReads
    <2>1. /\ now = 0 /\ retention \in setting.retentions /\ gaps = {} /\ attempt = FirstAttempt
          /\ pending = <<>> /\ wire = <<>> /\ Unmarked
        BY DEF Init, Unmarked
    <2>2. FirstAttempt.gaps = {} /\ FirstAttempt.began = now /\ FirstAttempt.beganHost = HostTime
        BY DEF FirstAttempt, Attempt
    <2>3. HostTime >= now - MaxSkew
        BY LimitAssumption DEF RecoveryInv, ClocksOK, HostTime
    <2>4. retention = Unlimited
        BY <2>1 DEF Unlimiting
    <2> QED
        BY <2>1, <2>2, <2>3, <2>4 DEF WholeReads
<1>2. RecoveryInv /\ WholeReads /\ [Next]_vars => WholeReads'
    BY WholeReadsStep
<1>3. RecoveryInv /\ WholeReads => EveryFillDelivered
    BY DEF RecoveryInv, StreamCovers, EveryFillDelivered, WholeReads, InSync, Safe, IsReported, Awaited,
           OnWire, Broken
<1> QED
    BY <1>1, <1>2, <1>3, Invariance, PTL DEF Spec
=============================================================================
