----------------------------- MODULE FillRecovery -----------------------------
(***************************************************************************)
(* The fills an account stream misses while it is down, and their          *)
(* recovery: the watermark and the read of rustrade/src/execution/         *)
(* backfill.rs, the re-opening of the stream in ExecutionManager::init     *)
(* (rustrade/src/execution/manager.rs), the fill deduplication of          *)
(* rustrade-execution/src/client/dedup.rs and the estimate of the venue's  *)
(* clock of client/venue_clock.rs.                                         *)
(*                                                                         *)
(* Time is counted on the venue's clock, and tokio's monotonic clock reads *)
(* the same: the allowance for drift between the two is left out, it only  *)
(* widens a read.  This host's wall clock differs from it by an offset,    *)
(* which can step.  Every fill is of one instrument.                       *)
(***************************************************************************)
EXTENDS Integers, Sequences, FiniteSets

CONSTANTS
    Settings,    \* what the venue, its client and the run may be like: see Setting
    Overlap,     \* FillRecoveryConfig::overlap
    MaxSkew,     \* FillRecoveryConfig::max_clock_skew
    MaxRecent,   \* DEDUP_CACHE_SIZE
    MaxDelay,    \* the longest delay between an event and its delivery
    MaxOpening,  \* the longest an attempt to open the stream takes
    MaxTime, MaxBreaks,  \* bounds of the instance
    Unlimited,   \* a venue that keeps every fill, or never says it does not
    NoWatermark, \* None of the Option<Watermark>
    NoSample     \* None of the Option<Sample>

\* The limits of one configuration, and the bounds of one run with it.
Setting ==
    [maxSpan    : Nat \ {0},   \* FillRecoveryConfig::max_span
     maxPages   : Nat \ {0},   \* FillRecoveryConfig::max_pages
     retentions : SUBSET (Nat \cup {Unlimited}),     \* how long the venue may keep a fill
     offsets    : SUBSET Int,  \* what the host's clock may be ahead of the venue's
     shortfalls : SUBSET {"fails", "stopsShort"},    \* what a call that reads fills may do instead
     maxFills   : Nat,
     maxOthers  : Nat]

ASSUME SettingsAssumption == \A setting \in Settings : setting \in Setting
ASSUME LimitAssumption ==
    /\ {Overlap, MaxSkew, MaxDelay, MaxOpening, MaxTime} \subseteq Nat
    /\ MaxRecent \in Nat \ {0}

VARIABLES
    setting,    \* one of Settings, for good
    now,        \* the venue's clock, and tokio's
    offset,     \* how far the host's clock is ahead
    retention,  \* how long the venue keeps a fill
    made,       \* when the venue made each fill, oldest first
    link,       \* the account stream: "none", "up" or "dead"
    wire,       \* what it has sent and the manager has not polled
    others,     \* how many events other than fills it has sent
    breaks,     \* how many times it broke or an attempt to open it failed
    phase,      \* "down", "reading", "snapshot" (being fetched) or "streaming"
    attempt,    \* the local state of the attempt to open it
    pending,    \* fills read, gaps and the snapshot, delivered before the wire
    watermark,
    seen,       \* the deduper's fills, least recent first
    delivered,  \* history: the fills delivered, in order
    gaps        \* history: the spans reported as not read

clock == <<now, offset>>
venue == <<setting, retention, made, others>>
output == <<watermark, seen, delivered, gaps>>
vars == <<clock, venue, link, wire, breaks, phase, attempt, pending, output>>

MaxSpan == setting.maxSpan
MaxPages == setting.maxPages
Shortfalls == setting.shortfalls

Fills == 1..Len(made)

HostTime == now + offset

FillItem(f, time) == [kind |-> "Fill", fill |-> f, time |-> time]
OtherItem == [kind |-> "Other", time |-> now]
EndItem == [kind |-> "End", time |-> now]
GapsItem(spans) == [kind |-> "Gaps", gaps |-> spans, time |-> now]

Gap(start, end) == [start |-> start, end |-> end]

Lesser(a, b) == IF a <= b THEN a ELSE b
Greater(a, b) == IF a >= b THEN a ELSE b

-----------------------------------------------------------------------------
(* The watermark.                                                          *)

\* VenueClock::earliest_at
EarliestAt(sample, instant) == sample.stamp + (instant - sample.received)

\* VenueClock::observe: the sample that bounds the venue's clock the latest.
Observe(sample, stamp) ==
    IF sample = NoSample \/ stamp > EarliestAt(sample, now)
    THEN [stamp |-> stamp, received |-> now]
    ELSE sample

Opened(time, instant) == [time |-> time, instant |-> instant, sample |-> NoSample]

\* Watermark::delivered.  The fill of an old event is not sampled.
Moved(mark, item) ==
    [time    |-> HostTime,
     instant |-> now,
     sample  |-> IF item.kind = "Fill" /\ HostTime - item.time < MaxSpan
                 THEN Observe(mark.sample, item.time)
                 ELSE mark.sample]

\* Mutant: the end of the stream moves the watermark.
AfterEvery(mark, item) == Moved(mark, item)

AfterDelivery(mark, item) == IF item.kind = "End" THEN mark ELSE Moved(mark, item)

\* Watermark::read_from
ReadFrom(mark) ==
    (IF mark.sample = NoSample THEN mark.time - MaxSkew
     ELSE Lesser(EarliestAt(mark.sample, mark.instant), mark.time)) - Overlap

\* Watermark::read_to
ReadTo(mark) ==
    LET countedOn == mark.time + (now - mark.instant)
        estimate  == IF mark.sample = NoSample THEN HostTime ELSE EarliestAt(mark.sample, now)
    IN Greater(Greater(estimate, HostTime), countedOn) + MaxSkew

-----------------------------------------------------------------------------
(* The venue and its stream.                                               *)

VenueFills ==
    /\ Len(made) < setting.maxFills
    /\ made' = Append(made, now)
    /\ wire' = IF link = "up" THEN Append(wire, FillItem(Len(made) + 1, now)) ELSE wire
    /\ UNCHANGED <<clock, setting, retention, others, link, breaks, phase, attempt, pending, output>>

\* A balance, an order or a notice.
VenueReports ==
    /\ link = "up"
    /\ others < setting.maxOthers
    /\ others' = others + 1
    /\ wire' = Append(wire, OtherItem)
    /\ UNCHANGED <<clock, setting, retention, made, link, breaks, phase, attempt, pending, output>>

\* The stream breaks: what had not arrived is lost, and it ends after what had.
Break ==
    /\ link = "up"
    /\ breaks < MaxBreaks
    /\ breaks' = breaks + 1
    /\ link' = "dead"
    /\ \E arrived \in 0..Len(wire) : wire' = Append(SubSeq(wire, 1, arrived), EndItem)
    /\ UNCHANGED <<clock, venue, phase, attempt, pending, output>>

StepHostClock ==
    /\ \E other \in setting.offsets \ {offset} : offset' = other
    /\ UNCHANGED <<now, venue, link, wire, breaks, phase, attempt, pending, output>>

\* Time does not pass an event that is due, nor an attempt that is overdue.
Tick ==
    /\ now < MaxTime
    /\ pending = <<>>
    /\ phase = "streaming" => \A i \in 1..Len(wire) : now < wire[i].time + MaxDelay
    /\ phase \in {"reading", "snapshot"} => now < attempt.began + MaxOpening
    /\ now' = now + 1
    /\ UNCHANGED <<offset, venue, link, wire, breaks, phase, attempt, pending, output>>

-----------------------------------------------------------------------------
(* Opening the stream: one attempt of the closure of ExecutionManager::init. *)

\* An attempt that reads [from, end]: backfill, up to its first call.
Attempt(from, end) ==
    LET oldest == end - MaxSpan IN
    [began |-> now, beganHost |-> HostTime, start |-> from, end |-> end, pages |-> 0,
     cursor |-> Greater(from, oldest),
     fills |-> {},
     gaps |-> IF from < oldest THEN {Gap(from, oldest - 1)} ELSE {}]

\* A first open reads nothing.
FirstAttempt == [Attempt(0, 0) EXCEPT !.gaps = {}]

\* The stream opens first, and the watermark of the stream before it places the
\* read.
Subscribe ==
    /\ phase = "down"
    /\ link' = "up"
    /\ wire' = <<>>
    /\ phase' = "reading"
    /\ attempt' = Attempt(ReadFrom(watermark), ReadTo(watermark))
    /\ UNCHANGED <<clock, venue, breaks, pending, output>>

\* The gap left by what the venue no longer keeps, which the first call reports.
NoLongerHeld ==
    IF attempt.pages = 0 /\ retention # Unlimited /\ now - retention > attempt.cursor
    THEN {Gap(attempt.cursor, Greater(now - retention - 1, attempt.cursor))}
    ELSE {}

\* The venue's fills of a span, as far as it keeps them.
Held(from, to) ==
    {f \in Fills : made[f] \in from..to /\ (retention = Unlimited \/ made[f] >= now - retention)}

Reading(shortfall) == phase = "reading" /\ shortfall \in Shortfalls

\* The read ends with fills `found` and gaps `cut`.
EndRead(found, cut) ==
    /\ attempt' = [attempt EXCEPT !.fills = @ \cup found, !.gaps = @ \cup cut]
    /\ phase' = "snapshot"
    /\ UNCHANGED <<clock, venue, link, wire, breaks, pending, output>>

\* A call of fetch_trades reads to the end of the span.
ReadToEnd ==
    /\ phase = "reading"
    /\ EndRead(Held(attempt.cursor, attempt.end), NoLongerHeld)

\* Mutant: a call that fails leaves no gap.
NothingUnread(from) == {}

Unread(from) == {Gap(from, attempt.end)}

\* It fails, or times out.
FailRead ==
    /\ Reading("fails")
    /\ EndRead({}, Unread(attempt.cursor))

\* It comes back no further than it started from: too many fills at one moment.
ReadNoFurther ==
    /\ Reading("stopsShort")
    /\ EndRead(Held(attempt.cursor, attempt.cursor), NoLongerHeld \cup Unread(attempt.cursor))

\* It stops at `resume`, where the next call reads on, unless it was the last one
\* allowed.  No client of a venue that forgets its fills stops short.
ReadUpTo(resume) ==
    /\ Reading("stopsShort")
    /\ retention = Unlimited
    /\ attempt.cursor < resume
    /\ IF attempt.pages + 1 >= MaxPages
       THEN EndRead(Held(attempt.cursor, resume - 1), NoLongerHeld \cup Unread(resume))
       ELSE /\ attempt' = [attempt EXCEPT !.fills = @ \cup Held(attempt.cursor, resume - 1),
                                          !.gaps = @ \cup NoLongerHeld,
                                          !.cursor = resume,
                                          !.pages = @ + 1]
            /\ UNCHANGED <<clock, venue, link, wire, breaks, phase, pending, output>>

\* Oldest first.  A fill two calls read is one here: deduplication drops the
\* second, right behind the first.
Ordered(fills) == [i \in 1..Cardinality(fills) |->
    LET f == CHOOSE f \in fills : Cardinality({g \in fills : g <= f}) = i IN FillItem(f, made[f])]

\* The snapshot is fetched: what was read is delivered, then the snapshot, then
\* the stream.
Open ==
    /\ phase = "snapshot"
    /\ phase' = "streaming"
    /\ watermark' = IF watermark = NoWatermark THEN Opened(attempt.beganHost, attempt.began)
                    ELSE watermark
    /\ pending' = Ordered(attempt.fills)
                  \o (IF attempt.gaps = {} THEN <<>> ELSE <<GapsItem(attempt.gaps)>>)
                  \o <<OtherItem>>
    /\ attempt' = FirstAttempt
    /\ UNCHANGED <<clock, venue, link, wire, breaks, seen, delivered, gaps>>

\* The snapshot cannot be fetched: the attempt is retried from the start.  A first
\* open that fails is not: there is then no manager.
FailOpen ==
    /\ phase = "snapshot"
    /\ watermark # NoWatermark
    /\ breaks < MaxBreaks
    /\ breaks' = breaks + 1
    /\ phase' = "down"
    /\ link' = "none"
    /\ wire' = <<>>
    /\ attempt' = FirstAttempt
    /\ UNCHANGED <<clock, venue, pending, output>>

-----------------------------------------------------------------------------
(* Delivery.                                                               *)

\* Mutant: a fill is never known as one seen before.
NeverDuplicate(item) == FALSE

\* AccountEventDeduper::is_duplicate
IsDuplicate(item) == item.kind = "Fill" /\ \E i \in 1..Len(seen) : seen[i] = item.fill

\* Mutant: the cache grows without a bound.
RecordUnbounded(fill) == Append(seen, fill)

\* The least recent of a full cache makes room.
Record(fill) == Append(IF Len(seen) = MaxRecent THEN Tail(seen) ELSE seen, fill)

\* The manager polls the next event: a duplicate fill is dropped before it can
\* move the watermark.
Deliver ==
    /\ phase = "streaming"
    /\ pending \o wire # <<>>
    /\ LET item == Head(pending \o wire) IN
        /\ seen' = IF item.kind = "Fill" /\ ~IsDuplicate(item) THEN Record(item.fill) ELSE seen
        /\ delivered' = IF item.kind = "Fill" /\ ~IsDuplicate(item)
                        THEN Append(delivered, item.fill) ELSE delivered
        /\ gaps' = IF item.kind = "Gaps" THEN gaps \cup item.gaps ELSE gaps
        /\ watermark' = IF IsDuplicate(item) THEN watermark ELSE AfterDelivery(watermark, item)
        /\ phase' = IF item.kind = "End" THEN "down" ELSE phase
        /\ link' = IF item.kind = "End" THEN "none" ELSE link
    /\ pending' = IF pending = <<>> THEN <<>> ELSE Tail(pending)
    /\ wire' = IF pending = <<>> THEN Tail(wire) ELSE wire
    /\ UNCHANGED <<clock, venue, breaks, attempt>>

-----------------------------------------------------------------------------

\* The stream is up and everything it brought has been delivered.
InSync == phase = "streaming" /\ link = "up" /\ pending = <<>> /\ wire = <<>>

\* The clock's bound is reached with nothing owed; any other stop would be a
\* deadlock.
Rest == InSync /\ UNCHANGED vars

\* The first attempt has opened the stream; what came before it is the
\* snapshot's to tell.
Init ==
    /\ now = 0
    /\ setting \in Settings
    /\ offset \in setting.offsets
    /\ retention \in setting.retentions
    /\ made = <<>>
    /\ link = "up" /\ wire = <<>> /\ others = 0 /\ breaks = 0
    /\ phase = "snapshot"
    /\ attempt = FirstAttempt
    /\ pending = <<>>
    /\ watermark = NoWatermark
    /\ seen = <<>> /\ delivered = <<>> /\ gaps = {}

Next ==
    \/ VenueFills \/ VenueReports \/ Break
    \/ StepHostClock \/ Tick
    \/ Subscribe \/ ReadToEnd \/ FailRead \/ ReadNoFurther
    \/ \E resume \in 0..now : ReadUpTo(resume)
    \/ Open \/ FailOpen \/ Deliver
    \/ Rest

Spec == Init /\ [][Next]_vars

-----------------------------------------------------------------------------
(* Correctness.                                                            *)

Span == [start : Int, end : Int]

Sample == [stamp : Nat, received : Nat]

\* Type correctness; only an open stream has fills read waiting to be delivered.
RecoveryTypeOK ==
    /\ setting \in Settings
    /\ now \in 0..MaxTime /\ offset \in setting.offsets
    /\ made \in Seq(0..now)
    /\ link \in {"none", "up", "dead"}
    /\ phase \in {"down", "reading", "snapshot", "streaming"}
    /\ watermark = NoWatermark
       \/ /\ watermark.time \in Int /\ watermark.instant \in 0..now
          /\ watermark.sample \in Sample \cup {NoSample}
    /\ seen \in Seq(Fills) /\ Len(seen) <= MaxRecent
    /\ delivered \in Seq(Fills)
    /\ \A gap \in gaps : gap \in Span
    /\ phase = "down" <=> link = "none"
    /\ pending # <<>> => phase = "streaming"

IsDelivered(f) == \E i \in 1..Len(delivered) : delivered[i] = f

IsReported(f) == \E gap \in gaps : made[f] \in gap.start..gap.end

\* "Whatever it could not read is a gap in the result": a fill is never lost in
\* silence, however often the stream breaks, reads fail and attempts are retried.
NoSilentLoss == InSync => \A f \in Fills : IsDelivered(f) \/ IsReported(f)

\* A read that is never cut nor fails, at a venue that keeps every fill: the span
\* read is at most the time of the run and what the margins add at its ends.
Unlimiting ==
    /\ Shortfalls = {} /\ setting.retentions = {Unlimited}
    /\ MaxSpan >= MaxTime + Overlap + 4 * MaxSkew

\* Where no read fails or is cut, every fill is delivered, whichever way the local
\* clock differs from the venue's or steps.
EveryFillDelivered == InSync /\ Unlimiting => \A f \in Fills : IsDelivered(f)

\* "A fill it reads that the new stream also delivers is delivered once": a fill
\* is not delivered again until as many others as the deduper remembers have been.
NoFillTwice ==
    \A i, j \in 1..Len(delivered) :
        i < j /\ delivered[i] = delivered[j] => j - i > MaxRecent

\* "A fill made while the snapshot is fetched is inside the span of the next
\* read", if the stream did not bring it: so is every fill made after it began.
OpeningFillsAreRead ==
    phase = "reading" => \A f \in Fills : IsDelivered(f) \/ IsReported(f) \/ made[f] >= attempt.start
=============================================================================
