------------------------------ MODULE Latency ------------------------------
(***************************************************************************)
(* Latency statistics, kept twice by the SDK: LatencyTracker of             *)
(* maxllm_gate/rate_limiter.py, and record_latency of redis_backend.py,     *)
(* whose two keys expire together after an hour without samples.  Averages  *)
(* are numerators over AvgScale: the moving average, which starts from the  *)
(* first sample, is exact for MaxSamples of them.                           *)
(***************************************************************************)
EXTENDS Integers, Sequences, SequencesExt, FiniteSetsExt

CONSTANTS
    Latencies,   \* the samples, in milliseconds
    RecentSize,  \* samples kept for the percentiles: 100
    MaxSamples,  \* bound: samples per key
    AvgScale     \* a multiple of 10^(MaxSamples - 1)

ASSUME LatencyAssumption ==
    /\ Latencies \subseteq Nat /\ RecentSize \in Nat \ {0}
    /\ MaxSamples \in Nat \ {0}
    /\ AvgScale \in Nat \ {0} /\ AvgScale % 10^(MaxSamples - 1) = 0

NoTracker == [avg |-> 0, min |-> 0, max |-> 0, p50 |-> 0, p99 |-> 0,
              samples |-> 0, recent |-> <<>>]

(* A field HGET does not find.                                              *)
Absent == -1

NoStats == [total |-> 0, samples |-> 0, list |-> <<>>, min |-> Absent, max |-> Absent]

Below(s, v) == {i \in 1..Len(s) : s[i] < v}
UpTo(s, v) == {i \in 1..Len(s) : s[i] <= v}

(* sorted(s)[rank]: the sample below which there are at most rank others,   *)
(* and with its equals more than that.                                      *)
Ranked(s, rank) ==
    CHOOSE v \in Latencies :
        Cardinality(Below(s, v)) <= rank /\ rank < Cardinality(UpTo(s, v))

(* The sample at rank n // 2, or int(n * 0.99).                             *)
Median(s) == Ranked(s, Len(s) \div 2)
Percentile99(s) == Ranked(s, (99 * Len(s)) \div 100)

(* LatencyTracker.record; min_latency starts at infinity.                   *)
Recorded(tr, x) ==
    LET longer == Append(tr.recent, x)
        recent == IF Len(longer) > RecentSize THEN Tail(longer) ELSE longer
    IN [avg |-> IF tr.avg = 0 THEN x * AvgScale
                              ELSE (x * AvgScale + 9 * tr.avg) \div 10,
        min |-> IF tr.samples = 0 \/ x < tr.min THEN x ELSE tr.min,
        max |-> IF x > tr.max THEN x ELSE tr.max,
        p50 |-> Median(recent), p99 |-> Percentile99(recent),
        samples |-> tr.samples + 1, recent |-> recent]

Newest(list, n) == SubSeq(list, 1, IF Len(list) < n THEN Len(list) ELSE n)

(* The script, whose current extremes are the sample itself while none is   *)
(* stored.                                                                  *)
OrSample(stored, x) == IF stored = Absent THEN x ELSE stored
LessMin(st, x) == IF x < OrSample(st.min, x) THEN x ELSE st.min
MoreMax(st, x) == IF x > OrSample(st.max, x) THEN x ELSE st.max

(* Faulty variant: ltrim keeps one sample too many.                         *)
Pushed_OneMore(st, x) ==
    [list |-> Newest(<<x>> \o st.list, RecentSize + 1),
     total |-> st.total + x, samples |-> st.samples + 1,
     min |-> LessMin(st, x), max |-> MoreMax(st, x)]

(* record_latency *)
Pushed(st, x) ==
    [list |-> Newest(<<x>> \o st.list, RecentSize),
     total |-> st.total + x, samples |-> st.samples + 1,
     min |-> LessMin(st, x), max |-> MoreMax(st, x)]

(* What get_latency_stats reports of a field: 0 where there is none.        *)
Reported(stored) == IF stored = Absent THEN 0 ELSE stored

VARIABLES
    everRecorded,  \* history: every sample
    tracker,       \* the LatencyTracker fed with them
    stats          \* the Redis keys fed with them

latencyVars == <<everRecorded, tracker, stats>>

LatencyInit == everRecorded = <<>> /\ tracker = NoTracker /\ stats = NoStats

RecordLatency(x) ==
    /\ Len(everRecorded) < MaxSamples
    /\ everRecorded' = Append(everRecorded, x)
    /\ tracker' = Recorded(tracker, x)
    /\ stats' = Pushed(stats, x)

LatencyNext == \E x \in Latencies : RecordLatency(x)
LatencySpec == LatencyInit /\ [][LatencyNext]_latencyVars

(* But for the extremes, a key's statistics do not depend on the backend    *)
(* that keeps them: both report the percentiles of the same last samples,   *)
(* though one list grows at its end and the other at its head; both         *)
(* averages, the moving one and the mean, lie between the extremes of all   *)
(* samples.  The tracker still knows these when the window has lost them;   *)
(* Redis reports none, for the script compares the first sample, and so     *)
(* every later one, with itself (rate_limiter.py:78-101,                    *)
(* redis_backend.py:236-301).                                               *)
PercentilesAgree ==
    everRecorded # <<>> =>
        LET all == ToSet(everRecorded) IN
        /\ tracker.samples = stats.samples
        /\ tracker.p50 = Median(stats.list)
        /\ tracker.p99 = Percentile99(stats.list)
        /\ tracker.min = Min(all) /\ tracker.max = Max(all)
        /\ Reported(stats.min) = 0 /\ Reported(stats.max) = 0
        /\ tracker.avg \in (Min(all) * AvgScale)..(Max(all) * AvgScale)
        /\ stats.total \in (Min(all) * stats.samples)..(Max(all) * stats.samples)
=============================================================================
