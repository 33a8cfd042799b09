------------------------------ MODULE KeyScore ------------------------------
(***************************************************************************)
(* How RateLimiter.select_key chooses among the keys with room              *)
(* (maxllm_gate/rate_limiter.py): the four strategies and the balanced      *)
(* score.  Buckets do not refill meanwhile and no breaker opens: errors     *)
(* stay below its threshold.  The clock advances with every request and     *)
(* every answer.                                                            *)
(***************************************************************************)
EXTENDS Latency

CONSTANTS
    Candidates,  \* Seq: the keys, as _model_index lists them
    Room,        \* requests a key's buckets hold
    ErrorBound,  \* bound of consecutive_errors, below the breaker's threshold
    ClockStep,   \* seconds between two uses
    ClockBound   \* bound of the clock

ASSUME KeyScoreAssumption ==
    /\ Candidates \in Seq(ToSet(Candidates)) /\ Room \in Nat \ {0}
    /\ Room <= 1000 * AvgScale   \* utilizations differ by more than the scale
    /\ ErrorBound \in 0..4 /\ ClockStep \in Nat \ {0} /\ ClockBound \in Nat

VARIABLES
    strategy,  \* config.strategy
    clock,     \* steps of time.time() since the keys were registered
    used,      \* [keys -> 0..Room]: requests taken from the buckets
    waiting,   \* [keys -> Nat]: requests sent and not answered
    lastUse,   \* last_request
    streak,    \* consecutive_errors
    latency,   \* [keys -> LatencyTracker]
    passedBy   \* history: passedBy[j] is the bag of the keys used since j was
               \*   last used or without room

scoreVars == <<strategy, clock, used, waiting, lastUse, streak, latency, passedBy>>

CandidateKeys == ToSet(Candidates)
Strategies == {"least_utilized", "round_robin", "latency_aware", "balanced"}

(* A key is new, or its last requests are so long ago that its buckets are  *)
(* full again, and two samples of its latency are left of them.             *)
Served == {NoTracker} \cup
          {Recorded(Recorded(NoTracker, x), x) : x \in Latencies}

ScoreInit ==
    /\ strategy \in Strategies
    /\ clock = 0 /\ used = [k \in CandidateKeys |-> 0]
    /\ waiting = [k \in CandidateKeys |-> 0]
    /\ lastUse = [k \in CandidateKeys |-> 0]
    /\ streak = [k \in CandidateKeys |-> 0]
    /\ latency \in [CandidateKeys -> Served]
    /\ passedBy = [j \in CandidateKeys |-> [k \in CandidateKeys |-> 0]]

-----------------------------------------------------------------------------
(* The keys with room are told by their places in the list.                 *)
Available == {i \in DOMAIN Candidates : used[Candidates[i]] < Room}

(* min(available, key=...): the first of the least.                         *)
FirstLeast(cost) ==
    Candidates[Min({i \in Available : \A j \in Available :
                       cost[Candidates[i]] <= cost[Candidates[j]]})]

(* A component of the score is a numerator over Unit.                       *)
Unit == 4900 * AvgScale
Clamped(n) == IF n < 0 THEN 0 ELSE IF n > Unit THEN Unit ELSE n

Utilization(k) == (used[k] * Unit) \div Room
ErrorPenalty(k) == Clamped((streak[k] * Unit) \div 5)
Freshness(k) == Clamped(Unit - ((clock - lastUse[k]) * ClockStep * Unit) \div 60)

(* 0.1 s scores 0 and 5 s 1; a key with fewer than three samples 0.5.       *)
LatencyScore(k) ==
    IF latency[k].samples >= 3 THEN Clamped(latency[k].avg - 100 * AvgScale)
                               ELSE Unit \div 2

(* _balanced_score, in hundredths of a Unit.                                *)
BalancedScore(k) ==
    40 * Utilization(k) + 15 * ErrorPenalty(k) + 10 * Freshness(k)
    + 35 * LatencyScore(k)

(* Faulty variant: no samples are a latency of nought.                      *)
LatencyOrUse_NoFallback(k) == latency[k].avg

(* latency_aware compares seconds with a ratio where a key has too few      *)
(* samples.                                                                 *)
LatencyOrUse(k) ==
    IF latency[k].samples < 3 THEN (used[k] * 1000 * AvgScale) \div Room
                              ELSE latency[k].avg

(* Faulty variant: the latest user is chosen.                               *)
Oldest_Latest == FirstLeast([k \in CandidateKeys |-> 0 - lastUse[k]])

Oldest == FirstLeast(lastUse)

(* select_key on the available keys, of which there is one.                 *)
Chosen ==
    CASE strategy = "least_utilized" ->
            FirstLeast([k \in CandidateKeys |-> Utilization(k)])
      [] strategy = "round_robin" -> Oldest
      [] strategy = "latency_aware" ->
            FirstLeast([k \in CandidateKeys |-> LatencyOrUse(k)])
      [] strategy = "balanced" ->
            FirstLeast([k \in CandidateKeys |-> BalancedScore(k)])

Advance == clock < ClockBound /\ clock' = clock + 1

(* A request takes the chosen key's capacity.                               *)
UseKey ==
    LET chosen == Chosen
        hasRoom(k) == used'[k] < Room
    IN /\ Available # {}
       /\ Advance
       /\ used' = [used EXCEPT ![chosen] = @ + 1]
       /\ waiting' = [waiting EXCEPT ![chosen] = @ + 1]
       /\ lastUse' = [lastUse EXCEPT ![chosen] = clock']
       /\ passedBy' =
             [j \in CandidateKeys |->
                IF j = chosen \/ ~ hasRoom(j) THEN [k \in CandidateKeys |-> 0]
                ELSE [passedBy[j] EXCEPT ![chosen] = @ + 1]]
       /\ UNCHANGED <<strategy, streak, latency>>

(* record_success with the latency, or record_failure.                      *)
Answered(k) ==
    /\ waiting[k] > 0 /\ Advance
    /\ waiting' = [waiting EXCEPT ![k] = @ - 1]
    /\ \/ /\ \E x \in Latencies : latency' = [latency EXCEPT ![k] = Recorded(@, x)]
          /\ latency[k].samples < MaxSamples
          /\ streak' = [streak EXCEPT ![k] = 0]
       \/ /\ streak[k] < ErrorBound
          /\ streak' = [streak EXCEPT ![k] = @ + 1]
          /\ UNCHANGED latency
    /\ UNCHANGED <<strategy, used, lastUse, passedBy>>

ScoreNext == UseKey \/ \E k \in CandidateKeys : Answered(k)
ScoreSpec == ScoreInit /\ [][ScoreNext]_scoreVars

-----------------------------------------------------------------------------
(* A key that beats another in all that any strategy looks at, both or      *)
(* neither having the three samples a mean latency takes.                   *)
Beats(j, k) ==
    /\ used[j] < used[k] /\ lastUse[j] < lastUse[k] /\ streak[j] <= streak[k]
    /\ \/ latency[j].samples < 3 /\ latency[k].samples < 3
       \/ /\ latency[j].samples >= 3 /\ latency[k].samples >= 3
          /\ latency[j].avg < latency[k].avg

(* No strategy passes over a key that beats the one it chooses, though they *)
(* put together quantities of different units and directions: latency_aware *)
(* falls back from seconds to a ratio, balanced adds four terms, one of     *)
(* them falling with the time since the last use (rate_limiter.py:280-361). *)
NoWorseKeyChosen ==
    Available # {} => \A j \in CandidateKeys : ~ Beats(j, Chosen)

(* round_robin takes turns: while a key has room, no other is used twice    *)
(* before it (rate_limiter.py:283-284, 154).                                *)
RoundRobinFair ==
    strategy = "round_robin" =>
        \A j, k \in CandidateKeys : passedBy[j][k] <= 1
=============================================================================
