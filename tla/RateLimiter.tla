----------------------------- MODULE RateLimiter -----------------------------
(***************************************************************************)
(* The SDK's rate limiter, maxllm_gate/rate_limiter.py: two token buckets   *)
(* and a circuit breaker per key, and the choice of a key for a request.    *)
(* All its methods are synchronous and the SDK calls them from one event    *)
(* loop, so each is one step of the module that composes this one.          *)
(*                                                                         *)
(* Time is counted in ticks.  The buckets refill at each tick rather than   *)
(* lazily at the next look, which module TokenBucket shows to be the same.  *)
(***************************************************************************)
EXTENDS Buckets

CONSTANTS
    Keys,                \* key ids
    TpmLimit, RpmLimit,  \* [Keys -> Nat]: capacity of the two buckets
    TpmRate, RpmRate,    \* [Keys -> Nat]: their refill per tick
    Strategy,            \* config.strategy
    DefaultThreshold,    \* is_healthy's defaults (5 and 60 s), which
    DefaultTimeout,      \*   can_handle applies whatever the configuration
    AgeCap,              \* bound of errorAge: no timeout is longer
    ErrorCap             \* bound of errors: no threshold is higher

ASSUME RateLimiterAssumption ==
    /\ TpmLimit \in [Keys -> Nat \ {0}] /\ RpmLimit \in [Keys -> Nat \ {0}]
    /\ TpmRate \in [Keys -> Nat \ {0}] /\ RpmRate \in [Keys -> Nat \ {0}]
    /\ DefaultThreshold \in Nat \ {0} /\ DefaultTimeout \in Nat
    /\ AgeCap \in Nat /\ DefaultTimeout < AgeCap
    /\ ErrorCap \in Nat /\ DefaultThreshold <= ErrorCap

VARIABLES
    tpm, rpm,    \* tokens in each key's buckets
    errors,      \* consecutive_errors, saturating at ErrorCap
    errorAge     \* ticks since last_error, saturating at AgeCap

keyVars == <<tpm, rpm, errors, errorAge>>

(* Buckets start full; last_error is None, as old as can be.                *)
KeyInit ==
    /\ tpm = TpmLimit /\ rpm = RpmLimit
    /\ errors = [k \in Keys |-> 0]
    /\ errorAge = [k \in Keys |-> AgeCap]

-----------------------------------------------------------------------------
Healthy(k, threshold, timeout) == errors[k] < threshold \/ errorAge[k] > timeout

CanHandle(k, n) ==
    rpm[k] >= 1 /\ tpm[k] >= n /\ Healthy(k, DefaultThreshold, DefaultTimeout)

(* Faulty variant: the request bucket is forgotten.                         *)
TimeUntilAvailable_TokensOnly(k, n) == TicksUntil(n, tpm[k], TpmRate[k])

TimeUntilAvailable(k, n) ==
    Larger(TicksUntil(1, rpm[k], RpmRate[k]), TicksUntil(n, tpm[k], TpmRate[k]))

(* utilization() of a key is Used(k) / (TpmLimit[k] * RpmLimit[k]).         *)
Used(k) == Larger((TpmLimit[k] - tpm[k]) * RpmLimit[k],
                  (RpmLimit[k] - rpm[k]) * TpmLimit[k])

NoMoreUsed(j, k) ==
    Used(j) * TpmLimit[k] * RpmLimit[k] <= Used(k) * TpmLimit[j] * RpmLimit[j]

(* Which of the ready keys a strategy may return.  Strategies other than    *)
(* least_utilized compare wall-clock data the model drops: any ready key.   *)
Preferred(ready) ==
    IF Strategy = "least_utilized"
    THEN {k \in ready : \A j \in ready : NoMoreUsed(k, j)}
    ELSE ready

(* select_key: the choices [key, wait] it may return, none when it returns  *)
(* None.  A ready key has wait 0; without one it is the shortest wait.      *)
KeyChoices(candidates, n, threshold, timeout) ==
    LET healthy == {k \in candidates : Healthy(k, threshold, timeout)}
        ready == {k \in healthy : CanHandle(k, n)}
        Wait(k) == TimeUntilAvailable(k, n)
        soonest == {k \in healthy : \A j \in healthy : Wait(k) <= Wait(j)}
    IN IF ready # {} THEN {[key |-> k, wait |-> 0] : k \in Preferred(ready)}
                     ELSE {[key |-> k, wait |-> Wait(k)] : k \in soonest}

(* Faulty variant: consume does not ask can_handle first.                   *)
Consume_Unchecked(k, n) ==
    /\ tpm' = [tpm EXCEPT ![k] = @ - n]
    /\ rpm' = [rpm EXCEPT ![k] = @ - 1]
    /\ UNCHANGED <<errors, errorAge>>

(* Takes from both buckets, or takes nothing and returns False.             *)
Consume(k, n) ==
    /\ \/ /\ CanHandle(k, n)
          /\ tpm' = [tpm EXCEPT ![k] = @ - n]
          /\ rpm' = [rpm EXCEPT ![k] = @ - 1]
       \/ /\ ~ CanHandle(k, n)
          /\ UNCHANGED <<tpm, rpm>>
    /\ UNCHANGED <<errors, errorAge>>

RecordSuccess(k) ==
    /\ errors' = [errors EXCEPT ![k] = 0]
    /\ UNCHANGED <<tpm, rpm, errorAge>>

RecordFailure(k) ==
    /\ errors' = [errors EXCEPT ![k] = AtMost(ErrorCap, @ + 1)]
    /\ errorAge' = [errorAge EXCEPT ![k] = 0]
    /\ UNCHANGED <<tpm, rpm>>

(* A tick of time.time(), as _refill and is_healthy see it.                 *)
KeyTick ==
    /\ tpm' = [k \in Keys |-> AtMost(TpmLimit[k], tpm[k] + TpmRate[k])]
    /\ rpm' = [k \in Keys |-> AtMost(RpmLimit[k], rpm[k] + RpmRate[k])]
    /\ errorAge' = [k \in Keys |-> AtMost(AgeCap, errorAge[k] + 1)]
    /\ UNCHANGED errors

KeyTypeOK ==
    /\ tpm \in [Keys -> Nat] /\ \A k \in Keys : tpm[k] <= TpmLimit[k]
    /\ rpm \in [Keys -> Nat] /\ \A k \in Keys : rpm[k] <= RpmLimit[k]
    /\ errors \in [Keys -> 0..ErrorCap]
    /\ errorAge \in [Keys -> 0..AgeCap]
=============================================================================
