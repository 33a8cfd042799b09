----------------------------- MODULE KeyManager -----------------------------
(***************************************************************************)
(* The server's keys: llm_scheduler/rate_limiting/tracker.py and            *)
(* key_manager.py.  Two buckets per key, which a reservation may overdraw,  *)
(* and a backoff once a key failed too often in a row.  Every method is     *)
(* synchronous, so each is part of one step of the scheduler.  The buckets  *)
(* refill at each tick, as TokenBucket shows they may.                      *)
(***************************************************************************)
EXTENDS Buckets

CONSTANTS
    Keys,                \* key ids
    TpmLimit, RpmLimit,  \* [Keys -> Nat]: capacity of the two buckets
    TpmRate, RpmRate,    \* [Keys -> Nat]: their refill per tick
    Strategy,            \* settings.default_strategy
    ErrorLimit,          \* is_healthy's 5
    ErrorCap,            \* bound of errors: min(60, 2^errors) is constant from there
    Backoff,             \* [0..ErrorCap -> Nat]: min(60, 2^errors), in ticks
    AgeCap               \* bound of errorAge: no backoff is longer

ASSUME KeyManagerAssumption ==
    /\ TpmLimit \in [Keys -> Nat \ {0}] /\ RpmLimit \in [Keys -> Nat \ {0}]
    /\ TpmRate \in [Keys -> Nat \ {0}] /\ RpmRate \in [Keys -> Nat \ {0}]
    /\ ErrorLimit \in Nat \ {0} /\ ErrorCap \in Nat /\ ErrorLimit <= ErrorCap
    /\ AgeCap \in Nat \ {0} /\ Backoff \in [0..ErrorCap -> 0..(AgeCap - 1)]

VARIABLES
    tpm, rpm,    \* tokens in each key's buckets, below zero on credit
    errors,      \* consecutive_errors, saturating at ErrorCap
    errorAge     \* ticks since last_error_time, saturating at AgeCap

keyVars == <<tpm, rpm, errors, errorAge>>

KeyInit ==
    /\ tpm = TpmLimit /\ rpm = RpmLimit
    /\ errors = [k \in Keys |-> 0]
    /\ errorAge = [k \in Keys |-> AgeCap]

(* load_from_config registers every key anew: full buckets and no errors,   *)
(* whatever was reserved before.  (It also lists each key once more under   *)
(* its model, which changes no choice.)                                     *)
LoadFromConfig ==
    /\ tpm' = TpmLimit /\ rpm' = RpmLimit
    /\ errors' = [k \in Keys |-> 0]
    /\ errorAge' = [k \in Keys |-> AgeCap]

-----------------------------------------------------------------------------
Healthy(k) == errors[k] < ErrorLimit \/ errorAge[k] > Backoff[errors[k]]

CanHandle(k, n) == rpm[k] >= 1 /\ tpm[k] >= n

(* Faulty variant: the wait for the key's request bucket is forgotten.      *)
TimeUntilAvailable_TokensOnly(k, n) == TicksUntil(n, tpm[k], TpmRate[k])

TimeUntilAvailable(k, n) ==
    Larger(TicksUntil(1, rpm[k], RpmRate[k]), TicksUntil(n, tpm[k], TpmRate[k]))

(* utilization() of a key is Used(k) / (TpmLimit[k] * RpmLimit[k]).         *)
Used(k) == Larger((TpmLimit[k] - tpm[k]) * RpmLimit[k],
                  (RpmLimit[k] - rpm[k]) * TpmLimit[k])

NoMoreUsed(j, k) ==
    Used(j) * TpmLimit[k] * RpmLimit[k] <= Used(k) * TpmLimit[j] * RpmLimit[j]

Preferred(ready) ==
    IF Strategy = "least_utilized"
    THEN {k \in ready : \A j \in ready : NoMoreUsed(k, j)}
    ELSE ready

(* select_key: the selections [key, wait] it may make; none if it returns   *)
(* None.  It defers only if no healthy key has capacity now.                *)
Selections(candidates, n) ==
    LET healthy == {k \in candidates : Healthy(k)}
        ready == {k \in healthy : CanHandle(k, n)}
        Wait(k) == TimeUntilAvailable(k, n)
        soonest == {k \in healthy : \A j \in healthy : Wait(k) <= Wait(j)}
    IN IF ready # {} THEN {[key |-> k, wait |-> 0] : k \in Preferred(ready)}
                     ELSE {[key |-> k, wait |-> Wait(k)] : k \in soonest}

Reserve(k, n) ==
    /\ tpm' = [tpm EXCEPT ![k] = @ - n]
    /\ rpm' = [rpm EXCEPT ![k] = @ - 1]
    /\ UNCHANGED <<errors, errorAge>>

RecordSuccess(k) ==
    /\ errors' = [errors EXCEPT ![k] = 0]
    /\ UNCHANGED <<tpm, rpm, errorAge>>

RecordFailure(k) ==
    /\ errors' = [errors EXCEPT ![k] = AtMost(ErrorCap, @ + 1)]
    /\ errorAge' = [errorAge EXCEPT ![k] = 0]

(* Faulty variant: the refund overfills the bucket.                         *)
Refund_Overfills(k, n) ==
    /\ tpm' = [tpm EXCEPT ![k] = @ + n]
    /\ rpm' = [rpm EXCEPT ![k] = @ + 1]

Refund(k, n) ==
    /\ tpm' = [tpm EXCEPT ![k] = AtMost(TpmLimit[k], @ + n)]
    /\ rpm' = [rpm EXCEPT ![k] = AtMost(RpmLimit[k], @ + 1)]

Refilled(bucket, limit, rate) ==
    [k \in Keys |-> AtMost(limit[k], bucket[k] + rate[k])]

KeyTick ==
    /\ tpm' = Refilled(tpm, TpmLimit, TpmRate)
    /\ rpm' = Refilled(rpm, RpmLimit, RpmRate)
    /\ errorAge' = [k \in Keys |-> AtMost(AgeCap, errorAge[k] + 1)]
    /\ UNCHANGED errors

KeyTypeOK ==
    /\ tpm \in [Keys -> Int] /\ \A k \in Keys : tpm[k] <= TpmLimit[k]
    /\ rpm \in [Keys -> Int] /\ \A k \in Keys : rpm[k] <= RpmLimit[k]
    /\ errors \in [Keys -> 0..ErrorCap]
    /\ errorAge \in [Keys -> 0..AgeCap]
=============================================================================
