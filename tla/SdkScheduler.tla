---------------------------- MODULE SdkScheduler ----------------------------
(***************************************************************************)
(* The SDK's scheduler: what a request does between entering and leaving    *)
(* (_execute_request and _stream_request of maxllm_gate/scheduler.py),      *)
(* composed with Admission and RateLimiter.                                 *)
(*                                                                         *)
(* A request chooses a key, sleeps when every key is short of capacity,     *)
(* consumes from the key's buckets and calls the provider; a chat request   *)
(* retries and falls back to other keys, a stream does neither.             *)
(***************************************************************************)
EXTENDS Admission, RateLimiter

CONSTANTS
    Streams,         \* the requests that call schedule_stream
    NoKey,           \* no key chosen yet
    Candidates,      \* [Requests -> SUBSET Keys]: get_keys_for_model
    Estimate,        \* [Requests -> Nat]: total_estimate of a request
    Overruns,        \* set of Nat: usage a stream reports beyond its estimate
    ErrorKinds,      \* what a provider call may fail with
    MaxRetries,      \* config.max_retries
    MaxWait,         \* config.max_wait_time, in ticks
    Threshold,       \* config.circuit_breaker_threshold
    CircuitTimeout   \* config.circuit_breaker_timeout, in ticks

(* A failed call timed out, met a rate limit or a server error (429, 5xx),  *)
(* or was refused for good (401, 404), which the code takes like a timeout. *)
AllErrorKinds == {"timeout", "transient", "permanent"}

ASSUME SdkAssumption ==
    /\ Streams \subseteq Requests
    /\ NoKey \notin Keys
    /\ Candidates \in [Requests -> SUBSET Keys]
    /\ Estimate \in [Requests -> Nat]
    /\ Overruns \subseteq Nat
    /\ ErrorKinds \subseteq AllErrorKinds
    /\ MaxRetries \in Nat \ {0}
    /\ MaxWait \in Nat
    /\ Threshold \in Nat \ {0} /\ Threshold <= ErrorCap
    /\ CircuitTimeout \in Nat /\ CircuitTimeout < AgeCap

VARIABLES
    key,         \* current_key of each request
    tried,       \* tried_keys
    attempts,    \* total_attempts
    lastError,   \* kind of last_error
    timer,       \* ticks left of a deferral's sleep
    paid         \* history: did the request's consume take its estimate?

loopVars == <<key, tried, attempts, lastError>>
requestVars == <<loopVars, timer, paid>>
vars == <<admissionVars, keyVars, requestVars>>

Init ==
    /\ AdmissionInit
    /\ KeyInit
    /\ key = [r \in Requests |-> NoKey]
    /\ tried = [r \in Requests |-> {}]
    /\ attempts = [r \in Requests |-> 0]
    /\ lastError = [r \in Requests |-> "none"]
    /\ timer = [r \in Requests |-> 0]
    /\ paid = [r \in Requests |-> FALSE]

-----------------------------------------------------------------------------
(* From the permit to the first call.                                       *)

FirstChoices(r) == KeyChoices(Candidates[r], Estimate[r], Threshold, CircuitTimeout)

(* Consume, whose result nobody looks at, and start the first call.         *)
FirstCall(r, k) ==
    /\ Consume(k, Estimate[r])
    /\ paid' = [paid EXCEPT ![r] = CanHandle(k, Estimate[r])]
    /\ key' = [key EXCEPT ![r] = k]
    /\ tried' = [tried EXCEPT ![r] = {k}]
    /\ attempts' = [attempts EXCEPT ![r] = 1]
    /\ UNCHANGED <<lastError, timer>>

(* A key with capacity now: no await between select_key and consume.        *)
AdmitAndCall(r) ==
    /\ Enter(r, "calling")
    /\ \E c \in FirstChoices(r) : c.wait = 0 /\ FirstCall(r, c.key)

AdmitAndDefer(r) ==
    /\ Enter(r, "deferred")
    /\ \E c \in FirstChoices(r) :
          /\ c.wait \in 1..MaxWait
          /\ key' = [key EXCEPT ![r] = c.key]
          /\ timer' = [timer EXCEPT ![r] = c.wait]
    /\ UNCHANGED <<keyVars, tried, attempts, lastError, paid>>

(* CapacityExhaustedError: no healthy key, or too long a wait.              *)
AdmitAndFail(r) ==
    /\ EnterAndFail(r)
    /\ \/ FirstChoices(r) = {}
       \/ \E c \in FirstChoices(r) : c.wait > MaxWait
    /\ UNCHANGED <<keyVars, requestVars>>

(* The sleep is over: call with the key chosen before it.                   *)
WakeAndCall(r) ==
    /\ pc[r] = "deferred" /\ timer[r] = 0
    /\ Proceed(r, "calling")
    /\ FirstCall(r, key[r])

(* Faulty variant: the timeout raised outside the try of the finally.       *)
DeferTimeout_NoFinally(r) ==
    /\ pc[r] = "deferred" /\ timer[r] = 0
    /\ pc' = [pc EXCEPT ![r] = "failed"]
    /\ failures' = failures + 1
    /\ UNCHANGED <<ticket, permits, active, processed, rejections, shutdown>>
    /\ UNCHANGED <<keyVars, requestVars>>

(* A late loop finds both the sleep and its wait_for expired.               *)
DeferTimeout(r) ==
    /\ pc[r] = "deferred" /\ timer[r] = 0
    /\ Fail(r)
    /\ UNCHANGED <<keyVars, requestVars>>

-----------------------------------------------------------------------------
(* The retry loop of _execute_request.                                      *)

MaxAttempts == 2 * MaxRetries

FallbackChoices(r) ==
    KeyChoices(Candidates[r] \ tried[r], Estimate[r], DefaultThreshold, DefaultTimeout)

Answer(r) ==
    /\ pc[r] = "calling" /\ r \notin Streams
    /\ RecordSuccess(key[r])
    /\ Succeed(r)
    /\ UNCHANGED requestVars

(* What every failed attempt does first.                                    *)
AttemptFails(r, kind) ==
    /\ pc[r] = "calling" /\ r \notin Streams
    /\ RecordFailure(key[r])
    /\ lastError' = [lastError EXCEPT ![r] = kind]
    /\ UNCHANGED <<timer, paid>>

(* Faulty variant: the fallback key is not added to tried_keys.             *)
FallBack_NotMarked(r) ==
    /\ AttemptFails(r, "transient")
    /\ attempts[r] < MaxAttempts
    /\ \E c \in FallbackChoices(r) : key' = [key EXCEPT ![r] = c.key]
    /\ attempts' = [attempts EXCEPT ![r] = @ + 1]
    /\ UNCHANGED <<admissionVars, tried>>

(* A rate-limit or server error: the next attempt goes at once to a key not *)
(* yet tried, whatever wait select_key returned and without consuming.      *)
FallBack(r) ==
    /\ AttemptFails(r, "transient")
    /\ attempts[r] < MaxAttempts
    /\ \E c \in FallbackChoices(r) :
          /\ key' = [key EXCEPT ![r] = c.key]
          /\ tried' = [tried EXCEPT ![r] = @ \cup {c.key}]
    /\ attempts' = [attempts EXCEPT ![r] = @ + 1]
    /\ UNCHANGED admissionVars

BackOff(r, kind) ==
    /\ AttemptFails(r, kind)
    /\ attempts[r] < MaxAttempts
    /\ kind = "transient" => FallbackChoices(r) = {}
    /\ Proceed(r, "backoff")
    /\ UNCHANGED <<key, tried, attempts>>

GiveUp(r, kind) ==
    /\ AttemptFails(r, kind)
    /\ attempts[r] >= MaxAttempts
    /\ Fail(r)
    /\ UNCHANGED <<key, tried, attempts>>

(* Faulty variant: total_attempts is not advanced.                          *)
Retry_Uncounted(r) ==
    /\ pc[r] = "backoff"
    /\ Proceed(r, "calling")
    /\ UNCHANGED <<keyVars, requestVars>>

Retry(r) ==
    /\ pc[r] = "backoff"
    /\ Proceed(r, "calling")
    /\ attempts' = [attempts EXCEPT ![r] = @ + 1]
    /\ UNCHANGED <<keyVars, key, tried, lastError, timer, paid>>

-----------------------------------------------------------------------------
(* Streams.                                                                 *)

StreamOpens(r) ==
    /\ pc[r] = "calling" /\ r \in Streams
    /\ Proceed(r, "streaming")
    /\ UNCHANGED <<keyVars, requestVars>>

(* A chunk reports more tokens than the estimate: consume the difference.   *)
StreamUsage(r, diff) ==
    /\ pc[r] = "streaming"
    /\ Consume(key[r], diff)
    /\ UNCHANGED <<admissionVars, requestVars>>

StreamEnds(r) ==
    /\ pc[r] = "streaming"
    /\ RecordSuccess(key[r])
    /\ Succeed(r)
    /\ UNCHANGED requestVars

(* An error or a timeout while opening, or an error between two chunks.     *)
StreamFails(r) ==
    /\ r \in Streams /\ pc[r] \in {"calling", "streaming"}
    /\ RecordFailure(key[r])
    /\ Fail(r)
    /\ UNCHANGED requestVars

-----------------------------------------------------------------------------
(* The caller cancels the task, at whichever await, or closes the stream.   *)
Cancel(r) == (Withdraw(r) \/ Abandon(r)) /\ UNCHANGED <<keyVars, requestVars>>

Tick ==
    /\ KeyTick
    /\ timer' = [r \in Requests |-> IF timer[r] > 0 THEN timer[r] - 1 ELSE 0]
    /\ UNCHANGED <<admissionVars, loopVars, paid>>

Arrive(r) == (Submit(r) \/ AcquireTimeout(r)) /\ UNCHANGED <<keyVars, requestVars>>

TakePermit(r) == Resume(r) /\ UNCHANGED <<keyVars, requestVars>>

Admit(r) == AdmitAndCall(r) \/ AdmitAndDefer(r) \/ AdmitAndFail(r)

CallEnds(r) ==
    \/ Answer(r)
    \/ "transient" \in ErrorKinds /\ FallBack(r)
    \/ \E kind \in ErrorKinds : BackOff(r, kind) \/ GiveUp(r, kind)

Next ==
    \/ Tick
    \/ Shutdown /\ UNCHANGED <<keyVars, requestVars>>
    \/ \E r \in Requests :
          \/ Arrive(r) \/ TakePermit(r) \/ Admit(r)
          \/ WakeAndCall(r) \/ DeferTimeout(r)
          \/ CallEnds(r) \/ Retry(r)
          \/ StreamOpens(r) \/ StreamEnds(r) \/ StreamFails(r)
          \/ \E diff \in Overruns : StreamUsage(r, diff)
          \/ Cancel(r)

(* What the event loop and wait_for guarantee: time passes, a ready task    *)
(* runs, a call ends by its timeout at the latest.  Nothing makes a stream  *)
(* end: its chunks are awaited without a timeout.                           *)
TaskFairness(r) ==
    /\ WF_vars(TakePermit(r)) /\ WF_vars(Admit(r))
    /\ WF_vars(WakeAndCall(r) \/ DeferTimeout(r))
    /\ WF_vars(CallEnds(r))
    /\ WF_vars(StreamOpens(r) \/ (pc[r] = "calling" /\ StreamFails(r)))
    /\ WF_vars(Retry(r))

Fairness == WF_vars(Tick) /\ \A r \in Requests : TaskFairness(r)

Spec == Init /\ [][Next]_vars
FairSpec == Spec /\ Fairness

-----------------------------------------------------------------------------
TypeOK ==
    /\ AdmissionTypeOK
    /\ KeyTypeOK
    /\ key \in [Requests -> Keys \cup {NoKey}]
    /\ tried \in [Requests -> SUBSET Keys]
    /\ attempts \in [Requests -> 0..MaxAttempts]
    /\ lastError \in [Requests -> AllErrorKinds \cup {"none"}]
    /\ timer \in [Requests -> 0..MaxWait]
    /\ paid \in [Requests -> BOOLEAN]

(* The retry loop and its fallback agree on their bookkeeping: the key in   *)
(* use is one of those tried, all serve the model, each cost an attempt of  *)
(* its own, and the attempts stay within max_retries * 2, with one left     *)
(* whenever the request sleeps before another (scheduler.py:301-372).       *)
FallbackBookkeeping ==
    \A r \in InPlaces({"calling", "streaming", "backoff"}) :
        /\ key[r] \in tried[r] /\ tried[r] \subseteq Candidates[r]
        /\ Cardinality(tried[r]) <= attempts[r] /\ attempts[r] <= MaxAttempts
        /\ pc[r] = "backoff" => attempts[r] < MaxAttempts

(* A request that found a key with capacity is sent with that capacity      *)
(* taken: nothing comes between select_key and consume unless the request   *)
(* slept (scheduler.py:251-285).  The one exception is a key the configured *)
(* breaker lets pass and can_handle, with is_healthy's own 5 and 60 s, does *)
(* not (rate_limiter.py:141, 168): consume refuses it and it is called.     *)
ImmediateCallIsPaid ==
    [][\A r \in Requests :
          pc[r] = "granted" /\ pc'[r] = "calling" =>
              paid'[r] \/ ~ Healthy(key'[r], DefaultThreshold, DefaultTimeout)]_vars

(* "No 429 errors - Defers requests when capacity exhausted instead of      *)
(* failing" (README.md:33): every call, deferred ones included, is sent     *)
(* within the capacity of its key.                                          *)
CallIsPaid == \A r \in InPlaces({"calling", "streaming"}) : paid[r]

(* A chat request that got its permit settles, whatever the provider does   *)
(* and however streams stall (wait_for bounds every await of the path).     *)
AdmittedChatSettles ==
    \A r \in Requests \ Streams :
        pc[r] \in Inside \cup {"granted"} ~> pc[r] \in Final

(* A request waiting for a permit gets one or leaves, without its timeout's *)
(* help, provided no stream stalls for ever.                                *)
QueuedMovesOn ==
    (\A s \in Streams : []<>(pc[s] # "streaming"))
        => \A r \in Requests :
              pc[r] \in {"queued", "handed"} ~> pc[r] \notin {"queued", "handed"}
=============================================================================
