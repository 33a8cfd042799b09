------------------------------- MODULE Retry -------------------------------
(***************************************************************************)
(* The server's two retry loops: the decorator retry_with_backoff of        *)
(* utils/retry.py, and tenacity's around Dispatcher._execute_with_retry     *)
(* (core/dispatcher.py) with the accounting of Dispatcher.dispatch.  The    *)
(* dispatcher turns every Exception into a DispatchError, retryable or not, *)
(* and tenacity retries every DispatchError; what dispatch sees in the end  *)
(* is tenacity's RetryError, which has no status_code.                      *)
(***************************************************************************)
EXTENDS Integers, Sequences, SequencesExt

CONSTANTS
    MaxAttempts,       \* max_attempts of the decorator
    BaseDelay,         \* base_delay, in ticks
    MaxDelay,          \* max_delay, in ticks
    DispatchAttempts,  \* stop_after_attempt(3)
    Second             \* ticks in a second: wait_exponential's multiplier and min

ASSUME RetryAssumption ==
    /\ MaxAttempts \in Nat \ {0} /\ DispatchAttempts \in Nat \ {0}
    /\ BaseDelay \in Nat \ {0} /\ MaxDelay \in Nat /\ BaseDelay <= MaxDelay
    /\ Second \in Nat \ {0}

VARIABLES
    loop,        \* "decorator" or "dispatch"
    retryState,  \* "calling", "sleeping", or how the loop ended
    callErrors,  \* Seq: the errors of the calls that failed so far
    sleeps,      \* Seq: the delays slept between them
    told,        \* Seq: the attempts on_retry was called with
    lastError,   \* last_error of the RetryError
    recorded     \* Seq: what dispatch told the key manager, refunds included

retryVars == <<loop, retryState, callErrors, sleeps, told, lastError, recorded>>

NoError == "none"

RetryInit ==
    /\ loop \in {"decorator", "dispatch"} /\ retryState = "calling"
    /\ callErrors = <<>> /\ sleeps = <<>> /\ told = <<>>
    /\ lastError = NoError /\ recorded = <<>>

-----------------------------------------------------------------------------
Attempt == Len(callErrors) + 1

(* Faulty variant: the first retry already waits twice the base delay.      *)
Backoffs_Doubled(attempt) ==
    LET delay == IF BaseDelay * 2^attempt < MaxDelay THEN BaseDelay * 2^attempt
                                                      ELSE MaxDelay
    IN {delay + jitter : jitter \in {j \in 0..delay : 4 * j < delay}}

(* calculate_backoff: up to 25 % of jitter, added after the cap.            *)
Backoffs(attempt) ==
    LET raw == BaseDelay * 2^(attempt - 1)
        delay == IF raw < MaxDelay THEN raw ELSE MaxDelay
    IN {delay + jitter : jitter \in {j \in 0..delay : 4 * j < delay}}

(* tenacity's wait_exponential(multiplier=1, min=1, max=60).                *)
DispatchWait(attempt) ==
    LET raw == Second * 2^(attempt - 1)
    IN IF raw < 60 * Second THEN raw ELSE 60 * Second

(* _handle_error: a failure is recorded, and refunded if the status says    *)
(* that no tokens were used.  RetryError has none.                          *)
HandleError(status) ==
    recorded' = recorded \o <<"failure">>
        \o (IF status \in {"429", "5xx"} THEN <<"refund">> ELSE <<>>)

CallSucceeds ==
    /\ retryState = "calling"
    /\ retryState' = "returned"
    /\ recorded' = IF loop = "dispatch" THEN Append(recorded, "success")
                                        ELSE recorded
    /\ UNCHANGED <<loop, callErrors, sleeps, told, lastError>>

(* The decorator: the function raises one of retryable_exceptions, another  *)
(* exception, or on_retry raises in its stead.                              *)
DecoratedFails(e) ==
    /\ retryState = "calling" /\ loop = "decorator"
    /\ callErrors' = Append(callErrors, e)
    /\ \/ /\ e = "other"
          /\ retryState' = "propagated"
          /\ UNCHANGED <<sleeps, told, lastError>>
       \/ /\ e # "other" /\ Attempt >= MaxAttempts
          /\ retryState' = "exhausted" /\ lastError' = e
          /\ UNCHANGED <<sleeps, told>>
       \/ /\ e # "other" /\ Attempt < MaxAttempts
          /\ told' = Append(told, Attempt)
          /\ \/ retryState' = "propagated" /\ UNCHANGED sleeps
             \/ /\ retryState' = "sleeping"
                /\ \E delay \in Backoffs(Attempt) : sleeps' = Append(sleeps, delay)
          /\ UNCHANGED lastError
    /\ UNCHANGED <<loop, recorded>>

DispatchFails(e) ==
    /\ retryState = "calling" /\ loop = "dispatch"
    /\ callErrors' = Append(callErrors, e)
    /\ \/ /\ Attempt = DispatchAttempts
          /\ retryState' = "exhausted" /\ lastError' = e
          /\ HandleError(NoError)
          /\ UNCHANGED sleeps
       \/ /\ Attempt < DispatchAttempts
          /\ retryState' = "sleeping"
          /\ sleeps' = Append(sleeps, DispatchWait(Attempt))
          /\ UNCHANGED <<lastError, recorded>>
    /\ UNCHANGED <<loop, told>>

Wake ==
    /\ retryState = "sleeping" /\ retryState' = "calling"
    /\ UNCHANGED <<loop, callErrors, sleeps, told, lastError, recorded>>

(* A CancelledError is no Exception: no handler of the two loops catches it.*)
CancelRetry ==
    /\ retryState \in {"calling", "sleeping"} /\ retryState' = "cancelled"
    /\ UNCHANGED <<loop, callErrors, sleeps, told, lastError, recorded>>

RetryNext ==
    \/ CallSucceeds \/ Wake \/ CancelRetry
    \/ \E e \in {"429", "5xx", "other"} : DecoratedFails(e) \/ DispatchFails(e)

RetrySpec == RetryInit /\ [][RetryNext]_retryVars

-----------------------------------------------------------------------------
(* A loop that ran to its end called as often as it may and no more, slept  *)
(* once between two calls, ever longer (the jitter aside) and never above   *)
(* the cap and its jitter, and its error is that of the last call; the      *)
(* dispatcher records one outcome for all its calls, which its key's        *)
(* backoff counts as one failure, and none when cancelled                   *)
(* (retry.py:41-99, dispatcher.py:82-149).                                  *)
Ended == retryState \notin {"calling", "sleeping"}
Allowed == IF loop = "decorator" THEN MaxAttempts ELSE DispatchAttempts
Calls == Len(callErrors) + (IF retryState = "returned" THEN 1 ELSE 0)

RetriesAreSpaced ==
    /\ retryState \in {"returned", "exhausted"} => Len(sleeps) = Calls - 1
    /\ Calls <= Allowed
    /\ retryState = "exhausted" => Calls = Allowed /\ lastError = Last(callErrors)
    /\ \A i \in DOMAIN sleeps :
          /\ loop = "decorator" =>
                4 * sleeps[i] < 5 * MaxDelay
          /\ i = 1 => 4 * sleeps[i] < 5 * (IF loop = "decorator" THEN BaseDelay ELSE Second)
          /\ i > 1 => 5 * sleeps[i] > 4 * sleeps[i - 1]
    /\ loop = "decorator" => Len(told) - Len(sleeps) \in {0, 1}
    /\ loop = "dispatch" => Len(recorded) = (IF Ended /\ retryState # "cancelled" THEN 1 ELSE 0)
=============================================================================
