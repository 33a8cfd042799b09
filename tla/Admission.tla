------------------------------ MODULE Admission ------------------------------
(***************************************************************************)
(* How the SDK's scheduler lets requests in and out: schedule and           *)
(* schedule_stream of maxllm_gate/scheduler.py around the request they run, *)
(* its semaphore, counters and shutdown flag.                               *)
(*                                                                         *)
(* Requests are asyncio tasks on one event loop, so an action is the code   *)
(* from one await to the next.  The semaphore is asyncio's of CPython 3.11, *)
(* acquired in a task of its own by wait_for: a permit handed to a waiter   *)
(* is not the waiter's until that task runs.  What a request does once      *)
(* inside is left open: it moves among the places Inside.  AdmissionSpec is *)
(* what callers may rely on whatever that is; SdkScheduler fills it in.     *)
(***************************************************************************)
EXTENDS Integers, FiniteSets

CONSTANTS
    Requests,        \* calls of schedule and schedule_stream
    MaxConcurrent    \* config.max_concurrent_requests

ASSUME AdmissionAssumption ==
    IsFiniteSet(Requests) /\ MaxConcurrent \in Nat \ {0}

VARIABLES
    pc,          \* where each request is
    ticket,      \* its place among the semaphore's waiters
    permits,     \* the semaphore's value
    active,      \* _active_requests
    processed, failures, rejections,  \* the totals of queue_stats
    shutdown     \* "no", or "returned" once initiate_shutdown has returned

totals == <<processed, failures, rejections>>
admissionVars == <<pc, ticket, permits, active, totals, shutdown>>

(* Between _active_requests += 1 and the finally that undoes it.            *)
Inside == {"deferred", "calling", "streaming", "backoff"}
Final == {"refused", "rejected", "done", "failed", "cancelled"}
(* At the semaphore: waiting, or its waiter's future has its result but the *)
(* task did not run; and past it, with nothing left to time out or cancel.  *)
Places == {"idle", "queued", "handed", "granted"} \cup Inside \cup Final

InPlaces(places) == {r \in Requests : pc[r] \in places}
Queued == InPlaces({"queued"})
Handed == InPlaces({"handed"})
Holding == InPlaces(Inside \cup {"handed", "granted"})

AdmissionInit ==
    /\ pc = [r \in Requests |-> "idle"]
    /\ ticket = [r \in Requests |-> 0]
    /\ permits = MaxConcurrent
    /\ active = 0
    /\ processed = 0 /\ failures = 0 /\ rejections = 0
    /\ shutdown = "no"

-----------------------------------------------------------------------------
(* asyncio.Semaphore hands a released permit to its longest-waiting waiter. *)
NextInLine == {q \in Queued : \A p \in Queued : ticket[q] <= ticket[p]}

(* Faulty variant: the first waiter is not woken.                           *)
ReleasePermit_NoWakeUp(r, outcome) ==
    /\ permits' = permits + 1
    /\ pc' = [pc EXCEPT ![r] = outcome]

ReleasePermit(r, outcome) ==
    \/ /\ Queued = {}
       /\ permits' = permits + 1
       /\ pc' = [pc EXCEPT ![r] = outcome]
    \/ \E q \in NextInLine :
          /\ pc' = [pc EXCEPT ![r] = outcome, ![q] = "handed"]
          /\ UNCHANGED permits

(* schedule and schedule_stream up to the acquire: refused once shut down,  *)
(* a permit now when there is one and nobody is among the waiters, not even *)
(* one whose permit is on its way, and a place in line otherwise.           *)
Submit(r) ==
    /\ pc[r] = "idle"
    /\ \/ /\ shutdown # "no"
          /\ pc' = [pc EXCEPT ![r] = "refused"]
          /\ UNCHANGED <<ticket, permits>>
       \/ /\ shutdown = "no" /\ permits > 0 /\ Queued = {} /\ Handed = {}
          /\ pc' = [pc EXCEPT ![r] = "granted"]
          /\ permits' = permits - 1
          /\ UNCHANGED ticket
       \/ /\ shutdown = "no" /\ (permits = 0 \/ Queued # {} \/ Handed # {})
          /\ pc' = [pc EXCEPT ![r] = "queued"]
          /\ ticket' = [ticket EXCEPT ![r] = Cardinality(Requests \ InPlaces({"idle"}))]
          /\ UNCHANGED permits
    /\ UNCHANGED <<active, totals, shutdown>>

(* Faulty variant: what CPython did before its issue 90155 was fixed.       *)
Resume_Alone(r) ==
    /\ pc[r] = "handed"
    /\ pc' = [pc EXCEPT ![r] = "granted"]
    /\ UNCHANGED <<ticket, permits, active, totals, shutdown>>

(* The acquire of a waiter that was handed its permit runs to its end, and  *)
(* wakes the next one when there is a permit for it too.                    *)
Resume(r) ==
    /\ pc[r] = "handed"
    /\ \/ /\ permits = 0 \/ Queued = {}
          /\ pc' = [pc EXCEPT ![r] = "granted"]
          /\ UNCHANGED permits
       \/ /\ permits > 0
          /\ \E q \in NextInLine :
                pc' = [pc EXCEPT ![r] = "granted", ![q] = "handed"]
          /\ permits' = permits - 1
    /\ UNCHANGED <<ticket, active, totals, shutdown>>

(* Faulty variant: a permit handed over too late is not passed on.          *)
AcquireTimeout_KeepsPermit(r) ==
    /\ pc[r] \in {"queued", "handed"}
    /\ pc' = [pc EXCEPT ![r] = "rejected"]
    /\ rejections' = rejections + 1
    /\ UNCHANGED <<ticket, permits, active, processed, failures, shutdown>>

(* wait_for(acquire) runs out, perhaps after the permit was handed over and *)
(* before the task ran: then the permit is passed on.                       *)
AcquireTimeout(r) ==
    /\ \/ /\ pc[r] = "queued"
          /\ pc' = [pc EXCEPT ![r] = "rejected"]
          /\ UNCHANGED permits
       \/ pc[r] = "handed" /\ ReleasePermit(r, "rejected")
    /\ rejections' = rejections + 1
    /\ UNCHANGED <<ticket, active, processed, failures, shutdown>>

(* The caller cancels the task before its acquire ran to its end; later     *)
(* than that, wait_for returns all the same and swallows the cancellation.  *)
Withdraw(r) ==
    /\ \/ /\ pc[r] = "queued"
          /\ pc' = [pc EXCEPT ![r] = "cancelled"]
          /\ UNCHANGED permits
       \/ pc[r] = "handed" /\ ReleasePermit(r, "cancelled")
    /\ UNCHANGED <<ticket, active, totals, shutdown>>

(* The task runs with its permit up to the first await of the request.      *)
Enter(r, place) ==
    /\ pc[r] = "granted"
    /\ pc' = [pc EXCEPT ![r] = place]
    /\ active' = active + 1
    /\ UNCHANGED <<ticket, permits, totals, shutdown>>

(* The request raises before its first await: in and out in one step.       *)
EnterAndFail(r) ==
    /\ pc[r] = "granted"
    /\ ReleasePermit(r, "failed")
    /\ failures' = failures + 1
    /\ UNCHANGED <<ticket, active, processed, rejections, shutdown>>

Proceed(r, place) ==
    /\ pc[r] \in Inside
    /\ pc' = [pc EXCEPT ![r] = place]
    /\ UNCHANGED <<ticket, permits, active, totals, shutdown>>

(* The finally.                                                             *)
Leave(r, outcome) ==
    /\ pc[r] \in Inside
    /\ active' = active - 1
    /\ ReleasePermit(r, outcome)
    /\ UNCHANGED <<ticket, shutdown>>

Succeed(r) ==
    /\ Leave(r, "done")
    /\ processed' = processed + 1
    /\ UNCHANGED <<failures, rejections>>

(* Faulty variant: total_requests += 1 in the finally.                      *)
Fail_CountsProcessed(r) ==
    /\ Leave(r, "failed")
    /\ failures' = failures + 1
    /\ processed' = processed + 1
    /\ UNCHANGED rejections

Fail(r) ==
    /\ Leave(r, "failed")
    /\ failures' = failures + 1
    /\ UNCHANGED <<processed, rejections>>

(* CancelledError and GeneratorExit pass by "except Exception": a cancelled *)
(* request or a closed stream counts nowhere.                               *)
Abandon(r) == Leave(r, "cancelled") /\ UNCHANGED totals

(* initiate_shutdown: register_task has no caller, so _pending_requests is  *)
(* empty and the coroutine returns without waiting.                         *)
Shutdown ==
    /\ shutdown = "no"
    /\ shutdown' = "returned"
    /\ UNCHANGED <<pc, ticket, permits, active, totals>>

AdmissionNext ==
    \/ Shutdown
    \/ \E r \in Requests :
          \/ Submit(r) \/ Resume(r) \/ AcquireTimeout(r) \/ Withdraw(r)
          \/ EnterAndFail(r) \/ Succeed(r) \/ Fail(r) \/ Abandon(r)
          \/ \E place \in Inside : Enter(r, place) \/ Proceed(r, place)

(* The promise: nothing but these steps ever touches the admission state.   *)
AdmissionSpec == AdmissionInit /\ [][AdmissionNext]_admissionVars

-----------------------------------------------------------------------------
AdmissionTypeOK ==
    /\ pc \in [Requests -> Places]
    /\ ticket \in [Requests -> Nat]
    /\ permits \in 0..MaxConcurrent
    /\ active \in 0..MaxConcurrent
    /\ processed \in Nat /\ failures \in Nat /\ rejections \in Nat
    /\ shutdown \in {"no", "returned"}

(* The semaphore leaks no permit and mints none, whatever mix of timeouts,  *)
(* failures, cancellations and closed streams releases them, and            *)
(* _active_requests counts exactly the requests between its += 1 and its    *)
(* -= 1 (scheduler.py:191-222, 399-427).                                    *)
PermitAccounting ==
    /\ permits + Cardinality(Holding) = MaxConcurrent
    /\ active = Cardinality(InPlaces(Inside))

(* No release loses its wake-up: a permit lies free beside a waiting        *)
(* request only while another permit is on its way to a waiter, which will  *)
(* wake the next one, or give both on should it time out or be cancelled    *)
(* (scheduler.py:193, 222).                                                 *)
NoPermitStranded == permits > 0 /\ Queued # {} => Handed # {}

(* The three totals of queue_stats tell requests apart by how they ended:   *)
(* a request that settled is in exactly one, a cancelled or refused one in  *)
(* none (scheduler.py:198, 215-219, 406, 421-424).                          *)
TotalsAddUp ==
    /\ processed = Cardinality(InPlaces({"done"}))
    /\ failures = Cardinality(InPlaces({"failed"}))
    /\ rejections = Cardinality(InPlaces({"rejected"}))
=============================================================================
