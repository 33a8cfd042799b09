--------------------------- MODULE ServerScheduler ---------------------------
(***************************************************************************)
(* The server's scheduler and dispatcher, llm_scheduler/core/scheduler.py   *)
(* and dispatcher.py, over the queue of WorkQueue and the keys of           *)
(* KeyManager: capacity is reserved when a request is queued, on credit if  *)
(* need be, and used when a worker dispatches it.                           *)
(***************************************************************************)
EXTENDS WorkQueue, KeyManager, FiniteSetsExt

CONSTANTS
    NoKey,        \* no key selected yet
    Candidates,   \* [Jobs -> SUBSET Keys]: get_keys_for_model
    Estimate      \* [Jobs -> Nat]: total_estimated of a request

ASSUME ServerAssumption ==
    /\ NoKey \notin Keys
    /\ Candidates \in [Jobs -> SUBSET Keys]
    /\ Estimate \in [Jobs -> Nat]

VARIABLES
    selection,   \* the key of each request's _key_selection
    owed,        \* history: the requests that reserved on the present keys
                 \*   and were not dispatched
    provider     \* history: [Keys -> Int], the tokens the provider itself
                 \*   still allows: its bucket has the same limit and rate

vars == <<queueVars, keyVars, selection, owed, provider>>

Init ==
    /\ QueueInit /\ KeyInit
    /\ selection = [j \in Jobs |-> NoKey]
    /\ owed = {}
    /\ provider = TpmLimit

-----------------------------------------------------------------------------
(* Loads the keys and starts the queue; the provider's bucket knows of no   *)
(* restart.                                                                 *)
StartScheduler ==
    /\ Start /\ LoadFromConfig
    /\ owed' = {}
    /\ UNCHANGED <<selection, provider>>

(* schedule, up to the await of enqueue's put.  It raises, and changes      *)
(* nothing, when the server is stopped or no key is healthy.                *)
Schedule(j) ==
    \E s \in Selections(Candidates[j], Estimate[j]) :
        /\ Enqueue(j, s.wait)
        /\ Reserve(s.key, Estimate[j])
        /\ selection' = [selection EXCEPT ![j] = s.key]
        /\ owed' = owed \cup {j}
        /\ UNCHANGED provider

(* What the queue does on its own.                                          *)
Unattended(step) == step /\ UNCHANGED <<keyVars, selection, owed, provider>>

(* A worker calls _process_request, which dispatches.                       *)
Dispatch(w) ==
    LET j == job[w] IN
    /\ StartWork(w)
    /\ owed' = owed \ {j}
    /\ provider' = [provider EXCEPT ![selection[j]] = @ - Estimate[j]]
    /\ UNCHANGED <<keyVars, selection>>

(* The stream ends.                                                         *)
Completes(w) ==
    /\ Finish(w, "result")
    /\ RecordSuccess(selection[job[w]])
    /\ UNCHANGED <<selection, owed, provider>>

(* Faulty variant: a failed request is queued again at once.                *)
Fails_Requeued(w) ==
    /\ WorkerStep(w, "running", NextState)
    /\ PutIn(job[w])
    /\ job' = [job EXCEPT ![w] = NoJob]
    /\ RecordFailure(selection[job[w]])
    /\ UNCHANGED <<future, processed, failed, tpm, rpm, selection, owed, provider>>

(* _handle_error: a rate limit or server error is refunded, and costs       *)
(* nothing at the provider; any other failure keeps its reservation.        *)
Fails(w) ==
    LET j == job[w]  k == selection[j] IN
    /\ Finish(w, "exception")
    /\ RecordFailure(k)
    /\ \/ Refund(k, Estimate[j])
          /\ provider' = [provider EXCEPT ![k] = AtMost(TpmLimit[k], @ + Estimate[j])]
       \/ UNCHANGED <<tpm, rpm, provider>>
    /\ UNCHANGED <<selection, owed>>

Tick ==
    /\ TimePasses /\ KeyTick
    /\ provider' = Refilled(provider, TpmLimit, TpmRate)
    /\ UNCHANGED <<selection, owed>>

WorkerMoves(w) ==
    \/ Unattended(Take(w)) \/ Unattended(Defer(w))
    \/ Unattended(PutBack(w, "returning")) \/ Unattended(Rested(w))
    \/ Dispatch(w) \/ Completes(w) \/ Fails(w)

Next ==
    \/ Tick \/ StartScheduler \/ Unattended(Stop)
    \/ \E j \in Jobs :
          Schedule(j) \/ Unattended(Unblocked(j)) \/ Unattended(CancelCaller(j))
    \/ \E w \in Workers : WorkerMoves(w)

(* Time passes, each worker runs, the provider answers or fails, and a put  *)
(* that finds room is done.                                                 *)
Fairness ==
    /\ WF_vars(Tick)
    /\ \A w \in Workers : WF_vars(WorkerMoves(w))
    /\ \A j \in Jobs : WF_vars(Unattended(Unblocked(j)))

Spec == Init /\ [][Next]_vars
FairSpec == Spec /\ Fairness

-----------------------------------------------------------------------------
TypeOK ==
    /\ QueueTypeOK /\ KeyTypeOK
    /\ selection \in [Jobs -> Keys \cup {NoKey}]
    /\ owed \subseteq Jobs
    /\ provider \in [Keys -> Int]

(* The tokens reserved on a key for requests not yet dispatched.            *)
Awaited(k) == {j \in owed : selection[j] = k}
Owed(k) == MapThenSumSet(LAMBDA j : Estimate[j], Awaited(k))

(* A request is not dispatched before the capacity it reserved on credit    *)
(* has accrued: what is overdrawn is owed by requests still waiting         *)
(* (scheduler.py:124-140, queue_manager.py:191-196).  It speaks of the keys *)
(* as last loaded: a restart forgets what was taken from the keys before it *)
(* (scheduler.py:50), and the requests that reserved on those must never    *)
(* get to a worker.                                                         *)
DispatchIsCovered ==
    /\ \A k \in Keys : tpm[k] + Owed(k) >= 0 /\ rpm[k] + Cardinality(Awaited(k)) >= 0
    /\ InStage({"putting", "queued", "held"}) \subseteq owed

(* "Never blindly hits 429 errors" (scheduler.py:30): no dispatch exceeds   *)
(* what the provider allows at that moment.                                 *)
NeverOverLimit == \A k \in Keys : provider[k] >= 0
=============================================================================
