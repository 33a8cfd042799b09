------------------------------ MODULE WorkQueue ------------------------------
(***************************************************************************)
(* The server's queue manager, llm_scheduler/core/queue_manager.py: a       *)
(* bounded priority queue, a pool of workers and a future per request.      *)
(*                                                                         *)
(* Callers and workers are asyncio tasks on one event loop.  An action is   *)
(* the code between two awaits, for Python 3.11 (the Dockerfile's), where   *)
(* wait_for runs queue.get as a task of its own: a worker resumes after     *)
(* others saw the item gone ("holding"), and a cancellation that finds the  *)
(* item already taken is swallowed.                                         *)
(***************************************************************************)
EXTENDS Integers, FiniteSets

CONSTANTS
    Jobs,       \* requests
    Workers,    \* the worker tasks
    NoJob,      \* what a worker without a request has
    Rank,       \* [Jobs -> 1..3]: priority.value, lower is more urgent
    MaxSize,    \* max_size
    Horizon     \* bound of the clock: nothing is scheduled after it

ASSUME WorkQueueAssumption ==
    /\ IsFiniteSet(Jobs) /\ IsFiniteSet(Workers) /\ Workers # {}
    /\ NoJob \notin Jobs
    /\ Rank \in [Jobs -> 1..3]
    /\ MaxSize \in Nat \ {0} /\ Horizon \in Nat

VARIABLES
    now,        \* time.time(), in ticks
    running,    \* _running
    stage,      \* where each request is
    future,     \* its future
    dueAt,      \* its scheduled_at
    arrival,    \* its created_at: how many were created before it
    worker,     \* where each worker is
    job,        \* the request in its hands
    enqueued, processed, failed  \* the totals of get_stats

stats == <<enqueued, processed, failed>>
requests == <<stage, future, dueAt, arrival>>
queueVars == <<now, running, requests, worker, job, stats>>

(* "putting": the caller waits for room.  "returned", "raised": how the     *)
(* processor ended.  "dropped": its worker was cancelled.  "lost", "stuck": *)
(* in, or waiting for, a queue that start replaced.                         *)
Stages == {"new", "putting", "withdrawn", "queued", "held", "running",
           "returned", "raised", "dropped", "lost", "stuck"}

(* "returning": waits for room to put a deferred request back.              *)
WorkerStates == {"getting", "holding", "returning", "resting", "running", "ended"}

InStage(stages) == {j \in Jobs : stage[j] \in stages}
Full == Cardinality(InStage({"queued"})) >= MaxSize
Ready(j) == dueAt[j] <= now

QueueInit ==
    /\ now = 0
    /\ running = FALSE
    /\ stage = [j \in Jobs |-> "new"]
    /\ future = [j \in Jobs |-> "pending"]
    /\ dueAt = [j \in Jobs |-> 0]
    /\ arrival = [j \in Jobs |-> 0]
    /\ worker = [w \in Workers |-> "ended"]
    /\ job = [w \in Workers |-> NoJob]
    /\ enqueued = 0 /\ processed = 0 /\ failed = 0

-----------------------------------------------------------------------------
(* The pool.                                                                *)

(* A new queue and new workers; what the old queue held is in no queue now. *)
Start ==
    /\ ~ running /\ \A w \in Workers : worker[w] = "ended"
    /\ running' = TRUE
    /\ worker' = [w \in Workers |-> "getting"]
    /\ stage' = [j \in Jobs |-> CASE stage[j] = "queued" -> "lost"
                                  [] stage[j] = "putting" -> "stuck"
                                  [] OTHER -> stage[j]]
    /\ UNCHANGED <<now, future, dueAt, arrival, job, stats>>

(* Cancels every worker.  One that runs a request, or waits to put one      *)
(* back, abandons it; the others end, but for one whose cancellation is     *)
(* swallowed.                                                               *)
Stop ==
    /\ running
    /\ running' = FALSE
    /\ worker' = [w \in Workers |-> IF worker[w] = "holding" THEN "holding" ELSE "ended"]
    /\ job' = [w \in Workers |-> IF worker[w] = "holding" THEN job[w] ELSE NoJob]
    /\ stage' = [j \in Jobs |->
                   IF \E w \in Workers : job[w] = j /\ worker[w] # "holding"
                   THEN "dropped" ELSE stage[j]]
    /\ UNCHANGED <<now, future, dueAt, arrival, stats>>

-----------------------------------------------------------------------------
(* Callers.                                                                 *)

PutIn(j) == stage' = [stage EXCEPT ![j] = "queued"]

(* enqueue, up to the await of put.                                         *)
Enqueue(j, wait) ==
    /\ running /\ stage[j] = "new" /\ now + wait <= Horizon
    /\ dueAt' = [dueAt EXCEPT ![j] = now + wait]
    /\ arrival' = [arrival EXCEPT ![j] = Cardinality(Jobs \ InStage({"new"}))]
    /\ \/ ~ Full /\ PutIn(j) /\ enqueued' = enqueued + 1
       \/ Full /\ stage' = [stage EXCEPT ![j] = "putting"] /\ UNCHANGED enqueued
    /\ UNCHANGED <<now, running, future, worker, job, processed, failed>>

Unblocked(j) ==
    /\ stage[j] = "putting" /\ ~ Full
    /\ PutIn(j) /\ enqueued' = enqueued + 1
    /\ UNCHANGED <<now, running, future, dueAt, arrival, worker, job, processed, failed>>

(* The caller is cancelled, in put or while it awaits the future.           *)
CancelCaller(j) ==
    /\ stage[j] # "new" /\ future[j] = "pending"
    /\ future' = [future EXCEPT ![j] = "cancelled"]
    /\ stage' = [stage EXCEPT ![j] = IF @ \in {"putting", "stuck"} THEN "withdrawn" ELSE @]
    /\ UNCHANGED <<now, running, dueAt, arrival, worker, job, stats>>

-----------------------------------------------------------------------------
(* A worker.                                                                *)

(* The order of sort_key.                                                   *)
Before(i, j) ==
    \/ Rank[i] < Rank[j]
    \/ Rank[i] = Rank[j] /\ dueAt[i] < dueAt[j]
    \/ Rank[i] = Rank[j] /\ dueAt[i] = dueAt[j] /\ arrival[i] < arrival[j]

Head == {j \in InStage({"queued"}) : \A i \in InStage({"queued"}) \ {j} : Before(j, i)}

WorkerStep(w, from, to) ==
    /\ worker[w] = from
    /\ worker' = [worker EXCEPT ![w] = to]
    /\ UNCHANGED <<now, running, dueAt, arrival, enqueued>>

Take(w) ==
    /\ WorkerStep(w, "getting", "holding")
    /\ \E j \in Head :
          /\ job' = [job EXCEPT ![w] = j]
          /\ stage' = [stage EXCEPT ![j] = "held"]
    /\ UNCHANGED <<future, processed, failed>>

(* Faulty variant: a request is processed before its time.                  *)
StartWork_Early(w) ==
    /\ WorkerStep(w, "holding", "running")
    /\ stage' = [stage EXCEPT ![job[w]] = "running"]
    /\ UNCHANGED <<future, job, processed, failed>>

(* wait_time() is 0: call the processor.                                    *)
StartWork(w) ==
    /\ WorkerStep(w, "holding", "running")
    /\ Ready(job[w])
    /\ stage' = [stage EXCEPT ![job[w]] = "running"]
    /\ UNCHANGED <<future, job, processed, failed>>

(* The put back has room: the worker sleeps for a moment.                   *)
PutBack(w, from) ==
    /\ WorkerStep(w, from, "resting")
    /\ ~ Full
    /\ PutIn(job[w])
    /\ job' = [job EXCEPT ![w] = NoJob]
    /\ UNCHANGED <<future, processed, failed>>

(* Faulty variant: a put back that finds no room is given up.               *)
Defer_Drops(w) ==
    /\ worker[w] = "holding" /\ ~ Ready(job[w])
    /\ \/ PutBack(w, "holding")
       \/ /\ Full
          /\ WorkerStep(w, "holding", "resting")
          /\ job' = [job EXCEPT ![w] = NoJob]
          /\ UNCHANGED <<stage, future, processed, failed>>

(* wait_time() > 0: put the request back, or wait for room to do so.        *)
Defer(w) ==
    /\ worker[w] = "holding" /\ ~ Ready(job[w])
    /\ \/ PutBack(w, "holding")
       \/ /\ Full
          /\ WorkerStep(w, "holding", "returning")
          /\ UNCHANGED <<stage, future, job, processed, failed>>

(* After its sleep, or a result: `while self._running`.                     *)
NextState == IF running THEN "getting" ELSE "ended"

(* Faulty variant: `break` for `continue`.                                  *)
Rested_Breaks(w) ==
    /\ WorkerStep(w, "resting", "ended")
    /\ UNCHANGED <<stage, future, job, processed, failed>>

Rested(w) ==
    /\ WorkerStep(w, "resting", NextState)
    /\ UNCHANGED <<stage, future, job, processed, failed>>

(* How the processor ended.                                                 *)
Ended(w, outcome) ==
    stage' = [stage EXCEPT ![job[w]] = IF outcome = "result" THEN "returned" ELSE "raised"]

(* Faulty variant: a failure is counted and logged, and its caller not told. *)
Finish_Silent(w, outcome) ==
    /\ WorkerStep(w, "running", NextState)
    /\ Ended(w, outcome)
    /\ future' = [future EXCEPT ![job[w]] =
                     IF @ = "pending" /\ outcome = "result" THEN outcome ELSE @]
    /\ \/ outcome = "result" /\ processed' = processed + 1 /\ UNCHANGED failed
       \/ outcome = "exception" /\ failed' = failed + 1 /\ UNCHANGED processed
    /\ job' = [job EXCEPT ![w] = NoJob]

(* Faulty variant: set_result without a look at done() raises on the future *)
(* of a caller that is gone, and the except branch counts a failure.        *)
Finish_Unguarded(w, outcome) ==
    /\ WorkerStep(w, "running", NextState)
    /\ Ended(w, outcome)
    /\ future' = [future EXCEPT ![job[w]] = IF @ = "pending" THEN outcome ELSE @]
    /\ IF outcome = "result" /\ future[job[w]] = "pending"
       THEN processed' = processed + 1 /\ UNCHANGED failed
       ELSE failed' = failed + 1 /\ UNCHANGED processed
    /\ job' = [job EXCEPT ![w] = NoJob]

(* The processor returned or raised.                                        *)
Finish(w, outcome) ==
    /\ WorkerStep(w, "running", NextState)
    /\ Ended(w, outcome)
    /\ future' = [future EXCEPT ![job[w]] = IF @ = "pending" THEN outcome ELSE @]
    /\ \/ outcome = "result" /\ processed' = processed + 1 /\ UNCHANGED failed
       \/ outcome = "exception" /\ failed' = failed + 1 /\ UNCHANGED processed
    /\ job' = [job EXCEPT ![w] = NoJob]

TimePasses ==
    /\ now < Horizon
    /\ now' = now + 1
    /\ UNCHANGED <<running, requests, worker, job, stats>>

QueueNext ==
    \/ Start \/ Stop \/ TimePasses
    \/ \E j \in Jobs :
          \/ \E wait \in 0..Horizon : Enqueue(j, wait)
          \/ Unblocked(j) \/ CancelCaller(j)
    \/ \E w \in Workers :
          \/ Take(w) \/ StartWork(w) \/ Defer(w) \/ PutBack(w, "returning") \/ Rested(w)
          \/ \E outcome \in {"result", "exception"} : Finish(w, outcome)

(* What the queue promises whatever the processor does and whenever it is   *)
(* asked to defer.                                                          *)
QueueSpec == QueueInit /\ [][QueueNext]_queueVars

-----------------------------------------------------------------------------
QueueTypeOK ==
    /\ now \in 0..Horizon /\ running \in BOOLEAN
    /\ stage \in [Jobs -> Stages]
    /\ future \in [Jobs -> {"pending", "result", "exception", "cancelled"}]
    /\ dueAt \in [Jobs -> 0..Horizon]
    /\ arrival \in [Jobs -> Nat]
    /\ worker \in [Workers -> WorkerStates]
    /\ job \in [Workers -> Jobs \cup {NoJob}]
    /\ enqueued \in Nat /\ processed \in Nat /\ failed \in Nat

(* No request is lost between the queue and the workers, none is in two     *)
(* hands or both queued and taken, and the queue respects its bound, however *)
(* often deferred requests go round (queue_manager.py:185-200).             *)
OnePlace ==
    /\ \A w \in Workers :
          /\ job[w] # NoJob <=> worker[w] \in {"holding", "returning", "running"}
          /\ worker[w] \in {"holding", "returning"} => stage[job[w]] = "held"
          /\ worker[w] = "running" => stage[job[w]] = "running"
    /\ \A j \in InStage({"held", "running"}) : \E w \in Workers : job[w] = j
    /\ \A v, w \in Workers : job[v] = job[w] /\ job[v] # NoJob => v = w
    /\ Cardinality(InStage({"queued"})) <= MaxSize

(* A processed request's caller has the answer the processor gave or is     *)
(* gone, no request is answered before it was processed, and the totals     *)
(* tell the requests that were processed from those that failed, whether or *)
(* not a caller still waits (queue_manager.py:171, 199-218).                *)
AnsweredOnce ==
    /\ \A j \in Jobs :
          /\ stage[j] = "returned" => future[j] \in {"result", "cancelled"}
          /\ stage[j] = "raised" => future[j] \in {"exception", "cancelled"}
          /\ future[j] = "result" => stage[j] = "returned"
          /\ future[j] = "exception" => stage[j] = "raised"
    /\ processed = Cardinality(InStage({"returned"}))
    /\ failed = Cardinality(InStage({"raised"}))
    /\ enqueued = Cardinality(InStage({"queued", "held", "running", "returned",
                                      "raised", "dropped", "lost"}))

(* While the pool runs, a request that got into the queue reaches the       *)
(* processor: "Deferred execution (schedule for future time)", "Async       *)
(* worker pool for processing" (queue_manager.py:104-108).                  *)
EnqueuedIsProcessed ==
    \A j \in Jobs :
        stage[j] \in {"queued", "held"} ~>
            stage[j] \in {"running", "returned", "raised"} \/ ~ running
=============================================================================
