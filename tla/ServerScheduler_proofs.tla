------------------------ MODULE ServerScheduler_proofs ------------------------
(***************************************************************************)
(* Proofs about the server: first its queue, whatever the processor does    *)
(* and whenever it defers, then the scheduler on top of it, which           *)
(* implements that queue.                                                   *)
(***************************************************************************)
EXTENDS ServerScheduler, Buckets_proofs, FiniteSetTheorems

OneIf(b) == IF b THEN 1 ELSE 0

CountAt(f, stages) == Cardinality({j \in Jobs : f[j] \in stages})

(* Of all requests, only i may have moved between f and g.                  *)
SameBut(f, g, i) == \A j \in Jobs : j # i => g[j] = f[j]

(* A set of requests is finite.                                            *)
LEMMA JobSetIsFinite ==
    ASSUME NEW S \in SUBSET Jobs
    PROVE  IsFiniteSet(S) /\ Cardinality(S) \in Nat
BY WorkQueueAssumption, FS_Subset, FS_CardinalityType

(* A count of requests is a number.                                         *)
LEMMA CountIsNat ==
    ASSUME NEW f, NEW stages
    PROVE  CountAt(f, stages) \in Nat
BY JobSetIsFinite, {j \in Jobs : f[j] \in stages} \in SUBSET Jobs DEF CountAt

(* One request moves: its old stage loses one, its new stage gains one.     *)
LEMMA CountOfMove ==
    ASSUME NEW f, NEW g, NEW i \in Jobs, NEW stages, SameBut(f, g, i)
    PROVE  CountAt(g, stages)
             = CountAt(f, stages) + OneIf(g[i] \in stages) - OneIf(f[i] \in stages)
<1> DEFINE A == {j \in Jobs : f[j] \in stages}
           B == {j \in Jobs : g[j] \in stages}
<1>1. IsFiniteSet(A) /\ Cardinality(A) \in Nat
  BY JobSetIsFinite, A \in SUBSET Jobs
<1>2. i \in A <=> f[i] \in stages OBVIOUS
<1>3. B = IF g[i] \in stages THEN A \cup {i} ELSE A \ {i} BY DEF SameBut
<1> HIDE DEF A, B
<1>4. Cardinality(A \cup {i}) = IF i \in A THEN Cardinality(A) ELSE Cardinality(A) + 1
  BY <1>1, FS_AddElement
<1>5. Cardinality(A \ {i}) = IF i \in A THEN Cardinality(A) - 1 ELSE Cardinality(A)
  BY <1>1, FS_RemoveElement
<1>6. Cardinality(B) = Cardinality(A) + OneIf(g[i] \in stages) - OneIf(f[i] \in stages)
  BY <1>1, <1>2, <1>3, <1>4, <1>5 DEF OneIf
<1> QED BY <1>6 DEF CountAt, A, B

(* Requests that move within some stages, or outside them, leave their      *)
(* number alone.                                                            *)
LEMMA CountOfRest ==
    ASSUME NEW f, NEW g, NEW stages,
           \A j \in Jobs : g[j] \in stages <=> f[j] \in stages
    PROVE  CountAt(g, stages) = CountAt(f, stages)
<1>1. {j \in Jobs : g[j] \in stages} = {j \in Jobs : f[j] \in stages} OBVIOUS
<1> QED BY <1>1 DEF CountAt

-----------------------------------------------------------------------------
(* The queue.                                                              *)

InHand == {"holding", "returning", "running"}
Entered == {"queued", "held", "running", "returned", "raised", "dropped", "lost"}

(* The stages of what was processed.                                        *)
Ends == {"returned", "raised"}

(* OnePlace without the bound of the queue.                                 *)
HandsAgree ==
    /\ \A w \in Workers :
          /\ job[w] # NoJob <=> worker[w] \in InHand
          /\ worker[w] \in {"holding", "returning"} => stage[job[w]] = "held"
          /\ worker[w] = "running" => stage[job[w]] = "running"
    /\ \A j \in Jobs : stage[j] \in {"held", "running"} => \E w \in Workers : job[w] = j
    /\ \A v, w \in Workers : job[v] = job[w] /\ job[v] # NoJob => v = w

WithinSize == CountAt(stage, {"queued"}) <= MaxSize

AnswersAgree ==
    \A j \in Jobs :
        /\ stage[j] = "returned" => future[j] \in {"result", "cancelled"}
        /\ stage[j] = "raised" => future[j] \in {"exception", "cancelled"}
        /\ future[j] = "result" => stage[j] = "returned"
        /\ future[j] = "exception" => stage[j] = "raised"

TotalsAgree ==
    /\ processed = CountAt(stage, {"returned"}) /\ failed = CountAt(stage, {"raised"})
    /\ enqueued = CountAt(stage, Entered)

QueueInv == QueueTypeOK /\ HandsAgree /\ WithinSize /\ AnswersAgree /\ TotalsAgree

(* The parts are the invariants the runs check.                             *)
LEMMA QueueInvImplies == QueueInv => OnePlace /\ AnsweredOnce
<1> SUFFICES ASSUME QueueInv PROVE OnePlace /\ AnsweredOnce
  OBVIOUS
<1>1. \A S : Cardinality(InStage(S)) = CountAt(stage, S) BY DEF InStage, CountAt
<1>2. OnePlace
  BY <1>1 DEF QueueInv, HandsAgree, WithinSize, OnePlace, InStage, InHand
<1>3. AnsweredOnce
  BY <1>1 DEF QueueInv, AnswersAgree, TotalsAgree, AnsweredOnce, Entered
<1> QED BY <1>2, <1>3

(* A worker with something in its hands has a request there, in the stage   *)
(* that says so.                                                            *)
LEMMA JobInHand ==
    ASSUME QueueTypeOK, HandsAgree, NEW w \in Workers, worker[w] \in InHand
    PROVE  /\ job[w] \in Jobs
           /\ stage[job[w]] = IF worker[w] = "running" THEN "running" ELSE "held"
BY DEF QueueTypeOK, HandsAgree, InHand, WorkerStates

LEMMA QueueInitInv == QueueInit => QueueInv
<1> SUFFICES ASSUME QueueInit PROVE QueueInv
  OBVIOUS
<1> USE WorkQueueAssumption
<1>1. QueueTypeOK
  <2>1. running \in BOOLEAN BY Zenon DEF QueueInit
  <2> QED BY <2>1 DEF QueueInit, QueueTypeOK, Stages, WorkerStates
<1>2. HandsAgree BY DEF QueueInit, HandsAgree, InHand
<1>3. AnswersAgree BY DEF QueueInit, AnswersAgree
<1>4. \A S : "new" \notin S => CountAt(stage, S) = 0
  <2> SUFFICES ASSUME NEW S, "new" \notin S PROVE CountAt(stage, S) = 0
    OBVIOUS
  <2>1. {j \in Jobs : stage[j] \in S} = {} BY DEF QueueInit
  <2> QED BY <2>1, FS_EmptySet DEF CountAt
<1>5. /\ CountAt(stage, {"queued"}) = 0
      /\ CountAt(stage, {"returned"}) = 0 /\ CountAt(stage, {"raised"}) = 0
  BY <1>4
<1>6. CountAt(stage, Entered) = 0 BY <1>4 DEF Entered
<1>7. WithinSize /\ TotalsAgree
  BY <1>5, <1>6 DEF QueueInit, WithinSize, TotalsAgree
<1> QED BY <1>1, <1>2, <1>3, <1>7 DEF QueueInv

(* Every step keeps the types.                                              *)
LEMMA QueueTypeStep ==
    QueueTypeOK /\ HandsAgree /\ [QueueNext]_queueVars => QueueTypeOK'
<1> SUFFICES ASSUME QueueTypeOK, HandsAgree, [QueueNext]_queueVars PROVE QueueTypeOK'
  OBVIOUS
<1> USE WorkQueueAssumption DEF QueueTypeOK, Stages, WorkerStates, requests, stats
<1>1. CASE Start
  <2>1. stage' \in [Jobs -> Stages] BY <1>1 DEF Start
  <2> QED BY <1>1, <2>1 DEF Start
<1>2. CASE Stop
  <2>1. stage' \in [Jobs -> Stages] BY <1>2 DEF Stop
  <2>2. job' \in [Workers -> Jobs \cup {NoJob}] BY <1>2 DEF Stop
  <2> QED BY <1>2, <2>1, <2>2 DEF Stop
<1>3. CASE TimePasses BY <1>3 DEF TimePasses
<1>4. ASSUME NEW j \in Jobs, NEW wait \in 0..Horizon, Enqueue(j, wait) PROVE QueueTypeOK'
  <2>1. Cardinality(Jobs \ InStage({"new"})) \in Nat
    BY JobSetIsFinite, Jobs \ InStage({"new"}) \in SUBSET Jobs
  <2>2. arrival' \in [Jobs -> Nat] BY <1>4, <2>1 DEF Enqueue
  <2>3. dueAt' \in [Jobs -> 0..Horizon] BY <1>4 DEF Enqueue
  <2>4. stage' \in [Jobs -> Stages] /\ enqueued' \in Nat BY <1>4 DEF Enqueue, PutIn
  <2> QED BY <1>4, <2>2, <2>3, <2>4 DEF Enqueue
<1>5. ASSUME NEW j \in Jobs, Unblocked(j) PROVE QueueTypeOK'
  BY <1>5 DEF Unblocked, PutIn
<1>6. ASSUME NEW j \in Jobs, CancelCaller(j) PROVE QueueTypeOK'
  <2>1. stage' \in [Jobs -> Stages] BY <1>6 DEF CancelCaller
  <2>2. future' \in [Jobs -> {"pending", "result", "exception", "cancelled"}]
    BY <1>6 DEF CancelCaller
  <2> QED BY <1>6, <2>1, <2>2 DEF CancelCaller
<1>7. ASSUME NEW w \in Workers, Take(w) PROVE QueueTypeOK'
  BY <1>7 DEF Take, WorkerStep, Head, InStage
<1>8. ASSUME NEW w \in Workers, StartWork(w) PROVE QueueTypeOK'
  BY <1>8 DEF StartWork, WorkerStep
<1>9. ASSUME NEW w \in Workers, Defer(w) PROVE QueueTypeOK'
  BY <1>9 DEF Defer, PutBack, WorkerStep, PutIn
<1>10. ASSUME NEW w \in Workers, PutBack(w, "returning") PROVE QueueTypeOK'
  BY <1>10 DEF PutBack, WorkerStep, PutIn
<1>11. ASSUME NEW w \in Workers, Rested(w) PROVE QueueTypeOK'
  BY <1>11 DEF Rested, WorkerStep, NextState
<1>12. ASSUME NEW w \in Workers, NEW outcome \in {"result", "exception"}, Finish(w, outcome)
       PROVE  QueueTypeOK'
  <2>1. stage' \in [Jobs -> Stages] BY <1>12 DEF Finish, Ended
  <2>2. future' \in [Jobs -> {"pending", "result", "exception", "cancelled"}]
    BY <1>12 DEF Finish
  <2>3. job' \in [Workers -> Jobs \cup {NoJob}] BY <1>12 DEF Finish
  <2>4. processed' \in Nat /\ failed' \in Nat BY <1>12 DEF Finish
  <2> QED BY <1>12, <2>1, <2>2, <2>3, <2>4 DEF Finish, WorkerStep, NextState
<1>13. CASE UNCHANGED queueVars BY <1>13 DEF queueVars
<1> QED BY <1>1, <1>2, <1>3, <1>4, <1>5, <1>6, <1>7, <1>8, <1>9, <1>10, <1>11, <1>12, <1>13
        DEF QueueNext

(* Every step leaves each request in hand in one pair of hands.             *)
LEMMA HandsStep ==
    QueueTypeOK /\ HandsAgree /\ [QueueNext]_queueVars => HandsAgree'
<1> SUFFICES ASSUME QueueTypeOK, HandsAgree, [QueueNext]_queueVars PROVE HandsAgree'
  OBVIOUS
<1> USE WorkQueueAssumption DEF QueueTypeOK, HandsAgree, InHand
<1>1. CASE Start
  <2>1. \A w \in Workers : worker[w] = "ended" /\ job[w] = NoJob BY <1>1 DEF Start
  <2>2. \A j \in Jobs : stage[j] \notin {"held", "running"} BY <2>1
  <2>3. \A j \in Jobs : stage'[j] \notin {"held", "running"} BY <1>1, <2>2 DEF Start
  <2> QED BY <1>1, <2>1, <2>3 DEF Start
<1>2. CASE Stop
  <2>1. \A w \in Workers :
           /\ worker'[w] = IF worker[w] = "holding" THEN "holding" ELSE "ended"
           /\ job'[w] = IF worker[w] = "holding" THEN job[w] ELSE NoJob
    BY <1>2 DEF Stop
  <2>2. \A j \in Jobs :
           stage'[j] = IF \E w \in Workers : job[w] = j /\ worker[w] # "holding"
                       THEN "dropped" ELSE stage[j]
    BY <1>2 DEF Stop
  <2>3. ASSUME NEW w \in Workers
        PROVE  /\ job'[w] # NoJob <=> worker'[w] \in InHand
               /\ worker'[w] \in {"holding", "returning"} => stage'[job'[w]] = "held"
               /\ worker'[w] # "running"
    <3>1. CASE worker[w] = "holding"
      <4>1. job[w] \in Jobs /\ stage[job[w]] = "held" BY <3>1, JobInHand
      <4>2. \A v \in Workers : job[v] = job[w] => worker[v] = "holding" BY <3>1, <4>1
      <4>3. stage'[job[w]] = "held" BY <2>2, <4>1, <4>2
      <4> QED BY <2>1, <3>1, <4>1, <4>3
    <3>2. CASE worker[w] # "holding" BY <2>1, <3>2
    <3> QED BY <3>1, <3>2
  <2>4. ASSUME NEW j \in Jobs, stage'[j] \in {"held", "running"}
        PROVE  \E w \in Workers : job'[w] = j
    BY <2>1, <2>2, <2>4
  <2>5. \A v, w \in Workers : job'[v] = job'[w] /\ job'[v] # NoJob => v = w
    BY <2>1
  <2> QED BY <2>3, <2>4, <2>5
<1>3. CASE TimePasses BY <1>3 DEF TimePasses, requests
<1>4. ASSUME NEW j \in Jobs, NEW wait \in 0..Horizon, Enqueue(j, wait) PROVE HandsAgree'
  <2>1. \A w \in Workers : worker[w] \in InHand => job[w] \in Jobs /\ job[w] # j
    BY <1>4, JobInHand DEF Enqueue
  <2>2. \A i \in Jobs : stage'[i] = IF i = j THEN stage'[j] ELSE stage[i]
    BY <1>4 DEF Enqueue, PutIn
  <2>3. stage'[j] \in {"queued", "putting"} BY <1>4 DEF Enqueue, PutIn
  <2> QED BY <1>4, <2>1, <2>2, <2>3 DEF Enqueue
<1>5. ASSUME NEW j \in Jobs, Unblocked(j) \/ CancelCaller(j) PROVE HandsAgree'
  <2>1. UNCHANGED <<worker, job>> BY <1>5 DEF Unblocked, CancelCaller
  <2>2. \A i \in Jobs :
           stage'[i] # stage[i] => /\ stage[i] \in {"putting", "stuck"}
                                   /\ stage'[i] \in {"queued", "withdrawn"}
    BY <1>5 DEF Unblocked, CancelCaller, PutIn
  <2>3. \A w \in Workers : worker[w] \in InHand => job[w] \in Jobs /\ stage'[job[w]] = stage[job[w]]
    BY <2>2, JobInHand
  <2> QED BY <2>1, <2>2, <2>3
<1>6. ASSUME NEW w \in Workers, Take(w) PROVE HandsAgree'
  <2>1. PICK j \in Jobs : /\ stage[j] = "queued"
                          /\ job' = [job EXCEPT ![w] = j]
                          /\ stage' = [stage EXCEPT ![j] = "held"]
    BY <1>6 DEF Take, Head, InStage
  <2>2. \A v \in Workers : worker[v] \in InHand => job[v] \in Jobs /\ job[v] # j
    BY <2>1, JobInHand
  <2>3. worker[w] = "getting" /\ worker' = [worker EXCEPT ![w] = "holding"]
    BY <1>6 DEF Take, WorkerStep
  <2> QED BY <2>1, <2>2, <2>3
<1>7. ASSUME NEW w \in Workers, StartWork(w) PROVE HandsAgree'
  <2>1. job[w] \in Jobs /\ worker[w] = "holding" BY <1>7, JobInHand DEF StartWork, WorkerStep
  <2>2. \A v \in Workers : v # w /\ worker[v] \in InHand => job[v] \in Jobs /\ job[v] # job[w]
    BY <2>1, JobInHand
  <2> QED BY <1>7, <2>1, <2>2 DEF StartWork, WorkerStep
<1>8. ASSUME NEW w \in Workers, worker[w] \in InHand, NEW to \in {"getting", "resting", "ended"},
             worker' = [worker EXCEPT ![w] = to], job' = [job EXCEPT ![w] = NoJob],
             NEW place \in {"queued", "returned", "raised"}, stage' = [stage EXCEPT ![job[w]] = place]
      PROVE  HandsAgree'
  <2>1. job[w] \in Jobs BY <1>8, JobInHand
  <2>2. \A v \in Workers : v # w /\ worker[v] \in InHand => job[v] \in Jobs /\ job[v] # job[w]
    BY <2>1, JobInHand
  <2>3. \A v \in Workers : /\ worker'[v] = IF v = w THEN to ELSE worker[v]
                           /\ job'[v] = IF v = w THEN NoJob ELSE job[v]
    BY <1>8
  <2>4. \A j \in Jobs : stage'[j] = IF j = job[w] THEN place ELSE stage[j] BY <1>8
  <2>5. \A j \in Jobs : stage'[j] \in {"held", "running"} => \E v \in Workers : job'[v] = j
    BY <2>3, <2>4
  <2> QED BY <2>1, <2>2, <2>3, <2>4, <2>5
<1>9. ASSUME NEW w \in Workers, NEW from \in {"holding", "returning"}, PutBack(w, from)
      PROVE  HandsAgree'
  BY <1>8, <1>9 DEF PutBack, WorkerStep, PutIn
<1>10. ASSUME NEW w \in Workers, Defer(w) PROVE HandsAgree'
  <2>1. CASE PutBack(w, "holding") BY <1>9, <2>1
  <2>2. CASE WorkerStep(w, "holding", "returning") /\ UNCHANGED <<stage, job>>
    BY <2>2 DEF WorkerStep
  <2> QED BY <1>10, <2>1, <2>2 DEF Defer
<1>11. ASSUME NEW w \in Workers, Rested(w) PROVE HandsAgree'
  BY <1>11 DEF Rested, WorkerStep, NextState
<1>12. ASSUME NEW w \in Workers, NEW outcome \in {"result", "exception"}, Finish(w, outcome)
       PROVE  HandsAgree'
  BY <1>8, <1>12 DEF Finish, Ended, WorkerStep, NextState
<1>13. CASE UNCHANGED queueVars BY <1>13 DEF queueVars, requests
<1> QED BY <1>1, <1>2, <1>3, <1>4, <1>5, <1>6, <1>7, <1>9, <1>10, <1>11, <1>12, <1>13
        DEF QueueNext

(* How a step that moves one request changes the number of those in S.      *)
LEMMA CountsAfterMove ==
    ASSUME QueueTypeOK, NEW i \in Jobs, NEW to, stage' = [stage EXCEPT ![i] = to], NEW S
    PROVE  /\ CountAt(stage, S) \in Nat
           /\ CountAt(stage', S)
                = CountAt(stage, S) + OneIf(to \in S) - OneIf(stage[i] \in S)
<1>1. PICK f, g : f = stage /\ g = stage' OBVIOUS
<1>2. g[i] = to /\ SameBut(f, g, i) BY <1>1 DEF QueueTypeOK, SameBut
<1>3. CountAt(g, S) = CountAt(f, S) + OneIf(to \in S) - OneIf(f[i] \in S)
  BY <1>2, CountOfMove DEF OneIf
<1> QED BY <1>1, <1>3, CountIsNat

(* Cancelling the workers drops what is in their hands, and nothing else.   *)
LEMMA StopDrops ==
    ASSUME QueueTypeOK, HandsAgree, Stop, NEW j \in Jobs
    PROVE  stage'[j] # stage[j] => stage[j] \in {"held", "running"} /\ stage'[j] = "dropped"
<1> SUFFICES ASSUME stage'[j] # stage[j]
             PROVE  stage[j] \in {"held", "running"} /\ stage'[j] = "dropped"
  OBVIOUS
<1>1. PICK w \in Workers : job[w] = j /\ worker[w] # "holding" /\ stage'[j] = "dropped"
  BY DEF Stop, QueueTypeOK
<1>2. worker[w] \in InHand BY <1>1, WorkQueueAssumption DEF HandsAgree, InHand
<1> QED BY <1>1, <1>2, JobInHand

(* Every step keeps the queue within its size: whoever puts a request in    *)
(* found room.                                                             *)
LEMMA SizeStep ==
    QueueTypeOK /\ HandsAgree /\ WithinSize /\ [QueueNext]_queueVars => WithinSize'
<1> SUFFICES ASSUME QueueTypeOK, HandsAgree, WithinSize, [QueueNext]_queueVars
             PROVE  WithinSize'
  OBVIOUS
<1> USE WorkQueueAssumption
<1>1. Full <=> CountAt(stage, {"queued"}) >= MaxSize BY DEF Full, InStage, CountAt
<1>2. CountAt(stage, {"queued"}) \in Nat
  BY JobSetIsFinite, {j \in Jobs : stage[j] \in {"queued"}} \in SUBSET Jobs DEF CountAt
<1>3. ASSUME NEW i \in Jobs, NEW to, stage' = [stage EXCEPT ![i] = to],
             to = "queued" => ~ Full
      PROVE  WithinSize'
  <2>1. CountAt(stage', {"queued"}) = CountAt(stage, {"queued"})
                     + OneIf(to \in {"queued"}) - OneIf(stage[i] \in {"queued"})
    BY <1>3, CountsAfterMove
  <2> QED BY <1>1, <1>2, <1>3, <2>1 DEF WithinSize, OneIf
<1>4. ASSUME UNCHANGED stage PROVE WithinSize' BY <1>4 DEF WithinSize, CountAt
<1>5. CASE Start
  <2>1. {j \in Jobs : stage'[j] \in {"queued"}} = {} BY <1>5 DEF Start, QueueTypeOK
  <2> QED BY <2>1, FS_EmptySet DEF WithinSize, CountAt
<1>6. CASE Stop
  <2>1. \A j \in Jobs : stage'[j] \in {"queued"} <=> stage[j] \in {"queued"}
    BY <1>6, StopDrops
  <2> QED BY <2>1, CountOfRest DEF WithinSize
<1>7. CASE TimePasses BY <1>4, <1>7 DEF TimePasses, requests
<1>8. ASSUME NEW j \in Jobs, NEW wait \in 0..Horizon, Enqueue(j, wait) PROVE WithinSize'
  BY <1>3, <1>8 DEF Enqueue, PutIn
<1>9. ASSUME NEW j \in Jobs, Unblocked(j) PROVE WithinSize'
  BY <1>3, <1>9 DEF Unblocked, PutIn
<1>10. ASSUME NEW j \in Jobs, CancelCaller(j) PROVE WithinSize'
  <2>1. CASE stage[j] \in {"putting", "stuck"}
    <3>1. stage' = [stage EXCEPT ![j] = "withdrawn"] BY <1>10, <2>1 DEF CancelCaller
    <3> QED BY <1>3, <3>1
  <2>2. CASE stage[j] \notin {"putting", "stuck"}
    <3>1. stage' = stage BY <1>10, <2>2 DEF CancelCaller, QueueTypeOK
    <3> QED BY <1>4, <3>1
  <2> QED BY <2>1, <2>2
<1>11. ASSUME NEW w \in Workers, Take(w) PROVE WithinSize'
  BY <1>3, <1>11 DEF Take, Head, InStage
<1>12. ASSUME NEW w \in Workers, StartWork(w) PROVE WithinSize'
  <2>1. job[w] \in Jobs BY <1>12, JobInHand DEF StartWork, WorkerStep, InHand
  <2> QED BY <1>3, <1>12, <2>1 DEF StartWork
<1>13. ASSUME NEW w \in Workers, NEW from \in {"holding", "returning"}, PutBack(w, from)
       PROVE  WithinSize'
  BY <1>3, <1>13, JobInHand DEF PutBack, WorkerStep, PutIn, InHand
<1>14. ASSUME NEW w \in Workers, Defer(w) PROVE WithinSize'
  BY <1>4, <1>13, <1>14 DEF Defer
<1>15. ASSUME NEW w \in Workers, Rested(w) PROVE WithinSize'
  BY <1>4, <1>15 DEF Rested
<1>16. ASSUME NEW w \in Workers, NEW outcome \in {"result", "exception"}, Finish(w, outcome)
       PROVE  WithinSize'
  <2>1. job[w] \in Jobs BY <1>16, JobInHand DEF Finish, WorkerStep, InHand
  <2> QED BY <1>3, <1>16, <2>1 DEF Finish, Ended
<1>17. CASE UNCHANGED queueVars BY <1>4, <1>17 DEF queueVars, requests
<1> QED BY <1>5, <1>6, <1>7, <1>8, <1>9, <1>10, <1>11, <1>12, <1>13, <1>14, <1>15, <1>16, <1>17
        DEF QueueNext

(* Every step answers a caller exactly when it settles the request.         *)
LEMMA AnswersStep ==
    QueueTypeOK /\ HandsAgree /\ AnswersAgree /\ [QueueNext]_queueVars => AnswersAgree'
<1> SUFFICES ASSUME QueueTypeOK, HandsAgree, AnswersAgree, [QueueNext]_queueVars
             PROVE  AnswersAgree'
  OBVIOUS
<1> USE WorkQueueAssumption DEF Ends
<1>1. ASSUME UNCHANGED future,
             \A j \in Jobs : \A end \in Ends : stage'[j] = end <=> stage[j] = end
      PROVE  AnswersAgree'
  BY <1>1 DEF AnswersAgree
<1>2. ASSUME NEW i \in Jobs, NEW to, stage' = [stage EXCEPT ![i] = to],
             stage[i] \notin Ends, to \notin Ends, UNCHANGED future
      PROVE  AnswersAgree'
  BY <1>1, <1>2 DEF QueueTypeOK
<1>3. CASE Start
  <2>1. \A j \in Jobs : \A end \in Ends : stage'[j] = end <=> stage[j] = end
    BY <1>3 DEF Start
  <2> QED BY <1>1, <1>3, <2>1 DEF Start
<1>4. CASE Stop
  <2>1. \A j \in Jobs : \A end \in Ends : stage'[j] = end <=> stage[j] = end
    BY <1>4, StopDrops
  <2> QED BY <1>1, <1>4, <2>1 DEF Stop
<1>5. CASE TimePasses BY <1>1, <1>5 DEF TimePasses, requests
<1>6. ASSUME NEW j \in Jobs, NEW wait \in 0..Horizon, Enqueue(j, wait) PROVE AnswersAgree'
  BY <1>2, <1>6 DEF Enqueue, PutIn
<1>7. ASSUME NEW j \in Jobs, Unblocked(j) PROVE AnswersAgree'
  BY <1>2, <1>7 DEF Unblocked, PutIn
<1>8. ASSUME NEW j \in Jobs, CancelCaller(j) PROVE AnswersAgree'
  BY <1>8 DEF CancelCaller, AnswersAgree, QueueTypeOK
<1>9. ASSUME NEW w \in Workers, Take(w) PROVE AnswersAgree'
  BY <1>2, <1>9 DEF Take, Head, InStage
<1>10. ASSUME NEW w \in Workers, StartWork(w) PROVE AnswersAgree'
  <2>1. PICK i \in Jobs : i = job[w] /\ stage[i] = "held"
    BY <1>10, JobInHand DEF StartWork, WorkerStep, InHand
  <2>2. stage' = [stage EXCEPT ![i] = "running"] /\ UNCHANGED future
    BY <1>10, <2>1 DEF StartWork
  <2>3. stage[i] \notin Ends /\ "running" \notin Ends BY <2>1
  <2> QED BY <1>2, <2>2, <2>3
<1>11. ASSUME NEW w \in Workers, NEW from \in {"holding", "returning"}, PutBack(w, from)
       PROVE  AnswersAgree'
  <2>1. job[w] \in Jobs /\ stage[job[w]] = "held"
    BY <1>11, JobInHand DEF PutBack, WorkerStep, InHand
  <2> QED BY <1>2, <1>11, <2>1 DEF PutBack, PutIn
<1>12. ASSUME NEW w \in Workers, Defer(w) PROVE AnswersAgree'
  BY <1>1, <1>11, <1>12 DEF Defer
<1>13. ASSUME NEW w \in Workers, Rested(w) PROVE AnswersAgree'
  BY <1>1, <1>13 DEF Rested
<1>14. ASSUME NEW w \in Workers, NEW outcome \in {"result", "exception"}, Finish(w, outcome)
       PROVE  AnswersAgree'
  <2>1. job[w] \in Jobs BY <1>14, JobInHand DEF Finish, WorkerStep, InHand
  <2>2. \A j \in Jobs :
           /\ stage'[j] = IF j # job[w] THEN stage[j]
                          ELSE IF outcome = "result" THEN "returned" ELSE "raised"
           /\ future'[j] = IF j = job[w] /\ future[j] = "pending" THEN outcome ELSE future[j]
    BY <1>14, <2>1 DEF Finish, Ended, QueueTypeOK
  <2>3. stage[job[w]] = "running" BY <1>14, JobInHand DEF Finish, WorkerStep, InHand
  <2> QED BY <2>1, <2>2, <2>3 DEF AnswersAgree, QueueTypeOK
<1>15. CASE UNCHANGED queueVars BY <1>1, <1>15 DEF queueVars, requests
<1> QED BY <1>3, <1>4, <1>5, <1>6, <1>7, <1>8, <1>9, <1>10, <1>11, <1>12, <1>13, <1>14, <1>15
        DEF QueueNext

(* Every step counts a request as enqueued when it enters the queue, and as *)
(* processed or failed when it settles.                                     *)
LEMMA TotalsStep ==
    QueueTypeOK /\ HandsAgree /\ TotalsAgree /\ [QueueNext]_queueVars => TotalsAgree'
<1> SUFFICES ASSUME QueueTypeOK, HandsAgree, TotalsAgree, [QueueNext]_queueVars
             PROVE  TotalsAgree'
  OBVIOUS
<1> USE WorkQueueAssumption
<1>1. ASSUME UNCHANGED stats,
             \A j \in Jobs : /\ \A end \in Ends : stage'[j] = end <=> stage[j] = end
                             /\ stage'[j] \in Entered <=> stage[j] \in Entered
      PROVE  TotalsAgree'
  <2>1. /\ CountAt(stage', {"returned"}) = CountAt(stage, {"returned"})
        /\ CountAt(stage', {"raised"}) = CountAt(stage, {"raised"})
    BY <1>1, CountOfRest DEF Ends
  <2>2. CountAt(stage', Entered) = CountAt(stage, Entered) BY <1>1, CountOfRest
  <2> QED BY <1>1, <2>1, <2>2 DEF TotalsAgree, stats
<1>2. ASSUME NEW i \in Jobs, NEW to \in Stages, stage' = [stage EXCEPT ![i] = to],
             stage[i] \notin Ends,
             processed' = processed + OneIf(to = "returned"),
             failed' = failed + OneIf(to = "raised"),
             enqueued' = enqueued + OneIf(to \in Entered) - OneIf(stage[i] \in Entered)
      PROVE  TotalsAgree'
  <2>1. ASSUME NEW end \in Ends
        PROVE  CountAt(stage', {end}) = CountAt(stage, {end}) + OneIf(to = end)
    <3>1. PICK S : S = {end} OBVIOUS
    <3>2. CountAt(stage', S) = CountAt(stage, S) + OneIf(to \in S) - OneIf(stage[i] \in S)
      BY <1>2, CountsAfterMove
    <3>3. OneIf(stage[i] \in S) = 0 /\ OneIf(to \in S) = OneIf(to = end)
      BY <1>2, <3>1 DEF OneIf
    <3>4. CountAt(stage, S) \in Nat /\ OneIf(to = end) \in Nat BY CountIsNat DEF OneIf
    <3> QED BY <3>1, <3>2, <3>3, <3>4
  <2>2. CountAt(stage', Entered)
          = CountAt(stage, Entered) + OneIf(to \in Entered) - OneIf(stage[i] \in Entered)
    BY <1>2, CountsAfterMove
  <2>3. CountAt(stage, Entered) \in Nat BY CountIsNat
  <2>4. processed' = CountAt(stage', {"returned"}) /\ failed' = CountAt(stage', {"raised"})
    BY <1>2, <2>1 DEF TotalsAgree, Ends
  <2>5. enqueued' = CountAt(stage', Entered)
    BY <1>2, <2>2, <2>3 DEF TotalsAgree, OneIf
  <2> QED BY <2>4, <2>5 DEF TotalsAgree
<1>3. ASSUME NEW i \in Jobs, NEW to \in Stages, stage' = [stage EXCEPT ![i] = to],
             stage[i] \notin Ends, to \notin Ends, UNCHANGED stats,
             to \in Entered <=> stage[i] \in Entered
      PROVE  TotalsAgree'
  <2>1. \A j \in Jobs : stage'[j] = IF j = i THEN to ELSE stage[j]
    BY <1>3 DEF QueueTypeOK
  <2> QED BY <1>1, <1>3, <2>1
<1>4. ASSUME NEW i \in Jobs, stage[i] \in {"new", "putting"},
             stage' = [stage EXCEPT ![i] = "queued"], enqueued' = enqueued + 1,
             UNCHANGED <<processed, failed>>
      PROVE  TotalsAgree'
  <2>1. /\ processed' = processed + OneIf("queued" = "returned")
        /\ failed' = failed + OneIf("queued" = "raised")
    BY <1>4 DEF OneIf, QueueTypeOK
  <2>2. enqueued' = enqueued + OneIf("queued" \in Entered) - OneIf(stage[i] \in Entered)
    BY <1>4 DEF OneIf, Entered, QueueTypeOK
  <2> QED BY <1>2, <1>4, <2>1, <2>2 DEF Stages, Ends
<1>5. CASE Start
  <2>1. \A j \in Jobs : /\ \A end \in Ends : stage'[j] = end <=> stage[j] = end
                        /\ stage'[j] \in Entered <=> stage[j] \in Entered
    BY <1>5 DEF Start, Entered, Ends
  <2> QED BY <1>1, <1>5, <2>1 DEF Start
<1>6. CASE Stop
  <2>1. \A j \in Jobs : /\ \A end \in Ends : stage'[j] = end <=> stage[j] = end
                        /\ stage'[j] \in Entered <=> stage[j] \in Entered
    BY <1>6, StopDrops DEF Entered, Ends
  <2> QED BY <1>1, <1>6, <2>1 DEF Stop
<1>7. CASE TimePasses BY <1>1, <1>7 DEF TimePasses, requests
<1>8. ASSUME NEW j \in Jobs, NEW wait \in 0..Horizon, Enqueue(j, wait) PROVE TotalsAgree'
  <2>1. CASE PutIn(j) /\ enqueued' = enqueued + 1
    BY <1>4, <1>8, <2>1 DEF Enqueue, PutIn
  <2>2. CASE stage' = [stage EXCEPT ![j] = "putting"] /\ UNCHANGED enqueued
    BY <1>3, <1>8, <2>2 DEF Enqueue, Entered, Ends, Stages, stats
  <2> QED BY <1>8, <2>1, <2>2 DEF Enqueue
<1>9. ASSUME NEW j \in Jobs, Unblocked(j) PROVE TotalsAgree'
  BY <1>4, <1>9 DEF Unblocked, PutIn
<1>10. ASSUME NEW j \in Jobs, CancelCaller(j) PROVE TotalsAgree'
  <2>1. CASE stage[j] \in {"putting", "stuck"}
    <3>1. stage' = [stage EXCEPT ![j] = "withdrawn"] BY <1>10, <2>1 DEF CancelCaller
    <3> QED BY <1>3, <1>10, <2>1, <3>1 DEF CancelCaller, Entered, Ends, Stages
  <2>2. CASE stage[j] \notin {"putting", "stuck"}
    <3>1. stage' = stage BY <1>10, <2>2 DEF CancelCaller, QueueTypeOK
    <3> QED BY <1>1, <1>10, <3>1 DEF CancelCaller
  <2> QED BY <2>1, <2>2
<1>11. ASSUME NEW w \in Workers, Take(w) PROVE TotalsAgree'
  BY <1>3, <1>11 DEF Take, Head, InStage, WorkerStep, Entered, Ends, Stages, stats
<1>12. ASSUME NEW w \in Workers, StartWork(w) PROVE TotalsAgree'
  <2>1. job[w] \in Jobs /\ stage[job[w]] = "held"
    BY <1>12, JobInHand DEF StartWork, WorkerStep, InHand
  <2> QED BY <1>3, <1>12, <2>1 DEF StartWork, WorkerStep, Entered, Ends, Stages, stats
<1>13. ASSUME NEW w \in Workers, NEW from \in {"holding", "returning"}, PutBack(w, from)
       PROVE  TotalsAgree'
  <2>1. job[w] \in Jobs /\ stage[job[w]] = "held"
    BY <1>13, JobInHand DEF PutBack, WorkerStep, InHand
  <2> QED BY <1>3, <1>13, <2>1 DEF PutBack, PutIn, WorkerStep, Entered, Ends, Stages, stats
<1>14. ASSUME NEW w \in Workers, Defer(w) PROVE TotalsAgree'
  BY <1>1, <1>13, <1>14 DEF Defer, WorkerStep, stats
<1>15. ASSUME NEW w \in Workers, Rested(w) PROVE TotalsAgree'
  BY <1>1, <1>15 DEF Rested, WorkerStep, stats
<1>16. ASSUME NEW w \in Workers, NEW outcome \in {"result", "exception"}, Finish(w, outcome)
       PROVE  TotalsAgree'
  <2>1. job[w] \in Jobs /\ stage[job[w]] = "running"
    BY <1>16, JobInHand DEF Finish, WorkerStep, InHand
  <2>2. PICK to \in Ends : /\ to = IF outcome = "result" THEN "returned" ELSE "raised"
                          /\ stage' = [stage EXCEPT ![job[w]] = to]
    BY <1>16 DEF Finish, Ended, Ends
  <2>3. UNCHANGED enqueued BY <1>16 DEF Finish, WorkerStep
  <2>4. /\ processed' = processed + OneIf(to = "returned")
        /\ failed' = failed + OneIf(to = "raised")
    BY <1>16, <2>2 DEF Finish, OneIf, QueueTypeOK
  <2>5. enqueued' = enqueued + OneIf(to \in Entered) - OneIf(stage[job[w]] \in Entered)
    BY <2>1, <2>2, <2>3 DEF OneIf, Entered, Ends, QueueTypeOK
  <2> QED BY <1>2, <2>1, <2>2, <2>4, <2>5 DEF Stages, Ends
<1>17. CASE UNCHANGED queueVars BY <1>1, <1>17 DEF queueVars, requests
<1> QED BY <1>5, <1>6, <1>7, <1>8, <1>9, <1>10, <1>11, <1>12, <1>13, <1>14, <1>15, <1>16, <1>17
        DEF QueueNext

LEMMA QueueNextInv == QueueInv /\ [QueueNext]_queueVars => QueueInv'
BY QueueTypeStep, HandsStep, SizeStep, AnswersStep, TotalsStep DEF QueueInv

LEMMA QueueInvariant == QueueSpec => []QueueInv
BY QueueInitInv, QueueNextInv, PTL DEF QueueSpec

(* The types of the queue, its clock and its totals included.               *)
THEOREM QueueTypeCorrect == QueueSpec => []QueueTypeOK
<1>1. QueueInv => QueueTypeOK BY DEF QueueInv
<1> QED BY <1>1, QueueInvariant, PTL

(* No request is lost between the queue and the workers or in two hands,    *)
(* and the queue keeps its bound, for any requests, workers and bound.      *)
THEOREM QueueKeepsRequests == QueueSpec => []OnePlace
BY QueueInvImplies, QueueInvariant, PTL

(* A processed request's caller has its answer or is gone, and the totals   *)
(* of get_stats count each request once.                                    *)
THEOREM QueueAnswersOnce == QueueSpec => []AnsweredOnce
BY QueueInvImplies, QueueInvariant, PTL

-----------------------------------------------------------------------------
(* The keys.                                                               *)

LongEnough(need, have, rate, wait) == wait \in Nat /\ have + wait * rate >= need

(* A wait no shorter than TicksUntil says is long enough.                   *)
LEMMA LongerWait ==
    ASSUME NEW need \in Int, NEW have \in Int, NEW rate \in Nat \ {0}, NEW wait \in Nat,
           wait >= TicksUntil(need, have, rate)
    PROVE  LongEnough(need, have, rate, wait)
<1> DEFINE least == TicksUntil(need, have, rate)
<1>1. least \in Nat /\ have + least * rate >= need BY TicksUntilIsNat, TicksUntilIsExact
<1> HIDE DEF least
<1>2. wait >= least BY DEF least
<1>3. least * rate <= wait * rate BY <1>1, <1>2
<1>4. least * rate \in Int /\ wait * rate \in Int BY <1>1
<1> QED BY <1>1, <1>3, <1>4 DEF LongEnough

(* The longer of two waits is long enough for both.                        *)
LEMMA LargerWait ==
    ASSUME NEW m \in Int, NEW req \in Int, NEW reqRate \in Nat \ {0},
           NEW n \in Int, NEW tok \in Int, NEW tokRate \in Nat \ {0}, NEW wait,
           wait = Larger(TicksUntil(m, req, reqRate), TicksUntil(n, tok, tokRate))
    PROVE  LongEnough(m, req, reqRate, wait) /\ LongEnough(n, tok, tokRate, wait)
<1>1. TicksUntil(m, req, reqRate) \in Nat /\ TicksUntil(n, tok, tokRate) \in Nat
  BY TicksUntilIsNat
<1>2. /\ wait \in Nat /\ wait >= TicksUntil(m, req, reqRate)
      /\ wait >= TicksUntil(n, tok, tokRate)
  BY <1>1 DEF Larger
<1> QED BY <1>2, LongerWait

(* What select_key returns is one of the candidates, and its wait is long   *)
(* enough for both of its buckets.                                          *)
LEMMA SelectionIsCovered ==
    ASSUME KeyTypeOK, NEW candidates \in SUBSET Keys, NEW n \in Nat,
           NEW s \in Selections(candidates, n)
    PROVE  /\ s.key \in candidates
           /\ s.wait \in Nat
           /\ tpm[s.key] + s.wait * TpmRate[s.key] >= n
           /\ rpm[s.key] + s.wait * RpmRate[s.key] >= 1
<1> USE KeyManagerAssumption DEF KeyTypeOK
<1>1. CASE \E k \in Preferred({l \in {m \in candidates : Healthy(m)} : CanHandle(l, n)}) :
              s = [key |-> k, wait |-> 0]
  <2>1. PICK k \in Keys : k \in candidates /\ CanHandle(k, n) /\ s = [key |-> k, wait |-> 0]
    BY <1>1 DEF Preferred
  <2>2. tpm[k] >= n /\ rpm[k] >= 1 BY <2>1 DEF CanHandle
  <2>3. 0 * TpmRate[k] = 0 /\ 0 * RpmRate[k] = 0 OBVIOUS
  <2> QED BY <2>1, <2>2, <2>3
<1>2. CASE \E k \in candidates : s = [key |-> k, wait |-> TimeUntilAvailable(k, n)]
  <2>1. PICK k \in candidates : s = [key |-> k, wait |-> TimeUntilAvailable(k, n)] BY <1>2
  <2>2. PICK req \in Int, tok \in Int, reqRate \in Nat \ {0}, tokRate \in Nat \ {0} :
             req = rpm[k] /\ tok = tpm[k] /\ reqRate = RpmRate[k] /\ tokRate = TpmRate[k]
    OBVIOUS
  <2>3. s.key = k /\ s.wait = Larger(TicksUntil(1, req, reqRate), TicksUntil(n, tok, tokRate))
    BY <2>1, <2>2 DEF TimeUntilAvailable
  <2>4. LongEnough(1, req, reqRate, s.wait) /\ LongEnough(n, tok, tokRate, s.wait)
    BY ONLY <2>3, LargerWait, n \in Int, 1 \in Int
  <2> QED BY <2>1, <2>2, <2>3, <2>4 DEF LongEnough
<1> QED BY <1>1, <1>2 DEF Selections

-----------------------------------------------------------------------------
(* The scheduler.                                                          *)

(* A request has a key from when it is enqueued.                            *)
KeysSelected == \A j \in Jobs : stage[j] = "new" <=> selection[j] = NoKey

(* What the queue does but to admit a request, and but for the clock.       *)
QueueMove ==
    \/ Start \/ Stop
    \/ \E j \in Jobs : Unblocked(j) \/ CancelCaller(j)
    \/ \E w \in Workers :
          \/ Take(w) \/ StartWork(w) \/ Defer(w) \/ PutBack(w, "returning") \/ Rested(w)
          \/ \E outcome \in {"result", "exception"} : Finish(w, outcome)

(* It leaves the clock and the times alone, and no request becomes new.     *)
LEMMA MoveKeeps ==
    ASSUME QueueTypeOK, HandsAgree, QueueMove
    PROVE  /\ UNCHANGED <<now, dueAt>>
           /\ \A j \in Jobs : stage'[j] = "new" <=> stage[j] = "new"
<1> USE DEF WorkerStep
<1>1. ASSUME NEW i \in Jobs, NEW to, stage' = [stage EXCEPT ![i] = to],
             stage[i] # "new", to # "new"
      PROVE  \A j \in Jobs : stage'[j] = "new" <=> stage[j] = "new"
  BY <1>1 DEF QueueTypeOK
<1>2. CASE Start
  <2>1. \A j \in Jobs : stage'[j] = "new" <=> stage[j] = "new" BY <1>2 DEF Start
  <2> QED BY <1>2, <2>1 DEF Start
<1>3. CASE Stop
  <2>1. \A j \in Jobs : stage'[j] = "new" <=> stage[j] = "new" BY <1>3, StopDrops
  <2> QED BY <1>3, <2>1 DEF Stop
<1>4. ASSUME NEW j \in Jobs, Unblocked(j)
      PROVE  UNCHANGED <<now, dueAt>> /\ \A i \in Jobs : stage'[i] = "new" <=> stage[i] = "new"
  BY <1>1, <1>4 DEF Unblocked, PutIn
<1>5. ASSUME NEW j \in Jobs, CancelCaller(j)
      PROVE  UNCHANGED <<now, dueAt>> /\ \A i \in Jobs : stage'[i] = "new" <=> stage[i] = "new"
  BY <1>5 DEF CancelCaller, QueueTypeOK
<1>6. ASSUME NEW w \in Workers, Take(w)
      PROVE  UNCHANGED <<now, dueAt>> /\ \A i \in Jobs : stage'[i] = "new" <=> stage[i] = "new"
  BY <1>1, <1>6 DEF Take, Head, InStage
<1>7. ASSUME NEW w \in Workers, worker[w] \in InHand,
             NEW to \in {"running", "queued", "returned", "raised"}, stage' = [stage EXCEPT ![job[w]] = to]
      PROVE  \A i \in Jobs : stage'[i] = "new" <=> stage[i] = "new"
  <2>1. job[w] \in Jobs /\ stage[job[w]] # "new" BY <1>7, JobInHand
  <2> QED BY <1>1, <1>7, <2>1
<1>8. ASSUME NEW w \in Workers, StartWork(w)
      PROVE  UNCHANGED <<now, dueAt>> /\ \A i \in Jobs : stage'[i] = "new" <=> stage[i] = "new"
  BY <1>7, <1>8 DEF StartWork, InHand
<1>9. ASSUME NEW w \in Workers, NEW from \in {"holding", "returning"}, PutBack(w, from)
      PROVE  UNCHANGED <<now, dueAt>> /\ \A i \in Jobs : stage'[i] = "new" <=> stage[i] = "new"
  BY <1>7, <1>9 DEF PutBack, PutIn, InHand
<1>10. ASSUME NEW w \in Workers, Defer(w)
       PROVE  UNCHANGED <<now, dueAt>> /\ \A i \in Jobs : stage'[i] = "new" <=> stage[i] = "new"
  BY <1>9, <1>10 DEF Defer
<1>11. ASSUME NEW w \in Workers, Rested(w)
       PROVE  UNCHANGED <<now, dueAt>> /\ \A i \in Jobs : stage'[i] = "new" <=> stage[i] = "new"
  BY <1>11 DEF Rested
<1>12. ASSUME NEW w \in Workers, NEW outcome \in {"result", "exception"}, Finish(w, outcome)
       PROVE  UNCHANGED <<now, dueAt>> /\ \A i \in Jobs : stage'[i] = "new" <=> stage[i] = "new"
  BY <1>7, <1>12 DEF Finish, Ended, InHand
<1> QED BY <1>2, <1>3, <1>4, <1>5, <1>6, <1>8, <1>9, <1>10, <1>11, <1>12 DEF QueueMove

(* The kinds of steps: the clock, a request scheduled, the queue on its     *)
(* own, and a worker at a request that it holds or runs.                    *)
LEMMA NextKinds ==
    ASSUME [Next]_vars
    PROVE  \/ Tick
           \/ \E j \in Jobs : Schedule(j)
           \/ QueueMove /\ StartScheduler
           \/ QueueMove /\ UNCHANGED <<keyVars, selection, owed, provider>>
           \/ \E w \in Workers : QueueMove /\ (Dispatch(w) \/ Completes(w) \/ Fails(w))
           \/ UNCHANGED vars
<1>1. ASSUME NEW w \in Workers, Dispatch(w) \/ Completes(w) \/ Fails(w) PROVE QueueMove
  BY <1>1 DEF QueueMove, Dispatch, Completes, Fails
<1>2. ASSUME NEW w \in Workers,
             \/ Unattended(Take(w)) \/ Unattended(Defer(w))
             \/ Unattended(PutBack(w, "returning")) \/ Unattended(Rested(w))
      PROVE  QueueMove /\ UNCHANGED <<keyVars, selection, owed, provider>>
  BY <1>2 DEF QueueMove, Unattended
<1>3. ASSUME NEW j \in Jobs, Unattended(Unblocked(j)) \/ Unattended(CancelCaller(j))
      PROVE  QueueMove /\ UNCHANGED <<keyVars, selection, owed, provider>>
  BY <1>3 DEF QueueMove, Unattended
<1>4. ASSUME Unattended(Stop)
      PROVE  QueueMove /\ UNCHANGED <<keyVars, selection, owed, provider>>
  BY <1>4 DEF QueueMove, Unattended
<1>5. StartScheduler => QueueMove BY DEF StartScheduler, QueueMove
<1> QED BY <1>1, <1>2, <1>3, <1>4, <1>5 DEF Next, WorkerMoves

(* Every step of the scheduler is one of the queue, or leaves it alone.     *)
LEMMA NextImplementsQueue ==
    ASSUME TypeOK, [Next]_vars PROVE [QueueNext]_queueVars
<1>1. CASE Tick BY <1>1 DEF Tick, QueueNext
<1>2. ASSUME NEW j \in Jobs, Schedule(j) PROVE QueueNext
  <2>1. PICK s \in Selections(Candidates[j], Estimate[j]) : Enqueue(j, s.wait)
    BY <1>2 DEF Schedule
  <2>2. Candidates[j] \in SUBSET Keys /\ Estimate[j] \in Nat BY ServerAssumption
  <2>3. s.wait \in Nat BY <2>1, <2>2, SelectionIsCovered DEF TypeOK
  <2>4. s.wait \in 0..Horizon
    BY <2>1, <2>3, WorkQueueAssumption DEF Enqueue, TypeOK, QueueTypeOK
  <2> QED BY <2>1, <2>4 DEF QueueNext
<1>3. ASSUME QueueMove PROVE QueueNext BY <1>3 DEF QueueMove, QueueNext
<1>4. CASE UNCHANGED vars BY <1>4 DEF vars
<1> QED BY <1>1, <1>2, <1>3, <1>4, NextKinds

(* A request in hand has a key.                                             *)
LEMMA KeyInHand ==
    ASSUME TypeOK, HandsAgree, KeysSelected, NEW w \in Workers, worker[w] \in InHand
    PROVE  job[w] \in Jobs /\ selection[job[w]] \in Keys
<1>1. job[w] \in Jobs /\ stage[job[w]] # "new" BY JobInHand DEF TypeOK
<1> QED BY <1>1 DEF KeysSelected, TypeOK

(* What is known of the numbers of one key.                                 *)
LEMMA KeyNumbers ==
    ASSUME KeyTypeOK, NEW k \in Keys
    PROVE  /\ tpm[k] \in Int /\ rpm[k] \in Int
           /\ tpm[k] <= TpmLimit[k] /\ rpm[k] <= RpmLimit[k]
           /\ TpmLimit[k] \in Nat /\ TpmLimit[k] > 0 /\ RpmLimit[k] \in Nat /\ RpmLimit[k] > 0
           /\ TpmRate[k] \in Nat /\ RpmRate[k] \in Nat
<1>1. /\ TpmLimit[k] \in Nat \ {0} /\ RpmLimit[k] \in Nat \ {0}
      /\ TpmRate[k] \in Nat \ {0} /\ RpmRate[k] \in Nat \ {0}
  BY KeyManagerAssumption
<1> QED BY <1>1 DEF KeyTypeOK

(* Every step keeps the types of the keys, and their buckets at most full.  *)
LEMMA KeyTypeStep ==
    ASSUME TypeOK, HandsAgree, KeysSelected, [Next]_vars PROVE KeyTypeOK'
<1> KeyTypeOK BY DEF TypeOK
<1>1. CASE Tick
  <2>1. /\ tpm' = [k \in Keys |-> AtMost(TpmLimit[k], tpm[k] + TpmRate[k])]
        /\ rpm' = [k \in Keys |-> AtMost(RpmLimit[k], rpm[k] + RpmRate[k])]
        /\ errorAge' = [k \in Keys |-> AtMost(AgeCap, errorAge[k] + 1)]
        /\ errors' = errors
    BY <1>1 DEF Tick, KeyTick, Refilled
  <2>2. ASSUME NEW k \in Keys
        PROVE  /\ AtMost(TpmLimit[k], tpm[k] + TpmRate[k]) \in Int
               /\ AtMost(TpmLimit[k], tpm[k] + TpmRate[k]) <= TpmLimit[k]
               /\ AtMost(RpmLimit[k], rpm[k] + RpmRate[k]) \in Int
               /\ AtMost(RpmLimit[k], rpm[k] + RpmRate[k]) <= RpmLimit[k]
    BY KeyNumbers DEF AtMost
  <2>3. ASSUME NEW k \in Keys PROVE AtMost(AgeCap, errorAge[k] + 1) \in 0..AgeCap
    <3>1. errorAge[k] \in Nat /\ AgeCap \in Nat BY KeyManagerAssumption DEF KeyTypeOK
    <3> QED BY <3>1 DEF AtMost
  <2> HIDE DEF AtMost
  <2> QED BY <2>1, <2>2, <2>3 DEF KeyTypeOK
<1>2. ASSUME NEW j \in Jobs, Schedule(j) PROVE KeyTypeOK'
  <2>1. PICK s \in Selections(Candidates[j], Estimate[j]) : Reserve(s.key, Estimate[j])
    BY <1>2 DEF Schedule
  <2>2. PICK n \in Nat : n = Estimate[j] BY ServerAssumption
  <2>3. tpm' = [tpm EXCEPT ![s.key] = @ - n] /\ rpm' = [rpm EXCEPT ![s.key] = @ - 1]
    BY <2>1, <2>2 DEF Reserve
  <2>4. \A k \in Keys : /\ tpm[k] - n \in Int /\ tpm[k] - n <= TpmLimit[k]
                        /\ rpm[k] - 1 \in Int /\ rpm[k] - 1 <= RpmLimit[k]
    BY KeyNumbers
  <2>5. tpm' \in [Keys -> Int] /\ \A k \in Keys : tpm'[k] <= TpmLimit[k]
    BY <2>3, <2>4 DEF KeyTypeOK
  <2>6. rpm' \in [Keys -> Int] /\ \A k \in Keys : rpm'[k] <= RpmLimit[k]
    BY <2>3, <2>4 DEF KeyTypeOK
  <2> QED BY <2>1, <2>5, <2>6 DEF Reserve, KeyTypeOK
<1>3. ASSUME UNCHANGED keyVars PROVE KeyTypeOK' BY <1>3 DEF keyVars, KeyTypeOK
<1>4. ASSUME NEW w \in Workers, Completes(w) PROVE KeyTypeOK'
  <2>1. PICK k : RecordSuccess(k) BY <1>4 DEF Completes
  <2>2. errors' = [errors EXCEPT ![k] = 0] /\ UNCHANGED <<tpm, rpm, errorAge>>
    BY <2>1 DEF RecordSuccess
  <2>3. 0 \in 0..ErrorCap BY KeyManagerAssumption
  <2>4. errors' \in [Keys -> 0..ErrorCap] BY <2>2, <2>3 DEF KeyTypeOK
  <2> QED BY <2>2, <2>4 DEF KeyTypeOK
<1>5. ASSUME NEW w \in Workers, Fails(w) PROVE KeyTypeOK'
  <2>1. job[w] \in Jobs /\ selection[job[w]] \in Keys
    BY <1>5, KeyInHand DEF Fails, Finish, WorkerStep, InHand
  <2>2. PICK k \in Keys, n \in Nat : /\ RecordFailure(k)
                                     /\ Refund(k, n) \/ UNCHANGED <<tpm, rpm>>
    BY <1>5, <2>1, ServerAssumption DEF Fails
  <2>3. errors' \in [Keys -> 0..ErrorCap]
    <3>1. AtMost(ErrorCap, errors[k] + 1) \in 0..ErrorCap
      BY KeyManagerAssumption DEF AtMost, KeyTypeOK
    <3> QED BY <2>2, <3>1 DEF RecordFailure, KeyTypeOK
  <2>4. errorAge' \in [Keys -> 0..AgeCap]
    BY <2>2, KeyManagerAssumption DEF RecordFailure, KeyTypeOK
  <2>5. /\ AtMost(TpmLimit[k], tpm[k] + n) \in Int
        /\ AtMost(TpmLimit[k], tpm[k] + n) <= TpmLimit[k]
        /\ AtMost(RpmLimit[k], rpm[k] + 1) \in Int
        /\ AtMost(RpmLimit[k], rpm[k] + 1) <= RpmLimit[k]
    BY KeyNumbers DEF AtMost
  <2>6. tpm' \in [Keys -> Int] /\ \A l \in Keys : tpm'[l] <= TpmLimit[l]
    BY <2>2, <2>5 DEF Refund, KeyTypeOK
  <2>7. rpm' \in [Keys -> Int] /\ \A l \in Keys : rpm'[l] <= RpmLimit[l]
    BY <2>2, <2>5 DEF Refund, KeyTypeOK
  <2> QED BY <2>3, <2>4, <2>6, <2>7 DEF KeyTypeOK
<1>6. ASSUME NEW w \in Workers, Dispatch(w) PROVE UNCHANGED keyVars
  BY <1>6 DEF Dispatch
<1>7. CASE StartScheduler
  <2>1. \A k \in Keys : /\ TpmLimit[k] \in Int /\ TpmLimit[k] <= TpmLimit[k]
                        /\ RpmLimit[k] \in Int /\ RpmLimit[k] <= RpmLimit[k]
    BY KeyManagerAssumption
  <2>2. TpmLimit \in [Keys -> Int] /\ RpmLimit \in [Keys -> Int]
    BY <2>1, KeyManagerAssumption
  <2>3. 0 \in 0..ErrorCap /\ AgeCap \in 0..AgeCap BY KeyManagerAssumption
  <2> QED BY <1>7, <2>1, <2>2, <2>3 DEF StartScheduler, LoadFromConfig, KeyTypeOK
<1> QED BY <1>1, <1>2, <1>3, <1>4, <1>5, <1>6, <1>7, NextKinds DEF vars

(* Every step keeps all types.                                              *)
LEMMA ServerTypeStep ==
    ASSUME TypeOK, HandsAgree, KeysSelected, [Next]_vars PROVE TypeOK'
<1>1. QueueTypeOK' BY NextImplementsQueue, QueueTypeStep DEF TypeOK
<1>2. KeyTypeOK' BY KeyTypeStep
<1>3. selection' \in [Jobs -> Keys \cup {NoKey}]
  <2>1. ASSUME NEW j \in Jobs, Schedule(j) PROVE selection' \in [Jobs -> Keys \cup {NoKey}]
    <3>1. PICK s \in Selections(Candidates[j], Estimate[j]) :
              selection' = [selection EXCEPT ![j] = s.key]
      BY <2>1 DEF Schedule
    <3>2. Candidates[j] \in SUBSET Keys /\ Estimate[j] \in Nat BY ServerAssumption
    <3>3. s.key \in Keys BY <3>2, SelectionIsCovered DEF TypeOK
    <3> QED BY <3>1, <3>3 DEF TypeOK
  <2>2. ASSUME UNCHANGED selection PROVE selection' \in [Jobs -> Keys \cup {NoKey}]
    BY <2>2 DEF TypeOK
  <2> QED BY <2>1, <2>2, NextKinds DEF Tick, StartScheduler, Dispatch, Completes, Fails, vars
<1>4. owed' \subseteq Jobs
  <2>1. ASSUME NEW j \in Jobs, Schedule(j) PROVE owed' \subseteq Jobs
    BY <2>1 DEF Schedule, TypeOK
  <2>2. ASSUME NEW w \in Workers, Dispatch(w) PROVE owed' \subseteq Jobs
    BY <2>2 DEF Dispatch, TypeOK
  <2>3. ASSUME UNCHANGED owed PROVE owed' \subseteq Jobs BY <2>3 DEF TypeOK
  <2> QED BY <2>1, <2>2, <2>3, NextKinds DEF Tick, StartScheduler, Completes, Fails, vars
<1>5. provider' \in [Keys -> Int]
  <2> provider \in [Keys -> Int] /\ KeyTypeOK BY DEF TypeOK
  <2>1. CASE Tick
    <3>1. provider' = [k \in Keys |-> AtMost(TpmLimit[k], provider[k] + TpmRate[k])]
      BY <2>1 DEF Tick, Refilled
    <3>2. ASSUME NEW k \in Keys PROVE AtMost(TpmLimit[k], provider[k] + TpmRate[k]) \in Int
      BY KeyNumbers DEF AtMost
    <3> QED BY <3>1, <3>2
  <2>2. ASSUME NEW w \in Workers, Dispatch(w) PROVE provider' \in [Keys -> Int]
    <3>1. job[w] \in Jobs BY <2>2, KeyInHand DEF Dispatch, StartWork, WorkerStep, InHand
    <3>2. Estimate[job[w]] \in Int BY <3>1, ServerAssumption
    <3>3. PICK n \in Int : n = Estimate[job[w]] BY <3>2
    <3>4. PICK k : k = selection[job[w]] OBVIOUS
    <3>5. provider' = [provider EXCEPT ![k] = @ - n] BY <2>2, <3>3, <3>4 DEF Dispatch
    <3>6. \A l \in Keys : provider[l] - n \in Int OBVIOUS
    <3> QED BY <3>5, <3>6
  <2>3. ASSUME NEW w \in Workers, Fails(w) PROVE provider' \in [Keys -> Int]
    <3>1. job[w] \in Jobs /\ selection[job[w]] \in Keys
      BY <2>3, KeyInHand DEF Fails, Finish, WorkerStep, InHand
    <3>2. Estimate[job[w]] \in Int BY <3>1, ServerAssumption
    <3>3. PICK k \in Keys, n \in Int :
              \/ provider' = [provider EXCEPT ![k] = AtMost(TpmLimit[k], @ + n)]
              \/ UNCHANGED provider
      BY <2>3, <3>1, <3>2 DEF Fails
    <3>4. AtMost(TpmLimit[k], provider[k] + n) \in Int BY KeyNumbers DEF AtMost
    <3> QED BY <3>3, <3>4
  <2>4. ASSUME UNCHANGED provider PROVE provider' \in [Keys -> Int] BY <2>4
  <2> QED BY <2>1, <2>2, <2>3, <2>4, NextKinds DEF Schedule, StartScheduler, Completes, vars
<1> QED BY <1>1, <1>2, <1>3, <1>4, <1>5 DEF TypeOK

(* A request gets its key when it is admitted, and at no other step.        *)
LEMMA KeysStep ==
    ASSUME TypeOK, HandsAgree, KeysSelected, [Next]_vars PROVE KeysSelected'
<1>1. ASSUME NEW j \in Jobs, Schedule(j) PROVE KeysSelected'
  <2>1. PICK s \in Selections(Candidates[j], Estimate[j]) :
            /\ Enqueue(j, s.wait)
            /\ selection' = [selection EXCEPT ![j] = s.key]
    BY <1>1 DEF Schedule
  <2>2. Candidates[j] \in SUBSET Keys /\ Estimate[j] \in Nat BY ServerAssumption
  <2>3. s.key \in Keys /\ s.key # NoKey
    BY <2>2, SelectionIsCovered, ServerAssumption DEF TypeOK
  <2>4. \A i \in Jobs : stage'[i] = "new" <=> stage[i] = "new" /\ i # j
    BY <2>1 DEF Enqueue, PutIn, TypeOK, QueueTypeOK
  <2>5. \A i \in Jobs : selection'[i] = IF i = j THEN s.key ELSE selection[i]
    BY <2>1 DEF TypeOK
  <2> QED BY <2>3, <2>4, <2>5 DEF KeysSelected
<1>2. ASSUME QueueMove, UNCHANGED selection PROVE KeysSelected'
  BY <1>2, MoveKeeps DEF KeysSelected, TypeOK
<1>3. ASSUME UNCHANGED <<stage, selection>> PROVE KeysSelected'
  BY <1>3 DEF KeysSelected
<1>4. Tick => UNCHANGED <<stage, selection>> BY DEF Tick, TimePasses, requests
<1>5. UNCHANGED vars => UNCHANGED <<stage, selection>> BY DEF vars, queueVars, requests
<1>6. ASSUME NEW w \in Workers, Dispatch(w) \/ Completes(w) \/ Fails(w)
      PROVE  UNCHANGED selection
  BY <1>6 DEF Dispatch, Completes, Fails
<1>7. StartScheduler => UNCHANGED selection BY DEF StartScheduler
<1> QED BY <1>1, <1>2, <1>3, <1>4, <1>5, <1>6, <1>7, NextKinds

-----------------------------------------------------------------------------
(* A dispatch is covered by the capacity it reserved.                       *)

(* The requests that owe a key and are not to be dispatched by then.        *)
NotDue(k, t) == {j \in owed : selection[j] = k /\ dueAt[j] > t}

(* At no time to come is more overdrawn than those not due by then took.    *)
Covered ==
    \A k \in Keys, t \in Nat :
        t >= now =>
            /\ Paid(tpm[k], TpmRate[k], t - now, SumOver(Estimate, NotDue(k, t)))
            /\ Paid(rpm[k], RpmRate[k], t - now, Cardinality(NotDue(k, t)))

(* What may still be dispatched is owed to the present keys.                *)
Waiting == {"putting", "queued", "held"}
WaitingIsOwed == \A j \in Jobs : stage[j] \in Waiting => j \in owed

LEMMA NotDueNumbers ==
    ASSUME TypeOK, NEW k, NEW t
    PROVE  /\ IsFiniteSet(NotDue(k, t))
           /\ Cardinality(NotDue(k, t)) \in Nat /\ SumOver(Estimate, NotDue(k, t)) \in Nat
<1>1. NotDue(k, t) \in SUBSET Jobs BY DEF NotDue, TypeOK
<1>2. IsFiniteSet(NotDue(k, t)) /\ Cardinality(NotDue(k, t)) \in Nat BY <1>1, JobSetIsFinite
<1>3. \A j \in NotDue(k, t) : Estimate[j] \in Nat BY <1>1, ServerAssumption
<1> QED BY <1>2, <1>3, SumIsNat

(* The invariant of the scheduler.                                          *)
CreditInv == TypeOK /\ HandsAgree /\ KeysSelected /\ WaitingIsOwed /\ Covered

(* A request owes from when it is admitted until it is dispatched; none     *)
(* that waits outlives the keys it owes.                                    *)
LEMMA WaitingStep == ASSUME CreditInv, [Next]_vars PROVE WaitingIsOwed'
<1> TypeOK /\ QueueTypeOK /\ HandsAgree /\ WaitingIsOwed BY DEF CreditInv, TypeOK
<1>1. ASSUME \A j \in Jobs : stage'[j] \in Waiting => stage[j] \in Waiting, UNCHANGED owed
      PROVE  WaitingIsOwed'
  BY <1>1 DEF WaitingIsOwed
<1>2. ASSUME NEW j \in Jobs, Schedule(j) PROVE WaitingIsOwed'
  <2>1. \A i \in Jobs : i # j => stage'[i] = stage[i]
    BY <1>2 DEF Schedule, Enqueue, PutIn, QueueTypeOK
  <2>2. owed' = owed \cup {j} BY <1>2 DEF Schedule
  <2> QED BY <2>1, <2>2 DEF WaitingIsOwed
<1>3. ASSUME NEW w \in Workers, Dispatch(w) PROVE WaitingIsOwed'
  <2>1. stage' = [stage EXCEPT ![job[w]] = "running"] /\ owed' = owed \ {job[w]}
    BY <1>3 DEF Dispatch, StartWork
  <2>2. \A j \in Jobs : stage'[j] = IF j = job[w] THEN "running" ELSE stage[j]
    BY <2>1 DEF QueueTypeOK
  <2> QED BY <2>1, <2>2 DEF WaitingIsOwed, Waiting
<1>4. ASSUME StartScheduler PROVE WaitingIsOwed'
  <2>1. \A w \in Workers : worker[w] = "ended" /\ job[w] = NoJob
    BY <1>4 DEF StartScheduler, Start, HandsAgree, InHand
  <2>2. \A j \in Jobs : stage[j] # "held" BY <2>1, WorkQueueAssumption DEF HandsAgree
  <2>3. \A j \in Jobs : stage'[j] \notin Waiting
    BY <1>4, <2>2 DEF StartScheduler, Start, Waiting
  <2> QED BY <2>3 DEF WaitingIsOwed
<1>5. CASE Unattended(Stop)
  <2>1. \A j \in Jobs : stage'[j] \in Waiting => stage[j] \in Waiting
    BY <1>5 DEF Unattended, Stop, Waiting
  <2> QED BY <1>1, <1>5, <2>1 DEF Unattended
<1>6. ASSUME NEW i, stage[i] \in Waiting \/ i \notin Jobs, NEW to,
             stage' = [stage EXCEPT ![i] = to], UNCHANGED owed
      PROVE  WaitingIsOwed'
  BY <1>6 DEF WaitingIsOwed, QueueTypeOK
<1>7. ASSUME NEW j \in Jobs, Unattended(Unblocked(j)) \/ Unattended(CancelCaller(j))
      PROVE  WaitingIsOwed'
  <2>1. CASE Unattended(Unblocked(j))
    BY <1>6, <2>1 DEF Unattended, Unblocked, PutIn, Waiting
  <2>2. CASE Unattended(CancelCaller(j))
    <3>1. \A i \in Jobs : stage'[i] = stage[i] \/ stage'[i] = "withdrawn"
      BY <2>2 DEF Unattended, CancelCaller, QueueTypeOK
    <3> QED BY <1>1, <2>2, <3>1 DEF Unattended, Waiting
  <2> QED BY <1>7, <2>1, <2>2
<1>8. ASSUME NEW w \in Workers,
             \/ Unattended(Take(w)) \/ Unattended(Defer(w))
             \/ Unattended(PutBack(w, "returning")) \/ Unattended(Rested(w))
      PROVE  WaitingIsOwed'
  <2>1. CASE Unattended(Take(w))
    BY <1>6, <2>1 DEF Unattended, Take, Head, InStage, Waiting
  <2>2. ASSUME NEW from \in {"holding", "returning"}, PutBack(w, from), UNCHANGED owed
        PROVE  WaitingIsOwed'
    <3>1. stage[job[w]] = "held" BY <2>2, JobInHand DEF PutBack, WorkerStep, InHand
    <3> QED BY <1>6, <2>2, <3>1 DEF PutBack, PutIn, Waiting
  <2>3. CASE Unattended(Defer(w)) BY <1>1, <2>2, <2>3 DEF Unattended, Defer
  <2>4. CASE Unattended(Rested(w)) BY <1>1, <2>4 DEF Unattended, Rested
  <2> QED BY <1>8, <2>1, <2>2, <2>3, <2>4 DEF Unattended
<1>9. ASSUME NEW w \in Workers, Completes(w) \/ Fails(w) PROVE WaitingIsOwed'
  <2>1. \A j \in Jobs : stage'[j] = stage[j] \/ stage'[j] \in Ends
    BY <1>9 DEF Completes, Fails, Finish, Ended, Ends, QueueTypeOK
  <2> QED BY <1>1, <1>9, <2>1 DEF Completes, Fails, Ends, Waiting
<1>10. CASE Tick BY <1>1, <1>10 DEF Tick, TimePasses, requests
<1>11. CASE UNCHANGED vars BY <1>1, <1>11 DEF vars, queueVars, requests
<1> QED BY <1>2, <1>3, <1>4, <1>5, <1>7, <1>8, <1>9, <1>10, <1>11 DEF Next, WorkerMoves

(* A step that leaves the clock, owes each key the same from then on, and   *)
(* pays each bucket no less, keeps it.                                      *)
LEMMA CoveredByMore ==
    ASSUME TypeOK, Covered, UNCHANGED now, now \in Nat,
           \A k \in Keys, t \in Nat : t >= now => NotDue(k, t)' = NotDue(k, t),
           \A k \in Keys, d \in Nat, n \in Nat :
              /\ Paid(tpm[k], TpmRate[k], d, n) => Paid(tpm'[k], TpmRate[k], d, n)
              /\ Paid(rpm[k], RpmRate[k], d, n) => Paid(rpm'[k], RpmRate[k], d, n)
    PROVE  Covered'
<1> SUFFICES ASSUME NEW k \in Keys, NEW t \in Nat, t >= now
             PROVE /\ Paid(tpm'[k], TpmRate[k], t - now, SumOver(Estimate, NotDue(k, t)))
                   /\ Paid(rpm'[k], RpmRate[k], t - now, Cardinality(NotDue(k, t)))
  BY DEF Covered
<1>1. t - now \in Nat OBVIOUS
<1>2. /\ Paid(tpm[k], TpmRate[k], t - now, SumOver(Estimate, NotDue(k, t)))
      /\ Paid(rpm[k], RpmRate[k], t - now, Cardinality(NotDue(k, t)))
  BY DEF Covered
<1> QED BY <1>1, <1>2, NotDueNumbers

(* A restart forgets what is owed, and fills the buckets.                   *)
LEMMA FullIsCovered ==
    ASSUME NEW k \in Keys, NEW t \in Nat, NEW from \in Nat, t >= from,
           NEW m \in Nat, NEW n \in Nat
    PROVE  /\ Paid(TpmLimit[k], TpmRate[k], t - from, m)
           /\ Paid(RpmLimit[k], RpmRate[k], t - from, n)
<1>1. PICK d \in Nat, a \in Nat, b \in Nat :
          d = t - from /\ a = TpmRate[k] /\ b = RpmRate[k]
  <2>1. t - from \in Nat OBVIOUS
  <2>2. TpmRate[k] \in Nat /\ RpmRate[k] \in Nat BY KeyManagerAssumption
  <2> QED BY <2>1, <2>2
<1>2. PICK u \in Nat, v \in Nat : u = TpmLimit[k] /\ v = RpmLimit[k]
  BY KeyManagerAssumption
<1>3. d * a \in Nat /\ d * b \in Nat OBVIOUS
<1> QED BY <1>1, <1>2, <1>3 DEF Paid

LEMMA CoveredAfterStart == ASSUME CreditInv, StartScheduler PROVE Covered'
<1>1. now \in Nat /\ UNCHANGED now
  BY WorkQueueAssumption DEF CreditInv, TypeOK, QueueTypeOK, StartScheduler, Start
<1>2. \A k \in Keys : \A t : NotDue(k, t)' = {} BY DEF StartScheduler, NotDue
<1>3. tpm' = TpmLimit /\ rpm' = RpmLimit BY DEF StartScheduler, LoadFromConfig
<1>4. SumOver(Estimate, {}) \in Nat /\ Cardinality({}) \in Nat
  BY FS_EmptySet, SumIsNat
<1> QED BY <1>1, <1>2, <1>3, <1>4, FullIsCovered DEF Covered

LEMMA CoveredAfterTick == ASSUME CreditInv, Tick PROVE Covered'
<1> TypeOK /\ KeyTypeOK /\ QueueTypeOK /\ Covered BY DEF CreditInv, TypeOK
<1>1. now \in Nat /\ now' = now + 1 /\ UNCHANGED <<owed, selection, dueAt>>
  BY WorkQueueAssumption DEF Tick, TimePasses, requests, QueueTypeOK
<1> SUFFICES ASSUME NEW k \in Keys, NEW t \in Nat, t >= now + 1
             PROVE /\ Paid(tpm'[k], TpmRate[k], t - (now + 1), SumOver(Estimate, NotDue(k, t)))
                   /\ Paid(rpm'[k], RpmRate[k], t - (now + 1), Cardinality(NotDue(k, t)))
  <2>1. ASSUME NEW k, NEW t PROVE NotDue(k, t)' = NotDue(k, t) BY <1>1 DEF NotDue
  <2> QED BY <1>1, <2>1 DEF Covered
<1>2. PICK delay \in Nat : delay = t - (now + 1) BY <1>1
<1>3. /\ Paid(tpm[k], TpmRate[k], delay + 1, SumOver(Estimate, NotDue(k, t)))
      /\ Paid(rpm[k], RpmRate[k], delay + 1, Cardinality(NotDue(k, t)))
  <2>1. t - now = delay + 1 /\ t >= now BY <1>1, <1>2
  <2> QED BY <2>1 DEF Covered
<1>4. /\ tpm'[k] = AtMost(TpmLimit[k], tpm[k] + TpmRate[k])
      /\ rpm'[k] = AtMost(RpmLimit[k], rpm[k] + RpmRate[k])
  BY DEF Tick, KeyTick, Refilled
<1>5. Paid(tpm'[k], TpmRate[k], delay, SumOver(Estimate, NotDue(k, t)))
  BY <1>3, <1>4, KeyNumbers, NotDueNumbers, PaidLater
<1>6. Paid(rpm'[k], RpmRate[k], delay, Cardinality(NotDue(k, t)))
  BY <1>3, <1>4, KeyNumbers, NotDueNumbers, PaidLater
<1> QED BY <1>2, <1>5, <1>6

(* A reservation joins the requests not due until its wait is over.         *)
LEMMA CoveredAfterSchedule ==
    ASSUME CreditInv, NEW j \in Jobs, Schedule(j) PROVE Covered'
<1> TypeOK /\ KeyTypeOK /\ QueueTypeOK /\ KeysSelected /\ Covered BY DEF CreditInv, TypeOK
<1>1. PICK s \in Selections(Candidates[j], Estimate[j]) :
          /\ Enqueue(j, s.wait)
          /\ Reserve(s.key, Estimate[j])
          /\ selection' = [selection EXCEPT ![j] = s.key]
          /\ owed' = owed \cup {j}
  BY DEF Schedule
<1>2. PICK n \in Nat : n = Estimate[j] BY ServerAssumption
<1>3. Candidates[j] \in SUBSET Keys BY ServerAssumption
<1>4. PICK key \in Keys, wait \in Nat :
          /\ key = s.key /\ wait = s.wait
          /\ tpm[key] + wait * TpmRate[key] >= n /\ rpm[key] + wait * RpmRate[key] >= 1
  BY <1>2, <1>3, SelectionIsCovered
<1>5. now \in Nat /\ UNCHANGED now /\ selection[j] = NoKey
  BY <1>1, WorkQueueAssumption DEF Enqueue, QueueTypeOK, KeysSelected
<1>6. \A i \in Jobs : /\ selection'[i] = IF i = j THEN key ELSE selection[i]
                      /\ dueAt'[i] = IF i = j THEN now + wait ELSE dueAt[i]
  BY <1>1, <1>4 DEF Enqueue, TypeOK, QueueTypeOK
<1>7. \A k \in Keys : /\ tpm'[k] = IF k = key THEN tpm[k] - n ELSE tpm[k]
                      /\ rpm'[k] = IF k = key THEN rpm[k] - 1 ELSE rpm[k]
  BY <1>1, <1>2, <1>4 DEF Reserve, KeyTypeOK
<1>8. ASSUME NEW k \in Keys, NEW t
      PROVE  /\ j \notin NotDue(k, t)
             /\ NotDue(k, t)' = IF k = key /\ now + wait > t THEN NotDue(k, t) \cup {j}
                               ELSE NotDue(k, t)
  BY <1>1, <1>5, <1>6, ServerAssumption DEF NotDue, TypeOK
<1>9. ASSUME NEW k \in Keys, NEW t \in Nat, t >= now
      PROVE  /\ Paid(tpm'[k], TpmRate[k], t - now, SumOver(Estimate, NotDue(k, t)'))
             /\ Paid(rpm'[k], RpmRate[k], t - now, Cardinality(NotDue(k, t)'))
  <2>1. PICK delay \in Nat : delay = t - now BY <1>5, <1>9
  <2>2. PICK have \in Int, room \in Int, rate \in Nat, pace \in Nat :
             have = tpm[k] /\ room = rpm[k] /\ rate = TpmRate[k] /\ pace = RpmRate[k]
    BY KeyNumbers
  <2>3. PICK lent \in Nat, count \in Nat :
             lent = SumOver(Estimate, NotDue(k, t)) /\ count = Cardinality(NotDue(k, t))
    BY NotDueNumbers
  <2>4. Paid(have, rate, delay, lent) /\ Paid(room, pace, delay, count)
    BY <1>9, <2>1, <2>2, <2>3 DEF Covered
  <2>5. CASE k # key BY <1>7, <1>8, <2>1, <2>2, <2>3, <2>4, <2>5
  <2>6. CASE k = key /\ now + wait > t
    <3>1. SumOver(Estimate, NotDue(k, t) \cup {j}) = n + lent
      <4>1. \A i \in NotDue(k, t) \cup {j} : Estimate[i] \in Nat
        BY ServerAssumption DEF NotDue, TypeOK
      <4> QED BY <1>2, <1>8, <2>3, <4>1, NotDueNumbers, SumWith
    <3>2. Cardinality(NotDue(k, t) \cup {j}) = 1 + count
      <4>1. Cardinality(NotDue(k, t) \cup {j}) = Cardinality(NotDue(k, t)) + 1
        BY <1>8, NotDueNumbers, FS_AddElement
      <4> QED BY <2>3, <4>1
    <3>3. Paid(have - n, rate, delay, n + lent) /\ Paid(room - 1, pace, delay, 1 + count)
      BY <2>4, PaidByLoan
    <3> QED BY <1>7, <1>8, <2>1, <2>2, <2>6, <3>1, <3>2, <3>3
  <2>7. CASE k = key /\ ~ (now + wait > t)
    <3>1. delay >= wait BY <1>5, <2>1, <2>7
    <3>2. Paid(have - n, rate, delay, lent) /\ Paid(room - 1, pace, delay, count)
      BY <1>4, <2>2, <2>7, <3>1, PaidByWait
    <3> QED BY <1>7, <1>8, <2>1, <2>2, <2>3, <2>7, <3>2
  <2> QED BY <2>5, <2>6, <2>7
<1> QED BY <1>5, <1>9 DEF Covered

LEMMA CoveredStep == ASSUME CreditInv, [Next]_vars PROVE Covered'
<1> TypeOK /\ KeyTypeOK /\ QueueTypeOK /\ HandsAgree /\ KeysSelected /\ Covered
  BY DEF CreditInv, TypeOK
<1>1. now \in Nat BY WorkQueueAssumption DEF QueueTypeOK
<1>2. ASSUME UNCHANGED <<now, dueAt, selection, owed, tpm, rpm>> PROVE Covered'
  <2>1. \A k \in Keys, t \in Nat : NotDue(k, t)' = NotDue(k, t) BY <1>2 DEF NotDue
  <2> QED BY <1>1, <1>2, <2>1, CoveredByMore
<1>3. ASSUME QueueMove, UNCHANGED <<selection, owed, tpm, rpm>> PROVE Covered'
  BY <1>2, <1>3, MoveKeeps
<1>4. ASSUME NEW w \in Workers, Fails(w), QueueMove PROVE Covered'
  <2>1. job[w] \in Jobs /\ selection[job[w]] \in Keys
    BY <1>4, KeyInHand DEF Fails, Finish, WorkerStep, InHand
  <2>2. PICK key \in Keys, n \in Nat : Refund(key, n) \/ UNCHANGED <<tpm, rpm>>
    BY <1>4, <2>1, ServerAssumption DEF Fails
  <2>3. UNCHANGED <<selection, owed>> BY <1>4 DEF Fails
  <2>4. CASE UNCHANGED <<tpm, rpm>> BY <1>3, <1>4, <2>3, <2>4
  <2>5. CASE Refund(key, n)
    <3>1. \A k \in Keys :
             /\ tpm'[k] = IF k = key THEN AtMost(TpmLimit[k], tpm[k] + n) ELSE tpm[k]
             /\ rpm'[k] = IF k = key THEN AtMost(RpmLimit[k], rpm[k] + 1) ELSE rpm[k]
      BY <2>5 DEF Refund, KeyTypeOK
    <3>2. ASSUME NEW k \in Keys, NEW d \in Nat, NEW m \in Nat
          PROVE  /\ Paid(tpm[k], TpmRate[k], d, m) => Paid(tpm'[k], TpmRate[k], d, m)
                 /\ Paid(rpm[k], RpmRate[k], d, m) => Paid(rpm'[k], RpmRate[k], d, m)
      <4>1. CASE k # key BY <3>1, <4>1
      <4>2. CASE k = key
        <5>1. PICK a \in Int, b \in Int, r \in Nat, q \in Nat, u \in Nat, v \in Nat :
                  /\ a = tpm[k] /\ b = rpm[k] /\ r = TpmRate[k] /\ q = RpmRate[k]
                  /\ u = TpmLimit[k] /\ v = RpmLimit[k]
          BY KeyNumbers
        <5>2. tpm'[k] = AtMost(u, a + n) /\ rpm'[k] = AtMost(v, b + 1)
          BY <3>1, <4>2, <5>1
        <5>3. /\ Paid(a, r, d, m) => Paid(AtMost(u, a + n), r, d, m)
              /\ Paid(b, q, d, m) => Paid(AtMost(v, b + 1), q, d, m)
          BY PaidByRefund
        <5> QED BY <5>1, <5>2, <5>3
      <4> QED BY <4>1, <4>2
    <3>3. UNCHANGED <<now, dueAt>> BY <1>4, MoveKeeps
    <3>4. \A k \in Keys, t \in Nat : NotDue(k, t)' = NotDue(k, t)
      BY <2>3, <3>3 DEF NotDue
    <3> QED BY <1>1, <3>2, <3>3, <3>4, CoveredByMore
  <2> QED BY <2>2, <2>4, <2>5
<1>5. ASSUME NEW w \in Workers, Completes(w) PROVE UNCHANGED <<selection, owed, tpm, rpm>>
  BY <1>5 DEF Completes, RecordSuccess
<1>6. ASSUME NEW w \in Workers, Dispatch(w), QueueMove PROVE Covered'
  <2>1. UNCHANGED <<now, dueAt, selection, tpm, rpm>>
    BY <1>6, MoveKeeps DEF Dispatch, keyVars
  <2>2. owed' = owed \ {job[w]} /\ dueAt[job[w]] <= now
    BY <1>6 DEF Dispatch, StartWork, Ready
  <2>3. job[w] \in Jobs BY <1>6, KeyInHand DEF Dispatch, StartWork, WorkerStep, InHand
  <2>4. dueAt[job[w]] \in Int BY <2>3 DEF QueueTypeOK
  <2>5. ASSUME NEW k \in Keys, NEW t \in Nat, t >= now PROVE NotDue(k, t)' = NotDue(k, t)
    BY <1>1, <2>1, <2>2, <2>4, <2>5 DEF NotDue
  <2> QED BY <1>1, <2>1, <2>5, CoveredByMore
<1>7. CASE UNCHANGED vars BY <1>2, <1>7 DEF vars, queueVars, requests, keyVars
<1>8. UNCHANGED keyVars => UNCHANGED <<tpm, rpm>> BY DEF keyVars
<1> QED BY <1>3, <1>4, <1>5, <1>6, <1>7, <1>8, NextKinds,
           CoveredAfterTick, CoveredAfterSchedule, CoveredAfterStart

LEMMA CreditInit == Init => CreditInv
<1> SUFFICES ASSUME Init PROVE CreditInv
  OBVIOUS
<1>1. QueueInv BY QueueInitInv DEF Init
<1>2. KeyTypeOK
  <2>1. \A k \in Keys : /\ TpmLimit[k] \in Int /\ TpmLimit[k] <= TpmLimit[k]
                        /\ RpmLimit[k] \in Int /\ RpmLimit[k] <= RpmLimit[k]
    BY KeyManagerAssumption
  <2>2. tpm \in [Keys -> Int] /\ rpm \in [Keys -> Int] /\ provider \in [Keys -> Int]
    BY <2>1, KeyManagerAssumption DEF Init, KeyInit
  <2>3. 0 \in 0..ErrorCap /\ AgeCap \in 0..AgeCap BY KeyManagerAssumption
  <2> QED BY <2>1, <2>2, <2>3 DEF Init, KeyInit, KeyTypeOK
<1>3. provider \in [Keys -> Int] BY <1>2 DEF Init, KeyInit, KeyTypeOK
<1>4. TypeOK BY <1>1, <1>2, <1>3 DEF QueueInv, TypeOK, Init
<1>5. KeysSelected /\ WaitingIsOwed
  BY DEF Init, QueueInit, KeysSelected, WaitingIsOwed, Waiting
<1>6. Covered
  <2>1. now = 0 /\ tpm = TpmLimit /\ rpm = RpmLimit BY DEF Init, QueueInit, KeyInit
  <2> QED BY <1>4, <2>1, NotDueNumbers, FullIsCovered DEF Covered
<1> QED BY <1>1, <1>4, <1>5, <1>6 DEF CreditInv, QueueInv

LEMMA CreditNext == CreditInv /\ [Next]_vars => CreditInv'
<1> SUFFICES ASSUME CreditInv, [Next]_vars PROVE CreditInv'
  OBVIOUS
<1>1. TypeOK /\ HandsAgree /\ KeysSelected BY DEF CreditInv
<1>2. TypeOK' /\ KeysSelected' BY <1>1, ServerTypeStep, KeysStep
<1>3. HandsAgree' BY <1>1, NextImplementsQueue, HandsStep DEF TypeOK
<1> QED BY <1>2, <1>3, WaitingStep, CoveredStep DEF CreditInv

LEMMA CreditInvariant == Spec => []CreditInv
BY CreditInit, CreditNext, PTL DEF Spec

(* The types of the server, its keys' buckets never above their limits.     *)
THEOREM ServerTypeCorrect == Spec => []TypeOK
<1>1. CreditInv => TypeOK BY DEF CreditInv
<1> QED BY <1>1, CreditInvariant, PTL

(* The server's queue is the queue of WorkQueue, its scheduler, its keys    *)
(* and its provider notwithstanding: what holds of that queue holds of it.  *)
THEOREM ImplementsQueue == Spec => QueueSpec
<1>1. Init => QueueInit BY DEF Init
<1>2. CreditInv /\ [Next]_vars => [QueueNext]_queueVars
  BY NextImplementsQueue DEF CreditInv
<1> QED BY <1>1, <1>2, CreditInvariant, PTL DEF Spec, QueueSpec

THEOREM ServerKeepsRequests == Spec => []OnePlace /\ []AnsweredOnce
BY ImplementsQueue, QueueKeepsRequests, QueueAnswersOnce

(* What a key has overdrawn is owed by requests still waiting, whatever     *)
(* the keys, their limits and rates, the estimates and the strategy.        *)
LEMMA CreditIsCovered == CreditInv => DispatchIsCovered
<1> SUFFICES ASSUME CreditInv PROVE DispatchIsCovered OBVIOUS
<1> TypeOK /\ KeyTypeOK /\ QueueTypeOK /\ Covered BY DEF CreditInv, TypeOK
<1>0. InStage({"putting", "queued", "held"}) \subseteq owed
  BY DEF CreditInv, WaitingIsOwed, Waiting, InStage
<1> SUFFICES ASSUME NEW k \in Keys
             PROVE  tpm[k] + Owed(k) >= 0 /\ rpm[k] + Cardinality(Awaited(k)) >= 0
  BY <1>0 DEF DispatchIsCovered
<1>1. now \in Nat BY WorkQueueAssumption DEF QueueTypeOK
<1>2. Awaited(k) \in SUBSET Jobs /\ NotDue(k, now) \in SUBSET Awaited(k)
  BY DEF Awaited, NotDue, TypeOK
<1>3. IsFiniteSet(Awaited(k)) /\ \A j \in Awaited(k) : Estimate[j] \in Nat
  BY <1>2, JobSetIsFinite, ServerAssumption
<1>4. /\ SumOver(Estimate, NotDue(k, now)) <= SumOver(Estimate, Awaited(k))
      /\ Cardinality(NotDue(k, now)) <= Cardinality(Awaited(k))
  BY <1>2, <1>3, SumIsMonotone, FS_Subset
<1>5. SumOver(Estimate, Awaited(k)) \in Nat /\ Cardinality(Awaited(k)) \in Nat
  BY <1>3, SumIsNat, FS_CardinalityType
<1>6. /\ Paid(tpm[k], TpmRate[k], 0, SumOver(Estimate, NotDue(k, now)))
      /\ Paid(rpm[k], RpmRate[k], 0, Cardinality(NotDue(k, now)))
  <2>1. now >= now /\ now - now = 0 BY <1>1
  <2> QED BY <1>1, <2>1 DEF Covered
<1>7. 0 * TpmRate[k] = 0 /\ 0 * RpmRate[k] = 0 BY KeyNumbers
<1>8. Owed(k) = SumOver(Estimate, Awaited(k)) BY DEF Owed, SumOver
<1> QED BY <1>4, <1>5, <1>6, <1>7, <1>8, KeyNumbers, NotDueNumbers DEF Paid

(* A request is dispatched no sooner than the capacity it reserved on       *)
(* credit has accrued.                                                      *)
THEOREM DispatchCovered == Spec => []DispatchIsCovered
BY CreditIsCovered, CreditInvariant, PTL

=============================================================================
