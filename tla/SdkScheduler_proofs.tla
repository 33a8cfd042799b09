-------------------------- MODULE SdkScheduler_proofs --------------------------
(***************************************************************************)
(* Proofs about SdkScheduler: it implements Admission, its state stays well *)
(* typed, the bookkeeping of its retry loop holds and a request that need   *)
(* not wait is paid for.                                                    *)
(***************************************************************************)
EXTENDS SdkScheduler, Admission_proofs, Buckets_proofs

-----------------------------------------------------------------------------
(* Refinement: an action of the scheduler is one of Admission's or leaves   *)
(* the admission state alone.                                               *)

LEMMA StepImplementsAdmission ==
    [Next]_vars => [AdmissionNext]_admissionVars
<1> SUFFICES ASSUME [Next]_vars PROVE [AdmissionNext]_admissionVars OBVIOUS
<1> USE DEF AdmissionNext, Inside
<1>1. CASE UNCHANGED vars BY <1>1 DEF vars
<1>2. CASE Tick BY <1>2 DEF Tick
<1>3. CASE Shutdown BY <1>3
<1>4. ASSUME NEW r \in Requests, Arrive(r) \/ TakePermit(r) PROVE AdmissionNext
  BY <1>4 DEF Arrive, TakePermit
<1>5. ASSUME NEW r \in Requests, Admit(r) PROVE AdmissionNext
  BY <1>5 DEF Admit, AdmitAndCall, AdmitAndDefer, AdmitAndFail
<1>6. ASSUME NEW r \in Requests, WakeAndCall(r) \/ DeferTimeout(r) PROVE AdmissionNext
  BY <1>6 DEF WakeAndCall, DeferTimeout
<1>7. ASSUME NEW r \in Requests, CallEnds(r) PROVE [AdmissionNext]_admissionVars
  BY <1>7 DEF CallEnds, Answer, FallBack, BackOff, GiveUp
<1>8. ASSUME NEW r \in Requests, Retry(r) \/ StreamOpens(r) PROVE AdmissionNext
  BY <1>8 DEF Retry, StreamOpens
<1>9. ASSUME NEW r \in Requests, StreamEnds(r) \/ StreamFails(r) PROVE AdmissionNext
  BY <1>9 DEF StreamEnds, StreamFails
<1>10. ASSUME NEW r \in Requests, NEW diff \in Overruns, StreamUsage(r, diff)
       PROVE  UNCHANGED admissionVars
  BY <1>10 DEF StreamUsage
<1>11. ASSUME NEW r \in Requests, Cancel(r) PROVE AdmissionNext
  BY <1>11 DEF Cancel
<1> HIDE DEF AdmissionNext
<1> QED
  BY <1>1, <1>2, <1>3, <1>4, <1>5, <1>6, <1>7, <1>8, <1>9, <1>10, <1>11 DEF Next

(* The scheduler with its retries, fallbacks, deferrals and streams keeps   *)
(* Admission's promise: nothing but Admission's steps touches the           *)
(* semaphore, the counters and the shutdown flag.                           *)
THEOREM ImplementsAdmission == Spec => AdmissionSpec
<1>1. Init => AdmissionInit BY DEF Init
<1> QED BY <1>1, StepImplementsAdmission, PTL DEF Spec, AdmissionSpec

LEMMA SdkAdmissionSafety ==
    Spec => [](AdmissionTypeOK /\ PermitAccounting /\ TotalsAddUp /\ NoPermitStranded)
<1> QED BY ImplementsAdmission, AdmissionSafety, PTL

(* No permit is lost or minted, whichever way requests end.                 *)
THEOREM PermitsAreAccounted == Spec => []PermitAccounting
BY SdkAdmissionSafety, PTL

(* A permit lies free beside a waiter only while another permit is on its   *)
(* way to a waiter that will wake the next: no wake-up is ever lost.        *)
THEOREM NoPermitIsStranded == Spec => []NoPermitStranded
BY SdkAdmissionSafety, PTL

(* Each request is counted in exactly one total, once it settled.           *)
THEOREM TotalsAreExact == Spec => []TotalsAddUp
BY SdkAdmissionSafety, PTL

-----------------------------------------------------------------------------
(* What the rate limiter returns.                                           *)

(* A chosen key is one of the candidates, healthy by the limits asked for;  *)
(* with wait 0 it has both a request and n tokens.                          *)
LEMMA ChoiceIsSound ==
    ASSUME KeyTypeOK, NEW candidates \in SUBSET Keys, NEW n \in Nat,
           NEW threshold, NEW timeout,
           NEW c \in KeyChoices(candidates, n, threshold, timeout)
    PROVE  /\ c.key \in candidates
           /\ Healthy(c.key, threshold, timeout)
           /\ c.wait \in Nat
           /\ c.wait = 0 => rpm[c.key] >= 1 /\ tpm[c.key] >= n
<1> DEFINE healthy == {k \in candidates : Healthy(k, threshold, timeout)}
           ready == {k \in healthy : CanHandle(k, n)}
<1>1. CASE c \in {[key |-> k, wait |-> 0] : k \in Preferred(ready)}
  <2>1. Preferred(ready) \subseteq ready BY DEF Preferred
  <2>2. PICK k \in ready : c = [key |-> k, wait |-> 0] BY <1>1, <2>1
  <2> QED BY <2>2 DEF CanHandle
<1>2. ASSUME NEW k \in healthy, c = [key |-> k, wait |-> TimeUntilAvailable(k, n)]
      PROVE  /\ c.key \in candidates
             /\ Healthy(c.key, threshold, timeout)
             /\ c.wait \in Nat
             /\ c.wait = 0 => rpm[c.key] >= 1 /\ tpm[c.key] >= n
  <2>1. /\ k \in Keys /\ rpm[k] \in Nat /\ tpm[k] \in Nat
        /\ RpmRate[k] \in Nat \ {0} /\ TpmRate[k] \in Nat \ {0}
    BY RateLimiterAssumption DEF KeyTypeOK
  <2> DEFINE forRequest == TicksUntil(1, rpm[k], RpmRate[k])
             forTokens == TicksUntil(n, tpm[k], TpmRate[k])
  <2>2. /\ forRequest \in Nat /\ (forRequest = 0 <=> rpm[k] >= 1)
        /\ forTokens \in Nat /\ (forTokens = 0 <=> tpm[k] >= n)
    <3>1. rpm[k] \in Int /\ tpm[k] \in Int /\ n \in Int /\ 1 \in Int BY <2>1
    <3>2. forRequest \in Nat /\ (forRequest = 0 <=> rpm[k] >= 1)
      BY <2>1, <3>1, TicksUntilIsNat
    <3>3. forTokens \in Nat /\ (forTokens = 0 <=> tpm[k] >= n)
      BY <2>1, <3>1, TicksUntilIsNat
    <3> QED BY <3>2, <3>3
  <2>3. c.key = k /\ c.wait = Larger(forRequest, forTokens)
    BY <1>2 DEF TimeUntilAvailable
  <2> HIDE DEF forRequest, forTokens
  <2> QED BY <2>2, <2>3 DEF Larger
<1> QED BY <1>1, <1>2 DEF KeyChoices

-----------------------------------------------------------------------------
(* Types and the bookkeeping of the retry loop.                             *)

InLoop == {"calling", "streaming", "backoff"}

(* What holds of one request, by where it is.                               *)
RequestOK(r) ==
    /\ pc[r] = "deferred" => key[r] \in Candidates[r]
    /\ pc[r] \in InLoop =>
          /\ key[r] \in tried[r] /\ tried[r] \subseteq Candidates[r]
          /\ IsFiniteSet(tried[r])
          /\ Cardinality(tried[r]) <= attempts[r] /\ attempts[r] <= MaxAttempts
          /\ pc[r] = "backoff" => attempts[r] < MaxAttempts

RequestTypes ==
    /\ key \in [Requests -> Keys \cup {NoKey}]
    /\ tried \in [Requests -> SUBSET Keys]
    /\ attempts \in [Requests -> 0..MaxAttempts]
    /\ lastError \in [Requests -> AllErrorKinds \cup {"none"}]
    /\ timer \in [Requests -> 0..MaxWait]
    /\ paid \in [Requests -> BOOLEAN]

SInv == KeyTypeOK /\ RequestTypes /\ \A r \in Requests : RequestOK(r)

(* In a step of r any other request stays or is handed a permit.            *)
OthersWait(r) ==
    \A q \in Requests : q # r => pc'[q] = pc[q] \/ pc'[q] = "handed"

(* A step that changes loop variables of r alone leaves the others right.   *)
LEMMA OthersOK ==
    ASSUME SInv, NEW r \in Requests, OthersWait(r),
           \A q \in Requests : q # r =>
              key'[q] = key[q] /\ tried'[q] = tried[q] /\ attempts'[q] = attempts[q]
    PROVE  \A q \in Requests : q # r => RequestOK(q)'
<1> SUFFICES ASSUME NEW q \in Requests, q # r PROVE RequestOK(q)' OBVIOUS
<1>1. pc'[q] = pc[q] \/ pc'[q] = "handed" BY DEF OthersWait
<1>2. RequestOK(q) BY DEF SInv
<1> QED BY <1>1, <1>2 DEF RequestOK, InLoop

(* Where a request goes when Admission moves it.                            *)
LEMMA ReleaseMoves ==
    ASSUME AdmissionTypeOK, NEW r \in Requests, pc[r] # "queued", NEW outcome \in Final,
           ReleasePermit(r, outcome)
    PROVE  pc'[r] = outcome /\ OthersWait(r)
BY DEF AdmissionTypeOK, ReleasePermit, NextInLine, Queued, InPlaces, OthersWait

LEMMA EnterMoves ==
    ASSUME AdmissionTypeOK, NEW r \in Requests, NEW place,
           Enter(r, place) \/ Proceed(r, place)
    PROVE  pc'[r] = place /\ OthersWait(r)
BY DEF AdmissionTypeOK, Enter, Proceed, OthersWait

LEMMA LeaveMoves ==
    ASSUME AdmissionTypeOK, NEW r \in Requests,
           Succeed(r) \/ Fail(r) \/ Abandon(r) \/ EnterAndFail(r)
    PROVE  pc'[r] \in Final /\ OthersWait(r)
<1>1. CASE Succeed(r) BY <1>1, ReleaseMoves DEF Succeed, Leave, Inside, Final
<1>2. CASE Fail(r) BY <1>2, ReleaseMoves DEF Fail, Leave, Inside, Final
<1>3. CASE Abandon(r) BY <1>3, ReleaseMoves DEF Abandon, Leave, Inside, Final
<1>4. CASE EnterAndFail(r) BY <1>4, ReleaseMoves DEF EnterAndFail, Final
<1> QED BY <1>1, <1>2, <1>3, <1>4

LEMMA ArriveMoves ==
    ASSUME AdmissionTypeOK, NEW r \in Requests,
           Submit(r) \/ Resume(r) \/ AcquireTimeout(r) \/ Withdraw(r)
    PROVE  pc'[r] \notin Inside /\ OthersWait(r)
<1>1. CASE Submit(r) BY <1>1 DEF Submit, AdmissionTypeOK, OthersWait, Inside
<1>2. CASE AcquireTimeout(r)
  <2>1. CASE pc[r] = "queued" /\ pc' = [pc EXCEPT ![r] = "rejected"]
    BY <2>1 DEF AdmissionTypeOK, OthersWait, Inside
  <2>2. CASE pc[r] = "handed" /\ ReleasePermit(r, "rejected")
    BY <2>2, ReleaseMoves DEF Final, Inside
  <2> QED BY <1>2, <2>1, <2>2 DEF AcquireTimeout
<1>3. CASE Withdraw(r)
  <2>1. CASE pc[r] = "queued" /\ pc' = [pc EXCEPT ![r] = "cancelled"]
    BY <2>1 DEF AdmissionTypeOK, OthersWait, Inside
  <2>2. CASE pc[r] = "handed" /\ ReleasePermit(r, "cancelled")
    BY <2>2, ReleaseMoves DEF Final, Inside
  <2> QED BY <1>3, <2>1, <2>2 DEF Withdraw
<1>4. CASE Resume(r)
  BY <1>4 DEF Resume, NextInLine, Queued, InPlaces, AdmissionTypeOK, OthersWait, Inside
<1> QED BY <1>1, <1>2, <1>3, <1>4

(* Consuming, recording and the passing of time keep keys well typed.       *)
LEMMA KeysStayTyped ==
    ASSUME KeyTypeOK
    PROVE  /\ UNCHANGED keyVars => KeyTypeOK'
           /\ KeyTick => KeyTypeOK'
           /\ \A k \in Keys : RecordSuccess(k) \/ RecordFailure(k) => KeyTypeOK'
           /\ \A k \in Keys, n \in Nat : Consume(k, n) => KeyTypeOK'
<1> USE RateLimiterAssumption
<1>1. UNCHANGED keyVars => KeyTypeOK' BY DEF keyVars, KeyTypeOK
<1>2. KeyTick => KeyTypeOK' BY DEF KeyTick, KeyTypeOK, AtMost
<1>3. ASSUME NEW k \in Keys, RecordSuccess(k) \/ RecordFailure(k) PROVE KeyTypeOK'
  BY <1>3 DEF RecordSuccess, RecordFailure, KeyTypeOK, AtMost, RateLimiterAssumption
<1>4. ASSUME NEW k \in Keys, NEW n \in Nat, Consume(k, n) PROVE KeyTypeOK'
  BY <1>4 DEF Consume, CanHandle, KeyTypeOK
<1> QED BY <1>1, <1>2, <1>3, <1>4

(* The step that consumes and starts the first call, from wherever.         *)
LEMMA FirstCallKeepsSInv ==
    ASSUME SInv, NEW r \in Requests, NEW k \in Candidates[r], FirstCall(r, k),
           pc'[r] = "calling", OthersWait(r)
    PROVE  SInv'
<1> USE SdkAssumption
<1>1. k \in Keys /\ Estimate[r] \in Nat OBVIOUS
<1>2. KeyTypeOK' BY <1>1, KeysStayTyped DEF FirstCall, SInv
<1>3. RequestTypes' BY <1>1 DEF FirstCall, SInv, RequestTypes, MaxAttempts, CanHandle
<1>4. RequestOK(r)'
  <2>1. key'[r] = k /\ tried'[r] = {k} /\ attempts'[r] = 1
    BY DEF FirstCall, SInv, RequestTypes
  <2>2. IsFiniteSet({k}) /\ Cardinality({k}) = 1 BY FS_Singleton
  <2> QED BY <2>1, <2>2 DEF RequestOK, InLoop, MaxAttempts
<1>5. \A q \in Requests : q # r => RequestOK(q)'
  BY OthersOK DEF FirstCall, SInv, RequestTypes
<1> QED BY <1>2, <1>3, <1>4, <1>5 DEF SInv

(* The steps that leave the loop variables alone.                           *)
LEMMA QuietKeepsSInv ==
    ASSUME SInv, NEW r \in Requests, OthersWait(r),
           UNCHANGED <<key, tried, attempts>>, KeyTypeOK', RequestTypes', RequestOK(r)'
    PROVE  SInv'
BY OthersOK DEF SInv

LEMMA NextSInv == SInv /\ AdmissionTypeOK /\ [Next]_vars => SInv'
<1> SUFFICES ASSUME SInv, AdmissionTypeOK, [Next]_vars PROVE SInv' OBVIOUS
<1> USE SdkAssumption
<1>1. CASE UNCHANGED vars
  BY <1>1 DEF vars, admissionVars, keyVars, requestVars, loopVars, SInv, KeyTypeOK,
              RequestTypes, RequestOK, InLoop
<1>2. CASE Tick
  <2>1. KeyTypeOK' BY <1>2, KeysStayTyped DEF Tick, SInv
  <2>2. RequestTypes' BY <1>2 DEF Tick, SInv, RequestTypes, loopVars
  <2>3. \A r \in Requests : RequestOK(r)'
    BY <1>2 DEF Tick, SInv, RequestOK, loopVars, admissionVars, InLoop
  <2> QED BY <2>1, <2>2, <2>3 DEF SInv
<1>3. CASE Shutdown /\ UNCHANGED <<keyVars, requestVars>>
  BY <1>3 DEF Shutdown, keyVars, requestVars, loopVars, SInv, KeyTypeOK,
              RequestTypes, RequestOK, InLoop
(* Steps that move r out of, or not into, the loop and change nothing else. *)
<1>4. ASSUME NEW r \in Requests, pc'[r] \notin Inside, OthersWait(r),
             UNCHANGED <<keyVars, requestVars>>
      PROVE  SInv'
  <2>1. KeyTypeOK' BY <1>4, KeysStayTyped DEF SInv
  <2>2. RequestTypes' BY <1>4 DEF SInv, RequestTypes, requestVars, loopVars
  <2>3. RequestOK(r)' BY <1>4 DEF RequestOK, Inside, InLoop
  <2> QED BY <1>4, <2>1, <2>2, <2>3, QuietKeepsSInv DEF requestVars, loopVars
<1>5. ASSUME NEW r \in Requests, Arrive(r) \/ TakePermit(r) \/ Cancel(r) PROVE SInv'
  <2>1. CASE Abandon(r)
    BY <1>5, <2>1, <1>4, LeaveMoves DEF Arrive, TakePermit, Cancel, Final, Inside
  <2>2. CASE Submit(r) \/ Resume(r) \/ AcquireTimeout(r) \/ Withdraw(r)
    BY <1>5, <2>2, <1>4, ArriveMoves DEF Arrive, TakePermit, Cancel
  <2> QED BY <1>5, <2>1, <2>2 DEF Arrive, TakePermit, Cancel
<1>6. ASSUME NEW r \in Requests, AdmitAndFail(r) \/ DeferTimeout(r) PROVE SInv'
  BY <1>6, <1>4, LeaveMoves DEF AdmitAndFail, DeferTimeout, Final, Inside
<1>7. ASSUME NEW r \in Requests, AdmitAndCall(r) PROVE SInv'
  <2>1. PICK c \in FirstChoices(r) : FirstCall(r, c.key) BY <1>7 DEF AdmitAndCall
  <2>2. c.key \in Candidates[r]
    BY ChoiceIsSound DEF FirstChoices, SInv
  <2>3. pc'[r] = "calling" /\ OthersWait(r) BY <1>7, EnterMoves DEF AdmitAndCall
  <2> QED BY <2>1, <2>2, <2>3, FirstCallKeepsSInv
<1>8. ASSUME NEW r \in Requests, WakeAndCall(r) PROVE SInv'
  <2>1. key[r] \in Candidates[r] BY <1>8 DEF WakeAndCall, SInv, RequestOK
  <2>2. pc'[r] = "calling" /\ OthersWait(r) BY <1>8, EnterMoves DEF WakeAndCall
  <2> QED BY <1>8, <2>1, <2>2, FirstCallKeepsSInv DEF WakeAndCall
<1>9. ASSUME NEW r \in Requests, AdmitAndDefer(r) PROVE SInv'
  <2>1. PICK c \in FirstChoices(r) :
           /\ c.wait \in 1..MaxWait
           /\ key' = [key EXCEPT ![r] = c.key]
           /\ timer' = [timer EXCEPT ![r] = c.wait]
    BY <1>9 DEF AdmitAndDefer
  <2>2. c.key \in Candidates[r] /\ c.key \in Keys
    BY ChoiceIsSound DEF FirstChoices, SInv
  <2>3. pc'[r] = "deferred" /\ OthersWait(r) BY <1>9, EnterMoves DEF AdmitAndDefer
  <2>4. KeyTypeOK' BY <1>9, KeysStayTyped DEF AdmitAndDefer, SInv
  <2>5. RequestTypes'
    BY <1>9, <2>1, <2>2 DEF AdmitAndDefer, SInv, RequestTypes
  <2>6. RequestOK(r)'
    BY <2>1, <2>2, <2>3 DEF SInv, RequestTypes, RequestOK, InLoop
  <2>7. \A q \in Requests : q # r => RequestOK(q)'
    BY <1>9, <2>1, <2>3, OthersOK DEF AdmitAndDefer, SInv, RequestTypes
  <2> QED BY <2>4, <2>5, <2>6, <2>7 DEF SInv
(* In the loop the key in use is a key, so recording an outcome is typed.   *)
<1>10. ASSUME NEW r \in Requests, pc[r] \in InLoop
       PROVE  /\ key[r] \in Keys /\ RequestOK(r)
              /\ attempts[r] \in Nat /\ MaxAttempts \in Nat
  BY <1>10 DEF SInv, RequestOK, RequestTypes, MaxAttempts
<1>11. ASSUME NEW r \in Requests, Answer(r) \/ StreamEnds(r) \/ StreamFails(r) PROVE SInv'
  <2>1. pc[r] \in InLoop BY <1>11 DEF Answer, StreamEnds, StreamFails, InLoop
  <2>2. KeyTypeOK'
    BY <1>10, <1>11, <2>1, KeysStayTyped DEF Answer, StreamEnds, StreamFails, SInv
  <2>3. RequestTypes'
    BY <1>11 DEF Answer, StreamEnds, StreamFails, SInv, RequestTypes, requestVars, loopVars
  <2>4. pc'[r] \in Final /\ OthersWait(r)
    BY <1>11, LeaveMoves DEF Answer, StreamEnds, StreamFails
  <2>5. RequestOK(r)' BY <2>4 DEF RequestOK, Final, InLoop
  <2>6. UNCHANGED <<key, tried, attempts>>
    BY <1>11 DEF Answer, StreamEnds, StreamFails, requestVars, loopVars
  <2> QED BY <2>2, <2>3, <2>4, <2>5, <2>6, QuietKeepsSInv
<1>12. ASSUME NEW r \in Requests, NEW kind \in AllErrorKinds, AttemptFails(r, kind)
       PROVE  /\ pc[r] \in InLoop
              /\ KeyTypeOK'
              /\ lastError' \in [Requests -> AllErrorKinds \cup {"none"}]
              /\ timer' \in [Requests -> 0..MaxWait]
              /\ paid' \in [Requests -> BOOLEAN]
  <2>1. pc[r] \in InLoop BY <1>12 DEF AttemptFails, InLoop
  <2>2. KeyTypeOK' BY <1>10, <1>12, <2>1, KeysStayTyped DEF AttemptFails, SInv
  <2> QED BY <1>12, <2>1, <2>2 DEF AttemptFails, SInv, RequestTypes
<1>13. ASSUME NEW r \in Requests, FallBack(r) PROVE SInv'
  <2>1. PICK c \in FallbackChoices(r) :
           /\ key' = [key EXCEPT ![r] = c.key]
           /\ tried' = [tried EXCEPT ![r] = @ \cup {c.key}]
    BY <1>13 DEF FallBack
  <2>2. AttemptFails(r, "transient") /\ "transient" \in AllErrorKinds
    BY <1>13 DEF FallBack, AllErrorKinds
  <2>3. c.key \in Candidates[r] /\ c.key \in Keys
    BY ChoiceIsSound DEF FallbackChoices, SInv
  <2>4. pc[r] \in InLoop BY <1>12, <2>2
  <2>5. /\ attempts' = [attempts EXCEPT ![r] = @ + 1] /\ attempts[r] < MaxAttempts
        /\ pc' = pc /\ pc[r] = "calling"
    BY <1>13, <2>2 DEF FallBack, AttemptFails, admissionVars
  <2>6. KeyTypeOK' /\ RequestTypes'
    BY <1>10, <1>12, <2>1, <2>2, <2>3, <2>4, <2>5 DEF SInv, RequestTypes
  <2>7. RequestOK(r)'
    <3>1. /\ key'[r] = c.key /\ tried'[r] = tried[r] \cup {c.key}
          /\ attempts'[r] = attempts[r] + 1
      BY <2>1, <2>5 DEF SInv, RequestTypes
    <3>2. /\ IsFiniteSet(tried[r]) /\ tried[r] \subseteq Candidates[r]
          /\ Cardinality(tried[r]) <= attempts[r]
      BY <1>10, <2>4 DEF RequestOK
    <3>3. /\ IsFiniteSet(tried[r] \cup {c.key})
          /\ Cardinality(tried[r] \cup {c.key}) \in {Cardinality(tried[r]), Cardinality(tried[r]) + 1}
      BY <3>2, FS_AddElement
    <3>4. Cardinality(tried[r]) \in Nat BY <3>2, FS_CardinalityType
    <3>5. Cardinality(tried'[r]) <= attempts'[r] /\ attempts'[r] <= MaxAttempts
      BY <1>10, <2>4, <2>5, <3>1, <3>2, <3>3, <3>4
    <3> QED BY <2>3, <2>5, <3>1, <3>2, <3>3, <3>5 DEF RequestOK, InLoop
  <2>8. OthersWait(r) BY <2>5 DEF OthersWait
  <2>9. \A q \in Requests : q # r => RequestOK(q)'
    BY <2>1, <2>5, <2>8, OthersOK DEF SInv, RequestTypes
  <2> QED BY <2>6, <2>7, <2>9 DEF SInv
<1>14. ASSUME NEW r \in Requests, NEW kind \in ErrorKinds, BackOff(r, kind) \/ GiveUp(r, kind)
       PROVE  SInv'
  <2>1. AttemptFails(r, kind) /\ kind \in AllErrorKinds BY <1>14 DEF BackOff, GiveUp
  <2>2. pc[r] \in InLoop BY <1>12, <2>1
  <2>3. UNCHANGED <<key, tried, attempts>> BY <1>14 DEF BackOff, GiveUp
  <2>4. KeyTypeOK' /\ RequestTypes' BY <1>12, <2>1, <2>3 DEF SInv, RequestTypes
  <2>5. OthersWait(r) BY <1>14, EnterMoves, LeaveMoves DEF BackOff, GiveUp
  <2>6. RequestOK(r)'
    <3>1. CASE BackOff(r, kind)
      BY <1>10, <2>2, <2>3, <3>1, EnterMoves DEF BackOff, RequestOK, InLoop
    <3>2. CASE GiveUp(r, kind)
      BY <3>2, LeaveMoves DEF GiveUp, RequestOK, InLoop, Final
    <3> QED BY <1>14, <3>1, <3>2
  <2> QED BY <2>3, <2>4, <2>5, <2>6, QuietKeepsSInv
<1>15. ASSUME NEW r \in Requests, Retry(r) PROVE SInv'
  <2>1. pc[r] \in InLoop /\ pc[r] = "backoff" BY <1>15 DEF Retry, InLoop
  <2>2. RequestOK(r) /\ attempts[r] \in Nat /\ MaxAttempts \in Nat BY <1>10, <2>1
  <2>3. attempts[r] < MaxAttempts BY <2>1, <2>2 DEF RequestOK
  <2>4. attempts' = [attempts EXCEPT ![r] = @ + 1] BY <1>15 DEF Retry
  <2>5. KeyTypeOK' BY <1>15, KeysStayTyped DEF Retry, SInv
  <2>6. RequestTypes' BY <1>15, <2>2, <2>3, <2>4 DEF Retry, SInv, RequestTypes
  <2>7. pc'[r] = "calling" /\ OthersWait(r) BY <1>15, EnterMoves DEF Retry
  <2>8. RequestOK(r)'
    <3>1. attempts'[r] = attempts[r] + 1 /\ key' = key /\ tried' = tried
      BY <1>15, <2>4 DEF Retry, SInv, RequestTypes
    <3>2. Cardinality(tried[r]) \in Nat BY <2>1, <2>2, FS_CardinalityType DEF RequestOK
    <3> QED BY <2>1, <2>2, <2>3, <2>7, <3>1, <3>2 DEF RequestOK, InLoop
  <2>9. \A q \in Requests : q # r => RequestOK(q)'
    BY <1>15, <2>4, <2>7, OthersOK DEF Retry, SInv, RequestTypes
  <2> QED BY <2>5, <2>6, <2>8, <2>9 DEF SInv
<1>16. ASSUME NEW r \in Requests, StreamOpens(r) PROVE SInv'
  <2>1. pc[r] \in InLoop BY <1>16 DEF StreamOpens, InLoop
  <2>2. RequestOK(r) BY <1>10, <2>1
  <2>3. KeyTypeOK' /\ RequestTypes'
    BY <1>16, KeysStayTyped DEF StreamOpens, SInv, RequestTypes, requestVars, loopVars
  <2>4. pc'[r] = "streaming" /\ OthersWait(r) BY <1>16, EnterMoves DEF StreamOpens
  <2>5. UNCHANGED <<key, tried, attempts>> BY <1>16 DEF StreamOpens, requestVars, loopVars
  <2>6. RequestOK(r)' BY <2>1, <2>2, <2>4, <2>5 DEF RequestOK, InLoop
  <2> QED BY <2>3, <2>4, <2>5, <2>6, QuietKeepsSInv
<1>17. ASSUME NEW r \in Requests, NEW diff \in Overruns, StreamUsage(r, diff) PROVE SInv'
  <2>1. pc[r] \in InLoop BY <1>17 DEF StreamUsage, InLoop
  <2>2. RequestOK(r) /\ key[r] \in Keys /\ diff \in Nat BY <1>10, <2>1
  <2>3. KeyTypeOK' BY <1>17, <2>2, KeysStayTyped DEF StreamUsage, SInv
  <2>4. RequestTypes' BY <1>17 DEF StreamUsage, SInv, RequestTypes, requestVars, loopVars
  <2>5. UNCHANGED <<pc, key, tried, attempts>>
    BY <1>17 DEF StreamUsage, admissionVars, requestVars, loopVars
  <2>6. RequestOK(r)' /\ OthersWait(r) BY <2>2, <2>5 DEF RequestOK, OthersWait
  <2> QED BY <2>3, <2>4, <2>5, <2>6, QuietKeepsSInv
<1> QED
  BY <1>1, <1>2, <1>3, <1>5, <1>6, <1>7, <1>8, <1>9, <1>11, <1>13, <1>14, <1>15, <1>16, <1>17
  DEF Next, Admit, CallEnds

LEMMA InitSInv == Init => SInv
<1> SUFFICES ASSUME Init PROVE SInv OBVIOUS
<1> USE SdkAssumption, RateLimiterAssumption DEF Init
<1>1. KeyTypeOK BY DEF KeyInit, KeyTypeOK
<1>2. RequestTypes BY DEF RequestTypes, MaxAttempts
<1>3. \A r \in Requests : RequestOK(r) BY DEF AdmissionInit, RequestOK, InLoop
<1> QED BY <1>1, <1>2, <1>3 DEF SInv

(* Every variable keeps its type for any number of requests and keys: in    *)
(* particular no bucket goes below zero or above its capacity.              *)
THEOREM TypeCorrect == Spec => []TypeOK
<1>1. SInv /\ AdmissionTypeOK => TypeOK BY DEF SInv, RequestTypes, TypeOK
<1> QED BY <1>1, InitSInv, NextSInv, SdkAdmissionSafety, PTL DEF Spec

(* The retry loop never spends more than max_retries * 2 attempts and its   *)
(* record of the keys tried stays right.                                    *)
THEOREM FallbackSafety == Spec => []FallbackBookkeeping
<1>1. SInv => FallbackBookkeeping
  BY DEF SInv, RequestOK, FallbackBookkeeping, InPlaces, InLoop
<1> QED BY <1>1, InitSInv, NextSInv, SdkAdmissionSafety, PTL DEF Spec

-----------------------------------------------------------------------------
(* The only step from the permit straight to the call is AdmitAndCall.      *)
LEMMA OnlyAdmitAndCall ==
    ASSUME SInv, AdmissionTypeOK, [Next]_vars,
           NEW r \in Requests, pc[r] = "granted", pc'[r] = "calling"
    PROVE  AdmitAndCall(r)
<1> USE DEF Inside, Final
<1>1. ~ UNCHANGED pc OBVIOUS
<1>2. PICK s \in Requests :
         \/ Arrive(s) \/ TakePermit(s) \/ Admit(s) \/ WakeAndCall(s) \/ DeferTimeout(s)
         \/ CallEnds(s) \/ Retry(s)
         \/ StreamOpens(s) \/ StreamEnds(s) \/ StreamFails(s)
         \/ Cancel(s)
  BY <1>1 DEF Next, vars, admissionVars, Tick, Shutdown, StreamUsage
<1>3. CASE Arrive(s) \/ TakePermit(s) \/ Cancel(s)
  <2>1. pc'[s] # "calling" /\ OthersWait(s)
    BY <1>3, ArriveMoves, LeaveMoves DEF Arrive, TakePermit, Cancel
  <2> QED BY <2>1 DEF OthersWait
<1>4. CASE AdmitAndDefer(s) \/ AdmitAndFail(s) \/ DeferTimeout(s)
  <2>1. pc'[s] # "calling" /\ OthersWait(s)
    BY <1>4, EnterMoves, LeaveMoves DEF AdmitAndDefer, AdmitAndFail, DeferTimeout
  <2> QED BY <2>1 DEF OthersWait
<1>5. CASE AdmitAndCall(s)
  <2>1. OthersWait(s) BY <1>5, EnterMoves DEF AdmitAndCall
  <2> QED BY <1>5, <2>1 DEF OthersWait
<1>6. CASE WakeAndCall(s) \/ Retry(s) \/ StreamOpens(s)
  <2>1. pc[s] # "granted" /\ OthersWait(s)
    BY <1>6, EnterMoves DEF WakeAndCall, Retry, StreamOpens
  <2> QED BY <2>1 DEF OthersWait
<1>7. CASE CallEnds(s)
  <2>1. CASE FallBack(s) BY <1>1, <2>1 DEF FallBack, admissionVars
  <2>2. CASE Answer(s) \/ \E kind \in ErrorKinds : BackOff(s, kind) \/ GiveUp(s, kind)
    <3>1. pc[s] # "granted" /\ OthersWait(s)
      BY <2>2, EnterMoves, LeaveMoves DEF Answer, BackOff, GiveUp, AttemptFails
    <3> QED BY <3>1 DEF OthersWait
  <2> QED BY <1>7, <2>1, <2>2 DEF CallEnds
<1>8. CASE StreamEnds(s) \/ StreamFails(s)
  <2>1. pc[s] # "granted" /\ OthersWait(s)
    BY <1>8, LeaveMoves DEF StreamEnds, StreamFails
  <2> QED BY <2>1 DEF OthersWait
<1> QED BY <1>2, <1>3, <1>4, <1>5, <1>6, <1>7, <1>8 DEF Admit

(* For any keys, limits, load and breaker: a request sent without sleeping  *)
(* had its capacity taken, unless can_handle's own breaker is open for its  *)
(* key where the configured one is not.                                     *)
THEOREM ImmediateCallSafety == Spec => ImmediateCallIsPaid
<1> DEFINE PaidOrBroken ==
             \A r \in Requests :
                 pc[r] = "granted" /\ pc'[r] = "calling" =>
                     paid'[r] \/ ~ Healthy(key'[r], DefaultThreshold, DefaultTimeout)
<1>1. SInv /\ AdmissionTypeOK /\ [Next]_vars => [PaidOrBroken]_vars
  <2> SUFFICES ASSUME SInv, AdmissionTypeOK, [Next]_vars,
                      NEW r \in Requests, pc[r] = "granted", pc'[r] = "calling"
               PROVE  paid'[r] \/ ~ Healthy(key'[r], DefaultThreshold, DefaultTimeout)
    OBVIOUS
  <2>1. AdmitAndCall(r) BY OnlyAdmitAndCall
  <2>2. PICK c \in FirstChoices(r) : c.wait = 0 /\ FirstCall(r, c.key)
    BY <2>1 DEF AdmitAndCall
  <2>3. rpm[c.key] >= 1 /\ tpm[c.key] >= Estimate[r]
    BY <2>2, ChoiceIsSound, SdkAssumption DEF FirstChoices, SInv
  <2>4. paid'[r] = CanHandle(c.key, Estimate[r]) /\ key'[r] = c.key
    BY <2>2 DEF FirstCall, SInv, RequestTypes
  <2> QED BY <2>3, <2>4 DEF CanHandle
<1> QED
  BY <1>1, InitSInv, NextSInv, SdkAdmissionSafety, PTL DEF Spec, ImmediateCallIsPaid
=============================================================================
