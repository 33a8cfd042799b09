-------------------------- MODULE Standalone_proofs --------------------------
(***************************************************************************)
(* Theorems about the parts that need no other: the retry loops, the        *)
(* sliding window, the SDK's and the server's choice of a key, the latency  *)
(* statistics and the token estimates.                                      *)
(***************************************************************************)
EXTENDS Retry, SlidingWindow, KeyScore, KeySelection, TokenEstimator, Buckets_proofs

-----------------------------------------------------------------------------
(* The retry loops.                                                         *)

(* A delay that doubles never shrinks: 2^n counts the subsets of 1..n.      *)
LEMMA PowersGrow ==
    ASSUME NEW n \in Nat
    PROVE  /\ 2^n \in Nat /\ 2^n >= 1
           /\ 2^(n + 1) \in Nat /\ 2^n <= 2^(n + 1)
<1>1. /\ IsFiniteSet(1..n) /\ Cardinality(1..n) = n
      /\ IsFiniteSet(1..(n + 1)) /\ Cardinality(1..(n + 1)) = n + 1
  BY FS_Interval
<1>2. /\ IsFiniteSet(SUBSET (1..n)) /\ Cardinality(SUBSET (1..n)) = 2^n
      /\ IsFiniteSet(SUBSET (1..(n + 1)))
      /\ Cardinality(SUBSET (1..(n + 1))) = 2^(n + 1)
  <2>1. IsFiniteSet(SUBSET (1..n)) /\ Cardinality(SUBSET (1..n)) = 2^Cardinality(1..n)
    BY <1>1, FS_SUBSET
  <2>2. /\ IsFiniteSet(SUBSET (1..(n + 1)))
        /\ Cardinality(SUBSET (1..(n + 1))) = 2^Cardinality(1..(n + 1))
    BY <1>1, FS_SUBSET
  <2> QED BY <1>1, <2>1, <2>2
<1>3. Cardinality(SUBSET (1..n)) \in Nat /\ Cardinality(SUBSET (1..(n + 1))) \in Nat
  BY <1>2, FS_CardinalityType
<1>4. Cardinality(SUBSET (1..n)) # 0
  <2>1. {} \in SUBSET (1..n) OBVIOUS
  <2> QED BY <1>2, <2>1, FS_EmptySet
<1>5. Cardinality(SUBSET (1..n)) <= Cardinality(SUBSET (1..(n + 1)))
  <2>1. SUBSET (1..n) \in SUBSET SUBSET (1..(n + 1))
    <3>1. 1..n \subseteq 1..(n + 1) OBVIOUS
    <3> QED BY <3>1
  <2> QED BY <1>2, <2>1, FS_Subset
<1> QED BY <1>2, <1>3, <1>4, <1>5

(* The delay before its jitter.                                             *)
CappedDelay(attempt) ==
    LET raw == BaseDelay * 2^(attempt - 1)
    IN IF raw < MaxDelay THEN raw ELSE MaxDelay

LEMMA DelayGrows ==
    ASSUME NEW i \in Nat \ {0}
    PROVE  /\ CappedDelay(i) \in Nat \ {0} /\ CappedDelay(i) <= MaxDelay
           /\ CappedDelay(1) <= BaseDelay
           /\ CappedDelay(i + 1) \in Nat /\ CappedDelay(i) <= CappedDelay(i + 1)
<1> USE RetryAssumption
<1>1. PICK a \in Nat, b \in Nat : a = 2^(i - 1) /\ b = 2^i /\ 1 <= a /\ a <= b
  <2>1. i - 1 \in Nat /\ (i - 1) + 1 = i OBVIOUS
  <2> QED BY <2>1, PowersGrow
<1>2. BaseDelay * a \in Nat /\ BaseDelay * b \in Nat OBVIOUS
<1>3. BaseDelay <= BaseDelay * a /\ BaseDelay * a <= BaseDelay * b BY <1>1
<1>4. (i + 1) - 1 = i OBVIOUS
<1>5. CappedDelay(i) = IF BaseDelay * a < MaxDelay THEN BaseDelay * a ELSE MaxDelay
  BY <1>1 DEF CappedDelay
<1>6. CappedDelay(i + 1) = IF BaseDelay * b < MaxDelay THEN BaseDelay * b ELSE MaxDelay
  BY <1>1, <1>4 DEF CappedDelay
<1>7. CappedDelay(1) = IF BaseDelay < MaxDelay THEN BaseDelay ELSE MaxDelay
  <2>1. 2^(1 - 1) = 1 OBVIOUS
  <2>2. BaseDelay * 1 = BaseDelay OBVIOUS
  <2> QED BY <2>1, <2>2 DEF CappedDelay
<1> QED BY <1>2, <1>3, <1>5, <1>6, <1>7

LEMMA BackoffBounds ==
    ASSUME NEW i \in Nat \ {0}, NEW d \in Backoffs(i)
    PROVE  d \in Nat /\ CappedDelay(i) <= d /\ 4 * d < 5 * CappedDelay(i)
<1>1. CappedDelay(i) \in Nat BY DelayGrows
<1>2. PICK jitter \in 0..CappedDelay(i) :
          4 * jitter < CappedDelay(i) /\ d = CappedDelay(i) + jitter
  BY DEF Backoffs, CappedDelay
<1> QED BY <1>1, <1>2

LEMMA WaitGrows ==
    ASSUME NEW i \in Nat \ {0}
    PROVE  /\ DispatchWait(i) \in Nat \ {0}
           /\ DispatchWait(1) = Second
           /\ DispatchWait(i + 1) \in Nat /\ DispatchWait(i) <= DispatchWait(i + 1)
<1> USE RetryAssumption
<1>1. PICK a \in Nat, b \in Nat : a = 2^(i - 1) /\ b = 2^i /\ 1 <= a /\ a <= b
  <2>1. i - 1 \in Nat /\ (i - 1) + 1 = i OBVIOUS
  <2> QED BY <2>1, PowersGrow
<1>2. Second * a \in Nat /\ Second * b \in Nat OBVIOUS
<1>3. Second <= Second * a /\ Second * a <= Second * b BY <1>1
<1>4. (i + 1) - 1 = i OBVIOUS
<1>5. DispatchWait(i) = IF Second * a < 60 * Second THEN Second * a ELSE 60 * Second
  BY <1>1 DEF DispatchWait
<1>6. DispatchWait(i + 1) = IF Second * b < 60 * Second THEN Second * b ELSE 60 * Second
  BY <1>1, <1>4 DEF DispatchWait
<1>7. DispatchWait(1) = Second
  <2>1. 2^(1 - 1) = 1 OBVIOUS
  <2>2. Second * 1 = Second OBVIOUS
  <2>3. Second < 60 * Second OBVIOUS
  <2> QED BY <2>1, <2>2, <2>3 DEF DispatchWait
<1> QED BY <1>2, <1>3, <1>5, <1>6, <1>7

-----------------------------------------------------------------------------
(* How far a loop has come tells how many calls failed, how many delays lie *)
(* between them, and what was recorded.                                     *)
RetryTypeOK ==
    /\ loop \in {"decorator", "dispatch"}
    /\ retryState \in {"calling", "sleeping", "cancelled", "returned",
                       "propagated", "exhausted"}
    /\ callErrors \in Seq({"429", "5xx", "other"})
    /\ sleeps \in Seq(Nat) /\ told \in Seq(Nat)
    /\ recorded \in Seq({"success", "failure", "refund"})

DelaysCounted ==
    /\ retryState \in {"calling", "sleeping", "cancelled", "returned"} =>
          Len(callErrors) = Len(sleeps) /\ Len(callErrors) < Allowed
    /\ retryState \in {"propagated", "exhausted"} =>
          Len(callErrors) = Len(sleeps) + 1 /\ Len(callErrors) <= Allowed
    /\ retryState = "exhausted" =>
          Len(callErrors) = Allowed /\ lastError = Last(callErrors)

DelaysAreBackoffs ==
    \A i \in 1..Len(sleeps) :
        /\ loop = "decorator" => sleeps[i] \in Backoffs(i)
        /\ loop = "dispatch" => sleeps[i] = DispatchWait(i)

EachIsTold ==
    loop = "decorator" =>
        \/ Len(told) = Len(sleeps)
        \/ retryState = "propagated" /\ Len(told) = Len(sleeps) + 1

OutcomesCounted ==
    loop = "dispatch" =>
        Len(recorded) = (IF retryState \in {"calling", "sleeping", "cancelled"}
                            THEN 0 ELSE 1)

RetryInv == RetryTypeOK /\ DelaysCounted /\ DelaysAreBackoffs /\ EachIsTold /\ OutcomesCounted

LEMMA RetryStarts == RetryInit => RetryInv
<1> SUFFICES ASSUME RetryInit PROVE RetryInv OBVIOUS
<1> USE RetryAssumption DEF RetryInit
<1>1. Len(sleeps) = 0 /\ Len(callErrors) = 0 /\ Len(told) = 0 /\ Len(recorded) = 0
  OBVIOUS
<1>2. RetryTypeOK BY DEF RetryTypeOK
<1>3. Allowed \in Nat \ {0} BY DEF Allowed
<1>4. DelaysCounted BY <1>1, <1>3 DEF DelaysCounted
<1> QED BY <1>1, <1>2, <1>4 DEF RetryInv, DelaysAreBackoffs, EachIsTold, OutcomesCounted

(* Appending the next delay.                                                *)
LEMMA OneMoreDelay ==
    ASSUME RetryTypeOK, DelaysAreBackoffs, DelaysCounted, retryState = "calling",
           NEW d \in Nat, sleeps' = Append(sleeps, d), UNCHANGED loop,
           loop = "decorator" => d \in Backoffs(Attempt),
           loop = "dispatch" => d = DispatchWait(Attempt)
    PROVE  /\ DelaysAreBackoffs'
           /\ sleeps' \in Seq(Nat) /\ Len(sleeps') = Len(sleeps) + 1
<1>1. /\ sleeps' \in Seq(Nat) /\ Len(sleeps') = Len(sleeps) + 1
      /\ \A i \in 1..Len(sleeps) : sleeps'[i] = sleeps[i]
      /\ sleeps'[Len(sleeps) + 1] = d
  BY DEF RetryTypeOK
<1>2. Attempt = Len(sleeps) + 1 BY DEF DelaysCounted, Attempt
<1>3. ASSUME NEW i \in 1..Len(sleeps')
      PROVE  /\ loop' = "decorator" => sleeps'[i] \in Backoffs(i)
             /\ loop' = "dispatch" => sleeps'[i] = DispatchWait(i)
  <2>1. Len(sleeps) \in Nat BY DEF RetryTypeOK
  <2>2. CASE i = Len(sleeps) + 1 BY <1>1, <1>2, <2>2
  <2>3. CASE i \in 1..Len(sleeps) BY <1>1, <2>3 DEF DelaysAreBackoffs
  <2> QED BY <1>1, <2>1, <2>2, <2>3
<1> QED BY <1>1, <1>3 DEF DelaysAreBackoffs

(* The calls that failed, one more of them.                                 *)
LEMMA OneMoreError ==
    ASSUME RetryTypeOK, NEW e \in {"429", "5xx", "other"},
           callErrors' = Append(callErrors, e)
    PROVE  /\ callErrors' \in Seq({"429", "5xx", "other"})
           /\ Len(callErrors') = Len(callErrors) + 1
           /\ Len(callErrors) \in Nat /\ Len(sleeps) \in Nat
           /\ Last(callErrors') = e
BY DEF RetryTypeOK, Last

LEMMA DecoratedStep ==
    ASSUME RetryInv, NEW e \in {"429", "5xx", "other"}, DecoratedFails(e)
    PROVE  RetryInv'
<1> USE RetryAssumption DEF RetryInv
<1>0. /\ retryState = "calling" /\ loop = "decorator" /\ loop' = "decorator"
      /\ recorded' = recorded /\ callErrors' = Append(callErrors, e)
  BY DEF DecoratedFails
<1>1. /\ callErrors' \in Seq({"429", "5xx", "other"})
      /\ Len(callErrors') = Len(callErrors) + 1
      /\ Len(callErrors) \in Nat /\ Len(sleeps) \in Nat /\ Len(told) \in Nat
      /\ Last(callErrors') = e
  BY <1>0, OneMoreError DEF RetryTypeOK
<1>2. /\ Len(callErrors) = Len(sleeps) /\ Len(callErrors) < MaxAttempts
      /\ Attempt = Len(callErrors) + 1 /\ Len(told) = Len(sleeps)
  BY <1>0 DEF DelaysCounted, Attempt, Allowed, EachIsTold
<1>3. Allowed' = MaxAttempts BY <1>0 DEF Allowed
<1>4. OutcomesCounted' BY <1>0 DEF OutcomesCounted
<1>5. CASE /\ e = "other" /\ retryState' = "propagated"
           /\ UNCHANGED <<sleeps, told, lastError>>
  <2>1. RetryTypeOK' BY <1>0, <1>1, <1>5 DEF RetryTypeOK
  <2>2. DelaysCounted' BY <1>1, <1>2, <1>3, <1>5 DEF DelaysCounted
  <2>3. DelaysAreBackoffs' BY <1>0, <1>5 DEF DelaysAreBackoffs
  <2>4. EachIsTold' BY <1>2, <1>5 DEF EachIsTold
  <2> QED BY <1>4, <2>1, <2>2, <2>3, <2>4
<1>6. CASE /\ Attempt >= MaxAttempts /\ retryState' = "exhausted" /\ lastError' = e
           /\ UNCHANGED <<sleeps, told>>
  <2>1. RetryTypeOK' BY <1>0, <1>1, <1>6 DEF RetryTypeOK
  <2>2. DelaysCounted' BY <1>1, <1>2, <1>3, <1>6 DEF DelaysCounted
  <2>3. DelaysAreBackoffs' BY <1>0, <1>6 DEF DelaysAreBackoffs
  <2>4. EachIsTold' BY <1>2, <1>6 DEF EachIsTold
  <2> QED BY <1>4, <2>1, <2>2, <2>3, <2>4
<1>7. CASE /\ Attempt < MaxAttempts /\ told' = Append(told, Attempt)
           /\ retryState' = "propagated" /\ UNCHANGED sleeps
  <2>1. told' \in Seq(Nat) /\ Len(told') = Len(told) + 1
    BY <1>1, <1>2, <1>7 DEF RetryTypeOK
  <2>2. RetryTypeOK' BY <1>0, <1>1, <1>7, <2>1 DEF RetryTypeOK
  <2>3. DelaysCounted' BY <1>1, <1>2, <1>3, <1>7 DEF DelaysCounted
  <2>4. DelaysAreBackoffs' BY <1>0, <1>7 DEF DelaysAreBackoffs
  <2>5. EachIsTold' BY <1>2, <1>7, <2>1 DEF EachIsTold
  <2> QED BY <1>4, <2>2, <2>3, <2>4, <2>5
<1>8. CASE /\ Attempt < MaxAttempts /\ told' = Append(told, Attempt)
           /\ retryState' = "sleeping"
           /\ \E delay \in Backoffs(Attempt) : sleeps' = Append(sleeps, delay)
  <2>1. told' \in Seq(Nat) /\ Len(told') = Len(told) + 1
    BY <1>1, <1>2, <1>8 DEF RetryTypeOK
  <2>2. PICK d \in Backoffs(Attempt) : sleeps' = Append(sleeps, d) BY <1>8
  <2>3. Attempt \in Nat \ {0} BY <1>1, <1>2
  <2>4. d \in Nat BY <2>3, BackoffBounds
  <2>5. /\ DelaysAreBackoffs'
        /\ sleeps' \in Seq(Nat) /\ Len(sleeps') = Len(sleeps) + 1
    BY <1>0, <2>2, <2>4, OneMoreDelay
  <2>6. RetryTypeOK' BY <1>0, <1>1, <1>8, <2>1, <2>5 DEF RetryTypeOK
  <2>7. DelaysCounted' BY <1>1, <1>2, <1>3, <1>8, <2>5 DEF DelaysCounted
  <2>8. EachIsTold' BY <1>2, <2>1, <2>5 DEF EachIsTold
  <2> QED BY <1>4, <2>5, <2>6, <2>7, <2>8
<1> QED BY <1>5, <1>6, <1>7, <1>8 DEF DecoratedFails

LEMMA DispatchStep ==
    ASSUME RetryInv, NEW e \in {"429", "5xx", "other"}, DispatchFails(e)
    PROVE  RetryInv'
<1> USE RetryAssumption DEF RetryInv
<1>0. /\ retryState = "calling" /\ loop = "dispatch" /\ loop' = "dispatch"
      /\ told' = told /\ callErrors' = Append(callErrors, e)
  BY DEF DispatchFails
<1>1. /\ callErrors' \in Seq({"429", "5xx", "other"})
      /\ Len(callErrors') = Len(callErrors) + 1
      /\ Len(callErrors) \in Nat /\ Len(sleeps) \in Nat
      /\ Last(callErrors') = e
  BY <1>0, OneMoreError
<1>2. /\ Len(callErrors) = Len(sleeps) /\ Len(callErrors) < DispatchAttempts
      /\ Attempt = Len(callErrors) + 1 /\ Len(recorded) = 0
  BY <1>0 DEF DelaysCounted, Attempt, Allowed, OutcomesCounted
<1>3. Allowed' = DispatchAttempts BY <1>0 DEF Allowed
<1>4. EachIsTold' BY <1>0 DEF EachIsTold
<1>5. CASE /\ Attempt = DispatchAttempts /\ retryState' = "exhausted"
           /\ lastError' = e /\ HandleError(NoError) /\ UNCHANGED sleeps
  <2>1. recorded' = recorded \o <<"failure">> \o <<>>
    BY <1>5 DEF HandleError, NoError
  <2>2. recorded' \in Seq({"success", "failure", "refund"}) /\ Len(recorded') = 1
    BY <1>2, <2>1 DEF RetryTypeOK
  <2>3. RetryTypeOK' BY <1>0, <1>1, <1>5, <2>2 DEF RetryTypeOK
  <2>4. DelaysCounted' BY <1>1, <1>2, <1>3, <1>5 DEF DelaysCounted
  <2>5. DelaysAreBackoffs' BY <1>0, <1>5 DEF DelaysAreBackoffs
  <2>6. OutcomesCounted' BY <1>5, <2>2 DEF OutcomesCounted
  <2> QED BY <1>4, <2>3, <2>4, <2>5, <2>6
<1>6. CASE /\ Attempt < DispatchAttempts /\ retryState' = "sleeping"
           /\ sleeps' = Append(sleeps, DispatchWait(Attempt))
           /\ UNCHANGED <<lastError, recorded>>
  <2>1. Attempt \in Nat \ {0} BY <1>1, <1>2
  <2>2. DispatchWait(Attempt) \in Nat BY <2>1, WaitGrows
  <2>3. /\ DelaysAreBackoffs'
        /\ sleeps' \in Seq(Nat) /\ Len(sleeps') = Len(sleeps) + 1
    BY <1>0, <1>6, <2>2, OneMoreDelay
  <2>4. RetryTypeOK' BY <1>0, <1>1, <1>6, <2>3 DEF RetryTypeOK
  <2>5. DelaysCounted' BY <1>1, <1>2, <1>3, <1>6, <2>3 DEF DelaysCounted
  <2>6. OutcomesCounted' BY <1>2, <1>6 DEF OutcomesCounted
  <2> QED BY <1>4, <2>3, <2>4, <2>5, <2>6
<1> QED BY <1>5, <1>6 DEF DispatchFails

LEMMA RetrySteps == RetryInv /\ [RetryNext]_retryVars => RetryInv'
<1> SUFFICES ASSUME RetryInv, [RetryNext]_retryVars PROVE RetryInv' OBVIOUS
<1>1. ASSUME UNCHANGED <<loop, callErrors, sleeps, told, lastError, recorded>>,
             \/ retryState \in {"calling", "sleeping"}
                /\ retryState' \in {"calling", "sleeping", "cancelled"}
             \/ UNCHANGED retryState
      PROVE RetryInv'
  <2>1. RetryTypeOK' BY <1>1 DEF RetryInv, RetryTypeOK
  <2>2. DelaysCounted' BY <1>1 DEF RetryInv, DelaysCounted, Allowed
  <2>3. DelaysAreBackoffs' BY <1>1 DEF RetryInv, DelaysAreBackoffs
  <2>4. EachIsTold' BY <1>1 DEF RetryInv, EachIsTold
  <2>5. OutcomesCounted' BY <1>1 DEF RetryInv, OutcomesCounted
  <2> QED BY <2>1, <2>2, <2>3, <2>4, <2>5 DEF RetryInv
<1>2. CASE CallSucceeds
  <2> USE <1>2 DEF CallSucceeds
  <2>1. /\ loop = "dispatch" => recorded' = Append(recorded, "success")
        /\ loop # "dispatch" => recorded' = recorded
    OBVIOUS
  <2>2. recorded' \in Seq({"success", "failure", "refund"})
    BY <2>1 DEF RetryInv, RetryTypeOK
  <2>3. loop = "dispatch" => Len(recorded') = Len(recorded) + 1
    BY <2>1 DEF RetryInv, RetryTypeOK
  <2>4. RetryTypeOK' BY <2>2 DEF RetryInv, RetryTypeOK
  <2>5. DelaysCounted' BY DEF RetryInv, DelaysCounted, Allowed
  <2>6. DelaysAreBackoffs' BY DEF RetryInv, DelaysAreBackoffs
  <2>7. EachIsTold' BY DEF RetryInv, EachIsTold
  <2>8. OutcomesCounted' BY <2>3 DEF RetryInv, OutcomesCounted
  <2> QED BY <2>4, <2>5, <2>6, <2>7, <2>8 DEF RetryInv
<1>3. CASE Wake \/ CancelRetry BY <1>1, <1>3 DEF Wake, CancelRetry
<1>4. CASE UNCHANGED retryVars BY <1>1, <1>4 DEF retryVars
<1> QED BY <1>2, <1>3, <1>4, DecoratedStep, DispatchStep DEF RetryNext

(* The delay before call i + 1, and the one after it.                       *)
LEMMA DelaysAreBounded ==
    ASSUME RetryTypeOK, DelaysAreBackoffs, NEW i \in 1..Len(sleeps)
    PROVE  /\ loop = "decorator" => 4 * sleeps[i] < 5 * MaxDelay
           /\ i = 1 =>
                 4 * sleeps[i] < 5 * (IF loop = "decorator" THEN BaseDelay ELSE Second)
           /\ i > 1 => 5 * sleeps[i] > 4 * sleeps[i - 1]
<1> USE RetryAssumption
<1>1. i \in Nat \ {0} /\ (i > 1 => i - 1 \in Nat \ {0} /\ i - 1 \in 1..Len(sleeps))
  BY DEF RetryTypeOK
<1>2. CASE loop = "decorator"
  <2>1. sleeps[i] \in Backoffs(i) BY <1>2 DEF DelaysAreBackoffs
  <2>2. /\ sleeps[i] \in Nat
        /\ CappedDelay(i) <= sleeps[i] /\ 4 * sleeps[i] < 5 * CappedDelay(i)
        /\ CappedDelay(i) \in Nat \ {0} /\ CappedDelay(i) <= MaxDelay
        /\ CappedDelay(1) <= BaseDelay
    BY <1>1, <2>1, BackoffBounds, DelayGrows
  <2>3. ASSUME i > 1 PROVE 5 * sleeps[i] > 4 * sleeps[i - 1]
    <3>1. sleeps[i - 1] \in Backoffs(i - 1) BY <1>1, <1>2, <2>3 DEF DelaysAreBackoffs
    <3>2. sleeps[i - 1] \in Nat /\ 4 * sleeps[i - 1] < 5 * CappedDelay(i - 1)
      BY <1>1, <2>3, <3>1, BackoffBounds
    <3>3. (i - 1) + 1 = i OBVIOUS
    <3>4. CappedDelay(i - 1) \in Nat /\ CappedDelay(i - 1) <= CappedDelay(i)
      BY <1>1, <2>3, <3>3, DelayGrows
    <3>5. PICK a \in Nat, b \in Nat, c \in Nat, d \in Nat :
             a = sleeps[i - 1] /\ b = CappedDelay(i - 1) /\ c = CappedDelay(i) /\ d = sleeps[i]
      BY <2>2, <3>2, <3>4
    <3>6. 4 * a < 5 * b /\ b <= c /\ c <= d BY <2>2, <3>2, <3>4, <3>5
    <3>7. 5 * d > 4 * a BY <3>6
    <3> QED BY <3>5, <3>7
  <2>4. i = 1 => 4 * sleeps[i] < 5 * BaseDelay BY <2>2
  <2> QED BY <1>2, <2>2, <2>3, <2>4
<1>3. CASE loop = "dispatch"
  <2>1. sleeps[i] = DispatchWait(i) BY <1>3 DEF DelaysAreBackoffs
  <2>2. DispatchWait(i) \in Nat \ {0} /\ DispatchWait(1) = Second
    BY <1>1, WaitGrows
  <2>3. ASSUME i > 1 PROVE 5 * sleeps[i] > 4 * sleeps[i - 1]
    <3>1. sleeps[i - 1] = DispatchWait(i - 1) BY <1>1, <1>3, <2>3 DEF DelaysAreBackoffs
    <3>2. (i - 1) + 1 = i OBVIOUS
    <3>3. DispatchWait(i - 1) \in Nat /\ DispatchWait(i - 1) <= DispatchWait(i)
      BY <1>1, <2>3, <3>2, WaitGrows
    <3>4. PICK a \in Nat, b \in Nat \ {0} : a = DispatchWait(i - 1) /\ b = DispatchWait(i)
      BY <2>2, <3>3
    <3>5. 5 * b > 4 * a BY <3>3, <3>4
    <3> QED BY <2>1, <3>1, <3>4, <3>5
  <2>4. i = 1 => 4 * sleeps[i] < 5 * Second BY <2>1, <2>2
  <2> QED BY <1>3, <2>3, <2>4
<1> QED BY <1>2, <1>3 DEF RetryTypeOK

LEMMA RetryInvImplies == RetryInv => RetriesAreSpaced
<1> SUFFICES ASSUME RetryInv PROVE RetriesAreSpaced OBVIOUS
<1>1. /\ Len(callErrors) \in Nat /\ Len(sleeps) \in Nat /\ Len(told) \in Nat
      /\ DOMAIN sleeps = 1..Len(sleeps)
      /\ Allowed \in Nat
  BY RetryAssumption DEF RetryInv, RetryTypeOK, Allowed
<1>2. /\ retryState \in {"returned", "exhausted"} => Len(sleeps) = Calls - 1
      /\ Calls <= Allowed
      /\ retryState = "exhausted" => Calls = Allowed /\ lastError = Last(callErrors)
  BY <1>1 DEF RetryInv, RetryTypeOK, DelaysCounted, Calls
<1>3. \A i \in DOMAIN sleeps :
          /\ loop = "decorator" => 4 * sleeps[i] < 5 * MaxDelay
          /\ i = 1 =>
                4 * sleeps[i] < 5 * (IF loop = "decorator" THEN BaseDelay ELSE Second)
          /\ i > 1 => 5 * sleeps[i] > 4 * sleeps[i - 1]
  BY <1>1, DelaysAreBounded DEF RetryInv
<1>4. loop = "decorator" => Len(told) - Len(sleeps) \in {0, 1}
  <2>1. loop = "decorator" =>
            Len(told) = Len(sleeps) \/ Len(told) = Len(sleeps) + 1
    BY DEF RetryInv, EachIsTold
  <2> QED BY <1>1, <2>1
<1>5. loop = "dispatch" =>
          Len(recorded) = (IF Ended /\ retryState # "cancelled" THEN 1 ELSE 0)
  BY DEF RetryInv, RetryTypeOK, OutcomesCounted, Ended
<1> QED BY <1>2, <1>3, <1>4, <1>5 DEF RetriesAreSpaced

(* Either loop calls as often as it may and no more, sleeps once between    *)
(* two calls and ever longer, and records one outcome for all its calls.    *)
THEOREM RetriesSpaced == RetrySpec => []RetriesAreSpaced
<1>1. RetryInit => RetryInv BY RetryStarts
<1>2. RetryInv /\ [RetryNext]_retryVars => RetryInv' BY RetrySteps
<1>3. RetryInv => RetriesAreSpaced BY RetryInvImplies
<1> QED BY <1>1, <1>2, <1>3, PTL DEF RetrySpec

-----------------------------------------------------------------------------
(* The sliding window.  A window of the history that ends at the clock is   *)
(* what the object counts; one that ended before had its say already.       *)
WindowTo(end) == {t \in WindowTicks : end - WindowSize < t /\ t <= end}

WindowTypeOK ==
    /\ windowClock \in WindowTicks /\ granted \in [WindowCallers -> 0..MaxCount]
    /\ windowEvents \in [WindowTicks -> Nat] /\ everAdded \in [WindowTicks -> Nat]

NothingAhead == \A t \in WindowTicks : t > windowClock => everAdded[t] = 0

(* What lapsed from the list is outside the window for good.                *)
ListIsRecent ==
    \A t \in WindowTicks :
        t > windowClock - WindowSize => windowEvents[t] = everAdded[t]

(* The current window together with all that was granted and not yet added. *)
MostInWindow == WindowLimit + OthersGrants

GrantsFit ==
    SumOver(everAdded, WindowTo(windowClock)) + SumOver(granted, WindowCallers)
        <= MostInWindow

WindowsHold ==
    \A end \in 0..windowClock : SumOver(everAdded, WindowTo(end)) <= MostInWindow

WindowInv == WindowTypeOK /\ NothingAhead /\ ListIsRecent /\ GrantsFit /\ WindowsHold

(* Numbers of at most m each sum up to at most m times their count.         *)
LEMMA SumIsAtMost ==
    ASSUME NEW S, IsFiniteSet(S), NEW m \in Nat, NEW f, \A x \in S : f[x] \in 0..m
    PROVE  SumOver(f, S) <= Cardinality(S) * m
<1> DEFINE holds == {T \in SUBSET S : SumOver(f, T) <= Cardinality(T) * m}
<1>1. ASSUME NEW T \in SUBSET S, \A U \in SUBSET T : U # T => U \in holds
      PROVE  T \in holds
  <2>0. IsFiniteSet(T) BY FS_Subset
  <2>1. CASE T = {}
    <3>1. SumOver(f, T) = 0 /\ Cardinality(T) = 0
      BY <2>0, <2>1, SumOfZeros, FS_EmptySet
    <3> QED BY <3>1
  <2>2. CASE T # {}
    <3>1. PICK x \in T : TRUE BY <2>2
    <3>2. PICK U : U = T \ {x} OBVIOUS
    <3>3. U \in SUBSET T /\ U # T /\ IsFiniteSet(U) BY <2>0, <3>1, <3>2, FS_Subset
    <3>4. SumOver(f, U) <= Cardinality(U) * m BY <1>1, <3>3
    <3>5. \A y \in T : f[y] \in Nat OBVIOUS
    <3>6. SumOver(f, T) = f[x] + SumOver(f, U) BY <2>0, <3>1, <3>2, <3>5, SumWithout
    <3>7. Cardinality(U) = Cardinality(T) - 1 /\ Cardinality(T) \in Nat
      BY <2>0, <3>1, <3>2, FS_RemoveElement, FS_CardinalityType
    <3>8. SumOver(f, U) \in Nat BY <3>3, <3>5, SumIsNat
    <3>9. PICK n \in Int : n = Cardinality(U) BY <3>7
    <3>10. (n + 1) * m = n * m + m /\ n * m \in Int BY <3>9
    <3>11. Cardinality(T) = n + 1 /\ SumOver(f, U) <= n * m BY <3>4, <3>7, <3>9
    <3>12. f[x] \in 0..m BY <3>1
    <3> QED BY <3>6, <3>8, <3>10, <3>11, <3>12
  <2> QED BY <2>1, <2>2
<1> HIDE DEF holds
<1>2. S \in holds BY <1>1, SubsetInduction
<1> QED BY <1>2 DEF holds

LEMMA ProductIsNat == ASSUME NEW a \in Nat, NEW b \in Nat PROVE a * b \in Nat
OBVIOUS

LEMMA MostIsNat == MostInWindow \in Nat /\ OthersGrants \in Nat
<1>1. Cardinality(WindowCallers) \in Nat /\ Cardinality(WindowCallers) # 0
  BY WindowAssumption, FS_CardinalityType, FS_EmptySet
<1>2. PICK n \in Nat : n = Cardinality(WindowCallers) - 1 BY <1>1
<1>3. n * MaxCount \in Nat BY WindowAssumption, ProductIsNat
<1>4. OthersGrants = n * MaxCount BY <1>2 DEF OthersGrants
<1> QED BY <1>3, <1>4, WindowAssumption DEF MostInWindow

(* What all callers but one were granted is within OthersGrants.            *)
LEMMA OthersAreBounded ==
    ASSUME NEW f \in [WindowCallers -> 0..MaxCount], NEW c \in WindowCallers
    PROVE  /\ SumOver(f, WindowCallers) = f[c] + SumOver(f, WindowCallers \ {c})
           /\ SumOver(f, WindowCallers \ {c}) \in Nat
           /\ SumOver(f, WindowCallers \ {c}) <= OthersGrants
           /\ OthersGrants \in Int
<1> USE WindowAssumption
<1>1. PICK rest : rest = WindowCallers \ {c} OBVIOUS
<1>2. IsFiniteSet(rest) /\ rest \subseteq WindowCallers BY <1>1, FS_Subset
<1>3. \A x \in WindowCallers : f[x] \in Nat OBVIOUS
<1>4. SumOver(f, WindowCallers) = f[c] + SumOver(f, rest)
  BY <1>1, <1>3, SumWithout
<1>5. SumOver(f, rest) \in Nat BY <1>2, <1>3, SumIsNat
<1>6. SumOver(f, rest) <= Cardinality(rest) * MaxCount
  <2>1. \A x \in rest : f[x] \in 0..MaxCount BY <1>2
  <2> QED BY <1>2, <2>1, SumIsAtMost
<1>7. Cardinality(rest) = Cardinality(WindowCallers) - 1 /\ Cardinality(rest) \in Nat
  BY <1>1, <1>2, FS_RemoveElement, FS_CardinalityType
<1> QED BY <1>1, <1>4, <1>5, <1>6, <1>7 DEF OthersGrants

(* One caller's grant changes: the sum of all follows.                      *)
LEMMA GrantsChange ==
    ASSUME NEW f \in [WindowCallers -> 0..MaxCount], NEW c \in WindowCallers,
           NEW n \in 0..MaxCount
    PROVE  /\ [f EXCEPT ![c] = n] \in [WindowCallers -> 0..MaxCount]
           /\ SumOver([f EXCEPT ![c] = n], WindowCallers)
                = n + SumOver(f, WindowCallers \ {c})
<1>1. PICK g : g = [f EXCEPT ![c] = n] OBVIOUS
<1>2. g \in [WindowCallers -> 0..MaxCount] /\ g[c] = n
      /\ \A x \in WindowCallers \ {c} : g[x] = f[x]
  BY <1>1
<1>3. SumOver(g, WindowCallers) = g[c] + SumOver(g, WindowCallers \ {c})
  BY <1>2, OthersAreBounded
<1>4. SumOver(g, WindowCallers \ {c}) = SumOver(f, WindowCallers \ {c})
  <2>1. IsFiniteSet(WindowCallers \ {c}) BY WindowAssumption, FS_Subset
  <2> QED BY <1>2, <2>1, SumOfSame
<1> QED BY <1>1, <1>2, <1>3, <1>4

LEMMA WindowIsFinite ==
    ASSUME NEW end \in Int
    PROVE  /\ WindowTo(end) \subseteq WindowTicks
           /\ IsFiniteSet(WindowTo(end)) /\ IsFiniteSet(WindowTicks)
<1>1. IsFiniteSet(WindowTicks) BY WindowAssumption, FS_Interval DEF WindowTicks
<1>2. WindowTo(end) \subseteq WindowTicks BY DEF WindowTo
<1> QED BY <1>1, <1>2, FS_Subset

(* What the list holds of its window is what the history holds of it.       *)
LEMMA CountIsExact ==
    ASSUME WindowTypeOK, NothingAhead, NEW list \in [WindowTicks -> Nat],
           \A t \in WindowTicks :
               list[t] = IF t > windowClock - WindowSize THEN everAdded[t] ELSE 0
    PROVE  SumOver(list, WindowTicks) = SumOver(everAdded, WindowTo(windowClock))
<1> DEFINE W == WindowTo(windowClock)
           rest == WindowTicks \ W
<1>0. windowClock \in Int /\ WindowSize \in Nat /\ WindowTicks \subseteq Int
  BY WindowAssumption DEF WindowTypeOK, WindowTicks
<1>1. W \subseteq WindowTicks /\ IsFiniteSet(W) /\ IsFiniteSet(rest)
  BY <1>0, WindowIsFinite, FS_Difference
<1>2. SumOver(list, W \cup rest) = SumOver(list, W) + SumOver(list, rest)
  <2> HIDE DEF W
  <2> QED BY <1>1, SumOfParts
<1>3. W \cup rest = WindowTicks BY <1>1
<1>4. \A t \in rest : list[t] = 0
  <2> SUFFICES ASSUME NEW t \in rest PROVE list[t] = 0 OBVIOUS
  <2>1. t \in WindowTicks /\ ~ (windowClock - WindowSize < t /\ t <= windowClock)
    BY DEF WindowTo
  <2>2. CASE t > windowClock BY <1>0, <2>1, <2>2 DEF NothingAhead
  <2>3. CASE ~ (t > windowClock - WindowSize) BY <1>0, <2>1, <2>3
  <2> QED BY <1>0, <2>1, <2>2, <2>3
<1>5. SumOver(list, rest) = 0
  <2> HIDE DEF rest
  <2> QED BY <1>1, <1>4, SumOfZeros
<1>6. \A t \in W : list[t] = everAdded[t] BY <1>0 DEF WindowTo
<1>7. SumOver(list, W) = SumOver(everAdded, W)
  <2> HIDE DEF W
  <2> QED BY <1>1, <1>6, SumOfSame
<1>8. SumOver(list, W) \in Nat
  <2> HIDE DEF W
  <2> QED BY <1>1, SumIsNat
<1> QED BY <1>2, <1>3, <1>5, <1>7, <1>8

LEMMA WindowStarts == WindowInit => WindowInv
<1> SUFFICES ASSUME WindowInit PROVE WindowInv OBVIOUS
<1> USE WindowAssumption DEF WindowInit
<1>1. everAdded = [t \in WindowTicks |-> 0] /\ windowEvents = [t \in WindowTicks |-> 0]
  BY DEF NoEvents
<1>2. WindowTypeOK BY <1>1 DEF WindowTypeOK, WindowTicks
<1>3. NothingAhead /\ ListIsRecent BY <1>1 DEF NothingAhead, ListIsRecent
<1>4. MostInWindow \in Nat BY MostIsNat
<1>5. \A end \in Int : SumOver(everAdded, WindowTo(end)) = 0
  <2> SUFFICES ASSUME NEW end \in Int PROVE SumOver(everAdded, WindowTo(end)) = 0
    OBVIOUS
  <2>1. IsFiniteSet(WindowTo(end)) /\ WindowTo(end) \subseteq WindowTicks
    BY WindowIsFinite
  <2>2. \A t \in WindowTo(end) : everAdded[t] = 0 BY <1>1, <2>1
  <2> QED BY <2>1, <2>2, SumOfZeros
<1>6. SumOver(granted, WindowCallers) = 0 BY SumOfZeros
<1>7. GrantsFit BY <1>4, <1>5, <1>6 DEF GrantsFit
<1>8. WindowsHold BY <1>4, <1>5 DEF WindowsHold
<1> QED BY <1>2, <1>3, <1>7, <1>8 DEF WindowInv

LEMMA CanAddStep ==
    ASSUME WindowInv, NEW c \in WindowCallers, NEW n \in 1..MaxCount, CanAdd(c, n)
    PROVE  WindowInv'
<1> USE WindowAssumption DEF WindowInv
<1>0. /\ windowClock \in Int /\ WindowSize \in Nat /\ WindowTicks \subseteq Int
      /\ windowClock' = windowClock /\ everAdded' = everAdded /\ n \in Nat
  BY DEF CanAdd, WindowTypeOK, WindowTicks
<1>1. PICK list : list = windowEvents' OBVIOUS
<1>2. list = [t \in WindowTicks |->
                 IF t > windowClock - WindowSize THEN windowEvents[t] ELSE 0]
  BY <1>1 DEF CanAdd, Recent
<1>3. list \in [WindowTicks -> Nat] BY <1>2 DEF WindowTypeOK
<1>4. \A t \in WindowTicks :
          list[t] = IF t > windowClock - WindowSize THEN everAdded[t] ELSE 0
  BY <1>2 DEF ListIsRecent
<1>5. SumOver(list, WindowTicks) = SumOver(everAdded, WindowTo(windowClock))
  BY <1>3, <1>4, CountIsExact
<1>6. \/ /\ SumOver(list, WindowTicks) + n <= WindowLimit
         /\ granted' = [granted EXCEPT ![c] = n]
      \/ granted' = granted
  BY <1>1 DEF CanAdd, TotalOf, TotalIn, SumOver
<1>7. WindowTypeOK'
  <2>1. granted' \in [WindowCallers -> 0..MaxCount] BY <1>6 DEF WindowTypeOK
  <2> QED BY <1>0, <1>1, <1>3, <2>1 DEF WindowTypeOK
<1>8. NothingAhead' BY <1>0 DEF NothingAhead
<1>9. ListIsRecent' BY <1>0, <1>1, <1>4 DEF ListIsRecent
<1>10. GrantsFit'
  <2>1. CASE granted' = granted BY <1>0, <2>1 DEF GrantsFit
  <2>2. CASE /\ SumOver(list, WindowTicks) + n <= WindowLimit
             /\ granted' = [granted EXCEPT ![c] = n]
    <3>1. granted \in [WindowCallers -> 0..MaxCount] /\ n \in 0..MaxCount
      BY DEF WindowTypeOK
    <3>2. SumOver(granted', WindowCallers) = n + SumOver(granted, WindowCallers \ {c})
      BY <2>2, <3>1, GrantsChange
    <3>3. /\ SumOver(granted, WindowCallers \ {c}) \in Nat
          /\ SumOver(granted, WindowCallers \ {c}) <= OthersGrants
          /\ OthersGrants \in Int
      BY <3>1, OthersAreBounded
    <3>4. SumOver(everAdded, WindowTo(windowClock)) \in Int
      <4>1. WindowTo(windowClock) \subseteq WindowTicks
            /\ IsFiniteSet(WindowTo(windowClock))
        BY <1>0, WindowIsFinite
      <4>2. \A t \in WindowTo(windowClock) : everAdded[t] \in Nat
        BY <4>1 DEF WindowTypeOK
      <4> QED BY <4>1, <4>2, SumIsNat
    <3>5. SumOver(everAdded, WindowTo(windowClock)) + SumOver(granted', WindowCallers)
            <= MostInWindow
      BY <1>0, <1>5, <2>2, <3>2, <3>3, <3>4 DEF MostInWindow
    <3> QED BY <1>0, <3>5 DEF GrantsFit, MostInWindow
  <2> QED BY <1>6, <2>1, <2>2
<1>11. WindowsHold' BY <1>0 DEF WindowsHold, MostInWindow
<1> QED BY <1>7, <1>8, <1>9, <1>10, <1>11

LEMMA AddStep ==
    ASSUME WindowInv, NEW c \in WindowCallers, Add(c)
    PROVE  WindowInv'
<1> USE WindowAssumption DEF WindowInv
<1>0. /\ windowClock \in WindowTicks /\ windowClock \in Nat
      /\ WindowSize \in Nat \ {0} /\ WindowTicks \subseteq Int
      /\ windowClock' = windowClock
      /\ granted \in [WindowCallers -> 0..MaxCount] /\ granted[c] \in Nat
      /\ granted' = [granted EXCEPT ![c] = 0]
  BY DEF Add, WindowTypeOK, WindowTicks
<1>g. /\ SumOver(granted, WindowCallers) = granted[c] + SumOver(granted, WindowCallers \ {c})
      /\ SumOver(granted', WindowCallers) = 0 + SumOver(granted, WindowCallers \ {c})
      /\ granted' \in [WindowCallers -> 0..MaxCount]
      /\ SumOver(granted, WindowCallers \ {c}) \in Nat
      /\ MostInWindow \in Int
  <2>1. 0 \in 0..MaxCount OBVIOUS
  <2>2. granted' \in [WindowCallers -> 0..MaxCount] BY <1>0, <2>1, GrantsChange
  <2>3. SumOver(granted', WindowCallers) = 0 + SumOver(granted, WindowCallers \ {c})
    BY <1>0, <2>1, GrantsChange
  <2>4. /\ SumOver(granted, WindowCallers) = granted[c] + SumOver(granted, WindowCallers \ {c})
        /\ SumOver(granted, WindowCallers \ {c}) \in Nat
    BY <1>0, OthersAreBounded
  <2>5. MostInWindow \in Int BY MostIsNat
  <2> QED BY <2>2, <2>3, <2>4, <2>5
<1>1. PICK added : added = everAdded' OBVIOUS
<1>2. added = [everAdded EXCEPT ![windowClock] = @ + granted[c]] BY <1>1 DEF Add
<1>3. /\ added \in [WindowTicks -> Nat]
      /\ added[windowClock] = everAdded[windowClock] + granted[c]
      /\ \A t \in WindowTicks : t # windowClock => added[t] = everAdded[t]
  BY <1>0, <1>2 DEF WindowTypeOK
<1>4. windowEvents' =
          [t \in WindowTicks |->
              IF t > windowClock - WindowSize
              THEN [windowEvents EXCEPT ![windowClock] = @ + granted[c]][t] ELSE 0]
  BY DEF Add, Recent
<1>5. /\ windowEvents' \in [WindowTicks -> Nat]
      /\ \A t \in WindowTicks : t > windowClock - WindowSize => windowEvents'[t] = added[t]
  <2>1. \A t \in WindowTicks :
            [windowEvents EXCEPT ![windowClock] = @ + granted[c]][t] \in Nat
    BY <1>0 DEF WindowTypeOK
  <2>2. \A t \in WindowTicks : t > windowClock - WindowSize =>
            [windowEvents EXCEPT ![windowClock] = @ + granted[c]][t] = added[t]
    BY <1>0, <1>2 DEF WindowTypeOK, ListIsRecent
  <2> QED BY <1>4, <2>1, <2>2
<1>6. WindowTypeOK' BY <1>0, <1>g, <1>1, <1>3, <1>5 DEF WindowTypeOK
<1>7. NothingAhead' BY <1>0, <1>1, <1>3 DEF NothingAhead
<1>8. ListIsRecent' BY <1>0, <1>1, <1>5 DEF ListIsRecent
<1>10. ASSUME NEW end \in 0..windowClock
       PROVE  /\ SumOver(added, WindowTo(end)) <= MostInWindow
              /\ end = windowClock =>
                    SumOver(added, WindowTo(end)) + SumOver(granted', WindowCallers)
                        <= MostInWindow
  <2>0. end \in Int BY <1>0
  <2>1. PICK W : W = WindowTo(end) OBVIOUS
  <2>2. W \subseteq WindowTicks /\ IsFiniteSet(W) BY <2>0, <2>1, WindowIsFinite
  <2>3. CASE end # windowClock
    <3>1. windowClock \notin W BY <1>0, <2>1, <2>3 DEF WindowTo
    <3>2. \A t \in W : added[t] = everAdded[t] BY <1>3, <2>2, <3>1
    <3>3. SumOver(added, W) = SumOver(everAdded, W) BY <2>2, <3>2, SumOfSame
    <3>4. SumOver(everAdded, W) <= MostInWindow BY <2>1 DEF WindowsHold
    <3> QED BY <2>1, <2>3, <3>3, <3>4
  <2>4. CASE end = windowClock
    <3>1. windowClock \in W BY <1>0, <2>1, <2>4 DEF WindowTo
    <3>2. PICK V : V = W \ {windowClock} OBVIOUS
    <3>3. IsFiniteSet(V) BY <2>2, <3>2, FS_Difference
    <3>4. SumOver(added, W) = added[windowClock] + SumOver(added, V)
      <4>1. \A t \in W : added[t] \in Nat BY <1>3, <2>2
      <4> QED BY <2>2, <3>1, <3>2, <4>1, SumWithout
    <3>5. SumOver(everAdded, W) = everAdded[windowClock] + SumOver(everAdded, V)
      <4>1. \A t \in W : everAdded[t] \in Nat BY <2>2 DEF WindowTypeOK
      <4> QED BY <2>2, <3>1, <3>2, <4>1, SumWithout
    <3>6. SumOver(added, V) = SumOver(everAdded, V)
      <4>1. \A t \in V : added[t] = everAdded[t] BY <1>3, <2>2, <3>2
      <4> QED BY <3>3, <4>1, SumOfSame
    <3>7. SumOver(everAdded, V) \in Nat
      <4>1. \A t \in V : everAdded[t] \in Nat BY <2>2, <3>2 DEF WindowTypeOK
      <4> QED BY <3>3, <4>1, SumIsNat
    <3>8. everAdded[windowClock] \in Nat BY <1>0 DEF WindowTypeOK
    <3>9. SumOver(everAdded, W) + SumOver(granted, WindowCallers) <= MostInWindow
      BY <1>0, <2>1, <2>4 DEF GrantsFit
    <3> QED BY <1>0, <1>g, <1>3, <2>1, <3>4, <3>5, <3>6, <3>7, <3>8, <3>9
  <2> QED BY <2>3, <2>4
<1>9. GrantsFit'
  <2>1. windowClock \in 0..windowClock BY <1>0
  <2> QED BY <1>0, <1>1, <1>10, <2>1 DEF GrantsFit, MostInWindow
<1>11. WindowsHold' BY <1>0, <1>1, <1>10 DEF WindowsHold, MostInWindow
<1> QED BY <1>6, <1>7, <1>8, <1>9, <1>11

LEMMA WindowTickStep ==
    ASSUME WindowInv, WindowTick
    PROVE  WindowInv'
<1> USE WindowAssumption DEF WindowInv
<1>0. /\ windowClock \in Nat /\ WindowSize \in Nat \ {0} /\ WindowTicks \subseteq Int
      /\ windowClock' = windowClock + 1 /\ windowClock + 1 \in WindowTicks
      /\ windowEvents' = windowEvents /\ granted' = granted /\ everAdded' = everAdded
  BY DEF WindowTick, WindowTypeOK, WindowTicks
<1>1. PICK later \in Nat : later = windowClock + 1 BY <1>0
<1>2. SumOver(everAdded, WindowTo(later)) <= SumOver(everAdded, WindowTo(windowClock))
  <2>1. PICK W : W = WindowTo(windowClock) OBVIOUS
  <2>2. PICK V : V = W \cup {later} OBVIOUS
  <2>3. W \subseteq WindowTicks /\ IsFiniteSet(W) BY <1>0, <2>1, WindowIsFinite
  <2>4. V \subseteq WindowTicks /\ IsFiniteSet(V) /\ later \notin W
    BY <1>0, <1>1, <2>1, <2>2, <2>3, FS_AddElement DEF WindowTo
  <2>5. \A t \in V : everAdded[t] \in Nat BY <2>4 DEF WindowTypeOK
  <2>6. SumOver(everAdded, V) = everAdded[later] + SumOver(everAdded, W)
    BY <2>2, <2>3, <2>4, <2>5, SumWith
  <2>7. everAdded[later] = 0 BY <1>0, <1>1 DEF NothingAhead
  <2>8. WindowTo(later) \in SUBSET V
    <3> SUFFICES ASSUME NEW t \in WindowTo(later) PROVE t \in V OBVIOUS
    <3>1. t \in WindowTicks /\ t \in Int /\ later - WindowSize < t /\ t <= later
      BY <1>0 DEF WindowTo
    <3>2. t = later \/ t \in WindowTo(windowClock)
      <4>1. CASE t # later BY <1>0, <1>1, <3>1, <4>1 DEF WindowTo
      <4> QED BY <4>1
    <3> QED BY <2>1, <2>2, <3>2
  <2>9. SumOver(everAdded, WindowTo(later)) <= SumOver(everAdded, V)
    BY <2>4, <2>5, <2>8, SumIsMonotone
  <2>10. SumOver(everAdded, W) \in Nat
    <3>1. \A t \in W : everAdded[t] \in Nat BY <2>2, <2>5
    <3> QED BY <2>3, <3>1, SumIsNat
  <2> QED BY <2>1, <2>6, <2>7, <2>9, <2>10
<1>3. SumOver(everAdded, WindowTo(later)) \in Nat
   /\ SumOver(everAdded, WindowTo(windowClock)) \in Nat
  <2>1. ASSUME NEW end \in Int PROVE SumOver(everAdded, WindowTo(end)) \in Nat
    <3>1. WindowTo(end) \subseteq WindowTicks /\ IsFiniteSet(WindowTo(end))
      BY WindowIsFinite
    <3>2. \A t \in WindowTo(end) : everAdded[t] \in Nat BY <3>1 DEF WindowTypeOK
    <3> QED BY <3>1, <3>2, SumIsNat
  <2> QED BY <1>0, <2>1
<1>4. WindowTypeOK' BY <1>0 DEF WindowTypeOK
<1>5. NothingAhead' BY <1>0 DEF NothingAhead
<1>6. ListIsRecent' BY <1>0 DEF ListIsRecent
<1>g. SumOver(granted, WindowCallers) \in Nat /\ MostInWindow \in Int
  <2>1. \A c \in WindowCallers : granted[c] \in Nat BY DEF WindowTypeOK
  <2>2. SumOver(granted, WindowCallers) \in Nat BY <2>1, SumIsNat
  <2>3. MostInWindow \in Int BY MostIsNat
  <2> QED BY <2>2, <2>3
<1>7. GrantsFit'
  <2>1. SumOver(everAdded, WindowTo(later)) + SumOver(granted, WindowCallers)
          <= MostInWindow
    BY <1>g, <1>2, <1>3 DEF GrantsFit
  <2> QED BY <1>0, <1>1, <2>1 DEF GrantsFit, MostInWindow
<1>8. WindowsHold'
  <2>1. ASSUME NEW end \in 0..later
        PROVE  SumOver(everAdded, WindowTo(end)) <= MostInWindow
    <3>1. CASE end \in 0..windowClock BY <3>1 DEF WindowsHold
    <3>2. CASE end = later
      <4>1. windowClock \in 0..windowClock BY <1>0
      <4>2. SumOver(everAdded, WindowTo(windowClock)) <= MostInWindow
        BY <4>1 DEF WindowsHold
      <4> QED BY <1>g, <1>2, <1>3, <3>2, <4>2
    <3> QED BY <1>0, <1>1, <3>1, <3>2
  <2> QED BY <1>0, <1>1, <2>1 DEF WindowsHold, MostInWindow
<1> QED BY <1>4, <1>5, <1>6, <1>7, <1>8

(* However the events lie, and however long each user takes between can_add *)
(* and add, no window of window_size ticks ever held more than the limit    *)
(* and one grant of every other user.                                       *)
THEOREM EveryWindowHolds == WindowSpec => []WindowHolds
<1>1. WindowInit => WindowInv BY WindowStarts
<1>2. WindowInv /\ [WindowNext]_windowVars => WindowInv'
  <2>1. CASE UNCHANGED windowVars
    BY <2>1 DEF windowVars, WindowInv, WindowTypeOK, NothingAhead, ListIsRecent,
       GrantsFit, WindowsHold, MostInWindow
  <2> QED BY <2>1, CanAddStep, AddStep, WindowTickStep DEF WindowNext
<1>3. WindowInv => WindowHolds
  BY DEF WindowInv, WindowsHold, WindowHolds, WindowTo, SumOver, TotalIn, MostInWindow
<1> QED BY <1>1, <1>2, <1>3, PTL DEF WindowSpec

-----------------------------------------------------------------------------
(* The choice among the keys with room.                                     *)

(* Some member of a finite set costs least.                                 *)
LEMMA CheapestIsThere ==
    ASSUME NEW S, IsFiniteSet(S), S # {}, NEW f, \A x \in S : f[x] \in Int
    PROVE  \E x \in S : \A y \in S : f[x] <= f[y]
<1> DEFINE holds == {T \in SUBSET S : T = {} \/ \E x \in T : \A y \in T : f[x] <= f[y]}
<1>1. ASSUME NEW T \in SUBSET S, \A U \in SUBSET T : U # T => U \in holds
      PROVE  T \in holds
  <2>1. CASE T = {} BY <2>1
  <2>2. CASE T # {}
    <3>1. PICK x \in T : TRUE BY <2>2
    <3>2. T \ {x} \in holds BY <1>1, <3>1
    <3>3. f[x] <= f[x] BY <3>1
    <3>4. CASE T \ {x} = {}
      <4>1. \A y \in T : y = x BY <3>4
      <4>2. \A y \in T : f[x] <= f[y] BY <3>3, <4>1
      <4> QED BY <3>1, <4>2
    <3>5. CASE T \ {x} # {}
      <4>1. PICK m \in T \ {x} : \A y \in T \ {x} : f[m] <= f[y] BY <3>2, <3>5
      <4>2. f[x] \in Int /\ f[m] \in Int BY <3>1, <4>1
      <4>3. CASE f[x] <= f[m]
        <5>1. \A y \in T : f[x] <= f[y] BY <3>3, <4>1, <4>2, <4>3
        <5> QED BY <3>1, <5>1
      <4>4. CASE ~ (f[x] <= f[m])
        <5>1. \A y \in T : f[m] <= f[y] BY <4>1, <4>2, <4>4
        <5> QED BY <4>1, <5>1
      <4> QED BY <4>3, <4>4
    <3> QED BY <3>4, <3>5
  <2> QED BY <2>1, <2>2
<1> HIDE DEF holds
<1>2. S \in holds BY <1>1, SubsetInduction
<1> QED BY <1>2 DEF holds

LEMMA LeastIsThere ==
    ASSUME NEW S, IsFiniteSet(S), S \subseteq Int, S # {}
    PROVE  Min(S) \in S /\ \A y \in S : Min(S) <= y
<1> DEFINE f == [x \in S |-> x]
<1>1. \A x \in S : f[x] \in Int OBVIOUS
<1> HIDE DEF f
<1>2. \E x \in S : \A y \in S : f[x] <= f[y] BY <1>1, CheapestIsThere
<1>3. \E x \in S : \A y \in S : x <= y BY <1>2 DEF f
<1> QED BY <1>3 DEF Min

LEMMA CandidatesAreKeys ==
    /\ Len(Candidates) \in Nat /\ Available \subseteq 1..Len(Candidates)
    /\ IsFiniteSet(Available) /\ Available \subseteq Int
    /\ \A i \in Available : Candidates[i] \in CandidateKeys
<1>1. /\ Len(Candidates) \in Nat /\ DOMAIN Candidates = 1..Len(Candidates)
  BY KeyScoreAssumption
<1>2. Available \subseteq 1..Len(Candidates) BY <1>1 DEF Available
<1>3. IsFiniteSet(1..Len(Candidates)) BY <1>1, FS_Interval
<1>4. IsFiniteSet(Available) BY <1>2, <1>3, FS_Subset
<1>5. \A i \in Available : Candidates[i] \in CandidateKeys
  BY DEF Available, CandidateKeys, ToSet
<1> QED BY <1>1, <1>2, <1>4, <1>5

(* min(available, key=...) is the first of the least.                       *)
LEMMA FirstLeastIsFirst ==
    ASSUME NEW cost \in [CandidateKeys -> Int], Available # {}
    PROVE  \E first \in Available :
              /\ FirstLeast(cost) = Candidates[first]
              /\ \A i \in Available :
                    IF i < first THEN cost[Candidates[first]] < cost[Candidates[i]]
                                 ELSE cost[Candidates[first]] <= cost[Candidates[i]]
<1> DEFINE cheapest == {i \in Available : \A j \in Available :
                            cost[Candidates[i]] <= cost[Candidates[j]]}
<1>1. /\ IsFiniteSet(Available) /\ Available \subseteq Int
      /\ \A i \in Available : cost[Candidates[i]] \in Int
  BY CandidatesAreKeys
<1>2. PICK f : f = [i \in Available |-> cost[Candidates[i]]] OBVIOUS
<1>3. cheapest # {}
  <2>1. \A i \in Available : f[i] = cost[Candidates[i]] BY <1>2
  <2>2. \A i \in Available : f[i] \in Int BY <1>1, <2>1
  <2>3. \E i \in Available : \A j \in Available : f[i] <= f[j]
    BY <1>1, <2>2, CheapestIsThere
  <2> QED BY <2>1, <2>3
<1>4. PICK first : first = Min(cheapest) OBVIOUS
<1>5. first \in cheapest /\ \A i \in cheapest : first <= i
  <2>1. cheapest \subseteq Available BY DEF cheapest
  <2> HIDE DEF cheapest
  <2>2. IsFiniteSet(cheapest) BY <1>1, <2>1, FS_Subset
  <2> QED BY <1>1, <1>3, <1>4, <2>1, <2>2, LeastIsThere
<1>6. FirstLeast(cost) = Candidates[first] BY <1>4 DEF FirstLeast
<1>7. ASSUME NEW i \in Available
      PROVE  IF i < first THEN cost[Candidates[first]] < cost[Candidates[i]]
                          ELSE cost[Candidates[first]] <= cost[Candidates[i]]
  <2>1. cost[Candidates[first]] <= cost[Candidates[i]] BY <1>5
  <2>2. CASE i < first
    <3>1. i \notin cheapest BY <1>1, <1>5, <2>2
    <3>2. PICK j \in Available : ~ (cost[Candidates[i]] <= cost[Candidates[j]])
      BY <3>1
    <3>3. cost[Candidates[first]] <= cost[Candidates[j]] BY <1>5
    <3> QED BY <1>1, <1>5, <2>2, <3>2, <3>3
  <2> QED BY <2>1, <2>2
<1> QED BY <1>5, <1>6, <1>7

TrackersAreTyped ==
    /\ latency = [k \in CandidateKeys |-> latency[k]]
    /\ \A k \in CandidateKeys : latency[k].avg \in Nat /\ latency[k].samples \in Nat

ScoreTypeOK ==
    /\ strategy \in Strategies /\ clock \in Nat
    /\ used \in [CandidateKeys -> 0..Room]
    /\ lastUse \in [CandidateKeys -> 0..clock]
    /\ streak \in [CandidateKeys -> Nat]
    /\ passedBy \in [CandidateKeys -> [CandidateKeys -> Nat]]
    /\ TrackersAreTyped

(* A key that was passed by was used before the key that passed it.         *)
TurnsAreTaken ==
    strategy = "round_robin" =>
        \A j, k \in CandidateKeys :
            passedBy[j][k] = 0 \/ (passedBy[j][k] = 1 /\ lastUse[j] < lastUse[k])

ScoreInv == ScoreTypeOK /\ TurnsAreTaken

LEMMA RecordedIsTyped ==
    ASSUME NEW tr, tr.avg \in Nat, tr.samples \in Nat, NEW x \in Latencies
    PROVE  Recorded(tr, x).avg \in Nat /\ Recorded(tr, x).samples \in Nat
<1> USE LatencyAssumption
<1>1. PICK a \in Nat, n \in Nat : a = tr.avg /\ n = tr.samples OBVIOUS
<1>2. PICK y \in Nat : y = x * AvgScale
  <2>1. x \in Nat /\ AvgScale \in Nat OBVIOUS
  <2> QED BY <2>1
<1>3. y + 9 * a \in Nat OBVIOUS
<1>4. (y + 9 * a) \div 10 \in Nat BY <1>3
<1>5. /\ Recorded(tr, x).samples = n + 1
      /\ Recorded(tr, x).avg = IF a = 0 THEN y ELSE (y + 9 * a) \div 10
  BY <1>1, <1>2 DEF Recorded
<1> QED BY <1>4, <1>5

LEMMA ScoreStarts == ScoreInit => ScoreInv
<1> SUFFICES ASSUME ScoreInit PROVE ScoreInv OBVIOUS
<1> USE KeyScoreAssumption DEF ScoreInit
<1>1. NoTracker.avg \in Nat /\ NoTracker.samples \in Nat BY DEF NoTracker
<1>2. ASSUME NEW x \in Latencies
      PROVE  /\ Recorded(Recorded(NoTracker, x), x).avg \in Nat
             /\ Recorded(Recorded(NoTracker, x), x).samples \in Nat
  <2>1. PICK tr : tr = Recorded(NoTracker, x) OBVIOUS
  <2>2. tr.avg \in Nat /\ tr.samples \in Nat BY <1>1, <2>1, RecordedIsTyped
  <2> QED BY <2>1, <2>2, RecordedIsTyped
<1>3. \A tr \in Served : tr.avg \in Nat /\ tr.samples \in Nat
  BY <1>1, <1>2 DEF Served
<1>4. TrackersAreTyped BY <1>3 DEF TrackersAreTyped
<1>5. ScoreTypeOK BY <1>4 DEF ScoreTypeOK
<1>6. TurnsAreTaken
  <2>1. \A j, k \in CandidateKeys : passedBy[j][k] = 0 OBVIOUS
  <2> HIDE DEF ScoreInit
  <2> QED BY <2>1 DEF TurnsAreTaken
<1> QED BY <1>5, <1>6 DEF ScoreInv

-----------------------------------------------------------------------------
(* The score.                                                               *)

(* A share of a whole is no more than one.                                  *)
LEMMA ShareIsBounded ==
    ASSUME NEW n \in Nat, NEW whole \in Nat \ {0}, n <= whole, NEW u \in Nat
    PROVE  (n * u) \div whole \in 0..u
<1>1. PICK product \in Nat : product = n * u OBVIOUS
<1>2. product <= whole * u BY <1>1
<1>3. PICK q \in Nat : q = product \div whole OBVIOUS
<1>4. whole * q <= product BY <1>3
<1>5. ASSUME q > u PROVE FALSE
  <2>1. u + 1 <= q BY <1>5
  <2>2. whole * (u + 1) <= whole * q BY <2>1
  <2>3. whole * (u + 1) = whole * u + whole OBVIOUS
  <2>4. whole * u \in Nat /\ whole * q \in Nat /\ whole * (u + 1) \in Nat OBVIOUS
  <2> QED BY <1>2, <1>4, <2>2, <2>3, <2>4
<1> QED BY <1>1, <1>3, <1>5

LEMMA ComponentsAreShares ==
    ASSUME ScoreTypeOK, NEW k \in CandidateKeys
    PROVE  /\ Unit \in Nat
           /\ Utilization(k) \in 0..Unit /\ ErrorPenalty(k) \in 0..Unit
           /\ Freshness(k) \in 0..Unit /\ LatencyScore(k) \in 0..Unit
<1> USE KeyScoreAssumption, LatencyAssumption
<1>1. PICK u \in Nat : u = Unit BY DEF Unit
<1>2. ASSUME NEW n \in Int PROVE Clamped(n) \in 0..Unit BY <1>1 DEF Clamped
<1>3. Utilization(k) \in 0..Unit
  <2>1. used[k] \in Nat /\ used[k] <= Room BY DEF ScoreTypeOK
  <2> QED BY <1>1, <2>1, ShareIsBounded DEF Utilization
<1>4. ErrorPenalty(k) \in 0..Unit
  <2>1. streak[k] * u \in Nat BY DEF ScoreTypeOK
  <2>2. (streak[k] * u) \div 5 \in Int BY <2>1
  <2> QED BY <1>1, <1>2, <2>2 DEF ErrorPenalty
<1>5. Freshness(k) \in 0..Unit
  <2>1. PICK age \in Int : age = clock - lastUse[k] BY DEF ScoreTypeOK
  <2>2. PICK n \in Int : n = age * ClockStep * u OBVIOUS
  <2>3. u - n \div 60 \in Int BY <2>2
  <2> QED BY <1>1, <1>2, <2>1, <2>2, <2>3 DEF Freshness
<1>6. LatencyScore(k) \in 0..Unit
  <2>1. latency[k].avg - 100 * AvgScale \in Int
    <3>1. PICK avg \in Nat : avg = latency[k].avg BY DEF ScoreTypeOK, TrackersAreTyped
    <3>2. avg - 100 * AvgScale \in Int OBVIOUS
    <3> QED BY <3>1, <3>2
  <2>2. u \div 2 \in 0..u OBVIOUS
  <2> QED BY <1>1, <1>2, <2>1, <2>2 DEF LatencyScore
<1> QED BY <1>1, <1>3, <1>4, <1>5, <1>6

(* What a strategy compares.                                                *)
Cost(k) ==
    CASE strategy = "least_utilized" -> Utilization(k)
      [] strategy = "round_robin" -> lastUse[k]
      [] strategy = "latency_aware" -> LatencyOrUse(k)
      [] strategy = "balanced" -> BalancedScore(k)

LEMMA CostIsInt ==
    ASSUME ScoreTypeOK, NEW k \in CandidateKeys
    PROVE  Cost(k) \in Int
<1>1. /\ Utilization(k) \in Int /\ ErrorPenalty(k) \in Int
      /\ Freshness(k) \in Int /\ LatencyScore(k) \in Int
  BY ComponentsAreShares
<1>2. BalancedScore(k) \in Int BY <1>1 DEF BalancedScore
<1>3. PICK n \in Nat : n = used[k] BY DEF ScoreTypeOK
<1>4. n * 1000 * AvgScale \in Nat BY LatencyAssumption
<1>5. (n * 1000 * AvgScale) \div Room \in Int BY <1>4, KeyScoreAssumption
<1>6. LatencyOrUse(k) \in Int
  BY <1>3, <1>5 DEF LatencyOrUse, ScoreTypeOK, TrackersAreTyped
<1>7. lastUse[k] \in Int BY DEF ScoreTypeOK
<1> QED BY <1>1, <1>2, <1>6, <1>7 DEF Cost, ScoreTypeOK, Strategies

(* The chosen key has room, and of those with room it costs least.          *)
LEMMA ChosenIsCheapest ==
    ASSUME ScoreTypeOK, Available # {}
    PROVE  /\ Chosen \in CandidateKeys /\ used[Chosen] < Room
           /\ \A k \in CandidateKeys : used[k] < Room => Cost(Chosen) <= Cost(k)
<1>1. PICK cost : cost = [k \in CandidateKeys |-> Cost(k)] OBVIOUS
<1>2. cost \in [CandidateKeys -> Int] BY <1>1, CostIsInt
<1>3. Chosen = FirstLeast(cost)
  <2>1. CASE strategy = "least_utilized"
    <3>1. cost = [k \in CandidateKeys |-> Utilization(k)] BY <1>1, <2>1 DEF Cost
    <3> QED BY <2>1, <3>1 DEF Chosen
  <2>2. CASE strategy = "round_robin"
    <3>1. cost = [k \in CandidateKeys |-> lastUse[k]] BY <1>1, <2>2 DEF Cost
    <3>2. cost = lastUse BY <3>1 DEF ScoreTypeOK
    <3> QED BY <2>2, <3>2 DEF Chosen, Oldest
  <2>3. CASE strategy = "latency_aware"
    <3>1. cost = [k \in CandidateKeys |-> LatencyOrUse(k)] BY <1>1, <2>3 DEF Cost
    <3> QED BY <2>3, <3>1 DEF Chosen
  <2>4. CASE strategy = "balanced"
    <3>1. cost = [k \in CandidateKeys |-> BalancedScore(k)] BY <1>1, <2>4 DEF Cost
    <3> QED BY <2>4, <3>1 DEF Chosen
  <2> QED BY <2>1, <2>2, <2>3, <2>4 DEF ScoreTypeOK, Strategies
<1>4. PICK first \in Available :
          /\ Chosen = Candidates[first]
          /\ \A i \in Available : cost[Candidates[first]] <= cost[Candidates[i]]
  <2>1. PICK first \in Available :
            /\ FirstLeast(cost) = Candidates[first]
            /\ \A i \in Available :
                  IF i < first THEN cost[Candidates[first]] < cost[Candidates[i]]
                               ELSE cost[Candidates[first]] <= cost[Candidates[i]]
    BY <1>2, FirstLeastIsFirst
  <2>2. \A i \in Available : cost[Candidates[i]] \in Int BY <1>2, CandidatesAreKeys
  <2> QED BY <1>3, <2>1, <2>2
<1>5. Chosen \in CandidateKeys /\ used[Chosen] < Room
  BY <1>4, CandidatesAreKeys DEF Available
<1>6. ASSUME NEW k \in CandidateKeys, used[k] < Room
      PROVE  Cost(Chosen) <= Cost(k)
  <2>1. PICK i \in Available : k = Candidates[i]
    BY <1>6 DEF CandidateKeys, ToSet, Available
  <2> QED BY <1>1, <1>4, <1>5, <2>1
<1> QED BY <1>5, <1>6

-----------------------------------------------------------------------------
(* A key that beats another costs less.                                     *)

LEMMA ProductsGrow ==
    ASSUME NEW a \in Int, NEW b \in Int, a <= b, NEW c \in Nat
    PROVE  a * c \in Int /\ b * c \in Int /\ a * c <= b * c
OBVIOUS

LEMMA MultiplesGrow ==
    ASSUME NEW a \in Int, NEW b \in Int, a <= b, NEW c \in Nat
    PROVE  \E p \in Int, q \in Int : p = a * c /\ q = b * c /\ p <= q
BY ProductsGrow

LEMMA QuotientsGrow ==
    ASSUME NEW a \in Int, NEW b \in Int, a <= b, NEW d \in Nat \ {0}
    PROVE  a \div d \in Int /\ b \div d \in Int /\ a \div d <= b \div d
<1>1. PICK p \in Int, q \in Int : p = a \div d /\ q = b \div d OBVIOUS
<1>2. d * p <= a /\ b < d * (q + 1) BY <1>1
<1>3. ASSUME p > q PROVE FALSE
  <2>1. d * (q + 1) <= d * p BY <1>3
  <2>2. d * (q + 1) \in Int /\ d * p \in Int OBVIOUS
  <2> QED BY <1>2, <2>1, <2>2
<1> QED BY <1>1, <1>3

(* Shares of a whole no finer than the unit are told apart.                 *)
LEMMA SharesDiffer ==
    ASSUME NEW m \in Nat, NEW n \in Nat, m < n,
           NEW whole \in Nat \ {0}, NEW u \in Nat, whole <= u
    PROVE  (m * u) \div whole < (n * u) \div whole
<1>1. PICK a \in Nat, b \in Nat : a = m * u /\ b = n * u OBVIOUS
<1>2. a + whole <= b
  <2>1. (m + 1) * u <= n * u BY m + 1 <= n, ProductsGrow
  <2>2. (m + 1) * u = m * u + u OBVIOUS
  <2> QED BY <1>1, <2>1, <2>2
<1>3. (a + whole) \div whole <= b \div whole BY <1>2, QuotientsGrow
<1>4. (a + whole) \div whole = a \div whole + 1 OBVIOUS
<1>5. a \div whole \in Int /\ b \div whole \in Int OBVIOUS
<1> QED BY <1>1, <1>3, <1>4, <1>5

LEMMA ClampedGrows ==
    ASSUME NEW a \in Int, NEW b \in Int, a <= b
    PROVE  Clamped(a) <= Clamped(b)
<1>1. PICK u \in Nat : u = Unit BY LatencyAssumption DEF Unit
<1> QED BY <1>1 DEF Clamped

LEMMA BetterCostsLess ==
    ASSUME ScoreTypeOK, NEW j \in CandidateKeys, NEW k \in CandidateKeys, Beats(j, k)
    PROVE  Cost(j) < Cost(k)
<1> USE KeyScoreAssumption, LatencyAssumption
<1>1. PICK u \in Nat : u = Unit /\ Room <= u
  <2>1. Unit \in Nat /\ 1000 * AvgScale <= Unit /\ 1000 * AvgScale \in Nat BY DEF Unit
  <2> QED BY <2>1
<1>2. /\ used[j] \in Nat /\ used[k] \in Nat /\ used[j] < used[k]
      /\ lastUse[j] \in Int /\ lastUse[k] \in Int /\ lastUse[j] < lastUse[k]
      /\ streak[j] \in Nat /\ streak[k] \in Nat /\ streak[j] <= streak[k]
      /\ latency[j].avg \in Nat /\ latency[k].avg \in Nat /\ clock \in Int
  BY DEF Beats, ScoreTypeOK, TrackersAreTyped
<1>2a. PICK sj \in Nat, sk \in Nat : sj = latency[j].samples /\ sk = latency[k].samples
  BY DEF ScoreTypeOK, TrackersAreTyped
<1>3. Utilization(j) < Utilization(k) BY <1>1, <1>2, SharesDiffer DEF Utilization
<1>4. ErrorPenalty(j) <= ErrorPenalty(k)
  <2>1. PICK m \in Int, n \in Int : m = streak[j] /\ n = streak[k] /\ m <= n
    BY <1>2
  <2>2. PICK a \in Int, b \in Int : a = m * u /\ b = n * u /\ a <= b
    BY <2>1, MultiplesGrow
  <2>3. PICK five \in Nat \ {0} : five = 5 OBVIOUS
  <2>4. PICK c \in Int, d \in Int : c = a \div five /\ d = b \div five /\ c <= d
    BY <2>2, QuotientsGrow
  <2>5. ErrorPenalty(j) = Clamped(c) /\ ErrorPenalty(k) = Clamped(d)
    BY <1>1, <2>1, <2>2, <2>3, <2>4 DEF ErrorPenalty
  <2> QED BY <2>4, <2>5, ClampedGrows
<1>5. Freshness(j) <= Freshness(k)
  <2>1. PICK a \in Int, b \in Int :
            a = (clock - lastUse[k]) * ClockStep /\ b = (clock - lastUse[j]) * ClockStep
            /\ a <= b
    <3>1. PICK p \in Int, q \in Int :
              p = clock - lastUse[k] /\ q = clock - lastUse[j] /\ p <= q
      BY <1>2
    <3>2. ClockStep \in Nat OBVIOUS
    <3> QED BY <3>1, <3>2, MultiplesGrow
  <2>2. PICK c \in Int, d \in Int : c = a * u /\ d = b * u /\ c <= d
    BY <1>1, <2>1, MultiplesGrow
  <2>3. PICK e \in Int, f \in Int : e = c \div 60 /\ f = d \div 60 /\ e <= f
    BY <2>2, QuotientsGrow
  <2>4. Clamped(u - f) <= Clamped(u - e) BY <2>3, u - f <= u - e, ClampedGrows
  <2>5. Freshness(j) = Clamped(u - f) /\ Freshness(k) = Clamped(u - e)
    BY <1>1, <2>1, <2>2, <2>3 DEF Freshness
  <2> QED BY <2>4, <2>5
<1>6. LatencyScore(j) <= LatencyScore(k)
  <2>1. CASE latency[j].samples < 3 /\ latency[k].samples < 3
    <3>1. ~ (latency[j].samples >= 3) /\ ~ (latency[k].samples >= 3)
      BY <1>2a, <2>1
    <3>2. u \div 2 \in Int OBVIOUS
    <3> QED BY <1>1, <3>1, <3>2 DEF LatencyScore
  <2>2. CASE /\ latency[j].samples >= 3 /\ latency[k].samples >= 3
             /\ latency[j].avg < latency[k].avg
    <3>1. PICK a \in Int, b \in Int :
              a = latency[j].avg - 100 * AvgScale /\ b = latency[k].avg - 100 * AvgScale
              /\ a <= b
      BY <1>2, <2>2
    <3>2. Clamped(a) <= Clamped(b) BY <3>1, ClampedGrows
    <3> QED BY <2>2, <3>1, <3>2 DEF LatencyScore
  <2> QED BY <2>1, <2>2 DEF Beats
<1>7. BalancedScore(j) < BalancedScore(k)
  <2>1. /\ Utilization(j) \in Int /\ ErrorPenalty(j) \in Int
        /\ Freshness(j) \in Int /\ LatencyScore(j) \in Int
        /\ Utilization(k) \in Int /\ ErrorPenalty(k) \in Int
        /\ Freshness(k) \in Int /\ LatencyScore(k) \in Int
    BY ComponentsAreShares
  <2>2. PICK a \in Int, b \in Int, c \in Int, d \in Int :
            /\ a = Utilization(j) /\ b = ErrorPenalty(j)
            /\ c = Freshness(j) /\ d = LatencyScore(j)
    BY <2>1
  <2>3. PICK e \in Int, f \in Int, g \in Int, h \in Int :
            /\ e = Utilization(k) /\ f = ErrorPenalty(k)
            /\ g = Freshness(k) /\ h = LatencyScore(k)
    BY <2>1
  <2>4. a < e /\ b <= f /\ c <= g /\ d <= h BY <1>3, <1>4, <1>5, <1>6, <2>2, <2>3
  <2>5. 40 * a + 15 * b + 10 * c + 35 * d < 40 * e + 15 * f + 10 * g + 35 * h BY <2>4
  <2> QED BY <2>2, <2>3, <2>5 DEF BalancedScore
<1>8. LatencyOrUse(j) < LatencyOrUse(k)
  <2>1. CASE latency[j].samples < 3 /\ latency[k].samples < 3
    <3>1. PICK v \in Nat : v = 1000 * AvgScale /\ Room <= v OBVIOUS
    <3>2. (used[j] * v) \div Room < (used[k] * v) \div Room
      <4>1. PICK m \in Nat, n \in Nat : m = used[j] /\ n = used[k] /\ m < n BY <1>2
      <4>2. PICK r \in Nat \ {0} : r = Room /\ r <= v BY <3>1
      <4> HIDE KeyScoreAssumption, LatencyAssumption
      <4>3. (m * v) \div r < (n * v) \div r BY <4>1, <4>2, SharesDiffer
      <4> QED BY <4>1, <4>2, <4>3
    <3>3. used[j] * v = used[j] * 1000 * AvgScale /\ used[k] * v = used[k] * 1000 * AvgScale
      BY <1>2, <3>1
    <3> QED BY <2>1, <3>2, <3>3 DEF LatencyOrUse
  <2>2. CASE /\ latency[j].samples >= 3 /\ latency[k].samples >= 3
             /\ latency[j].avg < latency[k].avg
    <3>1. ~ (latency[j].samples < 3) /\ ~ (latency[k].samples < 3)
      BY <1>2a, <2>2
    <3> QED BY <2>2, <3>1 DEF LatencyOrUse
  <2> QED BY <2>1, <2>2 DEF Beats
<1> QED BY <1>2, <1>3, <1>7, <1>8 DEF Cost, ScoreTypeOK, Strategies

LEMMA NoWorseChosen == ScoreTypeOK => NoWorseKeyChosen
<1> SUFFICES ASSUME ScoreTypeOK, Available # {}, NEW j \in CandidateKeys, Beats(j, Chosen)
             PROVE  FALSE
  BY DEF NoWorseKeyChosen
<1>1. PICK c \in CandidateKeys : c = Chosen /\ used[c] < Room BY ChosenIsCheapest
<1>2. Cost(j) < Cost(c) /\ Cost(j) \in Int /\ Cost(c) \in Int
  BY <1>1, BetterCostsLess, CostIsInt
<1>3. used[j] < Room
  <2>1. used[j] < used[c] /\ used[j] \in Int /\ used[c] \in Int
    BY <1>1 DEF Beats, ScoreTypeOK
  <2> QED BY <1>1, <2>1, KeyScoreAssumption
<1>4. Cost(c) <= Cost(j) BY <1>1, <1>3, ChosenIsCheapest
<1> QED BY <1>2, <1>4

-----------------------------------------------------------------------------
(* The turns.                                                               *)

LEMMA ChosenHasRoom ==
    ASSUME ScoreTypeOK, Available # {}
    PROVE  /\ Chosen \in CandidateKeys /\ used[Chosen] < Room
           /\ strategy = "round_robin" =>
                 \A k \in CandidateKeys : used[k] < Room => lastUse[Chosen] <= lastUse[k]
BY ChosenIsCheapest DEF Cost

LEMMA UseKeyStep ==
    ASSUME ScoreInv, UseKey
    PROVE  ScoreInv'
<1> USE KeyScoreAssumption
<1>1. PICK c : c = Chosen OBVIOUS
<1>2. /\ c \in CandidateKeys /\ used[c] < Room
      /\ strategy = "round_robin" =>
            \A k \in CandidateKeys : used[k] < Room => lastUse[c] <= lastUse[k]
  BY <1>1, ChosenHasRoom DEF ScoreInv, UseKey
<1>3. /\ clock \in Nat /\ clock' = clock + 1
      /\ used' = [used EXCEPT ![c] = @ + 1]
      /\ lastUse' = [lastUse EXCEPT ![c] = clock']
      /\ UNCHANGED <<strategy, streak, latency>>
      /\ passedBy' = [j \in CandidateKeys |->
                         IF j = c \/ ~ (used'[j] < Room)
                         THEN [k \in CandidateKeys |-> 0]
                         ELSE [passedBy[j] EXCEPT ![c] = @ + 1]]
  BY <1>1 DEF UseKey, Advance, ScoreInv, ScoreTypeOK
<1>4. ScoreTypeOK'
  <2>1. used' \in [CandidateKeys -> 0..Room]
    <3>1. used[c] + 1 \in 0..Room BY <1>2 DEF ScoreInv, ScoreTypeOK
    <3> QED BY <1>3, <3>1 DEF ScoreInv, ScoreTypeOK
  <2>2. lastUse' \in [CandidateKeys -> 0..clock']
    <3>1. \A k \in CandidateKeys : lastUse[k] \in 0..(clock + 1)
      BY <1>3 DEF ScoreInv, ScoreTypeOK
    <3>2. clock + 1 \in 0..(clock + 1) BY <1>3
    <3> QED BY <1>3, <3>1, <3>2 DEF ScoreInv, ScoreTypeOK
  <2>3. passedBy' \in [CandidateKeys -> [CandidateKeys -> Nat]]
    <3>1. ASSUME NEW j \in CandidateKeys
          PROVE  [passedBy[j] EXCEPT ![c] = @ + 1] \in [CandidateKeys -> Nat]
      BY <1>2 DEF ScoreInv, ScoreTypeOK
    <3> QED BY <1>3, <3>1
  <2>4. TrackersAreTyped' BY <1>3 DEF ScoreInv, ScoreTypeOK, TrackersAreTyped
  <2> QED BY <1>3, <2>1, <2>2, <2>3, <2>4 DEF ScoreInv, ScoreTypeOK
<1>5. TurnsAreTaken'
  <2> SUFFICES ASSUME strategy = "round_robin",
                      NEW j \in CandidateKeys, NEW k \in CandidateKeys
               PROVE  \/ passedBy'[j][k] = 0
                      \/ passedBy'[j][k] = 1 /\ lastUse'[j] < lastUse'[k]
    BY <1>3 DEF TurnsAreTaken
  <2>1. CASE j = c \/ ~ (used'[j] < Room) BY <1>3, <2>1
  <2>2. CASE j # c /\ used'[j] < Room
    <3>1. used[j] < Room /\ lastUse'[j] = lastUse[j]
      BY <1>2, <1>3, <2>2 DEF ScoreInv, ScoreTypeOK
    <3>2. lastUse[j] \in 0..clock /\ lastUse[c] \in 0..clock
      BY <1>2 DEF ScoreInv, ScoreTypeOK
    <3>3. lastUse[c] <= lastUse[j] BY <1>2, <3>1
    <3>4. \A l \in CandidateKeys :
             passedBy[j][l] = 0 \/ (passedBy[j][l] = 1 /\ lastUse[j] < lastUse[l])
      BY DEF ScoreInv, TurnsAreTaken
    <3>5. passedBy'[j] = [passedBy[j] EXCEPT ![c] = @ + 1] BY <1>3, <2>2
    <3>6. passedBy[j] \in [CandidateKeys -> Nat] BY DEF ScoreInv, ScoreTypeOK
    <3>7. CASE k = c
      <4>1. passedBy[j][c] = 0 BY <1>2, <3>2, <3>3, <3>4
      <4>2. passedBy'[j][k] = 1 BY <1>2, <3>5, <3>6, <3>7, <4>1
      <4>3. lastUse'[k] = clock + 1 BY <1>2, <1>3, <3>7 DEF ScoreInv, ScoreTypeOK
      <4> QED BY <1>3, <3>1, <3>2, <4>2, <4>3
    <3>8. CASE k # c
      <4>1. passedBy'[j][k] = passedBy[j][k] BY <3>5, <3>6, <3>8
      <4>2. lastUse'[k] = lastUse[k] BY <1>3, <3>8 DEF ScoreInv, ScoreTypeOK
      <4> QED BY <3>1, <3>4, <4>1, <4>2
    <3> QED BY <3>7, <3>8
  <2> QED BY <2>1, <2>2
<1> QED BY <1>4, <1>5 DEF ScoreInv

LEMMA AnsweredStep ==
    ASSUME ScoreInv, NEW k \in CandidateKeys, Answered(k)
    PROVE  ScoreInv'
<1>1. /\ clock \in Nat /\ clock' = clock + 1
      /\ UNCHANGED <<strategy, used, lastUse, passedBy>>
  BY DEF Answered, Advance, ScoreInv, ScoreTypeOK
<1>2. streak' \in [CandidateKeys -> Nat]
  BY DEF Answered, ScoreInv, ScoreTypeOK
<1>3. TrackersAreTyped'
  <2> TrackersAreTyped BY DEF ScoreInv, ScoreTypeOK
  <2>1. CASE UNCHANGED latency BY <2>1 DEF TrackersAreTyped
  <2>2. CASE \E x \in Latencies : latency' = [latency EXCEPT ![k] = Recorded(@, x)]
    <3>1. PICK x \in Latencies : latency' = [latency EXCEPT ![k] = Recorded(@, x)]
      BY <2>2
    <3>2. PICK tr : tr = Recorded(latency[k], x) OBVIOUS
    <3>3. tr.avg \in Nat /\ tr.samples \in Nat
      BY <3>2, RecordedIsTyped DEF TrackersAreTyped
    <3>4. latency' = [l \in CandidateKeys |-> IF l = k THEN tr ELSE latency[l]]
      <4>1. DOMAIN latency = CandidateKeys BY DEF TrackersAreTyped
      <4> QED BY <3>1, <3>2, <4>1
    <3> QED BY <3>3, <3>4 DEF TrackersAreTyped
  <2> QED BY <2>1, <2>2 DEF Answered
<1>4. lastUse \in [CandidateKeys -> 0..(clock + 1)]
  BY <1>1 DEF ScoreInv, ScoreTypeOK
<1>5. ScoreTypeOK' BY <1>1, <1>2, <1>3, <1>4 DEF ScoreInv, ScoreTypeOK
<1>6. TurnsAreTaken' BY <1>1 DEF ScoreInv, TurnsAreTaken
<1> QED BY <1>5, <1>6 DEF ScoreInv

LEMMA ScoreSteps == ScoreInv /\ [ScoreNext]_scoreVars => ScoreInv'
<1> SUFFICES ASSUME ScoreInv, [ScoreNext]_scoreVars PROVE ScoreInv' OBVIOUS
<1>1. CASE UNCHANGED scoreVars
  BY <1>1 DEF scoreVars, ScoreInv, ScoreTypeOK, TrackersAreTyped, TurnsAreTaken
<1> QED BY <1>1, UseKeyStep, AnsweredStep DEF ScoreNext

(* No strategy passes over a key that beats the one it chooses.             *)
THEOREM BetterKeysAreNotPassedOver == ScoreSpec => []NoWorseKeyChosen
<1>1. ScoreInv => NoWorseKeyChosen BY NoWorseChosen DEF ScoreInv
<1> QED BY <1>1, ScoreStarts, ScoreSteps, PTL DEF ScoreSpec

(* round_robin takes turns: while a key has room, no other is used twice    *)
(* before it.                                                               *)
THEOREM RoundRobinTakesTurns == ScoreSpec => []RoundRobinFair
<1>1. ScoreInv => RoundRobinFair BY DEF ScoreInv, TurnsAreTaken, RoundRobinFair
<1> QED BY <1>1, ScoreStarts, ScoreSteps, PTL DEF ScoreSpec

-----------------------------------------------------------------------------
(* The server's choice of a key.                                            *)

SelectionTypeOK ==
    /\ keyTpm \in [ServerKeys -> Int] /\ keyRpm \in [ServerKeys -> Int]
    /\ lastRequest \in [ServerKeys -> Int] /\ selectionClock \in Int
    /\ request \in Nat

LEMMA PlacesAreKeys ==
    /\ Len(KeyOrder) \in Nat /\ KeyIndices = 1..Len(KeyOrder)
    /\ IsFiniteSet(KeyIndices) /\ KeyIndices \subseteq Int
    /\ \A i \in KeyIndices : KeyOrder[i] \in ServerKeys /\ KeyOrder[i] # NoKey
    /\ \A k \in ServerKeys : \E i \in KeyIndices : KeyOrder[i] = k
<1>1. Len(KeyOrder) \in Nat /\ KeyIndices = 1..Len(KeyOrder)
  BY KeySelectionAssumption DEF KeyIndices
<1>2. IsFiniteSet(KeyIndices) /\ KeyIndices \subseteq Int BY <1>1, FS_Interval
<1>3. /\ \A i \in KeyIndices : KeyOrder[i] \in ServerKeys
      /\ \A k \in ServerKeys : \E i \in KeyIndices : KeyOrder[i] = k
  BY DEF KeyIndices, ServerKeys, ToSet
<1> QED BY <1>1, <1>2, <1>3, KeySelectionAssumption

(* An order in which any two keys compare.                                  *)
Compares(order) ==
    /\ \A j, k \in ServerKeys : <<j, k>> \in order \/ <<k, j>> \in order
    /\ \A j, k, l \in ServerKeys :
          <<j, k>> \in order /\ <<k, l>> \in order => <<j, l>> \in order

Leasts(places, order) ==
    {i \in places : \A j \in places : <<KeyOrder[i], KeyOrder[j]>> \in order}

IsFirst(f, places, order) ==
    /\ f \in Leasts(places, order)
    /\ \A j \in places : j < f => <<KeyOrder[j], KeyOrder[f]>> \notin order

LEMMA SomeIsLeast ==
    ASSUME NEW order, Compares(order), NEW places \in SUBSET KeyIndices, places # {}
    PROVE  Leasts(places, order) # {}
<1> DEFINE holds == {T \in SUBSET places : T = {} \/ Leasts(T, order) # {}}
<1>1. ASSUME NEW T \in SUBSET places, \A U \in SUBSET T : U # T => U \in holds
      PROVE  T \in holds
  <2>1. CASE T = {} BY <2>1
  <2>2. CASE T # {}
    <3>1. PICK x \in T : TRUE BY <2>2
    <3>2. T \ {x} \in holds BY <1>1, <3>1
    <3>3. \A i \in T : KeyOrder[i] \in ServerKeys BY PlacesAreKeys
    <3>4. <<KeyOrder[x], KeyOrder[x]>> \in order BY <3>1, <3>3 DEF Compares
    <3>5. CASE T \ {x} = {}
      <4>1. \A y \in T : y = x BY <3>5
      <4>2. x \in Leasts(T, order) BY <3>1, <3>4, <4>1 DEF Leasts
      <4> QED BY <4>2
    <3>6. CASE T \ {x} # {}
      <4>1. PICK m \in Leasts(T \ {x}, order) : TRUE BY <3>2, <3>6
      <4>2. m \in T /\ \A y \in T \ {x} : <<KeyOrder[m], KeyOrder[y]>> \in order
        BY <4>1 DEF Leasts
      <4>3. CASE <<KeyOrder[m], KeyOrder[x]>> \in order
        <5>1. m \in Leasts(T, order) BY <4>2, <4>3 DEF Leasts
        <5> QED BY <5>1
      <4>4. CASE <<KeyOrder[x], KeyOrder[m]>> \in order
        <5>1. \A y \in T : <<KeyOrder[x], KeyOrder[y]>> \in order
          BY <3>1, <3>3, <3>4, <4>2, <4>4 DEF Compares
        <5>2. x \in Leasts(T, order) BY <3>1, <5>1 DEF Leasts
        <5> QED BY <5>2
      <4> QED BY <3>1, <3>3, <4>2, <4>3, <4>4 DEF Compares
    <3> QED BY <3>5, <3>6
  <2> QED BY <2>1, <2>2
<1> HIDE DEF holds
<1>2. IsFiniteSet(places) BY PlacesAreKeys, FS_Subset
<1>3. places \in holds BY <1>1, <1>2, SubsetInduction
<1> QED BY <1>3 DEF holds

(* min(keys, key=...) is the first of the least,                            *)
LEMMA FirstIsFound ==
    ASSUME NEW order, Compares(order), NEW places \in SUBSET KeyIndices, places # {}
    PROVE  \E f \in places : /\ IsFirst(f, places, order)
                             /\ FirstLeastOf(places, order) = KeyOrder[f]
<1> DEFINE least == Leasts(places, order)
<1>1. least \subseteq places BY DEF Leasts
<1>2. IsFiniteSet(least) /\ least \subseteq Int BY <1>1, PlacesAreKeys, FS_Subset
<1>3. PICK f : f = Min(least) OBVIOUS
<1>4. f \in least /\ \A i \in least : f <= i
  <2> HIDE DEF least
  <2> QED BY <1>2, <1>3, SomeIsLeast, LeastIsThere DEF least
<1>5. ASSUME NEW j \in places, j < f, <<KeyOrder[j], KeyOrder[f]>> \in order
      PROVE  FALSE
  <2>1. \A i \in places : <<KeyOrder[f], KeyOrder[i]>> \in order BY <1>4 DEF Leasts
  <2>2. j \in least
    BY <1>1, <1>4, <1>5, <2>1, PlacesAreKeys DEF Compares, Leasts
  <2>3. f <= j BY <1>4, <2>2
  <2>4. f \in Int /\ j \in Int BY <1>1, <1>4, PlacesAreKeys
  <2> QED BY <1>5, <2>3, <2>4
<1>6. FirstLeastOf(places, order) = KeyOrder[f] BY <1>3 DEF FirstLeastOf, Leasts
<1> QED BY <1>1, <1>4, <1>5, <1>6 DEF IsFirst

(* of which there is one.                                                   *)
LEMMA FirstIsUnique ==
    ASSUME NEW order, Compares(order), NEW places \in SUBSET KeyIndices,
           NEW f, IsFirst(f, places, order)
    PROVE  FirstLeastOf(places, order) = KeyOrder[f]
<1>1. f \in places BY DEF IsFirst, Leasts
<1>2. PICK g \in places : /\ IsFirst(g, places, order)
                          /\ FirstLeastOf(places, order) = KeyOrder[g]
  BY <1>1, FirstIsFound
<1>3. f \in Int /\ g \in Int BY <1>1, PlacesAreKeys
<1>4. ~ (f < g) /\ ~ (g < f) BY <1>1, <1>2 DEF IsFirst, Leasts
<1> QED BY <1>2, <1>3, <1>4

-----------------------------------------------------------------------------
(* A walk that keeps the best so far ends with the first of the least.      *)

PlacesTo(places, i) == {j \in places : j <= i}
BestTo(places, order, i) ==
    IF PlacesTo(places, i) = {} THEN NoKey ELSE FirstLeastOf(PlacesTo(places, i), order)

LEMMA WalkStep ==
    ASSUME NEW order, Compares(order), NEW places \in SUBSET KeyIndices, NEW i \in KeyIndices
    PROVE  BestTo(places, order, i) =
             IF i \in places /\ Better(order, KeyOrder[i], BestTo(places, order, i - 1))
             THEN KeyOrder[i] ELSE BestTo(places, order, i - 1)
<1> DEFINE before == PlacesTo(places, i - 1)
           upto == PlacesTo(places, i)
<1>1. i \in Int /\ \A j \in places : j \in Int BY PlacesAreKeys
<1>5. \A j \in places : (j <= i - 1 <=> j < i) /\ (j <= i <=> j < i \/ j = i)
  BY <1>1
<1>2. before \in SUBSET KeyIndices /\ upto \in SUBSET KeyIndices BY DEF PlacesTo
<1>3. CASE i \notin places
  <2>1. upto = before BY <1>3, <1>5 DEF PlacesTo
  <2> QED BY <1>3, <2>1 DEF BestTo
<1>4. CASE i \in places
  <2>1. upto = before \cup {i} /\ \A j \in before : j < i
    <3>1. \A j \in before : j \in places /\ j < i BY <1>5 DEF PlacesTo
    <3>2. \A j : j \in upto <=> j \in before \/ j = i BY <1>1, <1>4, <1>5 DEF PlacesTo
    <3> HIDE DEF before, upto
    <3> QED BY <3>1, <3>2
  <2>2. KeyOrder[i] \in ServerKeys /\ \A j \in before : KeyOrder[j] \in ServerKeys
    BY <1>2, PlacesAreKeys
  <2>3. <<KeyOrder[i], KeyOrder[i]>> \in order BY <2>2 DEF Compares
  <2>4. ASSUME IsFirst(i, upto, order) PROVE BestTo(places, order, i) = KeyOrder[i]
    BY <1>2, <2>1, <2>4, FirstIsUnique DEF BestTo
  <2>5. CASE before = {}
    <3>1. IsFirst(i, upto, order) BY <1>1, <2>1, <2>3, <2>5 DEF IsFirst, Leasts
    <3> QED BY <1>4, <2>4, <2>5, <3>1 DEF BestTo, Better
  <2>6. CASE before # {}
    <3>1. PICK f \in before : /\ IsFirst(f, before, order)
                              /\ BestTo(places, order, i - 1) = KeyOrder[f]
      BY <1>2, <2>6, FirstIsFound DEF BestTo
    <3>2. /\ KeyOrder[f] # NoKey /\ f < i
          /\ \A j \in before : <<KeyOrder[f], KeyOrder[j]>> \in order
      BY <1>2, <2>1, <3>1, PlacesAreKeys DEF IsFirst, Leasts
    <3>3. CASE <<KeyOrder[f], KeyOrder[i]>> \in order
      <4>1. f \in Int /\ \A j \in upto : j < f => j \in before
        BY <1>1, <1>2, <2>1, <3>1, <3>2, PlacesAreKeys
      <4>2. IsFirst(f, upto, order)
        BY <2>1, <3>1, <3>2, <3>3, <4>1 DEF IsFirst, Leasts
      <4>3. BestTo(places, order, i) = KeyOrder[f]
        BY <1>2, <2>1, <4>2, FirstIsUnique DEF BestTo
      <4> QED BY <3>1, <3>2, <3>3, <4>3 DEF Better
    <3>4. CASE <<KeyOrder[f], KeyOrder[i]>> \notin order
      <4>1. <<KeyOrder[i], KeyOrder[f]>> \in order
        BY <2>2, <3>1, <3>4 DEF Compares
      <4>2. \A j \in before : <<KeyOrder[i], KeyOrder[j]>> \in order
        BY <2>2, <3>1, <3>2, <4>1 DEF Compares
      <4>3. \A j \in before : <<KeyOrder[j], KeyOrder[i]>> \notin order
        BY <2>2, <3>1, <3>2, <3>4 DEF Compares
      <4>4. IsFirst(i, upto, order)
        BY <1>1, <2>1, <2>3, <4>2, <4>3 DEF IsFirst, Leasts
      <4> QED BY <1>4, <2>4, <3>1, <3>4, <4>4 DEF Better
    <3> QED BY <3>3, <3>4
  <2> QED BY <2>5, <2>6
<1> QED BY <1>3, <1>4

LEMMA WalkFindsFirst ==
    ASSUME NEW order, Compares(order), NEW places \in SUBSET KeyIndices
    PROVE  Walk(places, order) =
             IF places = {} THEN NoKey ELSE FirstLeastOf(places, order)
<1> DEFINE last == Len(KeyOrder)
           To(f, i) == IF i = 0 THEN NoKey
                       ELSE IF i \in places /\ Better(order, KeyOrder[i], f[i - 1])
                            THEN KeyOrder[i] ELSE f[i - 1]
           best == CHOOSE f : f = [i \in 0..last |-> To(f, i)]
<1>1. Walk(places, order) = best[last] BY Zenon DEF Walk
<1>2. last \in Nat /\ KeyIndices = 1..last /\ \A i \in places : i \in 1..last
  BY PlacesAreKeys
<1>3. BestTo(places, order, 0) = NoKey
  <2>1. \A j \in places : ~ (j <= 0) BY <1>2
  <2>2. PlacesTo(places, 0) = {} BY <2>1 DEF PlacesTo
  <2> QED BY <2>2 DEF BestTo
<1>4. best = [i \in 0..last |-> To(best, i)]
  <2> DEFINE firsts == [i \in 0..last |-> BestTo(places, order, i)]
  <2>1. ASSUME NEW i \in 0..last PROVE firsts[i] = To(firsts, i)
    <3>1. CASE i = 0 BY <1>3, <3>1
    <3>2. CASE i # 0
      <4>1. i \in KeyIndices /\ i - 1 \in 0..last BY <1>2, <3>2
      <4>2. firsts[i - 1] = BestTo(places, order, i - 1) BY <4>1
      <4> QED BY <3>2, <4>1, <4>2, WalkStep
    <3> QED BY <3>1, <3>2
  <2>2. firsts = [i \in 0..last |-> firsts[i]] OBVIOUS
  <2> HIDE DEF firsts
  <2>3. firsts = [i \in 0..last |-> To(firsts, i)] BY <2>1, <2>2
  <2> QED BY <2>3
<1> HIDE DEF best
<1> DEFINE holds == {T \in SUBSET (0..last) :
                       \A i \in 0..last : T = 0..i => best[i] = BestTo(places, order, i)}
<1>5. ASSUME NEW T \in SUBSET (0..last), \A U \in SUBSET T : U # T => U \in holds
      PROVE  T \in holds
  <2> SUFFICES ASSUME NEW i \in 0..last, T = 0..i
               PROVE  best[i] = BestTo(places, order, i)
    OBVIOUS
  <2>1. best[i] = To(best, i) BY <1>4
  <2>2. CASE i = 0 BY <1>3, <2>1, <2>2
  <2>3. CASE i # 0
    <3>1. i - 1 \in 0..last /\ i \in KeyIndices BY <1>2, <2>3
    <3>2. i \in T /\ i \notin 0..(i - 1) /\ 0..(i - 1) \in SUBSET T
      BY <1>2
    <3>3. best[i - 1] = BestTo(places, order, i - 1) BY <1>5, <3>1, <3>2
    <3> QED BY <2>1, <2>3, <3>1, <3>3, WalkStep
  <2> QED BY <2>2, <2>3
<1>6. 0..last \in holds
  <2> HIDE DEF holds
  <2>1. PICK S : S = 0..last OBVIOUS
  <2>2. /\ IsFiniteSet(S)
        /\ \A T \in SUBSET S : (\A U \in SUBSET T : U # T => U \in holds) => T \in holds
    <3>1. IsFiniteSet(0..last) BY <1>2, FS_Interval
    <3> QED BY <1>5, <2>1, <3>1
  <2>3. S \in holds BY ONLY <2>2, SubsetInduction
  <2> QED BY <2>1, <2>3
<1>7. best[last] = BestTo(places, order, last) BY <1>2, <1>6
<1>8. PlacesTo(places, last) = places
  <2>1. \A j \in places : j <= last BY <1>2
  <2> QED BY <2>1 DEF PlacesTo
<1> QED BY <1>1, <1>7, <1>8 DEF BestTo

-----------------------------------------------------------------------------
(* What a key is compared by.                                               *)

(* Fractions with positive denominators.                                    *)
LEMMA FractionsCompare ==
    ASSUME NEW a \in Int, NEW b \in Int, NEW c \in Int,
           NEW p \in Nat \ {0}, NEW q \in Nat \ {0}, NEW r \in Nat \ {0},
           a * q <= b * p, b * r <= c * q
    PROVE  a * r <= c * p
<1>1. (a * q) * r <= (b * p) * r
  <2>1. PICK x \in Int, y \in Int : x = a * q /\ y = b * p OBVIOUS
  <2>2. x * r <= y * r BY <2>1
  <2> QED BY <2>1, <2>2
<1>2. (b * r) * p <= (c * q) * p
  <2>1. PICK x \in Int, y \in Int : x = b * r /\ y = c * q OBVIOUS
  <2>2. x * p <= y * p BY <2>1
  <2> QED BY <2>1, <2>2
<1>3. (a * q) * r = q * (a * r) /\ (c * q) * p = q * (c * p) /\ (b * p) * r = (b * r) * p
  OBVIOUS
<1>4. PICK x \in Int, y \in Int : x = a * r /\ y = c * p OBVIOUS
<1>5. q * x <= q * y
  <2>1. q * x = (a * q) * r /\ q * y = (c * q) * p BY <1>3, <1>4
  <2>2. (a * q) * r \in Int /\ (b * p) * r \in Int /\ (b * r) * p \in Int /\ (c * q) * p \in Int
    OBVIOUS
  <2> QED BY <1>1, <1>2, <1>3, <2>1, <2>2
<1>6. ASSUME y < x PROVE FALSE
  <2>1. q * (x - y) = q * x - q * y OBVIOUS
  <2>2. x - y >= 1 BY <1>6
  <2>3. q * (x - y) >= q BY <2>2
  <2>4. q * x \in Int /\ q * y \in Int OBVIOUS
  <2> QED BY <1>5, <2>1, <2>3, <2>4
<1> QED BY <1>4, <1>6

LEMMA UtilizationsCompare == SelectionTypeOK => Compares(AsLittleUsed)
<1> SUFFICES ASSUME SelectionTypeOK PROVE Compares(AsLittleUsed)
  OBVIOUS
<1>1. ASSUME NEW k \in ServerKeys
      PROVE  /\ KeyTpm[k] \in Nat \ {0} /\ KeyRpm[k] \in Nat \ {0}
             /\ keyTpm[k] \in Int /\ keyRpm[k] \in Int
  BY KeySelectionAssumption DEF SelectionTypeOK
<1>2. ASSUME NEW k \in ServerKeys PROVE KM!Used(k) \in Int
  BY <1>1 DEF KM!Used, KM!Larger
<1>3. ASSUME NEW k \in ServerKeys PROVE KeyTpm[k] * KeyRpm[k] \in Nat \ {0}
  <2>1. PICK x \in Nat \ {0}, y \in Nat \ {0} : x = KeyTpm[k] /\ y = KeyRpm[k] BY <1>1
  <2>2. x * y \in Nat \ {0} OBVIOUS
  <2> QED BY <2>1, <2>2
<1> DEFINE whole(k) == KeyTpm[k] * KeyRpm[k]
<1>4. ASSUME NEW j \in ServerKeys, NEW k \in ServerKeys
      PROVE  <<j, k>> \in AsLittleUsed <=> KM!Used(j) * whole(k) <= KM!Used(k) * whole(j)
  <2>1. <<j, k>> \in AsLittleUsed <=> KM!NoMoreUsed(j, k) BY DEF AsLittleUsed, Pairs
  <2>2. PICK u \in Int, v \in Int : u = KM!Used(j) /\ v = KM!Used(k) BY <1>2
  <2>3. /\ u * KeyTpm[k] * KeyRpm[k] = u * (KeyTpm[k] * KeyRpm[k])
        /\ v * KeyTpm[j] * KeyRpm[j] = v * (KeyTpm[j] * KeyRpm[j])
    BY <1>1
  <2> QED BY <2>1, <2>2, <2>3 DEF KM!NoMoreUsed
<1> HIDE DEF whole
<1>5. \A k \in ServerKeys : whole(k) \in Nat \ {0} BY <1>3 DEF whole
<1>6. ASSUME NEW j \in ServerKeys, NEW k \in ServerKeys
      PROVE  <<j, k>> \in AsLittleUsed \/ <<k, j>> \in AsLittleUsed
  <2>1. KM!Used(j) * whole(k) \in Int /\ KM!Used(k) * whole(j) \in Int BY <1>2, <1>5
  <2> QED BY <1>4, <2>1
<1>7. ASSUME NEW j \in ServerKeys, NEW k \in ServerKeys, NEW l \in ServerKeys,
             <<j, k>> \in AsLittleUsed, <<k, l>> \in AsLittleUsed
      PROVE  <<j, l>> \in AsLittleUsed
  <2>1. PICK a \in Int, b \in Int, c \in Int :
           a = KM!Used(j) /\ b = KM!Used(k) /\ c = KM!Used(l) BY <1>2
  <2>2. PICK p \in Nat \ {0}, q \in Nat \ {0}, r \in Nat \ {0} :
           p = whole(j) /\ q = whole(k) /\ r = whole(l) BY <1>5
  <2>3. a * q <= b * p /\ b * r <= c * q BY <1>4, <1>7, <2>1, <2>2
  <2>4. a * r <= c * p BY <2>3, FractionsCompare
  <2> QED BY <1>4, <2>1, <2>2, <2>4
<1> QED BY <1>6, <1>7 DEF Compares

LEMMA WaitsAreTyped ==
    ASSUME SelectionTypeOK, NEW k \in ServerKeys, NEW n \in Int
    PROVE  KM!TimeUntilAvailable(k, n) \in Int
<1>1. KeyRate[k] \in Nat \ {0} /\ keyTpm[k] \in Int /\ keyRpm[k] \in Int
  BY KeySelectionAssumption DEF SelectionTypeOK
<1>2. /\ KM!TicksUntil(1, keyRpm[k], KeyRate[k]) \in Int
      /\ KM!TicksUntil(n, keyTpm[k], KeyRate[k]) \in Int
  BY <1>1 DEF KM!TicksUntil
<1> QED BY <1>2 DEF KM!TimeUntilAvailable, KM!Larger

LEMMA OthersCompare ==
    SelectionTypeOK => /\ Compares(AsLongAgo) /\ Compares(AsTight) /\ Compares(Pairs)
                       /\ \A n \in Int : Compares(AsSoon(n))
<1> SUFFICES ASSUME SelectionTypeOK
             PROVE  /\ Compares(AsLongAgo) /\ Compares(AsTight) /\ Compares(Pairs)
                    /\ \A n \in Int : Compares(AsSoon(n))
  OBVIOUS
<1>1. ASSUME NEW f, \A k \in ServerKeys : f[k] \in Int,
             NEW order, order = {p \in Pairs : f[p[1]] <= f[p[2]]}
      PROVE  Compares(order)
  <2>1. \A j, k \in ServerKeys : <<j, k>> \in order <=> f[j] <= f[k]
    BY <1>1 DEF Pairs
  <2> QED BY <1>1, <2>1 DEF Compares
<1>2. Compares(AsLongAgo) BY <1>1 DEF SelectionTypeOK, AsLongAgo
<1>3. Compares(AsTight) BY <1>1 DEF SelectionTypeOK, AsTight
<1>4. Compares(Pairs) BY DEF Compares, Pairs
<1>5. ASSUME NEW n \in Int PROVE Compares(AsSoon(n))
  <2>1. PICK f : f = [k \in ServerKeys |-> KM!TimeUntilAvailable(k, n)] OBVIOUS
  <2>2. \A k \in ServerKeys : f[k] = KM!TimeUntilAvailable(k, n) /\ f[k] \in Int
    BY <2>1, WaitsAreTyped
  <2>3. \A p \in Pairs : p[1] \in ServerKeys /\ p[2] \in ServerKeys BY DEF Pairs
  <2>4. AsSoon(n) = {p \in Pairs : f[p[1]] <= f[p[2]]} BY <2>2, <2>3 DEF AsSoon
  <2> QED BY <1>1, <2>2, <2>4
<1> QED BY <1>2, <1>3, <1>4, <1>5

-----------------------------------------------------------------------------
LEMMA SelectionTypes == SelectionSpec => []SelectionTypeOK
<1>1. SelectionInit => SelectionTypeOK
  BY KeySelectionAssumption DEF SelectionInit, KM!KeyInit, SelectionTypeOK
<1>2. SelectionTypeOK /\ [SelectionNext]_selectionVars => SelectionTypeOK'
  <2> SUFFICES ASSUME SelectionTypeOK, [SelectionNext]_selectionVars
               PROVE  SelectionTypeOK'
    OBVIOUS
  <2> USE KeySelectionAssumption DEF SelectionTypeOK
  <2>1. CASE SelectionTick
    <3>1. keyTpm' = KM!Refilled(keyTpm, KeyTpm, KeyRate) /\ keyRpm' = KM!Refilled(keyRpm, KeyRpm, KeyRate)
      BY <2>1 DEF SelectionTick, KM!KeyTick
    <3>2. keyTpm' \in [ServerKeys -> Int] /\ keyRpm' \in [ServerKeys -> Int]
      BY <3>1 DEF KM!Refilled, KM!AtMost
    <3> QED BY <2>1, <3>2 DEF SelectionTick
  <2>2. ASSUME NEW n \in Estimates, Arrive(n) PROVE SelectionTypeOK'
    BY <2>2 DEF Arrive
  <2>3. ASSUME NEW k \in ServerKeys, FailKey(k) PROVE SelectionTypeOK'
    BY <2>3 DEF FailKey
  <2>4. ASSUME NEW k \in ServerKeys, ReserveKey(k) PROVE SelectionTypeOK'
    BY <2>4 DEF ReserveKey, KM!Reserve
  <2>5. CASE UNCHANGED selectionVars BY <2>5 DEF selectionVars
  <2> QED BY <2>1, <2>2, <2>3, <2>4, <2>5 DEF SelectionNext
<1> QED BY <1>1, <1>2, PTL DEF SelectionSpec

-----------------------------------------------------------------------------
(* The choices of a state.                                                  *)

LEMMA FirstOfAll ==
    ASSUME NEW places \in SUBSET KeyIndices, places # {}
    PROVE  FirstLeastOf(places, Pairs) = KeyOrder[Min(places)]
<1>1. \A i \in places : KeyOrder[i] \in ServerKeys BY PlacesAreKeys
<1>2. {i \in places : \A j \in places : <<KeyOrder[i], KeyOrder[j]>> \in Pairs} = places
  BY <1>1 DEF Pairs
<1> QED BY <1>2 DEF FirstLeastOf

(* What is chosen is one of the places, and no worse than any.              *)
LEMMA FirstIsBest ==
    ASSUME NEW order, Compares(order), NEW places \in SUBSET KeyIndices, places # {}
    PROVE  \E f \in places : /\ FirstLeastOf(places, order) = KeyOrder[f]
                             /\ \A j \in places : <<KeyOrder[f], KeyOrder[j]>> \in order
BY FirstIsFound DEF IsFirst, Leasts

LEMMA SelectedKey ==
    ASSUME SelectionTypeOK, NEW s, NEW n \in Int, NEW provider
    PROVE  LET candidates == CandidatesFor(provider)
               ready == ReadyOf(candidates, n)
               healthy == HealthyOf(candidates)
               soonest == FirstLeastOf(healthy, AsSoon(n))
           IN SelectKey(n, s, provider) =
                IF ready # {}
                THEN [key |-> FirstLeastOf(ready, OrderOf(s)), wait |-> 0]
                ELSE IF healthy # {}
                     THEN [key |-> soonest, wait |-> KM!TimeUntilAvailable(soonest, n)]
                ELSE Nobody
<1> DEFINE candidates == CandidatesFor(provider)
           ready == ReadyOf(candidates, n)
           healthy == HealthyOf(candidates)
<1>1. candidates \in SUBSET KeyIndices BY DEF CandidatesFor, Of
<1>2. ready \in SUBSET KeyIndices /\ healthy \in SUBSET KeyIndices
  BY <1>1 DEF ReadyOf, HealthyOf
<1>3. Compares(OrderOf(s)) /\ Compares(AsSoon(n))
  BY UtilizationsCompare, OthersCompare DEF OrderOf
<1> HIDE DEF ready, healthy
<1>4. /\ Walk(ready, OrderOf(s)) =
           IF ready = {} THEN NoKey ELSE FirstLeastOf(ready, OrderOf(s))
      /\ Walk(healthy, AsSoon(n)) =
           IF healthy = {} THEN NoKey ELSE FirstLeastOf(healthy, AsSoon(n))
  BY <1>2, <1>3, WalkFindsFirst
<1>5. /\ ready # {} => FirstLeastOf(ready, OrderOf(s)) # NoKey
      /\ healthy # {} => FirstLeastOf(healthy, AsSoon(n)) # NoKey
  BY <1>2, <1>3, FirstIsBest, PlacesAreKeys
<1> QED BY <1>4, <1>5 DEF SelectKey, ready, healthy

LEMMA EveryPlace == Of(NoKey) = KeyIndices /\ CandidatesFor(NoKey) = KeyIndices
BY DEF Of, CandidatesFor

LEMMA AvailableOf ==
    ASSUME NEW n
    PROVE  /\ GetAvailableKeys(n, NoKey) = ReadyOf(KeyIndices, n)
           /\ ReadyOf(KeyIndices, n) \in SUBSET KeyIndices
           /\ ReadyOf(KeyIndices, n) \in SUBSET HealthyOf(KeyIndices)
           /\ HealthyOf(KeyIndices) \in SUBSET KeyIndices
BY EveryPlace DEF GetAvailableKeys, ReadyOf, HealthyOf

(* select_key and the tracker's ways agree.                                 *)
LEMMA TrackerAgrees ==
    ASSUME SelectionTypeOK, NEW n \in Int,
           NEW s \in {"least_utilized", "round_robin", "first"}
    PROVE  SelectKey(n, s, NoKey) =
             IF GetAvailableKeys(n, NoKey) = {} THEN GetEarliestAvailableKey(n, NoKey)
             ELSE [key |-> GetBestKey(n, NoKey, s), wait |-> 0]
<1> DEFINE ready == ReadyOf(KeyIndices, n)
           healthy == HealthyOf(KeyIndices)
<1>1. ready = GetAvailableKeys(n, NoKey) /\ ready \in SUBSET KeyIndices BY AvailableOf
<1> HIDE DEF ready
<1>2. CASE ready # {}
  <2>1. SelectKey(n, s, NoKey) = [key |-> FirstLeastOf(ready, OrderOf(s)), wait |-> 0]
    BY <1>2, EveryPlace, SelectedKey DEF ready
  <2>2. FirstLeastOf(ready, Pairs) = KeyOrder[Min(ready)] BY <1>1, <1>2, FirstOfAll
  <2>3. FirstLeastOf(ready, OrderOf(s)) = GetBestKey(n, NoKey, s)
    <3>1. CASE s = "least_utilized" BY <1>1, <1>2, <3>1 DEF GetBestKey, OrderOf
    <3>2. CASE s = "round_robin" BY <1>1, <1>2, <3>2 DEF GetBestKey, OrderOf
    <3>3. CASE s = "first" BY <1>1, <1>2, <2>2, <3>3 DEF GetBestKey, OrderOf
    <3> QED BY <3>1, <3>2, <3>3
  <2> QED BY <1>1, <1>2, <2>1, <2>3
<1>3. CASE ready = {}
  <2>1. SelectKey(n, s, NoKey) = GetEarliestAvailableKey(n, NoKey)
    BY <1>3, EveryPlace, SelectedKey DEF ready, GetEarliestAvailableKey
  <2> QED BY <1>1, <1>3, <2>1
<1> QED BY <1>2, <1>3

(* and the scheduler's model allows what they choose.                       *)
LEMMA ModelAllows ==
    ASSUME SelectionTypeOK, NEW n \in Int
    PROVE  SelectKey(n, "least_utilized", NoKey) \in
             IF KM!Selections(ServerKeys, n) = {} THEN {Nobody}
                                               ELSE KM!Selections(ServerKeys, n)
<1> DEFINE ready == ReadyOf(KeyIndices, n)
           healthy == HealthyOf(KeyIndices)
           healthyKeys == {k \in ServerKeys : KM!Healthy(k)}
           readyKeys == {k \in healthyKeys : KM!CanHandle(k, n)}
           Wait(k) == KM!TimeUntilAvailable(k, n)
           soonest == {k \in healthyKeys : \A j \in healthyKeys : Wait(k) <= Wait(j)}
           little == {k \in readyKeys : \A j \in readyKeys : KM!NoMoreUsed(k, j)}
<1>1. ready \in SUBSET KeyIndices /\ healthy \in SUBSET KeyIndices BY AvailableOf
<1>2. /\ \A i \in healthy : KeyOrder[i] \in healthyKeys
      /\ \A k \in healthyKeys : \E i \in healthy : KeyOrder[i] = k
  BY PlacesAreKeys DEF HealthyOf
<1>3. /\ \A i \in ready : KeyOrder[i] \in readyKeys
      /\ \A k \in readyKeys : \E i \in ready : KeyOrder[i] = k
  BY <1>2 DEF ReadyOf
<1>4. KM!Selections(ServerKeys, n) =
        IF readyKeys # {} THEN {[key |-> k, wait |-> 0] : k \in little}
                          ELSE {[key |-> k, wait |-> Wait(k)] : k \in soonest}
  BY Zenon DEF KM!Selections, KM!Preferred
<1>5. SelectKey(n, "least_utilized", NoKey) =
        IF ready # {} THEN [key |-> FirstLeastOf(ready, AsLittleUsed), wait |-> 0]
        ELSE IF healthy # {}
             THEN [key |-> FirstLeastOf(healthy, AsSoon(n)),
                   wait |-> Wait(FirstLeastOf(healthy, AsSoon(n)))]
        ELSE Nobody
  BY EveryPlace, SelectedKey DEF OrderOf
<1>6. Compares(AsLittleUsed) /\ Compares(AsSoon(n)) BY UtilizationsCompare, OthersCompare
<1> HIDE DEF ready, healthy, Wait
<1>7. CASE ready # {}
  <2>1. PICK f \in ready :
           /\ FirstLeastOf(ready, AsLittleUsed) = KeyOrder[f]
           /\ \A j \in ready : <<KeyOrder[f], KeyOrder[j]>> \in AsLittleUsed
    BY <1>1, <1>6, <1>7, FirstIsBest
  <2>2. \A j \in ready : KM!NoMoreUsed(KeyOrder[f], KeyOrder[j])
    BY <2>1 DEF AsLittleUsed
  <2>3. KeyOrder[f] \in little
    <3> HIDE DEF readyKeys
    <3>1. \A j \in readyKeys : KM!NoMoreUsed(KeyOrder[f], j) BY <1>3, <2>2
    <3> QED BY <1>3, <2>1, <3>1
  <2>4. readyKeys # {} BY <1>3, <2>1
  <2> HIDE DEF readyKeys, little, soonest
  <2> QED BY <1>4, <1>5, <1>7, <2>1, <2>3, <2>4
<1>8. CASE ready = {} /\ healthy # {}
  <2>1. PICK f \in healthy :
           /\ FirstLeastOf(healthy, AsSoon(n)) = KeyOrder[f]
           /\ \A j \in healthy : <<KeyOrder[f], KeyOrder[j]>> \in AsSoon(n)
    BY <1>1, <1>6, <1>8, FirstIsBest
  <2>2. \A j \in healthy : Wait(KeyOrder[f]) <= Wait(KeyOrder[j])
    BY <2>1 DEF AsSoon, Wait
  <2>3. KeyOrder[f] \in soonest
    <3> HIDE DEF healthyKeys
    <3>1. \A j \in healthyKeys : Wait(KeyOrder[f]) <= Wait(j) BY <1>2, <2>2
    <3> QED BY <1>2, <2>1, <3>1
  <2>4. readyKeys = {} BY <1>3, <1>8
  <2> HIDE DEF readyKeys, little, soonest
  <2> QED BY <1>4, <1>5, <1>8, <2>1, <2>3, <2>4
<1>9. CASE ready = {} /\ healthy = {}
  <2>1. readyKeys = {} /\ soonest = {} BY <1>2, <1>9
  <2> HIDE DEF readyKeys, little, soonest
  <2> QED BY <1>4, <1>5, <1>9, <2>1
<1> QED BY <1>7, <1>8, <1>9

(* A key's provider is the one asked for, if it has any.                    *)
LEMMA ProviderIsRespected ==
    ASSUME SelectionTypeOK, NEW n \in Int, NEW p \in Providers
    PROVE  SelectKey(n, "least_utilized", p).key
             \in {k \in ServerKeys : ProviderOf[k] = p} \cup {NoKey}
<1> DEFINE candidates == CandidatesFor(p)
           ready == ReadyOf(candidates, n)
           healthy == HealthyOf(candidates)
<1>1. \A i \in candidates : /\ i \in KeyIndices /\ KeyOrder[i] \in ServerKeys
                            /\ ProviderOf[KeyOrder[i]] = p
  <2>1. PICK k \in ServerKeys : ProviderOf[k] = p BY DEF Providers
  <2>2. p # NoKey BY KeySelectionAssumption
  <2>3. PICK i \in KeyIndices : KeyOrder[i] = k BY PlacesAreKeys
  <2>4. i \in Of(p) BY <2>1, <2>3 DEF Of
  <2> QED BY <2>2, <2>4, PlacesAreKeys DEF CandidatesFor, Of
<1>2. ready \in SUBSET candidates /\ healthy \in SUBSET candidates
  BY DEF ReadyOf, HealthyOf
<1>3. SelectKey(n, "least_utilized", p) =
        IF ready # {} THEN [key |-> FirstLeastOf(ready, AsLittleUsed), wait |-> 0]
        ELSE IF healthy # {}
             THEN [key |-> FirstLeastOf(healthy, AsSoon(n)),
                   wait |-> KM!TimeUntilAvailable(FirstLeastOf(healthy, AsSoon(n)), n)]
        ELSE Nobody
  BY SelectedKey DEF OrderOf
<1>4. Compares(AsLittleUsed) /\ Compares(AsSoon(n)) BY UtilizationsCompare, OthersCompare
<1> HIDE DEF candidates, ready, healthy
<1>5. ready \in SUBSET KeyIndices /\ healthy \in SUBSET KeyIndices BY <1>1, <1>2
<1>6. /\ ready # {} => \E f \in candidates : FirstLeastOf(ready, AsLittleUsed) = KeyOrder[f]
      /\ healthy # {} => \E f \in candidates : FirstLeastOf(healthy, AsSoon(n)) = KeyOrder[f]
  BY <1>2, <1>4, <1>5, FirstIsBest
<1>7. Nobody.key = NoKey BY DEF Nobody
<1> QED BY <1>1, <1>3, <1>6, <1>7

LEMMA RankIsFirst ==
    ASSUME NEW k
    PROVE  LET its == {r \in DOMAIN ProviderOrder : ProviderOrder[r] = ProviderOf[k]}
           IN /\ Rank(k) \in Int
              /\ \A r \in its : Rank(k) <= r
              /\ Rank(k) \in its \/ (its = {} /\ Rank(k) = Len(ProviderOrder) + 1)
              /\ Rank(k) <= Len(ProviderOrder) + 1
<1> DEFINE its == {r \in DOMAIN ProviderOrder : ProviderOrder[r] = ProviderOf[k]}
           all == its \cup {Len(ProviderOrder) + 1}
<1>1. Len(ProviderOrder) \in Nat /\ DOMAIN ProviderOrder = 1..Len(ProviderOrder)
  BY KeySelectionAssumption
<1>2. all \subseteq 1..(Len(ProviderOrder) + 1) /\ all # {} BY <1>1
<1>3. \A r \in its : r < Len(ProviderOrder) + 1 BY <1>1
<1>4. Rank(k) = Min(all) BY DEF Rank
<1> HIDE DEF its
<1>5. IsFiniteSet(all) /\ all \subseteq Int
  <2> HIDE DEF all
  <2>1. IsFiniteSet(1..(Len(ProviderOrder) + 1)) BY <1>1, FS_Interval
  <2>2. IsFiniteSet(all) BY <1>2, <2>1, FS_Subset
  <2>3. 1..(Len(ProviderOrder) + 1) \subseteq Int OBVIOUS
  <2> QED BY <1>2, <2>2, <2>3
<1>6. Rank(k) \in all /\ \A r \in all : Rank(k) <= r
  <2> HIDE DEF all
  <2> QED BY <1>2, <1>4, <1>5, LeastIsThere
<1>7. Rank(k) \in its \/ (its = {} /\ Rank(k) = Len(ProviderOrder) + 1)
  <2>1. CASE its = {} BY <1>6, <2>1
  <2>2. CASE its # {}
    <3>1. PICK r \in its : Rank(k) <= r /\ r < Len(ProviderOrder) + 1 BY <1>3, <1>6, <2>2
    <3>2. r \in Int /\ Rank(k) \in Int BY <1>5, <1>6, <3>1
    <3> QED BY <1>1, <1>6, <3>1, <3>2
  <2> QED BY <2>1, <2>2
<1> QED BY <1>5, <1>6, <1>7 DEF its

LEMMA LeastUtilizedIsOne ==
    ASSUME SelectionTypeOK, NEW places \in SUBSET KeyIndices, places # {}
    PROVE  \E i \in places : LeastUtilizedSelect(places) = KeyOrder[i]
BY UtilizationsCompare, FirstIsBest DEF LeastUtilizedSelect

(* fallback passes over no provider that comes earlier.                     *)
LEMMA FallbackIsFirst ==
    ASSUME SelectionTypeOK, NEW places \in SUBSET KeyIndices, places # {}
    PROVE  \E f \in places : /\ FallbackSelect(places) = KeyOrder[f]
                             /\ \A i \in places :
                                   Rank(KeyOrder[f]) <= Rank(KeyOrder[i])
<1> DEFINE itsKeys(r) == {i \in places : ProviderOf[KeyOrder[i]] = ProviderOrder[r]}
           serving == {r \in DOMAIN ProviderOrder : itsKeys(r) # {}}
           its(i) == {r \in DOMAIN ProviderOrder : ProviderOrder[r] = ProviderOf[KeyOrder[i]]}
<1>1. Len(ProviderOrder) \in Nat /\ DOMAIN ProviderOrder = 1..Len(ProviderOrder)
  BY KeySelectionAssumption
<1>2. ASSUME NEW i \in places
      PROVE  /\ Rank(KeyOrder[i]) \in Int
             /\ \A r \in its(i) : Rank(KeyOrder[i]) <= r
             /\ \/ Rank(KeyOrder[i]) \in its(i)
                \/ its(i) = {} /\ Rank(KeyOrder[i]) = Len(ProviderOrder) + 1
             /\ Rank(KeyOrder[i]) <= Len(ProviderOrder) + 1
  BY RankIsFirst
<1>3. \A i \in places : its(i) \subseteq serving OBVIOUS
<1>4. CASE serving = {}
  <2>1. FallbackSelect(places) = LeastUtilizedSelect(places) BY <1>4 DEF FallbackSelect
  <2>2. PICK f \in places : FallbackSelect(places) = KeyOrder[f]
    BY <2>1, LeastUtilizedIsOne
  <2>3. \A i \in places : Rank(KeyOrder[i]) = Len(ProviderOrder) + 1
    <3> HIDE DEF serving, its
    <3> QED BY <1>2, <1>3, <1>4
  <2> QED BY <1>1, <2>2, <2>3
<1>5. CASE serving # {}
  <2>1. PICK first : first = Min(serving) OBVIOUS
  <2>2. serving \subseteq 1..Len(ProviderOrder) BY <1>1
  <2>3. FallbackSelect(places) = LeastUtilizedSelect(itsKeys(first))
    BY <1>5, <2>1 DEF FallbackSelect
  <2>4. first \in serving /\ first \in Int /\ \A r \in serving : first <= r
    <3> HIDE DEF serving
    <3>1. IsFiniteSet(1..Len(ProviderOrder)) BY <1>1, FS_Interval
    <3>2. IsFiniteSet(serving) BY <2>2, <3>1, FS_Subset
    <3>3. serving \subseteq Int BY <2>2
    <3> QED BY <1>5, <2>1, <3>2, <3>3, LeastIsThere
  <2>5. itsKeys(first) # {} /\ itsKeys(first) \in SUBSET KeyIndices BY <2>4
  <2>6. PICK f \in itsKeys(first) : FallbackSelect(places) = KeyOrder[f]
    <3> HIDE DEF itsKeys
    <3> QED BY <2>3, <2>5, LeastUtilizedIsOne
  <2>7. f \in places /\ first \in its(f) BY <2>4, <2>6
  <2>8. ASSUME NEW i \in places PROVE first <= Rank(KeyOrder[i])
    <3> HIDE DEF its, serving
    <3>1. CASE Rank(KeyOrder[i]) \in its(i) BY <1>3, <2>4, <3>1
    <3>2. CASE Rank(KeyOrder[i]) = Len(ProviderOrder) + 1
      BY <1>1, <2>2, <2>4, <3>2
    <3> QED BY <1>2, <3>1, <3>2
  <2>9. Rank(KeyOrder[f]) <= first /\ Rank(KeyOrder[f]) \in Int
    <3> HIDE DEF its
    <3> QED BY <1>2, <2>7
  <2>10. \A i \in places : Rank(KeyOrder[f]) <= Rank(KeyOrder[i])
    BY <1>2, <2>4, <2>8, <2>9
  <2> QED BY <2>6, <2>7, <2>10
<1> QED BY <1>4, <1>5

(* token_aware wastes least, among keys that all can handle the request.    *)
LEMMA FittingIsTightest ==
    ASSUME SelectionTypeOK, NEW n \in Int, ReadyOf(KeyIndices, n) # {}
    PROVE  \E f \in ReadyOf(KeyIndices, n) :
              /\ TokenAwareSelect(ReadyOf(KeyIndices, n), n) = KeyOrder[f]
              /\ \A i \in ReadyOf(KeyIndices, n) : keyTpm[KeyOrder[f]] <= keyTpm[KeyOrder[i]]
<1> DEFINE ready == ReadyOf(KeyIndices, n)
<1>1. ready \in SUBSET KeyIndices BY AvailableOf
<1>2. {i \in ready : keyTpm[KeyOrder[i]] >= n} = ready BY DEF ReadyOf, KM!CanHandle
<1> HIDE DEF ready
<1>3. TokenAwareSelect(ready, n) = FirstLeastOf(ready, AsTight)
  BY <1>2 DEF TokenAwareSelect, ready
<1>4. PICK f \in ready : /\ FirstLeastOf(ready, AsTight) = KeyOrder[f]
                         /\ \A i \in ready : <<KeyOrder[f], KeyOrder[i]>> \in AsTight
  BY <1>1, OthersCompare, FirstIsBest DEF ready
<1>5. \A i \in ready : keyTpm[KeyOrder[f]] <= keyTpm[KeyOrder[i]] BY <1>4 DEF AsTight
<1> QED BY <1>3, <1>4, <1>5 DEF ready

(* However keys were used and failed, the server's ways of choosing one     *)
(* agree, and none picks a key without capacity or one passed over.         *)
THEOREM ServerSelectionsAgree == SelectionSpec => []SelectionsAgree
<1>1. ASSUME SelectionTypeOK PROVE SelectionsAgree
  <2> DEFINE n == request
             available == GetAvailableKeys(n, NoKey)
             keys == {KeyOrder[i] : i \in available}
             fallback == FallbackSelect(available)
             fitting == TokenAwareSelect(available, n)
  <2>1. n \in Int BY <1>1 DEF SelectionTypeOK
  <2>2. available = ReadyOf(KeyIndices, n) /\ available \in SUBSET KeyIndices BY AvailableOf
  <2>3. /\ LeastUtilizedSelect(available) = GetBestKey(n, NoKey, "least_utilized")
        /\ RoundRobinSelect(available) = GetBestKey(n, NoKey, "round_robin")
    BY DEF LeastUtilizedSelect, RoundRobinSelect, GetBestKey
  <2>4. available # {} =>
          /\ {fallback, fitting} \subseteq keys
          /\ \A k \in keys : Rank(fallback) <= Rank(k) /\ keyTpm[fitting] <= keyTpm[k]
    <3> SUFFICES ASSUME available # {}
                 PROVE  /\ {fallback, fitting} \subseteq keys
                        /\ \A k \in keys : /\ Rank(fallback) <= Rank(k)
                                           /\ keyTpm[fitting] <= keyTpm[k]
      OBVIOUS
    <3>1. PICK f \in available : /\ fallback = KeyOrder[f]
                                 /\ \A i \in available :
                                       Rank(KeyOrder[f]) <= Rank(KeyOrder[i])
      BY <1>1, <2>2, FallbackIsFirst
    <3>2. PICK g \in available : /\ fitting = KeyOrder[g]
                                 /\ \A i \in available :
                                       keyTpm[KeyOrder[g]] <= keyTpm[KeyOrder[i]]
      BY <1>1, <2>1, <2>2, FittingIsTightest
    <3> HIDE DEF available, fallback, fitting
    <3> QED BY <3>1, <3>2
  <2> HIDE DEF n
  <2>5. \A s \in {"least_utilized", "round_robin", "first"} :
           SelectKey(n, s, NoKey) = IF available = {} THEN GetEarliestAvailableKey(n, NoKey)
                                    ELSE [key |-> GetBestKey(n, NoKey, s), wait |-> 0]
    BY <1>1, <2>1, TrackerAgrees
  <2>6. SelectKey(n, "least_utilized", NoKey) \in
           IF KM!Selections(ServerKeys, n) = {} THEN {Nobody}
                                             ELSE KM!Selections(ServerKeys, n)
    BY <1>1, <2>1, ModelAllows
  <2>7. \A p \in Providers :
           SelectKey(n, "least_utilized", p).key
               \in {k \in ServerKeys : ProviderOf[k] = p} \cup {NoKey}
    BY <1>1, <2>1, ProviderIsRespected
  <2> QED BY <2>3, <2>4, <2>5, <2>6, <2>7 DEF SelectionsAgree, n
<1> QED BY <1>1, SelectionTypes, PTL
-----------------------------------------------------------------------------
(* The latency statistics.  One list mirrors the other, so that as many     *)
(* samples of either lie below any value, and the percentiles agree.        *)
Mirrored(s, r) == Len(s) = Len(r) /\ \A i \in 1..Len(s) : s[i] = r[Len(s) + 1 - i]

LEMMA MirroredCount ==
    ASSUME NEW n \in Nat, NEW A \in SUBSET (1..n), NEW B \in SUBSET (1..n),
           \A i \in 1..n : i \in A <=> n + 1 - i \in B
    PROVE  Cardinality(A) = Cardinality(B)
<1> DEFINE mirror == [i \in A |-> n + 1 - i]
<1>1. \A i \in 1..n : n + 1 - i \in 1..n /\ n + 1 - (n + 1 - i) = i OBVIOUS
<1>2. mirror \in [A -> B] BY <1>1
<1>3. IsInjective(mirror) BY <1>1 DEF IsInjective
<1>4. \A b \in B : \E a \in A : mirror[a] = b
  <2> SUFFICES ASSUME NEW b \in B PROVE \E a \in A : mirror[a] = b OBVIOUS
  <2>1. PICK a \in 1..n : a = n + 1 - b /\ n + 1 - a = b BY <1>1
  <2>2. a \in A BY <2>1
  <2> QED BY <2>1, <2>2
<1> HIDE DEF mirror
<1>5. mirror \in Bijection(A, B) BY <1>2, <1>3, <1>4 DEF Bijection, Injection, Surjection
<1>6. ExistsBijection(A, B) BY <1>5 DEF ExistsBijection
<1>7. IsFiniteSet(A)
  <2>1. IsFiniteSet(1..n) BY FS_Interval
  <2> QED BY <2>1, FS_Subset
<1> QED BY <1>6, <1>7, FS_Bijection

LEMMA MirrorsRankAlike ==
    ASSUME NEW s \in Seq(Latencies), NEW r \in Seq(Latencies), Mirrored(s, r), NEW rank
    PROVE  Ranked(s, rank) = Ranked(r, rank)
<1>1. PICK n \in Nat : n = Len(s) /\ n = Len(r) BY DEF Mirrored
<1>2. \A i \in 1..n : n + 1 - i \in 1..n /\ s[i] = r[n + 1 - i]
  BY <1>1 DEF Mirrored
<1>3. ASSUME NEW v
      PROVE  /\ Cardinality(Below(s, v)) = Cardinality(Below(r, v))
             /\ Cardinality(UpTo(s, v)) = Cardinality(UpTo(r, v))
  <2>1. /\ Below(s, v) \in SUBSET (1..n) /\ Below(r, v) \in SUBSET (1..n)
        /\ UpTo(s, v) \in SUBSET (1..n) /\ UpTo(r, v) \in SUBSET (1..n)
    BY <1>1 DEF Below, UpTo
  <2>2. ASSUME NEW i \in 1..n
        PROVE  i \in Below(s, v) <=> n + 1 - i \in Below(r, v)
    <3>1. i \in Below(s, v) <=> s[i] < v BY <1>1 DEF Below
    <3>2. n + 1 - i \in Below(r, v) <=> r[n + 1 - i] < v BY <1>1, <1>2 DEF Below
    <3> QED BY <1>2, <3>1, <3>2
  <2>3. ASSUME NEW i \in 1..n
        PROVE  i \in UpTo(s, v) <=> n + 1 - i \in UpTo(r, v)
    <3>1. i \in UpTo(s, v) <=> s[i] <= v BY <1>1 DEF UpTo
    <3>2. n + 1 - i \in UpTo(r, v) <=> r[n + 1 - i] <= v BY <1>1, <1>2 DEF UpTo
    <3> QED BY <1>2, <3>1, <3>2
  <2> QED BY <2>1, <2>2, <2>3, MirroredCount
<1> QED BY <1>3 DEF Ranked

(* A sample more at the end of one list and at the head of the other, and   *)
(* the oldest dropped from both.                                            *)
LEMMA MirrorsGrow ==
    ASSUME NEW s \in Seq(Latencies), NEW r \in Seq(Latencies), Mirrored(s, r),
           Len(s) <= RecentSize, NEW x \in Latencies
    PROVE  LET longer == Append(s, x)
               t == IF Len(longer) > RecentSize THEN Tail(longer) ELSE longer
               u == Newest(<<x>> \o r, RecentSize)
           IN /\ t \in Seq(Latencies) /\ u \in Seq(Latencies) /\ Mirrored(t, u)
              /\ Len(t) <= RecentSize /\ Len(t) > 0
<1>0. RecentSize \in Nat \ {0} BY LatencyAssumption
<1>1. PICK n \in Nat : n = Len(s) /\ n = Len(r) BY DEF Mirrored
<1>2. PICK longer : longer = Append(s, x) OBVIOUS
<1>3. /\ longer \in Seq(Latencies) /\ Len(longer) = n + 1 /\ longer[n + 1] = x
      /\ \A i \in 1..n : longer[i] = s[i]
  <2>1. /\ Append(s, x) \in Seq(Latencies) /\ Len(Append(s, x)) = Len(s) + 1
        /\ Append(s, x)[Len(s) + 1] = x
    OBVIOUS
  <2>2. \A i \in 1..Len(s) : Append(s, x)[i] = s[i] OBVIOUS
  <2> QED BY <1>1, <1>2, <2>1, <2>2
<1>4. PICK front : front = <<x>> \o r OBVIOUS
<1>5. /\ front \in Seq(Latencies) /\ Len(front) = n + 1 /\ front[1] = x
      /\ \A i \in 1..n : front[i + 1] = r[i]
  BY <1>1, <1>4
<1>6. \A i \in 1..n : s[i] = r[n + 1 - i] BY <1>1 DEF Mirrored
<1>7. Mirrored(longer, front)
  <2> SUFFICES ASSUME NEW i \in 1..(n + 1) PROVE longer[i] = front[(n + 1) + 1 - i]
    BY <1>3, <1>5 DEF Mirrored
  <2>1. CASE i = n + 1 BY <1>3, <1>5, <2>1
  <2>2. CASE i \in 1..n
    <3>1. n + 1 - i \in 1..n /\ (n + 1 - i) + 1 = (n + 1) + 1 - i BY <2>2
    <3>2. front[(n + 1 - i) + 1] = r[n + 1 - i] BY <1>5, <3>1
    <3> QED BY <1>3, <1>6, <2>2, <3>1, <3>2
  <2> QED BY <2>1, <2>2
<1>8. CASE n + 1 <= RecentSize
  <2>1. SubSeq(front, 1, n + 1) = front BY <1>5
  <2>2. Newest(front, RecentSize) = front
    BY <1>0, <1>5, <1>8, <2>1 DEF Newest
  <2>3. ~ (Len(longer) > RecentSize) /\ Len(longer) > 0 BY <1>0, <1>3, <1>8
  <2> QED BY <1>0, <1>2, <1>3, <1>4, <1>5, <1>7, <1>8, <2>2, <2>3
<1>9. CASE n + 1 > RecentSize
  <2>1. n = RecentSize BY <1>0, <1>1, <1>9
  <2>2. PICK t : t = Tail(longer) OBVIOUS
  <2>3. t \in Seq(Latencies) /\ Len(t) = n /\ \A i \in 1..n : t[i] = longer[i + 1]
    BY <1>3, <2>2
  <2>4. PICK u : u = SubSeq(front, 1, n) OBVIOUS
  <2>5. u \in Seq(Latencies) /\ Len(u) = n /\ \A i \in 1..n : u[i] = front[i]
    BY <1>5, <2>4
  <2>6. Newest(front, RecentSize) = u BY <1>0, <1>5, <2>1, <2>4 DEF Newest
  <2>7. Mirrored(t, u)
    <3> SUFFICES ASSUME NEW i \in 1..n PROVE t[i] = u[n + 1 - i]
      BY <2>3, <2>5 DEF Mirrored
    <3>1. i + 1 \in 1..(n + 1) /\ n + 1 - i \in 1..n
          /\ (n + 1) + 1 - (i + 1) = n + 1 - i
      OBVIOUS
    <3>2. longer[i + 1] = front[(n + 1) + 1 - (i + 1)] BY <1>3, <1>7, <3>1 DEF Mirrored
    <3> QED BY <2>3, <2>5, <3>1, <3>2
  <2> QED BY <1>0, <1>2, <1>3, <1>4, <1>9, <2>1, <2>2, <2>3, <2>5, <2>6, <2>7
<1> QED BY <1>1, <1>0, <1>8, <1>9

ListsMirror ==
    /\ tracker.recent \in Seq(Latencies) /\ stats.list \in Seq(Latencies)
    /\ Mirrored(tracker.recent, stats.list) /\ Len(tracker.recent) <= RecentSize
    /\ everRecorded # <<>> =>
          /\ tracker.p50 = Median(tracker.recent)
          /\ tracker.p99 = Percentile99(tracker.recent)

SamplesCounted ==
    /\ everRecorded \in Seq(Latencies)
    /\ tracker.samples = Len(everRecorded) /\ stats.samples = Len(everRecorded)
    /\ tracker.avg \in Nat /\ stats.total \in Nat
    /\ everRecorded = <<>> => tracker.avg = 0 /\ stats.total = 0 /\ tracker.max = 0

(* The extremes are of all samples, and the averages between them.          *)
AveragesBetween ==
    everRecorded # <<>> =>
        /\ tracker.min \in ToSet(everRecorded) /\ tracker.max \in ToSet(everRecorded)
        /\ \A x \in ToSet(everRecorded) : tracker.min <= x /\ x <= tracker.max
        /\ tracker.avg \in (tracker.min * AvgScale)..(tracker.max * AvgScale)
        /\ stats.total \in (tracker.min * stats.samples)..(tracker.max * stats.samples)

(* A sample compared with itself is never stored.                           *)
NothingStored == stats.min = Absent /\ stats.max = Absent

LatencyInv == ListsMirror /\ SamplesCounted /\ AveragesBetween /\ NothingStored

LEMMA LatencyStarts == LatencyInit => LatencyInv
<1> SUFFICES ASSUME LatencyInit PROVE LatencyInv OBVIOUS
<1>0. RecentSize \in Nat \ {0} BY LatencyAssumption
<1>1. /\ everRecorded = <<>> /\ tracker.recent = <<>> /\ stats.list = <<>>
      /\ tracker.samples = 0 /\ stats.samples = 0 /\ tracker.avg = 0
      /\ stats.total = 0 /\ tracker.max = 0
  BY DEF LatencyInit, NoTracker, NoStats
<1>2. <<>> \in Seq(Latencies) /\ Len(<<>>) = 0 OBVIOUS
<1>3. ListsMirror BY <1>0, <1>1, <1>2 DEF ListsMirror, Mirrored
<1>4. SamplesCounted BY <1>1, <1>2 DEF SamplesCounted
<1>5. AveragesBetween BY <1>1 DEF AveragesBetween
<1>6. NothingStored BY DEF LatencyInit, NoStats, NothingStored
<1> QED BY <1>3, <1>4, <1>5, <1>6 DEF LatencyInv

LEMMA SamplesOfSeq ==
    ASSUME NEW S, NEW s \in Seq(S)
    PROVE  ToSet(s) \subseteq S
<1> SUFFICES ASSUME NEW v \in ToSet(s) PROVE v \in S OBVIOUS
<1>1. PICK i \in DOMAIN s : v = s[i] BY DEF ToSet
<1>2. DOMAIN s = 1..Len(s) OBVIOUS
<1> QED BY <1>1, <1>2

(* Ten times the new average is at most 9 less than the sum it is of.       *)
LEMMA MovingAverageBetween ==
    ASSUME NEW low \in Nat, NEW high \in Nat, NEW x \in low..high, NEW a \in low..high
    PROVE  (x + 9 * a) \div 10 \in low..high
OBVIOUS

LEMMA RecordLatencyStep ==
    ASSUME LatencyInv, NEW x \in Latencies, RecordLatency(x)
    PROVE  LatencyInv'
<1>0. /\ RecentSize \in Nat \ {0} /\ AvgScale \in Nat \ {0} /\ x \in Nat
      /\ Latencies \subseteq Nat
  BY LatencyAssumption
<1>1. /\ everRecorded' = Append(everRecorded, x)
      /\ tracker' = Recorded(tracker, x) /\ stats' = Pushed(stats, x)
  BY DEF RecordLatency
<1> DEFINE longer == Append(tracker.recent, x)
           recent == IF Len(longer) > RecentSize THEN Tail(longer) ELSE longer
<1>2. /\ tracker'.recent = recent
      /\ tracker'.p50 = Median(recent) /\ tracker'.p99 = Percentile99(recent)
      /\ tracker'.samples = tracker.samples + 1
      /\ tracker'.min = IF tracker.samples = 0 \/ x < tracker.min THEN x ELSE tracker.min
      /\ tracker'.max = IF x > tracker.max THEN x ELSE tracker.max
      /\ tracker'.avg = IF tracker.avg = 0 THEN x * AvgScale
                        ELSE (x * AvgScale + 9 * tracker.avg) \div 10
  BY <1>1 DEF Recorded
<1>3. /\ stats'.list = Newest(<<x>> \o stats.list, RecentSize)
      /\ stats'.total = stats.total + x /\ stats'.samples = stats.samples + 1
  BY <1>1 DEF Pushed
<1>4. /\ recent \in Seq(Latencies) /\ stats'.list \in Seq(Latencies)
      /\ Mirrored(recent, stats'.list) /\ Len(recent) <= RecentSize
  BY <1>3, MirrorsGrow DEF LatencyInv, ListsMirror
<1> HIDE DEF longer, recent
<1>5. ListsMirror'
  BY <1>2, <1>4 DEF ListsMirror, Median, Percentile99, Ranked, Below, UpTo, Mirrored
<1>6. everRecorded \in Seq(Latencies) BY DEF LatencyInv, SamplesCounted
<1>7. PICK n \in Nat : n = Len(everRecorded) BY <1>6
<1>8. /\ everRecorded' \in Seq(Latencies) /\ Len(everRecorded') = n + 1
      /\ everRecorded' # <<>>
      /\ ToSet(everRecorded') = ToSet(everRecorded) \cup {x}
  <2>1. /\ Append(everRecorded, x) \in Seq(Latencies)
        /\ Len(Append(everRecorded, x)) = Len(everRecorded) + 1
        /\ Append(everRecorded, x)[Len(everRecorded) + 1] = x
    BY <1>6
  <2>2. \A i \in 1..Len(everRecorded) : Append(everRecorded, x)[i] = everRecorded[i]
    BY <1>6
  <2>3. DOMAIN everRecorded = 1..n /\ DOMAIN Append(everRecorded, x) = 1..(n + 1)
    BY <1>6, <1>7, <2>1
  <2>4. 1..(n + 1) = (1..n) \cup {n + 1} OBVIOUS
  <2>5. ToSet(Append(everRecorded, x)) = ToSet(everRecorded) \cup {x}
    BY <1>7, <2>1, <2>2, <2>3, <2>4 DEF ToSet
  <2>6. Len(Append(everRecorded, x)) # Len(<<>>) BY <1>7, <2>1
  <2> QED BY <1>1, <1>7, <2>1, <2>5, <2>6
<1>9. PICK a \in Nat, t \in Nat, y \in Nat :
          a = tracker.avg /\ t = stats.total /\ y = x * AvgScale
  <2>1. x * AvgScale \in Nat BY <1>0
  <2> QED BY <2>1 DEF LatencyInv, SamplesCounted
<1>10. SamplesCounted'
  <2>1. tracker'.samples = Len(everRecorded') /\ stats'.samples = Len(everRecorded')
    BY <1>2, <1>3, <1>7, <1>8 DEF LatencyInv, SamplesCounted
  <2>2. (y + 9 * a) \div 10 \in Nat
    <3>1. y + 9 * a \in Nat OBVIOUS
    <3> QED BY <3>1
  <2>3. tracker'.avg \in Nat BY <1>2, <1>9, <2>2
  <2>4. stats'.total \in Nat BY <1>0, <1>3, <1>9
  <2> QED BY <1>3, <1>8, <2>1, <2>3, <2>4 DEF SamplesCounted
<1>11. AveragesBetween'
  <2> SUFFICES
        /\ tracker'.min \in ToSet(everRecorded') /\ tracker'.max \in ToSet(everRecorded')
        /\ \A v \in ToSet(everRecorded') : tracker'.min <= v /\ v <= tracker'.max
        /\ tracker'.avg \in (tracker'.min * AvgScale)..(tracker'.max * AvgScale)
        /\ stats'.total \in (tracker'.min * stats'.samples)..(tracker'.max * stats'.samples)
    BY DEF AveragesBetween, ToSet
  <2>1. CASE everRecorded = <<>>
    <3>1. /\ tracker.samples = 0 /\ stats.samples = 0 /\ tracker.avg = 0
          /\ stats.total = 0 /\ tracker.max = 0
      BY <2>1 DEF LatencyInv, SamplesCounted
    <3>2. tracker'.min = x /\ tracker'.max = x BY <1>0, <1>2, <3>1
    <3>3. tracker'.avg = y /\ stats'.total = x /\ stats'.samples = 1
      BY <1>0, <1>2, <1>3, <1>9, <3>1
    <3>4. ToSet(everRecorded') = {x}
      <4>1. ToSet(<<>>) = {} BY DEF ToSet
      <4> QED BY <1>8, <2>1, <4>1
    <3>5. x * 1 = x BY <1>0
    <3> QED BY <1>0, <1>9, <3>2, <3>3, <3>4, <3>5
  <2>2. CASE everRecorded # <<>>
    <3>1. /\ tracker.min \in ToSet(everRecorded) /\ tracker.max \in ToSet(everRecorded)
          /\ \A v \in ToSet(everRecorded) : tracker.min <= v /\ v <= tracker.max
          /\ a \in (tracker.min * AvgScale)..(tracker.max * AvgScale)
          /\ t \in (tracker.min * n)..(tracker.max * n)
      BY <1>7, <1>9, <2>2 DEF LatencyInv, SamplesCounted, AveragesBetween
    <3>2. ToSet(everRecorded) \subseteq Nat BY <1>0, <1>6, SamplesOfSeq
    <3>3. PICK lo \in Nat, hi \in Nat : lo = tracker.min /\ hi = tracker.max
      BY <3>1, <3>2
    <3>4. lo <= hi BY <3>1, <3>3
    <3>5. PICK low \in Nat, high \in Nat : low = tracker'.min /\ high = tracker'.max
      BY <1>0, <1>2, <3>3
    <3>6. /\ low <= lo /\ hi <= high /\ low <= x /\ x <= high
          /\ low \in {x, lo} /\ high \in {x, hi}
      <4>1. tracker.samples # 0
        <5>1. Len(everRecorded) # 0 BY <1>6, <2>2
        <5> QED BY <5>1 DEF LatencyInv, SamplesCounted
      <4> QED BY <1>0, <1>2, <3>3, <3>5, <4>1
    <3>7. /\ low \in ToSet(everRecorded') /\ high \in ToSet(everRecorded')
          /\ \A v \in ToSet(everRecorded') : low <= v /\ v <= high
      <4>1. low \in ToSet(everRecorded') /\ high \in ToSet(everRecorded')
        BY <1>8, <3>1, <3>3, <3>6
      <4>2. ASSUME NEW v \in ToSet(everRecorded') PROVE low <= v /\ v <= high
        <5>1. CASE v = x BY <3>6, <5>1
        <5>2. CASE v \in ToSet(everRecorded)
          <6>1. v \in Nat /\ lo <= v /\ v <= hi BY <3>1, <3>2, <3>3, <5>2
          <6> QED BY <3>6, <6>1
        <5> QED BY <1>8, <4>2, <5>1, <5>2
      <4> QED BY <4>1, <4>2
    <3>8. /\ low * AvgScale <= lo * AvgScale /\ hi * AvgScale <= high * AvgScale
          /\ low * AvgScale <= y /\ y <= high * AvgScale
          /\ low * AvgScale \in Nat /\ high * AvgScale \in Nat
          /\ lo * AvgScale \in Nat /\ hi * AvgScale \in Nat
      BY <1>0, <1>9, <3>6
    <3>9. PICK lowest \in Nat, highest \in Nat :
              /\ lowest = low * AvgScale /\ highest = high * AvgScale
              /\ y \in lowest..highest /\ a \in lowest..highest
      <4>1. lo * AvgScale <= a /\ a <= hi * AvgScale BY <3>1, <3>3, <3>8
      <4> QED BY <3>8, <4>1
    <3>10. tracker'.avg \in lowest..highest
      <4>1. (y + 9 * a) \div 10 \in lowest..highest BY <3>9, MovingAverageBetween
      <4> QED BY <1>2, <1>9, <3>9, <4>1
    <3>11. stats'.total \in (low * (n + 1))..(high * (n + 1))
      <4>1. /\ low * n <= lo * n /\ hi * n <= high * n
            /\ low * n \in Nat /\ lo * n \in Nat /\ hi * n \in Nat /\ high * n \in Nat
        BY <3>6
      <4>2. low * (n + 1) = low * n + low /\ high * (n + 1) = high * n + high OBVIOUS
      <4>3. lo * n <= t /\ t <= hi * n BY <3>1, <3>3, <4>1
      <4>4. stats'.total = t + x BY <1>3, <1>9
      <4> QED BY <1>0, <3>6, <4>1, <4>2, <4>3, <4>4
    <3>12. stats'.samples = n + 1
      BY <1>3, <1>7 DEF LatencyInv, SamplesCounted
    <3> QED BY <3>5, <3>7, <3>9, <3>10, <3>11, <3>12
  <2> QED BY <2>1, <2>2
<1>12. NothingStored'
  <2>1. stats.min = Absent /\ stats.max = Absent BY DEF LatencyInv, NothingStored
  <2>2. stats'.min = LessMin(stats, x) /\ stats'.max = MoreMax(stats, x)
    BY <1>1 DEF Pushed
  <2>3. ~ (x < x) BY <1>0
  <2> QED BY <2>1, <2>2, <2>3 DEF LessMin, MoreMax, OrSample, NothingStored
<1> QED BY <1>5, <1>10, <1>11, <1>12 DEF LatencyInv

LEMMA LatencyInvImplies == LatencyInv => PercentilesAgree
<1> SUFFICES ASSUME LatencyInv, everRecorded # <<>>
             PROVE  LET all == ToSet(everRecorded) IN
                    /\ tracker.samples = stats.samples
                    /\ tracker.p50 = Median(stats.list)
                    /\ tracker.p99 = Percentile99(stats.list)
                    /\ tracker.min = Min(all) /\ tracker.max = Max(all)
                    /\ tracker.avg \in (Min(all) * AvgScale)..(Max(all) * AvgScale)
                    /\ Reported(stats.min) = 0 /\ Reported(stats.max) = 0
                    /\ stats.total \in (Min(all) * stats.samples)..(Max(all) * stats.samples)
  BY DEF PercentilesAgree
<1> DEFINE all == ToSet(everRecorded)
<1>1. /\ tracker.p50 = Median(stats.list) /\ tracker.p99 = Percentile99(stats.list)
  <2>1. /\ tracker.recent \in Seq(Latencies) /\ stats.list \in Seq(Latencies)
        /\ Mirrored(tracker.recent, stats.list)
        /\ Len(tracker.recent) = Len(stats.list)
        /\ tracker.p50 = Median(tracker.recent)
        /\ tracker.p99 = Percentile99(tracker.recent)
    BY DEF LatencyInv, ListsMirror, Mirrored
  <2>2. \A rank : Ranked(tracker.recent, rank) = Ranked(stats.list, rank)
    BY <2>1, MirrorsRankAlike
  <2> QED BY <2>1, <2>2 DEF Median, Percentile99
<1>2. all \subseteq Nat
  BY LatencyAssumption, SamplesOfSeq DEF LatencyInv, SamplesCounted
<1>3. /\ tracker.min \in all /\ tracker.max \in all
      /\ \A x \in all : tracker.min <= x /\ x <= tracker.max
  BY DEF LatencyInv, AveragesBetween
<1> HIDE DEF all
<1>4. \A v \in all : (\A x \in all : v <= x) => v = tracker.min
  <2> SUFFICES ASSUME NEW v \in all, \A x \in all : v <= x PROVE v = tracker.min OBVIOUS
  <2>1. v <= tracker.min /\ tracker.min <= v BY <1>3
  <2>2. PICK m : m = tracker.min OBVIOUS
  <2>3. v \in Nat /\ m \in Nat BY <1>2, <1>3, <2>2
  <2> QED BY <2>1, <2>2, <2>3
<1>5. \A v \in all : (\A x \in all : v >= x) => v = tracker.max
  <2> SUFFICES ASSUME NEW v \in all, \A x \in all : v >= x PROVE v = tracker.max OBVIOUS
  <2>1. v >= tracker.max /\ v <= tracker.max BY <1>3
  <2>2. PICK m : m = tracker.max OBVIOUS
  <2>3. v \in Nat /\ m \in Nat BY <1>2, <1>3, <2>2
  <2> QED BY <2>1, <2>2, <2>3
<1>6. Min(all) = tracker.min
  <2>1. \E v \in all : \A x \in all : v <= x BY <1>3
  <2> QED BY <1>4, <2>1 DEF Min
<1>7. Max(all) = tracker.max
  <2>1. \A x \in all : tracker.max >= x
    <3> SUFFICES ASSUME NEW x \in all PROVE tracker.max >= x OBVIOUS
    <3>1. x \in Nat /\ tracker.max \in Nat BY <1>2, <1>3
    <3> QED BY <1>3, <3>1
  <2>2. \E v \in all : \A x \in all : v >= x BY <1>3, <2>1
  <2> QED BY <1>5, <2>2 DEF Max
<1>8. /\ tracker.avg \in (Min(all) * AvgScale)..(Max(all) * AvgScale)
      /\ stats.total \in (Min(all) * stats.samples)..(Max(all) * stats.samples)
      /\ tracker.samples = stats.samples
  BY <1>6, <1>7 DEF LatencyInv, AveragesBetween, SamplesCounted
<1>9. Reported(stats.min) = 0 /\ Reported(stats.max) = 0
  BY DEF LatencyInv, NothingStored, Reported
<1> QED BY <1>1, <1>6, <1>7, <1>8, <1>9 DEF all

(* A key's statistics do not depend on the backend that keeps them: the     *)
(* percentiles agree, and both averages lie between the extremes of all the *)
(* samples, of which the tracker still knows those its window has lost and  *)
(* Redis reports none.                                                      *)
THEOREM StatisticsAgree == LatencySpec => []PercentilesAgree
<1>1. LatencyInv /\ [LatencyNext]_latencyVars => LatencyInv'
  <2> SUFFICES ASSUME LatencyInv, [LatencyNext]_latencyVars PROVE LatencyInv' OBVIOUS
  <2>1. CASE UNCHANGED latencyVars
    BY <2>1 DEF latencyVars, LatencyInv, ListsMirror, SamplesCounted, AveragesBetween,
       NothingStored, Mirrored
  <2> QED BY <2>1, RecordLatencyStep DEF LatencyNext
<1> QED BY <1>1, LatencyStarts, LatencyInvImplies, PTL DEF LatencySpec

-----------------------------------------------------------------------------
(* The estimates.                                                           *)
Message == [role : Roles, text : Texts, images : 0..1, list : BOOLEAN]

EstimateTypeOK ==
    /\ messages \in Seq(Message)
    /\ maxTokens \in MaxTokens /\ encoder \in BOOLEAN
    /\ task \in {"chat", "code", "summarization"} /\ family \in {35, 38, 40}

LEMMA TextsAreCounted ==
    ASSUME EstimateTypeOK, NEW t \in Texts \cup Roles
    PROVE  /\ t.chars \in Nat /\ t.tokens \in Nat
           /\ CountTokens(t) \in Nat /\ (encoder => CountTokens(t) >= t.tokens)
<1>1. PICK chars \in Nat, n \in Nat : chars = t.chars /\ n = t.tokens /\ n <= chars
  BY EstimatorAssumption
<1>2. (10 * chars) \div family \in Nat
  <2>1. PICK f \in Nat \ {0} : f = family BY DEF EstimateTypeOK
  <2>2. 10 * chars \in Nat OBVIOUS
  <2>3. (10 * chars) \div f \in Nat BY <2>1, <2>2
  <2> QED BY <2>1, <2>3
<1> QED BY <1>1, <1>2 DEF CountTokens, AtLeastOne

(* What a message costs, to either package.                                 *)
LEMMA MessagesCost ==
    ASSUME EstimateTypeOK, NEW m \in Message
    PROVE  /\ MessageTokens(m) \in Nat /\ MessageTokens(m) >= 4
           /\ SdkTokens(m) \in Nat /\ SdkChars(m) \in Nat
           /\ encoder => SdkTokens(m) <= MessageTokens(m)
<1>1. /\ m.text \in Texts /\ m.role \in Roles /\ m.images \in 0..1 /\ m.list \in BOOLEAN
  BY DEF Message
<1>2. PICK a \in Nat, b \in Nat, n \in Nat, chars \in Nat, images \in Nat :
          /\ a = CountTokens(m.text) /\ b = CountTokens(m.role)
          /\ n = m.text.tokens /\ chars = m.text.chars /\ images = m.images
          /\ encoder => a >= n
  <2>1. /\ m.text.chars \in Nat /\ m.text.tokens \in Nat
        /\ CountTokens(m.text) \in Nat
        /\ encoder => CountTokens(m.text) >= m.text.tokens
    BY <1>1, TextsAreCounted
  <2>2. CountTokens(m.role) \in Nat BY <1>1, TextsAreCounted
  <2>3. m.images \in Nat BY <1>1
  <2> QED BY <2>1, <2>2, <2>3
<1>3. MessageTokens(m) = 4 + a + 85 * images + b BY <1>2 DEF MessageTokens
<1>4. SdkTokens(m) = (IF m.list THEN 4 ELSE 4 + n) BY <1>2 DEF SdkTokens
<1>5. SdkChars(m) = (IF m.list THEN chars + ReprChars ELSE chars) BY <1>2 DEF SdkChars
<1>6. ReprChars \in Nat BY EstimatorAssumption
<1>7. MessageTokens(m) \in Nat /\ MessageTokens(m) >= 4 BY <1>2, <1>3
<1>8. CASE m.list
  <2>1. SdkTokens(m) = 4 /\ SdkChars(m) = chars + ReprChars BY <1>4, <1>5, <1>8
  <2> QED BY <1>2, <1>6, <1>7, <2>1
<1>9. CASE ~ m.list
  <2>1. SdkTokens(m) = 4 + n /\ SdkChars(m) = chars BY <1>4, <1>5, <1>9
  <2> QED BY <1>2, <1>3, <1>7, <2>1
<1> QED BY <1>8, <1>9

(* A message more costs what it costs.                                      *)
LEMMA OneMoreCost ==
    ASSUME NEW n \in Nat, NEW f \in [1..n -> Nat], NEW g \in [1..(n + 1) -> Nat],
           \A i \in 1..n : g[i] = f[i]
    PROVE  /\ SumOver(g, 1..(n + 1)) = g[n + 1] + SumOver(f, 1..n)
           /\ SumOver(f, 1..n) \in Nat
<1>1. PICK S : S = 1..n OBVIOUS
<1>2. IsFiniteSet(S) /\ n + 1 \notin S /\ S \cup {n + 1} = 1..(n + 1)
  <2>1. IsFiniteSet(1..n) BY FS_Interval
  <2>2. n + 1 \notin 1..n /\ (1..n) \cup {n + 1} = 1..(n + 1) OBVIOUS
  <2> QED BY <1>1, <2>1, <2>2
<1>3. \A i \in S \cup {n + 1} : g[i] \in Nat BY <1>2
<1>4. SumOver(g, S \cup {n + 1}) = g[n + 1] + SumOver(g, S) BY <1>2, <1>3, SumWith
<1>5. SumOver(g, S) = SumOver(f, S) BY <1>1, <1>2, SumOfSame
<1>6. \A i \in S : f[i] \in Nat BY <1>1
<1>7. SumOver(f, S) \in Nat BY <1>2, <1>6, SumIsNat
<1> QED BY <1>1, <1>2, <1>4, <1>5, <1>7

(* The estimates grow with what they are made from.                         *)
LEMMA OutputsGrow ==
    ASSUME EstimateTypeOK, NEW a \in Nat, NEW b \in Nat, a <= b
    PROVE  /\ OutputTokens(a) \in Nat /\ OutputTokens(a) <= OutputTokens(b)
           /\ OutputTokens(b) \in Nat
           /\ SdkOutputTokens(a) \in Nat /\ SdkOutputTokens(a) <= SdkOutputTokens(b)
           /\ SdkOutputTokens(b) \in Nat
           /\ task # "summarization" /\ maxTokens # 0 =>
                 SdkOutputTokens(a) <= OutputTokens(b)
<1>1. PICK k \in {15, 20, 3} : k = Multiplier[task] /\ (task # "summarization" => k >= 15)
  BY DEF EstimateTypeOK, Multiplier
<1>2. /\ (a * k) \div 10 \in Nat /\ (b * k) \div 10 \in Nat
      /\ (a * k) \div 10 <= (b * k) \div 10
      /\ (a * 15) \div 10 \in Nat /\ (b * 15) \div 10 \in Nat
      /\ (a * 15) \div 10 <= (b * 15) \div 10
      /\ k >= 15 => (a * 15) \div 10 <= (b * k) \div 10
  <2>1. CASE k = 15 BY <2>1
  <2>2. CASE k = 20 BY <2>2
  <2>3. CASE k = 3 BY <2>3
  <2> QED BY <2>1, <2>2, <2>3
<1>3. PICK x \in Nat, y \in Nat, u \in Nat, v \in Nat :
          /\ x = (a * k) \div 10 /\ y = (b * k) \div 10 /\ x <= y
          /\ u = (a * 15) \div 10 /\ v = (b * 15) \div 10 /\ u <= v
          /\ k >= 15 => u <= y
  BY <1>2
<1>4. maxTokens \in Nat \cup {NoMaxTokens} BY EstimatorAssumption DEF EstimateTypeOK
<1>5. /\ OutputTokens(a) = AtLeastOne(IF maxTokens = NoMaxTokens THEN x ELSE Capped(x, maxTokens))
      /\ OutputTokens(b) = AtLeastOne(IF maxTokens = NoMaxTokens THEN y ELSE Capped(y, maxTokens))
  BY <1>1, <1>3 DEF OutputTokens
<1>6. /\ SdkOutputTokens(a) =
            AtLeastOne(IF maxTokens \in {NoMaxTokens, 0} THEN u ELSE Capped(u, maxTokens))
      /\ SdkOutputTokens(b) =
            AtLeastOne(IF maxTokens \in {NoMaxTokens, 0} THEN v ELSE Capped(v, maxTokens))
  BY <1>3 DEF SdkOutputTokens
<1> QED BY <1>1, <1>3, <1>4, <1>5, <1>6 DEF AtLeastOne, Capped, NoMaxTokens

LEMMA MessageAdded ==
    ASSUME NEW r \in Roles, NEW c \in Contents, AddMessage(r, c)
    PROVE  \E m \in Message : messages' = Append(messages, m)
<1> DEFINE m == [role |-> r, text |-> c.text, images |-> c.images, list |-> c.list]
<1>1. c.text \in Texts /\ c.images \in 0..1 /\ c.list \in BOOLEAN
  <2>1. CASE \E t \in Texts : c = [text |-> t, images |-> 0, list |-> FALSE] BY <2>1
  <2>2. CASE \E t \in Texts, n \in 0..1 : c = [text |-> t, images |-> n, list |-> TRUE]
    BY <2>2
  <2> QED BY <2>1, <2>2 DEF Contents
<1>2. m \in Message BY <1>1 DEF Message
<1> QED BY <1>2 DEF AddMessage

LEMMA EstimateStarts == EstimateInit => EstimateTypeOK
BY DEF EstimateInit, EstimateTypeOK

LEMMA EstimateTypeStep == EstimateTypeOK /\ [EstimateNext]_estimateVars => EstimateTypeOK'
<1> SUFFICES ASSUME EstimateTypeOK, [EstimateNext]_estimateVars PROVE EstimateTypeOK' OBVIOUS
<1>1. ASSUME NEW r \in Roles, NEW c \in Contents, AddMessage(r, c)
      PROVE  EstimateTypeOK'
  <2>1. PICK m \in Message : messages' = Append(messages, m) BY <1>1, MessageAdded
  <2>2. messages' \in Seq(Message) BY <2>1 DEF EstimateTypeOK
  <2> QED BY <1>1, <2>2 DEF AddMessage, EstimateTypeOK
<1>2. CASE UNCHANGED estimateVars BY <1>2 DEF estimateVars, EstimateTypeOK
<1> QED BY <1>1, <1>2 DEF EstimateNext

(* What each message costs, and the counts as sums.                         *)
ServerCosts == [i \in DOMAIN messages |-> MessageTokens(messages[i])]
SdkCosts == [i \in DOMAIN messages |-> SdkTokens(messages[i])]
SdkLengths == [i \in DOMAIN messages |-> SdkChars(messages[i])]

CountsSum ==
    /\ InputTokens = SumOver(ServerCosts, DOMAIN messages) + 3
    /\ SdkInputTokens = IF encoder THEN SumOver(SdkCosts, DOMAIN messages) + 3
                        ELSE AtLeastOne(SumOver(SdkLengths, DOMAIN messages) \div 4)

CostsTypeOK ==
    /\ ServerCosts \in [1..Len(messages) -> Nat]
    /\ SdkCosts \in [1..Len(messages) -> Nat]
    /\ SdkLengths \in [1..Len(messages) -> Nat]
    /\ \A i \in 1..Len(messages) : ServerCosts[i] >= 4
    /\ encoder => \A i \in 1..Len(messages) : SdkCosts[i] <= ServerCosts[i]

LEMMA CountsAreSums == CountsSum
BY DEF CountsSum, InputTokens, SdkInputTokens, InAll, SumOver,
   ServerCosts, SdkCosts, SdkLengths

LEMMA CostsAreNat == EstimateTypeOK => CostsTypeOK
<1> SUFFICES ASSUME EstimateTypeOK PROVE CostsTypeOK OBVIOUS
<1>1. /\ DOMAIN messages = 1..Len(messages)
      /\ \A i \in 1..Len(messages) : messages[i] \in Message
  BY DEF EstimateTypeOK
<1>2. ASSUME NEW i \in 1..Len(messages)
      PROVE  /\ ServerCosts[i] \in Nat /\ SdkCosts[i] \in Nat /\ SdkLengths[i] \in Nat
             /\ ServerCosts[i] >= 4 /\ (encoder => SdkCosts[i] <= ServerCosts[i])
  <2>1. /\ ServerCosts[i] = MessageTokens(messages[i])
        /\ SdkCosts[i] = SdkTokens(messages[i]) /\ SdkLengths[i] = SdkChars(messages[i])
    BY <1>1 DEF ServerCosts, SdkCosts, SdkLengths
  <2>2. PICK m \in Message : m = messages[i] BY <1>1
  <2> QED BY <2>1, <2>2, MessagesCost
<1>3. /\ ServerCosts = [i \in 1..Len(messages) |-> ServerCosts[i]]
      /\ SdkCosts = [i \in 1..Len(messages) |-> SdkCosts[i]]
      /\ SdkLengths = [i \in 1..Len(messages) |-> SdkLengths[i]]
  BY <1>1 DEF ServerCosts, SdkCosts, SdkLengths
<1> QED BY <1>2, <1>3 DEF CostsTypeOK

LEMMA QuartersGrow ==
    ASSUME NEW a \in Nat, NEW b \in Nat, a <= b
    PROVE  a \div 4 \in Nat /\ b \div 4 \in Nat /\ a \div 4 <= b \div 4
OBVIOUS

(* What the counts of a longer request are.                                 *)
LEMMA InputsGrow ==
    ASSUME EstimateTypeOK, EstimateTypeOK', NEW m, messages' = Append(messages, m),
           UNCHANGED <<maxTokens, encoder, task, family>>
    PROVE  /\ InputTokens \in Nat /\ InputTokens' \in Nat
           /\ InputTokens' >= InputTokens + 4
           /\ SdkInputTokens \in Nat /\ SdkInputTokens' \in Nat
           /\ SdkInputTokens' >= SdkInputTokens
           /\ encoder => SdkInputTokens' <= InputTokens'
           /\ Len(messages') = Len(messages) + 1
<1>1. PICK n \in Nat : n = Len(messages) BY DEF EstimateTypeOK
<1>2. /\ DOMAIN messages = 1..n /\ Len(messages') = n + 1
      /\ DOMAIN messages' = 1..(n + 1)
      /\ \A i \in 1..n : messages'[i] = messages[i]
  <2>1. /\ Len(Append(messages, m)) = Len(messages) + 1
        /\ \A i \in 1..Len(messages) : Append(messages, m)[i] = messages[i]
    BY DEF EstimateTypeOK
  <2>2. DOMAIN messages = 1..Len(messages) BY DEF EstimateTypeOK
  <2>3. DOMAIN messages' = 1..Len(messages') BY DEF EstimateTypeOK
  <2> QED BY <1>1, <2>1, <2>2, <2>3
<1>3. PICK f, sf, cf : f = ServerCosts /\ sf = SdkCosts /\ cf = SdkLengths OBVIOUS
<1>4. PICK g, sg, cg : g = ServerCosts' /\ sg = SdkCosts' /\ cg = SdkLengths' OBVIOUS
<1>5. /\ f \in [1..n -> Nat] /\ sf \in [1..n -> Nat] /\ cf \in [1..n -> Nat]
  BY <1>1, <1>3, CostsAreNat DEF CostsTypeOK
<1>6. /\ g \in [1..(n + 1) -> Nat] /\ sg \in [1..(n + 1) -> Nat]
      /\ cg \in [1..(n + 1) -> Nat] /\ g[n + 1] >= 4
      /\ encoder => \A i \in 1..(n + 1) : sg[i] <= g[i]
  <2>1. CostsTypeOK' BY CostsAreNat, PTL
  <2> QED BY <1>2, <1>4, <2>1 DEF CostsTypeOK
<1>7. \A i \in 1..n : g[i] = f[i] /\ sg[i] = sf[i] /\ cg[i] = cf[i]
  <2> SUFFICES ASSUME NEW i \in 1..n
               PROVE  g[i] = f[i] /\ sg[i] = sf[i] /\ cg[i] = cf[i]
    OBVIOUS
  <2>1. i \in 1..(n + 1) OBVIOUS
  <2>2. /\ f[i] = MessageTokens(messages[i]) /\ sf[i] = SdkTokens(messages[i])
        /\ cf[i] = SdkChars(messages[i])
    BY <1>2, <1>3 DEF ServerCosts, SdkCosts, SdkLengths
  <2>3. g[i] = MessageTokens(messages[i])
    BY <1>2, <1>4, <2>1 DEF ServerCosts, MessageTokens, CountTokens
  <2>4. sg[i] = SdkTokens(messages[i])
    BY <1>2, <1>4, <2>1 DEF SdkCosts, SdkTokens
  <2>5. cg[i] = SdkChars(messages[i])
    BY <1>2, <1>4, <2>1 DEF SdkLengths, SdkChars
  <2> QED BY <2>2, <2>3, <2>4, <2>5
<1>8. /\ InputTokens = SumOver(f, 1..n) + 3
      /\ SdkInputTokens = IF encoder THEN SumOver(sf, 1..n) + 3
                          ELSE AtLeastOne(SumOver(cf, 1..n) \div 4)
  BY <1>2, <1>3, CountsAreSums DEF CountsSum
<1>9. /\ InputTokens' = SumOver(g, 1..(n + 1)) + 3
      /\ SdkInputTokens' = IF encoder THEN SumOver(sg, 1..(n + 1)) + 3
                           ELSE AtLeastOne(SumOver(cg, 1..(n + 1)) \div 4)
  <2>1. CountsSum' BY CountsAreSums, PTL
  <2> QED BY <1>2, <1>4, <2>1 DEF CountsSum
<1>10. /\ SumOver(g, 1..(n + 1)) = g[n + 1] + SumOver(f, 1..n)
       /\ SumOver(f, 1..n) \in Nat
  BY <1>5, <1>6, <1>7, OneMoreCost
<1>11. /\ SumOver(sg, 1..(n + 1)) = sg[n + 1] + SumOver(sf, 1..n)
       /\ SumOver(sf, 1..n) \in Nat
  BY <1>5, <1>6, <1>7, OneMoreCost
<1>12. /\ SumOver(cg, 1..(n + 1)) = cg[n + 1] + SumOver(cf, 1..n)
       /\ SumOver(cf, 1..n) \in Nat
  BY <1>5, <1>6, <1>7, OneMoreCost
<1>13. g[n + 1] \in Nat /\ g[n + 1] >= 4 /\ sg[n + 1] \in Nat /\ cg[n + 1] \in Nat
  BY <1>6
<1>14. encoder => SumOver(sg, 1..(n + 1)) <= SumOver(g, 1..(n + 1))
  <2>1. IsFiniteSet(1..(n + 1)) BY FS_Interval
  <2>2. PICK S : S = 1..(n + 1) OBVIOUS
  <2>3. encoder => \A i \in S : sg[i] \in Nat /\ g[i] \in Nat /\ sg[i] <= g[i]
    BY <1>6, <2>2
  <2>4. encoder => SumOver(sg, S) <= SumOver(g, S) BY <2>1, <2>2, <2>3, SumOfLess
  <2> QED BY <2>2, <2>4
<1>15. PICK a, b : a = SumOver(f, 1..n) /\ b = SumOver(g, 1..(n + 1)) OBVIOUS
<1>16. PICK sa, sb : sa = SumOver(sf, 1..n) /\ sb = SumOver(sg, 1..(n + 1)) OBVIOUS
<1>17. PICK ca, cb : ca = SumOver(cf, 1..n) /\ cb = SumOver(cg, 1..(n + 1)) OBVIOUS
<1>18. a \in Nat /\ b \in Nat /\ a + 4 <= b BY <1>10, <1>13, <1>15
<1>19. sa \in Nat /\ sb \in Nat /\ sa <= sb BY <1>11, <1>13, <1>16
<1>20. ca \in Nat /\ cb \in Nat /\ ca <= cb BY <1>12, <1>13, <1>17
<1>21. encoder => sb <= b BY <1>14, <1>15, <1>16
<1>22. PICK qa, qb : qa = ca \div 4 /\ qb = cb \div 4 OBVIOUS
<1>23. qa \in Nat /\ qb \in Nat /\ qa <= qb BY <1>20, <1>22, QuartersGrow
<1>24. InputTokens = a + 3 /\ InputTokens' = b + 3 BY <1>8, <1>9, <1>15
<1>25. CASE encoder
  <2>1. SdkInputTokens = sa + 3 /\ SdkInputTokens' = sb + 3
    BY <1>8, <1>9, <1>16, <1>25
  <2> QED BY <1>1, <1>2, <1>18, <1>19, <1>21, <1>24, <1>25, <2>1
<1>26. CASE ~ encoder
  <2>1. SdkInputTokens = AtLeastOne(qa) /\ SdkInputTokens' = AtLeastOne(qb)
    BY <1>8, <1>9, <1>17, <1>22, <1>26
  <2> QED BY <1>1, <1>2, <1>18, <1>23, <1>24, <1>26, <2>1 DEF AtLeastOne
<1> QED BY <1>25, <1>26

LEMMA TotalsGrow ==
    ASSUME NEW a \in Nat, NEW b \in Nat, a <= b
    PROVE  (a * 11) \div 10 <= (b * 11) \div 10
OBVIOUS

(* A longer request is never estimated at less, and no request at less by   *)
(* the server than by the SDK, where both count tokens.                     *)
THEOREM EstimatesAreOrdered == EstimateSpec => EstimatesOrdered
<1> DEFINE Ordered ==
             /\ TotalTokens' >= TotalTokens /\ SdkTotalTokens' >= SdkTotalTokens
             /\ InputTokens' >= InputTokens + 4 * (Len(messages') - Len(messages))
             /\ encoder /\ task # "summarization" /\ maxTokens # 0 =>
                   TotalTokens' >= SdkTotalTokens'
<1>1. EstimateTypeOK /\ [EstimateNext]_estimateVars => [Ordered]_estimateVars
  <2> SUFFICES ASSUME EstimateTypeOK, NEW r \in Roles, NEW c \in Contents, AddMessage(r, c)
               PROVE  Ordered
    BY DEF EstimateNext
  <2>1. PICK m \in Message : messages' = Append(messages, m) BY MessageAdded
  <2>2. UNCHANGED <<maxTokens, encoder, task, family>> BY DEF AddMessage
  <2>3. PICK a \in Nat, b \in Nat, sa \in Nat, sb \in Nat :
            /\ a = InputTokens /\ b = InputTokens' /\ a + 4 <= b
            /\ sa = SdkInputTokens /\ sb = SdkInputTokens' /\ sa <= sb
            /\ encoder => sb <= b
            /\ Len(messages') = Len(messages) + 1
    <3>1. EstimateTypeOK' BY EstimateTypeStep DEF EstimateNext
    <3>2. PICK ia, ib, isa, isb :
              /\ ia = InputTokens /\ ib = InputTokens'
              /\ isa = SdkInputTokens /\ isb = SdkInputTokens'
      OBVIOUS
    <3>3. /\ ia \in Nat /\ ib \in Nat /\ ia + 4 <= ib
          /\ isa \in Nat /\ isb \in Nat /\ isa <= isb
          /\ encoder => isb <= ib
          /\ Len(messages') = Len(messages) + 1
      BY <2>1, <2>2, <3>1, <3>2, InputsGrow
    <3> QED BY <3>2, <3>3
  <2>4. \A k \in Nat : OutputTokens(k)' = OutputTokens(k)
    BY <2>2 DEF OutputTokens
  <2>5. \A k \in Nat : SdkOutputTokens(k)' = SdkOutputTokens(k)
    BY <2>2 DEF SdkOutputTokens
  <2>6. PICK x \in Nat, y \in Nat, sx \in Nat, sy \in Nat :
            /\ x = OutputTokens(a) /\ y = OutputTokens(b) /\ x <= y
            /\ sx = SdkOutputTokens(sa) /\ sy = SdkOutputTokens(sb) /\ sx <= sy
            /\ encoder /\ task # "summarization" /\ maxTokens # 0 => sy <= y
    <3>1. OutputTokens(a) \in Nat /\ OutputTokens(b) \in Nat
          /\ OutputTokens(a) <= OutputTokens(b)
      <4>1. a <= b BY <2>3
      <4> QED BY <4>1, OutputsGrow
    <3>2. SdkOutputTokens(sa) \in Nat /\ SdkOutputTokens(sb) \in Nat
          /\ SdkOutputTokens(sa) <= SdkOutputTokens(sb)
      BY <2>3, OutputsGrow
    <3>3. encoder /\ task # "summarization" /\ maxTokens # 0 =>
             SdkOutputTokens(sb) <= OutputTokens(b)
      BY <2>3, OutputsGrow
    <3> QED BY <3>1, <3>2, <3>3
  <2>7. /\ TotalTokens = ((a + x) * 11) \div 10 /\ TotalTokens' = ((b + y) * 11) \div 10
        /\ SdkTotalTokens = ((sa + sx) * 11) \div 10
        /\ SdkTotalTokens' = ((sb + sy) * 11) \div 10
    BY <2>3, <2>4, <2>5, <2>6 DEF TotalTokens, SdkTotalTokens
  <2>8. PICK l \in Nat : l = Len(messages) BY DEF EstimateTypeOK
  <2>9. InputTokens' >= InputTokens + 4 * (Len(messages') - Len(messages))
    BY <2>3, <2>8
  <2>10. TotalTokens' >= TotalTokens
    <3>1. a + x \in Nat /\ b + y \in Nat /\ a + x <= b + y BY <2>3, <2>6
    <3> QED BY <2>7, <3>1, TotalsGrow
  <2>11. SdkTotalTokens' >= SdkTotalTokens
    <3>1. sa + sx \in Nat /\ sb + sy \in Nat /\ sa + sx <= sb + sy BY <2>3, <2>6
    <3> QED BY <2>7, <3>1, TotalsGrow
  <2>12. encoder /\ task # "summarization" /\ maxTokens # 0 =>
            TotalTokens' >= SdkTotalTokens'
    <3> SUFFICES ASSUME encoder, task # "summarization", maxTokens # 0
                 PROVE  TotalTokens' >= SdkTotalTokens'
      OBVIOUS
    <3>1. sb + sy \in Nat /\ b + y \in Nat /\ sb + sy <= b + y BY <2>3, <2>6
    <3> QED BY <2>7, <3>1, TotalsGrow
  <2> QED BY <2>9, <2>10, <2>11, <2>12
<1>2. EstimateSpec => [][Ordered]_estimateVars
  BY <1>1, EstimateStarts, EstimateTypeStep, PTL DEF EstimateSpec
<1> QED BY <1>2 DEF EstimatesOrdered
=============================================================================
