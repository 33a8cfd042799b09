------------------------- MODULE TokenBucket_proofs -------------------------
(* Theorems about the token bucket, for every capacity, rate and horizon.  *)
EXTENDS TokenBucket, Buckets_proofs

-----------------------------------------------------------------------------
(* Type correctness.                                                       *)

LEMMA LevelIsTyped ==
    ASSUME TypeOK PROVE Level \in Int /\ Level <= Capacity
<1> USE TokenBucketAssumption
<1>1. tokens + (now - lastUpdate) * Rate \in Int BY DEF TypeOK
<1> QED BY <1>1 DEF Level, AtMost

LEMMA NothingIsTyped == Nothing \in [0..Horizon -> Nat]
BY DEF Nothing

LEMMA InitTypeOK == Init => TypeOK
<1> SUFFICES ASSUME Init PROVE TypeOK
  OBVIOUS
<1> USE TokenBucketAssumption DEF Init
<1>1. tokens \in Int /\ tokens <= Capacity OBVIOUS
<1>2. now \in 0..Horizon /\ lastUpdate \in 0..now /\ since \in 0..lastUpdate OBVIOUS
<1>3. spent \in Int OBVIOUS
<1>5. refunded \in BOOLEAN BY Zenon
<1>4. starts \in [0..Horizon -> Nat] BY NothingIsTyped
<1> QED BY <1>1, <1>2, <1>3, <1>4, <1>5 DEF TypeOK

LEMMA NextTypeOK == TypeOK /\ [Next]_vars => TypeOK'
<1> SUFFICES ASSUME TypeOK, [Next]_vars PROVE TypeOK'
  OBVIOUS
<1> USE TokenBucketAssumption
<1>L. Level \in Int /\ Level <= Capacity BY LevelIsTyped
<1>1. CASE Tick BY <1>1 DEF Tick, TypeOK, history
<1>2. CASE Look BY <1>2, <1>L DEF Look, Settle, TypeOK, history
<1>3. CASE Reset
  <2>1. starts' \in [0..Horizon -> Nat] BY <1>3, NothingIsTyped DEF Reset
  <2>2. tokens' \in Int /\ tokens' <= Capacity BY <1>3 DEF Reset, Settle
  <2>3. now' \in 0..Horizon /\ lastUpdate' \in 0..now' /\ since' \in 0..lastUpdate'
    BY <1>3 DEF Reset, Settle, TypeOK
  <2>4. spent' \in Int BY <1>3 DEF Reset
  <2>5. refunded' \in BOOLEAN BY <1>3, Zenon DEF Reset
  <2> QED BY <2>1, <2>2, <2>3, <2>4, <2>5 DEF TypeOK
<1>4. ASSUME NEW n \in Amounts, Consume(n) PROVE TypeOK'
  BY <1>4, <1>L DEF Consume, Settle, Record, TypeOK
<1>5. ASSUME NEW n \in Amounts, Reserve(n) PROVE TypeOK'
  <2>1. TicksUntil(n, Level, Rate) \in Nat BY <1>L, TicksUntilIsNat
  <2>2. now + TicksUntil(n, Level, Rate) \in 0..Horizon BY <1>5, <2>1 DEF Reserve, TypeOK
  <2> QED BY <1>5, <1>L, <2>2 DEF Reserve, Settle, Record, TypeOK
<1>6. ASSUME NEW n \in Amounts, AddTokens(n) PROVE TypeOK'
  <2>1. AtMost(Capacity, Level + n) \in Int /\ AtMost(Capacity, Level + n) <= Capacity
    BY <1>L DEF AtMost
  <2>2. starts' \in [0..Horizon -> Nat]
    <3>1. PICK t \in since..now : starts[t] >= n /\ starts' = [starts EXCEPT ![t] = @ - n]
      BY <1>6 DEF AddTokens, Erase
    <3>2. starts[t] - n \in Nat BY <3>1 DEF TypeOK
    <3> QED BY <3>1, <3>2 DEF TypeOK
  <2> QED BY <1>6, <2>1, <2>2 DEF AddTokens, Settle, Erase, TypeOK
<1>7. CASE UNCHANGED vars BY <1>7 DEF vars, history, TypeOK
<1> QED BY <1>1, <1>2, <1>3, <1>4, <1>5, <1>6, <1>7 DEF Next

(* The tokens never exceed the capacity, and last_update never runs ahead   *)
(* of the clock.                                                           *)
THEOREM TypeCorrect == Spec => []TypeOK
BY InitTypeOK, NextTypeOK, PTL DEF Spec

-----------------------------------------------------------------------------
(* Refinement of the eager bucket.                                         *)

LEMMA LevelAfterSettle ==
    ASSUME TypeOK, NEW level \in Int, level <= Capacity, Settle(level)
    PROVE  Level' = level
<1> USE TokenBucketAssumption
<1>1. (now' - lastUpdate') * Rate = 0 BY DEF Settle, TypeOK
<1>2. tokens' = level BY DEF Settle
<1> QED BY <1>1, <1>2 DEF Level, AtMost

LEMMA InitRefines == Init => Eager!Init
BY TokenBucketAssumption DEF Init, Eager!Init, Level, AtMost

LEMMA NextRefines ==
    TypeOK /\ [Next]_vars => [Eager!Next]_<<Level, now, since, spent>>
<1> SUFFICES ASSUME TypeOK, [Next]_vars
             PROVE  [Eager!Next]_<<Level, now, since, spent>>
  OBVIOUS
<1> USE TokenBucketAssumption
<1>L. Level \in Int /\ Level <= Capacity BY LevelIsTyped
<1>1. CASE Tick
  <2> DEFINE raw == tokens + (now - lastUpdate) * Rate
  <2>1. raw \in Int BY DEF TypeOK
  <2>2. (now' - lastUpdate') * Rate = (now - lastUpdate) * Rate + Rate
    BY <1>1 DEF Tick, TypeOK
  <2>3. Level' = AtMost(Capacity, raw + Rate)
    BY <1>1, <2>2 DEF Tick, Level, TypeOK
  <2>4. AtMost(Capacity, raw + Rate) = AtMost(Capacity, AtMost(Capacity, raw) + Rate)
    BY <2>1 DEF AtMost
  <2>5. Level = AtMost(Capacity, raw) BY DEF Level
  <2> QED BY <1>1, <2>3, <2>4, <2>5 DEF Tick, history, Eager!Next, Eager!Tick, AtMost, Eager!AtMost
<1>2. CASE Look
  <2>1. Level' = Level BY <1>2, <1>L, LevelAfterSettle DEF Look
  <2> QED BY <1>2, <2>1 DEF Look, Settle, history
<1>3. CASE Reset
  <2>1. Level' = Capacity BY <1>3, LevelAfterSettle DEF Reset
  <2> QED BY <1>3, <2>1 DEF Reset, Settle, Eager!Next, Eager!Reset
<1>4. ASSUME NEW n \in Amounts, Consume(n) \/ Reserve(n)
      PROVE  Eager!Next
  <2>1. Settle(Level - n) BY <1>4 DEF Consume, Reserve
  <2>2. Level' = Level - n
    <3>1. Level - n \in Int /\ Level - n <= Capacity BY <1>L
    <3> QED BY <2>1, <3>1, LevelAfterSettle
  <2>3. spent' = spent + n /\ since' = since
    BY <1>4 DEF Consume, Reserve, Record
  <2>4. Eager!Take(n) BY <2>1, <2>2, <2>3 DEF Settle, Eager!Take
  <2> QED BY <2>4 DEF Eager!Next
<1>5. ASSUME NEW n \in Amounts, AddTokens(n) PROVE Eager!Next
  <2>1. AtMost(Capacity, Level + n) \in Int /\ AtMost(Capacity, Level + n) <= Capacity
    BY <1>L DEF AtMost
  <2>2. Level' = AtMost(Capacity, Level + n)
    BY <1>5, <2>1, LevelAfterSettle DEF AddTokens
  <2>3. Eager!GiveBack(n) BY <1>5, <2>2 DEF AddTokens, Settle, Erase, Eager!GiveBack, AtMost, Eager!AtMost
  <2> QED BY <2>3 DEF Eager!Next
<1>6. CASE UNCHANGED vars
  BY <1>6 DEF vars, history, Level
<1> QED BY <1>1, <1>2, <1>3, <1>4, <1>5, <1>6 DEF Next

(* Looking late makes no difference: the lazy bucket is the eager one.     *)
THEOREM LazyIsEager == Spec => EagerSpec
BY InitRefines, NextRefines, TypeCorrect, PTL DEF Spec, EagerSpec, Eager!Spec, Eager!vars

-----------------------------------------------------------------------------
(* The budget.                                                             *)

LEMMA InitBudget == Init => Budget
BY TokenBucketAssumption, InitTypeOK DEF Init, Budget, Eager!Budget, Level, AtMost

LEMMA NextBudget ==
    TypeOK /\ TypeOK' /\ Budget /\ [Eager!Next]_<<Level, now, since, spent>> => Budget'
<1> SUFFICES ASSUME TypeOK, TypeOK', Budget, [Eager!Next]_<<Level, now, since, spent>>
             PROVE  Budget'
  OBVIOUS
<1> USE TokenBucketAssumption
<1>L. Level \in Int /\ Level <= Capacity BY LevelIsTyped
<1>N. /\ now \in Int /\ since \in Int /\ spent \in Int
      /\ spent + Level <= Capacity + Rate * (now - since)
  BY DEF TypeOK, Budget, Eager!Budget
<1>R. Rate * (now - since) \in Int BY <1>N
<1>1. CASE Eager!Tick
  <2>1. Rate * (now' - since') = Rate * (now - since) + Rate
    BY <1>1, <1>N DEF Eager!Tick
  <2> QED BY <1>1, <2>1, <1>L, <1>N, <1>R DEF Eager!Tick, AtMost, Eager!AtMost, Budget, Eager!Budget
<1>2. CASE Eager!Reset
  <2>1. Rate * (now' - since') = 0 BY <1>2, <1>N DEF Eager!Reset
  <2> QED BY <1>2, <2>1 DEF Eager!Reset, Budget, Eager!Budget
<1>3. ASSUME NEW n \in Amounts, Eager!Take(n) PROVE Budget'
  BY <1>3, <1>L, <1>N, <1>R DEF Eager!Take, Budget, Eager!Budget
<1>4. ASSUME NEW n \in Amounts, Eager!GiveBack(n) PROVE Budget'
  BY <1>4, <1>L, <1>N, <1>R DEF Eager!GiveBack, AtMost, Eager!AtMost, Budget, Eager!Budget
<1>5. CASE UNCHANGED <<Level, now, since, spent>>
  BY <1>5 DEF Budget, Eager!Budget
<1> QED BY <1>1, <1>2, <1>3, <1>4, <1>5 DEF Eager!Next

(* No sequence of consumes, reservations, refunds and looks takes more from *)
(* the bucket than one capacity and the refill of the elapsed time.        *)
THEOREM BudgetHolds == Spec => []Budget
BY InitBudget, NextBudget, NextRefines, TypeCorrect, PTL DEF Spec

-----------------------------------------------------------------------------
(* The wait time_until_available returns is the first at which a request    *)
(* that fits the bucket finds its tokens.                                  *)
THEOREM WaitsAreExact == Spec => []WaitIsExact
<1>1. TypeOK => WaitIsExact
  <2> SUFFICES ASSUME TypeOK, NEW n \in Amounts, n <= Capacity
               PROVE  LET wait == TicksUntil(n, Level, Rate)
                      IN /\ LevelIn(wait) >= n
                         /\ \A t \in 0..(wait - 1) : LevelIn(t) < n
    BY DEF WaitIsExact
  <2> DEFINE wait == TicksUntil(n, Level, Rate)
  <2> USE TokenBucketAssumption
  <2>1. Level \in Int /\ n \in Int BY LevelIsTyped
  <2>2. wait \in Nat BY <2>1, TicksUntilIsNat
  <2>3. Level + wait * Rate >= n /\ \A t \in 0..(wait - 1) : Level + t * Rate < n
    BY <2>1, TicksUntilIsExact
  <2>4. LevelIn(wait) >= n
    <3>1. Level + wait * Rate \in Int BY <2>1, <2>2
    <3> QED BY <2>1, <2>3, <3>1 DEF LevelIn, AtMost
  <2>5. ASSUME NEW t \in 0..(wait - 1) PROVE LevelIn(t) < n
    <3>1. Level + t * Rate \in Int /\ Level + t * Rate < n BY <2>1, <2>2, <2>3
    <3> QED BY <2>1, <3>1 DEF LevelIn, AtMost
  <2> QED BY <2>4, <2>5
<1> QED BY <1>1, TypeCorrect, PTL
-----------------------------------------------------------------------------
(* The tokens whose use begins in a stretch of ticks.                      *)

Used(s, t) == SumOver(starts, s..t)

LEMMA SpanIsTyped ==
    ASSUME TypeOK, NEW s \in Nat, NEW t \in Int, t <= Horizon
    PROVE  IsFiniteSet(s..t) /\ s..t \subseteq 0..Horizon /\ \A u \in s..t : starts[u] \in Nat
<1>1. IsFiniteSet(s..t) BY FS_Interval
<1>2. s..t \subseteq 0..Horizon BY TokenBucketAssumption
<1> QED BY <1>1, <1>2 DEF TypeOK

(* The recursive function of UsedBetween sums up.                           *)
LEMMA UsedIsTheSum ==
    ASSUME TypeOK, NEW s \in 0..Horizon, NEW t \in s..Horizon
    PROVE  UsedBetween(s, t) = Used(s, t)
<1> USE TokenBucketAssumption
<1> DEFINE Sum1(f, u) == starts[u] + (IF u = s THEN 0 ELSE f[u - 1])
           used == CHOOSE f : f = [u \in s..t |-> Sum1(f, u)]
<1>1. UsedBetween(s, t) = used[t] BY Zenon DEF UsedBetween
<1>2. IsFiniteSet(s..t) BY FS_Interval
<1>3. ASSUME NEW u \in s..t
      PROVE  Used(s, u) = starts[u] + (IF u = s THEN 0 ELSE Used(s, u - 1))
  <2>1. IsFiniteSet(s..u) /\ \A v \in s..u : starts[v] \in Nat
    BY SpanIsTyped
  <2>2. SumOver(starts, s..u) = starts[u] + SumOver(starts, (s..u) \ {u}) BY <2>1, SumWithout
  <2>3. CASE u = s
    <3>1. (s..u) \ {u} = {} BY <2>3
    <3>2. SumOver(starts, {}) = 0 BY SumUnfolds, FS_EmptySet
    <3> QED BY <2>2, <2>3, <3>1, <3>2 DEF Used
  <2>4. CASE u # s
    <3>1. (s..u) \ {u} = s..(u - 1) OBVIOUS
    <3> QED BY <2>2, <2>4, <3>1 DEF Used
  <2> QED BY <2>3, <2>4
<1>4. used = [u \in s..t |-> Sum1(used, u)]
  <2> DEFINE sums == [u \in s..t |-> Used(s, u)]
  <2>1. \A u \in s..t : u # s => u - 1 \in s..t OBVIOUS
  <2>2. \A u \in s..t : sums[u] = Sum1(sums, u) BY <1>3, <2>1
  <2>3. sums = [u \in s..t |-> sums[u]] OBVIOUS
  <2> HIDE DEF sums
  <2>4. sums = [u \in s..t |-> Sum1(sums, u)] BY <2>2, <2>3
  <2> QED BY <2>4
<1> HIDE DEF used
<1> DEFINE holds == {T \in SUBSET (s..t) : \A u \in s..t : T = s..u => used[u] = Used(s, u)}
<1>5. ASSUME NEW T \in SUBSET (s..t), \A U \in SUBSET T : U # T => U \in holds
      PROVE  T \in holds
  <2> SUFFICES ASSUME NEW u \in s..t, T = s..u PROVE used[u] = Used(s, u)
    OBVIOUS
  <2>1. used[u] = starts[u] + (IF u = s THEN 0 ELSE used[u - 1]) BY <1>4
  <2>2. CASE u = s BY <1>3, <2>1, <2>2
  <2>3. CASE u # s
    <3>1. u - 1 \in s..t /\ s..(u - 1) \in SUBSET T /\ s..(u - 1) # T
      <4>1. u \in s..u /\ u \notin s..(u - 1) OBVIOUS
      <4>2. s..(u - 1) \in SUBSET (s..u) /\ u - 1 \in s..t BY <2>3
      <4> QED BY <4>1, <4>2
    <3>2. used[u - 1] = Used(s, u - 1) BY <1>5, <3>1
    <3> QED BY <1>3, <2>1, <2>3, <3>2
  <2> QED BY <2>2, <2>3
<1>6. s..t \in holds
  <2> HIDE DEF holds
  <2>1. PICK S : S = s..t OBVIOUS
  <2>2. /\ IsFiniteSet(S)
        /\ \A T \in SUBSET S : (\A U \in SUBSET T : U # T => U \in holds) => T \in holds
    BY <1>2, <1>5, <2>1
  <2>3. S \in holds BY ONLY <2>2, SubsetInduction
  <2> QED BY <2>1, <2>3
<1> QED BY <1>1, <1>6

LEMMA UsedIsNat ==
    ASSUME TypeOK, NEW s \in Nat, NEW t \in Int, t <= Horizon
    PROVE  Used(s, t) \in Nat
BY SpanIsTyped, SumIsNat DEF Used

LEMMA UsedSplits ==
    ASSUME TypeOK, NEW s \in Nat, NEW t \in 0..Horizon, s <= t
    PROVE  Used(s, Horizon) = Used(s, t) + Used(t + 1, Horizon)
<1> USE TokenBucketAssumption
<1>1. IsFiniteSet(s..t) /\ IsFiniteSet((t + 1)..Horizon) BY SpanIsTyped
<1>2. s..Horizon = (s..t) \cup ((t + 1)..Horizon) /\ (s..t) \cap ((t + 1)..Horizon) = {}
  OBVIOUS
<1>3. \A u \in (s..t) \cup ((t + 1)..Horizon) : starts[u] \in Nat BY <1>2, SpanIsTyped
<1> QED BY <1>1, <1>2, <1>3, SumOfParts DEF Used
(* The steps as they appear through Level and starts.                       *)
Stays == UNCHANGED <<Level, starts, now, since, refunded>>

Ages ==
    /\ now < Horizon /\ now' = now + 1
    /\ Level' = AtMost(Capacity, Level + Rate)
    /\ UNCHANGED <<starts, since, refunded>>

Renews ==
    /\ Level' = Capacity /\ starts' = Nothing
    /\ since' = now /\ ~ refunded' /\ UNCHANGED now

(* A use begins as soon as the refill allows it.                            *)
Takes(n, u) ==
    /\ Level + (u - now) * Rate >= n
    /\ u # now => Level + (u - now - 1) * Rate < n
    /\ Level' = Level - n
    /\ starts' = [starts EXCEPT ![u] = @ + n]
    /\ UNCHANGED <<now, since, refunded>>

GivesBack(n, u) ==
    /\ Level' = AtMost(Capacity, Level + n)
    /\ starts[u] >= n /\ starts' = [starts EXCEPT ![u] = @ - n]
    /\ refunded' /\ UNCHANGED <<now, since>>

LEMMA StepKinds ==
    ASSUME TypeOK, [Next]_vars
    PROVE  \/ Stays \/ Ages \/ Renews
           \/ \E n \in Amounts : \/ \E u \in now..Horizon : Takes(n, u)
                                 \/ \E u \in since..now : GivesBack(n, u)
<1> USE TokenBucketAssumption
<1>L. Level \in Int /\ Level <= Capacity BY LevelIsTyped
<1>1. CASE Tick
  <2>1. [Eager!Next]_<<Level, now, since, spent>> /\ now' = now + 1 /\ now \in Int
    BY <1>1, NextRefines DEF Tick, TypeOK
  <2>2. tokens + (now - lastUpdate) * Rate \in Int BY DEF TypeOK
  <2>3. (now' - lastUpdate') * Rate = (now - lastUpdate) * Rate + Rate
    BY <1>1 DEF Tick, TypeOK
  <2>4. Level' = AtMost(Capacity, Level + Rate)
    BY <1>1, <2>2, <2>3 DEF Tick, Level, AtMost, TypeOK
  <2> QED BY <1>1, <2>4 DEF Tick, Ages, history
<1>2. CASE Look
  <2>1. Level' = Level BY <1>2, <1>L, LevelAfterSettle DEF Look
  <2> QED BY <1>2, <2>1 DEF Look, Settle, history, Stays
<1>3. CASE Reset
  <2>1. Level' = Capacity BY <1>3, LevelAfterSettle DEF Reset
  <2> QED BY <1>3, <2>1 DEF Reset, Settle, Renews
<1>4. ASSUME NEW n \in Amounts, Consume(n) PROVE Takes(n, now) /\ now \in now..Horizon
  <2>1. Level - n \in Int /\ Level - n <= Capacity BY <1>L
  <2>2. Level' = Level - n BY <1>4, <2>1, LevelAfterSettle DEF Consume
  <2>3. (now - now) * Rate = 0 /\ now \in now..Horizon BY DEF TypeOK
  <2> QED BY <1>4, <1>L, <2>2, <2>3 DEF Consume, Settle, Record, Takes
<1>5. ASSUME NEW n \in Amounts, Reserve(n) PROVE \E u \in now..Horizon : Takes(n, u)
  <2>1. PICK wait : wait = TicksUntil(n, Level, Rate) OBVIOUS
  <2>2. wait \in Nat /\ now \in Nat /\ n \in Nat BY <1>L, <2>1, TicksUntilIsNat DEF TypeOK
  <2>3. /\ Level + wait * Rate >= n
        /\ wait # 0 => Level + (wait - 1) * Rate < n
    BY <1>L, <2>1, <2>2, TicksUntilIsExact
  <2>4. Level - n \in Int /\ Level - n <= Capacity BY <1>L
  <2>5. /\ now + wait <= Horizon /\ Settle(Level - n) /\ Record(n, now + wait)
    BY <1>5, <2>1 DEF Reserve
  <2>6. Level' = Level - n BY <2>4, <2>5, LevelAfterSettle
  <2>7. (now + wait) - now = wait /\ now + wait \in now..Horizon /\ (now + wait # now => wait # 0)
    BY <2>2, <2>5
  <2>8. Takes(n, now + wait) BY <2>3, <2>5, <2>6, <2>7 DEF Settle, Record, Takes
  <2> QED BY <2>7, <2>8
<1>6. ASSUME NEW n \in Amounts, AddTokens(n) PROVE \E u \in since..now : GivesBack(n, u)
  <2>1. AtMost(Capacity, Level + n) \in Int /\ AtMost(Capacity, Level + n) <= Capacity
    BY <1>L DEF AtMost
  <2>2. Level' = AtMost(Capacity, Level + n)
    BY <1>6, <2>1, LevelAfterSettle DEF AddTokens
  <2>3. PICK u \in since..now : starts[u] >= n /\ starts' = [starts EXCEPT ![u] = @ - n]
    BY <1>6 DEF AddTokens, Erase
  <2> QED BY <1>6, <2>2, <2>3 DEF AddTokens, Settle, Erase, GivesBack
<1>7. CASE UNCHANGED vars BY <1>7 DEF vars, history, Level, Stays
<1> QED BY <1>1, <1>2, <1>3, <1>4, <1>5, <1>6, <1>7 DEF Next

(* What a change at one tick does to what is used in a stretch.             *)
LEMMA UsedAfter ==
    ASSUME TypeOK, TypeOK', NEW u \in 0..Horizon,
           \A v \in 0..Horizon : v # u => starts'[v] = starts[v],
           NEW s \in Nat, NEW t \in Int, t <= Horizon
    PROVE  SumOver(starts', s..t)
             = Used(s, t) + IF u \in s..t THEN starts'[u] - starts[u] ELSE 0
<1>1. PICK f, g : f = starts /\ g = starts' OBVIOUS
<1>2. PICK S : S = s..t OBVIOUS
<1>3. IsFiniteSet(S) /\ S \subseteq 0..Horizon BY <1>2, SpanIsTyped
<1>4. \A v \in S : f[v] \in Nat /\ g[v] \in Nat /\ (v # u => g[v] = f[v])
  BY <1>1, <1>3 DEF TypeOK
<1>5. SumOver(f, S) \in Nat BY <1>3, <1>4, SumIsNat
<1>6. SumOver(g, S) = SumOver(f, S) + IF u \in S THEN g[u] - f[u] ELSE 0
  <2>1. CASE u \in S
    <3>1. PICK a \in Nat, b \in Nat, m \in Nat : f[u] = a /\ g[u] = b /\ m = SumOver(f, S)
      BY <1>4, <1>5, <2>1
    <3>2. IsFiniteSet(S \ {u}) BY <1>3, FS_Subset
    <3>3. SumOver(f, S) = f[u] + SumOver(f, S \ {u}) /\ SumOver(g, S) = g[u] + SumOver(g, S \ {u})
      BY <1>3, <1>4, <2>1, SumWithout
    <3>4. SumOver(g, S \ {u}) = SumOver(f, S \ {u}) BY <1>4, <3>2, SumOfSame
    <3>5. SumOver(f, S \ {u}) \in Nat BY <1>4, <3>2, SumIsNat
    <3> QED BY <2>1, <3>1, <3>3, <3>4, <3>5
  <2>2. CASE u \notin S
    <3>1. SumOver(g, S) = SumOver(f, S) BY <1>3, <1>4, <2>2, SumOfSame
    <3> QED BY <1>5, <2>2, <3>1
  <2> QED BY <2>1, <2>2
<1> QED BY <1>1, <1>2, <1>6 DEF Used
(* At no tick to come is more overdrawn than the uses that begin later.     *)
LentIsPaid ==
    \A t \in now..Horizon : Paid(Level, Rate, t - now, Used(t + 1, Horizon))

(* The stretches StartsWithinRate speaks of.                                *)
Fits(s) == s = since \/ (~ refunded /\ \A n \in Amounts : n <= Capacity)

(* What begins from a tick on, and what is left, come from one capacity and *)
(* the refill since; before that tick, only if something begins at all.     *)
AllWithinRate ==
    \A s \in since..Horizon :
        Fits(s) => \/ Used(s, Horizon) = 0
                   \/ Level + Used(s, Horizon) <= Capacity + Rate * (now - s + 1)

PastWithinRate ==
    \A s \in since..Horizon : \A t \in s..Horizon :
        Fits(s) /\ t < now => Used(s, t) <= Capacity + Rate * (t - s + 1)

RateInv == TypeOK /\ LentIsPaid /\ AllWithinRate /\ PastWithinRate

LEMMA Numbers ==
    ASSUME TypeOK
    PROVE  /\ now \in Nat /\ since \in Nat /\ since <= now /\ now <= Horizon
           /\ Horizon \in Nat /\ Rate \in Nat /\ Capacity \in Nat
           /\ Level \in Int /\ Level <= Capacity
<1>1. Level \in Int /\ Level <= Capacity BY LevelIsTyped
<1> QED BY <1>1, TokenBucketAssumption DEF TypeOK

(* The invariant bounds every stretch, whether it ends before now or not.   *)
LEMMA EveryStretchIsWithinRate ==
    ASSUME RateInv, NEW s \in since..Horizon, NEW t \in s..Horizon, Fits(s)
    PROVE  Used(s, t) <= Capacity + Rate * (t - s + 1)
<1> TypeOK BY DEF RateInv
<1>1. CASE t < now BY <1>1 DEF RateInv, PastWithinRate
<1>2. CASE ~ (t < now)
  <2>1. s \in Nat /\ t \in now..Horizon /\ t \in 0..Horizon /\ s <= t BY <1>2, Numbers
  <2>2. Used(s, Horizon) = Used(s, t) + Used(t + 1, Horizon) BY <2>1, UsedSplits
  <2>3. PICK a \in Nat, b \in Nat, c \in Nat :
             a = Used(s, t) /\ b = Used(t + 1, Horizon) /\ c = Used(s, Horizon)
    <3>1. t + 1 \in Nat /\ Horizon \in Int /\ Horizon <= Horizon /\ t \in Int /\ t <= Horizon
      BY <2>1, Numbers
    <3>2. Used(s, t) \in Nat /\ Used(t + 1, Horizon) \in Nat /\ Used(s, Horizon) \in Nat
      BY <2>1, <3>1, UsedIsNat
    <3> QED BY <3>2
  <2>4. Level + (t - now) * Rate + b >= 0
    BY <2>1, <2>3 DEF RateInv, LentIsPaid, Paid
  <2>5. c = 0 \/ Level + c <= Capacity + Rate * (now - s + 1)
    BY <2>3 DEF RateInv, AllWithinRate
  <2>6. PICK p \in Int, q \in Int, r \in Int :
             p = (t - now) * Rate /\ q = Rate * (now - s + 1) /\ r = Rate * (t - s + 1)
    BY <2>1, Numbers
  <2>7. r = p + q /\ r >= 0 BY <2>1, <2>6, Numbers
  <2>8. PICK level \in Int, capacity \in Nat : level = Level /\ capacity = Capacity
    BY Numbers
  <2>9. a <= capacity + r
    BY <2>2, <2>3, <2>4, <2>5, <2>6, <2>7, <2>8
  <2> QED BY <2>3, <2>6, <2>8, <2>9
<1> QED BY <1>1, <1>2

LEMMA NothingIsUsed ==
    ASSUME TypeOK, NEW s \in Nat, NEW t \in Int, t <= Horizon
    PROVE  SumOver(Nothing, s..t) = 0
<1>1. \A u \in s..t : Nothing[u] = 0 BY SpanIsTyped DEF Nothing
<1> QED BY <1>1, SpanIsTyped, SumOfZeros

LEMMA InitRateInv == Init => RateInv
<1> SUFFICES ASSUME Init PROVE RateInv
  OBVIOUS
<1>1. TypeOK BY InitTypeOK
<1>2. Level = Capacity /\ starts = Nothing /\ now = 0 /\ since = 0
  <2>1. (now - lastUpdate) * Rate = 0 BY TokenBucketAssumption DEF Init
  <2> QED BY <2>1, TokenBucketAssumption DEF Init, Level, AtMost
<1>3. ASSUME NEW s \in Nat, NEW t \in Int, t <= Horizon PROVE Used(s, t) = 0
  BY <1>1, <1>2, <1>3, NothingIsUsed DEF Used
<1>4. LentIsPaid
  <2> SUFFICES ASSUME NEW t \in 0..Horizon PROVE Paid(Level, Rate, t - now, Used(t + 1, Horizon))
    BY <1>2 DEF LentIsPaid
  <2>1. Used(t + 1, Horizon) = 0 BY <1>3, TokenBucketAssumption
  <2>2. t - now = t /\ t * Rate >= 0 /\ t * Rate \in Int BY <1>2, TokenBucketAssumption
  <2> QED BY <1>2, <2>1, <2>2, TokenBucketAssumption DEF Paid
<1>5. AllWithinRate BY <1>1, <1>2, <1>3, Numbers DEF AllWithinRate
<1>6. PastWithinRate BY <1>1, <1>2, Numbers DEF PastWithinRate
<1> QED BY <1>1, <1>4, <1>5, <1>6 DEF RateInv

LEMMA LentStep ==
    ASSUME RateInv, TypeOK', [Next]_vars PROVE LentIsPaid'
<1> TypeOK /\ LentIsPaid BY DEF RateInv
<1> SUFFICES ASSUME NEW t \in now'..Horizon
             PROVE  Paid(Level', Rate, t - now', SumOver(starts', (t + 1)..Horizon))
  BY DEF LentIsPaid, Used
<1>1. /\ now \in Nat /\ now' \in Nat /\ t \in Nat /\ t + 1 \in Nat /\ t >= now'
      /\ t <= Horizon /\ Horizon \in Int /\ Horizon <= Horizon
  BY Numbers DEF TypeOK
<1>D. t - now' \in Nat
  <2>1. PICK later \in Nat : later = now' BY <1>1
  <2>2. t >= later /\ t \in Nat BY <1>1, <2>1
  <2>3. t - later \in Nat BY <2>2
  <2> QED BY <2>1, <2>3
<1>2. PICK lent \in Nat, level \in Int, rate \in Nat, capacity \in Nat :
           /\ lent = Used(t + 1, Horizon)
           /\ level = Level /\ rate = Rate /\ capacity = Capacity
  <2>1. Used(t + 1, Horizon) \in Nat BY <1>1, UsedIsNat
  <2> QED BY <2>1, Numbers
<1>3. CASE Stays BY <1>3 DEF Stays, LentIsPaid, Used
<1>4. CASE Ages
  <2>1. PICK delay \in Nat : delay = t - now' BY <1>D
  <2>2. t \in now..Horizon /\ t - now = delay + 1 BY <1>1, <1>4, <2>1 DEF Ages
  <2>3. Paid(level, rate, delay + 1, lent) BY <1>2, <2>2 DEF LentIsPaid
  <2>4. Paid(AtMost(capacity, level + rate), rate, delay, lent) BY <2>3, PaidLater
  <2> QED BY <1>2, <1>4, <2>1, <2>4 DEF Ages, Used
<1>5. CASE Renews
  <2>1. SumOver(starts', (t + 1)..Horizon) = 0 BY <1>1, <1>5, NothingIsUsed DEF Renews
  <2>2. PICK delay \in Nat : delay = t - now' BY <1>D
  <2>3. delay * rate \in Nat OBVIOUS
  <2>4. Paid(capacity, rate, delay, 0) BY <2>3 DEF Paid
  <2> QED BY <1>2, <1>5, <2>1, <2>2, <2>4 DEF Renews
<1>6. ASSUME NEW n \in Amounts, NEW u \in now..Horizon, Takes(n, u)
      PROVE  Paid(Level', Rate, t - now', SumOver(starts', (t + 1)..Horizon))
  <2>1. n \in Nat /\ u \in 0..Horizon /\ now' = now /\ t \in now..Horizon /\ Level' = level - n
    BY <1>1, <1>2, <1>6, TokenBucketAssumption DEF Takes
  <2>2. PICK delay \in Nat : delay = t - now BY <2>1, <1>1
  <2>3. Paid(level, rate, delay, lent) BY <1>2, <2>1, <2>2 DEF LentIsPaid
  <2>4. \A v \in 0..Horizon : starts'[v] = IF v = u THEN starts[v] + n ELSE starts[v]
    BY <1>6 DEF Takes, TypeOK
  <2>5. SumOver(starts', (t + 1)..Horizon)
          = lent + IF u \in (t + 1)..Horizon THEN starts'[u] - starts[u] ELSE 0
    BY <1>1, <1>2, <2>1, <2>4, UsedAfter
  <2>6. PICK m \in Nat : m = starts[u] BY <2>1 DEF TypeOK
  <2>7. starts'[u] - starts[u] = n BY <2>1, <2>4, <2>6
  <2>8. CASE u > t
    <3>1. SumOver(starts', (t + 1)..Horizon) = n + lent BY <1>1, <2>1, <2>5, <2>7, <2>8
    <3>2. Paid(level - n, rate, delay, n + lent) BY <2>1, <2>3, PaidByLoan
    <3> QED BY <1>2, <2>1, <2>2, <3>1, <3>2
  <2>9. CASE ~ (u > t)
    <3>1. SumOver(starts', (t + 1)..Horizon) = lent BY <1>1, <2>1, <2>5, <2>9
    <3>2. PICK wait \in Nat : wait = u - now BY <1>1, <2>1
    <3>3. level + wait * rate >= n /\ delay >= wait
      BY <1>1, <1>2, <1>6, <2>1, <2>2, <2>9, <3>2 DEF Takes
    <3>4. Paid(level - n, rate, delay, lent) BY <2>1, <3>3, PaidByWait
    <3> QED BY <1>2, <2>1, <2>2, <3>1, <3>4
  <2> QED BY <2>8, <2>9
<1>7. ASSUME NEW n \in Amounts, NEW u \in since..now, GivesBack(n, u)
      PROVE  Paid(Level', Rate, t - now', SumOver(starts', (t + 1)..Horizon))
  <2>1. /\ n \in Nat /\ u \in 0..Horizon /\ now' = now /\ t \in now..Horizon
        /\ u \notin (t + 1)..Horizon /\ Level' = AtMost(capacity, level + n)
    BY <1>1, <1>2, <1>7, TokenBucketAssumption, Numbers DEF GivesBack
  <2>2. PICK delay \in Nat : delay = t - now BY <2>1, <1>1
  <2>3. Paid(level, rate, delay, lent) BY <1>2, <2>1, <2>2 DEF LentIsPaid
  <2>4. \A v \in 0..Horizon : v # u => starts'[v] = starts[v]
    BY <1>7 DEF GivesBack, TypeOK
  <2>5. SumOver(starts', (t + 1)..Horizon) = lent
    BY <1>1, <1>2, <2>1, <2>4, UsedAfter
  <2>6. Paid(AtMost(capacity, level + n), rate, delay, lent) BY <2>1, <2>3, PaidByRefund
  <2> QED BY <1>2, <2>1, <2>2, <2>5, <2>6
<1> QED BY <1>3, <1>4, <1>5, <1>6, <1>7, StepKinds

LEMMA AllStep ==
    ASSUME RateInv, TypeOK', [Next]_vars PROVE AllWithinRate'
<1> TypeOK /\ AllWithinRate BY DEF RateInv
<1> DEFINE Goal(s) == \/ SumOver(starts', s..Horizon) = 0
                      \/ Level' + SumOver(starts', s..Horizon) <= Capacity + Rate * (now' - s + 1)
<1> SUFFICES ASSUME NEW s \in since'..Horizon, Fits(s)' PROVE Goal(s)
  BY DEF AllWithinRate, Used
<1>1. /\ s \in Nat /\ s <= Horizon /\ Horizon \in Int /\ Horizon <= Horizon
      /\ s \in since'..Horizon
  BY Numbers DEF TypeOK
<1>2. PICK used \in Nat, level \in Int, rate \in Nat, capacity \in Nat, clock \in Nat :
           /\ used = Used(s, Horizon) /\ level = Level /\ level <= capacity
           /\ rate = Rate /\ capacity = Capacity /\ clock = now
  <2>1. Used(s, Horizon) \in Nat BY <1>1, UsedIsNat
  <2> QED BY <2>1, Numbers
<1>3. ASSUME s \in since..Horizon, Fits(s)
      PROVE  used = 0 \/ level + used <= capacity + rate * (clock - s + 1)
  BY <1>2, <1>3 DEF AllWithinRate
<1>4. CASE Stays
  <2>1. s \in since..Horizon /\ Fits(s) BY <1>1, <1>4 DEF Stays, Fits
  <2> QED BY <1>2, <1>3, <1>4, <2>1 DEF Stays, Used
<1>5. CASE Ages
  <2>1. s \in since..Horizon /\ Fits(s) BY <1>1, <1>5 DEF Ages, Fits
  <2>2. AtMost(capacity, level + rate) <= level + rate BY DEF AtMost
  <2>3. rate * (clock + 1 - s + 1) = rate * (clock - s + 1) + rate
        /\ rate * (clock - s + 1) \in Int
    BY <1>1
  <2>4. AtMost(capacity, level + rate) \in Int BY DEF AtMost
  <2>5. used = 0 \/ AtMost(capacity, level + rate) + used <= capacity + rate * (clock + 1 - s + 1)
    BY <1>3, <2>1, <2>2, <2>3, <2>4
  <2> QED BY <1>2, <1>5, <2>5 DEF Ages, Used
<1>6. CASE Renews
  <2>1. SumOver(Nothing, s..Horizon) = 0 BY <1>1, NothingIsUsed
  <2> QED BY <1>6, <2>1 DEF Renews
<1>7. ASSUME NEW n \in Amounts, NEW u \in now..Horizon, Takes(n, u) PROVE Goal(s)
  <2>1. /\ n \in Nat /\ u \in 0..Horizon /\ u \in Nat /\ u >= clock /\ now' = clock
        /\ Level' = level - n /\ s \in since..Horizon /\ Fits(s)
    BY <1>1, <1>2, <1>7, TokenBucketAssumption DEF Takes, Fits
  <2>2. \A v \in 0..Horizon : starts'[v] = IF v = u THEN starts[v] + n ELSE starts[v]
    BY <1>7 DEF Takes, TypeOK
  <2>3. SumOver(starts', s..Horizon)
          = used + IF u \in s..Horizon THEN starts'[u] - starts[u] ELSE 0
    BY <1>1, <1>2, <2>1, <2>2, UsedAfter
  <2>4. PICK m \in Nat : m = starts[u] BY <2>1 DEF TypeOK
  <2>5. starts'[u] - starts[u] = n BY <2>1, <2>2, <2>4
  <2>6. rate * (clock - s + 1) \in Int BY <1>1
  <2>7. CASE u < s
    <3>1. SumOver(starts', s..Horizon) = used BY <1>1, <2>1, <2>3, <2>7
    <3> QED BY <1>2, <1>3, <2>1, <2>6, <3>1
  <2>8. CASE ~ (u < s)
    <3>1. SumOver(starts', s..Horizon) = used + n BY <1>1, <2>1, <2>3, <2>5, <2>8
    <3>2. level + used <= capacity + rate * (clock - s + 1)
      <4>1. CASE used # 0 BY <1>3, <2>1, <4>1
      <4>2. CASE used = 0 /\ s <= clock
        <5>1. PICK ticks \in Nat : ticks = clock - s + 1
          <6>1. clock - s + 1 \in Nat BY <1>1, <4>2
          <6> QED BY <6>1
        <5>2. rate * (clock - s + 1) >= 0
          <6>1. rate * ticks >= 0 OBVIOUS
          <6> QED BY <5>1, <6>1
        <5> QED BY <1>2, <2>6, <4>2, <5>2
      <4>3. CASE used = 0 /\ ~ (s <= clock)
        <5>1. n <= capacity BY <1>1, <1>2, <2>1, <4>3, Numbers DEF Fits
        <5>2. level + (u - clock - 1) * rate < n
          BY <1>1, <1>2, <1>7, <2>1, <2>8, <4>3 DEF Takes
        <5>3. PICK a \in Nat, b \in Nat : a = s - clock - 1 /\ b = u - clock - 1 /\ a <= b
          <6>1. s - clock - 1 \in Nat /\ u - clock - 1 \in Nat /\ s - clock - 1 <= u - clock - 1
            BY <1>1, <2>1, <2>8, <4>3
          <6> QED BY <6>1
        <5>4. a * rate <= b * rate /\ a * rate \in Int /\ b * rate \in Int BY <5>3
        <5>5. rate * (clock - s + 1) = 0 - a * rate
          <6>1. clock - s + 1 = 0 - a BY <1>1, <5>3
          <6>2. rate * (0 - a) = 0 - a * rate OBVIOUS
          <6> QED BY <6>1, <6>2
        <5>6. PICK p \in Int, q \in Int : p = a * rate /\ q = b * rate BY <5>4
        <5>7. level + q < n /\ p <= q BY <5>2, <5>3, <5>4, <5>6
        <5> QED BY <2>1, <4>3, <5>1, <5>5, <5>6, <5>7
      <4> QED BY <4>1, <4>2, <4>3
    <3> QED BY <1>2, <2>1, <2>6, <3>1, <3>2
  <2> QED BY <2>1, <1>1, <2>7, <2>8
<1>8. ASSUME NEW n \in Amounts, NEW u \in since..now, GivesBack(n, u) PROVE Goal(s)
  <2>1. /\ n \in Nat /\ u \in 0..Horizon /\ now' = clock /\ u \in s..Horizon
        /\ Level' = AtMost(capacity, level + n) /\ s \in since..Horizon /\ Fits(s)
    BY <1>1, <1>2, <1>8, TokenBucketAssumption, Numbers DEF GivesBack, Fits
  <2>2. \A v \in 0..Horizon : starts'[v] = IF v = u THEN starts[v] - n ELSE starts[v]
    BY <1>8 DEF GivesBack, TypeOK
  <2>3. SumOver(starts', s..Horizon)
          = used + IF u \in s..Horizon THEN starts'[u] - starts[u] ELSE 0
    BY <1>1, <1>2, <2>1, <2>2, UsedAfter
  <2>4. PICK m \in Nat : m = starts[u] BY <2>1 DEF TypeOK
  <2>5. starts'[u] - starts[u] = 0 - n BY <2>1, <2>2, <2>4
  <2>6. rate * (clock - s + 1) \in Int BY <1>1
  <2>7. SumOver(starts', s..Horizon) = used - n BY <2>1, <2>3, <2>5
  <2>8. SumOver(starts', s..Horizon) \in Nat
    <3>1. PICK g : g = starts' OBVIOUS
    <3>2. \A v \in s..Horizon : g[v] \in Nat BY <1>1, <3>1, SpanIsTyped DEF TypeOK
    <3>3. IsFiniteSet(s..Horizon) BY <1>1, SpanIsTyped
    <3> QED BY <3>1, <3>2, <3>3, SumIsNat
  <2>9. AtMost(capacity, level + n) <= level + n /\ AtMost(capacity, level + n) \in Int
    BY <2>1 DEF AtMost
  <2>10. \/ used - n = 0
         \/ AtMost(capacity, level + n) + (used - n) <= capacity + rate * (clock - s + 1)
    BY <1>3, <2>1, <2>6, <2>7, <2>8, <2>9
  <2> QED BY <1>2, <2>1, <2>7, <2>10
<1> QED BY <1>4, <1>5, <1>6, <1>7, <1>8, StepKinds

LEMMA PastStep ==
    ASSUME RateInv, TypeOK', [Next]_vars PROVE PastWithinRate'
<1> TypeOK BY DEF RateInv
<1> DEFINE Goal(s, t) == SumOver(starts', s..t) <= Capacity + Rate * (t - s + 1)
<1> SUFFICES ASSUME NEW s \in since'..Horizon, NEW t \in s..Horizon, Fits(s)', t < now'
             PROVE  Goal(s, t)
  BY DEF PastWithinRate, Used
<1>1. s \in Nat /\ t \in Int /\ t <= Horizon /\ s <= t /\ now \in Nat
  BY Numbers DEF TypeOK
<1>2. ASSUME s \in since..Horizon, Fits(s) PROVE Used(s, t) <= Capacity + Rate * (t - s + 1)
  BY <1>2, EveryStretchIsWithinRate
<1>3. CASE Stays \/ Ages
  <2>1. s \in since..Horizon /\ Fits(s) /\ UNCHANGED starts
    BY <1>1, <1>3 DEF Stays, Ages, Fits
  <2> QED BY <1>2, <2>1 DEF Used
<1>4. CASE Renews
  <2>1. FALSE BY <1>1, <1>4 DEF Renews
  <2> QED BY <2>1
<1>5. ASSUME NEW n \in Amounts, NEW u \in now..Horizon, Takes(n, u) PROVE Goal(s, t)
  <2>1. s \in since..Horizon /\ Fits(s) /\ t < now /\ u \in 0..Horizon /\ u \notin s..t
    BY <1>1, <1>5 DEF Takes, Fits
  <2>2. \A v \in 0..Horizon : v # u => starts'[v] = starts[v]
    BY <1>5 DEF Takes, TypeOK
  <2>3. SumOver(starts', s..t) = Used(s, t) + 0 BY <1>1, <2>1, <2>2, UsedAfter
  <2>4. Used(s, t) \in Nat BY <1>1, UsedIsNat
  <2>5. SumOver(starts', s..t) = Used(s, t) BY <2>3, <2>4
  <2> QED BY <1>2, <2>1, <2>5
<1>6. ASSUME NEW n \in Amounts, NEW u \in since..now, GivesBack(n, u) PROVE Goal(s, t)
  <2>1. /\ s \in since..Horizon /\ Fits(s) /\ u \in 0..Horizon /\ n \in Nat
    BY <1>1, <1>6, Numbers, TokenBucketAssumption DEF GivesBack, Fits
  <2>2. \A v \in 0..Horizon : starts'[v] = IF v = u THEN starts[v] - n ELSE starts[v]
    BY <1>6 DEF GivesBack, TypeOK
  <2>3. SumOver(starts', s..t) = Used(s, t) + IF u \in s..t THEN starts'[u] - starts[u] ELSE 0
    BY <1>1, <2>1, <2>2, UsedAfter
  <2>4. PICK m \in Nat, used \in Nat : m = starts[u] /\ used = Used(s, t)
    <3>1. starts[u] \in Nat /\ Used(s, t) \in Nat BY <1>1, <2>1, UsedIsNat DEF TypeOK
    <3> QED BY <3>1
  <2>5. starts'[u] - starts[u] = 0 - n BY <2>1, <2>2, <2>4
  <2>6. SumOver(starts', s..t) = used \/ SumOver(starts', s..t) = used - n
    <3>1. CASE u \in s..t BY <2>1, <2>3, <2>4, <2>5, <3>1
    <3>2. CASE u \notin s..t BY <2>3, <2>4, <3>2
    <3> QED BY <3>1, <3>2
  <2>7. PICK bound \in Int : bound = Capacity + Rate * (t - s + 1)
    <3>1. Rate * (t - s + 1) \in Int BY <1>1, Numbers
    <3> QED BY <3>1, Numbers
  <2>8. used <= bound BY <1>2, <2>1, <2>4, <2>7
  <2> QED BY <2>1, <2>6, <2>7, <2>8
<1> QED BY <1>3, <1>4, <1>5, <1>6, StepKinds

(* The tokens whose use may begin in any stretch of ticks are within one    *)
(* capacity and the refill of that time, for every capacity, rate and set   *)
(* of amounts: credit is not counted twice, nor due before it has accrued.  *)
THEOREM StartsAreWithinRate == Spec => []StartsWithinRate
<1>1. RateInv /\ [Next]_vars => RateInv'
  <2>1. RateInv => TypeOK BY DEF RateInv
  <2> QED BY <2>1, NextTypeOK, LentStep, AllStep, PastStep DEF RateInv
<1>2. RateInv => StartsWithinRate
  <2> SUFFICES ASSUME RateInv, NEW s \in since..Horizon, NEW t \in s..Horizon,
                      s = since \/ (~ refunded /\ \A n \in Amounts : n <= Capacity)
               PROVE  UsedBetween(s, t) <= Capacity + Rate * (t - s + 1)
    BY DEF StartsWithinRate
  <2>1. TypeOK /\ Fits(s) BY DEF RateInv, Fits
  <2>2. s \in 0..Horizon BY <2>1, Numbers
  <2> QED BY <2>1, <2>2, UsedIsTheSum, EveryStretchIsWithinRate
<1> QED BY InitRateInv, <1>1, <1>2, PTL DEF Spec
=============================================================================
