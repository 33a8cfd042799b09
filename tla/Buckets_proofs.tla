--------------------------- MODULE Buckets_proofs ---------------------------
(***************************************************************************)
(* What TicksUntil computes for every bucket, and facts about the sums by   *)
(* which the models keep account of what was taken from one.                *)
(***************************************************************************)
EXTENDS Buckets, FiniteSetsExt, FiniteSetTheorems, TLAPS

(* A wait is a number of ticks, none exactly when the tokens are there.    *)
LEMMA TicksUntilIsNat ==
    ASSUME NEW need \in Int, NEW have \in Int, NEW rate \in Nat \ {0}
    PROVE  /\ TicksUntil(need, have, rate) \in Nat
           /\ TicksUntil(need, have, rate) = 0 <=> have >= need
BY DEF TicksUntil

(* The wait is long enough, and one tick less would not be.                *)
LEMMA TicksUntilIsExact ==
    ASSUME NEW need \in Int, NEW have \in Int, NEW rate \in Nat \ {0}
    PROVE  LET wait == TicksUntil(need, have, rate)
           IN /\ have + wait * rate >= need
              /\ \A t \in 0..(wait - 1) : have + t * rate < need
<1> DEFINE wait == TicksUntil(need, have, rate)
<1>1. CASE have >= need
  <2>1. wait = 0 BY <1>1 DEF TicksUntil
  <2> QED BY <2>1, <1>1
<1>2. CASE ~ (have >= need)
  <2> DEFINE short == need - have + rate - 1
  <2>1. wait = short \div rate BY <1>2 DEF TicksUntil
  <2>2. /\ wait \in Int
        /\ rate * wait <= short
        /\ short < rate * wait + rate
    BY <2>1, <1>2
  <2>3. have + wait * rate >= need BY <2>2
  <2>4. ASSUME NEW t \in 0..(wait - 1) PROVE have + t * rate < need
    <3>1. t * rate <= (wait - 1) * rate BY <2>2
    <3>2. (wait - 1) * rate = rate * wait - rate BY <2>2
    <3> QED BY <2>2, <3>1, <3>2
  <2> QED BY <2>3, <2>4
<1> QED BY <1>1, <1>2
-----------------------------------------------------------------------------
(* Credit.  What is lent at the end of a delay is what was taken for uses   *)
(* that begin later still; a bucket is never overdrawn by more.             *)
Paid(have, rate, delay, lent) == have + delay * rate + lent >= 0

(* A tick of the refill covers a tick of the delay.                         *)
LEMMA PaidLater ==
    ASSUME NEW have \in Int, NEW rate \in Nat, NEW limit \in Nat, NEW lent \in Nat,
           NEW delay \in Nat, Paid(have, rate, delay + 1, lent)
    PROVE  Paid(AtMost(limit, have + rate), rate, delay, lent)
<1>1. (delay + 1) * rate = delay * rate + rate /\ delay * rate \in Nat OBVIOUS
<1> QED BY <1>1 DEF Paid, AtMost

(* A reservation lends what it takes until it is due.                       *)
LEMMA PaidByLoan ==
    ASSUME NEW have \in Int, NEW rate \in Nat, NEW delay \in Nat, NEW lent \in Nat,
           NEW n \in Nat, Paid(have, rate, delay, lent)
    PROVE  Paid(have - n, rate, delay, n + lent)
<1>1. PICK m \in Int : m = delay * rate OBVIOUS
<1> QED BY <1>1 DEF Paid

(* From then on, its wait has covered it.                                   *)
LEMMA PaidByWait ==
    ASSUME NEW have \in Int, NEW rate \in Nat, NEW delay \in Nat, NEW lent \in Nat,
           NEW n \in Nat, NEW wait \in Nat, have + wait * rate >= n, delay >= wait
    PROVE  Paid(have - n, rate, delay, lent)
<1>1. wait * rate <= delay * rate /\ wait * rate \in Int /\ delay * rate \in Int OBVIOUS
<1> QED BY <1>1 DEF Paid

(* A refund pays no less.                                                   *)
LEMMA PaidByRefund ==
    ASSUME NEW have \in Int, NEW rate \in Nat, NEW delay \in Nat, NEW lent \in Nat,
           NEW n \in Nat, NEW limit \in Nat, Paid(have, rate, delay, lent)
    PROVE  Paid(AtMost(limit, have + n), rate, delay, lent)
<1>1. PICK m \in Nat : m = delay * rate OBVIOUS
<1> QED BY <1>1 DEF Paid, AtMost

-----------------------------------------------------------------------------
(* Sums over finite sets.  What a sum is, is shown by induction on the set:  *)
(* a statement is the set of the sets it holds for.                         *)

(* What holds for a set once it holds for all smaller ones holds for all.   *)
LEMMA SubsetInduction ==
    ASSUME NEW S, IsFiniteSet(S), NEW holds,
           \A T \in SUBSET S : (\A U \in SUBSET T : U # T => U \in holds) => T \in holds
    PROVE  \A T \in SUBSET S : T \in holds
<1> DEFINE bad == {T \in SUBSET S : T \notin holds}
<1>1. SUFFICES ASSUME bad # {} PROVE FALSE
  OBVIOUS
<1>2. IsWellFoundedOn(StrictSubsetOrdering(S), SUBSET S)
  BY FS_StrictSubsetOrderingWellFounded, FS_FiniteSubsetsOfFinite
<1>3. PICK T \in bad : \A U \in bad : <<U, T>> \notin StrictSubsetOrdering(S)
  <2> HIDE DEF bad
  <2>1. bad \subseteq SUBSET S BY DEF bad
  <2> QED BY <1>1, <1>2, <2>1, WFMin
<1>4. \A U \in SUBSET T : U # T => U \in holds BY <1>3 DEF StrictSubsetOrdering
<1> QED BY <1>3, <1>4

Some(s) == CHOOSE x \in s : TRUE

SumOver(f, S) == MapThenSumSet(LAMBDA x : f[x], S)

(* The recursive function of MapThenFoldSet.                                *)
SumStep(f, g, s) == IF s = {} THEN 0 ELSE f[Some(s)] + g[s \ {Some(s)}]
AreSums(f, S, g) == g = [s \in SUBSET S |-> SumStep(f, g, s)]

LEMMA SomeIsMember == ASSUME NEW S, S # {} PROVE Some(S) \in S
BY DEF Some

(* There is but one such function.                                          *)
LEMMA SumsAgree ==
    ASSUME NEW f, NEW S, NEW g, NEW T \in SUBSET S, NEW h, IsFiniteSet(T),
           AreSums(f, S, g), AreSums(f, T, h)
    PROVE  g[T] = h[T]
<1> DEFINE holds == {U \in SUBSET T : g[U] = h[U]}
<1>1. ASSUME NEW U \in SUBSET T, \A V \in SUBSET U : V # U => V \in holds
      PROVE  U \in holds
  <2>1. g[U] = SumStep(f, g, U) /\ h[U] = SumStep(f, h, U) BY DEF AreSums
  <2>2. CASE U = {} BY <2>1, <2>2 DEF SumStep
  <2>3. CASE U # {}
    <3>1. U \ {Some(U)} \in holds BY <1>1, <2>3, SomeIsMember
    <3> QED BY <2>1, <3>1 DEF SumStep
  <2> QED BY <2>2, <2>3
<1> HIDE DEF holds
<1>2. T \in holds BY <1>1, SubsetInduction
<1> QED BY <1>2 DEF holds

(* There is one: on a set, it is put together from those on smaller sets.   *)
LEMMA SumsExist ==
    ASSUME NEW f, NEW S, IsFiniteSet(S)
    PROVE  \E g : AreSums(f, S, g)
<1> DEFINE Sums(T) == CHOOSE g : AreSums(f, T, g)
           holds == {T \in SUBSET S : \E g : AreSums(f, T, g)}
<1>1. ASSUME NEW T \in SUBSET S, \A U \in SUBSET T : U # T => U \in holds
      PROVE  T \in holds
  <2>1. \A U \in SUBSET T : U # T => AreSums(f, U, Sums(U)) BY <1>1
  <2> DEFINE below == [U \in SUBSET T |-> Sums(U)[U]]
             h == [U \in SUBSET T |-> IF U = T THEN SumStep(f, below, T) ELSE Sums(U)[U]]
  <2>2. ASSUME NEW U \in SUBSET T, U # T PROVE h[U] = SumStep(f, h, U)
    <3>1. Sums(U)[U] = SumStep(f, Sums(U), U)
      <4> HIDE DEF Sums, h
      <4>1. Sums(U) = [s \in SUBSET U |-> SumStep(f, Sums(U), s)]
        BY <2>1, <2>2 DEF AreSums
      <4> QED BY <4>1
    <3>2. CASE U = {} BY <2>2, <3>1, <3>2 DEF SumStep
    <3>3. CASE U # {}
      <4> DEFINE V == U \ {Some(U)}
      <4>1. V \in SUBSET U /\ V # T BY <2>2, <3>3, SomeIsMember
      <4>2. IsFiniteSet(V) BY <4>1, FS_Subset
      <4>3. Sums(U)[V] = Sums(V)[V]
        <5>1. AreSums(f, U, Sums(U)) /\ AreSums(f, V, Sums(V)) BY <2>1, <2>2, <4>1
        <5> HIDE DEF Sums, V
        <5> QED BY <4>1, <4>2, <5>1, SumsAgree
      <4>4. h[V] = Sums(V)[V] BY <4>1
      <4> QED BY <2>2, <3>1, <3>3, <4>3, <4>4 DEF SumStep
    <3> QED BY <3>2, <3>3
  <2>3. h[T] = SumStep(f, h, T)
    <3>1. h[T] = SumStep(f, below, T) OBVIOUS
    <3>2. CASE T = {} BY <3>1, <3>2 DEF SumStep
    <3>3. CASE T # {}
      <4>1. T \ {Some(T)} \in SUBSET T /\ T \ {Some(T)} # T BY <3>3, SomeIsMember
      <4>2. below[T \ {Some(T)}] = h[T \ {Some(T)}] BY <4>1
      <4> QED BY <3>1, <3>3, <4>2 DEF SumStep
    <3> QED BY <3>2, <3>3
  <2>4. \A U \in SUBSET T : h[U] = SumStep(f, h, U) BY <2>2, <2>3
  <2>5. AreSums(f, T, h)
    <3>1. h = [U \in SUBSET T |-> h[U]] OBVIOUS
    <3> HIDE DEF h
    <3> QED BY <2>4, <3>1 DEF AreSums
  <2> QED BY <2>5
<1> HIDE DEF holds
<1>2. S \in holds BY <1>1, SubsetInduction
<1> QED BY <1>2 DEF holds

(* The sum of no numbers, and of some: the chosen one and the others.       *)
LEMMA SumUnfolds ==
    ASSUME NEW f, NEW S, IsFiniteSet(S)
    PROVE  /\ SumOver(f, {}) = 0
           /\ S # {} => SumOver(f, S) = f[Some(S)] + SumOver(f, S \ {Some(S)})
<1> DEFINE Sums(T) == CHOOSE g : AreSums(f, T, g)
<1>1. \A T : SumOver(f, T) = Sums(T)[T]
  BY Zenon DEF SumOver, MapThenSumSet, MapThenFoldSet, AreSums, SumStep, Some
<1>2. \A T : IsFiniteSet(T) => AreSums(f, T, Sums(T)) BY SumsExist
<1> HIDE DEF Sums
<1>3. SumOver(f, {}) = 0
  <2>1. Sums({})[{}] = SumStep(f, Sums({}), {}) BY <1>2, FS_EmptySet DEF AreSums
  <2> QED BY <1>1, <2>1 DEF SumStep
<1>4. ASSUME S # {} PROVE SumOver(f, S) = f[Some(S)] + SumOver(f, S \ {Some(S)})
  <2> DEFINE rest == S \ {Some(S)}
  <2>1. rest \in SUBSET S /\ IsFiniteSet(rest) BY FS_Subset, rest \in SUBSET S
  <2>2. Sums(S)[S] = f[Some(S)] + Sums(S)[rest]
    BY <1>2, <1>4 DEF AreSums, SumStep
  <2>3. AreSums(f, S, Sums(S)) /\ AreSums(f, rest, Sums(rest)) BY <1>2, <2>1
  <2> HIDE DEF rest
  <2>4. Sums(S)[rest] = Sums(rest)[rest] BY <2>1, <2>3, SumsAgree
  <2> QED BY <1>1, <2>2, <2>4 DEF rest
<1> QED BY <1>3, <1>4

(* A sum of naturals is one.                                                *)
LEMMA SumIsNat ==
    ASSUME NEW S, IsFiniteSet(S), NEW f, \A x \in S : f[x] \in Nat
    PROVE  SumOver(f, S) \in Nat
<1> DEFINE holds == {T \in SUBSET S : SumOver(f, T) \in Nat}
<1>1. ASSUME NEW T \in SUBSET S, \A U \in SUBSET T : U # T => U \in holds
      PROVE  T \in holds
  <2>1. CASE T = {}
    <3>1. SumOver(f, {}) = 0 BY SumUnfolds, FS_EmptySet
    <3> QED BY <2>1, <3>1
  <2>2. CASE T # {}
    <3>1. Some(T) \in T /\ IsFiniteSet(T) BY <2>2, SomeIsMember, FS_Subset
    <3>2. SumOver(f, T \ {Some(T)}) \in Nat BY <1>1, <3>1
    <3> QED BY <2>2, <3>1, <3>2, SumUnfolds
  <2> QED BY <2>1, <2>2
<1> HIDE DEF holds
<1>2. S \in holds BY <1>1, SubsetInduction
<1> QED BY <1>2 DEF holds

(* Whichever number is taken first, the sum is the same.                    *)
LEMMA SumWithout ==
    ASSUME NEW S, IsFiniteSet(S), NEW f, \A x \in S : f[x] \in Nat, NEW x \in S
    PROVE  SumOver(f, S) = f[x] + SumOver(f, S \ {x})
<1> DEFINE holds == {T \in SUBSET S :
                        \A y \in T : SumOver(f, T) = f[y] + SumOver(f, T \ {y})}
<1>1. ASSUME NEW T \in SUBSET S, \A U \in SUBSET T : U # T => U \in holds
      PROVE  T \in holds
  <2> SUFFICES ASSUME NEW y \in T PROVE SumOver(f, T) = f[y] + SumOver(f, T \ {y})
    OBVIOUS
  <2> DEFINE z == Some(T)
  <2>1. z \in T BY SomeIsMember
  <2>2. /\ IsFiniteSet(T) /\ IsFiniteSet(T \ {y})
        /\ IsFiniteSet((T \ {z}) \ {y}) BY FS_Subset
  <2>3. SumOver(f, T) = f[z] + SumOver(f, T \ {z}) BY <2>2, SumUnfolds
  <2> HIDE DEF z
  <2>4. CASE y = z BY <2>3, <2>4
  <2>5. CASE y # z
    <3>1. SumOver(f, T \ {z}) = f[y] + SumOver(f, (T \ {z}) \ {y})
      <4>1. T \ {z} \in holds BY <1>1, <2>1
      <4> QED BY <2>5, <4>1
    <3>2. SumOver(f, T \ {y}) = f[z] + SumOver(f, (T \ {y}) \ {z})
      <4>1. T \ {y} \in holds BY <1>1
      <4> QED BY <2>1, <2>5, <4>1
    <3>3. (T \ {y}) \ {z} = (T \ {z}) \ {y} OBVIOUS
    <3>4. SumOver(f, (T \ {z}) \ {y}) \in Nat BY <2>2, SumIsNat
    <3> QED BY <2>1, <2>3, <3>1, <3>2, <3>3, <3>4
  <2> QED BY <2>4, <2>5
<1> HIDE DEF holds
<1>2. S \in holds BY <1>1, SubsetInduction
<1> QED BY <1>2 DEF holds

(* One more number adds to the sum.                                         *)
LEMMA SumWith ==
    ASSUME NEW S, IsFiniteSet(S), NEW f, NEW x, x \notin S,
           \A y \in S \cup {x} : f[y] \in Nat
    PROVE  SumOver(f, S \cup {x}) = f[x] + SumOver(f, S)
<1>1. IsFiniteSet(S \cup {x}) BY FS_AddElement
<1>2. (S \cup {x}) \ {x} = S OBVIOUS
<1>3. SumOver(f, S \cup {x}) = f[x] + SumOver(f, (S \cup {x}) \ {x})
  BY <1>1, SumWithout
<1> QED BY <1>2, <1>3

(* Fewer numbers make no larger sum.                                        *)
LEMMA SumIsMonotone ==
    ASSUME NEW S, IsFiniteSet(S), NEW f, \A x \in S : f[x] \in Nat, NEW R \in SUBSET S
    PROVE  SumOver(f, R) <= SumOver(f, S)
<1> DEFINE holds == {T \in SUBSET S : R \subseteq T => SumOver(f, R) <= SumOver(f, T)}
<1>1. ASSUME NEW T \in SUBSET S, \A U \in SUBSET T : U # T => U \in holds
      PROVE  T \in holds
  <2> SUFFICES ASSUME R \subseteq T PROVE SumOver(f, R) <= SumOver(f, T)
    OBVIOUS
  <2>1. IsFiniteSet(T) /\ IsFiniteSet(R) BY FS_Subset
  <2>2. SumOver(f, R) \in Nat /\ SumOver(f, T) \in Nat BY <2>1, SumIsNat
  <2>3. CASE R = T BY <2>2, <2>3
  <2>4. CASE R # T
    <3>1. PICK x \in T : x \notin R BY <2>4
    <3>2. SumOver(f, T) = f[x] + SumOver(f, T \ {x}) BY <2>1, SumWithout
    <3>3. T \ {x} \in holds BY <1>1, <3>1
    <3>4. SumOver(f, R) <= SumOver(f, T \ {x}) BY <3>1, <3>3
    <3>5. SumOver(f, T \ {x}) \in Nat
      <4>1. IsFiniteSet(T \ {x}) BY <2>1, FS_Subset
      <4> QED BY <4>1, SumIsNat
    <3> QED BY <2>2, <3>2, <3>4, <3>5
  <2> QED BY <2>3, <2>4
<1> HIDE DEF holds
<1>2. S \in holds BY <1>1, SubsetInduction
<1> QED BY <1>2 DEF holds

(* Functions that agree on a set have the same sum over it.                 *)
LEMMA SumOfSame ==
    ASSUME NEW S, IsFiniteSet(S), NEW f, NEW g, \A x \in S : g[x] = f[x]
    PROVE  SumOver(g, S) = SumOver(f, S)
<1> DEFINE holds == {T \in SUBSET S : SumOver(g, T) = SumOver(f, T)}
<1>1. ASSUME NEW T \in SUBSET S, \A U \in SUBSET T : U # T => U \in holds
      PROVE  T \in holds
  <2>1. SumOver(g, {}) = 0 /\ SumOver(f, {}) = 0 BY SumUnfolds, FS_EmptySet
  <2>2. CASE T = {} BY <2>1, <2>2
  <2>3. CASE T # {}
    <3>1. Some(T) \in T /\ IsFiniteSet(T) BY <2>3, SomeIsMember, FS_Subset
    <3>2. SumOver(g, T \ {Some(T)}) = SumOver(f, T \ {Some(T)}) BY <1>1, <3>1
    <3>3. /\ SumOver(g, T) = g[Some(T)] + SumOver(g, T \ {Some(T)})
          /\ SumOver(f, T) = f[Some(T)] + SumOver(f, T \ {Some(T)})
      BY <2>3, <3>1, SumUnfolds
    <3> QED BY <3>1, <3>2, <3>3
  <2> QED BY <2>2, <2>3
<1> HIDE DEF holds
<1>2. S \in holds BY <1>1, SubsetInduction
<1> QED BY <1>2 DEF holds

(* What is no more at each member is no more in all.                        *)
LEMMA SumOfLess ==
    ASSUME NEW S, IsFiniteSet(S), NEW f, NEW g,
           \A x \in S : f[x] \in Nat /\ g[x] \in Nat /\ f[x] <= g[x]
    PROVE  SumOver(f, S) <= SumOver(g, S)
<1> DEFINE holds == {T \in SUBSET S : SumOver(f, T) <= SumOver(g, T)}
<1>1. ASSUME NEW T \in SUBSET S, \A U \in SUBSET T : U # T => U \in holds
      PROVE  T \in holds
  <2>1. SumOver(f, {}) = 0 /\ SumOver(g, {}) = 0 BY SumUnfolds, FS_EmptySet
  <2>2. CASE T = {} BY <2>1, <2>2
  <2>3. CASE T # {}
    <3>1. Some(T) \in T /\ IsFiniteSet(T) BY <2>3, SomeIsMember, FS_Subset
    <3>2. SumOver(f, T \ {Some(T)}) <= SumOver(g, T \ {Some(T)}) BY <1>1, <3>1
    <3>3. /\ SumOver(f, T) = f[Some(T)] + SumOver(f, T \ {Some(T)})
          /\ SumOver(g, T) = g[Some(T)] + SumOver(g, T \ {Some(T)})
      BY <2>3, <3>1, SumUnfolds
    <3>4. SumOver(f, T \ {Some(T)}) \in Nat /\ SumOver(g, T \ {Some(T)}) \in Nat
      <4>1. IsFiniteSet(T \ {Some(T)}) BY <3>1, FS_Subset
      <4> QED BY <4>1, SumIsNat
    <3>5. f[Some(T)] \in Nat /\ g[Some(T)] \in Nat /\ f[Some(T)] <= g[Some(T)] BY <3>1
    <3>6. SumOver(f, T) <= SumOver(g, T) BY <3>2, <3>3, <3>4, <3>5
    <3> QED BY <3>6
  <2> QED BY <2>2, <2>3
<1> HIDE DEF holds
<1>2. S \in holds BY <1>1, SubsetInduction
<1> QED BY <1>2 DEF holds

LEMMA SumOfZeros ==
    ASSUME NEW S, IsFiniteSet(S), NEW f, \A x \in S : f[x] = 0
    PROVE  SumOver(f, S) = 0
<1> DEFINE holds == {T \in SUBSET S : SumOver(f, T) = 0}
<1>1. ASSUME NEW T \in SUBSET S, \A U \in SUBSET T : U # T => U \in holds
      PROVE  T \in holds
  <2>1. SumOver(f, {}) = 0 BY SumUnfolds, FS_EmptySet
  <2>2. CASE T = {} BY <2>1, <2>2
  <2>3. CASE T # {}
    <3>1. Some(T) \in T /\ IsFiniteSet(T) BY <2>3, SomeIsMember, FS_Subset
    <3>2. SumOver(f, T \ {Some(T)}) = 0 BY <1>1, <3>1
    <3>3. SumOver(f, T) = f[Some(T)] + SumOver(f, T \ {Some(T)}) BY <2>3, <3>1, SumUnfolds
    <3> QED BY <3>1, <3>2, <3>3
  <2> QED BY <2>2, <2>3
<1> HIDE DEF holds
<1>2. S \in holds BY <1>1, SubsetInduction
<1> QED BY <1>2 DEF holds

(* The sum over two sets with nothing in common.                            *)
LEMMA SumOfParts ==
    ASSUME NEW S, IsFiniteSet(S), NEW R, IsFiniteSet(R), S \cap R = {},
           NEW f, \A x \in S \cup R : f[x] \in Nat
    PROVE  SumOver(f, S \cup R) = SumOver(f, S) + SumOver(f, R)
<1> DEFINE holds == {T \in SUBSET S : SumOver(f, T \cup R) = SumOver(f, T) + SumOver(f, R)}
<1>1. ASSUME NEW T \in SUBSET S, \A U \in SUBSET T : U # T => U \in holds
      PROVE  T \in holds
  <2>1. SumOver(f, R) \in Nat BY SumIsNat
  <2>2. CASE T = {}
    <3>1. SumOver(f, {}) = 0 BY SumUnfolds, FS_EmptySet
    <3>2. {} \cup R = R OBVIOUS
    <3> QED BY <2>1, <2>2, <3>1, <3>2
  <2>3. CASE T # {}
    <3>1. PICK x : x \in T BY <2>3
    <3>2. PICK U : U = T \ {x} OBVIOUS
    <3>3. IsFiniteSet(T) /\ IsFiniteSet(U) /\ IsFiniteSet(T \cup R) /\ IsFiniteSet(U \cup R)
      BY <3>2, FS_Subset, FS_Union
    <3>4. SumOver(f, U \cup R) = SumOver(f, U) + SumOver(f, R) BY <1>1, <3>1, <3>2
    <3>5. (T \cup R) \ {x} = U \cup R BY <3>1, <3>2
    <3>6. SumOver(f, T \cup R) = f[x] + SumOver(f, U \cup R)
      BY <3>1, <3>3, <3>5, SumWithout
    <3>7. SumOver(f, T) = f[x] + SumOver(f, U) BY <3>1, <3>2, <3>3, SumWithout
    <3>8. SumOver(f, U) \in Nat /\ f[x] \in Nat BY <3>1, <3>2, <3>3, SumIsNat
    <3> QED BY <2>1, <3>4, <3>6, <3>7, <3>8
  <2> QED BY <2>2, <2>3
<1> HIDE DEF holds
<1>2. S \in holds BY <1>1, SubsetInduction
<1> QED BY <1>2 DEF holds
=============================================================================
