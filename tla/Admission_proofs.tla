--------------------------- MODULE Admission_proofs ---------------------------
(***************************************************************************)
(* Proofs about Admission: whatever requests do inside, and whenever they   *)
(* time out, fail or are cancelled, permits and counters stay right.        *)
(*                                                                         *)
(* Everything is a count of requests per place, so the proof rests on one   *)
(* lemma about such a count when one request moves, and one about a request *)
(* that gives its permit back.                                              *)
(***************************************************************************)
EXTENDS Admission, FiniteSetTheorems, TLAPS

CountAt(f, places) == Cardinality({q \in Requests : f[q] \in places})

OneIf(b) == IF b THEN 1 ELSE 0

(* Of all requests, only r may have moved between f and g.                  *)
SameBut(f, g, r) == \A q \in Requests : q # r => g[q] = f[q]

Permitted == Inside \cup {"handed", "granted"}

(* The inductive invariant: types, with the counters only known to be       *)
(* numbers, and the accounting that bounds them.                            *)
IInv ==
    /\ pc \in [Requests -> Places]
    /\ ticket \in [Requests -> Nat]
    /\ permits \in Nat /\ active \in Int
    /\ shutdown \in {"no", "returned"}
    /\ permits + CountAt(pc, Permitted) = MaxConcurrent
    /\ active = CountAt(pc, Inside)
    /\ processed = CountAt(pc, {"done"})
    /\ failures = CountAt(pc, {"failed"})
    /\ rejections = CountAt(pc, {"rejected"})
    /\ NoPermitStranded

(* A count of requests is a number.                                         *)
LEMMA CountIsNat ==
    ASSUME NEW f, NEW places
    PROVE  CountAt(f, places) \in Nat
<1>1. IsFiniteSet({q \in Requests : f[q] \in places})
  BY AdmissionAssumption, FS_Subset, {q \in Requests : f[q] \in places} \in SUBSET Requests
<1> QED BY <1>1, FS_CardinalityType DEF CountAt

(* A larger set of places holds no fewer requests.                          *)
LEMMA CountIsMonotone ==
    ASSUME NEW f, NEW few, NEW many, few \subseteq many
    PROVE  CountAt(f, few) <= CountAt(f, many)
<1> DEFINE A == {q \in Requests : f[q] \in few}
           B == {q \in Requests : f[q] \in many}
<1>1. IsFiniteSet(B)
  BY AdmissionAssumption, FS_Subset, B \in SUBSET Requests
<1>2. A \in SUBSET B OBVIOUS
<1> HIDE DEF A, B
<1>3. Cardinality(A) <= Cardinality(B) BY <1>1, <1>2, FS_Subset
<1> QED BY <1>3 DEF CountAt, A, B

(* One request moves: its old place loses one, its new place gains one.     *)
LEMMA CountOfMove ==
    ASSUME NEW f, NEW g, NEW r \in Requests, NEW places,
           SameBut(f, g, r)
    PROVE  CountAt(g, places)
             = CountAt(f, places) + OneIf(g[r] \in places) - OneIf(f[r] \in places)
<1> DEFINE A == {q \in Requests : f[q] \in places}
           B == {q \in Requests : g[q] \in places}
<1>1. IsFiniteSet(A) /\ IsFiniteSet(B)
  BY AdmissionAssumption, FS_Subset, A \in SUBSET Requests, B \in SUBSET Requests
<1>2. Cardinality(A) \in Nat BY <1>1, FS_CardinalityType
<1>3. r \in A <=> f[r] \in places OBVIOUS
<1>4. B = IF g[r] \in places THEN A \cup {r} ELSE A \ {r} BY DEF SameBut
<1> HIDE DEF A, B
<1>5. Cardinality(A \cup {r}) = IF r \in A THEN Cardinality(A) ELSE Cardinality(A) + 1
  BY <1>1, FS_AddElement
<1>6. Cardinality(A \ {r}) = IF r \in A THEN Cardinality(A) - 1 ELSE Cardinality(A)
  BY <1>1, FS_RemoveElement
<1>7. Cardinality(B) = Cardinality(A) + OneIf(g[r] \in places) - OneIf(f[r] \in places)
  BY <1>2, <1>3, <1>4, <1>5, <1>6 DEF OneIf
<1> QED BY <1>7 DEF CountAt, A, B

(* Two requests move in one step.                                           *)
LEMMA CountOfTwoMoves ==
    ASSUME NEW f \in [Requests -> Places], NEW g, NEW r \in Requests, NEW s \in Requests,
           r # s, NEW places,
           \A q \in Requests : q # r /\ q # s => g[q] = f[q]
    PROVE  CountAt(g, places)
             = CountAt(f, places) + OneIf(g[r] \in places) - OneIf(f[r] \in places)
                 + OneIf(g[s] \in places) - OneIf(f[s] \in places)
<1>1. PICK mid : mid = [q \in Requests |-> IF q = r THEN g[r] ELSE f[q]] OBVIOUS
<1>2. mid[r] = g[r] /\ mid[s] = f[s] /\ SameBut(f, mid, r) /\ SameBut(mid, g, s)
  BY <1>1 DEF SameBut
<1>3. CountAt(mid, places)
        = CountAt(f, places) + OneIf(g[r] \in places) - OneIf(f[r] \in places)
  BY <1>2, CountOfMove DEF OneIf
<1>4. CountAt(g, places)
        = CountAt(mid, places) + OneIf(g[s] \in places) - OneIf(f[s] \in places)
  BY <1>2, CountOfMove DEF OneIf
<1> QED BY <1>3, <1>4, CountIsNat DEF OneIf

(* A request gives its permit back, to the next waiter or to the semaphore. *)
LEMMA Release ==
    ASSUME IInv, NEW r \in Requests, pc[r] \in Permitted,
           NEW outcome \in Final, ReleasePermit(r, outcome)
    PROVE  /\ pc' \in [Requests -> Places]
           /\ permits' \in Nat
           /\ permits' + CountAt(pc', Permitted) = MaxConcurrent
           /\ CountAt(pc', Inside) = CountAt(pc, Inside) - OneIf(pc[r] \in Inside)
           /\ \A p \in {"done", "failed", "rejected"} :
                 CountAt(pc', {p}) = CountAt(pc, {p}) + OneIf(outcome = p)
           /\ NoPermitStranded'
<1> USE DEF IInv, Places, Final, Inside, Permitted
<1>1. \A P : CountAt(pc, P) \in Nat BY CountIsNat
<1>2. CASE /\ Queued = {} /\ permits' = permits + 1
           /\ pc' = [pc EXCEPT ![r] = outcome]
  <2>1. \A P : CountAt(pc', P) = CountAt(pc, P) + OneIf(outcome \in P) - OneIf(pc[r] \in P)
    <3>1. pc'[r] = outcome /\ SameBut(pc, pc', r) BY <1>2 DEF SameBut
    <3> QED BY <3>1, CountOfMove DEF OneIf
  <2>2. Queued' = {} BY <1>2 DEF Queued, InPlaces
  <2>3. pc' \in [Requests -> Places] /\ permits' \in Nat BY <1>2
  <2>4. CountAt(pc', Permitted) = CountAt(pc, Permitted) - 1
    BY <2>1, <1>1 DEF OneIf
  <2>5. CountAt(pc', Inside) = CountAt(pc, Inside) - OneIf(pc[r] \in Inside)
    BY <2>1, <1>1 DEF OneIf
  <2>6. ASSUME NEW p \in {"done", "failed", "rejected"}
        PROVE  CountAt(pc', {p}) = CountAt(pc, {p}) + OneIf(outcome = p)
    BY <2>1, <1>1 DEF OneIf
  <2>7. permits' + CountAt(pc', Permitted) = MaxConcurrent
    BY <1>1, <1>2, <2>4, AdmissionAssumption
  <2> QED BY <2>2, <2>3, <2>5, <2>6, <2>7 DEF NoPermitStranded
<1>3. ASSUME NEW q \in NextInLine,
             pc' = [pc EXCEPT ![r] = outcome, ![q] = "handed"], permits' = permits
      PROVE  /\ pc' \in [Requests -> Places]
             /\ permits' \in Nat
             /\ permits' + CountAt(pc', Permitted) = MaxConcurrent
             /\ CountAt(pc', Inside) = CountAt(pc, Inside) - OneIf(pc[r] \in Inside)
             /\ \A p \in {"done", "failed", "rejected"} :
                   CountAt(pc', {p}) = CountAt(pc, {p}) + OneIf(outcome = p)
             /\ NoPermitStranded'
  <2>1. q \in Requests /\ pc[q] = "queued" /\ q # r /\ Queued # {}
    BY DEF NextInLine, Queued, InPlaces
  <2>4. \A P : CountAt(pc', P) = CountAt(pc, P) + OneIf(outcome \in P) - OneIf(pc[r] \in P)
                                  + OneIf("handed" \in P) - OneIf("queued" \in P)
    <3>1. /\ pc'[r] = outcome /\ pc'[q] = "handed"
          /\ \A p \in Requests : p # r /\ p # q => pc'[p] = pc[p]
      BY <1>3, <2>1
    <3> QED BY <2>1, <3>1, CountOfTwoMoves DEF OneIf
  <2>7. pc' \in [Requests -> Places] /\ permits' \in Nat BY <1>3, <2>1
  <2>8. CountAt(pc', Permitted) = CountAt(pc, Permitted)
    BY <2>4, <1>1 DEF OneIf
  <2>9. CountAt(pc', Inside) = CountAt(pc, Inside) - OneIf(pc[r] \in Inside)
    BY <2>4, <1>1 DEF OneIf
  <2>10. ASSUME NEW p \in {"done", "failed", "rejected"}
         PROVE  CountAt(pc', {p}) = CountAt(pc, {p}) + OneIf(outcome = p)
    BY <2>4, <1>1 DEF OneIf
  <2>11. permits' + CountAt(pc', Permitted) = MaxConcurrent BY <1>3, <2>8
  <2>12. q \in Handed' BY <1>3, <2>1 DEF Handed, InPlaces
  <2> QED BY <1>3, <2>7, <2>9, <2>10, <2>11, <2>12 DEF NoPermitStranded
<1> QED BY <1>2, <1>3 DEF ReleasePermit

Moves(r, place) == pc' = [pc EXCEPT ![r] = place]

(* A request that keeps or never had its permit moves: the counts follow.   *)
LEMMA Move ==
    ASSUME IInv, NEW r \in Requests, NEW place \in Places, Moves(r, place)
    PROVE  /\ pc' \in [Requests -> Places]
           /\ \A P : CountAt(pc, P) \in Nat
           /\ \A P : CountAt(pc', P)
                       = CountAt(pc, P) + OneIf(place \in P) - OneIf(pc[r] \in P)
           /\ Queued' = IF place = "queued" THEN Queued \cup {r} ELSE Queued \ {r}
           /\ pc[r] # "handed" => Handed \subseteq Handed'
<1>1. \A P : CountAt(pc, P) \in Nat BY CountIsNat
<1>2. ASSUME NEW P
      PROVE  CountAt(pc', P) = CountAt(pc, P) + OneIf(place \in P) - OneIf(pc[r] \in P)
  <2>1. pc'[r] = place /\ SameBut(pc, pc', r) BY DEF IInv, SameBut, Moves
  <2> QED BY <2>1, CountOfMove DEF OneIf
<1>3. pc' \in [Requests -> Places] BY DEF IInv, Moves
<1>4. Queued' = IF place = "queued" THEN Queued \cup {r} ELSE Queued \ {r}
  BY DEF IInv, Queued, InPlaces, Moves
<1>5. pc[r] # "handed" => Handed \subseteq Handed'
  BY DEF IInv, Handed, InPlaces, Moves
<1> QED BY <1>1, <1>2, <1>3, <1>4, <1>5

(* Every request starts outside and every count but the permits' at zero.   *)
LEMMA InitIInv == AdmissionInit => IInv
<1> SUFFICES ASSUME AdmissionInit PROVE IInv OBVIOUS
<1> USE DEF AdmissionInit, Places, Inside, Final, Permitted
<1>1. \A P : "idle" \notin P => CountAt(pc, P) = 0
  <2> SUFFICES ASSUME NEW P, "idle" \notin P PROVE CountAt(pc, P) = 0 OBVIOUS
  <2>1. {q \in Requests : pc[q] \in P} = {} OBVIOUS
  <2> QED BY <2>1, FS_EmptySet DEF CountAt
<1>2. Queued = {} BY DEF Queued, InPlaces
<1>3. MaxConcurrent \in Nat BY AdmissionAssumption
<1> QED BY <1>1, <1>2, <1>3 DEF IInv, NoPermitStranded

LEMMA NextIInv == IInv /\ [AdmissionNext]_admissionVars => IInv'
<1> SUFFICES ASSUME IInv, [AdmissionNext]_admissionVars PROVE IInv' OBVIOUS
<1> USE DEF Places, Inside, Final, Permitted
<1>c. MaxConcurrent \in Nat BY AdmissionAssumption
<1>n. \A P : CountAt(pc, P) \in Nat BY CountIsNat
<1>1. CASE UNCHANGED admissionVars
  BY <1>1 DEF admissionVars, totals, IInv, NoPermitStranded, CountAt, Queued, Handed, InPlaces
<1>2. CASE Shutdown
  BY <1>2 DEF Shutdown, totals, IInv, NoPermitStranded, CountAt, Queued, Handed, InPlaces
<1>3. ASSUME NEW r \in Requests, Submit(r) PROVE IInv'
  <2>0. pc[r] = "idle" BY <1>3 DEF Submit
  <2>1. CASE shutdown # "no" /\ Moves(r, "refused") /\ UNCHANGED <<ticket, permits>>
    BY <1>3, <2>0, <2>1, Move DEF Submit, totals, IInv, OneIf, NoPermitStranded
  <2>2. CASE /\ shutdown = "no" /\ permits > 0 /\ Queued = {} /\ Moves(r, "granted")
             /\ permits' = permits - 1 /\ UNCHANGED ticket
    BY <1>3, <1>c, <2>0, <2>2, Move DEF Submit, totals, IInv, OneIf, NoPermitStranded
  <2>3. CASE /\ shutdown = "no" /\ (permits = 0 \/ Queued # {} \/ Handed # {})
             /\ Moves(r, "queued")
             /\ ticket' = [ticket EXCEPT ![r] = Cardinality(Requests \ InPlaces({"idle"}))]
             /\ UNCHANGED permits
    <3>1. Cardinality(Requests \ InPlaces({"idle"})) \in Nat
      BY AdmissionAssumption, FS_Subset, FS_CardinalityType,
         Requests \ InPlaces({"idle"}) \in SUBSET Requests
    <3>2. ticket' \in [Requests -> Nat] BY <2>3, <3>1 DEF IInv
    <3>3. NoPermitStranded' BY <2>0, <2>3, Move DEF IInv, NoPermitStranded
    <3> QED BY <1>3, <2>0, <2>3, <3>2, <3>3, Move DEF Submit, totals, IInv, OneIf
  <2> QED BY <1>3, <2>1, <2>2, <2>3 DEF Submit, Moves
<1>r. ASSUME NEW r \in Requests, Resume(r) PROVE IInv'
  <2>0. pc[r] = "handed" BY <1>r DEF Resume
  <2>1. CASE /\ permits = 0 \/ Queued = {}
             /\ Moves(r, "granted") /\ UNCHANGED permits
    <3>1. permits' = 0 \/ Queued' = {} BY <2>0, <2>1, Move
    <3> QED
      BY <1>r, <1>n, <2>0, <2>1, <3>1, Move DEF Resume, totals, IInv, OneIf, NoPermitStranded
  <2>2. ASSUME NEW q \in NextInLine, permits > 0,
               pc' = [pc EXCEPT ![r] = "granted", ![q] = "handed"], permits' = permits - 1
        PROVE  IInv'
    <3>1. q \in Requests /\ pc[q] = "queued" /\ q # r
      BY <2>0 DEF NextInLine, Queued, InPlaces
    <3>2. /\ pc' \in [Requests -> Places] /\ q \in Handed'
          /\ pc'[r] = "granted" /\ pc'[q] = "handed"
          /\ \A p \in Requests : p # r /\ p # q => pc'[p] = pc[p]
      BY <2>2, <3>1 DEF IInv, Handed, InPlaces
    <3>3. \A P : CountAt(pc', P) = CountAt(pc, P) + OneIf("granted" \in P) - OneIf("handed" \in P)
                                    + OneIf("handed" \in P) - OneIf("queued" \in P)
      BY <2>0, <3>1, <3>2, CountOfTwoMoves DEF IInv, OneIf
    <3>4. CountAt(pc', Permitted) = CountAt(pc, Permitted) + 1 BY <3>3, <1>n DEF OneIf
    <3>5. CountAt(pc', Inside) = CountAt(pc, Inside) BY <3>3, <1>n DEF OneIf
    <3>6. ASSUME NEW p \in {"done", "failed", "rejected"}
          PROVE  CountAt(pc', {p}) = CountAt(pc, {p})
      BY <3>3, <1>n DEF OneIf
    <3>7. permits' \in Nat /\ permits' + CountAt(pc', Permitted) = MaxConcurrent
      BY <2>2, <3>4, <1>n DEF IInv
    <3> QED BY <1>r, <3>2, <3>5, <3>6, <3>7 DEF Resume, totals, IInv, NoPermitStranded
  <2> QED BY <1>r, <2>1, <2>2 DEF Resume, Moves
<1>4. ASSUME NEW r \in Requests, AcquireTimeout(r) PROVE IInv'
  <2>1. CASE pc[r] = "queued" /\ Moves(r, "rejected") /\ UNCHANGED permits
    BY <1>4, <2>1, Move DEF AcquireTimeout, IInv, OneIf, NoPermitStranded
  <2>2. CASE pc[r] = "handed" /\ ReleasePermit(r, "rejected")
    BY <1>4, <2>2, <1>n, Release DEF AcquireTimeout, IInv, OneIf
  <2> QED BY <1>4, <2>1, <2>2 DEF AcquireTimeout, Moves
<1>5. ASSUME NEW r \in Requests, Withdraw(r) PROVE IInv'
  <2>1. CASE pc[r] = "queued" /\ Moves(r, "cancelled") /\ UNCHANGED permits
    BY <1>5, <2>1, Move DEF Withdraw, totals, IInv, OneIf, NoPermitStranded
  <2>2. CASE pc[r] = "handed" /\ ReleasePermit(r, "cancelled")
    BY <1>5, <2>2, <1>n, Release DEF Withdraw, totals, IInv, OneIf
  <2> QED BY <1>5, <2>1, <2>2 DEF Withdraw, Moves
<1>6. ASSUME NEW r \in Requests, EnterAndFail(r) PROVE IInv'
  BY <1>6, <1>n, Release DEF EnterAndFail, IInv, OneIf
<1>7. ASSUME NEW r \in Requests, NEW outcome \in Final, Leave(r, outcome)
      PROVE  /\ pc' \in [Requests -> Places]
             /\ permits' \in Nat /\ active' \in Int
             /\ permits' + CountAt(pc', Permitted) = MaxConcurrent
             /\ active' = CountAt(pc', Inside)
             /\ \A p \in {"done", "failed", "rejected"} :
                   CountAt(pc', {p}) = CountAt(pc, {p}) + OneIf(outcome = p)
             /\ NoPermitStranded'
             /\ UNCHANGED <<ticket, shutdown>>
  BY <1>7, <1>n, Release DEF Leave, IInv, OneIf
<1>8. ASSUME NEW r \in Requests, Succeed(r) PROVE IInv'
  BY <1>8, <1>7, <1>n DEF Succeed, IInv, OneIf
<1>9. ASSUME NEW r \in Requests, Fail(r) PROVE IInv'
  BY <1>9, <1>7, <1>n DEF Fail, IInv, OneIf
<1>10. ASSUME NEW r \in Requests, Abandon(r) PROVE IInv'
  BY <1>10, <1>7, <1>n DEF Abandon, totals, IInv, OneIf
<1>11. ASSUME NEW r \in Requests, NEW place \in Inside, Enter(r, place) PROVE IInv'
  <2>1. Moves(r, place) BY <1>11 DEF Enter, Moves
  <2>2. /\ pc' \in [Requests -> Places] /\ Queued' = Queued \ {r}
        /\ Handed \subseteq Handed'
    BY <1>11, <2>1, Move DEF Enter
  <2>3. CountAt(pc', Inside) = CountAt(pc, Inside) + 1
    <3>1. CountAt(pc', Inside)
            = CountAt(pc, Inside) + OneIf(place \in Inside) - OneIf(pc[r] \in Inside)
      BY <2>1, Move
    <3> QED BY <1>11, <1>n, <3>1 DEF Enter, OneIf
  <2>4. CountAt(pc', Permitted) = CountAt(pc, Permitted)
    <3>1. CountAt(pc', Permitted)
            = CountAt(pc, Permitted) + OneIf(place \in Permitted) - OneIf(pc[r] \in Permitted)
      BY <2>1, Move
    <3> QED BY <1>11, <1>n, <3>1 DEF Enter, OneIf
  <2>5. ASSUME NEW p \in {"done", "failed", "rejected"}
        PROVE  CountAt(pc', {p}) = CountAt(pc, {p})
    <3>1. CountAt(pc', {p})
            = CountAt(pc, {p}) + OneIf(place \in {p}) - OneIf(pc[r] \in {p})
      BY <2>1, Move
    <3> QED BY <1>11, <1>n, <3>1 DEF Enter, OneIf
  <2> QED BY <1>11, <2>2, <2>3, <2>4, <2>5 DEF Enter, totals, IInv, NoPermitStranded
<1>12. ASSUME NEW r \in Requests, NEW place \in Inside, Proceed(r, place) PROVE IInv'
  <2>1. Moves(r, place) BY <1>12 DEF Proceed, Moves
  <2>2. /\ pc' \in [Requests -> Places] /\ Queued' = Queued \ {r}
        /\ Handed \subseteq Handed'
    BY <1>12, <2>1, Move DEF Proceed
  <2>3. CountAt(pc', Inside) = CountAt(pc, Inside)
    <3>1. CountAt(pc', Inside)
            = CountAt(pc, Inside) + OneIf(place \in Inside) - OneIf(pc[r] \in Inside)
      BY <2>1, Move
    <3> QED BY <1>12, <1>n, <3>1 DEF Proceed, OneIf
  <2>4. CountAt(pc', Permitted) = CountAt(pc, Permitted)
    <3>1. CountAt(pc', Permitted)
            = CountAt(pc, Permitted) + OneIf(place \in Permitted) - OneIf(pc[r] \in Permitted)
      BY <2>1, Move
    <3> QED BY <1>12, <1>n, <3>1 DEF Proceed, OneIf
  <2>5. ASSUME NEW p \in {"done", "failed", "rejected"}
        PROVE  CountAt(pc', {p}) = CountAt(pc, {p})
    <3>1. CountAt(pc', {p})
            = CountAt(pc, {p}) + OneIf(place \in {p}) - OneIf(pc[r] \in {p})
      BY <2>1, Move
    <3> QED BY <1>12, <1>n, <3>1 DEF Proceed, OneIf
  <2> QED BY <1>12, <2>2, <2>3, <2>4, <2>5 DEF Proceed, totals, IInv, NoPermitStranded
<1> QED
  BY <1>1, <1>2, <1>3, <1>r, <1>4, <1>5, <1>6, <1>8, <1>9, <1>10, <1>11, <1>12
  DEF AdmissionNext

(* What the inductive invariant says in the words of the specification.     *)
LEMMA IInvImplies ==
    IInv => AdmissionTypeOK /\ PermitAccounting /\ TotalsAddUp /\ NoPermitStranded
<1> SUFFICES ASSUME IInv
             PROVE  AdmissionTypeOK /\ PermitAccounting /\ TotalsAddUp /\ NoPermitStranded
  OBVIOUS
<1>1. \A P : CountAt(pc, P) \in Nat BY CountIsNat
<1>2. CountAt(pc, Inside) <= CountAt(pc, Permitted) BY CountIsMonotone DEF Permitted
<1>3. MaxConcurrent \in Nat BY AdmissionAssumption
<1>4. permits \in 0..MaxConcurrent /\ active \in 0..MaxConcurrent
  BY <1>1, <1>2, <1>3 DEF IInv
<1>5. PermitAccounting BY DEF IInv, PermitAccounting, CountAt, Holding, InPlaces, Permitted
<1>6. TotalsAddUp BY DEF IInv, TotalsAddUp, CountAt, InPlaces
<1>7. processed \in Nat /\ failures \in Nat /\ rejections \in Nat BY <1>1 DEF IInv
<1> QED BY <1>4, <1>5, <1>6, <1>7 DEF IInv, AdmissionTypeOK

(* Whatever happens inside, between and after, admission keeps its promise: *)
(* permits are neither lost nor minted nor stranded, and the counters of    *)
(* queue_stats are exact.                                                   *)
THEOREM AdmissionSafety ==
    AdmissionSpec
      => [](AdmissionTypeOK /\ PermitAccounting /\ TotalsAddUp /\ NoPermitStranded)
<1> QED BY InitIInv, NextIInv, IInvImplies, PTL DEF AdmissionSpec
=============================================================================
