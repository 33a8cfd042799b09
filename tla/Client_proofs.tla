---------------------------- MODULE Client_proofs ----------------------------
(***************************************************************************)
(* Proofs about Client: whatever the threads interleave, permits are        *)
(* accounted for, keys usable, streams faithful and overruns bounded.       *)
(***************************************************************************)
EXTENDS Client, FiniteSetTheorems, TLAPS

(* What a thread that has chosen a key or a bucket knows of it.             *)
Knows(t) ==
    /\ pc[t] \in {"sleeping", "asking"} => key[t] \in AllKeys /\ Registered(key[t])
    /\ pc[t] \in {"asked", "debiting", "charging"} =>
          /\ aim[t] \in AllKeys \X Nat
          /\ aim[t][2] \in DOMAIN states[aim[t][1]]

Aims == Loops \cup (AllKeys \X Nat) \cup {NoOne}
Items == {"chunk", "end", "error"}

(* Types, and what a thread that holds a key or a bucket knows of it.       *)
TypeInv ==
    /\ ClientTypeOK
    /\ pos \in [Threads -> Nat \ {0}]
    /\ aim \in [Threads -> Aims]
    /\ \A t \in Threads : Knows(t)

(* The future in _waiters is of the thread that waits, on whose loop the    *)
(* semaphore is.                                                            *)
WaiterInv ==
    /\ handed => waiter # NoOne
    /\ waiter # NoOne =>
          /\ boundTo # NoOne /\ boundTo[1] = waiter[1]
          /\ pc[waiter[1]] \in {"waiting", "expiring"}
    /\ \A t \in Threads : pc[t] = "handing" => aim[t] # NoOne

PermitInv == TypeInv /\ WaiterInv /\ PermitsConserved

(* What is in a stream's queue: the chunks not yet received, and the last   *)
(* item once the thread is done.                                            *)
InQueue(t) == produced[t] - received[t]

StreamOK(t) ==
    LET q == chunkQueue[t]  n == InQueue(t) IN
    /\ n \in Nat
    /\ \A i \in 1..n : q[i] = "chunk"
    /\ \/ Len(q) = n
       \/ /\ Len(q) = n + 1 /\ pc[t] = "idle"
          /\ q[n + 1] \in {"end", "error"}
          /\ q[n + 1] = "end" <=> outcome[t] = "answered"
    /\ caller[t] \in {"ended", "raised"} =>
          /\ pc[t] = "idle" /\ n = 0 /\ Len(q) = 0
          /\ caller[t] = "ended" <=> outcome[t] = "answered"

StreamInv == \A t \in Threads : kind[t] = "stream" => StreamOK(t)

(* Whoever walks config.keys has made what it has passed usable.            *)
KeysInv ==
    /\ Len(Configured) <= Len(configKeys)
    /\ \A i \in DOMAIN Configured : configKeys[i] = Configured[i]
    /\ \A t \in Threads :
          /\ pc[t] # "registering" => pos[t] = 1
          /\ pos[t] <= Len(configKeys) + 1
          /\ made[t] > 0 /\ pc[t] # "registering" => initialized
          /\ made[t] = 0 => pc[t] = "idle"
          /\ pc[t] = "registering" =>
                \A i \in DOMAIN Configured : i < pos[t] => Usable(Configured[i])
    /\ initialized => \A i \in DOMAIN Configured : Usable(Configured[i])
    /\ \A k \in Added : adder[k] = "registered" => Usable(k)

(* Each thread registers a key once at most, and add_key once more.         *)
Passed(t, k) == \E i \in DOMAIN configKeys : i < pos[t] /\ configKeys[i] = k
Registrars(k) ==
    {t \in Threads : made[t] > 0 /\ (pc[t] = "registering" => Passed(t, k))}
ByAddKey(k) == IF k \in Added /\ adder[k] = "registered" THEN 1 ELSE 0

RegisterInv ==
    /\ IsInjective(configKeys)
    /\ \A k \in Added : adder[k] = "idle" => k \notin ToSet(configKeys)
    /\ \A k \in AllKeys : Len(states[k]) <= Cardinality(Registrars(k)) + ByAddKey(k)

(* Who is about to take from a bucket, having found in it what it needs.    *)
(* Nobody joins them while the bucket has less, so they are the only ones   *)
(* it can refuse; and when a request leaves it with less, they are the      *)
(* other threads at most.                                                   *)
Need(bucket) == IF bucket = "rpm" THEN 1 ELSE Estimate
Stages(bucket) ==
    IF bucket = "rpm" THEN {"asked", "debiting"} ELSE {"debiting", "charging"}
Heading(bucket, k, gen) ==
    {t \in Threads : pc[t] \in Stages(bucket) /\ aim[t] = <<k, gen>>}

Refusable(bucket, k, gen) ==
    IF states[k][gen][bucket].tokens < Need(bucket)
    THEN Cardinality(Heading(bucket, k, gen)) ELSE 0

UnpaidOK(bucket, k, gen) ==
    states[k][gen][bucket].unpaid + Refusable(bucket, k, gen)
        <= Others * states[k][gen][bucket].dried

UnpaidInv ==
    \A k \in AllKeys : \A gen \in DOMAIN states[k] :
        UnpaidOK("rpm", k, gen) /\ UnpaidOK("tpm", k, gen)

-----------------------------------------------------------------------------
OneIf(b) == IF b THEN 1 ELSE 0

(* Of two sets of threads that differ by one thread at most, one has that   *)
(* thread more.                                                             *)
LEMMA CountOfMove ==
    ASSUME NEW A \in SUBSET Threads, NEW B \in SUBSET Threads, NEW t \in Threads,
           \A u \in Threads : u # t => (u \in A <=> u \in B)
    PROVE  /\ Cardinality(A) \in Nat /\ Cardinality(B) \in Nat
           /\ Cardinality(B) = Cardinality(A) + OneIf(t \in B) - OneIf(t \in A)
<1>1. IsFiniteSet(A) /\ IsFiniteSet(B) BY ClientAssumption, FS_Subset
<1>2. Cardinality(A) \in Nat /\ Cardinality(B) \in Nat BY <1>1, FS_CardinalityType
<1>3. B = IF t \in B THEN A \cup {t} ELSE A \ {t} OBVIOUS
<1>4. Cardinality(A \cup {t}) = IF t \in A THEN Cardinality(A) ELSE Cardinality(A) + 1
  BY <1>1, FS_AddElement
<1>5. Cardinality(A \ {t}) = IF t \in A THEN Cardinality(A) - 1 ELSE Cardinality(A)
  BY <1>1, FS_RemoveElement
<1>6. CASE t \in B
  <2>1. B = A \cup {t} BY <1>3, <1>6
  <2> QED BY <2>1, <1>2, <1>4, <1>6 DEF OneIf
<1>7. CASE t \notin B
  <2>1. B = A \ {t} BY <1>3, <1>7
  <2> QED BY <2>1, <1>2, <1>5, <1>7 DEF OneIf
<1> QED BY <1>6, <1>7

-----------------------------------------------------------------------------
(* A new KeyState leaves the others as they are.                            *)
LEMMA RegisterType ==
    ASSUME TypeInv, NEW k \in AllKeys, Register(k)
    PROVE  /\ states' \in [AllKeys -> Seq(KeyStates)] /\ modelIndex' \subseteq AllKeys
           /\ Len(states'[k]) = Len(states[k]) + 1
           /\ DOMAIN states'[k] = DOMAIN states[k] \cup {Len(states[k]) + 1}
           /\ states'[k][Len(states[k]) + 1] = [rpm |-> FullBucket(RpmLimit), tpm |-> FullBucket(TpmLimit)]
           /\ \A j \in AllKeys : j # k => states'[j] = states[j]
           /\ \A j \in AllKeys : \A gen \in DOMAIN states[j] :
                 gen \in DOMAIN states'[j] /\ states'[j][gen] = states[j][gen]
<1> DEFINE new == [rpm |-> FullBucket(RpmLimit), tpm |-> FullBucket(TpmLimit)]
<1>1. new \in KeyStates BY ClientAssumption DEF KeyStates, Buckets, FullBucket
<1>2. states \in [AllKeys -> Seq(KeyStates)] /\ modelIndex \subseteq AllKeys
  BY DEF TypeInv, ClientTypeOK
<1>3. states' = [states EXCEPT ![k] = Append(states[k], new)] /\ modelIndex' = modelIndex \cup {k}
  BY DEF Register
<1>4. states'[k] = Append(states[k], new) /\ states[k] \in Seq(KeyStates) BY <1>2, <1>3
<1>6. states'[k][Len(states[k]) + 1] = new BY <1>1, <1>4
<1> HIDE DEF new
<1>5. DOMAIN states'[k] = DOMAIN states[k] \cup {Len(states[k]) + 1} BY <1>1, <1>4
<1>7. \A gen \in DOMAIN states[k] : gen \in DOMAIN states'[k] /\ states'[k][gen] = states[k][gen]
  BY <1>1, <1>4
<1>8. states' \in [AllKeys -> Seq(KeyStates)] /\ modelIndex' \subseteq AllKeys
      /\ Len(states'[k]) = Len(states[k]) + 1
      /\ \A j \in AllKeys : j # k => states'[j] = states[j]
  BY <1>1, <1>2, <1>3, <1>4
<1> QED BY <1>5, <1>6, <1>7, <1>8 DEF new

(* A field of a KeyState changes, and nothing else.                         *)
LEMMA UpdateType ==
    ASSUME TypeInv, NEW k \in AllKeys, NEW gen \in DOMAIN states[k],
           NEW st \in KeyStates, states' = [states EXCEPT ![k][gen] = st]
    PROVE  /\ states' \in [AllKeys -> Seq(KeyStates)]
           /\ \A j \in AllKeys : DOMAIN states'[j] = DOMAIN states[j]
           /\ \A j \in AllKeys : Len(states'[j]) = Len(states[j])
           /\ states'[k][gen] = st
           /\ \A j \in AllKeys : \A g \in DOMAIN states[j] :
                 <<j, g>> # <<k, gen>> => states'[j][g] = states[j][g]
<1>2. states \in [AllKeys -> Seq(KeyStates)] BY DEF TypeInv, ClientTypeOK
<1>3. states[k] \in Seq(KeyStates) /\ gen \in 1..Len(states[k]) BY <1>2
<1>4. [states[k] EXCEPT ![gen] = st] \in Seq(KeyStates)
      /\ Len([states[k] EXCEPT ![gen] = st]) = Len(states[k])
  BY <1>3
<1>5. states' = [states EXCEPT ![k] = [states[k] EXCEPT ![gen] = st]] OBVIOUS
<1> QED BY <1>2, <1>3, <1>4, <1>5

LEMMA TypeInit == Init => TypeInv
<1> SUFFICES ASSUME Init PROVE TypeInv OBVIOUS
<1> USE ClientAssumption DEF Init
<1>1. states \in [AllKeys -> Seq(KeyStates)] /\ chunkQueue \in [Threads -> Seq({"chunk", "end", "error"})]
  OBVIOUS
<1>2. pc \in [Threads -> Places] BY DEF Places
<1>3. outcome \in [Threads -> Outcomes] BY DEF Outcomes
<1>4. kind \in [Threads -> AllKinds] BY DEF AllKinds
<1>5. configKeys \in Seq(AllKeys) /\ value \in Int OBVIOUS
<1>6. adder \in [Added -> {"idle", "listed", "registered"}] OBVIOUS
<1>7. made \in [Threads -> Nat] /\ received \in [Threads -> Nat] /\ produced \in [Threads -> 0..MaxChunks]
  OBVIOUS
<1>8. caller \in [Threads -> {"idle", "waiting", "heard", "ended", "raised", "closed"}] OBVIOUS
<1>9. key \in [Threads -> AllKeys \cup {NoOne}] /\ aim \in [Threads -> Aims]
  BY DEF Aims
<1>10. /\ initialized \in BOOLEAN /\ stopping \in BOOLEAN /\ handed \in BOOLEAN
       /\ modelIndex \subseteq AllKeys /\ lost \in Nat
       /\ boundTo \in Loops \cup {NoOne} /\ waiter \in Loops \cup {NoOne}
  OBVIOUS
<1>11. ClientTypeOK
  BY ONLY <1>1, <1>2, <1>3, <1>4, <1>5, <1>6, <1>7, <1>8, <1>9, <1>10 DEF ClientTypeOK
<1> QED BY <1>11, <1>9 DEF TypeInv, Knows

(* What the other threads know stays true when no KeyState goes away.       *)
LEMMA KnownByOthers ==
    ASSUME TypeInv, NEW u \in Threads,
           \A j \in AllKeys : Len(states[j]) <= Len(states'[j]),
           states' \in [AllKeys -> Seq(KeyStates)],
           pc'[u] = pc[u], key'[u] = key[u], aim'[u] = aim[u]
    PROVE  Knows(u)'
<1>1. states \in [AllKeys -> Seq(KeyStates)] /\ Knows(u) BY DEF TypeInv, ClientTypeOK
<1>2. \A j \in AllKeys : Registered(j) => states'[j] # <<>>
  <2> SUFFICES ASSUME NEW j \in AllKeys, Registered(j) PROVE states'[j] # <<>> OBVIOUS
  <2>1. states[j] \in Seq(KeyStates) /\ states'[j] \in Seq(KeyStates) BY <1>1
  <2>2. Len(states[j]) > 0 BY <2>1 DEF Registered
  <2> QED BY <2>1, <2>2
<1>3. \A j \in AllKeys : DOMAIN states[j] \subseteq DOMAIN states'[j]
  <2> SUFFICES ASSUME NEW j \in AllKeys PROVE DOMAIN states[j] \subseteq DOMAIN states'[j] OBVIOUS
  <2>1. states[j] \in Seq(KeyStates) /\ states'[j] \in Seq(KeyStates) BY <1>1
  <2> QED BY <2>1
<1>4. pc'[u] \in {"sleeping", "asking"} => key'[u] \in AllKeys /\ states'[key'[u]] # <<>> BY <1>1, <1>2 DEF Knows
<1>5. pc'[u] \in {"asked", "debiting", "charging"} =>
         aim'[u] \in AllKeys \X Nat /\ aim'[u][2] \in DOMAIN states'[aim'[u][1]]
  BY <1>1, <1>3 DEF Knows
<1> QED BY <1>4, <1>5 DEF Knows, Registered

(* The length of a key's sequence is a number.                              *)
LEMMA LenIsNat ==
    ASSUME states \in [AllKeys -> Seq(KeyStates)]
    PROVE  \A j \in AllKeys : Len(states[j]) \in Nat /\ Len(states[j]) <= Len(states[j])
<1> SUFFICES ASSUME NEW j \in AllKeys PROVE Len(states[j]) \in Nat OBVIOUS
<1>1. states[j] \in Seq(KeyStates) OBVIOUS
<1> QED BY <1>1

(* Registering makes no sequence shorter.                                   *)
LEMMA LenGrows ==
    ASSUME TypeInv, NEW k \in AllKeys, Register(k)
    PROVE  \A j \in AllKeys : Len(states[j]) <= Len(states'[j])
<1>1. \A j \in AllKeys : Len(states[j]) \in Nat BY LenIsNat DEF TypeInv, ClientTypeOK
<1>2. Len(states'[k]) = Len(states[k]) + 1 /\ \A j \in AllKeys : j # k => states'[j] = states[j]
  BY RegisterType
<1>3. Len(states[k]) <= Len(states'[k]) BY <1>1, <1>2
<1>4. \A j \in AllKeys : j # k => Len(states[j]) <= Len(states'[j]) BY <1>1, <1>2
<1> QED BY <1>3, <1>4

(* What a bucket is after it gave, or refused.                              *)
LEMMA GivenType ==
    ASSUME NEW limit \in Nat, NEW bucket \in Buckets(limit), NEW amount \in Nat \ {0}
    PROVE  Given(bucket, amount) \in Buckets(limit)
<1>1. /\ bucket.tokens \in Nat /\ bucket.tokens <= limit
      /\ bucket.dried \in Nat /\ bucket.unpaid \in Nat
  BY DEF Buckets
<1> DEFINE left == bucket.tokens - amount
<1>2. CASE left >= 0
  <2>1. left \in 0..limit BY <1>1, <1>2
  <2>2. bucket.dried + (IF left < amount THEN 1 ELSE 0) \in Nat BY <1>1
  <2> QED BY <1>2, <2>1, <2>2 DEF Given, Buckets
<1>3. CASE ~ left >= 0 BY <1>1, <1>3 DEF Given, Buckets
<1> QED BY <1>2, <1>3

(* A debit leaves its bucket between zero and the limit.                    *)
LEMMA DebitEffect ==
    ASSUME TypeInv, NEW t \in Threads, NEW from \in {"debiting", "charging"}, NEW to,
           NEW bucket, NEW amount \in Nat \ {0}, bucket \in {"rpm", "tpm"},
           Debit(t, from, to, bucket, amount)
    PROVE  /\ states' \in [AllKeys -> Seq(KeyStates)]
           /\ \A j \in AllKeys : Len(states[j]) <= Len(states'[j])
           /\ \A j \in AllKeys : DOMAIN states'[j] = DOMAIN states[j]
           /\ \A j \in AllKeys : Len(states'[j]) = Len(states[j])
           /\ LET k == aim[t][1]  gen == aim[t][2]  old == states[k][gen] IN
              /\ aim[t] \in AllKeys \X Nat /\ gen \in DOMAIN states[k] /\ old \in KeyStates
              /\ states'[k][gen][bucket] = Given(old[bucket], amount)
              /\ \A b \in {"rpm", "tpm"} : b # bucket => states'[k][gen][b] = old[b]
              /\ \A j \in AllKeys : \A g \in DOMAIN states[j] :
                    <<j, g>> # aim[t] => states'[j][g] = states[j][g]
<1> DEFINE k == aim[t][1]
           gen == aim[t][2]
           old == states[k][gen]
           st == [old EXCEPT ![bucket] = Given(old[bucket], amount)]
<1>1. k \in AllKeys /\ gen \in DOMAIN states[k] BY DEF Debit, Moves, TypeInv, Knows
<1>2. old \in KeyStates
  <2>1. states[k] \in Seq(KeyStates) BY <1>1 DEF TypeInv, ClientTypeOK
  <2> QED BY <1>1, <2>1
<1>3. st \in KeyStates
  <2> DEFINE left == Given(old[bucket], amount)
  <2>1. st = [old EXCEPT ![bucket] = left] OBVIOUS
  <2> HIDE DEF old, st, left
  <2>2. CASE bucket = "rpm"
    <3>1. left \in Buckets(RpmLimit) BY <1>2, <2>2, GivenType, ClientAssumption DEF KeyStates, left
    <3> QED BY <1>2, <2>1, <2>2, <3>1 DEF KeyStates
  <2>3. CASE bucket = "tpm"
    <3>1. left \in Buckets(TpmLimit) BY <1>2, <2>3, GivenType, ClientAssumption DEF KeyStates, left
    <3> QED BY <1>2, <2>1, <2>3, <3>1 DEF KeyStates
  <2> QED BY <2>2, <2>3
<1>4. states' = [states EXCEPT ![k][gen] = st] BY DEF Debit
<1>5. aim[t] \in AllKeys \X Nat BY DEF Debit, Moves, TypeInv, Knows
<1>6. aim[t] = <<k, gen>> BY <1>5
<1> HIDE DEF k, gen
<1>7. /\ states' \in [AllKeys -> Seq(KeyStates)]
      /\ \A j \in AllKeys : DOMAIN states'[j] = DOMAIN states[j]
      /\ \A j \in AllKeys : Len(states'[j]) = Len(states[j])
      /\ states'[k][gen] = st
      /\ \A j \in AllKeys : \A g \in DOMAIN states[j] :
            <<j, g>> # <<k, gen>> => states'[j][g] = states[j][g]
  BY <1>1, <1>3, <1>4, UpdateType
<1>8. \A j \in AllKeys : Len(states[j]) <= Len(states'[j]) BY <1>7, LenIsNat DEF TypeInv, ClientTypeOK
<1>9. /\ states'[k][gen][bucket] = Given(old[bucket], amount)
      /\ \A b \in {"rpm", "tpm"} : b # bucket => states'[k][gen][b] = old[b]
  <2> HIDE DEF old
  <2>1. st = [old EXCEPT ![bucket] = Given(old[bucket], amount)] OBVIOUS
  <2>2. "rpm" \in DOMAIN old /\ "tpm" \in DOMAIN old BY <1>2 DEF KeyStates
  <2>3. st[bucket] = Given(old[bucket], amount) BY <2>2
  <2>4. \A b \in {"rpm", "tpm"} : b # bucket => st[b] = old[b] BY <2>2
  <2> HIDE DEF st
  <2> QED BY <1>7, <2>3, <2>4
<1> QED BY <1>1, <1>2, <1>5, <1>6, <1>7, <1>8, <1>9 DEF k, gen

(* It changes no length.                                                    *)
LEMMA DebitType ==
    ASSUME TypeInv, NEW t \in Threads, NEW from \in {"debiting", "charging"}, NEW to,
           NEW bucket, NEW amount \in Nat \ {0}, bucket \in {"rpm", "tpm"},
           Debit(t, from, to, bucket, amount)
    PROVE  /\ states' \in [AllKeys -> Seq(KeyStates)]
           /\ \A j \in AllKeys : Len(states[j]) <= Len(states'[j])
           /\ \A j \in AllKeys : DOMAIN states'[j] = DOMAIN states[j]
           /\ \A j \in AllKeys : Len(states'[j]) = Len(states[j])
BY DebitEffect

(* The KeyState a thread asks is the one registered last.                   *)
LEMMA AskType ==
    ASSUME TypeInv, NEW t \in Threads, pc[t] = "asking"
    PROVE  /\ key[t] \in AllKeys /\ Current(key[t]) \in Nat
           /\ Current(key[t]) \in DOMAIN states[key[t]]
<1>1. key[t] \in AllKeys /\ states[key[t]] # <<>> BY DEF TypeInv, Knows, Registered
<1>2. states[key[t]] \in Seq(KeyStates) BY <1>1 DEF TypeInv, ClientTypeOK
<1> QED BY <1>1, <1>2 DEF Current

(* Time changes nothing but the tokens of one KeyState's buckets, upwards.  *)
LEMMA RefillEffect ==
    ASSUME TypeInv, NEW k \in AllKeys, NEW gen \in DOMAIN states[k], Refill(k, gen)
    PROVE  /\ states' \in [AllKeys -> Seq(KeyStates)]
           /\ \A j \in AllKeys : Len(states[j]) <= Len(states'[j])
           /\ \A j \in AllKeys : DOMAIN states'[j] = DOMAIN states[j]
           /\ \A j \in AllKeys : Len(states'[j]) = Len(states[j])
           /\ \A j \in AllKeys : \A g \in DOMAIN states[j] :
                 <<j, g>> # <<k, gen>> => states'[j][g] = states[j][g]
           /\ \A b \in {"rpm", "tpm"} :
                 LET old == states[k][gen][b]  new == states'[k][gen][b] IN
                 /\ old.tokens <= new.tokens
                 /\ new.unpaid = old.unpaid /\ new.dried = old.dried
<1> DEFINE old == states[k][gen]
<1>1. PICK r \in old.rpm.tokens..RpmLimit, l \in old.tpm.tokens..TpmLimit :
         states' = [states EXCEPT ![k][gen] =
                      [@ EXCEPT !.rpm.tokens = r, !.tpm.tokens = l]]
  BY DEF Refill
<1>2. old \in KeyStates
  <2>1. states[k] \in Seq(KeyStates) BY DEF TypeInv, ClientTypeOK
  <2> QED BY <2>1
<1> DEFINE st == [old EXCEPT !.rpm.tokens = r, !.tpm.tokens = l]
<1>3. states' = [states EXCEPT ![k][gen] = st] BY <1>1
<1> HIDE DEF old
<1>4. old.rpm.tokens \in Nat /\ old.tpm.tokens \in Nat /\ r \in 0..RpmLimit /\ l \in 0..TpmLimit
      /\ old.rpm.tokens <= r /\ old.tpm.tokens <= l
  BY <1>1, <1>2, ClientAssumption DEF KeyStates, Buckets
<1>5. /\ st.rpm = [old.rpm EXCEPT !.tokens = r] /\ st.tpm = [old.tpm EXCEPT !.tokens = l]
      /\ st = [rpm |-> st.rpm, tpm |-> st.tpm]
  <2>1. PICK x \in Buckets(RpmLimit), y \in Buckets(TpmLimit) : old = [rpm |-> x, tpm |-> y]
    BY <1>2 DEF KeyStates
  <2> DEFINE first == [old EXCEPT !.rpm = [old.rpm EXCEPT !.tokens = r]]
             newRpm == [x EXCEPT !.tokens = r]
             newTpm == [y EXCEPT !.tokens = l]
  <2>2. st = [first EXCEPT !.tpm = [first.tpm EXCEPT !.tokens = l]] OBVIOUS
  <2>3. old.rpm = x /\ old.tpm = y BY <2>1
  <2>4. first = [old EXCEPT !.rpm = newRpm] BY <2>3
  <2> HIDE DEF st, first, newRpm
  <2>5. first = [rpm |-> newRpm, tpm |-> y] BY <2>1, <2>4
  <2>6. first.tpm = y BY <2>5
  <2>7. st = [first EXCEPT !.tpm = newTpm] BY <2>2, <2>6
  <2> HIDE DEF newTpm
  <2>8. st = [rpm |-> newRpm, tpm |-> newTpm] BY <2>5, <2>7
  <2>9. st.rpm = newRpm /\ st.tpm = newTpm BY <2>8
  <2> QED BY <2>3, <2>8, <2>9 DEF newRpm, newTpm
<1>6. st.rpm \in Buckets(RpmLimit) /\ st.tpm \in Buckets(TpmLimit)
  BY <1>2, <1>4, <1>5 DEF KeyStates, Buckets
<1>7. \A b \in {"rpm", "tpm"} :
         /\ old[b].tokens <= st[b].tokens
         /\ st[b].unpaid = old[b].unpaid /\ st[b].dried = old[b].dried
  <2>1. old.rpm \in Buckets(RpmLimit) /\ old.tpm \in Buckets(TpmLimit) BY <1>2 DEF KeyStates
  <2> QED BY <1>4, <1>5, <2>1 DEF Buckets
<1> HIDE DEF st
<1>8. st \in KeyStates BY <1>5, <1>6 DEF KeyStates
<1>9. /\ states' \in [AllKeys -> Seq(KeyStates)]
      /\ \A j \in AllKeys : DOMAIN states'[j] = DOMAIN states[j]
      /\ \A j \in AllKeys : Len(states'[j]) = Len(states[j])
      /\ states'[k][gen] = st
      /\ \A j \in AllKeys : \A g \in DOMAIN states[j] :
            <<j, g>> # <<k, gen>> => states'[j][g] = states[j][g]
  BY <1>3, <1>8, UpdateType
<1>10. \A j \in AllKeys : Len(states[j]) <= Len(states'[j]) BY <1>9, LenIsNat DEF TypeInv, ClientTypeOK
<1> QED BY <1>7, <1>9, <1>10 DEF old

(* Where a thread goes is a place.                                          *)
LEMMA GotoType ==
    ASSUME TypeInv, NEW t \in Threads, NEW p \in Places, Goto(t, p)
    PROVE  pc' \in [Threads -> Places] /\ pc'[t] = p
BY DEF TypeInv, ClientTypeOK, Goto

(* TypeInv is inductive.                                                    *)
LEMMA TypeStep == TypeInv /\ [Next]_vars => TypeInv'
<1> SUFFICES ASSUME TypeInv, [Next]_vars PROVE TypeInv' OBVIOUS
<1> USE ClientAssumption
<1>1. CASE Shutdown
  BY <1>1 DEF Shutdown, TypeInv, ClientTypeOK, limiterVars, semVars, callVars, streamVars, Registered, Knows
<1>2. ASSUME NEW k \in Added, AddKey(k) PROVE TypeInv'
  <2> k \in AllKeys BY DEF AllKeys
  <2>1. adder' \in [Added -> {"idle", "listed", "registered"}] BY <1>2 DEF AddKey, TypeInv, ClientTypeOK
  <2>2. configKeys' \in Seq(AllKeys)
    <3>1. configKeys \in Seq(AllKeys) BY DEF TypeInv, ClientTypeOK
    <3>2. configKeys' \in {configKeys, Append(configKeys, k)} BY <1>2 DEF AddKey
    <3> HIDE DEF AllKeys
    <3> QED BY <3>1, <3>2
  <2>3. /\ states' \in [AllKeys -> Seq(KeyStates)] /\ modelIndex' \subseteq AllKeys
        /\ \A j \in AllKeys : Len(states[j]) <= Len(states'[j])
    <3>1. CASE Register(k) BY <3>1, RegisterType, LenGrows
    <3>2. CASE UNCHANGED <<states, modelIndex>> BY <3>2, LenIsNat DEF TypeInv, ClientTypeOK
    <3> QED BY <1>2, <3>1, <3>2 DEF AddKey
  <2>4. ClientTypeOK' BY <1>2, <2>1, <2>2, <2>3 DEF AddKey, TypeInv, ClientTypeOK, semVars, callVars, streamVars
  <2>5. \A u \in Threads : Knows(u)' BY <1>2, <2>3, KnownByOthers DEF AddKey
  <2> QED BY <1>2, <2>4, <2>5 DEF AddKey, TypeInv
<1>3. ASSUME NEW t \in Threads, Call(t) PROVE TypeInv'
  <2>1. pc' \in [Threads -> Places]
    BY <1>3 DEF Call, TypeInv, ClientTypeOK, Goto, Places, Holding, Sending
  <2>2. kind' \in [Threads -> AllKinds]
    BY <1>3 DEF Call, TypeInv, ClientTypeOK
  <2>3. /\ made' \in [Threads -> Nat] /\ outcome' \in [Threads -> Outcomes]
       /\ caller' \in [Threads -> {"idle", "waiting", "heard", "ended", "raised", "closed"}]
    BY <1>3 DEF Call, TypeInv, ClientTypeOK, Outcomes
  <2>4. /\ produced' \in [Threads -> 0..MaxChunks] /\ received' \in [Threads -> Nat]
       /\ chunkQueue' \in [Threads -> Seq({"chunk", "end", "error"})]
    BY <1>3 DEF Call, TypeInv, ClientTypeOK
  <2>5. ClientTypeOK' BY <1>3, <2>1, <2>2, <2>3, <2>4 DEF Call, TypeInv, ClientTypeOK, limiterVars, semVars, callVars, streamVars
  <2>6. \A u \in Threads : Knows(u)'
    BY <1>3 DEF Call, Goto, End, TypeInv, ClientTypeOK, Knows, Registered, limiterVars, semVars, callVars, streamVars
  <2> QED BY <1>3, <2>1, <2>2, <2>3, <2>4, <2>5, <2>6 DEF Call, TypeInv
<1>4. ASSUME NEW t \in Threads, EnsureInitialized(t) PROVE TypeInv'
  <2>1. pc' \in [Threads -> Places] /\ pc'[t] \notin {"sleeping", "asking", "asked", "debiting", "charging"}
    <3>1. CASE UNCHANGED pc BY <1>4, <3>1 DEF EnsureInitialized, TypeInv, ClientTypeOK
    <3>2. CASE \E p \in {"blocked", "submit"} : Goto(t, p)
      BY <3>2, GotoType DEF Places, Holding, Sending
    <3> QED BY <1>4, <3>1, <3>2 DEF EnsureInitialized
  <2>2. pos' \in [Threads -> Nat \ {0}]
    <3>1. \E n \in Nat \ {0} : pos' = [pos EXCEPT ![t] = n]
      <4>1. 1 \in Nat \ {0} /\ pos[t] + 1 \in Nat \ {0} BY DEF TypeInv
      <4> QED BY <1>4, <4>1 DEF EnsureInitialized
    <3> QED BY <3>1 DEF TypeInv
  <2>3. /\ states' \in [AllKeys -> Seq(KeyStates)] /\ modelIndex' \subseteq AllKeys
        /\ \A j \in AllKeys : Len(states[j]) <= Len(states'[j])
    <3>1. CASE pos[t] <= Len(configKeys) /\ Register(configKeys[pos[t]])
      <4>1. configKeys[pos[t]] \in AllKeys BY <3>1 DEF TypeInv, ClientTypeOK
      <4> QED BY <3>1, <4>1, RegisterType, LenGrows
    <3>2. CASE UNCHANGED <<states, modelIndex>> BY <3>2, LenIsNat DEF TypeInv, ClientTypeOK
    <3> QED BY <1>4, <3>1, <3>2 DEF EnsureInitialized
  <2>4. initialized' \in BOOLEAN BY <1>4 DEF EnsureInitialized, TypeInv, ClientTypeOK
  <2>5. ClientTypeOK'
    BY <1>4, <2>1, <2>3, <2>4 DEF EnsureInitialized, TypeInv, ClientTypeOK, semVars, callVars, streamVars
  <2>6. \A u \in Threads \ {t} : pc'[u] = pc[u]
    BY <1>4 DEF EnsureInitialized, Goto, TypeInv, ClientTypeOK
  <2>7. \A u \in Threads \ {t} : Knows(u)' BY <1>4, <2>3, <2>6, KnownByOthers DEF EnsureInitialized
  <2>8. Knows(t)' BY <2>1 DEF Knows
  <2> QED BY <1>4, <2>2, <2>5, <2>7, <2>8 DEF EnsureInitialized, TypeInv
<1>5. ASSUME NEW t \in Threads, NestedTimeout(t) PROVE TypeInv'
  BY <1>5 DEF NestedTimeout, Goto, Moves, End, TypeInv, ClientTypeOK, Places, Holding, Sending, Outcomes, AllKinds, Knows, Registered, limiterVars, semVars, callVars, streamVars
<1>6. ASSUME NEW t \in Threads, Submit(t) PROVE TypeInv'
  <2>1. pc' \in [Threads -> Places]
    <3>1. \E p \in {"ending", "look"} : Goto(t, p) BY <1>6 DEF Submit, End
    <3> QED BY <3>1, GotoType DEF Places, Holding, Sending
  <2>2. outcome' \in [Threads -> Outcomes]
    BY <1>6 DEF Submit, TypeInv, ClientTypeOK, End, Outcomes
  <2>3. ClientTypeOK' BY <1>6, <2>1, <2>2 DEF Submit, TypeInv, ClientTypeOK, limiterVars, semVars, callVars, streamVars
  <2>4. \A u \in Threads : Knows(u)'
    BY <1>6 DEF Submit, Goto, End, TypeInv, ClientTypeOK, Knows, Registered, limiterVars, semVars, callVars, streamVars
  <2> QED BY <1>6, <2>1, <2>2, <2>3, <2>4 DEF Submit, TypeInv
<1>7. ASSUME NEW t \in Threads, Look(t) PROVE TypeInv'
  BY <1>7 DEF Look, Goto, Moves, End, TypeInv, ClientTypeOK, Places, Holding, Sending, Outcomes, AllKinds, Knows, Registered, limiterVars, semVars, callVars, streamVars
<1>8. ASSUME NEW t \in Threads, Peek(t) PROVE TypeInv'
  BY <1>8 DEF Peek, Goto, Moves, End, TypeInv, ClientTypeOK, Places, Holding, Sending, Outcomes, AllKinds, Knows, Registered, limiterVars, semVars, callVars, streamVars
<1>9. ASSUME NEW t \in Threads, Take(t) PROVE TypeInv'
  BY <1>9 DEF Take, Goto, Moves, End, TypeInv, ClientTypeOK, Places, Holding, Sending, Outcomes, AllKinds, Knows, Registered, limiterVars, semVars, callVars, streamVars
<1>10. ASSUME NEW t \in Threads, Wait(t) PROVE TypeInv'
  <2>1. pc' \in [Threads -> Places]
    <3>1. \E p \in {"ending", "waiting"} : Goto(t, p) BY <1>10 DEF Wait, End
    <3> QED BY <3>1, GotoType DEF Places, Holding, Sending
  <2>2. outcome' \in [Threads -> Outcomes]
    BY <1>10 DEF Wait, TypeInv, ClientTypeOK, End, Outcomes
  <2>3. /\ boundTo' \in Loops \cup {NoOne} /\ waiter' \in Loops \cup {NoOne}
       /\ handed' \in BOOLEAN
    <3>1. LoopOf(t) \in Loops /\ <<t, made[t]>> \in Loops BY DEF TypeInv, ClientTypeOK, LoopOf, Loops
    <3> QED BY <1>10, <3>1 DEF Wait, TypeInv, ClientTypeOK
  <2>4. ClientTypeOK' BY <1>10, <2>1, <2>2, <2>3 DEF Wait, TypeInv, ClientTypeOK, limiterVars, semVars, callVars, streamVars
  <2>5. \A u \in Threads : Knows(u)'
    BY <1>10 DEF Wait, Goto, End, TypeInv, ClientTypeOK, Knows, Registered, limiterVars, semVars, callVars, streamVars
  <2> QED BY <1>10, <2>1, <2>2, <2>3, <2>4, <2>5 DEF Wait, TypeInv
<1>11. ASSUME NEW t \in Threads, TimerFires(t) PROVE TypeInv'
  <2>1. pc' \in [Threads -> Places]
    <3>1. \E p \in {"selecting", "expiring"} : Goto(t, p) BY <1>11 DEF TimerFires
    <3> QED BY <3>1, GotoType DEF Places, Holding, Sending
  <2>2. ClientTypeOK' BY <1>11, <2>1 DEF TimerFires, TypeInv, ClientTypeOK, limiterVars, semVars, callVars, streamVars
  <2>3. \A u \in Threads : Knows(u)'
    BY <1>11 DEF TimerFires, Goto, End, TypeInv, ClientTypeOK, Knows, Registered, limiterVars, semVars, callVars, streamVars
  <2> QED BY <1>11, <2>1, <2>2, <2>3 DEF TimerFires, TypeInv
<1>12. ASSUME NEW t \in Threads, GiveUp(t) PROVE TypeInv'
  <2>1. pc' \in [Threads -> Places]
    BY <1>12 DEF GiveUp, TypeInv, ClientTypeOK, Goto, End, Places, Holding, Sending
  <2>2. outcome' \in [Threads -> Outcomes]
    BY <1>12 DEF GiveUp, TypeInv, ClientTypeOK, End, Outcomes
  <2>3. value' \in Int
    BY <1>12 DEF GiveUp, TypeInv, ClientTypeOK
  <2>4. ClientTypeOK' BY <1>12, <2>1, <2>2, <2>3 DEF GiveUp, TypeInv, ClientTypeOK, limiterVars, semVars, callVars, streamVars
  <2>5. \A u \in Threads : Knows(u)'
    BY <1>12 DEF GiveUp, Goto, End, TypeInv, ClientTypeOK, Knows, Registered, limiterVars, semVars, callVars, streamVars
  <2> QED BY <1>12, <2>1, <2>2, <2>3, <2>4, <2>5 DEF GiveUp, TypeInv
<1>13. ASSUME NEW t \in Threads, SelectKey(t) PROVE TypeInv'
  <2>0. KeysForModel \subseteq AllKeys BY DEF KeysForModel, TypeInv, ClientTypeOK
  <2>1. pc' \in [Threads -> Places]
    <3>1. \E p \in {"asking", "sleeping", "releasing"} : Goto(t, p) BY <1>13 DEF SelectKey
    <3> QED BY <3>1, GotoType DEF Places, Holding, Sending
  <2>2. outcome' \in [Threads -> Outcomes]
    BY <1>13 DEF SelectKey, TypeInv, ClientTypeOK, End, Outcomes
  <2>3. \/ \E k \in AllKeys : /\ Registered(k) /\ key' = [key EXCEPT ![t] = k]
                             /\ (Goto(t, "asking") \/ Goto(t, "sleeping"))
        \/ (Goto(t, "releasing") /\ UNCHANGED key)
    BY <1>13, <2>0 DEF SelectKey
  <2>4. key' \in [Threads -> AllKeys \cup {NoOne}] BY <2>3 DEF TypeInv, ClientTypeOK
  <2>5. ClientTypeOK' BY <1>13, <2>1, <2>2, <2>4 DEF SelectKey, TypeInv, ClientTypeOK, limiterVars, semVars, callVars, streamVars
  <2>6. UNCHANGED <<states, aim, pos>> BY <1>13 DEF SelectKey, limiterVars
  <2>7. \A u \in Threads \ {t} : Knows(u)'
    <3>1. \A u \in Threads \ {t} : pc'[u] = pc[u] /\ key'[u] = key[u]
      BY <2>3 DEF Goto, TypeInv, ClientTypeOK
    <3> QED BY <2>6, <3>1 DEF TypeInv, Knows, Registered
  <2>8. Knows(t)'
    BY <2>3, <2>6 DEF Goto, TypeInv, ClientTypeOK, Knows, Registered
  <2> QED BY <2>5, <2>6, <2>7, <2>8 DEF TypeInv
<1>13w. ASSUME NEW t \in Threads, Wake(t) PROVE TypeInv'
  <2>1. pc' \in [Threads -> Places]
    <3>1. \E p \in {"asking", "releasing"} : Goto(t, p) BY <1>13w DEF Wake
    <3> QED BY <3>1, GotoType DEF Places, Holding, Sending
  <2>2. outcome' \in [Threads -> Outcomes] BY <1>13w DEF Wake, TypeInv, ClientTypeOK, Outcomes
  <2>3. key' \in [Threads -> AllKeys \cup {NoOne}] BY <1>13w DEF Wake, TypeInv, ClientTypeOK
  <2>4. ClientTypeOK' BY <1>13w, <2>1, <2>2, <2>3 DEF Wake, TypeInv, ClientTypeOK, limiterVars, semVars, callVars, streamVars
  <2>5. UNCHANGED <<states, aim, pos>> /\ pc[t] = "sleeping" BY <1>13w DEF Wake, limiterVars
  <2>6. \A u \in Threads : Knows(u)'
    <3>1. \A u \in Threads \ {t} : pc'[u] = pc[u] /\ key'[u] = key[u]
      BY <1>13w DEF Wake, Goto, TypeInv, ClientTypeOK
    <3>2. pc'[t] = "releasing" \/ (pc'[t] = "asking" /\ key'[t] = key[t])
      BY <1>13w DEF Wake, Goto, TypeInv, ClientTypeOK
    <3> QED BY <2>5, <3>1, <3>2 DEF TypeInv, Knows, Registered
  <2> QED BY <2>4, <2>5, <2>6 DEF TypeInv
<1>14. ASSUME NEW t \in Threads, Ask(t) PROVE TypeInv'
  <2> DEFINE to == <<key[t], Current(key[t])>>
  <2>1. key[t] \in AllKeys /\ Current(key[t]) \in Nat /\ Current(key[t]) \in DOMAIN states[key[t]]
    BY <1>14, AskType DEF Ask
  <2>2. pc' \in [Threads -> Places]
    <3>1. \E p \in {"asked", "calling"} : Goto(t, p) BY <1>14 DEF Ask
    <3> QED BY <3>1, GotoType DEF Places, Holding, Sending
  <2>3. \/ aim' = [aim EXCEPT ![t] = to] /\ Goto(t, "asked")
        \/ UNCHANGED aim /\ Goto(t, "calling")
    BY <1>14 DEF Ask
  <2>4. aim' \in [Threads -> Aims]
    <3>1. to \in Aims BY <2>1 DEF Aims
    <3> HIDE DEF to
    <3> QED BY <2>3, <3>1 DEF TypeInv
  <2>5. key' \in [Threads -> AllKeys \cup {NoOne}] BY <1>14 DEF Ask, TypeInv, ClientTypeOK
  <2>6. ClientTypeOK' BY <1>14, <2>2, <2>5 DEF Ask, TypeInv, ClientTypeOK, limiterVars, semVars, callVars, streamVars
  <2>7. UNCHANGED <<states, pos>> BY <1>14 DEF Ask, limiterVars
  <2>8. \A u \in Threads \ {t} : Knows(u)'
    <3>1. \A u \in Threads \ {t} : pc'[u] = pc[u] /\ key'[u] = key[u] /\ aim'[u] = aim[u]
      BY <1>14 DEF Ask, Goto, TypeInv, ClientTypeOK
    <3> QED BY <2>7, <3>1 DEF TypeInv, Knows, Registered
  <2>9. Knows(t)'
    <3>1. pc'[t] = "calling" \/ (pc'[t] = "asked" /\ aim'[t] = to)
      BY <2>3 DEF Goto, TypeInv, ClientTypeOK
    <3>2. to \in AllKeys \X Nat /\ to[1] = key[t] /\ to[2] = Current(key[t]) BY <2>1
    <3> HIDE DEF to
    <3>3. to[2] \in DOMAIN states[to[1]] BY <2>1, <3>2
    <3> QED BY <2>7, <3>1, <3>2, <3>3 DEF Knows
  <2> QED BY <2>4, <2>6, <2>7, <2>8, <2>9 DEF TypeInv
<1>14t. ASSUME NEW t \in Threads, AskTokens(t) PROVE TypeInv'
  <2>1. pc' \in [Threads -> Places]
    <3>1. \E p \in {"debiting", "calling"} : Goto(t, p) BY <1>14t DEF AskTokens
    <3> QED BY <3>1, GotoType DEF Places, Holding, Sending
  <2>2. aim' \in [Threads -> Aims]
    <3>1. NoOne \in Aims BY DEF Aims
    <3> QED BY <1>14t, <3>1 DEF AskTokens, TypeInv
  <2>3. ClientTypeOK' BY <1>14t, <2>1 DEF AskTokens, TypeInv, ClientTypeOK, limiterVars, semVars, callVars, streamVars
  <2>4. UNCHANGED <<states, pos, key>> /\ pc[t] = "asked" BY <1>14t DEF AskTokens, limiterVars
  <2>5. \A u \in Threads : Knows(u)'
    <3>1. \A u \in Threads \ {t} : pc'[u] = pc[u] /\ aim'[u] = aim[u]
      BY <1>14t DEF AskTokens, Goto, TypeInv, ClientTypeOK
    <3>2. pc'[t] = "calling" \/ (pc'[t] = "debiting" /\ aim'[t] = aim[t])
      BY <1>14t DEF AskTokens, Goto, TypeInv, ClientTypeOK
    <3> QED BY <2>4, <3>1, <3>2 DEF TypeInv, Knows, Registered
  <2> QED BY <2>2, <2>3, <2>4, <2>5 DEF TypeInv
<1>15. ASSUME NEW t \in Threads, DebitRpm(t) PROVE TypeInv'
  <2>1. /\ states' \in [AllKeys -> Seq(KeyStates)]
        /\ \A j \in AllKeys : Len(states[j]) <= Len(states'[j])
        /\ \A j \in AllKeys : DOMAIN states'[j] = DOMAIN states[j]
    BY <1>15, DebitType DEF DebitRpm
  <2>2. pc' \in [Threads -> Places] /\ pc'[t] = "charging"
    <3>1. Goto(t, "charging") BY <1>15 DEF DebitRpm, Debit, Moves
    <3> QED BY <3>1, GotoType DEF Places, Holding, Sending
  <2>3. aim' \in [Threads -> Aims] BY <1>15 DEF DebitRpm, TypeInv, Aims
  <2>4. ClientTypeOK'
    BY <1>15, <2>1, <2>2 DEF DebitRpm, Debit, TypeInv, ClientTypeOK, semVars, callVars, streamVars
  <2>5. \A u \in Threads \ {t} : Knows(u)'
    <3>1. \A u \in Threads \ {t} : pc'[u] = pc[u] /\ key'[u] = key[u] /\ aim'[u] = aim[u]
      BY <1>15 DEF DebitRpm, Debit, Moves, Goto, TypeInv, ClientTypeOK
    <3> QED BY <3>1, <2>1, KnownByOthers
  <2>6. Knows(t)'
    <3>1. pc[t] = "debiting" BY <1>15 DEF DebitRpm, Debit, Moves
    <3> QED BY <1>15, <2>1, <2>2, <3>1 DEF DebitRpm, TypeInv, Knows
  <2> QED BY <1>15, <2>3, <2>4, <2>5, <2>6 DEF DebitRpm, Debit, TypeInv
<1>16. ASSUME NEW t \in Threads, DebitTpm(t) PROVE TypeInv'
  <2>1. /\ states' \in [AllKeys -> Seq(KeyStates)]
        /\ \A j \in AllKeys : Len(states[j]) <= Len(states'[j])
        /\ \A j \in AllKeys : DOMAIN states'[j] = DOMAIN states[j]
    BY <1>16, DebitType DEF DebitTpm
  <2>2. pc' \in [Threads -> Places] /\ pc'[t] = "calling"
    <3>1. Goto(t, "calling") BY <1>16 DEF DebitTpm, Debit, Moves
    <3> QED BY <3>1, GotoType DEF Places, Holding, Sending
  <2>3. aim' \in [Threads -> Aims] BY <1>16 DEF DebitTpm, TypeInv, Aims
  <2>4. ClientTypeOK'
    BY <1>16, <2>1, <2>2 DEF DebitTpm, Debit, TypeInv, ClientTypeOK, semVars, callVars, streamVars
  <2>5. \A u \in Threads \ {t} : Knows(u)'
    <3>1. \A u \in Threads \ {t} : pc'[u] = pc[u] /\ key'[u] = key[u] /\ aim'[u] = aim[u]
      BY <1>16 DEF DebitTpm, Debit, Moves, Goto, TypeInv, ClientTypeOK
    <3> QED BY <3>1, <2>1, KnownByOthers
  <2>6. Knows(t)'
    <3>1. pc[t] = "charging" BY <1>16 DEF DebitTpm, Debit, Moves
    <3> QED BY <1>16, <2>1, <2>2, <3>1 DEF DebitTpm, TypeInv, Knows
  <2> QED BY <1>16, <2>3, <2>4, <2>5, <2>6 DEF DebitTpm, Debit, TypeInv
<1>17. ASSUME NEW t \in Threads, Release(t) PROVE TypeInv'
  BY <1>17 DEF Release, Goto, Moves, End, TypeInv, ClientTypeOK, Places, Holding, Sending, Outcomes, AllKinds, Knows, Registered, limiterVars, semVars, callVars, streamVars
<1>18. ASSUME NEW t \in Threads, FindWaiter(t) PROVE TypeInv'
  <2>1. pc' \in [Threads -> Places]
    <3>1. \E p \in {"ending", "handing"} : Goto(t, p) BY <1>18 DEF FindWaiter
    <3> QED BY <3>1, GotoType DEF Places, Holding, Sending
  <2>2. aim' \in [Threads -> Aims]
    <3>1. waiter \in Aims BY DEF Aims, TypeInv, ClientTypeOK
    <3> QED BY <1>18, <3>1 DEF FindWaiter, TypeInv
  <2>3. ClientTypeOK' BY <1>18, <2>1, <2>2 DEF FindWaiter, TypeInv, ClientTypeOK, limiterVars, semVars, callVars, streamVars
  <2>4. \A u \in Threads : Knows(u)'
    BY <1>18 DEF FindWaiter, Goto, End, TypeInv, ClientTypeOK, Knows, Registered, limiterVars, semVars, callVars, streamVars
  <2> QED BY <1>18, <2>1, <2>2, <2>3, <2>4 DEF FindWaiter, TypeInv
<1>19. ASSUME NEW t \in Threads, HandOver(t) PROVE TypeInv'
  <2>1. pc' \in [Threads -> Places]
    <3>1. \E p \in {"ending"} : Goto(t, p) BY <1>19 DEF HandOver, End
    <3> QED BY <3>1, GotoType DEF Places, Holding, Sending
  <2>2. outcome' \in [Threads -> Outcomes]
    BY <1>19 DEF HandOver, TypeInv, ClientTypeOK, End, Outcomes
  <2>3. aim' \in [Threads -> Aims]
    <3>1. NoOne \in Aims BY DEF Aims
    <3> QED BY <1>19, <3>1 DEF HandOver, TypeInv
  <2>4. value' \in Int /\ lost' \in Nat /\ handed' \in BOOLEAN
    <3>1. value' = value - 1 /\ lost' \in {lost, lost + 1} /\ handed' \in {TRUE, handed}
      BY <1>19 DEF HandOver
    <3>2. value \in Int /\ lost \in Nat /\ handed \in BOOLEAN BY DEF TypeInv, ClientTypeOK
    <3>3. value - 1 \in Int /\ lost + 1 \in Nat BY <3>2
    <3>4. handed' \in BOOLEAN BY <3>1, <3>2
    <3> QED BY <3>1, <3>2, <3>3, <3>4
  <2>5. ClientTypeOK' BY <1>19, <2>1, <2>2, <2>3, <2>4 DEF HandOver, TypeInv, ClientTypeOK, limiterVars, semVars, callVars, streamVars
  <2>6. \A u \in Threads : Knows(u)'
    BY <1>19 DEF HandOver, Goto, End, TypeInv, ClientTypeOK, Knows, Registered, limiterVars, semVars, callVars, streamVars
  <2> QED BY <1>19, <2>1, <2>2, <2>3, <2>4, <2>5, <2>6 DEF HandOver, TypeInv
<1>20. ASSUME NEW t \in Threads, Conclude(t) PROVE TypeInv'
  <2>1. pc' \in [Threads -> Places]
    BY <1>20 DEF Conclude, Moves, TypeInv, ClientTypeOK, Moves, Goto, Places, Holding, Sending
  <2>2. outcome' \in [Threads -> Outcomes]
    BY <1>20 DEF Conclude, Moves, TypeInv, ClientTypeOK, End, Outcomes
  <2>3. chunkQueue' \in [Threads -> Seq({"chunk", "end", "error"})]
    <3>1. LastItem(outcome[t]) \in Seq(Items) 
      <4>1. "end" \in Items /\ "error" \in Items BY DEF Items
      <4> HIDE DEF Items
      <4>2. <<>> \in Seq(Items) /\ <<"end">> \in Seq(Items) /\ <<"error">> \in Seq(Items) BY <4>1
      <4> QED BY <4>2 DEF LastItem
    <3>2. chunkQueue \in [Threads -> Seq(Items)] BY DEF TypeInv, ClientTypeOK, Items
    <3>3. chunkQueue[t] \o LastItem(outcome[t]) \in Seq(Items) BY <3>1, <3>2
    <3> QED BY <1>20, <3>2, <3>3 DEF Conclude, Items
  <2>4. caller' \in [Threads -> {"idle", "waiting", "heard", "ended", "raised", "closed"}]
    BY <1>20 DEF Conclude, Moves, TypeInv, ClientTypeOK
  <2>5. ClientTypeOK' BY <1>20, <2>1, <2>2, <2>3, <2>4 DEF Conclude, Moves, TypeInv, ClientTypeOK, limiterVars, semVars, callVars, streamVars
  <2>6. \A u \in Threads : Knows(u)'
    BY <1>20 DEF Conclude, Moves, Goto, End, TypeInv, ClientTypeOK, Knows, Registered, limiterVars, semVars, callVars, streamVars
  <2> QED BY <1>20, <2>1, <2>2, <2>3, <2>4, <2>5, <2>6 DEF Conclude, Moves, TypeInv
<1>21. ASSUME NEW t \in Threads, ProviderEnds(t) PROVE TypeInv'
  <2>1. pc' \in [Threads -> Places]
    BY <1>21 DEF ProviderEnds, Moves, TypeInv, ClientTypeOK, Moves, Goto, Places, Holding, Sending
  <2>2. outcome' \in [Threads -> Outcomes]
    BY <1>21 DEF ProviderEnds, Moves, TypeInv, ClientTypeOK, End, Outcomes
  <2>3. ClientTypeOK' BY <1>21, <2>1, <2>2 DEF ProviderEnds, Moves, TypeInv, ClientTypeOK, limiterVars, semVars, callVars, streamVars
  <2>4. \A u \in Threads : Knows(u)'
    BY <1>21 DEF ProviderEnds, Moves, Goto, End, TypeInv, ClientTypeOK, Knows, Registered, limiterVars, semVars, callVars, streamVars
  <2> QED BY <1>21, <2>1, <2>2, <2>3, <2>4 DEF ProviderEnds, Moves, TypeInv
<1>22. ASSUME NEW t \in Threads, Chunk(t) PROVE TypeInv'
  <2>1. produced' \in [Threads -> 0..MaxChunks]
    BY <1>22 DEF Chunk, TypeInv, ClientTypeOK
  <2>2. chunkQueue' \in [Threads -> Seq({"chunk", "end", "error"})]
    BY <1>22 DEF Chunk, TypeInv, ClientTypeOK
  <2>3. ClientTypeOK' BY <1>22, <2>1, <2>2 DEF Chunk, TypeInv, ClientTypeOK, limiterVars, semVars, callVars, streamVars
  <2>4. \A u \in Threads : Knows(u)'
    BY <1>22 DEF Chunk, Goto, End, TypeInv, ClientTypeOK, Knows, Registered, limiterVars, semVars, callVars, streamVars
  <2> QED BY <1>22, <2>1, <2>2, <2>3, <2>4 DEF Chunk, TypeInv
<1>23. ASSUME NEW t \in Threads, Receive(t) PROVE TypeInv'
  <2>1. chunkQueue' \in [Threads -> Seq({"chunk", "end", "error"})]
    BY <1>23 DEF Receive, TypeInv, ClientTypeOK
  <2>2. received' \in [Threads -> Nat]
    <3>1. received' = received \/ received' = [received EXCEPT ![t] = @ + 1] BY <1>23 DEF Receive
    <3>2. received \in [Threads -> Nat] BY DEF TypeInv, ClientTypeOK
    <3> QED BY <3>1, <3>2
  <2>3. caller' \in [Threads -> {"idle", "waiting", "heard", "ended", "raised", "closed"}]
    BY <1>23 DEF Receive, TypeInv, ClientTypeOK
  <2>4. ClientTypeOK' BY <1>23, <2>1, <2>2, <2>3 DEF Receive, TypeInv, ClientTypeOK, limiterVars, semVars, callVars, streamVars
  <2>5. \A u \in Threads : Knows(u)'
    BY <1>23 DEF Receive, Goto, End, TypeInv, ClientTypeOK, Knows, Registered, limiterVars, semVars, callVars, streamVars
  <2> QED BY <1>23, <2>1, <2>2, <2>3, <2>4, <2>5 DEF Receive, TypeInv
<1>24. ASSUME NEW t \in Threads, CloseStream(t) PROVE TypeInv'
  BY <1>24 DEF CloseStream, Goto, Moves, End, TypeInv, ClientTypeOK, Places, Holding, Sending, Outcomes, AllKinds, Knows, Registered, limiterVars, semVars, callVars, streamVars
<1>26. ASSUME NEW k \in AllKeys, NEW gen \in DOMAIN states[k], Refill(k, gen) PROVE TypeInv'
  <2>1. /\ states' \in [AllKeys -> Seq(KeyStates)]
        /\ \A j \in AllKeys : Len(states[j]) <= Len(states'[j])
    BY <1>26, RefillEffect
  <2>2. ClientTypeOK' BY <1>26, <2>1 DEF Refill, TypeInv, ClientTypeOK, semVars, callVars, streamVars
  <2>3. UNCHANGED <<pc, key, aim, pos>> BY <1>26 DEF Refill
  <2>4. \A u \in Threads : Knows(u)' BY <2>1, <2>3, KnownByOthers
  <2> QED BY <2>2, <2>3, <2>4 DEF TypeInv
<1>25. CASE UNCHANGED vars
  BY <1>25 DEF vars, TypeInv, ClientTypeOK, limiterVars, semVars, callVars, streamVars, Registered, Knows
<1> QED BY <1>1, <1>2, <1>3, <1>4, <1>5, <1>6, <1>7, <1>8, <1>9, <1>10, <1>11, <1>12, <1>13, <1>13w, <1>14, <1>14t, <1>15, <1>16, <1>17, <1>18, <1>19, <1>20, <1>21, <1>22, <1>23, <1>24, <1>25, <1>26 DEF Next, Run

-----------------------------------------------------------------------------
(* Init establishes WaiterInv: nobody waits.                                *)
LEMMA WaiterInit == Init => WaiterInv
BY DEF Init, WaiterInv

(* A thread that neither waits nor is about to hand over moves on, and the  *)
(* semaphore is left alone.                                                 *)
LEMMA WaiterUntouched ==
    ASSUME TypeInv, WaiterInv, NEW t \in Threads, UNCHANGED <<boundTo, waiter, handed>>,
           pc[t] \notin {"waiting", "expiring"},
           \A u \in Threads \ {t} : pc'[u] = pc[u] /\ aim'[u] = aim[u],
           pc'[t] = "handing" => aim'[t] # NoOne
    PROVE  WaiterInv'
<1>1. waiter # NoOne => waiter[1] \in Threads BY DEF TypeInv, ClientTypeOK, Loops
<1> QED BY <1>1 DEF WaiterInv

(* Going somewhere changes nobody else's place.                             *)
LEMMA GotoMoves ==
    ASSUME TypeInv, NEW t \in Threads, NEW p, Goto(t, p)
    PROVE  pc'[t] = p /\ \A u \in Threads \ {t} : pc'[u] = pc[u]
BY DEF TypeInv, ClientTypeOK, Goto

(* An action of t that goes somewhere.                                      *)
LEMMA RunGoes ==
    ASSUME TypeInv, NEW t \in Threads,
           \/ Call(t) \/ EnsureInitialized(t) \/ NestedTimeout(t) \/ Submit(t)
           \/ Look(t) \/ Peek(t) \/ Take(t) \/ SelectKey(t) \/ Wake(t) \/ Ask(t)
           \/ AskTokens(t) \/ DebitRpm(t) \/ DebitTpm(t) \/ Release(t) \/ FindWaiter(t)
           \/ Conclude(t) \/ ProviderEnds(t)
    PROVE  /\ \A u \in Threads \ {t} : pc'[u] = pc[u] /\ aim'[u] = aim[u]
           /\ pc[t] \notin {"waiting", "expiring"}
           /\ pc'[t] = "handing" => FindWaiter(t)
           /\ UNCHANGED <<boundTo, waiter, handed>>
<1>0. pc \in [Threads -> Places] /\ aim \in [Threads -> Aims] BY DEF TypeInv, ClientTypeOK
<1>1. CASE Call(t) BY <1>0, <1>1 DEF Call, Goto, semVars
<1>2. CASE EnsureInitialized(t) BY <1>0, <1>2 DEF EnsureInitialized, Goto, semVars
<1>3. CASE NestedTimeout(t) BY <1>0, <1>3 DEF NestedTimeout, Moves, Goto, semVars
<1>4. CASE Submit(t) BY <1>0, <1>4 DEF Submit, Goto, End, semVars
<1>5. CASE Look(t) BY <1>0, <1>5 DEF Look, Goto, semVars
<1>6. CASE Peek(t) BY <1>0, <1>6 DEF Peek, Goto, semVars
<1>7. CASE Take(t) BY <1>0, <1>7 DEF Take, Moves, Goto, semVars
<1>8. CASE SelectKey(t) BY <1>0, <1>8 DEF SelectKey, Goto, semVars
<1>8w. CASE Wake(t) BY <1>0, <1>8w DEF Wake, Goto, semVars
<1>9. CASE Ask(t) BY <1>0, <1>9 DEF Ask, Goto, semVars
<1>9t. CASE AskTokens(t) BY <1>0, <1>9t DEF AskTokens, Goto, semVars
<1>10. CASE DebitRpm(t) BY <1>0, <1>10 DEF DebitRpm, Debit, Moves, Goto, semVars
<1>11. CASE DebitTpm(t) BY <1>0, <1>11 DEF DebitTpm, Debit, Moves, Goto, semVars
<1>12. CASE Release(t) BY <1>0, <1>12 DEF Release, Moves, Goto, semVars
<1>13. CASE FindWaiter(t) BY <1>0, <1>13 DEF FindWaiter, Goto, semVars
<1>14. CASE Conclude(t) BY <1>0, <1>14 DEF Conclude, Moves, Goto, semVars
<1>15. CASE ProviderEnds(t) BY <1>0, <1>15 DEF ProviderEnds, Moves, Goto, semVars
<1> QED BY <1>1, <1>2, <1>3, <1>4, <1>5, <1>6, <1>7, <1>8, <1>8w, <1>9, <1>9t, <1>10, <1>11, <1>12, <1>13, <1>14, <1>15

(* WaiterInv is inductive.  Only the loop the semaphore is bound to waits,  *)
(* and it runs one request, so whoever comes to wait finds no waiter.       *)
LEMMA WaiterStep == TypeInv /\ WaiterInv /\ [Next]_vars => WaiterInv'
<1> SUFFICES ASSUME TypeInv, WaiterInv, [Next]_vars PROVE WaiterInv' OBVIOUS
<1>1. ASSUME NEW t \in Threads,
             \/ Call(t) \/ EnsureInitialized(t) \/ NestedTimeout(t) \/ Submit(t)
             \/ Look(t) \/ Peek(t) \/ Take(t) \/ SelectKey(t) \/ Wake(t) \/ Ask(t)
             \/ AskTokens(t) \/ DebitRpm(t) \/ DebitTpm(t) \/ Release(t) \/ FindWaiter(t)
             \/ Conclude(t) \/ ProviderEnds(t)
      PROVE  WaiterInv'
  <2>1. FindWaiter(t) /\ pc'[t] = "handing" => aim'[t] # NoOne
    BY DEF FindWaiter, Goto, TypeInv, ClientTypeOK
  <2> QED BY <1>1, <2>1, RunGoes, WaiterUntouched
<1>2. ASSUME NEW t \in Threads, Wait(t) PROVE WaiterInv'
  <2>1. \A u \in Threads \ {t} : pc'[u] = pc[u] BY <1>2 DEF Wait, Goto, End, TypeInv, ClientTypeOK
  <2>2. CASE boundTo \in {NoOne, LoopOf(t)}
    <3>1. pc'[t] = "waiting" BY <1>2, <2>2 DEF Wait, Goto, TypeInv, ClientTypeOK
    <3>2. boundTo' = LoopOf(t) /\ waiter' = <<t, made[t]>> /\ ~ handed' /\ aim' = aim
      BY <1>2, <2>2 DEF Wait
    <3>3. LoopOf(t)[1] = t /\ LoopOf(t) # NoOne
      <4>1. LoopOf(t) \in Loops BY DEF LoopOf, Loops, TypeInv, ClientTypeOK
      <4> QED BY <4>1, ClientAssumption DEF LoopOf
    <3> QED BY <2>1, <3>1, <3>2, <3>3 DEF WaiterInv
  <2>3. CASE boundTo \notin {NoOne, LoopOf(t)}
    <3>1. UNCHANGED <<boundTo, waiter, handed, aim>> /\ Goto(t, "ending") /\ pc[t] = "queueing"
      BY <1>2, <2>3 DEF Wait, End
    <3>2. pc'[t] = "ending" BY <3>1, GotoMoves
    <3> QED BY <2>1, <3>1, <3>2, WaiterUntouched
  <2> QED BY <2>2, <2>3
<1>3. ASSUME NEW t \in Threads, TimerFires(t) PROVE WaiterInv'
  <2>1. \A u \in Threads \ {t} : pc'[u] = pc[u] BY <1>3 DEF TimerFires, Goto, TypeInv, ClientTypeOK
  <2>2. waiter # NoOne => waiter[1] \in Threads BY DEF TypeInv, ClientTypeOK, Loops
  <2>3. CASE handed
    <3>1. pc'[t] = "selecting" BY <1>3, <2>3 DEF TimerFires, Goto, TypeInv, ClientTypeOK
    <3> QED BY <1>3, <2>1, <2>3, <3>1 DEF TimerFires, WaiterInv
  <2>4. CASE ~ handed
    <3>1. pc'[t] = "expiring" BY <1>3, <2>4 DEF TimerFires, Goto, TypeInv, ClientTypeOK
    <3> QED BY <1>3, <2>1, <2>2, <2>4, <3>1 DEF TimerFires, WaiterInv
  <2> QED BY <2>3, <2>4
<1>4. ASSUME NEW t \in Threads, GiveUp(t) PROVE WaiterInv'
  <2>1. pc'[t] = "ending" /\ \A u \in Threads \ {t} : pc'[u] = pc[u]
    BY <1>4 DEF GiveUp, End, Goto, TypeInv, ClientTypeOK
  <2> QED BY <1>4, <2>1 DEF GiveUp, WaiterInv
<1>5. ASSUME NEW t \in Threads, HandOver(t) PROVE WaiterInv'
  <2>1. pc'[t] = "ending" /\ \A u \in Threads \ {t} : pc'[u] = pc[u] /\ aim'[u] = aim[u]
    BY <1>5 DEF HandOver, End, Goto, TypeInv, ClientTypeOK
  <2>2. waiter # NoOne => waiter[1] \in Threads BY DEF TypeInv, ClientTypeOK, Loops
  <2>3. handed' => waiter' # NoOne BY <1>5 DEF HandOver, WaiterInv
  <2>4. UNCHANGED <<boundTo, waiter>> /\ pc[t] = "handing" BY <1>5 DEF HandOver
  <2> QED BY <2>1, <2>2, <2>3, <2>4 DEF WaiterInv
<1>6. ASSUME \/ Shutdown \/ UNCHANGED vars \/ (\E k \in Added : AddKey(k))
             \/ (\E k \in AllKeys : \E gen \in DOMAIN states[k] : Refill(k, gen))
             \/ \E t \in Threads : Chunk(t) \/ Receive(t) \/ CloseStream(t)
      PROVE  WaiterInv'
  <2>1. UNCHANGED <<boundTo, waiter, handed, pc, aim>>
    BY <1>6 DEF Shutdown, vars, AddKey, Refill, Chunk, Receive, CloseStream, semVars
  <2> QED BY <2>1 DEF WaiterInv
<1> QED BY <1>1, <1>2, <1>3, <1>4, <1>5, <1>6 DEF Next, Run

-----------------------------------------------------------------------------
Holders == {t \in Threads : pc[t] \in Holding}

(* The number of holders after one thread has moved.                        *)
LEMMA HoldersMove ==
    ASSUME TypeInv, NEW t \in Threads, \A u \in Threads \ {t} : pc'[u] = pc[u]
    PROVE  /\ Cardinality(Holders) \in Nat
           /\ Cardinality(Holders') =
                 Cardinality(Holders) + OneIf(pc'[t] \in Holding) - OneIf(pc[t] \in Holding)
<1>1. Holders \in SUBSET Threads /\ Holders' \in SUBSET Threads BY DEF Holders
<1>2. \A u \in Threads : u # t => (u \in Holders <=> u \in Holders') BY DEF Holders
<1>3. (t \in Holders <=> pc[t] \in Holding) /\ (t \in Holders' <=> pc'[t] \in Holding)
  BY DEF Holders
<1> HIDE DEF Holders
<1>4. /\ Cardinality(Holders) \in Nat
      /\ Cardinality(Holders') = Cardinality(Holders) + OneIf(t \in Holders') - OneIf(t \in Holders)
  BY <1>1, <1>2, CountOfMove
<1> QED BY <1>3, <1>4 DEF OneIf

Permits == value + Cardinality(Holders) + OneIf(handed) + lost = MaxConcurrent

(* Most actions neither take nor give a permit.                             *)
LEMMA KeepsPermits ==
    ASSUME TypeInv, NEW t \in Threads,
           \/ Call(t) \/ EnsureInitialized(t) \/ NestedTimeout(t) \/ Submit(t)
           \/ Look(t) \/ Peek(t) \/ SelectKey(t) \/ Wake(t) \/ Ask(t) \/ AskTokens(t) \/ DebitRpm(t)
           \/ DebitTpm(t) \/ FindWaiter(t) \/ Conclude(t) \/ ProviderEnds(t)
    PROVE  /\ UNCHANGED <<value, handed, lost>>
           /\ pc'[t] \in Holding <=> pc[t] \in Holding
           /\ \A u \in Threads \ {t} : pc'[u] = pc[u]
<1>0. pc \in [Threads -> Places] BY DEF TypeInv, ClientTypeOK
<1>1. CASE Call(t) BY <1>0, <1>1 DEF Call, Goto, semVars, Holding, Sending
<1>2. CASE EnsureInitialized(t) BY <1>0, <1>2 DEF EnsureInitialized, Goto, semVars, Holding, Sending
<1>3. CASE NestedTimeout(t) BY <1>0, <1>3 DEF NestedTimeout, Moves, Goto, semVars, Holding, Sending
<1>4. CASE Submit(t) BY <1>0, <1>4 DEF Submit, Goto, End, semVars, Holding, Sending
<1>5. CASE Look(t) BY <1>0, <1>5 DEF Look, Goto, semVars, Holding, Sending
<1>6. CASE Peek(t) BY <1>0, <1>6 DEF Peek, Goto, semVars, Holding, Sending
<1>7. CASE SelectKey(t) BY <1>0, <1>7 DEF SelectKey, Goto, semVars, Holding, Sending
<1>7w. CASE Wake(t) BY <1>0, <1>7w DEF Wake, Goto, semVars, Holding, Sending
<1>8. CASE Ask(t) BY <1>0, <1>8 DEF Ask, Goto, semVars, Holding, Sending
<1>8t. CASE AskTokens(t) BY <1>0, <1>8t DEF AskTokens, Goto, semVars, Holding, Sending
<1>9. CASE DebitRpm(t) BY <1>0, <1>9 DEF DebitRpm, Debit, Moves, Goto, semVars, Holding, Sending
<1>10. CASE DebitTpm(t) BY <1>0, <1>10 DEF DebitTpm, Debit, Moves, Goto, semVars, Holding, Sending
<1>11. CASE FindWaiter(t) BY <1>0, <1>11 DEF FindWaiter, Goto, semVars, Holding, Sending
<1>12. CASE Conclude(t) BY <1>0, <1>12 DEF Conclude, Moves, Goto, semVars, Holding, Sending
<1>13. CASE ProviderEnds(t) BY <1>0, <1>13 DEF ProviderEnds, Moves, Goto, semVars, Holding, Sending
<1> QED BY <1>1, <1>2, <1>3, <1>4, <1>5, <1>6, <1>7, <1>7w, <1>8, <1>8t, <1>9, <1>10, <1>11, <1>12, <1>13

(* Every step conserves permits: it takes one where it gives one.           *)
LEMMA PermitStep == TypeInv /\ WaiterInv /\ Permits /\ [Next]_vars => Permits'
<1> SUFFICES ASSUME TypeInv, WaiterInv, Permits, [Next]_vars PROVE Permits' OBVIOUS
<1>0. /\ value \in Int /\ lost \in Nat /\ handed \in BOOLEAN
      /\ pc \in [Threads -> Places] /\ MaxConcurrent \in Nat
  BY ClientAssumption DEF TypeInv, ClientTypeOK
<1>1. ASSUME NEW t \in Threads,
             \/ Call(t) \/ EnsureInitialized(t) \/ NestedTimeout(t) \/ Submit(t)
             \/ Look(t) \/ Peek(t) \/ SelectKey(t) \/ Wake(t) \/ Ask(t) \/ AskTokens(t) \/ DebitRpm(t)
             \/ DebitTpm(t) \/ FindWaiter(t) \/ Conclude(t) \/ ProviderEnds(t)
      PROVE  Permits'
  <2>1. /\ UNCHANGED <<value, handed, lost>> /\ (pc'[t] \in Holding <=> pc[t] \in Holding)
        /\ \A u \in Threads \ {t} : pc'[u] = pc[u]
    BY <1>1, KeepsPermits
  <2>2. Cardinality(Holders') = Cardinality(Holders) BY <2>1, HoldersMove DEF OneIf
  <2> HIDE DEF Holders
  <2> QED BY <2>1, <2>2 DEF Permits, OneIf
<1>2. ASSUME NEW t \in Threads, Take(t) PROVE Permits'
  <2>1. \A u \in Threads \ {t} : pc'[u] = pc[u] BY <1>0, <1>2 DEF Take, Moves, Goto
  <2>2. pc[t] = "take" /\ pc'[t] = "selecting" /\ value' = value - 1 /\ UNCHANGED <<handed, lost>>
    BY <1>0, <1>2 DEF Take, Moves, Goto
  <2>3. pc[t] \notin Holding /\ pc'[t] \in Holding BY <2>2 DEF Holding, Sending
  <2> QED BY <1>0, <2>1, <2>2, <2>3, HoldersMove DEF Permits, OneIf
<1>3. ASSUME NEW t \in Threads, Release(t) PROVE Permits'
  <2>1. \A u \in Threads \ {t} : pc'[u] = pc[u] BY <1>0, <1>3 DEF Release, Moves, Goto
  <2>2. pc[t] = "releasing" /\ pc'[t] = "waking" /\ value' = value + 1 /\ UNCHANGED <<handed, lost>>
    BY <1>0, <1>3 DEF Release, Moves, Goto
  <2>3. pc[t] \in Holding /\ pc'[t] \notin Holding BY <2>2 DEF Holding, Sending
  <2> QED BY <1>0, <2>1, <2>2, <2>3, HoldersMove DEF Permits, OneIf
<1>4. ASSUME NEW t \in Threads, Wait(t) PROVE Permits'
  <2>1. \A u \in Threads \ {t} : pc'[u] = pc[u] BY <1>0, <1>4 DEF Wait, Goto, End
  <2>2. pc[t] = "queueing" /\ pc'[t] \in {"waiting", "ending"} /\ UNCHANGED <<value, lost>>
    BY <1>0, <1>4 DEF Wait, Goto, End
  <2>3. handed' = handed
    <3>1. CASE boundTo \notin {NoOne, LoopOf(t)} BY <1>4, <3>1 DEF Wait
    <3>2. CASE boundTo \in {NoOne, LoopOf(t)}
      <4>1. ~ handed' BY <1>4, <3>2 DEF Wait
      <4>2. LoopOf(t)[1] = t BY DEF LoopOf
      <4>3. ~ handed BY <2>2, <3>2, <4>2 DEF WaiterInv
      <4> QED BY <1>0, <4>1, <4>3, <1>4, <3>2 DEF Wait
    <3> QED BY <3>1, <3>2
  <2>4. pc[t] \notin Holding /\ pc'[t] \notin Holding BY <2>2 DEF Holding, Sending
  <2> QED BY <1>0, <2>1, <2>2, <2>3, <2>4, HoldersMove DEF Permits, OneIf
<1>5. ASSUME NEW t \in Threads, TimerFires(t) PROVE Permits'
  <2>1. \A u \in Threads \ {t} : pc'[u] = pc[u] BY <1>0, <1>5 DEF TimerFires, Goto
  <2>2. pc[t] = "waiting" /\ pc[t] \notin Holding /\ UNCHANGED <<value, lost>>
    BY <1>5 DEF TimerFires, Holding, Sending
  <2>3. CASE handed
    <3>1. pc'[t] = "selecting" /\ ~ handed' BY <1>0, <1>5, <2>3 DEF TimerFires, Goto
    <3>2. pc'[t] \in Holding BY <3>1 DEF Holding, Sending
    <3> QED BY <1>0, <2>1, <2>2, <2>3, <3>1, <3>2, HoldersMove DEF Permits, OneIf
  <2>4. CASE ~ handed
    <3>1. pc'[t] = "expiring" /\ UNCHANGED handed BY <1>0, <1>5, <2>4 DEF TimerFires, Goto
    <3>2. pc'[t] \notin Holding BY <3>1 DEF Holding, Sending
    <3> QED BY <1>0, <2>1, <2>2, <3>1, <3>2, HoldersMove DEF Permits, OneIf
  <2> QED BY <2>3, <2>4
<1>6. ASSUME NEW t \in Threads, GiveUp(t) PROVE Permits'
  <2>1. \A u \in Threads \ {t} : pc'[u] = pc[u] BY <1>0, <1>6 DEF GiveUp, Goto, End
  <2>2. pc[t] = "expiring" /\ pc'[t] = "ending" /\ ~ handed' /\ UNCHANGED lost
    BY <1>0, <1>6 DEF GiveUp, Goto, End
  <2>3. value' = value + OneIf(handed) BY <1>6 DEF GiveUp, OneIf
  <2>4. pc[t] \notin Holding /\ pc'[t] \notin Holding BY <2>2 DEF Holding, Sending
  <2> QED BY <1>0, <2>1, <2>2, <2>3, <2>4, HoldersMove DEF Permits, OneIf
<1>7. ASSUME NEW t \in Threads, HandOver(t) PROVE Permits'
  <2>1. \A u \in Threads \ {t} : pc'[u] = pc[u] BY <1>0, <1>7 DEF HandOver, Goto, End
  <2>2. pc[t] = "handing" /\ pc'[t] = "ending" /\ value' = value - 1
    BY <1>0, <1>7 DEF HandOver, Goto, End
  <2>3. pc[t] \notin Holding /\ pc'[t] \notin Holding BY <2>2 DEF Holding, Sending
  <2>4. OneIf(handed') + lost' = OneIf(handed) + lost + 1
    BY <1>0, <1>7 DEF HandOver, OneIf
  <2>5. lost' \in Nat /\ OneIf(handed) \in Nat /\ OneIf(handed') \in Nat
    BY <1>0, <1>7 DEF HandOver, OneIf
  <2>6. Cardinality(Holders') = Cardinality(Holders) /\ Cardinality(Holders) \in Nat
    BY <2>1, <2>3, HoldersMove DEF OneIf
  <2> HIDE DEF Holders
  <2> QED BY <1>0, <2>2, <2>4, <2>5, <2>6 DEF Permits
<1>8. ASSUME \/ Shutdown \/ UNCHANGED vars \/ (\E k \in Added : AddKey(k))
             \/ (\E k \in AllKeys : \E gen \in DOMAIN states[k] : Refill(k, gen))
             \/ \E t \in Threads : Chunk(t) \/ Receive(t) \/ CloseStream(t)
      PROVE  Permits'
  <2>1. UNCHANGED <<value, handed, lost, pc>>
    BY <1>8 DEF Shutdown, vars, AddKey, Refill, Chunk, Receive, CloseStream, semVars
  <2> QED BY <2>1 DEF Permits, Holders
<1> QED BY <1>1, <1>2, <1>3, <1>4, <1>5, <1>6, <1>7, <1>8 DEF Next, Run

(* At the start every permit is free.                                       *)
LEMMA PermitInit == Init => Permits
<1> SUFFICES ASSUME Init PROVE Permits OBVIOUS
<1>1. Holders = {} BY DEF Init, Holders, Holding, Sending
<1>2. Cardinality(Holders) = 0 BY <1>1, FS_EmptySet
<1> QED BY <1>2, ClientAssumption DEF Init, Permits, OneIf

-----------------------------------------------------------------------------
(* No KeyState goes away, and no key leaves the model's list.               *)
LEMMA StatesGrow ==
    ASSUME TypeInv, [Next]_vars
    PROVE  /\ \A j \in AllKeys : Len(states[j]) <= Len(states'[j])
           /\ modelIndex \subseteq modelIndex'
<1>0. \A j \in AllKeys : Len(states[j]) \in Nat /\ Len(states[j]) <= Len(states[j])
  BY LenIsNat DEF TypeInv, ClientTypeOK
<1>1. ASSUME NEW k \in Added, AddKey(k)
      PROVE  /\ \A j \in AllKeys : Len(states[j]) <= Len(states'[j])
             /\ modelIndex \subseteq modelIndex'
  <2> k \in AllKeys BY DEF AllKeys
  <2>1. CASE Register(k) BY <2>1, LenGrows DEF Register
  <2>2. CASE UNCHANGED <<states, modelIndex>> BY <1>0, <2>2
  <2> QED BY <1>1, <2>1, <2>2 DEF AddKey
<1>2. ASSUME NEW t \in Threads, EnsureInitialized(t)
      PROVE  /\ \A j \in AllKeys : Len(states[j]) <= Len(states'[j])
             /\ modelIndex \subseteq modelIndex'
  <2>1. CASE pos[t] <= Len(configKeys) /\ Register(configKeys[pos[t]])
    <3>1. configKeys[pos[t]] \in AllKeys BY <2>1 DEF TypeInv, ClientTypeOK
    <3> QED BY <2>1, <3>1, LenGrows DEF Register
  <2>2. CASE UNCHANGED <<states, modelIndex>> BY <1>0, <2>2
  <2> QED BY <1>2, <2>1, <2>2 DEF EnsureInitialized
<1>3. ASSUME NEW t \in Threads, DebitRpm(t) \/ DebitTpm(t)
      PROVE  /\ \A j \in AllKeys : Len(states[j]) <= Len(states'[j])
             /\ modelIndex \subseteq modelIndex'
  <2>1. CASE DebitRpm(t)
    <3>1. \A j \in AllKeys : Len(states[j]) <= Len(states'[j]) BY <2>1, DebitType DEF DebitRpm
    <3> QED BY <2>1, <3>1 DEF DebitRpm, Debit
  <2>2. CASE DebitTpm(t)
    <3>1. \A j \in AllKeys : Len(states[j]) <= Len(states'[j]) BY <2>2, DebitType, ClientAssumption DEF DebitTpm
    <3> QED BY <2>2, <3>1 DEF DebitTpm, Debit
  <2> QED BY <1>3, <2>1, <2>2
<1>7. ASSUME NEW k \in AllKeys, NEW gen \in DOMAIN states[k], Refill(k, gen)
      PROVE  /\ \A j \in AllKeys : Len(states[j]) <= Len(states'[j])
             /\ modelIndex \subseteq modelIndex'
  BY <1>7, RefillEffect DEF Refill
<1>4. CASE UNCHANGED <<states, modelIndex>> BY <1>0, <1>4
<1>5. ASSUME NEW t \in Threads,
             \/ Call(t) \/ NestedTimeout(t) \/ Submit(t) \/ Look(t) \/ Peek(t)
             \/ Take(t) \/ Wait(t) \/ TimerFires(t) \/ GiveUp(t) \/ SelectKey(t)
             \/ Wake(t) \/ Ask(t) \/ AskTokens(t) \/ Release(t) \/ FindWaiter(t) \/ HandOver(t) \/ Conclude(t)
             \/ ProviderEnds(t) \/ Chunk(t) \/ Receive(t) \/ CloseStream(t)
      PROVE  UNCHANGED <<states, modelIndex>>
  BY <1>5 DEF Call, NestedTimeout, Submit, Look, Peek, Take, Wait, TimerFires, GiveUp,
     SelectKey, Wake, Ask, AskTokens, Release, FindWaiter, HandOver, Conclude, ProviderEnds, Chunk, Receive,
     CloseStream, limiterVars
<1>6. CASE Shutdown \/ UNCHANGED vars BY <1>4, <1>6 DEF Shutdown, vars, limiterVars
<1> QED BY <1>1, <1>2, <1>3, <1>4, <1>5, <1>6, <1>7 DEF Next, Run

(* A key once usable stays so.                                              *)
LEMMA UsableStays ==
    ASSUME TypeInv, TypeInv', [Next]_vars, NEW k \in AllKeys, Usable(k)
    PROVE  Usable(k)'
<1>1. states[k] \in Seq(KeyStates) /\ states'[k] \in Seq(KeyStates)
  BY DEF TypeInv, ClientTypeOK
<1>2. Len(states[k]) <= Len(states'[k]) /\ k \in modelIndex' BY StatesGrow DEF Usable
<1>3. states'[k] # <<>> BY <1>1, <1>2 DEF Usable, Registered
<1> QED BY <1>2, <1>3 DEF Usable, Registered

(* Most actions leave the list of keys and the walks over it alone.         *)
LEMMA KeepsKeys ==
    ASSUME TypeInv, NEW t \in Threads,
           \/ NestedTimeout(t) \/ Submit(t) \/ Look(t) \/ Peek(t) \/ Take(t)
           \/ Wait(t) \/ TimerFires(t) \/ GiveUp(t) \/ SelectKey(t) \/ Wake(t) \/ Ask(t)
           \/ AskTokens(t) \/ DebitRpm(t) \/ DebitTpm(t) \/ Release(t) \/ FindWaiter(t)
           \/ HandOver(t) \/ Conclude(t) \/ ProviderEnds(t)
    PROVE  /\ UNCHANGED <<initialized, configKeys, adder, made, pos>>
           /\ pc[t] \notin {"registering", "idle"} /\ pc'[t] # "registering"
           /\ \A u \in Threads \ {t} : pc'[u] = pc[u]
<1>0. pc \in [Threads -> Places] BY DEF TypeInv, ClientTypeOK
<1>1. CASE NestedTimeout(t) BY <1>0, <1>1 DEF NestedTimeout, Moves, Goto, limiterVars, callVars
<1>2. CASE Submit(t) BY <1>0, <1>2 DEF Submit, Goto, End, limiterVars, callVars
<1>3. CASE Look(t) BY <1>0, <1>3 DEF Look, Goto, limiterVars, callVars
<1>4. CASE Peek(t) BY <1>0, <1>4 DEF Peek, Goto, limiterVars, callVars
<1>5. CASE Take(t) BY <1>0, <1>5 DEF Take, Moves, Goto, limiterVars, callVars
<1>6. CASE Wait(t) BY <1>0, <1>6 DEF Wait, Goto, End, limiterVars, callVars
<1>7. CASE TimerFires(t) BY <1>0, <1>7 DEF TimerFires, Goto, limiterVars, callVars
<1>8. CASE GiveUp(t) BY <1>0, <1>8 DEF GiveUp, Goto, End, limiterVars, callVars
<1>9. CASE SelectKey(t) BY <1>0, <1>9 DEF SelectKey, Goto, limiterVars, callVars
<1>9w. CASE Wake(t) BY <1>0, <1>9w DEF Wake, Goto, limiterVars, callVars
<1>10. CASE Ask(t) BY <1>0, <1>10 DEF Ask, Goto, limiterVars, callVars
<1>10t. CASE AskTokens(t) BY <1>0, <1>10t DEF AskTokens, Goto, limiterVars, callVars
<1>11. CASE DebitRpm(t) BY <1>0, <1>11 DEF DebitRpm, Debit, Moves, Goto, limiterVars, callVars
<1>12. CASE DebitTpm(t) BY <1>0, <1>12 DEF DebitTpm, Debit, Moves, Goto, limiterVars, callVars
<1>13. CASE Release(t) BY <1>0, <1>13 DEF Release, Moves, Goto, limiterVars, callVars
<1>14. CASE FindWaiter(t) BY <1>0, <1>14 DEF FindWaiter, Goto, limiterVars, callVars
<1>15. CASE HandOver(t) BY <1>0, <1>15 DEF HandOver, Goto, End, limiterVars, callVars
<1>16. CASE Conclude(t) BY <1>0, <1>16 DEF Conclude, Moves, Goto, limiterVars, callVars
<1>17. CASE ProviderEnds(t) BY <1>0, <1>17 DEF ProviderEnds, Moves, Goto, limiterVars, callVars
<1> QED BY <1>1, <1>2, <1>3, <1>4, <1>5, <1>6, <1>7, <1>8, <1>9, <1>9w, <1>10, <1>10t, <1>11, <1>12, <1>13, <1>14, <1>15, <1>16, <1>17

(* No key has been walked yet.                                              *)
LEMMA KeysInit == Init => KeysInv
<1> SUFFICES ASSUME Init PROVE KeysInv OBVIOUS
<1>1. configKeys = Configured /\ Configured \in Seq(AllKeys) BY ClientAssumption DEF Init
<1>2. Len(configKeys) \in Nat BY <1>1
<1> QED BY <1>1, <1>2 DEF Init, KeysInv

(* KeysInv is inductive: the walk over a list that may grow meanwhile makes *)
(* one key more usable at each turn, and ends behind the last one.          *)
LEMMA KeysStep == TypeInv /\ TypeInv' /\ KeysInv /\ [Next]_vars => KeysInv'
<1> SUFFICES ASSUME TypeInv, TypeInv', KeysInv, [Next]_vars PROVE KeysInv' OBVIOUS
<1>0. /\ configKeys \in Seq(AllKeys) /\ Len(configKeys) \in Nat
      /\ Configured \in Seq(AllKeys) /\ Len(Configured) \in Nat
      /\ pc \in [Threads -> Places] /\ made \in [Threads -> Nat]
      /\ pos \in [Threads -> Nat \ {0}] /\ Added \subseteq AllKeys
      /\ \A i \in DOMAIN Configured : Configured[i] \in AllKeys
  BY ClientAssumption DEF TypeInv, ClientTypeOK, AllKeys
<1> HIDE DEF AllKeys
<1>u. \A k \in AllKeys : Usable(k) => Usable(k)' BY UsableStays
<1>1. ASSUME NEW t \in Threads,
             \/ NestedTimeout(t) \/ Submit(t) \/ Look(t) \/ Peek(t)
             \/ Take(t) \/ Wait(t) \/ TimerFires(t) \/ GiveUp(t)
             \/ SelectKey(t) \/ Wake(t) \/ Ask(t) \/ AskTokens(t) \/ DebitRpm(t) \/ DebitTpm(t)
             \/ Release(t) \/ FindWaiter(t) \/ HandOver(t) \/ Conclude(t)
             \/ ProviderEnds(t)
      PROVE  KeysInv'
  <2>1. /\ UNCHANGED <<initialized, configKeys, adder, made, pos>>
        /\ pc[t] \notin {"registering", "idle"} /\ pc'[t] # "registering"
        /\ \A u \in Threads \ {t} : pc'[u] = pc[u]
    BY <1>1, KeepsKeys
  <2>2. made[t] # 0 BY <2>1 DEF KeysInv
  <2> QED BY <1>0, <1>u, <2>1, <2>2 DEF KeysInv
<1>2. ASSUME NEW t \in Threads, Call(t) PROVE KeysInv'
  <2>1. UNCHANGED <<initialized, configKeys, adder, pos>> BY <1>2 DEF Call, limiterVars
  <2>2. pc[t] = "idle" /\ (initialized => pc'[t] # "registering")
        /\ pc'[t] \in {"registering", "blocked", "submit"}
    BY <1>0, <1>2 DEF Call, Goto
  <2>3. /\ made'[t] = made[t] + 1
        /\ \A u \in Threads \ {t} : pc'[u] = pc[u] /\ made'[u] = made[u]
    BY <1>0, <1>2 DEF Call, Goto
  <2>4. initialized \/ pc'[t] = "registering" BY <1>0, <1>2 DEF Call, Goto
  <2>5. pos[t] = 1 BY <2>2 DEF KeysInv
  <2> QED BY <1>0, <1>u, <2>1, <2>2, <2>3, <2>4, <2>5 DEF KeysInv
<1>3. ASSUME NEW t \in Threads, EnsureInitialized(t) PROVE KeysInv'
  <2>1. UNCHANGED <<configKeys, adder, made>> /\ pc[t] = "registering"
    BY <1>3 DEF EnsureInitialized, callVars
  <2>2. \A u \in Threads \ {t} : pc'[u] = pc[u] /\ pos'[u] = pos[u]
    BY <1>0, <1>3 DEF EnsureInitialized, Goto
  <2>3. CASE /\ pos[t] <= Len(configKeys) /\ Register(configKeys[pos[t]])
             /\ pos' = [pos EXCEPT ![t] = @ + 1] /\ UNCHANGED <<pc, initialized>>
    <3>1. pos'[t] = pos[t] + 1 /\ pc'[t] = "registering" BY <1>0, <2>1, <2>3
    <3>2. pos[t] \in DOMAIN configKeys /\ configKeys[pos[t]] \in AllKeys BY <1>0, <2>3
    <3>3. ASSUME NEW k \in AllKeys, k = configKeys[pos[t]] PROVE Usable(k)'
      <4>1. k \in modelIndex' BY <2>3, <3>3 DEF Register
      <4>2. Len(states'[k]) = Len(states[k]) + 1 /\ Len(states[k]) \in Nat
        BY <2>3, <3>3, RegisterType, LenIsNat DEF TypeInv, ClientTypeOK
      <4>3. states'[k] # <<>> BY <4>2
      <4> QED BY <2>1, <4>1, <4>3 DEF Usable, Registered
    <3>4. \A i \in DOMAIN Configured : i < pos'[t] => Usable(Configured[i])'
      <4> SUFFICES ASSUME NEW i \in DOMAIN Configured, i < pos'[t] PROVE Usable(Configured[i])'
        OBVIOUS
      <4>1. CASE i < pos[t] BY <1>0, <1>u, <2>1, <4>1 DEF KeysInv
      <4>2. CASE i = pos[t] BY <1>0, <3>3, <4>2 DEF KeysInv
      <4> QED BY <1>0, <3>1, <4>1, <4>2
    <3> QED BY <1>0, <1>u, <2>1, <2>2, <2>3, <3>1, <3>2, <3>4 DEF KeysInv
  <2>4. CASE /\ pos[t] > Len(configKeys) /\ initialized' = TRUE
             /\ pos' = [pos EXCEPT ![t] = 1]
             /\ Goto(t, IF kind[t] = "nested" THEN "blocked" ELSE "submit")
    <3>1. pos'[t] = 1 /\ pc'[t] \in {"blocked", "submit"} BY <1>0, <2>4 DEF Goto
    <3>2. \A i \in DOMAIN Configured : Usable(Configured[i])' BY <1>0, <1>u, <2>1, <2>4 DEF KeysInv
    <3>3. made[t] # 0 BY <2>1 DEF KeysInv
    <3> QED BY <1>0, <1>u, <2>1, <2>2, <2>4, <3>1, <3>2, <3>3 DEF KeysInv
  <2> QED BY <1>3, <2>3, <2>4 DEF EnsureInitialized
<1>4. ASSUME NEW k \in Added, AddKey(k) PROVE KeysInv'
  <2>1. UNCHANGED <<initialized, made, pos, pc>> BY <1>4 DEF AddKey, callVars
  <2>2. CASE configKeys' = Append(configKeys, k) /\ adder' = [adder EXCEPT ![k] = "listed"]
    <3>1. Len(configKeys') = Len(configKeys) + 1 BY <1>0, <2>2
    <3>2. \A i \in DOMAIN configKeys : configKeys'[i] = configKeys[i] BY <1>0, <2>2
    <3>3. \A i \in DOMAIN Configured : configKeys'[i] = Configured[i] BY <1>0, <3>2 DEF KeysInv
    <3>4. \A j \in Added : adder'[j] = "registered" => adder[j] = "registered"
      BY <2>2 DEF TypeInv, ClientTypeOK
    <3> QED BY <1>0, <1>u, <2>1, <3>1, <3>3, <3>4 DEF KeysInv
  <2>3. CASE Register(k) /\ adder' = [adder EXCEPT ![k] = "registered"] /\ UNCHANGED configKeys
    <3>1. Usable(k)'
      <4>1. k \in AllKeys /\ k \in modelIndex' BY <1>0, <2>3 DEF Register
      <4>2. Len(states'[k]) = Len(states[k]) + 1 /\ Len(states[k]) \in Nat
        BY <2>3, <4>1, RegisterType, LenIsNat DEF TypeInv, ClientTypeOK
      <4>3. states'[k] # <<>> BY <4>2
      <4> QED BY <4>1, <4>3 DEF Usable, Registered
    <3>2. \A j \in Added \ {k} : adder'[j] = "registered" => adder[j] = "registered"
      BY <2>3 DEF TypeInv, ClientTypeOK
    <3> QED BY <1>0, <1>u, <2>1, <2>3, <3>1, <3>2 DEF KeysInv
  <2> QED BY <1>4, <2>2, <2>3 DEF AddKey
<1>5. ASSUME \/ Shutdown \/ UNCHANGED vars
             \/ (\E j \in AllKeys : \E gen \in DOMAIN states[j] : Refill(j, gen))
             \/ \E t \in Threads : Chunk(t) \/ Receive(t) \/ CloseStream(t)
      PROVE  KeysInv'
  <2>1. UNCHANGED <<initialized, configKeys, adder, made, pos, pc>>
    BY <1>5 DEF Shutdown, vars, Refill, Chunk, Receive, CloseStream, limiterVars, callVars
  <2> QED BY <1>0, <1>u, <2>1 DEF KeysInv
<1> QED BY <1>1, <1>2, <1>3, <1>4, <1>5 DEF Next, Run


-----------------------------------------------------------------------------
(* No stream has been asked for yet.                                        *)
LEMMA StreamInit == Init => StreamInv
BY DEF Init, StreamInv

(* Until its thread is done a stream's queue is changed by chunks only, and *)
(* its consumer cannot have been told that it is over.                      *)
LEMMA KeepsStreams ==
    ASSUME TypeInv, NEW t \in Threads,
           \/ EnsureInitialized(t) \/ NestedTimeout(t) \/ Submit(t)
           \/ Look(t) \/ Peek(t) \/ Take(t) \/ Wait(t) \/ TimerFires(t)
           \/ GiveUp(t) \/ SelectKey(t) \/ Wake(t) \/ Ask(t) \/ AskTokens(t) \/ DebitRpm(t)
           \/ DebitTpm(t) \/ Release(t) \/ FindWaiter(t) \/ HandOver(t)
           \/ ProviderEnds(t)
    PROVE  /\ UNCHANGED <<kind, produced, received, chunkQueue>>
           /\ pc[t] # "idle" /\ caller'[t] \in {caller[t], "heard"}
           /\ \A u \in Threads \ {t} : /\ pc'[u] = pc[u] /\ outcome'[u] = outcome[u]
                                      /\ caller'[u] = caller[u]
<1>0. /\ pc \in [Threads -> Places] /\ outcome \in [Threads -> Outcomes]
      /\ DOMAIN caller = Threads
      /\ caller \in [Threads -> {"idle", "waiting", "heard", "ended", "raised", "closed"}]
  BY DEF TypeInv, ClientTypeOK
<1>1. CASE EnsureInitialized(t) BY <1>0, <1>1 DEF EnsureInitialized, Goto, callVars, streamVars
<1>2. CASE NestedTimeout(t) BY <1>0, <1>2 DEF NestedTimeout, Moves, Goto, callVars, streamVars
<1>3. CASE Submit(t) BY <1>0, <1>3 DEF Submit, Goto, End, callVars, streamVars
<1>4. CASE Look(t) BY <1>0, <1>4 DEF Look, Goto, callVars, streamVars
<1>5. CASE Peek(t) BY <1>0, <1>5 DEF Peek, Goto, callVars, streamVars
<1>6. CASE Take(t) BY <1>0, <1>6 DEF Take, Moves, Goto, callVars, streamVars
<1>7. CASE Wait(t) BY <1>0, <1>7 DEF Wait, Goto, End, callVars, streamVars
<1>8. CASE TimerFires(t) BY <1>0, <1>8 DEF TimerFires, Goto, callVars, streamVars
<1>9. CASE GiveUp(t) BY <1>0, <1>9 DEF GiveUp, Goto, End, callVars, streamVars
<1>10. CASE SelectKey(t) BY <1>0, <1>10 DEF SelectKey, Goto, callVars, streamVars
<1>10w. CASE Wake(t) BY <1>0, <1>10w DEF Wake, Goto, callVars, streamVars
<1>11. CASE Ask(t) BY <1>0, <1>11 DEF Ask, Goto, callVars, streamVars
<1>11t. CASE AskTokens(t) BY <1>0, <1>11t DEF AskTokens, Goto, callVars, streamVars
<1>12. CASE DebitRpm(t) BY <1>0, <1>12 DEF DebitRpm, Debit, Moves, Goto, callVars, streamVars
<1>13. CASE DebitTpm(t) BY <1>0, <1>13 DEF DebitTpm, Debit, Moves, Goto, callVars, streamVars
<1>14. CASE Release(t) BY <1>0, <1>14 DEF Release, Moves, Goto, callVars, streamVars
<1>15. CASE FindWaiter(t) BY <1>0, <1>15 DEF FindWaiter, Goto, callVars, streamVars
<1>16. CASE HandOver(t) BY <1>0, <1>16 DEF HandOver, Goto, End, callVars, streamVars
<1>17. CASE ProviderEnds(t) BY <1>0, <1>17 DEF ProviderEnds, Moves, Goto, callVars, streamVars
<1> QED BY <1>1, <1>2, <1>3, <1>4, <1>5, <1>6, <1>7, <1>8, <1>9, <1>10, <1>10w, <1>11, <1>11t, <1>12, <1>13, <1>14, <1>15, <1>16, <1>17

(* StreamInv is inductive: every chunk put is in the queue or received, in  *)
(* order, and nothing is put behind the last item.                          *)
LEMMA StreamStep == TypeInv /\ StreamInv /\ [Next]_vars => StreamInv'
<1> SUFFICES ASSUME TypeInv, StreamInv, [Next]_vars PROVE StreamInv' OBVIOUS
<1> DEFINE Mine(t) == <<kind[t], produced[t], received[t], chunkQueue[t], pc[t], outcome[t], caller[t]>>
<1>0. /\ pc \in [Threads -> Places] /\ outcome \in [Threads -> Outcomes]
      /\ caller \in [Threads -> {"idle", "waiting", "heard", "ended", "raised", "closed"}]
      /\ produced \in [Threads -> 0..MaxChunks] /\ received \in [Threads -> Nat]
      /\ chunkQueue \in [Threads -> Seq(Items)] /\ kind \in [Threads -> AllKinds]
      /\ made \in [Threads -> Nat] /\ MaxChunks \in Nat
  BY ClientAssumption DEF TypeInv, ClientTypeOK, Items
<1>k. \A u \in Threads : Mine(u)' = Mine(u) /\ StreamOK(u) => StreamOK(u)'
  BY DEF StreamOK, InQueue
<1>o. ASSUME NEW t \in Threads, \A u \in Threads \ {t} : Mine(u)' = Mine(u),
             kind'[t] = "stream" => StreamOK(t)'
      PROVE  StreamInv'
  BY <1>k, <1>o DEF StreamInv
<1>1. ASSUME NEW t \in Threads,
             \/ EnsureInitialized(t) \/ NestedTimeout(t) \/ Submit(t)
             \/ Look(t) \/ Peek(t) \/ Take(t) \/ Wait(t) \/ TimerFires(t)
             \/ GiveUp(t) \/ SelectKey(t) \/ Wake(t) \/ Ask(t) \/ AskTokens(t) \/ DebitRpm(t)
             \/ DebitTpm(t) \/ Release(t) \/ FindWaiter(t) \/ HandOver(t)
             \/ ProviderEnds(t)
      PROVE  StreamInv'
  <2>1. /\ UNCHANGED <<kind, produced, received, chunkQueue>>
        /\ pc[t] # "idle" /\ caller'[t] \in {caller[t], "heard"}
        /\ \A u \in Threads \ {t} : /\ pc'[u] = pc[u] /\ outcome'[u] = outcome[u]
                                   /\ caller'[u] = caller[u]
    BY <1>1, KeepsStreams
  <2>2. kind'[t] = "stream" => StreamOK(t)' BY <2>1 DEF StreamInv, StreamOK, InQueue
  <2> QED BY <1>o, <2>1, <2>2
<1>2. ASSUME NEW t \in Threads, Call(t) PROVE StreamInv'
  <2>1. \A u \in Threads \ {t} : Mine(u)' = Mine(u) BY <1>0, <1>2 DEF Call, Goto
  <2>2. produced'[t] = 0 /\ received'[t] = 0 /\ chunkQueue'[t] = <<>> /\ caller'[t] = "waiting"
    BY <1>0, <1>2 DEF Call
  <2>3. StreamOK(t)' BY <2>2 DEF StreamOK, InQueue
  <2> QED BY <1>o, <2>1, <2>3
<1>3. ASSUME NEW t \in Threads, Conclude(t) PROVE StreamInv'
  <2>1. \A u \in Threads \ {t} : Mine(u)' = Mine(u)
    BY <1>0, <1>3 DEF Conclude, Moves, Goto, callVars
  <2>2. pc[t] = "ending" /\ pc'[t] = "idle" /\ UNCHANGED <<kind, produced, received>>
    BY <1>0, <1>3 DEF Conclude, Moves, Goto, callVars
  <2>3. CASE kind[t] = "stream"
    <3> DEFINE q == chunkQueue[t]
               n == InQueue(t)
               last == LastItem(outcome[t])
    <3>1. chunkQueue'[t] = q \o last /\ UNCHANGED <<caller, outcome>>
      BY <1>0, <1>3, <2>3 DEF Conclude
    <3>2. /\ n \in Nat /\ Len(q) = n /\ q \in Seq(Items)
          /\ \A i \in 1..n : q[i] = "chunk"
          /\ caller[t] \notin {"ended", "raised"}
      BY <1>0, <2>2, <2>3 DEF StreamInv, StreamOK
    <3>3. InQueue(t)' = n BY <2>2 DEF InQueue
    <3>4. ASSUME outcome[t] = "killed" PROVE StreamOK(t)'
      <4>1. q \o last = q BY <3>2, <3>4 DEF LastItem
      <4> HIDE DEF n
      <4> QED BY <2>2, <3>1, <3>2, <3>3, <4>1 DEF StreamOK
    <3>5. ASSUME outcome[t] # "killed" PROVE StreamOK(t)'
      <4> DEFINE item == IF outcome[t] = "answered" THEN "end" ELSE "error"
      <4>1. last = <<item>> /\ item \in Items BY <3>5 DEF LastItem, Items
      <4>2. q \o last = Append(q, item) BY <3>2, <4>1
      <4>3. Len(Append(q, item)) = n + 1 /\ Append(q, item)[n + 1] = item
            /\ \A i \in 1..n : Append(q, item)[i] = "chunk"
        BY <3>2, <4>1
      <4>4. item \in {"end", "error"} /\ (item = "end" <=> outcome[t] = "answered") OBVIOUS
      <4> HIDE DEF item, last, n
      <4>5. chunkQueue'[t] = Append(q, item) BY <3>1, <4>2
      <4>6. /\ Len(chunkQueue'[t]) = n + 1 /\ chunkQueue'[t][n + 1] = item
            /\ \A i \in 1..n : chunkQueue'[t][i] = "chunk"
        BY <4>3, <4>5
      <4>7. UNCHANGED <<caller, outcome>> BY <3>1
      <4> HIDE DEF q
      <4> QED BY <2>2, <3>2, <3>3, <4>4, <4>6, <4>7 DEF StreamOK
    <3> QED BY <1>o, <2>1, <3>4, <3>5
  <2>4. CASE kind[t] # "stream" BY <1>o, <2>1, <2>2, <2>4
  <2> QED BY <2>3, <2>4
<1>4. ASSUME NEW t \in Threads, Chunk(t) PROVE StreamInv'
  <2> DEFINE q == chunkQueue[t]
             n == InQueue(t)
  <2>1. \A u \in Threads \ {t} : Mine(u)' = Mine(u) BY <1>0, <1>4 DEF Chunk, callVars
  <2>2. /\ pc[t] = "calling" /\ kind[t] = "stream" /\ chunkQueue'[t] = Append(q, "chunk")
        /\ produced'[t] = produced[t] + 1 /\ UNCHANGED <<pc, caller, outcome, received>>
    BY <1>0, <1>4 DEF Chunk
  <2>3. /\ n \in Nat /\ Len(q) = n /\ q \in Seq(Items) /\ \A i \in 1..n : q[i] = "chunk"
        /\ caller[t] \notin {"ended", "raised"}
    BY <1>0, <2>2 DEF StreamInv, StreamOK
  <2>4. InQueue(t)' = n + 1 BY <1>0, <2>2 DEF InQueue
  <2>5. /\ Len(Append(q, "chunk")) = n + 1
        /\ \A i \in 1..n + 1 : Append(q, "chunk")[i] = "chunk"
    BY <2>3
  <2> HIDE DEF n
  <2>6. StreamOK(t)' BY <2>2, <2>3, <2>4, <2>5 DEF StreamOK
  <2> QED BY <1>o, <2>1, <2>6
<1>5. ASSUME NEW t \in Threads, Receive(t) PROVE StreamInv'
  <2> DEFINE q == chunkQueue[t]
             n == InQueue(t)
  <2>1. \A u \in Threads \ {t} : Mine(u)' = Mine(u) BY <1>0, <1>5 DEF Receive, callVars
  <2>2. /\ kind[t] = "stream" /\ caller[t] = "waiting" /\ q # <<>> /\ chunkQueue'[t] = Tail(q)
        /\ UNCHANGED <<pc, outcome, produced>>
    BY <1>0, <1>5 DEF Receive, Reading
  <2>3. q \in Seq(Items) /\ Len(q) > 0 /\ Head(q) = q[1] /\ Len(Tail(q)) = Len(q) - 1
        /\ \A i \in 1..Len(q) - 1 : Tail(q)[i] = q[i + 1]
    BY <1>0, <2>2
  <2>4. /\ n \in Nat /\ \A i \in 1..n : q[i] = "chunk"
        /\ \/ Len(q) = n
           \/ /\ Len(q) = n + 1 /\ pc[t] = "idle" /\ q[n + 1] \in {"end", "error"}
              /\ q[n + 1] = "end" <=> outcome[t] = "answered"
    BY <2>2 DEF StreamInv, StreamOK
  <2>5. CASE q[1] = "chunk"
    <3>1. received'[t] = received[t] + 1 /\ UNCHANGED caller
      BY <1>0, <1>5, <2>3, <2>5 DEF Receive
    <3>2. InQueue(t)' = n - 1 BY <1>0, <2>2, <3>1 DEF InQueue
    <3>3. n > 0 BY <2>3, <2>4, <2>5
    <3> HIDE DEF n
    <3>4. StreamOK(t)' BY <2>2, <2>3, <2>4, <3>1, <3>2, <3>3 DEF StreamOK
    <3> QED BY <1>o, <2>1, <3>4
  <2>6. CASE q[1] # "chunk"
    <3>1. caller'[t] = (IF q[1] = "end" THEN "ended" ELSE "raised") /\ UNCHANGED received
      BY <1>0, <1>5, <2>3, <2>6 DEF Receive
    <3>2. InQueue(t)' = n BY <2>2, <3>1 DEF InQueue
    <3>3. n = 0 BY <2>3, <2>4, <2>6
    <3>4. Len(q) = 1 /\ pc[t] = "idle" /\ q[1] \in {"end", "error"}
          /\ (q[1] = "end" <=> outcome[t] = "answered")
      BY <2>3, <2>4, <3>3
    <3> HIDE DEF n
    <3>5. StreamOK(t)' BY <2>2, <2>3, <3>1, <3>2, <3>3, <3>4 DEF StreamOK
    <3> QED BY <1>o, <2>1, <3>5
  <2> QED BY <2>5, <2>6
<1>6. ASSUME NEW t \in Threads, CloseStream(t) PROVE StreamInv'
  <2>1. \A u \in Threads \ {t} : Mine(u)' = Mine(u) BY <1>0, <1>6 DEF CloseStream, callVars, streamVars
  <2>2. caller'[t] = "closed" /\ UNCHANGED <<kind, pc, outcome, produced, received, chunkQueue>>
    BY <1>0, <1>6 DEF CloseStream, callVars, streamVars
  <2>3. kind'[t] = "stream" => StreamOK(t)' BY <2>2 DEF StreamInv, StreamOK, InQueue
  <2> QED BY <1>o, <2>1, <2>3
<1>7. ASSUME \/ Shutdown \/ UNCHANGED vars \/ (\E k \in Added : AddKey(k))
             \/ (\E k \in AllKeys : \E gen \in DOMAIN states[k] : Refill(k, gen))
      PROVE  StreamInv'
  <2>1. \A u \in Threads : Mine(u)' = Mine(u)
    BY <1>7 DEF Shutdown, vars, AddKey, Refill, callVars, streamVars
  <2> QED BY <1>k, <2>1 DEF StreamInv
<1> QED BY <1>1, <1>2, <1>3, <1>4, <1>5, <1>6, <1>7 DEF Next, Run


-----------------------------------------------------------------------------
(* At the start nothing is registered.                                      *)
LEMMA RegisterInit == Init => RegisterInv
<1> SUFFICES ASSUME Init PROVE RegisterInv OBVIOUS
<1>1. IsInjective(configKeys) /\ ToSet(configKeys) \cap Added = {}
  BY ClientAssumption DEF Init
<1>2. ASSUME NEW k \in AllKeys PROVE Len(states[k]) <= Cardinality(Registrars(k)) + ByAddKey(k)
  <2>1. Registrars(k) \in SUBSET Threads BY DEF Registrars
  <2>2. Cardinality(Registrars(k)) \in Nat BY <2>1, ClientAssumption, FS_Subset, FS_CardinalityType
  <2>3. Len(states[k]) = 0 BY DEF Init
  <2> QED BY <2>2, <2>3 DEF ByAddKey
<1> QED BY <1>1, <1>2 DEF RegisterInv

(* A set of threads that only grows, and gains one thread for certain.      *)
LEMMA Gains ==
    ASSUME NEW A \in SUBSET Threads, NEW B \in SUBSET Threads, A \subseteq B
    PROVE  /\ Cardinality(A) \in Nat /\ Cardinality(B) \in Nat
           /\ Cardinality(A) <= Cardinality(B)
           /\ \A t \in B \ A : Cardinality(A) + 1 <= Cardinality(B)
<1>1. IsFiniteSet(A) /\ IsFiniteSet(B) BY ClientAssumption, FS_Subset
<1>2. Cardinality(A) \in Nat /\ Cardinality(B) \in Nat BY <1>1, FS_CardinalityType
<1>3. Cardinality(A) <= Cardinality(B) BY <1>1, FS_Subset
<1>4. ASSUME NEW t \in B \ A PROVE Cardinality(A) + 1 <= Cardinality(B)
  <2>1. Cardinality(A \cup {t}) = Cardinality(A) + 1 BY <1>1, <1>4, FS_AddElement
  <2>2. A \cup {t} \subseteq B BY <1>4
  <2> QED BY <1>1, <2>1, <2>2, FS_Subset
<1> QED BY <1>2, <1>3, <1>4

(* Who has registered a key once counts as having done so from then on.     *)
LEMMA RegistrarsGrow ==
    ASSUME TypeInv, TypeInv', KeysInv, [Next]_vars, NEW k \in AllKeys
    PROVE  /\ Registrars(k) \in SUBSET Threads /\ Registrars(k)' \in SUBSET Threads
           /\ Registrars(k) \subseteq Registrars(k)'
<1>0. /\ pc \in [Threads -> Places] /\ made \in [Threads -> Nat]
      /\ pos \in [Threads -> Nat \ {0}] /\ configKeys \in Seq(AllKeys)
      /\ Added \subseteq AllKeys
  BY DEF TypeInv, ClientTypeOK, AllKeys
<1> HIDE DEF AllKeys
<1>1. Registrars(k) \in SUBSET Threads /\ Registrars(k)' \in SUBSET Threads BY DEF Registrars
<1>k. ASSUME NEW t \in Threads, t \in Registrars(k), UNCHANGED <<made, configKeys>>,
             pc'[t] = pc[t], pos'[t] >= pos[t]
      PROVE  t \in Registrars(k)'
  <2>0. pos'[t] \in Nat /\ pos[t] \in Nat BY DEF TypeInv
  <2>1. Passed(t, k) => Passed(t, k)' BY <1>0, <1>k, <2>0 DEF Passed
  <2> QED BY <1>k, <2>1 DEF Registrars
<1>2. ASSUME NEW t \in Threads,
             \/ NestedTimeout(t) \/ Submit(t) \/ Look(t) \/ Peek(t)
             \/ Take(t) \/ Wait(t) \/ TimerFires(t) \/ GiveUp(t)
             \/ SelectKey(t) \/ Wake(t) \/ Ask(t) \/ AskTokens(t) \/ DebitRpm(t) \/ DebitTpm(t)
             \/ Release(t) \/ FindWaiter(t) \/ HandOver(t) \/ Conclude(t)
             \/ ProviderEnds(t)
      PROVE  Registrars(k) \subseteq Registrars(k)'
  <2>1. /\ UNCHANGED <<configKeys, made, pos>> /\ pc'[t] # "registering"
        /\ \A u \in Threads \ {t} : pc'[u] = pc[u]
    BY <1>2, KeepsKeys
  <2>2. t \in Registrars(k) => t \in Registrars(k)' BY <2>1 DEF Registrars
  <2>3. \A u \in Threads \ {t} : u \in Registrars(k) => u \in Registrars(k)'
    BY <2>1 DEF Registrars, Passed
  <2> QED BY <1>1, <2>2, <2>3
<1>3. ASSUME NEW t \in Threads, Call(t) PROVE Registrars(k) \subseteq Registrars(k)'
  <2>1. /\ UNCHANGED <<initialized, configKeys, pos>> /\ pc[t] = "idle"
        /\ made'[t] = made[t] + 1 /\ (initialized => pc'[t] # "registering")
        /\ \A u \in Threads \ {t} : pc'[u] = pc[u] /\ made'[u] = made[u]
    BY <1>0, <1>3 DEF Call, Goto, limiterVars
  <2>2. t \in Registrars(k) => t \in Registrars(k)'
    <3>1. made[t] > 0 => initialized BY <2>1 DEF KeysInv
    <3> QED BY <1>0, <2>1, <3>1 DEF Registrars
  <2>3. \A u \in Threads \ {t} : u \in Registrars(k) => u \in Registrars(k)'
    BY <2>1 DEF Registrars, Passed
  <2> QED BY <1>1, <2>2, <2>3
<1>4. ASSUME NEW t \in Threads, EnsureInitialized(t)
      PROVE  Registrars(k) \subseteq Registrars(k)'
  <2>1. UNCHANGED <<configKeys, made>> /\ pc[t] = "registering"
    BY <1>4 DEF EnsureInitialized, callVars
  <2>2. \A u \in Threads \ {t} : pc'[u] = pc[u] /\ pos'[u] = pos[u]
    BY <1>0, <1>4 DEF EnsureInitialized, Goto
  <2>3. pc'[t] # "registering" \/ (pc'[t] = pc[t] /\ pos'[t] = pos[t] + 1)
    BY <1>0, <1>4 DEF EnsureInitialized, Goto
  <2>4. t \in Registrars(k) => t \in Registrars(k)'
    <3>1. CASE pc'[t] # "registering" BY <2>1, <3>1 DEF Registrars
    <3>2. CASE pc'[t] = pc[t] /\ pos'[t] = pos[t] + 1
      <4>1. pos'[t] >= pos[t] BY <1>0, <3>2
      <4> QED BY <1>k, <2>1, <3>2, <4>1
    <3> QED BY <2>3, <3>1, <3>2
  <2>5. \A u \in Threads \ {t} : u \in Registrars(k) => u \in Registrars(k)'
    BY <2>1, <2>2 DEF Registrars, Passed
  <2> QED BY <1>1, <2>4, <2>5
<1>5. ASSUME NEW j \in Added, AddKey(j) PROVE Registrars(k) \subseteq Registrars(k)'
  <2>1. UNCHANGED <<made, pos, pc>> BY <1>5 DEF AddKey, callVars
  <2>2. \A i \in DOMAIN configKeys : i \in DOMAIN configKeys' /\ configKeys'[i] = configKeys[i]
    <3>1. configKeys' \in {configKeys, Append(configKeys, j)} BY <1>5 DEF AddKey
    <3>2. j \in AllKeys BY <1>0
    <3>3. CASE configKeys' = configKeys BY <3>3
    <3>4. CASE configKeys' = Append(configKeys, j) BY <1>0, <3>2, <3>4
    <3> QED BY <3>1, <3>3, <3>4
  <2>3. \A t \in Threads : Passed(t, k) => Passed(t, k)' BY <2>1, <2>2 DEF Passed
  <2> QED BY <2>1, <2>3 DEF Registrars
<1>6. ASSUME \/ Shutdown \/ UNCHANGED vars
             \/ (\E j \in AllKeys : \E gen \in DOMAIN states[j] : Refill(j, gen))
             \/ \E t \in Threads : Chunk(t) \/ Receive(t) \/ CloseStream(t)
      PROVE  Registrars(k) \subseteq Registrars(k)'
  <2>1. UNCHANGED <<configKeys, made, pos, pc>>
    BY <1>6 DEF Shutdown, vars, Refill, Chunk, Receive, CloseStream, limiterVars, callVars
  <2> QED BY <2>1 DEF Registrars, Passed
<1> QED BY <1>1, <1>2, <1>3, <1>4, <1>5, <1>6 DEF Next, Run

(* A walker passes each key once, for the list names no key twice.          *)
LEMMA RegisterStep == TypeInv /\ TypeInv' /\ KeysInv /\ RegisterInv /\ [Next]_vars => RegisterInv'
<1> SUFFICES ASSUME TypeInv, TypeInv', KeysInv, RegisterInv, [Next]_vars PROVE RegisterInv'
  OBVIOUS
<1>0. /\ pc \in [Threads -> Places] /\ made \in [Threads -> Nat]
      /\ pos \in [Threads -> Nat \ {0}] /\ configKeys \in Seq(AllKeys)
      /\ Added \subseteq AllKeys /\ adder \in [Added -> {"idle", "listed", "registered"}]
      /\ \A k \in AllKeys : Len(states[k]) \in Nat
  BY LenIsNat DEF TypeInv, ClientTypeOK, AllKeys
<1> HIDE DEF AllKeys
<1>g. ASSUME NEW k \in AllKeys
      PROVE  /\ Cardinality(Registrars(k)) \in Nat /\ Cardinality(Registrars(k)') \in Nat
             /\ Cardinality(Registrars(k)) <= Cardinality(Registrars(k)')
             /\ \A t \in Registrars(k)' \ Registrars(k) :
                   Cardinality(Registrars(k)) + 1 <= Cardinality(Registrars(k)')
  BY RegistrarsGrow, Gains
<1>s. ASSUME UNCHANGED <<configKeys, adder, states>> PROVE RegisterInv'
  <2>1. \A k \in AllKeys : ByAddKey(k)' = ByAddKey(k) /\ ByAddKey(k) \in Nat BY <1>s DEF ByAddKey
  <2>2. \A k \in AllKeys : Len(states'[k]) <= Cardinality(Registrars(k)') + ByAddKey(k)'
    BY <1>0, <1>g, <1>s, <2>1 DEF RegisterInv
  <2> QED BY <1>s, <2>2 DEF RegisterInv
<1>l. ASSUME UNCHANGED <<configKeys, adder>>, \A k \in AllKeys : Len(states'[k]) = Len(states[k])
      PROVE  RegisterInv'
  <2>3. \A k \in AllKeys : ByAddKey(k)' = ByAddKey(k) /\ ByAddKey(k) \in Nat BY <1>l DEF ByAddKey
  <2>4. \A k \in AllKeys : Len(states'[k]) <= Cardinality(Registrars(k)') + ByAddKey(k)'
    BY <1>0, <1>g, <1>l, <2>3 DEF RegisterInv
  <2> QED BY <1>l, <2>4 DEF RegisterInv
<1>1. ASSUME NEW t \in Threads, DebitRpm(t) \/ DebitTpm(t) PROVE RegisterInv'
  <2>1. UNCHANGED <<configKeys, adder>> BY <1>1 DEF DebitRpm, DebitTpm, Debit
  <2>2. CASE DebitRpm(t) BY <1>l, <2>1, <2>2, DebitType DEF DebitRpm
  <2>3. CASE DebitTpm(t) BY <1>l, <2>1, <2>3, DebitType, ClientAssumption DEF DebitTpm
  <2> QED BY <1>1, <2>2, <2>3
<1>6. ASSUME NEW k \in AllKeys, NEW gen \in DOMAIN states[k], Refill(k, gen) PROVE RegisterInv'
  BY <1>l, <1>6, RefillEffect DEF Refill
<1>2. ASSUME NEW t \in Threads, EnsureInitialized(t) PROVE RegisterInv'
  <2>1. UNCHANGED <<configKeys, adder, made>> /\ pc[t] = "registering"
    BY <1>2 DEF EnsureInitialized, callVars
  <2>2. CASE UNCHANGED states BY <1>s, <2>1, <2>2
  <2>3. CASE /\ pos[t] <= Len(configKeys) /\ Register(configKeys[pos[t]])
             /\ pos' = [pos EXCEPT ![t] = @ + 1] /\ UNCHANGED <<pc, initialized>>
    <3>1. pos[t] \in DOMAIN configKeys /\ configKeys[pos[t]] \in AllKeys BY <1>0, <2>3
    <3>2. PICK k \in AllKeys : k = configKeys[pos[t]] BY <3>1
    <3>3. Len(states'[k]) = Len(states[k]) + 1 /\ \A j \in AllKeys : j # k => states'[j] = states[j]
      BY <2>3, <3>2, RegisterType
    <3>4. t \notin Registrars(k)
      <4>1. ~ Passed(t, k)
        <5> SUFFICES ASSUME NEW i \in DOMAIN configKeys, i < pos[t], configKeys[i] = k PROVE FALSE
          BY DEF Passed
        <5>1. i = pos[t] BY <3>1, <3>2 DEF RegisterInv, IsInjective
        <5> QED BY <1>0, <5>1
      <4> QED BY <2>1, <4>1 DEF Registrars
    <3>5. t \in Registrars(k)'
      <4>1. made'[t] > 0 BY <1>0, <2>1 DEF KeysInv
      <4>2. Passed(t, k)' BY <1>0, <2>1, <2>3, <3>1, <3>2 DEF Passed
      <4> QED BY <4>1, <4>2 DEF Registrars
    <3>6. \A j \in AllKeys : ByAddKey(j)' = ByAddKey(j) /\ ByAddKey(j) \in Nat BY <2>1 DEF ByAddKey
    <3>7. Len(states'[k]) <= Cardinality(Registrars(k)') + ByAddKey(k)'
      BY <1>0, <1>g, <3>3, <3>4, <3>5, <3>6 DEF RegisterInv
    <3>8. ASSUME NEW j \in AllKeys \ {k}
          PROVE  Len(states'[j]) <= Cardinality(Registrars(j)') + ByAddKey(j)'
      <4>1. /\ Cardinality(Registrars(j)) \in Nat /\ Cardinality(Registrars(j)') \in Nat
            /\ Cardinality(Registrars(j)) <= Cardinality(Registrars(j)')
        BY <1>g
      <4>2. Len(states'[j]) = Len(states[j]) /\ Len(states[j]) \in Nat BY <1>0, <3>3, <3>6
      <4>3. ByAddKey(j)' = ByAddKey(j) /\ ByAddKey(j) \in Nat BY <3>3, <3>6
      <4>4. Len(states[j]) <= Cardinality(Registrars(j)) + ByAddKey(j) BY DEF RegisterInv
      <4> QED BY <4>1, <4>2, <4>3, <4>4
    <3> QED BY <2>1, <3>7, <3>8 DEF RegisterInv
  <2> QED BY <1>2, <2>2, <2>3 DEF EnsureInitialized
<1>3. ASSUME NEW k \in Added, AddKey(k) PROVE RegisterInv'
  <2>0. k \in AllKeys BY <1>0
  <2>1. CASE /\ adder[k] = "idle" /\ configKeys' = Append(configKeys, k)
             /\ adder' = [adder EXCEPT ![k] = "listed"] /\ UNCHANGED states
    <3>1. k \notin ToSet(configKeys) BY <2>1 DEF RegisterInv
    <3>2. /\ Len(configKeys) \in Nat /\ DOMAIN configKeys = 1..Len(configKeys)
          /\ DOMAIN configKeys' = 1..(Len(configKeys) + 1)
          /\ configKeys'[Len(configKeys) + 1] = k
          /\ \A i \in DOMAIN configKeys : configKeys'[i] = configKeys[i]
      BY <1>0, <2>0, <2>1
    <3>3. \A i \in DOMAIN configKeys : configKeys[i] # k BY <3>1 DEF ToSet
    <3>4. IsInjective(configKeys)' BY <3>2, <3>3 DEF RegisterInv, IsInjective
    <3>5. \A j \in Added : adder'[j] = "idle" => j # k /\ adder[j] = "idle" BY <1>0, <2>1
    <3>6. ToSet(configKeys)' = ToSet(configKeys) \cup {k} BY <3>2 DEF ToSet
    <3>7. \A j \in AllKeys : ByAddKey(j)' = ByAddKey(j) /\ ByAddKey(j) \in Nat
      BY <1>0, <2>1 DEF ByAddKey
    <3>8. \A j \in AllKeys : Len(states'[j]) <= Cardinality(Registrars(j)') + ByAddKey(j)'
      BY <1>0, <1>g, <2>1, <3>7 DEF RegisterInv
    <3> QED BY <3>4, <3>5, <3>6, <3>8 DEF RegisterInv
  <2>2. CASE /\ adder[k] = "listed" /\ Register(k) /\ adder' = [adder EXCEPT ![k] = "registered"]
             /\ UNCHANGED configKeys
    <3>1. Len(states'[k]) = Len(states[k]) + 1 /\ \A j \in AllKeys : j # k => states'[j] = states[j]
      BY <2>0, <2>2, RegisterType
    <3>2. ByAddKey(k) = 0 /\ ByAddKey(k)' = 1 BY <1>0, <2>2 DEF ByAddKey
    <3>3. \A j \in AllKeys \ {k} : ByAddKey(j)' = ByAddKey(j) /\ ByAddKey(j) \in Nat
      BY <1>0, <2>2 DEF ByAddKey
    <3>4. Len(states'[k]) <= Cardinality(Registrars(k)') + ByAddKey(k)'
      BY <1>0, <1>g, <2>0, <3>1, <3>2 DEF RegisterInv
    <3>5. ASSUME NEW j \in AllKeys \ {k}
          PROVE  Len(states'[j]) <= Cardinality(Registrars(j)') + ByAddKey(j)'
      <4>1. /\ Cardinality(Registrars(j)) \in Nat /\ Cardinality(Registrars(j)') \in Nat
            /\ Cardinality(Registrars(j)) <= Cardinality(Registrars(j)')
        BY <1>g
      <4>2. Len(states'[j]) = Len(states[j]) /\ Len(states[j]) \in Nat BY <1>0, <3>1, <3>3
      <4>3. ByAddKey(j)' = ByAddKey(j) /\ ByAddKey(j) \in Nat BY <3>1, <3>3
      <4>4. Len(states[j]) <= Cardinality(Registrars(j)) + ByAddKey(j) BY DEF RegisterInv
      <4> QED BY <4>1, <4>2, <4>3, <4>4
    <3>6. \A j \in Added : adder'[j] = "idle" => adder[j] = "idle" BY <1>0, <2>2
    <3> QED BY <2>2, <3>4, <3>5, <3>6 DEF RegisterInv
  <2> QED BY <1>3, <2>1, <2>2 DEF AddKey
<1>4. ASSUME NEW t \in Threads,
             \/ Call(t) \/ NestedTimeout(t) \/ Submit(t) \/ Look(t)
             \/ Peek(t) \/ Take(t) \/ Wait(t) \/ TimerFires(t) \/ GiveUp(t)
             \/ SelectKey(t) \/ Wake(t) \/ Ask(t) \/ AskTokens(t)
             \/ Release(t) \/ FindWaiter(t) \/ HandOver(t) \/ Conclude(t)
             \/ ProviderEnds(t) \/ Chunk(t) \/ Receive(t) \/ CloseStream(t)
      PROVE  RegisterInv'
  <2>1. UNCHANGED <<configKeys, adder, states>>
    BY <1>4 DEF Call, NestedTimeout, Submit, Look, Peek, Take, Wait, TimerFires, GiveUp,
       SelectKey, Wake, Ask, AskTokens, Release, FindWaiter, HandOver, Conclude, ProviderEnds, Chunk, Receive,
       CloseStream, limiterVars
  <2> QED BY <1>s, <2>1
<1>5. ASSUME Shutdown \/ UNCHANGED vars PROVE RegisterInv'
  BY <1>s, <1>5 DEF Shutdown, vars, limiterVars
<1> QED BY <1>1, <1>2, <1>3, <1>4, <1>5, <1>6 DEF Next, Run


-----------------------------------------------------------------------------
(* What a KeyState's buckets are, and the threads about to take from one.   *)
LEMMA BucketType ==
    ASSUME TypeInv, NEW k \in AllKeys, NEW gen \in DOMAIN states[k],
           NEW b \in {"rpm", "tpm"}
    PROVE  /\ states[k][gen][b].tokens \in Nat
           /\ states[k][gen][b].dried \in Nat /\ states[k][gen][b].unpaid \in Nat
<1>1. states[k] \in Seq(KeyStates) BY DEF TypeInv, ClientTypeOK
<1>2. states[k][gen] \in KeyStates BY <1>1
<1>3. states[k][gen].rpm \in Buckets(RpmLimit) /\ states[k][gen].tpm \in Buckets(TpmLimit)
  BY <1>2 DEF KeyStates
<1> QED BY <1>3, ClientAssumption DEF Buckets

LEMMA HeadingType ==
    ASSUME NEW b, NEW k, NEW gen
    PROVE  /\ Heading(b, k, gen) \in SUBSET Threads /\ Heading(b, k, gen)' \in SUBSET Threads
           /\ Cardinality(Heading(b, k, gen)) \in Nat /\ Cardinality(Heading(b, k, gen)') \in Nat
           /\ Cardinality(Threads) \in Nat /\ Need(b) \in Nat \ {0}
<1>1. Heading(b, k, gen) \in SUBSET Threads /\ Heading(b, k, gen)' \in SUBSET Threads
  BY DEF Heading
<1>2. Need(b) \in Nat \ {0} BY ClientAssumption DEF Need
<1> HIDE DEF Heading
<1>3. Threads \in SUBSET Threads OBVIOUS
<1> QED BY <1>1, <1>2, <1>3, Gains

(* At the start no key is registered.                                       *)
LEMMA UnpaidInit == Init => UnpaidInv
BY DEF Init, UnpaidInv

(* A bucket that refuses and gives as before holds its bound, as long as    *)
(* nobody joins those it can refuse.                                        *)
LEMMA UnpaidKept ==
    ASSUME TypeInv, NEW k \in AllKeys, NEW gen \in DOMAIN states[k],
           NEW b \in {"rpm", "tpm"}, UnpaidOK(b, k, gen),
           states'[k][gen][b].unpaid = states[k][gen][b].unpaid,
           states'[k][gen][b].dried = states[k][gen][b].dried,
           states'[k][gen][b].tokens \in Nat,
           states[k][gen][b].tokens <= states'[k][gen][b].tokens,
           \/ Heading(b, k, gen)' \subseteq Heading(b, k, gen)
           \/ states'[k][gen][b].tokens >= Need(b)
    PROVE  UnpaidOK(b, k, gen)'
<1> DEFINE h == Cardinality(Heading(b, k, gen))
           g == Cardinality(Heading(b, k, gen)')
           bound == Others * states[k][gen][b].dried
<1>1. /\ states[k][gen][b].tokens \in Nat /\ states[k][gen][b].unpaid \in Nat
      /\ h \in Nat /\ g \in Nat /\ Need(b) \in Nat
      /\ Others \in Int /\ states[k][gen][b].dried \in Nat
  BY BucketType, HeadingType DEF Others
<1>2. CASE states'[k][gen][b].tokens >= Need(b)
  <2>1. Refusable(b, k, gen)' = 0 BY <1>1, <1>2 DEF Refusable, Need
  <2>2. Refusable(b, k, gen) \in Nat BY <1>1 DEF Refusable
  <2>3. bound \in Int BY <1>1
  <2>4. states[k][gen][b].unpaid + Refusable(b, k, gen) <= bound BY DEF UnpaidOK
  <2>5. (Others * states[k][gen][b].dried)' = bound BY DEF Others
  <2> HIDE DEF bound
  <2>6. states'[k][gen][b].unpaid + Refusable(b, k, gen)' <= bound BY <1>1, <2>1, <2>2, <2>3, <2>4
  <2> QED BY <2>5, <2>6 DEF UnpaidOK
<1>3. CASE ~ (states'[k][gen][b].tokens >= Need(b))
  <2>1. g <= h
    <3>1. Heading(b, k, gen)' \subseteq Heading(b, k, gen) BY <1>3
    <3> HIDE DEF Heading
    <3> QED BY <3>1, HeadingType, Gains
  <2>2. Refusable(b, k, gen)' = g /\ Refusable(b, k, gen) = h BY <1>1, <1>3 DEF Refusable, Need
  <2>3. bound \in Int BY <1>1
  <2>4. states[k][gen][b].unpaid + h <= bound BY <2>2 DEF UnpaidOK
  <2>5. (Others * states[k][gen][b].dried)' = bound BY DEF Others
  <2> HIDE DEF bound, h, g
  <2>6. states'[k][gen][b].unpaid + Refusable(b, k, gen)' <= bound BY <1>1, <2>1, <2>2, <2>3, <2>4
  <2> QED BY <2>5, <2>6 DEF UnpaidOK
<1> QED BY <1>2, <1>3

(* A bucket that has just given or refused: when it refuses, the refused    *)
(* thread is one of those it could refuse; when it is left with less than   *)
(* needed, those are now the other threads at most.                         *)
LEMMA UnpaidGiven ==
    ASSUME TypeInv, NEW k \in AllKeys, NEW gen \in DOMAIN states[k],
           NEW b \in {"rpm", "tpm"}, UnpaidOK(b, k, gen), NEW t \in Threads,
           states'[k][gen][b] = Given(states[k][gen][b], Need(b)),
           states[k][gen] \in KeyStates,
           t \in Heading(b, k, gen), Heading(b, k, gen)' = Heading(b, k, gen) \ {t}
    PROVE  UnpaidOK(b, k, gen)'
<1> DEFINE old == states[k][gen][b]
           new == states'[k][gen][b]
           h == Cardinality(Heading(b, k, gen))
           g == Cardinality(Heading(b, k, gen)')
           left == old.tokens - Need(b)
           n == Cardinality(Threads)
<1>1. /\ old.tokens \in Nat /\ old.unpaid \in Nat /\ old.dried \in Nat
      /\ h \in Nat /\ g \in Nat /\ Need(b) \in Nat \ {0} /\ n \in Nat
  BY BucketType, HeadingType
<1>2. g = h - 1 /\ h <= n
  <2>1. /\ Heading(b, k, gen) \in SUBSET Threads /\ Heading(b, k, gen)' \in SUBSET Threads
        /\ Threads \in SUBSET Threads
    BY HeadingType
  <2>2. h <= n
    <3> HIDE DEF Heading
    <3> QED BY <2>1, Gains
  <2>3. g = h - 1
    <3>1. \A u \in Threads : u # t => (u \in Heading(b, k, gen) <=> u \in Heading(b, k, gen)')
      OBVIOUS
    <3>2. t \notin Heading(b, k, gen)' OBVIOUS
    <3> HIDE DEF Heading
    <3>3. g = h + OneIf(t \in Heading(b, k, gen)') - OneIf(t \in Heading(b, k, gen))
      BY <2>1, <3>1, CountOfMove
    <3> QED BY <1>1, <3>2, <3>3 DEF OneIf
  <2> QED BY <2>2, <2>3
<1>3. old \in [tokens : Nat, dried : Nat, unpaid : Nat]
  <2>1. states[k][gen].rpm \in Buckets(RpmLimit) /\ states[k][gen].tpm \in Buckets(TpmLimit)
    BY DEF KeyStates
  <2> QED BY <2>1, ClientAssumption DEF Buckets
<1>4. Others = n - 1 /\ Others' = n - 1 BY DEF Others
<1>5. (n - 1) * old.dried \in Int /\ (n - 1) * (old.dried + 1) = (n - 1) * old.dried + (n - 1)
  BY <1>1
<1>6. /\ old.unpaid + Refusable(b, k, gen) <= (n - 1) * old.dried
      /\ Refusable(b, k, gen) = IF old.tokens < Need(b) THEN h ELSE 0
  BY <1>4 DEF UnpaidOK, Refusable
<1>7. Refusable(b, k, gen)' = IF new.tokens < Need(b) THEN g ELSE 0
  BY DEF Refusable, Need
<1>8. /\ new.unpaid = IF left >= 0 THEN old.unpaid ELSE old.unpaid + 1
      /\ new.tokens = IF left >= 0 THEN left ELSE old.tokens
      /\ new.dried = IF left >= 0 /\ left < Need(b) THEN old.dried + 1 ELSE old.dried
  <2>1. new = Given(old, Need(b)) OBVIOUS
  <2> HIDE DEF old, new
  <2> QED BY <1>1, <1>3, <2>1 DEF Given
<1>9. new.unpaid + Refusable(b, k, gen)' <= (n - 1) * new.dried
  <2> HIDE DEF old, new, h, g, n
  <2>1. CASE left < 0
    <3>1. new.unpaid = old.unpaid + 1 /\ new.dried = old.dried /\ new.tokens = old.tokens
      BY <1>1, <1>8, <2>1
    <3>2. Refusable(b, k, gen) = h /\ Refusable(b, k, gen)' = g BY <1>1, <1>6, <1>7, <2>1, <3>1
    <3> QED BY <1>1, <1>2, <1>5, <1>6, <3>1, <3>2
  <2>2. CASE left >= 0 /\ left < Need(b)
    <3>1. new.unpaid = old.unpaid /\ new.dried = old.dried + 1 /\ new.tokens = left
      BY <1>1, <1>8, <2>2
    <3>2. Refusable(b, k, gen) = 0 /\ Refusable(b, k, gen)' = g BY <1>1, <1>6, <1>7, <2>2, <3>1
    <3> QED BY <1>1, <1>2, <1>5, <1>6, <3>1, <3>2
  <2>3. CASE left >= 0 /\ left >= Need(b)
    <3>1. new.unpaid = old.unpaid /\ new.dried = old.dried /\ new.tokens = left
      BY <1>1, <1>8, <2>3
    <3>2. Refusable(b, k, gen) = 0 /\ Refusable(b, k, gen)' = 0 BY <1>1, <1>6, <1>7, <2>3, <3>1
    <3> QED BY <1>1, <1>6, <3>1, <3>2
  <2> QED BY <1>1, <2>1, <2>2, <2>3
<1> QED BY <1>4, <1>9 DEF UnpaidOK

(* A step after which the buckets of no KeyState have refused or given more *)
(* and nobody has joined those one of them can refuse.                      *)
LEMMA UnpaidUnmoved ==
    ASSUME TypeInv, UnpaidInv, UNCHANGED states, NEW t \in Threads,
           \A u \in Threads \ {t} : pc'[u] = pc[u] /\ aim'[u] = aim[u],
           pc'[t] \notin {"asked", "debiting", "charging"}
    PROVE  UnpaidInv'
<1>1. \A b, k, gen : Heading(b, k, gen)' \subseteq Heading(b, k, gen)
  BY DEF Heading, Stages
<1> HIDE DEF Heading
<1> SUFFICES ASSUME NEW k \in AllKeys, NEW gen \in DOMAIN states[k], NEW b \in {"rpm", "tpm"}
             PROVE  UnpaidOK(b, k, gen)'
  BY DEF UnpaidInv
<1>2. UnpaidOK(b, k, gen) BY DEF UnpaidInv
<1>3. states[k][gen][b].tokens \in Nat BY BucketType
<1> QED BY <1>1, <1>2, <1>3, UnpaidKept

(* Time and a new KeyState leave all threads where they are.                *)
LEMMA UnpaidRegister ==
    ASSUME TypeInv, TypeInv', UnpaidInv, NEW j \in AllKeys, Register(j),
           \A b, k, gen : Heading(b, k, gen)' = Heading(b, k, gen)
    PROVE  UnpaidInv'
<1> DEFINE new == [rpm |-> FullBucket(RpmLimit), tpm |-> FullBucket(TpmLimit)]
<1>0. PICK last \in Nat : last = Len(states[j]) + 1 BY LenIsNat DEF TypeInv, ClientTypeOK
<1>1. /\ DOMAIN states'[j] = DOMAIN states[j] \cup {last}
      /\ states'[j][last] = new
      /\ \A k \in AllKeys : k # j => states'[k] = states[k]
      /\ \A k \in AllKeys : \A gen \in DOMAIN states[k] : states'[k][gen] = states[k][gen]
  BY <1>0, RegisterType
<1>2. states[j] \in Seq(KeyStates) /\ last \notin DOMAIN states[j] BY <1>0 DEF TypeInv, ClientTypeOK
<1>3. \A b : Heading(b, j, last) = {}
  <2> SUFFICES ASSUME NEW b, NEW u \in Threads, pc[u] \in Stages(b), aim[u] = <<j, last>>
               PROVE  FALSE
    BY DEF Heading
  <2>1. aim[u][2] \in DOMAIN states[aim[u][1]] BY DEF TypeInv, Knows, Stages
  <2> QED BY <1>2, <2>1
<1> HIDE DEF Heading
<1>4. ASSUME NEW b \in {"rpm", "tpm"} PROVE UnpaidOK(b, j, last)'
  <2>1. new[b].unpaid = 0 /\ new[b].dried = 0 BY DEF FullBucket
  <2> HIDE DEF new
  <2>2. Cardinality(Heading(b, j, last)') = 0 BY <1>3, FS_EmptySet
  <2>3. Refusable(b, j, last)' = 0 BY <2>2 DEF Refusable
  <2>4. Others * 0 = 0
    <3>1. Others \in Int BY HeadingType DEF Others
    <3> QED BY <3>1
  <2> QED BY <1>1, <2>1, <2>3, <2>4 DEF UnpaidOK, Others
<1>5. ASSUME NEW k \in AllKeys, NEW gen \in DOMAIN states[k], NEW b \in {"rpm", "tpm"}
      PROVE  UnpaidOK(b, k, gen)'
  <2>1. UnpaidOK(b, k, gen) BY DEF UnpaidInv
  <2>2. states[k][gen][b].tokens \in Nat /\ states'[k][gen] = states[k][gen] BY <1>1, BucketType
  <2> QED BY <2>1, <2>2, UnpaidKept
<1>6. \A k \in AllKeys : k # j => DOMAIN states'[k] = DOMAIN states[k] BY <1>1
<1> QED BY <1>1, <1>4, <1>5, <1>6 DEF UnpaidInv

LEMMA UnpaidRefill ==
    ASSUME TypeInv, TypeInv', UnpaidInv, NEW j \in AllKeys, NEW g \in DOMAIN states[j],
           Refill(j, g)
    PROVE  UnpaidInv'
<1>1. \A b, k, gen : Heading(b, k, gen)' = Heading(b, k, gen) BY DEF Refill, Heading
<1> HIDE DEF Heading
<1>2. \A k \in AllKeys : DOMAIN states'[k] = DOMAIN states[k] BY RefillEffect
<1> SUFFICES ASSUME NEW k \in AllKeys, NEW gen \in DOMAIN states[k], NEW b \in {"rpm", "tpm"}
             PROVE  UnpaidOK(b, k, gen)'
  BY <1>2 DEF UnpaidInv
<1>3. UnpaidOK(b, k, gen) BY DEF UnpaidInv
<1>4. /\ states[k][gen][b].tokens <= states'[k][gen][b].tokens
      /\ states'[k][gen][b].unpaid = states[k][gen][b].unpaid
      /\ states'[k][gen][b].dried = states[k][gen][b].dried
  <2>1. CASE <<k, gen>> = <<j, g>> BY <2>1, RefillEffect
  <2>2. CASE <<k, gen>> # <<j, g>>
    <3>1. states'[k][gen] = states[k][gen] BY <2>2, RefillEffect
    <3>2. states[k][gen][b].tokens \in Nat BY BucketType
    <3> QED BY <3>1, <3>2
  <2> QED BY <2>1, <2>2
<1>5. states'[k][gen][b].tokens \in Nat
  <2>1. states'[k] \in Seq(KeyStates) /\ gen \in DOMAIN states'[k] BY <1>2 DEF TypeInv, ClientTypeOK
  <2>2. states'[k][gen] \in KeyStates BY <2>1
  <2>3. states'[k][gen].rpm \in Buckets(RpmLimit) /\ states'[k][gen].tpm \in Buckets(TpmLimit)
    BY <2>2 DEF KeyStates
  <2> QED BY <2>3, ClientAssumption DEF Buckets
<1> QED BY <1>1, <1>3, <1>4, <1>5, UnpaidKept

(* A thread joins those about to take from a bucket only as it finds there  *)
(* what it needs.                                                           *)
LEMMA UnpaidAsk ==
    ASSUME TypeInv, UnpaidInv, NEW t \in Threads, Ask(t) \/ AskTokens(t)
    PROVE  UnpaidInv'
<1>0. pc \in [Threads -> Places] /\ aim \in [Threads -> Aims] BY DEF TypeInv, ClientTypeOK
<1>1. UNCHANGED states BY DEF Ask, AskTokens, limiterVars
<1> SUFFICES ASSUME NEW k \in AllKeys, NEW gen \in DOMAIN states[k], NEW b \in {"rpm", "tpm"}
             PROVE  UnpaidOK(b, k, gen)'
  BY <1>1 DEF UnpaidInv
<1>2. UnpaidOK(b, k, gen) /\ states[k][gen][b].tokens \in Nat BY BucketType DEF UnpaidInv
<1>3. Heading(b, k, gen)' \subseteq Heading(b, k, gen) \/ states[k][gen][b].tokens >= Need(b)
  <2>1. CASE Ask(t)
    <3>1. /\ pc[t] = "asking" /\ \A u \in Threads \ {t} : pc'[u] = pc[u] /\ aim'[u] = aim[u]
          /\ \/ pc'[t] = "calling"
             \/ /\ pc'[t] = "asked" /\ aim'[t] = <<key[t], Current(key[t])>>
                /\ State(key[t]).rpm.tokens >= 1
      BY <1>0, <2>1 DEF Ask, Goto
    <3>2. CASE pc'[t] = "asked" /\ aim'[t] = <<k, gen>> /\ b = "rpm"
      BY <3>1, <3>2 DEF State, Need
    <3>3. CASE ~ (pc'[t] = "asked" /\ aim'[t] = <<k, gen>> /\ b = "rpm")
      BY <3>1, <3>3 DEF Heading, Stages
    <3> QED BY <3>2, <3>3
  <2>2. CASE AskTokens(t)
    <3>1. /\ pc[t] = "asked" /\ \A u \in Threads \ {t} : pc'[u] = pc[u] /\ aim'[u] = aim[u]
          /\ \/ pc'[t] = "calling"
             \/ /\ pc'[t] = "debiting" /\ aim'[t] = aim[t]
                /\ states[aim[t][1]][aim[t][2]].tpm.tokens >= Estimate
      BY <1>0, <2>2 DEF AskTokens, Goto
    <3>2. CASE pc'[t] = "debiting" /\ aim'[t] = <<k, gen>> /\ b = "tpm"
      BY <3>1, <3>2 DEF Need
    <3>3. CASE ~ (pc'[t] = "debiting" /\ aim'[t] = <<k, gen>> /\ b = "tpm")
      BY <3>1, <3>3 DEF Heading, Stages
    <3> QED BY <3>2, <3>3
  <2> QED BY <2>1, <2>2
<1> QED BY <1>1, <1>2, <1>3, UnpaidKept

(* A debit concerns one bucket, and takes its thread from those that head   *)
(* for it.                                                                  *)
LEMMA UnpaidDebit ==
    ASSUME TypeInv, UnpaidInv, NEW t \in Threads, DebitRpm(t) \/ DebitTpm(t)
    PROVE  UnpaidInv'
<1>0. pc \in [Threads -> Places] /\ aim \in [Threads -> Aims] BY DEF TypeInv, ClientTypeOK
<1>1. PICK c \in {"rpm", "tpm"} :
         /\ Debit(t, IF c = "rpm" THEN "debiting" ELSE "charging",
                     IF c = "rpm" THEN "charging" ELSE "calling", c, Need(c))
         /\ \A u \in Threads \ {t} : aim'[u] = aim[u]
         /\ c = "rpm" => aim'[t] = aim[t]
  <2>1. CASE DebitRpm(t) BY <1>0, <2>1 DEF DebitRpm, Need
  <2>2. CASE DebitTpm(t) BY <1>0, <2>2 DEF DebitTpm, Need
  <2> QED BY <2>1, <2>2
<1>2. /\ pc[t] = (IF c = "rpm" THEN "debiting" ELSE "charging")
      /\ pc'[t] = (IF c = "rpm" THEN "charging" ELSE "calling")
      /\ \A u \in Threads \ {t} : pc'[u] = pc[u]
  BY <1>0, <1>1 DEF Debit, Moves, Goto
<1>3. aim[t] \in AllKeys \X Nat /\ aim[t][2] \in DOMAIN states[aim[t][1]]
  BY <1>2 DEF TypeInv, Knows
<1>4. PICK j \in AllKeys, g \in Nat : aim[t] = <<j, g>> /\ g \in DOMAIN states[j] BY <1>3
<1>5. /\ states[j][g] \in KeyStates
      /\ states'[j][g][c] = Given(states[j][g][c], Need(c))
      /\ \A b \in {"rpm", "tpm"} : b # c => states'[j][g][b] = states[j][g][b]
      /\ \A k \in AllKeys : DOMAIN states'[k] = DOMAIN states[k]
      /\ \A k \in AllKeys : \A h \in DOMAIN states[k] :
            <<k, h>> # <<j, g>> => states'[k][h] = states[k][h]
  <2>1. Need(c) \in Nat \ {0} BY HeadingType
  <2>2. aim[t][1] = j /\ aim[t][2] = g BY <1>4
  <2>3. PICK from \in {"debiting", "charging"}, to \in Places : Debit(t, from, to, c, Need(c))
    <3>1. "charging" \in Places /\ "calling" \in Places BY DEF Places, Holding, Sending
    <3> QED BY <1>1, <3>1
  <2>4. /\ \A k \in AllKeys : DOMAIN states'[k] = DOMAIN states[k]
        /\ states[aim[t][1]][aim[t][2]] \in KeyStates
        /\ states'[aim[t][1]][aim[t][2]][c] = Given(states[aim[t][1]][aim[t][2]][c], Need(c))
        /\ \A b \in {"rpm", "tpm"} :
              b # c => states'[aim[t][1]][aim[t][2]][b] = states[aim[t][1]][aim[t][2]][b]
        /\ \A k \in AllKeys : \A h \in DOMAIN states[k] :
              <<k, h>> # aim[t] => states'[k][h] = states[k][h]
    <3> DEFINE n == Need(c)
    <3>1. n \in Nat \ {0} /\ Debit(t, from, to, c, n) BY <2>1, <2>3
    <3> HIDE DEF n
    <3> QED BY <3>1, DebitEffect DEF n
  <2> QED BY <1>4, <2>2, <2>4
<1>7. \A b \in {"rpm", "tpm"}, k \in AllKeys : \A h :
         k = j /\ h = g /\ b = c =>
            t \in Heading(b, k, h) /\ Heading(b, k, h)' = Heading(b, k, h) \ {t}
  BY <1>1, <1>2, <1>4 DEF Heading, Stages
<1>8. \A b \in {"rpm", "tpm"}, k \in AllKeys : \A h :
         Heading(b, k, h)' \subseteq Heading(b, k, h)
  BY <1>1, <1>2, <1>4 DEF Heading, Stages
<1> HIDE DEF Heading
<1> SUFFICES ASSUME NEW k \in AllKeys, NEW gen \in DOMAIN states[k], NEW b \in {"rpm", "tpm"}
             PROVE  UnpaidOK(b, k, gen)'
  BY <1>5 DEF UnpaidInv
<1>9. UnpaidOK(b, k, gen) /\ states[k][gen][b].tokens \in Nat BY BucketType DEF UnpaidInv
<1>10. CASE k = j /\ gen = g /\ b = c
  <2>1. t \in Heading(b, k, gen) /\ Heading(b, k, gen)' = Heading(b, k, gen) \ {t} BY <1>7, <1>10
  <2>2. /\ states'[k][gen][b] = Given(states[k][gen][b], Need(b))
        /\ states[k][gen] \in KeyStates
    BY <1>5, <1>10
  <2> QED BY <1>9, <2>1, <2>2, UnpaidGiven
<1>11. CASE ~ (k = j /\ gen = g /\ b = c)
  <2>1. states'[k][gen][b] = states[k][gen][b] BY <1>5, <1>11
  <2> QED BY <1>8, <1>9, <2>1, UnpaidKept
<1> QED BY <1>10, <1>11

(* UnpaidInv is inductive.                                                  *)
LEMMA UnpaidStep == TypeInv /\ TypeInv' /\ UnpaidInv /\ [Next]_vars => UnpaidInv'
<1> SUFFICES ASSUME TypeInv, TypeInv', UnpaidInv, [Next]_vars PROVE UnpaidInv' OBVIOUS
<1>0. pc \in [Threads -> Places] /\ aim \in [Threads -> Aims] BY DEF TypeInv, ClientTypeOK
<1>s. ASSUME UNCHANGED <<pc, aim>>
      PROVE  \A b, k, gen : Heading(b, k, gen)' = Heading(b, k, gen)
  BY <1>s DEF Heading
<1>u. ASSUME UNCHANGED <<pc, aim, states>> PROVE UnpaidInv'
  BY <1>u DEF UnpaidInv, UnpaidOK, Refusable, Heading, Others, Need
<1>1. ASSUME NEW t \in Threads, Ask(t) \/ AskTokens(t) \/ DebitRpm(t) \/ DebitTpm(t)
      PROVE  UnpaidInv'
  BY <1>1, UnpaidAsk, UnpaidDebit
<1>2. ASSUME NEW k \in Added, AddKey(k) PROVE UnpaidInv'
  <2>1. UNCHANGED <<pc, key, aim>> /\ k \in AllKeys BY <1>2 DEF AddKey, AllKeys
  <2>2. Register(k) \/ UNCHANGED states BY <1>2 DEF AddKey
  <2> QED BY <1>s, <1>u, <2>1, <2>2, UnpaidRegister
<1>3. ASSUME NEW t \in Threads, EnsureInitialized(t) PROVE UnpaidInv'
  <2>1. /\ UNCHANGED aim /\ pc'[t] \in {"registering", "blocked", "submit"}
        /\ \A u \in Threads \ {t} : pc'[u] = pc[u]
    BY <1>0, <1>3 DEF EnsureInitialized, Goto
  <2>2. CASE UNCHANGED states BY <2>1, <2>2, UnpaidUnmoved
  <2>3. CASE pos[t] <= Len(configKeys) /\ Register(configKeys[pos[t]]) /\ UNCHANGED pc
    <3>1. configKeys[pos[t]] \in AllKeys BY <2>3 DEF TypeInv, ClientTypeOK
    <3> QED BY <1>s, <2>1, <2>3, <3>1, UnpaidRegister
  <2> QED BY <1>3, <2>2, <2>3 DEF EnsureInitialized
<1>4. ASSUME NEW t \in Threads,
             \/ Call(t) \/ NestedTimeout(t) \/ Submit(t) \/ Look(t) \/ Peek(t) \/ Take(t)
             \/ Wait(t) \/ TimerFires(t) \/ GiveUp(t) \/ SelectKey(t) \/ Wake(t)
             \/ Release(t) \/ FindWaiter(t) \/ HandOver(t) \/ Conclude(t) \/ ProviderEnds(t)
      PROVE  UnpaidInv'
  <2>1. /\ UNCHANGED states
        /\ \A u \in Threads \ {t} : pc'[u] = pc[u] /\ aim'[u] = aim[u]
        /\ pc'[t] \notin {"asked", "debiting", "charging"}
    <3>1. CASE Call(t) BY <1>0, <3>1 DEF Call, Goto, limiterVars
    <3>2. CASE NestedTimeout(t) BY <1>0, <3>2 DEF NestedTimeout, Moves, Goto, limiterVars
    <3>3. CASE Submit(t) BY <1>0, <3>3 DEF Submit, Goto, End, limiterVars
    <3>4. CASE Look(t) BY <1>0, <3>4 DEF Look, Goto, limiterVars
    <3>5. CASE Peek(t) BY <1>0, <3>5 DEF Peek, Goto, limiterVars
    <3>6. CASE Take(t) BY <1>0, <3>6 DEF Take, Moves, Goto, limiterVars
    <3>7. CASE Wait(t) BY <1>0, <3>7 DEF Wait, Goto, End, limiterVars
    <3>8. CASE TimerFires(t) BY <1>0, <3>8 DEF TimerFires, Goto, limiterVars
    <3>9. CASE GiveUp(t) BY <1>0, <3>9 DEF GiveUp, Goto, End, limiterVars
    <3>10. CASE Release(t) BY <1>0, <3>10 DEF Release, Moves, Goto, limiterVars
    <3>11. CASE FindWaiter(t) BY <1>0, <3>11 DEF FindWaiter, Goto, limiterVars
    <3>12. CASE HandOver(t) BY <1>0, <3>12 DEF HandOver, Goto, End, limiterVars
    <3>13. CASE Conclude(t) BY <1>0, <3>13 DEF Conclude, Moves, Goto, limiterVars
    <3>14. CASE ProviderEnds(t) BY <1>0, <3>14 DEF ProviderEnds, Moves, Goto, limiterVars
    <3>15. CASE SelectKey(t) BY <1>0, <3>15 DEF SelectKey, Goto, limiterVars
    <3>16. CASE Wake(t) BY <1>0, <3>16 DEF Wake, Goto, limiterVars
    <3> QED BY <1>4, <3>1, <3>2, <3>3, <3>4, <3>5, <3>6, <3>7, <3>8, <3>9, <3>10, <3>11, <3>12, <3>13, <3>14, <3>15, <3>16
  <2> QED BY <2>1, UnpaidUnmoved
<1>5. ASSUME \/ Shutdown \/ UNCHANGED vars
             \/ \E t \in Threads : Chunk(t) \/ Receive(t) \/ CloseStream(t)
      PROVE  UnpaidInv'
  <2>1. UNCHANGED <<pc, aim, states>>
    BY <1>5 DEF Shutdown, vars, Chunk, Receive, CloseStream, limiterVars
  <2> QED BY <1>u, <2>1
<1>6. ASSUME NEW k \in AllKeys, NEW gen \in DOMAIN states[k], Refill(k, gen) PROVE UnpaidInv'
  BY <1>6, UnpaidRefill
<1> QED BY <1>1, <1>2, <1>3, <1>4, <1>5, <1>6 DEF Next, Run

(* Whatever the threads interleave, no variable leaves its type; so no      *)
(* bucket of a key goes below zero or above its limit (rate_limiter.py:42). *)
THEOREM TypeCorrect == Spec => []ClientTypeOK
<1>1. Init => TypeInv BY TypeInit
<1>2. TypeInv /\ [Next]_vars => TypeInv' BY TypeStep
<1>3. TypeInv => ClientTypeOK BY DEF TypeInv
<1> QED BY <1>1, <1>2, <1>3, PTL DEF Spec

(* Every permit of the semaphore is free, held, on its way to the waiter,   *)
(* or lost in one of the two known races, for any number of threads.        *)
THEOREM PermitsAreConserved == Spec => []PermitsConserved
<1> DEFINE Inv == TypeInv /\ WaiterInv /\ Permits
<1>1. Init => Inv BY TypeInit, WaiterInit, PermitInit
<1>2. Inv /\ [Next]_vars => Inv' BY TypeStep, WaiterStep, PermitStep
<1>3. Inv => PermitsConserved BY DEF Permits, Holders, OneIf, PermitsConserved
<1> QED BY <1>1, <1>2, <1>3, PTL DEF Spec

(* No call reaches the scheduler before the keys of the construction are    *)
(* usable, however many threads race to initialise the client and to add    *)
(* keys to the list they walk (client.py:118-126, 344-373).                 *)
THEOREM KeysAreAlwaysUsable == Spec => []KeysAreUsable
<1> DEFINE Inv == TypeInv /\ KeysInv
<1>1. Init => Inv BY TypeInit, KeysInit
<1>2. Inv /\ [Next]_vars => Inv' BY TypeStep, KeysStep
<1>3. Inv => KeysAreUsable
  <2> SUFFICES ASSUME TypeInv, KeysInv PROVE KeysAreUsable OBVIOUS
  <2>1. ASSUME NEW t \in Threads, pc[t] \notin {"idle", "registering"},
               NEW k \in ToSet(Configured)
        PROVE  Usable(k)
    <3>1. made[t] > 0 BY <2>1 DEF TypeInv, ClientTypeOK, KeysInv
    <3>2. initialized BY <2>1, <3>1 DEF KeysInv
    <3>3. PICK i \in DOMAIN Configured : k = Configured[i] BY <2>1 DEF ToSet
    <3> QED BY <3>2, <3>3 DEF KeysInv
  <2> QED BY <2>1 DEF KeysAreUsable, KeysInv
<1> QED BY <1>1, <1>2, <1>3, PTL DEF Spec

(* A consumer that is told the stream is over has every chunk, and is told  *)
(* so by the item that goes with how the request ended (client.py:312-341). *)
THEOREM StreamsAreFaithful == Spec => []StreamIsFaithful
<1> DEFINE Inv == TypeInv /\ StreamInv
<1>1. Init => Inv BY TypeInit, StreamInit
<1>2. Inv /\ [Next]_vars => Inv' BY TypeStep, StreamStep
<1>3. Inv => StreamIsFaithful
  <2> SUFFICES ASSUME TypeInv, StreamInv, NEW t \in Threads, kind[t] = "stream",
                      caller[t] \in {"ended", "raised"}
               PROVE  /\ received[t] = produced[t]
                      /\ caller[t] = "ended" <=> outcome[t] = "answered"
    BY DEF StreamIsFaithful
  <2>1. InQueue(t) = 0 /\ (caller[t] = "ended" <=> outcome[t] = "answered")
    BY DEF StreamInv, StreamOK
  <2>2. received[t] \in Nat /\ produced[t] \in Nat BY ClientAssumption DEF TypeInv, ClientTypeOK
  <2> QED BY <2>1, <2>2 DEF InQueue
<1> QED BY <1>1, <1>2, <1>3, PTL DEF Spec

(* Check and debit being apart, what consume lets go unpaid is bounded:     *)
(* each time a request leaves a bucket with less than the next one needs,   *)
(* every other thread gets by it once at most, whatever refills in between, *)
(* and a key's buckets are made full once for each thread that initialises  *)
(* the client and once by add_key (rate_limiter.py:149-155,                 *)
(* client.py:118-126), however the threads interleave.                      *)
THEOREM OverrunIsBounded == Spec => []OverrunBounded
<1> DEFINE Inv == TypeInv /\ KeysInv /\ RegisterInv /\ UnpaidInv
<1>1. Init => Inv BY TypeInit, KeysInit, RegisterInit, UnpaidInit
<1>2. Inv /\ [Next]_vars => Inv' BY TypeStep, KeysStep, RegisterStep, UnpaidStep
<1>3. Inv => OverrunBounded
  <2> SUFFICES ASSUME TypeInv, RegisterInv, UnpaidInv, NEW k \in AllKeys
               PROVE  /\ \A gen \in DOMAIN states[k], b \in {"rpm", "tpm"} :
                            states[k][gen][b].unpaid <= Others * states[k][gen][b].dried
                      /\ Len(states[k]) <= Cardinality(Threads) + (IF k \in Added THEN 1 ELSE 0)
    BY DEF OverrunBounded
  <2>1. ASSUME NEW gen \in DOMAIN states[k], NEW b \in {"rpm", "tpm"}
        PROVE  states[k][gen][b].unpaid <= Others * states[k][gen][b].dried
    <3> DEFINE bound == Others * states[k][gen][b].dried
    <3>1. states[k][gen][b].unpaid \in Nat /\ states[k][gen][b].dried \in Nat BY BucketType
    <3>2. bound \in Int
      <4>1. Others \in Int BY HeadingType DEF Others
      <4> QED BY <3>1, <4>1
    <3>3. Refusable(b, k, gen) \in Nat BY HeadingType DEF Refusable
    <3>4. states[k][gen][b].unpaid + Refusable(b, k, gen) <= bound BY DEF UnpaidInv, UnpaidOK
    <3> HIDE DEF bound
    <3>5. states[k][gen][b].unpaid <= bound BY <3>1, <3>2, <3>3, <3>4
    <3> QED BY <3>5 DEF bound
  <2>2. /\ Cardinality(Registrars(k)) \in Nat /\ Cardinality(Threads) \in Nat
        /\ Cardinality(Registrars(k)) <= Cardinality(Threads)
    <3>1. Registrars(k) \in SUBSET Threads /\ Threads \in SUBSET Threads BY DEF Registrars
    <3> QED BY <3>1, Gains
  <2>3. Len(states[k]) <= Cardinality(Registrars(k)) + ByAddKey(k) /\ Len(states[k]) \in Nat
    BY LenIsNat DEF RegisterInv, TypeInv, ClientTypeOK
  <2>4. ByAddKey(k) \in Nat /\ ByAddKey(k) <= (IF k \in Added THEN 1 ELSE 0) BY DEF ByAddKey
  <2> QED BY <2>1, <2>2, <2>3, <2>4
<1> QED BY <1>1, <1>2, <1>3, PTL DEF Spec
=============================================================================
