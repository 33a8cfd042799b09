-------------------------- MODULE RedisBackend_proofs --------------------------
(***************************************************************************)
(* Proofs about RedisBackend, for any number of processes, window, limits   *)
(* and leases.                                                              *)
(***************************************************************************)
EXTENDS RedisBackend, FiniteSetTheorems, TLAPS

-----------------------------------------------------------------------------
(* Windows.                                                                 *)

(* A window starts at or before each of its instants and ends after it.     *)
LEMMA WindowHoldsInstant ==
    ASSUME NEW t \in Nat
    PROVE  /\ WindowStart(t) \in Nat
           /\ WindowStart(t) <= t /\ t < WindowStart(t) + Window
BY RedisAssumption DEF WindowStart

(* Later instants have no earlier windows.                                  *)
LEMMA WindowsInOrder ==
    ASSUME NEW t \in Nat, NEW u \in Nat, t <= u
    PROVE  WindowStart(t) <= WindowStart(u)
BY RedisAssumption DEF WindowStart

-----------------------------------------------------------------------------
(* Clocks.                                                                  *)

(* Every clock has passed the window of the empty hash, and none is ahead   *)
(* of the fastest.                                                          *)
LEMMA ClocksRun ==
    ASSUME TypeOK
    PROVE  /\ \A p \in Procs : Clock(p) \in Nat /\ Window <= Clock(p) /\ Clock(p) <= now
           /\ now \in Nat /\ Window <= now
           /\ \A s \in Stores : Newest(s) \in Nat /\ Newest(s) <= WindowStart(now)
           /\ Newest(Redis) = WindowStart(now)
           /\ \A p \in Procs : Newest(p) = WindowStart(Clock(p))
<1>1. /\ \A p \in Procs : Clock(p) \in Nat /\ Window <= Clock(p) /\ Clock(p) <= now
      /\ now \in Nat /\ Window <= now
  BY RedisAssumption DEF TypeOK, Clock
<1>2. /\ Newest(Redis) = WindowStart(now)
      /\ \A p \in Procs : Newest(p) = WindowStart(Clock(p))
  BY RedisAssumption DEF Newest
<1>3. ASSUME NEW s \in Stores PROVE Newest(s) \in Nat /\ Newest(s) <= WindowStart(now)
  <2>1. CASE s = Redis BY <1>1, <1>2, <2>1, WindowHoldsInstant
  <2>2. CASE s \in Procs BY <1>1, <1>2, <2>2, WindowHoldsInstant, WindowsInOrder
  <2> QED BY <2>1, <2>2 DEF Stores
<1> QED BY <1>1, <1>2, <1>3

(* Time takes no clock to an earlier window.                                *)
LEMMA ClocksLater ==
    ASSUME TypeOK, now' = now + 1, lag' = lag
    PROVE  \A p \in Procs : /\ WindowStart(Clock(p)) \in Nat /\ WindowStart(Clock(p))' \in Nat
                            /\ Clock(p)' = Clock(p) + 1
                            /\ WindowStart(Clock(p)) <= WindowStart(Clock(p))'
<1> SUFFICES ASSUME NEW p \in Procs
             PROVE  /\ WindowStart(Clock(p)) \in Nat /\ WindowStart(Clock(p))' \in Nat
                    /\ Clock(p)' = Clock(p) + 1
                    /\ WindowStart(Clock(p)) <= WindowStart(Clock(p))'
    OBVIOUS
<1>1. Clock(p) \in Nat /\ Clock(p)' = Clock(p) + 1
  BY ClocksRun, RedisAssumption DEF Clock, TypeOK
<1>2. WindowStart(Clock(p))' = WindowStart(Clock(p) + 1)
  BY <1>1 DEF WindowStart
<1> QED BY <1>1, <1>2, WindowHoldsInstant, WindowsInOrder

(* No window of a running clock is the empty hash's.                        *)
LEMMA WindowsAreLate ==
    ASSUME NEW t \in Nat, Window <= t
    PROVE  WindowStart(t) > 0
BY WindowHoldsInstant, RedisAssumption DEF WindowStart

-----------------------------------------------------------------------------
(* Types.                                                                   *)

(* An update of a count is a count, never the empty one; it starts a newer  *)
(* window and adds to the same or a newer one.                              *)
LEMMA CountedType ==
    ASSUME NEW s \in UsageRecord, NEW start \in Nat, NEW n \in Nat
    PROVE  /\ Counted(s, start, n) \in UsageRecord
           /\ Counted(s, start, n) # Absent
           /\ s.window < start =>
                 Counted(s, start, n) = [window |-> start, tokens |-> n, count |-> 1]
           /\ ~ s.window < start =>
                 /\ Counted(s, start, n).window = s.window
                 /\ Counted(s, start, n).tokens = s.tokens + n
                 /\ Counted(s, start, n).count = s.count + 1
<1>1. CASE s.window < start
  BY <1>1 DEF Counted, UsageRecord, Absent
<1>2. CASE ~ s.window < start
  <2> DEFINE t == [s EXCEPT !.tokens = @ + n]
  <2>1. t \in UsageRecord /\ t.window = s.window /\ t.tokens = s.tokens + n /\ t.count = s.count
    BY DEF UsageRecord
  <2>2. Counted(s, start, n) = [t EXCEPT !.count = @ + 1]
    BY <1>2 DEF Counted
  <2> HIDE DEF t
  <2>3. /\ [t EXCEPT !.count = @ + 1] \in UsageRecord
        /\ [t EXCEPT !.count = @ + 1].window = t.window
        /\ [t EXCEPT !.count = @ + 1].tokens = t.tokens
        /\ [t EXCEPT !.count = @ + 1].count = t.count + 1
    BY <2>1 DEF UsageRecord
  <2> QED
    BY <1>2, <2>1, <2>2, <2>3 DEF UsageRecord, Absent
<1> QED
  BY <1>1, <1>2

(* An update leaves a count in its store and the others alone.              *)
LEMMA StoreUpdated ==
    ASSUME NEW u \in [Stores -> UsageRecord], NEW s \in Stores,
           NEW start \in Nat, NEW n \in Nat
    PROVE  LET v == [u EXCEPT ![s] = Counted(@, start, n)] IN
           /\ v \in [Stores -> UsageRecord] /\ v[s] # Absent
           /\ \A r \in Stores \ {s} : v[r] = u[r]
<1>1. PICK c \in UsageRecord : c = Counted(u[s], start, n) /\ c # Absent
  BY CountedType
<1>2. [u EXCEPT ![s] = Counted(@, start, n)] = [u EXCEPT ![s] = c] BY <1>1
<1> QED BY <1>1, <1>2

(* Every step keeps the types.                                              *)
LEMMA TypeStep == TypeOK /\ [Next]_vars => TypeOK'
<1> SUFFICES ASSUME TypeOK, [Next]_vars PROVE TypeOK'
    OBVIOUS
<1> USE RedisAssumption DEF TypeOK, Stores, Goes, Forget, fixed
<1>1. Absent \in UsageRecord
  BY DEF Absent, UsageRecord
<1>2. ASSUME NEW p \in Procs, NEW n \in 1..MaxTokens, ReadState(p, n) PROVE TypeOK'
  BY <1>2 DEF ReadState, errorVars, lockVars
<1>3. ASSUME NEW p \in Procs, NEW n \in 1..MaxTokens, UpdateMemory(p, n) PROVE TypeOK'
  <2>1. WindowStart(Clock(p)) \in Nat
    BY ClocksRun, WindowHoldsInstant
  <2>2. p # Redis /\ p \in Stores /\ usage[p] \in UsageRecord
    OBVIOUS
  <2>3. usage' \in [Stores -> UsageRecord] /\ usage'[Redis] = usage[Redis]
    <3>1. usage' = [usage EXCEPT ![p] = Counted(@, WindowStart(Clock(p)), n)]
      BY <1>3 DEF UpdateMemory
    <3>2. n \in Nat /\ Redis \in Stores \ {p} /\ usage \in [Stores -> UsageRecord]
      BY <2>2
    <3> HIDE DEF TypeOK, Stores, Goes, Forget
    <3> QED BY <2>1, <2>2, <3>1, <3>2, StoreUpdated
  <2>4. spent' \in [Stores -> Nat]
    BY <1>3 DEF UpdateMemory, Spend
  <2> QED
    BY <1>3, <2>3, <2>4 DEF UpdateMemory, errorVars, lockVars
<1>4. ASSUME NEW p \in Procs, Decide(p) PROVE TypeOK'
  BY <1>1, <1>4 DEF Decide, errorVars, lockVars
<1>5. ASSUME NEW p \in Procs, NEW used \in 1..(MaxTokens + MaxExcess), Stamp(p, used)
      PROVE  TypeOK'
  <2>1. WindowStart(Clock(p)) \in Nat
    BY ClocksRun, WindowHoldsInstant
  <2> QED BY <1>5, <2>1 DEF Stamp, errorVars, lockVars
<1>6. ASSUME NEW p \in Procs, UpdateTokens(p) PROVE TypeOK'
  <2>1. usage' \in [Stores -> UsageRecord] /\ usage'[Redis] # Absent
    <3>1. usage' = [usage EXCEPT ![Redis] = Counted(@, stamp[p], need[p])]
      BY <1>6 DEF UpdateTokens
    <3>2. stamp[p] \in Nat /\ need[p] \in Nat /\ Redis \in Stores
      OBVIOUS
    <3>3. usage \in [Stores -> UsageRecord]
      OBVIOUS
    <3> HIDE DEF TypeOK, Stores, Goes, Forget
    <3> QED BY <3>1, <3>2, <3>3, StoreUpdated
  <2>2. spent' \in [Stores -> Nat]
    BY <1>6 DEF UpdateTokens, Spend
  <2>3. expiresAt' \in Nat /\ expiresAt' # 0
    BY <1>6 DEF UpdateTokens
  <2>4. /\ at' \in [Procs -> {"idle", "checking", "cleared", "updating", "counted"}]
        /\ need' \in [Procs -> 0..(MaxTokens + MaxExcess)] /\ stamp' \in [Procs -> Nat]
        /\ \A q \in Procs : at'[q] # "updating" => need'[q] <= MaxTokens
    BY <1>6 DEF UpdateTokens
  <2>5. UNCHANGED <<now, seen, errorVars, lockVars, store, fixed>>
    BY <1>6 DEF UpdateTokens
  <2> QED
    BY <2>1, <2>2, <2>3, <2>4, <2>5 DEF errorVars, lockVars
<1>7. ASSUME NEW p \in Procs, RecordError(p) PROVE TypeOK'
  BY <1>7 DEF RecordError, windowVars, lockVars
<1>8. ASSUME NEW p \in Procs, ExpireErrors(p) PROVE TypeOK'
  <2>1. orphaned' \in BOOLEAN
    BY <1>8, Zenon DEF ExpireErrors
  <2> QED
    BY <1>8, <2>1 DEF ExpireErrors, windowVars, lockVars
<1>9. ASSUME NEW p \in Procs, ClearErrors(p) PROVE TypeOK'
  <2>1. orphaned' \in BOOLEAN
    BY <1>9, Zenon DEF ClearErrors
  <2> QED
    BY <1>9, <2>1 DEF ClearErrors, windowVars, lockVars
<1>10. ASSUME NEW p \in Procs, AcquireLock(p) PROVE TypeOK'
  BY <1>10 DEF AcquireLock, windowVars, errorVars
<1>11. ASSUME NEW p \in Procs, ReleaseLock(p) PROVE TypeOK'
  BY <1>11 DEF ReleaseLock, windowVars, errorVars
<1>12. ASSUME NEW p \in Procs, Crash(p) PROVE TypeOK'
  BY <1>1, <1>12 DEF Crash
<1>13. CASE Tick
  <2>1. now' \in Nat /\ now' >= Window + MaxLag
    BY <1>13 DEF Tick
  <2>2. /\ usage' \in [Stores -> UsageRecord] /\ expiresAt' \in Nat
        /\ usage'[Redis] = Absent <=> expiresAt' = 0
    BY <1>1, <1>13 DEF Tick
  <2>3. errors' \in 0..ErrorBound /\ errorsExpireAt' \in Nat
    BY <1>13 DEF Tick, errorVars
  <2>4. orphaned' \in BOOLEAN /\ overrun' \in BOOLEAN
    BY <1>13, Zenon DEF Tick, errorVars
  <2>5. spent' \in [Stores -> Nat]
    BY <1>13 DEF Tick
  <2> QED
    BY <1>13, <2>1, <2>2, <2>3, <2>4, <2>5 DEF Tick
<1>14. CASE UNCHANGED vars
  BY <1>14 DEF vars, windowVars, errorVars, lockVars
<1> QED
  BY <1>2, <1>3, <1>4, <1>5, <1>6, <1>7, <1>8, <1>9, <1>10, <1>11, <1>12, <1>13, <1>14 DEF Next

(* So does the initial state.                                               *)
LEMMA TypeInit == Init => TypeOK
<1> SUFFICES ASSUME Init PROVE TypeOK
    OBVIOUS
<1>1. Absent \in UsageRecord
  BY DEF Absent, UsageRecord
<1>2. /\ usage \in [Stores -> UsageRecord] /\ seen \in [Procs -> UsageRecord]
      /\ usage[Redis] = Absent /\ expiresAt = 0
  BY <1>1 DEF Init, Stores
<1>3. store \in [Procs -> Stores]
  BY DEF Init
<1>4. guarded \in BOOLEAN /\ overrun \in BOOLEAN /\ orphaned \in BOOLEAN
  BY DEF Init
<1> QED
  BY <1>2, <1>3, <1>4, RedisAssumption DEF Init, TypeOK

(* Every state has its type.                                                *)
THEOREM RedisTypeOK == Spec => []TypeOK
BY TypeInit, TypeStep, PTL DEF Spec

-----------------------------------------------------------------------------
(* No recorded usage is lost from its window's count.                       *)

(* No window is one of the future, and what counts for the newest one       *)
(* outlives it.                                                             *)
NoFutureWindow ==
    /\ \A s \in Stores : usage[s].window <= Newest(s)
    /\ \A p \in Procs : stamp[p] <= WindowStart(now)

SpentIsKept == spent[Redis] > 0 => expiresAt >= WindowStart(now) + Window

UsageInv == NoFutureWindow /\ SpentIsKept /\ UsageIsCounted

(* While no clock moves, the newest windows stay.                           *)
LEMMA NewestStays ==
    ASSUME now' = now, lag' = lag
    PROVE  /\ \A s : Newest(s)' = Newest(s)
           /\ \A p : Clock(p)' = Clock(p)
           /\ WindowStart(now)' = WindowStart(now)
BY DEF Newest, Clock, WindowStart

(* An update keeps the accounting of the store it is for.                   *)
LEMMA UpdateCounts ==
    ASSUME TypeOK, UsageInv, now' = now, lag' = lag,
           NEW s \in Stores, NEW start \in Nat, start <= Newest(s),
           NEW n \in Nat,
           usage' = [usage EXCEPT ![s] = Counted(@, start, n)],
           Spend(s, start, n)
    PROVE  /\ \A q \in Stores : usage'[q].window <= Newest(q)
           /\ UsageIsCounted'
<1> DEFINE u == Counted(usage[s], start, n)
<1>1. PICK new \in Nat : new = Newest(s)
  BY ClocksRun
<1>2. /\ usage[s] \in UsageRecord /\ spent \in [Stores -> Nat] /\ spent[s] \in Nat
      /\ usage' = [usage EXCEPT ![s] = u] /\ usage \in [Stores -> UsageRecord]
  BY DEF TypeOK
<1>3. /\ u \in UsageRecord
      /\ usage[s].window < start => u = [window |-> start, tokens |-> n, count |-> 1]
      /\ ~ usage[s].window < start => /\ u.window = usage[s].window
                                      /\ u.tokens = usage[s].tokens + n
  <2>1. PICK r \in UsageRecord : r = usage[s] BY <1>2
  <2>2. u = Counted(r, start, n) BY <2>1
  <2> HIDE DEF u
  <2> QED BY <2>1, <2>2, CountedType
<1> HIDE DEF u
<1>4. /\ usage[s].window <= new /\ usage[s].window \in Nat /\ usage[s].tokens \in Nat
      /\ u.window \in Nat /\ u.tokens \in Nat
  BY <1>1, <1>2, <1>3 DEF UsageInv, NoFutureWindow, UsageRecord
<1>5. u.window <= new
  BY <1>1, <1>3, <1>4
<1>6. \A q \in Stores : usage'[q].window <= Newest(q)
  BY <1>1, <1>2, <1>5 DEF UsageInv, NoFutureWindow
<1>7. ASSUME NEW q \in Stores \ {s} PROVE Current(q)'.tokens >= spent'[q]
  <2>1. usage'[q] = usage[q] /\ spent'[q] = spent[q]
    BY <1>2 DEF Spend
  <2> QED
    BY <2>1, NewestStays DEF Current, UsageInv, UsageIsCounted
<1>8. Current(s)'.tokens >= spent'[s]
  <2>1. spent'[s] = IF start = new THEN spent[s] + n ELSE spent[s]
    BY <1>1, <1>2 DEF Spend
  <2>2. Current(s)' = IF u.window = new THEN u ELSE Absent
    BY <1>1, <1>2, NewestStays DEF Current
  <2>3. /\ usage[s].window # new => spent[s] = 0
        /\ usage[s].window = new => usage[s].tokens >= spent[s]
    BY <1>1, <1>2 DEF Current, Absent, UsageInv, UsageIsCounted
  <2>4. Current(s)'.tokens = IF u.window = new THEN u.tokens ELSE 0
    BY <2>2 DEF Absent
  <2>5. CASE usage[s].window < start
    <3>1. u.window = start /\ u.tokens = n /\ spent[s] = 0
      BY <1>1, <1>3, <1>4, <2>3, <2>5
    <3> QED BY <2>1, <2>4, <3>1
  <2>6. CASE ~ usage[s].window < start
    <3>1. u.window = usage[s].window /\ u.tokens = usage[s].tokens + n
      BY <1>3, <2>6
    <3>2. start = new => usage[s].window = new
      BY <1>4, <2>6
    <3> QED BY <1>2, <1>4, <2>1, <2>3, <2>4, <3>1, <3>2
  <2> QED BY <2>5, <2>6
<1> QED
  BY <1>6, <1>7, <1>8 DEF UsageIsCounted

(* A step that leaves the counts, the stamps and the clocks alone keeps it. *)
LEMMA UsageStutters ==
    ASSUME UsageInv, UNCHANGED <<now, lag, usage, expiresAt, stamp, spent>>
    PROVE  UsageInv'
BY DEF UsageInv, NoFutureWindow, SpentIsKept, UsageIsCounted, Current, WindowStart, Newest, Clock

(* Every step keeps it.                                                     *)
LEMMA UsageStep == TypeOK /\ UsageInv /\ [Next]_vars => UsageInv'
<1> SUFFICES ASSUME TypeOK, UsageInv, [Next]_vars PROVE UsageInv'
    OBVIOUS
<1>1. /\ WindowStart(now) \in Nat /\ WindowStart(now) <= now
      /\ now \in Nat /\ Redis \in Stores /\ spent \in [Stores -> Nat]
      /\ usage \in [Stores -> UsageRecord] /\ expiresAt \in Nat
      /\ stamp \in [Procs -> Nat]
      /\ Absent \in UsageRecord /\ Absent.window = 0 /\ Absent.tokens = 0
      /\ \A s \in Stores : Newest(s) \in Nat /\ Newest(s) <= WindowStart(now)
      /\ Newest(Redis) = WindowStart(now)
  BY WindowHoldsInstant, ClocksRun DEF TypeOK, Stores, Absent, UsageRecord
<1>2. ASSUME NEW p \in Procs, NEW n \in 1..MaxTokens, UpdateMemory(p, n) PROVE UsageInv'
  <2>1. /\ p \in Stores /\ p # Redis /\ n \in Nat /\ now' = now /\ lag' = lag
        /\ stamp' = stamp /\ expiresAt' = expiresAt
    BY <1>2, RedisAssumption DEF UpdateMemory, Stores, fixed
  <2>2. /\ \A q \in Stores : usage'[q].window <= Newest(q)
        /\ UsageIsCounted'
    <3>1. PICK start \in Nat : start = WindowStart(Clock(p)) /\ start = Newest(p)
      BY <1>1, <2>1, ClocksRun
    <3>2. /\ usage' = [usage EXCEPT ![p] = Counted(@, start, n)]
          /\ Spend(p, start, n) /\ start <= Newest(p)
      BY <1>1, <1>2, <3>1 DEF UpdateMemory
    <3> QED
      BY <2>1, <3>2, UpdateCounts
  <2>3. spent'[Redis] = spent[Redis]
    BY <1>1, <1>2, <2>1 DEF UpdateMemory, Spend
  <2> QED
    BY <2>1, <2>2, <2>3, NewestStays DEF UsageInv, NoFutureWindow, SpentIsKept
<1>3. ASSUME NEW p \in Procs, NEW used \in 1..(MaxTokens + MaxExcess), Stamp(p, used)
      PROVE  UsageInv'
  <2>1. /\ UNCHANGED <<now, lag, usage, expiresAt, spent>>
        /\ stamp' = [stamp EXCEPT ![p] = WindowStart(Clock(p))]
    BY <1>3 DEF Stamp, fixed
  <2>2. WindowStart(Clock(p)) <= WindowStart(now)
    BY <1>1, ClocksRun DEF Stores
  <2>3. \A q \in Procs : stamp'[q] <= WindowStart(now)
    BY <1>1, <2>1, <2>2 DEF UsageInv, NoFutureWindow
  <2> QED
    BY <2>1, <2>3, NewestStays
       DEF UsageInv, NoFutureWindow, SpentIsKept, UsageIsCounted, Current
<1>4. ASSUME NEW p \in Procs, UpdateTokens(p) PROVE UsageInv'
  <2>1. /\ stamp[p] \in Nat /\ stamp[p] <= Newest(Redis)
        /\ need[p] \in Nat /\ now' = now /\ lag' = lag
    BY <1>1, <1>4, RedisAssumption DEF UpdateTokens, TypeOK, UsageInv, NoFutureWindow, fixed
  <2>2. /\ \A q \in Stores : usage'[q].window <= Newest(q)
        /\ UsageIsCounted'
    <3>1. /\ usage' = [usage EXCEPT ![Redis] = Counted(@, stamp[p], need[p])]
          /\ Spend(Redis, stamp[p], need[p])
      BY <1>4 DEF UpdateTokens
    <3> QED
      BY <1>1, <2>1, <3>1, UpdateCounts
  <2>3. SpentIsKept'
    BY <1>1, <1>4, <2>1, RedisAssumption DEF UpdateTokens, SpentIsKept, WindowStart
  <2>4. \A q \in Procs : stamp'[q] <= WindowStart(now)
    BY <1>1, <1>4 DEF UpdateTokens, Forget, UsageInv, NoFutureWindow
  <2> QED
    BY <2>1, <2>2, <2>3, <2>4, NewestStays DEF UsageInv, NoFutureWindow
<1>5. ASSUME NEW p \in Procs, Crash(p) PROVE UsageInv'
  <2>1. /\ p # Redis /\ now' = now /\ lag' = lag /\ expiresAt' = expiresAt
        /\ usage' = [usage EXCEPT ![p] = Absent]
        /\ spent' = [spent EXCEPT ![p] = 0] /\ stamp' = [stamp EXCEPT ![p] = 0]
    BY <1>5, RedisAssumption DEF Crash, Forget, fixed
  <2>2. NoFutureWindow'
    BY <1>1, <2>1, NewestStays DEF UsageInv, NoFutureWindow
  <2>3. SpentIsKept'
    BY <1>1, <2>1, NewestStays DEF UsageInv, SpentIsKept
  <2>4. UsageIsCounted'
    BY <1>1, <2>1, NewestStays DEF UsageInv, UsageIsCounted, Current
  <2> QED
    BY <2>2, <2>3, <2>4 DEF UsageInv
<1>6. CASE Tick
  <2>1. now' = now + 1 /\ stamp' = stamp /\ lag' = lag
    BY <1>6 DEF Tick, fixed
  <2>2. /\ WindowStart(now') \in Nat /\ WindowStart(now) <= WindowStart(now')
        /\ now' < WindowStart(now') + Window
    BY <1>1, <2>1, WindowHoldsInstant, WindowsInOrder
  <2>3. \/ UNCHANGED <<usage, expiresAt>>
        \/ expiresAt = now' /\ usage' = [usage EXCEPT ![Redis] = Absent]
    BY <1>6 DEF Tick
  <2>4. ASSUME NEW s \in Stores PROVE Newest(s)' \in Nat /\ Newest(s) <= Newest(s)'
    <3>1. CASE s = Redis BY <2>1, <2>2, <3>1 DEF Newest, WindowStart
    <3>2. CASE s \in Procs
      <4>1. s # Redis /\ Clock(s) \in Nat /\ Clock(s)' = Clock(s) + 1
        BY <2>1, <3>2, ClocksRun, RedisAssumption DEF Clock, TypeOK
      <4>2. Newest(s) = WindowStart(Clock(s)) /\ Newest(s)' = WindowStart(Clock(s) + 1)
        BY <4>1 DEF Newest, WindowStart
      <4> QED BY <4>1, <4>2, WindowHoldsInstant, WindowsInOrder
    <3> QED BY <3>1, <3>2 DEF Stores
  <2>5. /\ spent' = [s \in Stores |-> IF Newest(s)' = Newest(s) THEN spent[s] ELSE 0]
        /\ Newest(Redis)' = WindowStart(now')
    BY <1>6 DEF Tick, Newest
  <2>6. NoFutureWindow'
    <3>1. ASSUME NEW s \in Stores PROVE usage'[s].window <= Newest(s)'
      <4>1. usage'[s] \in {usage[s], Absent} /\ usage[s].window \in Nat
        BY <1>1, <2>3 DEF UsageRecord
      <4> QED BY <1>1, <2>4, <4>1 DEF UsageInv, NoFutureWindow
    <3>2. ASSUME NEW p \in Procs PROVE stamp'[p] <= WindowStart(now')
      BY <1>1, <2>1, <2>2 DEF UsageInv, NoFutureWindow
    <3> QED BY <3>1, <3>2 DEF NoFutureWindow, WindowStart
  <2>7. CASE UNCHANGED <<usage, expiresAt>>
    <3>1. SpentIsKept'
      BY <1>1, <2>5, <2>7 DEF UsageInv, SpentIsKept, WindowStart
    <3>2. ASSUME NEW s \in Stores PROVE Current(s)'.tokens >= spent'[s]
      <4>1. CASE Newest(s)' = Newest(s)
        BY <2>5, <2>7, <4>1 DEF Current, UsageInv, UsageIsCounted
      <4>2. CASE Newest(s)' # Newest(s)
        BY <1>1, <2>5, <2>7, <4>2 DEF Current, UsageRecord
      <4> QED BY <4>1, <4>2
    <3> QED BY <2>6, <3>1, <3>2 DEF UsageInv, UsageIsCounted
  <2>8. CASE expiresAt = now' /\ usage' = [usage EXCEPT ![Redis] = Absent]
    <3>1. spent'[Redis] = 0
      <4>1. CASE WindowStart(now') = WindowStart(now)
        <5>1. expiresAt < WindowStart(now) + Window
          BY <2>2, <2>8, <4>1
        <5>2. WindowStart(now) + Window \in Nat
          BY <1>1, RedisAssumption
        <5> QED
          BY <1>1, <2>5, <5>1, <5>2 DEF UsageInv, SpentIsKept
      <4>2. CASE WindowStart(now') # WindowStart(now)
        BY <1>1, <2>5, <4>2
      <4> QED BY <4>1, <4>2
    <3>2. SpentIsKept'
      BY <3>1 DEF SpentIsKept
    <3>3. Current(Redis)'.tokens >= spent'[Redis]
      BY <1>1, <2>8, <3>1 DEF Current
    <3>4. ASSUME NEW s \in Stores \ {Redis} PROVE Current(s)'.tokens >= spent'[s]
      <4>1. usage'[s] = usage[s]
        BY <1>1, <2>8
      <4>2. CASE Newest(s)' = Newest(s)
        BY <2>5, <4>1, <4>2 DEF Current, UsageInv, UsageIsCounted
      <4>3. CASE Newest(s)' # Newest(s)
        BY <1>1, <2>5, <4>1, <4>3 DEF Current, UsageRecord
      <4> QED BY <4>2, <4>3
    <3> QED BY <2>6, <3>2, <3>3, <3>4 DEF UsageInv, UsageIsCounted
  <2> QED
    BY <2>3, <2>7, <2>8
<1>7. ASSUME NEW p \in Procs,
             \/ \E n \in 1..MaxTokens : ReadState(p, n)
             \/ Decide(p) \/ RecordError(p) \/ ExpireErrors(p) \/ ClearErrors(p)
             \/ AcquireLock(p) \/ ReleaseLock(p)
      PROVE  UsageInv'
  <2>1. UNCHANGED <<now, lag, usage, expiresAt, stamp, spent>>
    BY <1>7 DEF ReadState, Decide, RecordError, ExpireErrors, ClearErrors,
                AcquireLock, ReleaseLock, windowVars, fixed
  <2> QED
    BY <2>1, UsageStutters
<1>8. CASE UNCHANGED vars
  BY <1>8, UsageStutters DEF vars, windowVars, fixed
<1> QED
  BY <1>2, <1>3, <1>4, <1>5, <1>6, <1>7, <1>8 DEF Next

(* It holds at the start, where nothing is counted.                         *)
LEMMA UsageInit == Init => UsageInv
<1> SUFFICES ASSUME Init PROVE UsageInv
    OBVIOUS
<1>1. WindowStart(now) \in Nat /\ \A s \in Stores : Newest(s) \in Nat
  BY TypeInit, ClocksRun, WindowHoldsInstant
<1> QED
  BY <1>1 DEF Init, UsageInv, NoFutureWindow, SpentIsKept, UsageIsCounted,
              Current, Absent, Stores

(* No update of the newest window is lost.                                  *)
THEOREM RedisUsageIsCounted == Spec => []UsageIsCounted
<1>1. UsageInv => UsageIsCounted
  BY DEF UsageInv
<1> QED
  BY <1>1, UsageInit, RedisTypeOK, UsageStep, PTL DEF Spec

-----------------------------------------------------------------------------
(* The lock excludes.                                                       *)

(* Whoever has the lock, has it as Redis does.                              *)
LockInv ==
    ~ overrun =>
        /\ \A p \in Procs : lease[p] # 0 => lease[p] = lockUntil /\ lease[p] > now
        /\ \A p, q \in Procs : lease[p] # 0 /\ lease[q] # 0 => p = q

(* Every step keeps it.                                                     *)
LEMMA LockStep == TypeOK /\ LockInv /\ [Next]_vars => LockInv'
<1> SUFFICES ASSUME TypeOK, LockInv, [Next]_vars PROVE LockInv'
    OBVIOUS
<1>1. now \in Nat /\ lockUntil \in Nat /\ lease \in [Procs -> Nat]
  BY DEF TypeOK
<1>2. ASSUME NEW p \in Procs, AcquireLock(p) PROVE LockInv'
  <2>1. /\ overrun' = overrun /\ now' = now
        /\ lockUntil = 0 /\ lockUntil' = now + LockTimeout
        /\ lease' = [lease EXCEPT ![p] = now + LockTimeout]
    BY <1>2 DEF AcquireLock
  <2>2. ~ overrun => \A q \in Procs : lease[q] = 0
    BY <2>1 DEF LockInv
  <2> QED
    BY <1>1, <2>1, <2>2, RedisAssumption DEF LockInv
<1>3. ASSUME NEW p \in Procs, ReleaseLock(p) PROVE LockInv'
  BY <1>1, <1>3 DEF ReleaseLock, LockInv
<1>4. ASSUME NEW p \in Procs, Crash(p) PROVE LockInv'
  BY <1>1, <1>4 DEF Crash, Forget, LockInv
<1>5. CASE Tick
  <2>1. /\ now' = now + 1 /\ lease' = lease
        /\ lockUntil' = IF lockUntil = now' THEN 0 ELSE lockUntil
        /\ ~ overrun' => ~ overrun /\ \A p \in Procs : lease[p] # now'
    BY <1>5 DEF Tick
  <2> QED
    BY <1>1, <2>1 DEF LockInv
<1>6. CASE UNCHANGED <<now, lockVars>>
  BY <1>6 DEF LockInv, lockVars
<1>7. ASSUME NEW p \in Procs,
             \/ \E n \in 1..MaxTokens : ReadState(p, n) \/ UpdateMemory(p, n)
             \/ Decide(p) \/ UpdateTokens(p)
             \/ \E used \in 1..(MaxTokens + MaxExcess) : Stamp(p, used)
             \/ RecordError(p) \/ ExpireErrors(p) \/ ClearErrors(p)
      PROVE  UNCHANGED <<now, lockVars>>
  BY <1>7 DEF ReadState, UpdateMemory, Decide, Stamp, UpdateTokens, RecordError,
              ExpireErrors, ClearErrors, lockVars
<1> QED
  BY <1>2, <1>3, <1>4, <1>5, <1>6, <1>7 DEF Next, vars

(* No two processes have the lock, unless one outlived its lease.           *)
THEOREM RedisLockExcludes == Spec => []LockExcludes
<1>1. Init => LockInv
  BY DEF Init, LockInv
<1>2. ASSUME LockInv PROVE LockExcludes
  <2> SUFFICES ASSUME ~ overrun
               PROVE  Cardinality({p \in Procs : lease[p] # 0}) <= 1
    BY DEF LockExcludes
  <2>1. CASE \A p \in Procs : lease[p] = 0
    <3>1. {p \in Procs : lease[p] # 0} = {}
      BY <2>1
    <3> QED
      BY <3>1, FS_EmptySet
  <2>2. CASE \E p \in Procs : lease[p] # 0
    <3>1. PICK p \in Procs : lease[p] # 0
      BY <2>2
    <3>2. {q \in Procs : lease[q] # 0} = {p}
      BY <1>2, <3>1 DEF LockInv
    <3> QED
      BY <3>2, FS_Singleton
  <2> QED
    BY <2>1, <2>2
<1> QED
  BY <1>1, <1>2, RedisTypeOK, LockStep, PTL DEF Spec

-----------------------------------------------------------------------------
(* No error counter is left without an expiry.                              *)

(* Every step keeps it.                                                     *)
LEMMA ErrorsStep == TypeOK /\ ErrorsLapse /\ [Next]_vars => ErrorsLapse'
<1> SUFFICES ASSUME TypeOK, ErrorsLapse, [Next]_vars PROVE ErrorsLapse'
    OBVIOUS
<1>1. /\ at \in [Procs -> {"idle", "checking", "cleared", "updating", "counted"}]
      /\ now \in Nat /\ errors \in Nat /\ errorsExpireAt \in Nat
  BY DEF TypeOK
<1>2. ASSUME NEW p \in Procs, RecordError(p) PROVE ErrorsLapse'
  <2>1. at'[p] = "counted"
    BY <1>1, <1>2 DEF RecordError, Goes
  <2> QED
    BY <2>1 DEF ErrorsLapse
<1>3. ASSUME NEW p \in Procs, ExpireErrors(p) PROVE ErrorsLapse'
  BY <1>1, <1>3, RedisAssumption DEF ExpireErrors, ErrorsLapse, windowVars
<1>4. ASSUME NEW p \in Procs, ClearErrors(p) PROVE ErrorsLapse'
  BY <1>4 DEF ClearErrors, ErrorsLapse
<1>5. ASSUME NEW p \in Procs, Crash(p) PROVE ErrorsLapse'
  <2>1. /\ errors' = errors /\ errorsExpireAt' = errorsExpireAt
        /\ at' = [at EXCEPT ![p] = "idle"]
        /\ orphaned' = (orphaned \/ (at[p] = "counted" /\ errorsExpireAt = 0))
    BY <1>5 DEF Crash
  <2>2. ASSUME errors' > 0, errorsExpireAt' = 0
        PROVE  orphaned' \/ \E q \in Procs : at'[q] = "counted"
    <3>1. CASE orphaned
      BY <2>1, <3>1
    <3>2. CASE at[p] = "counted"
      BY <2>1, <2>2, <3>2
    <3>3. CASE ~ orphaned /\ at[p] # "counted"
      <4>1. PICK q \in Procs : at[q] = "counted"
        BY <2>1, <2>2, <3>3 DEF ErrorsLapse
      <4>2. at'[q] = "counted"
        BY <1>1, <2>1, <3>3, <4>1
      <4> QED
        BY <4>2
    <3> QED
      BY <3>1, <3>2, <3>3
  <2> QED
    BY <2>2 DEF ErrorsLapse
<1>6. CASE Tick
  <2>1. /\ at' = at
        /\ \/ errors' = 0
           \/ UNCHANGED errorVars
    BY <1>6 DEF Tick
  <2> QED
    BY <2>1 DEF ErrorsLapse, errorVars
<1>7. ASSUME NEW p \in Procs,
             \/ \E n \in 1..MaxTokens : ReadState(p, n) \/ UpdateMemory(p, n)
             \/ Decide(p) \/ UpdateTokens(p)
             \/ \E used \in 1..(MaxTokens + MaxExcess) : Stamp(p, used)
             \/ AcquireLock(p) \/ ReleaseLock(p)
      PROVE  ErrorsLapse'
  <2>1. UNCHANGED errorVars
    BY <1>7 DEF ReadState, UpdateMemory, Decide, Stamp, UpdateTokens, AcquireLock, ReleaseLock
  <2>2. \A q \in Procs : at[q] = "counted" => at'[q] = "counted"
    BY <1>1, <1>7 DEF ReadState, UpdateMemory, Decide, Stamp, UpdateTokens, AcquireLock,
                      ReleaseLock, Goes
  <2> QED
    BY <2>1, <2>2 DEF ErrorsLapse, errorVars
<1>8. CASE UNCHANGED vars
  BY <1>8 DEF vars, errorVars, ErrorsLapse
<1> QED
  BY <1>2, <1>3, <1>4, <1>5, <1>6, <1>7, <1>8 DEF Next

(* Errors lapse, unless a process dies between counting one and saying so.  *)
THEOREM RedisErrorsLapse == Spec => []ErrorsLapse
<1>1. Init => ErrorsLapse
  BY DEF Init, ErrorsLapse
<1> QED
  BY <1>1, RedisTypeOK, ErrorsStep, PTL DEF Spec

-----------------------------------------------------------------------------
(* What the steps do to the stored hash.                                    *)

(* An update starts a newer window with its request, or adds the request.   *)
LEMMA UpdateAdds ==
    ASSUME TypeOK, NEW p \in Procs, UpdateTokens(p)
    PROVE  /\ usage[Redis] \in UsageRecord /\ usage'[Redis] \in UsageRecord
           /\ usage[Redis].window < stamp[p] =>
                 usage'[Redis] = [window |-> stamp[p], tokens |-> need[p], count |-> 1]
           /\ ~ usage[Redis].window < stamp[p] =>
                 /\ usage'[Redis].window = usage[Redis].window
                 /\ usage'[Redis].tokens = usage[Redis].tokens + need[p]
                 /\ usage'[Redis].count = usage[Redis].count + 1
<1> DEFINE u == Counted(usage[Redis], stamp[p], need[p])
<1>1. /\ usage[Redis] \in UsageRecord /\ stamp[p] \in Nat /\ need[p] \in Nat
      /\ Redis \in Stores /\ usage \in [Stores -> UsageRecord]
  BY RedisAssumption DEF TypeOK, Stores
<1>2. usage' = [usage EXCEPT ![Redis] = u]
  BY DEF UpdateTokens
<1>3. usage'[Redis] = u
  BY <1>1, <1>2
<1> QED
  BY <1>1, <1>3, CountedType

(* Every other step leaves it alone, or drops it when it expires.           *)
LEMMA TickClears ==
    ASSUME TypeOK, Tick
    PROVE  usage'[Redis] \in {usage[Redis], Absent}
BY DEF TypeOK, Stores, Tick

LEMMA OthersKeepHash ==
    ASSUME TypeOK, NEW p \in Procs,
           \/ \E n \in 1..MaxTokens : ReadState(p, n) \/ UpdateMemory(p, n)
           \/ \E used \in 1..(MaxTokens + MaxExcess) : Stamp(p, used)
           \/ Decide(p)
           \/ RecordError(p) \/ ExpireErrors(p) \/ ClearErrors(p)
           \/ AcquireLock(p) \/ ReleaseLock(p) \/ Crash(p)
    PROVE  now' = now /\ lag' = lag /\ usage'[Redis] = usage[Redis]
<1>1. p # Redis /\ Redis \in Stores /\ usage \in [Stores -> UsageRecord]
  BY RedisAssumption DEF TypeOK, Stores
<1> QED
  BY <1>1 DEF ReadState, UpdateMemory, Decide, Stamp, RecordError, ExpireErrors, ClearErrors,
              AcquireLock, ReleaseLock, Crash, Forget, windowVars, fixed

(* Where a process finds room it has it, in the hash it read, unless its    *)
(* update will start a newer window.                                        *)
LEMMA RoomIsReal ==
    ASSUME TypeOK, NEW p \in Procs, NEW n \in Nat, NEW s \in UsageRecord,
           HasCapacity(p, s, n)
    PROVE  \/ s.window < WindowStart(Clock(p))
           \/ s.tokens + n <= TpmLimit /\ s.count + 1 <= RpmLimit
<1>1. /\ Clock(p) \in Nat /\ WindowStart(Clock(p)) \in Nat
      /\ Clock(p) < WindowStart(Clock(p)) + Window
  BY ClocksRun, WindowHoldsInstant
<1>2. CASE s = Absent
  BY <1>2, ClocksRun, WindowsAreLate DEF Absent
<1>3. CASE Clock(p) - s.window >= Window
  BY <1>1, <1>3, RedisAssumption DEF UsageRecord
<1>4. CASE s.tokens + n <= TpmLimit /\ s.count < RpmLimit
  BY <1>4, RedisAssumption DEF UsageRecord
<1> QED
  BY <1>2, <1>3, <1>4 DEF HasCapacity

-----------------------------------------------------------------------------
(* Under the lock the limits are exact but for one excess.                  *)

(* An update stamped `window` of at most n tokens starts a newer window, or *)
(* there is room for it.                                                    *)
FitsIn(hash, window, n) ==
    \/ hash.window < window
    \/ hash.tokens + n <= TpmLimit + MaxExcess /\ hash.count + 1 <= RpmLimit

(* Only the lock's holder checks and updates, and what it read still holds. *)
HolderOnly == \A p \in Procs : at[p] \in {"checking", "cleared", "updating"} => lease[p] # 0
SeenHolds == \A p \in Procs : at[p] = "checking" => usage[Redis] \in {seen[p], Absent}
ClearedFits ==
    /\ \A p \in Procs : at[p] = "cleared" =>
          FitsIn(usage[Redis], WindowStart(Clock(p)), need[p] + MaxExcess)
    /\ \A p \in Procs : at[p] = "updating" => FitsIn(usage[Redis], stamp[p], need[p])

WithinLimits ==
    usage[Redis].tokens <= TpmLimit + MaxExcess /\ usage[Redis].count <= RpmLimit

ExactInv ==
    guarded /\ ~ overrun => HolderOnly /\ SeenHolds /\ ClearedFits /\ WithinLimits

(* Every request fits in an empty hash.                                     *)
LEMMA EmptyFits ==
    ASSUME NEW window, NEW n \in 0..(MaxTokens + MaxExcess)
    PROVE  FitsIn(Absent, window, n)
BY RedisAssumption DEF FitsIn, Absent

(* Every step keeps it.                                                     *)
LEMMA ExactStep == TypeOK /\ LockInv /\ ExactInv /\ [Next]_vars => ExactInv'
<1> SUFFICES ASSUME TypeOK, LockInv, ExactInv, [Next]_vars, guarded', ~ overrun'
             PROVE  HolderOnly' /\ SeenHolds' /\ ClearedFits' /\ WithinLimits'
    BY DEF ExactInv
<1>1. guarded /\ ~ overrun
  <2>1. CASE Tick
    BY <2>1 DEF Tick, fixed
  <2>2. CASE UNCHANGED vars
    BY <2>2 DEF vars, lockVars, fixed
  <2>3. ASSUME NEW p \in Procs,
               \/ \E n \in 1..MaxTokens : ReadState(p, n) \/ UpdateMemory(p, n)
               \/ \E used \in 1..(MaxTokens + MaxExcess) : Stamp(p, used)
               \/ Decide(p) \/ UpdateTokens(p)
               \/ RecordError(p) \/ ExpireErrors(p) \/ ClearErrors(p)
               \/ AcquireLock(p) \/ ReleaseLock(p) \/ Crash(p)
        PROVE  UNCHANGED <<guarded, overrun>>
    BY <2>3 DEF ReadState, UpdateMemory, Decide, Stamp, UpdateTokens, RecordError, ExpireErrors,
                ClearErrors, AcquireLock, ReleaseLock, Crash, lockVars, fixed
  <2> QED
    BY <2>1, <2>2, <2>3 DEF Next
<1>2. HolderOnly /\ SeenHolds /\ ClearedFits /\ WithinLimits
  BY <1>1 DEF ExactInv
<1>3. /\ at \in [Procs -> {"idle", "checking", "cleared", "updating", "counted"}]
      /\ need \in [Procs -> 0..(MaxTokens + MaxExcess)]
      /\ \A p \in Procs : at[p] # "updating" => need[p] <= MaxTokens
      /\ seen \in [Procs -> UsageRecord] /\ stamp \in [Procs -> Nat]
      /\ lease \in [Procs -> Nat] /\ now \in Nat
      /\ usage[Redis] \in UsageRecord /\ MaxTokens \in Nat /\ MaxExcess \in Nat
  BY RedisAssumption DEF TypeOK, Stores
<1>4. ASSUME NEW p \in Procs, NEW n \in 1..MaxTokens, ReadState(p, n)
      PROVE  HolderOnly' /\ SeenHolds' /\ ClearedFits' /\ WithinLimits'
  <2>1. now' = now /\ lag' = lag /\ usage'[Redis] = usage[Redis]
    BY <1>4, OthersKeepHash
  <2>2. /\ at' = [at EXCEPT ![p] = "checking"] /\ lease' = lease /\ lease[p] # 0
        /\ seen' = [seen EXCEPT ![p] = usage[Redis]] /\ need' = [need EXCEPT ![p] = n]
        /\ stamp' = stamp
    BY <1>1, <1>4 DEF ReadState, Goes, lockVars
  <2>3. HolderOnly' /\ SeenHolds' /\ WithinLimits'
    BY <1>2, <1>3, <2>1, <2>2 DEF HolderOnly, SeenHolds, WithinLimits
  <2>4. ClearedFits'
    BY <1>2, <1>3, <2>1, <2>2, NewestStays DEF ClearedFits, FitsIn, Clock, WindowStart
  <2> QED BY <2>3, <2>4
<1>5. ASSUME NEW p \in Procs, Decide(p)
      PROVE  HolderOnly' /\ SeenHolds' /\ ClearedFits' /\ WithinLimits'
  <2>1. now' = now /\ lag' = lag /\ usage'[Redis] = usage[Redis]
    BY <1>5, OthersKeepHash
  <2>2. /\ at[p] = "checking" /\ lease' = lease /\ seen' = [seen EXCEPT ![p] = Absent]
        /\ stamp' = stamp
        /\ \/ /\ at' = [at EXCEPT ![p] = "cleared"] /\ need' = need
              /\ HasCapacity(p, seen[p], need[p])
           \/ at' = [at EXCEPT ![p] = "idle"] /\ need' = [need EXCEPT ![p] = 0]
    BY <1>5 DEF Decide, Goes, Forget, lockVars
  <2>3. HasCapacity(p, seen[p], need[p]) =>
            FitsIn(usage[Redis], WindowStart(Clock(p)), need[p] + MaxExcess)
    <3>1. CASE usage[Redis] = Absent
      BY <1>3, <2>2, <3>1, EmptyFits
    <3>2. CASE usage[Redis] = seen[p]
      <4>1. need[p] \in Nat /\ seen[p] \in UsageRecord
        BY <1>3
      <4>2. HasCapacity(p, seen[p], need[p]) =>
               \/ seen[p].window < WindowStart(Clock(p))
               \/ seen[p].tokens + need[p] <= TpmLimit /\ seen[p].count + 1 <= RpmLimit
        BY <4>1, RoomIsReal
      <4> QED BY <1>3, <3>2, <4>1, <4>2, RedisAssumption DEF FitsIn, UsageRecord
    <3> QED BY <1>2, <2>2, <3>1, <3>2 DEF SeenHolds
  <2>4. HolderOnly' /\ SeenHolds' /\ WithinLimits'
    BY <1>2, <1>3, <2>1, <2>2 DEF HolderOnly, SeenHolds, WithinLimits
  <2>5. \A q \in Procs : WindowStart(Clock(q))' = WindowStart(Clock(q))
    BY <2>1 DEF Clock, WindowStart
  <2>6. ClearedFits'
    BY <1>2, <1>3, <2>1, <2>2, <2>3, <2>5 DEF ClearedFits, FitsIn
  <2> QED
    BY <2>4, <2>6
<1>6. ASSUME NEW p \in Procs, NEW used \in 1..(MaxTokens + MaxExcess), Stamp(p, used)
      PROVE  HolderOnly' /\ SeenHolds' /\ ClearedFits' /\ WithinLimits'
  <2>1. now' = now /\ lag' = lag /\ usage'[Redis] = usage[Redis]
    BY <1>6, OthersKeepHash
  <2>2. /\ at[p] = "cleared" /\ at' = [at EXCEPT ![p] = "updating"] /\ lease' = lease
        /\ seen' = seen /\ used <= need[p] + MaxExcess /\ need' = [need EXCEPT ![p] = used]
        /\ stamp' = [stamp EXCEPT ![p] = WindowStart(Clock(p))]
    BY <1>6 DEF Stamp, Goes, lockVars
  <2>3. HolderOnly' /\ SeenHolds' /\ WithinLimits'
    BY <1>2, <1>3, <2>1, <2>2 DEF HolderOnly, SeenHolds, WithinLimits
  <2>4. FitsIn(usage[Redis], WindowStart(Clock(p)), used)
    <3>1. FitsIn(usage[Redis], WindowStart(Clock(p)), need[p] + MaxExcess)
      BY <1>2, <2>2 DEF ClearedFits
    <3> QED BY <1>3, <2>2, <3>1, RedisAssumption DEF FitsIn, UsageRecord
  <2>5. \A q \in Procs : WindowStart(Clock(q))' = WindowStart(Clock(q))
    BY <2>1 DEF Clock, WindowStart
  <2>6. ClearedFits'
    BY <1>2, <1>3, <2>1, <2>2, <2>4, <2>5 DEF ClearedFits, FitsIn
  <2> QED BY <2>3, <2>6
<1>7. ASSUME NEW p \in Procs, UpdateTokens(p)
      PROVE  HolderOnly' /\ SeenHolds' /\ ClearedFits' /\ WithinLimits'
  <2>1. /\ at[p] = "updating" /\ at' = [at EXCEPT ![p] = "idle"] /\ lease' = lease
    BY <1>7 DEF UpdateTokens, Goes, lockVars
  <2>2. \A q \in Procs : at'[q] \notin {"checking", "cleared", "updating"}
    BY <1>1, <1>2, <1>3, <2>1 DEF HolderOnly, LockInv
  <2>3. FitsIn(usage[Redis], stamp[p], need[p]) /\ need[p] \in 0..(MaxTokens + MaxExcess)
    BY <1>2, <1>3, <2>1 DEF ClearedFits
  <2>4. WithinLimits'
    <3>1. CASE usage[Redis].window < stamp[p]
      <4>1. usage'[Redis] = [window |-> stamp[p], tokens |-> need[p], count |-> 1]
        BY <1>7, <3>1, UpdateAdds
      <4>2. need[p] <= TpmLimit + MaxExcess /\ 1 <= RpmLimit
        BY <1>3, RedisAssumption
      <4> QED BY <4>1, <4>2 DEF WithinLimits
    <3>2. CASE ~ usage[Redis].window < stamp[p]
      BY <1>7, <2>3, <3>2, UpdateAdds DEF WithinLimits, FitsIn
    <3> QED BY <3>1, <3>2
  <2> QED
    BY <2>2, <2>4 DEF HolderOnly, SeenHolds, ClearedFits
<1>8. CASE Tick
  <2>1. UNCHANGED <<at, lease, seen, need, stamp, lag>> /\ now' = now + 1
    BY <1>8 DEF Tick, fixed
  <2>2. usage'[Redis] \in {usage[Redis], Absent}
    BY <1>8, TickClears
  <2>3. SeenHolds' /\ HolderOnly' /\ WithinLimits'
    BY <1>2, <2>1, <2>2, RedisAssumption DEF SeenHolds, HolderOnly, WithinLimits, Absent
  <2>4. \A p \in Procs : /\ WindowStart(Clock(p)) \in Nat /\ WindowStart(Clock(p))' \in Nat
                         /\ WindowStart(Clock(p)) <= WindowStart(Clock(p))'
    BY <2>1, ClocksLater
  <2>5. ASSUME NEW p \in Procs, at'[p] = "cleared"
        PROVE  FitsIn(usage[Redis], WindowStart(Clock(p)), need[p] + MaxExcess)'
    <3>1. PICK w \in Nat, v \in Nat :
             w = WindowStart(Clock(p)) /\ v = WindowStart(Clock(p))' /\ w <= v
      BY <2>4
    <3>2. need'[p] + MaxExcess = need[p] + MaxExcess
      BY <2>1
    <3>3. need[p] + MaxExcess \in 0..(MaxTokens + MaxExcess)
      BY <1>3, <2>1, <2>5
    <3>4. FitsIn(usage[Redis], w, need[p] + MaxExcess)
      BY <1>2, <2>1, <2>5, <3>1 DEF ClearedFits
    <3>5. FitsIn(usage[Redis], v, need[p] + MaxExcess)
      BY <1>3, <3>1, <3>4 DEF FitsIn, UsageRecord
    <3>6. FitsIn(usage'[Redis], v, need[p] + MaxExcess)
      BY <2>2, <3>3, <3>5, EmptyFits
    <3> QED BY <3>1, <3>2, <3>6 DEF FitsIn
  <2>6. ASSUME NEW p \in Procs, at'[p] = "updating"
        PROVE  FitsIn(usage[Redis], stamp[p], need[p])'
    <3>1. FitsIn(usage[Redis], stamp[p], need[p])
      BY <1>2, <2>1, <2>6 DEF ClearedFits
    <3>2. FitsIn(Absent, stamp[p], need[p])
      BY <1>3, EmptyFits
    <3> QED BY <2>1, <2>2, <3>1, <3>2 DEF FitsIn
  <2> QED
    BY <2>3, <2>5, <2>6 DEF ClearedFits
<1>9. ASSUME NEW p \in Procs,
             \/ \E n \in 1..MaxTokens : UpdateMemory(p, n)
             \/ RecordError(p) \/ ExpireErrors(p) \/ ClearErrors(p)
             \/ AcquireLock(p) \/ ReleaseLock(p) \/ Crash(p)
      PROVE  HolderOnly' /\ SeenHolds' /\ ClearedFits' /\ WithinLimits'
  <2>1. now' = now /\ lag' = lag /\ usage'[Redis] = usage[Redis]
    BY <1>9, OthersKeepHash
  <2>2. /\ HolderOnly'
        /\ \A q \in Procs : at'[q] = "checking" => at[q] = "checking" /\ seen'[q] = seen[q]
        /\ \A q \in Procs : at'[q] \in {"cleared", "updating"} =>
              at[q] = at'[q] /\ need'[q] = need[q] /\ stamp'[q] = stamp[q]
    BY <1>2, <1>3, <1>9, RedisAssumption
       DEF UpdateMemory, RecordError, ExpireErrors, ClearErrors, AcquireLock,
           ReleaseLock, Crash, Goes, Forget, windowVars, lockVars, HolderOnly
  <2>3. \A q \in Procs : WindowStart(Clock(q))' = WindowStart(Clock(q))
    BY <2>1 DEF Clock, WindowStart
  <2> QED
    BY <1>2, <2>1, <2>2, <2>3 DEF SeenHolds, ClearedFits, WithinLimits, FitsIn
<1>10. CASE UNCHANGED vars
  <2>1. UNCHANGED <<now, lag, usage, at, lease, seen, need, stamp>>
    BY <1>10 DEF vars, windowVars, lockVars, fixed
  <2> QED
    BY <1>2, <2>1
       DEF HolderOnly, SeenHolds, ClearedFits, WithinLimits, FitsIn, Clock, WindowStart
<1> QED
  BY <1>4, <1>5, <1>6, <1>7, <1>8, <1>9, <1>10 DEF Next

(* At the start nobody has the lock and nothing is counted.                 *)
LEMMA ExactInit == Init => ExactInv
BY RedisAssumption
   DEF Init, ExactInv, HolderOnly, SeenHolds, ClearedFits, WithinLimits, Absent, Stores

(* With the lock around check and update, no limit is exceeded by more than *)
(* one excess.                                                              *)
THEOREM RedisExactUnderLock == Spec => []ExactUnderLock
<1>1. TypeOK /\ LockInv /\ ExactInv /\ [Next]_vars => TypeOK' /\ LockInv' /\ ExactInv'
  BY TypeStep, LockStep, ExactStep
<1>2. ExactInv => ExactUnderLock
  BY DEF ExactInv, ExactUnderLock, WithinLimits
<1>3. Init => LockInv
  BY DEF Init, LockInv
<1> QED
  BY <1>1, <1>2, <1>3, TypeInit, ExactInit, PTL DEF Spec

-----------------------------------------------------------------------------
(* Without the lock, what processes have in flight bounds the excess.       *)

Most == MaxTokens + MaxExcess
Extra(k) == k * Most
Slack == TpmLimit + MaxExcess + Extra(Cardinality(Procs) - 1)

(* Whatever of t tokens and k requests is counted, there is room for those  *)
(* the processes of S are about to record.                                  *)
WithinBudget(S, tokensOf, t, k) ==
    /\ k + Cardinality(S) <= RpmLimit + Cardinality(Procs) - 1
    /\ \/ S = {} /\ t <= Slack
       \/ \E p \in S : t + tokensOf[p] + Extra(Cardinality(S) - 1) <= Slack

LEMMA MostType == Most \in Nat /\ Most <= TpmLimit + MaxExcess /\ MaxExcess \in Nat
BY RedisAssumption DEF Most

LEMMA ExtraIsLinear ==
    ASSUME NEW k \in Int
    PROVE  Extra(k) \in Int /\ Extra(k + 1) = Extra(k) + Most /\ Extra(0) = 0
BY RedisAssumption, MostType DEF Extra

LEMMA ExtraGrows ==
    ASSUME NEW k \in Nat, NEW m \in Nat, k <= m
    PROVE  Extra(k) <= Extra(m)
<1>1. /\ Most \in Nat /\ m - k \in Nat
  BY RedisAssumption, MostType
<1>2. (m - k) * Most >= 0
  BY <1>1
<1>3. m * Most = k * Most + (m - k) * Most
  BY <1>1
<1> QED
  BY <1>1, <1>2, <1>3 DEF Extra

(* The processes are finitely many, at least one.                           *)
LEMMA Subsets ==
    ASSUME NEW S \in SUBSET Procs
    PROVE  /\ IsFiniteSet(S) /\ Cardinality(S) \in Nat
           /\ Cardinality(S) <= Cardinality(Procs)
           /\ Cardinality(Procs) \in Nat \ {0}
           /\ Slack \in Int /\ Slack >= TpmLimit + MaxExcess
           /\ S # {} => Cardinality(S) >= 1
<1>1. /\ IsFiniteSet(S) /\ Cardinality(S) \in Nat /\ Cardinality(S) <= Cardinality(Procs)
      /\ Cardinality(Procs) \in Nat /\ Cardinality(Procs) # 0 /\ (S # {} => Cardinality(S) # 0)
  BY RedisAssumption, MostType, FS_Subset, FS_CardinalityType, FS_EmptySet
<1>2. Extra(Cardinality(Procs) - 1) \in Int /\ Extra(Cardinality(Procs) - 1) >= 0
  BY <1>1, ExtraIsLinear, ExtraGrows
<1> QED
  BY <1>1, <1>2, RedisAssumption, MostType DEF Slack

(* With nothing counted there is room for everyone.                         *)
LEMMA BudgetFresh ==
    ASSUME NEW S \in SUBSET Procs, NEW f \in [Procs -> 0..Most]
    PROVE  WithinBudget(S, f, 0, 0)
<1>1. 0 + Cardinality(S) <= RpmLimit + Cardinality(Procs) - 1
  BY Subsets, RedisAssumption, MostType
<1>2. CASE S = {}
  BY <1>1, <1>2, Subsets, RedisAssumption, MostType DEF WithinBudget
<1>3. CASE S # {}
  <2>1. PICK p \in S : TRUE
    BY <1>3
  <2>2. Extra(Cardinality(S) - 1) <= Extra(Cardinality(Procs) - 1)
    BY <1>3, Subsets, ExtraGrows
  <2>3. 0 + f[p] + Extra(Cardinality(S) - 1) <= Slack
    BY <1>3, <2>2, Subsets, ExtraIsLinear, RedisAssumption, MostType DEF Slack
  <2> QED
    BY <1>1, <2>3 DEF WithinBudget
<1> QED
  BY <1>2, <1>3

(* One more, for which there is room.                                       *)
LEMMA BudgetJoins ==
    ASSUME NEW S \in SUBSET Procs, NEW f \in [Procs -> 0..Most], NEW p \in S,
           NEW t \in Nat, NEW k \in Nat, t + f[p] <= TpmLimit + MaxExcess, k + 1 <= RpmLimit
    PROVE  WithinBudget(S, f, t, k)
<1>1. Extra(Cardinality(S) - 1) <= Extra(Cardinality(Procs) - 1)
  BY Subsets, ExtraGrows
<1>2. t + f[p] + Extra(Cardinality(S) - 1) <= Slack
  BY <1>1, Subsets, ExtraIsLinear, RedisAssumption, MostType DEF Slack
<1>3. k + Cardinality(S) <= RpmLimit + Cardinality(Procs) - 1
  BY Subsets, RedisAssumption, MostType
<1> QED
  BY <1>2, <1>3 DEF WithinBudget

(* One of them records what it had in flight, or less.                      *)
LEMMA BudgetLeaves ==
    ASSUME NEW S \in SUBSET Procs, NEW p \in S,
           NEW f \in [Procs -> 0..Most], NEW g, \A q \in S \ {p} : g[q] = f[q],
           NEW t \in Nat, NEW k \in Nat, NEW t1 \in Nat, NEW k1 \in Nat,
           WithinBudget(S, f, t, k), t1 <= t + f[p], k1 <= k + 1
    PROVE  WithinBudget(S \ {p}, g, t1, k1)
<1> DEFINE n == Cardinality(S)
<1>1. /\ n \in Nat /\ n >= 1 /\ Cardinality(S \ {p}) = n - 1
      /\ Cardinality(Procs) \in Nat /\ Slack \in Int
  BY Subsets, FS_RemoveElement
<1>2. k1 + Cardinality(S \ {p}) <= RpmLimit + Cardinality(Procs) - 1
  BY <1>1, RedisAssumption, MostType DEF WithinBudget
<1>3. PICK w \in S : t + f[w] + Extra(n - 1) <= Slack
  BY DEF WithinBudget
<1>4. /\ Extra(n - 2) \in Int /\ Extra(n - 1) = Extra(n - 2) + Most
      /\ \A q \in S : f[q] \in Nat /\ f[q] <= Most
  <2>1. n - 2 \in Int /\ (n - 2) + 1 = n - 1
    BY <1>1
  <2> QED
    BY <2>1, ExtraIsLinear, RedisAssumption, MostType
<1>5. CASE S \ {p} = {}
  <2>1. n = 1 /\ w = p
    <3>1. Cardinality(S \ {p}) = 0
      BY <1>5, FS_EmptySet
    <3> HIDE DEF n
    <3>2. n = 1
      BY <1>1, <3>1
    <3> QED
      BY <1>5, <3>2
  <2>2. t1 <= Slack
    BY <1>1, <1>3, <1>4, <2>1, ExtraIsLinear
  <2> QED
    BY <1>2, <1>5, <2>2 DEF WithinBudget
<1>6. ASSUME NEW q \in S \ {p}, w = p \/ w = q PROVE WithinBudget(S \ {p}, g, t1, k1)
  <2>1. t1 + g[q] + Extra(n - 2) <= Slack
    BY <1>1, <1>3, <1>4, <1>6, RedisAssumption, MostType
  <2>2. (n - 1) - 1 = n - 2
    BY <1>1
  <2> QED
    BY <1>1, <1>2, <2>1, <2>2 DEF WithinBudget
<1> QED
  BY <1>5, <1>6

(* Less is counted, or fewer, with less, are in flight.                     *)
LEMMA BudgetShrinks ==
    ASSUME NEW S \in SUBSET Procs, NEW R \in SUBSET S,
           NEW f \in [Procs -> 0..Most], NEW g \in [Procs -> 0..Most],
           \A q \in R : g[q] <= f[q],
           NEW t \in Nat, NEW k \in Nat, WithinBudget(S, f, t, k)
    PROVE  WithinBudget(R, g, t, k)
<1> DEFINE n == Cardinality(S)  m == Cardinality(R)
<1>1. /\ n \in Nat /\ m \in Nat /\ m <= n /\ Cardinality(Procs) \in Nat /\ Slack \in Int
      /\ R # {} => m >= 1
      /\ S # {} => n >= 1
  BY Subsets, FS_Subset, FS_CardinalityType
<1>2. k + m <= RpmLimit + Cardinality(Procs) - 1
  BY <1>1, RedisAssumption DEF WithinBudget
<1>3. CASE S = {} /\ t <= Slack
  BY <1>2, <1>3 DEF WithinBudget
<1>4. ASSUME NEW w \in S, t + f[w] + Extra(n - 1) <= Slack
      PROVE  WithinBudget(R, g, t, k)
  <2>1. /\ n - 1 \in Nat /\ Extra(n - 1) \in Nat /\ f[w] \in Nat
    <3>1. n - 1 \in Nat BY <1>1, <1>4
    <3>2. Extra(n - 1) \in Int /\ Extra(0) = 0 /\ Extra(0) <= Extra(n - 1)
      BY <3>1, ExtraIsLinear, ExtraGrows
    <3> QED BY <3>1, <3>2, MostType
  <2>2. CASE R = {}
    <3>1. t <= Slack BY <1>1, <1>4, <2>1
    <3> QED BY <1>2, <2>2, <3>1 DEF WithinBudget
  <2>3. CASE R # {} /\ w \in R
    <3>1. m - 1 \in Nat /\ Extra(m - 1) \in Int /\ Extra(m - 1) <= Extra(n - 1)
      <4>1. m - 1 \in Nat /\ m - 1 <= n - 1 /\ m - 1 \in Int
        BY <1>1, <2>1, <2>3
      <4> QED BY <2>1, <4>1, ExtraIsLinear, ExtraGrows
    <3>2. g[w] \in Nat /\ g[w] <= f[w]
      BY <2>3, MostType
    <3>3. t + g[w] + Extra(m - 1) <= Slack
      BY <1>1, <1>4, <2>1, <3>1, <3>2
    <3> QED BY <1>2, <2>3, <3>3 DEF WithinBudget
  <2>4. CASE R # {} /\ w \notin R
    <3>1. PICK v \in R : TRUE BY <2>4
    <3>2. m <= n - 1
      <4>1. IsFiniteSet(S) BY Subsets
      <4>2. Cardinality(S \ {w}) = n - 1 /\ IsFiniteSet(S \ {w})
        BY <4>1, FS_RemoveElement
      <4>3. R \subseteq S \ {w} BY <2>4
      <4>4. Cardinality(R) <= Cardinality(S \ {w}) BY <4>2, <4>3, FS_Subset
      <4> QED BY <4>2, <4>4
    <3>3. m - 1 \in Nat /\ (m - 1) + 1 = m /\ m \in Int
      BY <1>1, <2>4
    <3>4. /\ Extra(m - 1) \in Int /\ Extra(m) \in Int /\ Extra(m) = Extra(m - 1) + Most
          /\ Extra(m) <= Extra(n - 1)
      BY <1>1, <2>1, <3>2, <3>3, ExtraIsLinear, ExtraGrows
    <3>5. g[v] \in Nat /\ g[v] <= Most
      BY <3>1, MostType
    <3>6. t + g[v] + Extra(m - 1) <= Slack
      BY <1>1, <1>4, <2>1, <3>4, <3>5, MostType
    <3> QED BY <1>2, <3>1, <3>6 DEF WithinBudget
  <2> QED BY <2>2, <2>3, <2>4
<1> QED
  BY <1>3, <1>4 DEF WithinBudget

(* What a process may still record.                                         *)
Claim == [p \in Procs |-> IF at[p] = "updating" THEN need[p] ELSE need[p] + MaxExcess]

(* The window its update is, or would now be, stamped with.                 *)
Stamped(p) == IF at[p] = "updating" THEN stamp[p] ELSE WindowStart(Clock(p))

(* The processes whose update will add to the stored hash: they go on and   *)
(* do not start a newer window.  One that has read another hash may go on.  *)
InFlight == {p \in Procs :
                /\ Stamped(p) <= usage[Redis].window
                /\ \/ at[p] \in {"cleared", "updating"}
                   \/ /\ at[p] = "checking"
                      /\ \/ seen[p].window # usage[Redis].window
                         \/ HasCapacity(p, seen[p], need[p])}

BudgetInv == WithinBudget(InFlight, Claim, usage[Redis].tokens, usage[Redis].count)

LEMMA ClaimType ==
    ASSUME TypeOK
    PROVE  Claim \in [Procs -> 0..Most] /\ InFlight \in SUBSET Procs
BY RedisAssumption DEF TypeOK, Claim, Most, InFlight

(* Every step keeps the budget.                                             *)
LEMMA BudgetStep == TypeOK /\ BudgetInv /\ [Next]_vars => BudgetInv'
<1> SUFFICES ASSUME TypeOK, BudgetInv, [Next]_vars PROVE BudgetInv'
    OBVIOUS
<1> DEFINE t == usage[Redis].tokens
           k == usage[Redis].count
           W == usage[Redis].window
<1>1. /\ at \in [Procs -> {"idle", "checking", "cleared", "updating", "counted"}]
      /\ need \in [Procs -> 0..(MaxTokens + MaxExcess)] /\ seen \in [Procs -> UsageRecord]
      /\ \A p \in Procs : at[p] # "updating" => need[p] <= MaxTokens
      /\ stamp \in [Procs -> Nat] /\ usage[Redis] \in UsageRecord
      /\ t \in Nat /\ k \in Nat /\ W \in Nat /\ MaxTokens \in Nat /\ MaxExcess \in Nat
      /\ InFlight \in SUBSET Procs /\ Claim \in [Procs -> 0..Most]
      /\ Redis \in Stores
  BY ClaimType, RedisAssumption DEF TypeOK, Stores, UsageRecord
<1>2. WithinBudget(InFlight, Claim, t, k)
  BY DEF BudgetInv
<1>3. Claim' \in [Procs -> 0..Most] /\ InFlight' \in SUBSET Procs
  <2>1. TypeOK' BY TypeStep
  <2> QED BY <2>1, RedisAssumption DEF TypeOK, Claim, Most, InFlight
<1>4. ASSUME usage'[Redis] = usage[Redis], InFlight' \subseteq InFlight,
             \A q \in InFlight' : Claim'[q] <= Claim[q]
      PROVE  BudgetInv'
  <2>1. WithinBudget(InFlight', Claim', t, k)
    BY <1>1, <1>2, <1>3, <1>4, BudgetShrinks
  <2> QED BY <1>4, <2>1 DEF BudgetInv
<1>5. ASSUME now' = now, lag' = lag
      PROVE  \A q \in Procs : Clock(q)' = Clock(q) /\ WindowStart(Clock(q))' = WindowStart(Clock(q))
  BY <1>5 DEF Clock, WindowStart
<1>6. ASSUME NEW p \in Procs, NEW n \in 1..MaxTokens, ReadState(p, n) PROVE BudgetInv'
  <2>1. usage'[Redis] = usage[Redis] /\ now' = now /\ lag' = lag
    BY <1>6, OthersKeepHash
  <2>2. /\ at[p] = "idle" /\ at' = [at EXCEPT ![p] = "checking"] /\ stamp' = stamp
        /\ seen' = [seen EXCEPT ![p] = usage[Redis]] /\ need' = [need EXCEPT ![p] = n]
    BY <1>6 DEF ReadState, Goes
  <2>3. \A q \in Procs \ {p} : Claim'[q] = Claim[q] /\ (q \in InFlight' <=> q \in InFlight)
    BY <1>1, <1>5, <2>1, <2>2 DEF Claim, InFlight, HasCapacity, Stamped
  <2>4. CASE p \in InFlight'
    <3>1. WindowStart(Clock(p)) <= W /\ HasCapacity(p, usage[Redis], n)
      BY <1>1, <1>5, <2>1, <2>2, <2>4 DEF InFlight, HasCapacity, Stamped
    <3>2. WindowStart(Clock(p)) \in Nat
      BY ClocksRun, WindowHoldsInstant
    <3>3. t + n <= TpmLimit /\ k + 1 <= RpmLimit
      BY <1>1, <3>1, <3>2, RoomIsReal
    <3>4. Claim'[p] = n + MaxExcess
      BY <1>1, <2>2 DEF Claim
    <3>5. t + Claim'[p] <= TpmLimit + MaxExcess
      BY <1>1, <3>3, <3>4, RedisAssumption
    <3>6. WithinBudget(InFlight', Claim', t, k)
      BY <1>1, <1>3, <2>4, <3>3, <3>5, BudgetJoins
    <3> QED BY <2>1, <3>6 DEF BudgetInv
  <2>5. CASE p \notin InFlight'
    <3>1. InFlight' \subseteq InFlight /\ \A q \in InFlight' : Claim'[q] = Claim[q]
      BY <1>3, <2>3, <2>5
    <3> QED BY <1>1, <1>4, <2>1, <3>1, MostType
  <2> QED BY <2>4, <2>5
<1>7. ASSUME NEW p \in Procs, Decide(p) PROVE BudgetInv'
  <2>1. usage'[Redis] = usage[Redis] /\ now' = now /\ lag' = lag
    BY <1>7, OthersKeepHash
  <2>2. /\ at[p] = "checking" /\ seen' = [seen EXCEPT ![p] = Absent] /\ stamp' = stamp
        /\ \/ /\ at' = [at EXCEPT ![p] = "cleared"] /\ need' = need
              /\ HasCapacity(p, seen[p], need[p])
           \/ at' = [at EXCEPT ![p] = "idle"] /\ need' = [need EXCEPT ![p] = 0]
    BY <1>7 DEF Decide, Goes, Forget
  <2>3. \A q \in Procs \ {p} : Claim'[q] = Claim[q] /\ (q \in InFlight' <=> q \in InFlight)
    BY <1>1, <1>5, <2>1, <2>2 DEF Claim, InFlight, HasCapacity, Stamped
  <2>4. p \in InFlight' => p \in InFlight /\ Claim'[p] = Claim[p]
    BY <1>1, <1>5, <2>1, <2>2 DEF Claim, InFlight, HasCapacity, Stamped
  <2>5. InFlight' \subseteq InFlight /\ \A q \in InFlight' : Claim'[q] = Claim[q]
    BY <1>3, <2>3, <2>4
  <2> QED BY <1>1, <1>4, <2>1, <2>5, MostType
<1>8. ASSUME NEW p \in Procs, NEW used \in 1..(MaxTokens + MaxExcess), Stamp(p, used)
      PROVE  BudgetInv'
  <2>1. usage'[Redis] = usage[Redis] /\ now' = now /\ lag' = lag
    BY <1>8, OthersKeepHash
  <2>2. /\ at[p] = "cleared" /\ at' = [at EXCEPT ![p] = "updating"] /\ seen' = seen
        /\ used <= need[p] + MaxExcess /\ need' = [need EXCEPT ![p] = used]
        /\ stamp' = [stamp EXCEPT ![p] = WindowStart(Clock(p))]
    BY <1>8 DEF Stamp, Goes
  <2>3. \A q \in Procs \ {p} : Claim'[q] = Claim[q] /\ (q \in InFlight' <=> q \in InFlight)
    BY <1>1, <1>5, <2>1, <2>2 DEF Claim, InFlight, HasCapacity, Stamped
  <2>4. p \in InFlight' => p \in InFlight
    BY <1>1, <1>5, <2>1, <2>2 DEF InFlight, Stamped
  <2>5. Claim'[p] = used /\ Claim[p] = need[p] + MaxExcess
    BY <1>1, <2>2 DEF Claim
  <2>6. ASSUME NEW q \in InFlight' PROVE Claim'[q] <= Claim[q] /\ q \in InFlight
    <3>1. q \in Procs BY <1>3
    <3>2. CASE q = p BY <2>2, <2>4, <2>5, <3>2
    <3>3. CASE q # p
      <4>1. Claim'[q] = Claim[q] /\ Claim[q] \in 0..Most /\ q \in InFlight
        BY <1>1, <2>3, <2>6, <3>1, <3>3
      <4> QED BY <4>1, MostType
    <3> QED BY <3>2, <3>3
  <2> QED BY <1>4, <2>1, <2>6
<1>9. ASSUME NEW p \in Procs, UpdateTokens(p) PROVE BudgetInv'
  <2>1. /\ now' = now /\ lag' = lag /\ seen' = seen /\ need' = [need EXCEPT ![p] = 0]
        /\ at[p] = "updating" /\ at' = [at EXCEPT ![p] = "idle"]
        /\ stamp' = [stamp EXCEPT ![p] = 0]
    BY <1>9 DEF UpdateTokens, Goes, Forget, fixed
  <2>2. /\ p \notin InFlight' /\ Claim[p] = need[p] /\ need[p] \in Nat
        /\ \A q \in Procs \ {p} : Claim'[q] = Claim[q]
    BY <1>1, <2>1 DEF InFlight, Claim
  <2>3. CASE W < stamp[p]
    <3>1. usage'[Redis].tokens = need[p] /\ usage'[Redis].count = 1
      <4>1. usage'[Redis] = [window |-> stamp[p], tokens |-> need[p], count |-> 1]
        BY <1>9, <2>3, UpdateAdds
      <4> QED BY <4>1
    <3>2. PICK S \in SUBSET Procs : S = InFlight' \cup {p}
      BY <1>3
    <3>3. WithinBudget(S, Claim, 0, 0)
      BY <1>1, BudgetFresh
    <3>4. S \ {p} = InFlight' /\ p \in S /\ \A q \in S \ {p} : Claim'[q] = Claim[q]
      BY <2>2, <3>2
    <3>5. 0 \in Nat /\ 1 \in Nat /\ need[p] <= 0 + Claim[p] /\ 1 <= 0 + 1
      BY <2>2
    <3>6. WithinBudget(S \ {p}, Claim', need[p], 1)
      BY <1>1, <2>2, <3>3, <3>4, <3>5, BudgetLeaves
    <3> QED BY <3>1, <3>4, <3>6 DEF BudgetInv
  <2>4. CASE ~ W < stamp[p]
    <3>1. /\ usage'[Redis].window = W /\ usage'[Redis].tokens = t + need[p]
          /\ usage'[Redis].count = k + 1
      BY <1>9, <2>4, UpdateAdds
    <3>2. p \in InFlight
      BY <1>1, <2>1, <2>4 DEF InFlight, Stamped
    <3>3. InFlight' = InFlight \ {p}
      BY <1>1, <1>5, <2>1, <3>1 DEF InFlight, Stamped, HasCapacity
    <3>4. WithinBudget(InFlight \ {p}, Claim', t + need[p], k + 1)
      <4>1. t + need[p] \in Nat /\ k + 1 \in Nat /\ t + need[p] <= t + Claim[p] /\ k + 1 <= k + 1
        BY <1>1, <2>2
      <4>2. \A q \in InFlight \ {p} : Claim'[q] = Claim[q]
        BY <1>1, <2>2
      <4> QED BY <1>1, <1>2, <3>2, <4>1, <4>2, BudgetLeaves
    <3> QED BY <3>1, <3>3, <3>4 DEF BudgetInv
  <2> QED BY <2>3, <2>4
<1>10. ASSUME NEW p \in Procs, Crash(p) PROVE BudgetInv'
  <2>1. usage'[Redis] = usage[Redis] /\ now' = now /\ lag' = lag
    BY <1>10, OthersKeepHash
  <2>2. /\ at' = [at EXCEPT ![p] = "idle"] /\ need' = [need EXCEPT ![p] = 0]
        /\ seen' = [seen EXCEPT ![p] = Absent] /\ stamp' = [stamp EXCEPT ![p] = 0]
    BY <1>10 DEF Crash, Forget
  <2>3. /\ p \notin InFlight'
        /\ \A q \in Procs \ {p} : Claim'[q] = Claim[q] /\ (q \in InFlight' <=> q \in InFlight)
    BY <1>1, <1>5, <2>1, <2>2 DEF Claim, InFlight, HasCapacity, Stamped
  <2>4. InFlight' \subseteq InFlight /\ \A q \in InFlight' : Claim'[q] = Claim[q]
    BY <1>3, <2>3
  <2> QED BY <1>1, <1>4, <2>1, <2>4, MostType
<1>11. CASE Tick
  <2>1. UNCHANGED <<at, need, seen, stamp, lag>> /\ now' = now + 1
    BY <1>11 DEF Tick, fixed
  <2>2. Claim' = Claim
    BY <2>1 DEF Claim
  <2>3. CASE usage'[Redis] = Absent
    <3>1. WithinBudget(InFlight', Claim', 0, 0)
      BY <1>3, BudgetFresh
    <3> QED BY <2>3, <3>1 DEF BudgetInv, Absent
  <2>4. CASE usage'[Redis] = usage[Redis]
    <3>1. ASSUME NEW p \in InFlight' PROVE p \in InFlight
      <4>1. p \in Procs BY <1>3
      <4>2. PICK c \in Nat, w \in Nat, v \in Nat :
               /\ c = Clock(p) /\ Clock(p)' = c + 1 /\ w = WindowStart(Clock(p))
               /\ v = WindowStart(Clock(p))' /\ w <= v /\ c < w + Window /\ c + 1 < v + Window
        <5>1. Clock(p) \in Nat /\ Clock(p)' = Clock(p) + 1
          BY <2>1, <4>1, ClocksRun, ClocksLater
        <5>2. WindowStart(Clock(p))' = WindowStart(Clock(p) + 1)
          BY <5>1 DEF WindowStart
        <5>3. /\ WindowStart(Clock(p)) \in Nat /\ Clock(p) < WindowStart(Clock(p)) + Window
              /\ WindowStart(Clock(p) + 1) \in Nat
              /\ Clock(p) + 1 < WindowStart(Clock(p) + 1) + Window
              /\ WindowStart(Clock(p)) <= WindowStart(Clock(p) + 1)
          BY <5>1, WindowHoldsInstant, WindowsInOrder
        <5> QED BY <5>1, <5>2, <5>3
      <4>3. CASE at[p] = "updating"
        BY <2>1, <2>4, <4>1, <4>3 DEF InFlight, Stamped
      <4>4. CASE at[p] = "cleared"
        BY <1>1, <2>1, <2>4, <4>1, <4>2, <4>4 DEF InFlight, Stamped
      <4>5. CASE at[p] = "checking"
        <5>1. v <= W /\ w <= W
          BY <1>1, <2>1, <2>4, <3>1, <4>2, <4>5 DEF InFlight, Stamped
        <5>2. CASE seen[p].window # W
          BY <4>1, <4>2, <4>5, <5>1, <5>2 DEF InFlight, Stamped
        <5>3. CASE seen[p].window = W
          <6>1. \/ seen[p] = Absent
                \/ (c + 1) - W >= Window
                \/ seen[p].tokens + need[p] <= TpmLimit /\ seen[p].count < RpmLimit
            BY <2>1, <2>4, <3>1, <4>2, <4>5, <5>3 DEF InFlight, HasCapacity
          <6>2. ~ (c + 1) - W >= Window
            BY <1>1, <4>2, <5>1, RedisAssumption
          <6>3. HasCapacity(p, seen[p], need[p])
            BY <6>1, <6>2 DEF HasCapacity
          <6> QED BY <4>1, <4>2, <4>5, <5>1, <6>3 DEF InFlight, Stamped
        <5> QED BY <5>2, <5>3
      <4> QED BY <2>1, <3>1, <4>3, <4>4, <4>5 DEF InFlight
    <3>2. \A q \in InFlight' : Claim'[q] <= Claim[q]
      BY <1>1, <1>3, <2>2, MostType
    <3> QED BY <1>4, <2>4, <3>1, <3>2
  <2> QED
    BY <1>11, <2>3, <2>4, TickClears
<1>12. ASSUME NEW p \in Procs,
             \/ \E n \in 1..MaxTokens : UpdateMemory(p, n)
             \/ RecordError(p) \/ ExpireErrors(p) \/ ClearErrors(p)
             \/ AcquireLock(p) \/ ReleaseLock(p)
      PROVE  BudgetInv'
  <2>1. usage'[Redis] = usage[Redis] /\ now' = now /\ lag' = lag
    BY <1>12, OthersKeepHash
  <2>2. UNCHANGED <<need, seen, stamp>>
    BY <1>12 DEF UpdateMemory, RecordError, ExpireErrors, ClearErrors, AcquireLock,
                 ReleaseLock, windowVars
  <2>3. \A q \in Procs : at'[q] = at[q] \/ {at[q], at'[q]} \subseteq {"idle", "counted"}
    BY <1>1, <1>12 DEF UpdateMemory, RecordError, ExpireErrors, ClearErrors, AcquireLock,
                       ReleaseLock, Goes
  <2>4. InFlight' \subseteq InFlight
    BY <1>1, <1>5, <2>1, <2>2, <2>3 DEF InFlight, HasCapacity, Stamped
  <2>5. \A q \in Procs : Claim'[q] = Claim[q]
    BY <1>1, <2>2, <2>3 DEF Claim
  <2> QED BY <1>1, <1>3, <1>4, <2>1, <2>4, <2>5, MostType
<1>13. CASE UNCHANGED vars
  <2>1. UNCHANGED <<now, lag, usage, at, seen, need, stamp>>
    BY <1>13 DEF vars, windowVars, fixed
  <2> QED
    BY <2>1 DEF BudgetInv, InFlight, HasCapacity, Stamped, Claim, Clock, WindowStart, WithinBudget
<1> QED
  BY <1>6, <1>7, <1>8, <1>9, <1>10, <1>11, <1>12, <1>13 DEF Next

(* Without the lock, N processes exceed a limit by at most one's excess and *)
(* N - 1 requests.                                                          *)
THEOREM RedisOvershootBounded == Spec => []OvershootBounded
<1>1. ASSUME Init PROVE BudgetInv
  <2>1. usage[Redis].tokens = 0 /\ usage[Redis].count = 0
    BY <1>1 DEF Init, Stores, Absent
  <2>2. InFlight \in SUBSET Procs /\ Claim \in [Procs -> 0..Most]
    BY <1>1, TypeInit, ClaimType
  <2> QED
    BY <2>1, <2>2, BudgetFresh DEF BudgetInv
<1>2. TypeOK /\ BudgetInv /\ [Next]_vars => TypeOK' /\ BudgetInv'
  BY TypeStep, BudgetStep
<1>3. ASSUME TypeOK, BudgetInv PROVE OvershootBounded
  <2> DEFINE t == usage[Redis].tokens
             k == usage[Redis].count
             n == Cardinality(InFlight)
  <2>1. /\ InFlight \in SUBSET Procs /\ Claim \in [Procs -> 0..Most]
        /\ t \in Nat /\ k \in Nat
    BY <1>3, ClaimType DEF TypeOK, Stores, UsageRecord
  <2>2. /\ n \in Nat /\ Cardinality(Procs) \in Nat /\ Slack \in Int
        /\ InFlight # {} => n >= 1
    BY <2>1, Subsets
  <2>3. k + n <= RpmLimit + Cardinality(Procs) - 1
    BY <1>3 DEF BudgetInv, WithinBudget
  <2>4. k <= RpmLimit + (Cardinality(Procs) - 1)
    BY <2>1, <2>2, <2>3, RedisAssumption
  <2>5. t <= Slack
    <3>1. CASE InFlight = {} /\ t <= Slack
      BY <3>1
    <3>2. ASSUME NEW p \in InFlight, t + Claim[p] + Extra(n - 1) <= Slack PROVE t <= Slack
      <4>1. n - 1 \in Nat /\ Claim[p] \in Nat
        BY <2>1, <2>2, <3>2, MostType
      <4>2. Extra(n - 1) \in Int /\ Extra(n - 1) >= 0
        BY <4>1, ExtraIsLinear, ExtraGrows
      <4> QED
        BY <2>1, <2>2, <3>2, <4>1, <4>2
    <3> QED
      BY <1>3, <3>1, <3>2 DEF BudgetInv, WithinBudget
  <2> QED
    BY <2>4, <2>5 DEF OvershootBounded, Slack, Extra, Most
<1> QED
  BY <1>1, <1>2, <1>3, TypeInit, PTL DEF Spec
=============================================================================
