---------------------------- MODULE RedisBackend ----------------------------
(***************************************************************************)
(* The SDK's shared state, maxllm_gate/redis_backend.py: several processes  *)
(* count one API key's usage per window, count its errors, and take a lock, *)
(* in a Redis they share.  A process whose HybridRateLimiter found no Redis *)
(* counts in its own memory.                                                *)
(*                                                                         *)
(* An action is one Redis command, or a process's code between two replies; *)
(* commands of different processes interleave, a command may be delayed and *)
(* a process may crash between any two.  Each process has a clock of its    *)
(* own, a constant time behind the fastest one's.  No code in the           *)
(* repository calls the backend: processes check, then record what they     *)
(* used, as check_capacity and update_tokens are documented.                *)
(***************************************************************************)
EXTENDS Integers, FiniteSets

CONSTANTS
    Procs,           \* processes sharing the Redis
    Redis,           \* the name of the shared store
    Window,          \* window_seconds, and the 60 of check_capacity
    StateTtl,        \* config.state_ttl
    LockTimeout,     \* int(timeout) of acquire_lock
    ErrorTtl,        \* the 300 of record_error
    TpmLimit, RpmLimit,
    MaxTokens,       \* largest estimate of a request
    MaxExcess,       \* how far a request's use may exceed its estimate
    MaxLag,          \* how far a process's clock may be behind another's
    ErrorBound,      \* bound of the error counter
    Horizon          \* bound of the clock

(* A count must outlive its window; a key's limit covers one request.       *)
ASSUME RedisAssumption ==
    /\ IsFiniteSet(Procs) /\ Procs # {} /\ Redis \notin Procs
    /\ Window \in Nat \ {0} /\ StateTtl \in Nat /\ StateTtl >= Window
    /\ LockTimeout \in Nat \ {0} /\ ErrorTtl \in Nat \ {0}
    /\ TpmLimit \in Nat /\ RpmLimit \in Nat \ {0}
    /\ MaxTokens \in 1..TpmLimit /\ MaxExcess \in Nat /\ MaxLag \in Nat
    /\ ErrorBound \in Nat \ {0} /\ Horizon \in Nat

VARIABLES
    now,         \* time.time() of the fastest process; Redis's clock
    lag,         \* [Procs -> 0..MaxLag]: how far each process's is behind
    usage,       \* the hash of each store: window_start, tokens_used, request_count
    expiresAt,   \* when the one in Redis expires
    errors, errorsExpireAt,   \* the error counter; 0: it never expires
    lockUntil,   \* when the lock's key expires; 0: no such key
    store,       \* the store each process counts in
    at,          \* where each process is
    need,        \* the tokens of its request: estimated, then used
    seen,        \* the hash check_capacity read
    stamp,       \* the window_start of its update
    lease,       \* until when it has the lock, by its own reckoning; 0: not
    guarded,     \* whether processes take the lock around check and update
    overrun,     \* history: some process kept the lock past its lease
    orphaned,    \* history: a process died between INCR and EXPIRE
    spent        \* history: what was recorded in each store for its newest window

windowVars == <<usage, expiresAt, need, seen, stamp, spent>>
errorVars == <<errors, errorsExpireAt, orphaned>>
lockVars == <<lockUntil, lease, overrun>>
fixed == <<guarded, lag>>
vars == <<now, windowVars, errorVars, lockVars, store, at, fixed>>

Stores == Procs \cup {Redis}
Absent == [window |-> 0, tokens |-> 0, count |-> 0]
WindowStart(t) == (t \div Window) * Window

Clock(p) == now - lag[p]

(* The newest window in which a store may be told of usage.                 *)
Newest(s) == WindowStart(IF s = Redis THEN now ELSE Clock(s))

Init ==
    /\ now = Window + MaxLag
    /\ lag \in [Procs -> 0..MaxLag] /\ \E p \in Procs : lag[p] = 0
    /\ usage = [s \in Stores |-> Absent] /\ expiresAt = 0
    /\ errors = 0 /\ errorsExpireAt = 0
    /\ lockUntil = 0
    /\ guarded \in BOOLEAN
    /\ store \in {f \in [Procs -> Stores] :
                    \A p \in Procs : f[p] = Redis \/ (f[p] = p /\ ~ guarded)}
    /\ at = [p \in Procs |-> "idle"]
    /\ need = [p \in Procs |-> 0]
    /\ seen = [p \in Procs |-> Absent]
    /\ stamp = [p \in Procs |-> 0]
    /\ lease = [p \in Procs |-> 0]
    /\ overrun = FALSE /\ orphaned = FALSE
    /\ spent = [s \in Stores |-> 0]

Goes(p, from, to) == at[p] = from /\ at' = [at EXCEPT ![p] = to]

(* A local variable goes out of scope.                                      *)
Forget(local, p, initial) == local' = [local EXCEPT ![p] = initial]

-----------------------------------------------------------------------------
(* check_capacity and update_tokens.                                        *)

(* HGETALL.                                                                 *)
ReadState(p, n) ==
    /\ Goes(p, "idle", "checking")
    /\ store[p] = Redis /\ (guarded => lease[p] # 0)
    /\ seen' = [seen EXCEPT ![p] = usage[Redis]]
    /\ need' = [need EXCEPT ![p] = n]
    /\ UNCHANGED <<now, usage, expiresAt, stamp, spent, errorVars, lockVars, store, fixed>>

(* Faulty variant: the limit is compared without the request at hand.       *)
HasCapacity_UsedOnly(p, s, n) ==
    \/ s = Absent
    \/ Clock(p) - s.window >= Window
    \/ s.tokens <= TpmLimit /\ s.count < RpmLimit

(* Faulty variant: one request too many.                                    *)
HasCapacity_OffByOne(p, s, n) ==
    \/ s = Absent
    \/ Clock(p) - s.window >= Window
    \/ s.tokens + n <= TpmLimit /\ s.count <= RpmLimit

(* No hash, one whose window is over by the process's clock, or one with    *)
(* room for the request.                                                    *)
HasCapacity(p, s, n) ==
    \/ s = Absent
    \/ Clock(p) - s.window >= Window
    \/ s.tokens + n <= TpmLimit /\ s.count < RpmLimit

(* The reply is judged: go ahead, or give up for now.                       *)
Decide(p) ==
    /\ \/ Goes(p, "checking", "cleared") /\ HasCapacity(p, seen[p], need[p]) /\ UNCHANGED need
       \/ Goes(p, "checking", "idle") /\ ~ HasCapacity(p, seen[p], need[p]) /\ Forget(need, p, 0)
    /\ Forget(seen, p, Absent)
    /\ UNCHANGED <<now, usage, expiresAt, stamp, spent, errorVars, lockVars, store, fixed>>

(* update_tokens up to the await: what the request used may be less or more *)
(* than its estimate, and the window is that of the caller's clock.         *)
Stamp(p, used) ==
    /\ Goes(p, "cleared", "updating")
    /\ used <= need[p] + MaxExcess /\ need' = [need EXCEPT ![p] = used]
    /\ stamp' = [stamp EXCEPT ![p] = WindowStart(Clock(p))]
    /\ UNCHANGED <<now, usage, expiresAt, seen, spent, errorVars, lockVars, store, fixed>>

(* Faulty variant: an update of the stored window starts it over.           *)
Counted_Resets(s, start, n) ==
    IF s.window <= start
    THEN [window |-> start, tokens |-> n, count |-> 1]
    ELSE [s EXCEPT !.tokens = @ + n, !.count = @ + 1]

(* An update of a newer window starts it; one that comes late counts in the *)
(* stored one.                                                              *)
Counted(s, start, n) ==
    IF s.window < start
    THEN [window |-> start, tokens |-> n, count |-> 1]
    ELSE [s EXCEPT !.tokens = @ + n, !.count = @ + 1]

Spend(s, start, n) ==
    spent' = [spent EXCEPT ![s] = IF start = Newest(s) THEN @ + n ELSE @]

(* Faulty variant: EXPIRE is forgotten.                                     *)
UpdateTokens_NoExpire(p) ==
    /\ Goes(p, "updating", "idle")
    /\ usage' = [usage EXCEPT ![Redis] = Counted(@, stamp[p], need[p])]
    /\ Spend(Redis, stamp[p], need[p])
    /\ Forget(need, p, 0) /\ Forget(stamp, p, 0)
    /\ UNCHANGED <<now, expiresAt, seen, errorVars, lockVars, store, fixed>>

(* The script, atomic in Redis.                                             *)
UpdateTokens(p) ==
    /\ Goes(p, "updating", "idle")
    /\ usage' = [usage EXCEPT ![Redis] = Counted(@, stamp[p], need[p])]
    /\ expiresAt' = now + StateTtl
    /\ Spend(Redis, stamp[p], need[p])
    /\ Forget(need, p, 0) /\ Forget(stamp, p, 0)
    /\ UNCHANGED <<now, seen, errorVars, lockVars, store, fixed>>

(* HybridRateLimiter.update_tokens without Redis: no await, no expiry and   *)
(* no check.                                                                *)
UpdateMemory(p, n) ==
    /\ at[p] = "idle" /\ store[p] = p /\ spent[p] + n <= TpmLimit + MaxTokens
    /\ usage' = [usage EXCEPT ![p] = Counted(@, WindowStart(Clock(p)), n)]
    /\ Spend(p, WindowStart(Clock(p)), n)
    /\ UNCHANGED <<now, expiresAt, need, seen, stamp, errorVars, lockVars, store, at, fixed>>

-----------------------------------------------------------------------------
(* record_error and clear_errors.                                           *)

(* INCR; the key keeps the expiry it has.                                   *)
RecordError(p) ==
    /\ Goes(p, "idle", "counted")
    /\ store[p] = Redis /\ errors < ErrorBound
    /\ errors' = errors + 1
    /\ UNCHANGED <<now, windowVars, errorsExpireAt, orphaned, lockVars, store, fixed>>

(* Faulty variant: the expiry of the counter is set only when it has one.   *)
ExpireErrors_OnlyRenews(p) ==
    /\ Goes(p, "counted", "idle")
    /\ errorsExpireAt' = IF errorsExpireAt > 0 THEN now + ErrorTtl ELSE 0
    /\ orphaned' = FALSE
    /\ UNCHANGED <<now, windowVars, errors, lockVars, store, fixed>>

(* EXPIRE, which does nothing to a key that is gone.                        *)
ExpireErrors(p) ==
    /\ Goes(p, "counted", "idle")
    /\ errorsExpireAt' = IF errors > 0 THEN now + ErrorTtl ELSE 0
    /\ orphaned' = FALSE
    /\ UNCHANGED <<now, windowVars, errors, lockVars, store, fixed>>

ClearErrors(p) ==
    /\ at[p] = "idle" /\ store[p] = Redis
    /\ errors' = 0 /\ errorsExpireAt' = 0 /\ orphaned' = FALSE
    /\ UNCHANGED <<now, windowVars, lockVars, store, at, fixed>>

-----------------------------------------------------------------------------
(* Faulty variant: SET without NX.                                          *)
AcquireLock_NoNx(p) ==
    /\ at[p] = "idle" /\ guarded /\ lease[p] = 0
    /\ lockUntil' = now + LockTimeout
    /\ lease' = [lease EXCEPT ![p] = now + LockTimeout]
    /\ UNCHANGED <<now, windowVars, errorVars, overrun, store, at, fixed>>

(* acquire_lock, when it returns True: SET NX EX.                           *)
AcquireLock(p) ==
    /\ at[p] = "idle" /\ guarded /\ lease[p] = 0
    /\ lockUntil = 0
    /\ lockUntil' = now + LockTimeout
    /\ lease' = [lease EXCEPT ![p] = now + LockTimeout]
    /\ UNCHANGED <<now, windowVars, errorVars, overrun, store, at, fixed>>

(* DEL, whoever set the key.                                                *)
ReleaseLock(p) ==
    /\ at[p] = "idle" /\ lease[p] # 0
    /\ lockUntil' = 0
    /\ lease' = [lease EXCEPT ![p] = 0]
    /\ UNCHANGED <<now, windowVars, errorVars, overrun, store, at, fixed>>

-----------------------------------------------------------------------------
(* A process dies and starts again, with or without Redis; its memory and   *)
(* whatever it was doing are lost.                                          *)
Crash(p) ==
    /\ at' = [at EXCEPT ![p] = "idle"]
    /\ Forget(need, p, 0) /\ Forget(seen, p, Absent) /\ Forget(stamp, p, 0)
    /\ Forget(lease, p, 0)
    /\ orphaned' = (orphaned \/ (at[p] = "counted" /\ errorsExpireAt = 0))
    /\ store' \in {[store EXCEPT ![p] = s] : s \in IF guarded THEN {Redis} ELSE {Redis, p}}
    /\ Forget(usage, p, Absent) /\ Forget(spent, p, 0)
    /\ UNCHANGED <<now, expiresAt, errors, errorsExpireAt, lockUntil, overrun, fixed>>

(* Redis drops what expires.                                                *)
Tick ==
    /\ now < Horizon
    /\ now' = now + 1
    /\ IF expiresAt = now'
       THEN usage' = [usage EXCEPT ![Redis] = Absent] /\ expiresAt' = 0
       ELSE UNCHANGED <<usage, expiresAt>>
    /\ IF errorsExpireAt = now'
       THEN errors' = 0 /\ errorsExpireAt' = 0 /\ orphaned' = FALSE
       ELSE UNCHANGED errorVars
    /\ lockUntil' = IF lockUntil = now' THEN 0 ELSE lockUntil
    /\ overrun' = (overrun \/ \E p \in Procs : lease[p] = now')
    /\ UNCHANGED <<need, seen, stamp, lease, store, at, fixed>>
    /\ spent' = [s \in Stores |-> IF Newest(s)' = Newest(s) THEN spent[s] ELSE 0]

Next ==
    \/ Tick
    \/ \E p \in Procs :
          \/ \E n \in 1..MaxTokens : ReadState(p, n) \/ UpdateMemory(p, n)
          \/ \E used \in 1..(MaxTokens + MaxExcess) : Stamp(p, used)
          \/ Decide(p) \/ UpdateTokens(p)
          \/ RecordError(p) \/ ExpireErrors(p) \/ ClearErrors(p)
          \/ AcquireLock(p) \/ ReleaseLock(p)
          \/ Crash(p)

Spec == Init /\ [][Next]_vars

-----------------------------------------------------------------------------
UsageRecord == [window : Nat, tokens : Nat, count : Nat]

TypeOK ==
    /\ now \in Nat /\ now >= Window + MaxLag /\ lag \in [Procs -> 0..MaxLag]
    /\ usage \in [Stores -> UsageRecord]
    /\ expiresAt \in Nat /\ (usage[Redis] = Absent <=> expiresAt = 0)
    /\ errors \in 0..ErrorBound /\ errorsExpireAt \in Nat
    /\ lockUntil \in Nat
    /\ store \in [Procs -> Stores]
    /\ at \in [Procs -> {"idle", "checking", "cleared", "updating", "counted"}]
    /\ need \in [Procs -> 0..(MaxTokens + MaxExcess)]
    /\ \A p \in Procs : at[p] # "updating" => need[p] <= MaxTokens
    /\ seen \in [Procs -> UsageRecord]
    /\ stamp \in [Procs -> Nat]
    /\ lease \in [Procs -> Nat]
    /\ guarded \in BOOLEAN /\ overrun \in BOOLEAN /\ orphaned \in BOOLEAN
    /\ spent \in [Stores -> Nat]

(* What the store counts for its newest window.                             *)
Current(s) == IF usage[s].window = Newest(s) THEN usage[s] ELSE Absent

(* "Atomically update token usage for a key": no update recorded in the     *)
(* newest window is lost from its count, neither to another process's, nor  *)
(* to one stamped earlier that arrives late, nor to the expiry of the hash  *)
(* (redis_backend.py:97, 127-144).  Of an older window, in which slower     *)
(* clocks still are, it says nothing.                                       *)
UsageIsCounted == \A s \in Stores : Current(s).tokens >= spent[s]

(* check_capacity and the update that follows it are two steps: the         *)
(* processes may exceed a limit together, but whatever their clocks say, by *)
(* no more than one's excess and what all but one of them can have in       *)
(* flight (redis_backend.py:349-386).                                       *)
OvershootBounded ==
    LET others == Cardinality(Procs) - 1 IN
    /\ usage[Redis].tokens <= TpmLimit + MaxExcess + others * (MaxTokens + MaxExcess)
    /\ usage[Redis].count <= RpmLimit + others

(* At most one process has the lock, as long as none kept it past its       *)
(* lease (redis_backend.py:321-347).                                        *)
LockExcludes ==
    ~ overrun => Cardinality({p \in Procs : lease[p] # 0}) <= 1

(* "Distributed locks - Atomic operations across workers" (README.md:386):  *)
(* with the lock around check and update no limit is exceeded by more than  *)
(* one request's excess over its estimate, whatever crashes, as long as no  *)
(* lease runs out.                                                          *)
ExactUnderLock ==
    guarded /\ ~ overrun =>
        /\ usage[Redis].tokens <= TpmLimit + MaxExcess
        /\ usage[Redis].count <= RpmLimit

(* "5 minute window" (redis_backend.py:307): an error counter without an    *)
(* expiry is about to get one, unless a process died just then.             *)
ErrorsLapse ==
    errors > 0 /\ errorsExpireAt = 0 =>
        orphaned \/ \E p \in Procs : at[p] = "counted"
=============================================================================
