----------------------------- MODULE TokenBucket -----------------------------
(***************************************************************************)
(* llm_scheduler/rate_limiting/token_bucket.py: a bucket that is refilled   *)
(* lazily, when a method looks at it, from the time of the last look.  The  *)
(* SDK's TokenBucket (maxllm_gate/rate_limiter.py) is the same class        *)
(* without reserve, add_tokens and reset.  Every method holds the bucket's  *)
(* lock throughout, so each is one action, whichever thread calls it.       *)
(***************************************************************************)
EXTENDS Buckets

CONSTANTS
    Capacity,   \* capacity
    Rate,       \* refill_rate, per tick
    Amounts,    \* the arguments of its methods
    Horizon     \* bound of the clock

ASSUME TokenBucketAssumption ==
    /\ Capacity \in Nat \ {0} /\ Rate \in Nat \ {0}
    /\ Amounts \subseteq Nat /\ Horizon \in Nat

VARIABLES
    tokens,      \* tokens, below zero when reserved on credit
    lastUpdate,  \* last_update
    now,         \* time.time()
    since,       \* history: when the bucket was made or last reset
    spent,       \* history: taken less given back since then
    refunded,    \* history: was anything given back since then?
    starts       \* history: [0..Horizon -> Nat], the tokens whose use may
                 \*   begin at each tick: now, or after the wait reserve returns

history == <<since, spent, refunded, starts>>
vars == <<tokens, lastUpdate, now, history>>

Nothing == [t \in 0..Horizon |-> 0]

Init ==
    /\ tokens = Capacity
    /\ lastUpdate = 0 /\ now = 0
    /\ since = 0 /\ spent = 0 /\ refunded = FALSE /\ starts = Nothing

-----------------------------------------------------------------------------
(* What _refill makes of the tokens.                                        *)
Level == AtMost(Capacity, tokens + (now - lastUpdate) * Rate)

(* Faulty variant: last_update stays behind.                                *)
Settle_ClockKept(level) == tokens' = level /\ UNCHANGED <<lastUpdate, now>>

(* Every method refills first and leaves the bucket up to date.             *)
Settle(level) == tokens' = level /\ lastUpdate' = now /\ UNCHANGED now

(* can_consume, available, time_until_available, utilization; and consume   *)
(* when it returns False.                                                   *)
Look == Settle(Level) /\ UNCHANGED history

Record(n, t) ==
    /\ spent' = spent + n
    /\ starts' = [starts EXCEPT ![t] = @ + n]
    /\ UNCHANGED <<since, refunded>>

Consume(n) ==
    /\ Level >= n
    /\ Settle(Level - n)
    /\ Record(n, now)

(* Faulty variant: what is taken on credit is not taken from the bucket.    *)
Reserve_NoDebit(n) ==
    LET wait == TicksUntil(n, Level, Rate)
    IN /\ now + wait <= Horizon
       /\ Settle(IF wait = 0 THEN Level - n ELSE Level)
       /\ Record(n, now + wait)

(* Takes the tokens, below zero if need be, and returns when they may be    *)
(* used.                                                                    *)
Reserve(n) ==
    LET wait == TicksUntil(n, Level, Rate)
    IN /\ now + wait <= Horizon
       /\ Settle(Level - n)
       /\ Record(n, now + wait)

(* Tokens given back are some whose use had begun.                          *)
Erase(n) ==
    /\ \E t \in since..now :
          /\ starts[t] >= n
          /\ starts' = [starts EXCEPT ![t] = @ - n]
    /\ spent' = spent - n
    /\ refunded' = TRUE
    /\ UNCHANGED since

(* Faulty variant: the refund may overfill the bucket.                      *)
AddTokens_Overfills(n) == Settle(Level + n) /\ Erase(n)

AddTokens(n) == Settle(AtMost(Capacity, Level + n)) /\ Erase(n)

Reset ==
    /\ Settle(Capacity)
    /\ since' = now /\ spent' = 0 /\ refunded' = FALSE /\ starts' = Nothing

Tick ==
    /\ now < Horizon
    /\ now' = now + 1
    /\ UNCHANGED <<tokens, lastUpdate, history>>

Next ==
    \/ Tick \/ Look \/ Reset
    \/ \E n \in Amounts : Consume(n) \/ Reserve(n) \/ AddTokens(n)

Spec == Init /\ [][Next]_vars

-----------------------------------------------------------------------------
TypeOK ==
    /\ tokens \in Int /\ tokens <= Capacity
    /\ now \in 0..Horizon /\ lastUpdate \in 0..now /\ since \in 0..lastUpdate
    /\ spent \in Int /\ refunded \in BOOLEAN
    /\ starts \in [0..Horizon -> Nat]

(* Looking late makes no difference: read through _refill, the lazy bucket  *)
(* is one that is refilled at every tick, however many looks there were and *)
(* whenever (token_bucket.py:38-48).                                        *)
Eager == INSTANCE EagerBucket WITH level <- Level
EagerSpec == Eager!Spec

(* Nothing is minted: what was taken since the start, on credit or not, and *)
(* what is left come from one capacity and the refill of the time gone by,  *)
(* and no refund or idle time overfills the bucket.                         *)
Budget == Eager!Budget

(* The tokens whose use may begin in any stretch of ticks, those reserved   *)
(* on credit at the end of their wait included, are within the capacity and *)
(* the refill of that time (token_bucket.py:99-122), for requests that fit  *)
(* the bucket.  Once tokens are given back this holds from the start only:  *)
(* a refund frees tokens for a moment at which others are already due.      *)
UsedBetween(s, t) ==
    LET used[u \in s..t] == starts[u] + (IF u = s THEN 0 ELSE used[u - 1])
    IN used[t]

StartsWithinRate ==
    \A s \in since..Horizon : \A t \in s..Horizon :
        s = since \/ (~ refunded /\ \A n \in Amounts : n <= Capacity)
            => UsedBetween(s, t) <= Capacity + Rate * (t - s + 1)

(* time_until_available names the first tick at which the tokens are there  *)
(* if nobody else takes any (token_bucket.py:80-97), for a request that     *)
(* fits the bucket at all.                                                  *)
LevelIn(ticks) == AtMost(Capacity, Level + ticks * Rate)

WaitIsExact ==
    \A n \in Amounts :
        LET wait == TicksUntil(n, Level, Rate)
        IN n <= Capacity =>
              LevelIn(wait) >= n /\ \A t \in 0..(wait - 1) : LevelIn(t) < n
=============================================================================
