----------------------------- MODULE EagerBucket -----------------------------
(***************************************************************************)
(* What a token bucket promises: a level that rises with every tick, never  *)
(* above the capacity, and falls by what is taken.  `spent` is a history    *)
(* variable: what was taken since `since`, less what was given back.        *)
(***************************************************************************)
EXTENDS Buckets

CONSTANTS
    Capacity,   \* tokens the bucket can hold
    Rate,       \* tokens added per tick
    Amounts     \* what one call may take or give back

VARIABLES level, now, since, spent

vars == <<level, now, since, spent>>

Init == level = Capacity /\ now = 0 /\ since = 0 /\ spent = 0

Tick ==
    /\ now' = now + 1
    /\ level' = AtMost(Capacity, level + Rate)
    /\ UNCHANGED <<since, spent>>

(* Taken at once, or on credit.                                             *)
Take(n) ==
    /\ level' = level - n
    /\ spent' = spent + n
    /\ UNCHANGED <<now, since>>

GiveBack(n) ==
    /\ level' = AtMost(Capacity, level + n)
    /\ spent' = spent - n
    /\ UNCHANGED <<now, since>>

Reset ==
    /\ level' = Capacity /\ spent' = 0 /\ since' = now
    /\ UNCHANGED now

Next == Tick \/ Reset \/ \E n \in Amounts : Take(n) \/ GiveBack(n)

Spec == Init /\ [][Next]_vars

(* The budget: what was taken, on credit or not, and what is still there    *)
(* come from the initial capacity and the refill of the time gone by.       *)
Budget == level <= Capacity /\ spent + level <= Capacity + Rate * (now - since)
=============================================================================
