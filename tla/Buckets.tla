------------------------------- MODULE Buckets -------------------------------
(* The arithmetic of the token buckets, time counted in ticks.             *)
EXTENDS Integers

AtMost(bound, n) == IF n > bound THEN bound ELSE n

Larger(m, n) == IF m > n THEN m ELSE n

(* Faulty variant: the wait is rounded down.                               *)
TicksUntil_RoundedDown(need, have, rate) ==
    IF have >= need THEN 0 ELSE (need - have) \div rate

(* Ticks until a bucket holding `have` and refilled at `rate` has `need`.  *)
(* The code does not ask whether `need` exceeds the capacity.              *)
TicksUntil(need, have, rate) ==
    IF have >= need THEN 0 ELSE (need - have + rate - 1) \div rate
=============================================================================
