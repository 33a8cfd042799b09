------------------------------ MODULE MCServer ------------------------------
(* Small instances of ServerScheduler.                                     *)
EXTENDS ServerScheduler, TLC

CONSTANTS j1, j2, j3, k1, k2, w1, w2

AnyKey == [j \in Jobs |-> Keys]
(* The first request is urgent, the second needs a whole window of tokens. *)
Ranks == [j \in Jobs |-> IF j = j1 THEN 1 ELSE 3]
Sizes == [j \in Jobs |-> IF j = j2 THEN 2 ELSE 1]
Two == [k \in Keys |-> 2]
One == [k \in Keys |-> 1]
Backoffs == [e \in 0..ErrorCap |-> 1]
WorkerSymmetry == Permutations(Workers)
=============================================================================
