--------------------------- MODULE MCSdkScheduler ---------------------------
(* Small instances of SdkScheduler: two chat requests and a stream over two *)
(* equal keys of two tokens and two requests per window.                    *)
EXTENDS SdkScheduler, TLC

CONSTANTS c1, c2, s1, k1, k2

AnyKey == [r \in Requests |-> Keys]
(* The second request needs a whole window of tokens.                       *)
OneOrTwo == [r \in Requests |-> IF r = c2 THEN 2 ELSE 1]
Two == [k \in Keys |-> 2]
One == [k \in Keys |-> 1]
KeySymmetry == Permutations(Keys)
=============================================================================
