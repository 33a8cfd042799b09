------------------------------ MODULE MCClient ------------------------------
(* Small instances of Client: threads sharing one key, and one being added. *)
EXTENDS Client, TLC

CONSTANTS t1, t2, t3, k1, k2

OneKey == <<k1>>
Split == t1 :> {"chat", "stream"} @@ t2 :> {"chat", "nested"}
Chats == [t \in Threads |-> {"chat"}]
=============================================================================
