------------------------------- MODULE MCRedis -------------------------------
(* Two processes, windows of two ticks, two requests and three tokens each. *)
EXTENDS RedisBackend, TLC

CONSTANTS p1, p2

ProcSymmetry == Permutations(Procs)
=============================================================================
