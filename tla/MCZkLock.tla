------------------------------ MODULE MCZkLock ------------------------------
(* Instances of ZkLock for TLC: the processes are interchangeable. *)
EXTENDS ZkLock, TLC

ClientSymmetry == Permutations(Clients)
=============================================================================
