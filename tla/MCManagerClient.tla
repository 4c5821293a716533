---------------------------- MODULE MCManagerClient ----------------------------
(* TLC instance of ManagerClient. *)
EXTENDS ManagerClient, TLC

Perms == Permutations(Threads)
=============================================================================
