------------------------------ MODULE MCWorker ------------------------------
(* Worker for TLC: the cfg files give the instances.                        *)
EXTENDS Worker, TLC

Symmetry == Permutations(Job) \cup Permutations(Pid) \cup Permutations(Dir)
=============================================================================
