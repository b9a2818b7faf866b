----------------------------- MODULE MCBuildBot -----------------------------
(* BuildBot for TLC: see MCBuildBot.cfg for the instance.                   *)
EXTENDS BuildBot, TLC

Symmetry == Permutations(Pid) \cup Permutations(Dir)
=============================================================================
