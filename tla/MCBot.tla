------------------------------- MODULE MCBot --------------------------------
(* Bot for TLC: the cfg files give the instances.                           *)
EXTENDS Bot
=============================================================================
