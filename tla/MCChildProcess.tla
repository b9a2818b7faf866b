--------------------------- MODULE MCChildProcess ---------------------------
(* ChildProcess for TLC: see MCChildProcess.cfg for the instance.           *)
EXTENDS ChildProcess
=============================================================================
