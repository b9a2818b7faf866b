----------------------------- MODULE Execution ------------------------------
(***************************************************************************)
(* What a call of boost::process::execute() with an error initializer      *)
(* promises its caller, on every platform: the call gives a child only     *)
(* when the program was started, and an error only when it never is.       *)
(*                                                                         *)
(* The promise has exceptions, which an implementation must name: a caller *)
(* becomes excused when one of them has happened to its call.  Executor    *)
(* (posix) and WindowsProcess implement this specification.                *)
(***************************************************************************)
CONSTANT Caller

VARIABLES
  call,      (* per caller: calling, or how the call ended: child, error    *)
  program,   (* per caller: none, or started (it may be over by now)        *)
  excused    (* the callers whose call an exception has happened to         *)

executionVars == <<call, program, excused>>

ExecutionTypeOK ==
  /\ call \in [Caller -> {"calling", "child", "error"}]
  /\ program \in [Caller -> {"none", "started"}]
  /\ excused \in SUBSET Caller

ExecutionInit ==
  /\ call = [c \in Caller |-> "calling"]
  /\ program = [c \in Caller |-> "none"]
  /\ excused \in SUBSET Caller

StartProgram(c) ==
  /\ program[c] = "none"
  /\ call[c] = "calling" \/ c \in excused
  /\ program' = [program EXCEPT ![c] = "started"]
  /\ UNCHANGED call

ReturnChild(c) ==
  /\ call[c] = "calling"
  /\ program[c] = "started" \/ c \in excused'
  /\ call' = [call EXCEPT ![c] = "child"]
  /\ UNCHANGED program

ReportError(c) ==
  /\ call[c] = "calling"
  /\ program[c] = "none" \/ c \in excused'
  /\ call' = [call EXCEPT ![c] = "error"]
  /\ UNCHANGED program

\* A caller, once excused, stays so.
ExecutionNext ==
  /\ excused' \in SUBSET Caller /\ excused \subseteq excused'
  /\ \/ UNCHANGED <<call, program>>
     \/ \E c \in Caller : StartProgram(c) \/ ReturnChild(c) \/ ReportError(c)

ExecutionSpec == ExecutionInit /\ [][ExecutionNext]_executionVars

\* The promise as an invariant.
CallsHonest ==
  \A c \in Caller \ excused :
    /\ call[c] = "child" => program[c] = "started"
    /\ call[c] = "error" => program[c] = "none"
=============================================================================
