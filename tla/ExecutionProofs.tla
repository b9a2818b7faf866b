--------------------------- MODULE ExecutionProofs --------------------------
(***************************************************************************)
(* The promise of Execution, for any callers: what an implementation of it *)
(* may be relied on for.                                                   *)
(***************************************************************************)
EXTENDS Execution, TLAPS

ExecutionInv == ExecutionTypeOK /\ CallsHonest

\* No step makes a caller that is not excused believe what is not so.
LEMMA ExecutionStep == ASSUME ExecutionInv, [ExecutionNext]_executionVars PROVE ExecutionInv'
<1> USE DEF ExecutionInv, ExecutionTypeOK, CallsHonest
<1>1. CASE UNCHANGED executionVars
  BY <1>1 DEF executionVars
<1>2. CASE /\ excused' \in SUBSET Caller /\ excused \subseteq excused'
           /\ UNCHANGED <<call, program>>
  BY <1>2
<1>3. ASSUME excused' \in SUBSET Caller, excused \subseteq excused', NEW c \in Caller,
             StartProgram(c)
      PROVE  ExecutionInv'
  BY <1>3 DEF StartProgram
<1>4. ASSUME excused' \in SUBSET Caller, excused \subseteq excused', NEW c \in Caller,
             ReturnChild(c)
      PROVE  ExecutionInv'
  BY <1>4 DEF ReturnChild
<1>5. ASSUME excused' \in SUBSET Caller, excused \subseteq excused', NEW c \in Caller,
             ReportError(c)
      PROVE  ExecutionInv'
  BY <1>5 DEF ReportError
<1>6. QED BY <1>1, <1>2, <1>3, <1>4, <1>5 DEF ExecutionNext

\* Whoever is not excused may take a child as a started program, and an error
\* as one that never starts: at the return of execute() and ever after.
THEOREM Honest == ExecutionSpec => [](ExecutionTypeOK /\ CallsHonest)
<1>1. ExecutionInit => ExecutionInv
  BY DEF ExecutionInit, ExecutionInv, ExecutionTypeOK, CallsHonest
<1>2. ExecutionInv => ExecutionTypeOK /\ CallsHonest
  BY DEF ExecutionInv
<1>3. QED BY <1>1, <1>2, ExecutionStep, PTL DEF ExecutionSpec
=============================================================================
