------------------------ MODULE WindowsProcessProofs ------------------------
(***************************************************************************)
(* What WindowsProcess promises for any number of calls and child objects  *)
(* and any sequences of initializers: every handle has one owner, and the  *)
(* calls implement Execution.                                              *)
(***************************************************************************)
EXTENDS WindowsProcess, TLAPS

Types ==
  /\ seq \in [Call -> Calls]
  /\ at \in [Call -> {"setup", "error", "success", "returned", "threw"}]
  /\ todo \in [Call -> Seq(Initializer)]
  /\ ec \in [Call -> BOOLEAN]
  /\ proc \in [Call -> {"none", "running", "ended"}]
  /\ object \in [Object -> Call \cup {Invalid, "garbage", "free"}]
  /\ open \in SUBSET Call
  /\ killedSelf \in BOOLEAN /\ damaged \in BOOLEAN
  /\ stale \in SUBSET Call

\* Where a process and its handle are while its call goes on.
Tracked ==
  \A c \in Call :
    /\ at[c] \in {"setup", "error", "threw"} => proc[c] = "none" /\ c \notin open
    /\ at[c] = "success" => proc[c] # "none"
    /\ \A o \in Object : object[o] = c => at[c] = "returned" /\ proc[c] # "none"

\* The error_code is set by the call only after an error; and in an error, as
\* long as it is not set, its initializer is still to be called.
Reported ==
  \A c \in Call :
    /\ ec[c] /\ c \notin stale => at[c] \notin {"setup", "success"}
    /\ at[c] = "error" /\ ~ec[c] /\ Uses(seq[c], Reporters) => Uses(todo[c], Reporters)

\* Handles are accounted for as long as none was used by accident; after that
\* the program stops.
Inv == Types /\ Reported /\ (Sane => Tracked /\ HandlesOwnedOnce)

-----------------------------------------------------------------------------

\* The initial states: no call has begun, and there is no object.
LEMMA InitInv == Init => Inv
<1> SUFFICES ASSUME Init PROVE Inv
  OBVIOUS
<1> USE WindowsAssumption DEF Init
<1>1. Types
  <2>1. \A c \in Call : seq[c] \in Seq(Initializer)
    OBVIOUS
  <2>2. todo \in [Call -> Seq(Initializer)]
    BY <2>1
  <2>3. QED BY <2>2 DEF Types
<1>2. Reported
  BY DEF Reported
<1>3. Tracked
  BY DEF Tracked
<1>4. HandlesOwnedOnce
  BY DEF HandlesOwnedOnce
<1>5. QED BY <1>1, <1>2, <1>3, <1>4 DEF Inv

\* An initializer of a class that no callback is asked of is no reporter.
LEMMA TailKeepsReporters ==
  ASSUME NEW s \in Seq(Initializer), s # <<>>, Uses(s, Reporters),
         Head(s).init \notin Reporters
  PROVE  Uses(Tail(s), Reporters)
<1>1. PICK n \in DOMAIN s : s[n].init \in Reporters
  BY DEF Uses
<1>2. n # 1 /\ n \in 1..Len(s)
  BY <1>1
<1>3. (n - 1) \in DOMAIN Tail(s) /\ Tail(s)[n - 1] = s[n]
  BY <1>2
<1>4. QED BY <1>1, <1>3 DEF Uses

-----------------------------------------------------------------------------
(* The steps of a call.                                                     *)

\* What a step of a call leaves alone, and that it moves one call.
LEMMA CallTypes ==
  ASSUME Inv, NEW c \in Call, CallStep(c)
  PROVE  Types'
<1> USE DEF Inv, Types, callVars, processVars, objectVars
<1>1. CASE SetUpNext(c)
  BY <1>1 DEF SetUpNext
<1>2. CASE CreateSucceeds(c)
  BY <1>2 DEF CreateSucceeds
<1>3. CASE CreateFails(c)
  <2>1. seq[c] \in Seq(Initializer)
    BY WindowsAssumption
  <2>2. QED BY <1>3, <2>1 DEF CreateFails
<1>4. CASE CallBase(c)
  BY <1>4 DEF CallBase
<1>5. CASE SetOnError(c)
  BY <1>5 DEF SetOnError, InError
<1>6. CASE ThrowOnError(c)
  BY <1>6 DEF ThrowOnError, Throw
<1>7. CASE CallErrorHandler(c)
  <2>1. CASE Throw(c)
    BY <2>1 DEF Throw
  <2>2. CASE ~Throw(c)
    <3>1. /\ todo' = [todo EXCEPT ![c] = Tail(@)]
          /\ UNCHANGED <<seq, at, ec, conf, inheritable, refused, processVars, objectVars, stale,
                         damaged>>
      BY <1>7, <2>2 DEF CallErrorHandler
    <3>2. todo[c] # <<>>
      BY <1>7 DEF CallErrorHandler, InError
    <3>3. QED BY <3>1, <3>2
  <2>3. QED BY <2>1, <2>2
<1>8. CASE \E o \in Object : ReturnChild(c, o)
  BY <1>8 DEF ReturnChild
<1>9. CASE SetupHandlerThrows(c)
  BY <1>9 DEF SetupHandlerThrows, Throw
<1>10. QED
  BY <1>1, <1>2, <1>3, <1>4, <1>5, <1>6, <1>7, <1>8, <1>9 DEF CallStep

\* A step of a call keeps track of its process and its handle.
LEMMA CallTracked ==
  ASSUME Inv, Sane, NEW c \in Call, CallStep(c)
  PROVE  Tracked' /\ HandlesOwnedOnce'
<1> USE WindowsAssumption DEF Inv, Types, Tracked, HandlesOwnedOnce, callVars, processVars,
        objectVars
<1>1. CASE SetUpNext(c)
  BY <1>1 DEF SetUpNext
<1>2. CASE CreateSucceeds(c)
  BY <1>2 DEF CreateSucceeds
<1>3. CASE CreateFails(c)
  BY <1>3 DEF CreateFails
<1>4. CASE CallBase(c)
  BY <1>4 DEF CallBase
<1>5. CASE SetOnError(c)
  BY <1>5 DEF SetOnError, InError
<1>6. CASE ThrowOnError(c)
  BY <1>6 DEF ThrowOnError, Throw, InError
<1>7. CASE CallErrorHandler(c)
  BY <1>7 DEF CallErrorHandler, Throw, InError
<1>8. ASSUME NEW o \in Object, ReturnChild(c, o)
      PROVE  Tracked' /\ HandlesOwnedOnce'
  <2>1. CASE at[c] = "success"
    BY <1>8, <2>1 DEF ReturnChild
  <2>2. CASE at[c] = "error"
    BY <1>8, <2>2 DEF ReturnChild
  <2>3. QED BY <1>8, <2>1, <2>2 DEF ReturnChild
<1>9. CASE SetupHandlerThrows(c)
  BY <1>9 DEF SetupHandlerThrows, Throw
<1>10. QED
  BY <1>1, <1>2, <1>3, <1>4, <1>5, <1>6, <1>7, <1>8, <1>9 DEF CallStep

\* An error_code is set after an error only, and its initializer's turn comes.
LEMMA CallReported ==
  ASSUME Inv, NEW c \in Call, CallStep(c)
  PROVE  Reported'
<1> USE DEF Inv, Types, callVars, processVars, objectVars
<1>0. seq' = seq /\ stale' = stale
  BY DEF CallStep, SetUpNext, SetupHandlerThrows, CreateSucceeds, CreateFails, CallBase,
         SetOnError, ThrowOnError, Throw, CallErrorHandler, ReturnChild
<1>1. CASE SetUpNext(c)
  BY <1>1 DEF SetUpNext, Reported
<1>2. CASE CreateSucceeds(c)
  BY <1>2 DEF CreateSucceeds, Reported
<1>3. CASE CreateFails(c)
  BY <1>3 DEF CreateFails, Reported
<1>4. CASE CallBase(c)
  <2>1. Uses(todo[c], Reporters) => Uses(Tail(todo[c]), Reporters)
    BY <1>4, TailKeepsReporters DEF CallBase
  <2>2. QED BY <1>4, <2>1 DEF CallBase, Reported
<1>5. CASE SetOnError(c)
  BY <1>5 DEF SetOnError, InError, Reported
<1>6. CASE ThrowOnError(c)
  BY <1>6 DEF ThrowOnError, Throw, Reported
<1>7. CASE CallErrorHandler(c)
  <2>1. CASE Throw(c)
    BY <1>7, <2>1 DEF Throw, Reported
  <2>2. CASE ~Throw(c)
    <3>1. Uses(todo[c], Reporters) => Uses(Tail(todo[c]), Reporters)
      BY <1>7, TailKeepsReporters DEF CallErrorHandler, InError, Reporters
    <3>2. QED BY <1>7, <2>2, <3>1 DEF CallErrorHandler, Reported
  <2>3. QED BY <2>1, <2>2
<1>8. CASE \E o \in Object : ReturnChild(c, o)
  BY <1>8 DEF ReturnChild, Reported
<1>9. CASE SetupHandlerThrows(c)
  BY <1>9 DEF SetupHandlerThrows, Throw, Reported
<1>10. QED
  BY <1>1, <1>2, <1>3, <1>4, <1>5, <1>6, <1>7, <1>8, <1>9 DEF CallStep

-----------------------------------------------------------------------------
(* The child objects and the processes.                                     *)

\* While handles are accounted for, none is closed twice.
LEMMA CloseIsSound ==
  ASSUME Inv, Sane, NEW o \in Object, CloseHandles(o), ~damaged'
  PROVE  /\ open' = open \ {object[o]}
         /\ object[o] \in Call => object[o] \in open
  BY DEF CloseHandles, Inv, HandlesOwnedOnce

\* CloseHandle() keeps the types.
LEMMA CloseTypes ==
  ASSUME Inv, NEW o \in Object, CloseHandles(o)
  PROVE  open' \in SUBSET Call /\ damaged' \in BOOLEAN
  BY DEF CloseHandles, Inv, Types

\* Moving, terminating or destroying child objects keeps the invariant.
LEMMA ObjectKeepsInv ==
  ASSUME Inv, Sane, NEW o \in Object, UseObject(o)
  PROVE  Inv'
<1> USE WindowsAssumption DEF callVars, processVars, objectVars
<1>1. CASE Terminate(o)
  <2>1. Types'
    BY <1>1 DEF Terminate, Inv, Types
  <2>2. Reported'
    BY <1>1 DEF Terminate, Inv, Reported
  <2>3. Tracked'
    BY <1>1 DEF Terminate, Inv, Types, Tracked
  <2>4. HandlesOwnedOnce'
    BY <1>1 DEF Terminate, Inv, Types, HandlesOwnedOnce
  <2>5. QED BY <2>1, <2>2, <2>3, <2>4 DEF Inv
<1>2. CASE Destroy(o)
  <2>1. Types'
    <3>1. open' \in SUBSET Call /\ damaged' \in BOOLEAN
      BY <1>2, CloseTypes DEF Destroy
    <3>2. QED BY <1>2, <3>1 DEF Destroy, Inv, Types
  <2>2. Reported'
    BY <1>2 DEF Destroy, Inv, Reported
  <2>3. ASSUME Sane' PROVE Tracked' /\ HandlesOwnedOnce'
    <3>1. open' = open \ {object[o]}
      BY <1>2, <2>3, CloseIsSound DEF Destroy, Sane
    <3>2. Tracked'
      BY <1>2, <3>1 DEF Destroy, Inv, Types, Tracked
    <3>3. HandlesOwnedOnce'
      BY <1>2, <3>1 DEF Destroy, Inv, Types, Tracked, HandlesOwnedOnce
    <3>4. QED BY <3>2, <3>3
  <2>4. QED BY <2>1, <2>2, <2>3 DEF Inv
<1>3. ASSUME NEW a \in Object, MoveConstruct(a, o) PROVE Inv'
  <2>1. Types'
    BY <1>3 DEF MoveConstruct, Inv, Types
  <2>2. Reported'
    BY <1>3 DEF MoveConstruct, Inv, Reported
  <2>3. Tracked'
    BY <1>3 DEF MoveConstruct, Inv, Types, Tracked
  <2>4. HandlesOwnedOnce'
    <3>1. a # o /\ at' = at /\ open' = open
      BY <1>3 DEF MoveConstruct, Exists
    <3>2. \A x \in Object : object'[x] = IF x = o THEN object[a]
                                         ELSE IF x = a THEN Invalid ELSE object[x]
      BY <1>3, <3>1 DEF MoveConstruct, Inv, Types
    <3>3. \A c \in Call : object[o] # c /\ Invalid # c
      BY <1>3 DEF MoveConstruct
    <3>4. QED BY <3>1, <3>2, <3>3 DEF Inv, HandlesOwnedOnce, Sane
  <2>5. QED BY <2>1, <2>2, <2>3, <2>4 DEF Inv
<1>4. ASSUME NEW a \in Object, MoveAssign(a, o) PROVE Inv'
  <2>1. Types'
    <3>1. open' \in SUBSET Call /\ damaged' \in BOOLEAN
      BY <1>4, CloseTypes DEF MoveAssign
    <3>2. QED BY <1>4, <3>1 DEF MoveAssign, Inv, Types
  <2>2. Reported'
    BY <1>4 DEF MoveAssign, Inv, Reported
  <2>3. ASSUME Sane' PROVE Tracked' /\ HandlesOwnedOnce'
    <3>1. open' = open \ {object[o]}
      BY <1>4, <2>3, CloseIsSound DEF MoveAssign, Sane
    <3>2. Tracked'
      BY <1>4, <3>1 DEF MoveAssign, Inv, Types, Tracked
    <3>3. HandlesOwnedOnce'
      <4>1. at' = at
        BY <1>4 DEF MoveAssign
      <4>2. \A x \in Object : object'[x] = IF x = a THEN Invalid
                                           ELSE IF x = o THEN object[a] ELSE object[x]
        BY <1>4 DEF MoveAssign, Inv, Types
      <4>3. \A c \in Call : Invalid # c
        OBVIOUS
      <4>4. QED BY <3>1, <4>1, <4>2, <4>3 DEF Inv, Tracked, HandlesOwnedOnce, Sane
    <3>4. QED BY <3>2, <3>3
  <2>4. QED BY <2>1, <2>2, <2>3 DEF Inv
<1>5. QED BY <1>1, <1>2, <1>3, <1>4 DEF UseObject

\* So does the end of a program.
LEMMA EndKeepsInv ==
  ASSUME Inv, NEW c \in Call, ProgramEnds(c)
  PROVE  Inv'
  BY DEF ProgramEnds, Inv, Types, Reported, Tracked, HandlesOwnedOnce, Sane, callVars, objectVars

\* Every step keeps the invariant.
LEMMA StepInv == Inv /\ [Next]_vars => Inv'
<1> SUFFICES ASSUME Inv, [Next]_vars PROVE Inv'
  OBVIOUS
<1>1. ASSUME Sane, NEW c \in Call, CallStep(c) PROVE Inv'
  BY <1>1, CallTypes, CallTracked, CallReported DEF Inv
<1>2. ASSUME NEW c \in Call, ProgramEnds(c) PROVE Inv'
  BY <1>2, EndKeepsInv
<1>3. ASSUME Sane, NEW o \in Object, UseObject(o) PROVE Inv'
  BY <1>3, ObjectKeepsInv
<1>4. CASE UNCHANGED vars
  BY <1>4 DEF vars, callVars, processVars, objectVars, Inv, Types, Reported, Tracked,
              HandlesOwnedOnce, Sane
<1>5. QED BY <1>1, <1>2, <1>3, <1>4 DEF Next

\* The invariant holds from the first state on.
LEMMA Invariance == Spec => []Inv
<1>1. Init => Inv
  BY InitInv
<1>2. Inv /\ [Next]_vars => Inv'
  BY StepInv
<1>3. QED BY <1>1, <1>2, PTL DEF Spec

\* Every open process handle has exactly one owner: no child object closes one
\* twice, and none is lost, whatever is moved where (child.hpp).
THEOREM OneOwner == Spec => []HandlesOwnedOnce
<1>1. Inv => HandlesOwnedOnce
  BY DEF Inv, HandlesOwnedOnce
<1>2. QED BY <1>1, Invariance, PTL

-----------------------------------------------------------------------------
(* The calls implement Execution.                                           *)

Call_ == [c \in Call |-> Outcome(c)]
Program_ == [c \in Call |-> Started(c)]
Excused_ == {c \in Call : c \in stale \/ ~Uses(seq[c], Reporters)}

\* The initial states are those of Execution.
LEMMA InitImplements == Init => Promise!ExecutionInit
  BY DEF Init, Promise!ExecutionInit, Outcome, Started

\* Nobody is excused later on.
LEMMA ExcusedStays == ASSUME [Next]_vars PROVE Excused_' = Excused_
<1>1. seq' = seq /\ stale' = stale
  BY DEF Next, vars, callVars, processVars, objectVars, CallStep, UseObject, SetUpNext,
         SetupHandlerThrows, CreateSucceeds, CreateFails, CallBase, SetOnError, ThrowOnError, Throw,
         CallErrorHandler, ReturnChild, MoveConstruct, MoveAssign, Destroy, Terminate,
         ProgramEnds
<1>2. QED BY <1>1 DEF Excused_

\* A step of Execution, in terms of what it changes.
LEMMA Stuttering ==
  ASSUME [Next]_vars, Call_' = Call_, Program_' = Program_
  PROVE  [Promise!ExecutionNext]_<<Call_, Program_, Excused_>>
  BY ExcusedStays

\* A step of a call is a step of Execution or a stutter.
LEMMA CallImplements ==
  ASSUME Inv, Sane, NEW c \in Call, CallStep(c), [Next]_vars
  PROVE  [Promise!ExecutionNext]_<<Call_, Program_, Excused_>>
<1> USE DEF Inv, Types, Outcome, Started, Call_, Program_, callVars, processVars, objectVars
<1>1. CASE SetUpNext(c)
  BY <1>1, Stuttering DEF SetUpNext
<1>2. CASE CreateSucceeds(c)
  <2>1. Call_' = Call_
    BY <1>2 DEF CreateSucceeds
  <2>2. /\ Program_[c] = "none" /\ Call_[c] = "calling"
        /\ Program_' = [Program_ EXCEPT ![c] = "started"]
    BY <1>2 DEF CreateSucceeds, Tracked
  <2>3. Promise!StartProgram(c)
    BY <2>1, <2>2 DEF Promise!StartProgram
  <2>4. Promise!ExecutionNext
    BY <2>3, ExcusedStays DEF Promise!ExecutionNext, Excused_
  <2>5. QED BY <2>4
<1>3. CASE CreateFails(c)
  BY <1>3, Stuttering DEF CreateFails
<1>4. CASE CallBase(c)
  BY <1>4, Stuttering DEF CallBase
<1>5. CASE SetOnError(c)
  BY <1>5, Stuttering DEF SetOnError, InError
<1>6. ASSUME at[c] \in {"setup", "error"}, Throw(c)
      PROVE  [Promise!ExecutionNext]_<<Call_, Program_, Excused_>>
  <2>1. /\ Program_' = Program_ /\ Program_[c] = "none" /\ Call_[c] = "calling"
        /\ Call_' = [Call_ EXCEPT ![c] = "error"]
    BY <1>6 DEF Throw, Tracked
  <2>2. Promise!ReportError(c)
    BY <2>1 DEF Promise!ReportError
  <2>3. Promise!ExecutionNext
    BY <2>2, ExcusedStays DEF Promise!ExecutionNext, Excused_
  <2>4. QED BY <2>3
<1>7. CASE CallErrorHandler(c) /\ ~Throw(c)
  BY <1>7, Stuttering DEF CallErrorHandler, InError
<1>8. ASSUME NEW o \in Object, ReturnChild(c, o)
      PROVE  [Promise!ExecutionNext]_<<Call_, Program_, Excused_>>
  <2>1. /\ Program_' = Program_ /\ Call_[c] = "calling"
        /\ Call_' = [Call_ EXCEPT ![c] = IF ec[c] THEN "error" ELSE "child"]
    BY <1>8 DEF ReturnChild
  <2>2. CASE at[c] = "success"
    <3>1. Program_[c] = "started" /\ (ec[c] => c \in Excused_)
      BY <2>2 DEF Tracked, Reported, Excused_
    <3>2. Promise!ReturnChild(c) \/ Promise!ReportError(c)
      BY <2>1, <3>1, ExcusedStays DEF Promise!ReturnChild, Promise!ReportError, Excused_
    <3>3. Promise!ExecutionNext
      BY <3>2, ExcusedStays DEF Promise!ExecutionNext, Excused_
    <3>4. QED BY <3>3
  <2>3. CASE at[c] = "error" /\ todo[c] = <<>>
    <3>1. ~Uses(todo[c], Reporters)
      BY <2>3 DEF Uses
    <3>2. Program_[c] = "none" /\ (~ec[c] => c \in Excused_)
      BY <2>3, <3>1 DEF Tracked, Reported, Excused_
    <3>3. Promise!ReturnChild(c) \/ Promise!ReportError(c)
      BY <2>1, <3>2, ExcusedStays DEF Promise!ReturnChild, Promise!ReportError, Excused_
    <3>4. Promise!ExecutionNext
      BY <3>3, ExcusedStays DEF Promise!ExecutionNext, Excused_
    <3>5. QED BY <3>4
  <2>4. QED BY <1>8, <2>2, <2>3 DEF ReturnChild
<1>9. QED
  BY <1>1, <1>2, <1>3, <1>4, <1>5, <1>6, <1>7, <1>8
     DEF CallStep, SetupHandlerThrows, ThrowOnError, CallErrorHandler, InError

\* Every step is a step of Execution or a stutter.
LEMMA StepImplements ==
  ASSUME Inv, [Next]_vars
  PROVE  [Promise!ExecutionNext]_<<Call_, Program_, Excused_>>
<1> USE DEF Inv, Types, Outcome, Started, Call_, Program_, callVars, processVars, objectVars
<1>1. ASSUME Sane, NEW c \in Call, CallStep(c)
      PROVE  [Promise!ExecutionNext]_<<Call_, Program_, Excused_>>
  BY <1>1, CallImplements
<1>2. ASSUME NEW c \in Call, ProgramEnds(c)
      PROVE  [Promise!ExecutionNext]_<<Call_, Program_, Excused_>>
  BY <1>2, Stuttering DEF ProgramEnds
<1>3. ASSUME Sane, NEW o \in Object, UseObject(o)
      PROVE  [Promise!ExecutionNext]_<<Call_, Program_, Excused_>>
  <2>1. Call_' = Call_
    BY <1>3 DEF UseObject, MoveConstruct, MoveAssign, Destroy, Terminate
  <2>2. CASE Terminate(o)
    BY <1>3, <2>1, <2>2, Stuttering DEF Terminate, Tracked
  <2>3. CASE ~Terminate(o)
    BY <1>3, <2>1, <2>3, Stuttering DEF UseObject, MoveConstruct, MoveAssign, Destroy
  <2>4. QED BY <2>2, <2>3
<1>4. CASE UNCHANGED vars
  BY <1>4, Stuttering DEF vars
<1>5. QED BY <1>1, <1>2, <1>3, <1>4 DEF Next

\* A call with an error initializer gives a child only when the program runs,
\* and an error only when it never does (windows/executor.hpp).
THEOREM CallsHonour == Spec => ExecutionPromised
<1>1. Init => Promise!ExecutionInit
  BY InitImplements
<1>2. Inv /\ [Next]_vars => [Promise!ExecutionNext]_(Promise!executionVars)
  BY StepImplements DEF Promise!executionVars, Call_, Program_, Excused_
<1>3. QED
  BY <1>1, <1>2, Invariance, PTL DEF Spec, ExecutionPromised, Promise!ExecutionSpec

-----------------------------------------------------------------------------
(* The standard streams.                                                    *)

\* The sequence r is what is left of s after its first k members.
IsRest(r, s, k) == k + Len(r) = Len(s) /\ \A i \in 1..Len(r) : r[i] = s[k + i]

Shape(c) ==
  /\ DOMAIN conf[c] = DOMAIN NewExecutor
  /\ DOMAIN conf[c].std = 0..2

\* The initializers among the first k that name the stream n.
NamingUpTo(c, n, k) == {l \in Naming(c, n) : l <= k}

\* What the first k initializers have made of the streams of c.
StreamSet(c, n, k) ==
  LET naming == NamingUpTo(c, n, k)  last == seq[c][Latest(naming)] IN
  IF naming # {} /\ last.init = Binder[n + 1]
  THEN /\ conf[c].std[n] = last.handle
       /\ last.handle \in inheritable \cup refused[c] /\ conf[c].inherit_handles
  ELSE conf[c].std[n] = Invalid

StreamsSet(c, k) ==
  /\ conf[c].use_std <=> \E m \in 0..2 : NamingUpTo(c, m, k) # {}
  /\ \A n \in 0..2 : StreamSet(c, n, k)

\* The first k initializers of c have been called back.
Configured(c, k) == IsRest(todo[c], seq[c], k) /\ StreamsSet(c, k)

Streams ==
  /\ DOMAIN conf = Call /\ DOMAIN inherited = Call /\ DOMAIN refused = Call
  /\ \A c \in Call :
       /\ Shape(c)
       /\ at[c] = "setup" => \E k \in Nat : Configured(c, k)

\* One member less is left.
LEMMA RestShrinks ==
  ASSUME NEW S, NEW s \in Seq(S), NEW r \in Seq(S), r # <<>>, NEW k \in Nat, IsRest(r, s, k)
  PROVE  /\ k + 1 \in 1..Len(s) /\ Head(r) = s[k + 1]
         /\ IsRest(Tail(r), s, k + 1)
  BY DEF IsRest

\* The last of the first k + 1 places is the new one, if it is one of them.
LEMMA LatestNext ==
  ASSUME NEW c \in Call, seq[c] \in Seq(Initializer), NEW n \in 0..2, NEW k \in Nat,
         k < Len(seq[c])
  PROVE  /\ k + 1 \in Naming(c, n) =>
              NamingUpTo(c, n, k + 1) # {} /\ Latest(NamingUpTo(c, n, k + 1)) = k + 1
         /\ k + 1 \notin Naming(c, n) => NamingUpTo(c, n, k + 1) = NamingUpTo(c, n, k)
<1>1. Naming(c, n) \subseteq 1..Len(seq[c])
  BY DEF Naming
<1>2. ASSUME k + 1 \in Naming(c, n) PROVE Latest(NamingUpTo(c, n, k + 1)) = k + 1
  <2>1. k + 1 \in NamingUpTo(c, n, k + 1)
    BY <1>2 DEF NamingUpTo
  <2>2. \A l \in NamingUpTo(c, n, k + 1) : l \in Nat /\ l <= k + 1
    BY <1>1 DEF NamingUpTo
  <2>3. QED BY <2>1, <2>2 DEF Latest
<1>3. ASSUME k + 1 \notin Naming(c, n) PROVE NamingUpTo(c, n, k + 1) = NamingUpTo(c, n, k)
  BY <1>1, <1>3 DEF NamingUpTo
<1>4. ASSUME k + 1 \in Naming(c, n) PROVE NamingUpTo(c, n, k + 1) # {}
  BY <1>4 DEF NamingUpTo
<1>5. QED BY <1>2, <1>3, <1>4

\* What the callback of i may make of the streams of an executor e.
Resets(f, e, i) ==
  /\ DOMAIN f = DOMAIN NewExecutor /\ DOMAIN f.std = 0..2
  /\ \A n \in 0..2 :
       f.std[n] = IF i.init = Binder[n + 1] THEN i.handle
                  ELSE IF i.init = Closer[n + 1] THEN Invalid ELSE e.std[n]
  /\ f.use_std = IF \E n \in 0..2 : i.init \in {Binder[n + 1], Closer[n + 1]} THEN TRUE
                 ELSE e.use_std
  /\ f.inherit_handles = IF Binds(i) # {} THEN TRUE ELSE e.inherit_handles
  /\ \A n \in 0..2 : i.init = Binder[n + 1] => Binds(i) = {i.handle}

\* on_CreateProcess_setup of i does so.
LEMMA SetUpStreams ==
  ASSUME NEW e, NEW i, DOMAIN e = DOMAIN NewExecutor, DOMAIN e.std = 0..2
  PROVE  Resets(SetUp(e, i), e, i)
<1>1. ASSUME NEW n \in 0..2, i.init = Binder[n + 1]
      PROVE  Resets(SetUp(e, i), e, i)
  <2> DEFINE f == SetUp(e, i)
  <2>1. f = BindStd(e, n, i.handle) /\ Binds(i) = {i.handle}
    BY <1>1 DEF SetUp, BindStdin, BindStdout, BindStderr, Binder, Binds
  <2>2. /\ DOMAIN f = DOMAIN e /\ DOMAIN f.std = 0..2
        /\ \A m \in 0..2 : f.std[m] = IF m = n THEN i.handle ELSE e.std[m]
        /\ f.use_std = TRUE /\ f.inherit_handles = TRUE
    BY <2>1 DEF BindStd, NewExecutor
  <2>3. \A m \in 0..2 : (i.init = Binder[m + 1] <=> m = n) /\ i.init # Closer[m + 1]
    BY <1>1 DEF Binder, Closer
  <2> HIDE DEF f
  <2>4. QED BY <1>1, <2>1, <2>2, <2>3 DEF f, Resets
<1>2. ASSUME NEW n \in 0..2, i.init = Closer[n + 1]
      PROVE  Resets(SetUp(e, i), e, i)
  <2> DEFINE f == SetUp(e, i)
  <2>1. f = CloseStd(e, n) /\ Binds(i) = {}
    BY <1>2 DEF SetUp, CloseStdin, CloseStdout, CloseStderr, Closer, Binds
  <2>2. /\ DOMAIN f = DOMAIN e /\ DOMAIN f.std = 0..2
        /\ \A m \in 0..2 : f.std[m] = IF m = n THEN Invalid ELSE e.std[m]
        /\ f.use_std = TRUE /\ f.inherit_handles = e.inherit_handles
    BY <2>1 DEF CloseStd, NewExecutor
  <2>3. \A m \in 0..2 : (i.init = Closer[m + 1] <=> m = n) /\ i.init # Binder[m + 1]
    BY <1>2 DEF Binder, Closer
  <2> HIDE DEF f
  <2>4. QED BY <1>2, <2>1, <2>2, <2>3 DEF f, Resets
<1>3. CASE i.init \notin {"bind_stdin", "bind_stdout", "bind_stderr", "close_stdin",
                          "close_stdout", "close_stderr"}
  <2> DEFINE f == SetUp(e, i)
  <2> USE DEF SetUp, RunExe, SetArgs, SetCmdLine, SetEnv, StartInDir, ShowWindow, HideConsole,
          NewExecutor
  <2>1. /\ DOMAIN f = DOMAIN e /\ f.std = e.std
        /\ f.use_std = e.use_std /\ f.inherit_handles = e.inherit_handles
    <3>1. CASE i.init \in {"run_exe", "set_args", "set_cmd_line", "set_env"}
      BY <3>1
    <3>2. CASE i.init \in {"start_in_dir", "show_window", "hide_console"}
      BY <3>2
    <3>3. CASE i.init \notin {"run_exe", "set_args", "set_cmd_line", "set_env",
                              "start_in_dir", "show_window", "hide_console"}
      BY <1>3, <3>3
    <3>4. QED BY <3>1, <3>2, <3>3
  <2>2. Binds(i) = {}
    BY <1>3 DEF Binds
  <2>3. \A n \in 0..2 : i.init \notin {Binder[n + 1], Closer[n + 1]}
    BY <1>3 DEF Binder, Closer
  <2> HIDE DEF f
  <2>4. QED BY <2>1, <2>2, <2>3 DEF f, Resets
<1>4. QED BY <1>1, <1>2, <1>3 DEF Binder, Closer

\* One more initializer is called back.
LEMMA SetUpKeeps ==
  ASSUME Inv, Streams, NEW c \in Call, SetUpNext(c)
  PROVE  Shape(c)' /\ (\E k \in Nat : Configured(c, k))'
<1>1. /\ seq[c] \in Seq(Initializer) /\ todo[c] \in Seq(Initializer)
      /\ at[c] = "setup" /\ todo[c] # <<>> /\ seq' = seq
      /\ todo'[c] = Tail(todo[c])
      /\ conf'[c] = SetUp(conf[c], Head(todo[c]))
      /\ inheritable' \cup refused'[c] = inheritable \cup refused[c] \cup Binds(Head(todo[c]))
  <2>1. DOMAIN conf = Call /\ DOMAIN refused = Call
    BY DEF Streams
  <2>2. QED BY <2>1, WindowsAssumption DEF Inv, Types, SetUpNext
<1>2. Shape(c)
  BY DEF Streams
<1>3. PICK k \in Nat : IsRest(todo[c], seq[c], k) /\ StreamsSet(c, k)
  BY <1>1 DEF Streams, Configured
<1>4. PICK i : i = seq[c][k + 1]
  OBVIOUS
<1>5. k + 1 \in 1..Len(seq[c]) /\ Head(todo[c]) = i /\ IsRest(todo'[c], seq'[c], k + 1)
  BY <1>1, <1>3, <1>4, RestShrinks
<1>6. k + 1 \in DOMAIN seq[c] /\ k < Len(seq[c])
  BY <1>1, <1>5
<1>7. /\ Shape(c)'
      /\ \A n \in 0..2 :
           /\ i.init = Binder[n + 1] => /\ conf'[c].std[n] = i.handle
                                        /\ i.handle \in inheritable' \cup refused'[c]
                                        /\ conf'[c].inherit_handles
           /\ i.init = Closer[n + 1] => conf'[c].std[n] = Invalid
           /\ i.init \notin {Binder[n + 1], Closer[n + 1]} => conf'[c].std[n] = conf[c].std[n]
      /\ conf'[c].use_std = IF \E n \in 0..2 : i.init \in {Binder[n + 1], Closer[n + 1]} THEN TRUE
                            ELSE conf[c].use_std
      /\ conf[c].inherit_handles => conf'[c].inherit_handles
  <2>1. \A n \in 0..2 : Binder[n + 1] # Closer[n + 1]
    BY DEF Binder, Closer
  <2>2. /\ conf'[c] = SetUp(conf[c], i)
        /\ inheritable' \cup refused'[c] = inheritable \cup refused[c] \cup Binds(i)
    BY <1>1, <1>5
  <2>3. Resets(SetUp(conf[c], i), conf[c], i)
    BY <1>2, SetUpStreams DEF Shape
  <2>4. Resets(conf'[c], conf[c], i)
    BY <2>2, <2>3
  <2>5. Shape(c)'
    BY <2>4 DEF Shape, Resets, NewExecutor
  <2>6. QED BY <2>1, <2>2, <2>4, <2>5 DEF Resets
<1>8. \A n \in 0..2 : k + 1 \in Naming(c, n) <=> i.init \in {Binder[n + 1], Closer[n + 1]}
  BY <1>4, <1>6 DEF Naming
<1>9. \A n \in 0..2, l \in Nat : NamingUpTo(c, n, l)' = NamingUpTo(c, n, l)
  BY <1>1 DEF NamingUpTo, Naming
<1>10. ASSUME NEW n \in 0..2 PROVE StreamSet(c, n, k + 1)'
  <2>1. CASE k + 1 \in Naming(c, n)
    <3>1. NamingUpTo(c, n, k + 1) # {} /\ Latest(NamingUpTo(c, n, k + 1)) = k + 1
      BY <1>1, <1>3, <1>6, <2>1, LatestNext
    <3>2. QED BY <1>1, <1>3, <1>4, <1>7, <1>8, <1>9, <2>1, <3>1 DEF StreamSet
  <2>2. CASE k + 1 \notin Naming(c, n)
    <3>1. NamingUpTo(c, n, k + 1) = NamingUpTo(c, n, k)
      BY <1>1, <1>3, <1>6, <2>2, LatestNext
    <3>2. conf'[c].std[n] = conf[c].std[n]
      BY <1>7, <1>8, <2>2
    <3>3. StreamSet(c, n, k)
      BY <1>3 DEF StreamsSet
    <3>4. inheritable \cup refused[c] \subseteq inheritable' \cup refused'[c]
      BY <1>1
    <3>5. QED BY <1>1, <1>3, <1>7, <1>9, <3>1, <3>2, <3>3, <3>4 DEF StreamSet
  <2>3. QED BY <2>1, <2>2
<1>11. conf'[c].use_std <=> \E m \in 0..2 : NamingUpTo(c, m, k + 1) # {}
  <2>1. CASE \E n \in 0..2 : k + 1 \in Naming(c, n)
    <3>1. PICK n \in 0..2 : k + 1 \in Naming(c, n)
      BY <2>1
    <3>2. NamingUpTo(c, n, k + 1) # {}
      BY <1>1, <1>3, <1>6, <3>1, LatestNext
    <3>3. conf'[c].use_std = TRUE
      BY <1>7, <1>8, <3>1
    <3>4. QED BY <3>1, <3>2, <3>3
  <2>2. CASE \A n \in 0..2 : k + 1 \notin Naming(c, n)
    <3>1. \A n \in 0..2 : NamingUpTo(c, n, k + 1) = NamingUpTo(c, n, k)
      BY <1>1, <1>3, <1>6, <2>2, LatestNext
    <3>2. conf'[c].use_std = conf[c].use_std
      BY <1>7, <1>8, <2>2
    <3>3. QED BY <1>3, <3>1, <3>2 DEF StreamsSet
  <2>3. QED BY <2>1, <2>2
<1>12. StreamsSet(c, k + 1)'
  BY <1>3, <1>9, <1>10, <1>11 DEF StreamsSet
<1>13. k + 1 \in Nat /\ Configured(c, k + 1)'
  BY <1>3, <1>5, <1>12 DEF Configured
<1>14. QED BY <1>7, <1>13

\* At the start no initializer has been called back.
LEMMA InitStreams == Init => Streams /\ StreamsAsAsked
<1> SUFFICES ASSUME Init PROVE Streams /\ StreamsAsAsked
  OBVIOUS
<1>1. StreamsAsAsked
  BY DEF Init, StreamsAsAsked
<1>2. DOMAIN conf = Call /\ DOMAIN inherited = Call /\ DOMAIN refused = Call
  BY DEF Init
<1>3. ASSUME NEW c \in Call PROVE Shape(c) /\ Configured(c, 0)
  <2>1. conf[c] = NewExecutor /\ todo[c] = seq[c] /\ seq[c] \in Seq(Initializer)
    BY WindowsAssumption DEF Init
  <2>2. Shape(c)
    BY <2>1 DEF Shape, NewExecutor
  <2>3. IsRest(todo[c], seq[c], 0)
    BY <2>1 DEF IsRest
  <2>4. \A n \in 0..2 : NamingUpTo(c, n, 0) = {}
    BY <2>1 DEF NamingUpTo, Naming
  <2>5. StreamsSet(c, 0)
    BY <2>1, <2>4 DEF StreamsSet, StreamSet, NewExecutor
  <2>6. QED BY <2>2, <2>3, <2>5 DEF Configured
<1>4. QED BY <1>1, <1>2, <1>3 DEF Streams

\* The streams of a call are its own: what leaves its executor alone, and
\* takes no handle from the inheritable ones, leaves them as they are.
LEMMA StreamsStay ==
  ASSUME NEW c \in Call, Shape(c), at[c] = "setup" => \E k \in Nat : Configured(c, k),
         seq' = seq, conf'[c] = conf[c], inheritable \subseteq inheritable',
         refused'[c] = refused[c],
         at'[c] = "setup" => at[c] = "setup" /\ todo'[c] = todo[c]
  PROVE  Shape(c)' /\ (at[c] = "setup" => \E k \in Nat : Configured(c, k))'
<1>1. Shape(c)'
  BY DEF Shape
<1>2. ASSUME at'[c] = "setup" PROVE (\E k \in Nat : Configured(c, k))'
  <2>1. PICK k \in Nat : Configured(c, k)
    BY <1>2
  <2>2. \A n \in 0..2 : NamingUpTo(c, n, k)' = NamingUpTo(c, n, k)
    BY DEF NamingUpTo, Naming
  <2>3. \A n \in 0..2 : StreamSet(c, n, k) => StreamSet(c, n, k)'
    BY <2>2 DEF StreamSet
  <2>4. Configured(c, k)'
    BY <1>2, <2>1, <2>2, <2>3 DEF Configured, StreamsSet
  <2>5. QED BY <2>4
<1>3. QED BY <1>1, <1>2

\* Every step keeps the streams of every call.
LEMMA NextStreams == Inv /\ Streams /\ [Next]_vars => Streams'
<1> SUFFICES ASSUME Inv, Streams, [Next]_vars PROVE Streams'
  OBVIOUS
<1>0. DOMAIN conf = Call /\ DOMAIN inherited = Call /\ DOMAIN refused = Call
      /\ todo \in [Call -> Seq(Initializer)]
      /\ at \in [Call -> {"setup", "error", "success", "returned", "threw"}]
      /\ \A c \in Call : Shape(c) /\ (at[c] = "setup" => \E k \in Nat : Configured(c, k))
  BY DEF Streams, Inv, Types
<1>1. ASSUME NEW b \in Call, SetUpNext(b) PROVE Streams'
  <2>1. DOMAIN conf' = Call /\ DOMAIN inherited' = Call /\ DOMAIN refused' = Call
    BY <1>0, <1>1 DEF SetUpNext, processVars
  <2>2. ASSUME NEW c \in Call, c # b
        PROVE Shape(c)' /\ (at[c] = "setup" => \E k \in Nat : Configured(c, k))'
    <3>1. seq' = seq /\ at' = at /\ conf'[c] = conf[c] /\ todo'[c] = todo[c]
          /\ refused'[c] = refused[c] /\ inheritable \subseteq inheritable'
      BY <1>0, <1>1, <2>2 DEF SetUpNext
    <3>2. QED BY <1>0, <3>1, StreamsStay
  <2>3. Shape(b)' /\ (\E k \in Nat : Configured(b, k))'
    BY <1>1, SetUpKeeps
  <2>4. QED BY <2>1, <2>2, <2>3 DEF Streams
<1>2. ASSUME UNCHANGED <<seq, conf, inheritable, refused>>, DOMAIN inherited' = Call,
             \A c \in Call : at'[c] = "setup" => at[c] = "setup" /\ todo'[c] = todo[c]
      PROVE  Streams'
  <2>1. ASSUME NEW c \in Call
        PROVE Shape(c)' /\ (at[c] = "setup" => \E k \in Nat : Configured(c, k))'
    <3>1. /\ seq' = seq /\ conf'[c] = conf[c] /\ inheritable \subseteq inheritable'
          /\ refused'[c] = refused[c]
      BY <1>2
    <3>2. QED BY <1>0, <1>2, <3>1, StreamsStay
  <2>2. QED BY <1>0, <1>2, <2>1 DEF Streams
<1>3. ASSUME NEW b \in Call, CreateSucceeds(b) \/ CreateFails(b) PROVE Streams'
  BY <1>0, <1>2, <1>3 DEF CreateSucceeds, CreateFails, processVars
<1>4. ASSUME NEW b \in Call,
             \/ SetupHandlerThrows(b) \/ CallBase(b) \/ SetOnError(b) \/ ThrowOnError(b)
             \/ CallErrorHandler(b) \/ \E o \in Object : ReturnChild(b, o)
      PROVE  Streams'
  BY <1>0, <1>2, <1>4 DEF SetupHandlerThrows, CallBase, SetOnError, ThrowOnError,
                          CallErrorHandler, ReturnChild, InError, Throw, processVars
<1>5. ASSUME \/ \E b \in Call : ProgramEnds(b)
             \/ \E o \in Object : UseObject(o)
             \/ UNCHANGED vars
      PROVE  Streams'
  BY <1>0, <1>2, <1>5 DEF ProgramEnds, UseObject, Terminate, Destroy, MoveConstruct, MoveAssign,
                    callVars, processVars, vars
<1>6. QED BY <1>1, <1>3, <1>4, <1>5 DEF Next, CallStep

\* When all initializers have been called back, the latest of all counts.
LEMMA AllConfigured ==
  ASSUME NEW c \in Call, NEW k \in Nat, seq[c] \in Seq(Initializer), todo[c] = <<>>,
         Configured(c, k)
  PROVE  /\ conf[c].use_std <=> \E m \in 0..2 : Naming(c, m) # {}
         /\ \A n \in 0..2 :
              LET naming == Naming(c, n)  last == seq[c][Latest(naming)] IN
              IF naming # {} /\ last.init = Binder[n + 1]
              THEN /\ conf[c].std[n] = last.handle
                   /\ last.handle \in inheritable \cup refused[c] /\ conf[c].inherit_handles
              ELSE conf[c].std[n] = Invalid
<1>1. k = Len(seq[c])
  BY DEF Configured, IsRest
<1>2. \A n \in 0..2 : NamingUpTo(c, n, k) = Naming(c, n)
  BY <1>1 DEF NamingUpTo, Naming
<1>3. QED BY <1>2 DEF Configured, StreamsSet, StreamSet

\* A process gets what its executor has; its executor is not changed again.
LEMMA NextAsAsked == Inv /\ Streams /\ StreamsAsAsked /\ [Next]_vars => StreamsAsAsked'
<1> SUFFICES ASSUME Inv, Streams, StreamsAsAsked, [Next]_vars PROVE StreamsAsAsked'
  OBVIOUS
<1>0. DOMAIN conf = Call /\ DOMAIN inherited = Call /\ DOMAIN refused = Call /\ Types
  BY DEF Streams, Inv
<1>1. ASSUME NEW c \in Call, NEW n \in 0..2, seq' = seq, conf'[c] = conf[c],
             inherited'[c] = inherited[c], refused'[c] = refused[c], proc[c] # "none"
      PROVE  LET naming == Naming(c, n)'  last == seq'[c][Latest(naming)] IN
             /\ conf'[c].use_std <=> \E m \in 0..2 : Naming(c, m)' # {}
             /\ IF naming # {} /\ last.init = Binder[n + 1]
                THEN conf'[c].std[n] = last.handle /\ last.handle \in inherited'[c] \cup refused'[c]
                ELSE conf'[c].std[n] = Invalid
  <2>1. \A m \in 0..2 : Naming(c, m)' = Naming(c, m)
    BY <1>1 DEF Naming
  <2>2. QED BY <1>1, <2>1 DEF StreamsAsAsked
<1>2. ASSUME seq' = seq, \A c \in Call : proc'[c] # "none" =>
               /\ conf'[c] = conf[c] /\ inherited'[c] = inherited[c] /\ refused'[c] = refused[c]
               /\ proc[c] # "none"
      PROVE  StreamsAsAsked'
  BY <1>1, <1>2 DEF StreamsAsAsked
<1>3. CASE UNCHANGED vars
  BY <1>2, <1>3 DEF vars, callVars, processVars
<1>4. ASSUME NEW b \in Call, Sane, CallStep(b) PROVE StreamsAsAsked'
  <2>1. CASE SetUpNext(b)
    <3>1. at[b] = "setup" /\ proc[b] = "none"
      BY <1>4, <2>1 DEF SetUpNext, Inv, Tracked
    <3>2. QED BY <1>0, <1>2, <2>1, <3>1 DEF SetUpNext, processVars
  <2>2. CASE CreateSucceeds(b)
    <3>1. ASSUME NEW c \in Call, NEW n \in 0..2, proc'[c] # "none"
          PROVE  LET naming == Naming(c, n)'  last == seq'[c][Latest(naming)] IN
                 /\ conf'[c].use_std <=> \E m \in 0..2 : Naming(c, m)' # {}
                 /\ IF naming # {} /\ last.init = Binder[n + 1]
                    THEN /\ conf'[c].std[n] = last.handle
                         /\ last.handle \in inherited'[c] \cup refused'[c]
                    ELSE conf'[c].std[n] = Invalid
      <4>1. CASE c = b
        <5>1. at[c] = "setup" /\ todo[c] = <<>> /\ seq[c] \in Seq(Initializer)
          BY <1>0, <2>2, <4>1, WindowsAssumption DEF CreateSucceeds, Types
        <5>2. PICK k \in Nat : Configured(c, k)
          BY <5>1 DEF Streams
        <5>3. seq' = seq /\ conf' = conf /\ refused' = refused
          BY <2>2 DEF CreateSucceeds
        <5>4. \A m \in 0..2 : Naming(c, m)' = Naming(c, m)
          BY <5>3 DEF Naming
        <5>5. conf[c].inherit_handles => inherited'[c] = inheritable
          BY <1>0, <2>2, <4>1 DEF CreateSucceeds
        <5>6. QED BY <5>1, <5>2, <5>3, <5>4, <5>5, AllConfigured
      <4>2. CASE c # b
        <5>1. /\ proc'[c] = proc[c] /\ inherited'[c] = inherited[c]
              /\ seq' = seq /\ conf' = conf /\ refused' = refused
          BY <1>0, <2>2, <4>2 DEF CreateSucceeds, Types
        <5>2. QED BY <1>1, <3>1, <5>1
      <4>3. QED BY <4>1, <4>2
    <3>2. QED BY <3>1 DEF StreamsAsAsked
  <2>3. CASE CreateFails(b) \/ SetupHandlerThrows(b) \/ CallBase(b) \/ SetOnError(b)
             \/ ThrowOnError(b) \/ CallErrorHandler(b) \/ \E o \in Object : ReturnChild(b, o)
    BY <1>2, <2>3 DEF CreateFails, SetupHandlerThrows, CallBase, SetOnError, ThrowOnError,
                      CallErrorHandler,
                      ReturnChild, InError, Throw, processVars
  <2>4. QED BY <1>4, <2>1, <2>2, <2>3 DEF CallStep
<1>5. ASSUME NEW b \in Call, ProgramEnds(b) PROVE StreamsAsAsked'
  BY <1>0, <1>2, <1>5 DEF ProgramEnds, callVars, Types
<1>6. ASSUME NEW o \in Object, Sane, UseObject(o) PROVE StreamsAsAsked'
  <2>1. CASE Terminate(o)
    <3>1. \A c \in Call : object[o] = c => proc[c] # "none"
      BY <1>6 DEF Inv, Tracked
    <3>2. QED BY <1>2, <2>1, <3>1 DEF Terminate, callVars
  <2>2. CASE Destroy(o) \/ \E a \in Object : MoveConstruct(a, o) \/ MoveAssign(a, o)
    BY <1>2, <2>2 DEF Destroy, MoveConstruct, MoveAssign, callVars, processVars
  <2>3. QED BY <1>6, <2>1, <2>2 DEF UseObject
<1>7. QED BY <1>3, <1>4, <1>5, <1>6 DEF Next

\* Every process has the standard streams that the last initializer for each
\* of them asks for, however the calls interleave.
THEOREM StandardStreams == Spec => []StreamsAsAsked
<1>1. Init => Streams /\ StreamsAsAsked
  BY InitStreams
<1>2. Inv /\ Streams /\ StreamsAsAsked /\ [Next]_vars => (Streams /\ StreamsAsAsked)'
  BY NextStreams, NextAsAsked
<1>3. QED BY <1>1, <1>2, Invariance, PTL DEF Spec
=============================================================================
