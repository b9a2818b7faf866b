------------------------- MODULE ChildProcessProofs -------------------------
(***************************************************************************)
(* What ChildProcess promises for any number of jobs, commands and process *)
(* ids: the type invariant, NoChildForgotten and OwnStatus.                *)
(***************************************************************************)
EXTENDS ChildProcess, TLAPS

\* Every process that is not free belongs to a job that still holds its pid
\* and remembers its command: NoChildForgotten, with what its proof needs.
Owned ==
  \A p \in Pid : state[p] # "free" =>
    /\ owner[p] \in Job
    /\ child[owner[p]] = p
    /\ command[owner[p]] \in Cmd

\* A job looks at a status before it executes another command.
StatusLast == \A j \in Job : status[j] # "none" => child[j] = None

Inv == TypeOK /\ Owned /\ StatusLast

\* The initial states satisfy the invariant: there is no process yet.
LEMMA InitInv == Init => Inv
  BY DEF Init, Inv, TypeOK, Owned, StatusLast, Zombie

\* No step leaves the types.
LEMMA TypeStep ==
  ASSUME TypeOK, [Next]_procVars,
         \A p \in Pid : state[p] # "free" => owner[p] \in Job /\ command[owner[p]] \in Cmd
  PROVE  TypeOK'
<1> USE ChildAssumption DEF TypeOK, Zombie
<1>1. ASSUME NEW j \in Job, NEW c \in Cmd, NEW p \in Pid, ForkChild(j, c, p)
      PROVE  TypeOK'
  BY <1>1 DEF ForkChild
<1>2. ASSUME NEW j \in Job, NEW c \in Cmd, ForkFails(j, c)
      PROVE  TypeOK'
  BY <1>2 DEF ForkFails
<1>3. ASSUME NEW p \in Pid, ExecSucceeds(p)
      PROVE  TypeOK'
  BY <1>3 DEF ExecSucceeds
<1>4. ASSUME NEW p \in Pid, NEW z \in Zombie, state[p] # "free", Ends(p, z)
      PROVE  TypeOK'
  <2>1. owner[p] \in Job /\ command[owner[p]] \in Cmd
    BY <1>4
  <2>2. QED BY <1>4, <2>1 DEF Ends
<1>5. ASSUME NEW j \in Job, NEW p \in Pid, WaitReturns(j, p)
      PROVE  TypeOK'
  BY <1>5 DEF WaitReturns, Reaped
<1>6. ASSUME NEW j \in Job, NEW p \in Pid, WaitLoops(j, p)
      PROVE  TypeOK'
  BY <1>6 DEF WaitLoops, Reaped
<1>7. ASSUME NEW j \in Job, WaitThrows(j)
      PROVE  TypeOK'
  BY <1>7 DEF WaitThrows
<1>8. ASSUME NEW j \in Job, TakeStatus(j)
      PROVE  TypeOK'
  BY <1>8 DEF TakeStatus
<1>9. CASE UNCHANGED procVars
  BY <1>9 DEF procVars
<1>10. QED
  BY <1>1, <1>2, <1>3, <1>4, <1>5, <1>6, <1>7, <1>8, <1>9
     DEF Next, Fork, WaitForExit, RunsChild, ExecFails, Exits, Killed

\* A step changes the owner, the child object or the command of a process that
\* stays unfree in no case, and a process becomes unfree only when it is the
\* new child of the job that forked it.
LEMMA OwnedStep == ASSUME Inv, [Next]_procVars PROVE Owned'
<1> USE ChildAssumption DEF Inv, TypeOK, Owned, Zombie
<1>1. ASSUME NEW j \in Job, NEW c \in Cmd, NEW p \in Pid, ForkChild(j, c, p)
      PROVE  Owned'
  BY <1>1 DEF ForkChild, ReadyToExecute
<1>2. ASSUME NEW j \in Job, NEW c \in Cmd, ForkFails(j, c)
      PROVE  Owned'
  BY <1>2 DEF ForkFails, ReadyToExecute
<1>3. ASSUME NEW p \in Pid, ExecSucceeds(p)
      PROVE  Owned'
  BY <1>3 DEF ExecSucceeds
<1>4. ASSUME NEW p \in Pid, NEW z \in Zombie, state[p] # "free", Ends(p, z)
      PROVE  Owned'
  BY <1>4 DEF Ends
<1>5. ASSUME NEW j \in Job, NEW p \in Pid, WaitReturns(j, p)
      PROVE  Owned'
  BY <1>5 DEF WaitReturns, WaitsFor, Reaped
<1>6. ASSUME NEW j \in Job, NEW p \in Pid, WaitLoops(j, p)
      PROVE  Owned'
  BY <1>6 DEF WaitLoops, Reaped
<1>7. ASSUME NEW j \in Job, WaitThrows(j)
      PROVE  Owned'
  BY <1>7 DEF WaitThrows, WaitsFor
<1>8. ASSUME NEW j \in Job, TakeStatus(j)
      PROVE  Owned'
  BY <1>8 DEF TakeStatus
<1>9. CASE UNCHANGED procVars
  BY <1>9 DEF procVars
<1>10. QED
  BY <1>1, <1>2, <1>3, <1>4, <1>5, <1>6, <1>7, <1>8, <1>9
     DEF Next, Fork, WaitForExit, RunsChild, ExecFails, Exits, Killed

\* An execute() needs the last status taken; a wait that sets one clears the
\* child object.
LEMMA StatusLastStep == ASSUME Inv, [Next]_procVars PROVE StatusLast'
<1> USE ChildAssumption DEF Inv, TypeOK, StatusLast
<1>1. ASSUME NEW j \in Job, Fork(j) PROVE StatusLast'
  BY <1>1 DEF Fork, ForkChild, ForkFails, ReadyToExecute
<1>2. ASSUME NEW j \in Job, WaitForExit(j) PROVE StatusLast'
  BY <1>2 DEF WaitForExit, WaitReturns, WaitLoops, WaitThrows
<1>3. ASSUME NEW j \in Job, TakeStatus(j) PROVE StatusLast'
  BY <1>3 DEF TakeStatus
<1>4. ASSUME NEW p \in Pid, RunsChild(p) PROVE StatusLast'
  BY <1>4 DEF RunsChild, ExecSucceeds, ExecFails, Exits, Killed, Ends
<1>5. CASE UNCHANGED procVars
  BY <1>5 DEF procVars
<1>6. QED BY <1>1, <1>2, <1>3, <1>4, <1>5 DEF Next

\* One step keeps the invariant, whichever faults have happened.
LEMMA StepInv == ASSUME Inv, [Next]_procVars PROVE Inv'
  BY TypeStep, OwnedStep, StatusLastStep DEF Inv, Owned

\* The invariant holds in every reachable state.
LEMMA Invariance == Spec => []Inv
<1>1. Init => Inv BY InitInv
<1>2. Inv /\ [Next]_procVars => Inv' BY StepInv
<1>3. QED BY <1>1, <1>2, PTL DEF Spec

\* The variables keep their types: in particular the status that a job judges
\* is never that of a child that a signal killed.
THEOREM TypeCorrect == Spec => []TypeOK
<1>1. Inv => TypeOK BY DEF Inv
<1>2. QED BY <1>1, Invariance, PTL

\* No job leaves a process of its own behind, whatever fails: with any number
\* of jobs, and although a failed fork makes a job reap other jobs' children.
THEOREM NoneForgotten == Spec => []NoChildForgotten
<1>1. Inv => NoChildForgotten BY DEF Inv, Owned, NoChildForgotten
<1>2. QED BY <1>1, Invariance, PTL

-----------------------------------------------------------------------------
(* OwnStatus.  Its strengthening is about runs without a fault so far.  The  *)
(* lemmas do not ask for Owned but for Apart, which also holds when a process*)
(* has outlived the image, and so the child object, of the job that forked   *)
(* it: BuildBotProofs uses them too.                                         *)

\* Every process that is not free is the only one of its job, which waits for
\* no other and has no status to look at.
Apart ==
  \A p \in Pid : state[p] # "free" =>
    /\ owner[p] \in Job /\ command[owner[p]] \in Cmd
    /\ child[owner[p]] \in {None, p} /\ status[owner[p]] = "none"
    /\ \A q \in Pid \ {p} : state[q] # "free" => owner[q] # owner[p]

\* A job that can execute a command has no process.
Idle(j) == \A p \in Pid : state[p] # "free" => owner[p] # j

\* Owned processes are apart, and a job that holds none has none.
LEMMA OwnedApart ==
  ASSUME Inv
  PROVE  Apart /\ \A j \in Job : child[j] = None => Idle(j)
<1>1. Apart
  BY ChildAssumption DEF Inv, TypeOK, Owned, StatusLast, Apart
<1>2. \A j \in Job : child[j] = None => Idle(j)
  BY ChildAssumption DEF Inv, Owned, Idle
<1>3. QED BY <1>1, <1>2

\* Every child object is the result of a fork that succeeded, and no two jobs
\* hold the same process id.
OneHolder ==
  \A j \in Job :
    /\ child[j] # NoPid
    /\ child[j] # None => \A k \in Job \ {j} : child[k] # child[j]

\* The process a job waits for is its own; if the process id is free, the wait
\* has already reaped the child, which a signal had killed.
HoldsOwn ==
  \A j \in Job : child[j] \in Pid =>
    IF state[child[j]] = "free"
    THEN fate[j][command[j]] = "killed"
    ELSE owner[child[j]] = j

\* A zombie has the status that its job's history has recorded.
ZombieFate ==
  \A p \in Pid : state[p] \in Zombie => fate[owner[p]][command[owner[p]]] = state[p]

FaultlessInv == faults = {} => OneHolder /\ HoldsOwn /\ ZombieFate

\* Apart from the process table's own part: what the steps below keep.
ApartInv == TypeOK /\ StatusLast /\ Apart /\ FaultlessInv /\ OwnStatus

StatusInv == Inv /\ FaultlessInv /\ OwnStatus

\* The initial states satisfy the strengthened invariant.
LEMMA InitStatusInv == Init => StatusInv
  BY InitInv, ChildAssumption
     DEF Init, StatusInv, FaultlessInv, OwnStatus, OneHolder, HoldsOwn, ZombieFate, Zombie

\* Nobody else holds the process id that a fork returns, or it is a fault.
LEMMA ForkStatus ==
  ASSUME ApartInv, NEW j \in Job, NEW c \in Cmd, NEW p \in Pid, ForkChild(j, c, p),
         Idle(j)
  PROVE  FaultlessInv' /\ OwnStatus'
<1> USE ChildAssumption DEF ApartInv, TypeOK, Zombie, ForkChild, ReadyToExecute
<1> SUFFICES ASSUME faults' = {}
             PROVE  (OneHolder /\ HoldsOwn /\ ZombieFate)' /\ OwnStatus'
  BY DEF FaultlessInv, OwnStatus
<1>1. faults = {} /\ \A k \in Job \ {j} : child[k] # p
  OBVIOUS
<1>2. OneHolder /\ HoldsOwn /\ ZombieFate
  BY <1>1 DEF FaultlessInv
<1>3. OneHolder'
  BY <1>1, <1>2 DEF OneHolder
<1>4. HoldsOwn'
  BY <1>1, <1>2 DEF HoldsOwn
<1>5. ZombieFate'
  BY <1>2 DEF ZombieFate, Apart, Idle
<1>6. OwnStatus'
  BY <1>1 DEF OwnStatus
<1>7. QED BY <1>3, <1>4, <1>5, <1>6

\* The end of a child concerns the job that owns it, and only that one.
LEMMA EndStatus ==
  ASSUME ApartInv, NEW p \in Pid, NEW z \in Zombie, state[p] # "free", Ends(p, z)
  PROVE  FaultlessInv' /\ OwnStatus'
<1> USE ChildAssumption DEF ApartInv, TypeOK, Zombie, Ends
<1> SUFFICES ASSUME faults = {}
             PROVE  (OneHolder /\ HoldsOwn /\ ZombieFate)' /\ OwnStatus'
  BY DEF FaultlessInv, OwnStatus
<1>1. OneHolder /\ HoldsOwn /\ ZombieFate
  BY DEF FaultlessInv
<1>2. /\ owner[p] \in Job /\ child[owner[p]] \in {None, p} /\ command[owner[p]] \in Cmd
      /\ status[owner[p]] = "none"
  BY DEF Apart
<1>3. \A k \in Job \ {owner[p]} : fate'[k] = fate[k]
  OBVIOUS
<1>4. fate'[owner[p]][command[owner[p]]] = z
  BY <1>2
<1>5. OneHolder'
  BY <1>1 DEF OneHolder
<1>6. HoldsOwn'
  BY <1>1, <1>2, <1>3 DEF HoldsOwn
<1>7. ZombieFate'
  <2> SUFFICES ASSUME NEW q \in Pid, state'[q] \in Zombie
               PROVE  fate'[owner[q]][command[owner[q]]] = state'[q]
    BY DEF ZombieFate
  <2>1. CASE q = p
    BY <2>1, <1>4
  <2>2. CASE q # p
    <3>1. state[q] \in Zombie /\ owner[q] \in Job \ {owner[p]}
      BY <2>2, <1>2 DEF Apart
    <3>2. QED BY <3>1, <1>1, <1>3, <2>2 DEF ZombieFate
  <2>3. QED BY <2>1, <2>2
<1>8. OwnStatus'
  BY <1>2, <1>3 DEF OwnStatus
<1>9. QED BY <1>5, <1>6, <1>7, <1>8

\* What a wait returns is the status of the caller's own child.
LEMMA ReturnStatus ==
  ASSUME ApartInv, NEW j \in Job, NEW p \in Pid, WaitReturns(j, p)
  PROVE  FaultlessInv' /\ OwnStatus'
<1> USE ChildAssumption DEF ApartInv, TypeOK, Zombie, WaitReturns, WaitsFor, Reaped
<1> SUFFICES ASSUME faults = {}
             PROVE  (OneHolder /\ HoldsOwn /\ ZombieFate)' /\ OwnStatus'
  BY DEF FaultlessInv, OwnStatus
<1>1. OneHolder /\ HoldsOwn /\ ZombieFate
  BY DEF FaultlessInv
<1>2. child[j] = p
  BY <1>1 DEF OneHolder
<1>3. owner[p] = j /\ fate[j][command[j]] = state[p]
  BY <1>1, <1>2 DEF HoldsOwn, ZombieFate
<1>4. OneHolder'
  BY <1>1 DEF OneHolder
<1>5. HoldsOwn'
  BY <1>1, <1>2 DEF HoldsOwn, OneHolder
<1>6. ZombieFate'
  BY <1>1 DEF ZombieFate
<1>7. OwnStatus'
  BY <1>3 DEF OwnStatus
<1>8. QED BY <1>4, <1>5, <1>6, <1>7

\* The child that a wait reaps and then looks for again was the caller's own.
LEMMA LoopStatus ==
  ASSUME ApartInv, NEW j \in Job, NEW p \in Pid, WaitLoops(j, p)
  PROVE  FaultlessInv' /\ OwnStatus'
<1> USE ChildAssumption DEF ApartInv, TypeOK, Zombie, WaitLoops, WaitsFor, Reaped
<1> SUFFICES ASSUME faults = {}
             PROVE  (OneHolder /\ HoldsOwn /\ ZombieFate)' /\ OwnStatus'
  BY DEF FaultlessInv, OwnStatus
<1>1. OneHolder /\ HoldsOwn /\ ZombieFate
  BY DEF FaultlessInv
<1>2. child[j] = p
  BY <1>1 DEF OneHolder
<1>3. owner[p] = j /\ fate[j][command[j]] = "killed"
  BY <1>1, <1>2 DEF HoldsOwn, ZombieFate
<1>4. OneHolder'
  BY <1>1 DEF OneHolder
<1>5. HoldsOwn'
  BY <1>1, <1>2, <1>3 DEF HoldsOwn, OneHolder
<1>6. ZombieFate'
  BY <1>1 DEF ZombieFate
<1>7. OwnStatus'
  BY DEF OwnStatus
<1>8. QED BY <1>4, <1>5, <1>6, <1>7

\* A wait throws only when a signal has killed the caller's own child.
LEMMA ThrowStatus ==
  ASSUME ApartInv, NEW j \in Job, WaitThrows(j)
  PROVE  FaultlessInv' /\ OwnStatus'
<1> USE ChildAssumption DEF ApartInv, TypeOK, Zombie, WaitThrows, WaitsFor
<1> SUFFICES ASSUME faults = {}
             PROVE  (OneHolder /\ HoldsOwn /\ ZombieFate)' /\ OwnStatus'
  BY DEF FaultlessInv, OwnStatus
<1>1. OneHolder /\ HoldsOwn /\ ZombieFate
  BY DEF FaultlessInv
<1>2. child[j] \in Pid /\ state[child[j]] = "free"
  BY <1>1 DEF OneHolder
<1>3. fate[j][command[j]] = "killed"
  BY <1>1, <1>2 DEF HoldsOwn
<1>4. OneHolder' /\ HoldsOwn' /\ ZombieFate'
  BY <1>1 DEF OneHolder, HoldsOwn, ZombieFate
<1>5. OwnStatus'
  BY <1>3 DEF OwnStatus
<1>6. QED BY <1>4, <1>5

\* One step of the processes keeps a status one's own.
LEMMA StepApart ==
  ASSUME ApartInv, [Next]_procVars, \A j \in Job : Fork(j) => Idle(j)
  PROVE  FaultlessInv' /\ OwnStatus'
<1>1. ASSUME NEW j \in Job, NEW c \in Cmd, ForkFails(j, c)
      PROVE  FaultlessInv' /\ OwnStatus'
  BY <1>1 DEF ForkFails, FaultlessInv, OwnStatus
<1>2. ASSUME NEW p \in Pid, ExecSucceeds(p)
      PROVE  FaultlessInv' /\ OwnStatus'
  BY <1>2 DEF ExecSucceeds, ApartInv, TypeOK, FaultlessInv, OwnStatus,
              OneHolder, HoldsOwn, ZombieFate, Zombie
<1>3. ASSUME NEW j \in Job, TakeStatus(j)
      PROVE  FaultlessInv' /\ OwnStatus'
  BY <1>3 DEF TakeStatus, ApartInv, TypeOK, FaultlessInv, OwnStatus,
              OneHolder, HoldsOwn, ZombieFate
<1>4. CASE UNCHANGED procVars
  BY <1>4 DEF procVars, ApartInv, FaultlessInv, OwnStatus, OneHolder, HoldsOwn,
              ZombieFate
<1>5. QED
  BY <1>1, <1>2, <1>3, <1>4, ForkStatus, EndStatus, ReturnStatus, LoopStatus,
     ThrowStatus
     DEF Next, Fork, WaitForExit, RunsChild, ExecFails, Exits, Killed, Zombie

\* One step keeps the strengthened invariant.
LEMMA StepStatusInv == ASSUME StatusInv, [Next]_procVars PROVE StatusInv'
<1>1. Inv'
  BY StepInv DEF StatusInv
<1>2. FaultlessInv' /\ OwnStatus'
  <2>1. ApartInv
    BY OwnedApart DEF StatusInv, ApartInv, Inv
  <2>2. ASSUME NEW j \in Job, Fork(j) PROVE Idle(j)
    BY <2>2, OwnedApart DEF StatusInv, Fork, ForkFails, ForkChild, ReadyToExecute
  <2>3. QED BY <2>1, <2>2, StepApart
<1>3. QED BY <1>1, <1>2 DEF StatusInv

\* As long as no fork fails and no process id is recycled under a waiting job,
\* every status a job judges is that of its own child, for any number of jobs.
THEOREM StatusIsOwn == Spec => []OwnStatus
<1>1. Init => StatusInv BY InitStatusInv
<1>2. StatusInv /\ [Next]_procVars => StatusInv' BY StepStatusInv
<1>3. StatusInv => OwnStatus BY DEF StatusInv
<1>4. QED BY <1>1, <1>2, <1>3, PTL DEF Spec
=============================================================================
