--------------------------- MODULE BuildBotProofs ---------------------------
(***************************************************************************)
(* What BuildBot promises for any number of builds, pool threads, process  *)
(* ids, directories and restarts.  Of WorkerProofs, the invariant does not *)
(* carry over: after a restart, processes are left whose owner has no      *)
(* child object any more.  What its lemmas ask of a state does.            *)
(***************************************************************************)
EXTENDS BuildBot, WorkerProofs, SequenceTheorems

-----------------------------------------------------------------------------
(* The service: every build is in one place.                                *)

Increasing == \A i, k \in 1..Len(waiting) : i < k => waiting[i] < waiting[k]

Placed ==
  /\ waiting \in Seq(Job) /\ running \in SUBSET Job /\ cut \in SUBSET Job
  /\ over \in SUBSET Job
  /\ Increasing
  /\ Waiting \cap (running \cup over \cup cut) = {}
  /\ running \cap cut = {} /\ over \cap (running \cup cut) = {}

\* A build is in one place at most, whatever the service does.
LEMMA PlacedStep ==
  ASSUME Placed, [ServiceNext]_serviceVars PROVE Placed'
<1>1. Job \subseteq Nat /\ Build = Job
  BY BuildServiceAssumption, BuildBotAssumption
<1>2. Len(waiting) \in Nat /\ \A i \in 1..Len(waiting) : waiting[i] \in Job
  BY DEF Placed
<1>3. ASSUME NEW b \in Build, Accept(b) PROVE Placed'
  <2>1. /\ waiting' = Append(waiting, b) /\ UNCHANGED <<running, over, cut>>
        /\ \A a \in Accepted : a < b
    BY <1>3 DEF Accept
  <2>2. /\ Len(waiting') = Len(waiting) + 1 /\ waiting'[Len(waiting) + 1] = b
        /\ \A i \in 1..Len(waiting) : waiting'[i] = waiting[i]
    BY <1>1, <2>1 DEF Placed
  <2>3. Waiting' = Waiting \cup {b}
    <3>1. \A x \in Waiting' : x \in Waiting \cup {b}
      BY <1>2, <2>2 DEF Waiting
    <3>2. \A x \in Waiting : x \in Waiting'
      BY <1>2, <2>2 DEF Waiting
    <3>3. b \in Waiting'
      BY <1>2, <2>2 DEF Waiting
    <3>4. QED BY <3>1, <3>2, <3>3
  <2>4. b \notin Accepted
    <3>1. ~(b < b)
      BY <1>1
    <3>2. QED BY <2>1, <3>1
  <2>5. Increasing'
    <3>1. \A i \in 1..Len(waiting) : waiting[i] < b
      BY <2>1 DEF Accepted, Waiting
    <3>2. QED BY <1>2, <2>2, <3>1 DEF Placed, Increasing
  <2>6. waiting' \in Seq(Job)
    BY <1>1, <2>1 DEF Placed
  <2>7. QED BY <2>1, <2>3, <2>4, <2>5, <2>6 DEF Placed, Accepted
<1>4. CASE Start
  <2> DEFINE b == Head(waiting)
  <2>1. /\ waiting # <<>> /\ waiting' = Tail(waiting) /\ running' = running \cup {b}
        /\ UNCHANGED <<over, cut>>
    BY <1>4 DEF Start
  <2>2. /\ b = waiting[1] /\ b \in Job /\ 1 \in 1..Len(waiting)
        /\ waiting' \in Seq(Job) /\ Len(waiting') = Len(waiting) - 1
        /\ \A i \in 1..Len(waiting') : waiting'[i] = waiting[i + 1]
    BY <2>1, HeadTailProperties DEF Placed
  <2>3. /\ \A i \in 1..Len(waiting') : i + 1 \in 1..Len(waiting) /\ 1 < i + 1
    BY <1>2, <2>2
  <2>4. Waiting' \subseteq Waiting
    BY <2>2, <2>3 DEF Waiting
  <2>5. Increasing'
    BY <1>2, <2>2, <2>3 DEF Placed, Increasing
  <2>6. b \in Waiting
    BY <2>2 DEF Waiting
  <2>7. b \notin Waiting'
    <3>1. \A i \in 1..Len(waiting') : b < waiting'[i]
      BY <2>2, <2>3 DEF Placed, Increasing
    <3>2. ~(b < b)
      BY <1>1, <2>2
    <3>3. QED BY <3>1, <3>2 DEF Waiting
  <2>8. QED BY <2>1, <2>2, <2>4, <2>5, <2>6, <2>7 DEF Placed
<1>5. ASSUME NEW b \in Build, Finish(b) PROVE Placed'
  <2>1. Waiting' = Waiting /\ (Increasing' <=> Increasing) /\ waiting' = waiting
    BY <1>5 DEF Finish, Waiting, Increasing
  <2>2. /\ b \in running /\ running' = running \ {b} /\ over' = over \cup {b}
        /\ cut' = cut
    BY <1>5 DEF Finish
  <2>3. QED BY <2>1, <2>2 DEF Placed
<1>6. CASE Drop \/ CutOff
  <2>1. waiting' = <<>> /\ over' = over
    BY <1>6 DEF Drop, CutOff
  <2>2. Waiting' = {} /\ Increasing' /\ waiting' \in Seq(Job)
    BY <2>1 DEF Waiting, Increasing
  <2>3. Waiting \subseteq Job
    BY <1>2 DEF Waiting
  <2>4. \/ running' = running /\ cut' = cut \cup Waiting
        \/ running' = {} /\ cut' = cut \cup Waiting \cup running
    BY <1>6 DEF Drop, CutOff
  <2>5. QED BY <2>1, <2>2, <2>3, <2>4 DEF Placed
<1>7. CASE UNCHANGED serviceVars \/ Quit
  BY <1>7 DEF serviceVars, Quit, Placed, Waiting, Increasing
<1>8. QED BY <1>3, <1>4, <1>5, <1>6, <1>7 DEF ServiceNext

\* Every step of the builds under the bot is one of the service, or none.
LEMMA ServiceStep == ASSUME [BuildBotNext]_botVars PROVE [ServiceNext]_serviceVars
<1>1. ASSUME NEW j \in Job, AcceptBuild(j) \/ FinishBuild(j) PROVE ServiceNext
  BY <1>1, BuildBotAssumption DEF AcceptBuild, FinishBuild, ServiceNext
<1>2. CASE StartBuild \/ QuitService \/ Restart
  BY <1>2 DEF StartBuild, QuitService, Restart, ServiceNext
<1>3. ASSUME NEW j \in Job, RunBuild(j) PROVE UNCHANGED serviceVars
  BY <1>3 DEF RunBuild
<1>4. ASSUME NEW p \in Pid, RunAnyCommand(p) PROVE UNCHANGED serviceVars
  BY <1>4 DEF RunAnyCommand
<1>5. CASE UNCHANGED botVars
  BY <1>5 DEF botVars, serviceVars
<1>6. QED BY <1>1, <1>2, <1>3, <1>4, <1>5 DEF BuildBotNext

\* A build is in one place at a time: waiting once, running, over, or cut off.
LEMMA PlacedAlways == BuildBotSpec => []Placed
<1>1. BuildBotInit => Placed
  <2>1. BuildBotInit => waiting = <<>> /\ running = {} /\ over = {} /\ cut = {}
    BY DEF BuildBotInit, ServiceInit
  <2>2. BuildBotInit => Waiting = {} /\ Increasing /\ waiting \in Seq(Job)
    BY <2>1 DEF Waiting, Increasing
  <2>3. QED BY <2>1, <2>2 DEF Placed
<1>2. QED BY <1>1, ServiceStep, PlacedStep, PTL DEF BuildBotSpec

-----------------------------------------------------------------------------
(* The inductive invariant.                                                 *)

\* A process belongs to a build that was cut off, or to one that holds it; it
\* is the only one of that build, and runs the command of the build's stage.
Processes ==
  \A p \in Pid : state[p] # "free" =>
    /\ owner[p] \in Job /\ pc[owner[p]] \in Cmd /\ command[owner[p]] = pc[owner[p]]
    /\ owner[p] \in cut \/ child[owner[p]] = p
    /\ \A q \in Pid \ {p} : state[q] # "free" => owner[q] # owner[p]

\* Only a build on a thread of this image has a child object or a status, and
\* only at the stage of the command that it executed.
AtWork ==
  \A j \in Job :
    /\ child[j] # None \/ status[j] # "none" =>
         j \in running /\ pc[j] \in Cmd /\ command[j] = pc[j]
    /\ status[j] # "none" => child[j] = None

\* A build that has drawn its directory and is not over was taken up.
Drawn ==
  \A j \in Job :
    /\ pc[j] \in Armed \cup {"toplevel"} => dir[j] \in Dir /\ j \in running \cup cut
    /\ pc[j] = "queued" => dir[j] = None

\* A process id in a child object is no orphan's, though it may have been
\* recycled.
NotOrphans ==
  \A j \in Job : child[j] \in Pid /\ state[child[j]] # "free" => owner[child[j]] \in running

BInv == BuildBotTypeOK /\ Placed /\ Processes /\ AtWork /\ Drawn /\ NotOrphans

\* A running job's own step on the process table, or that of a command.
LEMMA ProcCases ==
  ASSUME NEW j \in Job, RunStep(j)
  PROVE  \/ ExecuteCommand(j) \/ WaitForCommand(j) \/ JudgeCommand(j)
         \/ UNCHANGED procVars /\ (pc[j] \in Cmd => ReadyToExecute(j))
<1>1. CASE InitToplevelDirectory(j) \/ InitToplevelFails(j) \/ FindGitFails(j)
           \/ \E d \in Dir : DrawBuildId(j, d)
  BY <1>1, WorkerAssumption
     DEF InitToplevelDirectory, InitToplevelFails, FindGitFails, DrawBuildId
<1>2. CASE LoadMacroFile(j) \/ CreateBinaryDir(j) \/ LoadBuildConfig(j)
  BY <1>2, WorkerAssumption DEF LoadMacroFile, CreateBinaryDir, LoadBuildConfig
<1>3. CASE CommandLineThrows(j) \/ SkipCommand(j)
  BY <1>3 DEF CommandLineThrows, SkipCommand
<1>4. CASE RemoveToplevel(j)
  BY <1>4, WorkerAssumption DEF RemoveToplevel
<1>5. QED BY <1>1, <1>2, <1>3, <1>4 DEF RunStep

\* The lemmas of WorkerProofs apply, with the builds that no restart cut off.
LEMMA BInvStage == ASSUME BInv PROVE StageInv /\ StatusLast /\ Holding(Job \ cut)
<1> USE DEF BInv
<1>1. WorkerTypeOK
  BY DEF BuildBotTypeOK
<1>2. InCommand /\ HasDir /\ StatusLast
  BY DEF AtWork, Drawn, InCommand, HasDir, StatusLast
<1>3. AtStage /\ Holding(Job \ cut)
  BY DEF Processes, AtStage, Holding
<1>4. QED BY <1>1, <1>2, <1>3 DEF StageInv

\* A running build that holds no process has none.
LEMMA RunningIdle ==
  ASSUME BInv, NEW j \in running, child[j] = None PROVE Idle(j)
<1>1. j \notin cut
  BY DEF BInv, Placed
<1>2. QED BY <1>1, ChildAssumption DEF BInv, Processes, Idle

\* The types of the pipeline, whose processes may be those of an earlier image.
LEMMA WorkerTypeStep ==
  ASSUME BInv, [WorkerNext]_vars PROVE WorkerTypeOK'
<1>1. StageInv
  BY BInvStage
<1>2. TypeOK'
  BY <1>1, ProcStep, TypeStep DEF StageInv, WorkerTypeOK, AtStage
<1>3. CASE UNCHANGED vars
  BY <1>1, <1>2, <1>3 DEF vars, workerVars, StageInv, WorkerTypeOK
<1>4. QED BY <1>1, <1>2, <1>3, RunTypeStep, CommandTypeStep DEF WorkerNext

\* No step of the builds under the bot leaves the types.
LEMMA BuildBotTypeStep == ASSUME BInv, [BuildBotNext]_botVars PROVE BuildBotTypeOK'
<1> USE DEF BInv, BuildBotTypeOK
<1>1. waiting' \in Seq(Job) /\ running' \in SUBSET Job /\ over' \in SUBSET Job
      /\ cut' \in SUBSET Job /\ leaving' \in BOOLEAN
  <2>1. leaving' \in BOOLEAN
    BY ServiceStep DEF ServiceNext, serviceVars, Accept, Finish, Start, Quit, Drop, CutOff
  <2>2. QED BY <2>1, ServiceStep, PlacedStep DEF Placed
<1>2. CASE UNCHANGED botVars
  BY <1>2 DEF botVars, serviceVars, vars, workerVars, procVars, WorkerTypeOK, TypeOK
<1>3. ASSUME NEW j \in Job, RunBuild(j) PROVE BuildBotTypeOK'
  BY <1>1, <1>3, WorkerTypeStep DEF RunBuild, WorkerNext
<1>4. ASSUME NEW p \in Pid, RunAnyCommand(p) PROVE BuildBotTypeOK'
  BY <1>1, <1>4, WorkerTypeStep DEF RunAnyCommand, WorkerNext
<1>5. ASSUME UNCHANGED <<vars, restarts>> PROVE BuildBotTypeOK'
  BY <1>1, <1>5 DEF vars, workerVars, procVars, WorkerTypeOK, TypeOK
<1>6. CASE Restart
  <2>1. WorkerTypeOK'
    BY <1>6 DEF Restart, workerVars, WorkerTypeOK, TypeOK
  <2>2. restarts' \in 0..MaxRestarts
    BY <1>6, BuildBotAssumption DEF Restart
  <2>3. QED BY <1>1, <2>1, <2>2
<1>7. QED
  BY <1>2, <1>3, <1>4, <1>5, <1>6 DEF BuildBotNext, AcceptBuild, StartBuild, FinishBuild,
     QuitService

\* What a step of a running build changes of its own, and of no other's.
LEMMA RunMoves ==
  ASSUME BInv, NEW j \in Job, RunStep(j)
  PROVE  /\ \A k \in Job : dir'[k] = dir[k] \/ dir'[k] \in Dir
         /\ \A k \in Job \ {j} : /\ dir'[k] = dir[k] /\ pc'[k] = pc[k]
                                 /\ child'[k] = child[k] /\ status'[k] = status[k]
                                 /\ command'[k] = command[k]
<1> USE DEF BInv, BuildBotTypeOK, WorkerTypeOK, TypeOK
<1>1. \A k \in Job : dir'[k] = dir[k] \/ (k = j /\ dir'[k] \in Dir)
  BY DEF RunStep, DrawBuildId, FindGitFails, InitToplevelDirectory, InitToplevelFails,
     LoadMacroFile, ExecuteCommand, CommandLineThrows, WaitForCommand, JudgeCommand,
     CreateBinaryDir, LoadBuildConfig, SkipCommand, RemoveToplevel, workerVars
<1>2. \A k \in Job \ {j} : pc'[k] = pc[k]
  BY DEF RunStep, DrawBuildId, FindGitFails, InitToplevelDirectory, InitToplevelFails,
     LoadMacroFile, ExecuteCommand, CommandLineThrows, WaitForCommand, JudgeCommand,
     CreateBinaryDir, LoadBuildConfig, SkipCommand, RemoveToplevel, workerVars, StageDone,
     Leave, Goto
<1>3. \A k \in Job \ {j} : /\ child'[k] = child[k] /\ status'[k] = status[k]
                           /\ command'[k] = command[k]
  <2>1. CASE ExecuteCommand(j)
    BY <2>1 DEF ExecuteCommand, ForkFails, ForkChild
  <2>2. CASE WaitForCommand(j)
    BY <2>2 DEF WaitForCommand, WaitForExit, WaitReturns, WaitLoops, WaitThrows
  <2>3. CASE JudgeCommand(j)
    BY <2>3 DEF JudgeCommand, TakeStatus
  <2>4. CASE UNCHANGED procVars
    BY <2>4 DEF procVars
  <2>5. QED BY <2>1, <2>2, <2>3, <2>4, ProcCases
<1>4. QED BY <1>1, <1>2, <1>3

\* A fork: the new process is held by the job that forked it.
LEMMA ForkKeeps ==
  ASSUME BInv, NEW j \in Job, j \in running, ExecuteCommand(j), UNCHANGED serviceVars
  PROVE  Processes' /\ AtWork' /\ NotOrphans'
<1> USE ChildAssumption DEF BInv, BuildBotTypeOK, WorkerTypeOK, TypeOK
<1>1. /\ pc[j] \in Cmd /\ ReadyToExecute(j) /\ pc' = pc /\ dir' = dir
      /\ running' = running /\ cut' = cut
  BY DEF ExecuteCommand, workerVars, ForkFails, ForkChild, serviceVars
<1>2. CASE ForkFails(j, pc[j])
  <2>1. /\ UNCHANGED <<state, owner, status>>
        /\ child' = [child EXCEPT ![j] = NoPid] /\ command' = [command EXCEPT ![j] = pc[j]]
    BY <1>2 DEF ForkFails
  <2>2. Processes'
    BY <1>1, <2>1 DEF Processes, ReadyToExecute
  <2>3. AtWork'
    BY <1>1, <2>1 DEF AtWork, ReadyToExecute
  <2>4. NotOrphans'
    BY <1>1, <2>1 DEF NotOrphans
  <2>5. QED BY <2>2, <2>3, <2>4
<1>3. ASSUME NEW p \in Pid, ForkChild(j, pc[j], p)
      PROVE  Processes' /\ AtWork' /\ NotOrphans'
  <2>1. /\ UNCHANGED status /\ state[p] = "free"
        /\ state' = [state EXCEPT ![p] = "setup"] /\ owner' = [owner EXCEPT ![p] = j]
        /\ child' = [child EXCEPT ![j] = p] /\ command' = [command EXCEPT ![j] = pc[j]]
    BY <1>3 DEF ForkChild
  <2>2. Idle(j)
    BY <1>1, RunningIdle DEF ReadyToExecute
  <2>3. Processes'
    BY <1>1, <2>1, <2>2 DEF Processes, Idle
  <2>4. AtWork'
    BY <1>1, <2>1 DEF AtWork, ReadyToExecute
  <2>5. NotOrphans'
    BY <1>1, <2>1 DEF NotOrphans
  <2>6. QED BY <2>3, <2>4, <2>5
<1>4. QED BY <1>2, <1>3 DEF ExecuteCommand

\* A wait: it ends over the process it holds only when that is reaped.
LEMMA WaitKeeps ==
  ASSUME BInv, NEW j \in Job, j \in running, WaitForCommand(j), UNCHANGED serviceVars
  PROVE  Processes' /\ AtWork' /\ NotOrphans'
<1> USE ChildAssumption DEF BInv, BuildBotTypeOK, WorkerTypeOK, TypeOK
<1>1. /\ pc' = pc /\ dir' = dir /\ running' = running /\ cut' = cut /\ child[j] # None
      /\ command' = command
  BY DEF WaitForCommand, WaitForExit, WaitReturns, WaitLoops, WaitThrows, workerVars,
     serviceVars
<1>2. ASSUME NEW p \in Pid, WaitReturns(j, p)
      PROVE  Processes' /\ AtWork' /\ NotOrphans'
  <2>1. /\ p \in WaitsFor(j) /\ state' = [state EXCEPT ![p] = "free"]
        /\ owner' = [owner EXCEPT ![p] = None] /\ child' = [child EXCEPT ![j] = None]
        /\ status' = [status EXCEPT ![j] = state[p]]
    BY <1>2 DEF WaitReturns, Reaped
  <2>2. Processes'
    BY <1>1, <2>1 DEF Processes, WaitsFor
  <2>3. AtWork'
    BY <1>1, <2>1 DEF AtWork
  <2>4. NotOrphans'
    BY <1>1, <2>1 DEF NotOrphans
  <2>5. QED BY <2>2, <2>3, <2>4
<1>3. ASSUME NEW p \in Pid, WaitLoops(j, p)
      PROVE  Processes' /\ AtWork' /\ NotOrphans'
  <2>1. /\ state' = [state EXCEPT ![p] = "free"] /\ owner' = [owner EXCEPT ![p] = None]
        /\ child' = child /\ status' = status
    BY <1>3 DEF WaitLoops, Reaped
  <2>2. QED BY <1>1, <2>1 DEF Processes, AtWork, NotOrphans
<1>4. CASE WaitThrows(j)
  <2>1. /\ WaitsFor(j) = {} /\ state' = state /\ owner' = owner
        /\ child' = [child EXCEPT ![j] = None] /\ status' = [status EXCEPT ![j] = "threw"]
    BY <1>4 DEF WaitThrows
  <2>2. Processes'
    BY <1>1, <2>1 DEF Processes, WaitsFor
  <2>3. AtWork'
    BY <1>1, <2>1 DEF AtWork
  <2>4. NotOrphans'
    BY <1>1, <2>1 DEF NotOrphans
  <2>5. QED BY <2>2, <2>3, <2>4
<1>5. QED BY <1>2, <1>3, <1>4 DEF WaitForCommand, WaitForExit

\* A running build's step that leaves the children alone.
LEMMA MoveKeeps ==
  ASSUME BInv, NEW j \in Job, j \in running, RunStep(j), UNCHANGED serviceVars,
         UNCHANGED <<state, owner, child, command>>,
         child[j] = None, status'[j] = "none"
  PROVE  Processes' /\ AtWork' /\ NotOrphans'
<1> USE DEF BInv
<1>1. running' = running /\ cut' = cut
  BY DEF serviceVars
<1>2. Processes'
  BY <1>1, RunMoves, RunningIdle DEF Processes, Idle
<1>3. AtWork'
  BY <1>1, RunMoves DEF AtWork
<1>4. NotOrphans'
  BY <1>1 DEF NotOrphans
<1>5. QED BY <1>2, <1>3, <1>4

\* A step of a pipeline keeps its own process, if any, and makes no orphan.
LEMMA RunKeeps ==
  ASSUME BInv, NEW j \in Job, RunBuild(j) PROVE Processes' /\ AtWork' /\ NotOrphans'
<1>1. j \in running /\ RunStep(j) /\ UNCHANGED serviceVars
  BY DEF RunBuild
<1>2. CASE ExecuteCommand(j)
  BY <1>1, <1>2, ForkKeeps
<1>3. CASE WaitForCommand(j)
  BY <1>1, <1>3, WaitKeeps
<1>4. CASE JudgeCommand(j)
  <2>1. /\ UNCHANGED <<state, owner, child, command>> /\ status[j] # "none"
        /\ status' = [status EXCEPT ![j] = "none"]
    BY <1>4 DEF JudgeCommand, TakeStatus
  <2>2. child[j] = None /\ status'[j] = "none"
    BY <2>1 DEF BInv, AtWork, BuildBotTypeOK, WorkerTypeOK, TypeOK
  <2>3. QED BY <1>1, <2>1, <2>2, MoveKeeps
<1>5. CASE UNCHANGED procVars /\ (pc[j] \in Cmd => ReadyToExecute(j))
  <2>1. UNCHANGED <<state, owner, child, command, status>>
    BY <1>5 DEF procVars
  <2>2. child[j] = None /\ status'[j] = "none"
    BY <1>5, <2>1 DEF BInv, AtWork, ReadyToExecute
  <2>3. QED BY <1>1, <2>1, <2>2, MoveKeeps
<1>6. QED BY <1>1, <1>2, <1>3, <1>4, <1>5, ProcCases

\* A command's step leaves it with the one who forked it.
LEMMA CommandKeeps ==
  ASSUME BInv, NEW p \in Pid, RunAnyCommand(p)
  PROVE  Processes' /\ AtWork' /\ NotOrphans' /\ Drawn'
<1> USE DEF BInv
<1>1. /\ UNCHANGED <<owner, child, command, status, pc, dir, running, cut>>
      /\ state[p] # "free"
  BY DEF RunAnyCommand, RunCommand, CommandStarts, CommandEnds, ExecSucceeds, ExecFails,
     Exits, Killed, Ends, serviceVars
<1>2. \A q \in Pid \ {p} : state'[q] = state[q]
  BY DEF RunAnyCommand, RunCommand, CommandStarts, CommandEnds, ExecSucceeds, ExecFails,
     Exits, Killed, Ends, BuildBotTypeOK, WorkerTypeOK, TypeOK
<1>3. QED BY <1>1, <1>2 DEF Processes, AtWork, NotOrphans, Drawn

\* A build draws its directory once, when it is taken up.
LEMMA RunDrawn == ASSUME BInv, NEW j \in Job, RunBuild(j) PROVE Drawn'
<1> USE WorkerAssumption DEF BInv, BuildBotTypeOK, WorkerTypeOK, Drawn, Armed
<1>1. /\ j \in running /\ RunStep(j) /\ running' = running /\ cut' = cut
  BY DEF RunBuild, serviceVars
<1>2. ASSUME NEW d \in Dir, DrawBuildId(j, d) PROVE Drawn'
  BY <1>1, <1>2 DEF DrawBuildId, Goto
<1>3. ASSUME ~\E d \in Dir : DrawBuildId(j, d) PROVE Drawn'
  <2>1. dir' = dir
    BY <1>1, <1>3 DEF RunStep, FindGitFails, InitToplevelDirectory, InitToplevelFails,
       LoadMacroFile, ExecuteCommand, CommandLineThrows, WaitForCommand, JudgeCommand,
       CreateBinaryDir, LoadBuildConfig, SkipCommand, RemoveToplevel, workerVars
  <2>2. /\ pc'[j] = "queued" => pc[j] = "queued"
        /\ pc'[j] \in Armed \cup {"toplevel"} => pc[j] \in Armed \cup {"toplevel"}
    BY <1>1, <1>3 DEF RunStep, FindGitFails, InitToplevelDirectory, InitToplevelFails,
       LoadMacroFile, ExecuteCommand, CommandLineThrows, WaitForCommand, JudgeCommand,
       CreateBinaryDir, LoadBuildConfig, SkipCommand, RemoveToplevel, workerVars, StageDone,
       Leave, Goto
  <2>3. \A k \in Job \ {j} : pc'[k] = pc[k]
    BY <1>1, RunMoves
  <2>4. QED BY <1>1, <2>1, <2>2, <2>3
<1>4. QED BY <1>2, <1>3

\* The pool takes builds up and lets go of those that are done.
LEMMA PoolKeeps ==
  ASSUME BInv, NEW j \in Job, AcceptBuild(j) \/ StartBuild \/ FinishBuild(j)
  PROVE  Processes' /\ AtWork' /\ NotOrphans' /\ Drawn'
<1> USE ChildAssumption, WorkerAssumption DEF BInv
<1>1. UNCHANGED vars
  BY DEF AcceptBuild, StartBuild, FinishBuild
<1>2. UNCHANGED <<state, owner, child, command, status, pc, dir>>
  BY <1>1 DEF vars, procVars, workerVars
<1>3. cut' = cut
  BY DEF AcceptBuild, StartBuild, FinishBuild, Accept, Start, Finish
<1>4. Processes'
  BY <1>2, <1>3 DEF Processes
<1>5. CASE running \subseteq running'
  BY <1>2, <1>3, <1>4, <1>5 DEF AtWork, NotOrphans, Drawn
<1>6. CASE running' = running \ {j} /\ pc[j] = "done"
  <2>1. AtWork'
    BY <1>2, <1>6 DEF AtWork
  <2>2. Drawn'
    BY <1>2, <1>3, <1>6 DEF Drawn, Armed
  <2>3. ASSUME NEW p \in Pid, state[p] # "free", owner[p] \in running PROVE owner[p] # j
    <3>1. child[owner[p]] = p
      BY <2>3 DEF Processes, Placed
    <3>2. child[owner[p]] # None /\ owner[p] \in Job
      BY <3>1, <2>3 DEF Processes
    <3>3. QED BY <1>6, <3>2 DEF AtWork
  <2>4. NotOrphans'
    BY <1>2, <1>6, <2>3 DEF NotOrphans
  <2>5. QED BY <1>4, <2>1, <2>2, <2>4
<1>7. running \subseteq running' \/ (running' = running \ {j} /\ pc[j] = "done")
  BY DEF AcceptBuild, StartBuild, FinishBuild, Accept, Start, Finish
<1>8. QED BY <1>5, <1>6, <1>7

\* A restart turns the processes of the running builds into orphans.
LEMMA RestartKeeps ==
  ASSUME BInv, Restart PROVE Processes' /\ AtWork' /\ NotOrphans' /\ Drawn'
<1> USE ChildAssumption DEF BInv
<1>1. /\ UNCHANGED <<state, owner, command, pc, dir>>
      /\ child' = [k \in Job |-> None] /\ status' = [k \in Job |-> "none"]
      /\ cut' = cut \cup Waiting \cup running
  BY DEF Restart, workerVars, CutOff
<1>2. Processes'
  BY <1>1 DEF Processes, AtWork
<1>3. AtWork' /\ NotOrphans'
  BY <1>1 DEF AtWork, NotOrphans
<1>4. Drawn'
  BY <1>1 DEF Drawn
<1>5. QED BY <1>2, <1>3, <1>4

\* One step keeps the invariant.
LEMMA BStep == ASSUME BInv, [BuildBotNext]_botVars PROVE BInv'
<1>1. BuildBotTypeOK'
  BY BuildBotTypeStep
<1>2. Placed'
  BY ServiceStep, PlacedStep DEF BInv
<1>3. Processes' /\ AtWork' /\ NotOrphans' /\ Drawn'
  <2>1. ASSUME NEW j \in Job, RunBuild(j)
        PROVE  Processes' /\ AtWork' /\ NotOrphans' /\ Drawn'
    BY <2>1, RunKeeps, RunDrawn
  <2>2. ASSUME NEW j \in Job, AcceptBuild(j) \/ FinishBuild(j)
        PROVE  Processes' /\ AtWork' /\ NotOrphans' /\ Drawn'
    BY <2>2, PoolKeeps
  <2>3. CASE StartBuild
    <3>1. running # {} \/ Waiting # {}
      BY <2>3, HeadTailProperties DEF StartBuild, Start, Waiting, BInv, Placed
    <3>2. PICK j \in Job : TRUE
      BY <3>1 DEF BInv, Placed, Waiting
    <3>3. QED BY <2>3, <3>2, PoolKeeps
  <2>4. CASE Restart
    BY <2>4, RestartKeeps
  <2>5. ASSUME NEW p \in Pid, RunAnyCommand(p)
        PROVE  Processes' /\ AtWork' /\ NotOrphans' /\ Drawn'
    BY <2>5, CommandKeeps
  <2>6. CASE UNCHANGED botVars \/ QuitService
    <3>1. UNCHANGED <<state, owner, child, command, status, pc, dir, running, cut>>
      BY <2>6 DEF botVars, QuitService, Quit, serviceVars, vars, procVars, workerVars
    <3>2. QED BY <3>1 DEF BInv, Processes, AtWork, NotOrphans, Drawn
  <2>7. QED BY <2>1, <2>2, <2>3, <2>4, <2>5, <2>6 DEF BuildBotNext
<1>4. QED BY <1>1, <1>2, <1>3 DEF BInv

\* The initial states: nobody has come yet.
LEMMA BInit == BuildBotInit => BInv
<1> SUFFICES ASSUME BuildBotInit PROVE BInv
  OBVIOUS
<1>1. WorkerInit /\ ServiceInit /\ restarts = 0
  BY DEF BuildBotInit
<1>2. TypeOK
  BY <1>1 DEF WorkerInit, Init, TypeOK, Zombie
<1>3. WorkerTypeOK
  BY <1>1, <1>2 DEF WorkerInit, WorkerTypeOK
<1>4. Placed /\ waiting \in Seq(Job)
  <2>1. waiting = <<>> /\ running = {} /\ over = {} /\ cut = {}
    BY <1>1 DEF ServiceInit
  <2>2. Waiting = {} /\ Increasing /\ waiting \in Seq(Job)
    BY <2>1 DEF Waiting, Increasing
  <2>3. QED BY <2>1, <2>2 DEF Placed
<1>5. BuildBotTypeOK
  <2>1. leaving \in BOOLEAN
    BY <1>1 DEF ServiceInit
  <2>2. restarts \in 0..MaxRestarts
    BY <1>1, BuildBotAssumption
  <2>3. QED BY <1>1, <1>3, <1>4, <2>1, <2>2 DEF BuildBotTypeOK, ServiceInit
<1>6. Processes /\ AtWork /\ NotOrphans
  BY <1>1, ChildAssumption DEF WorkerInit, Init, Processes, AtWork, NotOrphans
<1>7. Drawn
  BY <1>1, WorkerAssumption DEF WorkerInit, Drawn, Armed
<1>8. QED BY <1>4, <1>5, <1>6, <1>7 DEF BInv

\* The invariant holds from the first state on.
LEMMA BInvariance == BuildBotSpec => []BInv
  BY BInit, BStep, PTL DEF BuildBotSpec

-----------------------------------------------------------------------------
(* The theorems.                                                            *)

\* The builds under the bot keep the bot's promise, across restarts.
THEOREM BuildBotServes == BuildBotSpec => ServiceSpec
<1>1. BuildBotInit => ServiceInit
  BY DEF BuildBotInit
<1>2. QED BY <1>1, ServiceStep, PTL DEF BuildBotSpec, ServiceSpec

\* The variables keep their types across restarts.
THEOREM BuildBotTypeCorrect == BuildBotSpec => []BuildBotTypeOK
<1>1. BInv => BuildBotTypeOK BY DEF BInv
<1>2. QED BY <1>1, BInvariance, PTL

\* Only a restart makes orphans: a command that no child object of its build
\* refers to belongs to a build that was cut off.
THEOREM OnlyRestartOrphans == BuildBotSpec => []OrphansAreCut
<1>1. BInv => OrphansAreCut
  BY ChildAssumption DEF BInv, Processes, AtWork, OrphansAreCut
<1>2. QED BY <1>1, BInvariance, PTL

\* What an orphan leaves in the process table is taken away only by the wait
\* for any child that follows a failed fork.
THEOREM OnlyFailedForkReaps == BuildBotSpec => OrphansStay
<1>1. ASSUME BInv, [BuildBotNext]_botVars, NEW p \in Pid, state[p] # "free",
             owner[p] \in cut, state'[p] = "free"
      PROVE  \E j \in running : child[j] = NoPid
  <2> USE DEF BInv, BuildBotTypeOK, WorkerTypeOK, TypeOK
  <2>1. CASE UNCHANGED botVars \/ StartBuild \/ QuitService \/ Restart
             \/ \E j \in Job : AcceptBuild(j) \/ FinishBuild(j)
    BY <1>1, <2>1 DEF botVars, vars, procVars, StartBuild, QuitService, Restart, AcceptBuild,
       FinishBuild
  <2>2. ASSUME NEW q \in Pid, RunAnyCommand(q) PROVE FALSE
    BY <1>1, <2>2 DEF RunAnyCommand, RunCommand, CommandStarts, CommandEnds, ExecSucceeds,
       ExecFails, Exits, Killed, Ends
  <2>3. ASSUME NEW j \in Job, RunBuild(j) PROVE child[j] = NoPid /\ j \in running
    <3>1. j \in running /\ RunStep(j)
      BY <2>3 DEF RunBuild
    <3>2. ~ExecuteCommand(j)
      BY <1>1 DEF ExecuteCommand, ForkFails, ForkChild
    <3>3. ~JudgeCommand(j) /\ ~UNCHANGED procVars
      BY <1>1 DEF JudgeCommand, TakeStatus, procVars
    <3>4. WaitForCommand(j)
      BY <3>1, <3>2, <3>3, ProcCases
    <3>5. PICK q \in Pid : q \in WaitsFor(j) /\ state' = [state EXCEPT ![q] = "free"]
      BY <1>1, <3>4 DEF WaitForCommand, WaitForExit, WaitReturns, WaitLoops, WaitThrows, Reaped
    <3>6. p \in WaitsFor(j)
      BY <1>1, <3>5
    <3>7. child[j] # p
      BY <1>1 DEF NotOrphans, Placed
    <3>8. QED BY <3>1, <3>6, <3>7 DEF WaitsFor
  <2>4. QED BY <1>1, <2>1, <2>2, <2>3 DEF BuildBotNext
<1>2. BInv /\ [BuildBotNext]_botVars =>
        [\A p \in Pid : state[p] # "free" /\ owner[p] \in cut /\ state'[p] = "free"
           => \E j \in running : child[j] = NoPid]_botVars
  BY <1>1
<1>3. QED BY <1>2, BInvariance, PTL DEF BuildBotSpec, OrphansStay

-----------------------------------------------------------------------------
(* LeftoversExplained.                                                      *)

\* A running build explains what it makes, until it has removed it.
LEMMA RunExplained ==
  ASSUME BInv, LeftoversExplained, NEW j \in Job, RunBuild(j)
  PROVE  LeftoversExplained'
<1> USE WorkerAssumption DEF BInv, BuildBotTypeOK, WorkerTypeOK, LeftoversExplained, Armed
<1>1. /\ j \in running /\ RunStep(j) /\ running' = running /\ cut' = cut
  BY DEF RunBuild, serviceVars
<1>2. ASSUME NEW d \in Dir, DrawBuildId(j, d)
      PROVE  LeftoversExplained'
  BY <1>1, <1>2 DEF DrawBuildId, Goto, Drawn
<1>3. CASE FindGitFails(j) \/ InitToplevelFails(j)
  BY <1>1, <1>3 DEF FindGitFails, InitToplevelFails, Goto
<1>4. CASE InitToplevelDirectory(j)
  BY <1>1, <1>4 DEF InitToplevelDirectory, Goto, Drawn
<1>5. CASE CreateBinaryDir(j)
  BY <1>1, <1>5 DEF CreateBinaryDir, Leave, Goto, Drawn
<1>6. CASE LoadMacroFile(j) \/ LoadBuildConfig(j)
  BY <1>1, <1>6 DEF LoadMacroFile, LoadBuildConfig, Leave, Goto
<1>7. CASE CommandLineThrows(j) \/ SkipCommand(j) \/ JudgeCommand(j)
  BY <1>1, <1>7 DEF CommandLineThrows, SkipCommand, JudgeCommand, StageDone, Leave, Goto
<1>8. CASE ExecuteCommand(j) \/ WaitForCommand(j)
  BY <1>1, <1>8 DEF ExecuteCommand, WaitForCommand, workerVars
<1>9. CASE RemoveToplevel(j)
  <2>1. dir[j] \in Dir
    BY <1>9 DEF RemoveToplevel, Drawn
  <2>2. tree'[dir[j]] = {} \/ dir[j] \in undeleted'
    BY <1>9, <2>1 DEF RemoveToplevel
  <2>3. /\ \A d \in Dir \ {dir[j]} : tree'[d] = tree[d]
        /\ undeleted \subseteq undeleted' /\ dir' = dir
        /\ \A k \in Job \ {j} : pc'[k] = pc[k]
    BY <1>9, <2>1 DEF RemoveToplevel, Goto
  <2>4. QED BY <1>1, <2>2, <2>3
<1>10. QED
  BY <1>1, <1>2, <1>3, <1>4, <1>5, <1>6, <1>7, <1>8, <1>9 DEF RunStep

\* What a command makes lies in the directory of the build that executed it,
\* an orphan's in that of a build that was cut off.
LEMMA CommandExplained ==
  ASSUME BInv, LeftoversExplained, NEW p \in Pid, RunAnyCommand(p)
  PROVE  LeftoversExplained'
<1> USE DEF BInv, BuildBotTypeOK, WorkerTypeOK
<1>1. /\ UNCHANGED <<pc, dir, undeleted, running, cut>> /\ state[p] # "free"
  BY DEF RunAnyCommand, RunCommand, CommandStarts, CommandEnds, ExecSucceeds, ExecFails,
     Exits, Killed, serviceVars
<1>2. \A d \in Dir : tree'[d] = tree[d] \/ d = dir[owner[p]]
  BY DEF RunAnyCommand, RunCommand, CommandStarts, CommandEnds
<1>3. /\ owner[p] \in Job
      /\ owner[p] \in cut \/ (owner[p] \in running /\ pc[owner[p]] \in Armed)
  BY <1>1, ChildAssumption DEF Processes, AtWork, Armed
<1>4. QED BY <1>1, <1>2, <1>3 DEF LeftoversExplained

\* A toplevel directory that nobody works in was left by a removal that failed
\* or by a build that a restart has cut off, for any number of restarts.
THEOREM OnlyCutOffLeftovers == BuildBotSpec => []LeftoversExplained
<1>1. BuildBotInit => LeftoversExplained
  BY DEF BuildBotInit, WorkerInit, LeftoversExplained
<1>2. ASSUME BInv, LeftoversExplained, [BuildBotNext]_botVars
      PROVE  LeftoversExplained'
  <2>1. ASSUME NEW j \in Job, RunBuild(j) PROVE LeftoversExplained'
    BY <1>2, <2>1, RunExplained
  <2>2. ASSUME NEW p \in Pid, RunAnyCommand(p) PROVE LeftoversExplained'
    BY <1>2, <2>2, CommandExplained
  <2>3. CASE UNCHANGED botVars \/ StartBuild \/ QuitService \/ Restart
             \/ \E j \in Job : AcceptBuild(j) \/ FinishBuild(j)
    <3>1. UNCHANGED <<tree, dir, undeleted, pc>>
      BY <2>3 DEF botVars, vars, workerVars, StartBuild, QuitService, Restart, AcceptBuild,
         FinishBuild
    <3>2. cut \subseteq cut'
      BY <2>3 DEF botVars, serviceVars, StartBuild, Start, QuitService, Quit, Restart, CutOff,
         AcceptBuild, Accept, FinishBuild, Finish
    <3>3. \A j \in running : j \in running' \cup cut' \/ pc[j] = "done"
      BY <2>3 DEF botVars, serviceVars, StartBuild, Start, QuitService, Quit, Restart, CutOff,
         AcceptBuild, Accept, FinishBuild, Finish
    <3>4. "done" \notin Armed
      BY WorkerAssumption DEF Armed
    <3>5. QED BY <1>2, <3>1, <3>2, <3>3, <3>4 DEF LeftoversExplained
  <2>4. QED BY <1>2, <2>1, <2>2, <2>3 DEF BuildBotNext
<1>3. QED BY <1>1, <1>2, BInvariance, PTL DEF BuildBotSpec

-----------------------------------------------------------------------------
(* StepsInOrder, SuccessMeansBuilt and CommandsStayInTree of Worker, with   *)
(* the builds of earlier images among the jobs.  The order is kept for the  *)
(* builds that no restart cut off; of the others nothing changes but the    *)
(* fate of the command that was running.                                    *)

Whole == Job \ cut

OrderInv == BInv /\ FaultlessInv /\ OwnStatus /\ OInv(Whole) /\ TInv

\* Only running builds and commands move; the rest of the steps are the pool's
\* and the restart's.
LEMMA StepKinds ==
  ASSUME BInv, [BuildBotNext]_botVars
  PROVE  \/ [Moves(Whole)]_vars /\ cut' = cut
         \/ Restart
<1>1. ASSUME NEW j \in Job, RunBuild(j) PROVE Moves(Whole) /\ cut' = cut
  BY <1>1 DEF RunBuild, serviceVars, Moves, Whole, BInv, Placed
<1>2. ASSUME NEW p \in Pid, RunAnyCommand(p) PROVE Moves(Whole) /\ cut' = cut
  BY <1>2 DEF RunAnyCommand, serviceVars, Moves
<1>3. ASSUME NEW j \in Job, AcceptBuild(j) \/ FinishBuild(j)
      PROVE  UNCHANGED vars /\ cut' = cut
  BY <1>3 DEF AcceptBuild, FinishBuild, Accept, Finish
<1>4. CASE StartBuild \/ QuitService \/ UNCHANGED botVars
  BY <1>4 DEF StartBuild, Start, QuitService, Quit, botVars, serviceVars
<1>5. QED BY <1>1, <1>2, <1>3, <1>4 DEF BuildBotNext

\* A build forks only when it has no process, also after a restart.
LEMMA ForksIdle ==
  ASSUME BInv, [BuildBotNext]_botVars, NEW k \in Job, Fork(k) PROVE Idle(k)
<1>1. child[k] = None /\ child'[k] # None
  BY ChildAssumption DEF Fork, ForkFails, ForkChild, ReadyToExecute, BInv, BuildBotTypeOK,
     WorkerTypeOK, TypeOK
<1>2. PICK j \in Job : RunBuild(j)
  <2>1. CASE Restart
    BY <1>1, <2>1 DEF Restart
  <2>2. ASSUME NEW j \in Job, AcceptBuild(j) \/ FinishBuild(j) PROVE FALSE
    BY <1>1, <2>2 DEF AcceptBuild, FinishBuild, vars, procVars
  <2>3. CASE StartBuild \/ QuitService \/ UNCHANGED botVars
    BY <1>1, <2>3 DEF StartBuild, QuitService, botVars, vars, procVars
  <2>4. ASSUME NEW p \in Pid, RunAnyCommand(p) PROVE FALSE
    BY <1>1, <2>4 DEF RunAnyCommand, RunCommand, CommandStarts, CommandEnds, ExecSucceeds,
       ExecFails, Exits, Killed, Ends
  <2>5. QED BY <2>1, <2>2, <2>3, <2>4 DEF BuildBotNext
<1>3. k = j /\ j \in running
  BY <1>1, <1>2, RunMoves DEF RunBuild
<1>4. QED BY <1>1, <1>3, RunningIdle

\* A restart forgets every child object and status; what is left of a build is
\* what it was.
LEMMA RestartOrder ==
  ASSUME OrderInv, Restart
  PROVE  (FaultlessInv /\ OwnStatus /\ OInv(Whole) /\ TInv)'
<1> USE DEF OrderInv
<1>1. /\ UNCHANGED <<state, owner, command, fate, faults>>
      /\ UNCHANGED <<pc, dir, tree, outcome, stray>>
      /\ child' = [k \in Job |-> None] /\ status' = [k \in Job |-> "none"]
      /\ cut' = cut \cup Waiting \cup running
  BY DEF Restart, workerVars, CutOff
<1>2. FaultlessInv' /\ OwnStatus'
  BY <1>1, ChildAssumption DEF FaultlessInv, OwnStatus, OneHolder, HoldsOwn, ZombieFate
<1>3. Ordered'
  BY <1>1 DEF OInv, Ordered, Succeeded
<1>4. Fresh(Whole)'
  <2>1. \A j \in Whole' : j \in Whole /\ ReadyToExecute(j)
    BY <1>1 DEF Whole, ReadyToExecute, BInv, AtWork
  <2>2. QED BY <1>1, <2>1 DEF OInv, Fresh
<1>5. TInv'
  BY <1>1 DEF TInv, Undrawn, Private, TreeOf, StaysIn
<1>6. QED BY <1>2, <1>3, <1>4, <1>5 DEF OInv

\* One step keeps the order, a restart included.
LEMMA OrderStep == ASSUME OrderInv, [BuildBotNext]_botVars PROVE OrderInv'
<1>1. BInv' /\ StageInv /\ StatusLast /\ Holding(Whole)
  BY BStep, BInvStage DEF OrderInv, Whole
<1>2. CASE Restart
  BY <1>1, <1>2, RestartOrder DEF OrderInv
<1>3. CASE [Moves(Whole)]_vars /\ cut' = cut
  <2>1. PICK S \in SUBSET Job : S = Whole
    BY DEF Whole
  <2>2. [WorkerNext]_vars
    BY <1>3 DEF Moves, WorkerNext, Whole
  <2>3. ApartInv
    <3>1. Apart
      BY ChildAssumption
         DEF OrderInv, BInv, Processes, AtWork, Placed, Apart, BuildBotTypeOK, WorkerTypeOK
    <3>2. QED BY <1>1, <3>1 DEF ApartInv, StageInv, WorkerTypeOK, OrderInv
  <2>4. FaultlessInv' /\ OwnStatus'
    BY <2>2, <2>3, ProcStep, StepApart, ForksIdle DEF OrderInv
  <2>5. OInv(S) /\ Holding(S) /\ [Moves(S)]_vars /\ S = Whole'
    BY <1>1, <1>3, <2>1 DEF OrderInv, Whole
  <2>6. OInv(S)' /\ TInv'
    BY <1>1, <2>5, StepOInv, StepTInv DEF OrderInv
  <2>7. OInv(Whole)'
    BY <2>5, <2>6 DEF OInv, Fresh
  <2>8. QED BY <1>1, <2>4, <2>6, <2>7 DEF OrderInv
<1>4. QED BY <1>2, <1>3, StepKinds DEF OrderInv

\* The order holds in every reachable state, across restarts.
LEMMA OrderAlways == BuildBotSpec => []OrderInv
<1>1. BuildBotInit => OrderInv
  <2> SUFFICES ASSUME BuildBotInit PROVE OrderInv
    OBVIOUS
  <2>1. WorkerInit /\ Init /\ cut = {}
    BY DEF BuildBotInit, WorkerInit, ServiceInit
  <2>2. FaultlessInv /\ OwnStatus
    BY <2>1, InitStatusInv DEF StatusInv
  <2>3. OInv(Job) /\ TInv
    BY <2>1, InitOInv, InitTInv
  <2>4. QED BY <2>1, <2>2, <2>3, BInit DEF OrderInv, OInv, Fresh, Whole
<1>2. QED BY <1>1, OrderStep, PTL DEF BuildBotSpec

\* No restart breaks the order: a command is only started when its build's own
\* earlier ones have succeeded, for any number of builds and images, whatever
\* the orphans of earlier images do, as long as no fork fails and no process
\* id is recycled under a waiting build.
THEOREM InOrderAcrossRestarts == BuildBotSpec => []StepsInOrder
<1>1. OrderInv => StepsInOrder
  BY BInvStage, OrderedSteps DEF OrderInv, OInv
<1>2. QED BY <1>1, OrderAlways, PTL

\* Success means the same in every image: no orphan's exit and no orphan's
\* files make a build of this image SUCCESSFUL, unless it shares the directory.
THEOREM SuccessAcrossRestarts == BuildBotSpec => []SuccessMeansBuilt
<1>1. OrderInv => SuccessMeansBuilt
  BY BInvStage, RealSuccess DEF OrderInv, OInv
<1>2. QED BY <1>1, OrderAlways, PTL

\* Nor does a command, an orphan's included, run outside its own tree.
THEOREM StayInTreeAcrossRestarts == BuildBotSpec => []CommandsStayInTree
<1>1. OrderInv => CommandsStayInTree
  BY DEF OrderInv, TInv, StaysIn, CommandsStayInTree
<1>2. QED BY <1>1, OrderAlways, PTL
=============================================================================
