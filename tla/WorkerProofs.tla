---------------------------- MODULE WorkerProofs ----------------------------
(***************************************************************************)
(* What Worker promises for any number of jobs, process ids and toplevel   *)
(* directories.  The first result, that the pipeline implements            *)
(* ChildProcess, brings the theorems of ChildProcessProofs to the worker.  *)
(***************************************************************************)
EXTENDS Worker, ChildProcessProofs

\* A job's own step forks, waits, takes a status, or leaves processes alone.
LEMMA RunProcStep ==
  ASSUME NEW j \in Job, RunStep(j)
  PROVE  [Next]_procVars
<1> USE DEF RunStep
<1>1. CASE ExecuteCommand(j)
  BY <1>1 DEF ExecuteCommand, Next, Fork
<1>2. CASE WaitForCommand(j)
  BY <1>2 DEF WaitForCommand, Next
<1>3. CASE JudgeCommand(j)
  BY <1>3 DEF JudgeCommand, Next
<1>4. CASE InitToplevelDirectory(j) \/ InitToplevelFails(j) \/ FindGitFails(j)
           \/ \E d \in Dir : DrawBuildId(j, d)
  BY <1>4 DEF InitToplevelDirectory, InitToplevelFails, FindGitFails, DrawBuildId
<1>5. CASE LoadMacroFile(j) \/ CreateBinaryDir(j) \/ LoadBuildConfig(j)
  BY <1>5 DEF LoadMacroFile, CreateBinaryDir, LoadBuildConfig
<1>6. CASE CommandLineThrows(j) \/ SkipCommand(j) \/ RemoveToplevel(j)
  BY <1>6 DEF CommandLineThrows, SkipCommand, RemoveToplevel
<1>7. QED BY <1>1, <1>2, <1>3, <1>4, <1>5, <1>6

\* What a command does to the process table is what a child does.
LEMMA CommandProcStep ==
  ASSUME NEW p \in Pid, RunCommand(p)
  PROVE  Next
<1>1. CASE CommandStarts(p)
  BY <1>1 DEF CommandStarts, Next, RunsChild
<1>2. CASE CommandEnds(p)
  BY <1>2 DEF CommandEnds, Next, RunsChild
<1>3. QED BY <1>1, <1>2 DEF RunCommand

\* The step of the refinement.
LEMMA ProcStep == ASSUME [WorkerNext]_vars PROVE [Next]_procVars
<1>1. CASE UNCHANGED vars
  BY <1>1 DEF vars, procVars
<1>2. ASSUME NEW j \in Job, RunStep(j) PROVE [Next]_procVars
  BY <1>2, RunProcStep
<1>3. ASSUME NEW p \in Pid, RunCommand(p) PROVE [Next]_procVars
  BY <1>3, CommandProcStep
<1>4. QED BY <1>1, <1>2, <1>3 DEF WorkerNext

\* The pipeline keeps to the protocol of the child processes: it implements
\* their specification, for any jobs, process ids and directories.
THEOREM WorkerImplements == WorkerSpec => ChildProcessSpec
<1>1. WorkerInit => Init BY DEF WorkerInit
<1>2. [WorkerNext]_vars => [Next]_procVars BY ProcStep
<1>3. QED BY <1>1, <1>2, PTL DEF WorkerSpec, ChildProcessSpec, Spec

-----------------------------------------------------------------------------
(* The inductive invariant.                                                 *)

\* A job holds a child, or a status it has not judged, only at the stage of
\* the command it executed.
InCommand ==
  \A j \in Job : child[j] # None \/ status[j] # "none" =>
    pc[j] \in Cmd /\ command[j] = pc[j]

\* A job that has got beyond drawing its build id has a directory.
HasDir == \A j \in Job : pc[j] \in Armed \cup {"toplevel"} => dir[j] \in Dir

WInv == Inv /\ WorkerTypeOK /\ InCommand /\ HasDir

\* Every process runs the command of the stage where its job is, or where its
\* job was cut off.
AtStage ==
  \A p \in Pid : state[p] # "free" =>
    /\ owner[p] \in Job /\ pc[owner[p]] \in Cmd
    /\ command[owner[p]] = pc[owner[p]]

\* What remains of WInv when a process may have outlived the child object of
\* its job: most lemmas ask for no more, so that BuildBotProofs can use them.
StageInv == WorkerTypeOK /\ InCommand /\ HasDir /\ AtStage

\* A process that its job holds is one of the job's stage.
LEMMA WInvStage == WInv => StageInv
  BY ChildAssumption DEF WInv, Inv, Owned, InCommand, AtStage, StageInv

\* The initial states satisfy the invariant.
LEMMA InitWInv == WorkerInit => WInv
<1> SUFFICES ASSUME WorkerInit PROVE WInv
  OBVIOUS
<1>1. Inv
  BY InitInv DEF WorkerInit
<1>2. WorkerTypeOK
  BY <1>1 DEF WorkerInit, WorkerTypeOK, Inv
<1>3. InCommand
  BY DEF WorkerInit, Init, InCommand
<1>4. HasDir
  BY WorkerAssumption DEF WorkerInit, HasDir, Armed
<1>5. QED BY <1>1, <1>2, <1>3, <1>4 DEF WInv

\* No step of a job leaves the types.
LEMMA RunTypeStep ==
  ASSUME StageInv, NEW j \in Job, RunStep(j), TypeOK'
  PROVE  WorkerTypeOK'
<1> USE WorkerAssumption
    DEF StageInv, WorkerTypeOK, HasDir, Armed, Goto, Leave, StageDone, workerVars
<1>1. CASE \E d \in Dir : DrawBuildId(j, d)
  BY <1>1 DEF DrawBuildId
<1>2. CASE FindGitFails(j)
  BY <1>2 DEF FindGitFails
<1>3. CASE InitToplevelDirectory(j)
  BY <1>3 DEF InitToplevelDirectory
<1>4. CASE InitToplevelFails(j)
  BY <1>4 DEF InitToplevelFails
<1>5. CASE LoadMacroFile(j)
  BY <1>5 DEF LoadMacroFile
<1>6. CASE ExecuteCommand(j)
  BY <1>6 DEF ExecuteCommand
<1>7. CASE CommandLineThrows(j)
  BY <1>7 DEF CommandLineThrows
<1>8. CASE WaitForCommand(j)
  BY <1>8 DEF WaitForCommand
<1>9. CASE JudgeCommand(j)
  BY <1>9 DEF JudgeCommand
<1>10. CASE CreateBinaryDir(j)
  BY <1>10 DEF CreateBinaryDir
<1>11. CASE LoadBuildConfig(j)
  BY <1>11 DEF LoadBuildConfig
<1>12. CASE SkipCommand(j)
  BY <1>12 DEF SkipCommand
<1>13. CASE RemoveToplevel(j)
  <2>1. dir[j] \in Dir
    BY <1>13 DEF RemoveToplevel
  <2>2. PICK rest \in SUBSET tree[dir[j]] : tree' = [tree EXCEPT ![dir[j]] = rest]
    BY <1>13, <2>1 DEF RemoveToplevel
  <2>3. tree' \in [Dir -> SUBSET {"top", "repo", "build"}]
    BY <2>1, <2>2
  <2>4. undeleted' \in SUBSET Dir
    BY <1>13, <2>1 DEF RemoveToplevel
  <2>5. QED BY <1>13, <2>3, <2>4 DEF RemoveToplevel
<1>14. QED
  BY <1>1, <1>2, <1>3, <1>4, <1>5, <1>6, <1>7, <1>8, <1>9, <1>10, <1>11, <1>12, <1>13
     DEF RunStep

\* No step of a command leaves the types: its owner is a job with a directory.
LEMMA CommandTypeStep ==
  ASSUME StageInv, NEW p \in Pid, RunCommand(p), TypeOK'
  PROVE  WorkerTypeOK'
<1> USE WorkerAssumption DEF StageInv, WorkerTypeOK
<1>1. state[p] # "free"
  BY DEF RunCommand, CommandStarts, CommandEnds, ExecSucceeds, ExecFails, Exits, Killed
<1>2. owner[p] \in Job /\ command[owner[p]] \in Cmd /\ pc[owner[p]] \in Cmd
  BY <1>1 DEF AtStage
<1>3. dir[owner[p]] \in Dir
  BY <1>2 DEF HasDir, Armed
<1>4. CASE CommandStarts(p)
  BY <1>4, <1>2, <1>3 DEF CommandStarts
<1>5. CASE CommandEnds(p)
  BY <1>5, <1>2, <1>3 DEF CommandEnds
<1>6. QED BY <1>4, <1>5 DEF RunCommand

\* A job leaves a command's stage only without a child and with the status
\* taken; it executes and waits only there.
LEMMA InCommandStep == ASSUME WInv, [WorkerNext]_vars PROVE InCommand'
<1> USE ChildAssumption DEF WInv, WorkerTypeOK, TypeOK, InCommand, Inv
<1>1. ASSUME NEW j \in Job, ExecuteCommand(j)
      PROVE  InCommand'
  BY <1>1 DEF ExecuteCommand, ForkFails, ForkChild, ReadyToExecute, workerVars
<1>2. ASSUME NEW j \in Job, WaitForCommand(j)
      PROVE  InCommand'
  BY <1>2 DEF WaitForCommand, WaitForExit, WaitReturns, WaitLoops, WaitThrows, workerVars
<1>3. ASSUME NEW j \in Job, JudgeCommand(j)
      PROVE  InCommand'
  BY <1>3 DEF JudgeCommand, TakeStatus, StageDone, Leave, Goto, StatusLast
<1>4. ASSUME NEW j \in Job, CommandLineThrows(j) \/ SkipCommand(j)
      PROVE  InCommand'
  BY <1>4 DEF CommandLineThrows, SkipCommand, StageDone, Leave, Goto, ReadyToExecute, procVars
<1>5. ASSUME NEW j \in Job,
             pc[j] \notin Cmd, \E l : Goto(j, l), UNCHANGED procVars
      PROVE  InCommand'
  BY <1>5 DEF Goto, procVars
<1>6. ASSUME NEW p \in Pid, RunCommand(p)
      PROVE  InCommand'
  BY <1>6 DEF RunCommand, CommandStarts, CommandEnds, ExecSucceeds, ExecFails, Exits,
              Killed, Ends
<1>7. CASE UNCHANGED vars
  BY <1>7 DEF vars, procVars, workerVars
<1>8. ASSUME NEW j \in Job,
             \/ \E d \in Dir : DrawBuildId(j, d)
             \/ FindGitFails(j) \/ InitToplevelDirectory(j) \/ InitToplevelFails(j)
             \/ LoadMacroFile(j) \/ CreateBinaryDir(j) \/ LoadBuildConfig(j)
             \/ RemoveToplevel(j)
      PROVE  InCommand'
  <2>1. pc[j] \notin Cmd /\ (\E l : Goto(j, l)) /\ UNCHANGED procVars
    BY <1>8, WorkerAssumption
       DEF DrawBuildId, FindGitFails, InitToplevelDirectory, InitToplevelFails,
           LoadMacroFile, CreateBinaryDir, LoadBuildConfig, RemoveToplevel, Leave
  <2>2. QED BY <2>1, <1>5
<1>9. QED
  BY <1>1, <1>2, <1>3, <1>4, <1>6, <1>7, <1>8 DEF WorkerNext, RunStep

\* A directory is drawn before anything needs it, and kept.
LEMMA HasDirStep == ASSUME WInv, [WorkerNext]_vars PROVE HasDir'
<1> USE WorkerAssumption DEF WInv, WorkerTypeOK, HasDir, Armed
<1>1. ASSUME NEW j \in Job, NEW d \in Dir, DrawBuildId(j, d)
      PROVE  HasDir'
  BY <1>1 DEF DrawBuildId, Goto
<1>2. ASSUME NEW j \in Job,
             FindGitFails(j) \/ InitToplevelFails(j) \/ RemoveToplevel(j)
      PROVE  HasDir'
  BY <1>2 DEF FindGitFails, InitToplevelFails, RemoveToplevel, Goto
<1>3. ASSUME NEW j \in Job,
             \/ InitToplevelDirectory(j) \/ LoadMacroFile(j) \/ CreateBinaryDir(j)
             \/ LoadBuildConfig(j)
      PROVE  HasDir'
  BY <1>3 DEF InitToplevelDirectory, LoadMacroFile, CreateBinaryDir, LoadBuildConfig,
              Leave, Goto
<1>4. ASSUME NEW j \in Job,
             CommandLineThrows(j) \/ SkipCommand(j) \/ JudgeCommand(j)
      PROVE  HasDir'
  BY <1>4 DEF CommandLineThrows, SkipCommand, JudgeCommand, StageDone, Leave, Goto
<1>5. ASSUME NEW j \in Job, ExecuteCommand(j) \/ WaitForCommand(j)
      PROVE  HasDir'
  BY <1>5 DEF ExecuteCommand, WaitForCommand, workerVars
<1>6. ASSUME NEW p \in Pid, RunCommand(p)
      PROVE  HasDir'
  BY <1>6 DEF RunCommand, CommandStarts, CommandEnds
<1>7. CASE UNCHANGED vars
  BY <1>7 DEF vars, workerVars
<1>8. QED
  BY <1>1, <1>2, <1>3, <1>4, <1>5, <1>6, <1>7 DEF WorkerNext, RunStep

\* One step keeps the invariant.
LEMMA StepWInv == ASSUME WInv, [WorkerNext]_vars PROVE WInv'
<1>1. Inv'
  BY ProcStep, StepInv DEF WInv
<1>2. WorkerTypeOK'
  <2>1. TypeOK'
    BY <1>1 DEF Inv
  <2>2. CASE UNCHANGED vars
    BY <2>1, <2>2 DEF vars, workerVars, WInv, WorkerTypeOK
  <2>3. QED BY <2>1, <2>2, WInvStage, RunTypeStep, CommandTypeStep DEF WorkerNext
<1>3. QED BY <1>1, <1>2, InCommandStep, HasDirStep DEF WInv

\* The invariant holds in every reachable state.
LEMMA WInvariance == WorkerSpec => []WInv
<1>1. WorkerInit => WInv BY InitWInv
<1>2. WInv /\ [WorkerNext]_vars => WInv' BY StepWInv
<1>3. QED BY <1>1, <1>2, PTL DEF WorkerSpec

\* Type correctness of the pipeline.
THEOREM WorkerTypeCorrect == WorkerSpec => []WorkerTypeOK
<1>1. WInv => WorkerTypeOK BY DEF WInv
<1>2. QED BY <1>1, WInvariance, PTL

\* Whatever fails, no process of a job is left when the job deletes its tree.
THEOREM NoneOutlivesJob == WorkerSpec => []NoProcessOutlivesJob
<1>1. WInv => NoProcessOutlivesJob
  BY ChildAssumption DEF WInv, Inv, Owned, InCommand, NoProcessOutlivesJob
<1>2. QED BY <1>1, WInvariance, PTL

-----------------------------------------------------------------------------
(* NothingLeftBehind.                                                       *)

\* One step of a job keeps the directories accounted for.
LEMMA RunLeavesNothing ==
  ASSUME WInv, NothingLeftBehind, NEW j \in Job, RunStep(j)
  PROVE  NothingLeftBehind'
<1> USE WorkerAssumption DEF WInv, WorkerTypeOK, NothingLeftBehind, Armed
<1>1. ASSUME NEW d \in Dir, DrawBuildId(j, d)
      PROVE  NothingLeftBehind'
  BY <1>1 DEF DrawBuildId, Goto
<1>2. CASE FindGitFails(j)
  BY <1>2 DEF FindGitFails, Goto
<1>3. CASE InitToplevelFails(j)
  BY <1>3 DEF InitToplevelFails, Goto
<1>4. CASE InitToplevelDirectory(j)
  BY <1>4 DEF InitToplevelDirectory, Goto, HasDir
<1>5. CASE CreateBinaryDir(j)
  BY <1>5 DEF CreateBinaryDir, Leave, Goto, HasDir
<1>6. CASE LoadMacroFile(j) \/ LoadBuildConfig(j)
  BY <1>6 DEF LoadMacroFile, LoadBuildConfig, Leave, Goto
<1>7. CASE CommandLineThrows(j) \/ SkipCommand(j) \/ JudgeCommand(j)
  BY <1>7 DEF CommandLineThrows, SkipCommand, JudgeCommand, StageDone, Leave, Goto
<1>8. CASE ExecuteCommand(j) \/ WaitForCommand(j)
  BY <1>8 DEF ExecuteCommand, WaitForCommand, workerVars
<1>9. CASE RemoveToplevel(j)
  <2>1. dir[j] \in Dir
    BY <1>9 DEF RemoveToplevel, HasDir
  <2>2. tree'[dir[j]] = {} \/ dir[j] \in undeleted'
    BY <1>9, <2>1 DEF RemoveToplevel
  <2>3. /\ \A d \in Dir \ {dir[j]} : tree'[d] = tree[d]
        /\ undeleted \subseteq undeleted' /\ dir' = dir
        /\ \A k \in Job \ {j} : pc'[k] = pc[k]
    BY <1>9, <2>1 DEF RemoveToplevel, Goto
  <2>4. QED BY <2>2, <2>3
<1>10. QED
  BY <1>1, <1>2, <1>3, <1>4, <1>5, <1>6, <1>7, <1>8, <1>9 DEF RunStep

\* What a command makes lies in the directory of a job whose guard is armed.
LEMMA CommandLeavesNothing ==
  ASSUME WInv, NothingLeftBehind, NEW p \in Pid, RunCommand(p)
  PROVE  NothingLeftBehind'
<1> USE WorkerAssumption DEF WInv, WorkerTypeOK, NothingLeftBehind, Armed
<1>1. CASE CommandStarts(p)
  BY <1>1 DEF CommandStarts
<1>2. CASE CommandEnds(p)
  <2>1. state[p] # "free"
    BY <1>2 DEF CommandEnds, ExecFails, Exits, Killed
  <2>2. owner[p] \in Job /\ pc[owner[p]] \in Cmd
    BY <2>1, ChildAssumption DEF Inv, Owned, InCommand
  <2>3. \A d \in Dir : tree'[d] = tree[d] \/ d = dir[owner[p]]
    BY <1>2 DEF CommandEnds
  <2>4. UNCHANGED <<pc, dir, undeleted>>
    BY <1>2 DEF CommandEnds
  <2>5. QED BY <2>2, <2>3, <2>4
<1>3. QED BY <1>1, <1>2 DEF RunCommand

\* A toplevel directory is never left behind, on no way out of run(), unless
\* its removal failed; for any number of jobs that share directories or not.
THEOREM LeavesNothing == WorkerSpec => []NothingLeftBehind
<1>1. WorkerInit => NothingLeftBehind
  BY DEF WorkerInit, NothingLeftBehind
<1>2. WInv /\ NothingLeftBehind /\ [WorkerNext]_vars => NothingLeftBehind'
  <2>1. ASSUME NothingLeftBehind, UNCHANGED vars
        PROVE  NothingLeftBehind'
    BY <2>1 DEF vars, workerVars, NothingLeftBehind
  <2>2. QED BY <2>1, RunLeavesNothing, CommandLeavesNothing DEF WorkerNext
<1>3. QED BY <1>1, <1>2, WInvariance, PTL DEF WorkerSpec

-----------------------------------------------------------------------------
(* StepsInOrder and SuccessMeansBuilt.                                      *)

\* The commands that lie behind a job at the stage l.
Passed(l) ==
  CASE l = "checkout" -> {"clone"}
    [] l \in {"binaryDir", "buildConfig", "configure"} -> {"clone", "checkout"}
    [] l = "build" -> {"clone", "checkout", "configure"}
    [] OTHER -> {}

\* A job whose outcome is still open has none; a job of S has run nothing of
\* what lies ahead of it, nor the command of its stage before the execute().
\* S is Job here, and those that no restart has cut off in BuildBotProofs.
Fresh(S) ==
  \A j \in Job : pc[j] \notin {"cleanup", "done"} =>
    /\ outcome[j] = "none"
    /\ j \in S => \A c \in Cmd \ Passed(pc[j]) :
                   c # pc[j] \/ ReadyToExecute(j) => fate[j][c] = "none"

\* Without a fault, what lies behind a job has succeeded.
Ordered ==
  faults = {} =>
    \A j \in Job :
      /\ \A c \in Passed(pc[j]) : Succeeded(j, c)
      /\ outcome[j] = "SUCCESSFUL" => \A c \in Cmd : Succeeded(j, c)

OInv(S) == Fresh(S) /\ Ordered

\* The jobs of S hold their processes, and they are the ones that go on.
Holding(S) ==
  \A p \in Pid : state[p] # "free" /\ owner[p] \in S => child[owner[p]] = p

Moves(S) == (\E j \in S : RunStep(j)) \/ (\E p \in Pid : RunCommand(p))

\* Without a restart these are all jobs.
LEMMA AllMove ==
  /\ WInv => StageInv /\ Holding(Job)
  /\ [WorkerNext]_vars => [Moves(Job)]_vars
<1>1. WInv => StageInv /\ Holding(Job)
  BY WInvStage DEF WInv, Inv, Owned, Holding
<1>2. QED BY <1>1 DEF WorkerNext, Moves

\* A step that leaves the processes alone, but for a status that j takes, and
\* the stages of the other jobs.
MovesOnly(j) ==
  /\ UNCHANGED <<child, fate, faults>>
  /\ \A k \in Job \ {j} : /\ pc'[k] = pc[k] /\ outcome'[k] = outcome[k]
                          /\ status'[k] = status[k]

\* The initial states: nothing has run.
LEMMA InitOInv == WorkerInit => OInv(Job)
<1> SUFFICES ASSUME WorkerInit PROVE OInv(Job)
  OBVIOUS
<1>1. Fresh(Job)
  BY DEF WorkerInit, Init, Fresh
<1>2. Ordered
  BY DEF WorkerInit, Init, Ordered, Passed
<1>3. QED BY <1>1, <1>2 DEF OInv

\* Going on after the command c, which has succeeded or was skipped.
LEMMA StageStep ==
  ASSUME StageInv, NEW S \in SUBSET Job, OInv(S), NEW j \in S, MovesOnly(j), pc[j] \in Cmd,
         StageDone(j, pc[j]), faults = {} => Succeeded(j, pc[j])
  PROVE  OInv(S)'
<1> USE WorkerAssumption
    DEF StageInv, WorkerTypeOK, StageDone, Leave, Goto, MovesOnly, Passed
<1>1. Fresh(S)'
  BY DEF OInv, Fresh, ReadyToExecute
<1>2. Ordered'
  BY DEF OInv, Ordered, Succeeded, Fresh
<1>3. QED BY <1>1, <1>2 DEF OInv

\* Leaving run() for another reason than success.
LEMMA LeaveStep ==
  ASSUME StageInv, NEW S \in SUBSET Job, OInv(S), NEW j \in S, MovesOnly(j),
         NEW o \in {"FAILED", "threw"}, NEW l \in {"cleanup", "done"},
         Goto(j, l), outcome' = [outcome EXCEPT ![j] = o]
  PROVE  OInv(S)'
<1> USE DEF StageInv, WorkerTypeOK, Goto, MovesOnly, Passed
<1>1. Fresh(S)'
  BY DEF OInv, Fresh, ReadyToExecute
<1>2. Ordered'
  BY DEF OInv, Ordered, Succeeded
<1>3. QED BY <1>1, <1>2 DEF OInv

\* Going on between stages that have the same commands behind them.
LEMMA AdvanceStep ==
  ASSUME StageInv, NEW S \in SUBSET Job, OInv(S), NEW j \in S, MovesOnly(j), UNCHANGED outcome,
         pc[j] \notin Cmd, NEW l, Goto(j, l), Passed(l) = Passed(pc[j]),
         l \notin {"cleanup", "done"} => pc[j] \notin {"cleanup", "done"}
  PROVE  OInv(S)'
<1> USE DEF StageInv, WorkerTypeOK, Goto, MovesOnly
<1>1. Fresh(S)'
  BY DEF OInv, Fresh, ReadyToExecute
<1>2. Ordered'
  BY DEF OInv, Ordered, Succeeded
<1>3. QED BY <1>1, <1>2 DEF OInv

\* The stages without a command.
LEMMA QuietStep ==
  ASSUME StageInv, NEW S \in SUBSET Job, OInv(S), NEW j \in S,
         \/ \E d \in Dir : DrawBuildId(j, d)
         \/ FindGitFails(j) \/ InitToplevelDirectory(j) \/ InitToplevelFails(j)
         \/ LoadMacroFile(j) \/ CreateBinaryDir(j) \/ LoadBuildConfig(j)
         \/ RemoveToplevel(j)
  PROVE  OInv(S)'
<1> USE DEF procVars
<1>0. UNCHANGED procVars /\ pc \in [Job -> {"queued", "toplevel", "done"} \cup Armed]
      /\ outcome \in [Job -> {"none", "SUCCESSFUL", "FAILED", "threw"}]
  BY DEF DrawBuildId, FindGitFails, InitToplevelDirectory, InitToplevelFails,
         LoadMacroFile, CreateBinaryDir, LoadBuildConfig, RemoveToplevel, StageInv,
         WorkerTypeOK
<1>1. ASSUME NEW l, Goto(j, l),
             UNCHANGED outcome \/ \E o : outcome' = [outcome EXCEPT ![j] = o]
      PROVE  MovesOnly(j)
  BY <1>0, <1>1 DEF MovesOnly, Goto
<1>2. CASE FindGitFails(j) \/ InitToplevelFails(j)
  <2>1. Goto(j, "done") /\ outcome' = [outcome EXCEPT ![j] = "FAILED"]
    BY <1>2 DEF FindGitFails, InitToplevelFails
  <2>2. MovesOnly(j)
    BY <2>1, <1>1
  <2>3. QED BY <2>1, <2>2, LeaveStep
<1>3. ASSUME Leave(j, "FAILED")
      PROVE  OInv(S)'
  <2>1. Goto(j, "cleanup") /\ outcome' = [outcome EXCEPT ![j] = "FAILED"]
    BY <1>3 DEF Leave
  <2>2. MovesOnly(j)
    BY <2>1, <1>1
  <2>3. QED BY <2>1, <2>2, LeaveStep
<1>4. ASSUME NEW l, Goto(j, l), UNCHANGED outcome, pc[j] \notin Cmd,
             Passed(l) = Passed(pc[j]),
             l \notin {"cleanup", "done"} => pc[j] \notin {"cleanup", "done"}
      PROVE  OInv(S)'
  <2>1. MovesOnly(j)
    BY <1>4, <1>1
  <2>2. QED BY <2>1, <1>4, AdvanceStep
<1>5. CASE \E d \in Dir : DrawBuildId(j, d)
  BY <1>5, <1>4, WorkerAssumption DEF DrawBuildId, Passed
<1>6. CASE InitToplevelDirectory(j)
  BY <1>6, <1>4, WorkerAssumption DEF InitToplevelDirectory, Passed
<1>7. CASE LoadMacroFile(j)
  BY <1>7, <1>3, <1>4, WorkerAssumption DEF LoadMacroFile, Passed
<1>8. CASE CreateBinaryDir(j)
  BY <1>8, <1>3, <1>4, WorkerAssumption DEF CreateBinaryDir, Passed
<1>9. CASE LoadBuildConfig(j)
  BY <1>9, <1>3, <1>4, WorkerAssumption DEF LoadBuildConfig, Passed
<1>10. CASE RemoveToplevel(j)
  BY <1>10, <1>4, WorkerAssumption DEF RemoveToplevel, Passed
<1>11. QED BY <1>2, <1>5, <1>6, <1>7, <1>8, <1>9, <1>10

\* A command that is skipped has not run; one that does not get to its
\* execute() ends the pipeline.
LEMMA SkipStep ==
  ASSUME StageInv, NEW S \in SUBSET Job, OInv(S), NEW j \in S,
         SkipCommand(j) \/ CommandLineThrows(j)
  PROVE  OInv(S)'
<1> USE DEF SkipCommand, CommandLineThrows
<1>1. pc[j] \in Cmd /\ ReadyToExecute(j)
  BY WorkerAssumption
<1>2. MovesOnly(j)
  BY <1>1 DEF MovesOnly, StageDone, Leave, Goto, procVars, StageInv, WorkerTypeOK
<1>3. pc[j] \in {"configure", "build"} => Succeeded(j, pc[j])
  BY <1>1, WorkerAssumption DEF OInv, Fresh, Passed, Succeeded
<1>4. CASE pc[j] \in {"configure", "build"} /\ StageDone(j, pc[j])
  BY <1>1, <1>2, <1>3, <1>4, StageStep
<1>5. CASE \E o \in {"FAILED", "threw"} : Leave(j, o)
  BY <1>2, <1>5, LeaveStep DEF Leave
<1>6. QED BY <1>4, <1>5

\* The status that the job judges is its own child's (unless there was a
\* fault): the command behind the job has succeeded.
LEMMA JudgeStep ==
  ASSUME StageInv, OwnStatus, NEW S \in SUBSET Job, OInv(S), NEW j \in S, JudgeCommand(j)
  PROVE  OInv(S)'
<1> USE DEF JudgeCommand, TakeStatus
<1>1. MovesOnly(j)
  BY DEF MovesOnly, StageDone, Leave, Goto, StageInv, WorkerTypeOK, TypeOK
<1>2. CASE status[j] = "zero" /\ StageDone(j, pc[j])
  <2>1. command[j] = pc[j]
    BY DEF StageInv, InCommand
  <2>2. faults = {} => Succeeded(j, pc[j])
    BY <1>2, <2>1 DEF OwnStatus, Succeeded
  <2>3. QED BY <1>1, <1>2, <2>2, StageStep
<1>3. CASE Leave(j, "FAILED")
  BY <1>1, <1>3, LeaveStep DEF Leave
<1>4. QED BY <1>2, <1>3

\* Executing a command, waiting for it and its end concern the history of the
\* command of the job's stage only, which is not behind it.
LEMMA CommandStep ==
  ASSUME StageInv, NEW S \in SUBSET Job, OInv(S), NEW j \in Job,
         UNCHANGED <<pc, outcome>>, faults \subseteq faults',
         \A k \in Job \ {j} : UNCHANGED <<fate[k], child[k], status[k]>>,
         \A c \in Cmd \ {pc[j]} : fate'[j][c] = fate[j][c],
         pc[j] \in Cmd, j \in S => ~ReadyToExecute(j)'
  PROVE  OInv(S)'
<1> USE WorkerAssumption DEF Passed
<1>1. Fresh(S)'
  BY DEF OInv, Fresh, ReadyToExecute
<1>2. pc[j] \notin Passed(pc[j]) /\ (pc[j] \in Cmd => outcome[j] = "none")
  BY DEF OInv, Fresh
<1>3. Ordered'
  <2> SUFFICES ASSUME faults = {}, NEW k \in Job
               PROVE  /\ \A c \in Passed(pc[k]) : Succeeded(k, c)'
                      /\ outcome[k] = "SUCCESSFUL" => \A c \in Cmd : Succeeded(k, c)'
    BY DEF Ordered
  <2>1. CASE k = j
    BY <2>1, <1>2 DEF OInv, Ordered, Succeeded
  <2>2. CASE k # j
    BY <2>2 DEF OInv, Ordered, Succeeded
  <2>3. QED BY <2>1, <2>2
<1>4. QED BY <1>1, <1>3 DEF OInv

\* The steps of a job that executes or waits for its command.
LEMMA ExecuteStep ==
  ASSUME StageInv, NEW S \in SUBSET Job, OInv(S), NEW j \in S,
         ExecuteCommand(j) \/ WaitForCommand(j)
  PROVE  OInv(S)'
<1> USE ChildAssumption DEF StageInv, WorkerTypeOK, TypeOK, workerVars
<1>1. pc[j] \in Cmd
  BY DEF ExecuteCommand, WaitForCommand, WaitForExit, WaitReturns, WaitLoops, WaitThrows,
         InCommand
<1>2. ~ReadyToExecute(j)'
  BY DEF ExecuteCommand, ForkFails, ForkChild, WaitForCommand, WaitForExit, WaitReturns,
         WaitLoops, WaitThrows, ReadyToExecute, Zombie
<1>3. /\ \A k \in Job \ {j} : UNCHANGED <<fate[k], child[k], status[k]>>
      /\ \A c \in Cmd \ {pc[j]} : fate'[j][c] = fate[j][c]
      /\ faults \subseteq faults'
      /\ UNCHANGED <<pc, outcome>>
  BY DEF ExecuteCommand, ForkFails, ForkChild, WaitForCommand, WaitForExit, WaitReturns,
         WaitLoops, WaitThrows
<1>4. QED BY <1>1, <1>2, <1>3, CommandStep

\* The steps of a command, which its job holds unless it was cut off.
LEMMA ChildStep ==
  ASSUME StageInv, NEW S \in SUBSET Job, OInv(S), NEW p \in Pid, RunCommand(p),
         owner[p] \in S => child[owner[p]] = p
  PROVE  OInv(S)'
<1>1. state[p] # "free"
  BY DEF RunCommand, CommandStarts, CommandEnds, ExecSucceeds, ExecFails, Exits, Killed
<1>2. PICK j \in Job : j = owner[p] /\ command[j] = pc[j] /\ pc[j] \in Cmd
  BY <1>1 DEF StageInv, AtStage
<1>3. UNCHANGED <<pc, outcome, child, status, faults>>
  BY DEF RunCommand, CommandStarts, CommandEnds, ExecSucceeds, ExecFails, Exits, Killed, Ends
<1>4. /\ \A k \in Job \ {j} : fate'[k] = fate[k]
      /\ \A c \in Cmd \ {pc[j]} : fate'[j][c] = fate[j][c]
  BY <1>2 DEF RunCommand, CommandStarts, CommandEnds, ExecSucceeds, ExecFails, Exits, Killed,
              Ends, StageInv, WorkerTypeOK, TypeOK
<1>5. j \in S => ~ReadyToExecute(j)'
  BY <1>2, <1>3, ChildAssumption DEF ReadyToExecute
<1>6. QED BY <1>2, <1>3, <1>4, <1>5, CommandStep

\* One step keeps the order.
LEMMA StepOInv ==
  ASSUME StageInv, OwnStatus, NEW S \in SUBSET Job, OInv(S), Holding(S), [Moves(S)]_vars
  PROVE  OInv(S)'
<1>1. CASE UNCHANGED vars
  BY <1>1 DEF vars, procVars, workerVars, OInv, Fresh, Ordered, Succeeded, ReadyToExecute
<1>2. ASSUME NEW j \in S, RunStep(j)
      PROVE  OInv(S)'
  BY <1>2, QuietStep, SkipStep, JudgeStep, ExecuteStep DEF RunStep
<1>3. ASSUME NEW p \in Pid, RunCommand(p)
      PROVE  OInv(S)'
  <2>1. state[p] # "free"
    BY <1>3 DEF RunCommand, CommandStarts, CommandEnds, ExecSucceeds, ExecFails, Exits, Killed
  <2>2. owner[p] \in S => child[owner[p]] = p
    BY <2>1 DEF Holding
  <2>3. QED BY <1>3, <2>2, ChildStep
<1>4. QED BY <1>1, <1>2, <1>3 DEF Moves

\* The order holds in every reachable state.
LEMMA Order == WorkerSpec => []OInv(Job)
<1>1. WorkerSpec => []OwnStatus
  BY WorkerImplements, StatusIsOwn DEF ChildProcessSpec
<1>2. WInv /\ OwnStatus /\ OInv(Job) /\ [WorkerNext]_vars => OInv(Job)'
  BY StepOInv, AllMove
<1>3. QED BY <1>1, <1>2, InitOInv, WInvariance, PTL DEF WorkerSpec

\* In such a state a process's job has its earlier commands behind it.
LEMMA OrderedSteps == ASSUME StageInv, Ordered PROVE StepsInOrder
<1> SUFFICES ASSUME faults = {}, NEW p \in Pid, state[p] # "free",
                    NEW c \in Before(command[owner[p]])
             PROVE  Succeeded(owner[p], c)
  BY DEF StepsInOrder
<1>1. owner[p] \in Job /\ command[owner[p]] = pc[owner[p]] /\ pc[owner[p]] \in Cmd
  BY DEF StageInv, AtStage
<1>2. c \in Passed(pc[owner[p]])
  BY <1>1, WorkerAssumption DEF Before, Passed
<1>3. QED BY <1>1, <1>2 DEF Ordered

\* A command is only started when the job's own earlier ones have succeeded,
\* for any number of jobs, as long as no fork fails and no process id is
\* recycled under a waiting job.
THEOREM InOrder == WorkerSpec => []StepsInOrder
<1>1. WInv /\ OInv(Job) => StepsInOrder
  BY WInvStage, OrderedSteps DEF OInv
<1>2. QED BY <1>1, Order, WInvariance, PTL

-----------------------------------------------------------------------------
(* What a private tree holds.                                               *)

\* A job that has not drawn its build id has no directory, and one that has
\* none has run nothing.
Undrawn ==
  /\ \A j \in Job : pc[j] = "queued" => dir[j] = None
  /\ \A j \in Job, c \in Cmd : <<j, c>> \in stray => dir[j] \in Dir

\* The tree of a job that shares it with no other: every stage finds there
\* what the stages before it have made.
TreeOf(j) ==
  /\ pc[j] \in Armed => "top" \in tree[dir[j]]
  /\ pc[j] \in Armed /\ fate[j]["clone"] = "zero" => "repo" \in tree[dir[j]]
  /\ \/ pc[j] \in {"buildConfig", "configure", "build"}
     \/ pc[j] = "cleanup" /\ outcome[j] = "SUCCESSFUL"
     => "build" \in tree[dir[j]]

StaysIn(j) == faults = {} => \A c \in Cmd : <<j, c>> \notin stray

TInv == Undrawn /\ \A j \in Job : Private(j) => TreeOf(j) /\ StaysIn(j)

\* The initial states: no job has a directory.
LEMMA InitTInv == WorkerInit => TInv
  BY WorkerAssumption DEF WorkerInit, TInv, Undrawn, TreeOf, StaysIn, Armed

\* A directory is drawn once and kept.
LEMMA UndrawnStep == ASSUME StageInv, TInv, [WorkerNext]_vars PROVE Undrawn'
<1> USE WorkerAssumption DEF StageInv, WorkerTypeOK, TInv, Undrawn, Armed
<1>1. ASSUME NEW j \in Job, NEW d \in Dir, DrawBuildId(j, d)
      PROVE  Undrawn'
  BY <1>1 DEF DrawBuildId, Goto
<1>2. ASSUME NEW j \in Job, RunStep(j), ~\E d \in Dir : DrawBuildId(j, d)
      PROVE  Undrawn'
  <2>1. UNCHANGED <<dir, stray>>
    BY <1>2 DEF RunStep, FindGitFails, InitToplevelDirectory, InitToplevelFails,
       LoadMacroFile, ExecuteCommand, CommandLineThrows, WaitForCommand, JudgeCommand,
       CreateBinaryDir, LoadBuildConfig, SkipCommand, RemoveToplevel, workerVars
  <2>2. \A k \in Job : pc'[k] = "queued" => pc[k] = "queued"
    BY <1>2 DEF RunStep, FindGitFails, InitToplevelDirectory, InitToplevelFails,
       LoadMacroFile, ExecuteCommand, CommandLineThrows, WaitForCommand, JudgeCommand,
       CreateBinaryDir, LoadBuildConfig, SkipCommand, RemoveToplevel, workerVars,
       StageDone, Leave, Goto
  <2>3. QED BY <2>1, <2>2
<1>3. ASSUME NEW p \in Pid, RunCommand(p)
      PROVE  Undrawn'
  <2>1. owner[p] \in Job /\ dir[owner[p]] \in Dir
    BY <1>3 DEF RunCommand, CommandStarts, CommandEnds, ExecSucceeds, ExecFails, Exits,
       Killed, AtStage, HasDir
  <2>2. QED BY <1>3, <2>1 DEF RunCommand, CommandStarts, CommandEnds
<1>4. CASE UNCHANGED vars
  BY <1>4 DEF vars, workerVars
<1>5. QED BY <1>1, <1>2, <1>3, <1>4 DEF WorkerNext

\* Nobody takes anything out of a private tree but its own job, at the end.
LEMMA PrivateKept ==
  ASSUME StageInv, NEW j \in Job, Private(j), pc[j] \in Armed, [WorkerNext]_vars,
         ~RemoveToplevel(j)
  PROVE  tree[dir[j]] \subseteq tree'[dir[j]]
<1> USE WorkerAssumption DEF StageInv, WorkerTypeOK, HasDir
<1>1. ASSUME NEW k \in Job, RemoveToplevel(k)
      PROVE  tree[dir[j]] \subseteq tree'[dir[j]]
  BY <1>1 DEF RemoveToplevel, Private
<1>2. ASSUME NEW k \in Job, RunStep(k), ~RemoveToplevel(k)
      PROVE  tree[dir[j]] \subseteq tree'[dir[j]]
  BY <1>2 DEF RunStep, DrawBuildId, FindGitFails, InitToplevelDirectory, InitToplevelFails,
     LoadMacroFile, ExecuteCommand, CommandLineThrows, WaitForCommand, JudgeCommand,
     CreateBinaryDir, LoadBuildConfig, SkipCommand, workerVars
<1>3. ASSUME NEW p \in Pid, RunCommand(p)
      PROVE  tree[dir[j]] \subseteq tree'[dir[j]]
  BY <1>3 DEF RunCommand, CommandStarts, CommandEnds
<1>4. CASE UNCHANGED vars
  BY <1>4 DEF vars, workerVars
<1>5. QED BY <1>1, <1>2, <1>3, <1>4 DEF WorkerNext

\* A job that shares its directory with no other now has not done so before.
LEMMA PrivateBefore ==
  ASSUME StageInv, TInv, [WorkerNext]_vars, NEW j \in Job, dir[j] \in Dir, Private(j)'
  PROVE  dir'[j] = dir[j] /\ Private(j)
<1>1. \A k \in Job : dir'[k] = dir[k] \/ (dir[k] = None /\ pc[k] = "queued")
  <2>1. ASSUME NEW k \in Job, NEW d \in Dir, DrawBuildId(k, d)
        PROVE  dir'[k] = d /\ \A i \in Job \ {k} : dir'[i] = dir[i]
    BY <2>1 DEF DrawBuildId, StageInv, WorkerTypeOK
  <2>2. ASSUME NEW k \in Job, NEW d \in Dir, DrawBuildId(k, d)
        PROVE  dir[k] = None /\ pc[k] = "queued"
    BY <2>2 DEF DrawBuildId, TInv, Undrawn
  <2>3. ASSUME ~\E k \in Job : \E d \in Dir : DrawBuildId(k, d)
        PROVE  dir' = dir
    BY <2>3 DEF WorkerNext, RunStep, FindGitFails, InitToplevelDirectory, InitToplevelFails,
       LoadMacroFile, ExecuteCommand, CommandLineThrows, WaitForCommand, JudgeCommand,
       CreateBinaryDir, LoadBuildConfig, SkipCommand, RemoveToplevel, workerVars, vars,
       RunCommand, CommandStarts, CommandEnds
  <2>4. QED BY <2>1, <2>2, <2>3
<1>2. dir'[j] = dir[j]
  BY <1>1, WorkerAssumption
<1>3. QED BY <1>1, <1>2, WorkerAssumption DEF Private

\* The steps of the job itself.
LEMMA OwnTreeStep ==
  ASSUME StageInv, NEW S \in SUBSET Job, OInv(S), TInv, NEW j \in S, RunStep(j),
         dir[j] \in Dir, Private(j), dir'[j] = dir[j]
  PROVE  TreeOf(j)' /\ StaysIn(j)'
<1> USE WorkerAssumption
    DEF StageInv, WorkerTypeOK, TreeOf, Armed
<1>1. TreeOf(j) /\ StaysIn(j) /\ pc[j] # "queued"
  BY DEF TInv, Undrawn
<1>2. CASE FindGitFails(j) \/ InitToplevelFails(j) \/ \E d \in Dir : DrawBuildId(j, d)
  BY <1>2, <1>1 DEF FindGitFails, InitToplevelFails, DrawBuildId, Goto, StaysIn, procVars
<1>3. CASE InitToplevelDirectory(j)
  BY <1>3, <1>1 DEF InitToplevelDirectory, Goto, StaysIn, procVars, OInv, Fresh, Passed
<1>4. CASE LoadMacroFile(j) \/ LoadBuildConfig(j)
  BY <1>4, <1>1 DEF LoadMacroFile, LoadBuildConfig, Leave, Goto, StaysIn, procVars
<1>5. CASE CreateBinaryDir(j)
  BY <1>5, <1>1 DEF CreateBinaryDir, Leave, Goto, StaysIn, procVars
<1>6. CASE CommandLineThrows(j) \/ SkipCommand(j)
  BY <1>6, <1>1 DEF CommandLineThrows, SkipCommand, StageDone, Leave, Goto, StaysIn, procVars
<1>7. CASE JudgeCommand(j)
  BY <1>7, <1>1 DEF JudgeCommand, TakeStatus, StageDone, Leave, Goto, StaysIn
<1>8. CASE WaitForCommand(j)
  BY <1>8, <1>1 DEF WaitForCommand, WaitForExit, WaitReturns, WaitLoops, WaitThrows,
     workerVars, StaysIn
<1>9. CASE ExecuteCommand(j)
  <2>1. fate'[j]["clone"] = "zero" => fate[j]["clone"] = "zero"
    BY <1>9 DEF ExecuteCommand, ForkFails, ForkChild, Inv, TypeOK
  <2>2. UNCHANGED workerVars /\ faults \subseteq faults'
    BY <1>9 DEF ExecuteCommand, ForkFails, ForkChild
  <2>3. QED BY <2>1, <2>2, <1>1 DEF workerVars, StaysIn
<1>10. CASE RemoveToplevel(j)
  BY <1>10, <1>1 DEF RemoveToplevel, Goto, StaysIn, procVars
<1>11. QED
  BY <1>2, <1>3, <1>4, <1>5, <1>6, <1>7, <1>8, <1>9, <1>10 DEF RunStep

\* The steps of the other jobs.
LEMMA OtherTreeStep ==
  ASSUME StageInv, TInv, NEW j \in Job, NEW k \in Job \ {j}, RunStep(k), dir[j] \in Dir,
         Private(j), dir'[j] = dir[j]
  PROVE  TreeOf(j)' /\ StaysIn(j)'
<1> USE WorkerAssumption DEF StageInv, WorkerTypeOK
<1>1. TreeOf(j) /\ StaysIn(j)
  BY DEF TInv
<1>2. pc'[j] = pc[j] /\ outcome'[j] = outcome[j] /\ UNCHANGED stray
  BY DEF RunStep, DrawBuildId, FindGitFails, InitToplevelDirectory, InitToplevelFails,
     LoadMacroFile, ExecuteCommand, CommandLineThrows, WaitForCommand, JudgeCommand,
     CreateBinaryDir, LoadBuildConfig, SkipCommand, RemoveToplevel, workerVars, StageDone,
     Leave, Goto
<1>3. fate'[j] = fate[j] /\ faults \subseteq faults'
  BY DEF RunStep, DrawBuildId, FindGitFails, InitToplevelDirectory, InitToplevelFails,
     LoadMacroFile, ExecuteCommand, CommandLineThrows, WaitForCommand, JudgeCommand,
     CreateBinaryDir, LoadBuildConfig, SkipCommand, RemoveToplevel, procVars, TakeStatus,
     WaitForExit, WaitReturns, WaitLoops, WaitThrows, ForkFails, ForkChild, Inv, TypeOK
<1>4. pc[j] \in Armed => tree[dir[j]] \subseteq tree'[dir[j]]
  <2>1. ASSUME RemoveToplevel(j), pc[j] \in Armed
        PROVE  tree[dir[j]] \subseteq tree'[dir[j]]
    BY <2>1, <1>2 DEF RemoveToplevel, Goto
  <2>2. QED BY <2>1, PrivateKept DEF WorkerNext
<1>5. QED BY <1>1, <1>2, <1>3, <1>4 DEF TreeOf, StaysIn, Armed

\* The steps of the commands.
LEMMA CommandTreeStep ==
  ASSUME StageInv, Ordered, TInv, NEW j \in Job, NEW p \in Pid, RunCommand(p),
         dir[j] \in Dir, Private(j)
  PROVE  TreeOf(j)' /\ StaysIn(j)'
<1> USE WorkerAssumption DEF StageInv, WorkerTypeOK
<1>1. TreeOf(j) /\ StaysIn(j)
  BY DEF TInv
<1>2. /\ owner[p] \in Job /\ command[owner[p]] = pc[owner[p]] /\ pc[owner[p]] \in Cmd
      /\ dir[owner[p]] \in Dir
  BY DEF RunCommand, CommandStarts, CommandEnds, ExecSucceeds, ExecFails, Exits, Killed,
     AtStage, HasDir, Armed
<1>3. UNCHANGED <<pc, dir, outcome, faults>>
  BY DEF RunCommand, CommandStarts, CommandEnds, ExecSucceeds, ExecFails, Exits, Killed, Ends
<1>4. tree[dir[j]] \subseteq tree'[dir[j]]
  BY DEF RunCommand, CommandStarts, CommandEnds
<1>5. CASE CommandStarts(p)
  <2>1. UNCHANGED <<fate, tree>>
    BY <1>5 DEF CommandStarts, ExecSucceeds
  <2>2. ASSUME faults = {}, owner[p] = j, pc[j] # "clone"
        PROVE  StartDir(pc[j]) \in tree[dir[j]]
    <3>1. CASE pc[j] = "checkout"
      <4>1. fate[j]["clone"] = "zero"
        BY <2>2, <3>1 DEF Ordered, Passed, Succeeded
      <4>2. QED BY <3>1, <4>1, <1>1, <1>2 DEF TreeOf, Armed, StartDir
    <3>2. CASE pc[j] \in {"configure", "build"}
      BY <3>2, <1>1 DEF TreeOf, StartDir
    <3>3. QED BY <2>2, <3>1, <3>2, <1>2
  <2>3. StaysIn(j)'
    BY <1>1, <1>2, <1>3, <1>5, <2>2 DEF CommandStarts, StaysIn
  <2>4. QED BY <1>1, <1>3, <2>1, <2>3 DEF TreeOf
<1>6. CASE CommandEnds(p)
  <2>1. UNCHANGED stray
    BY <1>6 DEF CommandEnds
  <2>2. ASSUME fate'[j]["clone"] = "zero", fate[j]["clone"] # "zero"
        PROVE  "repo" \in tree'[dir[j]]
    <3>1. owner[p] = j /\ command[j] = "clone" /\ Exits(p, "zero")
      BY <2>2, <1>2, <1>6 DEF CommandEnds, ExecFails, Exits, Killed, Ends, Inv, TypeOK
    <3>2. tree' = [tree EXCEPT ![dir[j]] = @ \cup {"top", "repo"}]
      BY <1>6, <3>1 DEF CommandEnds, ExecFails, Exits, Killed, Ends, Inv, TypeOK, Zombie
    <3>3. QED BY <3>2
  <2>3. QED BY <1>1, <1>3, <1>4, <2>1, <2>2 DEF TreeOf, StaysIn
<1>7. QED BY <1>5, <1>6 DEF RunCommand

\* One step keeps what a private tree holds.
LEMMA StepTInv ==
  ASSUME StageInv, NEW S \in SUBSET Job, OInv(S), TInv, [Moves(S)]_vars
  PROVE  TInv'
<1>0. [WorkerNext]_vars /\ Ordered
  BY DEF Moves, WorkerNext, OInv
<1> SUFFICES ASSUME NEW j \in Job, Private(j)'
             PROVE  TreeOf(j)' /\ StaysIn(j)'
  BY <1>0, UndrawnStep DEF TInv
<1>1. CASE dir[j] \notin Dir
  <2>1. \A c \in Cmd : <<j, c>> \notin stray
    BY <1>1 DEF TInv, Undrawn
  <2>2. pc[j] \notin Armed \cup {"toplevel"}
    BY <1>1 DEF StageInv, HasDir
  <2>3. pc'[j] \notin Armed
    BY <1>0, <2>2, WorkerAssumption DEF WorkerNext, RunStep, DrawBuildId, FindGitFails,
       InitToplevelDirectory, InitToplevelFails, LoadMacroFile, ExecuteCommand,
       CommandLineThrows, WaitForCommand, JudgeCommand, CreateBinaryDir, LoadBuildConfig,
       SkipCommand, RemoveToplevel, workerVars, vars, RunCommand, CommandStarts, CommandEnds,
       StageDone, Leave, Goto, Armed, StageInv, WorkerTypeOK
  <2>4. \A c \in Cmd : <<j, c>> \notin stray'
    <3>1. ASSUME NEW p \in Pid, CommandStarts(p)
          PROVE  owner[p] # j
      BY <3>1, <2>2 DEF CommandStarts, ExecSucceeds, StageInv, AtStage, Armed
    <3>2. ASSUME NEW p \in Pid, CommandStarts(p)
          PROVE  \A c \in Cmd : <<j, c>> \notin stray'
      BY <2>1, <3>1, <3>2 DEF CommandStarts
    <3>3. ASSUME ~\E p \in Pid : CommandStarts(p)
          PROVE  UNCHANGED stray
      BY <1>0, <3>3 DEF WorkerNext, RunStep, DrawBuildId, FindGitFails,
         InitToplevelDirectory, InitToplevelFails, LoadMacroFile, ExecuteCommand,
         CommandLineThrows, WaitForCommand, JudgeCommand, CreateBinaryDir, LoadBuildConfig,
         SkipCommand, RemoveToplevel, workerVars, vars, RunCommand, CommandEnds
    <3>4. QED BY <2>1, <3>2, <3>3
  <2>5. QED BY <2>3, <2>4, WorkerAssumption DEF TreeOf, StaysIn, Armed
<1>2. CASE dir[j] \in Dir
  <2>1. dir'[j] = dir[j] /\ Private(j)
    BY <1>0, <1>2, PrivateBefore
  <2>2. CASE UNCHANGED vars
    BY <2>1, <2>2 DEF TInv, TreeOf, StaysIn, vars, workerVars, procVars
  <2>3. ASSUME NEW k \in S, RunStep(k)
        PROVE  TreeOf(j)' /\ StaysIn(j)'
    <3>1. CASE k = j
      BY <1>2, <2>1, <2>3, <3>1, OwnTreeStep
    <3>2. CASE k # j
      BY <1>2, <2>1, <2>3, <3>2, OtherTreeStep
    <3>3. QED BY <3>1, <3>2
  <2>4. ASSUME NEW p \in Pid, RunCommand(p)
        PROVE  TreeOf(j)' /\ StaysIn(j)'
    BY <1>0, <1>2, <2>1, <2>4, CommandTreeStep
  <2>5. QED BY <2>2, <2>3, <2>4 DEF Moves
<1>3. QED BY <1>1, <1>2

\* Private trees are sound in every reachable state.
LEMMA TreesSound == WorkerSpec => []TInv
<1>1. WInv /\ OInv(Job) /\ TInv /\ [WorkerNext]_vars => TInv'
  BY StepTInv, AllMove
<1>2. QED BY <1>1, InitTInv, WInvariance, Order, PTL DEF WorkerSpec

\* In such a state a success is what the log says.
LEMMA RealSuccess == ASSUME StageInv, Ordered, TInv PROVE SuccessMeansBuilt
<1> SUFFICES ASSUME NEW j \in Job, outcome[j] = "SUCCESSFUL", faults = {}, Private(j)
             PROVE  /\ \A c \in Cmd : Succeeded(j, c) /\ <<j, c>> \notin stray
                    /\ pc[j] = "cleanup" => tree[dir[j]] = {"top", "repo", "build"}
  BY DEF SuccessMeansBuilt
<1>1. \A c \in Cmd : Succeeded(j, c)
  BY DEF Ordered
<1>2. TreeOf(j) /\ \A c \in Cmd : <<j, c>> \notin stray
  BY DEF TInv, StaysIn
<1>3. fate[j]["clone"] = "zero"
  BY <1>1, WorkerAssumption DEF Succeeded
<1>4. ASSUME pc[j] = "cleanup"
      PROVE  tree[dir[j]] = {"top", "repo", "build"}
  <2>1. {"top", "repo", "build"} \subseteq tree[dir[j]]
    BY <1>2, <1>3, <1>4 DEF TreeOf, Armed
  <2>2. tree[dir[j]] \subseteq {"top", "repo", "build"}
    BY <1>4 DEF StageInv, WorkerTypeOK, HasDir, Armed
  <2>3. QED BY <2>1, <2>2
<1>5. QED BY <1>1, <1>2, <1>4

\* Success means that the job's own commands all succeeded, in their own and
\* complete tree, for every job that shares its directory with no other; for
\* any number of jobs, as long as there was no fault.
THEOREM SuccessIsReal == WorkerSpec => []SuccessMeansBuilt
<1>1. WInv /\ OInv(Job) /\ TInv => SuccessMeansBuilt
  BY WInvStage, RealSuccess DEF OInv
<1>2. QED BY <1>1, WInvariance, Order, TreesSound, PTL

\* No command runs outside its tree, faults and shared directories aside.
THEOREM StayInTree == WorkerSpec => []CommandsStayInTree
<1>1. TInv => CommandsStayInTree
  BY DEF TInv, StaysIn, CommandsStayInTree
<1>2. QED BY <1>1, TreesSound, PTL
=============================================================================
