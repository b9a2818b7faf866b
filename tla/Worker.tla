------------------------------- MODULE Worker -------------------------------
(***************************************************************************)
(* The build pipeline of src/worker.cpp: what Worker::run() does on a pool *)
(* thread, over the shared process table of ChildProcess and the shared    *)
(* build directory.  Several workers run at once.                          *)
(*                                                                         *)
(* A job moves along pc; at a pc that is a command's name it executes that *)
(* command, waits for it and judges the status.  Repository contents,      *)
(* settings and macro files are the environment: what the code reads from  *)
(* them is a choice here.                                                  *)
(***************************************************************************)
EXTENDS ChildProcess

CONSTANT
  Dir       (* the toplevel directories that can come up: build directory,  *)
            (* profile, repository name and the random build id             *)

ASSUME WorkerAssumption ==
  /\ Cmd = {"clone", "checkout", "configure", "build"}
  /\ None \notin Dir

VARIABLES
  pc,            (* where each job is in run()                              *)
  dir,           (* m_toplevelDirectory, None before it is drawn            *)
  tree,          (* per toplevel directory: what of it exists on disk       *)
  macrosUsable,  (* does replaceMacros() get every key of m_macros?         *)
  outcome,       (* what run() logged last: SUCCESSFUL, FAILED; or it threw *)
  stray,         (* history: commands that ran although chdir() had failed  *)
  undeleted      (* history: directories whose removal failed               *)

workerVars == <<pc, dir, tree, macrosUsable, outcome, stray, undeleted>>
vars == <<procVars, workerVars>>

\* The stages between arming finally_delete_toplevel_dir and its end.
Armed == {"macros", "binaryDir", "buildConfig", "cleanup"} \cup Cmd

WorkerTypeOK ==
  /\ TypeOK
  /\ pc \in [Job -> {"queued", "toplevel", "done"} \cup Armed]
  /\ dir \in [Job -> Dir \cup {None}]
  /\ tree \in [Dir -> SUBSET {"top", "repo", "build"}]
  /\ macrosUsable \in [Job -> BOOLEAN]
  /\ outcome \in [Job -> {"none", "SUCCESSFUL", "FAILED", "threw"}]
  /\ stray \in SUBSET (Job \X Cmd)
  /\ undeleted \in SUBSET Dir

WorkerInit ==
  /\ Init
  /\ pc = [j \in Job |-> "queued"]
  /\ dir = [j \in Job |-> None]
  /\ tree = [d \in Dir |-> {}]
  /\ macrosUsable = [j \in Job |-> TRUE]
  /\ outcome = [j \in Job |-> "none"]
  /\ stray = {}
  /\ undeleted = {}

Goto(j, l) == pc' = [pc EXCEPT ![j] = l]

\* run() leaves its scope: the finally guard runs next.
Leave(j, o) ==
  /\ Goto(j, "cleanup")
  /\ outcome' = [outcome EXCEPT ![j] = o]

-----------------------------------------------------------------------------
(* Up to the arming of the guard.                                           *)

\* findGitExecutable() finds git and generateBuildId() draws an id, which
\* nothing compares with the ids in use.
DrawBuildId(j, d) ==
  /\ pc[j] = "queued"
  /\ Goto(j, "toplevel")
  /\ dir' = [dir EXCEPT ![j] = d]
  /\ UNCHANGED <<procVars, tree, macrosUsable, outcome, stray, undeleted>>

FindGitFails(j) ==
  /\ pc[j] = "queued"
  /\ Goto(j, "done")
  /\ outcome' = [outcome EXCEPT ![j] = "FAILED"]
  /\ UNCHANGED <<procVars, dir, tree, macrosUsable, stray, undeleted>>

\* initToplevelDirectory(): an existing directory is taken over as it is.
InitToplevelDirectory(j) ==
  /\ pc[j] = "toplevel"
  /\ Goto(j, "macros")
  /\ tree' = [tree EXCEPT ![dir[j]] = @ \cup {"top"}]
  /\ UNCHANGED <<procVars, dir, macrosUsable, outcome, stray, undeleted>>

\* create_directories() throws; only a directory that is not there is created.
InitToplevelFails(j) ==
  /\ pc[j] = "toplevel"
  /\ tree[dir[j]] = {}
  /\ Goto(j, "done")
  /\ outcome' = [outcome EXCEPT ![j] = "FAILED"]
  /\ UNCHANGED <<procVars, dir, tree, macrosUsable, stray, undeleted>>

-----------------------------------------------------------------------------
(* The stages that run no command.                                          *)

\* Mutated form: a failure before the guard is armed.
LoadMacroFileUnguarded(j) ==
  /\ pc[j] = "macros"
  /\ \/ /\ \E usable \in BOOLEAN : macrosUsable' = [macrosUsable EXCEPT ![j] = usable]
        /\ Goto(j, "clone")
        /\ UNCHANGED outcome
     \/ /\ Goto(j, "done")
        /\ outcome' = [outcome EXCEPT ![j] = "FAILED"]
        /\ UNCHANGED macrosUsable
  /\ UNCHANGED <<procVars, dir, tree, stray, undeleted>>

\* A missing file is a warning; a file with a key that get() takes for a path
\* loads, and makes every later replaceMacros() fail.
LoadMacroFile(j) ==
  /\ pc[j] = "macros"
  /\ \/ /\ \E usable \in BOOLEAN : macrosUsable' = [macrosUsable EXCEPT ![j] = usable]
        /\ Goto(j, "clone")
        /\ UNCHANGED outcome
     \/ /\ Leave(j, "FAILED")
        /\ UNCHANGED macrosUsable
  /\ UNCHANGED <<procVars, dir, tree, stray, undeleted>>

\* Mutated form: its result is not looked at.
CreateBinaryDirUnchecked(j) ==
  /\ pc[j] = "binaryDir"
  /\ Goto(j, "buildConfig")
  /\ \/ tree' = [tree EXCEPT ![dir[j]] = @ \cup {"top", "build"}]
     \/ UNCHANGED tree
  /\ UNCHANGED <<procVars, dir, macrosUsable, outcome, stray, undeleted>>

\* create_directories() makes the parents too, should they be gone.
CreateBinaryDir(j) ==
  /\ pc[j] = "binaryDir"
  /\ \/ /\ Goto(j, "buildConfig")
        /\ tree' = [tree EXCEPT ![dir[j]] = @ \cup {"top", "build"}]
        /\ UNCHANGED outcome
     \/ /\ "build" \notin tree[dir[j]]
        /\ Leave(j, "FAILED")
        /\ UNCHANGED tree
  /\ UNCHANGED <<procVars, dir, macrosUsable, stray, undeleted>>

LoadBuildConfig(j) ==
  /\ pc[j] = "buildConfig"
  /\ \/ "repo" \in tree[dir[j]] /\ Goto(j, "configure") /\ UNCHANGED outcome
     \/ Leave(j, "FAILED")
  /\ UNCHANGED <<procVars, dir, tree, macrosUsable, stray, undeleted>>

-----------------------------------------------------------------------------
(* The stages that run a command.                                           *)

\* Where run() goes when the command c is finished or skipped.
StageDone(j, c) ==
  \/ c = "clone" /\ Goto(j, "checkout") /\ UNCHANGED outcome
  \/ c = "checkout" /\ Goto(j, "binaryDir") /\ UNCHANGED outcome
  \/ c = "configure" /\ Goto(j, "build") /\ UNCHANGED outcome
  \/ c = "build" /\ Leave(j, "SUCCESSFUL")

\* configureSources() and build(): an empty command is skipped; before the
\* command is run, its key may be missing, its macros may not expand, or the
\* PATH lookup may fail.
SkipCommand(j) ==
  /\ pc[j] \in {"configure", "build"}
  /\ ReadyToExecute(j)
  /\ StageDone(j, pc[j]) \/ Leave(j, "FAILED")
  /\ UNCHANGED <<procVars, dir, tree, macrosUsable, stray, undeleted>>

\* set_cmd_line() throws escaped_list_error, which no handler of run() names.
CommandLineThrows(j) ==
  /\ pc[j] \in Cmd
  /\ ReadyToExecute(j)
  /\ pc[j] \in {"configure", "build"} => macrosUsable[j]
  /\ Leave(j, "threw")
  /\ UNCHANGED <<procVars, dir, tree, macrosUsable, stray, undeleted>>

ExecuteCommand(j) ==
  /\ pc[j] \in Cmd
  /\ pc[j] \in {"configure", "build"} => macrosUsable[j]
  /\ \/ ForkFails(j, pc[j])
     \/ \E p \in Pid : ForkChild(j, pc[j], p)
  /\ UNCHANGED workerVars

\* Mutated form: a timeout that forgets the child.
WaitForCommandOrGiveUp(j) ==
  /\ \/ WaitForExit(j)
     \/ /\ child[j] # None
        /\ child' = [child EXCEPT ![j] = None]
        /\ status' = [status EXCEPT ![j] = "threw"]
        /\ UNCHANGED <<state, owner, command, fate, faults>>
  /\ UNCHANGED workerVars

WaitForCommand(j) == WaitForExit(j) /\ UNCHANGED workerVars

\* Mutated form: "if (exit_code > 1)" instead of "if (exit_code != 0)".
JudgeCommandLoosely(j) ==
  /\ pc[j] \in Cmd
  /\ TakeStatus(j)
  /\ IF status[j] \in {"zero", "nonzero"} THEN StageDone(j, pc[j]) ELSE Leave(j, "FAILED")
  /\ UNCHANGED <<dir, tree, macrosUsable, stray, undeleted>>

\* Mutated form: the handler of system_error logs and does not return.
JudgeCommandDespiteThrow(j) ==
  /\ pc[j] \in Cmd
  /\ TakeStatus(j)
  /\ IF status[j] \in {"zero", "threw"} THEN StageDone(j, pc[j]) ELSE Leave(j, "FAILED")
  /\ UNCHANGED <<dir, tree, macrosUsable, stray, undeleted>>

\* exit_code != 0 and the system_error of wait_for_exit() end the pipeline.
JudgeCommand(j) ==
  /\ pc[j] \in Cmd
  /\ TakeStatus(j)
  /\ IF status[j] = "zero" THEN StageDone(j, pc[j]) ELSE Leave(j, "FAILED")
  /\ UNCHANGED <<dir, tree, macrosUsable, stray, undeleted>>

-----------------------------------------------------------------------------
(* finally_delete_toplevel_dir.                                             *)

RemoveToplevel(j) ==
  /\ pc[j] = "cleanup"
  /\ Goto(j, "done")
  /\ \/ /\ tree' = [tree EXCEPT ![dir[j]] = {}]
        /\ UNCHANGED undeleted
     \/ \E rest \in SUBSET tree[dir[j]] :       \* remove_all() throws midway
          /\ "top" \in rest
          /\ tree' = [tree EXCEPT ![dir[j]] = rest]
          /\ undeleted' = undeleted \cup {dir[j]}
  /\ UNCHANGED <<procVars, dir, macrosUsable, outcome, stray>>

-----------------------------------------------------------------------------
(* The commands.                                                            *)

\* What start_in_dir() makes each command change to; git clone is given an
\* absolute path and stays where the bot is.
StartDir(c) ==
  CASE c = "clone" -> "top" [] c = "checkout" -> "repo" [] OTHER -> "build"

\* on_exec_setup: a chdir() that fails is ignored and execve() follows.
CommandStarts(p) ==
  /\ ExecSucceeds(p)
  /\ LET j == owner[p]  c == command[owner[p]] IN
       stray' = IF c # "clone" /\ StartDir(c) \notin tree[dir[j]]
                THEN stray \cup {<<j, c>>} ELSE stray
  /\ UNCHANGED <<pc, dir, tree, macrosUsable, outcome, undeleted>>

\* git clone makes the directory and its parents, refuses one that is there,
\* and may leave part of it behind when it does not succeed.
CommandEnds(p) ==
  LET j == owner[p]
      clones == command[owner[p]] = "clone" /\ state[p] = "running"
                /\ "repo" \notin tree[dir[j]]
      cloned == [tree EXCEPT ![dir[j]] = @ \cup {"top", "repo"}]
  IN /\ \/ /\ Exits(p, "zero")
           /\ command[j] = "clone" => clones
           /\ tree' = IF clones THEN cloned ELSE tree
        \/ /\ ExecFails(p)
           /\ UNCHANGED tree
        \/ /\ Exits(p, "nonzero") \/ Killed(p)
           /\ UNCHANGED tree \/ (clones /\ tree' = cloned)
     /\ UNCHANGED <<pc, dir, macrosUsable, outcome, stray, undeleted>>

-----------------------------------------------------------------------------

RunStep(j) ==
  \/ \E d \in Dir : DrawBuildId(j, d)
  \/ FindGitFails(j)
  \/ InitToplevelDirectory(j)
  \/ InitToplevelFails(j)
  \/ LoadMacroFile(j)
  \/ ExecuteCommand(j)
  \/ CommandLineThrows(j)
  \/ WaitForCommand(j)
  \/ JudgeCommand(j)
  \/ CreateBinaryDir(j)
  \/ LoadBuildConfig(j)
  \/ SkipCommand(j)
  \/ RemoveToplevel(j)

RunCommand(p) == CommandStarts(p) \/ CommandEnds(p)

WorkerNext ==
  \/ \E j \in Job : RunStep(j)
  \/ \E p \in Pid : RunCommand(p)

WorkerSpec == WorkerInit /\ [][WorkerNext]_vars

\* Every pool thread is scheduled and every command ends (there is no timeout
\* in the code).  The job never starts by itself: the pool takes it up.
WorkerFairness ==
  /\ \A j \in Job : WF_vars(pc[j] # "queued" /\ RunStep(j))
  /\ \A p \in Pid : WF_vars(RunCommand(p))

FairWorkerSpec == WorkerSpec /\ WorkerFairness

-----------------------------------------------------------------------------
(* Properties.                                                              *)

Before(c) ==
  CASE c = "clone" -> {}
    [] c = "checkout" -> {"clone"}
    [] c = "configure" -> {"clone", "checkout"}
    [] OTHER -> {"clone", "checkout", "configure"}

\* The job's own child for c exited with zero, or c is a command that the
\* build settings leave empty.
Succeeded(j, c) ==
  fate[j][c] = "zero" \/ (c \in {"configure", "build"} /\ fate[j][c] = "none")

\* No other job has drawn the same toplevel directory.
Private(j) == \A k \in Job \ {j} : dir[k] # dir[j]

\* A command is only started when the job's own earlier commands have
\* succeeded: no checkout without a clone, no build of sources that failed to
\* configure.  Another job's exit status never carries a pipeline on, as long
\* as every fork succeeds and no process id is recycled under a waiting job.
StepsInOrder ==
  faults = {} =>
    \A p \in Pid : state[p] # "free" =>
      \A c \in Before(command[owner[p]]) : Succeeded(owner[p], c)

\* "All steps finished; build SUCCESSFUL!" is logged only for a job whose own
\* commands all succeeded, in its own tree, which is complete when the message
\* is logged; for a job that no fault and no shared build id has touched.
SuccessMeansBuilt ==
  \A j \in Job : outcome[j] = "SUCCESSFUL" /\ faults = {} /\ Private(j) =>
    /\ \A c \in Cmd : Succeeded(j, c) /\ <<j, c>> \notin stray
    /\ pc[j] = "cleanup" => tree[dir[j]] = {"top", "repo", "build"}

\* A command never runs outside its tree (in the bot's own working directory,
\* where the ignored chdir() failure leaves it), faults and shared ids aside.
CommandsStayInTree ==
  \A j \in Job, c \in Cmd : <<j, c>> \in stray => faults # {} \/ ~Private(j)

\* When a job deletes its tree, and ever after, no process of its own is left
\* that could still write there, whichever fault has happened.
NoProcessOutlivesJob ==
  \A p \in Pid : state[p] # "free" => pc[owner[p]] \in Cmd

\* A toplevel directory exists only while a job whose guard is armed owns it,
\* on every way out of run(), or when removing it failed.
NothingLeftBehind ==
  \A d \in Dir : tree[d] # {} =>
    d \in undeleted \/ \E j \in Job : dir[j] = d /\ pc[j] \in Armed

\* What the log claims, without the proviso: the violation run shows how a
\* failed fork makes a job report another job's success as its own.
SuccessIsOwn ==
  \A j \in Job : outcome[j] = "SUCCESSFUL" => \A c \in Cmd : Succeeded(j, c)

\* start_in_dir() "Sets the work directory": the violation run shows a command
\* that runs elsewhere because chdir() failed.
WorkDirectorySet == stray = {}

\* The pipeline keeps to the protocol of ChildProcess: every step of a worker
\* is a step of the child processes or leaves them alone.  A job never
\* executes a command while one of its own is unfinished or unjudged.
ChildProcessSpec == Spec

\* A job that the pool has taken up comes to an end, whatever fails, so its
\* pool thread is free for the next one.
EveryJobEnds == \A j \in Job : pc[j] # "queued" ~> pc[j] = "done"
=============================================================================
