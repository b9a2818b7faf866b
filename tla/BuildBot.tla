------------------------------ MODULE BuildBot ------------------------------
(***************************************************************************)
(* The builds under the bot: the pipelines of Worker on the threads of the *)
(* pool, over an image of the program that execv() may replace at any time *)
(* once run() has returned (bot.cpp does not wait for its pool before a    *)
(* restart).  Of the bot, only the promise that Bot implements is left:    *)
(* BuildService.                                                           *)
(*                                                                         *)
(* A new image is the same process.  The threads are gone, with their      *)
(* child objects, statuses and finally guards; the toplevel directories    *)
(* stay, and so does the kernel's table of children: the commands of a     *)
(* build that was cut off go on as children of the new image.              *)
(***************************************************************************)
EXTENDS Worker, BuildService

CONSTANT
  MaxRestarts   (* bound: how often a new image takes over                  *)

\* A job is the build it runs.
ASSUME BuildBotAssumption == Build = Job /\ MaxRestarts \in Nat

VARIABLE
  restarts  (* the images so far that were replaced                         *)

botVars == <<vars, serviceVars, restarts>>

BuildBotTypeOK ==
  /\ WorkerTypeOK
  /\ waiting \in Seq(Job)
  /\ running \in SUBSET Job /\ over \in SUBSET Job /\ cut \in SUBSET Job
  /\ leaving \in BOOLEAN
  /\ restarts \in 0..MaxRestarts

BuildBotInit == WorkerInit /\ ServiceInit /\ restarts = 0

\* A BUILD line comes in; nobody has seen its job before.
AcceptBuild(j) == Accept(j) /\ UNCHANGED <<vars, restarts>>

\* A pool thread calls run(), goes through it, and is free again.
StartBuild == Start /\ UNCHANGED <<vars, restarts>>

\* The bot's run() returns; its pool goes on until the process is replaced.
QuitService == Quit /\ UNCHANGED <<vars, restarts>>

RunBuild(j) == j \in running /\ RunStep(j) /\ UNCHANGED <<serviceVars, restarts>>

\* Mutated form: the pool takes a build for finished that is not.
FinishBuildEarly(j) == Finish(j) /\ UNCHANGED <<vars, restarts>>

FinishBuild(j) == pc[j] = "done" /\ Finish(j) /\ UNCHANGED <<vars, restarts>>

\* execv() of the program over itself: no thread goes on, and no guard runs.
Restart ==
  /\ restarts < MaxRestarts
  /\ restarts' = restarts + 1
  /\ CutOff /\ leaving' = FALSE
  /\ child' = [j \in Job |-> None]
  /\ status' = [j \in Job |-> "none"]
  /\ UNCHANGED <<state, owner, command, fate, faults>>
  /\ UNCHANGED workerVars

\* The children are the process's own, whichever image forked them.
RunAnyCommand(p) == RunCommand(p) /\ UNCHANGED <<serviceVars, restarts>>

BuildBotNext ==
  \/ \E j \in Job : AcceptBuild(j) \/ RunBuild(j) \/ FinishBuild(j)
  \/ StartBuild \/ QuitService \/ Restart
  \/ \E p \in Pid : RunAnyCommand(p)

BuildBotSpec == BuildBotInit /\ [][BuildBotNext]_botVars

\* The pool's threads are scheduled, and every command ends.  No BUILD need
\* come in, and the bot need not be stopped or restarted.
BuildBotFairness ==
  /\ WF_botVars(StartBuild)
  /\ \A j \in Job : WF_botVars(RunBuild(j)) /\ WF_botVars(FinishBuild(j))
  /\ \A p \in Pid : WF_botVars(RunAnyCommand(p))

FairBuildBotSpec == BuildBotSpec /\ BuildBotFairness

-----------------------------------------------------------------------------
(* Properties; StepsInOrder, SuccessMeansBuilt and CommandsStayInTree of    *)
(* Worker hold on, with builds of an earlier image among the jobs.          *)

\* The only processes nobody waits for are those of builds that a restart cut
\* off; a build of the living image never ends over a command of its own.
OrphansAreCut ==
  \A p \in Pid : state[p] # "free" =>
    owner[p] \in cut \/ (child[owner[p]] = p /\ pc[owner[p]] \in Cmd)

\* A toplevel directory that belongs to no running build was left by a failed
\* removal or by a build that was cut off.
LeftoversExplained ==
  \A d \in Dir : tree[d] # {} =>
    \/ d \in undeleted
    \/ \E j \in Job : dir[j] = d /\ (j \in cut \/ (j \in running /\ pc[j] \in Armed))

\* The commands of a build that was cut off stay in the process table, as
\* zombies in the end: nobody waits for them.  Only the waitpid(-1) after a
\* failed fork can take one away, as the status of another build's command.
OrphansStay ==
  [][\A p \in Pid : state[p] # "free" /\ owner[p] \in cut /\ state'[p] = "free"
       => \E j \in running : child[j] = NoPid]_botVars

\* Every build that is accepted is over one day, or a restart cut it off: no
\* orphan of an earlier image keeps a build of this one, or its pool thread,
\* waiting for ever.
EveryBuildSettled ==
  \A j \in Job : j \in Accepted ~> j \in over \cup cut
=============================================================================
