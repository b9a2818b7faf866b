---------------------------- MODULE ChildProcess ----------------------------
(***************************************************************************)
(* Child processes as the build jobs use them: boost::process::execute     *)
(* (the posix executor, with neither throw_on_error nor set_on_error among *)
(* its initializers) followed by boost::process::wait_for_exit.            *)
(*                                                                         *)
(* Every job runs on a thread of its own in ONE process, so the kernel's   *)
(* table of children is shared: waitpid() may reap any child of the        *)
(* process, whichever thread forked it.  A failed fork() is not reported   *)
(* by the executor; it returns child(-1), and waitpid(-1) waits for any    *)
(* child.  A child that dies of a signal is reaped by the waiting loop,    *)
(* which then calls waitpid() again with a process id that is free.        *)
(***************************************************************************)
EXTENDS FiniteSets

CONSTANTS
  Job,      (* the jobs, each on a thread of the process                    *)
  Cmd,      (* the commands a job may run                                   *)
  Pid,      (* the process ids the kernel hands out                         *)
  NoPid,    (* the -1 of a failed fork, kept in the child object            *)
  None      (* no child object, no command, no owner                        *)

ASSUME ChildAssumption ==
  /\ NoPid \notin Pid
  /\ None \notin Pid \cup {NoPid}
  /\ None \notin Job /\ None \notin Cmd

VARIABLES
  state,    (* per process id: free, setup (forked, before execve), running,*)
            (* or a zombie: zero, nonzero, killed                           *)
  owner,    (* per process id: the job that forked it, None while it is free*)
  child,    (* per job: the pid in its child object                         *)
  command,  (* per job: the command of its last execute()                   *)
  status,   (* per job: what wait_for_exit() gave and the job has not       *)
            (* looked at yet: none, zero, nonzero, threw                    *)
  fate,     (* history, per job and command: how that job's OWN child for   *)
            (* the command's last run ended: none, zero, nonzero, killed    *)
  faults    (* history: {"fork"}: a fork failed; {"reuse"}: a process id    *)
            (* was handed out while another job still held it               *)

procVars == <<state, owner, child, command, status, fate, faults>>

Zombie == {"zero", "nonzero", "killed"}

TypeOK ==
  /\ state \in [Pid -> {"free", "setup", "running"} \cup Zombie]
  /\ owner \in [Pid -> Job \cup {None}]
  /\ child \in [Job -> Pid \cup {NoPid, None}]
  /\ command \in [Job -> Cmd \cup {None}]
  /\ status \in [Job -> {"none", "zero", "nonzero", "threw"}]
  /\ fate \in [Job -> [Cmd -> {"none"} \cup Zombie]]
  /\ faults \in SUBSET {"fork", "reuse"}

Init ==
  /\ state = [p \in Pid |-> "free"]
  /\ owner = [p \in Pid |-> None]
  /\ child = [j \in Job |-> None]
  /\ command = [j \in Job |-> None]
  /\ status = [j \in Job |-> "none"]
  /\ fate = [j \in Job |-> [c \in Cmd |-> "none"]]
  /\ faults = {}

-----------------------------------------------------------------------------
(* execute(): the two outcomes of fork().                                   *)

ReadyToExecute(j) == child[j] = None /\ status[j] = "none"

\* fork() succeeds and the parent gets child(p).
ForkChild(j, c, p) ==
  /\ ReadyToExecute(j)
  /\ state[p] = "free"
  /\ state' = [state EXCEPT ![p] = "setup"]
  /\ owner' = [owner EXCEPT ![p] = j]
  /\ child' = [child EXCEPT ![j] = p]
  /\ command' = [command EXCEPT ![j] = c]
  /\ fate' = [fate EXCEPT ![j][c] = "none"]
  /\ faults' = IF \E k \in Job \ {j} : child[k] = p
               THEN faults \cup {"reuse"} ELSE faults
  /\ UNCHANGED status

\* fork() fails: no initializer reacts to on_fork_error, the executor falls
\* through to on_fork_success and returns child(-1).
ForkFails(j, c) ==
  /\ ReadyToExecute(j)
  /\ child' = [child EXCEPT ![j] = NoPid]
  /\ command' = [command EXCEPT ![j] = c]
  /\ fate' = [fate EXCEPT ![j][c] = "none"]
  /\ faults' = faults \cup {"fork"}
  /\ UNCHANGED <<state, owner, status>>

-----------------------------------------------------------------------------
(* The child.                                                               *)

\* A child ends as the zombie z; its own job's history records how.
Ends(p, z) ==
  /\ state' = [state EXCEPT ![p] = z]
  /\ fate' = [fate EXCEPT ![owner[p]][command[owner[p]]] = z]
  /\ UNCHANGED <<owner, child, command, status, faults>>

\* The child's side of the executor: on_exec_setup of every initializer, then
\* execve(); when that fails, _exit(EXIT_FAILURE).
ExecSucceeds(p) ==
  /\ state[p] = "setup"
  /\ state' = [state EXCEPT ![p] = "running"]
  /\ UNCHANGED <<owner, child, command, status, fate, faults>>

ExecFails(p) == state[p] = "setup" /\ Ends(p, "nonzero")

\* The program the child runs: it exits, or a signal kills the child.
Exits(p, z) == state[p] = "running" /\ z \in {"zero", "nonzero"} /\ Ends(p, z)

Killed(p) == state[p] \in {"setup", "running"} /\ Ends(p, "killed")

-----------------------------------------------------------------------------
(* wait_for_exit(): waitpid() until a child that exited, or an error.       *)

\* Mutated form: waitpid(-1) where waitpid(p.pid) is meant.
WaitsForAnyChild(j) == {p \in Pid : state[p] # "free"}

\* The children that waitpid() considers for the pid in j's child object.
WaitsFor(j) == IF child[j] = NoPid
               THEN {p \in Pid : state[p] # "free"}
               ELSE {p \in {child[j]} : p \in Pid /\ state[p] # "free"}

\* waitpid() takes the zombie p out of the process table.
Reaped(p) ==
  /\ state' = [state EXCEPT ![p] = "free"]
  /\ owner' = [owner EXCEPT ![p] = None]

\* Mutated form: the loop does not test WIFEXITED.
WaitReturnsAnyEnd(j, p) ==
  /\ child[j] # None
  /\ p \in WaitsFor(j)
  /\ state[p] \in Zombie
  /\ status' = [status EXCEPT ![j] = state[p]]
  /\ Reaped(p)
  /\ child' = [child EXCEPT ![j] = None]
  /\ UNCHANGED <<command, fate, faults>>

\* WIFEXITED: the loop ends and the status is returned.
WaitReturns(j, p) ==
  /\ child[j] # None
  /\ p \in WaitsFor(j)
  /\ state[p] \in {"zero", "nonzero"}
  /\ status' = [status EXCEPT ![j] = state[p]]
  /\ Reaped(p)
  /\ child' = [child EXCEPT ![j] = None]
  /\ UNCHANGED <<command, fate, faults>>

\* Not WIFEXITED: the child is reaped, and the loop calls waitpid() again.
WaitLoops(j, p) ==
  /\ child[j] # None
  /\ p \in WaitsFor(j)
  /\ state[p] = "killed"
  /\ Reaped(p)
  /\ UNCHANGED <<child, command, status, fate, faults>>

\* Mutated form: waitpid() interrupted by a signal (EINTR) is not retried.
WaitThrowsOnEintr(j) ==
  /\ child[j] # None
  /\ status' = [status EXCEPT ![j] = "threw"]
  /\ child' = [child EXCEPT ![j] = None]
  /\ UNCHANGED <<state, owner, command, fate, faults>>

\* Mutated form: the loop also repeats on ECHILD for a pid of its own.
WaitIgnoresEchild(j) ==
  /\ child[j] = NoPid
  /\ WaitsFor(j) = {}
  /\ status' = [status EXCEPT ![j] = "threw"]
  /\ child' = [child EXCEPT ![j] = None]
  /\ UNCHANGED <<state, owner, command, fate, faults>>

\* ECHILD: nothing to wait for, system_error is thrown.
WaitThrows(j) ==
  /\ child[j] # None
  /\ WaitsFor(j) = {}
  /\ status' = [status EXCEPT ![j] = "threw"]
  /\ child' = [child EXCEPT ![j] = None]
  /\ UNCHANGED <<state, owner, command, fate, faults>>

\* The caller looks at exit_code, or catches the exception.
TakeStatus(j) ==
  /\ status[j] # "none"
  /\ status' = [status EXCEPT ![j] = "none"]
  /\ UNCHANGED <<state, owner, child, command, fate, faults>>

-----------------------------------------------------------------------------
(* Jobs that run commands one after the other, for ever.                    *)

Fork(j) == \E c \in Cmd : ForkFails(j, c) \/ \E p \in Pid : ForkChild(j, c, p)

WaitForExit(j) ==
  \/ WaitThrows(j)
  \/ \E p \in Pid : WaitReturns(j, p) \/ WaitLoops(j, p)

RunsChild(p) ==
  \/ ExecSucceeds(p)
  \/ ExecFails(p)
  \/ \E z \in {"zero", "nonzero"} : Exits(p, z)
  \/ Killed(p)

Next ==
  \/ \E j \in Job : Fork(j) \/ WaitForExit(j) \/ TakeStatus(j)
  \/ \E p \in Pid : RunsChild(p)

Spec == Init /\ [][Next]_procVars

\* Threads that are not blocked are scheduled, and every child ends: the code
\* has no timeout, so without the latter a hung command hangs its job.
Fairness ==
  /\ \A j \in Job : WF_procVars(WaitForExit(j))
  /\ \A p \in Pid : WF_procVars(RunsChild(p))

FairSpec == Spec /\ Fairness

-----------------------------------------------------------------------------
(* Properties.                                                              *)

\* What wait_for_exit() reports is how the caller's own child ended (a child
\* that a signal killed is reported by the exception), as long as no fork
\* failed and no process id was recycled under a waiting job: the worker's
\* "exit_code != 0" tests then judge the command they meant to judge.
OwnStatus ==
  faults = {} =>
    \A j \in Job : status[j] # "none" =>
      fate[j][command[j]] = IF status[j] = "threw" THEN "killed" ELSE status[j]

\* No child is forgotten, whatever fails: each process that is alive or still
\* a zombie is the one its job is about to wait for.  A job never moves on
\* (to its next command, or to deleting its build directory) over a child of
\* its own, even when another job's waitpid(-1) takes the exit status away.
NoChildForgotten ==
  \A p \in Pid : state[p] # "free" => child[owner[p]] = p

\* Every wait_for_exit() returns or throws, as long as every child ends and
\* no fault has happened.  A wait on -1 may starve: the other jobs can reap
\* each of their children first.
EveryWaitReturns ==
  \A j \in Job : child[j] # None ~> child[j] = None \/ faults # {}
=============================================================================
