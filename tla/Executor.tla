------------------------------ MODULE Executor ------------------------------
(***************************************************************************)
(* boost::process::execute() for posix: the executor, which calls back the *)
(* initializers of a sequence before and after fork(), in the parent and   *)
(* in the child, and the initializers themselves.  Several threads call it *)
(* in one process; what they share is the table of file descriptors.       *)
(*                                                                         *)
(* An initializer is a record whose field init names its class.  Of a      *)
(* descriptor only the object behind it counts, and of an error pipe only  *)
(* its two ends and whether something was written.                         *)
(***************************************************************************)
EXTENDS Integers, SequencesExt

CONSTANTS
  Thread,      (* the threads that call execute(), once each                *)
  MaxFd,       (* the process has the descriptors 0..MaxFd                  *)
  BotFiles,    (* what is open before the calls: a function on Fd           *)
  Calls,       (* what the threads may call execute() with: functions from  *)
               (* Thread to sequences of initializers                       *)
  None,        (* no file, no program, no arguments                         *)
  NoText       (* the empty text, as a name or an argument                  *)

Fd == 0..MaxFd
Reporters == {"set_on_error", "throw_on_error"}

Uses(s, classes) == \E i \in ToSet(s) : i.init \in classes

Initializer ==
  UNION {{s[t][n] : n \in DOMAIN s[t]} : s \in Calls, t \in Thread}

\* The process has its standard streams, no error pipe is open before the calls,
\* and None is no file; a sequence has at most one error initializer, and
\* set_args() and set_cmd_line() with at least one argument.
ASSUME ExecutorAssumption ==
  /\ MaxFd \in Nat
  /\ DOMAIN BotFiles = Fd /\ \A f \in 0..2 : BotFiles[f] # None
  /\ \A t \in Thread, end \in {"source", "sink"} :
       None # <<end, t>> /\ \A f \in Fd : BotFiles[f] # <<end, t>>
  /\ \A s \in Calls, t \in Thread :
       /\ s[t] \in Seq(Initializer)
       /\ \A m, n \in DOMAIN s[t] :
            s[t][m].init \in Reporters /\ s[t][n].init \in Reporters => m = n
       /\ \A n \in DOMAIN s[t] : "args" \in DOMAIN s[t][n] => s[t][n].args # <<>>

Binders == {"bind_fd", "bind_stdin", "bind_stdout", "bind_stderr"}

\* What is bound was opened before the calls, and None is no file that is bound,
\* no program and no arguments.
ASSUME InitializerAssumption ==
  \A i \in Initializer :
    /\ i.init \in Binders => i.fd \in Fd /\ BotFiles[i.fd] # None
    /\ i.init = "run_exe" => i.exe # None /\ <<i.exe>> # None
    /\ i.init \in {"set_args", "set_cmd_line"} => i.args # None /\ Head(i.args) # None

VARIABLES
  seq,       (* per thread: its sequence of initializers                    *)
  at,        (* per thread: the callback it is in, or how its call ended    *)
  todo,      (* per thread: the positions in seq whose callback is to come  *)
  step,      (* per thread: inside one callback, what is done of it         *)
  ec,        (* per thread: is the error_code of set_on_error set?          *)
  pipe,      (* per thread: fds_ of its error initializer                   *)
  env,       (* per thread: what env of the executor points to              *)
  files,     (* the process's descriptors                                   *)
  cloexec,   (* the descriptors of the process marked FD_CLOEXEC            *)
  prepared,  (* threads whose io_service was told fork_prepare and no more  *)
  kid,       (* per thread: its child                                       *)
  copy,      (* per thread: the child's copy of the process                 *)
  faults,    (* history, per thread: what has gone wrong with its call      *)
  window,    (* history: <<t, u>>: u forked between pipe() and fcntl() of t *)
  damaged    (* history: some descriptor was closed or marked by accident   *)

callVars == <<seq, at, todo, step, ec, pipe, env, prepared>>
tableVars == <<files, cloexec>>
historyVars == <<faults, window, damaged>>
kidVars == <<kid, copy>>
vars == <<callVars, tableVars, kidVars, historyVars>>

\* What the child is, its copy of ec, and whether it wrote into the pipe.
NoKid == [image |-> "none", ec |-> FALSE, wrote |-> FALSE]

\* What the child's initializers work on, from fork() to execve(): the
\* descriptors, and exe, cmd_line and env of the executor.
NoCopy == [files |-> [f \in Fd |-> None], cloexec |-> {},
           exe |-> None, args |-> None, env |-> None, dir |-> None]

\* The callbacks that each class overrides; those of initializer_base do
\* nothing, as do all of hide_console's.
Overrides ==
  [on_fork_setup |-> {"set_env", "inherit_env", "notify_io_service",
                      "set_on_error", "throw_on_error", "on_fork_setup"},
   on_fork_error |-> {"set_on_error", "throw_on_error", "on_fork_error"},
   on_fork_success |-> {"notify_io_service", "set_on_error", "throw_on_error",
                        "on_fork_success"}]

\* Where in s they stand.
Overriding(s, callback) == {n \in DOMAIN s : s[n].init \in Overrides[callback]}

Init ==
  /\ seq \in Calls
  /\ ec \in [Thread -> BOOLEAN]
  /\ \A t \in Thread : ec[t] => Uses(seq[t], {"set_on_error"})
  /\ at = [t \in Thread |-> "on_fork_setup"]
  /\ todo = [t \in Thread |-> Overriding(seq[t], "on_fork_setup")]
  /\ step = [t \in Thread |-> "begin"]
  /\ pipe = [t \in Thread |-> None]
  /\ env = [t \in Thread |-> None]
  /\ files = BotFiles /\ cloexec = {}
  /\ prepared = {}
  /\ kid = [t \in Thread |-> NoKid] /\ copy = [t \in Thread |-> NoCopy]
  /\ faults = [t \in Thread |-> IF ec[t] THEN {"stale_ec"} ELSE {}]
  /\ window = {} /\ damaged = FALSE

-----------------------------------------------------------------------------
(* The executor in the parent.                                              *)

Calling(t) == at[t] \in DOMAIN Overrides

Lowest(s) == CHOOSE f \in s : \A g \in s : f <= g

\* The initializer whose turn it is.
Current(t) == seq[t][Lowest(todo[t])]

\* Thread t is in the callback of one of the classes.
In(t, callback, classes) ==
  at[t] = callback /\ todo[t] # {} /\ Current(t).init \in classes

\* The callback is done: on to the next initializer.
Done(t) ==
  /\ todo' = [todo EXCEPT ![t] = @ \ {Lowest(@)}]
  /\ step' = [step EXCEPT ![t] = "begin"]
  /\ UNCHANGED at

\* An exception leaves execute(): no further initializer is called back.
Throw(t) ==
  /\ at' = [at EXCEPT ![t] = "threw"]
  /\ todo' = [todo EXCEPT ![t] = {}]
  /\ step' = [step EXCEPT ![t] = "begin"]

Enter(t, callback) ==
  /\ at' = [at EXCEPT ![t] = callback]
  /\ todo' = [todo EXCEPT ![t] = Overriding(seq[t], callback)]
  /\ UNCHANGED step

Fault(t, f) == faults' = [faults EXCEPT ![t] = @ \cup {f}]

InWindow(t) == step[t] = "piped"

\* fork(): the child gets a copy of the process as it is now.
ForkSucceeds(t) ==
  /\ at[t] = "on_fork_setup" /\ todo[t] = {}
  /\ Enter(t, "on_fork_success")
  /\ kid' = [kid EXCEPT ![t] = [NoKid EXCEPT !.image = "setup", !.ec = ec[t]]]
  /\ copy' = [copy EXCEPT ![t] =
                [NoCopy EXCEPT !.files = files, !.cloexec = cloexec, !.env = env[t]]]
  /\ window' = window \cup {<<u, t>> : u \in {u \in Thread : InWindow(u)}}
  /\ UNCHANGED <<seq, ec, pipe, env, prepared, tableVars, faults, damaged>>

ForkFails(t) ==
  /\ at[t] = "on_fork_setup" /\ todo[t] = {}
  /\ Enter(t, "on_fork_error")
  /\ UNCHANGED <<seq, ec, pipe, env, prepared, tableVars, kidVars, historyVars>>

\* After a failed fork on_fork_success is called all the same.
AfterForkError(t) ==
  /\ at[t] = "on_fork_error" /\ todo[t] = {}
  /\ Enter(t, "on_fork_success")
  /\ UNCHANGED <<seq, ec, pipe, env, prepared, tableVars, kidVars, historyVars>>

Return(t) ==
  /\ at[t] = "on_fork_success" /\ todo[t] = {}
  /\ at' = [at EXCEPT ![t] = "returned"]
  /\ UNCHANGED <<seq, todo, step, ec, pipe, env, prepared, tableVars, kidVars,
                 historyVars>>

\* The handler of on_fork_setup, on_fork_error or on_fork_success.
CallHandler(t) ==
  /\ In(t, at[t], {at[t]})
  /\ IF Current(t).throws THEN Throw(t) /\ Fault(t, "handler")
     ELSE Done(t) /\ UNCHANGED faults
  /\ UNCHANGED <<seq, ec, pipe, env, prepared, tableVars, kidVars, window, damaged>>

-----------------------------------------------------------------------------
(* The small initializers in the parent.                                    *)

SetEnv(t) ==
  /\ In(t, "on_fork_setup", {"set_env", "inherit_env"})
  /\ env' = [env EXCEPT ![t] = Current(t).env]
  /\ Done(t)
  /\ UNCHANGED <<seq, ec, pipe, prepared, tableVars, kidVars, historyVars>>

PrepareIoService(t) ==
  /\ In(t, "on_fork_setup", {"notify_io_service"})
  /\ prepared' = prepared \cup {t}
  /\ Done(t)
  /\ UNCHANGED <<seq, ec, pipe, env, tableVars, kidVars, historyVars>>

ResumeIoService(t) ==
  /\ In(t, "on_fork_success", {"notify_io_service"})
  /\ prepared' = prepared \ {t}
  /\ Done(t)
  /\ UNCHANGED <<seq, ec, pipe, env, tableVars, kidVars, historyVars>>

-----------------------------------------------------------------------------
(* set_on_error and throw_on_error in the parent.                           *)

Throws(t) == Current(t).init = "throw_on_error"

\* throw_on_error throws; set_on_error sets the error_code and goes on.
Report(t) ==
  IF Throws(t) THEN Throw(t) /\ UNCHANGED ec
  ELSE Done(t) /\ ec' = [ec EXCEPT ![t] = TRUE]

\* set_on_error does nothing more once its error_code is set.
Active(t) == Throws(t) \/ ~ec[t]

Open == {f \in Fd : files[f] # None}

Close(fs) ==
  /\ files' = [f \in Fd |-> IF f \in fs THEN None ELSE files[f]]
  /\ cloexec' = cloexec \ fs

\* pipe() gives the two lowest descriptors that are free.
CreatePipe(t) ==
  LET source == Lowest(Fd \ Open)
      sink == Lowest(Fd \ (Open \cup {source}))
  IN /\ In(t, "on_fork_setup", Reporters) /\ step[t] = "begin"
     /\ \E f, g \in Fd \ Open : f # g
     /\ pipe' = [pipe EXCEPT ![t] = [source |-> source, sink |-> sink]]
     /\ files' = [files EXCEPT ![source] = <<"source", t>>, ![sink] = <<"sink", t>>]
     /\ step' = [step EXCEPT ![t] = "piped"]
     /\ UNCHANGED <<seq, at, todo, ec, env, prepared, cloexec, kidVars, historyVars>>

\* throw_on_error throws.  set_on_error goes on to its fcntl(), with whatever
\* fds_ holds.
CreatePipeFails(t) ==
  /\ In(t, "on_fork_setup", Reporters) /\ step[t] = "begin"
  /\ IF Throws(t) THEN Throw(t) /\ UNCHANGED <<ec, faults>>
     ELSE /\ ec' = [ec EXCEPT ![t] = TRUE]
          /\ step' = [step EXCEPT ![t] = "garbage"]
          /\ Fault(t, "setup")
          /\ UNCHANGED <<at, todo>>
  /\ UNCHANGED <<seq, pipe, env, prepared, tableVars, kidVars, window, damaged>>

\* Two ints that were never written name no descriptor, or one that is open,
\* which is then marked, or closed when that fails: nothing is known after that.
UseGarbage(t) ==
  /\ step[t] = "garbage"
  /\ Done(t)
  /\ damaged' \in BOOLEAN
  /\ UNCHANGED <<seq, ec, pipe, env, prepared, tableVars, kidVars, faults, window>>

\* Mutated form: the source is marked.
MarkSource(t) ==
  /\ InWindow(t)
  /\ cloexec' = cloexec \cup {pipe[t].source}
  /\ Done(t)
  /\ UNCHANGED <<seq, ec, pipe, env, prepared, files, kidVars, historyVars>>

MarkSink(t) ==
  /\ InWindow(t)
  /\ cloexec' = cloexec \cup {pipe[t].sink}
  /\ Done(t)
  /\ UNCHANGED <<seq, ec, pipe, env, prepared, files, kidVars, historyVars>>

\* set_on_error sets its error_code, and lets the fork happen.
MarkSinkFails(t) ==
  /\ InWindow(t)
  /\ Close({pipe[t].source, pipe[t].sink})
  /\ Report(t)
  /\ IF Throws(t) THEN UNCHANGED faults ELSE Fault(t, "setup")
  /\ UNCHANGED <<seq, pipe, env, prepared, kidVars, window, damaged>>

ReportForkError(t) ==
  /\ In(t, "on_fork_error", Reporters)
  /\ IF Active(t) THEN Close({pipe[t].source, pipe[t].sink}) /\ Report(t)
     ELSE Done(t) /\ UNCHANGED <<tableVars, ec>>
  /\ UNCHANGED <<seq, pipe, env, prepared, kidVars, historyVars>>

\* Mutated form: the parent's own sink is closed after the read().
KeepSink(t) ==
  /\ In(t, "on_fork_success", Reporters) /\ step[t] = "begin"
  /\ IF Active(t)
     THEN step' = [step EXCEPT ![t] = "reading"] /\ UNCHANGED <<at, todo>>
     ELSE Done(t)
  /\ UNCHANGED <<seq, ec, pipe, env, prepared, tableVars, kidVars, historyVars>>

\* on_fork_success first closes its own sink.
CloseSink(t) ==
  /\ In(t, "on_fork_success", Reporters) /\ step[t] = "begin"
  /\ IF Active(t)
     THEN /\ Close({pipe[t].sink})
          /\ step' = [step EXCEPT ![t] = "reading"]
          /\ UNCHANGED <<at, todo>>
     ELSE Done(t) /\ UNCHANGED tableVars
  /\ UNCHANGED <<seq, ec, pipe, env, prepared, kidVars, historyVars>>

\* Who can still write to the pipe of t: the processes that hold its sink.
HoldsSink(u, t) == \E f \in Fd : copy[u].files[f] = <<"sink", t>>
EndOfFile(t) ==
  /\ \A f \in Fd : files[f] # <<"sink", t>>
  /\ \A u \in Thread : ~HoldsSink(u, t)

\* read() gets the error code of the child's execve().
ReadError(t) ==
  /\ step[t] = "reading"
  /\ kid[t].wrote
  /\ Close({pipe[t].source})
  /\ Report(t)
  /\ UNCHANGED <<seq, pipe, env, prepared, kidVars, historyVars>>

\* Mutated form: the source is not closed.
ReadNothingLeaky(t) ==
  /\ step[t] = "reading"
  /\ ~kid[t].wrote
  /\ EndOfFile(t) \/ files[pipe[t].source] # <<"source", t>>
  /\ Done(t)
  /\ UNCHANGED <<seq, ec, pipe, env, prepared, tableVars, kidVars, historyVars>>

\* read() gives 0 at the end of the file (or -1 if the descriptor is not the
\* pipe any more), which counts as success.
ReadNothing(t) ==
  /\ step[t] = "reading"
  /\ ~kid[t].wrote
  /\ EndOfFile(t) \/ files[pipe[t].source] # <<"source", t>>
  /\ Close({pipe[t].source})
  /\ Done(t)
  /\ UNCHANGED <<seq, ec, pipe, env, prepared, kidVars, historyVars>>

\* So does the -1 when a signal interrupts it: there is no second read().
ReadInterrupted(t) ==
  /\ step[t] = "reading" /\ ~kid[t].wrote
  /\ Fault(t, "interrupted")
  /\ Close({pipe[t].source})
  /\ Done(t)
  /\ UNCHANGED <<seq, ec, pipe, env, prepared, kidVars, window, damaged>>

-----------------------------------------------------------------------------
(* The initializers in the child: what on_exec_setup of i makes of it.      *)

\* dup2(): nothing happens when from is not open, or is the same.
DupFd(k, from, id) ==
  IF k.files[from] = None \/ from = id THEN k
  ELSE [k EXCEPT !.files[id] = k.files[from], !.cloexec = @ \ {id}]

CloseInKid(k, fs) ==
  [k EXCEPT !.files = [f \in Fd |-> IF f \in fs THEN None ELSE @[f]],
            !.cloexec = @ \ fs]

BindFd(k, i) == DupFd(k, i.fd, i.id)
BindStdin(k, i) == DupFd(k, i.fd, 0)
BindStdout(k, i) == DupFd(k, i.fd, 1)
BindStderr(k, i) == DupFd(k, i.fd, 2)
CloseFd(k, i) == CloseInKid(k, {i.fd})
CloseFds(k, i) == CloseInKid(k, i.fds)
CloseStdin(k) == CloseInKid(k, {0})
CloseStdout(k) == CloseInKid(k, {1})
CloseStderr(k) == CloseInKid(k, {2})

\* close_fds_if() only marks what its predicate picks: execve() closes it.
CloseFdsIf(k, i) == [k EXCEPT !.cloexec = @ \cup {f \in i.fds : k.files[f] # None}]

\* Mutated form: run_exe() sets cmd_line in any case.
RunExeAlways(k, i) == [k EXCEPT !.exe = i.exe, !.args = <<i.exe>>]

RunExe(k, i) ==
  [k EXCEPT !.exe = i.exe, !.args = IF @ = None THEN <<i.exe>> ELSE @]

\* The first argument names the program, if it is not empty.
SetArgs(k, i) ==
  [k EXCEPT !.args = i.args,
            !.exe = IF @ = None /\ Head(i.args) # NoText THEN Head(i.args) ELSE @]

SetCmdLine(k, i) == [k EXCEPT !.args = i.args]

\* chdir() may fail; nobody looks.
StartInDir(k, i) == [k EXCEPT !.dir = IF i.exists THEN i.dir ELSE @]

\* In the child, too, set_on_error does nothing once its error_code is set.
Reports(t) == Uses(seq[t], {"throw_on_error"}) \/ (Uses(seq[t], {"set_on_error"}) /\ ~kid[t].ec)

CloseSource(k, t) == IF Reports(t) THEN CloseInKid(k, {pipe[t].source}) ELSE k

\* on_exec_setup of i.  notify_io_service tells the child's copy of the io_service
\* fork_child, and a handler does what it likes: neither is part of k.
SetUp(k, i, t) ==
  CASE i.init = "bind_fd"         -> BindFd(k, i)
    [] i.init = "bind_stdin"      -> BindStdin(k, i)
    [] i.init = "bind_stdout"     -> BindStdout(k, i)
    [] i.init = "bind_stderr"     -> BindStderr(k, i)
    [] i.init = "close_fd"        -> CloseFd(k, i)
    [] i.init = "close_fds"       -> CloseFds(k, i)
    [] i.init = "close_fds_if"    -> CloseFdsIf(k, i)
    [] i.init = "close_stdin"     -> CloseStdin(k)
    [] i.init = "close_stdout"    -> CloseStdout(k)
    [] i.init = "close_stderr"    -> CloseStderr(k)
    [] i.init = "run_exe"         -> RunExe(k, i)
    [] i.init = "set_args"        -> SetArgs(k, i)
    [] i.init = "set_cmd_line"    -> SetCmdLine(k, i)
    [] i.init = "start_in_dir"    -> StartInDir(k, i)
    [] i.init \in Reporters       -> CloseSource(k, t)
    [] i.init \in {"notify_io_service", "on_exec_setup"} -> k
    [] OTHER                      -> k

\* Mutated form: the sink is closed before the error code is written.
WritesAfterClose(t) == CloseInKid(copy[t], {pipe[t].sink}).files[pipe[t].sink] # None

\* on_exec_error: the error code goes into the pipe, if the sink still is one.
WritesError(t) == copy[t].files[pipe[t].sink] = <<"sink", t>>

-----------------------------------------------------------------------------
(* The child.                                                               *)

KidOnly == <<callVars, tableVars, window, damaged>>

\* The initializers that are called back, up to a handler that throws.
Called(t, callback) ==
  LET throwing == {n \in DOMAIN seq[t] : seq[t][n].init = callback /\ seq[t][n].throws}
  IN IF throwing = {} THEN seq[t] ELSE SubSeq(seq[t], 1, Lowest(throwing) - 1)

\* An exception in the child leaves execute() there: a copy of the process
\* goes on in the caller's code.
Astray(t, callback) == Called(t, callback) # seq[t]

\* The child after the first n callbacks of on_exec_setup.
SetUpBy(t) ==
  LET after[n \in 0..Len(seq[t])] ==
        IF n = 0 THEN copy[t] ELSE SetUp(after[n - 1], seq[t][n], t)
  IN after

Configured(t) == SetUpBy(t)[Len(Called(t, "on_exec_setup"))]

\* One of the initializers may close the sink, or bind its number.
OnExecSetup(t) ==
  /\ kid[t].image = "setup"
  /\ copy' = [copy EXCEPT ![t] = Configured(t)]
  /\ IF Astray(t, "on_exec_setup")
     THEN /\ kid' = [kid EXCEPT ![t].image = "stray"]
          /\ Fault(t, "stray")
     ELSE /\ kid' = [kid EXCEPT ![t].image = "ready"]
          /\ IF Reports(t) /\ copy'[t].files[pipe[t].sink] # <<"sink", t>>
             THEN Fault(t, "lost_sink") ELSE UNCHANGED faults
  /\ UNCHANGED KidOnly

\* execve() of the program closes what is marked; without a name there is none.
ExecveSucceeds(t) ==
  /\ kid[t].image = "ready" /\ copy[t].exe \notin {None, NoText}
  /\ kid' = [kid EXCEPT ![t].image = "running"]
  /\ copy' = [copy EXCEPT ![t] = CloseInKid(@, copy[t].cloexec)]
  /\ UNCHANGED <<KidOnly, faults>>

\* The child, or its program, exits with all its descriptors.
Exits(t, image) ==
  /\ kid' = [kid EXCEPT ![t].image = image]
  /\ copy' = [copy EXCEPT ![t] = CloseInKid(@, Fd)]

\* execve() fails, on_exec_error is called, and the child exits.
ExecveFails(t) ==
  LET reports == Uses(Called(t, "on_exec_error"), Reporters) /\ Reports(t)
      astray == Astray(t, "on_exec_error")
  IN /\ kid[t].image = "ready"
     /\ kid' = [kid EXCEPT ![t].image = IF astray THEN "stray" ELSE "failed",
                           ![t].wrote = reports /\ WritesError(t)]
     /\ copy' = [copy EXCEPT ![t] =
                   CloseInKid(@, IF ~astray THEN Fd
                                 ELSE IF reports THEN {pipe[t].sink} ELSE {})]
     /\ IF astray THEN Fault(t, "stray") ELSE UNCHANGED faults
     /\ UNCHANGED KidOnly

KidKilled(t) ==
  /\ kid[t].image \in {"setup", "ready"}
  /\ Exits(t, "failed")
  /\ Fault(t, "killed")
  /\ UNCHANGED KidOnly

ProgramEnds(t) ==
  /\ kid[t].image = "running"
  /\ Exits(t, "ended")
  /\ UNCHANGED <<KidOnly, faults>>

-----------------------------------------------------------------------------

SetsUpPipe(t) == CreatePipe(t) \/ CreatePipeFails(t) \/ UseGarbage(t)
                 \/ MarkSink(t) \/ MarkSinkFails(t)

ReadsPipe(t) == CloseSink(t) \/ ReadError(t) \/ ReadNothing(t)

CallStep(t) ==
  \/ CallHandler(t) \/ SetEnv(t) \/ PrepareIoService(t) \/ ResumeIoService(t)
  \/ SetsUpPipe(t) \/ ForkSucceeds(t) \/ ForkFails(t) \/ ReportForkError(t)
  \/ AfterForkError(t) \/ ReadsPipe(t) \/ Return(t)

KidStep(t) ==
  \/ OnExecSetup(t) \/ ExecveSucceeds(t) \/ ExecveFails(t) \/ KidKilled(t)
  \/ ProgramEnds(t)

Next ==
  /\ ~damaged
  /\ \E t \in Thread : CallStep(t) \/ ReadInterrupted(t) \/ KidStep(t)

Spec == Init /\ [][Next]_vars

\* The threads are scheduled, and every program ends; no signal need come.
Fairness == \A t \in Thread :
  WF_vars(~damaged /\ CallStep(t)) /\ WF_vars(~damaged /\ KidStep(t))

FairSpec == Spec /\ Fairness

-----------------------------------------------------------------------------
(* Properties.                                                              *)

Excused ==
  IF damaged THEN Thread
  ELSE {t \in Thread : faults[t] # {} \/ ~Uses(seq[t], Reporters)}

Outcome(t) ==
  CASE at[t] = "threw" -> "error"
    [] at[t] = "returned" -> IF ec[t] THEN "error" ELSE "child"
    [] OTHER -> "calling"

Promise == INSTANCE Execution WITH
  Caller <- Thread,
  call <- [t \in Thread |-> Outcome(t)],
  program <- [t \in Thread |-> IF kid[t].image \in {"running", "ended"}
                                THEN "started" ELSE "none"],
  excused <- Excused

\* A call with an error initializer gives a child only when the program runs,
\* and an error only when it never does.  The exceptions: an error_code that
\* was set before the call, a pipe() or fcntl() that failed in set_on_error, a
\* read() that a signal interrupted, a child killed before its execve(), an
\* initializer that closed the sink, and a handler that threw.
ExecutionPromised == Promise!ExecutionSpec

\* Where the initializers of t of these classes stand.
Places(t, classes) == {n \in DOMAIN seq[t] : seq[t][n].init \in classes}

Highest(s) == CHOOSE f \in s : \A g \in s : g <= f

\* The descriptors that i redirects, closes, or marks.
Touched(i) ==
  CASE i.init = "bind_fd"      -> {i.id} \ {i.fd}
    [] i.init = "bind_stdin"   -> {0} \ {i.fd}
    [] i.init = "bind_stdout"  -> {1} \ {i.fd}
    [] i.init = "bind_stderr"  -> {2} \ {i.fd}
    [] i.init = "close_fd"     -> {i.fd}
    [] i.init \in {"close_fds", "close_fds_if"} -> i.fds
    [] i.init = "close_stdin"  -> {0}
    [] i.init = "close_stdout" -> {1}
    [] i.init = "close_stderr" -> {2}
    [] OTHER                   -> {}

Touching(t, f) == {n \in DOMAIN seq[t] : f \in Touched(seq[t][n])}

\* The ends of error pipes that the program of t may come by: those of the other
\* calls, and its own source if the error_code was set before.
Inherited(t) ==
  {<<end, u>> : end \in {"source", "sink"}, u \in Thread \ {t}} \cup
  {<<"source", u>> : u \in {u \in {t} : "stale_ec" \in faults[u]}}

\* After the place n, the child of t closes the source of its own pipe, which
\* has the number f.
ClosesSource(t, f, n) ==
  Reports(t) /\ pipe[t].source = f /\ \E m \in Places(t, Reporters) : n < m

\* The last initializer that touches the descriptor f decides what the program
\* has there: bound to it, unless touched before, is a file of the bot.  If none
\* does, it is what the bot has; where the bot has nothing, an inherited end.
FileAsConfigured(t, f) ==
  LET last == Highest(Touching(t, f))  i == seq[t][last]  file == copy[t].files[f] IN
  IF Touching(t, f) = {}
  THEN file = BotFiles[f] \/ (BotFiles[f] = None /\ file \in Inherited(t))
  ELSE IF i.init \notin Binders THEN file = None
  ELSE (\A n \in Touching(t, i.fd) : last < n) /\ ~ClosesSource(t, f, last) =>
         file = BotFiles[i.fd]

\* The set_args of t whose first argument is not empty.
Naming(t) == {n \in Places(t, {"set_args"}) : Head(seq[t][n].args) # NoText}

\* execve() is called with what the initializers say, wherever they stand in the
\* sequence: the last run_exe, or else the first set_args with a first argument
\* that is not empty, names the program; the last set_args or set_cmd_line gives
\* its arguments, or else the first run_exe does; the last environment counts;
\* and of the program that runs every descriptor is what was asked for.
ProgramAsConfigured ==
  \A t \in Thread : kid[t].image \in {"ready", "running"} /\ ~damaged =>
    LET exes == Places(t, {"run_exe"})
        lines == Places(t, {"set_args", "set_cmd_line"})
        envs == Places(t, {"set_env", "inherit_env"})
    IN /\ copy[t].exe = IF exes # {} THEN seq[t][Highest(exes)].exe
                        ELSE IF Naming(t) # {} THEN Head(seq[t][Lowest(Naming(t))].args)
                        ELSE None
       /\ copy[t].args = IF lines # {} THEN seq[t][Highest(lines)].args
                         ELSE IF exes # {} THEN <<seq[t][Lowest(exes)].exe>> ELSE None
       /\ copy[t].env = IF envs = {} THEN None ELSE seq[t][Highest(envs)].env
       /\ kid[t].image = "running" => \A f \in Fd : FileAsConfigured(t, f)

\* A call that is over has no end of its pipe open and has told the io_service
\* that the fork is done; unless ec was set before or a handler threw.  If the
\* call threw, with throw_on_error's own exception too, nobody told the io_service.
CallLeavesNothing ==
  \A t \in Thread :
    ~Calling(t) /\ faults[t] \cap {"stale_ec", "handler"} = {} /\ ~damaged =>
      /\ \A f \in Fd, end \in {"source", "sink"} : files[f] # <<end, t>>
      /\ t \in prepared => at[t] = "threw"

\* A program holds the sink of an error pipe, and keeps the thread that reads
\* it waiting until it ends, only if it was forked between pipe() and fcntl().
SinkLeaksInWindow ==
  \A t, u \in Thread :
    kid[u].image = "running" /\ HoldsSink(u, t) => <<t, u>> \in window \/ damaged

\* Every call returns or throws, if programs end, and no copy of the process
\* is left behind in a child.
EveryCallReturns ==
  \A t \in Thread :
    Calling(t) ~> (~Calling(t) \/ damaged \/ \E u \in Thread : kid[u].image = "stray")
=============================================================================
