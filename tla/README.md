# build-bot in TLA+

build-bot is a daemon that reads commands from a FIFO, builds git repositories on
a thread pool and restarts itself in place on request. It executes its commands
with a vendored boost::process, which also has parts the bot does not use. This
directory holds a TLA+ model of both, the TLC runs that check small instances,
and proofs (TLAPS) of the safety properties for every instance.

    tlc -config MCBot.cfg MCBot          # any run of PROJECT.json
    tlapm BotProofs.tla                  # any *Proofs module

## 1. Inventory

| Part | State it keeps | Operations | Interacts with |
|---|---|---|---|
| **main()** `src/src/main.cpp` | none | parse options, `init()`, `run()`, `execv()` of itself on `Restart` | Bot |
| **Bot** `src/src/bot.cpp` | settings, repositories, FIFO descriptor, `m_buffer`, the two atomic flags `m_stopRequested` and `m_restartAfterStop`, the thread pool | `init()`, `run()`, `read()`, `parse()`, `stop()`, destructor | main thread, io_service thread, pool threads; clients through the FIFO |
| **Worker** `src/src/worker.cpp` | repository, revision, macros, toplevel directory, current command | `run()`: find git, draw an id, make a directory, clone, checkout, configure, build, remove the directory | one per BUILD, each on a pool thread; child processes; the file system |
| **Child processes** `src/include/boost/process/posix/` (vendored) | a pid in a `child` object | `execute()` with the bot's initializers, `wait_for_exit()` | the kernel's process table, shared by all jobs |
| **posix executor** `posix/executor.hpp`, `posix/initializers/` | the executor's `exe`, `cmd_line`, `env`; the error pipe `fds_`; the caller's `error_code` | every callback of every initializer, in the parent and in the child | the process's descriptors, shared by all threads and copied by `fork()` |
| **Windows executor** `windows/` (never compiled into the bot) | the executor's fields; the handles of a `child` object | initializers, `CreateProcess()`, moves, `terminate()` | inherit flags and handles of the process |
| **Pure functions** | none | macro expansion, the BUILD regular expression, the command-line tokenizer, the PATH search, Windows command lines | Worker, Bot, executors |
| **Pipes, `terminate()`, `shell_path()`, front headers** | none | one system call each; platform selection and documentation | |
| **dsnutil** | thread pool, `finally` guard, singleton, logging | | a submodule whose files are not in the repository |
| **Build system, version** | none | | |

Hard behaviours:

* *Concurrency.* The main thread polls two flags every 100 ms while the io_service
  thread goes on handling commands; the pool threads fork and wait in one process.
  A fork between another thread's `pipe()` and its `fcntl(FD_CLOEXEC)` inherits a
  descriptor that it keeps over its `execve()`.
* *Shared tables.* `waitpid()` may reap any child of the process. `fork()` failing
  is not reported to the bot, so `waitpid(-1)` is really called. Process ids are
  recycled, and so are the lowest descriptors. Build ids are random and never
  compared.
* *Ordering.* FIFO reads end anywhere, also inside a line; the two flags are two
  stores; the order of the members decides what a queued closure may still read;
  the order of initializers decides which of them sees which descriptor.
* *Crash and restart.* `execv()` drops `m_buffer`, the pool and its queue, and keeps
  the FIFO descriptor, the directories of the builds and their running commands.
* *Partial failure.* Each system call between `pipe()` and `execve()` may fail, and
  each has its own way to tell, or not to tell, the caller.
* *No timeouts.* A hanging command holds its pool thread for ever.

What makes each part correct: a wait reports the caller's own child and forgets
none; `execute()` gives a child only for a program that started and an error only
for one that never does; a job runs its steps in order, inside its own tree,
reports success only for what it did, and leaves neither processes nor
directories; the bot handles every line once and in order, starts the builds in
that order, returns the exit code its commands ask for, and destroys nothing that
is in use; a handle is closed exactly once; a function on text gives what its
input was meant to say.

PROJECT.json lists the hazards line by line with the properties that cover them, or says
why none does.

## 2. Modules

| Module | Models | Kind |
|---|---|---|
| `ChildProcess` | `execute()` + `wait_for_exit()` over one process table | specification |
| `Worker` (EXTENDS `ChildProcess`) | `Worker::run()`, several at once | specification, refines `ChildProcess` |
| `BuildService` | what the bot promises those who send BUILD lines | abstract specification |
| `Bot` | `Bot`, `main()`, FIFO, pool | specification, refines `BuildService` |
| `BuildBot` (EXTENDS `Worker`, `BuildService`) | builds on the pool, over restarts | composition |
| `Execution` | what `execute()` promises its caller | abstract specification |
| `Executor` | the posix executor and all its initializers | specification, refines `Execution` |
| `WindowsProcess` | the Windows executor, its initializers, child objects | specification, refines `Execution` |
| `TextFunctions` | the functions on text | recursive functions and reference definitions |
| `MC*` | | instances for TLC |
| `*Proofs` | | proofs |

`BuildBot` is where the two halves meet: it takes from the bot only the promise that
`Bot` is shown to implement, and from the builds all of `Worker`. `ChildProcess` has
the executor as the bot calls it, without an error initializer; `Executor` has what
the library offers beyond that.

### ChildProcess

`state` and `owner` are the kernel's table, `child`, `command` and `status` what each
job holds (`child` object, `exit_code` or exception not yet looked at). `fate` and
`faults` are history: how the job's *own* process ended, and whether a fork failed
or a process id was handed out while a waiting job still held it.

* `ForkChild`, `ForkFails`: `executor::operator()`. No initializer of the bot reacts
  to `on_fork_error`, so a failed fork yields `child(-1)` (`NoPid`).
* `ExecSucceeds`, `ExecFails`: the child's side, `execve()` or `_exit(EXIT_FAILURE)`.
* `WaitReturns`, `WaitLoops`, `WaitThrows`: the three ways through the loop of
  `wait_for_exit()`. With `NoPid`, `WaitsFor` is every child of the process. A child
  killed by a signal is reaped and the loop waits again, for a pid that is free;
  if another job's fork got that pid meanwhile, it takes that job's status.
* `TakeStatus`: the caller's `if (exit_code != 0)` or `catch`.

`ChildProcess` is also the abstract specification that `Worker` implements: jobs
that execute, wait and look at the status, in that order, for ever.

### Worker

A job moves along `pc`. At a `pc` that is the name of a command, `ExecuteCommand`,
`WaitForCommand` and `JudgeCommand` are its three calls, `SkipCommand` and
`CommandLineThrows` its other ways out. `tree` is the disk: per toplevel directory,
which of the directory, the clone and the build directory exist. Every way out of
`run()` after the guard is armed goes through `RemoveToplevel` (the `finally` object),
an exception that no handler names (`escaped_list_error`) included. `CommandStarts`
records in `stray` that the `chdir()` of `start_in_dir` failed and was ignored.

Settings, macro files and the contents of repositories are choices, for example
`macrosUsable`. The text of commands is left to `TextFunctions`.

### Bot

`main` is the program counter of the main thread over `main()`, `init()`, `run()` and
the destructor; `reader` and `io` are the asynchronous read, its handler and the
io_service thread. Commands are numbered in the order written; `kind` is what
`parse()` makes of the line. `pipe`, `buffer` and `torn` are the lines in the kernel,
the whole lines in `m_buffer`, and whether it ends with a part of the next line:
`ReadChunk` may split the stream anywhere. `ParseRestart` and `RestartStops` are the
two stores of `stop(true)`, each a step of its own. `ExecSucceeds` is the `execv()`
of a restart: what was read is lost (`lost`), the rest of a torn line is a line that
means nothing, and the descriptor stays open.

`StartBuild`, `FinishBuild` and `DropQueue` model `dsn::ThreadPool` from its use; a
build takes time and ends (its inside is Worker's business). Whether the pool's
destructor runs or drops its queue, and whether the singleton is destroyed at all
(`EndProcess` may follow `exiting` directly), is left open.

### BuildService and BuildBot

`BuildService` says of each build whether it waits, runs, is over or was cut off:
builds start in the order of their lines, at most once, as many at a time as the
pool has threads; over stays over, and what was cut off is never taken up again.
No build is cut off and no line refused before the bot is `leaving`: before init() has
failed or run() has returned. `Bot` implements it with `waiting` the pool's queue, `cut`
the BUILD lines that were handled and are nowhere any more (`CutOffBuilds`), and
`leaving` the time when the exit code is known.

`BuildBot` puts Worker's pipelines on that pool. `QuitService` is the return of run(),
under which the pool goes on; `Restart` is `CutOff` of the
service together with the loss of everything a thread holds (`child`, `status`);
what the kernel and the disk hold stays: `state`, `owner`, `tree`. The commands of a
build that was cut off go on as children of the new image (*orphans*), where only a
`waitpid(-1)` can reap them, and its directory has lost its guard.

### Execution, Executor, WindowsProcess

`Execution` is `execute()` with an error initializer as its caller would like it.
Its variable `excused` holds the calls to which something has happened that the
promise does not cover; each implementation must name those (`Excused`).

`Executor` gives each thread a sequence `seq` of initializers, the callback `at` which
it is, the positions `todo` still to be called back, and the `step` inside a callback
that makes several system calls. `files` and `cloexec` are the process's descriptor
table; `kid` and `copy` are the child and its copy of table and executor. Of a
descriptor only the object behind it counts. `pipe()` takes the two lowest free
descriptors, so an initializer that closes or binds a number can hit the sink.
`CreatePipe`, `MarkSink`, `CloseSink`, `ReadError`, `ReadNothing` are the life of the
error pipe; `UseGarbage` is `set_on_error` going on after a failed `pipe()` with two
integers nobody has written, after which nothing is known if one of them was a
descriptor (`damaged`). `SetUp` has a case for every class with an `on_exec_setup`; what
`notify_io_service` and a handler do there touches neither the child's descriptors nor
its copy of the executor. `set_args` names the program only by a first argument that is
not empty (`NoText`). A handler that throws in the child leaves a second copy of the
process in the caller's code (`stray`).

The exceptions that `Excused` names: an `error_code` that was set before the call, a
`pipe()` or `fcntl()` that failed in `set_on_error`, a `read()` that a signal
interrupted, a child killed before its `execve()`, an initializer that closed the
sink, a handler that threw, and the table damaged.

`WindowsProcess` has `conf`, the fields of the executor that the initializers fill
in, `inheritable`, the inherit flags that no initializer takes back, `refused`, those
that `SetHandleInformation()` could not set and nobody asked about, and `object`,
what the handles of each child object are: those of a call's process,
`INVALID_HANDLE_VALUE` after a move, or `garbage` when `CreateProcess()` failed and
`execute()` returned a `child` made of what nobody had written. `Terminate` of a moved
object ends the calling process, because that value is its pseudo handle. A handler may
throw before `CreateProcess()` (`SetupHandlerThrows`) and after it has failed.

### TextFunctions

A text is a sequence of characters. `ReplaceMacros` (macros in the order of the file),
`MatchBuild` (the greedy groups of the BUILD expression), `PrepareCommand` with
`SetCmdLine` and `SearchPath` (a configured command is split at blanks, looked up, put
together again and split with quotes), the Windows `search_path()`, `SetArgs` and
`SetEnv` follow the code; the properties compare each with a reference definition that
says what the result means, for example `CommandLineToArgv`, which is how a Windows
program takes its command line apart again, at blanks and tabs. What goes as `const
char*` ends at its first NUL (`CString`): the message that `parse()` matches, and a
Windows command line.

## 3. Runs

| Run | Instance | Question |
|---|---|---|
| `child` | 3 jobs, 3 pids | Is a status the caller's own, is a child forgotten, does every wait return? |
| `worker_safety` | 2 jobs, 2 pids, 2 directories | Order, success, working directory, processes and directories left |
| `worker_liveness` | 2 jobs, 2 pids, 1 directory | Does the pipeline refine `ChildProcess`, does every build that is taken up end? |
| `worker_success_claim` | as `worker_safety` | violation, see section 4 |
| `worker_dir_claim` | as `worker_safety` | violation, see section 4 |
| `bot_safety` | 4 commands, 2 descriptors, 2 pool threads | Order, exit code, destruction, the promise of `BuildService` |
| `bot_liveness` | 3 commands, 2 descriptors, 1 pool thread | Is every STOP and BUILD honoured? |
| `buildbot_safety` | 2 builds, 2 pids, 2 directories, 1 pool thread, 1 restart | What does a restart leave, and what can it do to the next build? |
| `buildbot_liveness` | same, 1 directory | Is every accepted build settled, with orphans about? |
| `executor` | 2 threads, 8 descriptors, 3 pairs of sequences | The promise of `execute()`, what a call leaves, which sinks leak, that it returns |
| `windows` | 2 calls, 3 child objects, 3 sequences | The promise of `execute()`, who owns a handle, a program's streams |
| `text` | every short text over the characters that matter | Each function against its reference definition |

*Bounds.* The faults of child processes need two jobs (one that loses its fork or holds
a stale pid, one that owns the child); the third job and pid of `child` let a wait
choose between two others' children. Two directories let build ids collide or differ.
Four commands allow a STOP and a RESTART around two others in one image, and a second
image that gets commands; `MaxFd` = 2 makes the second restart of the bot run out of
descriptors. One restart and two builds put a build next to what is left of an earlier
one; with one pool thread the second can only start after the first is over or cut off.
In `executor`, the eight descriptors 0..7 are the standard streams, one file and room
for two error pipes; the five sequences use every initializer with an effect (`bind_fd`
onto a number that an error pipe may have, a `set_args` with an empty first argument
before others), with the error initializer at the front, in the middle and at the end,
and the pairs put a call without one next to both kinds. The third object of `windows`
lets handles move in a chain. The texts of `text` have up to two or three characters or
four pieces, enough for a token inside a value, two adjacent delimiters, or a backslash
before a quote. The bounds are guards named by constants (`MaxSent`, `MaxFd`,
`PoolSize`, `MaxRestarts`); the proofs of section 5 are for all values. `CHECK_DEADLOCK
FALSE` stands only where the modelled system ends: jobs are done, the process is gone,
the calls are over. Symmetry is used for safety only.

*Provisos.* `OwnStatus`, `StepsInOrder`, `SuccessMeansBuilt` and `CommandsStayInTree`
hold while no fault has happened (`faults = {}`), the last two also only for a directory
that is not shared; the two violation runs show that the proviso on faults is needed.
`NoChildForgotten`, `NoProcessOutlivesJob`, `NothingLeftBehind`, `OrphansAreCut`,
`OrphansStay` and `LeftoversExplained` hold whatever fails. `CallLeavesNothing` excepts
an `error_code` set before and a handler that threw; and a call that threw, be it the
exception of `throw_on_error` itself, may leave the io_service in `fork_prepare`.
`ProgramAsConfigured` says of a descriptor that neither the bot nor an initializer has
opened that it is closed or an end of an error pipe, another call's or one that an
`error_code` set before has leaked. `StreamsAsAsked` excepts a handle whose inherit flag
could not be set; what a program inherits besides its streams is promised nowhere. The
properties on text name the inputs whose outcome the code leaves to chance: an `@` that
marks no reference (`OtherAt`) or a text between two references that is itself a macro's
name (`Clash`), further blanks anywhere but in the name of the repository or a NUL in a
BUILD line, a command whose name is empty or has a blank, a program that is not in PATH
(executed with an empty name) or whose path has a blank, quote or backslash, and on
Windows an argument that is empty, has a quote or a NUL, has a blank and ends in a
backslash, or has a tab and no blank (`set_args` quotes for a blank only), and an entry
of the environment that is empty or has a NUL.

*Fairness.* Threads that can go on are scheduled (weak fairness per job, per thread
of the bot, per pool thread, per thread in `execute()`). Children, programs and
builds end: the code has no timeout, so nothing weaker would do. A job is not fair
while it is queued; clients never are; a read is never forced to fail (`IoRuns`
leaves `ReadFails` out), no BUILD need come in, and no restart or signal.

A wait on `waitpid(-1)` may starve, since others can reap each of their children
first, so `EveryWaitReturns` excepts executions with a fault; `EveryJobEnds` needs no
such exception because the other jobs run out of commands. `StopHonoured` excepts a
line that a restart lost, a STOP that the image handled together with a RESTART (in
either order the RESTART wins, and no later image sees the STOP), and a FIFO that
failed: after an error `read()` never reads again, and the bot polls for ever.
`EveryCallReturns` excepts a damaged descriptor table and a child in which a handler
threw: that copy of the process may hold the sink for ever.

*Mutants.* Every property of a passing run is broken by a mutated form of the code
that stands next to the original definition and is marked "Mutated form".

## 4. Findings

* `SuccessIsOwn`: `execute()` does not report a failed `fork()`, and
  `wait_for_exit()` on the resulting `child(-1)` reaps another job's child. In the
  run a job whose command never started goes on over another job's exit status and
  logs "All steps finished; build SUCCESSFUL!".
* `WorkDirectorySet`: `start_in_dir`, documented as "Sets the work directory.",
  ignores a failing `chdir()`. In the run `git checkout` starts in the bot's own
  working directory, since the directory of the clone was never made.

Two more disagreements showed up while reading and have no run. `set_on_error`
"sets an error if a child process can't be created" (`initializers.hpp`): it never
clears one, and it can set one and create the process all the same; both are among
the named exceptions of `ExecutionPromised`. And
`windows/initializers/on_CreateProcess_success.hpp` defines
`on_CreateProcess_sucess`, so its handler is never called.

## 5. Proofs

All for arbitrary constants that satisfy the assumptions named in the modules:
`ChildAssumption` (the markers are not pids, jobs or commands), `WorkerAssumption`
(the four commands; `None` is no directory), `BotAssumption` (bounds are naturals,
at least one descriptor and one pool thread), `BuildServiceAssumption` and
`BuildBotAssumption` (builds are naturals in the order of their lines, and the jobs
of Worker), `ExecutorAssumption` (the standard streams are open and no error pipe is
before the calls; at most one error initializer in a sequence; a list of arguments is
not empty), `InitializerAssumption` (what is bound was opened before the calls: a caller
binds descriptors it owns, and nothing a call makes can be named in advance; `None`
is no program and no argument), `WindowsAssumption` (the markers are no calls), and
`TextAssumption` (the characters that the functions look for exist, tasks are made
of texts, a macro file has no key twice, which `read_ini()` refuses).

None of the provers can instantiate the library's induction theorems. What a loop or a
recursive function computes is proved by the least counterexample instead: the
natural numbers are well-founded under `<` (`WellFoundedInduction`), so a set of numbers
that is not empty has a least member (`LeastOf`), and a set that has 0 and with each
number the next one has all (`UpTo`). `Recursion` makes from that the function that a
recursive definition asks for, and `LoopUnique` says that the one `CHOOSE` picks is no
other.

**ChildProcessProofs.** `TypeCorrect`; `NoneForgotten`; `StatusIsOwn`.
`NoChildForgotten` is inductive with the types and with the owner of every process
in use being a job. `OwnStatus` needs `StatusInv`: without faults a job's pid is
either in use and its own, with the matching fate, or was reaped after a signal and
its fate is `killed`; a free pid that somebody still waits for is what "reuse" is
about.

**WorkerProofs.** `WorkerImplements` shows step by step that every worker step is a
step of `ChildProcess` or leaves its variables alone, so the three theorems above
carry over and are used in the rest: `WorkerTypeCorrect`; `NoneOutlivesJob` (a job
holds a child only at a command's `pc`, and `NoneForgotten` links processes to
children); `LeavesNothing`; `InOrder`, `SuccessIsReal`, `StayInTree`. The last three
rest on two invariants: `OInv`, which gives for each `pc` the commands that have
succeeded, and `TInv`, which says for a private directory without a fault what the tree
contains. `OInv` is stated of a set of jobs, and its lemmas ask no more of a state
than `StageInv` and that the jobs of the set hold their processes, so that `BuildBot`
can use them for the builds that no restart has cut off.

**BotProofs.** All five invariants of `bot_safety`:

* `Threads` ties the io_service thread to the polling loop up to the join, and the
  handlers to that thread: `NoLateHandler`, and from it `NoBuildAfterFree`, because
  only a handler can fill the pool's queue.
* `TypeInv` adds to the types that a due handler finds a line in `m_buffer`, that a
  torn line has its rest in the pipe, and that an open FIFO is counted:
  `BotTypeCorrect`.
* `ExitInv` says that the flags follow the commands handled by this image, except
  for a RESTART whose handler has not stored its flag yet; run() looks at the flags
  after the join, when there is none: `HonestExit`.
* `Parts` splits `FifoOrder` into the order within and between the handled lines,
  `m_buffer` and the pipe: `InFifoOrder`.

`BotServes`: the bot implements `BuildService`. `ServiceInv` says where the builds of
handled BUILD lines are and that the queue holds them in order; `Accept` needs `Parts`,
that the line just parsed comes after every line parsed before, and each other step of
the pool, of `execv()` and of the end of the process is matched with a step of the
service. `Serving` ties the exit code to the main thread, so that what drops a build
comes after the return of run() or a failed init().

**BuildBotProofs.** `BuildBotServes`, `BuildBotTypeCorrect`, `OnlyRestartOrphans`,
`OnlyFailedForkReaps`, `OnlyCutOffLeftovers`. The invariant `BInv` places every build
in one of waiting, running, over and cut (`Placed`), ties processes to the child
objects of running builds or to builds cut off (`Processes`, `AtWork`), and
directories to the builds that have drawn them (`Drawn`).

`InOrderAcrossRestarts`, `SuccessAcrossRestarts`, `StayInTreeAcrossRestarts`: the three
properties of a worker, with the orphans of earlier images about. `WInv` of `Worker`
is false after a restart (a process may be in use that no child object refers to), so
`OrderInv` replaces it by `BInv` and keeps `OInv` for the builds not cut off. `BInv`
has for this that the process in a child object is no orphan's (`NotOrphans`): a
restart leaves a build nothing that a later image could mistake for its own.

**ExecutionProofs.** `Honest`: whoever relies on `Execution` and is not excused may
take a child as a started program and an error as one that never starts.

**ExecutorProofs.** `CallsHonour` (the posix executor implements `Execution`) and
`LeavesNothing`. The first invariant has, besides the types, three parts per thread:
`Stage`, which callbacks may still be to come at each point of the call; `Ends`,
that `fds_` are the two ends of the thread's own open pipe while it has not reported
an error; `Told`, what a call that is not excused knows of its child: it has written
exactly if its `execve()` failed, and `read()` gives the end of the file only once no
process holds the sink, hence after the child has become the program. The lemmas on
`Apart` show that no step of another thread takes any of it away, because the
descriptors that one thread closes are its own. The second invariant follows the
ends of the pipe (`Held`) and the io_service (`Notified`) to the end of a call.

`ProgramsAreAsConfigured` and `SinksLeakInWindowOnly` have a third, `Made`, as long as
the table is not damaged. `Table`: the descriptors the caller opened stay what they
were, and a sink is marked unless its thread is between `pipe()` and `fcntl()`.
`EnvSet`: which environment the callbacks called so far have set. `Gone`: a handler that
threw has ended the call. `KidMade`: the child is what its initializers make of the copy
that `fork()` gave it. That is where the loop over the initializers is looked into:
`MadeBy(k, u, n)` says what the first n have made, `OneMore` that the next one makes the
same of n + 1, and `AllOfThem` puts them together. `SourceLeft` follows the source of
the call's own pipe to the initializer that closes it, from where the second invariant
says it is open. A sink that a program holds came with its `fork()` unmarked, hence from
the window, because `execve()` closes the others.

**WindowsProcessProofs.** `OneOwner`: `HandlesOwnedOnce` is inductive with
`Tracked`, where a process and its handle are while its call goes on, as long as no
foreign handle was used. `CallsHonour`: with `Reported`, that in an error the error
initializer is still to be called as long as the `error_code` is not set.
`StandardStreams`: while a call is set up, some number k of its initializers have been
called, `todo` is the rest of the sequence, and the streams are what the first k say
(`Configured`); a handle once made inheritable stays so, and one that could not be made
so is `refused`.

**TextProofs.** All five properties of `TextFunctions`, for texts of any length over
any characters, macro files and argument lists of any length:

* `SearchOnWindows`: the candidates are rows of four extensions, and the first member of
  a concatenation of rows is in the first row that has one.
* `BuildLines`: three separators cut the line in four groups that give it again
  (`GroupsJoin`); those of the fields written are separators too, and no others are
  greedier if the last three fields have no blank. The line that is matched is the one
  written if no field has a NUL (`JoinedHasNoNul`).
* `TextOnWindows`: `CommandLineToArgv` and `split()` are followed over each argument
  and entry: `ReadArgument` says that a reader that is outside a word makes of the text
  of one argument that argument, and is outside a word again. The line has a NUL only
  if an argument has one (`ArgumentIs`, `PartsHaveNot`), so that it is read to its end.
* `CommandsAsConfigured`: the same for `set_cmd_line()`, a word as it is or in quotes
  (`WordSpelled`); the words of a line (`WordsOfCommand`) then depend on where the name
  ends (`NameOfLine`) and on what takes its place (`NameReplaced`).
* `MacrosExpanded`: `replace_all()` goes over a concatenation of parts; if the token
  stands nowhere but where it is a part, it exchanges parts and nothing else
  (`PartsReplaced`). In a text of parts that have no sign or are tokens, a token can
  otherwise only begin with the last sign of one token and end with the first sign of
  the next, with its name between (`TokensApart`); that is `Clash` (`BetweenTokens`),
  since what stands between without a sign stays to the end. One round per macro
  (`RoundDone`) then gives the expansion.

The proof attempts changed the model. `SetCmdLine` had a CASE whose branches overlapped
for an escaped blank. `MacrosReplaced` said nothing of a reference that no macro
answers: it stays as it is written (TLC has such references now). The property on `argv`
had to except a path with a character that `set_cmd_line()` takes for another, and that
on the environment a NUL in an entry. `ReplaceEach` is written as the loop over the text
that it stands for.

**Model-checked only.**

* Liveness (`EveryWaitReturns`, `EveryJobEnds`, `StopHonoured`, `BuildHonoured`,
  `EveryBuildSettled`, `EveryCallReturns`): neither fairness nor ENABLED is within the
  prover's reach.
* `SuccessIsOwn` and `WorkDirectorySet`, which the two violation runs refute.

Every invariant that a passing run checks is also the statement of a theorem.

## 6. Not modelled

* Logging, including the log filters that keep a reference to a member of the bot.
* dsnutil beyond what the bot relies on: its files are not in the repository. Pool,
  guard and singleton are external definitions, with every outcome their use leaves
  open.
* Pipes, `terminate()` on posix and `shell_path()`: one system call each, whose error
  becomes an exception or an `error_code`; no state of their own, and the bot calls
  none of them. `wait_for_exit()` on Windows changes no state.
* The front headers of boost::process (platform selection, documentation), the build
  system and the generated version.
* *Parts of `init()`*: one action with two outcomes; nothing of it is concurrent.
* Parent directories of toplevel directories that stay behind; a path at
  `fifo.name` that exists and is no FIFO; a relative build directory; an unset
  `PATH`; lines that clients write interleaved with each other (longer than
  PIPE_BUF); exceptions of the regular expression engine and of memory.
* What becomes of the orphans after the end of the bot.
