-------------------------------- MODULE Bot ---------------------------------
(***************************************************************************)
(* The bot of src/bot.cpp and the main() of src/main.cpp: a main thread    *)
(* that polls two flags, an io_service thread that reads command lines     *)
(* from a FIFO, a thread pool that runs the builds, and execv() of the     *)
(* program over itself when a restart was asked for.                       *)
(*                                                                         *)
(* A command is a number, in the order in which the clients wrote them;    *)
(* kind says what its line means to parse().  A build is the number of its *)
(* BUILD command, and its run is Worker's business: here it just takes     *)
(* time.                                                                   *)
(***************************************************************************)
EXTENDS Integers, Sequences, FiniteSets

CONSTANTS
  MaxSent,     (* bound: the command lines the clients write                *)
  MaxFd,       (* the FIFO descriptors the process may hold                 *)
  PoolSize     (* threads of the pool                                       *)

ASSUME BotAssumption ==
  /\ MaxSent \in Nat
  /\ MaxFd \in Nat \ {0}
  /\ PoolSize \in Nat \ {0}

(* IGNORED: no match, or a BUILD of a repository that is not configured.    *)
Kind == {"STOP", "RESTART", "BUILD", "IGNORED"}

VARIABLES
  kind,              (* the lines written so far                            *)
  pipe,              (* lines the kernel still holds                        *)
  fds,               (* open descriptors of the FIFO, leaked ones included  *)
  main,              (* the main thread                                     *)
  exitCode,          (* what run() and main() return                        *)
  fifoOpen,          (* m_fifo.is_open()                                    *)
  buffer,            (* whole lines in m_buffer                             *)
  torn,              (* m_buffer ends with the first part of Head(pipe)     *)
  reader,            (* the asynchronous read and its handler               *)
  message,           (* the line that the handler parses, 0 for none        *)
  io,                (* the io_service thread                               *)
  ioStopped,         (* m_io.stop() was called                              *)
  stopRequested,     (* m_stopRequested                                     *)
  restartAfterStop,  (* m_restartAfterStop                                  *)
  queue,             (* builds enqueued in m_threadPool                     *)
  running,           (* builds its threads are running                      *)
  handled,           (* history: the lines taken out of m_buffer            *)
  base,              (* history: Len(handled) when this image started       *)
  lost,              (* history: lines that can no longer be handled whole  *)
  completed          (* history: builds that ran to their end               *)

clientVars == <<kind>>
kernelVars == <<pipe, fds>>
mainVars == <<main, exitCode, fifoOpen>>
readVars == <<buffer, torn, reader, message, io, ioStopped>>
flagVars == <<stopRequested, restartAfterStop>>
poolVars == <<queue, running>>
historyVars == <<handled, base, lost, completed>>
vars == <<clientVars, kernelVars, mainVars, readVars, flagVars, poolVars,
          historyVars>>

Sent == 1..Len(kind)
Lines(s) == {s[i] : i \in 1..Len(s)}

\* The handler is on the io_service thread's stack.
InHandler == reader \in {"parsing", "stopping", "parsed"}

TypeOK ==
  /\ kind \in Seq(Kind) /\ Len(kind) <= MaxSent
  /\ pipe \in Seq(1..MaxSent)
  /\ fds \in 0..MaxFd
  /\ main \in {"init", "ready", "polling", "stopping", "joining", "joined",
               "restarting", "exiting", "joiningPool", "freed", "ended"}
  /\ exitCode \in {"none", "Success", "Failure", "Restart"}
  /\ fifoOpen \in BOOLEAN
  /\ buffer \in Seq(1..MaxSent)
  /\ torn \in BOOLEAN
  /\ reader \in {"off", "armed", "ready", "parsing", "stopping", "parsed", "dead"}
  /\ message \in 0..MaxSent
  /\ io \in {"off", "running", "ended"}
  /\ ioStopped \in BOOLEAN
  /\ stopRequested \in BOOLEAN /\ restartAfterStop \in BOOLEAN
  /\ queue \in Seq(1..MaxSent)
  /\ running \in SUBSET (1..MaxSent)
  /\ handled \in Seq(1..MaxSent)
  /\ base \in Nat
  /\ lost \in SUBSET (1..MaxSent)
  /\ completed \in SUBSET (1..MaxSent)

Init ==
  /\ kind = <<>>
  /\ pipe = <<>> /\ fds = 0
  /\ main = "init" /\ exitCode = "none" /\ fifoOpen = FALSE
  /\ buffer = <<>> /\ torn = FALSE
  /\ reader = "off" /\ message = 0
  /\ io = "off" /\ ioStopped = FALSE
  /\ stopRequested = FALSE /\ restartAfterStop = FALSE
  /\ queue = <<>> /\ running = {}
  /\ handled = <<>> /\ base = 0 /\ lost = {} /\ completed = {}

-----------------------------------------------------------------------------
(* A client writes a line; its open() of the FIFO waits for a reader.       *)

Send(k) ==
  /\ fds > 0
  /\ Len(kind) < MaxSent
  /\ kind' = Append(kind, k)
  /\ pipe' = Append(pipe, Len(kind) + 1)
  /\ UNCHANGED <<fds, mainVars, readVars, flagVars, poolVars, historyVars>>

-----------------------------------------------------------------------------
(* The main thread: main(), Bot::init() and Bot::run().                     *)

\* init() succeeds; initFifo(), its last part, has opened the FIFO.
InitSucceeds ==
  /\ main = "init"
  /\ fds < MaxFd
  /\ main' = "ready"
  /\ fifoOpen' = TRUE
  /\ fds' = fds + 1
  /\ UNCHANGED <<clientVars, pipe, exitCode, readVars, flagVars, poolVars, historyVars>>

\* Some part of init() fails (open() must when no descriptor is left), and
\* main() returns EXIT_FAILURE.
InitFails ==
  /\ main = "init"
  /\ main' = "exiting"
  /\ exitCode' = "Failure"
  /\ UNCHANGED <<clientVars, kernelVars, fifoOpen, readVars, flagVars, poolVars, historyVars>>

\* run(): the first async_read_until(), and the io_service thread.
StartIo ==
  /\ main = "ready"
  /\ main' = "polling"
  /\ reader' = "armed"
  /\ io' = "running"
  /\ UNCHANGED <<clientVars, kernelVars, exitCode, fifoOpen, buffer, torn, message,
                 ioStopped, flagVars, poolVars, historyVars>>

\* The loop over m_stopRequested ends.
SeeStop ==
  /\ main = "polling"
  /\ stopRequested
  /\ main' = "stopping"
  /\ UNCHANGED <<clientVars, kernelVars, exitCode, fifoOpen, readVars, flagVars,
                 poolVars, historyVars>>

StopIo ==
  /\ main = "stopping"
  /\ main' = "joining"
  /\ ioStopped' = TRUE
  /\ UNCHANGED <<clientVars, kernelVars, exitCode, fifoOpen, buffer, torn, reader,
                 message, io, flagVars, poolVars, historyVars>>

\* Mutated form: the thread is detached instead of joined.
DetachIo ==
  /\ main = "joining"
  /\ main' = "joined"
  /\ UNCHANGED <<clientVars, kernelVars, exitCode, fifoOpen, readVars, flagVars,
                 poolVars, historyVars>>

JoinIo ==
  /\ main = "joining"
  /\ io = "ended"
  /\ main' = "joined"
  /\ UNCHANGED <<clientVars, kernelVars, exitCode, fifoOpen, readVars, flagVars,
                 poolVars, historyVars>>

\* run() returns.
ReturnExitCode ==
  /\ main = "joined"
  /\ \/ restartAfterStop /\ main' = "restarting" /\ exitCode' = "Restart"
     \/ ~restartAfterStop /\ main' = "exiting" /\ exitCode' = "Success"
  /\ UNCHANGED <<clientVars, kernelVars, fifoOpen, readVars, flagVars, poolVars,
                 historyVars>>

\* A new image of the program takes the place of this one: its threads, its
\* queue and m_buffer are gone; the descriptor stays open (no O_CLOEXEC), and
\* with it the pipe.  What was read of a torn line is lost, and its rest is
\* a line that means nothing.
ExecSucceeds ==
  LET remnant == IF torn THEN {Head(pipe)} ELSE {} IN
  /\ main = "restarting"
  /\ kind' = [m \in Sent |-> IF m \in remnant THEN "IGNORED" ELSE kind[m]]
  /\ main' = "init" /\ exitCode' = "none" /\ fifoOpen' = FALSE
  /\ buffer' = <<>> /\ torn' = FALSE
  /\ reader' = "off" /\ message' = 0
  /\ io' = "off" /\ ioStopped' = FALSE
  /\ stopRequested' = FALSE /\ restartAfterStop' = FALSE
  /\ queue' = <<>> /\ running' = {}
  /\ base' = Len(handled)
  /\ lost' = lost \cup Lines(buffer) \cup remnant
  /\ UNCHANGED <<kernelVars, handled, completed>>

ExecFails ==
  /\ main = "restarting"
  /\ main' = "exiting"
  /\ exitCode' = "Failure"
  /\ UNCHANGED <<clientVars, kernelVars, fifoOpen, readVars, flagVars, poolVars, historyVars>>

-----------------------------------------------------------------------------
(* main() returns: the Bot singleton is destroyed, or the process just ends *)
(* (which of the two is up to the external Singleton class).                *)

\* Mutated form: no is_open() before close().
CloseFifoAlways ==
  /\ main = "exiting"
  /\ main' = "joiningPool"
  /\ fifoOpen' = FALSE
  /\ fds' = fds - 1
  /\ UNCHANGED <<clientVars, pipe, exitCode, readVars, flagVars, poolVars, historyVars>>

\* The body of ~Bot().
CloseFifo ==
  /\ main = "exiting"
  /\ main' = "joiningPool"
  /\ fifoOpen' = FALSE
  /\ fds' = IF fifoOpen THEN fds - 1 ELSE fds
  /\ UNCHANGED <<clientVars, pipe, exitCode, readVars, flagVars, poolVars, historyVars>>

\* Mutated form: m_threadPool declared before m_buildDirectory.
FreeMembersFirst ==
  /\ main = "joiningPool"
  /\ main' = "freed"
  /\ UNCHANGED <<clientVars, kernelVars, exitCode, fifoOpen, readVars, flagVars,
                 poolVars, historyVars>>

\* m_threadPool, the last member, is destroyed first: its destructor joins
\* the threads.  Then the other members go, m_buildDirectory among them.
DestroyPool ==
  /\ main = "joiningPool"
  /\ queue = <<>> /\ running = {}
  /\ main' = "freed"
  /\ UNCHANGED <<clientVars, kernelVars, exitCode, fifoOpen, readVars, flagVars,
                 poolVars, historyVars>>

\* The process is gone, and with the last descriptor the lines in the pipe.
EndProcess ==
  /\ main \in {"exiting", "freed"}
  /\ main' = "ended"
  /\ fds' = 0 /\ fifoOpen' = FALSE
  /\ pipe' = <<>> /\ buffer' = <<>> /\ torn' = FALSE
  /\ queue' = <<>> /\ running' = {}
  /\ lost' = lost \cup Lines(buffer) \cup Lines(pipe)
  /\ UNCHANGED <<clientVars, exitCode, reader, message, io, ioStopped, flagVars,
                 handled, base, completed>>

-----------------------------------------------------------------------------
(* The io_service thread: async_read_until() and Bot::read().               *)

\* Mutated form: a buffer of its own for every read.
ReadIntoFreshBuffer(n, split) ==
  /\ reader = "armed" /\ io # "ended"
  /\ n \in 0..Len(pipe) /\ split \in BOOLEAN
  /\ split => n < Len(pipe)
  /\ n > 0 \/ (split /\ ~torn)
  /\ pipe' = SubSeq(pipe, n + 1, Len(pipe))
  /\ buffer' = SubSeq(pipe, 1, IF n = 0 THEN 0 ELSE 1)
  /\ torn' = split
  /\ reader' = IF n > 0 THEN "ready" ELSE "armed"
  /\ UNCHANGED <<clientVars, fds, mainVars, message, io, ioStopped, flagVars, poolVars,
                 historyVars>>

\* A chunk of the pipe moves to m_buffer: n whole lines and, if it splits the
\* next one, the first part of that.  With a whole line, the handler is due.
ReadChunk(n, split) ==
  /\ reader = "armed" /\ io # "ended"
  /\ n \in 0..Len(pipe) /\ split \in BOOLEAN
  /\ split => n < Len(pipe)
  /\ n > 0 \/ (split /\ ~torn)
  /\ pipe' = SubSeq(pipe, n + 1, Len(pipe))
  /\ buffer' = buffer \o SubSeq(pipe, 1, n)
  /\ torn' = split
  /\ reader' = IF n > 0 THEN "ready" ELSE "armed"
  /\ UNCHANGED <<clientVars, fds, mainVars, message, io, ioStopped, flagVars, poolVars,
                 historyVars>>

\* read() is called with an error, logs it, and asks for no further read.
ReadFails ==
  /\ reader = "armed" /\ io = "running" /\ ~ioStopped
  /\ reader' = "dead"
  /\ UNCHANGED <<clientVars, kernelVars, mainVars, buffer, torn, message, io, ioStopped,
                 flagVars, poolVars, historyVars>>

\* Mutated form: the handler reads the line off a copy of m_buffer.
GetLineOfCopy ==
  /\ reader = "ready" /\ io = "running" /\ ~ioStopped
  /\ reader' = "parsing"
  /\ message' = Head(buffer)
  /\ handled' = Append(handled, Head(buffer))
  /\ UNCHANGED <<clientVars, kernelVars, mainVars, buffer, torn, io, ioStopped, flagVars,
                 poolVars, base, lost, completed>>

\* read() is called: getline() takes the first line out of m_buffer.
GetLine ==
  /\ reader = "ready" /\ io = "running" /\ ~ioStopped
  /\ reader' = "parsing"
  /\ message' = Head(buffer)
  /\ buffer' = Tail(buffer)
  /\ handled' = Append(handled, Head(buffer))
  /\ UNCHANGED <<clientVars, kernelVars, mainVars, torn, io, ioStopped, flagVars, poolVars,
                 base, lost, completed>>

Parses(k) == reader = "parsing" /\ kind[message] = k

\* Mutated form: stop() assigns its argument to m_restartAfterStop.
ParseStopForgettingRestart ==
  /\ Parses("STOP")
  /\ restartAfterStop' = FALSE
  /\ stopRequested' = TRUE
  /\ reader' = "parsed"
  /\ UNCHANGED <<clientVars, kernelVars, mainVars, buffer, torn, message, io, ioStopped,
                 poolVars, historyVars>>

ParseStop ==
  /\ Parses("STOP")
  /\ stopRequested' = TRUE
  /\ reader' = "parsed"
  /\ UNCHANGED <<clientVars, kernelVars, mainVars, buffer, torn, message, io, ioStopped,
                 restartAfterStop, poolVars, historyVars>>

\* stop(true): first the one flag, then the other.
ParseRestart ==
  /\ Parses("RESTART")
  /\ restartAfterStop' = TRUE
  /\ reader' = "stopping"
  /\ UNCHANGED <<clientVars, kernelVars, mainVars, buffer, torn, message, io, ioStopped,
                 stopRequested, poolVars, historyVars>>

RestartStops ==
  /\ reader = "stopping"
  /\ stopRequested' = TRUE
  /\ reader' = "parsed"
  /\ UNCHANGED <<clientVars, kernelVars, mainVars, buffer, torn, message, io, ioStopped,
                 restartAfterStop, poolVars, historyVars>>

ParseBuild ==
  /\ Parses("BUILD")
  /\ queue' = Append(queue, message)
  /\ reader' = "parsed"
  /\ UNCHANGED <<clientVars, kernelVars, mainVars, buffer, torn, message, io, ioStopped,
                 flagVars, running, historyVars>>

ParseIgnored ==
  /\ Parses("IGNORED")
  /\ reader' = "parsed"
  /\ UNCHANGED <<clientVars, kernelVars, mainVars, buffer, torn, message, io, ioStopped,
                 flagVars, poolVars, historyVars>>

\* Mutated form: read() returns when parse() fails.
RearmUnlessIgnored ==
  /\ reader = "parsed"
  /\ reader' = IF kind[message] = "IGNORED" THEN "off"
               ELSE IF buffer = <<>> THEN "armed" ELSE "ready"
  /\ message' = 0
  /\ UNCHANGED <<clientVars, kernelVars, mainVars, buffer, torn, io, ioStopped, flagVars,
                 poolVars, historyVars>>

\* Mutated form: the next read waits for data although m_buffer holds a line.
RearmForNewData ==
  /\ reader = "parsed"
  /\ reader' = "armed"
  /\ message' = 0
  /\ UNCHANGED <<clientVars, kernelVars, mainVars, buffer, torn, io, ioStopped, flagVars,
                 poolVars, historyVars>>

\* The last line of read(); it completes at once if m_buffer holds a line.
Rearm ==
  /\ reader = "parsed"
  /\ reader' = IF buffer = <<>> THEN "armed" ELSE "ready"
  /\ message' = 0
  /\ UNCHANGED <<clientVars, kernelVars, mainVars, buffer, torn, io, ioStopped, flagVars,
                 poolVars, historyVars>>

\* m_io.run() returns: stopped, or nothing left to wait for.
IoReturns ==
  /\ io = "running" /\ ~InHandler
  /\ ioStopped \/ reader = "dead"
  /\ io' = "ended"
  /\ UNCHANGED <<clientVars, kernelVars, mainVars, buffer, torn, reader, message, ioStopped,
                 flagVars, poolVars, historyVars>>

-----------------------------------------------------------------------------
(* The threads of m_threadPool, an external class.                          *)

StartBuild ==
  /\ main # "ended"
  /\ queue # <<>> /\ Cardinality(running) < PoolSize
  /\ running' = running \cup {Head(queue)}
  /\ queue' = Tail(queue)
  /\ UNCHANGED <<clientVars, kernelVars, mainVars, readVars, flagVars, historyVars>>

FinishBuild(b) ==
  /\ b \in running
  /\ running' = running \ {b}
  /\ completed' = completed \cup {b}
  /\ UNCHANGED <<clientVars, kernelVars, mainVars, readVars, flagVars, queue, handled, base,
                 lost>>

\* Its destructor may run what is queued, or drop it.
DropQueue ==
  /\ main = "joiningPool" /\ queue # <<>>
  /\ queue' = <<>>
  /\ UNCHANGED <<clientVars, kernelVars, mainVars, readVars, flagVars, running, historyVars>>

-----------------------------------------------------------------------------

MainStep ==
  \/ InitSucceeds \/ InitFails \/ StartIo \/ SeeStop \/ StopIo \/ JoinIo
  \/ ReturnExitCode \/ ExecSucceeds \/ ExecFails
  \/ CloseFifo \/ DestroyPool \/ EndProcess

IoRuns ==
  \/ \E n \in 0..MaxSent, split \in BOOLEAN : ReadChunk(n, split)
  \/ GetLine
  \/ ParseStop \/ ParseRestart \/ RestartStops \/ ParseBuild \/ ParseIgnored
  \/ Rearm \/ IoReturns

IoStep == IoRuns \/ ReadFails

Next ==
  \/ \E k \in Kind : Send(k)
  \/ MainStep
  \/ IoStep
  \/ StartBuild
  \/ \E b \in 1..MaxSent : FinishBuild(b)
  \/ DropQueue

Spec == Init /\ [][Next]_vars

\* Both threads and the pool are scheduled, and every build ends.  A read need
\* not fail, and nothing is assumed of the clients, nor of how the pool treats
\* its queue at the end.
Fairness ==
  /\ WF_vars(MainStep)
  /\ WF_vars(IoRuns)
  /\ WF_vars(StartBuild)
  /\ \A b \in 1..MaxSent : WF_vars(FinishBuild(b))

FairSpec == Spec /\ Fairness

-----------------------------------------------------------------------------
(* Properties.                                                              *)

\* The commands are handled in the order in which they were written, each at
\* most once, and none is skipped: a line is lost only when the image that had
\* read it into m_buffer is replaced, or with the process.
FifoOrder ==
  LET all == handled \o buffer \o pipe IN
  /\ \A m, n \in 1..Len(all) : m < n => all[m] < all[n]
  /\ Lines(all) \cup lost = Sent

\* Some command of this image was k.
GotCommand(k) == \E i \in (base + 1)..Len(handled) : kind[handled[i]] = k

\* run() returns Restart exactly if this image got a RESTART, before or after
\* a STOP and even between the end of the polling loop and the join; it
\* returns Success only for a STOP.
ExitCodeHonest ==
  /\ exitCode = "Restart" => GotCommand("RESTART")
  /\ exitCode = "Success" => GotCommand("STOP") /\ ~GotCommand("RESTART")

\* No handler is active once run() has joined the io_service thread: no
\* command can enqueue a build into a pool that is being destroyed.
NoHandlerAfterRun == InHandler => main \in {"polling", "stopping", "joining"}

\* No build runs, or waits to, when the members of the bot are gone: the
\* queued closures read m_buildDirectory through the captured this.
NoUseAfterFree == main = "freed" => queue = <<>> /\ running = {}

\* An image that has restarted handled m.
Overridden(m) == \E i \in 1..base : handled[i] = m

\* Every STOP that is written ends the process, unless a RESTART handled by
\* the same image, before it or after it, turned the exit into a restart, a
\* restart lost the line, or the FIFO has failed.
StopHonoured ==
  \A m \in 1..MaxSent :
    (m \in Sent /\ kind[m] = "STOP") ~>
      (main = "ended" \/ m \in lost \/ Overridden(m) \/ reader = "dead")

\* Every BUILD of a configured repository that is written runs to its end,
\* unless a STOP or a RESTART is handled, the process fails to start again,
\* or the FIFO has failed.
BuildHonoured ==
  \A m \in 1..MaxSent :
    (m \in Sent /\ kind[m] = "BUILD") ~>
      \/ m \in completed
      \/ \E i \in 1..Len(handled) : kind[handled[i]] \in {"STOP", "RESTART"}
      \/ reader = "dead"

\* The BUILD lines whose handler has enqueued them, and that the pool neither
\* holds nor has finished: gone with the image that had accepted them.
CutOffBuilds ==
  {b \in Lines(handled) :
     kind[b] = "BUILD" /\ ~(reader = "parsing" /\ message = b)}
    \ (Lines(queue) \cup running \cup completed)

Service == INSTANCE BuildService WITH
  Build <- 1..MaxSent, waiting <- queue, over <- completed, cut <- CutOffBuilds,
  leaving <- exitCode # "none"

\* The bot keeps the promise of BuildService across chunks, handlers, stops
\* and restarts: a build starts in the order of the lines, at most once, and
\* is never taken up again by a later image, nor after the end; and none is cut
\* off before init() has failed or run() has returned.
BuildServiceSpec == Service!ServiceSpec
=============================================================================
