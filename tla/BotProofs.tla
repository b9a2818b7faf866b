------------------------------ MODULE BotProofs ------------------------------
(***************************************************************************)
(* What Bot promises for any number of commands, descriptors and pool      *)
(* threads.                                                                *)
(***************************************************************************)
EXTENDS Bot, SequenceTheorems, TLAPS

-----------------------------------------------------------------------------
(* Who is at work: the io_service thread lives within run().                *)

Threads ==
  /\ io = "running" => main \in {"polling", "stopping", "joining"}
  /\ InHandler => io = "running"

\* No step starts the thread outside run(), or a handler outside the thread.
LEMMA ThreadsStep == ASSUME Threads, [Next]_vars PROVE Threads'
<1> USE DEF Threads, InHandler
<1>1. CASE UNCHANGED vars \/ (\E k \in Kind : Send(k)) \/ StartBuild \/ DropQueue
           \/ \E b \in 1..MaxSent : FinishBuild(b)
  BY <1>1 DEF vars, mainVars, readVars, Send, StartBuild, DropQueue, FinishBuild
<1>2. CASE InitSucceeds \/ InitFails \/ StartIo \/ SeeStop \/ StopIo \/ JoinIo
           \/ ReturnExitCode \/ ExecSucceeds \/ ExecFails \/ CloseFifo \/ DestroyPool
           \/ EndProcess
  BY <1>2 DEF readVars, InitSucceeds, InitFails, StartIo, SeeStop, StopIo, JoinIo,
     ReturnExitCode, ExecSucceeds, ExecFails, CloseFifo, DestroyPool, EndProcess
<1>3. CASE \E n \in 0..MaxSent, split \in BOOLEAN : ReadChunk(n, split)
  BY <1>3 DEF ReadChunk, mainVars
<1>4. CASE ReadFails \/ GetLine \/ ParseStop \/ ParseRestart \/ RestartStops \/ ParseBuild
           \/ ParseIgnored \/ Rearm \/ IoReturns
  BY <1>4 DEF mainVars, ReadFails, GetLine, Parses, ParseStop, ParseRestart, RestartStops,
     ParseBuild, ParseIgnored, Rearm, IoReturns
<1>5. QED BY <1>1, <1>2, <1>3, <1>4 DEF Next, MainStep, IoStep, IoRuns

\* The io_service thread, and with it every handler, is at work only between
\* the start of the polling loop and the join.
LEMMA ThreadsAlways == Spec => []Threads
<1>1. Init => Threads BY DEF Init, Threads, InHandler
<1>2. QED BY <1>1, ThreadsStep, PTL DEF Spec

\* No handler is active once run() has joined its thread.
THEOREM NoLateHandler == Spec => []NoHandlerAfterRun
<1>1. Threads => NoHandlerAfterRun BY DEF Threads, NoHandlerAfterRun
<1>2. QED BY <1>1, ThreadsAlways, PTL

-----------------------------------------------------------------------------
(* Type correctness.                                                        *)

\* A whole line in m_buffer is what the handler is due for, a torn one has its
\* rest in the pipe, and a handler has a line.
Due ==
  /\ reader = "ready" /\ main # "ended" => buffer # <<>>
  /\ torn => pipe # <<>>
  /\ InHandler => message # 0

\* The descriptor of an open m_fifo is one of those that are counted.
Counted == fifoOpen => fds > 0

\* The members of a sequence are members of what it is a sequence over.
LEMMA LinesIn == ASSUME NEW S, NEW s \in Seq(S) PROVE Lines(s) \subseteq S
  BY DEF Lines

\* A chunk and what it leaves behind.
LEMMA Chunk ==
  ASSUME NEW S, NEW s \in Seq(S), NEW n \in 0..Len(s)
  PROVE  /\ SubSeq(s, 1, n) \in Seq(S) /\ Len(SubSeq(s, 1, n)) = n
         /\ SubSeq(s, n + 1, Len(s)) \in Seq(S)
         /\ Len(SubSeq(s, n + 1, Len(s))) = Len(s) - n
<1>1. /\ \A i \in 1..n : s[i] \in S
      /\ \A i \in (n + 1)..Len(s) : s[i] \in S
  OBVIOUS
<1>2. 1 \in Int /\ n \in Int /\ n + 1 \in Int /\ Len(s) \in Int /\ n <= Len(s)
  OBVIOUS
<1>3. /\ SubSeq(s, 1, n) \in Seq(S)
      /\ Len(SubSeq(s, 1, n)) = IF 1 <= n THEN n - 1 + 1 ELSE 0
  BY <1>1, <1>2, SubSeqProperties
<1>4. /\ SubSeq(s, n + 1, Len(s)) \in Seq(S)
      /\ Len(SubSeq(s, n + 1, Len(s))) =
           IF n + 1 <= Len(s) THEN Len(s) - (n + 1) + 1 ELSE 0
  BY <1>1, <1>2, SubSeqProperties
<1>5. QED BY <1>2, <1>3, <1>4

TypeInv == TypeOK /\ Due /\ Counted

\* The initial states.
LEMMA InitTypeInv == Init => TypeInv
<1> SUFFICES ASSUME Init PROVE TypeInv
  OBVIOUS
<1>1. <<>> \in Seq(Kind) /\ <<>> \in Seq(1..MaxSent) /\ Len(<<>>) = 0
  OBVIOUS
<1>2. TypeOK
  <2>1. kind \in Seq(Kind) /\ Len(kind) <= MaxSent
    BY <1>1, BotAssumption DEF Init
  <2>2. /\ pipe \in Seq(1..MaxSent) /\ buffer \in Seq(1..MaxSent)
        /\ queue \in Seq(1..MaxSent) /\ handled \in Seq(1..MaxSent)
    BY <1>1 DEF Init
  <2>3. fds \in 0..MaxFd /\ message \in 0..MaxSent /\ base \in Nat
    BY BotAssumption DEF Init
  <2>4. QED BY <2>1, <2>2, <2>3 DEF Init, TypeOK
<1>3. QED BY <1>2 DEF Init, TypeInv, Due, InHandler, Counted

\* A client's line.
LEMMA SendType == ASSUME TypeInv, NEW k \in Kind, Send(k) PROVE TypeInv'
<1> USE BotAssumption
    DEF TypeInv, TypeOK, Send, mainVars, readVars, flagVars, poolVars, historyVars
<1>1. kind' \in Seq(Kind) /\ Len(kind') = Len(kind) + 1
  OBVIOUS
<1>2. pipe' \in Seq(1..MaxSent) /\ pipe' # <<>>
  BY SMTT(20)
<1>3. QED BY <1>1, <1>2, SMTT(20) DEF Due, InHandler, Counted

\* The steps of the main thread.
LEMMA MainType == ASSUME TypeInv, MainStep PROVE TypeInv'
<1> USE BotAssumption
    DEF TypeInv, TypeOK, Due, InHandler, Counted, clientVars, kernelVars, mainVars, readVars,
        flagVars, poolVars, historyVars
<1>1. CASE InitSucceeds
  BY <1>1 DEF InitSucceeds
<1>2. CASE InitFails
  BY <1>2 DEF InitFails
<1>3. CASE StartIo
  BY <1>3 DEF StartIo
<1>4. CASE SeeStop
  BY <1>4 DEF SeeStop
<1>5. CASE StopIo
  BY <1>5 DEF StopIo
<1>6. CASE JoinIo
  BY <1>6 DEF JoinIo
<1>7. CASE ReturnExitCode
  BY <1>7 DEF ReturnExitCode
<1>8. CASE ExecSucceeds
  <2>1. kind' \in Seq(Kind) /\ Len(kind') = Len(kind)
    BY <1>8 DEF ExecSucceeds, Kind, Sent
  <2>2. buffer' = <<>> /\ queue' = <<>>
    BY <1>8 DEF ExecSucceeds
  <2>3. buffer' \in Seq(1..MaxSent) /\ queue' \in Seq(1..MaxSent)
    BY <2>2
  <2>4. lost' \in SUBSET (1..MaxSent)
    <3>1. Lines(buffer) \subseteq 1..MaxSent
      BY LinesIn
    <3>2. torn => Head(pipe) \in 1..MaxSent
      OBVIOUS
    <3>3. QED BY <1>8, <3>1, <3>2 DEF ExecSucceeds
  <2>5. base' \in Nat
    BY <1>8 DEF ExecSucceeds
  <2>6. /\ main' = "init" /\ exitCode' = "none" /\ ~fifoOpen' /\ fifoOpen' \in BOOLEAN
        /\ reader' = "off" /\ message' = 0 /\ io' = "off"
        /\ ~torn' /\ <<torn, ioStopped, stopRequested, restartAfterStop>>' \in
                         BOOLEAN \X BOOLEAN \X BOOLEAN \X BOOLEAN
        /\ running' = {} /\ UNCHANGED <<pipe, fds, handled, completed>>
    BY <1>8 DEF ExecSucceeds
  <2>7. QED BY <2>1, <2>2, <2>3, <2>4, <2>5, <2>6
<1>9. CASE ExecFails
  BY <1>9 DEF ExecFails
<1>10. CASE CloseFifo
  <2>1. fds' \in 0..MaxFd
    BY <1>10 DEF CloseFifo
  <2>2. main' = "joiningPool" /\ fifoOpen' = FALSE /\ main # "ended"
    BY <1>10 DEF CloseFifo
  <2>3. UNCHANGED <<kind, pipe, exitCode, buffer, torn, reader, message, io, ioStopped,
                    stopRequested, restartAfterStop, queue, running, handled, base,
                    lost, completed>>
    BY <1>10 DEF CloseFifo
  <2>4. TypeOK'
    BY <2>1, <2>2, <2>3, ZenonT(30)
  <2>5. QED BY <2>2, <2>3, <2>4
<1>11. CASE DestroyPool
  BY <1>11 DEF DestroyPool
<1>12. CASE EndProcess
  <2>1. pipe' = <<>> /\ buffer' = <<>> /\ queue' = <<>>
    BY <1>12 DEF EndProcess
  <2>2. /\ pipe' \in Seq(1..MaxSent) /\ buffer' \in Seq(1..MaxSent)
        /\ queue' \in Seq(1..MaxSent)
    BY <2>1
  <2>3. lost' \in SUBSET (1..MaxSent)
    <3>1. Lines(buffer) \subseteq 1..MaxSent /\ Lines(pipe) \subseteq 1..MaxSent
      BY LinesIn
    <3>2. QED BY <1>12, <3>1 DEF EndProcess
  <2>4. /\ main' = "ended" /\ fds' = 0 /\ ~fifoOpen' /\ fifoOpen' \in BOOLEAN
        /\ ~torn' /\ torn' \in BOOLEAN /\ running' = {}
        /\ UNCHANGED <<kind, exitCode, reader, message, io, ioStopped, stopRequested,
                       restartAfterStop, handled, base, completed>>
    BY <1>12 DEF EndProcess
  <2>5. QED BY <2>1, <2>2, <2>3, <2>4
<1>13. QED
  BY <1>1, <1>2, <1>3, <1>4, <1>5, <1>6, <1>7, <1>8, <1>9, <1>10, <1>11, <1>12
     DEF MainStep

\* A chunk read from the pipe.
LEMMA ReadChunkType ==
  ASSUME TypeInv, NEW n \in 0..MaxSent, NEW split \in BOOLEAN, ReadChunk(n, split)
  PROVE  TypeInv'
<1>1. pipe \in Seq(1..MaxSent) /\ buffer \in Seq(1..MaxSent)
  BY DEF TypeInv, TypeOK
<1>2. n \in 0..Len(pipe) /\ (split => n < Len(pipe))
  BY DEF ReadChunk
<1>3. /\ SubSeq(pipe, n + 1, Len(pipe)) \in Seq(1..MaxSent)
      /\ Len(SubSeq(pipe, n + 1, Len(pipe))) = Len(pipe) - n
      /\ SubSeq(pipe, 1, n) \in Seq(1..MaxSent)
      /\ Len(SubSeq(pipe, 1, n)) = n
  BY <1>1, <1>2, Chunk, ZenonT(30)
<1>4. /\ pipe' = SubSeq(pipe, n + 1, Len(pipe))
      /\ buffer' = buffer \o SubSeq(pipe, 1, n)
      /\ torn' = split
      /\ reader' = IF n > 0 THEN "ready" ELSE "armed"
  BY DEF ReadChunk
<1>5. UNCHANGED <<kind, fds, main, exitCode, fifoOpen, message, io, ioStopped,
                  stopRequested, restartAfterStop, queue, running, handled, base,
                  lost, completed>>
  BY DEF ReadChunk, clientVars, mainVars, flagVars, poolVars, historyVars
<1>6. pipe' \in Seq(1..MaxSent) /\ (torn' => pipe' # <<>>)
  <2>1. Len(pipe') = Len(pipe) - n /\ Len(pipe) \in Nat
    BY <1>1, <1>3, <1>4
  <2>2. torn' => Len(pipe') # 0
    BY <1>2, <1>4, <2>1
  <2>3. Len(<<>>) = 0
    OBVIOUS
  <2>4. QED BY <1>3, <1>4, <2>2, <2>3
<1>7. buffer' \in Seq(1..MaxSent) /\ (n > 0 => buffer' # <<>>)
  <2>1. /\ buffer' \in Seq(1..MaxSent)
        /\ Len(buffer') = Len(buffer) + n
    BY <1>1, <1>3, <1>4, ConcatProperties
  <2>2. Len(<<>>) = 0 /\ Len(buffer) \in Nat
    BY <1>1
  <2>3. QED BY <1>2, <2>1, <2>2
<1>8. TypeOK'
  BY <1>4, <1>5, <1>6, <1>7 DEF TypeInv, TypeOK
<1>9. Due' /\ Counted'
  BY <1>4, <1>5, <1>6, <1>7 DEF TypeInv, Due, InHandler, Counted
<1>10. QED BY <1>8, <1>9 DEF TypeInv

\* The steps of the io_service thread.
LEMMA IoType == ASSUME TypeInv, Threads, IoStep PROVE TypeInv'
<1> USE BotAssumption
    DEF TypeInv, TypeOK, Due, InHandler, Counted, clientVars, kernelVars, mainVars, readVars,
        flagVars, poolVars, historyVars
<1>1. CASE \E n \in 0..MaxSent, split \in BOOLEAN : ReadChunk(n, split)
  BY <1>1, ReadChunkType DEF TypeInv, TypeOK, Due, Counted
<1>2. CASE ReadFails
  BY <1>2 DEF ReadFails
<1>3. CASE GetLine
  <2>1. buffer # <<>>
    BY <1>3 DEF GetLine, Threads
  <2>2. Head(buffer) \in 1..MaxSent /\ Tail(buffer) \in Seq(1..MaxSent)
    BY <2>1
  <2>3. handled' \in Seq(1..MaxSent)
    BY <1>3, <2>2 DEF GetLine
  <2>4. QED BY <1>3, <2>2, <2>3 DEF GetLine
<1>4. CASE ParseStop
  BY <1>4 DEF ParseStop, Parses
<1>5. CASE ParseRestart
  BY <1>5 DEF ParseRestart, Parses
<1>6. CASE RestartStops
  BY <1>6 DEF RestartStops
<1>7. CASE ParseBuild
  BY <1>7 DEF ParseBuild, Parses
<1>8. CASE ParseIgnored
  BY <1>8 DEF ParseIgnored, Parses
<1>9. CASE Rearm
  BY <1>9 DEF Rearm
<1>10. CASE IoReturns
  BY <1>10 DEF IoReturns
<1>11. QED
  BY <1>1, <1>2, <1>3, <1>4, <1>5, <1>6, <1>7, <1>8, <1>9, <1>10 DEF IoStep, IoRuns

\* The steps of the pool.
LEMMA PoolType ==
  ASSUME TypeInv, StartBuild \/ DropQueue \/ \E b \in 1..MaxSent : FinishBuild(b)
  PROVE  TypeInv'
<1> USE BotAssumption
    DEF TypeInv, TypeOK, Due, InHandler, Counted, clientVars, kernelVars, mainVars, readVars,
        flagVars, poolVars, historyVars
<1>1. CASE StartBuild
  <2>1. queue # <<>>
    BY <1>1 DEF StartBuild
  <2>2. Head(queue) \in 1..MaxSent /\ Tail(queue) \in Seq(1..MaxSent)
    BY <2>1
  <2>3. queue' \in Seq(1..MaxSent) /\ running' \in SUBSET (1..MaxSent)
    BY <1>1, <2>2 DEF StartBuild
  <2>4. UNCHANGED <<clientVars, kernelVars, mainVars, readVars, flagVars, historyVars>>
    BY <1>1 DEF StartBuild
  <2>5. QED BY <2>3, <2>4
<1>2. CASE DropQueue
  BY <1>2 DEF DropQueue
<1>3. CASE \E b \in 1..MaxSent : FinishBuild(b)
  BY <1>3 DEF FinishBuild
<1>4. QED BY <1>1, <1>2, <1>3

\* Every variable keeps its type, m_buffer holds the line that a due handler
\* takes, and close() never closes a descriptor that is not counted.
LEMMA TypeAlways == Spec => []TypeInv
<1>1. ASSUME TypeInv, Threads, [Next]_vars PROVE TypeInv'
  <2>1. CASE UNCHANGED vars
    BY <1>1, <2>1 DEF vars, clientVars, kernelVars, mainVars, readVars, flagVars,
       poolVars, historyVars, TypeInv, TypeOK, Due, InHandler, Counted
  <2>2. CASE Next
    BY <1>1, <2>2, SendType, MainType, IoType, PoolType DEF Next
  <2>3. QED BY <1>1, <2>1, <2>2
<1>2. QED BY <1>1, InitTypeInv, ThreadsAlways, PTL DEF Spec

\* The types, for any number of commands, descriptors and pool threads.
THEOREM BotTypeCorrect == Spec => []TypeOK
<1>1. TypeInv => TypeOK BY DEF TypeInv
<1>2. QED BY <1>1, TypeAlways, PTL

-----------------------------------------------------------------------------
(* Destruction.  Once the pool is gone nothing can fill its queue: a handler *)
(* could, but its thread is joined by then.                                  *)

\* No step gives the freed bot a build.
LEMMA FreedStep == ASSUME Threads, NoUseAfterFree, [Next]_vars PROVE NoUseAfterFree'
<1> USE DEF NoUseAfterFree
<1>1. CASE UNCHANGED vars \/ (\E k \in Kind : Send(k)) \/ StartBuild \/ DropQueue
           \/ \E b \in 1..MaxSent : FinishBuild(b)
  BY <1>1 DEF vars, mainVars, poolVars, Send, StartBuild, DropQueue, FinishBuild
<1>2. CASE MainStep
  BY <1>2 DEF poolVars, MainStep, InitSucceeds, InitFails, StartIo, SeeStop, StopIo, JoinIo,
     ReturnExitCode, ExecSucceeds, ExecFails, CloseFifo, DestroyPool, EndProcess
<1>3. CASE ParseBuild
  BY <1>3 DEF ParseBuild, Parses, Threads, InHandler, mainVars
<1>4. CASE \E n \in 0..MaxSent, split \in BOOLEAN : ReadChunk(n, split)
  BY <1>4 DEF ReadChunk, mainVars, poolVars
<1>5. CASE ReadFails \/ GetLine \/ ParseStop \/ ParseRestart \/ RestartStops
           \/ ParseIgnored \/ Rearm \/ IoReturns
  BY <1>5 DEF mainVars, poolVars, ReadFails, GetLine, Parses, ParseStop, ParseRestart,
     RestartStops, ParseIgnored, Rearm, IoReturns
<1>6. QED BY <1>1, <1>2, <1>3, <1>4, <1>5 DEF Next, IoStep, IoRuns

\* No build runs, or waits to, when the members of the bot are gone.
THEOREM NoBuildAfterFree == Spec => []NoUseAfterFree
<1>1. Init => NoUseAfterFree BY DEF Init, NoUseAfterFree
<1>2. QED BY <1>1, FreedStep, ThreadsAlways, PTL DEF Spec

-----------------------------------------------------------------------------
(* The exit code.  The two flags follow the commands that this image has     *)
(* handled, but for the command whose handler has yet to set them.           *)

\* The lines on their way have been written.
Known ==
  /\ pipe \in Seq(Sent) /\ buffer \in Seq(Sent) /\ handled \in Seq(Sent)
  /\ base <= Len(handled)

\* The line being parsed is one that this image handled.
Parsing == InHandler => \E i \in (base + 1)..Len(handled) : handled[i] = message

Flags ==
  /\ restartAfterStop => GotCommand("RESTART")
  /\ GotCommand("RESTART") => restartAfterStop \/ Parses("RESTART")
  /\ stopRequested => GotCommand("STOP") \/ GotCommand("RESTART")
  /\ reader = "stopping" => restartAfterStop

Returned ==
  /\ main \in {"stopping", "joining", "joined"} => stopRequested
  /\ exitCode # "none" => main \in {"restarting", "exiting", "joiningPool", "freed",
                                    "ended"}

ExitInv == Known /\ Parsing /\ Flags /\ Returned /\ ExitCodeHonest

\* A sequence over a set is one over every larger set.
LEMMA SeqGrows ==
  ASSUME NEW S, NEW T, S \subseteq T, NEW s \in Seq(S) PROVE s \in Seq(T)
<1>1. \A i \in 1..Len(s) : s[i] \in T
  OBVIOUS
<1>2. s = [i \in 1..Len(s) |-> s[i]] /\ Len(s) \in Nat
  OBVIOUS
<1>3. QED BY <1>1, <1>2

\* A line that a client adds leaves the lines on their way known.
LEMMA KnownStep == ASSUME TypeInv, Threads, Known, [Next]_vars PROVE Known'
<1> USE DEF Known, Sent
<1>1. CASE \E k \in Kind : Send(k)
  <2>1. PICK k \in Kind : Send(k)
    BY <1>1
  <2>2. Len(kind') = Len(kind) + 1 /\ Len(kind) \in Nat
    BY <2>1 DEF Send, TypeInv, TypeOK
  <2>3. 1..Len(kind) \subseteq 1..Len(kind')
    BY <2>2
  <2>4. /\ pipe' = Append(pipe, Len(kind) + 1)
        /\ UNCHANGED <<buffer, handled, base>>
    BY <2>1 DEF Send, readVars, historyVars
  <2>5. pipe \in Seq(Sent') /\ buffer \in Seq(Sent') /\ handled \in Seq(Sent')
    BY <2>3, SeqGrows
  <2>6. Len(kind) + 1 \in Sent'
    BY <2>2
  <2>7. QED BY <2>4, <2>5, <2>6
<1>2. CASE UNCHANGED vars \/ StartBuild \/ DropQueue \/ \E b \in 1..MaxSent : FinishBuild(b)
  BY <1>2 DEF vars, clientVars, kernelVars, readVars, historyVars, StartBuild, DropQueue,
     FinishBuild
<1>3. CASE InitSucceeds \/ InitFails \/ StartIo \/ SeeStop \/ StopIo \/ JoinIo
           \/ ReturnExitCode \/ ExecFails \/ CloseFifo \/ DestroyPool
  BY <1>3 DEF clientVars, kernelVars, readVars, historyVars, InitSucceeds, InitFails,
     StartIo, SeeStop, StopIo, JoinIo, ReturnExitCode, ExecFails, CloseFifo, DestroyPool
<1>4. CASE ExecSucceeds
  <2>1. Len(kind') = Len(kind)
    BY <1>4 DEF ExecSucceeds, TypeInv, TypeOK
  <2>2. buffer' = <<>> /\ base' = Len(handled) /\ UNCHANGED <<pipe, handled>>
    BY <1>4 DEF ExecSucceeds, kernelVars
  <2>3. QED BY <2>1, <2>2
<1>5. CASE EndProcess
  <2>1. pipe' = <<>> /\ buffer' = <<>> /\ UNCHANGED <<kind, handled, base>>
    BY <1>5 DEF EndProcess, clientVars
  <2>2. QED BY <2>1
<1>6. CASE \E n \in 0..MaxSent, split \in BOOLEAN : ReadChunk(n, split)
  <2>1. PICK n \in 0..MaxSent, split \in BOOLEAN : ReadChunk(n, split)
    BY <1>6
  <2>2. /\ n \in 0..Len(pipe)
        /\ pipe' = SubSeq(pipe, n + 1, Len(pipe))
        /\ buffer' = buffer \o SubSeq(pipe, 1, n)
        /\ UNCHANGED <<kind, handled, base>>
    BY <2>1 DEF ReadChunk, clientVars, historyVars
  <2>3. pipe' \in Seq(Sent) /\ buffer' \in Seq(Sent)
    BY <2>2, Chunk, ConcatProperties
  <2>4. QED BY <2>2, <2>3
<1>7. CASE GetLine
  <2>1. buffer # <<>>
    BY <1>7 DEF GetLine, Threads, TypeInv, Due
  <2>2. Head(buffer) \in Sent /\ Tail(buffer) \in Seq(Sent)
    BY <2>1
  <2>3. /\ buffer' = Tail(buffer) /\ handled' = Append(handled, Head(buffer))
        /\ UNCHANGED <<kind, pipe, base>>
    BY <1>7 DEF GetLine, clientVars, kernelVars
  <2>4. handled' \in Seq(Sent) /\ Len(handled') = Len(handled) + 1
    BY <2>2, <2>3
  <2>5. base \in Nat /\ Len(handled) \in Nat
    BY DEF TypeInv, TypeOK
  <2>6. QED BY <2>2, <2>3, <2>4, <2>5
<1>8. CASE ReadFails \/ ParseStop \/ ParseRestart \/ RestartStops \/ ParseBuild
           \/ ParseIgnored \/ Rearm \/ IoReturns
  BY <1>8 DEF clientVars, kernelVars, historyVars, ReadFails, ParseStop, ParseRestart,
     RestartStops, ParseBuild, ParseIgnored, Rearm, IoReturns
<1>9. QED
  BY <1>1, <1>2, <1>3, <1>4, <1>5, <1>6, <1>7, <1>8 DEF Next, MainStep, IoStep, IoRuns

\* What was handled changes only with the lines handled.
LEMMA GotSame ==
  ASSUME UNCHANGED <<kind, handled, base>>, NEW k
  PROVE  GotCommand(k)' = GotCommand(k)
  BY DEF GotCommand

\* The line being parsed counts as handled.
LEMMA ParsesGot ==
  ASSUME Parsing, NEW k, Parses(k) PROVE GotCommand(k)
  BY DEF Parsing, Parses, GotCommand, InHandler

\* A client's line changes none that was handled.
LEMMA SendExit ==
  ASSUME TypeInv, ExitInv, NEW k \in Kind, Send(k)
  PROVE  Parsing' /\ Flags' /\ Returned' /\ ExitCodeHonest'
<1>1. /\ kind' = Append(kind, k)
      /\ UNCHANGED <<handled, base, reader, message, restartAfterStop, stopRequested,
                     main, exitCode>>
  BY DEF Send, mainVars, readVars, flagVars, historyVars
<1>2. \A m \in Sent : kind'[m] = kind[m]
  BY <1>1 DEF TypeInv, TypeOK, Sent
<1>3. \A i \in (base + 1)..Len(handled) : handled[i] \in Sent
  BY DEF TypeInv, TypeOK, ExitInv, Known
<1>4. \A c : GotCommand(c)' = GotCommand(c)
  BY <1>1, <1>2, <1>3 DEF GotCommand
<1>5. \A c : Parses(c)' = Parses(c)
  BY <1>1, <1>2, <1>3 DEF Parses, ExitInv, Parsing, InHandler
<1>6. QED
  BY <1>1, <1>4, <1>5 DEF ExitInv, Parsing, Flags, Returned, ExitCodeHonest, InHandler

\* The main thread looks at the flags when no handler is active.
LEMMA MainExit ==
  ASSUME TypeInv, Threads, ExitInv, MainStep
  PROVE  Parsing' /\ Flags' /\ Returned' /\ ExitCodeHonest'
<1> USE DEF ExitInv, Parsing, Flags, Returned, ExitCodeHonest, InHandler
<1>1. CASE ExecSucceeds
  <2>1. /\ base' = Len(handled') /\ Len(handled) \in Nat
        /\ reader' = "off" /\ main' = "init" /\ exitCode' = "none"
        /\ ~stopRequested' /\ ~restartAfterStop'
    BY <1>1 DEF ExecSucceeds, TypeInv, TypeOK
  <2>2. handled' = handled
    BY <1>1 DEF ExecSucceeds
  <2>3. \A c : ~GotCommand(c)'
    BY <2>1, <2>2 DEF GotCommand
  <2>4. QED BY <2>1, <2>3
<1>2. CASE ~ExecSucceeds
  <2>1. UNCHANGED <<kind, handled, base, message, restartAfterStop, stopRequested>>
    BY <1>2 DEF MainStep, InitSucceeds, InitFails, StartIo, SeeStop, StopIo, JoinIo,
       ReturnExitCode, ExecFails, CloseFifo, DestroyPool, EndProcess, clientVars,
       readVars, flagVars, historyVars
  <2>2. reader' = reader \/ (reader' = "armed" /\ main = "ready")
    BY <1>2 DEF MainStep, InitSucceeds, InitFails, StartIo, SeeStop, StopIo, JoinIo,
       ReturnExitCode, ExecFails, CloseFifo, DestroyPool, EndProcess, readVars
  <2>3. main = "ready" => ~InHandler
    BY DEF Threads
  <2>4. \A c : GotCommand(c)' = GotCommand(c)
    BY <2>1, GotSame
  <2>5. \A c : Parses(c)' = Parses(c)
    BY <2>1, <2>2, <2>3 DEF Parses
  <2>6. Parsing' /\ Flags'
    BY <2>1, <2>2, <2>4, <2>5
  <2>7. Returned' /\ ExitCodeHonest'
    <3>1. CASE ReturnExitCode
      <4>1. ~InHandler /\ ~Parses("RESTART")
        BY <3>1 DEF ReturnExitCode, Threads, Parses
      <4>2. QED BY <3>1, <2>4, <4>1 DEF ReturnExitCode
    <3>2. CASE ~ReturnExitCode
      <4>1. exitCode' \in {exitCode, "Failure"}
        BY <1>2, <3>2 DEF MainStep, InitSucceeds, InitFails, StartIo, SeeStop, StopIo,
           JoinIo, ExecFails, CloseFifo, DestroyPool, EndProcess, mainVars
      <4>2. ExitCodeHonest'
        BY <2>4, <4>1
      <4>3. Returned'
        BY <1>2, <2>1, <3>2 DEF MainStep, InitSucceeds, InitFails, StartIo, SeeStop,
           StopIo, JoinIo, ExecFails, CloseFifo, DestroyPool, EndProcess, mainVars
      <4>4. QED BY <4>2, <4>3
    <3>3. QED BY <3>1, <3>2
  <2>8. QED BY <2>6, <2>7
<1>3. QED BY <1>1, <1>2

\* A line taken out of m_buffer counts as handled before its flags are set.
LEMMA GetLineExit ==
  ASSUME TypeInv, Threads, ExitInv, GetLine
  PROVE  Parsing' /\ Flags' /\ Returned' /\ ExitCodeHonest'
<1> DEFINE line == Head(buffer)
<1>1. /\ handled' = Append(handled, line) /\ message' = line
      /\ reader = "ready" /\ reader' = "parsing" /\ io = "running"
      /\ UNCHANGED <<kind, base, main, exitCode, stopRequested, restartAfterStop>>
  BY DEF GetLine, clientVars, mainVars, flagVars
<1>2. base \in Nat /\ base <= Len(handled) /\ handled \in Seq(Sent)
  BY DEF TypeInv, TypeOK, ExitInv, Known
<1>3. buffer # <<>> /\ buffer \in Seq(Sent)
  BY <1>1 DEF TypeInv, Due, Threads, ExitInv, Known
<1>4. line \in Sent
  BY <1>3
<1>5. /\ Len(handled') = Len(handled) + 1 /\ Len(handled) \in Nat
      /\ handled'[Len(handled')] = line
      /\ \A i \in 1..Len(handled) : handled'[i] = handled[i]
  BY <1>1, <1>2, <1>4
<1> HIDE DEF line
<1>6. Parsing'
  BY <1>1, <1>2, <1>5 DEF Parsing
<1>7. \A c : GotCommand(c)' <=> GotCommand(c) \/ kind[line] = c
  BY <1>1, <1>2, <1>5 DEF GotCommand
<1>8. \A c : ~Parses(c) /\ (Parses(c)' <=> kind[line] = c)
  BY <1>1 DEF Parses
<1>9. Flags'
  BY <1>1, <1>7, <1>8 DEF ExitInv, Flags
<1>10. exitCode = "none"
  BY <1>1 DEF Threads, ExitInv, Returned
<1>11. Returned' /\ ExitCodeHonest'
  BY <1>1, <1>10 DEF ExitInv, Returned, ExitCodeHonest
<1>12. QED BY <1>6, <1>9, <1>11

\* Each handler sets the flags of its command, and no other.
LEMMA IoExit ==
  ASSUME TypeInv, Threads, ExitInv, IoStep
  PROVE  Parsing' /\ Flags' /\ Returned' /\ ExitCodeHonest'
<1>1. CASE GetLine
  BY <1>1, GetLineExit
<1>2. CASE ~GetLine
  <2>1. UNCHANGED <<kind, handled, base, main, exitCode>>
    BY <1>2 DEF IoStep, IoRuns, ReadChunk, ReadFails, ParseStop, ParseRestart, RestartStops,
       ParseBuild, ParseIgnored, Rearm, IoReturns, clientVars, mainVars, historyVars
  <2>2. \A c : GotCommand(c)' = GotCommand(c)
    BY <2>1, GotSame
  <2>3. Parsing'
    BY <1>2, <2>1 DEF IoStep, IoRuns, ReadChunk, ReadFails, ParseStop, ParseRestart,
       RestartStops, ParseBuild, ParseIgnored, Rearm, IoReturns, Parses, ExitInv,
       Parsing, InHandler
  <2>4. Flags'
    <3> USE DEF ExitInv, Flags
    <3>1. CASE ParseStop
      <4>1. GotCommand("STOP") /\ ~Parses("RESTART")
        BY <3>1, ParsesGot DEF ParseStop, Parses
      <4>2. stopRequested' /\ UNCHANGED restartAfterStop /\ reader' = "parsed"
        BY <3>1 DEF ParseStop
      <4>3. QED BY <2>2, <4>1, <4>2
    <3>2. CASE ParseRestart
      <4>1. GotCommand("RESTART")
        BY <3>2, ParsesGot DEF ParseRestart
      <4>2. restartAfterStop' /\ UNCHANGED stopRequested /\ reader' = "stopping"
        BY <3>2 DEF ParseRestart
      <4>3. QED BY <2>2, <4>1, <4>2
    <3>3. CASE RestartStops
      <4>1. restartAfterStop /\ GotCommand("RESTART")
        BY <3>3 DEF RestartStops
      <4>2. stopRequested' /\ UNCHANGED restartAfterStop /\ reader' = "parsed"
        BY <3>3 DEF RestartStops
      <4>3. QED BY <2>2, <4>1, <4>2
    <3>4. CASE ~ParseStop /\ ~ParseRestart /\ ~RestartStops
      <4>1. UNCHANGED <<restartAfterStop, stopRequested>>
        BY <1>2, <3>4 DEF IoStep, IoRuns, ReadChunk, ReadFails, ParseBuild, ParseIgnored, Rearm,
           IoReturns, flagVars
      <4>2. reader' # "stopping" \/ UNCHANGED reader
        BY <1>2, <3>4 DEF IoStep, IoRuns, ReadChunk, ReadFails, ParseBuild, ParseIgnored, Rearm,
           IoReturns
      <4>3. Parses("RESTART") => Parses("RESTART")'
        BY <1>2, <3>4, <2>1 DEF IoStep, IoRuns, ReadChunk, ReadFails, ParseBuild, ParseIgnored,
           Rearm, IoReturns, Parses, InHandler
      <4>4. QED BY <2>2, <4>1, <4>2, <4>3
    <3>5. QED BY <3>1, <3>2, <3>3, <3>4
  <2>5. Returned'
    BY <1>2, <2>1 DEF IoStep, IoRuns, ReadChunk, ReadFails, ParseStop, ParseRestart,
       RestartStops, ParseBuild, ParseIgnored, Rearm, IoReturns, flagVars, ExitInv,
       Returned
  <2>6. ExitCodeHonest'
    BY <2>1, <2>2 DEF ExitInv, ExitCodeHonest
  <2>7. QED BY <2>3, <2>4, <2>5, <2>6
<1>3. QED BY <1>1, <1>2

\* Every step keeps the flags in line with the commands.
LEMMA ExitStep == ASSUME TypeInv, Threads, ExitInv, [Next]_vars PROVE ExitInv'
<1>1. Known'
  BY KnownStep DEF ExitInv
<1>2. Parsing' /\ Flags' /\ Returned' /\ ExitCodeHonest'
  <2>1. CASE UNCHANGED vars \/ StartBuild \/ DropQueue \/ \E b \in 1..MaxSent : FinishBuild(b)
    <3>1. UNCHANGED <<kind, handled, base, main, exitCode, reader, message,
                      stopRequested, restartAfterStop>>
      BY <2>1 DEF vars, clientVars, mainVars, readVars, flagVars, historyVars, StartBuild,
         DropQueue, FinishBuild
    <3>2. \A c : GotCommand(c)' = GotCommand(c) /\ Parses(c)' = Parses(c)
      BY <3>1, GotSame DEF Parses
    <3>3. QED
      BY <3>1, <3>2 DEF ExitInv, Parsing, Flags, Returned, ExitCodeHonest, InHandler
  <2>2. QED BY <2>1, SendExit, MainExit, IoExit DEF Next
<1>3. QED BY <1>1, <1>2 DEF ExitInv

\* run() returns Restart exactly if this image handled a RESTART, and Success
\* only if it handled a STOP.
THEOREM HonestExit == Spec => []ExitCodeHonest
<1>1. Init => ExitInv
  <2>1. <<>> \in Seq(Sent) /\ Len(<<>>) = 0
    OBVIOUS
  <2>2. QED
    BY <2>1 DEF Init, ExitInv, Known, Parsing, Flags, Returned, ExitCodeHonest, InHandler,
       GotCommand, Parses
<1>2. ExitInv => ExitCodeHonest BY DEF ExitInv
<1>3. QED BY <1>1, <1>2, ExitStep, TypeAlways, ThreadsAlways, PTL DEF Spec

-----------------------------------------------------------------------------
(* The order of the lines.                                                   *)

Increasing(s) == \A m, n \in 1..Len(s) : m < n => s[m] < s[n]

\* The members of a concatenation.
LEMMA LinesConcat ==
  ASSUME NEW S, NEW s \in Seq(S), NEW t \in Seq(S)
  PROVE  Lines(s \o t) = Lines(s) \cup Lines(t)
<1>1. /\ Len(s \o t) = Len(s) + Len(t) /\ Len(s) \in Nat /\ Len(t) \in Nat
      /\ \A i \in 1..Len(s) + Len(t) :
           (s \o t)[i] = IF i <= Len(s) THEN s[i] ELSE t[i - Len(s)]
  BY ConcatProperties
<1>2. Lines(s \o t) \subseteq Lines(s) \cup Lines(t)
  BY <1>1 DEF Lines
<1>3. Lines(s) \subseteq Lines(s \o t)
  BY <1>1 DEF Lines
<1>4. ASSUME NEW i \in 1..Len(t) PROVE t[i] \in Lines(s \o t)
  <2>1. /\ i + Len(s) \in 1..Len(s) + Len(t)
        /\ (s \o t)[i + Len(s)] = t[i]
    BY <1>1
  <2>2. QED BY <1>1, <2>1 DEF Lines
<1>5. QED BY <1>2, <1>3, <1>4 DEF Lines

\* A concatenation increases if its parts do, the one below the other.
LEMMA IncreasingConcat ==
  ASSUME NEW S, NEW s \in Seq(S), NEW t \in Seq(S)
  PROVE  Increasing(s \o t) <=>
           /\ Increasing(s) /\ Increasing(t)
           /\ \A x \in Lines(s), y \in Lines(t) : x < y
<1>1. /\ Len(s \o t) = Len(s) + Len(t) /\ Len(s) \in Nat /\ Len(t) \in Nat
      /\ \A i \in 1..Len(s) + Len(t) :
           (s \o t)[i] = IF i <= Len(s) THEN s[i] ELSE t[i - Len(s)]
  BY ConcatProperties
<1>2. /\ \A i \in 1..Len(s) : i \in 1..Len(s \o t) /\ (s \o t)[i] = s[i]
      /\ \A i \in 1..Len(t) : i + Len(s) \in 1..Len(s \o t)
                               /\ (s \o t)[i + Len(s)] = t[i]
  BY <1>1
<1>3. ASSUME Increasing(s \o t)
      PROVE  /\ Increasing(s) /\ Increasing(t)
             /\ \A x \in Lines(s), y \in Lines(t) : x < y
  <2>1. Increasing(s)
    BY <1>2, <1>3 DEF Increasing
  <2>2. ASSUME NEW m \in 1..Len(t), NEW n \in 1..Len(t), m < n PROVE t[m] < t[n]
    <3>1. m + Len(s) < n + Len(s)
      BY <1>1, <2>2
    <3>2. QED BY <1>2, <1>3, <3>1 DEF Increasing
  <2>3. ASSUME NEW m \in 1..Len(s), NEW n \in 1..Len(t) PROVE s[m] < t[n]
    <3>1. m < n + Len(s)
      BY <1>1
    <3>2. QED BY <1>2, <1>3, <3>1 DEF Increasing
  <2>4. QED BY <2>1, <2>2, <2>3 DEF Increasing, Lines
<1>4. ASSUME Increasing(s), Increasing(t),
             \A x \in Lines(s), y \in Lines(t) : x < y,
             NEW m \in 1..Len(s \o t), NEW n \in 1..Len(s \o t), m < n
      PROVE  (s \o t)[m] < (s \o t)[n]
  <2>1. CASE n <= Len(s)
    BY <1>1, <1>4, <2>1 DEF Increasing
  <2>2. CASE m > Len(s)
    <3>1. m - Len(s) \in 1..Len(t) /\ n - Len(s) \in 1..Len(t) /\ m - Len(s) < n - Len(s)
      BY <1>1, <1>4, <2>2
    <3>2. t[m - Len(s)] < t[n - Len(s)]
      BY <1>4, <3>1 DEF Increasing
    <3>3. QED BY <1>1, <1>4, <2>2, <3>2
  <2>3. CASE m <= Len(s) /\ n > Len(s)
    <3>1. m \in 1..Len(s) /\ n - Len(s) \in 1..Len(t)
      BY <1>1, <2>3
    <3>2. s[m] \in Lines(s) /\ t[n - Len(s)] \in Lines(t)
      BY <3>1 DEF Lines
    <3>3. QED BY <1>1, <1>4, <2>3, <3>1, <3>2
  <2>4. QED BY <1>1, <2>1, <2>2, <2>3
<1>5. QED BY <1>3, <1>4 DEF Increasing

\* The order, part by part.
Parts ==
  /\ Increasing(handled) /\ Increasing(buffer) /\ Increasing(pipe)
  /\ \A x \in Lines(handled), y \in Lines(buffer) : x < y
  /\ \A x \in Lines(handled) \cup Lines(buffer), y \in Lines(pipe) : x < y
  /\ Lines(handled) \cup Lines(buffer) \cup Lines(pipe) \cup lost = Sent

\* FifoOrder, which speaks of one sequence, part by part.
LEMMA PartsOrder == Known => (Parts <=> FifoOrder)
<1> SUFFICES ASSUME Known PROVE Parts <=> FifoOrder
  OBVIOUS
<1>1. /\ handled \in Seq(Sent) /\ buffer \in Seq(Sent) /\ pipe \in Seq(Sent)
      /\ handled \o buffer \in Seq(Sent)
  BY ConcatProperties DEF Known
<1>2. /\ Lines(handled \o buffer) = Lines(handled) \cup Lines(buffer)
      /\ Lines(handled \o buffer \o pipe) = Lines(handled \o buffer) \cup Lines(pipe)
  <2>1. Lines(handled \o buffer) = Lines(handled) \cup Lines(buffer)
    BY <1>1, LinesConcat, SMTT(20)
  <2>2. Lines(handled \o buffer \o pipe) = Lines(handled \o buffer) \cup Lines(pipe)
    BY <1>1, LinesConcat, ZenonT(30)
  <2>3. QED BY <2>1, <2>2
<1>3. Increasing(handled \o buffer) <=>
        /\ Increasing(handled) /\ Increasing(buffer)
        /\ \A x \in Lines(handled), y \in Lines(buffer) : x < y
  BY <1>1, IncreasingConcat
<1>4. Increasing(handled \o buffer \o pipe) <=>
        /\ Increasing(handled \o buffer) /\ Increasing(pipe)
        /\ \A x \in Lines(handled \o buffer), y \in Lines(pipe) : x < y
  BY <1>1, IncreasingConcat
<1>5. FifoOrder <=> /\ Increasing(handled \o buffer \o pipe)
                    /\ Lines(handled \o buffer \o pipe) \cup lost = Sent
  BY DEF FifoOrder, Increasing
<1>6. QED BY <1>2, <1>3, <1>4, <1>5 DEF Parts

\* One line more at the end, and one less at the front.
LEMMA LinesAppend ==
  ASSUME NEW s \in Seq(Nat), NEW e \in Nat
  PROVE  /\ Lines(Append(s, e)) = Lines(s) \cup {e}
         /\ Increasing(Append(s, e)) <=> Increasing(s) /\ \A x \in Lines(s) : x < e
<1>1. <<e>> \in Seq(Nat) /\ Append(s, e) = s \o <<e>> /\ Len(<<e>>) = 1 /\ <<e>>[1] = e
  OBVIOUS
<1>2. Lines(<<e>>) = {e} /\ Increasing(<<e>>)
  BY <1>1 DEF Lines, Increasing
<1>3. Lines(s \o <<e>>) = Lines(s) \cup Lines(<<e>>)
  BY <1>1, LinesConcat, ZenonT(30)
<1>4. Increasing(s \o <<e>>) <=>
        /\ Increasing(s) /\ Increasing(<<e>>)
        /\ \A x \in Lines(s), y \in Lines(<<e>>) : x < y
  BY <1>1, IncreasingConcat
<1>5. QED BY <1>1, <1>2, <1>3, <1>4

\* The lines of a sequence are its first and those after it.
LEMMA LinesHead ==
  ASSUME NEW s \in Seq(Nat), s # <<>>
  PROVE  /\ Lines(s) = {Head(s)} \cup Lines(Tail(s))
         /\ Increasing(s) => /\ Increasing(Tail(s))
                             /\ \A y \in Lines(Tail(s)) : Head(s) < y
<1>1. /\ Head(s) \in Nat /\ Tail(s) \in Seq(Nat) /\ <<Head(s)>> \in Seq(Nat)
      /\ Len(<<Head(s)>>) = 1 /\ <<Head(s)>>[1] = Head(s)
  BY HeadTailProperties
<1>2. s = <<Head(s)>> \o Tail(s)
  OBVIOUS
<1>3. Lines(<<Head(s)>>) = {Head(s)}
  BY <1>1 DEF Lines
<1>4. Lines(s) = Lines(<<Head(s)>>) \cup Lines(Tail(s))
  BY <1>1, <1>2, LinesConcat, ZenonT(30)
<1>5. Increasing(s) <=>
        /\ Increasing(<<Head(s)>>) /\ Increasing(Tail(s))
        /\ \A x \in Lines(<<Head(s)>>), y \in Lines(Tail(s)) : x < y
  BY <1>1, <1>2, IncreasingConcat
<1>6. QED BY <1>3, <1>4, <1>5

\* No line is skipped, swapped or handled twice by any step.
LEMMA PartsStep == ASSUME TypeInv, Threads, Known, Parts, [Next]_vars PROVE Parts'
<1>1. /\ pipe \in Seq(Nat) /\ buffer \in Seq(Nat) /\ handled \in Seq(Nat)
      /\ Len(kind) \in Nat
  <2>1. Sent \subseteq Nat
    BY DEF Sent
  <2>2. pipe \in Seq(Nat) /\ buffer \in Seq(Nat) /\ handled \in Seq(Nat)
    BY <2>1, SeqGrows DEF Known
  <2>3. QED BY <2>2 DEF TypeInv, TypeOK
<1>2. CASE \E k \in Kind : Send(k)
  <2>1. PICK k \in Kind : Send(k)
    BY <1>2
  <2>2. /\ pipe' = Append(pipe, Len(kind) + 1) /\ Len(kind') = Len(kind) + 1
        /\ UNCHANGED <<buffer, handled, lost>>
    BY <2>1 DEF Send, readVars, historyVars, TypeInv, TypeOK
  <2>3. Sent' = Sent \cup {Len(kind) + 1} /\ \A x \in Sent : x < Len(kind) + 1
    BY <1>1, <2>2 DEF Sent
  <2>4. Lines(handled) \subseteq Sent /\ Lines(buffer) \subseteq Sent /\ Lines(pipe) \subseteq Sent
    BY DEF Parts
  <2>5. /\ Lines(pipe') = Lines(pipe) \cup {Len(kind) + 1}
        /\ Increasing(pipe')
    BY <1>1, <2>2, <2>3, <2>4, LinesAppend DEF Parts
  <2>6. QED BY <2>2, <2>3, <2>4, <2>5 DEF Parts, Increasing, Lines
<1>3. CASE \E n \in 0..MaxSent, split \in BOOLEAN : ReadChunk(n, split)
  <2>1. PICK n \in 0..MaxSent, split \in BOOLEAN : ReadChunk(n, split)
    BY <1>3
  <2> DEFINE chunk == SubSeq(pipe, 1, n)
             rest == SubSeq(pipe, n + 1, Len(pipe))
  <2>2. n \in 0..Len(pipe) /\ pipe' = rest /\ buffer' = buffer \o chunk
    BY <2>1 DEF ReadChunk
  <2>3. UNCHANGED <<kind, handled, lost>>
    BY <2>1 DEF ReadChunk, clientVars, historyVars
  <2>4. chunk \in Seq(Nat) /\ rest \in Seq(Nat)
    BY <1>1, <2>2, Chunk
  <2>5. pipe = chunk \o rest
    <3>1. chunk \o rest = SubSeq(pipe, 1, Len(pipe))
      <4>1. /\ 1 \in 1..(Len(pipe) + 1) /\ n \in (1 - 1)..Len(pipe)
            /\ Len(pipe) \in n..Len(pipe)
        BY <1>1, <2>2
      <4>2. SubSeq(pipe, 1, n) \o SubSeq(pipe, n + 1, Len(pipe)) = SubSeq(pipe, 1, Len(pipe))
        BY <1>1, <4>1, ConcatAdjacentSubSeq
      <4>3. QED BY <4>2 DEF chunk, rest
    <3>2. QED BY <1>1, <3>1, SubSeqFull
  <2> HIDE DEF chunk, rest
  <2>6. /\ Lines(pipe) = Lines(chunk) \cup Lines(rest)
        /\ Increasing(chunk) /\ Increasing(rest)
        /\ \A x \in Lines(chunk), y \in Lines(rest) : x < y
    BY <2>4, <2>5, LinesConcat, IncreasingConcat DEF Parts
  <2>7. Lines(buffer \o chunk) = Lines(buffer) \cup Lines(chunk)
    BY <1>1, <2>4, LinesConcat
  <2>8. Increasing(buffer \o chunk)
    BY <1>1, <2>4, <2>6, IncreasingConcat DEF Parts
  <2>9. /\ Lines(pipe') = Lines(rest) /\ Increasing(pipe')
        /\ Lines(buffer') = Lines(buffer) \cup Lines(chunk) /\ Increasing(buffer')
        /\ Lines(handled') = Lines(handled) /\ Increasing(handled')
        /\ Sent' = Sent /\ lost' = lost
    BY <2>2, <2>3, <2>6, <2>7, <2>8 DEF Parts, Sent, Lines, Increasing
  <2>10. QED BY <2>6, <2>9 DEF Parts
<1>4. CASE GetLine
  <2>1. buffer # <<>>
    BY <1>4 DEF GetLine, Threads, TypeInv, Due
  <2>2. /\ buffer' = Tail(buffer) /\ handled' = Append(handled, Head(buffer))
        /\ UNCHANGED <<kind, pipe, lost>>
    BY <1>4 DEF GetLine, clientVars, kernelVars
  <2>3. Head(buffer) \in Nat
    BY <1>1, <2>1, HeadTailProperties
  <2>4. /\ Lines(buffer) = {Head(buffer)} \cup Lines(Tail(buffer))
        /\ Increasing(Tail(buffer))
        /\ \A y \in Lines(Tail(buffer)) : Head(buffer) < y
    BY <1>1, <2>1, LinesHead DEF Parts
  <2>5. /\ Lines(Append(handled, Head(buffer))) = Lines(handled) \cup {Head(buffer)}
        /\ Increasing(Append(handled, Head(buffer)))
    BY <1>1, <2>3, <2>4, LinesAppend DEF Parts
  <2>6. /\ Lines(handled') = Lines(handled) \cup {Head(buffer)} /\ Increasing(handled')
        /\ Lines(buffer') = Lines(Tail(buffer)) /\ Increasing(buffer')
        /\ Lines(pipe') = Lines(pipe) /\ Increasing(pipe')
        /\ Sent' = Sent /\ lost' = lost
    BY <2>2, <2>4, <2>5 DEF Parts, Sent, Lines, Increasing
  <2>7. QED BY <2>4, <2>6 DEF Parts
<1>5. CASE ExecSucceeds
  <2>1. /\ buffer' = <<>> /\ UNCHANGED <<pipe, handled>> /\ Len(kind') = Len(kind)
        /\ lost' = lost \cup Lines(buffer) \cup (IF torn THEN {Head(pipe)} ELSE {})
    <3>1. Len(kind') = Len(kind)
      BY <1>5 DEF ExecSucceeds, Sent, TypeInv, TypeOK
    <3>2. QED BY <1>5, <3>1 DEF ExecSucceeds, kernelVars
  <2>2. torn => Head(pipe) \in Lines(pipe)
    BY <1>1, LinesHead DEF TypeInv, Due
  <2>3. Lines(<<>>) = {} /\ Increasing(<<>>)
    BY DEF Lines, Increasing
  <2>4. /\ Lines(handled') = Lines(handled) /\ Increasing(handled')
        /\ Lines(buffer') = {} /\ Increasing(buffer')
        /\ Lines(pipe') = Lines(pipe) /\ Increasing(pipe')
        /\ Sent' = Sent
    BY <2>1, <2>3 DEF Parts, Sent, Lines, Increasing
  <2>5. QED BY <2>1, <2>2, <2>4 DEF Parts
<1>6. CASE EndProcess
  <2>1. /\ buffer' = <<>> /\ pipe' = <<>> /\ UNCHANGED <<kind, handled>>
        /\ lost' = lost \cup Lines(buffer) \cup Lines(pipe)
    BY <1>6 DEF EndProcess, clientVars
  <2>2. Lines(<<>>) = {} /\ Increasing(<<>>)
    BY DEF Lines, Increasing
  <2>3. /\ Lines(handled') = Lines(handled) /\ Increasing(handled')
        /\ Lines(buffer') = {} /\ Increasing(buffer')
        /\ Lines(pipe') = {} /\ Increasing(pipe')
        /\ Sent' = Sent
    BY <2>1, <2>2 DEF Parts, Sent, Lines, Increasing
  <2>4. QED BY <2>1, <2>3 DEF Parts
<1>7. CASE UNCHANGED <<kind, pipe, buffer, handled, lost>>
  BY <1>7 DEF Parts, Sent, Lines, Increasing
<1>8. CASE UNCHANGED vars \/ StartBuild \/ DropQueue \/ \E b \in 1..MaxSent : FinishBuild(b)
  BY <1>7, <1>8 DEF vars, clientVars, kernelVars, readVars, historyVars, StartBuild,
     DropQueue, FinishBuild
<1>9. CASE MainStep /\ ~ExecSucceeds /\ ~EndProcess
  BY <1>7, <1>9 DEF MainStep, InitSucceeds, InitFails, StartIo, SeeStop, StopIo, JoinIo,
     ReturnExitCode, ExecFails, CloseFifo, DestroyPool, clientVars, kernelVars, readVars,
     historyVars
<1>10. CASE ReadFails \/ ParseStop \/ ParseRestart \/ RestartStops \/ ParseBuild
            \/ ParseIgnored \/ Rearm \/ IoReturns
  BY <1>7, <1>10 DEF ReadFails, ParseStop, ParseRestart, RestartStops, ParseBuild,
     ParseIgnored, Rearm, IoReturns, clientVars, kernelVars, historyVars
<1>11. QED
  BY <1>2, <1>3, <1>4, <1>5, <1>6, <1>8, <1>9, <1>10 DEF Next, IoStep, IoRuns

\* The lines are in order, part by part, in every state.
LEMMA PartsAlways == Spec => [](Known /\ Parts)
<1>1. Init => Parts
  <2>1. Init => /\ handled = <<>> /\ buffer = <<>> /\ pipe = <<>> /\ lost = {}
                /\ Len(kind) = 0
    BY DEF Init
  <2>2. QED BY <2>1 DEF Parts, Lines, Increasing, Sent
<1>2. Init => Known
  <2>1. Init => /\ handled = <<>> /\ buffer = <<>> /\ pipe = <<>> /\ base = 0
    BY DEF Init
  <2>2. Len(<<>>) = 0 /\ <<>> \in Seq(Sent)
    OBVIOUS
  <2>3. QED BY <2>1, <2>2 DEF Known
<1>3. QED
  BY <1>1, <1>2, KnownStep, PartsStep, TypeAlways, ThreadsAlways, PTL DEF Spec

\* The lines that the clients write are handled in that order and at most
\* once, and each is handled, on its way, or lost with an image.
THEOREM InFifoOrder == Spec => []FifoOrder
<1>1. Known /\ Parts => FifoOrder
  BY PartsOrder
<1>2. QED BY <1>1, PartsAlways, PTL

-----------------------------------------------------------------------------
(* Bot implements BuildService, for any number of commands, descriptors and *)
(* pool threads: every step of a thread of the bot is one of the service's, *)
(* or changes nothing that its clients were promised.                       *)


\* The builds accepted so far: the BUILD lines whose handler is done with them.
Parsed ==
  {b \in Lines(handled) : kind[b] = "BUILD" /\ ~(reader = "parsing" /\ message = b)}

Ended == running \cup completed

\* The handler parses the last line handled, and so a line after every one
\* accepted; the pool holds each build accepted at most once.
ServiceInv ==
  /\ InHandler => Len(handled) > 0 /\ message = handled[Len(handled)]
  /\ Lines(queue) \cup Ended \subseteq Parsed
  /\ Increasing(queue)
  /\ Lines(queue) \cap Ended = {}
  /\ running \cap completed = {}

\* The main thread has left the service: init() has failed, or run() returned.
Left == main \in {"restarting", "exiting", "joiningPool", "freed", "ended"}

Serving == exitCode # "none" <=> Left

AllInv == TypeInv /\ Threads /\ Known /\ Parts /\ ServiceInv /\ Serving

\* The exit code is known from the return of run() to the next image.
LEMMA ServingAlways == Spec => []Serving
<1>1. Init => Serving
  BY DEF Init, Serving, Left
<1>2. ASSUME TypeInv, Serving, [Next]_vars PROVE Serving'
  <2> USE DEF Serving, Left
  <2>1. CASE MainStep
    BY <1>2, <2>1 DEF MainStep, InitSucceeds, InitFails, StartIo, SeeStop, StopIo, JoinIo,
       ReturnExitCode, ExecSucceeds, ExecFails, CloseFifo, DestroyPool, EndProcess
  <2>2. CASE IoStep
    <3>1. UNCHANGED mainVars
      BY <2>2 DEF IoStep, IoRuns, ReadChunk, GetLine, ParseStop, ParseRestart, RestartStops,
         ParseBuild, ParseIgnored, Rearm, IoReturns, ReadFails
    <3>2. QED BY <1>2, <3>1 DEF mainVars
  <2>3. CASE \/ UNCHANGED vars \/ StartBuild \/ DropQueue
             \/ \E k \in Kind : Send(k)
             \/ \E b \in 1..MaxSent : FinishBuild(b)
    <3>1. UNCHANGED mainVars
      BY <2>3 DEF vars, mainVars, StartBuild, DropQueue, Send, FinishBuild
    <3>2. QED BY <1>2, <3>1 DEF mainVars
  <2>4. QED BY <1>2, <2>1, <2>2, <2>3 DEF Next
<1>3. QED BY <1>1, <1>2, TypeAlways, PTL DEF Spec

\* What was cut off, by what was parsed and where it is now.
LEMMA CutOff_ == CutOffBuilds = Parsed \ (Lines(queue) \cup Ended)
  BY DEF CutOffBuilds, Parsed, Ended

\* The service's waiting builds are those of the pool's queue.
LEMMA Waiting_ == Service!Waiting = Lines(queue)
  BY DEF Service!Waiting, Lines

\* What the service takes for accepted is what was parsed.
LEMMA Accepted_ == ASSUME ServiceInv PROVE Service!Accepted = Parsed
  BY Waiting_, CutOff_ DEF Service!Accepted, ServiceInv, Ended

-----------------------------------------------------------------------------
(* What was accepted changes with ParseBuild, and with nothing else.        *)

\* A line that a client adds, or that a restart tears, is not a parsed one.
LEMMA ParsedSame ==
  ASSUME AllInv, UNCHANGED handled,
         \A b \in Lines(handled) : kind'[b] = kind[b],
         \A b \in Lines(handled) :
           kind[b] = "BUILD" =>
             ((reader' = "parsing" /\ message' = b) <=> (reader = "parsing" /\ message = b))
  PROVE  Parsed' = Parsed
<1>1. Lines(handled)' = Lines(handled)
  BY DEF Lines
<1>2. QED BY <1>1 DEF Parsed

\* A line is in the pipe or was handled, not both.
LEMMA HandledKnown ==
  ASSUME AllInv
  PROVE  /\ Lines(handled) \subseteq Sent /\ Lines(handled) \subseteq Nat
         /\ Len(kind) \in Nat
         /\ pipe # <<>> => Head(pipe) \notin Lines(handled)
         /\ buffer # <<>> => Head(buffer) \notin Lines(handled)
<1>1. Len(kind) \in Nat /\ Sent \subseteq Nat
  BY DEF AllInv, TypeInv, TypeOK, Sent
<1>2. Lines(handled) \subseteq Sent
  BY LinesIn DEF AllInv, Known
<1>3. pipe \in Seq(Nat) /\ buffer \in Seq(Nat)
  BY <1>1, SeqGrows DEF AllInv, Known
<1>4. pipe # <<>> => Head(pipe) \in Lines(pipe) /\ Head(pipe) \in Nat
  BY <1>3, LinesHead
<1>5. buffer # <<>> => Head(buffer) \in Lines(buffer) /\ Head(buffer) \in Nat
  BY <1>3, LinesHead
<1>6. /\ \A x \in Lines(handled), y \in Lines(pipe) : x < y
      /\ \A x \in Lines(handled), y \in Lines(buffer) : x < y
  BY DEF AllInv, Parts
<1>7. \A x \in Lines(handled) : x \in Nat
  BY <1>1, <1>2
<1>8. pipe # <<>> => Head(pipe) \notin Lines(handled)
  <2>1. \A x \in Lines(handled) : x = Head(pipe) => ~(x < Head(pipe))
    BY <1>7
  <2>2. QED BY <1>4, <1>6, <2>1
<1>9. buffer # <<>> => Head(buffer) \notin Lines(handled)
  <2>1. \A x \in Lines(handled) : x = Head(buffer) => ~(x < Head(buffer))
    BY <1>7
  <2>2. QED BY <1>5, <1>6, <2>1
<1>10. QED BY <1>1, <1>2, <1>7, <1>8, <1>9

-----------------------------------------------------------------------------
(* The steps that the promise does not tell from stuttering.                *)

Same == Parsed' = Parsed /\ UNCHANGED poolVars /\ UNCHANGED completed

\* A step that parses no BUILD and leaves the pool alone stutters in the service,
\* but for the return of run() and the failure of init().
LEMMA SameImplements ==
  ASSUME Same
  PROVE  /\ UNCHANGED <<queue, running, completed, CutOffBuilds>>
         /\ exitCode = "none" /\ exitCode' # "none" => Service!Quit
         /\ (exitCode' # "none" <=> exitCode # "none") => UNCHANGED Service!serviceVars
<1>1. Lines(queue)' = Lines(queue) /\ Ended' = Ended
  BY DEF Same, poolVars, Ended, Lines
<1>2. (CutOffBuilds = Parsed \ (Lines(queue) \cup Ended))'
  BY CutOff_, PTL
<1>3. CutOffBuilds' = CutOffBuilds
  BY <1>1, <1>2, CutOff_ DEF Same
<1>4. UNCHANGED <<queue, running, completed, CutOffBuilds>>
  BY <1>3 DEF Same, poolVars
<1>5. ASSUME exitCode = "none", exitCode' # "none" PROVE Service!Quit
  BY <1>4, <1>5 DEF Service!Quit
<1>6. ASSUME exitCode' # "none" <=> exitCode # "none" PROVE UNCHANGED Service!serviceVars
  BY <1>4, <1>6 DEF Service!serviceVars
<1>7. QED BY <1>4, <1>5, <1>6

\* Between two handlers the last line handled does not matter.
LEMMA SameKeeps ==
  ASSUME AllInv, Same,
         InHandler' => Len(handled') > 0 /\ message' = handled'[Len(handled')]
  PROVE  ServiceInv'
<1>1. Lines(queue)' = Lines(queue) /\ Ended' = Ended /\ Increasing(queue)' = Increasing(queue)
  BY DEF Same, poolVars, Ended, Lines, Increasing
<1>2. running' = running /\ completed' = completed /\ Parsed' = Parsed
  BY DEF Same, poolVars
<1>3. QED BY <1>1, <1>2 DEF AllInv, ServiceInv

\* A client's line changes nothing that the service knows of.
LEMMA SendSame == ASSUME AllInv, NEW k \in Kind, Send(k) PROVE Same /\ ServiceInv'
<1>1. /\ kind' = Append(kind, k)
      /\ UNCHANGED <<queue, running, handled, completed, reader, message>>
  BY DEF Send, readVars, poolVars, historyVars
<1>2. kind \in Seq(Kind)
  BY DEF AllInv, TypeInv, TypeOK
<1>3. \A b \in Sent : kind'[b] = kind[b]
  BY <1>1, <1>2 DEF Sent
<1>4. \A b \in Lines(handled) : kind'[b] = kind[b]
  BY <1>3, HandledKnown
<1>5. Parsed' = Parsed
  BY <1>1, <1>4, ParsedSame
<1>6. Same
  BY <1>1, <1>5 DEF Same, poolVars
<1>7. InHandler' => Len(handled') > 0 /\ message' = handled'[Len(handled')]
  BY <1>1 DEF AllInv, ServiceInv, InHandler
<1>8. QED BY <1>6, <1>7, SameKeeps

\* The line taken out of m_buffer is not accepted before it is parsed.
LEMMA GetLineSame == ASSUME AllInv, GetLine PROVE Same /\ ServiceInv'
<1> DEFINE line == Head(buffer)
<1>1. /\ handled' = Append(handled, line) /\ message' = line
      /\ reader = "ready" /\ reader' = "parsing"
      /\ UNCHANGED <<kind, queue, running, completed>>
  BY DEF GetLine, clientVars, poolVars
<1>2. buffer # <<>> /\ buffer \in Seq(1..MaxSent) /\ handled \in Seq(1..MaxSent)
  BY <1>1 DEF AllInv, TypeInv, TypeOK, Due, Threads, GetLine
<1>3. line \in 1..MaxSent /\ line \in Nat /\ handled \in Seq(Nat)
  <2>1. line \in 1..MaxSent
    BY <1>2, HeadTailProperties
  <2>2. 1..MaxSent \subseteq Nat
    BY BotAssumption
  <2>3. QED BY <1>2, <2>1, <2>2, SeqGrows
<1>4. line \notin Lines(handled)
  BY <1>2, HandledKnown
<1>5. Lines(Append(handled, line)) = Lines(handled) \cup {line}
  BY <1>3, LinesAppend
<1>6. Lines(handled)' = Lines(handled) \cup {line}
  BY <1>1, <1>5 DEF Lines
<1>7. Parsed' = Parsed
  BY <1>1, <1>4, <1>6 DEF Parsed
<1>8. Same
  BY <1>1, <1>7 DEF Same, poolVars
<1>9. Len(handled') > 0 /\ message' = handled'[Len(handled')]
  BY <1>1, <1>3
<1>10. QED BY <1>8, <1>9, SameKeeps

\* A handler that enqueues nothing.
LEMMA HandlerSame ==
  ASSUME AllInv, ParseStop \/ ParseRestart \/ RestartStops \/ ParseIgnored
  PROVE  Same /\ ServiceInv'
<1>1. /\ UNCHANGED <<kind, queue, running, handled, completed, message>>
      /\ InHandler /\ reader' \in {"stopping", "parsed"}
      /\ reader = "parsing" => kind[message] # "BUILD"
  BY DEF ParseStop, ParseRestart, RestartStops, ParseIgnored, Parses, InHandler, clientVars,
     poolVars, historyVars
<1>2. Parsed' = Parsed
  BY <1>1, ParsedSame
<1>3. Same
  BY <1>1, <1>2 DEF Same, poolVars
<1>4. Len(handled') > 0 /\ message' = handled'[Len(handled')]
  BY <1>1 DEF AllInv, ServiceInv
<1>5. QED BY <1>3, <1>4, SameKeeps

\* The rest of the io_service thread's steps.
LEMMA ReaderSame ==
  ASSUME AllInv,
         \/ \E n \in 0..MaxSent, split \in BOOLEAN : ReadChunk(n, split)
         \/ ReadFails \/ Rearm \/ IoReturns
  PROVE  Same /\ ServiceInv'
<1>1. /\ UNCHANGED <<kind, queue, running, handled, completed>>
      /\ reader # "parsing" /\ reader' \notin {"parsing", "stopping", "parsed"}
  BY DEF ReadChunk, ReadFails, Rearm, IoReturns, InHandler, clientVars, poolVars, historyVars
<1>2. Parsed' = Parsed
  BY <1>1, ParsedSame
<1>3. Same
  BY <1>1, <1>2 DEF Same, poolVars
<1>4. ~InHandler'
  BY <1>1 DEF InHandler
<1>5. QED BY <1>3, <1>4, SameKeeps

\* The main thread's steps within an image.
LEMMA MainSame ==
  ASSUME AllInv, MainStep, ~ExecSucceeds, ~EndProcess PROVE Same /\ ServiceInv'
<1>1. UNCHANGED <<kind, handled, completed, message>>
  BY DEF MainStep, InitSucceeds, InitFails, StartIo, SeeStop, StopIo, JoinIo, ReturnExitCode,
     ExecFails, CloseFifo, DestroyPool, clientVars, readVars, historyVars
<1>8. reader' = reader \/ (reader' = "armed" /\ main = "ready")
  BY DEF MainStep, InitSucceeds, InitFails, StartIo, SeeStop, StopIo, JoinIo, ReturnExitCode,
     ExecFails, CloseFifo, DestroyPool, readVars
<1>2. UNCHANGED <<queue, running>>
  BY DEF MainStep, InitSucceeds, InitFails, StartIo, SeeStop, StopIo, JoinIo, ReturnExitCode,
     ExecFails, CloseFifo, DestroyPool, poolVars
<1>3. main = "ready" => ~InHandler
  BY DEF AllInv, Threads
<1>4. Parsed' = Parsed
  BY <1>1, <1>8, <1>3, ParsedSame DEF InHandler
<1>5. Same
  BY <1>1, <1>2, <1>4 DEF Same, poolVars
<1>6. InHandler' => Len(handled') > 0 /\ message' = handled'[Len(handled')]
  BY <1>1, <1>8 DEF AllInv, ServiceInv, InHandler
<1>7. QED BY <1>5, <1>6, SameKeeps

-----------------------------------------------------------------------------
(* The steps of the service.                                                *)

\* What a step of the pool, or the end of an image, does to the builds.
LEMMA CutOffPrimed == (CutOffBuilds = Parsed \ (Lines(queue) \cup Ended))'
  BY CutOff_, PTL

\* The last line handled comes after every build accepted.
LEMMA LastLine ==
  ASSUME AllInv, reader = "parsing"
  PROVE  /\ message \in Lines(handled) /\ message \in Nat
         /\ \A b \in Parsed : b \in Nat /\ b < message
<1> DEFINE n == Len(handled)
<1>1. n > 0 /\ n \in Nat /\ message = handled[n] /\ handled \in Seq(1..MaxSent)
  BY DEF AllInv, ServiceInv, InHandler, TypeInv, TypeOK
<1>2. message \in Lines(handled)
  BY <1>1 DEF Lines
<1>3. \A b \in Lines(handled) : b \in Nat
  BY HandledKnown
<1>4. ASSUME NEW b \in Parsed PROVE b < message
  <2>1. PICK i \in 1..n : b = handled[i]
    BY DEF Parsed, Lines
  <2>2. b # message
    BY DEF Parsed
  <2>3. i < n
    BY <1>1, <2>1, <2>2
  <2>4. Increasing(handled) /\ n \in 1..n
    BY <1>1 DEF AllInv, Parts
  <2>5. handled[i] < handled[n]
    BY <2>1, <2>3, <2>4 DEF Increasing
  <2>6. QED BY <1>1, <2>1, <2>5
<1>5. \A b \in Parsed : b \in Nat
  BY <1>3 DEF Parsed
<1>6. QED BY <1>2, <1>3, <1>4, <1>5

\* The lines that the pool's queue holds are numbers.
LEMMA QueueNat == ASSUME AllInv PROVE queue \in Seq(Nat)
<1>1. queue \in Seq(1..MaxSent) /\ 1..MaxSent \subseteq Nat
  BY BotAssumption DEF AllInv, TypeInv, TypeOK
<1>2. QED BY <1>1, SeqGrows

\* parse() of a BUILD line is the service's Accept.
LEMMA ParseBuildServes ==
  ASSUME AllInv, ParseBuild PROVE Service!ServiceNext /\ ServiceInv'
<1>1. /\ reader = "parsing" /\ reader' = "parsed" /\ kind[message] = "BUILD"
      /\ queue' = Append(queue, message)
      /\ UNCHANGED <<kind, running, handled, completed, message>>
  BY DEF ParseBuild, Parses, clientVars, historyVars
<1>2. /\ message \in Lines(handled) /\ message \in Nat
      /\ \A b \in Parsed : b \in Nat /\ b < message
  BY <1>1, LastLine
<1>3. message \notin Parsed
  BY <1>1 DEF Parsed
<1>4. Lines(handled)' = Lines(handled)
  BY <1>1 DEF Lines
<1>5. Parsed' = Parsed \cup {message}
  BY <1>1, <1>2, <1>4 DEF Parsed
<1>6. /\ Lines(Append(queue, message)) = Lines(queue) \cup {message}
      /\ Increasing(Append(queue, message)) <=>
           Increasing(queue) /\ \A x \in Lines(queue) : x < message
  BY <1>2, QueueNat, LinesAppend
<1>7. /\ Lines(queue)' = Lines(queue) \cup {message}
      /\ Increasing(queue)' <=> Increasing(queue) /\ \A x \in Lines(queue) : x < message
  BY <1>1, <1>6 DEF Lines, Increasing
<1>8. Ended' = Ended
  BY <1>1 DEF Ended
<1>9. /\ Lines(queue) \cup Ended \subseteq Parsed /\ Increasing(queue)
      /\ Lines(queue) \cap Ended = {} /\ running \cap completed = {}
  BY DEF AllInv, ServiceInv
<1>10. ServiceInv'
  <2>1. Increasing(queue)'
    BY <1>2, <1>7, <1>9
  <2>2. (Lines(queue) \cup Ended)' \subseteq Parsed'
    BY <1>5, <1>7, <1>8, <1>9
  <2>3. Lines(queue)' \cap Ended' = {}
    BY <1>3, <1>7, <1>8, <1>9
  <2>4. Len(handled') > 0 /\ message' = handled'[Len(handled')]
    BY <1>1 DEF AllInv, ServiceInv, InHandler
  <2>5. QED BY <1>1, <1>9, <2>1, <2>2, <2>3, <2>4 DEF ServiceInv
<1>11. Service!ServiceNext
  <2>1. CutOffBuilds' = CutOffBuilds
    BY <1>3, <1>5, <1>7, <1>8, <1>9, CutOff_, CutOffPrimed
  <2>2. \A a \in Service!Accepted : a < message
    BY <1>2, Accepted_ DEF AllInv
  <2>3. exitCode = "none" /\ exitCode' = exitCode
    BY <1>1 DEF AllInv, Threads, Serving, Left, InHandler, ParseBuild, mainVars
  <2>5. Service!Accept(message)
    BY <1>1, <2>1, <2>2, <2>3 DEF Service!Accept
  <2>4. message \in 1..MaxSent
    BY DEF AllInv, TypeInv, TypeOK, Due, InHandler, ParseBuild, Parses
  <2>6. QED BY <2>4, <2>5 DEF Service!ServiceNext
<1>12. QED BY <1>10, <1>11

\* The three steps of the pool leave what was accepted alone.
LEMMA PoolParsed ==
  ASSUME AllInv, StartBuild \/ DropQueue \/ \E b \in 1..MaxSent : FinishBuild(b)
  PROVE  /\ Parsed' = Parsed
         /\ InHandler' => Len(handled') > 0 /\ message' = handled'[Len(handled')]
<1>1. UNCHANGED <<kind, handled, reader, message>>
  BY DEF StartBuild, DropQueue, FinishBuild, clientVars, readVars, historyVars
<1>2. Parsed' = Parsed
  BY <1>1, ParsedSame
<1>3. QED BY <1>1, <1>2 DEF AllInv, ServiceInv, InHandler

\* A pool thread takes the first of the queue: the service's Start.
LEMMA StartBuildServes ==
  ASSUME AllInv, StartBuild PROVE Service!ServiceNext /\ ServiceInv'
<1> DEFINE b == Head(queue)
<1>1. /\ queue # <<>> /\ Cardinality(running) < PoolSize
      /\ running' = running \cup {b} /\ queue' = Tail(queue)
      /\ UNCHANGED <<completed, exitCode>>
  BY DEF StartBuild, historyVars, mainVars
<1>2. Parsed' = Parsed
  BY PoolParsed
<1>3. /\ Lines(queue) = {b} \cup Lines(Tail(queue)) /\ Increasing(Tail(queue))
      /\ \A y \in Lines(Tail(queue)) : b < y
  BY <1>1, QueueNat, LinesHead DEF AllInv, ServiceInv
<1>4. b \notin Lines(Tail(queue))
  <2>1. b \in Nat
    BY <1>1, QueueNat, HeadTailProperties
  <2>2. ~(b < b)
    BY <2>1
  <2>3. QED BY <1>3, <2>2
<1>5. Lines(queue)' = Lines(Tail(queue)) /\ Increasing(queue)'
  BY <1>1, <1>3 DEF Lines, Increasing
<1>6. Ended' = Ended \cup {b}
  BY <1>1 DEF Ended
<1>7. /\ Lines(queue) \cup Ended \subseteq Parsed /\ Lines(queue) \cap Ended = {}
      /\ running \cap completed = {} /\ completed \subseteq Ended
  BY DEF AllInv, ServiceInv, Ended
<1>8. ServiceInv'
  <2>1. (Lines(queue) \cup Ended)' \subseteq Parsed' /\ Lines(queue)' \cap Ended' = {}
    BY <1>2, <1>3, <1>4, <1>5, <1>6, <1>7
  <2>2. running' \cap completed' = {}
    BY <1>1, <1>3, <1>7
  <2>3. QED BY <1>5, <2>1, <2>2, PoolParsed DEF ServiceInv
<1>9. CutOffBuilds' = CutOffBuilds
  BY <1>2, <1>3, <1>5, <1>6, CutOff_, CutOffPrimed
<1>10. Service!Cardinality(running) = Cardinality(running)
  BY Zenon DEF Service!Cardinality, Cardinality, Service!IsFiniteSet, IsFiniteSet
<1>11. Service!Start
  BY <1>1, <1>9, <1>10 DEF Service!Start
<1>12. QED BY <1>8, <1>11 DEF Service!ServiceNext

\* A build that ends is the service's Finish.
LEMMA FinishBuildServes ==
  ASSUME AllInv, NEW b \in 1..MaxSent, FinishBuild(b)
  PROVE  Service!ServiceNext /\ ServiceInv'
<1>1. /\ b \in running /\ running' = running \ {b}
      /\ completed' = completed \cup {b} /\ UNCHANGED <<queue, exitCode>>
  BY DEF FinishBuild, mainVars
<1>2. Parsed' = Parsed
  BY PoolParsed
<1>3. Lines(queue)' = Lines(queue) /\ (Increasing(queue)' <=> Increasing(queue))
  BY <1>1 DEF Lines, Increasing
<1>4. Ended' = Ended
  BY <1>1 DEF Ended
<1>5. ServiceInv'
  <2>1. running' \cap completed' = {}
    BY <1>1 DEF AllInv, ServiceInv
  <2>2. QED BY <1>2, <1>3, <1>4, <2>1, PoolParsed DEF AllInv, ServiceInv
<1>6. CutOffBuilds' = CutOffBuilds
  BY <1>2, <1>3, <1>4, CutOff_, CutOffPrimed
<1>7. Service!Finish(b)
  BY <1>1, <1>6 DEF Service!Finish
<1>8. QED BY <1>5, <1>7 DEF Service!ServiceNext

\* The pool's destructor that drops its queue is the service's Drop.
LEMMA DropQueueServes ==
  ASSUME AllInv, DropQueue PROVE Service!ServiceNext /\ ServiceInv'
<1>1. queue' = <<>> /\ UNCHANGED <<running, completed, exitCode>> /\ exitCode # "none"
  BY DEF DropQueue, historyVars, mainVars, AllInv, Serving, Left
<1>2. Parsed' = Parsed
  BY PoolParsed
<1>3. Lines(queue)' = {} /\ Increasing(queue)'
  BY <1>1 DEF Lines, Increasing
<1>4. Ended' = Ended
  BY <1>1 DEF Ended
<1>5. /\ Lines(queue) \cup Ended \subseteq Parsed /\ Lines(queue) \cap Ended = {}
      /\ running \cap completed = {}
  BY DEF AllInv, ServiceInv
<1>6. ServiceInv'
  BY <1>1, <1>2, <1>3, <1>4, <1>5, PoolParsed DEF ServiceInv
<1>7. CutOffBuilds' = CutOffBuilds \cup Lines(queue)
  BY <1>2, <1>3, <1>4, <1>5, CutOff_, CutOffPrimed
<1>8. Service!Drop
  BY <1>1, <1>7, Waiting_ DEF Service!Drop
<1>9. QED BY <1>6, <1>8 DEF Service!ServiceNext

\* The end of an image, or of the process: no handler is active.
LEMMA ImageEnds ==
  ASSUME AllInv, ExecSucceeds \/ EndProcess
  PROVE  Parsed' = Parsed /\ ~InHandler'
<1>1. ~InHandler
  BY DEF AllInv, Threads, ExecSucceeds, EndProcess
<1>2. reader' = "off" \/ reader' = reader
  BY DEF ExecSucceeds, EndProcess
<1>3. ~InHandler' /\ handled' = handled
  BY <1>1, <1>2 DEF InHandler, ExecSucceeds, EndProcess
<1>4. \A b \in Lines(handled) : kind'[b] = kind[b]
  <2>1. CASE ExecSucceeds
    <3>1. torn => Head(pipe) \notin Lines(handled)
      BY HandledKnown DEF AllInv, TypeInv, Due
    <3>2. kind' = [m \in Sent |->
                     IF m \in (IF torn THEN {Head(pipe)} ELSE {}) THEN "IGNORED" ELSE kind[m]]
      BY <2>1 DEF ExecSucceeds
    <3>3. \A b \in Lines(handled) : b \in Sent
      BY HandledKnown
    <3>4. QED BY <3>1, <3>2, <3>3
  <2>2. CASE EndProcess
    BY <2>2 DEF EndProcess, clientVars
  <2>3. QED BY <2>1, <2>2
<1>5. Parsed' = Parsed
  BY <1>1, <1>3, <1>4, ParsedSame DEF InHandler
<1>6. QED BY <1>3, <1>5

\* A new image, or the end of the process, is the service's CutOff.
LEMMA ImageEndsServes ==
  ASSUME AllInv, ExecSucceeds \/ EndProcess PROVE Service!ServiceNext /\ ServiceInv'
<1>1. queue' = <<>> /\ running' = {} /\ completed' = completed
  BY DEF ExecSucceeds, EndProcess
<1>2. Parsed' = Parsed /\ ~InHandler'
  BY ImageEnds
<1>3. Lines(queue)' = {} /\ Increasing(queue)'
  BY <1>1 DEF Lines, Increasing
<1>4. Ended' = completed /\ Ended = running \cup completed
  BY <1>1 DEF Ended
<1>5. /\ Lines(queue) \cup Ended \subseteq Parsed /\ Lines(queue) \cap Ended = {}
      /\ running \cap completed = {}
  BY DEF AllInv, ServiceInv
<1>6. ServiceInv'
  BY <1>1, <1>2, <1>3, <1>4, <1>5 DEF ServiceInv
<1>7. CutOffBuilds' = CutOffBuilds \cup Lines(queue) \cup running
  BY <1>2, <1>3, <1>4, <1>5, CutOff_, CutOffPrimed
<1>8. exitCode # "none"
  BY DEF ExecSucceeds, EndProcess, AllInv, Serving, Left
<1>9. Service!CutOff
  BY <1>1, <1>7, <1>8, Waiting_ DEF Service!CutOff
<1>10. QED BY <1>6, <1>9 DEF Service!ServiceNext

-----------------------------------------------------------------------------

\* Every step of the bot is a step of the service or a stutter.
LEMMA StepServes ==
  ASSUME AllInv, [Next]_vars
  PROVE  ServiceInv' /\ (Service!ServiceNext \/ UNCHANGED Service!serviceVars)
<1>1. CASE UNCHANGED vars
  <2>1. UNCHANGED <<kind, queue, running, handled, completed, reader, message, exitCode>>
    BY <1>1 DEF vars, clientVars, mainVars, readVars, poolVars, historyVars
  <2>2. Parsed' = Parsed
    BY <2>1, ParsedSame
  <2>3. Same
    BY <2>1, <2>2 DEF Same, poolVars
  <2>4. InHandler' => Len(handled') > 0 /\ message' = handled'[Len(handled')]
    BY <2>1 DEF AllInv, ServiceInv, InHandler
  <2>5. QED BY <2>1, <2>3, <2>4, SameKeeps, SameImplements
<1>2. CASE \E k \in Kind : Send(k)
  <2>1. exitCode' = exitCode
    BY <1>2 DEF Send, mainVars
  <2>2. QED BY <1>2, <2>1, SendSame, SameImplements
<1>3. CASE MainStep
  <2>1. CASE ExecSucceeds \/ EndProcess
    BY <2>1, ImageEndsServes
  <2>2. CASE ~ExecSucceeds /\ ~EndProcess
    <3>1. exitCode' = "none" => exitCode = "none"
      BY <1>3, <2>2 DEF MainStep, InitSucceeds, InitFails, StartIo, SeeStop, StopIo, JoinIo,
         ReturnExitCode, ExecFails, CloseFifo, DestroyPool
    <3>2. Same /\ ServiceInv'
      BY <1>3, <2>2, MainSame
    <3>3. Service!Quit \/ UNCHANGED Service!serviceVars
      BY <3>1, <3>2, SameImplements
    <3>4. QED BY <3>2, <3>3 DEF Service!ServiceNext
  <2>3. QED BY <2>1, <2>2
<1>4. CASE IoStep
  <2>6. exitCode' = exitCode
    BY <1>4 DEF IoStep, IoRuns, ReadChunk, GetLine, ParseStop, ParseRestart, RestartStops,
       ParseBuild, ParseIgnored, Rearm, IoReturns, ReadFails, mainVars
  <2>1. CASE \/ \E n \in 0..MaxSent, split \in BOOLEAN : ReadChunk(n, split)
             \/ ReadFails \/ Rearm \/ IoReturns
    BY <2>1, <2>6, ReaderSame, SameImplements
  <2>2. CASE ParseStop \/ ParseRestart \/ RestartStops \/ ParseIgnored
    BY <2>2, <2>6, HandlerSame, SameImplements
  <2>3. CASE GetLine
    BY <2>3, <2>6, GetLineSame, SameImplements
  <2>4. CASE ParseBuild
    BY <2>4, ParseBuildServes
  <2>5. QED BY <1>4, <2>1, <2>2, <2>3, <2>4 DEF IoStep, IoRuns
<1>5. CASE StartBuild
  BY <1>5, StartBuildServes
<1>6. CASE \E b \in 1..MaxSent : FinishBuild(b)
  BY <1>6, FinishBuildServes
<1>7. CASE DropQueue
  BY <1>7, DropQueueServes
<1>8. QED BY <1>1, <1>2, <1>3, <1>4, <1>5, <1>6, <1>7 DEF Next

\* The builds that the bot accepts are started in the order of their lines,
\* each at most once and as many at a time as the pool has threads, and none is
\* taken up again after a restart or the end (bot.cpp, main.cpp).
THEOREM BotServes == Spec => BuildServiceSpec
<1>1. Init => Service!ServiceInit /\ ServiceInv
  <2>1. Init => /\ queue = <<>> /\ running = {} /\ completed = {} /\ handled = <<>>
                /\ reader = "off" /\ exitCode = "none"
    BY DEF Init
  <2>2. Init => Lines(queue) = {} /\ Increasing(queue) /\ Parsed = {}
    BY <2>1 DEF Lines, Increasing, Parsed
  <2>3. Init => CutOffBuilds = {}
    BY <2>2, CutOff_
  <2>4. QED BY <2>1, <2>2, <2>3 DEF Service!ServiceInit, ServiceInv, InHandler, Ended
<1>2. AllInv /\ [Next]_vars =>
        ServiceInv' /\ [Service!ServiceNext]_(Service!serviceVars)
  BY StepServes
<1>3. QED
  BY <1>1, <1>2, TypeAlways, ThreadsAlways, PartsAlways, ServingAlways, PTL
     DEF Spec, AllInv, BuildServiceSpec, Service!ServiceSpec
=============================================================================
