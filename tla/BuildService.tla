---------------------------- MODULE BuildService ----------------------------
(***************************************************************************)
(* What the bot promises to those who send it BUILD lines: the builds are  *)
(* started in the order of their lines, each at most once, as many at a    *)
(* time as the pool has threads.  A build that is over stays over; one     *)
(* that was cut off, because the pool dropped it or the process was        *)
(* replaced or ended under it, is never taken up again.  No build is cut   *)
(* off, and no line refused, before the bot leaves: before it gives up its *)
(* start, or returns from run() after a STOP or a RESTART.                 *)
(*                                                                         *)
(* Bot implements this specification; BuildBot composes it with Worker.    *)
(***************************************************************************)
EXTENDS Integers, Sequences, FiniteSets

CONSTANTS
  Build,     (* the builds, numbered in the order of their BUILD lines      *)
  PoolSize   (* threads of the pool                                         *)

ASSUME BuildServiceAssumption == Build \subseteq Nat /\ PoolSize \in Nat \ {0}

VARIABLES
  waiting,   (* accepted and not started                                    *)
  running,   (* on a thread of the pool                                     *)
  over,      (* run to the end                                              *)
  cut,       (* accepted, and neither waiting nor running nor over any more *)
  leaving    (* this image takes no more lines                              *)

serviceVars == <<waiting, running, over, cut, leaving>>

Waiting == {waiting[i] : i \in 1..Len(waiting)}
Accepted == Waiting \cup running \cup over \cup cut

ServiceInit ==
  waiting = <<>> /\ running = {} /\ over = {} /\ cut = {} /\ leaving = FALSE

\* A BUILD line is parsed; the lines before it are parsed already.
Accept(b) ==
  /\ ~leaving
  /\ \A a \in Accepted : a < b
  /\ waiting' = Append(waiting, b)
  /\ UNCHANGED <<running, over, cut, leaving>>

Start ==
  /\ waiting # <<>> /\ Cardinality(running) < PoolSize
  /\ running' = running \cup {Head(waiting)}
  /\ waiting' = Tail(waiting)
  /\ UNCHANGED <<over, cut, leaving>>

Finish(b) ==
  /\ b \in running
  /\ running' = running \ {b}
  /\ over' = over \cup {b}
  /\ UNCHANGED <<waiting, cut, leaving>>

\* run() returns, or the start fails.
Quit ==
  /\ ~leaving /\ leaving' = TRUE
  /\ UNCHANGED <<waiting, running, over, cut>>

\* The pool is destroyed with builds in its queue.
Drop ==
  /\ leaving
  /\ waiting' = <<>>
  /\ cut' = cut \cup Waiting
  /\ UNCHANGED <<running, over, leaving>>

\* The process gets a new image, which serves again, or ends.
CutOff ==
  /\ leaving /\ leaving' \in BOOLEAN
  /\ waiting' = <<>> /\ running' = {}
  /\ cut' = cut \cup Waiting \cup running
  /\ UNCHANGED over

ServiceNext ==
  \/ \E b \in Build : Accept(b) \/ Finish(b)
  \/ Start \/ Quit \/ Drop \/ CutOff

ServiceSpec == ServiceInit /\ [][ServiceNext]_serviceVars
=============================================================================
