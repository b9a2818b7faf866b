--------------------------- MODULE ExecutorProofs ---------------------------
(***************************************************************************)
(* For any number of threads, any sequences of initializers and any number *)
(* of descriptors: the calls of execute() implement Execution, and leave   *)
(* nothing behind in the process; and the programs they start are what the *)
(* initializers say, and hold no error pipe but one caught in its window.  *)
(***************************************************************************)
EXTENDS Executor, WellFoundedInduction, TLAPS

Types ==
  /\ seq \in Calls
  /\ at \in [Thread -> {"on_fork_setup", "on_fork_error", "on_fork_success",
                        "returned", "threw"}]
  /\ todo \in [Thread -> SUBSET Nat]
  /\ \A t \in Thread : todo[t] \subseteq DOMAIN seq[t]
  /\ step \in [Thread -> {"begin", "piped", "garbage", "reading"}]
  /\ ec \in [Thread -> BOOLEAN]
  /\ \A t \in Thread : ec[t] => Uses(seq[t], {"set_on_error"})
  /\ DOMAIN pipe = Thread /\ DOMAIN files = Fd
  /\ kid \in [Thread -> [image : {"none", "setup", "ready", "running", "ended",
                                  "failed", "stray"},
                         ec : BOOLEAN, wrote : BOOLEAN]]
  /\ DOMAIN copy = Thread /\ DOMAIN faults = Thread

\* The error initializer of t: does it have one, is it still to be called back,
\* and is it the one whose turn it is?
HasReporter(t) == Uses(seq[t], Reporters)
Pending(t) == \E n \in todo[t] : seq[t][n].init \in Reporters
Turn(t) == todo[t] # {} /\ Current(t).init \in Reporters

\* The error initializer is in the middle of a callback only while it is its
\* turn, and before the fork there is no child.
Stage(t) ==
  /\ step[t] \in {"piped", "garbage"} => at[t] = "on_fork_setup" /\ Turn(t)
  /\ step[t] = "garbage" => ec[t]
  /\ step[t] = "reading" => at[t] = "on_fork_success" /\ Turn(t) /\ ~ec[t]
  /\ at[t] \in {"on_fork_setup", "on_fork_error"} =>
       kid[t].image = "none" /\ ~kid[t].wrote
  /\ at[t] \in {"returned", "threw"} => todo[t] = {}

\* The descriptors in fds_ are the ends of t's own pipe.
SourceOpen(t) == pipe[t].source \in Fd /\ files[pipe[t].source] = <<"source", t>>
SinkOpen(t) == pipe[t].sink \in Fd /\ files[pipe[t].sink] = <<"sink", t>>

\* As long as no error is set, they are so from pipe() to the end of the call's
\* last callback; nobody else closes them.
Ends(t) ==
  /\ step[t] = "piped" => SourceOpen(t) /\ SinkOpen(t)
  /\ at[t] = "on_fork_setup" /\ HasReporter(t) /\ ~Pending(t) /\ ~ec[t] =>
       SourceOpen(t) /\ SinkOpen(t)
  /\ at[t] \in {"on_fork_error", "on_fork_success"} /\ Pending(t) /\ ~ec[t] =>
       SourceOpen(t) /\ (step[t] # "reading" => SinkOpen(t))
  /\ at[t] = "on_fork_error" /\ HasReporter(t) /\ ~Pending(t) => ec[t]

\* What a call that needs no excuse knows of its child.
Told(t) ==
  faults[t] = {} /\ HasReporter(t) =>
    /\ at[t] = "on_fork_setup" => ~ec[t]
    /\ at[t] = "on_fork_success" /\ Pending(t) =>
         (ec[t] <=> kid[t].image = "none")
    /\ at[t] = "returned" \/ (at[t] = "on_fork_success" /\ ~Pending(t)) =>
         IF ec[t] THEN kid[t].image \in {"none", "failed"}
         ELSE kid[t].image \in {"running", "ended"}
    /\ at[t] = "threw" => kid[t].image \in {"none", "failed"}
    /\ kid[t].image \in {"setup", "ready"} =>
         /\ at[t] = "on_fork_success" /\ Pending(t) /\ ~ec[t] /\ ~kid[t].ec
         /\ pipe[t].sink \in Fd /\ copy[t].files[pipe[t].sink] = <<"sink", t>>
    /\ kid[t].image = "failed" <=> kid[t].wrote
    /\ kid[t].image # "stray"

Local(t) == Stage(t) /\ Ends(t) /\ Told(t)
Inv == Types /\ \A t \in Thread : Local(t)

-----------------------------------------------------------------------------
(* The operators.                                                           *)

\* The lowest of some natural numbers is one of them, and no higher than any.
LEMMA LowestIs ==
  ASSUME NEW S, S \subseteq Nat, S # {}
  PROVE  Lowest(S) \in S /\ \A y \in S : Lowest(S) <= y
<1>1. PICK x \in S : \A y \in S : ~(<<y, x>> \in OpToRel(<, Nat))
  BY NatLessThanWellFounded, WFMin
<1>2. ASSUME NEW y \in S PROVE x <= y
  <2>1. ~(<<y, x>> \in OpToRel(<, Nat)) /\ <<y, x>> \in Nat \X Nat
    BY <1>1
  <2>2. ~(y < x)
    BY <2>1 DEF OpToRel
  <2>3. QED BY <2>2
<1>3. QED BY <1>2 DEF Lowest

\* The error initializer is the only one of its classes.
LEMMA OneReporter ==
  ASSUME Types, NEW t \in Thread, NEW m \in DOMAIN seq[t], NEW n \in DOMAIN seq[t],
         seq[t][m].init \in Reporters, seq[t][n].init \in Reporters
  PROVE  m = n
  BY ExecutorAssumption DEF Types

\* A class is used where it stands in the sequence.
LEMMA UsesAt ==
  ASSUME NEW s, NEW classes
  PROVE  Uses(s, classes) <=> \E n \in DOMAIN s : s[n].init \in classes
  BY DEF Uses, ToSet

\* A callback of another class leaves the error initializer's to come, one of
\* its own does not; there is a turn only as long as something is to come.
LEMMA Turns ==
  ASSUME Types, NEW t \in Thread, todo[t] # {},
         NEW rest, rest = todo[t] \ {Lowest(todo[t])}
  PROVE  /\ Lowest(todo[t]) \in todo[t]
         /\ Turn(t) => Pending(t) /\ \A n \in rest : seq[t][n].init \notin Reporters
         /\ ~Turn(t) => (Pending(t) <=> \E n \in rest : seq[t][n].init \in Reporters)
<1>1. Lowest(todo[t]) \in todo[t] /\ todo[t] \subseteq DOMAIN seq[t]
  BY LowestIs DEF Types
<1>2. ASSUME Turn(t), NEW n \in rest PROVE seq[t][n].init \notin Reporters
  BY <1>1, <1>2, OneReporter DEF Turn, Current
<1>3. QED BY <1>1, <1>2 DEF Turn, Current, Pending

\* Who waits for a callback of its error initializer has one.
LEMMA TurnHas ==
  ASSUME Types, NEW t \in Thread
  PROVE  Pending(t) => HasReporter(t)
  BY UsesAt DEF Types, Pending, HasReporter

\* throw_on_error comes without an error_code.
LEMMA Arming ==
  ASSUME Types, NEW t \in Thread
  PROVE  /\ Turn(t) => (Active(t) <=> ~ec[t])
         /\ HasReporter(t) => (Reports(t) <=> Uses(seq[t], {"throw_on_error"}) \/ ~kid[t].ec)
         /\ Uses(seq[t], {"throw_on_error"}) => ~ec[t]
<1>1. ASSUME Uses(seq[t], {"throw_on_error"}) PROVE ~ec[t]
  BY <1>1, UsesAt, OneReporter DEF Types, Reporters
<1>2. ASSUME Turn(t) PROVE Active(t) <=> ~ec[t]
  <2>1. Lowest(todo[t]) \in DOMAIN seq[t]
    BY <1>2, LowestIs DEF Turn, Types
  <2>2. Throws(t) => Uses(seq[t], {"throw_on_error"})
    BY <2>1, UsesAt DEF Throws, Current
  <2>3. QED BY <1>1, <2>2 DEF Active
<1>3. ASSUME HasReporter(t)
      PROVE  Reports(t) <=> Uses(seq[t], {"throw_on_error"}) \/ ~kid[t].ec
  BY <1>3, UsesAt DEF Reports, HasReporter, Reporters
<1>4. QED BY <1>1, <1>2, <1>3

-----------------------------------------------------------------------------
(* What the parts of an action do to its thread u, and what they leave.     *)

\* Nothing of the other threads moves, nor the ends of their pipes.
Apart(u) ==
  \A t \in Thread \ {u} :
    /\ at'[t] = at[t] /\ todo'[t] = todo[t] /\ step'[t] = step[t] /\ ec'[t] = ec[t]
    /\ pipe'[t] = pipe[t] /\ kid'[t] = kid[t] /\ copy'[t] = copy[t]
    /\ faults'[t] = faults[t]
    /\ \A f \in Fd : files[f] \in {<<"source", t>>, <<"sink", t>>} => files'[f] = files[f]

\* What holds of a thread holds on when another one moves.
LEMMA Other ==
  ASSUME Types, NEW u \in Thread, NEW t \in Thread \ {u}, seq' = seq, Apart(u), Local(t)
  PROVE  Local(t)'
<1>1. /\ at'[t] = at[t] /\ todo'[t] = todo[t] /\ step'[t] = step[t] /\ ec'[t] = ec[t]
      /\ pipe'[t] = pipe[t] /\ kid'[t] = kid[t] /\ copy'[t] = copy[t]
      /\ faults'[t] = faults[t]
  BY DEF Apart
<1>2. HasReporter(t)' = HasReporter(t) /\ Pending(t)' = Pending(t) /\ Turn(t)' = Turn(t)
  BY <1>1 DEF HasReporter, Pending, Turn, Current
<1>3. \A f \in Fd : files[f] \in {<<"source", t>>, <<"sink", t>>} => files'[f] = files[f]
  BY DEF Apart
<1>4. SourceOpen(t) => SourceOpen(t)'
  BY <1>1, <1>3 DEF SourceOpen
<1>5. SinkOpen(t) => SinkOpen(t)'
  BY <1>1, <1>3 DEF SinkOpen
<1>6. Stage(t)'
  BY <1>1, <1>2 DEF Local, Stage
<1>7. Ends(t)'
  BY <1>1, <1>2, <1>4, <1>5 DEF Local, Ends
<1>8. Told(t)'
  BY <1>1, <1>2 DEF Local, Told
<1>9. QED BY <1>6, <1>7, <1>8 DEF Local

\* A callback is over, and the next one's turn.
LEMMA DoneEffect ==
  ASSUME Types, NEW u \in Thread, todo[u] # {}, Done(u), seq' = seq
  PROVE  /\ at' = at /\ step' = [step EXCEPT ![u] = "begin"]
         /\ todo' \in [Thread -> SUBSET Nat]
         /\ \A t \in Thread : todo'[t] \subseteq todo[t] /\ (t # u => todo'[t] = todo[t])
         /\ HasReporter(u)' <=> HasReporter(u)
         /\ Turn(u) => Pending(u) /\ HasReporter(u) /\ ~Pending(u)'
         /\ ~Turn(u) => (Pending(u)' <=> Pending(u))
<1>1. at' = at /\ step' = [step EXCEPT ![u] = "begin"]
      /\ todo' = [todo EXCEPT ![u] = @ \ {Lowest(@)}]
  BY DEF Done
<1>2. /\ todo' \in [Thread -> SUBSET Nat] /\ todo'[u] = todo[u] \ {Lowest(todo[u])}
      /\ \A t \in Thread : todo'[t] \subseteq todo[t] /\ (t # u => todo'[t] = todo[t])
  BY <1>1 DEF Types
<1>3. HasReporter(u)' <=> HasReporter(u)
  BY DEF HasReporter
<1>4. Pending(u)' <=> \E n \in todo'[u] : seq[u][n].init \in Reporters
  BY DEF Pending
<1>5. QED BY <1>1, <1>2, <1>3, <1>4, Turns, TurnHas

\* An exception leaves nothing to be called back.
LEMMA ThrowEffect ==
  ASSUME Types, NEW u \in Thread, Throw(u), seq' = seq
  PROVE  /\ at' = [at EXCEPT ![u] = "threw"] /\ step' = [step EXCEPT ![u] = "begin"]
         /\ todo' = [todo EXCEPT ![u] = {}]
         /\ HasReporter(u)' <=> HasReporter(u)
         /\ ~Pending(u)'
  BY DEF Throw, Types, HasReporter, Pending

\* The next callback is asked of every initializer that overrides it.
LEMMA EnterEffect ==
  ASSUME Types, NEW u \in Thread, NEW callback \in DOMAIN Overrides, Enter(u, callback),
         seq' = seq, todo[u] = {}
  PROVE  /\ at' = [at EXCEPT ![u] = callback] /\ step' = step
         /\ todo' \in [Thread -> SUBSET Nat]
         /\ \A t \in Thread : todo'[t] \subseteq DOMAIN seq[t] /\ (t # u => todo'[t] = todo[t])
         /\ HasReporter(u)' <=> HasReporter(u)
         /\ ~Pending(u) /\ ~Turn(u) /\ (Pending(u)' <=> HasReporter(u))
<1>1. Overriding(seq[u], callback) \subseteq DOMAIN seq[u]
  BY DEF Overriding
<1>2. DOMAIN seq[u] \subseteq Nat
  BY ExecutorAssumption DEF Types
<1>3. /\ at' = [at EXCEPT ![u] = callback] /\ step' = step
      /\ todo' = [todo EXCEPT ![u] = Overriding(seq[u], callback)]
  BY DEF Enter
<1>4. todo' \in [Thread -> SUBSET Nat] /\ todo'[u] = Overriding(seq[u], callback)
  BY <1>1, <1>2, <1>3 DEF Types
<1>5. \A t \in Thread : todo'[t] \subseteq DOMAIN seq[t] /\ (t # u => todo'[t] = todo[t])
  BY <1>1, <1>3 DEF Types
<1>6. HasReporter(u)' <=> HasReporter(u)
  BY DEF HasReporter
<1>7. ~Pending(u) /\ ~Turn(u)
  BY DEF Pending, Turn
<1>8. Reporters \subseteq Overrides[callback]
  BY DEF Overrides, Reporters
<1>9. Pending(u)' <=> \E n \in Overriding(seq[u], callback) : seq[u][n].init \in Reporters
  BY <1>4 DEF Pending
<1>10. Pending(u)' <=> HasReporter(u)
  BY <1>8, <1>9, UsesAt DEF HasReporter, Overriding
<1>11. QED BY <1>3, <1>4, <1>5, <1>6, <1>7, <1>10

\* Closing what belongs to u takes nothing from the others.
LEMMA CloseEffect ==
  ASSUME Types, NEW fs, Close(fs), NEW u \in Thread,
         \A f \in fs : f \in Fd => files[f] \in {<<"source", u>>, <<"sink", u>>}
  PROVE  /\ DOMAIN files' = Fd
         /\ \A f \in Fd \ fs : files'[f] = files[f]
         /\ \A t \in Thread \ {u}, f \in Fd :
              files[f] \in {<<"source", t>>, <<"sink", t>>} => files'[f] = files[f]
<1>1. files' = [f \in Fd |-> IF f \in fs THEN None ELSE files[f]]
  BY DEF Close
<1>2. ASSUME NEW t \in Thread \ {u}, NEW f \in fs, f \in Fd
      PROVE  files[f] \notin {<<"source", t>>, <<"sink", t>>}
  BY <1>2
<1>3. QED BY <1>1, <1>2

-----------------------------------------------------------------------------
(* The steps of a thread.                                                   *)

Preserved(u) == Types' /\ Apart(u) /\ Local(u)'

\* A callback that is not the error initializer's, and does not fault.
LEMMA PlainSteps ==
  ASSUME Inv, NEW u \in Thread, Calling(u), todo[u] # {}, ~Turn(u), Done(u),
         UNCHANGED <<seq, ec, pipe, files, kidVars, faults>>
  PROVE  Preserved(u)
<1> USE DEF kidVars
<1>1. Types
  BY DEF Inv
<1>2. Types'
  BY <1>1, DoneEffect DEF Types
<1>3. Apart(u)
  BY <1>1, DoneEffect DEF Apart, Types
<1>4. /\ at' = at /\ step'[u] = "begin" /\ (Pending(u)' <=> Pending(u))
      /\ HasReporter(u)' <=> HasReporter(u)
  BY <1>1, DoneEffect DEF Types
<1>5. step[u] = "begin" /\ Stage(u) /\ Ends(u) /\ Told(u)
  BY DEF Inv, Local, Stage, Types
<1>6. Stage(u)'
  BY <1>4, <1>5 DEF Stage
<1>7. (SourceOpen(u)' <=> SourceOpen(u)) /\ (SinkOpen(u)' <=> SinkOpen(u))
  BY DEF SourceOpen, SinkOpen
<1>8. Ends(u)'
  BY <1>4, <1>5, <1>7 DEF Ends
<1>9. Told(u)'
  BY <1>4, <1>5 DEF Told
<1>10. QED BY <1>2, <1>3, <1>6, <1>8, <1>9 DEF Preserved, Local

\* A step that gives its call an excuse, of a thread whose ends are not needed
\* any more.
LEMMA HandlerThrows ==
  ASSUME Inv, NEW u \in Thread, Calling(u), todo[u] # {}, ~Turn(u), Throw(u),
         Fault(u, "handler"), UNCHANGED <<seq, ec, pipe, files, kidVars>>
  PROVE  Preserved(u)
<1> USE DEF kidVars
<1>1. Types
  BY DEF Inv
<1>2. Types'
  BY <1>1, ThrowEffect, ZenonT(30) DEF Types, Fault
<1>3. Apart(u)
  BY <1>1, ThrowEffect DEF Apart, Types, Fault
<1>4. /\ at'[u] = "threw" /\ step'[u] = "begin" /\ todo'[u] = {} /\ ~Pending(u)'
      /\ faults'[u] # {}
  BY <1>1, ThrowEffect DEF Types, Fault
<1>5. Local(u)'
  BY <1>4 DEF Local, Stage, Ends, Told
<1>6. QED BY <1>2, <1>3, <1>5 DEF Preserved

\* The initializers that are not about errors.
LEMMA SmallInitializers ==
  ASSUME Inv, NEW u \in Thread,
         CallHandler(u) \/ SetEnv(u) \/ PrepareIoService(u) \/ ResumeIoService(u)
  PROVE  Preserved(u)
<1>1. CASE CallHandler(u)
  <2>1. /\ Calling(u) /\ todo[u] # {} /\ Current(u).init = at[u]
        /\ UNCHANGED <<seq, ec, pipe, files, kidVars>>
    BY <1>1 DEF CallHandler, In, Calling, Overrides, Inv, Types, Local, Stage, tableVars
  <2>2. ~Turn(u)
    BY <2>1 DEF Turn, Reporters, Calling, Overrides
  <2>3. CASE Done(u) /\ UNCHANGED faults
    BY <2>1, <2>2, <2>3, PlainSteps
  <2>4. CASE Throw(u) /\ Fault(u, "handler")
    BY <2>1, <2>2, <2>4, HandlerThrows
  <2>5. QED BY <1>1, <2>3, <2>4 DEF CallHandler
<1>2. CASE SetEnv(u) \/ PrepareIoService(u) \/ ResumeIoService(u)
  <2>1. /\ Calling(u) /\ todo[u] # {} /\ Done(u)
        /\ Current(u).init \in {"set_env", "inherit_env", "notify_io_service"}
        /\ UNCHANGED <<seq, ec, pipe, files, kidVars, faults>>
    BY <1>2 DEF SetEnv, PrepareIoService, ResumeIoService, In, Calling, Overrides,
                tableVars, historyVars
  <2>2. ~Turn(u)
    BY <2>1 DEF Turn, Reporters
  <2>3. QED BY <2>1, <2>2, PlainSteps
<1>3. QED BY <1>1, <1>2

\* fork() gives the child what the thread's pipe is known to be.
LEMMA ForkSteps ==
  ASSUME Inv, NEW u \in Thread, ForkSucceeds(u)
  PROVE  Preserved(u)
<1>1. /\ Types /\ at[u] = "on_fork_setup" /\ todo[u] = {}
      /\ Enter(u, "on_fork_success")
      /\ UNCHANGED <<seq, ec, pipe, files, faults>>
      /\ kid' = [kid EXCEPT ![u] = [NoKid EXCEPT !.image = "setup", !.ec = ec[u]]]
  BY DEF ForkSucceeds, Inv, tableVars
<1>2. DOMAIN copy' = Thread /\ copy'[u].files = files
      /\ \A t \in Thread \ {u} : copy'[t] = copy[t]
  BY <1>1 DEF ForkSucceeds, NoCopy, Types
<1>3. /\ kid'[u].image = "setup" /\ kid'[u].ec = ec[u] /\ ~kid'[u].wrote
      /\ kid' \in [Thread -> [image : {"none", "setup", "ready", "running", "ended",
                                      "failed", "stray"}, ec : BOOLEAN, wrote : BOOLEAN]]
      /\ \A t \in Thread \ {u} : kid'[t] = kid[t]
  BY <1>1 DEF NoKid, Types
<1>4. /\ at' = [at EXCEPT ![u] = "on_fork_success"] /\ step' = step
      /\ todo' \in [Thread -> SUBSET Nat]
      /\ \A t \in Thread : todo'[t] \subseteq DOMAIN seq[t] /\ (t # u => todo'[t] = todo[t])
      /\ HasReporter(u)' <=> HasReporter(u)
      /\ ~Pending(u) /\ ~Turn(u) /\ (Pending(u)' <=> HasReporter(u))
  BY <1>1, EnterEffect DEF Overrides
<1>5. Types'
  BY <1>1, <1>2, <1>3, <1>4 DEF Types
<1>6. Apart(u)
  BY <1>1, <1>2, <1>3, <1>4 DEF Apart, Types
<1>7. step[u] = "begin" /\ at'[u] = "on_fork_success" /\ Stage(u) /\ Ends(u) /\ Told(u)
  BY <1>1, <1>4 DEF Inv, Local, Stage, Types
<1>8. Stage(u)'
  BY <1>4, <1>7 DEF Stage
<1>9. (SourceOpen(u)' <=> SourceOpen(u)) /\ (SinkOpen(u)' <=> SinkOpen(u))
  BY <1>1 DEF SourceOpen, SinkOpen
<1>10. Ends(u)'
  BY <1>1, <1>4, <1>7, <1>9 DEF Ends
<1>11. HasReporter(u) /\ ~ec[u] =>
          pipe[u].sink \in Fd /\ copy'[u].files[pipe[u].sink] = <<"sink", u>>
  BY <1>1, <1>2, <1>4, <1>7 DEF Ends, SinkOpen
<1>12. Told(u)'
  BY <1>1, <1>3, <1>4, <1>7, <1>11 DEF Told
<1>13. QED BY <1>5, <1>6, <1>8, <1>10, <1>12 DEF Preserved, Local

\* Without a child the thread enters the next callback, with the error set if
\* that of on_fork_error is over.
LEMMA ForkFailsSteps ==
  ASSUME Inv, NEW u \in Thread, ForkFails(u) \/ AfterForkError(u)
  PROVE  Preserved(u)
<1>1. PICK callback \in {"on_fork_error", "on_fork_success"} :
        /\ at[u] = IF callback = "on_fork_error" THEN "on_fork_setup" ELSE "on_fork_error"
        /\ Types /\ todo[u] = {} /\ Enter(u, callback)
        /\ UNCHANGED <<seq, ec, pipe, files, faults, kid, copy>>
  BY DEF ForkFails, AfterForkError, Inv, tableVars, kidVars, historyVars
<1>2. /\ at' = [at EXCEPT ![u] = callback] /\ step' = step
      /\ todo' \in [Thread -> SUBSET Nat]
      /\ \A t \in Thread : todo'[t] \subseteq DOMAIN seq[t] /\ (t # u => todo'[t] = todo[t])
      /\ HasReporter(u)' <=> HasReporter(u)
      /\ ~Pending(u) /\ ~Turn(u) /\ (Pending(u)' <=> HasReporter(u))
  BY <1>1, EnterEffect DEF Overrides
<1>3. Types'
  BY <1>1, <1>2 DEF Types
<1>4. Apart(u)
  BY <1>1, <1>2 DEF Apart, Types
<1>5. step[u] = "begin" /\ at'[u] = callback /\ Stage(u) /\ Ends(u) /\ Told(u)
  BY <1>1, <1>2 DEF Inv, Local, Stage, Types
<1>6. Stage(u)'
  BY <1>1, <1>2, <1>5 DEF Stage
<1>7. (SourceOpen(u)' <=> SourceOpen(u)) /\ (SinkOpen(u)' <=> SinkOpen(u))
  BY <1>1 DEF SourceOpen, SinkOpen
<1>8. Ends(u)'
  BY <1>1, <1>2, <1>5, <1>7 DEF Ends
<1>9. Told(u)'
  BY <1>1, <1>2, <1>5 DEF Told, Ends, Stage
<1>10. QED BY <1>3, <1>4, <1>6, <1>8, <1>9 DEF Preserved, Local

\* The return to the caller.
LEMMA ReturnSteps ==
  ASSUME Inv, NEW u \in Thread, Return(u)
  PROVE  Preserved(u)
<1>1. /\ Types /\ at[u] = "on_fork_success" /\ todo[u] = {}
      /\ at' = [at EXCEPT ![u] = "returned"]
      /\ UNCHANGED <<seq, todo, step, ec, pipe, files, faults, kid, copy>>
  BY DEF Return, Inv, tableVars, kidVars, historyVars
<1>2. Types'
  BY <1>1 DEF Types
<1>3. Apart(u)
  BY <1>1 DEF Apart, Types
<1>4. ~Turn(u) /\ ~Pending(u) /\ at'[u] = "returned"
  BY <1>1 DEF Turn, Pending, Types
<1>5. (HasReporter(u)' <=> HasReporter(u)) /\ ~Pending(u)' /\ step[u] = "begin"
      /\ Stage(u) /\ Ends(u) /\ Told(u)
  BY <1>1, <1>4 DEF HasReporter, Pending, Inv, Local, Stage, Types
<1>6. Stage(u)' /\ Ends(u)'
  BY <1>1, <1>4, <1>5 DEF Stage, Ends
<1>7. Told(u)'
  BY <1>1, <1>4, <1>5 DEF Told
<1>8. QED BY <1>2, <1>3, <1>6, <1>7 DEF Preserved, Local

-----------------------------------------------------------------------------
(* The error initializer in the parent.                                     *)

\* pipe() takes two descriptors that are free, so it takes none from a thread.
LEMMA CreatePipeSteps ==
  ASSUME Inv, NEW u \in Thread, CreatePipe(u)
  PROVE  Preserved(u)
<1> DEFINE source == Lowest(Fd \ Open)
           sink == Lowest(Fd \ (Open \cup {source}))
<1>1. /\ Types /\ at[u] = "on_fork_setup" /\ Turn(u) /\ step[u] = "begin"
      /\ UNCHANGED <<seq, at, todo, ec, kid, copy, faults>>
      /\ pipe' = [pipe EXCEPT ![u] = [source |-> source, sink |-> sink]]
      /\ files' = [files EXCEPT ![source] = <<"source", u>>, ![sink] = <<"sink", u>>]
      /\ step' = [step EXCEPT ![u] = "piped"]
      /\ \E f, g \in Fd \ Open : f # g
  BY DEF CreatePipe, Inv, In, Turn, kidVars, historyVars
<1>2. source \in Fd \ Open /\ sink \in Fd \ (Open \cup {source})
  <2>1. Fd \subseteq Nat
    BY ExecutorAssumption DEF Fd
  <2>2. Fd \ Open # {} /\ Fd \ (Open \cup {source}) # {}
    BY <1>1
  <2>3. QED BY <2>1, <2>2, LowestIs
<1> HIDE DEF source, sink
<1>3. /\ pipe'[u].source = source /\ pipe'[u].sink = sink /\ DOMAIN pipe' = Thread
      /\ \A t \in Thread \ {u} : pipe'[t] = pipe[t]
  BY <1>1 DEF Types
<1>4. /\ files'[source] = <<"source", u>> /\ files'[sink] = <<"sink", u>>
      /\ DOMAIN files' = Fd /\ \A f \in Open : files'[f] = files[f]
  <2>1. source \in Fd /\ sink \in Fd /\ source # sink /\ Open \subseteq Fd
        /\ source \notin Open /\ sink \notin Open
    BY <1>2 DEF Open
  <2>2. QED BY <1>1, <2>1 DEF Types
<1>5. \A t \in Thread, f \in Fd : files[f] \in {<<"source", t>>, <<"sink", t>>} => f \in Open
  BY ExecutorAssumption DEF Open
<1>6. Types'
  BY <1>1, <1>3, <1>4 DEF Types
<1>7. Apart(u)
  BY <1>1, <1>3, <1>4, <1>5 DEF Apart, Types
<1>8. Turn(u)' /\ (HasReporter(u)' <=> HasReporter(u)) /\ (Pending(u)' <=> Pending(u))
      /\ step'[u] = "piped"
  BY <1>1 DEF Turn, Current, HasReporter, Pending, Types
<1>9. SourceOpen(u)' /\ SinkOpen(u)'
  BY <1>2, <1>3, <1>4 DEF SourceOpen, SinkOpen
<1>10. Stage(u) /\ Ends(u) /\ Told(u)
  BY DEF Inv, Local
<1>11. Stage(u)'
  BY <1>1, <1>8, <1>10 DEF Stage
<1>12. Ends(u)'
  BY <1>1, <1>8, <1>9 DEF Ends
<1>13. Told(u)'
  BY <1>1, <1>8, <1>10 DEF Told, Stage
<1>14. QED BY <1>6, <1>7, <1>11, <1>12, <1>13 DEF Preserved, Local

\* A turn of the error initializer is one of its callbacks to come.
LEMMA UniqueTurn ==
  ASSUME Types, NEW u \in Thread, Turn(u)
  PROVE  /\ todo[u] # {} /\ Pending(u) /\ HasReporter(u)
         /\ ~Throws(u) => Uses(seq[u], {"set_on_error"})
<1>1. Lowest(todo[u]) \in todo[u] /\ todo[u] \subseteq DOMAIN seq[u]
  BY LowestIs DEF Turn, Types
<1>2. Pending(u)
  BY <1>1 DEF Turn, Pending, Current
<1>3. ~Throws(u) => Uses(seq[u], {"set_on_error"})
  BY <1>1, UsesAt DEF Turn, Throws, Current, Reporters
<1>4. QED BY <1>2, <1>3, TurnHas DEF Turn

\* After a failed pipe(), or once its garbage is used, there is an excuse or a
\* call that is over.
LEMMA NoPipeSteps ==
  ASSUME Inv, NEW u \in Thread, CreatePipeFails(u)
  PROVE  Preserved(u)
<1>1. /\ Types /\ at[u] = "on_fork_setup" /\ Turn(u) /\ step[u] = "begin"
      /\ UNCHANGED <<seq, pipe, kid, copy, files>> /\ todo[u] # {}
      /\ Stage(u) /\ Ends(u) /\ Told(u)
  BY DEF CreatePipeFails, Inv, In, Turn, kidVars, tableVars, Local
<1>2. CASE Throws(u)
  <2>1. Throw(u) /\ UNCHANGED <<ec, faults>>
    BY <1>2 DEF CreatePipeFails
  <2>2. /\ at' = [at EXCEPT ![u] = "threw"] /\ step' = [step EXCEPT ![u] = "begin"]
        /\ todo' = [todo EXCEPT ![u] = {}]
        /\ (HasReporter(u)' <=> HasReporter(u)) /\ ~Pending(u)'
    BY <1>1, <2>1, ThrowEffect
  <2>3. Types'
    BY <1>1, <2>1, <2>2 DEF Types
  <2>4. Apart(u)
    BY <1>1, <2>1, <2>2 DEF Apart, Types
  <2>5. at'[u] = "threw" /\ step'[u] = "begin" /\ todo'[u] = {}
    BY <1>1, <2>2 DEF Types
  <2>6. Stage(u)' /\ Ends(u)'
    BY <2>2, <2>5 DEF Stage, Ends
  <2>7. Told(u)'
    BY <1>1, <2>1, <2>2, <2>5 DEF Told, Stage
  <2>8. QED BY <2>3, <2>4, <2>6, <2>7 DEF Preserved, Local
<1>3. CASE ~Throws(u)
  <2>1. /\ ec' = [ec EXCEPT ![u] = TRUE] /\ step' = [step EXCEPT ![u] = "garbage"]
        /\ Fault(u, "setup") /\ UNCHANGED <<at, todo>>
    BY <1>3 DEF CreatePipeFails
  <2>2. Uses(seq[u], {"set_on_error"})
    BY <1>1, <1>3, UniqueTurn
  <2>3. Types'
    BY <1>1, <2>1, <2>2 DEF Types, Fault
  <2>4. Apart(u)
    BY <1>1, <2>1 DEF Apart, Types, Fault
  <2>5. /\ Turn(u)' /\ ec'[u] /\ step'[u] = "garbage" /\ faults'[u] # {}
    BY <1>1, <2>1 DEF Turn, Current, Types, Fault
  <2>6. Stage(u)'
    BY <1>1, <2>1, <2>5 DEF Stage
  <2>7. Ends(u)'
    BY <1>1, <2>1, <2>5 DEF Ends
  <2>8. Told(u)'
    BY <2>5 DEF Told
  <2>9. QED BY <2>3, <2>4, <2>6, <2>7, <2>8 DEF Preserved, Local
<1>4. QED BY <1>2, <1>3

\* What has become of the files is nobody else's.
OwnFiles(u) ==
  /\ DOMAIN files' = Fd
  /\ \A t \in Thread \ {u}, f \in Fd :
       files[f] \in {<<"source", t>>, <<"sink", t>>} => files'[f] = files[f]

\* An unchanged table is one of these.
LEMMA KeptFiles == ASSUME Types, NEW u \in Thread, UNCHANGED files PROVE OwnFiles(u)
  BY DEF Types, OwnFiles

\* The last step of a callback of the error initializer.
LEMMA ReporterLeaves ==
  ASSUME Types, NEW u \in Thread, Turn(u), OwnFiles(u),
         Done(u) \/ Throw(u), UNCHANGED <<seq, pipe, kid, copy>>,
         ec' = ec \/ (ec' = [ec EXCEPT ![u] = TRUE] /\ ~Throws(u)),
         faults' = faults \/ \E f : Fault(u, f)
  PROVE  /\ Types' /\ Apart(u)
         /\ HasReporter(u) /\ HasReporter(u)' /\ Pending(u) /\ ~Pending(u)'
         /\ step'[u] = "begin" /\ kid'[u] = kid[u] /\ copy'[u] = copy[u]
         /\ Done(u) => at'[u] = at[u]
         /\ Throw(u) => at'[u] = "threw" /\ todo'[u] = {}
<1>1. /\ todo[u] # {} /\ Pending(u) /\ HasReporter(u)
      /\ ~Throws(u) => Uses(seq[u], {"set_on_error"})
  BY UniqueTurn
<1>2. /\ DOMAIN faults' = Thread /\ \A t \in Thread \ {u} : faults'[t] = faults[t]
  BY DEF Types, Fault
<1>3. /\ ec' \in [Thread -> BOOLEAN] /\ \A t \in Thread \ {u} : ec'[t] = ec[t]
      /\ \A t \in Thread : ec'[t] => Uses(seq[t], {"set_on_error"})
  BY <1>1 DEF Types
<1>4. CASE Done(u)
  <2>1. /\ at' = at /\ step' = [step EXCEPT ![u] = "begin"]
        /\ todo' \in [Thread -> SUBSET Nat]
        /\ \A t \in Thread : todo'[t] \subseteq todo[t] /\ (t # u => todo'[t] = todo[t])
        /\ HasReporter(u)' /\ ~Pending(u)'
    BY <1>1, <1>4, DoneEffect
  <2>2. Types'
    BY <1>2, <1>3, <2>1 DEF Types, OwnFiles
  <2>3. Apart(u)
    BY <1>2, <1>3, <2>1 DEF Apart, Types, OwnFiles
  <2>4. Throw(u) => at'[u] = "threw" /\ todo'[u] = {}
    BY DEF Throw, Types
  <2>5. QED BY <1>1, <2>1, <2>2, <2>3, <2>4 DEF Types
<1>5. CASE Throw(u)
  <2>1. /\ at' = [at EXCEPT ![u] = "threw"] /\ step' = [step EXCEPT ![u] = "begin"]
        /\ todo' = [todo EXCEPT ![u] = {}] /\ HasReporter(u)' /\ ~Pending(u)'
    BY <1>1, <1>5, ThrowEffect
  <2>2. Types'
    BY <1>2, <1>3, <2>1 DEF Types, OwnFiles
  <2>3. Apart(u)
    BY <1>2, <1>3, <2>1 DEF Apart, Types, OwnFiles
  <2>4. Done(u) => at'[u] = at[u]
    BY DEF Done
  <2>5. QED BY <1>1, <2>1, <2>2, <2>3, <2>4 DEF Types
<1>6. QED BY <1>4, <1>5

\* The steps after pipe(): fcntl(), or two numbers that mean nothing.
LEMMA MarkSteps ==
  ASSUME Inv, NEW u \in Thread, UseGarbage(u) \/ MarkSink(u)
  PROVE  Preserved(u)
<1>1. /\ Types /\ step[u] \in {"piped", "garbage"} /\ Done(u)
      /\ UNCHANGED <<seq, ec, pipe, files, faults, kid, copy>>
  BY DEF UseGarbage, MarkSink, InWindow, Inv, kidVars, tableVars, historyVars
<1>2. Stage(u) /\ Ends(u) /\ Told(u)
  BY DEF Inv, Local
<1>3. /\ Turn(u) /\ at[u] = "on_fork_setup" /\ (step[u] = "garbage" => ec[u])
      /\ kid[u].image = "none" /\ ~kid[u].wrote
  BY <1>1, <1>2 DEF Stage
<1>4. OwnFiles(u)
  BY <1>1, KeptFiles
<1>5. /\ Types' /\ Apart(u)
      /\ HasReporter(u) /\ HasReporter(u)' /\ Pending(u) /\ ~Pending(u)'
      /\ step'[u] = "begin" /\ kid'[u] = kid[u] /\ copy'[u] = copy[u] /\ at'[u] = at[u]
  BY <1>1, <1>3, <1>4, ReporterLeaves
<1>6. (SourceOpen(u)' <=> SourceOpen(u)) /\ (SinkOpen(u)' <=> SinkOpen(u))
  BY <1>1 DEF SourceOpen, SinkOpen
<1>7. Stage(u)'
  BY <1>3, <1>5 DEF Stage
<1>8. Ends(u)'
  BY <1>1, <1>2, <1>3, <1>5, <1>6 DEF Ends
<1>9. Told(u)'
  BY <1>1, <1>2, <1>3, <1>5 DEF Told
<1>10. QED BY <1>5, <1>7, <1>8, <1>9 DEF Preserved, Local

\* So is one where u has closed ends of its own pipe.
LEMMA CloseOwn ==
  ASSUME Types, NEW u \in Thread, NEW fs, Close(fs),
         \/ fs = {pipe[u].source, pipe[u].sink} /\ SourceOpen(u) /\ SinkOpen(u)
         \/ fs = {pipe[u].source} /\ SourceOpen(u)
         \/ fs = {pipe[u].sink} /\ SinkOpen(u)
  PROVE  OwnFiles(u)
<1>1. \A f \in fs : f \in Fd => files[f] \in {<<"source", u>>, <<"sink", u>>}
  BY DEF SourceOpen, SinkOpen
<1>2. QED BY <1>1, CloseEffect DEF OwnFiles

\* The steps in which the error initializer gives up.
LEMMA GiveUpSteps ==
  ASSUME Inv, NEW u \in Thread, MarkSinkFails(u) \/ ReportForkError(u)
  PROVE  Preserved(u)
<1>1. Types /\ Stage(u) /\ Ends(u) /\ Told(u)
  BY DEF Inv, Local
<1>2. /\ Turn(u) /\ at[u] \in {"on_fork_setup", "on_fork_error"}
      /\ UNCHANGED <<seq, pipe, kid, copy>> /\ kid[u].image = "none" /\ ~kid[u].wrote
      /\ MarkSinkFails(u) => step[u] = "piped" /\ at[u] = "on_fork_setup"
      /\ ReportForkError(u) => at[u] = "on_fork_error"
  BY <1>1 DEF MarkSinkFails, ReportForkError, InWindow, In, Turn, Stage, kidVars
<1>3. /\ HasReporter(u) /\ Pending(u) /\ (Active(u) <=> ~ec[u])
  BY <1>1, <1>2, UniqueTurn, Arming
<1>4. OwnFiles(u)
  <2>1. CASE Close({pipe[u].source, pipe[u].sink}) /\ (MarkSinkFails(u) \/ Active(u))
    <3>1. SourceOpen(u) /\ SinkOpen(u)
      BY <1>1, <1>2, <1>3, <2>1 DEF Ends, Stage
    <3>2. QED BY <1>1, <2>1, <3>1, CloseOwn
  <2>2. CASE UNCHANGED files
    BY <1>1, <2>2, KeptFiles
  <2>3. QED BY <2>1, <2>2 DEF MarkSinkFails, ReportForkError, tableVars
<1>5. /\ \/ Throw(u) /\ ec' = ec
         \/ Done(u) /\ ec' = ec /\ ec[u]
         \/ Done(u) /\ ec' = [ec EXCEPT ![u] = TRUE] /\ ~Throws(u)
      /\ faults' = faults \/ Fault(u, "setup")
      /\ MarkSinkFails(u) => Throw(u) \/ Fault(u, "setup")
  BY <1>3 DEF MarkSinkFails, ReportForkError, Report, historyVars
<1>6. /\ Types' /\ Apart(u)
      /\ HasReporter(u) /\ HasReporter(u)' /\ Pending(u) /\ ~Pending(u)'
      /\ step'[u] = "begin" /\ kid'[u] = kid[u] /\ copy'[u] = copy[u]
      /\ Done(u) => at'[u] = at[u]
      /\ Throw(u) => at'[u] = "threw" /\ todo'[u] = {}
  BY <1>1, <1>2, <1>4, <1>5, ReporterLeaves
<1>7. (at'[u] = at[u] /\ ec'[u]) \/ (at'[u] = "threw" /\ todo'[u] = {})
  <2>1. ec[u] /\ ec' = ec => ec'[u]
    OBVIOUS
  <2>2. ec' = [ec EXCEPT ![u] = TRUE] => ec'[u]
    BY <1>1 DEF Types
  <2>3. QED BY <1>5, <1>6, <2>1, <2>2
<1>8. faults'[u] # {} \/ at'[u] # "on_fork_setup"
  <2>1. Fault(u, "setup") => faults'[u] # {}
    BY <1>1 DEF Types, Fault
  <2>2. QED BY <1>2, <1>5, <1>6, <1>7, <2>1
<1>9. Stage(u)' /\ Ends(u)'
  BY <1>2, <1>6, <1>7 DEF Stage, Ends
<1>10. Told(u)'
  BY <1>2, <1>6, <1>7, <1>8 DEF Told
<1>11. QED BY <1>6, <1>9, <1>10 DEF Preserved, Local

\* on_fork_success: nothing to do when the error is set, and else the source is
\* left, to read from.
LEMMA CloseSinkSteps ==
  ASSUME Inv, NEW u \in Thread, CloseSink(u)
  PROVE  Preserved(u)
<1>1. Types /\ Stage(u) /\ Ends(u) /\ Told(u)
  BY DEF Inv, Local
<1>2. /\ Turn(u) /\ at[u] = "on_fork_success" /\ step[u] = "begin"
      /\ UNCHANGED <<seq, ec, pipe, kid, copy, faults>>
  BY DEF CloseSink, In, Turn, kidVars, historyVars
<1>3. /\ HasReporter(u) /\ Pending(u) /\ (Active(u) <=> ~ec[u])
  BY <1>1, <1>2, UniqueTurn, Arming
<1>4. CASE Active(u)
  <2>1. /\ Close({pipe[u].sink}) /\ step' = [step EXCEPT ![u] = "reading"]
        /\ UNCHANGED <<at, todo>>
    BY <1>4 DEF CloseSink
  <2>2. SourceOpen(u) /\ SinkOpen(u)
    BY <1>1, <1>2, <1>3, <1>4 DEF Ends
  <2>3. OwnFiles(u)
    BY <1>1, <2>1, <2>2, CloseOwn
  <2>4. SourceOpen(u)'
    <3>1. pipe[u].source # pipe[u].sink
      BY <2>2 DEF SourceOpen, SinkOpen
    <3>2. files'[pipe[u].source] = files[pipe[u].source]
      BY <2>1, <2>2, <3>1 DEF Close, SourceOpen
    <3>3. QED BY <1>2, <2>2, <3>2 DEF SourceOpen
  <2>5. Types'
    BY <1>1, <1>2, <2>1, <2>3 DEF Types, OwnFiles
  <2>6. Apart(u)
    BY <1>1, <1>2, <2>1, <2>3 DEF Apart, Types, OwnFiles
  <2>7. /\ Turn(u)' /\ HasReporter(u)' /\ Pending(u)' /\ step'[u] = "reading"
    BY <1>1, <1>2, <1>3, <2>1 DEF Turn, Current, HasReporter, Pending, Types
  <2>8. Stage(u)' /\ Ends(u)'
    BY <1>2, <1>3, <1>4, <2>1, <2>4, <2>7 DEF Stage, Ends
  <2>9. Told(u)'
    BY <1>1, <1>2, <1>3, <2>1, <2>7 DEF Told
  <2>10. QED BY <2>5, <2>6, <2>8, <2>9 DEF Preserved, Local
<1>5. CASE ~Active(u)
  <2>1. Done(u) /\ OwnFiles(u)
    BY <1>1, <1>5, KeptFiles DEF CloseSink, tableVars
  <2>2. /\ Types' /\ Apart(u) /\ HasReporter(u)' /\ ~Pending(u)'
        /\ step'[u] = "begin" /\ kid'[u] = kid[u] /\ copy'[u] = copy[u] /\ at'[u] = at[u]
    BY <1>1, <1>2, <2>1, ReporterLeaves
  <2>3. Stage(u)' /\ Ends(u)'
    BY <1>2, <2>2 DEF Stage, Ends
  <2>4. Told(u)'
    BY <1>1, <1>2, <1>3, <1>5, <2>2 DEF Told
  <2>5. QED BY <2>2, <2>3, <2>4 DEF Preserved, Local
<1>6. QED BY <1>4, <1>5

\* What read() tells of the child: with an error the child is over, and at the
\* end of the file the child no longer holds the sink, so it is a program.
LEMMA ReadSteps ==
  ASSUME Inv, NEW u \in Thread, ReadError(u) \/ ReadNothing(u) \/ ReadInterrupted(u)
  PROVE  Preserved(u)
<1>1. Types /\ Stage(u) /\ Ends(u) /\ Told(u)
  BY DEF Inv, Local
<1>2. /\ step[u] = "reading" /\ Close({pipe[u].source})
      /\ UNCHANGED <<seq, pipe, kid, copy>>
  BY DEF ReadError, ReadNothing, ReadInterrupted, kidVars
<1>3. /\ Turn(u) /\ at[u] = "on_fork_success" /\ ~ec[u]
  BY <1>1, <1>2 DEF Stage
<1>4. HasReporter(u) /\ Pending(u)
  BY <1>1, <1>3, UniqueTurn
<1>5. SourceOpen(u)
  BY <1>1, <1>3, <1>4 DEF Ends
<1>6. OwnFiles(u)
  BY <1>1, <1>2, <1>5, CloseOwn
<1>7. /\ \/ Throw(u) /\ ec' = ec /\ ReadError(u)
         \/ Done(u) /\ ec' = [ec EXCEPT ![u] = TRUE] /\ ~Throws(u) /\ ReadError(u)
         \/ Done(u) /\ ec' = ec /\ ~ReadError(u)
      /\ faults' = faults \/ Fault(u, "interrupted")
  <2>1. CASE ReadError(u)
    BY <2>1 DEF ReadError, Report, historyVars
  <2>2. CASE ~ReadError(u)
    BY <2>2 DEF ReadNothing, ReadInterrupted, historyVars
  <2>3. QED BY <2>1, <2>2
<1>8. /\ Types' /\ Apart(u) /\ HasReporter(u)' /\ ~Pending(u)'
      /\ step'[u] = "begin" /\ kid'[u] = kid[u] /\ copy'[u] = copy[u]
      /\ Done(u) => at'[u] = at[u]
      /\ Throw(u) => at'[u] = "threw" /\ todo'[u] = {}
  BY <1>1, <1>2, <1>3, <1>6, <1>7, ReporterLeaves
<1>9. /\ ReadError(u) => (at'[u] = at[u] /\ ec'[u]) \/ (at'[u] = "threw" /\ todo'[u] = {})
      /\ ~ReadError(u) => at'[u] = at[u] /\ ~ec'[u]
  <2>1. ec' = [ec EXCEPT ![u] = TRUE] => ec'[u]
    BY <1>1 DEF Types
  <2>2. ec' = ec => ~ec'[u]
    BY <1>3
  <2>3. QED BY <1>7, <1>8, <2>1, <2>2
<1>10. Stage(u)' /\ Ends(u)'
  BY <1>3, <1>8, <1>9 DEF Stage, Ends
<1>11. faults'[u] = {} => faults[u] = {} /\ ~ReadInterrupted(u)
  <2>1. Fault(u, "interrupted") => faults'[u] # {}
    BY <1>1 DEF Types, Fault
  <2>2. ReadInterrupted(u) => Fault(u, "interrupted")
    BY DEF ReadInterrupted
  <2>3. QED BY <1>7, <2>1, <2>2
<1>12. ASSUME faults[u] = {}, ReadError(u) PROVE kid[u].image = "failed"
  BY <1>1, <1>4, <1>12 DEF Told, ReadError
<1>13. ASSUME faults[u] = {}, ReadNothing(u) PROVE kid[u].image \in {"running", "ended"}
  <2>1. /\ ~kid[u].wrote /\ EndOfFile(u)
    BY <1>5, <1>13 DEF ReadNothing, SourceOpen
  <2>2. kid[u].image \notin {"setup", "ready"}
    BY <1>1, <1>4, <1>13, <2>1 DEF Told, EndOfFile, HoldsSink
  <2>3. kid[u].image \notin {"none", "failed", "stray"}
    BY <1>1, <1>3, <1>4, <1>13, <2>1 DEF Told
  <2>4. QED BY <1>1, <2>2, <2>3 DEF Types
<1>14. Told(u)'
  BY <1>3, <1>4, <1>8, <1>9, <1>11, <1>12, <1>13, <1>1 DEF Told
<1>15. QED BY <1>8, <1>10, <1>14 DEF Preserved, Local

-----------------------------------------------------------------------------
(* The child.                                                               *)

\* A step of the child moves the child and may excuse the call.
LEMMA KidMoves ==
  ASSUME Types, NEW u \in Thread, UNCHANGED <<seq, at, todo, step, ec, pipe, files>>,
         NEW k \in [image : {"none", "setup", "ready", "running", "ended", "failed", "stray"},
                    ec : BOOLEAN, wrote : BOOLEAN],
         kid' = [kid EXCEPT ![u] = k],
         NEW c, copy' = [copy EXCEPT ![u] = c],
         faults' = faults \/ \E f : Fault(u, f)
  PROVE  /\ Types' /\ Apart(u) /\ kid'[u] = k /\ copy'[u] = c
         /\ HasReporter(u)' = HasReporter(u) /\ Pending(u)' = Pending(u)
         /\ Turn(u)' = Turn(u)
         /\ (SourceOpen(u)' <=> SourceOpen(u)) /\ (SinkOpen(u)' <=> SinkOpen(u))
         /\ faults'[u] = {} => faults' = faults
<1>1. /\ DOMAIN faults' = Thread /\ \A t \in Thread \ {u} : faults'[t] = faults[t]
      /\ faults'[u] = {} => faults' = faults
  <2>1. CASE faults' = faults
    BY <2>1 DEF Types
  <2>2. ASSUME NEW f, Fault(u, f)
        PROVE  /\ DOMAIN faults' = Thread /\ \A t \in Thread \ {u} : faults'[t] = faults[t]
               /\ faults'[u] = faults[u] \cup {f}
    BY <2>2 DEF Types, Fault
  <2>3. QED BY <2>1, <2>2
<1>2. Types'
  BY <1>1 DEF Types
<1>3. Apart(u)
  BY <1>1 DEF Types, Apart
<1>4. kid'[u] = k /\ copy'[u] = c
  BY DEF Types
<1>5. HasReporter(u)' = HasReporter(u) /\ Pending(u)' = Pending(u) /\ Turn(u)' = Turn(u)
  BY DEF HasReporter, Pending, Turn, Current
<1>6. (SourceOpen(u)' <=> SourceOpen(u)) /\ (SinkOpen(u)' <=> SinkOpen(u))
  BY DEF SourceOpen, SinkOpen
<1>7. QED BY <1>1, <1>2, <1>3, <1>4, <1>5, <1>6

\* The child of a call without excuse is told of in Told.
Child(u, image, wrote) == [kid[u] EXCEPT !.image = image, !.wrote = wrote]

\* The steps of a child; with an error initializer in place and no excuse, its
\* sink is open up to the end of execve(), and a failed execve() is written to it.
LEMMA KidSteps ==
  ASSUME Inv, NEW u \in Thread, KidStep(u)
  PROVE  Preserved(u)
<1>1. Types /\ Stage(u) /\ Ends(u) /\ Told(u)
  BY DEF Inv, Local
<1>2. /\ UNCHANGED <<seq, at, todo, step, ec, pipe, files>>
      /\ kid[u].image \in {"setup", "ready", "running"}
  BY DEF KidStep, OnExecSetup, ExecveSucceeds, ExecveFails, KidKilled, ProgramEnds, KidOnly,
         callVars, tableVars
<1>3. /\ at[u] \notin {"on_fork_setup", "on_fork_error"}
      /\ faults[u] = {} /\ HasReporter(u) => ~kid[u].wrote
  BY <1>1, <1>2 DEF Stage, Told
\* What remains to be shown of a step to a given child.
<1>4. ASSUME NEW image \in {"ready", "running", "ended", "failed", "stray"},
             NEW wrote \in BOOLEAN, NEW c,
             kid' = [kid EXCEPT ![u] = Child(u, image, wrote)],
             copy' = [copy EXCEPT ![u] = c],
             faults' = faults \/ \E f : Fault(u, f),
             faults' = faults /\ faults[u] = {} /\ HasReporter(u) =>
               \/ /\ image = "ready" /\ kid[u].image = "setup" /\ ~wrote
                  /\ c.files[pipe[u].sink] = <<"sink", u>>
               \/ image = "running" /\ kid[u].image = "ready" /\ ~wrote
               \/ image = "ended" /\ kid[u].image = "running" /\ ~wrote
               \/ image = "failed" /\ kid[u].image = "ready" /\ wrote
      PROVE  Preserved(u)
  <2>1. /\ Child(u, image, wrote).image = image /\ Child(u, image, wrote).ec = kid[u].ec
        /\ Child(u, image, wrote).wrote = wrote
        /\ Child(u, image, wrote) \in
             [image : {"none", "setup", "ready", "running", "ended", "failed", "stray"},
              ec : BOOLEAN, wrote : BOOLEAN]
    <3> DEFINE k == kid[u]  l == [k EXCEPT !.image = image, !.wrote = wrote]
    <3>1. k \in [image : {"none", "setup", "ready", "running", "ended", "failed", "stray"},
                 ec : BOOLEAN, wrote : BOOLEAN]
      BY <1>1 DEF Types
    <3>2. Child(u, image, wrote) = l
      BY DEF Child
    <3> HIDE DEF k
    <3>3. /\ l.image = image /\ l.ec = k.ec /\ l.wrote = wrote
          /\ l \in [image : {"none", "setup", "ready", "running", "ended", "failed", "stray"},
                   ec : BOOLEAN, wrote : BOOLEAN]
      BY <3>1
    <3>4. QED BY <3>2, <3>3 DEF k
  <2>2. /\ Types' /\ Apart(u) /\ kid'[u] = Child(u, image, wrote) /\ copy'[u] = c
        /\ HasReporter(u)' = HasReporter(u) /\ Pending(u)' = Pending(u)
        /\ Turn(u)' = Turn(u)
        /\ (SourceOpen(u)' <=> SourceOpen(u)) /\ (SinkOpen(u)' <=> SinkOpen(u))
        /\ faults'[u] = {} => faults' = faults
    BY <1>1, <1>2, <1>4, <2>1, KidMoves
  <2>3. Stage(u)'
    BY <1>1, <1>2, <1>3, <2>2 DEF Stage
  <2>4. Ends(u)'
    BY <1>1, <1>2, <2>2 DEF Ends
  <2>5. Told(u)'
    BY <1>1, <1>2, <1>3, <1>4, <2>1, <2>2 DEF Told
  <2>6. QED BY <2>2, <2>3, <2>4, <2>5 DEF Preserved, Local
<1>5. kid[u] \in [image : {"none", "setup", "ready", "running", "ended", "failed", "stray"},
                  ec : BOOLEAN, wrote : BOOLEAN]
  BY <1>1 DEF Types
<1>6. CASE OnExecSetup(u)
  <2>1. /\ copy' = [copy EXCEPT ![u] = Configured(u)] /\ kid[u].image = "setup"
        /\ copy'[u] = Configured(u)
    BY <1>1, <1>6 DEF OnExecSetup, Types
  <2>2. CASE Astray(u, "on_exec_setup")
    <3>1. kid' = [kid EXCEPT ![u] = Child(u, "stray", kid[u].wrote)] /\ Fault(u, "stray")
      BY <1>1, <1>5, <1>6, <2>2 DEF OnExecSetup, Child, Types
    <3>2. faults' # faults \/ faults[u] # {}
      BY <1>1, <3>1 DEF Fault, Types
    <3>3. QED BY <1>4, <1>5, <2>1, <3>1, <3>2
  <2>3. CASE ~Astray(u, "on_exec_setup")
    <3>1. kid' = [kid EXCEPT ![u] = Child(u, "ready", kid[u].wrote)]
      BY <1>1, <1>5, <1>6, <2>3 DEF OnExecSetup, Child, Types
    <3>2. faults' = faults \/ Fault(u, "lost_sink")
      BY <1>6, <2>3 DEF OnExecSetup
    <3>3. ASSUME faults' = faults, faults[u] = {}, HasReporter(u)
          PROVE  Configured(u).files[pipe[u].sink] = <<"sink", u>>
      <4>1. ~kid[u].ec
        BY <1>1, <2>1, <3>3 DEF Told
      <4>2. Reports(u)
        BY <1>1, <3>3, <4>1, Arming
      <4>3. ~Fault(u, "lost_sink")
        <5>1. DOMAIN faults = Thread
          BY <1>1 DEF Types
        <5>2. QED BY <3>3, <5>1 DEF Fault
      <4>4. QED BY <1>6, <2>1, <2>3, <4>2, <4>3 DEF OnExecSetup
    <3>4. QED BY <1>3, <1>4, <1>5, <2>1, <3>1, <3>2, <3>3
  <2>4. QED BY <2>2, <2>3
<1>7. CASE ExecveSucceeds(u)
  <2>1. /\ kid' = [kid EXCEPT ![u] = Child(u, "running", kid[u].wrote)] /\ faults' = faults
        /\ kid[u].image = "ready"
    BY <1>1, <1>5, <1>7 DEF ExecveSucceeds, Child, Types
  <2>2. PICK c : copy' = [copy EXCEPT ![u] = c]
    BY <1>7 DEF ExecveSucceeds
  <2>3. QED BY <1>3, <1>4, <1>5, <2>1, <2>2
<1>8. CASE ExecveFails(u)
  <2> DEFINE astray == Astray(u, "on_exec_error")
             reports == Uses(Called(u, "on_exec_error"), Reporters) /\ Reports(u)
             wrote == reports /\ WritesError(u)
             image == IF astray THEN "stray" ELSE "failed"
  <2>1. /\ kid' = [kid EXCEPT ![u].image = image, ![u].wrote = wrote]
        /\ kid[u].image = "ready"
        /\ IF astray THEN Fault(u, "stray") ELSE UNCHANGED faults
    BY <1>8 DEF ExecveFails
  <2>2. wrote \in BOOLEAN
    BY Zenon DEF wrote
  <2>3. ASSUME faults' = faults, faults[u] = {}, HasReporter(u)
        PROVE  image = "failed" /\ wrote
    <3>1. ~astray
      <4>1. DOMAIN faults = Thread
        BY <1>1 DEF Types
      <4>2. ~Fault(u, "stray")
        BY <2>3, <4>1 DEF Fault
      <4>3. QED BY <2>1, <4>2
    <3>2. Called(u, "on_exec_error") = seq[u]
      BY <3>1 DEF Astray
    <3>3. /\ ~kid[u].ec /\ copy[u].files[pipe[u].sink] = <<"sink", u>>
      BY <1>1, <2>1, <2>3 DEF Told
    <3>4. Reports(u)
      BY <1>1, <2>3, <3>3, Arming
    <3>5. QED BY <2>3, <3>1, <3>2, <3>3, <3>4 DEF WritesError, HasReporter
  <2>4. PICK c : copy' = [copy EXCEPT ![u] = c]
    BY <1>8 DEF ExecveFails
  <2>5. image \in {"stray", "failed"}
    OBVIOUS
  <2> HIDE DEF wrote, image
  <2>6. kid' = [kid EXCEPT ![u] = Child(u, image, wrote)]
    BY <1>1, <1>5, <2>1 DEF Child, Types
  <2>7. faults' = faults \/ Fault(u, "stray")
    BY <2>1
  <2>8. QED BY <1>4, <2>1, <2>2, <2>3, <2>4, <2>5, <2>6, <2>7
<1>9. CASE KidKilled(u)
  <2>1. /\ kid' = [kid EXCEPT ![u] = Child(u, "failed", kid[u].wrote)] /\ Fault(u, "killed")
    BY <1>1, <1>5, <1>9 DEF KidKilled, Exits, Child, Types
  <2>2. PICK c : copy' = [copy EXCEPT ![u] = c]
    BY <1>9 DEF KidKilled, Exits
  <2>3. faults' # faults \/ faults[u] # {}
    BY <1>1, <2>1 DEF Fault, Types
  <2>4. QED BY <1>4, <1>5, <2>1, <2>2, <2>3
<1>10. CASE ProgramEnds(u)
  <2>1. /\ kid' = [kid EXCEPT ![u] = Child(u, "ended", kid[u].wrote)] /\ faults' = faults
        /\ kid[u].image = "running"
    BY <1>1, <1>5, <1>10 DEF ProgramEnds, Exits, Child, Types
  <2>2. PICK c : copy' = [copy EXCEPT ![u] = c]
    BY <1>10 DEF ProgramEnds, Exits
  <2>3. QED BY <1>3, <1>4, <1>5, <2>1, <2>2
<1>11. QED BY <1>6, <1>7, <1>8, <1>9, <1>10 DEF KidStep

-----------------------------------------------------------------------------
(* The invariant.                                                           *)

\* Before the calls no pipe is open.
LEMMA InitInv == Init => Inv
<1> SUFFICES ASSUME Init PROVE Inv
  OBVIOUS
<1> USE DEF Init
<1>1. \A t \in Thread : Overriding(seq[t], "on_fork_setup") \subseteq DOMAIN seq[t]
                        /\ DOMAIN seq[t] \subseteq Nat
  BY ExecutorAssumption DEF Overriding
<1>2. Types
  BY <1>1, ExecutorAssumption DEF Types, NoKid
<1>3. ASSUME NEW t \in Thread PROVE Local(t)
  <2>1. Reporters \subseteq Overrides["on_fork_setup"]
    BY DEF Overrides, Reporters
  <2>2. HasReporter(t) => Pending(t)
    BY <2>1, UsesAt DEF HasReporter, Pending, Overriding
  <2>3. Stage(t)
    BY DEF Stage, NoKid
  <2>4. Ends(t)
    BY <2>2 DEF Ends
  <2>5. Told(t)
    BY DEF Told, NoKid
  <2>6. QED BY <2>3, <2>4, <2>5 DEF Local
<1>4. QED BY <1>2, <1>3 DEF Inv

\* All steps of a thread and of its child.
LEMMA ThreadSteps ==
  ASSUME Inv, NEW u \in Thread, CallStep(u) \/ ReadInterrupted(u) \/ KidStep(u)
  PROVE  Preserved(u)
<1>1. CASE CallHandler(u) \/ SetEnv(u) \/ PrepareIoService(u) \/ ResumeIoService(u)
  BY <1>1, SmallInitializers
<1>2. CASE CreatePipe(u)
  BY <1>2, CreatePipeSteps
<1>3. CASE CreatePipeFails(u)
  BY <1>3, NoPipeSteps
<1>4. CASE UseGarbage(u) \/ MarkSink(u)
  BY <1>4, MarkSteps
<1>5. CASE MarkSinkFails(u) \/ ReportForkError(u)
  BY <1>5, GiveUpSteps
<1>6. CASE ForkSucceeds(u)
  BY <1>6, ForkSteps
<1>7. CASE ForkFails(u) \/ AfterForkError(u)
  BY <1>7, ForkFailsSteps
<1>8. CASE CloseSink(u)
  BY <1>8, CloseSinkSteps
<1>9. CASE ReadError(u) \/ ReadNothing(u) \/ ReadInterrupted(u)
  BY <1>9, ReadSteps
<1>10. CASE Return(u)
  BY <1>10, ReturnSteps
<1>11. CASE KidStep(u)
  BY <1>11, KidSteps
<1>12. QED
  BY <1>1, <1>2, <1>3, <1>4, <1>5, <1>6, <1>7, <1>8, <1>9, <1>10, <1>11
     DEF CallStep, SetsUpPipe, ReadsPipe

\* No step of a thread changes what it was called with.
LEMMA SameCalls ==
  ASSUME NEW u \in Thread, CallStep(u) \/ ReadInterrupted(u) \/ KidStep(u)
  PROVE  seq' = seq
  BY DEF CallStep, SetsUpPipe, ReadsPipe, KidStep, CallHandler, SetEnv, PrepareIoService,
         ResumeIoService, CreatePipe, CreatePipeFails, UseGarbage, MarkSink, MarkSinkFails,
         ForkSucceeds, ForkFails, ReportForkError, AfterForkError, CloseSink, ReadError,
         ReadNothing, ReadInterrupted, Return, OnExecSetup, ExecveSucceeds, ExecveFails,
         KidKilled, ProgramEnds, KidOnly, callVars

\* So the invariant is inductive,
LEMMA StepInv == Inv /\ [Next]_vars => Inv'
<1> SUFFICES ASSUME Inv, [Next]_vars PROVE Inv'
  OBVIOUS
<1>1. ASSUME NEW u \in Thread, CallStep(u) \/ ReadInterrupted(u) \/ KidStep(u)
      PROVE  Inv'
  <2>1. Preserved(u) /\ seq' = seq
    BY <1>1, ThreadSteps, SameCalls
  <2>2. \A t \in Thread \ {u} : Local(t)'
    BY <2>1, Other DEF Inv, Preserved
  <2>3. QED BY <2>1, <2>2 DEF Inv, Preserved
<1>2. CASE UNCHANGED vars
  <2>1. UNCHANGED <<seq, at, todo, step, ec, pipe, files, kid, copy, faults>>
    BY <1>2 DEF vars, callVars, tableVars, kidVars, historyVars
  <2>2. Types'
    BY <2>1 DEF Inv, Types
  <2>3. ASSUME NEW t \in Thread PROVE Local(t)'
    <3>1. HasReporter(t)' = HasReporter(t) /\ Pending(t)' = Pending(t) /\ Turn(t)' = Turn(t)
      BY <2>1 DEF HasReporter, Pending, Turn, Current
    <3>2. (SourceOpen(t)' <=> SourceOpen(t)) /\ (SinkOpen(t)' <=> SinkOpen(t))
      BY <2>1 DEF SourceOpen, SinkOpen
    <3>3. QED BY <2>1, <3>1, <3>2 DEF Inv, Local, Stage, Ends, Told
  <2>4. QED BY <2>2, <2>3 DEF Inv
<1>3. QED BY <1>1, <1>2 DEF Next

\* and holds.
LEMMA Invariance == Spec => []Inv
  BY InitInv, StepInv, PTL DEF Spec

-----------------------------------------------------------------------------
(* The calls implement Execution.                                           *)

Call_ == [t \in Thread |-> Outcome(t)]
Program_ == [t \in Thread |->
               IF kid[t].image \in {"running", "ended"} THEN "started" ELSE "none"]

\* Before the calls nobody has got anything.
LEMMA InitImplements == Init => Promise!ExecutionInit
  BY DEF Init, Promise!ExecutionInit, Outcome, Excused, NoKid

\* An excuse stays one.
LEMMA ExcusedStays ==
  ASSUME Inv, [Next]_vars
  PROVE  Excused' \in SUBSET Thread /\ Excused \subseteq Excused'
<1>1. Excused' \in SUBSET Thread
  BY DEF Excused
<1>2. CASE UNCHANGED vars
  BY <1>2 DEF Excused, vars, callVars, historyVars
<1>3. ASSUME ~damaged, NEW u \in Thread, CallStep(u) \/ ReadInterrupted(u) \/ KidStep(u)
      PROVE  Excused \subseteq Excused'
  <2>1. seq' = seq
    BY <1>3, SameCalls
  <2>2. faults' = faults \/ \E f : Fault(u, f)
    BY <1>3 DEF CallStep, SetsUpPipe, ReadsPipe, KidStep, CallHandler, SetEnv,
         PrepareIoService, ResumeIoService, CreatePipe, CreatePipeFails, UseGarbage,
         MarkSink, MarkSinkFails, ForkSucceeds, ForkFails, ReportForkError, AfterForkError,
         CloseSink, ReadError, ReadNothing, ReadInterrupted, Return, OnExecSetup,
         ExecveSucceeds, ExecveFails, KidKilled, ProgramEnds, historyVars
  <2>3. \A t \in Thread : faults[t] # {} => faults'[t] # {}
    BY <2>2 DEF Fault, Inv, Types
  <2>4. QED BY <1>1, <1>3, <2>1, <2>3 DEF Excused
<1>4. QED BY <1>1, <1>2, <1>3 DEF Next

\* A step of Execution, in terms of what it changes.
LEMMA Implements ==
  ASSUME Inv, [Next]_vars,
         \/ Call_' = Call_ /\ Program_' = Program_
         \/ \E u \in Thread : Promise!StartProgram(u) \/ Promise!ReturnChild(u)
                             \/ Promise!ReportError(u)
  PROVE  Promise!ExecutionNext
  BY ExcusedStays DEF Promise!ExecutionNext, Call_, Program_

\* A step of a thread is taken inside its call, and starts no program.
LEMMA ParentStep ==
  ASSUME Inv, NEW u \in Thread, CallStep(u) \/ ReadInterrupted(u)
  PROVE  /\ Calling(u)
         /\ kid'[u].image \in {"running", "ended"} <=> kid[u].image \in {"running", "ended"}
<1>1. Types /\ Stage(u)
  BY DEF Inv, Local
<1>2. CASE ForkSucceeds(u)
  BY <1>1, <1>2 DEF ForkSucceeds, Calling, Overrides, NoKid, Stage, Types
<1>3. CASE CallHandler(u)
  <2>1. at[u] \notin {"returned", "threw"} /\ kid' = kid
    BY <1>1, <1>3 DEF CallHandler, In, Stage, kidVars
  <2>2. QED BY <1>1, <2>1 DEF Calling, Overrides, Types
<1>4. CASE ~ForkSucceeds(u) /\ ~CallHandler(u)
  <2>1. kid' = kid
    BY <1>4 DEF CallStep, SetsUpPipe, ReadsPipe, SetEnv, PrepareIoService, ResumeIoService,
         CreatePipe, CreatePipeFails, UseGarbage, MarkSink, MarkSinkFails, ForkFails,
         ReportForkError, AfterForkError, CloseSink, ReadError, ReadNothing,
         ReadInterrupted, Return, kidVars
  <2>2. at[u] \in {"on_fork_setup", "on_fork_error", "on_fork_success"}
    BY <1>1, <1>4 DEF CallStep, SetsUpPipe, ReadsPipe, SetEnv, PrepareIoService,
         ResumeIoService, CreatePipe, CreatePipeFails, UseGarbage, MarkSink, MarkSinkFails,
         ForkFails, ReportForkError, AfterForkError, CloseSink, ReadError, ReadNothing,
         ReadInterrupted, Return, In, InWindow, Stage
  <2>3. QED BY <2>1, <2>2 DEF Calling, Overrides
<1>5. QED BY <1>2, <1>3, <1>4

\* Every step of a thread or child is one of Execution, or leaves it alone.
LEMMA StepImplements ==
  Inv /\ Inv' /\ [Next]_vars => [Promise!ExecutionNext]_(Promise!executionVars)
<1> SUFFICES ASSUME Inv, Inv', [Next]_vars PROVE Promise!ExecutionNext
  OBVIOUS
<1>1. CASE UNCHANGED vars
  <2>1. Call_' = Call_ /\ Program_' = Program_
    BY <1>1 DEF Call_, Program_, Outcome, vars, callVars, kidVars
  <2>2. QED BY <2>1, Implements
<1>2. ASSUME NEW u \in Thread, CallStep(u) \/ ReadInterrupted(u) \/ KidStep(u), ~damaged
      PROVE  Promise!ExecutionNext
  <2>1. Apart(u) /\ Types /\ Types' /\ Stage(u) /\ Told(u) /\ Told(u)'
    BY <1>2, ThreadSteps DEF Preserved, Inv, Local
  <2>2. seq' = seq /\ (HasReporter(u)' <=> HasReporter(u))
    BY <1>2, SameCalls DEF HasReporter
  <2>3. \A t \in Thread \ {u} :
          Outcome(t)' = Outcome(t) /\ at'[t] = at[t] /\ kid'[t] = kid[t]
    BY <2>1 DEF Apart, Outcome
  <2>4. /\ Call_' = [Call_ EXCEPT ![u] = Outcome(u)']
        /\ Program_' = [Program_ EXCEPT ![u] =
              IF kid'[u].image \in {"running", "ended"} THEN "started" ELSE "none"]
    BY <2>3 DEF Call_, Program_
  <2>5. u \notin Excused' => (faults'[u] = {} /\ HasReporter(u)') \/ u \notin Thread
    BY DEF Excused, HasReporter
  <2>6. u \notin Excused => faults[u] = {} /\ HasReporter(u)
    BY DEF Excused, HasReporter
  <2>7. CASE CallStep(u) \/ ReadInterrupted(u)
    <3>1. /\ Calling(u) /\ Outcome(u) = "calling" /\ Call_[u] = "calling"
          /\ Program_' = Program_
      BY <2>1, <2>4, <2>7, ParentStep DEF Inv, Calling, Overrides, Outcome, Call_, Program_
    <3>2. CASE at'[u] \notin {"returned", "threw"}
      <4>1. Outcome(u)' = "calling"
        BY <3>2 DEF Outcome
      <4>2. Call_' = Call_
        BY <2>4, <3>1, <4>1 DEF Call_
      <4>3. QED BY <3>1, <4>2, Implements
    <3>3. CASE at'[u] = "threw"
      <4>1. Call_' = [Call_ EXCEPT ![u] = "error"]
        BY <2>4, <3>3 DEF Outcome
      <4>2. Program_[u] = "none" \/ u \in Excused'
        BY <2>1, <2>4, <2>5, <3>1, <3>3 DEF Told, Program_
      <4>3. Promise!ReportError(u)
        BY <3>1, <4>1, <4>2 DEF Promise!ReportError, Call_, Program_
      <4>4. QED BY <4>3, Implements
    <3>4. CASE at'[u] = "returned"
      <4>1. Call_' = [Call_ EXCEPT ![u] = IF ec'[u] THEN "error" ELSE "child"]
        BY <2>4, <3>4 DEF Outcome
      <4>2. CASE ec'[u]
        <5>1. Program_[u] = "none" \/ u \in Excused'
          BY <2>1, <2>4, <2>5, <3>1, <3>4, <4>2 DEF Told, Program_
        <5>2. Promise!ReportError(u)
          BY <3>1, <4>1, <4>2, <5>1 DEF Promise!ReportError, Call_, Program_
        <5>3. QED BY <5>2, Implements
      <4>3. CASE ~ec'[u]
        <5>1. Program_[u] = "started" \/ u \in Excused'
          BY <2>1, <2>4, <2>5, <3>1, <3>4, <4>3 DEF Told, Program_
        <5>2. Promise!ReturnChild(u)
          BY <3>1, <4>1, <4>3, <5>1 DEF Promise!ReturnChild, Call_, Program_
        <5>3. QED BY <5>2, Implements
      <4>4. QED BY <4>2, <4>3
    <3>5. QED BY <3>2, <3>3, <3>4
  <2>8. CASE KidStep(u)
    <3>1. at' = at /\ ec' = ec
      BY <2>8 DEF KidStep, OnExecSetup, ExecveSucceeds, ExecveFails, KidKilled, ProgramEnds,
                  KidOnly, callVars
    <3>2. Call_' = Call_
      BY <3>1 DEF Call_, Outcome
    <3>3. CASE ExecveSucceeds(u)
      <4>1. kid[u].image = "ready" /\ kid'[u].image = "running"
        BY <2>1, <3>3 DEF ExecveSucceeds, Types
      <4>2. Program_[u] = "none" /\ Program_' = [Program_ EXCEPT ![u] = "started"]
        BY <2>4, <4>1 DEF Program_
      <4>3. Call_[u] = "calling" \/ u \in Excused
        BY <2>1, <2>6, <4>1 DEF Told, Call_, Outcome
      <4>4. Promise!StartProgram(u)
        BY <3>2, <4>2, <4>3 DEF Promise!StartProgram, Call_, Program_
      <4>5. QED BY <4>4, Implements
    <3>4. CASE ~ExecveSucceeds(u)
      <4>1. kid'[u].image \in {"running", "ended"} <=> kid[u].image \in {"running", "ended"}
        BY <2>1, <2>8, <3>4 DEF KidStep, OnExecSetup, ExecveFails, KidKilled, ProgramEnds,
                                Exits, Types
      <4>2. Program_' = Program_
        BY <2>4, <4>1 DEF Program_
      <4>3. QED BY <3>2, <4>2, Implements
    <3>5. QED BY <3>3, <3>4
  <2>9. QED BY <1>2, <2>7, <2>8
<1>3. QED BY <1>1, <1>2 DEF Next

\* A call with an error initializer gives a child only when the program runs,
\* and an error only when it never does, unless one of the exceptions that
\* Excused names has happened to it: for every table of descriptors that the
\* threads share (posix/executor.hpp, set_on_error.hpp, throw_on_error.hpp).
THEOREM CallsHonour == Spec => ExecutionPromised
<1>1. Init => Promise!ExecutionInit
  BY InitImplements
<1>2. Inv /\ Inv' /\ [Next]_vars => [Promise!ExecutionNext]_(Promise!executionVars)
  BY StepImplements
<1>3. QED
  BY <1>1, <1>2, Invariance, PTL DEF Spec, ExecutionPromised, Promise!ExecutionSpec

-----------------------------------------------------------------------------
(* What a call leaves behind.                                               *)

Excepted(t) == faults[t] \cap {"stale_ec", "handler"} # {}

\* From pipe() to the last callback of the error initializer; no longer once an
\* error is set.
Busy(t) ==
  /\ HasReporter(t) /\ ~ec[t]
  /\ \/ step[t] = "piped"
     \/ at[t] = "on_fork_setup" /\ ~Pending(t)
     \/ at[t] \in {"on_fork_error", "on_fork_success"} /\ Pending(t)

\* A descriptor of t's pipe is one of fds_, and t is still about to close it.
Held(t) ==
  ~Excepted(t) =>
    /\ \A f \in Fd :
         /\ files[f] = <<"source", t>> => f = pipe[t].source /\ Busy(t)
         /\ files[f] = <<"sink", t>> =>
              f = pipe[t].sink /\ Busy(t) /\ step[t] # "reading"
    /\ at[t] = "on_fork_setup" /\ Pending(t) /\ ec[t] => step[t] = "garbage"

\* Who has told the io_service of a fork is still to tell it that it is done.
Notified(t) ==
  t \in prepared =>
    /\ at[t] # "returned"
    /\ at[t] \in {"on_fork_setup", "on_fork_error"} => Uses(seq[t], {"notify_io_service"})
    /\ at[t] = "on_fork_success" => \E n \in todo[t] : seq[t][n].init = "notify_io_service"

Left(t) == Held(t) /\ Notified(t)
AllLeft == \A t \in Thread : Left(t)

Steps(u) == CallStep(u) \/ ReadInterrupted(u) \/ KidStep(u)

\* What happens to the files in a step of u.
LEMMA FileSteps ==
  ASSUME Inv, NEW u \in Thread, Steps(u)
  PROVE  \/ UNCHANGED files
         \/ CreatePipe(u)
         \/ Close({pipe[u].source, pipe[u].sink}) /\ (MarkSinkFails(u) \/ ReportForkError(u))
         \/ Close({pipe[u].sink}) /\ CloseSink(u) /\ Active(u)
         \/ Close({pipe[u].source}) /\ step[u] = "reading"
  BY DEF Steps, CallStep, SetsUpPipe, ReadsPipe, KidStep, CallHandler, SetEnv,
         PrepareIoService, ResumeIoService, CreatePipeFails, UseGarbage,
         MarkSink, MarkSinkFails, ForkSucceeds, ForkFails, ReportForkError, AfterForkError,
         CloseSink, ReadError, ReadNothing, ReadInterrupted, Return, OnExecSetup,
         ExecveSucceeds, ExecveFails, KidKilled, ProgramEnds, KidOnly, tableVars

\* What is closed is gone, and nothing else.
LEMMA Closing ==
  ASSUME Types, NEW fs, Close(fs)
  PROVE  \A f \in Fd : files'[f] = IF f \in fs THEN None ELSE files[f]
  BY DEF Types, Close

\* No thread gets hold of another one's pipe.
LEMMA HeldOther ==
  ASSUME Inv, NEW u \in Thread, NEW t \in Thread \ {u}, Steps(u), Preserved(u), seq' = seq,
         Held(t)
  PROVE  Held(t)'
<1>1. Types
  BY DEF Inv
<1>2. /\ at'[t] = at[t] /\ todo'[t] = todo[t] /\ step'[t] = step[t] /\ ec'[t] = ec[t]
      /\ pipe'[t] = pipe[t] /\ faults'[t] = faults[t]
  BY DEF Preserved, Apart
<1>3. (HasReporter(t)' <=> HasReporter(t)) /\ (Pending(t)' <=> Pending(t))
  BY <1>2 DEF HasReporter, Pending
<1>4. (Excepted(t)' <=> Excepted(t)) /\ (Busy(t)' <=> Busy(t))
  BY <1>2, <1>3 DEF Excepted, Busy
<1>5. \A f \in Fd : files'[f] \in {files[f], None, <<"source", u>>, <<"sink", u>>}
  <2>1. CASE CreatePipe(u)
    BY <1>1, <2>1 DEF CreatePipe, Types
  <2>2. CASE ~CreatePipe(u)
    BY <1>1, <2>2, FileSteps, Closing
  <2>3. QED BY <2>1, <2>2
<1>6. None # <<"source", t>> /\ None # <<"sink", t>>
  BY ExecutorAssumption
<1>7. \A f \in Fd : files'[f] = <<"source", t>> => files[f] = <<"source", t>>
  BY <1>5, <1>6
<1>8. \A f \in Fd : files'[f] = <<"sink", t>> => files[f] = <<"sink", t>>
  BY <1>5, <1>6
<1>9. QED BY <1>2, <1>3, <1>4, <1>7, <1>8 DEF Held

\* The steps that keep the ends of u or find none.
LEMMA HeldKept ==
  ASSUME NEW u \in Thread, Held(u), UNCHANGED files, pipe'[u] = pipe[u],
         Excepted(u) => Excepted(u)',
         Busy(u) => Excepted(u)' \/ (Busy(u)' /\ (step[u] = "reading" <=> step'[u] = "reading")),
         at'[u] = "on_fork_setup" /\ Pending(u)' /\ ec'[u] /\ ~Excepted(u)' => step'[u] = "garbage"
  PROVE  Held(u)'
  BY DEF Held

\* Those after which u has none.
LEMMA HeldNone ==
  ASSUME NEW u \in Thread, Held(u), Types, NEW fs, Close(fs), Excepted(u) => Excepted(u)',
         \/ fs = {pipe[u].source, pipe[u].sink}
         \/ fs = {pipe[u].source} /\ step[u] = "reading",
         ~Pending(u)'
  PROVE  Held(u)'
<1>1. \A f \in Fd : files'[f] = IF f \in fs THEN None ELSE files[f]
  BY Closing
<1>2. \A f \in Fd : ~Excepted(u) => files'[f] \notin {<<"source", u>>, <<"sink", u>>}
  <2>1. None \notin {<<"source", u>>, <<"sink", u>>}
    BY ExecutorAssumption
  <2>2. QED BY <1>1, <2>1 DEF Held
<1>3. QED BY <1>2 DEF Held

\* The initializers that are not about errors; a handler may throw.
LEMMA HeldSmall ==
  ASSUME Inv, NEW u \in Thread, Held(u),
         CallHandler(u) \/ SetEnv(u) \/ PrepareIoService(u) \/ ResumeIoService(u)
  PROVE  Held(u)'
<1>1. Types /\ Stage(u)
  BY DEF Inv, Local
<1>2. /\ todo[u] # {} /\ ~Turn(u) /\ UNCHANGED <<seq, ec, pipe, files>>
      /\ (Done(u) /\ faults' = faults) \/ (Throw(u) /\ Fault(u, "handler"))
  BY <1>1 DEF CallHandler, SetEnv, PrepareIoService, ResumeIoService, In, Turn, Reporters,
              Stage, Types, tableVars, historyVars
<1>3. CASE Done(u) /\ faults' = faults
  <2>1. /\ at' = at /\ step' = [step EXCEPT ![u] = "begin"]
        /\ (HasReporter(u)' <=> HasReporter(u)) /\ (Pending(u)' <=> Pending(u))
    BY <1>1, <1>2, <1>3, DoneEffect
  <2>2. step[u] = "begin" /\ step'[u] = "begin"
    BY <1>1, <1>2, <2>1 DEF Stage, Types
  <2>3. Excepted(u)' <=> Excepted(u)
    BY <1>3 DEF Excepted
  <2>4. Busy(u)' <=> Busy(u)
    BY <1>2, <2>1, <2>2 DEF Busy
  <2>5. at'[u] = "on_fork_setup" /\ Pending(u)' /\ ec'[u] => Excepted(u)
    BY <1>2, <2>1, <2>2 DEF Held
  <2>6. QED BY <1>2, <2>2, <2>3, <2>4, <2>5, HeldKept
<1>4. CASE Throw(u) /\ Fault(u, "handler")
  <2>1. Excepted(u)'
    BY <1>1, <1>4 DEF Excepted, Fault, Types
  <2>2. QED BY <2>1 DEF Held
<1>5. QED BY <1>2, <1>3, <1>4

\* The first pipe of a call is its only one.
LEMMA HeldCreatePipe ==
  ASSUME Inv, NEW u \in Thread, Held(u), CreatePipe(u)
  PROVE  Held(u)'
<1> DEFINE source == Lowest(Fd \ Open)
           sink == Lowest(Fd \ (Open \cup {source}))
<1>1. /\ Types /\ at[u] = "on_fork_setup" /\ Turn(u) /\ step[u] = "begin"
      /\ UNCHANGED <<seq, at, todo, ec, faults>>
      /\ pipe' = [pipe EXCEPT ![u] = [source |-> source, sink |-> sink]]
      /\ files' = [files EXCEPT ![source] = <<"source", u>>, ![sink] = <<"sink", u>>]
      /\ step' = [step EXCEPT ![u] = "piped"]
  BY DEF CreatePipe, Inv, In, Turn, historyVars
<1> HIDE DEF source, sink
<1>2. HasReporter(u) /\ Pending(u) /\ HasReporter(u)' /\ step'[u] = "piped"
  BY <1>1, UniqueTurn DEF HasReporter, Types
<1>3. Excepted(u)' <=> Excepted(u)
  BY <1>1 DEF Excepted
<1>4. ASSUME ~Excepted(u)
      PROVE  /\ Busy(u)'
             /\ \A f \in Fd : files[f] \notin {<<"source", u>>, <<"sink", u>>}
  <2>1. ~ec[u]
    BY <1>1, <1>2, <1>4 DEF Held
  <2>2. ~Busy(u)
    BY <1>1, <1>2 DEF Busy
  <2>3. Busy(u)'
    BY <1>1, <1>2, <2>1 DEF Busy
  <2>4. QED BY <1>4, <2>2, <2>3 DEF Held
<1>5. pipe'[u].source = source /\ pipe'[u].sink = sink
  BY <1>1 DEF Types
<1>6. ASSUME NEW f \in Fd, files[f] \notin {<<"source", u>>, <<"sink", u>>}
      PROVE  /\ files'[f] = <<"source", u>> => f = source
             /\ files'[f] = <<"sink", u>> => f = sink
  BY <1>1, <1>6 DEF Types
<1>7. QED BY <1>1, <1>2, <1>3, <1>4, <1>5, <1>6 DEF Held

\* A pipe that could not be made, and one that is marked.
LEMMA HeldPipeSteps ==
  ASSUME Inv, NEW u \in Thread, Held(u), CreatePipeFails(u) \/ UseGarbage(u) \/ MarkSink(u)
  PROVE  Held(u)'
<1>1. Types /\ Stage(u)
  BY DEF Inv, Local
<1>2. /\ Turn(u) /\ at[u] = "on_fork_setup" /\ UNCHANGED <<seq, files, pipe>>
  BY <1>1 DEF CreatePipeFails, UseGarbage, MarkSink, In, Turn, InWindow, Stage, tableVars
<1>3. HasReporter(u) /\ Pending(u) /\ todo[u] # {}
  BY <1>1, <1>2, UniqueTurn
<1>4. CASE CreatePipeFails(u)
  <2>1. ~Busy(u)
    BY <1>2, <1>3, <1>4 DEF Busy, CreatePipeFails
  <2>2. Excepted(u) => Excepted(u)'
    BY <1>1, <1>4 DEF CreatePipeFails, Excepted, Fault, Types
  <2>3. at'[u] = "threw" \/ step'[u] = "garbage"
    BY <1>1, <1>4 DEF CreatePipeFails, Throw, Types
  <2>4. QED BY <1>2, <2>1, <2>2, <2>3, HeldKept
<1>5. CASE UseGarbage(u) \/ MarkSink(u)
  <2>1. Done(u) /\ UNCHANGED <<ec, faults>> /\ step[u] # "reading"
    BY <1>5 DEF UseGarbage, MarkSink, InWindow, historyVars
  <2>2. /\ at' = at /\ step' = [step EXCEPT ![u] = "begin"]
        /\ HasReporter(u)' /\ ~Pending(u)'
    BY <1>1, <1>2, <1>3, <2>1, DoneEffect
  <2>3. Excepted(u)' <=> Excepted(u)
    BY <2>1 DEF Excepted
  <2>4. Busy(u) => Busy(u)'
    BY <1>2, <2>1, <2>2 DEF Busy
  <2>5. step'[u] # "reading"
    BY <1>1, <2>2 DEF Types
  <2>6. QED BY <1>2, <2>1, <2>2, <2>3, <2>4, <2>5, HeldKept
<1>6. QED BY <1>4, <1>5

\* Both ends are closed when fcntl() or fork() fails.
LEMMA HeldGiveUp ==
  ASSUME Inv, NEW u \in Thread, Held(u), MarkSinkFails(u) \/ ReportForkError(u)
  PROVE  Held(u)'
<1>1. Types /\ Stage(u)
  BY DEF Inv, Local
<1>2. /\ Turn(u) /\ at[u] \in {"on_fork_setup", "on_fork_error"} /\ UNCHANGED <<seq, pipe>>
      /\ ReportForkError(u) => at[u] = "on_fork_error"
  BY <1>1 DEF MarkSinkFails, ReportForkError, In, Turn, InWindow, Stage
<1>3. HasReporter(u) /\ Pending(u) /\ todo[u] # {} /\ (Active(u) <=> ~ec[u])
  BY <1>1, <1>2, UniqueTurn, Arming
<1>4. Throw(u) \/ Done(u)
  BY DEF MarkSinkFails, ReportForkError, Report
<1>5. ~Pending(u)'
  BY <1>1, <1>2, <1>3, <1>4, DoneEffect, ThrowEffect
<1>6. Excepted(u) => Excepted(u)'
  BY <1>1 DEF MarkSinkFails, ReportForkError, historyVars, Excepted, Fault, Types
<1>7. CASE Close({pipe[u].source, pipe[u].sink})
  BY <1>1, <1>5, <1>6, <1>7, HeldNone
<1>8. CASE ReportForkError(u) /\ ~Active(u)
  <2>1. UNCHANGED files
    BY <1>8 DEF ReportForkError, tableVars
  <2>2. ~Busy(u)
    BY <1>3, <1>8 DEF Busy
  <2>3. QED BY <1>2, <1>5, <1>6, <2>1, <2>2, HeldKept
<1>9. QED BY <1>7, <1>8 DEF MarkSinkFails, ReportForkError

\* From the pipe that is made to the callbacks that close it.
LEMMA HeldForks ==
  ASSUME Inv, NEW u \in Thread, Held(u), ForkSucceeds(u) \/ ForkFails(u) \/ AfterForkError(u)
  PROVE  Held(u)'
<1>1. Types /\ Stage(u)
  BY DEF Inv, Local
<1>2. PICK callback \in {"on_fork_error", "on_fork_success"} :
        /\ at[u] \in {"on_fork_setup", "on_fork_error"}
        /\ todo[u] = {} /\ Enter(u, callback)
        /\ UNCHANGED <<seq, ec, pipe, files, faults>>
  BY DEF ForkSucceeds, ForkFails, AfterForkError, tableVars, historyVars
<1>3. /\ at' = [at EXCEPT ![u] = callback] /\ step' = step
      /\ HasReporter(u)' <=> HasReporter(u)
      /\ ~Pending(u) /\ ~Turn(u) /\ (Pending(u)' <=> HasReporter(u))
  BY <1>1, <1>2, EnterEffect DEF Overrides
<1>4. at'[u] = callback
  BY <1>1, <1>3 DEF Types
<1>5. Excepted(u)' <=> Excepted(u)
  BY <1>2 DEF Excepted
<1>6. Busy(u) => Busy(u)'
  BY <1>1, <1>2, <1>3, <1>4 DEF Busy, Stage
<1>7. QED BY <1>2, <1>3, <1>4, <1>5, <1>6, HeldKept

\* At the return the error initializer has closed what it had.
LEMMA HeldReturn ==
  ASSUME Inv, NEW u \in Thread, Held(u), Return(u)
  PROVE  Held(u)'
<1>1. /\ Types /\ Stage(u) /\ at[u] = "on_fork_success" /\ todo[u] = {}
      /\ UNCHANGED <<pipe, files, faults>> /\ at'[u] = "returned"
  BY DEF Return, Inv, Local, Types, tableVars, historyVars
<1>2. ~Busy(u)
  BY <1>1 DEF Busy, Pending, Stage, Types
<1>3. Excepted(u)' <=> Excepted(u)
  BY <1>1 DEF Excepted
<1>4. QED BY <1>1, <1>2, <1>3, HeldKept

\* The sink is closed before the read().
LEMMA HeldCloseSink ==
  ASSUME Inv, NEW u \in Thread, Held(u), CloseSink(u)
  PROVE  Held(u)'
<1>1. /\ Types /\ Turn(u) /\ at[u] = "on_fork_success" /\ step[u] = "begin"
      /\ UNCHANGED <<seq, ec, pipe, faults>>
  BY DEF CloseSink, In, Turn, Inv, historyVars
<1>2. HasReporter(u) /\ Pending(u) /\ todo[u] # {} /\ (Active(u) <=> ~ec[u])
  BY <1>1, UniqueTurn, Arming
<1>3. Excepted(u)' <=> Excepted(u)
  BY <1>1 DEF Excepted
<1>4. CASE Active(u)
  <2>1. /\ Close({pipe[u].sink}) /\ step' = [step EXCEPT ![u] = "reading"]
        /\ UNCHANGED <<at, todo>>
    BY <1>4 DEF CloseSink
  <2>2. Busy(u)' /\ at'[u] = "on_fork_success"
    BY <1>1, <1>2, <1>4, <2>1 DEF Busy, HasReporter, Pending
  <2>3. \A f \in Fd : files'[f] = IF f = pipe[u].sink THEN None ELSE files[f]
    BY <1>1, <2>1, Closing
  <2>4. None # <<"source", u>> /\ None # <<"sink", u>>
    BY ExecutorAssumption
  <2>5. QED BY <1>1, <1>3, <2>2, <2>3, <2>4 DEF Held
<1>5. CASE ~Active(u)
  <2>1. UNCHANGED files /\ Done(u)
    BY <1>5 DEF CloseSink, tableVars
  <2>2. at' = at /\ ~Busy(u)
    BY <1>2, <1>5, <2>1 DEF Busy, Done
  <2>3. QED BY <1>1, <1>3, <2>1, <2>2, HeldKept
<1>6. QED BY <1>4, <1>5

\* The source is closed after it.
LEMMA HeldReads ==
  ASSUME Inv, NEW u \in Thread, Held(u), ReadError(u) \/ ReadNothing(u) \/ ReadInterrupted(u)
  PROVE  Held(u)'
<1>1. Types /\ Stage(u)
  BY DEF Inv, Local
<1>2. /\ step[u] = "reading" /\ Close({pipe[u].source}) /\ seq' = seq
      /\ Done(u) \/ Throw(u)
  BY DEF ReadError, ReadNothing, ReadInterrupted, Report
<1>3. Turn(u) /\ todo[u] # {}
  BY <1>1, <1>2 DEF Stage, Turn
<1>4. ~Pending(u)'
  BY <1>1, <1>2, <1>3, DoneEffect, ThrowEffect
<1>5. Excepted(u) => Excepted(u)'
  BY <1>1 DEF ReadError, ReadNothing, ReadInterrupted, historyVars, Excepted, Fault, Types
<1>6. QED BY <1>1, <1>2, <1>4, <1>5, HeldNone

\* The child has a table of its own.
LEMMA HeldKid ==
  ASSUME Inv, NEW u \in Thread, Held(u), KidStep(u)
  PROVE  Held(u)'
<1>1. UNCHANGED <<seq, at, todo, step, ec, pipe, files>>
  BY DEF KidStep, OnExecSetup, ExecveSucceeds, ExecveFails, KidKilled, ProgramEnds, KidOnly,
         callVars, tableVars
<1>2. Excepted(u) => Excepted(u)'
  BY DEF KidStep, OnExecSetup, ExecveSucceeds, ExecveFails, KidKilled, ProgramEnds,
         Excepted, Fault, Inv, Types
<1>3. (Busy(u)' <=> Busy(u)) /\ (Pending(u)' <=> Pending(u))
  BY <1>1 DEF Busy, HasReporter, Pending
<1>4. at'[u] = "on_fork_setup" /\ Pending(u)' /\ ec'[u] => Excepted(u) \/ step'[u] = "garbage"
  BY <1>1, <1>3 DEF Held
<1>5. QED BY <1>1, <1>2, <1>3, <1>4, HeldKept

\* What happens to the io_service in a step of u.
LEMMA NotifySteps ==
  ASSUME Inv, NEW u \in Thread, Steps(u)
  PROVE  \/ PrepareIoService(u) \/ ResumeIoService(u) \/ Return(u)
         \/ prepared' = prepared /\ (ForkSucceeds(u) \/ ForkFails(u) \/ AfterForkError(u))
         \/ prepared' = prepared /\ at' = at /\ todo' = todo
         \/ prepared' = prepared /\ Throw(u)
         \/ /\ prepared' = prepared /\ Done(u) /\ todo[u] # {}
            /\ Current(u).init # "notify_io_service"
<1>1. Types /\ Stage(u)
  BY DEF Inv, Local
<1>2. CASE CallHandler(u) \/ SetEnv(u)
  BY <1>1, <1>2 DEF CallHandler, SetEnv, In, Types
<1>3. CASE SetsUpPipe(u)
  <2>1. Turn(u) /\ prepared' = prepared
    BY <1>1, <1>3 DEF SetsUpPipe, CreatePipe, CreatePipeFails, UseGarbage, MarkSink,
                      MarkSinkFails, In, InWindow, Turn, Stage
  <2>2. todo[u] # {} /\ Current(u).init # "notify_io_service"
    BY <2>1 DEF Turn, Reporters
  <2>3. (at' = at /\ todo' = todo) \/ Throw(u) \/ Done(u)
    BY <1>3 DEF SetsUpPipe, CreatePipe, CreatePipeFails, UseGarbage, MarkSink,
                MarkSinkFails, Report
  <2>4. QED BY <2>1, <2>2, <2>3
<1>4. CASE ReportForkError(u) \/ ReadsPipe(u) \/ ReadInterrupted(u)
  <2>1. Turn(u) /\ prepared' = prepared
    BY <1>1, <1>4 DEF ReportForkError, ReadsPipe, CloseSink, ReadError, ReadNothing,
                      ReadInterrupted, In, Turn, Stage
  <2>2. todo[u] # {} /\ Current(u).init # "notify_io_service"
    BY <2>1 DEF Turn, Reporters
  <2>3. (at' = at /\ todo' = todo) \/ Throw(u) \/ Done(u)
    BY <1>4 DEF ReportForkError, ReadsPipe, CloseSink, ReadError, ReadNothing,
                ReadInterrupted, Report
  <2>4. QED BY <2>1, <2>2, <2>3
<1>5. CASE ForkSucceeds(u) \/ ForkFails(u) \/ AfterForkError(u)
  BY <1>5 DEF ForkSucceeds, ForkFails, AfterForkError
<1>6. CASE KidStep(u)
  BY <1>6 DEF KidStep, OnExecSetup, ExecveSucceeds, ExecveFails, KidKilled, ProgramEnds,
              KidOnly, callVars
<1>7. QED BY <1>2, <1>3, <1>4, <1>5, <1>6 DEF Steps, CallStep

\* A thread tells the io_service of its own fork only.
LEMMA NotifiedOther ==
  ASSUME Inv, NEW u \in Thread, NEW t \in Thread \ {u}, Steps(u), Preserved(u), seq' = seq,
         Notified(t)
  PROVE  Notified(t)'
<1>1. at'[t] = at[t] /\ todo'[t] = todo[t]
  BY DEF Preserved, Apart
<1>2. t \in prepared' <=> t \in prepared
  BY NotifySteps DEF PrepareIoService, ResumeIoService, Return
<1>3. QED BY <1>1, <1>2 DEF Notified

\* From fork_prepare to fork_parent, in on_fork_success.
LEMMA NotifiedOwn ==
  ASSUME Inv, NEW u \in Thread, Steps(u), Preserved(u), seq' = seq, Notified(u)
  PROVE  Notified(u)'
<1>1. Types
  BY DEF Inv
<1>2. CASE PrepareIoService(u)
  <2>1. /\ at[u] = "on_fork_setup" /\ at' = at /\ todo[u] # {}
        /\ Current(u).init = "notify_io_service"
    BY <1>2 DEF PrepareIoService, In, Done
  <2>2. Lowest(todo[u]) \in DOMAIN seq[u]
    BY <1>1, <2>1, LowestIs DEF Types
  <2>3. Uses(seq[u], {"notify_io_service"})
    BY <2>1, <2>2, UsesAt DEF Current
  <2>4. QED BY <2>1, <2>3 DEF Notified
<1>3. CASE ResumeIoService(u)
  <2>1. u \notin prepared'
    BY <1>3 DEF ResumeIoService
  <2>2. QED BY <2>1 DEF Notified
<1>4. CASE Return(u)
  <2>1. u \notin prepared /\ prepared' = prepared
    BY <1>1, <1>4 DEF Return, Notified
  <2>2. QED BY <2>1 DEF Notified
<1>5. CASE prepared' = prepared /\ (ForkSucceeds(u) \/ ForkFails(u) \/ AfterForkError(u))
  <2>1. PICK callback \in {"on_fork_error", "on_fork_success"} : Enter(u, callback)
    BY <1>5 DEF ForkSucceeds, ForkFails, AfterForkError
  <2>2. at'[u] = callback /\ todo'[u] = Overriding(seq[u], callback)
    BY <1>1, <2>1 DEF Enter, Types
  <2>3. u \in prepared => Uses(seq[u], {"notify_io_service"})
    BY <1>5 DEF ForkSucceeds, ForkFails, AfterForkError, Notified
  <2>4. "notify_io_service" \in Overrides["on_fork_success"]
    BY DEF Overrides
  <2>5. ASSUME u \in prepared, callback = "on_fork_success"
        PROVE  \E n \in todo'[u] : seq[u][n].init = "notify_io_service"
    BY <2>2, <2>3, <2>4, <2>5, UsesAt DEF Overriding
  <2>6. QED BY <1>5, <2>2, <2>3, <2>5 DEF Notified
<1>6. CASE prepared' = prepared /\ at' = at /\ todo' = todo
  BY <1>6 DEF Notified
<1>7. CASE prepared' = prepared /\ Throw(u)
  <2>1. at'[u] = "threw"
    BY <1>1, <1>7 DEF Throw, Types
  <2>2. QED BY <1>7, <2>1 DEF Notified
<1>8. CASE /\ prepared' = prepared /\ Done(u) /\ todo[u] # {}
           /\ Current(u).init # "notify_io_service"
  <2>1. at' = at /\ todo'[u] = todo[u] \ {Lowest(todo[u])}
    BY <1>1, <1>8 DEF Done, Types
  <2>2. QED BY <1>8, <2>1 DEF Notified, Current
<1>9. QED BY <1>2, <1>3, <1>4, <1>5, <1>6, <1>7, <1>8, NotifySteps

\* All steps of a thread and of its child.
LEMMA HeldOwn ==
  ASSUME Inv, NEW u \in Thread, Held(u), Steps(u)
  PROVE  Held(u)'
<1>1. CASE CallHandler(u) \/ SetEnv(u) \/ PrepareIoService(u) \/ ResumeIoService(u)
  BY <1>1, HeldSmall
<1>2. CASE CreatePipe(u)
  BY <1>2, HeldCreatePipe
<1>3. CASE CreatePipeFails(u) \/ UseGarbage(u) \/ MarkSink(u)
  BY <1>3, HeldPipeSteps
<1>4. CASE MarkSinkFails(u) \/ ReportForkError(u)
  BY <1>4, HeldGiveUp
<1>5. CASE ForkSucceeds(u) \/ ForkFails(u) \/ AfterForkError(u)
  BY <1>5, HeldForks
<1>6. CASE Return(u)
  BY <1>6, HeldReturn
<1>7. CASE CloseSink(u)
  BY <1>7, HeldCloseSink
<1>8. CASE ReadError(u) \/ ReadNothing(u) \/ ReadInterrupted(u)
  BY <1>8, HeldReads
<1>9. CASE KidStep(u)
  BY <1>9, HeldKid
<1>10. QED
  BY <1>1, <1>2, <1>3, <1>4, <1>5, <1>6, <1>7, <1>8, <1>9
     DEF Steps, CallStep, SetsUpPipe, ReadsPipe

\* Before the calls there is nothing to leave.
LEMMA InitLeft == ASSUME Init, NEW t \in Thread PROVE Left(t)
<1>1. Notified(t)
  BY DEF Init, Notified
<1>2. \A f \in Fd : files[f] # <<"source", t>> /\ files[f] # <<"sink", t>>
  BY ExecutorAssumption DEF Init
<1>3. ec[t] => Excepted(t)
  BY DEF Init, Excepted
<1>4. QED BY <1>1, <1>2, <1>3 DEF Left, Held

\* So this is inductive too.
LEMMA StepLeft == Inv /\ AllLeft /\ [Next]_vars => AllLeft'
<1> SUFFICES ASSUME Inv, \A t \in Thread : Left(t), [Next]_vars, NEW t \in Thread
             PROVE  Left(t)'
  BY DEF AllLeft
<1>1. ASSUME NEW u \in Thread, Steps(u) PROVE Left(t)'
  <2>1. Preserved(u) /\ seq' = seq
    BY <1>1, ThreadSteps, SameCalls DEF Steps
  <2>2. CASE t = u
    BY <1>1, <2>1, <2>2, HeldOwn, NotifiedOwn DEF Left
  <2>3. CASE t # u
    BY <1>1, <2>1, <2>3, HeldOther, NotifiedOther DEF Left
  <2>4. QED BY <2>2, <2>3
<1>2. CASE UNCHANGED vars
  <2>1. UNCHANGED <<seq, at, todo, step, ec, pipe, files, faults, prepared>>
    BY <1>2 DEF vars, callVars, tableVars, historyVars
  <2>2. Busy(t)' = Busy(t) /\ Pending(t)' = Pending(t) /\ Excepted(t)' = Excepted(t)
    BY <2>1 DEF Busy, HasReporter, Pending, Excepted
  <2>3. QED BY <2>1, <2>2 DEF Left, Held, Notified
<1>3. QED BY <1>1, <1>2 DEF Next, Steps

\* A call that is over has nothing left open, nor the io_service waiting.
LEMMA LeftNothing == Inv /\ AllLeft => CallLeavesNothing
<1> SUFFICES ASSUME Inv, \A t \in Thread : Left(t), NEW t \in Thread, ~Calling(t),
                    faults[t] \cap {"stale_ec", "handler"} = {}
             PROVE  /\ \A f \in Fd, end \in {"source", "sink"} : files[f] # <<end, t>>
                    /\ t \in prepared => at[t] = "threw"
  BY DEF CallLeavesNothing, AllLeft
<1>1. at[t] \in {"returned", "threw"} /\ ~Excepted(t) /\ ~Busy(t)
  BY DEF Calling, Overrides, Inv, Types, Local, Stage, Excepted, Busy
<1>2. \A f \in Fd : files[f] # <<"source", t>> /\ files[f] # <<"sink", t>>
  BY <1>1 DEF Left, Held
<1>3. t \in prepared => at[t] = "threw"
  BY <1>1 DEF Left, Notified
<1>4. QED BY <1>2, <1>3

\* A call that is over has no end of its error pipe open in the process, however
\* it ended, and the io_service knows that the fork is done unless an exception
\* cut the call off (set_on_error.hpp, throw_on_error.hpp, notify_io_service.hpp).
THEOREM LeavesNothing == Spec => []CallLeavesNothing
<1>1. Init => AllLeft
  BY InitLeft DEF AllLeft
<1>2. QED BY <1>1, StepLeft, LeftNothing, Invariance, PTL DEF Spec

-----------------------------------------------------------------------------
(* The program: what it is, and what it has of the process.                 *)

BotFd == {f \in Fd : BotFiles[f] # None}
Envs == {"set_env", "inherit_env"}

\* Those of the places that are among the first n.
First(places, n) == {m \in places : m <= n}

\* An end of an error pipe.
IsEnd(file) == \E end \in {"source", "sink"}, t \in Thread : file = <<end, t>>

\* The bot's descriptors stay what they were, on the others are ends of pipes,
\* and a sink is marked, unless its thread is between pipe() and fcntl().
Table ==
  /\ \A f \in BotFd : files[f] = BotFiles[f] /\ f \notin cloexec
  /\ \A f \in Fd \ BotFd : files[f] = None \/ IsEnd(files[f])
  /\ \A f \in Fd, t \in Thread :
       files[f] = <<"sink", t>> => f \in cloexec \/ (InWindow(t) /\ f = pipe[t].sink)

\* The environment that the initializers at the places give.
EnvOf(t, places) == IF places = {} THEN None ELSE seq[t][Highest(places)].env

\* on_fork_setup has been called in the order of the sequence.
EnvSet(t) ==
  at[t] = "on_fork_setup" =>
    /\ t \in DOMAIN env
    /\ \A m \in Overriding(seq[t], "on_fork_setup") \ todo[t], n \in todo[t] : m < n
    /\ env[t] = EnvOf(t, Places(t, Envs) \ todo[t])

\* A handler that threw, threw out of the call, and nobody forks in its own window.
Gone(t) == ("handler" \in faults[t] => at[t] = "threw") /\ <<t, t>> \notin window

\* The sinks that came with fork(): marked, or caught in the window.
SinksMarked(k, u) ==
  /\ \A f \in BotFd : ~IsEnd(k.files[f])
  /\ \A f \in Fd, t \in Thread :
       k.files[f] = <<"sink", t>> => f \in k.cloexec \/ <<t, u>> \in window

\* The source of its own pipe is there until the error initializer closes it.
SourceLeft(k, u, n) ==
  \A f \in Fd : k.files[f] = <<"source", u>> =>
    \/ "stale_ec" \in faults[u]
    \/ Reports(u) /\ f = pipe[u].source /\ \A m \in Places(u, Reporters) : n < m

\* What the first n initializers of u say of the program and its arguments,
Named(k, u, n) ==
  LET exes == First(Places(u, {"run_exe"}), n)
      args == First(Naming(u), n)
      lines == First(Places(u, {"set_args", "set_cmd_line"}), n)
  IN /\ k.exe = IF exes # {} THEN seq[u][Highest(exes)].exe
                ELSE IF args # {} THEN Head(seq[u][Lowest(args)].args) ELSE None
     /\ k.args = IF lines # {} THEN seq[u][Highest(lines)].args
                 ELSE IF exes # {} THEN <<seq[u][Lowest(exes)].exe>> ELSE None
     /\ k.exe = None <=> exes = {} /\ args = {}
     /\ k.args = None <=> lines = {} /\ exes = {}

\* and of a descriptor.
FileSet(k, u, f, n) ==
  LET touching == First(Touching(u, f), n)
      last == Highest(touching)
      i == seq[u][last]
  IN /\ touching = {} => IF f \in BotFd THEN k.files[f] = BotFiles[f] /\ f \notin k.cloexec
                         ELSE k.files[f] = None \/ IsEnd(k.files[f])
     /\ touching # {} /\ i.init \notin Binders => k.files[f] = None \/ f \in k.cloexec
     /\ touching # {} /\ i.init \in Binders /\ (\A m \in Touching(u, i.fd) : last < m)
        /\ ~ClosesSource(u, f, last) =>
          k.files[f] = BotFiles[i.fd] /\ f \notin k.cloexec

\* The first n initializers have made k of the child of u.
MadeBy(k, u, n) ==
  /\ DOMAIN k = DOMAIN NoCopy /\ DOMAIN k.files = Fd
  /\ SinksMarked(k, u)
  /\ SourceLeft(k, u, n)
  /\ Named(k, u, n)
  /\ k.env = EnvOf(u, Places(u, Envs))
  /\ \A f \in Fd : FileSet(k, u, f, n)

KidMade(u) ==
  /\ kid[u].image = "setup" =>
       MadeBy(copy[u], u, 0) /\ (Reports(u) => pipe[u].source \notin BotFd)
  /\ kid[u].image \in {"ready", "running"} => MadeBy(copy[u], u, Len(seq[u]))
  /\ kid[u].image = "running" => copy[u].cloexec = {}

Made == ~damaged => Table /\ \A t \in Thread : EnvSet(t) /\ Gone(t) /\ KidMade(t)

-----------------------------------------------------------------------------
(* The operators.                                                           *)

\* Highest is one of some numbers with a bound.
LEMMA HighestIs ==
  ASSUME NEW m \in Nat, NEW S, S \subseteq 0..m, S # {}
  PROVE  Highest(S) \in S
<1> DEFINE T == {m - x : x \in S}
<1>1. T \subseteq Nat /\ T # {}
  <2>1. \A x \in S : x \in Int /\ 0 <= x /\ x <= m
    OBVIOUS
  <2>2. \A x \in S : m - x \in Nat
    BY <2>1
  <2>3. QED BY <2>2
<1>2. PICK l \in T : \A y \in T : l <= y
  <2> HIDE DEF T
  <2> QED BY <1>1, LowestIs
<1>3. PICK x \in S : l = m - x
  BY <1>2
<1>4. ASSUME NEW y \in S PROVE y <= x
  <2>1. l <= m - y
    BY <1>2
  <2>2. QED BY <1>3, <2>1
<1>5. QED BY <1>4 DEF Highest

\* A set of numbers that has 0 and, with each number below m, the next one, has
\* all up to m.
LEMMA UpTo ==
  ASSUME NEW m \in Nat, NEW S, 0 \in S, \A n \in 0..(m - 1) : n \in S => n + 1 \in S
  PROVE  0..m \subseteq S
<1> DEFINE T == (0..m) \ S
<1> SUFFICES ASSUME T # {} PROVE FALSE
  OBVIOUS
<1>1. T \subseteq Nat
  OBVIOUS
<1>2. PICK x \in T : \A y \in T : ~(<<y, x>> \in OpToRel(<, Nat))
  <2> HIDE DEF T
  <2> QED BY <1>1, NatLessThanWellFounded, WFMin
<1>3. x # 0 /\ x - 1 \in 0..(m - 1)
  OBVIOUS
<1>4. x - 1 \in T
  BY <1>3
<1>5. <<x - 1, x>> \in OpToRel(<, Nat)
  BY <1>3 DEF OpToRel
<1>6. QED BY <1>2, <1>4, <1>5

\* The next place is the highest of them, if it is one, and not the lowest.
LEMMA FirstNext ==
  ASSUME NEW P, P \subseteq Nat, NEW n \in Nat
  PROVE  /\ n + 1 \in P =>
              /\ First(P, n + 1) # {} /\ Highest(First(P, n + 1)) = n + 1
              /\ Lowest(First(P, n + 1)) =
                   IF First(P, n) = {} THEN n + 1 ELSE Lowest(First(P, n))
         /\ n + 1 \notin P => First(P, n + 1) = First(P, n)
<1>0. \A m \in P : m \in Nat /\ (m <= n + 1 <=> m <= n \/ m = n + 1)
  OBVIOUS
<1>1. ASSUME n + 1 \notin P PROVE First(P, n + 1) = First(P, n)
  BY <1>0, <1>1 DEF First
<1>2. ASSUME n + 1 \in P
      PROVE  /\ First(P, n + 1) # {} /\ Highest(First(P, n + 1)) = n + 1
             /\ Lowest(First(P, n + 1)) =
                  IF First(P, n) = {} THEN n + 1 ELSE Lowest(First(P, n))
  <2>1. /\ First(P, n + 1) = First(P, n) \cup {n + 1}
        /\ First(P, n + 1) \subseteq Nat /\ First(P, n) \subseteq Nat
        /\ \A m \in First(P, n) : m < n + 1
    <3>1. First(P, n + 1) = First(P, n) \cup {n + 1}
      BY <1>0, <1>2 DEF First
    <3>2. First(P, n + 1) \subseteq Nat /\ First(P, n) \subseteq Nat
      BY DEF First
    <3>3. \A m \in First(P, n) : m < n + 1
      BY DEF First
    <3>4. QED BY <3>1, <3>2, <3>3
  <2>2. Highest(First(P, n + 1)) = n + 1
    <3>1. \A m \in First(P, n + 1) : m <= n + 1
      BY <2>1
    <3>2. QED BY <2>1, <3>1 DEF Highest
  <2>3. CASE First(P, n) = {}
    <3>1. Lowest(First(P, n + 1)) \in {n + 1}
      BY <2>1, <2>3, LowestIs
    <3>2. QED BY <2>1, <2>2, <2>3, <3>1
  <2>4. CASE First(P, n) # {}
    <3>1. /\ Lowest(First(P, n)) \in First(P, n)
          /\ \A m \in First(P, n) : Lowest(First(P, n)) <= m
      BY <2>1, <2>4, LowestIs
    <3>2. /\ Lowest(First(P, n + 1)) \in First(P, n + 1)
          /\ \A m \in First(P, n + 1) : Lowest(First(P, n + 1)) <= m
      BY <2>1, LowestIs
    <3>3. Lowest(First(P, n + 1)) = Lowest(First(P, n))
      BY <2>1, <3>1, <3>2
    <3>4. QED BY <2>1, <2>2, <2>4, <3>3
  <2>5. QED BY <2>3, <2>4
<1>3. QED BY <1>1, <1>2

\* SetUpBy is what its definition says.
LEMMA SetUpByDef ==
  ASSUME NEW t \in Thread, Len(seq[t]) \in Nat
  PROVE  /\ SetUpBy(t)[0] = copy[t]
         /\ \A n \in 0..(Len(seq[t]) - 1) :
              SetUpBy(t)[n + 1] = SetUp(SetUpBy(t)[n], seq[t][n + 1], t)
<1> DEFINE Is(k, g) ==
             g = [n \in 0..k |-> IF n = 0 THEN copy[t] ELSE SetUp(g[n - 1], seq[t][n], t)]
           S == {k \in Nat : \E g : Is(k, g)}
<1>1. 0 \in S
  <2>1. Is(0, [n \in 0..0 |-> copy[t]])
    OBVIOUS
  <2>2. QED BY <2>1
<1>2. ASSUME NEW k \in Nat, k \in S PROVE k + 1 \in S
  <2>1. PICK g : Is(k, g)
    BY <1>2
  <2> DEFINE h == [n \in 0..(k + 1) |->
                     IF n = k + 1 THEN SetUp(g[k], seq[t][k + 1], t) ELSE g[n]]
  <2>2. ASSUME NEW n \in 0..(k + 1)
        PROVE  h[n] = IF n = 0 THEN copy[t] ELSE SetUp(h[n - 1], seq[t][n], t)
    <3>1. CASE n = k + 1
      BY <3>1
    <3>2. CASE n \in 0..k
      <4>1. h[n] = g[n] /\ (n # 0 => h[n - 1] = g[n - 1])
        BY <3>2
      <4>2. g[n] = IF n = 0 THEN copy[t] ELSE SetUp(g[n - 1], seq[t][n], t)
        BY <2>1, <3>2
      <4>3. QED BY <4>1, <4>2
    <3>3. QED BY <3>1, <3>2
  <2>3. Is(k + 1, h)
    <3> HIDE DEF h
    <3>1. h = [n \in 0..(k + 1) |-> h[n]]
      BY DEF h
    <3>2. QED BY <2>2, <3>1
  <2>4. QED
    <3> HIDE DEF h, Is
    <3> QED BY <2>3
<1>3. \E g : Is(Len(seq[t]), g)
  <2> HIDE DEF Is
  <2>1. Len(seq[t]) \in 0..Len(seq[t])
    OBVIOUS
  <2>2. Len(seq[t]) \in S
    BY <1>1, <1>2, <2>1, UpTo
  <2>3. QED BY <2>2
<1>4. SetUpBy(t) = CHOOSE g : Is(Len(seq[t]), g)
  BY DEF SetUpBy
<1>5. Is(Len(seq[t]), CHOOSE g : Is(Len(seq[t]), g))
  BY <1>3
<1>6. \A n \in 0..Len(seq[t]) :
        SetUpBy(t)[n] = IF n = 0 THEN copy[t] ELSE SetUp(SetUpBy(t)[n - 1], seq[t][n], t)
  BY <1>4, <1>5
<1>7. QED BY <1>6

\* The error initializer i of u closes f.
Closes(i, u, f) == i.init \in Reporters /\ Reports(u) /\ f = pipe[u].source

\* What on_exec_setup of i may make of the descriptors of k,
FilesSet(h, k, i, u) ==
  /\ DOMAIN h.files = Fd
  /\ \A f \in Fd :
       \/ h.files[f] = k.files[f] /\ (f \in k.cloexec => f \in h.cloexec)
       \/ h.files[f] = None
       \/ i.init \in Binders /\ f \in Touched(i) /\ h.files[f] = k.files[i.fd]
  /\ \A f \in Fd \ Touched(i) :
       IF Closes(i, u, f) THEN h.files[f] = None
       ELSE h.files[f] = k.files[f] /\ (f \in h.cloexec <=> f \in k.cloexec)
  /\ \A f \in Fd \cap Touched(i) :
       IF i.init \in Binders
       THEN k.files[i.fd] # None => h.files[f] = k.files[i.fd] /\ f \notin h.cloexec
       ELSE h.files[f] = None \/ f \in h.cloexec

\* and of the rest.
NamesSet(h, k, i) ==
  /\ DOMAIN h = DOMAIN NoCopy
  /\ h.exe = IF i.init = "run_exe" THEN i.exe
             ELSE IF i.init = "set_args" /\ k.exe = None /\ Head(i.args) # NoText
             THEN Head(i.args) ELSE k.exe
  /\ h.args = IF i.init \in {"set_args", "set_cmd_line"} THEN i.args
              ELSE IF i.init = "run_exe" /\ k.args = None THEN <<i.exe>> ELSE k.args
  /\ h.env = k.env

\* dup2() does so,
LEMMA DupSets ==
  ASSUME NEW u \in Thread, NEW k, DOMAIN k = DOMAIN NoCopy, DOMAIN k.files = Fd,
         NEW i, i.init \in Binders, i.fd \in Fd, NEW id, Touched(i) = {id} \ {i.fd}
  PROVE  FilesSet(DupFd(k, i.fd, id), k, i, u) /\ NamesSet(DupFd(k, i.fd, id), k, i)
<1> DEFINE h == DupFd(k, i.fd, id)
<1>0. \A f : ~Closes(i, u, f)
  BY DEF Closes, Binders, Reporters
<1>1. CASE k.files[i.fd] = None \/ i.fd = id
  <2>1. h = k
    BY <1>1 DEF DupFd
  <2>2. QED BY <1>0, <1>1, <2>1 DEF FilesSet, NamesSet, Binders
<1>2. CASE k.files[i.fd] # None /\ i.fd # id
  <2>1. h = [k EXCEPT !.files[id] = k.files[i.fd], !.cloexec = @ \ {id}]
    BY <1>2 DEF DupFd
  <2>2. /\ DOMAIN h = DOMAIN k /\ DOMAIN h.files = Fd /\ h.cloexec = k.cloexec \ {id}
        /\ h.exe = k.exe /\ h.args = k.args /\ h.env = k.env
        /\ \A f \in Fd : h.files[f] = IF f = id THEN k.files[i.fd] ELSE k.files[f]
    BY <2>1 DEF NoCopy
  <2>3. Touched(i) = {id}
    BY <1>2
  <2> HIDE DEF h
  <2>4. FilesSet(h, k, i, u)
    BY <1>0, <1>2, <2>2, <2>3 DEF FilesSet
  <2>5. NamesSet(h, k, i)
    BY <2>2 DEF NamesSet, Binders
  <2>6. QED BY <2>4, <2>5 DEF h
<1>3. QED BY <1>1, <1>2

\* close() does,
LEMMA CloseSets ==
  ASSUME NEW u \in Thread, NEW k, DOMAIN k = DOMAIN NoCopy, DOMAIN k.files = Fd,
         NEW i, i.init \notin Binders \cup {"run_exe", "set_args", "set_cmd_line"},
         NEW fs, \A f \in Fd : f \in fs <=> f \in Touched(i) \/ Closes(i, u, f)
  PROVE  FilesSet(CloseInKid(k, fs), k, i, u) /\ NamesSet(CloseInKid(k, fs), k, i)
<1> DEFINE h == CloseInKid(k, fs)
<1>1. /\ DOMAIN h = DOMAIN k /\ DOMAIN h.files = Fd /\ h.cloexec = k.cloexec \ fs
      /\ h.exe = k.exe /\ h.args = k.args /\ h.env = k.env
      /\ \A f \in Fd : h.files[f] = IF f \in fs THEN None ELSE k.files[f]
  BY DEF CloseInKid, NoCopy
<1> HIDE DEF h
<1>2. FilesSet(h, k, i, u)
  BY <1>1 DEF FilesSet
<1>3. NamesSet(h, k, i)
  BY <1>1 DEF NamesSet
<1>4. QED BY <1>2, <1>3 DEF h

\* and so does every initializer.
LEMMA SetUpSets ==
  ASSUME NEW u \in Thread, NEW i \in Initializer, NEW k,
         DOMAIN k = DOMAIN NoCopy, DOMAIN k.files = Fd
  PROVE  FilesSet(SetUp(k, i, u), k, i, u) /\ NamesSet(SetUp(k, i, u), k, i)
<1>1. CASE i.init \in Binders
  <2>1. i.fd \in Fd
    BY <1>1, InitializerAssumption
  <2>2. PICK id : SetUp(k, i, u) = DupFd(k, i.fd, id) /\ Touched(i) = {id} \ {i.fd}
    <3>1. CASE i.init = "bind_fd"
      BY <3>1 DEF SetUp, Reporters, BindFd, Touched
    <3>2. CASE i.init = "bind_stdin"
      BY <3>2 DEF SetUp, Reporters, BindStdin, Touched
    <3>3. CASE i.init = "bind_stdout"
      BY <3>3 DEF SetUp, Reporters, BindStdout, Touched
    <3>4. CASE i.init = "bind_stderr"
      BY <3>4 DEF SetUp, Reporters, BindStderr, Touched
    <3>5. QED BY <1>1, <3>1, <3>2, <3>3, <3>4 DEF Binders
  <2>3. QED BY <1>1, <2>1, <2>2, DupSets
<1>2. CASE i.init \in {"close_fd", "close_fds", "close_stdin", "close_stdout", "close_stderr"}
  <2>1. SetUp(k, i, u) = CloseInKid(k, Touched(i))
    BY <1>2 DEF SetUp, Reporters, CloseFd, CloseFds, CloseStdin, CloseStdout, CloseStderr,
                Touched
  <2>2. \A f : ~Closes(i, u, f)
    BY <1>2 DEF Closes, Reporters
  <2>3. QED BY <1>2, <2>1, <2>2, CloseSets DEF Binders
<1>3. CASE i.init \in Reporters
  <2>1. SetUp(k, i, u) = CloseSource(k, u) /\ Touched(i) = {}
    BY <1>3 DEF SetUp, Touched, Reporters
  <2>2. CASE Reports(u)
    <3>1. SetUp(k, i, u) = CloseInKid(k, {pipe[u].source})
      BY <2>1, <2>2 DEF CloseSource
    <3>2. \A f : f \in {pipe[u].source} <=> f \in Touched(i) \/ Closes(i, u, f)
      BY <1>3, <2>1, <2>2 DEF Closes
    <3>3. QED BY <1>3, <3>1, <3>2, CloseSets DEF Binders, Reporters
  <2>3. CASE ~Reports(u)
    BY <1>3, <2>1, <2>3 DEF CloseSource, FilesSet, NamesSet, Reporters, Binders, Closes
  <2>4. QED BY <2>2, <2>3
<1>4. CASE i.init = "close_fds_if"
  <2> DEFINE h == SetUp(k, i, u)
  <2>1. h = [k EXCEPT !.cloexec = @ \cup {f \in i.fds : k.files[f] # None}]
    BY <1>4 DEF SetUp, Reporters, CloseFdsIf
  <2>2. /\ DOMAIN h = DOMAIN k /\ h.files = k.files
        /\ h.cloexec = k.cloexec \cup {f \in i.fds : k.files[f] # None}
        /\ h.exe = k.exe /\ h.args = k.args /\ h.env = k.env
    BY <2>1 DEF NoCopy
  <2>3. Touched(i) = i.fds
    BY <1>4 DEF Touched
  <2> HIDE DEF h
  <2>4. FilesSet(h, k, i, u)
    BY <1>4, <2>2, <2>3 DEF FilesSet, Binders, Closes, Reporters
  <2>5. NamesSet(h, k, i)
    BY <1>4, <2>2 DEF NamesSet
  <2>6. QED BY <2>4, <2>5 DEF h
<1>5. CASE i.init \in {"run_exe", "set_args", "set_cmd_line", "start_in_dir"}
  <2> DEFINE h == SetUp(k, i, u)
  <2>1. /\ DOMAIN h = DOMAIN k /\ h.files = k.files /\ h.cloexec = k.cloexec
        /\ h.env = k.env /\ NamesSet(h, k, i)
    <3> USE DEF SetUp, Reporters, NoCopy, NamesSet
    <3>1. CASE i.init = "run_exe"
      BY <3>1 DEF RunExe
    <3>2. CASE i.init = "set_args"
      BY <3>2 DEF SetArgs
    <3>3. CASE i.init = "set_cmd_line"
      BY <3>3 DEF SetCmdLine
    <3>4. CASE i.init = "start_in_dir"
      BY <3>4 DEF StartInDir
    <3>5. QED BY <1>5, <3>1, <3>2, <3>3, <3>4
  <2>2. Touched(i) = {} /\ i.init \notin Binders
    BY <1>5 DEF Touched, Binders
  <2> HIDE DEF h
  <2>3. FilesSet(h, k, i, u)
    BY <1>5, <2>1, <2>2 DEF FilesSet, Closes, Reporters
  <2>4. QED BY <2>1, <2>3 DEF h
<1>6. CASE i.init \notin Binders \cup Reporters \cup
                   {"close_fd", "close_fds", "close_stdin", "close_stdout", "close_stderr",
                    "close_fds_if", "run_exe", "set_args", "set_cmd_line", "start_in_dir"}
  <2>1. SetUp(k, i, u) = k /\ Touched(i) = {}
    BY <1>6 DEF SetUp, Touched, Binders, Reporters
  <2>2. QED BY <1>6, <2>1 DEF FilesSet, NamesSet, Closes
<1>7. QED BY <1>1, <1>2, <1>3, <1>4, <1>5, <1>6

\* One more initializer, and a descriptor is what it is to be.
LEMMA OneMoreFile ==
  ASSUME NEW u \in Thread, seq[u] \in Seq(Initializer), NEW n \in Nat, n + 1 \in DOMAIN seq[u],
         Reports(u) => pipe[u].source \notin BotFd,
         NEW k, \A f \in Fd : FileSet(k, u, f, n),
         NEW h, FilesSet(h, k, seq[u][n + 1], u), NEW f \in Fd
  PROVE  FileSet(h, u, f, n + 1)
<1>1. PICK i : i = seq[u][n + 1]
  OBVIOUS
<1>2. i \in Initializer /\ Touching(u, f) \subseteq Nat
  BY <1>1 DEF Touching
<1>3. n + 1 \in Touching(u, f) <=> f \in Touched(i)
  BY <1>1 DEF Touching
<1>4. CASE f \notin Touched(i) /\ ~Closes(i, u, f)
  <2>1. First(Touching(u, f), n + 1) = First(Touching(u, f), n)
    BY <1>2, <1>3, <1>4, FirstNext
  <2>2. h.files[f] = k.files[f] /\ (f \in h.cloexec <=> f \in k.cloexec)
    BY <1>1, <1>4 DEF FilesSet
  <2>3. FileSet(k, u, f, n)
    OBVIOUS
  <2>4. QED BY <2>1, <2>2, <2>3 DEF FileSet
<1>5. CASE f \in Touched(i) /\ i.init \notin Binders
  <2>1. /\ First(Touching(u, f), n + 1) # {}
        /\ Highest(First(Touching(u, f), n + 1)) = n + 1
    BY <1>2, <1>3, <1>5, FirstNext
  <2>2. h.files[f] = None \/ f \in h.cloexec
    BY <1>1, <1>5 DEF FilesSet
  <2>3. QED BY <1>1, <1>5, <2>1, <2>2 DEF FileSet
<1>6. CASE f \in Touched(i) /\ i.init \in Binders
  <2>1. /\ First(Touching(u, f), n + 1) # {}
        /\ Highest(First(Touching(u, f), n + 1)) = n + 1
    BY <1>2, <1>3, <1>6, FirstNext
  <2>2. i.fd \in BotFd /\ BotFiles[i.fd] # None
    BY <1>2, <1>6, InitializerAssumption DEF BotFd
  <2>3. ASSUME \A m \in Touching(u, i.fd) : n + 1 < m
        PROVE  h.files[f] = BotFiles[i.fd] /\ f \notin h.cloexec
    <3>1. First(Touching(u, i.fd), n) = {}
      <4>1. Touching(u, i.fd) \subseteq Nat
        BY DEF Touching
      <4>2. QED BY <2>3, <4>1 DEF First
    <3>2. k.files[i.fd] = BotFiles[i.fd]
      <4>1. i.fd \in Fd /\ FileSet(k, u, i.fd, n)
        BY <2>2 DEF BotFd
      <4>2. QED BY <2>2, <3>1, <4>1 DEF FileSet
    <3>3. QED BY <1>1, <1>6, <2>2, <3>2 DEF FilesSet
  <2>4. QED BY <1>1, <1>6, <2>1, <2>3 DEF FileSet
<1>7. CASE f \notin Touched(i) /\ Closes(i, u, f)
  <2>1. First(Touching(u, f), n + 1) = First(Touching(u, f), n)
    BY <1>2, <1>3, <1>7, FirstNext
  <2>2. h.files[f] = None /\ f \notin BotFd
    BY <1>1, <1>7 DEF FilesSet, Closes
  <2>3. ASSUME First(Touching(u, f), n) # {}
        PROVE  ClosesSource(u, f, Highest(First(Touching(u, f), n)))
    <3>1. First(Touching(u, f), n) \subseteq 0..n
      BY <1>2 DEF First
    <3>2. Highest(First(Touching(u, f), n)) \in 0..n
      BY <2>3, <3>1, HighestIs
    <3>3. n + 1 \in Places(u, Reporters)
      BY <1>1, <1>7 DEF Places, Closes
    <3>4. QED BY <1>7, <3>2, <3>3 DEF ClosesSource, Closes
  <2>4. QED BY <2>1, <2>2, <2>3 DEF FileSet
<1>8. QED BY <1>4, <1>5, <1>6, <1>7

\* So are the program and its arguments.
LEMMA OneMoreName ==
  ASSUME NEW u \in Thread, seq[u] \in Seq(Initializer), NEW n \in Nat, n + 1 \in DOMAIN seq[u],
         NEW k, Named(k, u, n), NEW h, NamesSet(h, k, seq[u][n + 1])
  PROVE  Named(h, u, n + 1)
<1> DEFINE Exes == Places(u, {"run_exe"})
           Args == Naming(u)
           Lines == Places(u, {"set_args", "set_cmd_line"})
<1>1. PICK i : i = seq[u][n + 1]
  OBVIOUS
<1>2. /\ i \in Initializer /\ \A m \in DOMAIN seq[u] : seq[u][m] \in Initializer
      /\ Exes \subseteq Nat /\ Args \subseteq Nat /\ Lines \subseteq Nat
  BY <1>1 DEF Places, Naming
<1>3. /\ n + 1 \in Exes <=> i.init = "run_exe"
      /\ n + 1 \in Args <=> i.init = "set_args" /\ Head(i.args) # NoText
      /\ n + 1 \in Lines <=> i.init \in {"set_args", "set_cmd_line"}
  BY <1>1 DEF Places, Naming
<1>4. /\ i.init = "run_exe" => i.exe # None /\ <<i.exe>> # None
      /\ i.init \in {"set_args", "set_cmd_line"} => i.args # None /\ Head(i.args) # None
  BY <1>2, InitializerAssumption
<1> DEFINE E(m) == First(Exes, m)
           A(m) == First(Args, m)
           L(m) == First(Lines, m)
<1>5. /\ n + 1 \in Exes => /\ E(n + 1) # {} /\ Highest(E(n + 1)) = n + 1
                           /\ Lowest(E(n + 1)) = IF E(n) = {} THEN n + 1 ELSE Lowest(E(n))
      /\ n + 1 \notin Exes => E(n + 1) = E(n)
  BY <1>2, FirstNext
<1>6. /\ n + 1 \in Args => /\ A(n + 1) # {}
                           /\ Lowest(A(n + 1)) = IF A(n) = {} THEN n + 1 ELSE Lowest(A(n))
      /\ n + 1 \notin Args => A(n + 1) = A(n)
  BY <1>2, FirstNext
<1>7. /\ n + 1 \in Lines => L(n + 1) # {} /\ Highest(L(n + 1)) = n + 1
      /\ n + 1 \notin Lines => L(n + 1) = L(n)
  BY <1>2, FirstNext
<1>8. /\ k.exe = IF E(n) # {} THEN seq[u][Highest(E(n))].exe
                 ELSE IF A(n) # {} THEN Head(seq[u][Lowest(A(n))].args) ELSE None
      /\ k.args = IF L(n) # {} THEN seq[u][Highest(L(n))].args
                  ELSE IF E(n) # {} THEN <<seq[u][Lowest(E(n))].exe>> ELSE None
      /\ k.exe = None <=> E(n) = {} /\ A(n) = {}
      /\ k.args = None <=> L(n) = {} /\ E(n) = {}
  BY DEF Named
<1>9. /\ h.exe = IF i.init = "run_exe" THEN i.exe
                 ELSE IF i.init = "set_args" /\ k.exe = None /\ Head(i.args) # NoText
                 THEN Head(i.args) ELSE k.exe
      /\ h.args = IF i.init \in {"set_args", "set_cmd_line"} THEN i.args
                  ELSE IF i.init = "run_exe" /\ k.args = None THEN <<i.exe>> ELSE k.args
  BY <1>1 DEF NamesSet
<1> HIDE DEF E, A, L, Exes, Args, Lines
<1>10. /\ h.exe = IF E(n + 1) # {} THEN seq[u][Highest(E(n + 1))].exe
                  ELSE IF A(n + 1) # {} THEN Head(seq[u][Lowest(A(n + 1))].args) ELSE None
       /\ h.exe = None <=> E(n + 1) = {} /\ A(n + 1) = {}
  <2>1. CASE i.init = "run_exe"
    BY <1>1, <1>3, <1>4, <1>5, <1>9, <2>1
  <2>2. CASE i.init = "set_args"
    BY <1>1, <1>3, <1>4, <1>5, <1>6, <1>8, <1>9, <2>2
  <2>3. CASE i.init \notin {"run_exe", "set_args"}
    BY <1>3, <1>5, <1>6, <1>8, <1>9, <2>3
  <2>4. QED BY <2>1, <2>2, <2>3
<1>11. /\ h.args = IF L(n + 1) # {} THEN seq[u][Highest(L(n + 1))].args
                   ELSE IF E(n + 1) # {} THEN <<seq[u][Lowest(E(n + 1))].exe>> ELSE None
       /\ h.args = None <=> L(n + 1) = {} /\ E(n + 1) = {}
  <2>1. CASE i.init = "run_exe"
    BY <1>1, <1>3, <1>4, <1>5, <1>7, <1>8, <1>9, <2>1
  <2>2. CASE i.init \in {"set_args", "set_cmd_line"}
    BY <1>1, <1>3, <1>4, <1>7, <1>9, <2>2
  <2>3. CASE i.init \notin {"run_exe", "set_args", "set_cmd_line"}
    BY <1>3, <1>5, <1>7, <1>8, <1>9, <2>3
  <2>4. QED BY <2>1, <2>2, <2>3
<1>12. QED BY <1>10, <1>11 DEF Named, E, A, L, Exes, Args, Lines

\* None is no end of a pipe.
LEMMA NoneIsNoEnd == ~IsEnd(None)
  BY ExecutorAssumption DEF IsEnd

\* A sink is marked on, or caught on.
LEMMA OneMoreSink ==
  ASSUME NEW u \in Thread, NEW i \in Initializer, NEW k, SinksMarked(k, u),
         NEW h, FilesSet(h, k, i, u)
  PROVE  SinksMarked(h, u)
<1>1. \A t \in Thread : IsEnd(<<"sink", t>>)
  BY DEF IsEnd
<1>2. i.init \in Binders => i.fd \in BotFd
  BY InitializerAssumption DEF BotFd
<1>3. ASSUME NEW f \in Fd, NEW t \in Thread, h.files[f] = <<"sink", t>>
      PROVE  h.files[f] = k.files[f] /\ (f \in k.cloexec => f \in h.cloexec)
  BY <1>1, <1>2, <1>3, NoneIsNoEnd DEF FilesSet, SinksMarked
<1>4. BotFd \subseteq Fd
  BY DEF BotFd
<1>5. ASSUME NEW f \in BotFd PROVE ~IsEnd(h.files[f])
  BY <1>2, <1>4, NoneIsNoEnd DEF FilesSet, SinksMarked
<1>6. QED BY <1>3, <1>5 DEF SinksMarked

\* The source is closed, or left.
LEMMA OneMoreSource ==
  ASSUME NEW u \in Thread, seq[u] \in Seq(Initializer), NEW n \in Nat, n + 1 \in DOMAIN seq[u],
         NEW k, SinksMarked(k, u), SourceLeft(k, u, n),
         NEW h, FilesSet(h, k, seq[u][n + 1], u)
  PROVE  SourceLeft(h, u, n + 1)
<1>1. PICK i \in Initializer : i = seq[u][n + 1]
  OBVIOUS
<1>2. IsEnd(<<"source", u>>)
  BY DEF IsEnd
<1>3. i.init \in Binders => i.fd \in BotFd
  BY InitializerAssumption DEF BotFd
<1>4. SUFFICES ASSUME NEW f \in Fd, h.files[f] = <<"source", u>>, "stale_ec" \notin faults[u]
               PROVE  Reports(u) /\ f = pipe[u].source /\ \A m \in Places(u, Reporters) : n + 1 < m
  BY DEF SourceLeft
<1>5. k.files[f] = <<"source", u>>
  BY <1>1, <1>2, <1>3, <1>4, NoneIsNoEnd DEF FilesSet, SinksMarked
<1>6. Reports(u) /\ f = pipe[u].source /\ \A m \in Places(u, Reporters) : n < m
  BY <1>4, <1>5 DEF SourceLeft
<1>7. n + 1 \notin Places(u, Reporters)
  <2>1. SUFFICES ASSUME i.init \in Reporters PROVE FALSE
    BY <1>1 DEF Places
  <2>2. Closes(i, u, f)
    BY <1>6, <2>1 DEF Closes
  <2>3. h.files[f] = None
    BY <1>1, <2>1, <2>2 DEF FilesSet, Reporters, Binders, Touched
  <2>4. QED BY <1>2, <1>4, <2>3, NoneIsNoEnd
<1>8. Places(u, Reporters) \subseteq Nat
  BY DEF Places
<1>9. QED BY <1>6, <1>7, <1>8

\* The child after n + 1 callbacks.
LEMMA OneMore ==
  ASSUME NEW u \in Thread, seq[u] \in Seq(Initializer), NEW n \in Nat, n + 1 \in DOMAIN seq[u],
         Reports(u) => pipe[u].source \notin BotFd, NEW k, MadeBy(k, u, n)
  PROVE  MadeBy(SetUp(k, seq[u][n + 1], u), u, n + 1)
<1>1. PICK h : h = SetUp(k, seq[u][n + 1], u)
  OBVIOUS
<1>2. seq[u][n + 1] \in Initializer
  OBVIOUS
<1>3. FilesSet(h, k, seq[u][n + 1], u) /\ NamesSet(h, k, seq[u][n + 1])
  BY <1>1, <1>2, SetUpSets DEF MadeBy
<1>4. SinksMarked(h, u)
  BY <1>2, <1>3, OneMoreSink DEF MadeBy
<1>5. Named(h, u, n + 1)
  BY <1>3, OneMoreName DEF MadeBy
<1>6. \A f \in Fd : FileSet(h, u, f, n + 1)
  BY <1>3, OneMoreFile DEF MadeBy
<1>6a. SourceLeft(h, u, n + 1)
  BY <1>3, OneMoreSource DEF MadeBy
<1>7. DOMAIN h = DOMAIN NoCopy /\ DOMAIN h.files = Fd /\ h.env = k.env
  BY <1>3 DEF FilesSet, NamesSet
<1>8. MadeBy(h, u, n + 1)
  BY <1>4, <1>5, <1>6, <1>6a, <1>7 DEF MadeBy
<1>9. QED BY <1>1, <1>8

\* The child after all of them.
LEMMA AllOfThem ==
  ASSUME NEW u \in Thread, seq[u] \in Seq(Initializer),
         Reports(u) => pipe[u].source \notin BotFd, MadeBy(copy[u], u, 0)
  PROVE  MadeBy(SetUpBy(u)[Len(seq[u])], u, Len(seq[u]))
<1>1. PICK m \in Nat : m = Len(seq[u]) /\ DOMAIN seq[u] = 1..m
  OBVIOUS
<1> DEFINE S == {n \in Nat : MadeBy(SetUpBy(u)[n], u, n)}
<1>2. /\ SetUpBy(u)[0] = copy[u]
      /\ \A n \in 0..(m - 1) : SetUpBy(u)[n + 1] = SetUp(SetUpBy(u)[n], seq[u][n + 1], u)
  BY <1>1, SetUpByDef
<1>3. 0 \in S
  BY <1>2
<1>4. ASSUME NEW n \in 0..(m - 1), n \in S PROVE n + 1 \in S
  <2>1. n \in Nat /\ n + 1 \in Nat /\ n + 1 \in DOMAIN seq[u] /\ MadeBy(SetUpBy(u)[n], u, n)
    BY <1>1, <1>4
  <2>2. MadeBy(SetUp(SetUpBy(u)[n], seq[u][n + 1], u), u, n + 1)
    BY <2>1, OneMore
  <2>3. QED BY <1>2, <2>1, <2>2
<1> HIDE DEF S
<1>5. m \in S
  <2>1. m \in 0..m
    OBVIOUS
  <2>2. QED BY <1>3, <1>4, <2>1, UpTo
<1>6. QED BY <1>1, <1>5 DEF S

\* execve() takes what is marked.
LEMMA ExecveKeeps ==
  ASSUME NEW u \in Thread, NEW n, NEW k, MadeBy(k, u, n)
  PROVE  /\ MadeBy(CloseInKid(k, k.cloexec), u, n)
         /\ CloseInKid(k, k.cloexec).cloexec = {}
         /\ CloseInKid(k, k.cloexec).exe = k.exe
<1> DEFINE h == CloseInKid(k, k.cloexec)
<1>1. /\ DOMAIN h = DOMAIN k /\ DOMAIN h.files = Fd /\ h.cloexec = {}
      /\ h.exe = k.exe /\ h.args = k.args /\ h.env = k.env
      /\ \A f \in Fd : h.files[f] = IF f \in k.cloexec THEN None ELSE k.files[f]
  BY DEF CloseInKid, NoCopy, MadeBy
<1> HIDE DEF h
<1>2. \A end \in {"source", "sink"}, t \in Thread : None # <<end, t>>
  BY ExecutorAssumption
<1>3. BotFd \subseteq Fd
  BY DEF BotFd
<1>4. SinksMarked(h, u) /\ SourceLeft(h, u, n)
  BY <1>1, <1>2, <1>3, NoneIsNoEnd DEF MadeBy, SinksMarked, SourceLeft
<1>5. Named(h, u, n)
  BY <1>1 DEF MadeBy, Named
<1>6. ASSUME NEW f \in Fd PROVE FileSet(h, u, f, n)
  <2>1. FileSet(k, u, f, n)
    BY DEF MadeBy
  <2>2. h.files[f] = k.files[f] \/ (h.files[f] = None /\ f \in k.cloexec)
    BY <1>1
  <2>3. QED BY <1>1, <2>1, <2>2 DEF FileSet
<1>7. QED BY <1>1, <1>4, <1>5, <1>6 DEF MadeBy, h

-----------------------------------------------------------------------------
(* The steps keep it.                                                       *)

\* A child that was made so, was.
LEMMA MadeStays ==
  ASSUME NEW t \in Thread, seq' = seq, window \subseteq window', pipe'[t] = pipe[t],
         kid'[t].ec = kid[t].ec, faults[t] \subseteq faults'[t], NEW k, NEW n, MadeBy(k, t, n)
  PROVE  MadeBy(k, t, n)'
<1>0. Reports(t)' <=> Reports(t)
  BY DEF Reports
<1>1. \A classes : Places(t, classes)' = Places(t, classes)
  BY DEF Places
<1>2. \A f : Touching(t, f)' = Touching(t, f)
  BY DEF Touching
<1>3. SinksMarked(k, t)'
  BY DEF MadeBy, SinksMarked, IsEnd
<1>3a. SourceLeft(k, t, n)'
  BY <1>0, <1>1 DEF MadeBy, SourceLeft
<1>4. Named(k, t, n)'
  <2>1. Naming(t)' = Naming(t)
    BY <1>1 DEF Naming
  <2>2. QED BY <1>1, <2>1 DEF MadeBy, Named
<1>5. ASSUME NEW f \in Fd PROVE FileSet(k, t, f, n)'
  <2>1. \A m : ClosesSource(t, f, m)' <=> ClosesSource(t, f, m)
    BY <1>0, <1>1 DEF ClosesSource
  <2>2. QED BY <1>2, <2>1 DEF MadeBy, FileSet, IsEnd
<1>6. EnvOf(t, Places(t, Envs))' = EnvOf(t, Places(t, Envs))
  BY <1>1 DEF EnvOf
<1>7. QED BY <1>3, <1>3a, <1>4, <1>5, <1>6 DEF MadeBy

\* What is known of the child of t holds on while the child stays.
LEMMA KidStays ==
  ASSUME NEW t \in Thread, KidMade(t), seq' = seq, kid'[t] = kid[t], copy'[t] = copy[t],
         kid[t].image # "none" => pipe'[t] = pipe[t], window \subseteq window',
         faults[t] \subseteq faults'[t]
  PROVE  KidMade(t)'
<1>1. Reports(t)' <=> Reports(t)
  BY DEF Reports
<1>2. PICK k : k = copy[t]
  OBVIOUS
<1>3. ASSUME NEW n, MadeBy(k, t, n), kid[t].image # "none" PROVE MadeBy(k, t, n)'
  BY <1>3, MadeStays
<1>4. QED BY <1>1, <1>2, <1>3 DEF KidMade

\* fork() hands on the bot's descriptors and the marked sinks, and catches one
\* that is not.
LEMMA ForkMakes ==
  ASSUME Inv, AllLeft, NEW u \in Thread, ForkSucceeds(u), Table, EnvSet(u), Gone(u)
  PROVE  KidMade(u)'
<1>1. /\ Types /\ at[u] = "on_fork_setup" /\ todo[u] = {}
      /\ seq' = seq /\ pipe' = pipe /\ ec' = ec /\ faults' = faults
      /\ kid'[u].image = "setup" /\ kid'[u].ec = ec[u]
      /\ window' = window \cup {<<t, u>> : t \in {t \in Thread : InWindow(t)}}
  BY DEF ForkSucceeds, Inv, Types, NoKid
<1>2. PICK k : /\ k = copy'[u]
               /\ DOMAIN k = DOMAIN NoCopy /\ k.files = files /\ k.cloexec = cloexec
               /\ k.exe = None /\ k.args = None /\ k.env = env[u]
  <2>1. copy'[u] = [NoCopy EXCEPT !.files = files, !.cloexec = cloexec, !.env = env[u]]
    BY <1>1 DEF ForkSucceeds, Types
  <2>2. PICK k : k = [NoCopy EXCEPT !.files = files, !.cloexec = cloexec, !.env = env[u]]
    OBVIOUS
  <2>3. /\ DOMAIN k = DOMAIN NoCopy /\ k.files = files /\ k.cloexec = cloexec
        /\ k.exe = None /\ k.args = None /\ k.env = env[u]
    BY <2>2 DEF NoCopy
  <2>4. QED BY <2>1, <2>2, <2>3
<1>3. seq[u] \in Seq(Initializer)
  BY <1>1, ExecutorAssumption DEF Types
<1>4. \A classes : Places(u, classes) \subseteq Nat \ {0} /\ First(Places(u, classes), 0) = {}
  BY <1>3 DEF Places, First
<1>5. \A f : First(Touching(u, f), 0) = {}
  BY <1>3 DEF Touching, First
<1>6. SinksMarked(k, u)'
  <2>1. \A f \in BotFd : ~IsEnd(k.files[f])
    BY <1>2, ExecutorAssumption DEF Table, BotFd, IsEnd
  <2>2. \A f \in Fd, t \in Thread :
          k.files[f] = <<"sink", t>> => f \in k.cloexec \/ <<t, u>> \in window'
    BY <1>1, <1>2 DEF Table
  <2>3. QED BY <2>1, <2>2 DEF SinksMarked, IsEnd
<1>6a. SourceLeft(k, u, 0)'
  <2>1. SUFFICES ASSUME NEW f \in Fd, files[f] = <<"source", u>>, "stale_ec" \notin faults[u]
                 PROVE  /\ Reports(u)' /\ f = pipe'[u].source
                        /\ \A m \in Places(u, Reporters)' : 0 < m
    BY <1>1, <1>2 DEF SourceLeft
  <2>2. "handler" \notin faults[u]
    BY <1>1 DEF Gone
  <2>3. f = pipe[u].source /\ Busy(u)
    BY <2>1, <2>2 DEF AllLeft, Left, Held, Excepted
  <2>4. HasReporter(u)' /\ ~kid'[u].ec
    BY <1>1, <2>3 DEF Busy, HasReporter
  <2>5. Reports(u)'
    BY <2>4, UsesAt DEF Reports, HasReporter, Reporters
  <2>6. \A m \in Places(u, Reporters)' : 0 < m
    BY <1>1, <1>3 DEF Places
  <2>7. QED BY <1>1, <2>3, <2>5, <2>6
<1>7. MadeBy(k, u, 0)'
  <2>1. Named(k, u, 0)
    <3>1. First(Naming(u), 0) = {}
      BY <1>4 DEF Naming, First
    <3>2. QED BY <1>2, <1>4, <3>1 DEF Named
  <2>2. \A f \in Fd : FileSet(k, u, f, 0)
    BY <1>2, <1>5 DEF FileSet, Table
  <2>3. k.env = EnvOf(u, Places(u, Envs))
    <3>1. Places(u, Envs) \ todo[u] = Places(u, Envs)
      BY <1>1
    <3>2. QED BY <1>1, <1>2, <3>1 DEF EnvSet
  <2>4. /\ Named(k, u, 0)' /\ EnvOf(u, Places(u, Envs))' = EnvOf(u, Places(u, Envs))
        /\ \A f \in Fd : FileSet(k, u, f, 0)'
    <3>1. \A classes : Places(u, classes)' = Places(u, classes)
      BY <1>1 DEF Places
    <3>2. \A f : Touching(u, f)' = Touching(u, f)
      BY <1>1 DEF Touching
    <3>3. Named(k, u, 0)'
      <4>1. Naming(u)' = Naming(u)
        BY <1>1, <3>1 DEF Naming
      <4>2. QED BY <1>1, <2>1, <3>1, <4>1 DEF Named
    <3>4. \A f \in Fd : FileSet(k, u, f, 0)'
      <4>1. ASSUME NEW f \in Fd PROVE FileSet(k, u, f, 0)'
        <5>1. First(Touching(u, f)', 0) = {}
          BY <1>5, <3>2
        <5>2. QED BY <2>2, <1>5, <5>1 DEF FileSet, IsEnd
      <4>2. QED BY <4>1
    <3>5. QED BY <1>1, <3>1, <3>3, <3>4 DEF EnvOf
  <2>5. DOMAIN k.files = Fd
    BY <1>1, <1>2 DEF Types
  <2>6. QED BY <1>2, <1>6, <1>6a, <2>3, <2>4, <2>5 DEF MadeBy
<1>8. ASSUME Reports(u)' PROVE pipe'[u].source \notin BotFd
  <2>1. HasReporter(u) /\ ~ec[u]
    <3>1. Uses(seq[u], {"throw_on_error"}) \/ (Uses(seq[u], {"set_on_error"}) /\ ~ec[u])
      BY <1>1, <1>8 DEF Reports
    <3>2. HasReporter(u)
      BY <3>1, UsesAt DEF HasReporter, Reporters
    <3>3. QED BY <1>1, <3>1, <3>2, Arming
  <2>2. SourceOpen(u)
    BY <1>1, <2>1 DEF Inv, Local, Ends, Pending
  <2>3. QED BY <1>1, <2>2, ExecutorAssumption DEF SourceOpen, Table, BotFd
<1>9. QED BY <1>1, <1>2, <1>7, <1>8 DEF KidMade

\* The steps of the child.
LEMMA KidStepsMake ==
  ASSUME Inv, NEW u \in Thread, KidStep(u), KidMade(u)
  PROVE  KidMade(u)'
<1>1. /\ Types /\ seq' = seq /\ pipe' = pipe /\ window' = window
      /\ seq[u] \in Seq(Initializer)
  BY ExecutorAssumption DEF Inv, Types, KidStep, OnExecSetup, ExecveSucceeds, ExecveFails,
       KidKilled, ProgramEnds, KidOnly, callVars
<1>1a. kid'[u].ec = kid[u].ec /\ faults[u] \subseteq faults'[u]
  BY <1>1 DEF KidStep, OnExecSetup, ExecveSucceeds, ExecveFails, KidKilled, ProgramEnds,
              Exits, Fault, Types
<1>2. CASE OnExecSetup(u)
  <2>1. CASE Astray(u, "on_exec_setup")
    <3>1. kid'[u].image = "stray"
      BY <1>1, <1>2, <2>1 DEF OnExecSetup, Types
    <3>2. QED BY <3>1 DEF KidMade
  <2>2. CASE ~Astray(u, "on_exec_setup")
    <3>1. kid'[u].image = "ready" /\ kid[u].image = "setup" /\ copy'[u] = Configured(u)
      BY <1>1, <1>2, <2>2 DEF OnExecSetup, Types
    <3>2. Configured(u) = SetUpBy(u)[Len(seq[u])]
      BY <2>2 DEF Astray, Configured
    <3>3. PICK k, n : k = Configured(u) /\ n = Len(seq[u])
      OBVIOUS
    <3>4. MadeBy(k, u, n)
      BY <1>1, <3>1, <3>2, <3>3, AllOfThem DEF KidMade
    <3>5. MadeBy(k, u, n)'
      BY <1>1, <1>1a, <3>4, MadeStays
    <3>6. QED BY <1>1, <3>1, <3>3, <3>5 DEF KidMade
  <2>3. QED BY <2>1, <2>2
<1>3. CASE ExecveSucceeds(u)
  <2>1. /\ kid'[u].image = "running" /\ kid[u].image = "ready"
        /\ copy'[u] = CloseInKid(copy[u], copy[u].cloexec)
    BY <1>1, <1>3 DEF ExecveSucceeds, Types
  <2>2. PICK k, n : k = copy'[u] /\ n = Len(seq[u])
    OBVIOUS
  <2>3. MadeBy(k, u, n) /\ k.cloexec = {}
    <3>1. MadeBy(copy[u], u, n)
      BY <2>1, <2>2 DEF KidMade
    <3>2. QED BY <2>1, <2>2, <3>1, ExecveKeeps
  <2>4. MadeBy(k, u, n)'
    BY <1>1, <1>1a, <2>3, MadeStays
  <2>5. QED BY <1>1, <2>1, <2>2, <2>3, <2>4 DEF KidMade
<1>4. CASE ExecveFails(u) \/ KidKilled(u) \/ ProgramEnds(u)
  <2>1. kid'[u].image \in {"stray", "failed", "ended"}
    BY <1>1, <1>4 DEF ExecveFails, KidKilled, ProgramEnds, Exits, Types
  <2>2. QED BY <2>1 DEF KidMade
<1>5. QED BY <1>2, <1>3, <1>4 DEF KidStep

\* A callback of on_fork_setup is over: the environment is that of the last
\* initializer so far.
LEMMA EnvDone ==
  ASSUME Types, NEW u \in Thread, EnvSet(u), at[u] = "on_fork_setup", todo[u] # {}, Done(u),
         seq' = seq, DOMAIN env' = DOMAIN env,
         env'[u] = IF Current(u).init \in Envs THEN Current(u).env ELSE env[u]
  PROVE  EnvSet(u)'
<1> DEFINE O == Overriding(seq[u], "on_fork_setup")
           P == Places(u, Envs)
<1>1. PICK p : /\ p = Lowest(todo[u]) /\ p \in todo[u] /\ \A n \in todo[u] : p <= n
               /\ todo[u] \subseteq Nat /\ todo[u] \subseteq DOMAIN seq[u] /\ p \in Nat
  BY LowestIs DEF Types
<1>2. todo'[u] = todo[u] \ {p}
  BY <1>1 DEF Done, Types
<1>3. O' = O /\ P' = P /\ P \subseteq O
  BY DEF Overriding, Places, Overrides, Envs
<1>4. O \subseteq Nat
  BY ExecutorAssumption DEF Types, Overriding
<1>5. \A m \in O \ todo[u], n \in todo[u] : m < n
  BY DEF EnvSet
<1>6. \A m \in O \ todo'[u], n \in todo'[u] : m < n
  BY <1>1, <1>2, <1>4, <1>5
<1>7. p \in P <=> Current(u).init \in Envs
  BY <1>1 DEF Places, Current
<1>8. env'[u] = EnvOf(u, P \ todo'[u])
  <2>1. CASE p \in P
    <3>1. P \ todo'[u] = (P \ todo[u]) \cup {p}
      BY <1>2, <2>1
    <3>2. \A m \in P \ todo'[u] : m <= p
      BY <1>1, <1>3, <1>4, <1>5, <3>1
    <3>3. \A q \in P \ todo'[u] : (\A m \in P \ todo'[u] : m <= q) => q = p
      BY <1>1, <1>3, <1>4, <3>1, <3>2
    <3>4. Highest(P \ todo'[u]) = p
      BY <3>1, <3>2, <3>3 DEF Highest
    <3>5. QED BY <1>1, <1>7, <2>1, <3>1, <3>4 DEF EnvOf, Current
  <2>2. CASE p \notin P
    <3>1. P \ todo'[u] = P \ todo[u]
      BY <1>1, <1>2, <2>2
    <3>2. QED BY <1>7, <2>2, <3>1 DEF EnvSet
  <2>3. QED BY <2>1, <2>2
<1>9. PICK rest : rest = P \ todo'[u]
  OBVIOUS
<1>10. EnvOf(u, rest)' = env'[u]
  BY <1>8, <1>9 DEF EnvOf
<1>11. QED BY <1>3, <1>6, <1>9, <1>10 DEF EnvSet

\* What is known of the environment of t holds on while t stays where it is.
LEMMA EnvStays ==
  ASSUME NEW t \in Thread, EnvSet(t), seq' = seq,
         at'[t] = "on_fork_setup" =>
           /\ at[t] = at'[t] /\ todo'[t] = todo[t]
           /\ env'[t] = env[t] /\ DOMAIN env' = DOMAIN env
  PROVE  EnvSet(t)'
<1>1. Places(t, Envs)' = Places(t, Envs)
      /\ Overriding(seq[t], "on_fork_setup")' = Overriding(seq[t], "on_fork_setup")
  BY DEF Places, Overriding
<1>2. QED BY <1>1 DEF EnvSet, EnvOf

\* The steps of a thread.
LEMMA EnvSteps ==
  ASSUME Inv, NEW u \in Thread, CallStep(u) \/ ReadInterrupted(u) \/ KidStep(u), EnvSet(u)
  PROVE  EnvSet(u)'
<1>1. Types /\ Stage(u) /\ seq' = seq
  BY SameCalls DEF Inv, Local
<1>2. ASSUME at[u] = "on_fork_setup", todo[u] # {}, Done(u), env' = env,
             Current(u).init \notin Envs
      PROVE  EnvSet(u)'
  BY <1>1, <1>2, EnvDone
<1>3. ASSUME Throw(u) PROVE EnvSet(u)'
  <2>1. at'[u] = "threw"
    BY <1>1, <1>3 DEF Throw, Types
  <2>2. QED BY <1>1, <2>1, EnvStays
<1>4. Turn(u) => todo[u] # {} /\ Current(u).init \notin Envs
  BY DEF Turn, Reporters, Envs
<1>5. CASE CallHandler(u)
  <2>1. todo[u] # {} /\ Current(u).init = at[u] /\ env' = env
    BY <1>5 DEF CallHandler, In
  <2>2. CASE at[u] = "on_fork_setup"
    <3>1. Done(u) \/ Throw(u)
      BY <1>5 DEF CallHandler
    <3>2. Current(u).init \notin Envs
      BY <2>1, <2>2 DEF Envs
    <3>3. QED BY <1>2, <1>3, <2>1, <2>2, <3>1, <3>2
  <2>3. CASE at[u] # "on_fork_setup"
    <3>1. at'[u] # "on_fork_setup"
      BY <1>1, <1>5, <2>3 DEF CallHandler, Done, Throw, Types
    <3>2. QED BY <1>1, <3>1, EnvStays
  <2>4. QED BY <2>2, <2>3
<1>6. CASE SetEnv(u)
  <2>1. /\ at[u] = "on_fork_setup" /\ todo[u] # {} /\ Current(u).init \in Envs
        /\ env' = [env EXCEPT ![u] = Current(u).env] /\ Done(u)
    BY <1>6 DEF SetEnv, In, Envs
  <2>2. env'[u] = Current(u).env /\ DOMAIN env' = DOMAIN env
    BY <2>1 DEF EnvSet
  <2>3. QED BY <1>1, <2>1, <2>2, EnvDone
<1>7. CASE PrepareIoService(u)
  <2>1. /\ at[u] = "on_fork_setup" /\ todo[u] # {} /\ Done(u) /\ env' = env
        /\ Current(u).init = "notify_io_service"
    BY <1>7 DEF PrepareIoService, In
  <2>2. QED BY <1>2, <2>1 DEF Envs
<1>8. CASE CreatePipe(u)
  BY <1>1, <1>8, EnvStays DEF CreatePipe
<1>9. CASE CreatePipeFails(u)
  BY <1>1, <1>3, <1>9, EnvStays DEF CreatePipeFails
<1>10. CASE UseGarbage(u) \/ MarkSink(u) \/ MarkSinkFails(u)
  <2>1. at[u] = "on_fork_setup" /\ Turn(u) /\ env' = env /\ (Done(u) \/ Throw(u))
    BY <1>1, <1>10 DEF UseGarbage, MarkSink, MarkSinkFails, InWindow, Stage, Report
  <2>2. QED BY <1>2, <1>3, <1>4, <2>1
<1>11. CASE ForkSucceeds(u) \/ ForkFails(u) \/ AfterForkError(u) \/ Return(u)
  <2>1. at'[u] # "on_fork_setup"
    BY <1>1, <1>11 DEF ForkSucceeds, ForkFails, AfterForkError, Return, Enter, Types
  <2>2. QED BY <1>1, <2>1, EnvStays
<1>12. CASE ResumeIoService(u) \/ ReportForkError(u) \/ CloseSink(u) \/ ReadError(u)
             \/ ReadNothing(u) \/ ReadInterrupted(u)
  <2>1. at[u] # "on_fork_setup" /\ (at' = at \/ Throw(u))
    BY <1>1, <1>12 DEF ResumeIoService, ReportForkError, CloseSink, ReadError, ReadNothing,
                       ReadInterrupted, In, Report, Done, Stage
  <2>2. QED BY <1>1, <1>3, <2>1, EnvStays
<1>13. CASE KidStep(u)
  <2>1. at' = at /\ todo' = todo /\ env' = env
    BY <1>13 DEF KidStep, OnExecSetup, ExecveSucceeds, ExecveFails, KidKilled, ProgramEnds,
                 KidOnly, callVars
  <2>2. QED BY <1>1, <2>1, EnvStays
<1>14. QED
  BY <1>5, <1>6, <1>7, <1>8, <1>9, <1>10, <1>11, <1>12, <1>13
     DEF CallStep, SetsUpPipe, ReadsPipe

\* The ends of its own pipe.
Own(u, fs) == \A f \in fs : f \in Fd => files[f] \in {<<"source", u>>, <<"sink", u>>}

\* A thread closes ends of its own pipe only, and after fcntl(), or its sink too.
LEMMA ClosesOwn ==
  ASSUME Inv, NEW u \in Thread,
         \/ MarkSinkFails(u) \/ ReportForkError(u) \/ CloseSink(u)
         \/ ReadError(u) \/ ReadNothing(u) \/ ReadInterrupted(u)
  PROVE  \/ UNCHANGED tableVars /\ ~InWindow(u)
         \/ \E fs : Close(fs) /\ Own(u, fs) /\ (InWindow(u) => pipe[u].sink \in fs)
<1>1. Types /\ Stage(u) /\ Ends(u)
  BY DEF Inv, Local
<1>2. Turn(u) => HasReporter(u) /\ Pending(u) /\ (Active(u) <=> ~ec[u])
  BY <1>1, UniqueTurn, Arming
<1>3. CASE MarkSinkFails(u)
  BY <1>1, <1>3 DEF MarkSinkFails, InWindow, Ends, SourceOpen, SinkOpen, Own
<1>4. CASE ReportForkError(u)
  <2>1. at[u] = "on_fork_error" /\ Turn(u) /\ ~InWindow(u) /\ step[u] # "reading"
    BY <1>1, <1>4 DEF ReportForkError, In, Turn, InWindow, Stage
  <2>2. CASE Active(u)
    <3>1. Close({pipe[u].source, pipe[u].sink})
      BY <1>4, <2>2 DEF ReportForkError
    <3>2. SourceOpen(u) /\ SinkOpen(u)
      BY <1>1, <1>2, <2>1, <2>2 DEF Ends
    <3>3. Own(u, {pipe[u].source, pipe[u].sink})
      BY <3>2 DEF Own, SourceOpen, SinkOpen
    <3>4. QED BY <2>1, <3>1, <3>3
  <2>3. CASE ~Active(u)
    BY <1>4, <2>1, <2>3 DEF ReportForkError
  <2>4. QED BY <2>2, <2>3
<1>5. CASE CloseSink(u)
  <2>1. at[u] = "on_fork_success" /\ Turn(u) /\ ~InWindow(u) /\ step[u] = "begin"
    BY <1>1, <1>5 DEF CloseSink, In, Turn, InWindow
  <2>2. CASE Active(u)
    <3>1. Close({pipe[u].sink})
      BY <1>5, <2>2 DEF CloseSink
    <3>2. SinkOpen(u)
      BY <1>1, <1>2, <2>1, <2>2 DEF Ends
    <3>3. Own(u, {pipe[u].sink})
      BY <3>2 DEF Own, SinkOpen
    <3>4. QED BY <2>1, <3>1, <3>3
  <2>3. CASE ~Active(u)
    BY <1>5, <2>1, <2>3 DEF CloseSink
  <2>4. QED BY <2>2, <2>3
<1>6. CASE ReadError(u) \/ ReadNothing(u) \/ ReadInterrupted(u)
  <2>1. step[u] = "reading" /\ Close({pipe[u].source}) /\ ~InWindow(u)
    BY <1>6 DEF ReadError, ReadNothing, ReadInterrupted, InWindow
  <2>2. SourceOpen(u)
    BY <1>1, <1>2, <2>1 DEF Stage, Ends
  <2>3. Own(u, {pipe[u].source})
    BY <2>2 DEF Own, SourceOpen
  <2>4. QED BY <2>1, <2>3
<1>7. QED BY <1>3, <1>4, <1>5, <1>6

\* The table of descriptors.
LEMMA TableSteps ==
  ASSUME Inv, NEW u \in Thread, CallStep(u) \/ ReadInterrupted(u) \/ KidStep(u), Table
  PROVE  Table'
<1>1. Types /\ Stage(u) /\ Ends(u) /\ Apart(u) /\ DOMAIN files = Fd
  BY ThreadSteps DEF Inv, Local, Preserved, Types
<1>2. \A t \in Thread \ {u} : pipe'[t] = pipe[t] /\ (InWindow(t)' <=> InWindow(t))
  BY <1>1 DEF Apart, InWindow
<1>3. ASSUME UNCHANGED tableVars, ~InWindow(u) \/ (pipe'[u] = pipe[u] /\ InWindow(u)')
      PROVE  Table'
  BY <1>2, <1>3 DEF Table, tableVars
<1>4. CASE CreatePipe(u)
  <2> DEFINE source == Lowest(Fd \ Open)
             sink == Lowest(Fd \ (Open \cup {source}))
  <2>1. /\ step[u] = "begin" /\ cloexec' = cloexec
        /\ pipe' = [pipe EXCEPT ![u] = [source |-> source, sink |-> sink]]
        /\ files' = [files EXCEPT ![source] = <<"source", u>>, ![sink] = <<"sink", u>>]
        /\ step' = [step EXCEPT ![u] = "piped"]
        /\ \E f, g \in Fd \ Open : f # g
    BY <1>4 DEF CreatePipe
  <2>2. source \in Fd \ Open /\ sink \in Fd \ (Open \cup {source})
    <3>1. Fd \subseteq Nat
      BY ExecutorAssumption DEF Fd
    <3>2. Fd \ Open # {} /\ Fd \ (Open \cup {source}) # {}
      BY <2>1
    <3>3. QED BY <3>1, <3>2, LowestIs
  <2> HIDE DEF source, sink
  <2>3. InWindow(u)' /\ pipe'[u].sink = sink /\ ~InWindow(u)
    BY <1>1, <2>1 DEF InWindow, Types
  <2>4. /\ files'[sink] = <<"sink", u>> /\ files'[source] = <<"source", u>>
        /\ \A f \in Fd \ {source, sink} : files'[f] = files[f]
    BY <1>1, <2>1, <2>2
  <2>5. source \notin BotFd /\ sink \notin BotFd
    BY <2>2 DEF Table, Open, BotFd
  <2>6. /\ \A f \in BotFd : files'[f] = BotFiles[f] /\ f \notin cloexec'
        /\ \A f \in Fd \ BotFd : files'[f] = None \/ IsEnd(files'[f])
    <3>1. BotFd \subseteq Fd
      BY DEF BotFd
    <3>2. IsEnd(<<"source", u>>) /\ IsEnd(<<"sink", u>>)
      BY DEF IsEnd
    <3>3. \A f \in BotFd : files'[f] = BotFiles[f] /\ f \notin cloexec'
      BY <2>1, <2>4, <2>5, <3>1 DEF Table
    <3>4. \A f \in Fd \ BotFd : files'[f] = None \/ IsEnd(files'[f])
      BY <2>4, <3>2 DEF Table
    <3>5. QED BY <3>3, <3>4
  <2>7. ASSUME NEW f \in Fd, NEW t \in Thread, files'[f] = <<"sink", t>>
        PROVE  f \in cloexec' \/ (InWindow(t)' /\ f = pipe'[t].sink)
    <3>1. CASE f = sink
      BY <2>3, <2>4, <2>7, <3>1
    <3>2. CASE f # sink
      <4>1. files[f] = <<"sink", t>>
        BY <2>4, <2>7, <3>2
      <4>2. f \in cloexec \/ (InWindow(t) /\ f = pipe[t].sink)
        BY <4>1 DEF Table
      <4>3. QED BY <1>2, <2>1, <2>3, <4>2
    <3>3. QED BY <3>1, <3>2
  <2>8. QED BY <2>6, <2>7 DEF Table, IsEnd
<1>5. CASE MarkSink(u)
  <2>1. cloexec' = cloexec \cup {pipe[u].sink} /\ files' = files /\ pipe' = pipe
    BY <1>5 DEF MarkSink
  <2>2. pipe[u].sink \notin BotFd
    BY <1>1, <1>5, ExecutorAssumption DEF MarkSink, InWindow, Ends, SinkOpen, Table, BotFd
  <2>3. QED BY <1>2, <2>1, <2>2 DEF Table
<1>6. CASE \/ MarkSinkFails(u) \/ ReportForkError(u) \/ CloseSink(u)
           \/ ReadError(u) \/ ReadNothing(u) \/ ReadInterrupted(u)
  <2>1. pipe' = pipe
    BY <1>6 DEF MarkSinkFails, ReportForkError, CloseSink, ReadError, ReadNothing,
                ReadInterrupted
  <2>2. CASE UNCHANGED tableVars /\ ~InWindow(u)
    BY <1>3, <2>2
  <2>3. ASSUME NEW fs, Close(fs), Own(u, fs), InWindow(u) => pipe[u].sink \in fs
        PROVE  Table'
    <3>1. /\ cloexec' = cloexec \ fs
          /\ \A f \in Fd : files'[f] = IF f \in fs THEN None ELSE files[f]
      BY <2>3 DEF Close
    <3>2. \A f \in fs : f \notin BotFd
      BY <2>3, ExecutorAssumption DEF Own, Table, BotFd
    <3>3. \A t \in Thread : None # <<"sink", t>>
      BY ExecutorAssumption
    <3>4. BotFd \subseteq Fd
      BY DEF BotFd
    <3>5. /\ \A f \in BotFd : files'[f] = BotFiles[f] /\ f \notin cloexec'
          /\ \A f \in Fd \ BotFd : files'[f] = None \/ IsEnd(files'[f])
      BY <3>1, <3>2, <3>4 DEF Table
    <3>6. ASSUME NEW f \in Fd, NEW t \in Thread, files'[f] = <<"sink", t>>
          PROVE  f \in cloexec' \/ (InWindow(t)' /\ f = pipe'[t].sink)
      <4>1. f \notin fs /\ files[f] = <<"sink", t>>
        BY <3>1, <3>3, <3>6
      <4>2. f \in cloexec \/ (InWindow(t) /\ f = pipe[t].sink)
        BY <4>1 DEF Table
      <4>3. CASE f \in cloexec
        BY <3>1, <4>1, <4>3
      <4>4. CASE InWindow(t) /\ f = pipe[t].sink
        <5>1. t # u
          BY <2>3, <4>1, <4>4
        <5>2. QED BY <1>2, <4>4, <5>1
      <4>5. QED BY <4>2, <4>3, <4>4
    <3>7. QED BY <3>5, <3>6 DEF Table, IsEnd
  <2>4. QED BY <1>6, <2>2, <2>3, ClosesOwn
<1>7. CASE CallHandler(u) \/ SetEnv(u) \/ PrepareIoService(u) \/ ResumeIoService(u)
  <2>1. UNCHANGED tableVars /\ Current(u).init \notin Reporters
    BY <1>1, <1>7 DEF CallHandler, SetEnv, PrepareIoService, ResumeIoService, In, Reporters,
                      Types
  <2>2. ~InWindow(u)
    BY <1>1, <2>1 DEF InWindow, Stage, Turn
  <2>3. QED BY <1>3, <2>1, <2>2
<1>8. CASE \/ CreatePipeFails(u) \/ UseGarbage(u) \/ ForkSucceeds(u) \/ ForkFails(u)
           \/ AfterForkError(u) \/ Return(u) \/ KidStep(u)
  <2>1. UNCHANGED <<tableVars, pipe>>
    BY <1>8 DEF CreatePipeFails, UseGarbage, ForkSucceeds, ForkFails, AfterForkError, Return,
         KidStep, OnExecSetup, ExecveSucceeds, ExecveFails, KidKilled, ProgramEnds, KidOnly,
         callVars, tableVars
  <2>2. ~InWindow(u) \/ InWindow(u)'
    BY <1>1, <1>8 DEF CreatePipeFails, UseGarbage, ForkSucceeds, ForkFails, AfterForkError,
         Return, Enter, KidStep, OnExecSetup, ExecveSucceeds, ExecveFails, KidKilled,
         ProgramEnds, KidOnly, callVars, InWindow
  <2>3. QED BY <1>3, <2>1, <2>2
<1>9. QED
  BY <1>4, <1>5, <1>6, <1>7, <1>8 DEF CallStep, SetsUpPipe, ReadsPipe

\* What holds at the start,
LEMMA InitMade == Init => Made
<1> SUFFICES ASSUME Init PROVE Made
  OBVIOUS
<1> USE DEF Init
<1>1. Table
  BY ExecutorAssumption DEF Table, BotFd
<1>2. ASSUME NEW t \in Thread PROVE EnvSet(t)
  <2>1. Overriding(seq[t], "on_fork_setup") \ todo[t] = {}
    OBVIOUS
  <2>2. Places(t, Envs) \subseteq Overriding(seq[t], "on_fork_setup")
    BY DEF Places, Overriding, Overrides, Envs
  <2>3. Places(t, Envs) \ todo[t] = {}
    BY <2>1, <2>2
  <2>4. QED BY <2>1, <2>3 DEF EnvSet, EnvOf
<1>3. ASSUME NEW t \in Thread PROVE KidMade(t)
  BY DEF KidMade, NoKid
<1>4. \A t \in Thread : Gone(t)
  BY DEF Gone
<1>5. QED BY <1>1, <1>2, <1>3, <1>4 DEF Made

\* A handler throws out of its call, which is over then; and between pipe() and
\* fcntl() the thread does not fork.
LEMMA GoneSteps ==
  ASSUME Inv, NEW u \in Thread, CallStep(u) \/ ReadInterrupted(u) \/ KidStep(u),
         NEW t \in Thread, Gone(t)
  PROVE  Gone(t)' /\ faults[t] \subseteq faults'[t]
<1>1. Types /\ Stage(u) /\ Apart(u)
  BY ThreadSteps DEF Inv, Local, Preserved
<1>2. /\ faults[t] \subseteq faults'[t]
      /\ "handler" \in faults'[t] => "handler" \in faults[t] \/ (t = u /\ at'[u] = "threw")
  <2>1. CASE faults' = faults
    BY <2>1
  <2>2. CASE \E f : Fault(u, f) /\ (f = "handler" => Throw(u))
    <3>1. PICK f : Fault(u, f) /\ (f = "handler" => Throw(u))
      BY <2>2
    <3>2. faults'[u] = faults[u] \cup {f} /\ (t # u => faults'[t] = faults[t])
      BY <1>1, <3>1 DEF Fault, Types
    <3>3. f = "handler" => at'[u] = "threw"
      BY <1>1, <3>1 DEF Throw, Types
    <3>4. QED BY <3>2, <3>3
  <2>3. faults' = faults \/ \E f : Fault(u, f) /\ (f = "handler" => Throw(u))
    <3>1. CASE CallHandler(u)
      BY <3>1 DEF CallHandler
    <3>2. CASE ~CallHandler(u)
      <4>1. faults' = faults \/ \E f \in {"setup", "interrupted", "stray", "lost_sink", "killed"} :
                                 Fault(u, f)
        BY <3>2 DEF CallStep, SetsUpPipe, ReadsPipe, KidStep, SetEnv,
         PrepareIoService, ResumeIoService, CreatePipe, CreatePipeFails, UseGarbage,
         MarkSink, MarkSinkFails, ForkSucceeds, ForkFails, ReportForkError, AfterForkError,
         CloseSink, ReadError, ReadNothing, ReadInterrupted, Return, OnExecSetup,
         ExecveSucceeds, ExecveFails, KidKilled, ProgramEnds, KidOnly, historyVars
      <4>2. QED BY <4>1
    <3>3. QED BY <3>1, <3>2
  <2>4. QED BY <2>1, <2>2, <2>3
<1>3. at[t] = "threw" => at'[t] = "threw"
  <2>1. CASE t # u
    BY <1>1, <2>1 DEF Apart
  <2>2. CASE t = u
    <3>1. SUFFICES ASSUME at[u] = "threw" PROVE at'[u] = "threw"
      BY <2>2
    <3>2. todo[u] = {} /\ step[u] = "begin"
      BY <1>1, <3>1 DEF Stage, Types, Turn
    <3>3. at' = at
      BY <3>1, <3>2 DEF CallStep, SetsUpPipe, ReadsPipe, KidStep, CallHandler, SetEnv,
         PrepareIoService, ResumeIoService, CreatePipe, CreatePipeFails, UseGarbage,
         MarkSink, MarkSinkFails, ForkSucceeds, ForkFails, ReportForkError, AfterForkError,
         CloseSink, ReadError, ReadNothing, ReadInterrupted, Return, OnExecSetup, In, InWindow,
         ExecveSucceeds, ExecveFails, KidKilled, ProgramEnds, KidOnly, callVars
    <3>4. QED BY <3>1, <3>3
  <2>3. QED BY <2>1, <2>2
<1>4. <<t, t>> \notin window'
  <2>1. CASE ForkSucceeds(u)
    <3>1. ~InWindow(u)
      BY <1>1, <2>1 DEF ForkSucceeds, InWindow, Stage, Turn
    <3>2. window' = window \cup {<<v, u>> : v \in {v \in Thread : InWindow(v)}}
      BY <2>1 DEF ForkSucceeds
    <3>3. QED BY <3>1, <3>2 DEF Gone
  <2>2. CASE ~ForkSucceeds(u)
    <3>1. window' = window
      BY <2>2 DEF CallStep, SetsUpPipe, ReadsPipe, KidStep, CallHandler, SetEnv,
         PrepareIoService, ResumeIoService, CreatePipe, CreatePipeFails, UseGarbage,
         MarkSink, MarkSinkFails, ForkFails, ReportForkError, AfterForkError,
         CloseSink, ReadError, ReadNothing, ReadInterrupted, Return, OnExecSetup,
         ExecveSucceeds, ExecveFails, KidKilled, ProgramEnds, KidOnly, historyVars
    <3>2. QED BY <3>1 DEF Gone
  <2>3. QED BY <2>1, <2>2
<1>5. QED BY <1>1, <1>2, <1>3, <1>4 DEF Gone

\* every step keeps,
LEMMA StepMade == Inv /\ AllLeft /\ Made /\ [Next]_vars => Made'
<1> SUFFICES ASSUME Inv, AllLeft, Made, [Next]_vars, ~damaged' PROVE Made'
  BY DEF Made
<1>1. ASSUME ~damaged, NEW u \in Thread, CallStep(u) \/ ReadInterrupted(u) \/ KidStep(u)
      PROVE  Made'
  <2>1. /\ Types /\ seq' = seq /\ Apart(u) /\ Stage(u)
        /\ Table /\ \A t \in Thread : EnvSet(t) /\ Gone(t) /\ KidMade(t)
    BY <1>1, ThreadSteps, SameCalls DEF Inv, Local, Preserved, Made
  <2>1a. \A t \in Thread : Gone(t)' /\ faults[t] \subseteq faults'[t]
    BY <1>1, <2>1, GoneSteps
  <2>2. window \subseteq window' /\ DOMAIN env' = DOMAIN env
        /\ \A t \in Thread \ {u} : t \in DOMAIN env => env'[t] = env[t]
    BY <1>1 DEF CallStep, SetsUpPipe, ReadsPipe, KidStep, CallHandler, SetEnv,
         PrepareIoService, ResumeIoService, CreatePipe, CreatePipeFails, UseGarbage,
         MarkSink, MarkSinkFails, ForkSucceeds, ForkFails, ReportForkError, AfterForkError,
         CloseSink, ReadError, ReadNothing, ReadInterrupted, Return, OnExecSetup,
         ExecveSucceeds, ExecveFails, KidKilled, ProgramEnds, KidOnly, callVars, historyVars
  <2>3. Table'
    BY <1>1, <2>1, TableSteps
  <2>4. ASSUME NEW t \in Thread \ {u} PROVE EnvSet(t)' /\ KidMade(t)'
    <3>1. /\ at'[t] = at[t] /\ todo'[t] = todo[t]
          /\ pipe'[t] = pipe[t] /\ kid'[t] = kid[t] /\ copy'[t] = copy[t]
      BY <2>1 DEF Apart
    <3>2. KidMade(t)'
      BY <2>1, <2>1a, <2>2, <3>1, KidStays
    <3>3. EnvSet(t)'
      <4>1. CASE at[t] = "on_fork_setup"
        <5>1. t \in DOMAIN env
          BY <2>1, <4>1 DEF EnvSet
        <5>2. QED BY <2>1, <2>2, <3>1, <5>1, EnvStays
      <4>2. CASE at[t] # "on_fork_setup"
        BY <2>1, <3>1, <4>2, EnvStays
      <4>3. QED BY <4>1, <4>2
    <3>4. QED BY <3>2, <3>3
  <2>5. EnvSet(u)'
    BY <1>1, <2>1, EnvSteps
  <2>6. KidMade(u)'
    <3>1. CASE ForkSucceeds(u)
      BY <2>1, <3>1, ForkMakes
    <3>2. CASE KidStep(u)
      BY <2>1, <3>2, KidStepsMake
    <3>3. CASE ~ForkSucceeds(u) /\ ~KidStep(u)
      <4>1. kid' = kid /\ copy' = copy
        BY <1>1, <3>3 DEF CallStep, SetsUpPipe, ReadsPipe, CallHandler, SetEnv,
         PrepareIoService, ResumeIoService, CreatePipe, CreatePipeFails, UseGarbage,
         MarkSink, MarkSinkFails, ForkFails, ReportForkError, AfterForkError,
         CloseSink, ReadError, ReadNothing, ReadInterrupted, Return, kidVars
      <4>2. CASE CreatePipe(u)
        <5>1. kid[u].image = "none"
          BY <2>1, <4>2 DEF CreatePipe, In, Stage
        <5>2. QED BY <2>1, <2>1a, <2>2, <4>1, <5>1, KidStays
      <4>3. CASE ~CreatePipe(u)
        <5>1. pipe' = pipe
          BY <1>1, <3>3, <4>3 DEF CallStep, SetsUpPipe, ReadsPipe, CallHandler, SetEnv,
         PrepareIoService, ResumeIoService, CreatePipeFails, UseGarbage,
         MarkSink, MarkSinkFails, ForkFails, ReportForkError, AfterForkError,
         CloseSink, ReadError, ReadNothing, ReadInterrupted, Return
        <5>2. QED BY <2>1, <2>1a, <2>2, <4>1, <5>1, KidStays
      <4>4. QED BY <4>2, <4>3
    <3>4. QED BY <3>1, <3>2, <3>3
  <2>7. QED BY <2>1a, <2>3, <2>4, <2>5, <2>6 DEF Made
<1>2. CASE UNCHANGED vars
  <2>1. /\ UNCHANGED <<seq, at, todo, step, pipe, env, files, cloexec, kid, copy, window,
                       faults>>
        /\ damaged' = damaged
    BY <1>2 DEF vars, callVars, tableVars, kidVars, historyVars
  <2>2. Table /\ \A t \in Thread : EnvSet(t) /\ Gone(t) /\ KidMade(t)
    BY <2>1 DEF Made
  <2>3. Table'
    BY <2>1, <2>2 DEF Table, InWindow, IsEnd
  <2>4. \A t \in Thread : EnvSet(t)' /\ Gone(t)' /\ KidMade(t)'
    BY <2>1, <2>2, EnvStays, KidStays DEF Gone
  <2>5. QED BY <2>3, <2>4 DEF Made
<1>3. QED BY <1>1, <1>2 DEF Next

\* and so always holds.
LEMMA MadeAlways == Spec => [](Inv /\ Made)
<1>1. Init => AllLeft /\ Made
  BY InitMade, InitLeft DEF AllLeft
<1>2. Inv /\ AllLeft /\ Made /\ [Next]_vars => AllLeft' /\ Made'
  BY StepMade, StepLeft
<1>3. QED BY <1>1, <1>2, Invariance, PTL DEF Spec

\* The child of t has the initializers behind it: it has no end of a pipe but
\* an inherited one, where nobody touched the descriptor.
LEMMA EndsInherited ==
  ASSUME Inv, Made, ~damaged, NEW t \in Thread, kid[t].image = "running",
         NEW f \in Fd, IsEnd(copy[t].files[f])
  PROVE  copy[t].files[f] \in Inherited(t)
<1>1. /\ MadeBy(copy[t], t, Len(seq[t])) /\ copy[t].cloexec = {}
      /\ <<t, t>> \notin window /\ seq[t] \in Seq(Initializer)
  BY ExecutorAssumption DEF Made, KidMade, Inv, Types, Gone
<1>2. copy[t].files[f] # <<"sink", t>>
  BY <1>1 DEF MadeBy, SinksMarked
<1>3. ASSUME copy[t].files[f] = <<"source", t>> PROVE "stale_ec" \in faults[t]
  <2>1. SUFFICES ASSUME "stale_ec" \notin faults[t] PROVE FALSE
    OBVIOUS
  <2>2. Reports(t) /\ \A m \in Places(t, Reporters) : Len(seq[t]) < m
    BY <1>1, <1>3, <2>1 DEF MadeBy, SourceLeft
  <2>3. PICK m \in DOMAIN seq[t] : seq[t][m].init \in Reporters
    BY <2>2, UsesAt DEF Reports, Reporters
  <2>4. Len(seq[t]) < m /\ m <= Len(seq[t]) /\ m \in Nat /\ Len(seq[t]) \in Nat
    BY <1>1, <2>2, <2>3 DEF Places
  <2>5. QED BY <2>4
<1>4. PICK end \in {"source", "sink"}, u \in Thread : copy[t].files[f] = <<end, u>>
  BY DEF IsEnd
<1>5. CASE u # t
  BY <1>4, <1>5 DEF Inherited
<1>6. CASE u = t
  <2>1. copy[t].files[f] = <<"source", t>>
    BY <1>2, <1>4, <1>6
  <2>2. QED BY <1>3, <2>1 DEF Inherited
<1>7. QED BY <1>5, <1>6

\* The invariant says of a program what was to be shown.
LEMMA MadeAsConfigured == Inv /\ Made => ProgramAsConfigured
<1> SUFFICES ASSUME Inv, Made, NEW t \in Thread, kid[t].image \in {"ready", "running"},
                    ~damaged
    PROVE  LET exes == Places(t, {"run_exe"})
               lines == Places(t, {"set_args", "set_cmd_line"})
               envs == Places(t, {"set_env", "inherit_env"})
           IN /\ copy[t].exe = IF exes # {} THEN seq[t][Highest(exes)].exe
                               ELSE IF Naming(t) # {}
                               THEN Head(seq[t][Lowest(Naming(t))].args)
                               ELSE None
              /\ copy[t].args = IF lines # {} THEN seq[t][Highest(lines)].args
                                ELSE IF exes # {} THEN <<seq[t][Lowest(exes)].exe>> ELSE None
              /\ copy[t].env = IF envs = {} THEN None ELSE seq[t][Highest(envs)].env
              /\ kid[t].image = "running" => \A f \in Fd : FileAsConfigured(t, f)
  BY DEF ProgramAsConfigured
<1>1. /\ MadeBy(copy[t], t, Len(seq[t])) /\ Table /\ seq[t] \in Seq(Initializer)
      /\ kid[t].image = "running" => copy[t].cloexec = {}
  BY ExecutorAssumption DEF Made, KidMade, Inv, Types
<1>2. ASSUME NEW P, P \subseteq DOMAIN seq[t] PROVE First(P, Len(seq[t])) = P
  BY <1>1, <1>2 DEF First
<1>3. /\ \A classes : First(Places(t, classes), Len(seq[t])) = Places(t, classes)
      /\ First(Naming(t), Len(seq[t])) = Naming(t)
  BY <1>2 DEF Places, Naming
<1>4. \A f : First(Touching(t, f), Len(seq[t])) = Touching(t, f)
  BY <1>2 DEF Touching
<1>6. Named(copy[t], t, Len(seq[t])) /\ copy[t].env = EnvOf(t, Places(t, Envs))
  BY <1>1 DEF MadeBy
<1>7. ASSUME kid[t].image = "running", NEW f \in Fd PROVE FileAsConfigured(t, f)
  <2>1. FileSet(copy[t], t, f, Len(seq[t])) /\ copy[t].cloexec = {}
    BY <1>1, <1>7 DEF MadeBy
  <2>2. Touching(t, f) # {} => Highest(Touching(t, f)) \in DOMAIN seq[t]
    <3>1. Touching(t, f) \subseteq 0..Len(seq[t])
      BY <1>1 DEF Touching
    <3>2. Touching(t, f) # {} => Highest(Touching(t, f)) \in Touching(t, f)
      BY <1>1, <3>1, HighestIs
    <3>3. QED BY <3>2 DEF Touching
  <2>3. IsEnd(copy[t].files[f]) => copy[t].files[f] \in Inherited(t)
    BY <1>7, EndsInherited
  <2>4. CASE Touching(t, f) = {}
    BY <1>4, <2>1, <2>3, <2>4 DEF FileSet, FileAsConfigured, BotFd
  <2>5. CASE Touching(t, f) # {}
    BY <1>4, <2>1, <2>5 DEF FileSet, FileAsConfigured
  <2>6. QED BY <2>4, <2>5
<1>8. QED BY <1>1, <1>3, <1>6, <1>7 DEF Named, EnvOf, Envs

\* It says what a program holds of the pipes.
LEMMA MadeSinks == Inv /\ Made => SinkLeaksInWindow
  BY DEF Made, KidMade, MadeBy, SinksMarked, SinkLeaksInWindow, HoldsSink

\* A program is what the initializers of its call say, in whatever order they
\* stand and whatever the other threads do.
THEOREM ProgramsAreAsConfigured == Spec => []ProgramAsConfigured
  BY MadeAlways, MadeAsConfigured, PTL

\* The sink of an error pipe gets into the program of another call only in the
\* window between pipe() and fcntl().
THEOREM SinksLeakInWindowOnly == Spec => []SinkLeaksInWindow
  BY MadeAlways, MadeSinks, PTL
=============================================================================
