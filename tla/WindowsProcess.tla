--------------------------- MODULE WindowsProcess ---------------------------
(***************************************************************************)
(* boost::process for Windows: the executor with its initializers, and the *)
(* child objects it gives, which own the handles of a process.             *)
(*                                                                         *)
(* What calls on several threads share: the inherit flags of the handles   *)
(* of the calling process, which CreateProcess() copies to a child all at  *)
(* once, and the handle table itself.  INVALID_HANDLE_VALUE, which a moved *)
(* child object holds, is also the pseudo handle of the calling process.   *)
(***************************************************************************)
EXTENDS Integers, Sequences, FiniteSets

CONSTANTS
  Call,       (* the calls of execute()                                     *)
  Object,     (* the child objects of the callers                           *)
  Calls,      (* the sequences of initializers a call may have              *)
  Invalid     (* INVALID_HANDLE_VALUE                                       *)

Uses(s, classes) == \E n \in DOMAIN s : s[n].init \in classes
Reporters == {"set_on_error", "throw_on_error"}

Initializer == UNION {{s[n] : n \in DOMAIN s} : s \in Calls}

ASSUME WindowsAssumption ==
  /\ \A s \in Calls : s \in Seq(Initializer)
  /\ Invalid \notin Call /\ "free" \notin Call /\ "garbage" \notin Call
  /\ Invalid \notin {"free", "garbage"}

VARIABLES
  seq,          (* per call: its initializers                               *)
  at,           (* per call: setup, error, success; returned, threw         *)
  todo,         (* per call: the initializers whose callback is to come     *)
  ec,           (* per call: is the error_code of set_on_error set?         *)
  conf,         (* per call: the fields of its executor                     *)
  inheritable,  (* the handles whose inherit flag is set                    *)
  refused,      (* history, per call: the handles of which it could not be  *)
                (* set                                                      *)
  proc,         (* per call: its process: none, running, ended              *)
  inherited,    (* per call: the handles that came with its process         *)
  object,       (* per child object: what its handles are: of a call's      *)
                (* process, Invalid, garbage; or free: there is no object   *)
  open,         (* the calls whose process handle is open                   *)
  killedSelf,   (* TerminateProcess() hit the calling process               *)
  stale,        (* history: the calls whose ec was set before               *)
  damaged       (* history: a handle was used that nobody had opened        *)

callVars == <<seq, at, todo, ec, conf, inheritable, refused>>
processVars == <<proc, inherited>>
objectVars == <<object, open, killedSelf>>
vars == <<callVars, processVars, objectVars, stale, damaged>>

\* The executor's constructor.
NewExecutor ==
  [exe |-> "none", cmd_line |-> "none", env |-> "none", work_dir |-> "none",
   std |-> [n \in 0..2 |-> Invalid], use_std |-> FALSE, show |-> {},
   use_show |-> FALSE, inherit_handles |-> FALSE]

Init ==
  /\ seq \in [Call -> Calls]
  /\ ec \in [Call -> BOOLEAN]
  /\ \A c \in Call : ec[c] => Uses(seq[c], {"set_on_error"})
  /\ at = [c \in Call |-> "setup"]
  /\ todo = seq
  /\ conf = [c \in Call |-> NewExecutor]
  /\ inheritable = {} /\ refused = [c \in Call |-> {}]
  /\ proc = [c \in Call |-> "none"]
  /\ inherited = [c \in Call |-> {}]
  /\ object = [o \in Object |-> "free"]
  /\ open = {} /\ killedSelf = FALSE
  /\ stale = {c \in Call : ec[c]} /\ damaged = FALSE

-----------------------------------------------------------------------------
(* on_CreateProcess_setup: what each initializer makes of the executor e.   *)

BindStd(e, n, h) ==
  [e EXCEPT !.std[n] = h, !.use_std = TRUE, !.inherit_handles = TRUE]

BindStdin(e, i) == BindStd(e, 0, i.handle)
BindStdout(e, i) == BindStd(e, 1, i.handle)
BindStderr(e, i) == BindStd(e, 2, i.handle)

\* Mutated form: the flag that the handles count is forgotten.
CloseStdForgetful(e, n) == [e EXCEPT !.std[n] = Invalid]

CloseStd(e, n) == [e EXCEPT !.std[n] = Invalid, !.use_std = TRUE]

CloseStdin(e) == CloseStd(e, 0)
CloseStdout(e) == CloseStd(e, 1)
CloseStderr(e) == CloseStd(e, 2)

RunExe(e, i) == [e EXCEPT !.exe = i.exe]
SetArgs(e, i) == [e EXCEPT !.cmd_line = i.line, !.exe = IF @ = "none" THEN i.exe ELSE @]
SetCmdLine(e, i) == [e EXCEPT !.cmd_line = i.line]
SetEnv(e, i) == [e EXCEPT !.env = i.env]
StartInDir(e, i) == [e EXCEPT !.work_dir = i.dir]

\* The bits of wShowWindow add up; SW_HIDE has none.
ShowWindow(e, i) == [e EXCEPT !.show = @ \cup i.bits, !.use_show = TRUE]
HideConsole(e) == [e EXCEPT !.use_show = TRUE]

SetUp(e, i) ==
  CASE i.init = "bind_stdin"   -> BindStdin(e, i)
    [] i.init = "bind_stdout"  -> BindStdout(e, i)
    [] i.init = "bind_stderr"  -> BindStderr(e, i)
    [] i.init = "close_stdin"  -> CloseStdin(e)
    [] i.init = "close_stdout" -> CloseStdout(e)
    [] i.init = "close_stderr" -> CloseStderr(e)
    [] i.init = "run_exe"      -> RunExe(e, i)
    [] i.init = "set_args"     -> SetArgs(e, i)
    [] i.init = "set_cmd_line" -> SetCmdLine(e, i)
    [] i.init = "set_env"      -> SetEnv(e, i)
    [] i.init = "start_in_dir" -> StartInDir(e, i)
    [] i.init = "show_window"  -> ShowWindow(e, i)
    [] i.init = "hide_console" -> HideConsole(e)
    \* A handler: what it may make of the executor is the caller's own.
    [] i.init = "on_CreateProcess_setup" -> e
    \* The other classes have the callback of initializer_base, which is empty.
    [] OTHER                   -> e

\* The handle of which SetHandleInformation() sets the flag; nobody takes it back.
Binds(i) == IF i.init \in {"bind_stdin", "bind_stdout", "bind_stderr"}
            THEN {i.handle} ELSE {}

SetUpNext(c) ==
  LET i == Head(todo[c]) IN
  /\ at[c] = "setup" /\ todo[c] # <<>>
  /\ todo' = [todo EXCEPT ![c] = Tail(@)]
  /\ conf' = [conf EXCEPT ![c] = SetUp(@, i)]
  /\ \E unset \in SUBSET Binds(i) :     \* it may fail, and nobody looks
       /\ inheritable' = inheritable \cup (Binds(i) \ unset)
       /\ refused' = [refused EXCEPT ![c] = @ \cup unset]
  /\ UNCHANGED <<seq, at, ec, processVars, objectVars, stale, damaged>>

-----------------------------------------------------------------------------
(* CreateProcess() and what follows.                                        *)

\* Every inheritable handle goes along, whichever call has made it so.  No
\* class defines on_CreateProcess_success (the one of that name defines
\* on_CreateProcess_sucess), so no handler is called.
CreateSucceeds(c) ==
  /\ at[c] = "setup" /\ todo[c] = <<>>
  /\ at' = [at EXCEPT ![c] = "success"]
  /\ proc' = [proc EXCEPT ![c] = "running"]
  /\ inherited' = [inherited EXCEPT ![c] =
                     IF conf[c].inherit_handles THEN inheritable ELSE {}]
  /\ open' = open \cup {c}
  /\ UNCHANGED <<seq, todo, ec, conf, inheritable, refused, object, killedSelf, stale, damaged>>

CreateFails(c) ==
  /\ at[c] = "setup" /\ todo[c] = <<>>
  /\ at' = [at EXCEPT ![c] = "error"]
  /\ todo' = [todo EXCEPT ![c] = seq[c]]
  /\ UNCHANGED <<seq, ec, conf, inheritable, refused, processVars, objectVars, stale, damaged>>

InError(c, classes) ==
  at[c] = "error" /\ todo[c] # <<>> /\ Head(todo[c]).init \in classes

\* The other classes have the callback of initializer_base, which is empty.
CallBase(c) ==
  /\ at[c] = "error" /\ todo[c] # <<>>
  /\ Head(todo[c]).init \notin Reporters \cup {"on_CreateProcess_error"}
  /\ todo' = [todo EXCEPT ![c] = Tail(@)]
  /\ UNCHANGED <<seq, at, ec, conf, inheritable, refused, processVars, objectVars, stale, damaged>>

SetOnError(c) ==
  /\ InError(c, {"set_on_error"})
  /\ ec' = [ec EXCEPT ![c] = TRUE]
  /\ todo' = [todo EXCEPT ![c] = Tail(@)]
  /\ UNCHANGED <<seq, at, conf, inheritable, refused, processVars, objectVars, stale, damaged>>

Throw(c) ==
  /\ at' = [at EXCEPT ![c] = "threw"]
  /\ UNCHANGED <<seq, todo, ec, conf, inheritable, refused, processVars, objectVars, stale,
                 damaged>>

\* Mutated form: the exception is made and not thrown.
IgnoreError(c) ==
  /\ InError(c, {"throw_on_error"})
  /\ todo' = [todo EXCEPT ![c] = Tail(@)]
  /\ UNCHANGED <<seq, at, ec, conf, inheritable, refused, processVars, objectVars, stale, damaged>>

\* A handler of on_CreateProcess_setup may throw as well, and nothing was created.
SetupHandlerThrows(c) ==
  /\ at[c] = "setup" /\ todo[c] # <<>> /\ Head(todo[c]).init = "on_CreateProcess_setup"
  /\ Throw(c)

ThrowOnError(c) == InError(c, {"throw_on_error"}) /\ Throw(c)

CallErrorHandler(c) ==
  /\ InError(c, {"on_CreateProcess_error"})
  /\ \/ Throw(c)
     \/ /\ todo' = [todo EXCEPT ![c] = Tail(@)]
        /\ UNCHANGED <<seq, at, ec, conf, inheritable, refused, processVars, objectVars, stale,
                       damaged>>

\* execute() returns child(proc_info), of which CreateProcess() has written
\* nothing when it failed.
ReturnChild(c, o) ==
  /\ \/ at[c] = "success"
     \/ at[c] = "error" /\ todo[c] = <<>>
  /\ object[o] = "free"
  /\ at' = [at EXCEPT ![c] = "returned"]
  /\ object' = [object EXCEPT ![o] = IF at[c] = "success" THEN c ELSE "garbage"]
  /\ UNCHANGED <<seq, todo, ec, conf, inheritable, refused, processVars, open, killedSelf,
                 stale, damaged>>

-----------------------------------------------------------------------------
(* The child objects.                                                       *)

Exists(o) == object[o] # "free"

\* CloseHandle() of what o holds.  A double close hits a handle that another
\* thread may have been given meanwhile, garbage one of any kind, or none.
CloseHandles(o) ==
  /\ open' = open \ {object[o]}
  /\ damaged' \in BOOLEAN
  /\ object[o] # "garbage" => (damaged' <=> object[o] \in Call \ open)

\* The move constructor makes b out of a.
MoveConstruct(a, b) ==
  /\ Exists(a) /\ object[b] = "free"
  /\ object' = [object EXCEPT ![b] = object[a], ![a] = Invalid]
  /\ UNCHANGED <<callVars, processVars, open, killedSelf, stale, damaged>>

\* Mutated form: a keeps its handles.
CopyAssign(a, b) ==
  /\ Exists(a) /\ Exists(b)
  /\ object' = [object EXCEPT ![b] = object[a]]
  /\ CloseHandles(b)
  /\ UNCHANGED <<callVars, processVars, killedSelf, stale>>

\* b = move(a), where b may be a itself.
MoveAssign(a, b) ==
  /\ Exists(a) /\ Exists(b)
  /\ object' = [object EXCEPT ![b] = object[a], ![a] = Invalid]
  /\ CloseHandles(b)
  /\ UNCHANGED <<callVars, processVars, killedSelf, stale>>

Destroy(o) ==
  /\ Exists(o)
  /\ object' = [object EXCEPT ![o] = "free"]
  /\ CloseHandles(o)
  /\ UNCHANGED <<callVars, processVars, killedSelf, stale>>

\* TerminateProcess(); of a moved object, it is the calling process.
Terminate(o) ==
  /\ Exists(o)
  /\ killedSelf' = (object[o] = Invalid)
  /\ damaged' \in BOOLEAN /\ (damaged' => object[o] = "garbage")
  /\ proc' = [c \in Call |-> IF c = object[o] THEN "ended" ELSE proc[c]]
  /\ UNCHANGED <<callVars, inherited, object, open, stale>>

ProgramEnds(c) ==
  /\ proc[c] = "running"
  /\ proc' = [proc EXCEPT ![c] = "ended"]
  /\ UNCHANGED <<callVars, inherited, objectVars, stale, damaged>>

-----------------------------------------------------------------------------

CallStep(c) ==
  \/ SetUpNext(c) \/ SetupHandlerThrows(c) \/ CreateSucceeds(c) \/ CreateFails(c)
  \/ CallBase(c) \/ SetOnError(c) \/ ThrowOnError(c) \/ CallErrorHandler(c)
  \/ \E o \in Object : ReturnChild(c, o)

UseObject(o) ==
  \/ Terminate(o) \/ Destroy(o)
  \/ \E a \in Object : MoveConstruct(a, o) \/ MoveAssign(a, o)

\* Nothing is known any more once a foreign handle was used.
Sane == ~damaged /\ ~killedSelf

Next ==
  /\ Sane
  /\ \/ \E c \in Call : CallStep(c) \/ ProgramEnds(c)
     \/ \E o \in Object : UseObject(o)

Spec == Init /\ [][Next]_vars

-----------------------------------------------------------------------------
(* Properties.                                                              *)

Outcome(c) ==
  CASE at[c] = "threw" -> "error"
    [] at[c] = "returned" -> IF ec[c] THEN "error" ELSE "child"
    [] OTHER -> "calling"

Started(c) == IF proc[c] = "none" THEN "none" ELSE "started"

Promise == INSTANCE Execution WITH
  Caller <- Call,
  call <- [c \in Call |-> Outcome(c)],
  program <- [c \in Call |-> Started(c)],
  excused <- {c \in Call : c \in stale \/ ~Uses(seq[c], Reporters)}

\* A call with an error initializer gives a child only when the program runs,
\* and an error only when it never does; unless the error_code was set before,
\* which set_on_error does not clear.
ExecutionPromised == Promise!ExecutionSpec

\* Every open process handle is in exactly one child object, whatever is moved
\* where, or in a call on its way to return it; no object holds a closed one.
\* So none is closed twice or left open by the last destructor.
HandlesOwnedOnce ==
  Sane => \A c \in Call :
    /\ c \in open <=> at[c] = "success" \/ \E o \in Object : object[o] = c
    /\ \A a, b \in Object : object[a] = c /\ object[b] = c => a = b
    /\ at[c] = "success" => \A o \in Object : object[o] # c

Binder == <<"bind_stdin", "bind_stdout", "bind_stderr">>
Closer == <<"close_stdin", "close_stdout", "close_stderr">>

\* Where the initializers of c stand that name the standard stream n.
Naming(c, n) == {k \in DOMAIN seq[c] : seq[c][k].init \in {Binder[n + 1], Closer[n + 1]}}

Latest(places) == CHOOSE k \in places : \A l \in places : l <= k

\* A program's standard streams are what the last initializer for each says,
\* and a bound one has come with the process, unless its inherit flag could not
\* be set; naming one stream takes the others from the program.
StreamsAsAsked ==
  \A c \in Call, n \in 0..2 : proc[c] # "none" =>
    LET naming == Naming(c, n)  last == seq[c][Latest(naming)] IN
    /\ conf[c].use_std <=> \E m \in 0..2 : Naming(c, m) # {}
    /\ IF naming # {} /\ last.init = Binder[n + 1]
       THEN conf[c].std[n] = last.handle /\ last.handle \in inherited[c] \cup refused[c]
       ELSE conf[c].std[n] = Invalid
=============================================================================
