---------------------------- MODULE TextFunctions ----------------------------
(***************************************************************************)
(* The functions on text of the bot and of boost::process: the expansion   *)
(* of macros, the BUILD line, the way from a configured command to exe and *)
(* argv, the search in PATH, and what CreateProcess() gets on Windows.     *)
(*                                                                         *)
(* A text is a sequence of characters.  One behaviour takes one task from  *)
(* what the properties need, computes it, and stops.                       *)
(* Loops over a text are recursive functions of the position: TextProofs   *)
(* reasons about them by induction.                                        *)
(***************************************************************************)
EXTENDS Integers, SequencesExt

CONSTANTS
  Char,        (* the characters                                            *)
  Macros,      (* macro files: sequences of keys with their values          *)
  Templates,   (* what they expand: sequences of [text] and [ref] pieces    *)
  Lines,       (* the fields of BUILD lines: sequences of four texts        *)
  Commands,    (* configured commands: a name and its arguments             *)
  Searches,    (* values of PATH with the files that can be executed        *)
  ArgLists,    (* arguments of set_args() on Windows                        *)
  EnvLists,    (* entries of set_env() on Windows                           *)
  Failed       (* not a text: an exception, FALSE or no match               *)

Text == Seq(Char)

\* Macro files, settings and lines have texts, and a line is given four fields.
\* read_ini() refuses a file that has a key twice.
ASSUME TextAssumption ==
  /\ {" ", "\"", "\\", "@", "/", ".", "exe", "com", "bat", "newline", "tab", "NUL"} \subseteq Char
  /\ Macros \subseteq Seq([key : Text, value : Text])
  /\ \A m \in Macros : \A i, j \in DOMAIN m : m[i].key = m[j].key => i = j
  /\ Templates \subseteq Seq([text : Text] \cup [ref : Text])
  /\ Lines \subseteq [1..4 -> Text]
  /\ Commands \subseteq [name : Text, args : Seq(Text)]
  /\ Searches \subseteq [path : Text, files : SUBSET Text]
  /\ ArgLists \subseteq Seq(Text) /\ EnvLists \subseteq Seq(Text)
  /\ Failed \notin Seq(Text) /\ Failed \notin Text

VARIABLES task, done, result
vars == <<task, done, result>>

Blank == " "
Quote == "\""
Backslash == "\\"
Tab == "tab"
Has(s, c) == \E n \in DOMAIN s : s[n] = c

\* boost::algorithm::split() at c: n of them make n + 1 words, empty ones too.
Split(s, c) ==
  LET words[n \in 0..Len(s)] ==
        IF n = 0 THEN <<<<>>>>
        ELSE LET w == words[n - 1] IN
             IF s[n] = c THEN Append(w, <<>>) ELSE [w EXCEPT ![Len(w)] = Append(@, s[n])]
  IN words[Len(s)]

\* What is read of a text that goes as const char*: it ends at its first NUL.
CString(s) == Split(s, "NUL")[1]

\* char_separator of boost::tokenizer: no empty words.
Components(s, c) ==
  LET split == Split(s, c)
      words[n \in 0..Len(split)] ==
        IF n = 0 THEN <<>>
        ELSE IF split[n] = <<>> THEN words[n - 1] ELSE Append(words[n - 1], split[n])
  IN words[Len(split)]

-----------------------------------------------------------------------------
(* Macros.                                                                  *)

\* boost::algorithm::replace_all(): from the left, never in what it put in.
ReplaceEach(s, old, new) ==
  LET Matches(n) == n + Len(old) - 1 <= Len(s) /\ SubSeq(s, n, n + Len(old) - 1) = old
      after[n \in 0..Len(s)] ==
        IF n = 0 THEN [text |-> <<>>, skip |-> 0]
        ELSE LET t == after[n - 1] IN
             IF t.skip > 0 THEN [t EXCEPT !.skip = @ - 1]
             ELSE IF Matches(n) THEN [text |-> t.text \o new, skip |-> Len(old) - 1]
             ELSE [t EXCEPT !.text = Append(@, s[n])]
  IN after[Len(s)].text

Token(key) == <<"@">> \o key \o <<"@">>

\* Mutated form: only the first token of a macro is replaced.
ReplaceMacrosOnce(macros, s) ==
  LET after[n \in 0..Len(macros)] ==
        IF n = 0 THEN s
        ELSE LET t == Token(macros[n].key)  u == after[n - 1]
                 i == IndexFirstSubSeq(t, u)
             IN IF t \in SubSeqs(u)
                THEN SubSeq(u, 1, i - 1) \o macros[n].value \o
                     SubSeq(u, i + Len(t), Len(u))
                ELSE u
  IN IF \E n \in DOMAIN macros : Has(macros[n].key, ".") THEN Failed
     ELSE after[Len(macros)]

\* One pass over the text for each macro, in the order of the file.  get()
\* takes a key with a dot for a path, which is not there: the stage fails.
ReplaceMacros(macros, s) ==
  LET after[n \in 0..Len(macros)] ==
        IF n = 0 THEN s
        ELSE ReplaceEach(after[n - 1], Token(macros[n].key), macros[n].value)
  IN IF \E n \in DOMAIN macros : Has(macros[n].key, ".") THEN Failed
     ELSE after[Len(macros)]

-----------------------------------------------------------------------------
(* The BUILD line, after the word BUILD and its blank.                      *)

\* Where the three blanks between the groups (.+) of the expression may be.
Separators(s) ==
  {at \in [1..3 -> {n \in DOMAIN s : s[n] = Blank}] :
     /\ 1 < at[1] /\ at[1] + 1 < at[2] /\ at[2] + 1 < at[3] /\ at[3] < Len(s)}

Groups(s, at) ==
  <<SubSeq(s, 1, at[1] - 1), SubSeq(s, at[1] + 1, at[2] - 1),
    SubSeq(s, at[2] + 1, at[3] - 1), SubSeq(s, at[3] + 1, Len(s))>>

\* a is tried before b: the groups are greedy, the first one first.
Greedier(a, b) ==
  \/ a[1] > b[1]
  \/ a[1] = b[1] /\ a[2] > b[2]
  \/ a[1] = b[1] /\ a[2] = b[2] /\ a[3] >= b[3]

\* Mutated form: the groups are (.+?).
MatchBuildLazily(s) ==
  IF Separators(s) = {} THEN Failed
  ELSE Groups(s, CHOOSE a \in Separators(s) : \A b \in Separators(s) : Greedier(b, a))

MatchBuild(s) ==
  IF Separators(s) = {} THEN Failed
  ELSE Groups(s, CHOOSE a \in Separators(s) : \A b \in Separators(s) : Greedier(a, b))

-----------------------------------------------------------------------------
(* From a configured command to exe and argv.                               *)

\* path::operator/=() of posix.
Join(dir, name) ==
  IF name = <<>> \/ Last(dir) = "/" \/ Head(name) = "/" THEN dir \o name
  ELSE dir \o <<"/">> \o name

First(candidates, files) ==
  LET n == SelectInSeq(candidates, LAMBDA f : f \in files)
  IN IF n = 0 THEN <<>> ELSE candidates[n]

\* search_path() of posix: a file that access() finds executable, or "".
SearchPath(name, path, files) ==
  LET dirs == Components(path, ":")
  IN IF path = <<>> THEN Failed
     ELSE First([n \in DOMAIN dirs |-> Join(dirs[n], name)], files)

\* set_cmd_line(): the words that escaped_list_separator('\\', ' ', '"') makes;
\* a backslash may stand before n, a blank, a quote or a backslash.
SetCmdLine(s) ==
  LET Start == [words |-> <<>>, word |-> <<>>, quoted |-> FALSE, escaped |-> FALSE,
                error |-> FALSE]
      Add(t, c) == [t EXCEPT !.word = Append(@, c), !.escaped = FALSE]
      Read(t, c) ==
        IF t.escaped
        THEN CASE c \in {Blank, Quote, Backslash} -> Add(t, c)
               [] c = "n" -> Add(t, "newline")
               [] OTHER -> [t EXCEPT !.error = TRUE]
        ELSE CASE c = Backslash -> [t EXCEPT !.escaped = TRUE]
               [] c = Quote -> [t EXCEPT !.quoted = ~@]
               [] c = Blank /\ ~t.quoted ->
                    [t EXCEPT !.words = Append(@, t.word), !.word = <<>>]
               [] OTHER -> Add(t, c)
      after[n \in 0..Len(s)] == IF n = 0 THEN Start ELSE Read(after[n - 1], s[n])
      end == after[Len(s)]
  IN IF s = <<>> THEN <<>>
     ELSE IF end.error \/ end.escaped THEN Failed
     ELSE Append(end.words, end.word)

ReplaceFirst(s, old, new) ==
  IF old = <<>> THEN s ELSE new \o SubSeq(s, Len(old) + 1, Len(s))

\* Mutated form: replace_all() instead of replace_first().
PrepareCommandEverywhere(line, path, files) ==
  LET name == Split(line, Blank)[1]
      exe == SearchPath(name, path, files)
  IN IF exe = Failed \/ name = <<>> THEN Failed
     ELSE [exe |-> exe, argv |-> SetCmdLine(ReplaceEach(line, name, exe))]

\* configureSources() and build(): the line up to its first blank is looked up,
\* and what was found, or "", takes its place in the line.
PrepareCommand(line, path, files) ==
  LET name == Split(line, Blank)[1]
      exe == SearchPath(name, path, files)
  IN IF exe = Failed THEN Failed
     ELSE [exe |-> exe, argv |-> SetCmdLine(ReplaceFirst(line, name, exe))]

-----------------------------------------------------------------------------
(* Windows.                                                                 *)

Extensions == <<<<>>, <<".", "exe">>, <<".", "com">>, <<".", "bat">>>>

\* path::operator/=() of Windows: no separator after a drive either.
JoinWindows(dir, name) ==
  IF name = <<>> \/ Last(dir) \in {"/", Backslash, ":"} \/ Head(name) \in {"/", Backslash}
  THEN dir \o name
  ELSE dir \o <<Backslash>> \o name

\* Mutated form: every directory is searched for one extension after another.
SearchPathByExtension(name, path, files) ==
  LET dirs == Components(path, ";")
  IN IF path = <<>> THEN Failed
     ELSE First(FlattenSeq([x \in DOMAIN Extensions |->
            [n \in DOMAIN dirs |-> JoinWindows(dirs[n], name) \o Extensions[x]]]), files)

\* search_path() for Windows: files are what has an executable type there.
SearchPathWindows(name, path, files) ==
  LET dirs == Components(path, ";")
  IN IF path = <<>> THEN Failed
     ELSE First(FlattenSeq([n \in DOMAIN dirs |->
            [x \in DOMAIN Extensions |-> JoinWindows(dirs[n], name) \o Extensions[x]]]), files)

\* Mutated form: no argument is quoted.
SetArgsPlain(args) == FlattenSeq([n \in DOMAIN args |-> args[n] \o <<Blank>>])

\* set_args(): an argument with a blank gets quotes, each one a blank.
SetArgs(args) ==
  FlattenSeq([n \in DOMAIN args |->
    (IF Has(args[n], Blank) THEN <<Quote>> \o args[n] \o <<Quote>> ELSE args[n])
    \o <<Blank>>])

\* set_env(): every entry with its end, and the end of the block.
SetEnv(envs) ==
  FlattenSeq([n \in DOMAIN envs |-> Append(envs[n], "NUL")]) \o <<"NUL">>

-----------------------------------------------------------------------------

Init ==
  /\ done = FALSE /\ result = Failed
  /\ \/ \E m \in Macros, t \in Templates : task = [do |-> "expand", macros |-> m, template |-> t]
     \/ \E f \in Lines : task = [do |-> "match", fields |-> f]
     \/ \E c \in Commands, s \in Searches : task = [do |-> "prepare", command |-> c, search |-> s]
     \/ \E c \in Commands, s \in Searches : task = [do |-> "search", name |-> c.name, search |-> s]
     \/ \E a \in ArgLists : task = [do |-> "set_args", args |-> a]
     \/ \E e \in EnvLists : task = [do |-> "set_env", envs |-> e]

Written(piece) == IF "ref" \in DOMAIN piece THEN Token(piece.ref) ELSE piece.text

Joined(fields) ==
  FlattenSeq([n \in DOMAIN fields |-> IF n = 1 THEN fields[n] ELSE <<Blank>> \o fields[n]])

\* Nothing in it stands for anything else in a configured command.
Plain(s) == ~Has(s, Blank) /\ ~Has(s, Quote) /\ ~Has(s, Backslash)

\* An argument as a configuration spells it: as it is, or in quotes.
Spelled(arg) ==
  IF Plain(arg) THEN arg
  ELSE <<Quote>> \o
       FlattenSeq([n \in DOMAIN arg |-> IF arg[n] \in {Quote, Backslash}
                                        THEN <<Backslash, arg[n]>> ELSE <<arg[n]>>])
       \o <<Quote>>

Expand ==
  /\ task.do = "expand"
  /\ result' = ReplaceMacros(task.macros,
       FlattenSeq([n \in DOMAIN task.template |-> Written(task.template[n])]))

\* The expression is matched with message.c_str().
Match == task.do = "match" /\ result' = MatchBuild(CString(Joined(task.fields)))

Prepare ==
  /\ task.do = "prepare"
  /\ LET c == task.command
         line == Joined(<<c.name>> \o [n \in DOMAIN c.args |-> Spelled(c.args[n])])
     IN result' = PrepareCommand(line, task.search.path, task.search.files)

Search ==
  /\ task.do = "search"
  /\ result' = SearchPathWindows(task.name, task.search.path, task.search.files)

SetBlock ==
  \/ task.do = "set_args" /\ result' = SetArgs(task.args)
  \/ task.do = "set_env" /\ result' = SetEnv(task.envs)

Next ==
  /\ ~done /\ done' = TRUE
  /\ Expand \/ Match \/ Prepare \/ Search \/ SetBlock
  /\ UNCHANGED task

Spec == Init /\ [][Next]_vars

-----------------------------------------------------------------------------
(* Properties.                                                              *)

Done(do) == done /\ task.do = do

Keys(macros) == {macros[n].key : n \in DOMAIN macros}
ValueOf(macros, key) == (CHOOSE m \in ToSet(macros) : m.key = key).value

Expansion(macros, pieces) ==
  FlattenSeq([n \in DOMAIN pieces |->
    IF "ref" \in DOMAIN pieces[n] /\ pieces[n].ref \in Keys(macros)
    THEN ValueOf(macros, pieces[n].ref) ELSE Written(pieces[n])])

\* The text that comes to stand between two references is itself a key.
Clash(macros, template) ==
  \E m, n \in DOMAIN template :
    /\ m < n /\ "ref" \in DOMAIN template[m] \cap DOMAIN template[n]
    /\ Expansion(macros, SubSeq(template, m + 1, n - 1)) \in Keys(macros)

\* An @ that is not there to mark a reference.
OtherAt(macros, template) ==
  \/ \E m \in ToSet(macros) : Has(m.key, "@") \/ Has(m.value, "@")
  \/ \E p \in ToSet(template) : Has(IF "ref" \in DOMAIN p THEN p.ref ELSE p.text, "@")

\* Every reference becomes the value of its macro, whatever the order of the
\* file, or stays if there is none; unless a value or a text holds an @, or what
\* stands between two references is the name of a macro: then the outcome hangs
\* on the order.
MacrosReplaced ==
  Done("expand") /\ result # Failed =>
    \/ OtherAt(task.macros, task.template)
    \/ Clash(task.macros, task.template)
    \/ result = Expansion(task.macros, task.template)

\* A BUILD line with four fields is read as it was written if none has a NUL and
\* only the name of the repository has blanks; otherwise as some four fields that
\* give the line up to its first NUL.
BuildLineSplit ==
  Done("match") =>
    /\ result # Failed => Joined(result) = CString(Joined(task.fields)) /\ ~Contains(result, <<>>)
    /\ /\ ~Contains(task.fields, <<>>)
       /\ \A n \in 1..4 : ~Has(task.fields[n], "NUL")
       /\ \A n \in 2..4 : ~Has(task.fields[n], Blank)
       => result = task.fields

\* What execute() gets for a configured command whose name has no blank: the file
\* of its name that comes first in PATH, or "" if there is none, which nobody
\* checks; and for argv the path that was found, unless it has a character that
\* set_cmd_line() takes for another, and then the arguments as configured.
CommandAsConfigured ==
  Done("prepare") /\ result # Failed =>
    LET c == task.command
        dirs == Components(task.search.path, ":")
        hits == {n \in DOMAIN dirs : Join(dirs[n], c.name) \in task.search.files}
    IN ~Has(c.name, Blank) =>
         /\ result.exe = IF hits = {} THEN <<>> ELSE Join(dirs[Min(hits)], c.name)
         /\ c.name # <<>> /\ hits # {} /\ Plain(result.exe) => result.argv = <<result.exe>> \o c.args

\* On Windows no directory before the one of the result has the program under
\* any extension, and its own has none of an earlier extension.
ProgramFound ==
  Done("search") /\ result # Failed =>
    LET dirs == Components(task.search.path, ";")
        Files(n) == {JoinWindows(dirs[n], task.name) \o x : x \in ToSet(Extensions)} \cap task.search.files
        hits == {n \in DOMAIN dirs : Files(n) # {}}
    IN IF hits = {} THEN result = <<>>
       ELSE LET n == Min(hits)
                x == SelectInSeq(Extensions, LAMBDA y : result = JoinWindows(dirs[n], task.name) \o y)
            IN /\ x # 0 /\ result \in task.search.files
               /\ \A y \in 1..(x - 1) : JoinWindows(dirs[n], task.name) \o Extensions[y] \notin Files(n)

\* How the run-time library of a program on Windows takes its command line apart,
\* as far as it is terminated: at blanks and at tabs, which quotes keep, and of
\* the backslashes before a quote each pair is one.
CommandLineToArgv(line) ==
  LET s == CString(line)
      Start == [words |-> <<>>, word |-> <<>>, inside |-> FALSE, quoted |-> FALSE, slashes |-> 0]
      Slashes(n) == [k \in 1..n |-> Backslash]
      Read(t, c) ==
        CASE c = Backslash -> [t EXCEPT !.slashes = @ + 1, !.inside = TRUE]
          [] c = Quote -> [t EXCEPT !.slashes = 0, !.inside = TRUE,
               !.quoted = IF t.slashes % 2 = 0 THEN ~@ ELSE @,
               !.word = @ \o Slashes(t.slashes \div 2)
                        \o IF t.slashes % 2 = 0 THEN <<>> ELSE <<Quote>>]
          [] c \in {Blank, Tab} /\ ~t.quoted ->
               IF t.inside THEN [Start EXCEPT !.words = Append(t.words, t.word \o Slashes(t.slashes))]
               ELSE t
          [] OTHER -> [t EXCEPT !.inside = TRUE, !.slashes = 0,
                                !.word = Append(@ \o Slashes(t.slashes), c)]
      after[n \in 0..Len(s)] == IF n = 0 THEN Start ELSE Read(after[n - 1], s[n])
      end == after[Len(s)]
  IN IF end.inside THEN Append(end.words, end.word \o Slashes(end.slashes)) ELSE end.words

\* The arguments and the environment that a program on Windows gets are those
\* asked for; unless an argument is empty or has a quote or a NUL, or a blank and
\* a backslash at its end, or a tab and no blank, for which set_args() does not
\* quote; or an entry of the environment is empty or has a NUL.
WindowsTextSurvives ==
  /\ Done("set_args") =>
       \/ \E a \in ToSet(task.args) :
            \/ a = <<>> \/ Has(a, Quote) \/ Has(a, "NUL")
            \/ Has(a, Blank) /\ Last(a) = Backslash
            \/ Has(a, Tab) /\ ~Has(a, Blank)
       \/ CommandLineToArgv(result) = task.args
  /\ Done("set_env") =>
       \/ \E e \in ToSet(task.envs) : e = <<>> \/ Has(e, "NUL")
       \/ Front(Split(result, "NUL")) = Append(task.envs, <<>>)
=============================================================================
