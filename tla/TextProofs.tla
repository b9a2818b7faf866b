----------------------------- MODULE TextProofs -----------------------------
(***************************************************************************)
(* What TextFunctions promises for texts of any length over any characters.*)
(* The functions are recursive ones of the position in a text; the lemma   *)
(* UpTo, about the least position that would break what is claimed, takes  *)
(* the place of an induction rule.                                         *)
(***************************************************************************)
EXTENDS TextFunctions, SequenceTheorems, WellFoundedInduction, TLAPS

-----------------------------------------------------------------------------
(* Numbers.                                                                 *)

\* A set of numbers that is not empty has a least one.
LEMMA LeastOf ==
  ASSUME NEW T, T \subseteq Nat, T # {} PROVE \E x \in T : \A y \in T : x <= y
<1>1. PICK x \in T : \A y \in T : ~(<<y, x>> \in OpToRel(<, Nat))
  BY NatLessThanWellFounded, WFMin
<1>2. ASSUME NEW y \in T PROVE x <= y
  <2>1. x \in Nat /\ y \in Nat
    OBVIOUS
  <2>2. ~(y < x)
    BY <1>1, <2>1 DEF OpToRel
  <2>3. QED BY <2>1, <2>2
<1>3. QED BY <1>2

\* A set of numbers that is not empty has a greatest one if it is bounded.
LEMMA GreatestOf ==
  ASSUME NEW m \in Nat, NEW T, T \subseteq 0..m, T # {}
  PROVE  \E x \in T : \A y \in T : y <= x
<1> DEFINE U == {m - x : x \in T}
<1>1. U \subseteq Nat /\ U # {}
  OBVIOUS
<1>2. PICK u \in U : \A v \in U : u <= v
  <2> HIDE DEF U
  <2> QED BY <1>1, LeastOf
<1>3. PICK x \in T : u = m - x
  OBVIOUS
<1>4. ASSUME NEW y \in T PROVE y <= x
  <2>1. u <= m - y
    BY <1>2
  <2>2. x \in 0..m /\ y \in 0..m
    OBVIOUS
  <2>3. QED BY <1>3, <2>1, <2>2
<1>5. QED BY <1>4

\* A set of numbers that has 0 and, with each number below m, the next one, has
\* all up to m.
LEMMA UpTo ==
  ASSUME NEW m \in Nat, NEW S, 0 \in S, \A n \in 0..(m - 1) : n \in S => n + 1 \in S
  PROVE  m \in S /\ \A n \in 0..m : n \in S
<1> DEFINE T == (0..m) \ S
<1> SUFFICES ASSUME T # {} PROVE FALSE
  OBVIOUS
<1>1. T \subseteq Nat
  OBVIOUS
<1>2. PICK x \in T : \A y \in T : x <= y
  <2> HIDE DEF T
  <2> QED BY <1>1, LeastOf
<1>3. x # 0 /\ x - 1 \in 0..(m - 1)
  OBVIOUS
<1>4. x - 1 \in T
  BY <1>3
<1>5. QED BY <1>2, <1>3, <1>4

\* f is what a loop of m rounds makes of start.
Loop(f, m, X, start, step) ==
  f \in [0..m -> X] /\ f[0] = start /\ \A n \in 1..m : f[n] = step[n][f[n - 1]]

\* A function of the numbers up to m may be defined by its value for 0 and by a
\* step from each number to the next.
LEMMA Recursion ==
  ASSUME NEW X, NEW m \in Nat, NEW start \in X, NEW step \in [1..m -> [X -> X]]
  PROVE  \E f : Loop(f, m, X, start, step)
<1> DEFINE Is(k, f) == f[0] = start /\ \A n \in 1..k : f[n] = step[n][f[n - 1]]
           S == {k \in 0..m : \E f \in [0..k -> X] : Is(k, f)}
<1>1. 0 \in S
  <2> DEFINE f == [n \in 0..0 |-> start]
  <2>1. 0 \in 0..m /\ 0 \in 0..0 /\ 1..0 = {}
    OBVIOUS
  <2>3. f \in [0..0 -> X] /\ f[0] = start
    BY <2>1
  <2> HIDE DEF f
  <2>4. Is(0, f)
    BY <2>1, <2>3
  <2>2. QED BY <2>1, <2>3, <2>4
<1>2. ASSUME NEW k \in 0..(m - 1), k \in S PROVE k + 1 \in S
  <2>1. PICK f \in [0..k -> X] : Is(k, f)
    BY <1>2
  <2> DEFINE g == [n \in 0..(k + 1) |-> IF n = k + 1 THEN step[k + 1][f[k]] ELSE f[n]]
  <2>2. k + 1 \in 1..m /\ k \in 0..k
    OBVIOUS
  <2>3. step[k + 1][f[k]] \in X
    BY <2>2
  <2>4. g \in [0..(k + 1) -> X]
    BY <2>3
  <2>5. g[k + 1] = step[k + 1][f[k]] /\ \A n \in 0..k : g[n] = f[n]
    OBVIOUS
  <2> HIDE DEF g
  <2>6. g[0] = start
    BY <2>1, <2>2, <2>5
  <2>7. ASSUME NEW n \in 1..(k + 1) PROVE g[n] = step[n][g[n - 1]]
    <3>1. CASE n = k + 1
      BY <2>2, <2>5, <3>1
    <3>2. CASE n # k + 1
      <4>1. n \in 1..k /\ n \in 0..k /\ n - 1 \in 0..k
        BY <3>2
      <4>2. QED BY <2>1, <2>5, <4>1
    <3>3. QED BY <3>1, <3>2
  <2>8. Is(k + 1, g)
    BY <2>6, <2>7
  <2> HIDE DEF Is
  <2>9. k + 1 \in 0..m
    BY <2>2
  <2>10. QED BY <2>4, <2>8, <2>9
<1>3. m \in S
  <2> HIDE DEF S
  <2> QED BY <1>1, <1>2, UpTo
<1>4. QED BY <1>3 DEF Loop

\* g is such a function as long as it stays in X.
LoopsIn(g, m, X, start, step) ==
  g[0] = start /\ \A n \in 1..m : g[n - 1] \in X => g[n] = step[n][g[n - 1]]

Same(g, h, m) == \A n \in 0..m : g[n] = h[n]

\* And there is only one such function.
LEMMA LoopUnique ==
  ASSUME NEW X, NEW m \in Nat, NEW start \in X, NEW step \in [1..m -> [X -> X]],
         NEW h, Loop(h, m, X, start, step), NEW g, LoopsIn(g, m, X, start, step)
  PROVE  Same(g, h, m)
<1> DEFINE S == {n \in 0..m : g[n] = h[n]}
<1>1. 0 \in S
  BY DEF Loop, LoopsIn
<1>2. ASSUME NEW n \in 0..(m - 1), n \in S PROVE n + 1 \in S
  <2> DEFINE k == n + 1
  <2>1. k \in 1..m /\ k - 1 = n /\ k \in 0..m /\ n \in 0..m
    OBVIOUS
  <2> HIDE DEF k
  <2>2. g[n] = h[n] /\ h[n] \in X
    BY <1>2, <2>1 DEF Loop
  <2>3. g[k] = step[k][h[n]] /\ h[k] = step[k][h[n]]
    BY <2>1, <2>2 DEF Loop, LoopsIn
  <2>4. k \in S
    BY <2>1, <2>3
  <2>5. QED BY <2>4 DEF k
<1>3. \A n \in 0..m : n \in S
  <2> HIDE DEF S
  <2> QED BY <1>1, <1>2, UpTo
<1>4. QED BY <1>3 DEF Same

-----------------------------------------------------------------------------
(* Concatenations.                                                          *)

\* FlattenSeq() appends one part after the other.
LEMMA FlattenIs ==
  ASSUME NEW X, NEW ss \in Seq(Seq(X))
  PROVE  \E h \in [0..Len(ss) -> Seq(X)] :
           /\ h[0] = <<>> /\ FlattenSeq(ss) = h[Len(ss)]
           /\ \A n \in 1..Len(ss) : h[n] = h[n - 1] \o ss[n]
<1> DEFINE m == Len(ss)
           step == [n \in 1..m |-> [t \in Seq(X) |-> t \o ss[n]]]
           Is(g) == g = [n \in 1..m |-> IF n = 1 THEN ss[n] ELSE g[n - 1] \o ss[n]]
<1>1. m \in Nat /\ <<>> \in Seq(X) /\ \A n \in 1..m : ss[n] \in Seq(X)
  OBVIOUS
<1>2. \A n \in 1..m : \A t \in Seq(X) : t \o ss[n] \in Seq(X)
  BY <1>1, ConcatProperties
<1>3. step \in [1..m -> [Seq(X) -> Seq(X)]]
  BY <1>2
<1>4. \A n \in 1..m : \A t \in Seq(X) : step[n][t] = t \o ss[n]
  OBVIOUS
<1>5. PICK h \in [0..m -> Seq(X)] :
        h[0] = <<>> /\ \A n \in 1..m : h[n] = step[n][h[n - 1]]
  <2>1. \E h : Loop(h, m, Seq(X), <<>>, step)
    <3> HIDE DEF m, step
    <3> QED BY <1>1, <1>3, Recursion
  <2>2. QED BY <2>1 DEF Loop
<1>6. ASSUME NEW n \in 1..m PROVE h[n] = h[n - 1] \o ss[n] /\ n - 1 \in 0..m
  <2> HIDE DEF step, m
  <2>1. n - 1 \in 0..m
    BY <1>1
  <2>2. h[n - 1] \in Seq(X)
    BY <1>5, <2>1
  <2>3. step[n][h[n - 1]] = h[n - 1] \o ss[n]
    BY <1>4, <2>2
  <2>4. QED BY <1>5, <2>1, <2>3
<1>7. CASE m = 0
  <2>1. FlattenSeq(ss) = ss /\ ss = <<>>
    BY <1>7, EmptySeq DEF FlattenSeq
  <2>2. QED BY <1>5, <1>6, <1>7, <2>1
<1>8. CASE m # 0
  <2> HIDE DEF m
  <2>1. h[1] = ss[1]
    <3>1. 1 \in 1..m /\ 1 - 1 = 0
      BY <1>1, <1>8
    <3>2. h[1] = <<>> \o ss[1]
      BY <1>5, <1>6, <3>1
    <3>3. QED BY <1>1, <3>1, <3>2, ConcatEmptySeq
  <2> DEFINE f == [n \in 1..m |-> h[n]]
  <2>2. Is(f)
    <3>1. ASSUME NEW n \in 1..m PROVE h[n] = IF n = 1 THEN ss[n] ELSE f[n - 1] \o ss[n]
      <4>1. CASE n = 1
        BY <2>1, <4>1
      <4>2. CASE n # 1
        <5>1. n - 1 \in 1..m
          BY <4>2, <1>1
        <5>2. QED BY <1>6, <4>2, <5>1
      <4>3. QED BY <4>1, <4>2
    <3>2. QED BY <3>1
  <2>3. FlattenSeq(ss) = (CHOOSE g : Is(g))[m]
    BY <1>8 DEF FlattenSeq, m
  <2>4. PICK g : Is(g) /\ FlattenSeq(ss) = g[m]
    <3> HIDE DEF Is, f
    <3> QED BY <2>2, <2>3
  <2>5. \A n \in 1..m : g[n] = IF n = 1 THEN ss[n] ELSE g[n - 1] \o ss[n]
    BY <2>4
  <2> DEFINE S == {n \in 0..m : n = 0 \/ g[n] = h[n]}
  <2>6. ASSUME NEW n \in 0..(m - 1), n \in S PROVE n + 1 \in S
    <3>1. n + 1 \in 1..m /\ (n + 1) - 1 = n /\ n + 1 # 0 /\ n + 1 \in 0..m
      BY <1>1
    <3>2. CASE n = 0
      BY <2>1, <2>5, <3>1, <3>2
    <3>3. CASE n # 0
      <4> DEFINE k == n + 1
      <4>1. k \in 1..m /\ k - 1 = n /\ k # 1
        BY <3>1, <3>3
      <4> HIDE DEF k
      <4>2. g[k] = g[n] \o ss[k] /\ h[k] = h[n] \o ss[k]
        BY <1>6, <2>5, <4>1
      <4>3. g[n] = h[n]
        BY <2>6, <3>3
      <4>4. g[k] = h[k]
        BY <4>2, <4>3
      <4>5. QED BY <3>1, <4>4 DEF k
    <3>4. QED BY <3>2, <3>3
  <2>7. 0 \in S
    BY <1>1
  <2>8. m \in S
    <3> HIDE DEF S
    <3> QED BY <1>1, <2>6, <2>7, UpTo
  <2>9. FlattenSeq(ss) = h[m]
    BY <1>8, <2>4, <2>8
  <2>10. QED BY <1>5, <1>6, <2>9 DEF m
<1>9. QED BY <1>7, <1>8

-----------------------------------------------------------------------------
(* Words.                                                                   *)

\* What one character does to the words of split().
SplitStep(s, c, n, w) ==
  IF s[n] = c THEN Append(w, <<>>) ELSE [w EXCEPT ![Len(w)] = Append(@, s[n])]

\* Words stay words, and there is always one.
LEMMA SplitStepType ==
  ASSUME NEW X, NEW s \in Seq(X), NEW c, NEW n \in 1..Len(s), NEW w \in Seq(Seq(X)) \ {<<>>}
  PROVE  SplitStep(s, c, n, w) \in Seq(Seq(X)) \ {<<>>}
<1>1. CASE s[n] = c
  <2> DEFINE S == Seq(X)
  <2>1. w \in Seq(S) /\ <<>> \in S
    OBVIOUS
  <2> HIDE DEF S
  <2>2. Append(w, <<>>) \in Seq(S) /\ Append(w, <<>>) # <<>>
    BY ONLY <2>1, AppendProperties
  <2>3. QED BY <1>1, <2>2 DEF SplitStep, S
<1>2. CASE s[n] # c
  <2>1. Len(w) \in 1..Len(w) /\ w[Len(w)] \in Seq(X)
    BY EmptySeq
  <2> DEFINE e == Append(w[Len(w)], s[n])
  <2>2. e \in Seq(X)
    BY <2>1, AppendProperties
  <2>3. SplitStep(s, c, n, w) = [w EXCEPT ![Len(w)] = e]
    BY <1>2 DEF SplitStep
  <2> HIDE DEF e
  <2>4. /\ [w EXCEPT ![Len(w)] = e] \in Seq(Seq(X))
        /\ Len([w EXCEPT ![Len(w)] = e]) = Len(w)
    BY <2>1, <2>2, ExceptSeq
  <2>5. [w EXCEPT ![Len(w)] = e] # <<>>
    BY <2>1, <2>4, EmptySeq
  <2>6. QED BY <2>3, <2>4, <2>5
<1>3. QED BY <1>1, <1>2

\* h are the words of split() after each character of s.
Splitting(h, X, s, c) ==
  /\ h \in [0..Len(s) -> Seq(Seq(X)) \ {<<>>}]
  /\ h[0] = <<<<>>>> /\ Split(s, c) = h[Len(s)]
  /\ \A n \in 1..Len(s) : h[n] = SplitStep(s, c, n, h[n - 1])

\* split() takes one character after the other.
LEMMA SplitIs ==
  ASSUME NEW X, NEW s \in Seq(X), NEW c PROVE \E h : Splitting(h, X, s, c)
<1> DEFINE m == Len(s)
           W == Seq(Seq(X)) \ {<<>>}
           start == <<<<>>>>
           step == [n \in 1..m |-> [w \in W |-> SplitStep(s, c, n, w)]]
           Is(g) == g = [n \in 0..m |-> IF n = 0 THEN start ELSE SplitStep(s, c, n, g[n - 1])]
<1>1. m \in Nat /\ start \in W
  OBVIOUS
<1>2. step \in [1..m -> [W -> W]] /\ \A n \in 1..m : \A w \in W : step[n][w] = SplitStep(s, c, n, w)
  BY SplitStepType
<1>3. PICK h : Loop(h, m, W, start, step)
  <2> HIDE DEF m, W, start, step
  <2> QED BY <1>1, <1>2, Recursion
<1>4. h \in [0..m -> W] /\ h[0] = start /\ \A n \in 1..m : h[n] = SplitStep(s, c, n, h[n - 1])
  <2> HIDE DEF W, start, step, m
  <2>1. \A n \in 1..m : n - 1 \in 0..m
    BY <1>1
  <2>2. QED BY <1>1, <1>2, <1>3, <2>1 DEF Loop
<1>5. Is(h)
  <2> HIDE DEF W, start, step, m
  <2>1. \A n \in 0..m : h[n] = IF n = 0 THEN start ELSE SplitStep(s, c, n, h[n - 1])
    BY <1>1, <1>4
  <2>2. QED BY <1>4, <2>1
<1>6. Split(s, c) = (CHOOSE g : Is(g))[m]
  BY DEF Split, SplitStep
<1>7. PICK g : Is(g) /\ Split(s, c) = g[m]
  <2> HIDE DEF Is
  <2> QED BY <1>5, <1>6
<1>8. \A n \in 0..m : g[n] = h[n]
  <2> HIDE DEF W, start, step, m
  <2>1. g[0] = start /\ \A n \in 1..m : g[n] = SplitStep(s, c, n, g[n - 1])
    BY <1>1, <1>7
  <2>2. \A n \in 1..m : g[n - 1] \in W => g[n] = step[n][g[n - 1]]
    BY <1>2, <2>1
  <2>3. LoopsIn(g, m, W, start, step)
    BY <2>1, <2>2 DEF LoopsIn
  <2>4. Same(g, h, m)
    BY <1>1, <1>2, <1>3, <2>3, LoopUnique
  <2>5. QED BY <2>4 DEF Same
<1>9. Split(s, c) = h[m]
  <2> HIDE DEF Is
  <2> QED BY <1>1, <1>7, <1>8
<1>10. QED BY <1>4, <1>9 DEF Splitting

\* The components of a text are texts.
LEMMA ComponentsType ==
  ASSUME NEW X, NEW s \in Seq(X), NEW c
  PROVE  Components(s, c) \in Seq(Seq(X))
<1> DEFINE split == Split(s, c)
           m == Len(split)
           W == Seq(Seq(X))
           Keep(n, w) == IF split[n] = <<>> THEN w ELSE Append(w, split[n])
           start == <<>>
           step == [n \in 1..m |-> [w \in W |-> Keep(n, w)]]
           Is(g) == g = [n \in 0..m |-> IF n = 0 THEN <<>> ELSE IF split[n] = <<>> THEN g[n - 1]
                                        ELSE Append(g[n - 1], split[n])]
<1>1. split \in W
  <2>1. PICK h : Splitting(h, X, s, c)
    BY SplitIs
  <2>2. Len(s) \in 0..Len(s)
    OBVIOUS
  <2>3. QED BY <2>1, <2>2 DEF Splitting
<1>2. m \in Nat /\ start \in W /\ \A n \in 1..m : split[n] \in Seq(X)
  BY <1>1
<1>3. ASSUME NEW n \in 1..m, NEW w \in W PROVE Keep(n, w) \in W
  <2>1. Append(w, split[n]) \in W
    BY <1>2, AppendProperties
  <2>2. QED BY <2>1
<1>4. step \in [1..m -> [W -> W]] /\ \A n \in 1..m : \A w \in W : step[n][w] = Keep(n, w)
  <2> HIDE DEF Keep, W, m
  <2> QED BY <1>3
<1>5. PICK h : Loop(h, m, W, start, step)
  <2> HIDE DEF m, W, start, step
  <2> QED BY <1>2, <1>4, Recursion
<1>6. h \in [0..m -> W] /\ h[0] = start /\ \A n \in 1..m : h[n] = Keep(n, h[n - 1])
  <2> HIDE DEF W, start, step, m, Keep
  <2>1. \A n \in 1..m : n - 1 \in 0..m
    BY <1>2
  <2>2. QED BY <1>2, <1>4, <1>5, <2>1 DEF Loop
<1>7. Is(h)
  <2> HIDE DEF W, m, split
  <2>1. ASSUME NEW n \in 0..m
        PROVE h[n] = IF n = 0 THEN <<>> ELSE IF split[n] = <<>> THEN h[n - 1]
                     ELSE Append(h[n - 1], split[n])
    <3>1. CASE n = 0
      BY <1>6, <3>1
    <3>2. CASE n # 0
      <4>1. n \in 1..m
        BY <1>2, <3>2
      <4>2. h[n] = Keep(n, h[n - 1])
        BY <1>6, <4>1
      <4>3. QED BY <3>2, <4>2
    <3>3. QED BY <3>1, <3>2
  <2>2. QED BY <1>6, <2>1
<1>8. Components(s, c) = (CHOOSE g : Is(g))[m]
  BY DEF Components
<1>9. PICK g : Is(g) /\ Components(s, c) = g[m]
  <2> HIDE DEF Is
  <2> QED BY <1>7, <1>8
<1>10. LoopsIn(g, m, W, start, step)
  <2>1. \A n \in 0..m : g[n] = IF n = 0 THEN <<>> ELSE IF split[n] = <<>> THEN g[n - 1]
                               ELSE Append(g[n - 1], split[n])
    <3> HIDE DEF W, m, split
    <3> QED BY <1>9
  <2>2. g[0] = start /\ \A n \in 1..m : g[n] = Keep(n, g[n - 1])
    <3> HIDE DEF W, m, split
    <3> QED BY <1>2, <2>1
  <2> HIDE DEF W, m, split, Keep, step, start
  <2>3. QED BY <1>4, <2>2 DEF LoopsIn
<1>11. Same(g, h, m)
  <2> HIDE DEF W, m, step, start
  <2> QED BY <1>2, <1>4, <1>5, <1>10, LoopUnique
<1>12. g[m] \in W
  <2> HIDE DEF W, m
  <2>1. m \in 0..m
    BY <1>2
  <2>2. QED BY <1>6, <1>11, <2>1 DEF Same
<1>13. QED BY <1>9, <1>12

-----------------------------------------------------------------------------
(* What one behaviour does.                                                 *)

\* The task is one of those that were asked for.
Asked ==
  \/ \E m \in Macros, t \in Templates : task = [do |-> "expand", macros |-> m, template |-> t]
  \/ \E f \in Lines : task = [do |-> "match", fields |-> f]
  \/ \E c \in Commands, s \in Searches : task = [do |-> "prepare", command |-> c, search |-> s]
  \/ \E c \in Commands, s \in Searches : task = [do |-> "search", name |-> c.name, search |-> s]
  \/ \E a \in ArgLists : task = [do |-> "set_args", args |-> a]
  \/ \E e \in EnvLists : task = [do |-> "set_env", envs |-> e]

ArgvOf(c) == Joined(<<c.name>> \o [n \in DOMAIN c.args |-> Spelled(c.args[n])])

\* What is there in the end is what the function of the task gives.
Computed ==
  /\ Done("expand") => result = ReplaceMacros(task.macros,
       FlattenSeq([n \in DOMAIN task.template |-> Written(task.template[n])]))
  /\ Done("match") => result = MatchBuild(CString(Joined(task.fields)))
  /\ Done("prepare") => result =
       PrepareCommand(ArgvOf(task.command), task.search.path, task.search.files)
  /\ Done("search") => result =
       SearchPathWindows(task.name, task.search.path, task.search.files)
  /\ Done("set_args") => result = SetArgs(task.args)
  /\ Done("set_env") => result = SetEnv(task.envs)

TextInv == Asked /\ Computed

\* That is so in every state.
LEMMA TextInvAlways == Spec => []TextInv
<1>1. Init => TextInv
  BY DEF Init, TextInv, Asked, Computed, Done
<1>2. TextInv /\ [Next]_vars => TextInv'
  <2> SUFFICES ASSUME TextInv, [Next]_vars PROVE TextInv'
    OBVIOUS
  <2>1. UNCHANGED task
    BY DEF Next, vars
  <2>2. Asked'
    BY <2>1 DEF TextInv, Asked
  <2>3. CASE Next
    <3>1. ASSUME Expand PROVE Computed'
      BY <2>1, <3>1 DEF Expand, Computed, Done
    <3>2. ASSUME Match PROVE Computed'
      BY <2>1, <3>2 DEF Match, Computed, Done
    <3>3. ASSUME Prepare PROVE Computed'
      BY <2>1, <3>3 DEF Prepare, Computed, Done, ArgvOf
    <3>4. ASSUME Search PROVE Computed'
      BY <2>1, <3>4 DEF Search, Computed, Done
    <3>5. ASSUME SetBlock PROVE Computed'
      BY <2>1, <3>5 DEF SetBlock, Computed, Done
    <3>6. Computed'
      BY <2>3, <3>1, <3>2, <3>3, <3>4, <3>5 DEF Next
    <3>7. QED BY <2>2, <3>6 DEF TextInv
  <2>4. CASE UNCHANGED vars
    BY <2>4 DEF vars, TextInv, Asked, Computed, Done
  <2>5. QED BY <2>3, <2>4
<1>3. QED BY <1>1, <1>2, PTL DEF Spec

-----------------------------------------------------------------------------
(* ProgramFound.                                                            *)

\* Rows of four, one after the other.
LEMMA FlattenRows ==
  ASSUME NEW Y, NEW rows \in Seq(Seq(Y)), \A n \in 1..Len(rows) : Len(rows[n]) = 4
  PROVE  /\ FlattenSeq(rows) \in Seq(Y) /\ Len(FlattenSeq(rows)) = 4 * Len(rows)
         /\ \A n \in 1..Len(rows), x \in 1..4 : FlattenSeq(rows)[4 * (n - 1) + x] = rows[n][x]
<1> DEFINE m == Len(rows)
           Right(n, t) == /\ Len(t) = 4 * n
                          /\ \A k \in 1..n, x \in 1..4 : t[4 * (k - 1) + x] = rows[k][x]
<1>1. m \in Nat /\ m \in 0..m
  OBVIOUS
<1>2. PICK h \in [0..m -> Seq(Y)] : /\ h[0] = <<>> /\ FlattenSeq(rows) = h[m]
                                    /\ \A n \in 1..m : h[n] = h[n - 1] \o rows[n]
  BY FlattenIs
<1> DEFINE S == {n \in 0..m : Right(n, h[n])}
<1>3. 0 \in S
  BY <1>1, <1>2
<1>4. ASSUME NEW n \in 0..(m - 1), n \in S PROVE n + 1 \in S
  <2> DEFINE p == n + 1
  <2>1. n \in 0..m /\ p \in 1..m /\ p \in 0..m /\ p - 1 = n /\ n \in Nat
    BY <1>1
  <2> HIDE DEF p
  <2>2. h[p] = h[n] \o rows[p] /\ h[n] \in Seq(Y) /\ rows[p] \in Seq(Y) /\ Len(rows[p]) = 4
    <3>1. h[p] = h[n] \o rows[p] /\ h[n] \in Seq(Y)
      BY <1>2, <2>1
    <3>2. rows[p] \in Seq(Y) /\ Len(rows[p]) = 4
      BY <2>1
    <3>3. QED BY <3>1, <3>2
  <2>3. Len(h[n]) = 4 * n
    BY <1>4
  <2>4. /\ Len(h[p]) = 4 * n + 4
        /\ \A i \in 1..(4 * n + 4) : h[p][i] = IF i <= 4 * n THEN h[n][i] ELSE rows[p][i - 4 * n]
    <3> DEFINE t == h[n]  u == rows[p]  l == 4 * n
    <3>1. t \in Seq(Y) /\ u \in Seq(Y) /\ Len(t) = l /\ Len(u) = 4 /\ h[p] = t \o u
      BY <2>2, <2>3
    <3> HIDE DEF t, u, l
    <3>2. Len(h[p]) = l + 4 /\ \A i \in 1..(l + 4) : h[p][i] = IF i <= l THEN t[i] ELSE u[i - l]
      <4>1. /\ Len(t \o u) = Len(t) + Len(u)
            /\ \A i \in 1..(Len(t) + Len(u)) :
                 (t \o u)[i] = IF i <= Len(t) THEN t[i] ELSE u[i - Len(t)]
        BY <3>1, ConcatProperties
      <4>2. QED BY <3>1, <4>1
    <3>3. QED BY <3>2 DEF t, u, l
  <2>5. Len(h[p]) = 4 * p
    BY <2>1, <2>4
  <2>6. ASSUME NEW k \in 1..p, NEW x \in 1..4 PROVE h[p][4 * (k - 1) + x] = rows[k][x]
    <3> DEFINE i == 4 * (k - 1) + x
    <3>1. i \in 1..(4 * n + 4)
      BY <2>1
    <3>2. CASE k = p
      <4>1. ~(i <= 4 * n) /\ i - 4 * n = x
        BY <2>1, <3>2
      <4> HIDE DEF i
      <4>2. h[p][i] = rows[p][i - 4 * n]
        BY <2>4, <3>1, <4>1
      <4>3. QED BY <3>2, <4>1, <4>2 DEF i
    <3>3. CASE k # p
      <4>1. k \in 1..n /\ i <= 4 * n
        BY <2>1, <3>3
      <4>2. h[n][i] = rows[k][x]
        BY <1>4, <4>1
      <4> HIDE DEF i
      <4>3. h[p][i] = h[n][i]
        BY <2>4, <3>1, <4>1
      <4>4. QED BY <4>2, <4>3 DEF i
    <3>4. QED BY <3>2, <3>3
  <2>7. Right(p, h[p])
    BY <2>5, <2>6
  <2>8. p \in S
    <3> HIDE DEF Right
    <3> QED BY <2>1, <2>7
  <2>9. QED BY <2>8 DEF p
<1>5. m \in S
  <2> HIDE DEF S
  <2> QED BY <1>1, <1>3, <1>4, UpTo
<1>6. Right(m, FlattenSeq(rows)) /\ FlattenSeq(rows) \in Seq(Y)
  <2> HIDE DEF Right, m
  <2> QED BY <1>1, <1>2, <1>5
<1>7. QED BY <1>6

\* Every place of them is one of a row.
LEMMA RowsCover ==
  ASSUME NEW m \in Nat, NEW i \in 1..(4 * m)
  PROVE  \E k \in 1..m, y \in 1..4 : i = 4 * (k - 1) + y
<1> DEFINE j == i - 1  q == j \div 4  r == j % 4
<1>1. j \in Nat /\ j < 4 * m
  OBVIOUS
<1>2. q \in Nat /\ r \in 0..3 /\ j = 4 * q + r
  <2>1. j \in Nat
    BY <1>1
  <2> HIDE DEF j
  <2>2. q \in Nat
    BY <2>1
  <2>3. r \in 0..3
    BY <2>1
  <2>4. j = 4 * q + r
    BY <2>1
  <2>5. QED BY <2>2, <2>3, <2>4
<1> HIDE DEF q, r
<1>3. q + 1 \in 1..m /\ r + 1 \in 1..4 /\ i = 4 * ((q + 1) - 1) + (r + 1)
  BY <1>1, <1>2
<1>4. QED BY <1>3

\* The search finds nothing if no candidate is there.
LEMMA NoneOfRows ==
  ASSUME NEW Y, NEW rows \in Seq(Seq(Y)), \A n \in 1..Len(rows) : Len(rows[n]) = 4, NEW files,
         \A n \in 1..Len(rows), x \in 1..4 : rows[n][x] \notin files
  PROVE  First(FlattenSeq(rows), files) = <<>>
<1> DEFINE c == FlattenSeq(rows)  m == Len(rows)
<1>1. m \in Nat /\ Len(c) = 4 * m /\ \A n \in 1..m, x \in 1..4 : c[4 * (n - 1) + x] = rows[n][x]
  BY FlattenRows
<1>2. ASSUME NEW i \in 1..Len(c) PROVE c[i] \notin files
  <2>1. i \in 1..(4 * m)
    BY <1>1
  <2>2. PICK k \in 1..m, y \in 1..4 : i = 4 * (k - 1) + y
    <3> HIDE DEF m
    <3> QED BY <1>1, <2>1, RowsCover
  <2>3. c[i] = rows[k][y]
    BY <1>1, <2>2
  <2>4. QED BY <2>3
<1>3. SelectInSeq(c, LAMBDA f : f \in files) = 0
  <2>1. {i \in 1..Len(c) : c[i] \in files} = {}
    BY <1>2
  <2>2. QED BY <2>1 DEF SelectInSeq
<1>4. QED BY <1>3 DEF First

\* What the search finds is the first of the candidates, row by row.
LEMMA FirstOfRows ==
  ASSUME NEW Y, NEW rows \in Seq(Seq(Y)), \A n \in 1..Len(rows) : Len(rows[n]) = 4, NEW files,
         NEW n \in 1..Len(rows), NEW x \in 1..4, rows[n][x] \in files
  PROVE  \E k \in 1..Len(rows), y \in 1..4 :
           /\ First(FlattenSeq(rows), files) = rows[k][y] /\ rows[k][y] \in files
           /\ \A j \in 1..Len(rows), z \in 1..4 :
                rows[j][z] \in files => k < j \/ (k = j /\ y <= z)
<1> DEFINE m == Len(rows)
           c == FlattenSeq(rows)
           I == {i \in 1..Len(c) : c[i] \in files}
           At(k, y) == 4 * (k - 1) + y
<1>1. m \in Nat
  OBVIOUS
<1>2. /\ c \in Seq(Y) /\ Len(c) = 4 * m
      /\ \A k \in 1..m, y \in 1..4 : c[At(k, y)] = rows[k][y]
  BY FlattenRows
<1> HIDE DEF c, m
<1>3. \A k \in 1..m, y \in 1..4 : At(k, y) \in 1..Len(c)
  BY <1>1, <1>2
<1>4. ASSUME NEW i \in 1..Len(c) PROVE \E k \in 1..m, y \in 1..4 : i = At(k, y)
  <2>1. i \in 1..(4 * m)
    BY <1>2
  <2>2. QED BY <1>1, <2>1, RowsCover
<1>5. n \in 1..m /\ \A k \in 1..m, y \in 1..4 : rows[k][y] \in files => At(k, y) \in I
  <2> HIDE DEF At
  <2> QED BY <1>2, <1>3 DEF m
<1>6. At(n, x) \in I
  BY <1>5
<1>7. I \subseteq Nat /\ I # {}
  BY <1>6
<1>8. PICK i \in I : \A j \in I : i <= j
  <2> HIDE DEF I
  <2> QED BY <1>7, LeastOf
<1>9. Min(I) \in I /\ \A j \in I : Min(I) <= j
  <2> HIDE DEF I
  <2> QED BY <1>8 DEF Min
<1>10. First(c, files) = c[Min(I)]
  <2>1. SelectInSeq(c, LAMBDA f : f \in files) = Min(I)
    BY <1>7 DEF SelectInSeq
  <2>2. Min(I) # 0
    BY <1>9
  <2>3. QED BY <2>1, <2>2 DEF First
<1>11. PICK k \in 1..m, y \in 1..4 : Min(I) = At(k, y)
  BY <1>4, <1>9
<1>12. First(c, files) = rows[k][y] /\ rows[k][y] \in files
  <2>1. c[Min(I)] = rows[k][y]
    BY <1>2, <1>11
  <2>2. QED BY <1>9, <1>10, <2>1
<1>13. ASSUME NEW j \in 1..m, NEW z \in 1..4, rows[j][z] \in files
       PROVE  k < j \/ (k = j /\ y <= z)
  <2>1. At(k, y) <= At(j, z)
    BY <1>5, <1>9, <1>11, <1>13
  <2>2. QED BY <2>1
<1>14. QED BY <1>12, <1>13 DEF c, m

\* The paths that are tried are texts.
LEMMA JoinType ==
  ASSUME NEW dir \in Text, NEW name \in Text PROVE Join(dir, name) \in Text
<1>1. "/" \in Char
  BY TextAssumption
<1>2. <<"/">> \in Text
  BY <1>1 DEF Text
<1>3. dir \o <<"/">> \in Text
  BY <1>2, ConcatProperties DEF Text
<1>4. dir \o name \in Text /\ (dir \o <<"/">>) \o name \in Text
  BY <1>3, ConcatProperties DEF Text
<1>5. QED BY <1>4 DEF Join

\* So are those of Windows.
LEMMA JoinWindowsType ==
  ASSUME NEW dir \in Text, NEW name \in Text PROVE JoinWindows(dir, name) \in Text
<1>1. <<Backslash>> \in Text
  <2>1. Backslash \in Char
    BY TextAssumption DEF Backslash
  <2>2. QED BY <2>1 DEF Text
<1>2. dir \o <<Backslash>> \in Text
  BY <1>1, ConcatProperties DEF Text
<1>3. dir \o name \in Text /\ (dir \o <<Backslash>>) \o name \in Text
  BY <1>2, ConcatProperties DEF Text
<1>4. QED BY <1>3 DEF JoinWindows

\* There are four extensions.
LEMMA ExtensionsType ==
  /\ Extensions \in Seq(Text) /\ Len(Extensions) = 4 /\ DOMAIN Extensions = 1..4
  /\ \A x \in 1..4 : Extensions[x] \in Text
<1>1. "." \in Char /\ "exe" \in Char /\ "com" \in Char /\ "bat" \in Char
  BY TextAssumption
<1>2. /\ <<>> \in Text /\ <<".", "exe">> \in Text /\ <<".", "com">> \in Text
      /\ <<".", "bat">> \in Text
  BY <1>1 DEF Text
<1>3. Extensions \in Seq(Text) /\ Len(Extensions) = 4 /\ DOMAIN Extensions = 1..4
  BY <1>2 DEF Extensions
<1>4. ASSUME NEW x \in 1..4 PROVE Extensions[x] \in Text
  <2>1. x = 1 \/ x = 2 \/ x = 3 \/ x = 4
    OBVIOUS
  <2>2. /\ Extensions[1] = <<>> /\ Extensions[2] = <<".", "exe">>
        /\ Extensions[3] = <<".", "com">> /\ Extensions[4] = <<".", "bat">>
    BY DEF Extensions
  <2>3. QED BY <1>2, <2>1, <2>2
<1>5. QED BY <1>3, <1>4

\* What is looked for on Windows, a row for each directory.
Candidates(dirs, name) ==
  [n \in DOMAIN dirs |-> [x \in DOMAIN Extensions |-> JoinWindows(dirs[n], name) \o Extensions[x]]]

\* Each row has as many candidates as there are extensions.
LEMMA CandidatesType ==
  ASSUME NEW dirs \in Seq(Text), NEW name \in Text
  PROVE  /\ Candidates(dirs, name) \in Seq(Seq(Text)) /\ Len(Candidates(dirs, name)) = Len(dirs)
         /\ \A n \in 1..Len(dirs) :
              /\ Len(Candidates(dirs, name)[n]) = 4
              /\ \A x \in 1..4 : Candidates(dirs, name)[n][x] = JoinWindows(dirs[n], name) \o Extensions[x]
<1> DEFINE c == Candidates(dirs, name)
           Row(n) == [x \in 1..4 |-> JoinWindows(dirs[n], name) \o Extensions[x]]
<1>1. c = [n \in 1..Len(dirs) |-> Row(n)]
  BY ExtensionsType DEF Candidates
<1>2. ASSUME NEW n \in 1..Len(dirs), NEW x \in 1..4
      PROVE  JoinWindows(dirs[n], name) \o Extensions[x] \in Text
  <2>1. JoinWindows(dirs[n], name) \in Seq(Char) /\ Extensions[x] \in Seq(Char)
    <3>1. dirs[n] \in Text
      OBVIOUS
    <3>2. JoinWindows(dirs[n], name) \in Text
      BY <3>1, JoinWindowsType
    <3>3. Extensions[x] \in Text
      BY ExtensionsType
    <3>4. QED BY <3>2, <3>3 DEF Text
  <2>2. QED BY <2>1, ConcatProperties DEF Text
<1>3. \A n \in 1..Len(dirs) : Row(n) \in Seq(Text) /\ Len(Row(n)) = 4
  BY <1>2
<1>4. \A n \in 1..Len(dirs) : \A x \in 1..4 : Row(n)[x] = JoinWindows(dirs[n], name) \o Extensions[x]
  OBVIOUS
<1> HIDE DEF c, Row
<1>5. Len(dirs) \in Nat
  OBVIOUS
<1>6. c \in Seq(Seq(Text)) /\ Len(c) = Len(dirs) /\ \A n \in 1..Len(dirs) : c[n] = Row(n)
  BY <1>1, <1>3, <1>5
<1>7. QED BY <1>3, <1>4, <1>6 DEF c

\* On Windows the first file in the first directory of PATH that has one is run.
THEOREM SearchOnWindows == Spec => []ProgramFound
<1>1. TextInv => ProgramFound
  <2> SUFFICES ASSUME TextInv, Done("search"), result # Failed
               PROVE  ProgramFound!2
    BY DEF ProgramFound
  <2> DEFINE dirs == Components(task.search.path, ";")
             rows == Candidates(dirs, task.name)
             files == task.search.files
             Files(n) == {JoinWindows(dirs[n], task.name) \o x : x \in ToSet(Extensions)} \cap files
             hits == {n \in DOMAIN dirs : Files(n) # {}}
  <2>1. task.name \in Text /\ task.search.path \in Text
    <3>1. PICK c \in Commands, s \in Searches :
            task = [do |-> "search", name |-> c.name, search |-> s]
      BY DEF TextInv, Asked, Done
    <3>2. c.name \in Text /\ s.path \in Text
      BY TextAssumption
    <3>3. QED BY <3>1, <3>2
  <2>2. result = First(FlattenSeq(rows), files)
    BY DEF TextInv, Computed, SearchPathWindows, Candidates
  <2>3. dirs \in Seq(Text)
    BY <2>1, ComponentsType DEF Text
  <2> DEFINE m == Len(dirs)
  <2> HIDE DEF dirs, rows, files
  <2>4. /\ rows \in Seq(Seq(Text)) /\ Len(rows) = m
        /\ \A n \in 1..m : Len(rows[n]) = 4
        /\ \A n \in 1..m : \A x \in 1..4 : rows[n][x] = JoinWindows(dirs[n], task.name) \o Extensions[x]
    BY <2>1, <2>3, CandidatesType DEF rows
  <2>5. ASSUME NEW n \in 1..m
        PROVE  Files(n) = {rows[n][x] : x \in 1..4} \cap files
    <3>1. ToSet(Extensions) = {Extensions[x] : x \in 1..4}
      BY ExtensionsType DEF ToSet
    <3>2. {JoinWindows(dirs[n], task.name) \o x : x \in ToSet(Extensions)} = {rows[n][x] : x \in 1..4}
      <4> DEFINE J == JoinWindows(dirs[n], task.name)
      <4>1. \A x \in 1..4 : rows[n][x] = J \o Extensions[x]
        BY <2>4
      <4> HIDE DEF J
      <4>2. {J \o x : x \in {Extensions[y] : y \in 1..4}} = {J \o Extensions[x] : x \in 1..4}
        OBVIOUS
      <4>3. {J \o Extensions[x] : x \in 1..4} = {rows[n][x] : x \in 1..4}
        BY <4>1
      <4>4. QED BY <3>1, <4>2, <4>3 DEF J
    <3>3. QED BY <3>2
  <2>6. DOMAIN dirs = 1..m /\ m \in Nat
    BY <2>3
  <2> DEFINE Found ==
               IF hits = {} THEN result = <<>>
               ELSE LET n == Min(hits)
                        x == SelectInSeq(Extensions, LAMBDA y : result = JoinWindows(dirs[n], task.name) \o y)
                    IN /\ x # 0 /\ result \in files
                       /\ \A y \in 1..(x - 1) : JoinWindows(dirs[n], task.name) \o Extensions[y] \notin Files(n)
  <2>7. ASSUME hits = {} PROVE result = <<>>
    <3>1. ASSUME NEW n \in 1..m, NEW x \in 1..4 PROVE rows[n][x] \notin files
      <4>1. Files(n) = {}
        BY <2>6, <2>7
      <4>2. QED BY <2>5, <4>1
    <3>2. First(FlattenSeq(rows), files) = <<>>
      BY <2>4, <3>1, NoneOfRows
    <3>3. QED BY <2>2, <3>2
  <2>8. ASSUME hits # {} PROVE Found
    <3>1. PICK a \in 1..m, b \in 1..4 : rows[a][b] \in files
      <4>1. PICK a \in hits : Files(a) # {}
        BY <2>8
      <4>2. a \in 1..m
        BY <2>6
      <4>3. Files(a) = {rows[a][x] : x \in 1..4} \cap files
        BY <2>5, <4>2
      <4> HIDE DEF Files
      <4>4. PICK f \in {rows[a][x] : x \in 1..4} : f \in files
        BY <4>1, <4>3
      <4>5. QED BY <4>2, <4>4
    <3>2. PICK k \in 1..m, y \in 1..4 :
            /\ result = rows[k][y] /\ rows[k][y] \in files
            /\ \A j \in 1..m, z \in 1..4 : rows[j][z] \in files => k < j \/ (k = j /\ y <= z)
      <4>1. \A n \in 1..Len(rows) : Len(rows[n]) = 4
        BY <2>4
      <4>2. a \in 1..Len(rows)
        BY <2>4
      <4>3. \E k \in 1..Len(rows), y \in 1..4 :
              /\ First(FlattenSeq(rows), files) = rows[k][y] /\ rows[k][y] \in files
              /\ \A j \in 1..Len(rows), z \in 1..4 :
                   rows[j][z] \in files => k < j \/ (k = j /\ y <= z)
        BY <2>4, <3>1, <4>1, <4>2, FirstOfRows
      <4>4. QED BY <2>2, <2>4, <4>3
    <3>3. k \in hits
      <4>1. rows[k][y] \in Files(k)
        BY <2>5, <3>2
      <4>2. QED BY <2>6, <4>1
    <3>4. ASSUME NEW j \in hits PROVE k <= j
      <4>1. j \in 1..m /\ Files(j) # {}
        BY <2>6
      <4>2. PICK z \in 1..4 : rows[j][z] \in files
        <5>1. Files(j) = {rows[j][x] : x \in 1..4} \cap files
          BY <2>5, <4>1
        <5> HIDE DEF Files
        <5>2. PICK f \in {rows[j][x] : x \in 1..4} : f \in files
          BY <4>1, <5>1
        <5>3. QED BY <5>2
      <4>3. QED BY <3>2, <4>1, <4>2
    <3>5. hits \subseteq Nat /\ ~(k < k)
      <4>1. hits \subseteq Nat
        BY <2>6
      <4> HIDE DEF hits, m
      <4>2. k \in Nat
        BY <3>3, <4>1
      <4>3. QED BY <4>1, <4>2
    <3>6. Min(hits) = k
      <4> HIDE DEF hits
      <4>1. \A i \in hits : (\A j \in hits : i <= j) => i = k
        BY <3>3, <3>4, <3>5
      <4>2. QED BY <3>3, <3>4, <4>1 DEF Min
    <3> DEFINE n == Min(hits)
               I == {x \in 1..4 : result = JoinWindows(dirs[n], task.name) \o Extensions[x]}
    <3>7. y \in I /\ I \subseteq Nat
      <4>1. result = JoinWindows(dirs[n], task.name) \o Extensions[y]
        BY <2>4, <3>2, <3>6
      <4> HIDE DEF n
      <4>2. y \in I
        BY <4>1
      <4>3. \A x \in I : x \in 1..4
        OBVIOUS
      <4> HIDE DEF I
      <4>4. QED BY <4>2, <4>3
    <3>8. PICK i \in I : \A j \in I : i <= j
      <4> HIDE DEF I
      <4> QED BY <3>7, LeastOf
    <3>9. Min(I) \in I /\ \A j \in I : Min(I) <= j
      <4> HIDE DEF I
      <4> QED BY <3>8 DEF Min
    <3>10. SelectInSeq(Extensions, LAMBDA x : result = JoinWindows(dirs[n], task.name) \o x) = Min(I)
      <4> HIDE DEF n
      <4> QED BY <3>7, ExtensionsType DEF SelectInSeq
    <3>11. Min(I) \in 1..4 /\ Min(I) <= y
      <4>1. Min(I) \in 1..4
        BY <3>9
      <4> HIDE DEF I
      <4>2. QED BY <3>7, <3>9, <4>1
    <3>12. ASSUME NEW z \in 1..(Min(I) - 1)
           PROVE  JoinWindows(dirs[n], task.name) \o Extensions[z] \notin Files(n)
      <4>1. z \in 1..4 /\ ~(y <= z)
        <5> DEFINE w == Min(I)
        <5>1. w \in 1..4 /\ w <= y /\ z \in 1..(w - 1)
          BY <3>11, <3>12
        <5> HIDE DEF w, I
        <5>2. QED BY <5>1
      <4>2. rows[k][z] \notin files
        BY <3>2, <3>5, <4>1
      <4>3. rows[k][z] = JoinWindows(dirs[n], task.name) \o Extensions[z]
        BY <2>4, <3>6, <4>1
      <4>4. QED BY <4>2, <4>3
    <3>13. result \in files
      BY <3>2
    <3>14. Min(I) # 0
      <4> HIDE DEF I
      <4> QED BY <3>11
    <3> HIDE DEF hits, Files, I
    <3>15. QED BY <2>8, <3>10, <3>12, <3>13, <3>14
  <2>9. Found
    BY <2>7, <2>8
  <2>10. QED BY <2>9 DEF dirs, files
<1>2. QED BY <1>1, TextInvAlways, PTL

-----------------------------------------------------------------------------
(* BuildLineSplit.                                                          *)

\* t has the fields f at the places that end at the blanks a, b and c.
FieldsAt(t, f, a, b, c) ==
  /\ t \in Text /\ Len(t) = c + Len(f[4])
  /\ a = Len(f[1]) + 1 /\ b = a + Len(f[2]) + 1 /\ c = b + Len(f[3]) + 1
  /\ t[a] = Blank /\ t[b] = Blank /\ t[c] = Blank
  /\ \A i \in 1..Len(f[1]) : t[i] = f[1][i]
  /\ \A i \in 1..Len(f[2]) : t[a + i] = f[2][i]
  /\ \A i \in 1..Len(f[3]) : t[b + i] = f[3][i]
  /\ \A i \in 1..Len(f[4]) : t[c + i] = f[4][i]

\* The characters that the functions are about.
LEMMA Characters ==
  /\ Blank \in Char /\ Quote \in Char /\ Backslash \in Char
  /\ Blank # Quote /\ Blank # Backslash /\ Quote # Backslash
  /\ \A c \in Char : <<c>> \in Seq(Char) /\ Len(<<c>>) = 1 /\ <<c>>[1] = c
  /\ <<>> \in Text
<1>1. Blank \in Char
  BY TextAssumption DEF Blank
<1>2. Quote \in Char
  BY TextAssumption DEF Quote
<1>3. Backslash \in Char
  BY TextAssumption DEF Backslash
<1>4. Blank # Quote /\ Blank # Backslash /\ Quote # Backslash
  BY DEF Blank, Quote, Backslash
<1>5. \A c \in Char : <<c>> \in Seq(Char) /\ Len(<<c>>) = 1 /\ <<c>>[1] = c
  OBVIOUS
<1>6. <<>> \in Text
  BY DEF Text
<1>7. QED BY <1>1, <1>2, <1>3, <1>4, <1>5, <1>6

\* A text with a blank and a field at its end.
LEMMA AddField ==
  ASSUME NEW t \in Text, NEW u \in Text
  PROVE  LET v == t \o (<<Blank>> \o u)  a == Len(t) + 1
         IN /\ v \in Text /\ Len(v) = a + Len(u) /\ v[a] = Blank
            /\ \A i \in 1..Len(t) : v[i] = t[i]
            /\ \A i \in 1..Len(u) : v[a + i] = u[i]
<1> DEFINE w == <<Blank>> \o u  v == t \o w  a == Len(t) + 1
<1>1. Len(t) \in Nat /\ Len(u) \in Nat /\ t \in Seq(Char) /\ u \in Seq(Char)
  BY DEF Text
<1>2. <<Blank>> \in Seq(Char) /\ Len(<<Blank>>) = 1 /\ <<Blank>>[1] = Blank
  BY Characters
<1>3. /\ w \in Seq(Char) /\ Len(w) = 1 + Len(u)
      /\ \A i \in 1..(1 + Len(u)) : w[i] = IF i <= 1 THEN <<Blank>>[i] ELSE u[i - 1]
  BY <1>1, <1>2, ConcatProperties
<1>4. w[1] = Blank /\ \A i \in 1..Len(u) : w[1 + i] = u[i]
  <2> HIDE DEF w
  <2>1. w[1] = Blank
    BY <1>1, <1>2, <1>3
  <2>2. ASSUME NEW i \in 1..Len(u) PROVE w[1 + i] = u[i]
    <3> DEFINE j == 1 + i
    <3>1. j \in 1..(1 + Len(u)) /\ ~(j <= 1) /\ j - 1 = i
      BY <1>1
    <3> HIDE DEF j
    <3>2. w[j] = u[i]
      BY <1>3, <3>1
    <3>3. QED BY <3>2 DEF j
  <2>3. QED BY <2>1, <2>2
<1> HIDE DEF w
<1>5. /\ v \in Seq(Char) /\ Len(v) = Len(t) + Len(w)
      /\ \A i \in 1..(Len(t) + Len(w)) : v[i] = IF i <= Len(t) THEN t[i] ELSE w[i - Len(t)]
  BY <1>1, <1>3, ConcatProperties
<1> HIDE DEF v
<1>6. \A i \in 1..Len(t) : v[i] = t[i]
  <2>1. \A i \in 1..Len(t) : i \in 1..(Len(t) + Len(w)) /\ i <= Len(t)
    <3>1. Len(t) \in Nat /\ Len(w) \in Nat
      BY <1>1, <1>3
    <3>2. QED BY ONLY <3>1
  <2>2. QED BY <1>5, <2>1
<1>7. ASSUME NEW k \in 1..Len(w) PROVE v[Len(t) + k] = w[k]
  <2> DEFINE j == Len(t) + k
  <2>1. j \in 1..(Len(t) + Len(w)) /\ ~(j <= Len(t)) /\ j - Len(t) = k
    BY <1>1, <1>3
  <2> HIDE DEF j
  <2>2. v[j] = w[k]
    BY <1>5, <2>1
  <2>3. QED BY <2>2 DEF j
<1>8. v[a] = Blank
  <2>1. 1 \in 1..Len(w)
    BY <1>1, <1>3
  <2>2. QED BY <1>4, <1>7, <2>1
<1>9. ASSUME NEW i \in 1..Len(u) PROVE v[a + i] = u[i]
  <2>1. 1 + i \in 1..Len(w)
    BY <1>1, <1>3
  <2>2. Len(t) + (1 + i) = a + i
    BY <1>1
  <2>3. v[Len(t) + (1 + i)] = u[i]
    BY <1>4, <1>7, <2>1
  <2>4. QED BY <2>2, <2>3
<1>10. QED BY <1>1, <1>3, <1>5, <1>6, <1>8, <1>9 DEF v, w, Text

\* The four fields stand one after the other, with blanks between.
LEMMA JoinedIs ==
  ASSUME NEW f \in [1..4 -> Text]
  PROVE  \E a, b, c \in Nat : FieldsAt(Joined(f), f, a, b, c)
<1> DEFINE g == [n \in 1..4 |-> IF n = 1 THEN f[n] ELSE <<Blank>> \o f[n]]
           s == FlattenSeq(g)
<1>1. DOMAIN f = 1..4 /\ \A n \in 1..4 : f[n] \in Text /\ Len(f[n]) \in Nat
  BY DEF Text
<1>2. Joined(f) = s
  BY <1>1 DEF Joined
<1>3. \A n \in 1..4 : <<Blank>> \o f[n] \in Text
  <2>1. <<Blank>> \in Seq(Char)
    BY Characters
  <2>2. QED BY <1>1, <2>1, ConcatProperties DEF Text
<1>4. g \in Seq(Seq(Char)) /\ Len(g) = 4
  BY <1>1, <1>3 DEF Text
<1>5. g[1] = f[1] /\ g[2] = <<Blank>> \o f[2] /\ g[3] = <<Blank>> \o f[3] /\ g[4] = <<Blank>> \o f[4]
  OBVIOUS
<1> HIDE DEF g
<1>6. PICK h \in [0..4 -> Seq(Char)] : /\ h[0] = <<>> /\ s = h[4]
                                       /\ \A n \in 1..4 : h[n] = h[n - 1] \o g[n]
  <2>1. \E h \in [0..Len(g) -> Seq(Char)] :
          /\ h[0] = <<>> /\ s = h[Len(g)] /\ \A n \in 1..Len(g) : h[n] = h[n - 1] \o g[n]
    BY <1>4, FlattenIs
  <2>2. QED BY <1>4, <2>1
<1>7. h[1] = h[0] \o g[1] /\ h[2] = h[1] \o g[2] /\ h[3] = h[2] \o g[3] /\ h[4] = h[3] \o g[4]
  <2>1. 1 \in 1..4 /\ 2 \in 1..4 /\ 3 \in 1..4 /\ 4 \in 1..4
    OBVIOUS
  <2>2. h[1] = h[1 - 1] \o g[1] /\ h[2] = h[2 - 1] \o g[2]
    BY <1>6, <2>1
  <2>3. h[3] = h[3 - 1] \o g[3] /\ h[4] = h[4 - 1] \o g[4]
    BY <1>6, <2>1
  <2>4. 1 - 1 = 0 /\ 2 - 1 = 1 /\ 3 - 1 = 2 /\ 4 - 1 = 3
    OBVIOUS
  <2>5. h[1 - 1] = h[0] /\ h[2 - 1] = h[1] /\ h[3 - 1] = h[2] /\ h[4 - 1] = h[3]
    BY ONLY <2>4
  <2>6. QED BY <2>2, <2>3, <2>5
<1>8. h[1] = f[1]
  BY <1>1, <1>5, <1>6, <1>7, ConcatEmptySeq DEF Text
<1> DEFINE a == Len(f[1]) + 1  b == a + Len(f[2]) + 1  c == b + Len(f[3]) + 1
           x == h[1]  y == h[2]  z == h[3]  f1 == f[1]  f2 == f[2]  f3 == f[3]  f4 == f[4]
<1>9. f1 \in Text /\ f2 \in Text /\ f3 \in Text /\ f4 \in Text
  BY <1>1
<1>10. Len(f1) \in Nat /\ Len(f2) \in Nat /\ Len(f3) \in Nat /\ Len(f4) \in Nat
  BY <1>1
<1>11. y = f1 \o (<<Blank>> \o f2) /\ z = y \o (<<Blank>> \o f3) /\ s = z \o (<<Blank>> \o f4)
  BY <1>5, <1>6, <1>7, <1>8
<1> HIDE DEF x, y, z, f1, f2, f3, f4, s
<1>12. /\ y \in Text /\ Len(y) = Len(f1) + 1 + Len(f2) /\ y[Len(f1) + 1] = Blank
       /\ \A i \in 1..Len(f1) : y[i] = f1[i]
       /\ \A i \in 1..Len(f2) : y[Len(f1) + 1 + i] = f2[i]
  <2>1. f1 \in Text /\ f2 \in Text /\ y = f1 \o (<<Blank>> \o f2)
    BY <1>9, <1>11
  <2>2. /\ y \in Text /\ Len(y) = (Len(f1) + 1) + Len(f2) /\ y[Len(f1) + 1] = Blank
        /\ \A i \in 1..Len(f1) : y[i] = f1[i]
        /\ \A i \in 1..Len(f2) : y[(Len(f1) + 1) + i] = f2[i]
    BY ONLY <2>1, AddField
  <2>3. QED BY <2>2
<1>13. /\ z \in Text /\ Len(z) = Len(y) + 1 + Len(f3) /\ z[Len(y) + 1] = Blank
       /\ \A i \in 1..Len(y) : z[i] = y[i]
       /\ \A i \in 1..Len(f3) : z[Len(y) + 1 + i] = f3[i]
  <2>1. y \in Text /\ f3 \in Text /\ z = y \o (<<Blank>> \o f3)
    BY <1>9, <1>11, <1>12
  <2>2. /\ z \in Text /\ Len(z) = (Len(y) + 1) + Len(f3) /\ z[Len(y) + 1] = Blank
        /\ \A i \in 1..Len(y) : z[i] = y[i]
        /\ \A i \in 1..Len(f3) : z[(Len(y) + 1) + i] = f3[i]
    BY ONLY <2>1, AddField
  <2>3. QED BY <2>2
<1>14. /\ s \in Text /\ Len(s) = Len(z) + 1 + Len(f4) /\ s[Len(z) + 1] = Blank
       /\ \A i \in 1..Len(z) : s[i] = z[i]
       /\ \A i \in 1..Len(f4) : s[Len(z) + 1 + i] = f4[i]
  <2>1. z \in Text /\ f4 \in Text
    BY <1>9, <1>13
  <2>2. s = z \o (<<Blank>> \o f4)
    BY <1>11
  <2>3. /\ s \in Text /\ Len(s) = (Len(z) + 1) + Len(f4) /\ s[Len(z) + 1] = Blank
        /\ \A i \in 1..Len(z) : s[i] = z[i]
        /\ \A i \in 1..Len(f4) : s[(Len(z) + 1) + i] = f4[i]
    BY ONLY <2>1, <2>2, AddField
  <2>4. QED BY <2>3
<1>15. /\ a = Len(f1) + 1 /\ b = Len(y) + 1 /\ c = Len(z) + 1
       /\ a \in Nat /\ b \in Nat /\ c \in Nat /\ Len(y) \in Nat /\ Len(z) \in Nat
  <2>1. a = Len(f1) + 1 /\ b = a + Len(f2) + 1 /\ c = b + Len(f3) + 1
    BY DEF f1, f2, f3
  <2> HIDE DEF a, b, c
  <2>2. Len(y) = Len(f1) + 1 + Len(f2) /\ Len(z) = Len(y) + 1 + Len(f3)
    BY <1>12, <1>13
  <2>3. QED BY ONLY <1>10, <2>1, <2>2, SMTT(20)
<1>16. Len(s) = c + Len(f4) /\ s[c] = Blank /\ \A i \in 1..Len(f4) : s[c + i] = f4[i]
  <2> HIDE DEF a, b, c
  <2> QED BY <1>10, <1>14, <1>15
<1>17. s[b] = Blank /\ \A i \in 1..Len(f3) : s[b + i] = f3[i]
  <2> HIDE DEF a, b, c
  <2>1. b \in 1..Len(z) /\ \A i \in 1..Len(f3) : b + i \in 1..Len(z)
    <3>1. Len(z) = b + Len(f3) /\ b >= 1 /\ b \in Nat /\ Len(f3) \in Nat
      BY <1>10, <1>13, <1>15
    <3>2. QED BY ONLY <3>1
  <2>2. QED BY <1>13, <1>14, <1>15, <2>1
<1>18. /\ s[a] = Blank /\ \A i \in 1..Len(f2) : s[a + i] = f2[i]
       /\ \A i \in 1..Len(f1) : s[i] = f1[i]
  <2> HIDE DEF a, b, c
  <2>1. Len(y) = a + Len(f2) /\ Len(z) = a + Len(f2) + 1 + Len(f3)
    BY <1>10, <1>12, <1>13, <1>15
  <2>2. a \in Nat /\ a >= 1 /\ Len(f1) \in Nat /\ Len(f2) \in Nat /\ Len(f3) \in Nat
    BY <1>10, <1>15
  <2>3. a \in 1..Len(y) /\ a \in 1..Len(z)
    BY ONLY <2>1, <2>2
  <2>4. \A i \in 1..Len(f2) : a + i \in 1..Len(y) /\ a + i \in 1..Len(z)
    BY ONLY <2>1, <2>2
  <2>5. \A i \in 1..Len(f1) : i \in 1..Len(y) /\ i \in 1..Len(z)
    <3>1. Len(f1) <= Len(y) /\ Len(f1) <= Len(z)
      <4>1. a = Len(f1) + 1
        BY <1>15
      <4>2. QED BY ONLY <2>1, <2>2, <4>1
    <3>2. Len(f1) \in Nat /\ Len(y) \in Nat /\ Len(z) \in Nat
      BY <1>10, <1>15
    <3>3. QED BY ONLY <3>1, <3>2
  <2>6. QED BY <1>12, <1>13, <1>14, <1>15, <2>3, <2>4, <2>5
<1>19. FieldsAt(s, f, a, b, c)
  BY <1>10, <1>14, <1>15, <1>16, <1>17, <1>18 DEF FieldsAt, f1, f2, f3, f4
<1>20. QED
  <2> HIDE DEF a, b, c
  <2> QED BY <1>2, <1>15, <1>19

\* Two texts with the same fields are the same.
LEMMA FieldsTell ==
  ASSUME NEW s \in Text, NEW t \in Text, NEW f \in [1..4 -> Text],
         NEW a \in Nat, NEW b \in Nat, NEW c \in Nat,
         FieldsAt(s, f, a, b, c), FieldsAt(t, f, a, b, c)
  PROVE  s = t
<1> DEFINE f1 == f[1]  f2 == f[2]  f3 == f[3]  f4 == f[4]
<1>1. Len(f1) \in Nat /\ Len(f2) \in Nat /\ Len(f3) \in Nat /\ Len(f4) \in Nat
  BY DEF Text
<1>2. /\ Len(s) = c + Len(f4) /\ Len(t) = c + Len(f4)
      /\ a = Len(f1) + 1 /\ b = a + Len(f2) + 1 /\ c = b + Len(f3) + 1
      /\ s[a] = t[a] /\ s[b] = t[b] /\ s[c] = t[c]
      /\ \A i \in 1..Len(f1) : s[i] = t[i]
      /\ \A i \in 1..Len(f2) : s[a + i] = t[a + i]
      /\ \A i \in 1..Len(f3) : s[b + i] = t[b + i]
      /\ \A i \in 1..Len(f4) : s[c + i] = t[c + i]
  BY DEF FieldsAt
<1> HIDE DEF f1, f2, f3, f4
<1>3. ASSUME NEW i \in 1..Len(s) PROVE s[i] = t[i]
  <2>1. CASE i < a
    <3>1. i \in 1..Len(f1)
      BY <1>1, <1>2, <2>1
    <3>2. QED BY <1>2, <3>1
  <2>2. CASE a < i /\ i < b
    <3>1. i - a \in 1..Len(f2) /\ a + (i - a) = i
      BY <1>1, <1>2, <2>2
    <3>2. QED BY <1>2, <3>1
  <2>3. CASE b < i /\ i < c
    <3>1. i - b \in 1..Len(f3) /\ b + (i - b) = i
      BY <1>1, <1>2, <2>3
    <3>2. QED BY <1>2, <3>1
  <2>4. CASE c < i
    <3>1. i - c \in 1..Len(f4) /\ c + (i - c) = i
      BY <1>1, <1>2, <2>4
    <3>2. QED BY <1>2, <3>1
  <2>5. CASE i = a \/ i = b \/ i = c
    BY <1>2, <2>5
  <2>6. QED BY <1>1, <1>2, <2>1, <2>2, <2>3, <2>4, <2>5
<1>4. s \in Seq(Char) /\ t \in Seq(Char) /\ Len(s) = Len(t)
  BY <1>2 DEF Text
<1>5. QED BY <1>3, <1>4, SeqEqual

\* Places of blanks are places.
LEMMA SeparatorsAre ==
  ASSUME NEW s \in Text, NEW at \in Separators(s)
  PROVE  /\ Len(s) \in Nat /\ at \in [1..3 -> 1..Len(s)]
         /\ at[1] \in Nat /\ at[2] \in Nat /\ at[3] \in Nat
         /\ s[at[1]] = Blank /\ s[at[2]] = Blank /\ s[at[3]] = Blank
         /\ 1 < at[1] /\ at[1] + 1 < at[2] /\ at[2] + 1 < at[3] /\ at[3] < Len(s)
<1> DEFINE P == {n \in DOMAIN s : s[n] = Blank}
<1>1. Len(s) \in Nat /\ DOMAIN s = 1..Len(s)
  BY DEF Text
<1>2. at \in [1..3 -> P]
  BY DEF Separators
<1>3. at[1] \in P /\ at[2] \in P /\ at[3] \in P
  BY <1>2
<1>4. 1 < at[1] /\ at[1] + 1 < at[2] /\ at[2] + 1 < at[3] /\ at[3] < Len(s)
  BY DEF Separators
<1>5. P \subseteq 1..Len(s)
  BY <1>1
<1>6. at \in [1..3 -> 1..Len(s)]
  BY <1>2, <1>5
<1>7. at[1] \in Nat /\ at[2] \in Nat /\ at[3] \in Nat
  BY <1>1, <1>3
<1>8. s[at[1]] = Blank /\ s[at[2]] = Blank /\ s[at[3]] = Blank
  BY <1>3
<1>9. QED BY <1>1, <1>4, <1>6, <1>7, <1>8

\* A part of a text.
LEMMA PartIs ==
  ASSUME NEW s \in Text, NEW m \in Nat \ {0}, NEW n \in Nat, n <= Len(s), m <= n + 1
  PROVE  /\ SubSeq(s, m, n) \in Text /\ Len(SubSeq(s, m, n)) = n - m + 1
         /\ \A i \in 1..(n - m + 1) : SubSeq(s, m, n)[i] = s[m + i - 1]
<1>1. \A i \in m..n : s[i] \in Char
  BY DEF Text
<1>2. /\ SubSeq(s, m, n) \in Seq(Char)
      /\ Len(SubSeq(s, m, n)) = IF m <= n THEN n - m + 1 ELSE 0
      /\ \A i \in 1 .. n - m + 1 : SubSeq(s, m, n)[i] = s[m + i - 1]
  BY <1>1, SubSeqProperties
<1>3. QED BY <1>2 DEF Text

\* The groups at the places of blanks are fields there.
LEMMA GroupsAre ==
  ASSUME NEW s \in Text, NEW at \in Separators(s)
  PROVE  /\ Groups(s, at) \in [1..4 -> Text]
         /\ \A n \in 1..4 : Groups(s, at)[n] # <<>>
         /\ FieldsAt(s, Groups(s, at), at[1], at[2], at[3])
<1> DEFINE a == at[1]  b == at[2]  c == at[3]  l == Len(s)
           f1 == SubSeq(s, 1, a - 1)  f2 == SubSeq(s, a + 1, b - 1)
           f3 == SubSeq(s, b + 1, c - 1)  f4 == SubSeq(s, c + 1, l)
           f == Groups(s, at)
<1>1. /\ l \in Nat /\ a \in Nat /\ b \in Nat /\ c \in Nat
      /\ s[a] = Blank /\ s[b] = Blank /\ s[c] = Blank
      /\ 1 < a /\ a + 1 < b /\ b + 1 < c /\ c < l
  BY SeparatorsAre
<1>2. f = <<f1, f2, f3, f4>>
  BY DEF Groups
<1> HIDE DEF a, b, c, f
<1>3. f1 \in Text /\ Len(f1) = a - 1 /\ \A i \in 1..(a - 1) : f1[i] = s[i]
  <2>1. 1 \in Nat \ {0} /\ a - 1 \in Nat /\ a - 1 <= Len(s) /\ 1 <= (a - 1) + 1
    BY <1>1
  <2>2. /\ f1 \in Text /\ Len(f1) = (a - 1) - 1 + 1
        /\ \A i \in 1..((a - 1) - 1 + 1) : f1[i] = s[1 + i - 1]
    BY <2>1, PartIs
  <2>3. QED BY <1>1, <2>2
<1>4. f2 \in Text /\ Len(f2) = b - 1 - a /\ \A i \in 1..(b - 1 - a) : f2[i] = s[a + i]
  <2>1. a + 1 \in Nat \ {0} /\ b - 1 \in Nat /\ b - 1 <= Len(s) /\ a + 1 <= (b - 1) + 1
    BY <1>1
  <2>2. /\ f2 \in Text /\ Len(f2) = (b - 1) - (a + 1) + 1
        /\ \A i \in 1..((b - 1) - (a + 1) + 1) : f2[i] = s[(a + 1) + i - 1]
    BY <2>1, PartIs
  <2>3. QED BY <1>1, <2>2
<1>5. f3 \in Text /\ Len(f3) = c - 1 - b /\ \A i \in 1..(c - 1 - b) : f3[i] = s[b + i]
  <2>1. b + 1 \in Nat \ {0} /\ c - 1 \in Nat /\ c - 1 <= Len(s) /\ b + 1 <= (c - 1) + 1
    BY <1>1
  <2>2. /\ f3 \in Text /\ Len(f3) = (c - 1) - (b + 1) + 1
        /\ \A i \in 1..((c - 1) - (b + 1) + 1) : f3[i] = s[(b + 1) + i - 1]
    BY <2>1, PartIs
  <2>3. QED BY <1>1, <2>2
<1>6. f4 \in Text /\ Len(f4) = l - c /\ \A i \in 1..(l - c) : f4[i] = s[c + i]
  <2>1. c + 1 \in Nat \ {0} /\ l \in Nat /\ l <= Len(s) /\ c + 1 <= l + 1
    BY <1>1
  <2>2. /\ f4 \in Text /\ Len(f4) = l - (c + 1) + 1
        /\ \A i \in 1..(l - (c + 1) + 1) : f4[i] = s[(c + 1) + i - 1]
    BY <2>1, PartIs
  <2>3. QED BY <1>1, <2>2
<1> HIDE DEF f1, f2, f3, f4
<1>7. /\ f[1] = f1 /\ f[2] = f2 /\ f[3] = f3 /\ f[4] = f4 /\ DOMAIN f = 1..4
      /\ f = [n \in 1..4 |-> f[n]]
  BY <1>2
<1>8. \A n \in 1..4 : n = 1 \/ n = 2 \/ n = 3 \/ n = 4
  OBVIOUS
<1>9. f \in [1..4 -> Text]
  BY <1>3, <1>4, <1>5, <1>6, <1>7, <1>8
<1>10. f1 # <<>> /\ f2 # <<>> /\ f3 # <<>> /\ f4 # <<>>
  <2>1. Len(<<>>) = 0
    OBVIOUS
  <2>2. Len(f1) # 0 /\ Len(f2) # 0 /\ Len(f3) # 0 /\ Len(f4) # 0
    BY <1>1, <1>3, <1>4, <1>5, <1>6
  <2>3. QED BY <2>1, <2>2
<1>11. FieldsAt(s, f, a, b, c)
  <2>1. /\ l = c + Len(f4) /\ a = Len(f1) + 1 /\ b = a + Len(f2) + 1 /\ c = b + Len(f3) + 1
    BY <1>1, <1>3, <1>4, <1>5, <1>6
  <2>2. /\ \A i \in 1..Len(f1) : s[i] = f1[i] 
        /\ \A i \in 1..Len(f2) : s[a + i] = f2[i]
        /\ \A i \in 1..Len(f3) : s[b + i] = f3[i]
        /\ \A i \in 1..Len(f4) : s[c + i] = f4[i]
    BY <1>3, <1>4, <1>5, <1>6
  <2>3. QED BY <1>1, <1>7, <2>1, <2>2 DEF FieldsAt
<1>12. QED BY <1>7, <1>8, <1>9, <1>10, <1>11 DEF a, b, c, f

\* So they give the line again.
LEMMA GroupsJoin ==
  ASSUME NEW s \in Text, NEW at \in Separators(s)
  PROVE  Joined(Groups(s, at)) = s
<1> DEFINE f == Groups(s, at)
<1>1. f \in [1..4 -> Text] /\ FieldsAt(s, f, at[1], at[2], at[3])
  BY GroupsAre
<1> HIDE DEF f
<1>2. PICK a, b, c \in Nat : FieldsAt(Joined(f), f, a, b, c)
  BY <1>1, JoinedIs
<1>3. at[1] = a /\ at[2] = b /\ at[3] = c
  BY <1>1, <1>2 DEF FieldsAt
<1>4. Joined(f) \in Text
  BY <1>2 DEF FieldsAt
<1>5. Joined(f) = s
  BY <1>1, <1>2, <1>3, <1>4, FieldsTell
<1>6. QED BY <1>5 DEF f

\* If there is a way to separate the line, there is one that is tried first.
LEMMA Greediest ==
  ASSUME NEW s \in Text, Separators(s) # {}
  PROVE  \E a \in Separators(s) : \A b \in Separators(s) : Greedier(a, b)
<1> DEFINE S == Separators(s)
           A1 == {at[1] : at \in S}
<1>1. Len(s) \in Nat /\ \A at \in S : at[1] \in 0..Len(s) /\ at[2] \in 0..Len(s) /\ at[3] \in 0..Len(s)
  <2>1. Len(s) \in Nat
    BY DEF Text
  <2>2. \A at \in S : at \in [1..3 -> 1..Len(s)]
    BY SeparatorsAre
  <2>3. QED BY <2>1, <2>2
<1> HIDE DEF S
<1>2. PICK x \in A1 : \A y \in A1 : y <= x
  <2>1. A1 \subseteq 0..Len(s) /\ A1 # {}
    BY <1>1 DEF S
  <2> HIDE DEF A1
  <2>2. QED BY <1>1, <2>1, GreatestOf
<1> DEFINE A2 == {at[2] : at \in {a \in S : a[1] = x}}
<1>3. PICK y \in A2 : \A z \in A2 : z <= y
  <2>1. A2 \subseteq 0..Len(s) /\ A2 # {}
    BY <1>1, <1>2
  <2> HIDE DEF A2
  <2>2. QED BY <1>1, <2>1, GreatestOf
<1> DEFINE A3 == {at[3] : at \in {a \in S : a[1] = x /\ a[2] = y}}
<1>4. PICK z \in A3 : \A w \in A3 : w <= z
  <2>1. A3 \subseteq 0..Len(s) /\ A3 # {}
    BY <1>1, <1>3
  <2> HIDE DEF A3
  <2>2. QED BY <1>1, <2>1, GreatestOf
<1>5. PICK a \in S : a[1] = x /\ a[2] = y /\ a[3] = z
  BY <1>4
<1>6. ASSUME NEW b \in S PROVE Greedier(a, b)
  <2>1. b[1] <= x
    BY <1>2
  <2>2. b[1] = x => b[2] <= y
    BY <1>3
  <2>3. b[1] = x /\ b[2] = y => b[3] <= z
    BY <1>4
  <2>4. /\ b[1] \in Nat /\ b[2] \in Nat /\ b[3] \in Nat
        /\ a[1] \in Nat /\ a[2] \in Nat /\ a[3] \in Nat
    BY <1>1
  <2>5. QED BY <1>5, <2>1, <2>2, <2>3, <2>4 DEF Greedier
<1>7. QED BY <1>5, <1>6 DEF S

\* Fields none of which is empty are groups of the line; and if only the first
\* has blanks, they are those that are tried first.
LEMMA FieldsSeparate ==
  ASSUME NEW f \in [1..4 -> Text], \A n \in 1..4 : f[n] # <<>>
  PROVE  \E at \in Separators(Joined(f)) :
           /\ Groups(Joined(f), at) = f
           /\ (\A n \in 2..4 : ~Has(f[n], Blank)) =>
                \A b \in Separators(Joined(f)) : Greedier(b, at) => b = at
<1> DEFINE s == Joined(f)  l == Len(s)
<1>1. PICK a, b, c \in Nat : FieldsAt(s, f, a, b, c)
  BY JoinedIs
<1>2. s \in Text /\ l \in Nat /\ DOMAIN s = 1..l
  BY <1>1 DEF FieldsAt, Text
<1> DEFINE f1 == f[1]  f2 == f[2]  f3 == f[3]  f4 == f[4]
<1>3. \A n \in 1..4 : f[n] \in Text /\ Len(f[n]) \in Nat \ {0} /\ DOMAIN f[n] = 1..Len(f[n])
  BY EmptySeq, SMTT(20) DEF Text
<1>4. /\ f1 \in Text /\ Len(f1) \in Nat \ {0} /\ f2 \in Text /\ Len(f2) \in Nat \ {0}
      /\ f3 \in Text /\ Len(f3) \in Nat \ {0} /\ f4 \in Text /\ Len(f4) \in Nat \ {0}
      /\ DOMAIN f2 = 1..Len(f2) /\ DOMAIN f3 = 1..Len(f3) /\ DOMAIN f4 = 1..Len(f4)
  BY <1>3
<1>5. /\ l = c + Len(f4) /\ a = Len(f1) + 1 /\ b = a + Len(f2) + 1 /\ c = b + Len(f3) + 1
      /\ s[a] = Blank /\ s[b] = Blank /\ s[c] = Blank
      /\ \A i \in 1..Len(f2) : s[a + i] = f2[i]
      /\ \A i \in 1..Len(f3) : s[b + i] = f3[i]
      /\ \A i \in 1..Len(f4) : s[c + i] = f4[i]
  BY <1>1 DEF FieldsAt
<1> DEFINE P == {n \in DOMAIN s : s[n] = Blank}
           at == [i \in 1..3 |-> IF i = 1 THEN a ELSE IF i = 2 THEN b ELSE c]
<1> HIDE DEF s, f1, f2, f3, f4
<1>6. 1 < a /\ a + 1 < b /\ b + 1 < c /\ c < l
  BY <1>4, <1>5
<1>7. a \in P /\ b \in P /\ c \in P
  BY <1>2, <1>5, <1>6
<1>8. at \in Separators(s)
  <2>1. at \in [1..3 -> P] /\ at[1] = a /\ at[2] = b /\ at[3] = c
    BY <1>7
  <2>2. QED BY <1>6, <2>1 DEF Separators
<1>9. at[1] = a /\ at[2] = b /\ at[3] = c
  OBVIOUS
<1> HIDE DEF at
<1>10. Groups(s, at) = f
  <2> DEFINE g == Groups(s, at)
  <2>1. g \in [1..4 -> Text] /\ FieldsAt(s, g, a, b, c)
    BY <1>2, <1>8, <1>9, GroupsAre
  <2>2. ASSUME NEW n \in 1..4 PROVE g[n] = f[n]
    <3> HIDE DEF g
    <3>1. g[n] \in Seq(Char) /\ f[n] \in Seq(Char)
      BY <2>1 DEF Text
    <3>2. n = 1 \/ n = 2 \/ n = 3 \/ n = 4
      OBVIOUS
    <3>3. Len(g[1]) \in Nat /\ Len(g[2]) \in Nat /\ Len(g[3]) \in Nat /\ Len(g[4]) \in Nat
      BY <2>1 DEF Text
    <3>4. /\ Len(s) = c + Len(g[4])
          /\ a = Len(g[1]) + 1 /\ b = a + Len(g[2]) + 1 /\ c = b + Len(g[3]) + 1
          /\ \A i \in 1..Len(g[1]) : s[i] = g[1][i]
          /\ \A i \in 1..Len(g[2]) : s[a + i] = g[2][i]
          /\ \A i \in 1..Len(g[3]) : s[b + i] = g[3][i]
          /\ \A i \in 1..Len(g[4]) : s[c + i] = g[4][i]
      BY <2>1 DEF FieldsAt
    <3>5. /\ Len(g[1]) = Len(f[1]) /\ Len(g[2]) = Len(f[2])
          /\ Len(g[3]) = Len(f[3]) /\ Len(g[4]) = Len(f[4])
      <4> DEFINE g1 == Len(g[1])  g2 == Len(g[2])  g3 == Len(g[3])  g4 == Len(g[4])
                 l1 == Len(f1)  l2 == Len(f2)  l3 == Len(f3)  l4 == Len(f4)
      <4>1. /\ g1 \in Nat /\ g2 \in Nat /\ g3 \in Nat /\ g4 \in Nat
            /\ l1 \in Nat /\ l2 \in Nat /\ l3 \in Nat /\ l4 \in Nat
        BY <1>4, <3>3
      <4>2. /\ c + l4 = c + g4 /\ l1 + 1 = g1 + 1
            /\ a + l2 + 1 = a + g2 + 1 /\ b + l3 + 1 = b + g3 + 1
        BY <1>5, <3>4
      <4>3. l1 = g1 /\ l2 = g2 /\ l3 = g3 /\ l4 = g4
        <5> HIDE DEF g1, g2, g3, g4, l1, l2, l3, l4
        <5> QED BY <4>1, <4>2
      <4>4. QED BY <4>3 DEF f1, f2, f3, f4
    <3>6. \A i \in 1..Len(f[1]) : s[i] = f[1][i]
      BY <1>1 DEF FieldsAt, s
    <3>7. Len(g[n]) = Len(f[n]) /\ \A i \in 1..Len(g[n]) : g[n][i] = f[n][i]
      <4>1. \A i \in 1..Len(g[1]) : g[1][i] = f[1][i]
        BY <3>4, <3>5, <3>6
      <4>2. \A i \in 1..Len(g[2]) : g[2][i] = f[2][i]
        BY <1>5, <3>4, <3>5 DEF f2
      <4>3. \A i \in 1..Len(g[3]) : g[3][i] = f[3][i]
        BY <1>5, <3>4, <3>5 DEF f3
      <4>4. \A i \in 1..Len(g[4]) : g[4][i] = f[4][i]
        BY <1>5, <3>4, <3>5 DEF f4
      <4>5. QED BY <3>2, <3>5, <4>1, <4>2, <4>3, <4>4
    <3>8. QED BY <3>1, <3>7, SeqEqual
  <2>3. QED BY <2>1, <2>2
<1>11. ASSUME \A n \in 2..4 : ~Has(f[n], Blank), NEW o \in Separators(s), Greedier(o, at)
       PROVE  o = at
  <2>1. /\ \A i \in 1..Len(f2) : f2[i] # Blank
        /\ \A i \in 1..Len(f3) : f3[i] # Blank
        /\ \A i \in 1..Len(f4) : f4[i] # Blank
    BY <1>3, <1>11 DEF Has, f2, f3, f4
  <2>2. ASSUME NEW i \in 1..l, s[i] = Blank PROVE i <= a \/ i = b \/ i = c
    <3>1. ~(a < i /\ i < b)
      <4> SUFFICES ASSUME a < i, i < b PROVE FALSE
        OBVIOUS
      <4>1. i - a \in 1..Len(f2) /\ a + (i - a) = i
        BY <1>4, <1>5
      <4>2. s[a + (i - a)] = f2[i - a]
        BY <1>5, <4>1
      <4>3. QED BY <2>1, <2>2, <4>1, <4>2
    <3>2. ~(b < i /\ i < c)
      <4> SUFFICES ASSUME b < i, i < c PROVE FALSE
        OBVIOUS
      <4>1. i - b \in 1..Len(f3) /\ b + (i - b) = i
        BY <1>4, <1>5
      <4>2. s[b + (i - b)] = f3[i - b]
        BY <1>5, <4>1
      <4>3. QED BY <2>1, <2>2, <4>1, <4>2
    <3>3. ~(c < i)
      <4> SUFFICES ASSUME c < i PROVE FALSE
        OBVIOUS
      <4>1. i - c \in 1..Len(f4) /\ c + (i - c) = i
        BY <1>4, <1>5
      <4>2. s[c + (i - c)] = f4[i - c]
        BY <1>5, <4>1
      <4>3. QED BY <2>1, <2>2, <4>1, <4>2
    <3>4. QED BY <1>2, <3>1, <3>2, <3>3
  <2> DEFINE x == o[1]  y == o[2]  z == o[3]
  <2>3. /\ o \in [1..3 -> 1..Len(s)] /\ x \in Nat /\ y \in Nat /\ z \in Nat
        /\ s[x] = Blank /\ s[y] = Blank /\ s[z] = Blank
        /\ 1 < x /\ x + 1 < y /\ y + 1 < z /\ z < l
    BY <1>2, SeparatorsAre
  <2>4. x > a \/ (x = a /\ y > b) \/ (x = a /\ y = b /\ z >= c)
    BY <1>9, <1>11 DEF Greedier
  <2> HIDE DEF x, y, z, l
  <2>5. x \in 1..l /\ y \in 1..l /\ z \in 1..l
    BY <1>2, <2>3
  <2>6. (x <= a \/ x = b \/ x = c) /\ (y <= a \/ y = b \/ y = c) /\ (z <= a \/ z = b \/ z = c)
    BY <2>2, <2>3, <2>5
  <2>7. x = a /\ y = b /\ z = c
    BY <1>6, <2>3, <2>4, <2>6
  <2>8. \A i \in 1..3 : o[i] = at[i]
    BY <1>9, <2>7 DEF x, y, z
  <2>9. at \in [1..3 -> 1..Len(s)]
    BY <1>2, <1>8, SeparatorsAre
  <2>10. QED BY <2>3, <2>8, <2>9, SMTT(20)
<1>12. QED BY <1>8, <1>10, <1>11 DEF s

-----------------------------------------------------------------------------
(* Where the parts of a concatenation are.                                  *)

\* The parts ss of the text t end at the places that at gives.
PartsAt(t, ss, at) ==
  /\ at \in [0..Len(ss) -> Nat] /\ at[0] = 0 /\ at[Len(ss)] = Len(t)
  /\ \A n \in 1..Len(ss) :
       /\ at[n] = at[n - 1] + Len(ss[n]) /\ at[n] <= Len(t)
       /\ \A i \in 1..Len(ss[n]) : t[at[n - 1] + i] = ss[n][i]

\* Every part of a concatenation has its place.
LEMMA FlattenParts ==
  ASSUME NEW X, NEW ss \in Seq(Seq(X))
  PROVE  FlattenSeq(ss) \in Seq(X) /\ \E at : PartsAt(FlattenSeq(ss), ss, at)
<1> DEFINE m == Len(ss)
<1>1. m \in Nat /\ m \in 0..m /\ 0 \in 0..m /\ \A n \in 1..m : ss[n] \in Seq(X)
  OBVIOUS
<1>2. PICK h \in [0..m -> Seq(X)] : /\ h[0] = <<>> /\ FlattenSeq(ss) = h[m]
                                    /\ \A n \in 1..m : h[n] = h[n - 1] \o ss[n]
  BY FlattenIs
<1> DEFINE at == [n \in 0..m |-> Len(h[n])]
           Right(n) == \A k \in 1..n :
                         /\ at[k] <= at[n]
                         /\ \A i \in 1..Len(ss[k]) : h[n][at[k - 1] + i] = ss[k][i]
           S == {n \in 0..m : Right(n)}
<1>3. at \in [0..m -> Nat] /\ at[0] = 0 /\ \A n \in 0..m : at[n] = Len(h[n])
  BY <1>1, <1>2
<1>4. ASSUME NEW n \in 1..m
      PROVE  /\ n - 1 \in 0..m /\ n \in 0..m /\ Len(ss[n]) \in Nat
             /\ at[n] = at[n - 1] + Len(ss[n])
             /\ \A i \in 1..at[n - 1] : h[n][i] = h[n - 1][i]
             /\ \A i \in 1..Len(ss[n]) : h[n][at[n - 1] + i] = ss[n][i]
  <2> DEFINE t == h[n - 1]  u == ss[n]
  <2>1. n - 1 \in 0..m /\ n \in 0..m
    BY <1>1
  <2>2. t \in Seq(X) /\ u \in Seq(X) /\ h[n] = t \o u /\ at[n - 1] = Len(t) /\ at[n] = Len(h[n])
    BY <1>1, <1>2, <1>3, <2>1
  <2> HIDE DEF t, u, at
  <2>3. Len(t) \in Nat /\ Len(u) \in Nat
    BY <2>2
  <2>4. /\ Len(t \o u) = Len(t) + Len(u)
        /\ \A i \in 1..(Len(t) + Len(u)) :
             (t \o u)[i] = IF i <= Len(t) THEN t[i] ELSE u[i - Len(t)]
    BY <2>2, ConcatProperties
  <2>5. \A i \in 1..Len(t) : h[n][i] = t[i]
    BY <2>2, <2>3, <2>4
  <2>6. ASSUME NEW i \in 1..Len(u) PROVE h[n][Len(t) + i] = u[i]
    <3> DEFINE j == Len(t) + i
    <3>1. j \in 1..(Len(t) + Len(u)) /\ ~(j <= Len(t)) /\ j - Len(t) = i
      BY <2>3
    <3> HIDE DEF j
    <3>2. h[n][j] = u[i]
      BY <2>2, <2>4, <3>1
    <3>3. QED BY <3>2 DEF j
  <2>7. QED BY <2>1, <2>2, <2>3, <2>4, <2>5, <2>6 DEF t, u
<1> HIDE DEF at, m
<1>5. 0 \in S
  BY <1>1
<1>6. ASSUME NEW n \in 0..(m - 1), n \in S PROVE n + 1 \in S
  <2> DEFINE p == n + 1
  <2>1. p \in 1..m /\ p - 1 = n /\ n \in 0..m /\ p \in 0..m
    BY <1>1
  <2> HIDE DEF p
  <2>2. at[p] = at[n] + Len(ss[p]) /\ \A i \in 1..at[n] : h[p][i] = h[n][i]
    BY <1>4, <2>1
  <2>3. ASSUME NEW k \in 1..p
        PROVE  at[k] <= at[p] /\ \A i \in 1..Len(ss[k]) : h[p][at[k - 1] + i] = ss[k][i]
    <3>1. CASE k = p
      <4>1. at[p] \in Nat
        BY <1>3, <2>1
      <4>2. QED BY <1>4, <2>1, <3>1, <4>1
    <3>2. CASE k # p
      <4>1. k \in 1..n /\ k \in 1..m /\ k - 1 \in 0..m /\ k \in 0..m
        BY <1>1, <2>1, <3>2
      <4>2. at[k] <= at[n] /\ \A i \in 1..Len(ss[k]) : h[n][at[k - 1] + i] = ss[k][i]
        BY <1>6, <4>1
      <4>3. at[k] = at[k - 1] + Len(ss[k]) /\ Len(ss[k]) \in Nat /\ Len(ss[p]) \in Nat
        BY <1>4, <2>1, <4>1
      <4>4. at[k] \in Nat /\ at[k - 1] \in Nat /\ at[n] \in Nat /\ at[p] \in Nat
        BY <1>3, <2>1, <4>1
      <4>5. at[k] <= at[p]
        BY <2>2, <4>2, <4>3, <4>4
      <4>6. ASSUME NEW i \in 1..Len(ss[k]) PROVE h[p][at[k - 1] + i] = ss[k][i]
        <5>1. at[k - 1] + i \in 1..at[n]
          <6> DEFINE a == at[k - 1]  b == at[n]  c == Len(ss[k])
          <6>1. i \in 1..c /\ a + c <= b /\ a \in Nat /\ b \in Nat /\ c \in Nat
            BY <4>2, <4>3, <4>4
          <6> HIDE DEF a, b, c
          <6>2. a + i \in 1..b
            BY ONLY <6>1
          <6>3. QED BY <6>2 DEF a, b
        <5>2. QED BY <2>2, <4>2, <5>1
      <4>7. QED BY <4>5, <4>6
    <3>3. QED BY <3>1, <3>2
  <2>4. p \in S
    BY <2>1, <2>3
  <2>5. QED BY <2>4 DEF p
<1>7. m \in S
  <2> HIDE DEF S
  <2> QED BY <1>1, <1>5, <1>6, UpTo
<1>8. Right(m) /\ at[m] = Len(h[m]) /\ h[m] \in Seq(X)
  <2>1. at[m] = Len(h[m]) /\ h[m] \in Seq(X)
    BY <1>1, <1>2, <1>3
  <2>2. QED BY <1>7, <2>1
<1>9. PartsAt(h[m], ss, at)
  BY <1>3, <1>4, <1>8 DEF PartsAt, m
<1>10. QED BY <1>2, <1>8, <1>9

\* The beginnings of a text, one character longer each.
LEMMA PrefixIs ==
  ASSUME NEW X, NEW e \in Seq(X)
  PROVE  /\ SubSeq(e, 1, 0) = <<>> /\ SubSeq(e, 1, Len(e)) = e
         /\ \A j \in 0..Len(e) : SubSeq(e, 1, j) \in Seq(X) /\ Len(SubSeq(e, 1, j)) = j
         /\ \A j \in 1..Len(e) :
              e[j] \in X /\ SubSeq(e, 1, j) = Append(SubSeq(e, 1, j - 1), e[j])
<1>1. Len(e) \in Nat
  OBVIOUS
<1>2. SubSeq(e, 1, 0) = <<>>
  BY SubSeqEmpty
<1>3. SubSeq(e, 1, Len(e)) = e
  BY SubSeqFull
<1>4. ASSUME NEW j \in 0..Len(e) PROVE SubSeq(e, 1, j) \in Seq(X) /\ Len(SubSeq(e, 1, j)) = j
  <2>1. \A i \in 1..j : e[i] \in X
    BY <1>1
  <2>2. /\ SubSeq(e, 1, j) \in Seq(X)
        /\ Len(SubSeq(e, 1, j)) = IF 1 <= j THEN j - 1 + 1 ELSE 0
    BY <1>1, <2>1, SubSeqProperties
  <2>3. QED BY <1>1, <2>2
<1>5. ASSUME NEW j \in 1..Len(e)
      PROVE  e[j] \in X /\ SubSeq(e, 1, j) = Append(SubSeq(e, 1, j - 1), e[j])
  <2>1. e[j] \in X /\ 1 \in 1..Len(e) /\ j \in 1..Len(e) /\ j - 1 \in 0..Len(e)
    BY <1>1
  <2>2. SubSeq(e, 1, j) = SubSeq(e, 1, j - 1) \o <<e[j]>>
    BY <2>1, SubSeqRecursiveSecond
  <2>3. SubSeq(e, 1, j - 1) \in Seq(X)
    BY <1>4, <2>1
  <2>4. QED BY <2>1, <2>2, <2>3, AppendIsConcat
<1>6. QED BY <1>2, <1>3, <1>4, <1>5

-----------------------------------------------------------------------------
(* WindowsTextSurvives: the environment.                                    *)

\* A character at the end of the last word.
LEMMA ExtendLast ==
  ASSUME NEW X, NEW w \in Seq(Seq(X)), NEW u \in Seq(X), NEW x \in X
  PROVE  [Append(w, u) EXCEPT ![Len(Append(w, u))] = Append(@, x)] = Append(w, Append(u, x))
<1> DEFINE l == Len(w) + 1
           v == Append(w, u)
           y == Append(u, x)
           r == Append(w, y)
<1>1. Len(w) \in Nat /\ y \in Seq(X)
  BY AppendProperties
<1>2. v \in Seq(Seq(X)) /\ Len(v) = l /\ v[l] = u /\ \A i \in 1..Len(w) : v[i] = w[i]
  BY AppendProperties
<1>3. r \in Seq(Seq(X)) /\ Len(r) = l /\ r[l] = y /\ \A i \in 1..Len(w) : r[i] = w[i]
  BY <1>1, AppendProperties
<1> HIDE DEF v, y, r
<1> DEFINE e == [v EXCEPT ![l] = y]
<1>4. [v EXCEPT ![Len(v)] = Append(@, x)] = e
  BY <1>2 DEF y
<1>5. l \in 1..Len(v)
  BY <1>1, <1>2
<1>6. e \in Seq(Seq(X)) /\ Len(e) = l /\ \A j \in 1..l : e[j] = IF j = l THEN y ELSE v[j]
  BY <1>1, <1>2, <1>5, ExceptSeq
<1> HIDE DEF e
<1>7. ASSUME NEW j \in 1..l PROVE e[j] = r[j]
  <2>1. CASE j = l
    BY <1>3, <1>6, <2>1
  <2>2. CASE j # l
    <3>1. j \in 1..Len(w)
      BY <1>1, <2>2
    <3>2. r[j] = w[j] /\ v[j] = w[j]
      BY <1>2, <1>3, <3>1
    <3>3. QED BY <1>6, <2>2, <3>2
  <2>3. QED BY <2>1, <2>2
<1>8. e = r
  BY <1>3, <1>6, <1>7, SeqEqual
<1>9. QED BY <1>4, <1>8 DEF v, y, r

\* The text e stands in s after the place p.
Stretch(s, p, e) == p + Len(e) <= Len(s) /\ \A i \in 1..Len(e) : s[p + i] = e[i]

\* A stretch without a separator is added to the last word.
LEMMA SplitStretch ==
  ASSUME NEW s \in Text, NEW c, NEW h, Splitting(h, Char, s, c),
         NEW p \in Nat, NEW e \in Text, ~Has(e, c), Stretch(s, p, e),
         NEW w \in Seq(Text), h[p] = Append(w, <<>>)
  PROVE  h[p + Len(e)] = Append(w, e)
<1> DEFINE P(j) == SubSeq(e, 1, j)
           S == {j \in 0..Len(e) : h[p + j] = Append(w, P(j))}
<1>1. Len(e) \in Nat /\ e \in Seq(Char) /\ w \in Seq(Seq(Char)) /\ Len(s) \in Nat
  BY DEF Text
<1>2. 0 \in S
  <2>1. p + 0 = p
    OBVIOUS
  <2>2. P(0) = <<>>
    BY <1>1, PrefixIs
  <2> HIDE DEF P
  <2>3. h[p + 0] = Append(w, P(0))
    BY <2>1, <2>2
  <2>4. QED BY <1>1, <2>3
<1>3. ASSUME NEW j \in 0..(Len(e) - 1), j \in S PROVE j + 1 \in S
  <2> DEFINE k == j + 1  n == p + k
  <2>1. k \in 1..Len(e) /\ k \in 0..Len(e) /\ k - 1 = j /\ n \in 1..Len(s) /\ n - 1 = p + j
    BY <1>1 DEF Stretch
  <2>2. s[n] = e[k] /\ e[k] # c
    <3>1. DOMAIN e = 1..Len(e)
      BY <1>1
    <3>2. QED BY <2>1, <3>1 DEF Has, Stretch
  <2> HIDE DEF n, k
  <2>3. h[n] = SplitStep(s, c, n, Append(w, P(j)))
    BY <1>3, <2>1 DEF Splitting
  <2>4. P(j) \in Seq(Char) /\ e[k] \in Char /\ P(k) = Append(P(j), e[k])
    BY <1>1, <2>1, PrefixIs
  <2>5. SplitStep(s, c, n, Append(w, P(j)))
        = [Append(w, P(j)) EXCEPT ![Len(Append(w, P(j)))] = Append(@, e[k])]
    BY <2>2 DEF SplitStep
  <2>6. h[n] = Append(w, P(k))
    <3> DEFINE u == P(j)
    <3>1. u \in Seq(Char) /\ w \in Seq(Seq(Char)) /\ e[k] \in Char
      BY <1>1, <2>4
    <3>2. [Append(w, u) EXCEPT ![Len(Append(w, u))] = Append(@, e[k])] = Append(w, Append(u, e[k]))
      <4> DEFINE x == e[k]
      <4>1. x \in Char
        BY <3>1
      <4> HIDE DEF u, x
      <4>2. [Append(w, u) EXCEPT ![Len(Append(w, u))] = Append(@, x)] = Append(w, Append(u, x))
        BY <3>1, <4>1, ExtendLast
      <4>3. QED BY <4>2 DEF x
    <3> HIDE DEF u
    <3>3. QED BY <2>3, <2>4, <2>5, <3>2 DEF u
  <2>7. k \in S
    BY <2>1, <2>6 DEF n
  <2>8. QED BY <2>7 DEF k
<1>4. Len(e) \in S
  <2> HIDE DEF S
  <2> QED BY <1>1, <1>2, <1>3, UpTo
<1>5. QED BY <1>1, <1>4, PrefixIs

\* The block of the environment is taken apart into the entries that it was
\* made of.
LEMMA EnvSplits ==
  ASSUME NEW envs \in Seq(Text), \A n \in DOMAIN envs : ~Has(envs[n], "NUL")
  PROVE  Front(Split(SetEnv(envs), "NUL")) = Append(envs, <<>>)
<1> DEFINE N == "NUL"
           m == Len(envs)
           ss == [n \in 1..m |-> Append(envs[n], N)]
           F == FlattenSeq(ss)
           s == F \o <<N>>
           First1(n) == SubSeq(envs, 1, n)
<1>1. N \in Char /\ <<N>> \in Seq(Char) /\ Len(<<N>>) = 1 /\ <<N>>[1] = N
  <2>1. N \in Char
    BY TextAssumption
  <2> HIDE DEF N
  <2>2. QED BY <2>1
<1>2. m \in Nat /\ DOMAIN envs = 1..m /\ \A n \in 1..m : envs[n] \in Seq(Char) /\ Len(envs[n]) \in Nat
  BY DEF Text
<1>3. ASSUME NEW n \in 1..m
      PROVE  /\ Append(envs[n], N) \in Seq(Char) /\ Len(Append(envs[n], N)) = Len(envs[n]) + 1
             /\ Append(envs[n], N)[Len(envs[n]) + 1] = N
             /\ \A i \in 1..Len(envs[n]) : Append(envs[n], N)[i] = envs[n][i]
  BY <1>1, <1>2, AppendProperties
<1>4. ss \in Seq(Seq(Char)) /\ Len(ss) = m /\ \A n \in 1..m : ss[n] = Append(envs[n], N)
  BY <1>2, <1>3
<1>5. SetEnv(envs) = s
  BY <1>2 DEF SetEnv
<1> HIDE DEF ss, N
<1>6. F \in Seq(Char) /\ \E at : PartsAt(F, ss, at)
  BY <1>4, FlattenParts
<1> HIDE DEF F
<1>7. PICK at : PartsAt(F, ss, at)
  BY <1>6
<1>8. /\ s \in Seq(Char) /\ Len(s) = Len(F) + 1 /\ Len(F) \in Nat
      /\ s[Len(F) + 1] = N /\ \A i \in 1..Len(F) : s[i] = F[i]
  <2>1. /\ s \in Seq(Char) /\ Len(s) = Len(F) + 1
        /\ \A i \in 1..(Len(F) + 1) : s[i] = IF i <= Len(F) THEN F[i] ELSE <<N>>[i - Len(F)]
    BY <1>1, <1>6, ConcatProperties
  <2>2. Len(F) \in Nat
    BY <1>6
  <2> HIDE DEF s
  <2>3. s[Len(F) + 1] = <<N>>[(Len(F) + 1) - Len(F)]
    BY <2>1, <2>2
  <2>4. (Len(F) + 1) - Len(F) = 1
    BY <2>2
  <2>5. QED BY <1>1, <2>1, <2>2, <2>3, <2>4
<1> HIDE DEF s
<1>9. PICK h : Splitting(h, Char, s, N)
  BY <1>8, SplitIs DEF Text
<1>10. h[0] = <<<<>>>> /\ \A n \in 1..Len(s) : h[n] = SplitStep(s, N, n, h[n - 1])
  BY <1>9 DEF Splitting
<1>11. /\ at \in [0..m -> Nat] /\ at[0] = 0 /\ at[m] = Len(F)
       /\ \A n \in 1..m : /\ at[n] = at[n - 1] + (Len(envs[n]) + 1) /\ at[n] <= Len(F)
                          /\ \A i \in 1..(Len(envs[n]) + 1) :
                               F[at[n - 1] + i] = Append(envs[n], N)[i]
  <2>1. at \in [0..m -> Nat] /\ at[0] = 0 /\ at[m] = Len(F)
    BY <1>4, <1>7 DEF PartsAt
  <2>2. ASSUME NEW n \in 1..m
        PROVE  /\ at[n] = at[n - 1] + Len(ss[n]) /\ at[n] <= Len(F)
               /\ \A i \in 1..Len(ss[n]) : F[at[n - 1] + i] = ss[n][i]
    BY <1>4, <1>7 DEF PartsAt
  <2>3. \A n \in 1..m : ss[n] = Append(envs[n], N) /\ Len(ss[n]) = Len(envs[n]) + 1
    BY <1>3, <1>4
  <2>4. ASSUME NEW n \in 1..m
        PROVE  /\ at[n] = at[n - 1] + (Len(envs[n]) + 1) /\ at[n] <= Len(F)
               /\ \A i \in 1..(Len(envs[n]) + 1) : F[at[n - 1] + i] = Append(envs[n], N)[i]
    <3>1. ss[n] = Append(envs[n], N) /\ Len(ss[n]) = Len(envs[n]) + 1
      BY <2>3
    <3>2. /\ at[n] = at[n - 1] + Len(ss[n]) /\ at[n] <= Len(F)
          /\ \A i \in 1..Len(ss[n]) : F[at[n - 1] + i] = ss[n][i]
      BY <2>2
    <3>3. QED BY ONLY <3>1, <3>2
  <2> HIDE DEF m
  <2>5. QED BY <2>1, <2>4
<1>12. \A n \in 0..m : First1(n) \in Seq(Text)
  BY PrefixIs
<1> DEFINE S == {n \in 0..m : h[at[n]] = Append(First1(n), <<>>)}
<1>13. 0 \in S
  <2>1. Append(<<>>, <<>>) = <<<<>>>>
    OBVIOUS
  <2>2. First1(0) = <<>>
    BY PrefixIs
  <2>3. QED BY <1>2, <1>10, <1>11, <2>1, <2>2
<1>14. ASSUME NEW n \in 0..(m - 1), n \in S PROVE n + 1 \in S
  <2> DEFINE k == n + 1  e == envs[k]  p == at[n]  l == p + Len(e)
  <2>1. k \in 1..m /\ k \in 0..m /\ k - 1 = n /\ n \in 0..m
    BY <1>2
  <2> HIDE DEF k
  <2>2. e \in Seq(Char) /\ Len(e) \in Nat /\ p \in Nat /\ at[k] = p + (Len(e) + 1) /\ at[k] <= Len(F)
    BY <1>2, <1>11, <2>1
  <2>3. ~Has(e, N)
    BY <1>2, <2>1 DEF N
  <2>4. /\ \A i \in 1..Len(e) : Append(e, N)[i] = e[i]
        /\ Append(e, N)[Len(e) + 1] = N
        /\ \A i \in 1..(Len(e) + 1) : F[p + i] = Append(e, N)[i]
    BY <1>3, <1>11, <2>1
  <2> HIDE DEF e, p
  <2>5. \A i \in 1..(Len(e) + 1) : p + i \in 1..Len(F)
    BY <1>8, <2>2
  <2>6. \A i \in 1..Len(e) : s[p + i] = e[i]
    BY <1>8, <2>2, <2>4, <2>5
  <2>7. s[p + (Len(e) + 1)] = N
    <3>1. Len(e) + 1 \in 1..(Len(e) + 1)
      BY <2>2
    <3>2. F[p + (Len(e) + 1)] = N /\ p + (Len(e) + 1) \in 1..Len(F)
      BY ONLY <2>4, <2>5, <3>1
    <3>3. QED BY <1>8, <3>2
  <2>8. First1(n) \in Seq(Text) /\ h[p] = Append(First1(n), <<>>)
    BY <1>12, <1>14, <2>1 DEF p
  <2>9. h[l] = Append(First1(n), e)
    <3>1. p + Len(e) <= Len(s)
      BY <1>8, <2>2
    <3>2. s \in Text /\ e \in Text
      BY <1>8, <2>2 DEF Text
    <3>3. Stretch(s, p, e)
      BY <2>6, <3>1 DEF Stretch
    <3> HIDE DEF First1
    <3>4. QED BY <1>9, <2>2, <2>3, <2>8, <3>2, <3>3, SplitStretch
  <2>10. l + 1 \in 1..Len(s) /\ (l + 1) - 1 = l /\ l + 1 = at[k] /\ s[l + 1] = N
    BY <1>8, <2>2, <2>7
  <2> HIDE DEF l
  <2>11. h[l + 1] = Append(Append(First1(n), e), <<>>)
    <3>1. h[l + 1] = SplitStep(s, N, l + 1, h[l])
      BY <1>10, <2>10
    <3>2. QED BY <2>9, <2>10, <3>1 DEF SplitStep
  <2>12. First1(k) = Append(First1(n), e)
    BY <2>1, PrefixIs DEF e
  <2>13. k \in S
    BY <2>1, <2>10, <2>11, <2>12
  <2>14. QED BY <2>13 DEF k
<1>15. m \in S
  <2> HIDE DEF S
  <2> QED BY <1>2, <1>13, <1>14, UpTo
<1>16. h[Len(F)] = Append(envs, <<>>)
  <2>1. First1(m) = envs
    BY PrefixIs
  <2>2. QED BY <1>11, <1>15, <2>1
<1>17. h[Len(s)] = Append(Append(envs, <<>>), <<>>)
  <2>1. Len(F) + 1 \in 1..Len(s) /\ (Len(F) + 1) - 1 = Len(F)
    BY <1>8
  <2>2. h[Len(F) + 1] = SplitStep(s, N, Len(F) + 1, h[Len(F)])
    BY <1>10, <2>1
  <2>3. QED BY <1>8, <1>16, <2>2 DEF SplitStep
<1>18. Front(Append(Append(envs, <<>>), <<>>)) = Append(envs, <<>>)
  <2> DEFINE v == Append(envs, <<>>)
  <2>1. <<>> \in Text
    BY DEF Text
  <2>2. v \in Seq(Text)
    BY <2>1, AppendProperties
  <2> HIDE DEF v
  <2>3. /\ Append(v, <<>>) \in Seq(Text) /\ Len(Append(v, <<>>)) = Len(v) + 1
        /\ \A i \in 1..Len(v) : Append(v, <<>>)[i] = v[i]
    BY <2>1, <2>2, AppendProperties
  <2> DEFINE t == Append(v, <<>>)  u == SubSeq(t, 1, Len(v))
  <2> HIDE DEF t
  <2>4. t \in Seq(Text) /\ Len(t) = Len(v) + 1 /\ Len(v) \in Nat /\ \A i \in 1..Len(v) : t[i] = v[i]
    BY <2>2, <2>3 DEF t
  <2>5. \A i \in 1..Len(v) : t[i] \in Text
    BY <2>4
  <2>6. /\ u \in Seq(Text) /\ Len(u) = IF 1 <= Len(v) THEN Len(v) - 1 + 1 ELSE 0
        /\ \A i \in 1..Len(v) - 1 + 1 : u[i] = t[1 + i - 1]
    BY <2>4, <2>5, SubSeqProperties
  <2>7. Len(u) = Len(v) /\ \A i \in 1..Len(v) : u[i] = v[i]
    BY <2>4, <2>6
  <2>8. u = v
    BY <2>2, <2>6, <2>7, SeqEqual
  <2>9. Len(t) - 1 = Len(v)
    BY <2>4
  <2>10. QED BY <2>8, <2>9 DEF Front, t, v
<1>19. QED BY <1>5, <1>9, <1>17, <1>18 DEF N, Splitting

-----------------------------------------------------------------------------
(* BuildLineSplit: the line as it is matched.                               *)

\* A text is read up to its first NUL, and without one as it is.
LEMMA CStringIs ==
  ASSUME NEW s \in Text
  PROVE  CString(s) \in Text /\ (~Has(s, "NUL") => CString(s) = s)
<1> DEFINE m == Len(s)
<1>1. s \in Seq(Char) /\ m \in Nat
  BY DEF Text
<1>2. PICK h : Splitting(h, Char, s, "NUL")
  BY <1>1, SplitIs
<1>3. CString(s) \in Text
  <2> DEFINE w == Split(s, "NUL")
  <2>1. w \in Seq(Seq(Char)) \ {<<>>}
    BY <1>1, <1>2 DEF Splitting
  <2> HIDE DEF w
  <2>2. Len(w) \in Nat /\ Len(w) # 0
    BY <2>1, EmptySeq
  <2>3. w[1] \in Seq(Char)
    BY <2>1, <2>2
  <2>4. QED BY <2>3 DEF CString, Text, w
<1>4. ASSUME ~Has(s, "NUL") PROVE CString(s) = s
  <2>1. PICK p \in Nat : p = 0
    OBVIOUS
  <2>2. PICK w \in Seq(Text) : w = <<>>
    <3>1. <<>> \in Seq(Text)
      OBVIOUS
    <3>2. QED BY <3>1
  <2>3. PICK c : c = "NUL"
    OBVIOUS
  <2>4. Append(w, <<>>) = <<<<>>>> /\ Append(w, s) = <<s>>
    BY <2>2
  <2>5. Splitting(h, Char, s, c) /\ h[p] = Append(w, <<>>)
    BY <1>2, <2>1, <2>3, <2>4 DEF Splitting
  <2>6. Stretch(s, p, s)
    BY <1>1, <2>1 DEF Stretch
  <2>7. ~Has(s, c)
    BY <1>4, <2>3
  <2>8. h[p + Len(s)] = Append(w, s)
    BY ONLY <2>5, <2>6, <2>7, s \in Text, p \in Nat, w \in Seq(Text), SplitStretch
  <2>9. p + Len(s) = m
    BY <1>1, <2>1
  <2>10. h[m] = <<s>>
    BY ONLY <2>4, <2>8, <2>9
  <2>11. QED BY <1>2, <2>10 DEF Splitting, CString
<1>5. QED BY <1>3, <1>4

\* There is no NUL in a line if there is none in its fields.
LEMMA JoinedHasNoNul ==
  ASSUME NEW f \in [1..4 -> Text], \A n \in 1..4 : ~Has(f[n], "NUL")
  PROVE  ~Has(Joined(f), "NUL")
<1> DEFINE s == Joined(f)
<1>1. PICK a, b, c \in Nat : FieldsAt(s, f, a, b, c)
  BY JoinedIs
<1> HIDE DEF s
<1>2. s \in Text /\ Len(s) \in Nat /\ DOMAIN s = 1..Len(s)
  BY <1>1 DEF FieldsAt, Text
<1>3. \A n \in 1..4 : Len(f[n]) \in Nat /\ \A i \in 1..Len(f[n]) : f[n][i] # "NUL"
  BY DEF Has, Text
<1>4. Blank # "NUL"
  BY DEF Blank
<1>5. ASSUME NEW i \in 1..Len(s) PROVE s[i] # "NUL"
  <2> DEFINE k == Len(f[1])  l == Len(f[2])  m == Len(f[3])  n == Len(f[4])
  <2>1. k \in Nat /\ l \in Nat /\ m \in Nat /\ n \in Nat
    BY <1>3
  <2>2. /\ Len(s) = c + n /\ a = k + 1 /\ b = a + l + 1 /\ c = b + m + 1
        /\ s[a] = Blank /\ s[b] = Blank /\ s[c] = Blank
        /\ \A j \in 1..k : s[j] = f[1][j]
        /\ \A j \in 1..l : s[a + j] = f[2][j]
        /\ \A j \in 1..m : s[b + j] = f[3][j]
        /\ \A j \in 1..n : s[c + j] = f[4][j]
    BY <1>1 DEF FieldsAt
  <2>3. /\ \A j \in 1..k : f[1][j] # "NUL"
        /\ \A j \in 1..l : f[2][j] # "NUL"
        /\ \A j \in 1..m : f[3][j] # "NUL"
        /\ \A j \in 1..n : f[4][j] # "NUL"
    BY <1>3
  <2> HIDE DEF k, l, m, n
  <2>4. /\ \A j \in 1..k : s[j] # "NUL"
        /\ \A j \in 1..l : s[a + j] # "NUL"
        /\ \A j \in 1..m : s[b + j] # "NUL"
        /\ \A j \in 1..n : s[c + j] # "NUL"
    <3> DEFINE f1 == f[1]  f2 == f[2]  f3 == f[3]  f4 == f[4]
    <3>1. \A j \in 1..k : s[j] = f1[j] /\ f1[j] # "NUL"
      BY <2>2, <2>3
    <3>2. \A j \in 1..l : s[a + j] = f2[j] /\ f2[j] # "NUL"
      BY <2>2, <2>3
    <3>3. \A j \in 1..m : s[b + j] = f3[j] /\ f3[j] # "NUL"
      BY <2>2, <2>3
    <3>4. \A j \in 1..n : s[c + j] = f4[j] /\ f4[j] # "NUL"
      BY <2>2, <2>3
    <3> HIDE DEF f1, f2, f3, f4
    <3>5. QED BY ONLY <3>1, <3>2, <3>3, <3>4
  <2>5. CASE i \in 1..k
    BY <2>4, <2>5
  <2>6. CASE i = a \/ i = b \/ i = c
    BY <1>4, <2>2, <2>6
  <2>7. CASE a < i /\ i < b
    <3>1. i - a \in 1..l /\ a + (i - a) = i
      BY <2>1, <2>2, <2>7
    <3>2. QED BY <2>4, <3>1
  <2>8. CASE b < i /\ i < c
    <3>1. i - b \in 1..m /\ b + (i - b) = i
      BY <2>1, <2>2, <2>8
    <3>2. QED BY <2>4, <3>1
  <2>9. CASE c < i
    <3>1. i - c \in 1..n /\ c + (i - c) = i
      BY <2>1, <2>2, <2>9
    <3>2. QED BY <2>4, <3>1
  <2>10. i \in 1..k \/ i = a \/ i = b \/ i = c \/ (a < i /\ i < b) \/ (b < i /\ i < c) \/ c < i
    BY <2>1, <2>2
  <2>11. QED BY <2>5, <2>6, <2>7, <2>8, <2>9, <2>10
<1>6. QED BY <1>2, <1>5 DEF Has, s

\* A BUILD line without a NUL whose last three fields have no blank is read as it
\* was written, and any other as some four fields that give the line up to its
\* first NUL.
THEOREM BuildLines == Spec => []BuildLineSplit
<1>1. TextInv => BuildLineSplit
  <2> SUFFICES ASSUME TextInv, Done("match") PROVE BuildLineSplit!2
    BY DEF BuildLineSplit
  <2>1. PICK f \in [1..4 -> Text] : task.fields = f
    <3>1. PICK f \in Lines : task = [do |-> "match", fields |-> f]
      BY DEF TextInv, Asked, Done
    <3>2. QED BY <3>1, TextAssumption
  <2> DEFINE line == Joined(f)  s == CString(line)
             Clean == \A n \in 1..4 : ~Has(f[n], "NUL")
  <2>2. s \in Text /\ (Clean => s = line)
    <3>1. PICK a, b, c \in Nat : FieldsAt(line, f, a, b, c)
      BY JoinedIs
    <3>2. line \in Text
      BY <3>1 DEF FieldsAt
    <3>3. Clean => ~Has(line, "NUL")
      BY JoinedHasNoNul
    <3> HIDE DEF line
    <3>4. QED BY <3>2, <3>3, CStringIs
  <2>3. result = MatchBuild(s)
    BY <2>1 DEF TextInv, Computed
  <2> HIDE DEF s
  <2>4. CASE Separators(s) = {}
    <3>1. result = Failed
      BY <2>3, <2>4 DEF MatchBuild
    <3>2. ~(~Contains(f, <<>>) /\ Clean)
      <4> SUFFICES ASSUME ~Contains(f, <<>>), Clean PROVE FALSE
        OBVIOUS
      <4>1. Len(f) = 4
        OBVIOUS
      <4>2. \A n \in 1..4 : f[n] # <<>>
        BY <4>1 DEF Contains
      <4>3. Separators(line) = {}
        BY <2>2, <2>4
      <4>4. QED BY <4>2, <4>3, FieldsSeparate
    <3>3. QED BY <2>1, <3>1, <3>2
  <2>5. CASE Separators(s) # {}
    <3> DEFINE at == CHOOSE a \in Separators(s) : \A b \in Separators(s) : Greedier(a, b)
    <3>1. at \in Separators(s) /\ \A b \in Separators(s) : Greedier(at, b)
      BY <2>2, <2>5, Greediest
    <3>2. result = Groups(s, at)
      BY <2>3, <2>5 DEF MatchBuild
    <3> HIDE DEF at
    <3>3. Joined(result) = s
      BY <2>2, <3>1, <3>2, GroupsJoin
    <3>4. ~Contains(result, <<>>)
      <4>1. result \in [1..4 -> Text] /\ \A n \in 1..4 : result[n] # <<>>
        BY <2>2, <3>1, <3>2, GroupsAre
      <4>2. Len(result) = 4
        BY <4>1
      <4>3. QED BY <4>1, <4>2 DEF Contains
    <3>5. ASSUME ~Contains(f, <<>>), Clean, \A n \in 2..4 : ~Has(f[n], Blank) PROVE result = f
      <4>1. Len(f) = 4
        OBVIOUS
      <4>2. \A n \in 1..4 : f[n] # <<>>
        BY <3>5, <4>1 DEF Contains
      <4>3. PICK o \in Separators(s) :
              Groups(s, o) = f /\ \A b \in Separators(s) : Greedier(b, o) => b = o
        <5>1. PICK o \in Separators(line) :
                Groups(line, o) = f /\ \A b \in Separators(line) : Greedier(b, o) => b = o
          BY <3>5, <4>2, FieldsSeparate
        <5>2. s = line
          BY <2>2, <3>5
        <5> HIDE DEF s, line
        <5>3. QED BY <5>1, <5>2
      <4>4. at = o
        BY <3>1, <4>3
      <4>5. QED BY <3>2, <4>3, <4>4
    <3>6. QED BY <2>1, <3>3, <3>4, <3>5 DEF s
  <2>6. QED BY <2>4, <2>5
<1>2. QED BY <1>1, TextInvAlways, PTL

-----------------------------------------------------------------------------
(* WindowsTextSurvives: the arguments.                                      *)

Slashes(n) == [k \in 1..n |-> Backslash]

\* How far a program is with taking its command line apart.
Reader == [words : Seq(Text), word : Text, inside : BOOLEAN, quoted : BOOLEAN, slashes : Nat]

ReaderStart == [words |-> <<>>, word |-> <<>>, inside |-> FALSE, quoted |-> FALSE, slashes |-> 0]

ReadArgv(t, c) ==
  CASE c = Backslash -> [t EXCEPT !.slashes = @ + 1, !.inside = TRUE]
    [] c = Quote -> [t EXCEPT !.slashes = 0, !.inside = TRUE,
         !.quoted = IF t.slashes % 2 = 0 THEN ~@ ELSE @,
         !.word = @ \o Slashes(t.slashes \div 2)
                  \o IF t.slashes % 2 = 0 THEN <<>> ELSE <<Quote>>]
    [] c \in {Blank, Tab} /\ ~t.quoted ->
         IF t.inside
         THEN [ReaderStart EXCEPT !.words = Append(t.words, t.word \o Slashes(t.slashes))] ELSE t
    [] OTHER -> [t EXCEPT !.inside = TRUE, !.slashes = 0,
                          !.word = Append(@ \o Slashes(t.slashes), c)]

\* What comes before a blank or a quote may end in backslashes.
LEMMA SlashesType ==
  /\ \A n \in Nat : Slashes(n) \in Text
  /\ Slashes(0) = <<>>
  /\ \A n \in Nat : Slashes(n + 1) = Append(Slashes(n), Backslash)
<1>1. Backslash \in Char
  BY TextAssumption DEF Backslash
<1>2. \A n \in Nat : Slashes(n) \in Text /\ Len(Slashes(n)) = n
  BY <1>1 DEF Slashes, Text
<1>3. Slashes(0) = <<>>
  BY <1>2, EmptySeq DEF Text
<1>4. ASSUME NEW n \in Nat PROVE Slashes(n + 1) = Append(Slashes(n), Backslash)
  <2> DEFINE u == Slashes(n)  v == Slashes(n + 1)  w == Append(u, Backslash)
  <2>1. u \in Seq(Char) /\ Len(u) = n /\ v \in Seq(Char) /\ Len(v) = n + 1
    BY <1>2 DEF Text
  <2>2. \A i \in 1..(n + 1) : v[i] = Backslash
    BY DEF Slashes
  <2>3. \A i \in 1..n : u[i] = Backslash
    BY DEF Slashes
  <2> HIDE DEF u, v
  <2>4. /\ w \in Seq(Char) /\ Len(w) = n + 1 /\ w[n + 1] = Backslash
        /\ \A i \in 1..n : w[i] = u[i]
    BY <1>1, <2>1, AppendProperties
  <2> HIDE DEF w
  <2>5. ASSUME NEW i \in 1..(n + 1) PROVE v[i] = w[i]
    <3>1. CASE i = n + 1
      BY <2>2, <2>4, <3>1
    <3>2. CASE i # n + 1
      <4>1. i \in 1..n
        BY <3>2
      <4>2. QED BY <2>2, <2>3, <2>4, <4>1
    <3>3. QED BY <3>1, <3>2
  <2>6. v = w
    BY <2>1, <2>4, <2>5, SeqEqual
  <2>7. QED BY <2>6 DEF u, v, w
<1>5. QED BY <1>2, <1>3, <1>4

\* A reader stays one.
LEMMA ReadArgvType ==
  ASSUME NEW t \in Reader, NEW c \in Char
  PROVE  ReadArgv(t, c) \in Reader
<1>1. /\ t.words \in Seq(Text) /\ t.word \in Seq(Char) /\ t.slashes \in Nat
      /\ t.inside \in BOOLEAN /\ t.quoted \in BOOLEAN
  BY DEF Reader, Text
<1>2. \A n \in Nat : t.word \o Slashes(n) \in Seq(Char)
  BY <1>1, SlashesType, ConcatProperties DEF Text
<1>3. CASE c = Backslash
  <2>1. c # Quote /\ c \notin {Blank, Tab}
    BY <1>3 DEF Blank, Tab, Backslash, Quote
  <2>2. ReadArgv(t, c) = [t EXCEPT !.slashes = @ + 1, !.inside = TRUE]
    BY <1>3, <2>1 DEF ReadArgv
  <2>3. ReadArgv(t, c) = [words |-> t.words, word |-> t.word, inside |-> TRUE, quoted |-> t.quoted,
                          slashes |-> t.slashes + 1]
    BY <2>2 DEF Reader
  <2>4. t.slashes + 1 \in Nat /\ t.word \in Text
    BY <1>1 DEF Text
  <2>5. QED BY <1>1, <2>3, <2>4 DEF Reader
<1>4. CASE c = Quote
  <2> DEFINE n == t.slashes \div 2
             e == IF t.slashes % 2 = 0 THEN <<>> ELSE <<Quote>>
             q == IF t.slashes % 2 = 0 THEN ~t.quoted ELSE t.quoted
  <2>1. n \in Nat
    BY <1>1
  <2>2. e \in Seq(Char)
    BY <1>4
  <2> HIDE DEF n, e
  <2>3. (t.word \o Slashes(n)) \o e \in Text
    BY <1>2, <2>1, <2>2, ConcatProperties DEF Text
  <2>4. q \in BOOLEAN
    BY <1>1
  <2>5. c # Backslash /\ c \notin {Blank, Tab}
    BY <1>4 DEF Quote, Backslash, Blank, Tab
  <2>6. ReadArgv(t, c) = [t EXCEPT !.slashes = 0, !.inside = TRUE, !.quoted = q,
                                   !.word = (t.word \o Slashes(n)) \o e]
    <3>1. ReadArgv(t, c) = [t EXCEPT !.slashes = 0, !.inside = TRUE,
            !.quoted = IF t.slashes % 2 = 0 THEN ~@ ELSE @,
            !.word = @ \o Slashes(t.slashes \div 2)
                     \o IF t.slashes % 2 = 0 THEN <<>> ELSE <<Quote>>]
      BY <1>4, <2>5 DEF ReadArgv
    <3>2. [t EXCEPT !.slashes = 0, !.inside = TRUE,
            !.quoted = IF t.slashes % 2 = 0 THEN ~@ ELSE @,
            !.word = @ \o Slashes(t.slashes \div 2)
                     \o IF t.slashes % 2 = 0 THEN <<>> ELSE <<Quote>>]
          = [t EXCEPT !.slashes = 0, !.inside = TRUE, !.quoted = q, !.word = (t.word \o Slashes(n)) \o e]
      BY DEF n, e, Reader
    <3>3. QED BY <3>1, <3>2
  <2> HIDE DEF q
  <2> DEFINE y == (t.word \o Slashes(n)) \o e
  <2>7. y \in Text
    BY <2>3
  <2> HIDE DEF y
  <2>8. [t EXCEPT !.slashes = 0, !.inside = TRUE, !.quoted = q, !.word = y] \in Reader
    BY <2>4, <2>7 DEF Reader
  <2>9. QED BY <2>6, <2>8 DEF y
<1>5. CASE c \in {Blank, Tab} /\ ~t.quoted
  <2>1. c # Backslash /\ c # Quote
    BY <1>5 DEF Blank, Tab, Backslash, Quote
  <2>2. Append(t.words, t.word \o Slashes(t.slashes)) \in Seq(Text)
    BY <1>1, <1>2, AppendProperties DEF Text
  <2>3. ReadArgv(t, c) = IF t.inside
          THEN [ReaderStart EXCEPT !.words = Append(t.words, t.word \o Slashes(t.slashes))] ELSE t
    BY <1>5, <2>1 DEF ReadArgv
  <2>4. ReaderStart \in Reader
    BY DEF ReaderStart, Reader, Text
  <2>5. QED BY <2>2, <2>3, <2>4 DEF Reader
<1>6. CASE c # Backslash /\ c # Quote /\ ~(c \in {Blank, Tab} /\ ~t.quoted)
  <2>1. Append(t.word \o Slashes(t.slashes), c) \in Text
    BY <1>1, <1>2, AppendProperties DEF Text
  <2>2. ReadArgv(t, c) = [t EXCEPT !.inside = TRUE, !.slashes = 0,
                                   !.word = Append(@ \o Slashes(t.slashes), c)]
    BY <1>6 DEF ReadArgv
  <2> DEFINE y == Append(t.word \o Slashes(t.slashes), c)
  <2>3. y \in Text
    BY <2>1
  <2>4. ReadArgv(t, c) = [t EXCEPT !.inside = TRUE, !.slashes = 0, !.word = y]
    BY <2>2
  <2> HIDE DEF y
  <2>5. ReadArgv(t, c) = [words |-> t.words, word |-> y, inside |-> TRUE, quoted |-> t.quoted,
                          slashes |-> 0]
    BY <2>4 DEF Reader
  <2>6. QED BY <1>1, <2>3, <2>5 DEF Reader
<1>7. QED BY <1>3, <1>4, <1>5, <1>6

\* h is the reader after each character of s.
ReadingArgv(h, s) ==
  /\ h \in [0..Len(s) -> Reader] /\ h[0] = ReaderStart
  /\ \A n \in 1..Len(s) : h[n] = ReadArgv(h[n - 1], s[n])

\* A program reads one character after the other, up to a NUL.
LEMMA ArgvIs ==
  ASSUME NEW line, CString(line) \in Text
  PROVE  \E h : /\ ReadingArgv(h, CString(line))
                /\ CommandLineToArgv(line) =
                     LET end == h[Len(CString(line))]
                     IN IF end.inside THEN Append(end.words, end.word \o Slashes(end.slashes))
                        ELSE end.words
<1> DEFINE s == CString(line)
           m == Len(s)
           step == [n \in 1..m |-> [t \in Reader |-> ReadArgv(t, s[n])]]
           Is(g) == g = [n \in 0..m |-> IF n = 0 THEN ReaderStart ELSE ReadArgv(g[n - 1], s[n])]
           End(end) == IF end.inside THEN Append(end.words, end.word \o Slashes(end.slashes))
                       ELSE end.words
<1>1. m \in Nat /\ ReaderStart \in Reader /\ \A n \in 1..m : s[n] \in Char
  <2> HIDE DEF s
  <2>1. s \in Text
    BY DEF s
  <2>2. QED BY <2>1 DEF ReaderStart, Reader, Text
<1>2. /\ step \in [1..m -> [Reader -> Reader]]
      /\ \A n \in 1..m : \A t \in Reader : step[n][t] = ReadArgv(t, s[n])
  <2> HIDE DEF m
  <2> QED BY <1>1, ReadArgvType
<1>3. PICK h : Loop(h, m, Reader, ReaderStart, step)
  <2> HIDE DEF m, step
  <2> QED BY <1>1, <1>2, Recursion
<1>4. /\ h \in [0..m -> Reader] /\ h[0] = ReaderStart
      /\ \A n \in 1..m : h[n] = ReadArgv(h[n - 1], s[n])
  <2> HIDE DEF step, m
  <2>1. \A n \in 1..m : n - 1 \in 0..m
    BY <1>1
  <2>2. QED BY <1>1, <1>2, <1>3, <2>1 DEF Loop
<1>5. Is(h)
  <2> HIDE DEF step, m
  <2>1. \A n \in 0..m : h[n] = IF n = 0 THEN ReaderStart ELSE ReadArgv(h[n - 1], s[n])
    BY <1>1, <1>4
  <2>2. QED BY <1>4, <2>1
<1>6. CommandLineToArgv(line) = End((CHOOSE g : Is(g))[m])
  BY DEF CommandLineToArgv, ReadArgv, ReaderStart, Slashes
<1>7. PICK g : Is(g) /\ CommandLineToArgv(line) = End(g[m])
  <2> HIDE DEF Is, End
  <2> QED BY <1>5, <1>6
<1>8. g[0] = ReaderStart /\ \A n \in 1..m : g[n] = ReadArgv(g[n - 1], s[n])
  <2> HIDE DEF step, m
  <2> QED BY <1>1, <1>7
<1>9. LoopsIn(g, m, Reader, ReaderStart, step)
  <2> HIDE DEF step, m
  <2> QED BY <1>2, <1>8 DEF LoopsIn
<1>10. Same(g, h, m)
  <2> HIDE DEF step, m
  <2> QED BY <1>1, <1>2, <1>3, <1>9, LoopUnique
<1>11. CommandLineToArgv(line) = End(h[m])
  <2> HIDE DEF Is, End, m
  <2> QED BY <1>1, <1>7, <1>10 DEF Same
<1>12. QED BY <1>4, <1>11 DEF ReadingArgv

Fresh(w) == [ReaderStart EXCEPT !.words = w]

\* What a character does to a reader, where the arguments of set_args() have it.
LEMMA ReadArgvDoes ==
  ASSUME NEW t \in Reader, NEW c
  PROVE  /\ c = Backslash => ReadArgv(t, c) =
              [words |-> t.words, word |-> t.word, inside |-> TRUE, quoted |-> t.quoted,
               slashes |-> t.slashes + 1]
         /\ c = Quote /\ t.slashes = 0 => ReadArgv(t, c) =
              [words |-> t.words, word |-> t.word, inside |-> TRUE, quoted |-> ~t.quoted,
               slashes |-> 0]
         /\ c = Blank /\ ~t.quoted /\ t.inside => ReadArgv(t, c) =
              Fresh(Append(t.words, t.word \o Slashes(t.slashes)))
         /\ c # Backslash /\ c # Quote /\ ~(c \in {Blank, Tab} /\ ~t.quoted) => ReadArgv(t, c) =
              [words |-> t.words, word |-> Append(t.word \o Slashes(t.slashes), c),
               inside |-> TRUE, quoted |-> t.quoted, slashes |-> 0]
<1>1. ASSUME c = Backslash
      PROVE  ReadArgv(t, c) =
              [words |-> t.words, word |-> t.word, inside |-> TRUE, quoted |-> t.quoted,
               slashes |-> t.slashes + 1]
  <2>1. c # Quote /\ c \notin {Blank, Tab}
    BY <1>1 DEF Blank, Tab, Backslash, Quote
  <2>2. ReadArgv(t, c) = [t EXCEPT !.slashes = @ + 1, !.inside = TRUE]
    BY <1>1, <2>1 DEF ReadArgv
  <2>3. QED BY <2>2 DEF Reader
<1>2. ASSUME c = Quote, t.slashes = 0
      PROVE  ReadArgv(t, c) =
              [words |-> t.words, word |-> t.word, inside |-> TRUE, quoted |-> ~t.quoted,
               slashes |-> 0]
  <2>1. c # Backslash /\ c \notin {Blank, Tab}
    BY <1>2 DEF Blank, Tab, Backslash, Quote
  <2>2. ReadArgv(t, c) = [t EXCEPT !.slashes = 0, !.inside = TRUE,
            !.quoted = IF t.slashes % 2 = 0 THEN ~@ ELSE @,
            !.word = @ \o Slashes(t.slashes \div 2)
                     \o IF t.slashes % 2 = 0 THEN <<>> ELSE <<Quote>>]
    BY <1>2, <2>1 DEF ReadArgv
  <2>3. t.slashes % 2 = 0 /\ t.slashes \div 2 = 0
    BY <1>2
  <2>4. ReadArgv(t, c) = [t EXCEPT !.slashes = 0, !.inside = TRUE, !.quoted = ~@,
                                   !.word = @ \o Slashes(0) \o <<>>]
    BY <2>2, <2>3
  <2>5. t.word \in Seq(Char)
    BY DEF Reader, Text
  <2>6. (t.word \o <<>>) \o <<>> = t.word
    BY <2>5, ConcatEmptySeq
  <2>7. (t.word \o Slashes(0)) \o <<>> = t.word
    BY <2>6, SlashesType
  <2>8. ReadArgv(t, c) = [words |-> t.words, word |-> (t.word \o Slashes(0)) \o <<>>,
                          inside |-> TRUE, quoted |-> ~t.quoted, slashes |-> 0]
    BY <2>4 DEF Reader
  <2>9. QED BY <2>7, <2>8
<1>3. ASSUME c = Blank, ~t.quoted, t.inside
      PROVE  ReadArgv(t, c) = Fresh(Append(t.words, t.word \o Slashes(t.slashes)))
  <2>1. c # Backslash /\ c # Quote
    BY <1>3 DEF Blank, Backslash, Quote
  <2>2. QED BY <1>3, <2>1 DEF ReadArgv, Fresh
<1>4. ASSUME c # Backslash, c # Quote, ~(c \in {Blank, Tab} /\ ~t.quoted)
      PROVE  ReadArgv(t, c) =
              [words |-> t.words, word |-> Append(t.word \o Slashes(t.slashes), c),
               inside |-> TRUE, quoted |-> t.quoted, slashes |-> 0]
  <2>1. ReadArgv(t, c) = [t EXCEPT !.inside = TRUE, !.slashes = 0,
                                   !.word = Append(@ \o Slashes(t.slashes), c)]
    BY <1>4 DEF ReadArgv
  <2>2. QED BY <2>1 DEF Reader
<1>5. QED BY <1>1, <1>2, <1>3, <1>4

\* The reader t has the words w and of the next one u.
Within(t, w, q, u, i) ==
  /\ t \in Reader /\ t.words = w /\ t.quoted = q /\ t.inside = i
  /\ t.word \o Slashes(t.slashes) = u
  /\ t.slashes = 0 \/ (u # <<>> /\ Last(u) = Backslash)

\* One more character of an argument.
LEMMA ReadArgvOne ==
  ASSUME NEW t, NEW w, NEW q, NEW u \in Seq(Char), NEW i, Within(t, w, q, u, i), NEW c \in Char,
         c # Quote, c \in {Blank, Tab} => q
  PROVE  Within(ReadArgv(t, c), w, q, Append(u, c), TRUE)
<1> DEFINE v == Append(u, c)
<1>1. v # <<>> /\ Last(v) = c /\ v \in Seq(Char)
  <2>1. v \in Seq(Char) /\ v # <<>> /\ Len(v) = Len(u) + 1 /\ v[Len(u) + 1] = c
    BY AppendProperties
  <2>2. QED BY <2>1 DEF Last
<1>2. /\ t \in Reader /\ t.words = w /\ t.quoted = q /\ t.slashes \in Nat
      /\ t.word \o Slashes(t.slashes) = u /\ t.word \in Seq(Char)
  BY DEF Within, Reader, Text
<1>3. ReadArgv(t, c) \in Reader
  BY <1>2, ReadArgvType
<1>4. CASE c = Backslash
  <2>1. ReadArgv(t, c) =
          [words |-> t.words, word |-> t.word, inside |-> TRUE, quoted |-> t.quoted,
           slashes |-> t.slashes + 1]
    BY <1>2, <1>4, ReadArgvDoes
  <2>2. t.word \o Slashes(t.slashes + 1) = v
    <3> DEFINE x == t.word  n == t.slashes  y == Slashes(n)
    <3>1. x \in Seq(Char) /\ y \in Seq(Char) /\ Slashes(n + 1) = Append(y, Backslash)
      BY <1>2, SlashesType DEF Text
    <3>2. x \o y = u
      BY <1>2
    <3> HIDE DEF x, y, n
    <3>3. Append(y, c) = y \o <<c>> /\ <<c>> \in Seq(Char)
      BY <3>1, AppendIsConcat
    <3>4. x \o (y \o <<c>>) = (x \o y) \o <<c>>
      BY <3>1, <3>3, ConcatAssociative
    <3>5. u \o <<c>> = v
      BY AppendIsConcat
    <3>6. x \o Slashes(n + 1) = v
      BY <1>4, <3>1, <3>2, <3>3, <3>4, <3>5
    <3>7. QED BY <3>6 DEF x, n
  <2> DEFINE r == ReadArgv(t, c)
  <2>3. /\ r.words = t.words /\ r.word = t.word /\ r.inside = TRUE /\ r.quoted = t.quoted
        /\ r.slashes = t.slashes + 1
    BY <2>1
  <2> HIDE DEF r, v
  <2>4. r \in Reader
    BY <1>3 DEF r
  <2>5. r.word \o Slashes(r.slashes) = v
    BY <2>2, <2>3
  <2>6. Last(v) = Backslash
    BY <1>1, <1>4
  <2>7. Within(r, w, q, v, TRUE)
    BY <1>1, <1>2, <2>3, <2>4, <2>5, <2>6 DEF Within
  <2>8. QED BY <2>7 DEF r, v
<1>5. CASE c # Backslash
  <2>1. ReadArgv(t, c) =
          [words |-> t.words, word |-> Append(t.word \o Slashes(t.slashes), c),
           inside |-> TRUE, quoted |-> t.quoted, slashes |-> 0]
    BY <1>2, <1>5, ReadArgvDoes
  <2>2. v \o Slashes(0) = v
    BY <1>1, SlashesType, ConcatEmptySeq
  <2> DEFINE r == ReadArgv(t, c)
  <2>3. /\ r.words = t.words /\ r.word = Append(t.word \o Slashes(t.slashes), c)
        /\ r.inside = TRUE /\ r.quoted = t.quoted /\ r.slashes = 0
    <3> DEFINE y == Append(t.word \o Slashes(t.slashes), c)
    <3>1. r = [words |-> t.words, word |-> y, inside |-> TRUE, quoted |-> t.quoted, slashes |-> 0]
      BY <2>1
    <3> HIDE DEF y, r
    <3>2. r.words = t.words /\ r.word = y /\ r.inside = TRUE /\ r.quoted = t.quoted /\ r.slashes = 0
      BY <3>1
    <3>3. QED BY <3>2 DEF y
  <2>4. r.word = v
    BY <1>2, <2>3
  <2> HIDE DEF r, v
  <2>5. r \in Reader
    BY <1>3 DEF r
  <2>6. r.word \o Slashes(r.slashes) = v
    BY <2>2, <2>3, <2>4
  <2>7. Within(r, w, q, v, TRUE)
    BY <1>2, <2>3, <2>5, <2>6 DEF Within
  <2>8. QED BY <2>7 DEF r, v
<1>6. QED BY <1>4, <1>5

\* A stretch of an argument.
LEMMA ReadArgvStretch ==
  ASSUME NEW s \in Text, NEW h, ReadingArgv(h, s), NEW p \in Nat, NEW e \in Text, Stretch(s, p, e),
         NEW w, NEW q, NEW i, Within(h[p], w, q, <<>>, i), ~Has(e, Quote),
         q \/ (~Has(e, Blank) /\ ~Has(e, Tab))
  PROVE  Within(h[p + Len(e)], w, q, e, IF e = <<>> THEN i ELSE TRUE)
<1> DEFINE P(j) == SubSeq(e, 1, j)
           In(j) == IF j = 0 THEN i ELSE TRUE
           S == {j \in 0..Len(e) : Within(h[p + j], w, q, P(j), In(j))}
<1>1. Len(e) \in Nat /\ e \in Seq(Char) /\ Len(s) \in Nat /\ DOMAIN e = 1..Len(e)
  BY DEF Text
<1>2. 0 \in S
  <2>1. p + 0 = p
    OBVIOUS
  <2>2. P(0) = <<>>
    BY <1>1, PrefixIs
  <2> HIDE DEF P
  <2>3. Within(h[p + 0], w, q, P(0), In(0))
    BY <2>1, <2>2
  <2>4. QED BY <1>1, <2>3
<1>3. ASSUME NEW j \in 0..(Len(e) - 1), j \in S PROVE j + 1 \in S
  <2> DEFINE k == j + 1  n == p + k
  <2>1. /\ k \in 1..Len(e) /\ k \in 0..Len(e) /\ k - 1 = j /\ n \in 1..Len(s) /\ n - 1 = p + j
        /\ k # 0
    BY <1>1 DEF Stretch
  <2> HIDE DEF n, k
  <2>2. s[n] = e[k] /\ e[k] # Quote /\ (e[k] \in {Blank, Tab} => q)
    BY <1>1, <2>1 DEF Has, Stretch, n
  <2>3. h[n] = ReadArgv(h[p + j], e[k])
    BY <2>1, <2>2 DEF ReadingArgv
  <2>4. P(j) \in Seq(Char) /\ e[k] \in Char /\ P(k) = Append(P(j), e[k])
    <3>1. j \in 0..Len(e)
      BY <1>1
    <3>2. QED BY <1>1, <2>1, <3>1, PrefixIs
  <2>5. Within(h[p + j], w, q, P(j), In(j))
    BY <1>3
  <2>6. Within(h[n], w, q, P(k), TRUE)
    <3> DEFINE u == P(j)  x == e[k]  a == In(j)
    <3>1. /\ u \in Seq(Char) /\ x \in Char /\ Within(h[p + j], w, q, u, a)
          /\ x # Quote /\ (x \in {Blank, Tab} => q)
      BY <2>2, <2>4, <2>5
    <3> HIDE DEF u, x, a
    <3>2. Within(ReadArgv(h[p + j], x), w, q, Append(u, x), TRUE)
      BY <3>1, ReadArgvOne
    <3>3. QED BY <2>3, <2>4, <3>2 DEF u, x
  <2>7. k \in S
    BY <2>1, <2>6 DEF n
  <2>8. QED BY <2>7 DEF k
<1>4. Len(e) \in S
  <2> HIDE DEF S
  <2> QED BY <1>1, <1>2, <1>3, UpTo
<1>5. P(Len(e)) = e /\ In(Len(e)) = IF e = <<>> THEN i ELSE TRUE
  <2>1. P(Len(e)) = e
    BY <1>1, PrefixIs
  <2>2. Len(e) = 0 <=> e = <<>>
    BY <1>1, EmptySeq
  <2>3. QED BY <2>1, <2>2
<1>6. QED BY <1>4, <1>5

\* A stretch of two parts is one stretch after the other.
LEMMA StretchConcat ==
  ASSUME NEW s \in Text, NEW p \in Nat, NEW x \in Seq(Char), NEW y \in Seq(Char), Stretch(s, p, x \o y)
  PROVE  /\ Stretch(s, p, x) /\ Stretch(s, p + Len(x), y)
         /\ Len(x \o y) = Len(x) + Len(y) /\ Len(x) \in Nat /\ Len(y) \in Nat
<1> DEFINE z == x \o y
<1>1. /\ Len(x) \in Nat /\ Len(y) \in Nat /\ Len(s) \in Nat /\ Len(z) = Len(x) + Len(y)
      /\ \A i \in 1..(Len(x) + Len(y)) : z[i] = IF i <= Len(x) THEN x[i] ELSE y[i - Len(x)]
  BY ConcatProperties DEF Text
<1>2. p + Len(z) <= Len(s) /\ \A i \in 1..Len(z) : s[p + i] = z[i]
  BY DEF Stretch
<1> HIDE DEF z
<1>3. ASSUME NEW i \in 1..Len(x) PROVE s[p + i] = x[i]
  <2>1. i \in 1..(Len(x) + Len(y)) /\ i <= Len(x)
    BY <1>1
  <2>2. QED BY <1>1, <1>2, <2>1
<1>4. ASSUME NEW i \in 1..Len(y) PROVE s[(p + Len(x)) + i] = y[i]
  <2> DEFINE j == Len(x) + i
  <2>1. j \in 1..(Len(x) + Len(y)) /\ ~(j <= Len(x)) /\ j - Len(x) = i /\ p + j = (p + Len(x)) + i
    BY <1>1
  <2> HIDE DEF j
  <2>2. z[j] = y[i]
    BY <1>1, <2>1
  <2>3. s[p + j] = z[j]
    BY <1>1, <1>2, <2>1
  <2>4. QED BY <2>1, <2>2, <2>3
<1>5. p + Len(x) <= Len(s) /\ (p + Len(x)) + Len(y) <= Len(s)
  BY <1>1, <1>2
<1>6. QED BY <1>1, <1>3, <1>4, <1>5 DEF Stretch, z

\* A stretch of one character.
LEMMA StretchOne ==
  ASSUME NEW s \in Text, NEW p \in Nat, NEW c, Stretch(s, p, <<c>>)
  PROVE  p + 1 \in 1..Len(s) /\ (p + 1) - 1 = p /\ s[p + 1] = c
<1>1. Len(<<c>>) = 1 /\ <<c>>[1] = c /\ Len(s) \in Nat
  BY DEF Text
<1>2. p + 1 <= Len(s) /\ \A i \in 1..1 : s[p + i] = <<c>>[i]
  BY <1>1 DEF Stretch
<1>3. s[p + 1] = c
  BY <1>1, <1>2
<1>4. QED BY <1>1, <1>2, <1>3

\* A stretch and one more character.
LEMMA StretchChar ==
  ASSUME NEW s \in Text, NEW p \in Nat, NEW x \in Seq(Char), NEW c \in Char,
         Stretch(s, p, x \o <<c>>)
  PROVE  /\ Stretch(s, p, x) /\ Len(x \o <<c>>) = Len(x) + 1 /\ p + Len(x) \in Nat
         /\ (p + Len(x)) + 1 \in 1..Len(s) /\ ((p + Len(x)) + 1) - 1 = p + Len(x)
         /\ s[(p + Len(x)) + 1] = c
<1> DEFINE y == <<c>>  n == p + Len(x)
<1>1. y \in Seq(Char) /\ Len(y) = 1
  BY Characters
<1> HIDE DEF y
<1>2. Stretch(s, p, x) /\ Stretch(s, n, y) /\ Len(x \o y) = Len(x) + Len(y) /\ Len(x) \in Nat
  <2>1. Stretch(s, p, x \o y)
    BY DEF y
  <2>2. /\ Stretch(s, p, x) /\ Stretch(s, p + Len(x), y)
        /\ Len(x \o y) = Len(x) + Len(y) /\ Len(x) \in Nat /\ Len(y) \in Nat
    BY <1>1, <2>1, StretchConcat
  <2>3. QED BY <2>2
<1>3. n \in Nat
  BY <1>2
<1> HIDE DEF n
<1>4. n + 1 \in 1..Len(s) /\ (n + 1) - 1 = n /\ s[n + 1] = c
  BY <1>2, <1>3, StretchOne DEF y
<1>5. QED BY <1>1, <1>2, <1>3, <1>4 DEF n, y

\* What set_args() makes of one argument.
Argument(a) == (IF Has(a, Blank) THEN <<Quote>> \o a \o <<Quote>> ELSE a) \o <<Blank>>

\* The blank after an argument ends it.
LEMMA ReadArgvEnd ==
  ASSUME NEW t, NEW w, NEW a, Within(t, w, FALSE, a, TRUE)
  PROVE  ReadArgv(t, Blank) = Fresh(Append(w, a))
BY ReadArgvDoes DEF Within

\* An argument is read as it was asked for.
LEMMA ReadArgument ==
  ASSUME NEW s \in Text, NEW h, ReadingArgv(h, s), NEW p \in Nat, NEW a \in Text, a # <<>>,
         ~Has(a, Quote), ~(Has(a, Blank) /\ Last(a) = Backslash), Has(a, Tab) => Has(a, Blank),
         NEW w \in Seq(Text), h[p] = Fresh(w), Stretch(s, p, Argument(a))
  PROVE  h[p + Len(Argument(a))] = Fresh(Append(w, a)) /\ Len(Argument(a)) \in Nat
<1>1. a \in Seq(Char) /\ Len(a) \in Nat /\ Quote \in Char /\ Blank \in Char
  BY Characters DEF Text
<1>2. <<Quote>> \in Seq(Char) /\ <<Blank>> \in Seq(Char) /\ Len(<<Quote>>) = 1 /\ Len(<<Blank>>) = 1
  BY <1>1
<1>3. \A n \in 1..Len(s) : h[n] = ReadArgv(h[n - 1], s[n])
  BY DEF ReadingArgv
<1>4. Within(h[p], w, FALSE, <<>>, FALSE)
  <2> DEFINE r == Fresh(w)
  <2>1. /\ r = [words |-> w, word |-> <<>>, inside |-> FALSE, quoted |-> FALSE, slashes |-> 0]
        /\ <<>> \in Text
    BY Characters DEF Fresh, ReaderStart
  <2>2. r \in Reader
    BY <2>1 DEF Reader
  <2>3. <<>> \o Slashes(0) = <<>>
    BY <2>1, SlashesType, ConcatEmptySeq DEF Text
  <2>4. r.word \o Slashes(r.slashes) = <<>>
    BY <2>1, <2>3
  <2>5. QED BY <2>1, <2>2, <2>4 DEF Within
<1>5. CASE ~Has(a, Blank)
  <2>1. Argument(a) = a \o <<Blank>>
    BY <1>5 DEF Argument
  <2> DEFINE n == p + Len(a)
  <2>2. /\ Stretch(s, p, a) /\ Len(Argument(a)) = Len(a) + 1 /\ n \in Nat
        /\ n + 1 \in 1..Len(s) /\ (n + 1) - 1 = n /\ s[n + 1] = Blank
    BY <1>1, <2>1, StretchChar
  <2>3. Within(h[n], w, FALSE, a, TRUE)
    BY <1>4, <1>5, <2>2, ReadArgvStretch
  <2>5. n + 1 \in 1..Len(s) /\ (n + 1) - 1 = n /\ s[n + 1] = Blank
    BY <2>2
  <2>6. h[n + 1] = ReadArgv(h[n], Blank)
    BY <1>3, <2>5
  <2>7. h[n + 1] = Fresh(Append(w, a))
    BY <2>3, <2>6, ReadArgvEnd
  <2>8. n + 1 = p + Len(Argument(a))
    BY <1>1, <2>2
  <2>9. QED BY <1>1, <2>2, <2>7, <2>8
<1>6. CASE Has(a, Blank)
  <2> DEFINE x == <<Quote>> \o a  y == x \o <<Quote>>
  <2>1. Argument(a) = y \o <<Blank>>
    BY <1>6 DEF Argument
  <2>2. x \in Seq(Char) /\ y \in Seq(Char)
    BY <1>1, <1>2, ConcatProperties
  <2> DEFINE k == p + Len(y)  l == p + Len(x)  n == p + 1
  <2> HIDE DEF y
  <2>3. /\ Stretch(s, p, y) /\ Len(Argument(a)) = Len(y) + 1 /\ k \in Nat
        /\ k + 1 \in 1..Len(s) /\ (k + 1) - 1 = k /\ s[k + 1] = Blank
    BY <1>1, <2>1, <2>2, StretchChar
  <2> HIDE DEF x
  <2>4. /\ Stretch(s, p, x) /\ Len(y) = Len(x) + 1 /\ l \in Nat
        /\ l + 1 \in 1..Len(s) /\ (l + 1) - 1 = l /\ s[l + 1] = Quote
    BY <1>1, <2>2, <2>3, StretchChar DEF y
  <2>5. /\ Stretch(s, p, <<Quote>>) /\ Stretch(s, n, a) /\ Len(x) = 1 + Len(a)
    <3> DEFINE z == <<Quote>>
    <3>1. z \in Seq(Char) /\ Len(z) = 1 /\ x = z \o a
      BY <1>2 DEF x
    <3> HIDE DEF z
    <3>2. /\ Stretch(s, p, z) /\ Stretch(s, p + Len(z), a)
          /\ Len(z \o a) = Len(z) + Len(a) /\ Len(z) \in Nat /\ Len(a) \in Nat
      <4>1. Stretch(s, p, z \o a)
        BY <2>4, <3>1
      <4>2. QED BY <1>1, <3>1, <4>1, StretchConcat
    <3>3. QED BY <3>1, <3>2 DEF z
  <2>6. p + 1 \in 1..Len(s) /\ (p + 1) - 1 = p /\ s[p + 1] = Quote
    BY <2>5, StretchOne
  <2>7. h[p + 1] = ReadArgv(h[p], Quote)
    BY <1>3, <2>6
  <2>8. Within(h[p + 1], w, TRUE, <<>>, TRUE)
    <3> DEFINE t == h[p]  r == h[p + 1]
    <3>1. /\ t \in Reader /\ t.words = w /\ t.quoted = FALSE /\ t.slashes = 0
          /\ t.word \o Slashes(t.slashes) = <<>>
      BY <1>4 DEF Within
    <3>2. r = [words |-> t.words, word |-> t.word, inside |-> TRUE, quoted |-> ~t.quoted,
               slashes |-> 0]
      BY <2>7, <3>1, ReadArgvDoes
    <3>3. r.words = w /\ r.word = t.word /\ r.inside = TRUE /\ r.quoted = TRUE /\ r.slashes = 0
      <4> HIDE DEF t, r
      <4> QED BY <3>1, <3>2
    <3>4. r \in Reader
      BY <1>1, <2>7, <3>1, ReadArgvType
    <3>5. QED BY <3>1, <3>3, <3>4 DEF Within
  <2>9. n \in Nat /\ l = n + Len(a) /\ k = l + 1
    BY <1>1, <2>4, <2>5
  <2>10. Within(h[l], w, TRUE, a, TRUE)
    <3>1. Stretch(s, n, a) /\ Within(h[n], w, TRUE, <<>>, TRUE)
      BY <2>5, <2>8
    <3> HIDE DEF n
    <3>2. Within(h[n + Len(a)], w, TRUE, a, TRUE)
      BY <2>9, <3>1, ReadArgvStretch
    <3>3. QED BY <2>9, <3>2
  <2> HIDE DEF k, l
  <2>11. l + 1 \in 1..Len(s) /\ (l + 1) - 1 = l /\ s[l + 1] = Quote
    BY <2>4
  <2>12. h[l + 1] = ReadArgv(h[l], Quote)
    BY <1>3, <2>11
  <2>13. Within(h[l + 1], w, FALSE, a, TRUE)
    <3> DEFINE t == h[l]  r == h[l + 1]
    <3>1. /\ t \in Reader /\ t.words = w /\ t.quoted = TRUE /\ t.slashes = 0
          /\ t.word \o Slashes(t.slashes) = a
      BY <1>6, <2>10 DEF Within
    <3>2. r = [words |-> t.words, word |-> t.word, inside |-> TRUE, quoted |-> ~t.quoted,
               slashes |-> 0]
      BY <2>12, <3>1, ReadArgvDoes
    <3>3. r.words = w /\ r.word = t.word /\ r.inside = TRUE /\ r.quoted = FALSE /\ r.slashes = 0
      <4> HIDE DEF t, r
      <4> QED BY <3>1, <3>2
    <3>4. r \in Reader
      BY <1>1, <2>12, <3>1, ReadArgvType
    <3>5. QED BY <3>1, <3>3, <3>4 DEF Within
  <2>15. Within(h[k], w, FALSE, a, TRUE)
    BY <2>9, <2>13
  <2>16. h[k + 1] = ReadArgv(h[k], Blank)
    BY <1>3, <2>3
  <2>17. h[k + 1] = Fresh(Append(w, a))
    BY <2>15, <2>16, ReadArgvEnd
  <2>18. k + 1 = p + Len(Argument(a))
    BY <2>3 DEF k
  <2>19. QED BY <1>1, <2>3, <2>4, <2>5, <2>17, <2>18
<1>7. QED BY <1>5, <1>6

\* What is in neither of two texts is not in both together.
LEMMA ConcatHasNot ==
  ASSUME NEW x \in Seq(Char), NEW y \in Seq(Char), NEW c, ~Has(x, c), ~Has(y, c)
  PROVE  x \o y \in Seq(Char) /\ ~Has(x \o y, c)
<1> DEFINE z == x \o y
<1>1. /\ z \in Seq(Char) /\ Len(z) = Len(x) + Len(y) /\ Len(x) \in Nat /\ Len(y) \in Nat
      /\ \A i \in 1..(Len(x) + Len(y)) : z[i] = IF i <= Len(x) THEN x[i] ELSE y[i - Len(x)]
  BY ConcatProperties
<1> HIDE DEF z
<1>2. ASSUME NEW i \in DOMAIN z PROVE z[i] # c
  <2>1. i \in 1..(Len(x) + Len(y))
    BY <1>1
  <2>2. CASE i <= Len(x)
    <3>1. i \in DOMAIN x /\ z[i] = x[i]
      BY <1>1, <2>1, <2>2
    <3>2. QED BY <3>1 DEF Has
  <2>3. CASE ~(i <= Len(x))
    <3>1. i - Len(x) \in DOMAIN y /\ z[i] = y[i - Len(x)]
      BY <1>1, <2>1, <2>3
    <3>2. QED BY <3>1 DEF Has
  <2>4. QED BY <2>2, <2>3
<1>3. QED BY <1>1, <1>2 DEF Has, z

\* What set_args() makes of an argument is a text, without a NUL if that has none.
LEMMA ArgumentIs ==
  ASSUME NEW a \in Text
  PROVE  Argument(a) \in Seq(Char) /\ (~Has(a, "NUL") => ~Has(Argument(a), "NUL"))
<1> DEFINE q == <<Quote>>  b == <<Blank>>
<1>1. a \in Seq(Char) /\ q \in Seq(Char) /\ b \in Seq(Char)
  BY Characters DEF Text
<1>2. ~Has(q, "NUL") /\ ~Has(b, "NUL")
  <2>1. DOMAIN q = {1} /\ q[1] = Quote /\ DOMAIN b = {1} /\ b[1] = Blank
    OBVIOUS
  <2>2. Quote # "NUL" /\ Blank # "NUL"
    BY DEF Quote, Blank
  <2> HIDE DEF q, b
  <2>3. QED BY <2>1, <2>2 DEF Has
<1> HIDE DEF q, b
<1>3. Argument(a) = (IF Has(a, Blank) THEN (q \o a) \o q ELSE a) \o b
  BY DEF Argument, q, b
<1>4. q \o a \in Seq(Char) /\ a \o b \in Seq(Char)
  BY <1>1, ConcatProperties
<1>5. (q \o a) \o q \in Seq(Char)
  BY <1>1, <1>4, ConcatProperties
<1>6. ((q \o a) \o q) \o b \in Seq(Char)
  BY <1>1, <1>5, ConcatProperties
<1>7. ASSUME ~Has(a, "NUL")
      PROVE  ~Has(a \o b, "NUL") /\ ~Has(((q \o a) \o q) \o b, "NUL")
  <2>1. ~Has(a \o b, "NUL") /\ ~Has(q \o a, "NUL")
    BY <1>1, <1>2, <1>7, ConcatHasNot
  <2>2. ~Has((q \o a) \o q, "NUL")
    BY <1>1, <1>2, <1>4, <2>1, ConcatHasNot
  <2>3. ~Has(((q \o a) \o q) \o b, "NUL")
    BY <1>1, <1>2, <1>5, <2>2, ConcatHasNot
  <2>4. QED BY <2>1, <2>3
<1>8. CASE Has(a, Blank)
  <2>1. Argument(a) = ((q \o a) \o q) \o b
    BY <1>3, <1>8
  <2>2. QED BY <1>6, <1>7, <2>1
<1>9. CASE ~Has(a, Blank)
  <2>1. Argument(a) = a \o b
    BY <1>3, <1>9
  <2>2. QED BY <1>4, <1>7, <2>1
<1>10. QED BY <1>8, <1>9

\* What is in none of the parts is not in the text that they make.
LEMMA PartsHaveNot ==
  ASSUME NEW t \in Text, NEW ss \in Seq(Seq(Char)), NEW at, PartsAt(t, ss, at), NEW c,
         \A n \in 1..Len(ss) : ~Has(ss[n], c)
  PROVE  ~Has(t, c)
<1> DEFINE m == Len(ss)
<1>1. /\ m \in Nat /\ at \in [0..m -> Nat] /\ at[0] = 0 /\ at[m] = Len(t)
      /\ \A n \in 1..m :
           /\ at[n] = at[n - 1] + Len(ss[n])
           /\ \A j \in 1..Len(ss[n]) : t[at[n - 1] + j] = ss[n][j]
  BY DEF PartsAt
<1>2. \A n \in 1..m : Len(ss[n]) \in Nat /\ DOMAIN ss[n] = 1..Len(ss[n])
  OBVIOUS
<1>3. \A n \in 1..m : \A j \in 1..Len(ss[n]) : ss[n][j] # c
  BY <1>2 DEF Has
<1> HIDE DEF m
<1>4. ASSUME NEW i \in 1..Len(t) PROVE t[i] # c
  <2> DEFINE S == {n \in 0..m : i <= at[n]}
  <2>1. m \in S /\ S \subseteq Nat
    BY <1>1
  <2>2. 0 \notin S
    BY <1>1
  <2> HIDE DEF S
  <2>3. PICK n \in S : \A k \in S : n <= k
    BY <2>1, LeastOf
  <2>4. n \in 1..m /\ n - 1 \in 0..m /\ i <= at[n]
    BY <1>1, <2>2 DEF S
  <2>5. n - 1 \notin S
    BY <2>3, <2>4
  <2>6. at[n - 1] < i /\ at[n - 1] \in Nat
    BY <1>1, <2>4, <2>5 DEF S
  <2> DEFINE p == at[n - 1]  j == i - p
  <2>7. at[n] = p + Len(ss[n]) /\ Len(ss[n]) \in Nat
    BY <1>1, <1>2, <2>4
  <2>8. t[p + j] = ss[n][j] /\ ss[n][j] # c
    <3>1. j \in 1..Len(ss[n])
      <4> HIDE DEF p
      <4>1. p < i /\ p \in Nat /\ i <= p + Len(ss[n])
        BY <2>4, <2>6, <2>7 DEF p
      <4>2. QED BY <2>7, <4>1
    <3> HIDE DEF j
    <3>2. QED BY <1>1, <1>3, <2>4, <3>1
  <2>9. p + j = i
    <3> HIDE DEF p
    <3>1. p \in Nat
      BY <2>6 DEF p
    <3>2. QED BY <3>1
  <2>10. QED BY <2>8, <2>9
<1>5. DOMAIN t = 1..Len(t)
  BY DEF Text
<1>6. QED BY <1>4, <1>5 DEF Has

\* The arguments are taken apart as they were asked for.
LEMMA ArgsRead ==
  ASSUME NEW args \in Seq(Text),
         \A n \in DOMAIN args :
           /\ args[n] # <<>> /\ ~Has(args[n], Quote) /\ ~Has(args[n], "NUL")
           /\ ~(Has(args[n], Blank) /\ Last(args[n]) = Backslash)
           /\ Has(args[n], Tab) => Has(args[n], Blank)
  PROVE  CommandLineToArgv(SetArgs(args)) = args
<1> DEFINE m == Len(args)
           ss == [n \in 1..m |-> Argument(args[n])]
           F == FlattenSeq(ss)
           Words(n) == SubSeq(args, 1, n)
<1>1. m \in Nat /\ DOMAIN args = 1..m /\ \A n \in 1..m : args[n] \in Text
  OBVIOUS
<1>2. \A a \in Text : Argument(a) \in Seq(Char)
  BY ArgumentIs
<1>3. ss \in Seq(Seq(Char)) /\ Len(ss) = m /\ \A n \in 1..m : ss[n] = Argument(args[n])
  BY <1>1, <1>2
<1>4. SetArgs(args) = F
  BY <1>1 DEF SetArgs, Argument
<1> HIDE DEF ss
<1>5. F \in Seq(Char) /\ \E at : PartsAt(F, ss, at)
  BY <1>3, FlattenParts
<1> HIDE DEF F
<1>6. PICK at : PartsAt(F, ss, at)
  BY <1>5
<1>7. F \in Text
  BY <1>5 DEF Text
<1>7a. CString(F) = F
  <2>1. \A n \in 1..m : ~Has(ss[n], "NUL")
    BY <1>1, <1>3, ArgumentIs
  <2>2. ~Has(F, "NUL")
    BY <1>3, <1>6, <1>7, <2>1, PartsHaveNot
  <2>3. QED BY <1>7, <2>2, CStringIs
<1>8. PICK h : /\ ReadingArgv(h, F)
               /\ CommandLineToArgv(F) =
                    LET end == h[Len(F)]
                    IN IF end.inside THEN Append(end.words, end.word \o Slashes(end.slashes))
                       ELSE end.words
  BY <1>7, <1>7a, ArgvIs
<1>9. at \in [0..m -> Nat] /\ at[0] = 0 /\ at[m] = Len(F)
  BY <1>3, <1>6 DEF PartsAt
<1>10. ASSUME NEW n \in 1..m
       PROVE  /\ at[n] = at[n - 1] + Len(ss[n]) /\ at[n - 1] \in Nat
              /\ Stretch(F, at[n - 1], ss[n])
  <2>1. /\ at[n] = at[n - 1] + Len(ss[n]) /\ at[n] <= Len(F)
        /\ \A i \in 1..Len(ss[n]) : F[at[n - 1] + i] = ss[n][i]
    BY <1>3, <1>6 DEF PartsAt
  <2>2. n - 1 \in 0..m
    BY <1>1
  <2>3. QED BY <1>9, <2>1, <2>2 DEF Stretch
<1>11. \A n \in 0..m : Words(n) \in Seq(Text)
  BY PrefixIs
<1> DEFINE S == {n \in 0..m : h[at[n]] = Fresh(Words(n))}
<1>12. 0 \in S
  <2>1. Words(0) = <<>>
    BY PrefixIs
  <2>2. h[0] = Fresh(<<>>)
    BY <1>8 DEF ReadingArgv, Fresh, ReaderStart
  <2>3. QED BY <1>1, <1>9, <2>1, <2>2
<1>13. ASSUME NEW n \in 0..(m - 1), n \in S PROVE n + 1 \in S
  <2> DEFINE k == n + 1  a == args[k]  p == at[n]
  <2>1. k \in 1..m /\ k \in 0..m /\ k - 1 = n /\ n \in 0..m
    BY <1>1
  <2> HIDE DEF k
  <2>2. /\ a \in Text /\ a # <<>> /\ ~Has(a, Quote) /\ ~(Has(a, Blank) /\ Last(a) = Backslash)
        /\ Has(a, Tab) => Has(a, Blank)
        /\ ss[k] = Argument(a)
    BY <1>1, <1>3, <2>1
  <2>3. p \in Nat /\ at[k] = p + Len(Argument(a)) /\ Stretch(F, p, Argument(a))
    BY <1>10, <2>1, <2>2
  <2> DEFINE w == Words(n)
  <2>4. w \in Seq(Text) /\ h[p] = Fresh(w)
    BY <1>11, <1>13, <2>1
  <2>5. Words(k) = Append(w, a)
    BY <2>1, PrefixIs
  <2> HIDE DEF a, p, w, Words
  <2>6. h[p + Len(Argument(a))] = Fresh(Append(w, a))
    BY <1>7, <1>8, <2>2, <2>3, <2>4, ReadArgument
  <2>7. k \in S
    BY <2>1, <2>3, <2>5, <2>6
  <2>8. QED BY <2>7 DEF k
<1>14. m \in S
  <2> HIDE DEF S
  <2> QED BY <1>1, <1>12, <1>13, UpTo
<1>15. h[Len(F)] = Fresh(args)
  <2>1. Words(m) = args
    BY PrefixIs
  <2>2. QED BY <1>9, <1>14, <2>1
<1>16. CommandLineToArgv(F) = args
  BY <1>8, <1>15 DEF Fresh, ReaderStart
<1>17. QED BY <1>4, <1>16

\* A program on Windows gets the arguments and the environment that were asked
\* for, if they are not of the kinds that cannot be passed.
THEOREM TextOnWindows == Spec => []WindowsTextSurvives
<1>1. TextInv => WindowsTextSurvives
  <2> SUFFICES ASSUME TextInv PROVE WindowsTextSurvives
    OBVIOUS
  <2>1. ASSUME Done("set_args")
        PROVE  \/ \E a \in ToSet(task.args) :
                    \/ a = <<>> \/ Has(a, Quote) \/ Has(a, "NUL")
                    \/ Has(a, Blank) /\ Last(a) = Backslash
                    \/ Has(a, Tab) /\ ~Has(a, Blank)
               \/ CommandLineToArgv(result) = task.args
    <3>1. PICK a \in ArgLists : task = [do |-> "set_args", args |-> a]
      BY <2>1 DEF TextInv, Asked, Done
    <3>2. task.args \in Seq(Text)
      BY <3>1, TextAssumption
    <3>3. result = SetArgs(task.args)
      BY <2>1 DEF TextInv, Computed
    <3>4. ASSUME ~\E x \in ToSet(task.args) :
                    \/ x = <<>> \/ Has(x, Quote) \/ Has(x, "NUL")
                    \/ Has(x, Blank) /\ Last(x) = Backslash
                    \/ Has(x, Tab) /\ ~Has(x, Blank)
          PROVE  \A n \in DOMAIN task.args :
                   /\ task.args[n] # <<>> /\ ~Has(task.args[n], Quote)
                   /\ ~Has(task.args[n], "NUL")
                   /\ ~(Has(task.args[n], Blank) /\ Last(task.args[n]) = Backslash)
                   /\ Has(task.args[n], Tab) => Has(task.args[n], Blank)
      BY <3>4 DEF ToSet
    <3>5. QED BY <3>2, <3>3, <3>4, ArgsRead
  <2>2. ASSUME Done("set_env")
        PROVE  \/ \E e \in ToSet(task.envs) : e = <<>> \/ Has(e, "NUL")
               \/ Front(Split(result, "NUL")) = Append(task.envs, <<>>)
    <3>1. PICK e \in EnvLists : task = [do |-> "set_env", envs |-> e]
      BY <2>2 DEF TextInv, Asked, Done
    <3>2. task.envs \in Seq(Text)
      BY <3>1, TextAssumption
    <3>3. result = SetEnv(task.envs)
      BY <2>2 DEF TextInv, Computed
    <3>4. ASSUME ~\E x \in ToSet(task.envs) : x = <<>> \/ Has(x, "NUL")
          PROVE  \A n \in DOMAIN task.envs : ~Has(task.envs[n], "NUL")
      BY <3>4 DEF ToSet
    <3>5. QED BY <3>2, <3>3, <3>4, EnvSplits
  <2>3. QED BY <2>1, <2>2 DEF WindowsTextSurvives
<1>2. QED BY <1>1, TextInvAlways, PTL

-----------------------------------------------------------------------------
(* CommandAsConfigured: the words of a command.                             *)

\* How far set_cmd_line() is.
WordReader ==
  [words : Seq(Text), word : Text, quoted : BOOLEAN, escaped : BOOLEAN, error : BOOLEAN]

WordStart ==
  [words |-> <<>>, word |-> <<>>, quoted |-> FALSE, escaped |-> FALSE, error |-> FALSE]

AddToWord(t, c) == [t EXCEPT !.word = Append(@, c), !.escaped = FALSE]

ReadWord(t, c) ==
  IF t.escaped
  THEN CASE c \in {Blank, Quote, Backslash} -> AddToWord(t, c)
         [] c = "n" -> AddToWord(t, "newline")
         [] OTHER -> [t EXCEPT !.error = TRUE]
  ELSE CASE c = Backslash -> [t EXCEPT !.escaped = TRUE]
         [] c = Quote -> [t EXCEPT !.quoted = ~@]
         [] c = Blank /\ ~t.quoted -> [t EXCEPT !.words = Append(@, t.word), !.word = <<>>]
         [] OTHER -> AddToWord(t, c)

\* A reader of words stays one.
LEMMA ReadWordType ==
  ASSUME NEW t \in WordReader, NEW c \in Char
  PROVE  ReadWord(t, c) \in WordReader
<1>1. /\ t.words \in Seq(Text) /\ t.word \in Seq(Char) /\ t.word \in Text
      /\ t.quoted \in BOOLEAN /\ t.escaped \in BOOLEAN /\ t.error \in BOOLEAN
      /\ t = [words |-> t.words, word |-> t.word, quoted |-> t.quoted, escaped |-> t.escaped,
              error |-> t.error]
  BY DEF WordReader, Text
<1>2. ASSUME NEW x \in Char PROVE AddToWord(t, x) \in WordReader
  <2> DEFINE u == Append(t.word, x)
  <2>1. u \in Text
    BY <1>1, AppendProperties DEF Text
  <2>2. AddToWord(t, x) = [t EXCEPT !.word = u, !.escaped = FALSE]
    BY DEF AddToWord
  <2> HIDE DEF u
  <2>3. AddToWord(t, x) = [words |-> t.words, word |-> u, quoted |-> t.quoted, escaped |-> FALSE,
                           error |-> t.error]
    BY <2>2 DEF WordReader
  <2>4. QED BY <1>1, <2>1, <2>3 DEF WordReader
<1>3. [t EXCEPT !.error = TRUE] \in WordReader
  BY DEF WordReader
<1>4. [t EXCEPT !.escaped = TRUE] \in WordReader
  BY DEF WordReader
<1>5. [t EXCEPT !.quoted = ~@] \in WordReader
  <2>1. [t EXCEPT !.quoted = ~@] = [words |-> t.words, word |-> t.word, quoted |-> ~t.quoted,
                                    escaped |-> t.escaped, error |-> t.error]
    BY DEF WordReader
  <2>2. QED BY <1>1, <2>1 DEF WordReader
<1>6. [t EXCEPT !.words = Append(@, t.word), !.word = <<>>] \in WordReader
  <2> DEFINE w == Append(t.words, t.word)
  <2>1. w \in Seq(Text) /\ <<>> \in Text
    BY <1>1, AppendProperties, Characters
  <2>2. [t EXCEPT !.words = Append(@, t.word), !.word = <<>>]
        = [t EXCEPT !.words = w, !.word = <<>>]
    BY DEF WordReader
  <2> HIDE DEF w
  <2> DEFINE e == <<>>
  <2>3. e \in Text
    BY <2>1
  <2> HIDE DEF e
  <2>4. [t EXCEPT !.words = w, !.word = e] \in WordReader
    BY <2>1, <2>3 DEF WordReader
  <2>5. QED BY <2>2, <2>4 DEF e
<1>7. "newline" \in Char
  BY TextAssumption
<1>8. \/ ReadWord(t, c) \in {AddToWord(t, c), AddToWord(t, "newline"), [t EXCEPT !.error = TRUE]}
      \/ ReadWord(t, c) = [t EXCEPT !.escaped = TRUE] \/ ReadWord(t, c) = [t EXCEPT !.quoted = ~@]
      \/ ReadWord(t, c) = [t EXCEPT !.words = Append(@, t.word), !.word = <<>>]
  BY DEF ReadWord
<1>9. QED BY <1>2, <1>3, <1>4, <1>5, <1>6, <1>7, <1>8

\* h is the reader of words after each character of s.
ReadingWords(h, s) == h[0] = WordStart /\ \A n \in 1..Len(s) : h[n] = ReadWord(h[n - 1], s[n])

\* set_cmd_line() reads one character after the other.
LEMMA WordsAre ==
  ASSUME NEW s \in Text, s # <<>>
  PROVE  \E h : /\ ReadingWords(h, s)
                /\ SetCmdLine(s) = LET end == h[Len(s)]
                                   IN IF end.error \/ end.escaped THEN Failed
                                      ELSE Append(end.words, end.word)
<1> DEFINE m == Len(s)
           step == [n \in 1..m |-> [t \in WordReader |-> ReadWord(t, s[n])]]
           Is(g) == g = [n \in 0..m |-> IF n = 0 THEN WordStart ELSE ReadWord(g[n - 1], s[n])]
           End(end) == IF end.error \/ end.escaped THEN Failed ELSE Append(end.words, end.word)
<1>1. m \in Nat /\ WordStart \in WordReader /\ \A n \in 1..m : s[n] \in Char
  BY DEF WordStart, WordReader, Text
<1>2. /\ step \in [1..m -> [WordReader -> WordReader]]
      /\ \A n \in 1..m : \A t \in WordReader : step[n][t] = ReadWord(t, s[n])
  <2> HIDE DEF m
  <2> QED BY <1>1, ReadWordType
<1>3. PICK h : Loop(h, m, WordReader, WordStart, step)
  <2> HIDE DEF m, step
  <2> QED BY <1>1, <1>2, Recursion
<1>4. /\ h \in [0..m -> WordReader] /\ h[0] = WordStart
      /\ \A n \in 1..m : h[n] = ReadWord(h[n - 1], s[n])
  <2> HIDE DEF step, m
  <2>1. \A n \in 1..m : n - 1 \in 0..m
    BY <1>1
  <2>2. QED BY <1>1, <1>2, <1>3, <2>1 DEF Loop
<1>5. Is(h)
  <2> HIDE DEF step, m
  <2>1. \A n \in 0..m : h[n] = IF n = 0 THEN WordStart ELSE ReadWord(h[n - 1], s[n])
    BY <1>1, <1>4
  <2>2. QED BY <1>4, <2>1
<1>6. SetCmdLine(s) = End((CHOOSE g : Is(g))[m])
  BY DEF SetCmdLine, ReadWord, AddToWord, WordStart
<1>7. PICK g : Is(g) /\ SetCmdLine(s) = End(g[m])
  <2> HIDE DEF Is, End
  <2> QED BY <1>5, <1>6
<1>8. g[0] = WordStart /\ \A n \in 1..m : g[n] = ReadWord(g[n - 1], s[n])
  <2> HIDE DEF step, m
  <2> QED BY <1>1, <1>7
<1>9. QED BY <1>7, <1>8 DEF ReadingWords

\* The words w are complete, and u is what there is of the next one: outside
\* quotes, inside them, and inside them after a backslash.
OutAt(w, u) == [words |-> w, word |-> u, quoted |-> FALSE, escaped |-> FALSE, error |-> FALSE]
InAt(w, u) == [words |-> w, word |-> u, quoted |-> TRUE, escaped |-> FALSE, error |-> FALSE]
EscapedAt(w, u) == [words |-> w, word |-> u, quoted |-> TRUE, escaped |-> TRUE, error |-> FALSE]

\* What a character does outside quotes.
LEMMA ReadOutside ==
  ASSUME NEW w, NEW u
  PROVE  /\ ReadWord(OutAt(w, u), Quote) = InAt(w, u)
         /\ ReadWord(OutAt(w, u), Blank) = OutAt(Append(w, u), <<>>)
         /\ \A c : c \notin {Backslash, Quote, Blank} => ReadWord(OutAt(w, u), c) = OutAt(w, Append(u, c))
<1> DEFINE t == OutAt(w, u)
<1>1. ReadWord(t, Quote) = InAt(w, u)
  <2>1. Quote # Backslash /\ Quote # Blank
    BY Characters
  <2>2. ReadWord(t, Quote) = [t EXCEPT !.quoted = ~@]
    BY <2>1 DEF ReadWord, OutAt
  <2>3. QED BY <2>2 DEF OutAt, InAt
<1>2. ReadWord(t, Blank) = OutAt(Append(w, u), <<>>)
  <2>1. Blank # Backslash /\ Blank # Quote
    BY Characters
  <2>2. ReadWord(t, Blank) = [t EXCEPT !.words = Append(@, t.word), !.word = <<>>]
    BY <2>1 DEF ReadWord, OutAt
  <2>3. QED BY <2>2 DEF OutAt
<1>3. ASSUME NEW c, c \notin {Backslash, Quote, Blank}
      PROVE  ReadWord(t, c) = OutAt(w, Append(u, c))
  <2>1. ReadWord(t, c) = AddToWord(t, c)
    BY <1>3 DEF ReadWord, OutAt
  <2>2. QED BY <2>1 DEF AddToWord, OutAt
<1>4. QED BY <1>1, <1>2, <1>3

\* What a character does inside quotes.
LEMMA ReadInside ==
  ASSUME NEW w, NEW u
  PROVE  /\ ReadWord(InAt(w, u), Quote) = OutAt(w, u)
         /\ ReadWord(InAt(w, u), Backslash) = EscapedAt(w, u)
         /\ \A c : c \notin {Backslash, Quote} => ReadWord(InAt(w, u), c) = InAt(w, Append(u, c))
         /\ \A c : c \in {Backslash, Quote} => ReadWord(EscapedAt(w, u), c) = InAt(w, Append(u, c))
<1> DEFINE t == InAt(w, u)
<1>1. ReadWord(t, Quote) = OutAt(w, u)
  <2>1. Quote # Backslash /\ Quote # Blank
    BY Characters
  <2>2. ReadWord(t, Quote) = [t EXCEPT !.quoted = ~@]
    BY <2>1 DEF ReadWord, InAt
  <2>3. QED BY <2>2 DEF OutAt, InAt
<1>2. ReadWord(t, Backslash) = EscapedAt(w, u)
  <2>1. Backslash # Quote /\ Backslash # Blank
    BY Characters
  <2>2. ReadWord(t, Backslash) = [t EXCEPT !.escaped = TRUE]
    BY <2>1 DEF ReadWord, InAt
  <2>3. QED BY <2>2 DEF InAt, EscapedAt
<1>3. ASSUME NEW c, c \notin {Backslash, Quote} PROVE ReadWord(t, c) = InAt(w, Append(u, c))
  <2>1. ReadWord(t, c) = AddToWord(t, c)
    BY <1>3 DEF ReadWord, InAt
  <2>2. QED BY <2>1 DEF AddToWord, InAt
<1>4. ASSUME NEW c, c \in {Backslash, Quote}
      PROVE  ReadWord(EscapedAt(w, u), c) = InAt(w, Append(u, c))
  <2> DEFINE e == EscapedAt(w, u)
  <2>1. c # "n"
    BY <1>4 DEF Quote, Backslash
  <2>2. ReadWord(e, c) = AddToWord(e, c)
    BY <1>4, <2>1 DEF ReadWord, EscapedAt
  <2>3. QED BY <2>2 DEF AddToWord, InAt, EscapedAt
<1>5. QED BY <1>1, <1>2, <1>3, <1>4

\* A part of a stretch is a stretch.
LEMMA StretchPart ==
  ASSUME NEW s \in Text, NEW p \in Nat, NEW t \in Text, Stretch(s, p, t),
         NEW ss \in Seq(Text), NEW at, PartsAt(t, ss, at), NEW n \in 1..Len(ss)
  PROVE  /\ Stretch(s, p + at[n - 1], ss[n]) /\ p + at[n - 1] \in Nat
         /\ p + at[n] = (p + at[n - 1]) + Len(ss[n])
<1>1. Len(ss) \in Nat /\ ss[n] \in Seq(Char) /\ Len(s) \in Nat /\ Len(t) \in Nat
  BY DEF Text
<1> DEFINE a == at[n - 1]  l == Len(ss[n])
<1>2. a \in Nat /\ l \in Nat
  <2>1. n - 1 \in 0..Len(ss)
    BY <1>1
  <2>2. at \in [0..Len(ss) -> Nat]
    BY DEF PartsAt
  <2>3. l \in Nat
    BY <1>1, LenProperties
  <2>4. QED BY <2>1, <2>2, <2>3
<1>3. at[n] = a + l /\ a + l <= Len(t) /\ \A i \in 1..l : t[a + i] = ss[n][i]
  <2>1. /\ at[n] = at[n - 1] + Len(ss[n]) /\ at[n] <= Len(t)
        /\ \A i \in 1..Len(ss[n]) : t[at[n - 1] + i] = ss[n][i]
    BY DEF PartsAt
  <2>2. QED BY <2>1
<1>4. p + Len(t) <= Len(s) /\ \A i \in 1..Len(t) : s[p + i] = t[i]
  BY DEF Stretch
<1> HIDE DEF a, l
<1>5. (p + a) + l <= Len(s)
  BY <1>1, <1>2, <1>3, <1>4
<1>6. ASSUME NEW i \in 1..l PROVE s[(p + a) + i] = ss[n][i]
  <2> DEFINE j == a + i
  <2>1. j \in 1..Len(t) /\ p + j = (p + a) + i
    BY <1>1, <1>2, <1>3
  <2>2. t[j] = ss[n][i]
    BY <1>3
  <2> HIDE DEF j
  <2>3. s[p + j] = t[j]
    BY <1>4, <2>1
  <2>4. QED BY <2>1, <2>2, <2>3
<1>7. Stretch(s, p + a, ss[n])
  BY <1>5, <1>6 DEF Stretch, l
<1>8. p + at[n] = (p + a) + l /\ p + a \in Nat
  BY <1>2, <1>3
<1>9. QED BY <1>7, <1>8 DEF a, l

\* A stretch that has nothing special is added to the word.
LEMMA WordStretch ==
  ASSUME NEW s \in Text, NEW h, ReadingWords(h, s), NEW p \in Nat, NEW e \in Text, Stretch(s, p, e),
         NEW w, h[p] = OutAt(w, <<>>),
         Plain(e)
  PROVE  h[p + Len(e)] = OutAt(w, e)
<1> DEFINE P(j) == SubSeq(e, 1, j)
           S == {j \in 0..Len(e) : h[p + j] = OutAt(w, P(j))}
<1>1. Len(e) \in Nat /\ e \in Seq(Char) /\ Len(s) \in Nat /\ DOMAIN e = 1..Len(e)
  BY DEF Text
<1>2. 0 \in S
  <2>1. p + 0 = p
    OBVIOUS
  <2>2. P(0) = <<>>
    BY <1>1, PrefixIs
  <2> HIDE DEF P
  <2>3. h[p + 0] = OutAt(w, P(0))
    BY <2>1, <2>2
  <2>4. QED BY <1>1, <2>3
<1>3. ASSUME NEW j \in 0..(Len(e) - 1), j \in S PROVE j + 1 \in S
  <2> DEFINE k == j + 1  n == p + k
  <2>1. /\ k \in 1..Len(e) /\ k \in 0..Len(e) /\ k - 1 = j /\ n \in 1..Len(s) /\ n - 1 = p + j
    BY <1>1 DEF Stretch
  <2> HIDE DEF n, k
  <2>2. s[n] = e[k] /\ e[k] # Quote /\ e[k] # Backslash /\ e[k] # Blank
    BY <1>1, <2>1 DEF Plain, Has, Stretch, n
  <2>3. h[n] = ReadWord(h[p + j], e[k])
    BY <2>1, <2>2 DEF ReadingWords
  <2>4. P(k) = Append(P(j), e[k])
    BY <1>1, <2>1, PrefixIs
  <2>5. h[p + j] = OutAt(w, P(j))
    BY <1>3
  <2>6. h[n] = OutAt(w, P(k))
    <3> DEFINE u == P(j)  x == e[k]
    <3>1. x # Quote /\ x # Backslash /\ x # Blank
      BY <2>2
    <3> HIDE DEF u, x
    <3>2. ReadWord(OutAt(w, u), x) = OutAt(w, Append(u, x))
      BY <3>1, ReadOutside
    <3>3. QED BY <2>3, <2>4, <2>5, <3>2 DEF u, x
  <2>7. k \in S
    BY <2>1, <2>6 DEF n
  <2>8. QED BY <2>7 DEF k
<1>4. Len(e) \in S
  <2> HIDE DEF S
  <2> QED BY <1>1, <1>2, <1>3, UpTo
<1>5. P(Len(e)) = e
  BY <1>1, PrefixIs
<1>6. QED BY <1>4, <1>5

\* A character as it is written in quotes.
Piece(c) == IF c \in {Quote, Backslash} THEN <<Backslash, c>> ELSE <<c>>
Pieces(a) == [n \in DOMAIN a |-> Piece(a[n])]

\* In quotes it is read as what it stands for.
LEMMA WordPiece ==
  ASSUME NEW s \in Text, NEW h, ReadingWords(h, s), NEW p \in Nat, NEW c \in Char,
         Stretch(s, p, Piece(c)), NEW w, NEW u, h[p] = InAt(w, u)
  PROVE  h[p + Len(Piece(c))] = InAt(w, Append(u, c))
<1>1. CASE c \in {Quote, Backslash}
  <2>1. Piece(c) = <<Backslash, c>>
    BY <1>1 DEF Piece
  <2>2. Len(Piece(c)) = 2 /\ Piece(c)[1] = Backslash /\ Piece(c)[2] = c /\ Len(s) \in Nat
    BY <2>1 DEF Text
  <2>3. p + 2 <= Len(s) /\ \A i \in 1..2 : s[p + i] = Piece(c)[i]
    BY <2>2 DEF Stretch
  <2> DEFINE k == p + 1  n == p + 2
  <2>4. k \in 1..Len(s) /\ n \in 1..Len(s) /\ k - 1 = p /\ n - 1 = k
    BY <2>2, <2>3
  <2>5. s[k] = Backslash /\ s[n] = c
    BY <2>2, <2>3
  <2> HIDE DEF k, n
  <2>6. h[k] = ReadWord(h[p], Backslash)
    BY <2>4, <2>5 DEF ReadingWords
  <2>7. h[k] = EscapedAt(w, u)
    BY <2>6, ReadInside
  <2>8. h[n] = ReadWord(h[k], c)
    BY <2>4, <2>5 DEF ReadingWords
  <2>9. h[n] = InAt(w, Append(u, c))
    BY <1>1, <2>7, <2>8, ReadInside
  <2>10. QED BY <2>2, <2>9 DEF n
<1>2. CASE c \notin {Quote, Backslash}
  <2>1. Piece(c) = <<c>> /\ Len(Piece(c)) = 1
    BY <1>2 DEF Piece
  <2> DEFINE n == p + 1
  <2>2. n \in 1..Len(s) /\ n - 1 = p /\ s[n] = c
    BY <2>1, StretchOne
  <2> HIDE DEF n
  <2>3. h[n] = ReadWord(h[p], c)
    BY <2>2 DEF ReadingWords
  <2>4. h[n] = InAt(w, Append(u, c))
    BY <1>2, <2>3, ReadInside
  <2>5. QED BY <2>1, <2>4 DEF n
<1>3. QED BY <1>1, <1>2

\* Pieces are texts.
LEMMA PiecesType ==
  ASSUME NEW a \in Text
  PROVE  /\ Pieces(a) \in Seq(Text) /\ Len(Pieces(a)) = Len(a) /\ Len(a) \in Nat
         /\ \A n \in 1..Len(a) : a[n] \in Char /\ Pieces(a)[n] = Piece(a[n])
<1>1. DOMAIN a = 1..Len(a) /\ Len(a) \in Nat /\ \A n \in 1..Len(a) : a[n] \in Char
  BY DEF Text
<1>2. \A c \in Char : Piece(c) \in Text
  BY Characters DEF Piece, Text
<1>3. QED BY <1>1, <1>2 DEF Pieces

\* What stands in quotes is read as the argument.
LEMMA WordPieces ==
  ASSUME NEW s \in Text, NEW h, ReadingWords(h, s), NEW p \in Nat, NEW a \in Text,
         Stretch(s, p, FlattenSeq(Pieces(a))), NEW w, h[p] = InAt(w, <<>>)
  PROVE  h[p + Len(FlattenSeq(Pieces(a)))] = InAt(w, a)
<1> DEFINE m == Len(a)
           ss == Pieces(a)
           F == FlattenSeq(ss)
           P(j) == SubSeq(a, 1, j)
<1>1. /\ ss \in Seq(Text) /\ Len(ss) = m /\ m \in Nat /\ a \in Seq(Char)
      /\ \A n \in 1..m : a[n] \in Char /\ ss[n] = Piece(a[n])
  BY PiecesType DEF Text
<1> HIDE DEF ss
<1>2. F \in Text /\ \E at : PartsAt(F, ss, at)
  BY <1>1, FlattenParts DEF Text
<1>3. Stretch(s, p, F)
  BY DEF ss
<1> HIDE DEF F
<1>4. PICK at : PartsAt(F, ss, at)
  BY <1>2
<1>5. at[0] = 0 /\ at[m] = Len(F)
  BY <1>1, <1>4 DEF PartsAt
<1> DEFINE S == {j \in 0..m : h[p + at[j]] = InAt(w, P(j))}
<1>6. 0 \in S
  <2>1. P(0) = <<>>
    BY <1>1, PrefixIs
  <2> HIDE DEF P
  <2>2. p + at[0] = p
    BY <1>5
  <2>3. QED BY <1>1, <2>1, <2>2
<1>7. ASSUME NEW j \in 0..(m - 1), j \in S PROVE j + 1 \in S
  <2> DEFINE k == j + 1  c == a[k]  u == P(j)  x == p + at[j]
  <2>1. k \in 1..m /\ k \in 0..m /\ k - 1 = j
    BY <1>1
  <2> HIDE DEF k
  <2>2. c \in Char /\ ss[k] = Piece(c)
    BY <1>1, <2>1
  <2>3. Stretch(s, x, ss[k]) /\ x \in Nat /\ p + at[k] = x + Len(ss[k])
    <3>1. /\ Stretch(s, p + at[k - 1], ss[k]) /\ p + at[k - 1] \in Nat
          /\ p + at[k] = (p + at[k - 1]) + Len(ss[k])
      BY <1>1, <1>2, <1>3, <1>4, <2>1, StretchPart
    <3>2. QED BY <2>1, <3>1
  <2>4. h[x] = InAt(w, u)
    BY <1>7
  <2>5. P(k) = Append(u, c)
    BY <1>1, <2>1, PrefixIs
  <2> HIDE DEF c, u, x, P
  <2>6. h[x + Len(Piece(c))] = InAt(w, Append(u, c))
    BY <2>2, <2>3, <2>4, WordPiece
  <2>7. k \in S
    BY <2>1, <2>2, <2>3, <2>5, <2>6
  <2>8. QED BY <2>7 DEF k
<1>8. m \in S
  <2> HIDE DEF S
  <2> QED BY <1>1, <1>6, <1>7, UpTo
<1>9. P(m) = a
  BY <1>1, PrefixIs
<1>10. QED BY <1>5, <1>8, <1>9 DEF F, ss

\* An argument as a configuration spells it is a text.
LEMMA SpelledType ==
  ASSUME NEW a \in Text
  PROVE  /\ Spelled(a) \in Text
         /\ ~Plain(a) => Spelled(a) = (<<Quote>> \o FlattenSeq(Pieces(a))) \o <<Quote>>
         /\ FlattenSeq(Pieces(a)) \in Text /\ <<Quote>> \o FlattenSeq(Pieces(a)) \in Text
         /\ <<Quote>> \in Text
<1> DEFINE F == FlattenSeq(Pieces(a))  q == <<Quote>>
<1>1. F \in Seq(Char)
  <2>1. Pieces(a) \in Seq(Seq(Char))
    BY PiecesType DEF Text
  <2>2. QED BY <2>1, FlattenParts
<1>2. q \in Seq(Char)
  BY Characters
<1>3. q \o F \in Seq(Char) /\ (q \o F) \o q \in Seq(Char)
  <2> HIDE DEF q, F
  <2>1. q \o F \in Seq(Char)
    BY <1>1, <1>2, ConcatProperties
  <2>2. QED BY <1>2, <2>1, ConcatProperties
<1>4. ~Plain(a) => Spelled(a) = (q \o F) \o q
  BY DEF Spelled, Pieces, Piece
<1>5. Plain(a) => Spelled(a) = a
  BY DEF Spelled
<1>6. QED BY <1>1, <1>2, <1>3, <1>4, <1>5 DEF Text

\* And it is read as what was meant.
LEMMA WordSpelled ==
  ASSUME NEW s \in Text, NEW h, ReadingWords(h, s), NEW p \in Nat, NEW a \in Text,
         Stretch(s, p, Spelled(a)), NEW w, h[p] = OutAt(w, <<>>)
  PROVE  h[p + Len(Spelled(a))] = OutAt(w, a)
<1>1. CASE Plain(a)
  <2>1. Spelled(a) = a
    BY <1>1 DEF Spelled
  <2>2. QED BY <1>1, <2>1, WordStretch
<1>2. CASE ~Plain(a)
  <2> DEFINE F == FlattenSeq(Pieces(a))  q == <<Quote>>  x == q \o F  n == p + 1  l == p + Len(x)
  <2>1. F \in Text /\ q \in Text /\ x \in Text /\ Spelled(a) = x \o q /\ Len(q) = 1 /\ Quote \in Char
    BY <1>2, SpelledType, Characters
  <2>2. Stretch(s, p, x \o <<Quote>>)
    BY <2>1
  <2> HIDE DEF x
  <2>3. /\ Stretch(s, p, x) /\ Len(x \o <<Quote>>) = Len(x) + 1 /\ l \in Nat
        /\ l + 1 \in 1..Len(s) /\ (l + 1) - 1 = l /\ s[l + 1] = Quote
    BY <2>1, <2>2, StretchChar DEF Text
  <2> HIDE DEF F, q
  <2>4. Stretch(s, p, q) /\ Stretch(s, p + Len(q), F) /\ Len(x) = Len(q) + Len(F) /\ Len(F) \in Nat
    <3>1. Stretch(s, p, q \o F)
      BY <2>3 DEF x
    <3>2. /\ Stretch(s, p, q) /\ Stretch(s, p + Len(q), F)
          /\ Len(q \o F) = Len(q) + Len(F) /\ Len(q) \in Nat /\ Len(F) \in Nat
      BY <2>1, <3>1, StretchConcat DEF Text
    <3>3. QED BY <3>2 DEF x
  <2>5. n \in 1..Len(s) /\ n - 1 = p /\ s[n] = Quote /\ n \in Nat
    <3>1. Stretch(s, p, <<Quote>>)
      BY <2>4 DEF q
    <3>2. QED BY <3>1, StretchOne
  <2>6. Stretch(s, n, F) /\ l = n + Len(F)
    BY <2>1, <2>4
  <2> HIDE DEF n
  <2>7. h[n] = ReadWord(h[p], Quote)
    BY <2>5 DEF ReadingWords
  <2>8. h[n] = InAt(w, <<>>)
    BY <2>7, ReadOutside
  <2>9. h[n + Len(F)] = InAt(w, a)
    BY <2>5, <2>6, <2>8, WordPieces DEF F
  <2>10. h[l] = InAt(w, a)
    BY <2>6, <2>9
  <2> DEFINE k == l + 1
  <2>11. k \in 1..Len(s) /\ k - 1 = l /\ s[k] = Quote /\ k = p + Len(x \o <<Quote>>)
    <3>1. k = p + (Len(x) + 1)
      BY <2>1, <2>4
    <3>2. QED BY <2>3, <3>1
  <2> HIDE DEF k, l
  <2>12. h[k] = ReadWord(h[l], Quote)
    BY <2>11 DEF ReadingWords
  <2>13. h[k] = OutAt(w, a)
    BY <2>10, <2>12, ReadInside
  <2>14. QED BY <2>1, <2>11, <2>13 DEF q
<1>3. QED BY <1>1, <1>2

-----------------------------------------------------------------------------
(* CommandAsConfigured: the command line.                                   *)

\* The first word ends at the first blank.
LEMMA FirstWord ==
  ASSUME NEW s \in Text, NEW name \in Text, ~Has(name, Blank), Stretch(s, 0, name),
         Len(s) = Len(name) \/ (Len(name) + 1 \in 1..Len(s) /\ s[Len(name) + 1] = Blank)
  PROVE  Split(s, Blank)[1] = name
<1> DEFINE m == Len(s)  k == Len(name)  W == Seq(Seq(Char))
<1>1. s \in Seq(Char) /\ name \in Seq(Char) /\ m \in Nat /\ k \in Nat
  BY DEF Text
<1>2. PICK h : Splitting(h, Char, s, Blank)
  BY <1>1, SplitIs
<1>3. h[k] = <<name>>
  <2>1. PICK p \in Nat : p = 0
    OBVIOUS
  <2>2. PICK c : c = Blank
    OBVIOUS
  <2>3. PICK w \in Seq(Text) : w = <<>>
    <3>1. <<>> \in Seq(Text)
      OBVIOUS
    <3>2. QED BY <3>1
  <2>4. Append(w, <<>>) = <<<<>>>> /\ Append(w, name) = <<name>>
    BY <2>1, <2>2, <2>3
  <2>5. Stretch(s, p, name)
    BY <2>1, <2>2, <2>3
  <2>6. h[p] = Append(w, <<>>)
    BY <1>2, <2>1, <2>2, <2>3, <2>4 DEF Splitting
  <2>7. Splitting(h, Char, s, c)
    BY <1>2, <2>1, <2>2, <2>3
  <2>8. ~Has(name, c)
    BY <2>1, <2>2, <2>3
  <2>9. h[p + Len(name)] = Append(w, name)
    BY ONLY <2>5, <2>6, <2>7, <2>8, s \in Text, name \in Text, p \in Nat, w \in Seq(Text), SplitStretch
  <2>10. p + k = k
    BY <1>1, <2>1
  <2>11. QED BY ONLY <2>4, <2>9, <2>10
<1>4. CASE m = k
  BY <1>2, <1>3, <1>4 DEF Splitting
<1>5. CASE k + 1 \in 1..m /\ s[k + 1] = Blank
  <2> DEFINE Right(n) == k + 1 <= n => h[n][1] = name /\ Len(h[n]) >= 2
             S == {n \in 0..m : Right(n)}
  <2>1. 0 \in S
    BY <1>1
  <2>2. ASSUME NEW n \in 0..(m - 1), n \in S PROVE n + 1 \in S
    <3> DEFINE j == n + 1  v == h[n]
    <3>1. j \in 1..m /\ j \in 0..m /\ j - 1 = n /\ n \in 0..m
      BY <1>1
    <3>2. v \in W /\ v # <<>> /\ Len(v) \in Nat
      <4>1. h \in [0..m -> W \ {<<>>}]
        BY <1>2 DEF Splitting
      <4>2. v \in W /\ v # <<>>
        BY ONLY <3>1, <4>1
      <4> HIDE DEF v
      <4>3. QED BY ONLY <4>2
    <3> HIDE DEF j
    <3>3. h[j] = SplitStep(s, Blank, j, v)
      BY <1>2, <3>1 DEF Splitting
    <3>4. CASE n < k
      <4>1. ~(k + 1 <= j)
        BY <1>1, <3>1, <3>4
      <4>2. QED BY <3>1, <4>1 DEF j
    <3>5. CASE n = k
      <4>1. s[j] = Blank
        BY <1>5, <3>5 DEF j
      <4>2. v = <<name>>
        BY <1>3, <3>5
      <4>3. h[j] = Append(v, <<>>)
        BY <3>3, <4>1 DEF SplitStep
      <4>4. v[1] = name /\ Len(v) = 1
        BY <4>2
      <4> HIDE DEF v
      <4>5. Right(j)
        <5>1. <<>> \in Seq(Char)
          OBVIOUS
        <5>2. /\ Len(Append(v, <<>>)) = Len(v) + 1
              /\ \A i \in 1..Len(v) : Append(v, <<>>)[i] = v[i]
          BY <3>2, <5>1, AppendProperties
        <5>3. 1 \in 1..Len(v) /\ Len(v) + 1 >= 2
          BY <4>4
        <5>4. QED BY <4>3, <4>4, <5>2, <5>3
      <4>6. QED BY <3>1, <4>5 DEF j
    <3>6. CASE n > k
      <4>1. v[1] = name /\ Len(v) >= 2
        BY <1>1, <3>1, <3>6, <2>2
      <4> HIDE DEF v
      <4>2. CASE s[j] = Blank
        <5>1. h[j] = Append(v, <<>>)
          BY <3>3, <4>2 DEF SplitStep
        <5>2. <<>> \in Seq(Char)
          OBVIOUS
        <5>3. /\ Len(Append(v, <<>>)) = Len(v) + 1
              /\ \A i \in 1..Len(v) : Append(v, <<>>)[i] = v[i]
          BY <3>2, <5>2, AppendProperties
        <5>4. 1 \in 1..Len(v) /\ Len(v) + 1 >= 2
          BY <3>2, <4>1
        <5>5. Right(j)
          BY <4>1, <5>1, <5>3, <5>4
        <5>6. QED BY <3>1, <5>5 DEF j
      <4>3. CASE s[j] # Blank
        <5> DEFINE l == Len(v)  e == Append(v[l], s[j])  r == [v EXCEPT ![l] = e]
        <5>1. l \in 1..Len(v) /\ 1 \in 1..Len(v) /\ l # 1 /\ v[l] \in Seq(Char) /\ s[j] \in Char
          BY <1>1, <3>1, <3>2, <4>1
        <5>2. e \in Seq(Char)
          BY <5>1, AppendProperties
        <5>3. h[j] = r
          BY <3>3, <4>3 DEF SplitStep
        <5> HIDE DEF e, l
        <5>4. Len(r) = Len(v) /\ \A i \in 1..Len(v) : r[i] = IF i = l THEN e ELSE v[i]
          BY <3>2, <5>1, <5>2, ExceptSeq
        <5>5. r[1] = name /\ Len(r) >= 2
          BY <4>1, <5>1, <5>4
        <5>6. Right(j)
          BY <5>3, <5>5
        <5>7. QED BY <3>1, <5>6 DEF j
      <4>4. QED BY <4>2, <4>3
    <3>7. QED BY <1>1, <3>1, <3>4, <3>5, <3>6
  <2>3. m \in S
    <3> HIDE DEF S
    <3> QED BY <1>1, <2>1, <2>2, UpTo
  <2>4. h[m][1] = name
    BY <1>5, <2>3
  <2>5. QED BY <1>2, <2>4 DEF Splitting
<1>6. QED BY <1>4, <1>5

\* The search of posix finds the file in the first directory that has it.
LEMMA FirstFile ==
  ASSUME NEW dirs \in Seq(Text), NEW name, NEW files
  PROVE  LET hits == {n \in DOMAIN dirs : Join(dirs[n], name) \in files}
         IN /\ First([n \in DOMAIN dirs |-> Join(dirs[n], name)], files)
                 = IF hits = {} THEN <<>> ELSE Join(dirs[Min(hits)], name)
            /\ hits # {} => Min(hits) \in hits
<1> DEFINE hits == {n \in DOMAIN dirs : Join(dirs[n], name) \in files}
           c == [n \in DOMAIN dirs |-> Join(dirs[n], name)]
           I == {n \in 1..Len(c) : c[n] \in files}
<1>1. DOMAIN dirs = 1..Len(dirs) /\ Len(dirs) \in Nat
  OBVIOUS
<1>2. Len(c) = Len(dirs) /\ \A n \in 1..Len(dirs) : c[n] = Join(dirs[n], name)
  BY <1>1
<1> HIDE DEF c
<1>3. I = hits
  BY <1>1, <1>2
<1>4. SelectInSeq(c, LAMBDA f : f \in files) = IF hits = {} THEN 0 ELSE Min(hits)
  <2>1. SelectInSeq(c, LAMBDA f : f \in files) = IF I = {} THEN 0 ELSE Min(I)
    BY DEF SelectInSeq
  <2>2. QED BY <1>3, <2>1
<1>5. ASSUME hits # {} PROVE Min(hits) \in hits
  <2>1. hits \subseteq Nat
    BY <1>1
  <2> HIDE DEF hits
  <2>2. PICK i \in hits : \A j \in hits : i <= j
    BY <1>5, <2>1, LeastOf
  <2>3. QED BY <2>2 DEF Min
<1>6. First(c, files) = IF hits = {} THEN <<>> ELSE Join(dirs[Min(hits)], name)
  <2>1. CASE hits = {}
    BY <1>4, <2>1 DEF First
  <2>2. CASE hits # {}
    <3> DEFINE n == Min(hits)
    <3>1. n \in 1..Len(dirs) /\ n # 0
      BY <1>1, <1>5, <2>2
    <3>2. c[n] = Join(dirs[n], name)
      BY <1>2, <3>1
    <3> HIDE DEF n, hits
    <3>3. SelectInSeq(c, LAMBDA f : f \in files) = n
      BY <1>4, <2>2 DEF n
    <3>4. First(c, files) = c[n]
      BY <3>1, <3>3 DEF First
    <3>5. QED BY <2>2, <3>2, <3>4 DEF n
  <2>3. QED BY <2>1, <2>2
<1>7. QED BY <1>5, <1>6 DEF c

\* A path that is tried is not empty if the name is not.
LEMMA JoinNotEmpty ==
  ASSUME NEW dir \in Text, NEW name \in Text, name # <<>> PROVE Join(dir, name) # <<>>
<1>1. dir \in Seq(Char) /\ name \in Seq(Char) /\ Len(name) \in Nat /\ Len(name) # 0
  BY EmptySeq DEF Text
<1> DEFINE d == dir \o <<"/">>
<1>2. d \in Seq(Char)
  <2>1. "/" \in Char
    BY TextAssumption
  <2>2. <<"/">> \in Seq(Char)
    BY <2>1
  <2>3. QED BY <1>1, <2>2, ConcatProperties
<1> HIDE DEF d
<1>3. Len(dir \o name) = Len(dir) + Len(name) /\ dir \o name \in Seq(Char) /\ Len(dir) \in Nat
  BY <1>1, ConcatProperties
<1>4. Len(d \o name) = Len(d) + Len(name) /\ d \o name \in Seq(Char) /\ Len(d) \in Nat
  BY <1>1, <1>2, ConcatProperties
<1>5. dir \o name # <<>> /\ d \o name # <<>>
  <2>1. Len(dir \o name) # 0 /\ Len(d \o name) # 0
    BY <1>1, <1>3, <1>4
  <2>2. QED BY <1>3, <1>4, <2>1, EmptySeq
<1>6. QED BY <1>5 DEF Join, d

\* A part of the line behind the name stands as far behind what replaces it.
LEMMA StretchMoved ==
  ASSUME NEW s \in Text, NEW exe \in Text, NEW k \in 0..Len(s)
  PROVE  LET t == exe \o SubSeq(s, k + 1, Len(s))
         IN /\ t \in Text /\ Len(t) = Len(exe) + (Len(s) - k) /\ Stretch(t, 0, exe)
            /\ \A p \in k..Len(s), e \in Text :
                 Stretch(s, p, e) => Stretch(t, Len(exe) + (p - k), e)
<1> DEFINE r == SubSeq(s, k + 1, Len(s))  t == exe \o r
<1>1. s \in Seq(Char) /\ exe \in Seq(Char) /\ Len(s) \in Nat /\ Len(exe) \in Nat /\ k \in Nat
  BY DEF Text
<1>2. /\ r \in Seq(Char) /\ Len(r) = Len(s) - k
      /\ \A i \in 1..(Len(s) - k) : r[i] = s[k + i]
  <2> DEFINE a == k + 1  b == Len(s)
  <2>1. a \in 1..(Len(s) + 1) /\ b \in 0..Len(s) /\ \A i \in a..b : s[i] \in Char
    BY <1>1
  <2>2. /\ SubSeq(s, a, b) \in Seq(Char)
        /\ Len(SubSeq(s, a, b)) = IF a <= b THEN b - a + 1 ELSE 0
        /\ \A i \in 1..(b - a + 1) : SubSeq(s, a, b)[i] = s[a + i - 1]
    <3> HIDE DEF a, b
    <3>1. a \in Int /\ b \in Int
      BY <1>1, <2>1
    <3>2. QED BY <2>1, <3>1, SubSeqProperties
  <2>3. b - a + 1 = Len(s) - k /\ (a <= b <=> Len(s) - k > 0)
    BY <1>1
  <2>4. ASSUME NEW i \in 1..(Len(s) - k) PROVE r[i] = s[k + i]
    <3>1. a + i - 1 = k + i
      BY <1>1
    <3>2. i \in 1..(b - a + 1)
      BY <2>3
    <3>3. QED BY <2>2, <3>1, <3>2
  <2>5. Len(r) = Len(s) - k
    <3>1. Len(r) = IF a <= b THEN b - a + 1 ELSE 0
      BY <2>2
    <3>2. k <= Len(s)
      BY <1>1
    <3> HIDE DEF a, b, r
    <3>3. QED BY <1>1, <2>3, <3>1, <3>2
  <2>6. QED BY <2>2, <2>4, <2>5
<1> HIDE DEF r
<1>3. /\ t \in Seq(Char) /\ Len(t) = Len(exe) + Len(r)
      /\ \A i \in 1..(Len(exe) + Len(r)) : t[i] = IF i <= Len(exe) THEN exe[i] ELSE r[i - Len(exe)]
  BY <1>1, <1>2, ConcatProperties
<1> HIDE DEF t
<1>4. Stretch(t, 0, exe)
  <2>1. ASSUME NEW i \in 1..Len(exe) PROVE t[0 + i] = exe[i]
    <3>1. 0 + i = i /\ i \in 1..(Len(exe) + Len(r)) /\ i <= Len(exe)
      BY <1>1, <1>2
    <3>2. QED BY <1>3, <3>1
  <2>2. 0 + Len(exe) <= Len(t)
    BY <1>1, <1>2, <1>3
  <2>3. QED BY <2>1, <2>2 DEF Stretch
<1>5. ASSUME NEW p \in k..Len(s), NEW e \in Text, Stretch(s, p, e)
      PROVE  Stretch(t, Len(exe) + (p - k), e)
  <2> DEFINE q == Len(exe) + (p - k)
  <2>1. p \in Nat /\ Len(e) \in Nat /\ p + Len(e) <= Len(s) /\ \A i \in 1..Len(e) : s[p + i] = e[i]
    <3>1. p \in Nat /\ Len(e) \in Nat
      BY <1>1 DEF Text
    <3>2. QED BY <1>5, <3>1 DEF Stretch
  <2>2. q + Len(e) <= Len(t)
    BY <1>1, <1>2, <1>3, <2>1
  <2>3. ASSUME NEW i \in 1..Len(e) PROVE t[q + i] = e[i]
    <3> DEFINE j == q + i  l == (p - k) + i
    <3>1. /\ j \in 1..(Len(exe) + Len(r)) /\ ~(j <= Len(exe)) /\ j - Len(exe) = l
          /\ l \in 1..(Len(s) - k) /\ k + l = p + i
      BY <1>1, <1>2, <2>1
    <3> HIDE DEF j, l
    <3>2. t[j] = r[l]
      BY <1>3, <3>1
    <3>3. r[l] = s[k + l]
      BY <1>2, <3>1
    <3>4. QED BY <2>1, <3>1, <3>2, <3>3 DEF j
  <2>4. QED BY <2>2, <2>3 DEF Stretch
<1>6. QED BY <1>1, <1>2, <1>3, <1>4, <1>5 DEF t, r, Text

\* An argument of the command line, with the blank before it.
Word(a) == <<Blank>> \o Spelled(a)

\* The reader goes on to the next word at the blank and reads it.
LEMMA WordAdded ==
  ASSUME NEW s \in Text, NEW h, ReadingWords(h, s), NEW p \in Nat, NEW a \in Text,
         Stretch(s, p, Word(a)), NEW w, NEW u, h[p] = OutAt(w, u)
  PROVE  h[p + Len(Word(a))] = OutAt(Append(w, u), a)
<1> DEFINE b == <<Blank>>  e == Spelled(a)  n == p + 1
<1>1. b \in Seq(Char) /\ Len(b) = 1 /\ e \in Text /\ e \in Seq(Char) /\ Word(a) = b \o e
  BY Characters, SpelledType DEF Word, Text
<1> HIDE DEF b, e
<1>2. Stretch(s, p, b) /\ Stretch(s, p + Len(b), e) /\ Len(Word(a)) = 1 + Len(e) /\ Len(e) \in Nat
  <2>1. Stretch(s, p, b \o e)
    BY <1>1
  <2>2. /\ Stretch(s, p, b) /\ Stretch(s, p + Len(b), e)
        /\ Len(b \o e) = Len(b) + Len(e) /\ Len(b) \in Nat /\ Len(e) \in Nat
    BY <1>1, <2>1, StretchConcat
  <2>3. QED BY <1>1, <2>2
<1>3. n \in 1..Len(s) /\ n - 1 = p /\ s[n] = Blank /\ n \in Nat
  <2>1. Stretch(s, p, <<Blank>>)
    BY <1>2 DEF b
  <2>2. QED BY <2>1, StretchOne
<1>4. Stretch(s, n, e) /\ p + Len(Word(a)) = n + Len(e)
  BY <1>1, <1>2
<1> HIDE DEF n
<1>5. h[n] = ReadWord(h[p], Blank)
  BY <1>3 DEF ReadingWords
<1>6. h[n] = OutAt(Append(w, u), <<>>)
  BY <1>5, ReadOutside
<1>7. h[n + Len(e)] = OutAt(Append(w, u), a)
  <2> DEFINE v == Append(w, u)
  <2>1. h[n] = OutAt(v, <<>>) /\ Stretch(s, n, Spelled(a))
    BY <1>4, <1>6 DEF e
  <2> HIDE DEF v
  <2>2. h[n + Len(Spelled(a))] = OutAt(v, a)
    BY <1>3, <2>1, WordSpelled
  <2>3. QED BY <2>2 DEF v, e
<1>8. QED BY <1>4, <1>7

\* s is the text first with args behind it; they end where at says.
LaidOut(s, first, args, at) ==
  /\ at \in [0..Len(args) -> Nat] /\ at[0] = Len(first) /\ at[Len(args)] = Len(s)
  /\ Stretch(s, 0, first)
  /\ \A n \in 1..Len(args) :
       Stretch(s, at[n - 1], Word(args[n])) /\ at[n] = at[n - 1] + Len(Word(args[n]))

\* A program and its arguments become the words that were meant.
LEMMA WordsOfCommand ==
  ASSUME NEW s \in Text, s # <<>>, NEW exe \in Text, Plain(exe), NEW args \in Seq(Text), NEW at,
         LaidOut(s, exe, args, at)
  PROVE  SetCmdLine(s) = <<exe>> \o args
<1> DEFINE m == Len(args)
           all == <<exe>> \o args
           P(n) == SubSeq(all, 1, n)
<1>1. m \in Nat /\ \A n \in 1..m : args[n] \in Text
  OBVIOUS
<1>2. /\ all \in Seq(Text) /\ Len(all) = m + 1 /\ all[1] = exe
      /\ \A n \in 1..m : all[n + 1] = args[n]
  <2> DEFINE x == <<exe>>
  <2>1. x \in Seq(Text) /\ Len(x) = 1 /\ x[1] = exe
    OBVIOUS
  <2> HIDE DEF x
  <2>2. /\ x \o args \in Seq(Text) /\ Len(x \o args) = 1 + m
        /\ \A i \in 1..(1 + m) : (x \o args)[i] = IF i <= 1 THEN x[i] ELSE args[i - 1]
    BY <2>1, ConcatProperties
  <2>3. ASSUME NEW n \in 1..m PROVE (x \o args)[n + 1] = args[n]
    <3> DEFINE j == n + 1
    <3>1. j \in 1..(1 + m) /\ ~(j <= 1) /\ j - 1 = n
      BY <1>1
    <3> HIDE DEF j
    <3>2. (x \o args)[j] = args[n]
      BY <2>2, <3>1
    <3>3. QED BY <3>2 DEF j
  <2>4. (x \o args)[1] = exe
    <3>1. 1 \in 1..(1 + m) /\ 1 <= 1
      BY <1>1
    <3>2. QED BY <2>1, <2>2, <3>1
  <2>5. 1 + m = m + 1
    BY <1>1
  <2>6. QED BY <2>2, <2>3, <2>4, <2>5 DEF x
<1> HIDE DEF all
<1>3. PICK h : /\ ReadingWords(h, s)
               /\ SetCmdLine(s) = LET end == h[Len(s)]
                                  IN IF end.error \/ end.escaped THEN Failed
                                     ELSE Append(end.words, end.word)
  BY WordsAre
<1> DEFINE S == {n \in 0..m : h[at[n]] = OutAt(P(n), all[n + 1])}
<1>4. 0 \in S
  <2>1. h[0] = OutAt(<<>>, <<>>)
    BY <1>3 DEF ReadingWords, WordStart, OutAt
  <2>2. PICK p \in Nat : p = 0
    OBVIOUS
  <2>3. PICK w : w = <<>>
    OBVIOUS
  <2>4. h[p] = OutAt(w, <<>>) /\ Stretch(s, p, exe)
    BY <2>1, <2>2, <2>3 DEF LaidOut
  <2>5. h[p + Len(exe)] = OutAt(w, exe)
    BY <1>3, <2>4, WordStretch
  <2>6. p + Len(exe) = at[0]
    <3>1. Len(exe) \in Nat
      BY DEF Text
    <3>2. QED BY <2>2, <3>1 DEF LaidOut
  <2>7. P(0) = w
    BY <1>2, <2>3, PrefixIs
  <2> HIDE DEF P
  <2>8. h[at[0]] = OutAt(P(0), exe)
    BY ONLY <2>5, <2>6, <2>7
  <2>9. 0 + 1 = 1 /\ 0 \in 0..m
    BY <1>1
  <2>10. all[0 + 1] = exe
    BY ONLY <2>9, <1>2
  <2>11. QED BY <2>8, <2>9, <2>10
<1>5. ASSUME NEW n \in 0..(m - 1), n \in S PROVE n + 1 \in S
  <2> DEFINE k == n + 1  a == args[k]  u == all[k]  w == P(n)  p == at[n]
  <2>1. k \in 1..m /\ k \in 0..m /\ k - 1 = n /\ n \in 0..m /\ k \in 1..(m + 1)
    BY <1>1
  <2>2. h[p] = OutAt(w, u)
    BY <1>5
  <2> HIDE DEF k
  <2>3. p \in Nat /\ Stretch(s, p, Word(a)) /\ at[k] = p + Len(Word(a)) /\ a \in Text
    BY <1>1, <2>1 DEF LaidOut
  <2>4. P(k) = Append(w, u)
    <3>1. k \in 1..Len(all)
      BY <1>2, <2>1
    <3>2. P(k) = Append(P(k - 1), all[k])
      BY <1>2, <3>1, PrefixIs
    <3>3. QED BY <2>1, <3>2
  <2>5. all[k + 1] = a
    BY <1>2, <2>1
  <2> HIDE DEF a, u, w, p, P
  <2>6. h[p + Len(Word(a))] = OutAt(Append(w, u), a)
    BY <1>3, <2>2, <2>3, WordAdded
  <2>7. h[at[k]] = OutAt(P(k), all[k + 1])
    BY <2>3, <2>4, <2>5, <2>6
  <2>8. k \in S
    BY <2>1, <2>7
  <2>9. QED BY <2>8 DEF k
<1>6. m \in S
  <2> HIDE DEF S
  <2> QED BY <1>1, <1>4, <1>5, UpTo
<1>7. SetCmdLine(s) = Append(P(m), all[m + 1])
  <2>1. h[Len(s)] = OutAt(P(m), all[m + 1])
    BY <1>6 DEF LaidOut
  <2>2. QED BY <1>3, <2>1 DEF OutAt
<1>8. P(m + 1) = Append(P(m), all[m + 1])
  <2> DEFINE k == m + 1
  <2>1. k \in 1..Len(all) /\ k - 1 = m
    BY <1>1, <1>2
  <2>2. P(k) = Append(P(k - 1), all[k])
    BY <1>2, <2>1, PrefixIs
  <2>3. QED BY <2>1, <2>2
<1>9. P(m + 1) = all
  BY <1>2, PrefixIs
<1>10. QED BY <1>7, <1>8, <1>9 DEF all

\* A configured command is laid out with its name in front.
LEMMA CommandLine ==
  ASSUME NEW c \in [name : Text, args : Seq(Text)]
  PROVE  ArgvOf(c) \in Text /\ \E at : LaidOut(ArgvOf(c), c.name, c.args, at)
<1> DEFINE args == c.args  name == c.name  m == Len(args)
           z == [n \in 1..m |-> Spelled(args[n])]
           f == <<name>> \o z
           g == [n \in 1..(m + 1) |-> IF n = 1 THEN f[n] ELSE <<Blank>> \o f[n]]
           s == FlattenSeq(g)
<1>1. name \in Text /\ args \in Seq(Text)
  OBVIOUS
<1> HIDE DEF name, args
<1>2. m \in Nat /\ DOMAIN args = 1..m /\ \A n \in 1..m : args[n] \in Text /\ Spelled(args[n]) \in Text
  BY <1>1, SpelledType
<1>3. z \in Seq(Text) /\ Len(z) = m /\ \A n \in 1..m : z[n] = Spelled(args[n])
  BY <1>2
<1> HIDE DEF z
<1>4. f \in Seq(Text) /\ Len(f) = m + 1 /\ f[1] = name /\ \A n \in 1..m : f[n + 1] = z[n]
  <2> DEFINE x == <<name>>
  <2>1. x \in Seq(Text) /\ Len(x) = 1 /\ x[1] = name
    BY <1>1
  <2> HIDE DEF x
  <2>2. /\ x \o z \in Seq(Text) /\ Len(x \o z) = 1 + m
        /\ \A i \in 1..(1 + m) : (x \o z)[i] = IF i <= 1 THEN x[i] ELSE z[i - 1]
    <3>1. /\ x \o z \in Seq(Text) /\ Len(x \o z) = Len(x) + Len(z)
          /\ \A i \in 1..(Len(x) + Len(z)) :
               (x \o z)[i] = IF i <= Len(x) THEN x[i] ELSE z[i - Len(x)]
      BY <1>3, <2>1, ConcatProperties
    <3>2. QED BY <1>3, <2>1, <3>1
  <2>3. ASSUME NEW n \in 1..m PROVE (x \o z)[n + 1] = z[n]
    <3> DEFINE j == n + 1
    <3>1. j \in 1..(1 + m) /\ ~(j <= 1) /\ j - 1 = n
      BY <1>2
    <3> HIDE DEF j
    <3>2. (x \o z)[j] = z[n]
      BY <2>2, <3>1
    <3>3. QED BY <3>2 DEF j
  <2>4. (x \o z)[1] = name
    <3>1. 1 \in 1..(1 + m) /\ 1 <= 1
      BY <1>2
    <3>2. QED BY <2>1, <2>2, <3>1
  <2>5. 1 + m = m + 1
    BY <1>2
  <2>6. QED BY <2>2, <2>3, <2>4, <2>5 DEF x
<1>5. ArgvOf(c) = s
  <2>1. ArgvOf(c) = Joined(f)
    BY <1>2 DEF ArgvOf, z, name, args
  <2> HIDE DEF f
  <2>2. DOMAIN f = 1..(m + 1)
    BY <1>4
  <2>3. QED BY <2>1, <2>2 DEF Joined
<1> HIDE DEF f
<1>6. \A n \in 1..m : Word(args[n]) \in Text
  <2> SUFFICES ASSUME NEW n \in 1..m PROVE Word(args[n]) \in Text
    OBVIOUS
  <2> DEFINE b == <<Blank>>  e == Spelled(args[n])
  <2>1. b \in Seq(Char) /\ e \in Seq(Char)
    BY <1>2, Characters DEF Text
  <2> HIDE DEF b, e
  <2>2. b \o e \in Seq(Char)
    BY <2>1, ConcatProperties
  <2>3. QED BY <2>2 DEF Word, b, e, Text
<1>7. g[1] = name /\ \A n \in 1..m : g[n + 1] = Word(args[n])
  <2>1. g[1] = name
    BY <1>2, <1>4
  <2>2. ASSUME NEW n \in 1..m PROVE g[n + 1] = Word(args[n])
    <3>1. n + 1 \in 1..(m + 1) /\ n + 1 # 1
      BY <1>2
    <3>2. f[n + 1] = Spelled(args[n])
      BY <1>3, <1>4
    <3>3. QED BY <3>1, <3>2 DEF Word
  <2>3. QED BY <2>1, <2>2
<1>8. g \in Seq(Text) /\ Len(g) = m + 1
  <2>1. ASSUME NEW n \in 1..(m + 1) PROVE g[n] \in Text
    <3>1. CASE n = 1
      BY <1>1, <1>7, <3>1
    <3>2. CASE n # 1
      <4> DEFINE k == n - 1
      <4>1. k \in 1..m /\ k + 1 = n
        BY <1>2, <3>2
      <4> HIDE DEF k, g
      <4>2. g[k + 1] = Word(args[k])
        BY <1>7, <4>1
      <4>3. QED BY <1>6, <4>1, <4>2
    <3>3. QED BY <3>1, <3>2
  <2>2. m + 1 \in Nat
    BY <1>2
  <2>3. QED BY <2>1, <2>2
<1> HIDE DEF g
<1>9. s \in Text /\ \E at : PartsAt(s, g, at)
  <2>1. g \in Seq(Seq(Char))
    BY <1>8 DEF Text
  <2>2. QED BY <2>1, FlattenParts DEF Text
<1> HIDE DEF s
<1>10. PICK at : PartsAt(s, g, at)
  BY <1>9
<1> DEFINE to == [n \in 0..m |-> at[n + 1]]
<1>11. ASSUME NEW n \in 1..(m + 1)
       PROVE  at[n] \in Nat /\ at[n] = at[n - 1] + Len(g[n]) /\ Stretch(s, at[n - 1], g[n])
  <2>1. /\ at \in [0..Len(g) -> Nat] /\ at[n] = at[n - 1] + Len(g[n]) /\ at[n] <= Len(s)
        /\ \A i \in 1..Len(g[n]) : s[at[n - 1] + i] = g[n][i]
    BY <1>8, <1>10 DEF PartsAt
  <2>2. n \in 0..Len(g)
    BY <1>2, <1>8
  <2>3. QED BY <2>1, <2>2 DEF Stretch
<1>12. at[0] = 0 /\ at[m + 1] = Len(s)
  BY <1>8, <1>10 DEF PartsAt
<1>13. to \in [0..m -> Nat] /\ \A n \in 0..m : to[n] = at[n + 1]
  <2>1. ASSUME NEW n \in 0..m PROVE at[n + 1] \in Nat
    <3>1. n + 1 \in 1..(m + 1)
      BY <1>2
    <3>2. QED BY <1>11, <3>1
  <2>2. QED BY <2>1
<1> HIDE DEF to
<1>14. to[0] = Len(name) /\ Stretch(s, 0, name)
  <2> DEFINE k == 0 + 1
  <2>1. k \in 1..(m + 1) /\ k - 1 = 0 /\ k = 1 /\ 0 \in 0..m
    BY <1>2
  <2>2. to[0] = at[k]
    BY <1>13, <2>1
  <2> HIDE DEF k
  <2>3. at[k] = at[0] + Len(g[k]) /\ Stretch(s, at[0], g[k]) /\ g[k] = name
    BY <1>7, <1>11, <2>1
  <2>4. Len(name) \in Nat
    BY <1>1 DEF Text
  <2>5. at[k] = Len(name) /\ Stretch(s, 0, name)
    BY <1>12, <2>3, <2>4
  <2>6. QED BY <2>2, <2>5
<1>15. to[m] = Len(s)
  BY <1>2, <1>12, <1>13
<1>16. ASSUME NEW n \in 1..m
       PROVE  Stretch(s, to[n - 1], Word(args[n])) /\ to[n] = to[n - 1] + Len(Word(args[n]))
  <2> DEFINE k == n + 1  l == n - 1
  <2>1. k \in 1..(m + 1) /\ k - 1 = n /\ n \in 0..m /\ l \in 0..m /\ l + 1 = n
    BY <1>2
  <2>2. to[n] = at[k] /\ g[k] = Word(args[n])
    BY <1>7, <1>13, <2>1
  <2> HIDE DEF k, l
  <2>3. to[l] = at[n]
    BY <1>13, <2>1
  <2>4. at[k] = at[n] + Len(g[k]) /\ Stretch(s, at[n], g[k])
    BY <1>11, <2>1
  <2>5. Stretch(s, to[l], Word(args[n])) /\ to[n] = to[l] + Len(Word(args[n]))
    BY <2>2, <2>3, <2>4
  <2>6. QED BY <2>5 DEF l
<1>17. LaidOut(s, name, args, to)
  BY <1>13, <1>14, <1>15, <1>16 DEF LaidOut
<1>18. QED BY <1>5, <1>9, <1>17 DEF name, args

\* What replaces the name has the arguments behind it.
LEMMA NameReplaced ==
  ASSUME NEW s \in Text, NEW name \in Text, NEW exe \in Text, NEW args \in Seq(Text), NEW at,
         LaidOut(s, name, args, at)
  PROVE  LET t == exe \o SubSeq(s, Len(name) + 1, Len(s))
         IN t \in Text /\ Len(t) >= Len(exe) /\ \E to : LaidOut(t, exe, args, to)
<1> DEFINE k == Len(name)  m == Len(args)  t == exe \o SubSeq(s, k + 1, Len(s))
           d == Len(exe)
           to == [n \in 0..m |-> d + (at[n] - k)]
<1>1. k \in Nat /\ d \in Nat /\ Len(s) \in Nat /\ m \in Nat /\ \A n \in 1..m : args[n] \in Text
  BY DEF Text
<1>2. /\ at \in [0..m -> Nat] /\ at[0] = k /\ at[m] = Len(s) /\ Stretch(s, 0, name)
      /\ \A n \in 1..m :
           Stretch(s, at[n - 1], Word(args[n])) /\ at[n] = at[n - 1] + Len(Word(args[n]))
  BY DEF LaidOut
<1>3. \A n \in 1..m : Word(args[n]) \in Text /\ Len(Word(args[n])) \in Nat
  <2> SUFFICES ASSUME NEW n \in 1..m PROVE Word(args[n]) \in Text /\ Len(Word(args[n])) \in Nat
    OBVIOUS
  <2> DEFINE b == <<Blank>>  e == Spelled(args[n])
  <2>1. b \in Seq(Char) /\ e \in Seq(Char)
    BY <1>1, SpelledType, Characters DEF Text
  <2> HIDE DEF b, e
  <2>2. b \o e \in Seq(Char) /\ Len(b \o e) \in Nat
    BY <2>1, ConcatProperties, LenProperties
  <2>3. QED BY <2>2 DEF Word, b, e, Text
<1> DEFINE Behind(n) == k <= at[n] /\ at[n] <= Len(s)
           S == {n \in 0..m : Behind(n)}
<1>4. k <= Len(s)
  BY <1>1, <1>2 DEF Stretch
<1>5. 0 \in S
  BY <1>1, <1>2, <1>4
<1>6. ASSUME NEW n \in 0..(m - 1), n \in S PROVE n + 1 \in S
  <2> DEFINE j == n + 1
  <2>1. j \in 1..m /\ j \in 0..m /\ j - 1 = n /\ n \in 0..m
    BY <1>1
  <2> HIDE DEF j
  <2>2. /\ at[j] = at[n] + Len(Word(args[j])) /\ at[n] \in Nat /\ Len(Word(args[j])) \in Nat
        /\ Stretch(s, at[n], Word(args[j]))
    BY <1>2, <1>3, <2>1
  <2>3. at[n] + Len(Word(args[j])) <= Len(s)
    BY <2>2 DEF Stretch
  <2>4. Behind(j)
    BY <1>1, <1>6, <2>2, <2>3
  <2>5. QED BY <2>1, <2>4 DEF j
<1>7. \A n \in 0..m : Behind(n)
  <2>1. \A n \in 0..m : n \in S
    <3> HIDE DEF S
    <3> QED BY <1>1, <1>5, <1>6, UpTo
  <2>2. QED BY <2>1
<1>8. /\ t \in Text /\ Len(t) = d + (Len(s) - k) /\ Stretch(t, 0, exe)
      /\ \A p \in k..Len(s), e \in Text : Stretch(s, p, e) => Stretch(t, d + (p - k), e)
  <2>1. k \in 0..Len(s)
    BY <1>1, <1>4
  <2> HIDE DEF k
  <2>2. QED BY <2>1, StretchMoved
<1> HIDE DEF t, k, d
<1>9. to \in [0..m -> Nat] /\ \A n \in 0..m : to[n] = d + (at[n] - k)
  <2>1. ASSUME NEW n \in 0..m PROVE d + (at[n] - k) \in Nat
    <3>1. at[n] \in Nat /\ k <= at[n]
      BY <1>2, <1>7
    <3>2. QED BY <1>1, <3>1
  <2>2. QED BY <2>1
<1> HIDE DEF to
<1>10. to[0] = d /\ to[m] = Len(t)
  <2>1. 0 \in 0..m /\ m \in 0..m
    BY <1>1
  <2>2. to[0] = d + (at[0] - k) /\ to[m] = d + (at[m] - k)
    BY <1>9, <2>1
  <2>3. Len(t) = d + (Len(s) - k) /\ k \in Nat /\ d \in Nat /\ at[0] = k /\ at[m] = Len(s)
    BY <1>1, <1>2, <1>8
  <2>4. d + (k - k) = d
    BY <2>3
  <2>5. QED BY <2>2, <2>3, <2>4
<1>11. ASSUME NEW n \in 1..m
       PROVE  Stretch(t, to[n - 1], Word(args[n])) /\ to[n] = to[n - 1] + Len(Word(args[n]))
  <2> DEFINE l == n - 1  p == at[l]  e == Word(args[n])
  <2>1. l \in 0..m /\ n \in 0..m
    BY <1>1
  <2>2. Stretch(s, p, e) /\ at[n] = p + Len(e) /\ e \in Text /\ Len(e) \in Nat
    BY <1>2, <1>3
  <2> HIDE DEF l
  <2>3. p \in k..Len(s) /\ p \in Nat
    BY <1>1, <1>2, <1>7, <2>1
  <2>4. to[l] = d + (p - k) /\ to[n] = d + (at[n] - k)
    BY <1>9, <2>1
  <2> HIDE DEF p, e
  <2>5. Stretch(t, d + (p - k), e)
    BY <1>8, <2>2, <2>3
  <2>6. to[n] = to[l] + Len(e)
    BY <1>1, <2>2, <2>3, <2>4
  <2>7. QED BY <2>4, <2>5, <2>6 DEF l, e
<1>12. LaidOut(t, exe, args, to)
  BY <1>8, <1>9, <1>10, <1>11 DEF LaidOut, d
<1>13. Len(t) >= d
  BY <1>1, <1>4, <1>8
<1>14. QED BY <1>8, <1>12, <1>13 DEF t, k, d

\* The first word of a command line is the name if it has no blank.
LEMMA NameOfLine ==
  ASSUME NEW s \in Text, NEW name \in Text, ~Has(name, Blank), NEW args \in Seq(Text), NEW at,
         LaidOut(s, name, args, at)
  PROVE  Split(s, Blank)[1] = name
<1> DEFINE m == Len(args)  k == Len(name)
<1>1. m \in Nat /\ k \in Nat /\ Stretch(s, 0, name) /\ at[0] = k /\ at[m] = Len(s)
  BY DEF LaidOut, Text
<1>2. CASE m = 0
  BY <1>1, <1>2, FirstWord
<1>3. CASE m # 0
  <2> DEFINE a == args[1]  b == <<Blank>>  e == Spelled(a)  n == 1
  <2>1. n \in 1..m /\ n - 1 = 0
    BY <1>1, <1>3
  <2>2. Stretch(s, at[n - 1], Word(args[n])) /\ args[n] \in Text
    <3> HIDE DEF n
    <3> QED BY <2>1 DEF LaidOut
  <2>3. Stretch(s, k, Word(a)) /\ a \in Text
    BY <1>1, <2>1, <2>2
  <2> HIDE DEF a
  <2>4. b \in Seq(Char) /\ e \in Seq(Char) /\ Stretch(s, k, b \o e)
    BY <2>3, SpelledType, Characters DEF Word, Text
  <2> HIDE DEF b, e
  <2>5. Stretch(s, k, b)
    BY <1>1, <2>4, StretchConcat
  <2>6. k + 1 \in 1..Len(s) /\ s[k + 1] = Blank
    BY <1>1, <2>5, StretchOne DEF b
  <2>7. QED BY <1>1, <2>6, FirstWord
<1>4. QED BY <1>2, <1>3

\* A command whose name has no blank is run as configured: the file of its name
\* that comes first in PATH, with the arguments that the configuration has.
THEOREM CommandsAsConfigured == Spec => []CommandAsConfigured
<1>1. TextInv => CommandAsConfigured
  <2> SUFFICES ASSUME TextInv, Done("prepare"), result # Failed, ~Has(task.command.name, Blank)
               PROVE  LET c == task.command
                          dirs == Components(task.search.path, ":")
                          hits == {n \in DOMAIN dirs : Join(dirs[n], c.name) \in task.search.files}
                      IN /\ result.exe = IF hits = {} THEN <<>> ELSE Join(dirs[Min(hits)], c.name)
                         /\ c.name # <<>> /\ hits # {} /\ Plain(result.exe)
                              => result.argv = <<result.exe>> \o c.args
    BY DEF CommandAsConfigured
  <2> DEFINE c == task.command  path == task.search.path  files == task.search.files
             name == c.name  args == c.args  line == ArgvOf(c)
             dirs == Components(path, ":")
             hits == {n \in DOMAIN dirs : Join(dirs[n], name) \in files}
             tried == [n \in DOMAIN dirs |-> Join(dirs[n], name)]
             exe == SearchPath(name, path, files)
  <2>1. c \in [name : Text, args : Seq(Text)] /\ path \in Text
    <3>1. PICK d \in Commands, s \in Searches : task = [do |-> "prepare", command |-> d, search |-> s]
      BY DEF TextInv, Asked, Done
    <3>2. d \in [name : Text, args : Seq(Text)] /\ s.path \in Text
      BY TextAssumption
    <3>3. QED BY <3>1, <3>2
  <2>2. result = PrepareCommand(line, path, files)
    BY DEF TextInv, Computed
  <2>3. ~Has(name, Blank)
    OBVIOUS
  <2> HIDE DEF c, path, files
  <2>4. name \in Text /\ args \in Seq(Text)
    BY <2>1
  <2>5. line \in Text /\ \E at : LaidOut(line, name, args, at)
    BY <2>1, CommandLine
  <2> HIDE DEF name, args, line
  <2>6. PICK at : LaidOut(line, name, args, at)
    BY <2>5
  <2>7. Split(line, Blank)[1] = name
    BY <2>3, <2>4, <2>5, <2>6, NameOfLine
  <2> HIDE DEF exe
  <2>8. exe # Failed /\ result = [exe |-> exe, argv |-> SetCmdLine(ReplaceFirst(line, name, exe))]
    BY <2>2, <2>7 DEF PrepareCommand, exe
  <2>9. exe = First(tried, files)
    BY <2>8 DEF SearchPath, exe
  <2>10. dirs \in Seq(Text)
    BY <2>1, ComponentsType DEF Text
  <2> HIDE DEF dirs
  <2>11. /\ exe = IF hits = {} THEN <<>> ELSE Join(dirs[Min(hits)], name)
         /\ hits # {} => Min(hits) \in hits
    BY <2>9, <2>10, FirstFile
  <2>12. result.exe = exe /\ result.argv = SetCmdLine(ReplaceFirst(line, name, exe))
    BY <2>8
  <2>13. ASSUME name # <<>>, hits # {}, Plain(exe) PROVE result.argv = <<exe>> \o args
    <3> DEFINE t == exe \o SubSeq(line, Len(name) + 1, Len(line))  dir == dirs[Min(hits)]
    <3>1. ReplaceFirst(line, name, exe) = t
      BY <2>13 DEF ReplaceFirst
    <3>2. dir \in Text /\ exe = Join(dir, name)
      <4>1. Min(hits) \in DOMAIN dirs
        BY <2>11, <2>13
      <4>2. QED BY <2>10, <2>11, <2>13, <4>1
    <3> HIDE DEF dir
    <3>3. exe \in Text /\ exe # <<>>
      BY <2>4, <2>13, <3>2, JoinType, JoinNotEmpty
    <3>4. t \in Text /\ Len(t) >= Len(exe) /\ \E to : LaidOut(t, exe, args, to)
      BY <2>4, <2>5, <2>6, <3>3, NameReplaced
    <3> HIDE DEF t
    <3>5. PICK to : LaidOut(t, exe, args, to)
      BY <3>4
    <3>6. t # <<>>
      <4>1. Len(exe) \in Nat /\ Len(exe) # 0
        BY <3>3, EmptySeq DEF Text
      <4>2. Len(t) # 0 \/ Len(t) \notin Nat
        BY <3>4, <4>1
      <4>3. Len(<<>>) = 0
        OBVIOUS
      <4>4. QED BY <4>2, <4>3
    <3>7. SetCmdLine(t) = <<exe>> \o args
      BY <2>4, <2>13, <3>3, <3>4, <3>5, <3>6, WordsOfCommand
    <3>8. QED BY <2>12, <3>1, <3>7
  <2>14. QED BY <2>11, <2>12, <2>13 DEF c, path, files, name, args, dirs
<1>2. QED BY <1>1, TextInvAlways, PTL

-----------------------------------------------------------------------------
(* MacrosReplaced: replace_all().                                           *)

\* How far replace_all() is: it has written u and passes over the next k.
Upto(u, k) == [text |-> u, skip |-> k]

ReplaceStep(s, old, new, n, t) ==
  IF t.skip > 0 THEN [t EXCEPT !.skip = @ - 1]
  ELSE IF n + Len(old) - 1 <= Len(s) /\ SubSeq(s, n, n + Len(old) - 1) = old
       THEN [text |-> t.text \o new, skip |-> Len(old) - 1]
  ELSE [t EXCEPT !.text = Append(@, s[n])]

\* A text stands behind a place if it is what is cut out there.
LEMMA StretchIs ==
  ASSUME NEW s \in Text, NEW old \in Text, NEW n \in 1..Len(s), Len(old) >= 1
  PROVE  n + Len(old) - 1 <= Len(s) /\ SubSeq(s, n, n + Len(old) - 1) = old
           <=> Stretch(s, n - 1, old)
<1> DEFINE p == n - 1  l == Len(old)  b == n + l - 1  r == SubSeq(s, n, b)
<1>1. s \in Seq(Char) /\ old \in Seq(Char) /\ l \in Nat /\ Len(s) \in Nat /\ n \in Nat /\ p \in Nat
  BY DEF Text
<1>2. b <= Len(s) <=> p + l <= Len(s)
  BY <1>1
<1>3. ASSUME b <= Len(s) PROVE r = old <=> \A i \in 1..l : s[p + i] = old[i]
  <2>1. b \in Int /\ n <= b /\ b - n + 1 = l /\ \A i \in n..b : s[i] \in Char
    BY <1>1, <1>3
  <2>2. /\ r \in Seq(Char) /\ Len(r) = IF n <= b THEN b - n + 1 ELSE 0
        /\ \A i \in 1..(b - n + 1) : r[i] = s[n + i - 1]
    <3> HIDE DEF b
    <3> QED BY <1>1, <2>1, SubSeqProperties
  <2>3. Len(r) = l /\ \A i \in 1..l : r[i] = s[n + i - 1]
    <3> HIDE DEF b, r, l
    <3> QED BY <2>1, <2>2
  <2>4. \A i \in 1..l : n + i - 1 = p + i
    BY <1>1
  <2>5. \A i \in 1..l : r[i] = s[p + i]
    <3> HIDE DEF r, p
    <3> QED BY <2>3, <2>4
  <2> HIDE DEF r, p
  <2>6. ASSUME \A i \in 1..l : s[p + i] = old[i] PROVE r = old
    <3>1. \A i \in 1..l : r[i] = old[i]
      BY <2>5, <2>6
    <3>2. QED BY <1>1, <2>2, <2>3, <3>1, SeqEqual
  <2>7. r = old => \A i \in 1..l : s[p + i] = old[i]
    BY <2>5
  <2>8. QED BY <2>6, <2>7
<1>4. QED BY <1>2, <1>3 DEF Stretch

\* What one character does.
LEMMA ReplaceDoes ==
  ASSUME NEW s \in Text, NEW old \in Text, NEW new, NEW n \in 1..Len(s), Len(old) >= 1, NEW u
  PROVE  /\ \A k \in Nat : k > 0 => ReplaceStep(s, old, new, n, Upto(u, k)) = Upto(u, k - 1)
         /\ Stretch(s, n - 1, old) =>
              ReplaceStep(s, old, new, n, Upto(u, 0)) = Upto(u \o new, Len(old) - 1)
         /\ ~Stretch(s, n - 1, old) =>
              ReplaceStep(s, old, new, n, Upto(u, 0)) = Upto(Append(u, s[n]), 0)
<1>1. ASSUME NEW k \in Nat, k > 0
      PROVE  ReplaceStep(s, old, new, n, Upto(u, k)) = Upto(u, k - 1)
  BY <1>1 DEF ReplaceStep, Upto
<1> DEFINE Found == n + Len(old) - 1 <= Len(s) /\ SubSeq(s, n, n + Len(old) - 1) = old
<1>2. Found <=> Stretch(s, n - 1, old)
  BY StretchIs
<1>3. ReplaceStep(s, old, new, n, Upto(u, 0)) =
        IF Found THEN Upto(u \o new, Len(old) - 1) ELSE Upto(Append(u, s[n]), 0)
  <2> DEFINE t == Upto(u, 0)
  <2>1. t.skip = 0 /\ t.text = u /\ [t EXCEPT !.text = Append(@, s[n])] = Upto(Append(u, s[n]), 0)
    <3> DEFINE v == Append(u, s[n])
    <3>1. t.skip = 0 /\ t.text = u
      BY DEF Upto
    <3>2. [t EXCEPT !.text = Append(@, s[n])] = [t EXCEPT !.text = v]
      BY <3>1
    <3> HIDE DEF v
    <3>3. [t EXCEPT !.text = v] = Upto(v, 0)
      BY DEF Upto
    <3>4. QED BY <3>1, <3>2, <3>3 DEF v
  <2>2. ~(t.skip > 0)
    BY <2>1
  <2> HIDE DEF t, Found
  <2>3. ReplaceStep(s, old, new, n, t) =
          IF Found THEN [text |-> t.text \o new, skip |-> Len(old) - 1]
          ELSE [t EXCEPT !.text = Append(@, s[n])]
    BY <2>2 DEF ReplaceStep, Found
  <2>4. QED BY <2>1, <2>3 DEF t, Upto
<1>4. QED BY <1>1, <1>2, <1>3

\* h is how far it is after each character.
Replacing(h, s, old, new) ==
  h[0] = Upto(<<>>, 0) /\ \A n \in 1..Len(s) : h[n] = ReplaceStep(s, old, new, n, h[n - 1])

Progress == [text : Text, skip : Nat]

\* And it stays so: a text written and a number of characters to pass over.
LEMMA ReplaceStepType ==
  ASSUME NEW s \in Text, NEW old \in Text, Len(old) >= 1, NEW new \in Text, NEW n \in 1..Len(s),
         NEW t \in Progress
  PROVE  ReplaceStep(s, old, new, n, t) \in Progress
<1> DEFINE u == t.text  k == t.skip
<1>1. u \in Text /\ k \in Nat /\ t = Upto(u, k) /\ s[n] \in Char /\ Len(old) \in Nat
  BY DEF Progress, Upto, Text
<1> HIDE DEF u, k
<1>2. \A v \in Text, i \in Nat : Upto(v, i) \in Progress
  BY DEF Upto, Progress
<1>3. CASE k > 0
  <2>1. ReplaceStep(s, old, new, n, t) = Upto(u, k - 1) /\ k - 1 \in Nat
    BY <1>1, <1>3, ReplaceDoes
  <2>2. QED BY <1>1, <1>2, <2>1
<1>4. CASE k = 0
  <2>1. u \o new \in Text /\ Append(u, s[n]) \in Text
    BY <1>1, ConcatProperties, AppendProperties DEF Text
  <2>2. Len(old) - 1 \in Nat /\ 0 \in Nat
    BY <1>1
  <2>3. \/ ReplaceStep(s, old, new, n, t) = Upto(u \o new, Len(old) - 1)
        \/ ReplaceStep(s, old, new, n, t) = Upto(Append(u, s[n]), 0)
    BY <1>1, <1>4, ReplaceDoes
  <2>4. QED BY <1>2, <2>1, <2>2, <2>3
<1>5. QED BY <1>1, <1>3, <1>4

\* replace_all() takes one character after the other.
LEMMA ReplaceIs ==
  ASSUME NEW s \in Text, NEW old \in Text, Len(old) >= 1, NEW new \in Text
  PROVE  \E h : Replacing(h, s, old, new) /\ ReplaceEach(s, old, new) = h[Len(s)].text
<1> DEFINE m == Len(s)
           start == Upto(<<>>, 0)
           step == [n \in 1..m |-> [t \in Progress |-> ReplaceStep(s, old, new, n, t)]]
           Is(g) == g = [n \in 0..m |-> IF n = 0 THEN start
                                        ELSE ReplaceStep(s, old, new, n, g[n - 1])]
<1>1. m \in Nat /\ start \in Progress
  BY Characters DEF Upto, Progress, Text
<1>2. /\ step \in [1..m -> [Progress -> Progress]]
      /\ \A n \in 1..m : \A t \in Progress : step[n][t] = ReplaceStep(s, old, new, n, t)
  BY ReplaceStepType
<1>3. PICK h : Loop(h, m, Progress, start, step)
  <2> HIDE DEF m, step, start
  <2> QED BY <1>1, <1>2, Recursion
<1>4. /\ h \in [0..m -> Progress] /\ h[0] = start
      /\ \A n \in 1..m : h[n] = ReplaceStep(s, old, new, n, h[n - 1])
  <2> HIDE DEF step, m, start
  <2>1. \A n \in 1..m : n - 1 \in 0..m
    BY <1>1
  <2>2. QED BY <1>1, <1>2, <1>3, <2>1 DEF Loop
<1>5. Is(h)
  <2> HIDE DEF step, m, start
  <2>1. \A n \in 0..m : h[n] = IF n = 0 THEN start ELSE ReplaceStep(s, old, new, n, h[n - 1])
    BY <1>1, <1>4
  <2>2. QED BY <1>4, <2>1
<1>6. ReplaceEach(s, old, new) = (CHOOSE g : Is(g))[m].text
  BY DEF ReplaceEach, ReplaceStep, Upto
<1>7. PICK g : Is(g) /\ ReplaceEach(s, old, new) = g[m].text
  <2> HIDE DEF Is
  <2> QED BY <1>5, <1>6
<1>8. g[0] = start /\ \A n \in 1..m : g[n] = ReplaceStep(s, old, new, n, g[n - 1])
  <2> HIDE DEF step, m, start
  <2> QED BY <1>1, <1>7
<1>9. QED BY <1>7, <1>8 DEF Replacing

\* Where the old text stands it is passed over, and the new one is written.
LEMMA ReplaceHit ==
  ASSUME NEW s \in Text, NEW old \in Text, Len(old) >= 1, NEW new, NEW h,
         Replacing(h, s, old, new), NEW p \in Nat, Stretch(s, p, old), NEW u, h[p] = Upto(u, 0)
  PROVE  h[p + Len(old)] = Upto(u \o new, 0)
<1> DEFINE l == Len(old)  v == u \o new  m == l - 1
           S == {j \in 0..m : h[p + (j + 1)] = Upto(v, m - j)}
<1>1. l \in Nat /\ Len(s) \in Nat /\ m \in Nat /\ p + l <= Len(s) /\ l >= 1
  BY DEF Text, Stretch
<1> HIDE DEF l, v
<1>2. 0 \in S
  <2> DEFINE n == p + 1
  <2>1. n \in 1..Len(s) /\ n - 1 = p /\ p + (0 + 1) = n /\ m - 0 = m /\ 0 \in 0..m
    BY <1>1
  <2> HIDE DEF n
  <2>2. h[n] = ReplaceStep(s, old, new, n, Upto(u, 0))
    BY <2>1 DEF Replacing
  <2>3. h[n] = Upto(v, m)
    BY <2>1, <2>2, ReplaceDoes DEF v, l
  <2>4. QED BY <2>1, <2>3
<1>3. ASSUME NEW j \in 0..(m - 1), j \in S PROVE j + 1 \in S
  <2> DEFINE n == p + (j + 2)  k == m - j
  <2>1. /\ n \in 1..Len(s) /\ n - 1 = p + (j + 1) /\ p + ((j + 1) + 1) = n /\ j + 1 \in 0..m
        /\ k \in Nat /\ k > 0 /\ m - (j + 1) = k - 1
    BY <1>1
  <2>2. h[p + (j + 1)] = Upto(v, k)
    BY <1>3
  <2> HIDE DEF n, k, m
  <2>3. h[n] = ReplaceStep(s, old, new, n, Upto(v, k))
    BY <2>1, <2>2 DEF Replacing
  <2>4. h[n] = Upto(v, k - 1)
    BY <2>1, <2>3, ReplaceDoes
  <2>5. QED BY <2>1, <2>4
<1>4. m \in S
  <2> HIDE DEF S, m
  <2> QED BY <1>1, <1>2, <1>3, UpTo
<1>5. h[p + (m + 1)] = Upto(v, m - m) /\ m + 1 = l /\ m - m = 0
  BY <1>1, <1>4
<1>6. QED BY <1>5 DEF v, l

\* A character behind a text behind a text.
LEMMA AppendConcat ==
  ASSUME NEW u \in Seq(Char), NEW x \in Seq(Char), NEW c \in Char
  PROVE  Append(u \o x, c) = u \o Append(x, c)
<1> DEFINE y == <<c>>
<1>1. y \in Seq(Char) /\ u \o x \in Seq(Char)
  BY ConcatProperties
<1>2. Append(u \o x, c) = (u \o x) \o y
  BY <1>1, AppendIsConcat
<1>3. Append(x, c) = x \o y
  BY AppendIsConcat
<1> HIDE DEF y
<1>4. (u \o x) \o y = u \o (x \o y)
  BY <1>1, ConcatAssociative
<1>5. QED BY <1>2, <1>3, <1>4

\* Where it does not, what is there is kept.
LEMMA ReplaceMiss ==
  ASSUME NEW s \in Text, NEW old \in Text, Len(old) >= 1, NEW new, NEW h,
         Replacing(h, s, old, new), NEW p \in Nat, NEW e \in Text, Stretch(s, p, e),
         \A i \in 0..(Len(e) - 1) : ~Stretch(s, p + i, old),
         NEW u \in Text, h[p] = Upto(u, 0)
  PROVE  h[p + Len(e)] = Upto(u \o e, 0)
<1> DEFINE P(j) == SubSeq(e, 1, j)
           S == {j \in 0..Len(e) : h[p + j] = Upto(u \o P(j), 0)}
<1>1. Len(e) \in Nat /\ e \in Seq(Char) /\ Len(s) \in Nat /\ DOMAIN e = 1..Len(e) /\ u \in Seq(Char)
  BY DEF Text
<1>2. 0 \in S
  <2>1. p + 0 = p
    OBVIOUS
  <2>2. P(0) = <<>>
    BY <1>1, PrefixIs
  <2> HIDE DEF P
  <2>3. u \o P(0) = u
    BY <1>1, <2>2, ConcatEmptySeq
  <2>4. h[p + 0] = Upto(u \o P(0), 0)
    BY <2>1, <2>3
  <2>5. QED BY <1>1, <2>4
<1>3. ASSUME NEW j \in 0..(Len(e) - 1), j \in S PROVE j + 1 \in S
  <2> DEFINE k == j + 1  n == p + k
  <2>1. k \in 1..Len(e) /\ k \in 0..Len(e) /\ k - 1 = j /\ n \in 1..Len(s) /\ n - 1 = p + j
    BY <1>1 DEF Stretch
  <2> HIDE DEF n, k
  <2>2. s[n] = e[k] /\ ~Stretch(s, n - 1, old)
    BY <1>1, <2>1 DEF Stretch, n
  <2>3. h[n] = ReplaceStep(s, old, new, n, Upto(u \o P(j), 0))
    BY <1>3, <2>1 DEF Replacing
  <2>4. P(j) \in Seq(Char) /\ e[k] \in Char /\ P(k) = Append(P(j), e[k])
    <3>1. j \in 0..Len(e)
      BY <1>1
    <3>2. QED BY <1>1, <2>1, <3>1, PrefixIs
  <2>5. Append(u \o P(j), e[k]) = u \o P(k)
    <3> DEFINE x == P(j)  c == e[k]
    <3>1. x \in Seq(Char) /\ c \in Char
      BY <2>4
    <3> HIDE DEF x, c
    <3>2. Append(u \o x, c) = u \o Append(x, c)
      BY <1>1, <3>1, AppendConcat
    <3>3. QED BY <2>4, <3>2 DEF x, c
  <2>6. h[n] = Upto(u \o P(k), 0)
    <3> DEFINE x == u \o P(j)
    <3>1. h[n] = ReplaceStep(s, old, new, n, Upto(x, 0))
      BY <2>3
    <3> HIDE DEF x
    <3>2. h[n] = Upto(Append(x, s[n]), 0)
      BY <2>1, <2>2, <3>1, ReplaceDoes
    <3>3. QED BY <2>2, <2>5, <3>2 DEF x
  <2>7. k \in S
    BY <2>1, <2>6 DEF n
  <2>8. QED BY <2>7 DEF k
<1>4. Len(e) \in S
  <2> HIDE DEF S
  <2> QED BY <1>1, <1>2, <1>3, UpTo
<1>5. P(Len(e)) = e
  BY <1>1, PrefixIs
<1>6. QED BY <1>4, <1>5

\* ss with new for old.
Exchanged(ss, old, new) == [n \in DOMAIN ss |-> IF ss[n] = old THEN new ELSE ss[n]]

\* old stands nowhere in the text t of the parts ss but where it is a part.
OnlyAsPart(t, ss, at, old) ==
  \A n \in 1..Len(ss) : ss[n] # old =>
    \A i \in 0..(Len(ss[n]) - 1) : ~Stretch(t, at[n - 1] + i, old)

\* Then replace_all() replaces the parts that are it.
LEMMA PartsReplaced ==
  ASSUME NEW ss \in Seq(Text), NEW at, PartsAt(FlattenSeq(ss), ss, at),
         NEW old \in Text, Len(old) >= 1, NEW new \in Text, OnlyAsPart(FlattenSeq(ss), ss, at, old)
  PROVE  ReplaceEach(FlattenSeq(ss), old, new) = FlattenSeq(Exchanged(ss, old, new))
<1> DEFINE m == Len(ss)  t == FlattenSeq(ss)  rr == Exchanged(ss, old, new)
<1>1. m \in Nat /\ DOMAIN ss = 1..m /\ \A n \in 1..m : ss[n] \in Text
  OBVIOUS
<1>2. /\ rr \in Seq(Text) /\ Len(rr) = m
      /\ \A n \in 1..m : rr[n] = IF ss[n] = old THEN new ELSE ss[n]
  BY <1>1 DEF Exchanged
<1>3. t \in Text
  <2>1. ss \in Seq(Seq(Char))
    BY DEF Text
  <2>2. QED BY <2>1, FlattenParts DEF Text
<1>4. PartsAt(t, ss, at) /\ OnlyAsPart(t, ss, at, old)
  OBVIOUS
<1> HIDE DEF t, rr
<1>5. PICK h : Replacing(h, t, old, new) /\ ReplaceEach(t, old, new) = h[Len(t)].text
  BY <1>3, ReplaceIs
<1>6. PICK g \in [0..m -> Seq(Char)] : /\ g[0] = <<>> /\ FlattenSeq(rr) = g[m]
                                       /\ \A n \in 1..m : g[n] = g[n - 1] \o rr[n]
  <2>1. rr \in Seq(Seq(Char))
    BY <1>2 DEF Text
  <2>2. PICK g \in [0..Len(rr) -> Seq(Char)] :
          /\ g[0] = <<>> /\ FlattenSeq(rr) = g[Len(rr)]
          /\ \A n \in 1..Len(rr) : g[n] = g[n - 1] \o rr[n]
    BY <2>1, FlattenIs
  <2>3. QED BY <1>2, <2>2
<1>7. /\ at \in [0..m -> Nat] /\ at[0] = 0 /\ at[m] = Len(t)
      /\ \A n \in 1..m : at[n] = at[n - 1] + Len(ss[n])
  BY <1>4 DEF PartsAt
<1> DEFINE S == {n \in 0..m : h[at[n]] = Upto(g[n], 0)}
<1>8. 0 \in S
  BY <1>1, <1>5, <1>6, <1>7 DEF Replacing
<1>9. ASSUME NEW n \in 0..(m - 1), n \in S PROVE n + 1 \in S
  <2> DEFINE k == n + 1  e == ss[k]  p == at[n]  u == g[n]
  <2>1. k \in 1..m /\ k \in 0..m /\ k - 1 = n /\ n \in 0..m
    BY <1>1
  <2>2. h[p] = Upto(u, 0)
    BY <1>9
  <2> HIDE DEF k
  <2>3. e \in Text /\ p \in Nat /\ at[k] = p + Len(e) /\ u \in Text
    BY <1>1, <1>6, <1>7, <2>1 DEF Text
  <2>4. g[k] = u \o IF e = old THEN new ELSE e
    BY <1>2, <1>6, <2>1
  <2>5. Stretch(t, p, e)
    <3>1. /\ at[k] <= Len(t) /\ \A i \in 1..Len(ss[k]) : t[at[k - 1] + i] = ss[k][i]
      BY <1>4, <2>1 DEF PartsAt
    <3>2. QED BY <2>1, <2>3, <3>1 DEF Stretch
  <2>6. e # old => \A i \in 0..(Len(e) - 1) : ~Stretch(t, p + i, old)
    <3>1. ss[k] # old => \A i \in 0..(Len(ss[k]) - 1) : ~Stretch(t, at[k - 1] + i, old)
      BY <1>4, <2>1 DEF OnlyAsPart
    <3>2. QED BY <2>1, <3>1
  <2> HIDE DEF e, p, u
  <2>7. CASE e = old
    <3>1. h[p + Len(old)] = Upto(u \o new, 0)
      <4>1. Stretch(t, p, old)
        BY <2>5, <2>7
      <4>2. QED BY ONLY <1>3, <1>5, <2>2, <2>3, <4>1, old \in Text, Len(old) >= 1, ReplaceHit
    <3>2. QED BY <2>1, <2>3, <2>4, <2>7, <3>1 DEF k
  <2>8. CASE e # old
    <3>1. h[p + Len(e)] = Upto(u \o e, 0)
      <4>1. \A i \in 0..(Len(e) - 1) : ~Stretch(t, p + i, old)
        BY <2>6, <2>8
      <4>2. QED BY ONLY <1>3, <1>5, <2>2, <2>3, <2>5, <4>1, old \in Text, Len(old) >= 1, ReplaceMiss
    <3>2. QED BY <2>1, <2>3, <2>4, <2>8, <3>1 DEF k
  <2>9. QED BY <2>7, <2>8
<1>10. m \in S
  <2> HIDE DEF S
  <2> QED BY <1>1, <1>8, <1>9, UpTo
<1>11. h[Len(t)].text = g[m]
  BY <1>7, <1>10 DEF Upto
<1>12. QED BY <1>5, <1>6, <1>11 DEF t, rr

\* What is cut out of a sequence.
LEMMA CutIs ==
  ASSUME NEW X, NEW s \in Seq(X), NEW k \in 0..Len(s), NEW l \in k..Len(s)
  PROVE  /\ SubSeq(s, k + 1, l) \in Seq(X) /\ Len(SubSeq(s, k + 1, l)) = l - k
         /\ \A i \in 1..(l - k) : SubSeq(s, k + 1, l)[i] = s[k + i]
<1> DEFINE a == k + 1  r == SubSeq(s, a, l)
<1>1. Len(s) \in Nat /\ k \in Nat /\ l \in Nat /\ k <= l /\ l <= Len(s)
  OBVIOUS
<1>2. a \in Int /\ l \in Int /\ \A i \in a..l : s[i] \in X
  BY <1>1
<1>3. /\ r \in Seq(X) /\ Len(r) = IF a <= l THEN l - a + 1 ELSE 0
      /\ \A i \in 1..(l - a + 1) : r[i] = s[a + i - 1]
  <2> HIDE DEF a
  <2> QED BY <1>2, SubSeqProperties
<1>4. l - a + 1 = l - k /\ (a <= l \/ l - k = 0)
  BY <1>1
<1> HIDE DEF r
<1>5. Len(r) = l - k
  <2> HIDE DEF a
  <2> QED BY <1>3, <1>4
<1>6. ASSUME NEW i \in 1..(l - k) PROVE r[i] = s[k + i]
  <2>1. a + i - 1 = k + i /\ i \in 1..(l - a + 1)
    BY <1>1
  <2> HIDE DEF a
  <2>2. QED BY <1>3, <2>1
<1>7. QED BY <1>3, <1>5, <1>6 DEF r

\* A stretch behind a stretch makes one.
LEMMA StretchJoin ==
  ASSUME NEW s \in Text, NEW p \in Nat, NEW x \in Seq(Char), NEW y \in Seq(Char),
         Stretch(s, p, x), Stretch(s, p + Len(x), y)
  PROVE  Stretch(s, p, x \o y)
<1> DEFINE z == x \o y
<1>1. /\ Len(x) \in Nat /\ Len(y) \in Nat /\ Len(s) \in Nat /\ Len(z) = Len(x) + Len(y)
      /\ \A i \in 1..(Len(x) + Len(y)) : z[i] = IF i <= Len(x) THEN x[i] ELSE y[i - Len(x)]
  BY ConcatProperties DEF Text
<1>2. /\ (p + Len(x)) + Len(y) <= Len(s)
      /\ \A i \in 1..Len(x) : s[p + i] = x[i]
      /\ \A i \in 1..Len(y) : s[(p + Len(x)) + i] = y[i]
  BY DEF Stretch
<1> HIDE DEF z
<1>3. ASSUME NEW i \in 1..Len(z) PROVE s[p + i] = z[i]
  <2>1. CASE i <= Len(x)
    BY <1>1, <1>2, <2>1
  <2>2. CASE ~(i <= Len(x))
    <3> DEFINE j == i - Len(x)
    <3>1. j \in 1..Len(y) /\ (p + Len(x)) + j = p + i
      BY <1>1, <2>2
    <3>2. z[i] = y[j]
      BY <1>1, <2>2
    <3> HIDE DEF j
    <3>3. s[(p + Len(x)) + j] = y[j]
      BY <1>2, <3>1
    <3>4. QED BY <3>1, <3>2, <3>3
  <2>3. QED BY <2>1, <2>2
<1>4. p + Len(z) <= Len(s)
  BY <1>1, <1>2
<1>5. QED BY <1>3, <1>4 DEF Stretch, z

\* What stands between two ends of parts is the parts between.
LEMMA PartsBetween ==
  ASSUME NEW ss \in Seq(Text), NEW t \in Text, NEW at, PartsAt(t, ss, at),
         NEW a \in 0..Len(ss), NEW b \in a..Len(ss)
  PROVE  LET x == FlattenSeq(SubSeq(ss, a + 1, b))
         IN /\ x \in Text /\ Len(x) = at[b] - at[a] /\ Stretch(t, at[a], x)
            /\ at[a] \in Nat /\ at[b] \in Nat /\ at[a] <= at[b]
<1> DEFINE m == Len(ss)  zz == SubSeq(ss, a + 1, b)  l == b - a  p == at[a]
<1>1. m \in Nat /\ a \in Nat /\ b \in Nat /\ l \in Nat /\ \A n \in 1..m : ss[n] \in Seq(Char)
  BY DEF Text
<1>2. zz \in Seq(Seq(Char)) /\ Len(zz) = l /\ \A i \in 1..l : zz[i] = ss[a + i]
  <2>1. ss \in Seq(Seq(Char))
    BY DEF Text
  <2>2. QED BY <2>1, CutIs
<1> HIDE DEF zz
<1>3. PICK g \in [0..l -> Seq(Char)] : /\ g[0] = <<>> /\ FlattenSeq(zz) = g[l]
                                       /\ \A i \in 1..l : g[i] = g[i - 1] \o zz[i]
  <2>1. PICK g \in [0..Len(zz) -> Seq(Char)] :
          /\ g[0] = <<>> /\ FlattenSeq(zz) = g[Len(zz)]
          /\ \A i \in 1..Len(zz) : g[i] = g[i - 1] \o zz[i]
    BY <1>2, FlattenIs
  <2>2. QED BY <1>2, <2>1
<1>4. /\ at \in [0..m -> Nat]
      /\ \A n \in 1..m : /\ at[n] = at[n - 1] + Len(ss[n]) /\ at[n] <= Len(t)
                         /\ \A i \in 1..Len(ss[n]) : t[at[n - 1] + i] = ss[n][i]
  BY DEF PartsAt
<1>5. p \in Nat /\ p <= Len(t)
  <2>1. p \in Nat
    BY <1>4
  <2>2. CASE a = 0
    BY <2>2 DEF PartsAt, Text
  <2>3. CASE a # 0
    <3>1. a \in 1..m
      BY <1>1, <2>3
    <3>2. QED BY <1>4, <2>1, <3>1
  <2>4. QED BY <2>1, <2>2, <2>3
<1> HIDE DEF p
<1> DEFINE Right(i) == Stretch(t, p, g[i]) /\ at[a + i] = p + Len(g[i])
           S == {i \in 0..l : Right(i)}
<1>6. 0 \in S
  <2>1. Len(g[0]) = 0 /\ 1..0 = {} /\ p + 0 = p /\ a + 0 = a /\ 0 \in 0..l
    BY <1>1, <1>3, <1>5
  <2>2. Stretch(t, p, g[0])
    BY <1>5, <2>1 DEF Stretch
  <2>3. at[a + 0] = p + Len(g[0])
    BY <2>1 DEF p
  <2>4. QED BY <2>1, <2>2, <2>3
<1>7. ASSUME NEW i \in 0..(l - 1), i \in S PROVE i + 1 \in S
  <2> DEFINE k == i + 1  n == a + k  x == g[i]  y == zz[k]
  <2>1. k \in 1..l /\ k \in 0..l /\ k - 1 = i /\ i \in 0..l /\ n \in 1..m /\ n - 1 = a + i
    BY <1>1
  <2>2. Stretch(t, p, x) /\ at[a + i] = p + Len(x)
    BY <1>7
  <2> HIDE DEF k
  <2>3. x \in Seq(Char) /\ y = ss[n] /\ y \in Seq(Char) /\ g[k] = x \o y
    BY <1>1, <1>2, <1>3, <2>1
  <2> HIDE DEF n, x, y
  <2>4. Len(x) \in Nat /\ Len(y) \in Nat /\ Len(x \o y) = Len(x) + Len(y)
    BY <2>3, ConcatProperties, LenProperties
  <2>5. at[n] = (p + Len(x)) + Len(y) /\ Stretch(t, p + Len(x), y)
    <3>1. /\ at[n] = at[n - 1] + Len(ss[n]) /\ at[n] <= Len(t)
          /\ \A j \in 1..Len(ss[n]) : t[at[n - 1] + j] = ss[n][j]
      BY <1>4, <2>1
    <3>2. at[n - 1] = p + Len(x)
      BY <2>1, <2>2
    <3>3. QED BY <2>3, <3>1, <3>2 DEF Stretch
  <2>6. Stretch(t, p, x \o y)
    BY <1>5, <2>2, <2>3, <2>5, StretchJoin
  <2>7. at[n] = p + Len(x \o y)
    BY <1>5, <2>4, <2>5
  <2>8. Right(k)
    BY <2>3, <2>6, <2>7 DEF n
  <2>9. QED BY <2>1, <2>8 DEF k
<1>8. l \in S
  <2> HIDE DEF S
  <2> QED BY <1>1, <1>6, <1>7, UpTo
<1>9. a + l = b
  BY <1>1
<1>10. g[l] \in Seq(Char) /\ Stretch(t, p, g[l]) /\ at[b] = p + Len(g[l])
  <2>1. l \in 0..l
    BY <1>1
  <2>2. QED BY <1>3, <1>8, <1>9, <2>1
<1>11. Len(g[l]) \in Nat
  BY <1>10
<1>12. Len(g[l]) = at[b] - p /\ p <= at[b] /\ at[b] \in Nat
  <2> DEFINE k == Len(g[l])
  <2>1. k \in Nat /\ at[b] = p + k /\ p \in Nat
    BY <1>5, <1>10, <1>11
  <2> HIDE DEF k
  <2>2. k = at[b] - p /\ p <= at[b] /\ at[b] \in Nat
    BY <2>1
  <2>3. QED BY <2>2 DEF k
<1>13. QED BY <1>3, <1>5, <1>10, <1>12 DEF p, zz, Text

-----------------------------------------------------------------------------
(* MacrosReplaced: the tokens in a text.                                    *)

Sign == "@"

\* The characters of a token.
LEMMA TokenIs ==
  ASSUME NEW r \in Text
  PROVE  /\ Token(r) \in Text /\ Len(Token(r)) = Len(r) + 2 /\ Len(r) \in Nat
         /\ Token(r)[1] = Sign /\ Token(r)[Len(r) + 2] = Sign
         /\ \A i \in 1..Len(r) : Token(r)[i + 1] = r[i]
<1> DEFINE a == <<Sign>>  x == a \o r  y == x \o a  l == Len(r)
<1>1. a \in Seq(Char) /\ Len(a) = 1 /\ a[1] = Sign /\ r \in Seq(Char) /\ l \in Nat
  <2>1. Sign \in Char
    BY TextAssumption DEF Sign
  <2>2. QED BY <2>1 DEF Text
<1>2. Token(r) = y
  BY DEF Token, Sign
<1> HIDE DEF a
<1>3. /\ x \in Seq(Char) /\ Len(x) = Len(a) + l
      /\ \A i \in 1..(Len(a) + l) : x[i] = IF i <= Len(a) THEN a[i] ELSE r[i - Len(a)]
  BY <1>1, ConcatProperties
<1>4. Len(x) = 1 + l /\ \A i \in 1..(1 + l) : x[i] = IF i <= 1 THEN a[i] ELSE r[i - 1]
  BY <1>1, <1>3
<1> HIDE DEF x
<1>5. /\ y \in Seq(Char) /\ Len(y) = Len(x) + Len(a)
      /\ \A i \in 1..(Len(x) + Len(a)) : y[i] = IF i <= Len(x) THEN x[i] ELSE a[i - Len(x)]
  <2>1. x \in Seq(Char) /\ a \in Seq(Char)
    BY <1>1, <1>3
  <2>2. QED BY ONLY <2>1, ConcatProperties
<1>6. /\ Len(y) = l + 2
      /\ \A i \in 1..(l + 2) : y[i] = IF i <= 1 + l THEN x[i] ELSE a[i - (1 + l)]
  <2>1. Len(x) + Len(a) = l + 2
    BY <1>1, <1>4
  <2>2. QED BY <1>1, <1>4, <1>5, <2>1
<1> HIDE DEF y
<1>7. y[1] = Sign
  <2>1. 1 \in 1..(l + 2) /\ 1 <= 1 + l /\ 1 \in 1..(1 + l) /\ 1 <= 1
    BY <1>1
  <2>2. y[1] = x[1] /\ x[1] = a[1]
    BY <1>4, <1>6, <2>1
  <2>3. QED BY <1>1, <2>2
<1>8. y[l + 2] = Sign
  <2> DEFINE j == l + 2
  <2>1. j \in 1..(l + 2) /\ ~(j <= 1 + l) /\ j - (1 + l) = 1
    BY <1>1
  <2> HIDE DEF j
  <2>2. y[j] = a[1]
    BY <1>6, <2>1
  <2>3. QED BY <1>1, <2>2 DEF j
<1>9. ASSUME NEW i \in 1..l PROVE y[i + 1] = r[i]
  <2> DEFINE j == i + 1
  <2>1. j \in 1..(l + 2) /\ j <= 1 + l /\ j \in 1..(1 + l) /\ ~(j <= 1) /\ j - 1 = i
    BY <1>1
  <2> HIDE DEF j
  <2>2. y[j] = x[j] /\ x[j] = r[i]
    BY <1>4, <1>6, <2>1
  <2>3. QED BY <2>2 DEF j
<1>10. QED BY <1>1, <1>2, <1>5, <1>6, <1>7, <1>8, <1>9 DEF Text

\* A text is empty of signs or a token.
SignedRight(a) == ~Has(a, Sign) \/ \E r \in Text : ~Has(r, Sign) /\ a = Token(r)

\* Where a token stands there are two signs and none between.
LEMMA TokenStands ==
  ASSUME NEW t \in Text, NEW p \in Nat, NEW r \in Text, ~Has(r, Sign), Stretch(t, p, Token(r))
  PROVE  /\ t[p + 1] = Sign /\ t[p + Len(r) + 2] = Sign /\ p + Len(r) + 2 <= Len(t)
         /\ \A i \in 1..Len(r) : t[p + 1 + i] = r[i] /\ r[i] # Sign
         /\ \A q \in (p + 2)..(p + Len(r) + 1) : t[q] # Sign
<1> DEFINE l == Len(r)  w == Token(r)
<1>1. /\ l \in Nat /\ Len(w) = l + 2 /\ w[1] = Sign /\ w[l + 2] = Sign
      /\ \A i \in 1..l : w[i + 1] = r[i]
  BY TokenIs
<1>2. p + Len(w) <= Len(t) /\ \A i \in 1..Len(w) : t[p + i] = w[i]
  BY DEF Stretch
<1> HIDE DEF w
<1>3. t[p + 1] = Sign
  <2>1. 1 \in 1..Len(w)
    BY <1>1
  <2>2. QED BY <1>1, <1>2, <2>1
<1>4. t[p + l + 2] = Sign /\ p + l + 2 <= Len(t) /\ Len(t) \in Nat
  <2>1. l + 2 \in 1..Len(w) /\ p + (l + 2) = p + l + 2 /\ Len(t) \in Nat
    BY <1>1 DEF Text
  <2> HIDE DEF l
  <2>2. QED BY <1>1, <1>2, <2>1
<1>5. ASSUME NEW i \in 1..l PROVE t[p + 1 + i] = r[i] /\ r[i] # Sign
  <2> DEFINE j == i + 1
  <2>1. j \in 1..Len(w) /\ p + j = p + 1 + i
    BY <1>1
  <2>2. w[j] = r[i]
    BY <1>1
  <2> HIDE DEF j
  <2>3. t[p + j] = w[j]
    BY <1>2, <2>1
  <2>4. r[i] # Sign
    BY DEF Has, Text
  <2>5. QED BY <2>1, <2>2, <2>3, <2>4
<1>6. ASSUME NEW q \in (p + 2)..(p + l + 1) PROVE t[q] # Sign
  <2> DEFINE i == q - (p + 1)
  <2>1. i \in 1..l /\ p + 1 + i = q
    BY <1>1
  <2> HIDE DEF i
  <2>2. QED BY <1>5, <2>1
<1>7. QED BY <1>3, <1>4, <1>5, <1>6

\* A token stands in a text of right parts only as one of them, if the parts
\* between two with signs never are its name.
LEMMA TokensApart ==
  ASSUME NEW ss \in Seq(Text), NEW t \in Text, NEW at, PartsAt(t, ss, at),
         \A n \in 1..Len(ss) : SignedRight(ss[n]),
         NEW key \in Text, ~Has(key, Sign),
         \A a, b \in 1..Len(ss) : a < b /\ Has(ss[a], Sign) /\ Has(ss[b], Sign) =>
           FlattenSeq(SubSeq(ss, a + 1, b - 1)) # key
  PROVE  OnlyAsPart(t, ss, at, Token(key))
<1> DEFINE m == Len(ss)  l == Len(key)
<1> SUFFICES ASSUME NEW n \in 1..m, ss[n] # Token(key), NEW i \in 0..(Len(ss[n]) - 1),
                    Stretch(t, at[n - 1] + i, Token(key))
             PROVE  FALSE
  BY DEF OnlyAsPart
<1>1. m \in Nat /\ Len(t) \in Nat /\ l \in Nat
  BY DEF Text
<1>2. /\ at \in [0..m -> Nat] /\ at[0] = 0 /\ at[m] = Len(t)
      /\ \A k \in 1..m : /\ at[k] = at[k - 1] + Len(ss[k]) /\ at[k] <= Len(t)
                         /\ \A j \in 1..Len(ss[k]) : t[at[k - 1] + j] = ss[k][j]
  BY DEF PartsAt
<1> DEFINE p == at[n - 1]  x == p + i  e == ss[n]
<1>3. p \in Nat /\ x \in Nat /\ e \in Text /\ Len(e) \in Nat
  <2>1. n - 1 \in 0..m /\ e \in Text
    BY <1>1
  <2>2. Len(e) \in Nat
    BY <2>1 DEF Text
  <2>3. QED BY <1>2, <2>1, <2>2
<1>4. at[n] = p + Len(e) /\ \A j \in 1..Len(e) : t[p + j] = e[j]
  BY <1>2
<1>5. Stretch(t, x, Token(key)) /\ i \in 0..(Len(e) - 1) /\ SignedRight(e) /\ e # Token(key)
  OBVIOUS
<1> HIDE DEF p, e
<1>6. /\ t[x + 1] = Sign /\ t[x + l + 2] = Sign /\ x + l + 2 <= Len(t)
      /\ \A j \in 1..l : t[x + 1 + j] = key[j] /\ key[j] # Sign
      /\ \A q \in (x + 2)..(x + l + 1) : t[q] # Sign
  <2> HIDE DEF x
  <2> QED BY <1>3, <1>5, TokenStands
<1>7. e[i + 1] = Sign /\ i + 1 \in 1..Len(e)
  <2>1. i + 1 \in 1..Len(e) /\ p + (i + 1) = x + 1
    BY <1>3, <1>5
  <2>2. QED BY <1>4, <1>6, <2>1
<1>8. Has(e, Sign)
  BY <1>3, <1>7 DEF Has, Text
<1>9. PICK r \in Text : ~Has(r, Sign) /\ e = Token(r)
  BY <1>5, <1>8 DEF SignedRight
<1> DEFINE d == Len(r)
<1>10. /\ d \in Nat /\ Len(e) = d + 2 /\ e[1] = Sign /\ e[d + 2] = Sign
       /\ \A j \in 1..d : e[j + 1] = r[j]
  BY <1>9, TokenIs
<1>11. \A j \in 1..d : r[j] # Sign
  BY <1>9 DEF Has, Text
<1> HIDE DEF d
<1>12. i = 0 \/ i = d + 1
  <2> SUFFICES ASSUME i # 0, i # d + 1 PROVE FALSE
    OBVIOUS
  <2>1. i \in 1..d
    BY <1>5, <1>10
  <2>2. e[i + 1] = r[i]
    BY <1>10, <2>1
  <2>3. QED BY <1>7, <1>11, <2>1, <2>2
<1>13. CASE i = 0
  <2>1. x = p /\ p \in Nat /\ l \in Nat /\ d \in Nat /\ Len(e) = d + 2
    BY <1>1, <1>3, <1>10, <1>13
  <2> HIDE DEF x, l
  <2>2. CASE l < d
    <3>1. l + 1 \in 1..d /\ l + 2 \in 1..Len(e) /\ p + (l + 2) = x + l + 2 /\ (l + 1) + 1 = l + 2
      BY ONLY <2>1, <2>2
    <3>2. e[(l + 1) + 1] = r[l + 1]
      BY <1>10, <3>1
    <3>3. t[p + (l + 2)] = e[l + 2]
      BY <1>4, <3>1
    <3>4. QED BY <1>6, <1>11, <3>1, <3>2, <3>3
  <2>3. CASE d < l
    <3>1. d + 2 \in 1..Len(e) /\ p + (d + 2) \in (x + 2)..(x + l + 1)
      BY ONLY <2>1, <2>3
    <3>2. t[p + (d + 2)] = Sign
      BY <1>4, <1>10, <3>1
    <3>3. QED BY <1>6, <3>1, <3>2
  <2>4. CASE l = d
    <3>1. ASSUME NEW j \in 1..l PROVE key[j] = r[j]
      <4>1. j \in 1..d /\ j + 1 \in 1..Len(e) /\ p + (j + 1) = x + 1 + j
        BY <2>1, <2>4
      <4>2. t[p + (j + 1)] = r[j]
        BY <1>4, <1>10, <4>1
      <4>3. QED BY <1>6, <4>1, <4>2
    <3>2. key = r
      <4>1. key \in Seq(Char) /\ r \in Seq(Char) /\ Len(key) = Len(r)
        BY <2>4 DEF d, l, Text
      <4>2. QED BY <3>1, <4>1, SeqEqual DEF l
    <3>3. QED BY <1>5, <1>9, <3>2
  <2>5. QED BY <1>1, <1>10, <2>2, <2>3, <2>4
<1>14. CASE i = d + 1
  <2> DEFINE y == at[n] + l + 1
             T == {b \in 1..m : y <= at[b]}
  <2>1. x + 1 = at[n] /\ x + l + 2 = y /\ at[n] \in Nat
    BY <1>1, <1>3, <1>4, <1>10, <1>14
  <2>2. /\ t[y] = Sign /\ y <= Len(t) /\ \A q \in (at[n] + 1)..(y - 1) : t[q] # Sign
        /\ y \in Nat
    <3>1. x \in Nat /\ l \in Nat
      BY <1>1, <1>3
    <3> HIDE DEF x, y, l
    <3>2. x + 2 = at[n] + 1 /\ x + l + 1 = y - 1 /\ y \in Nat
      BY ONLY <2>1, <3>1
    <3>3. QED BY ONLY <1>6, <2>1, <3>2
  <2> HIDE DEF x
  <2>3. m \in T
    BY <1>1, <1>2, <2>2
  <2>4. PICK b \in T : \A a \in T : b <= a
    <3>1. T \subseteq Nat
      OBVIOUS
    <3> HIDE DEF T
    <3>2. QED BY <2>3, <3>1, LeastOf
  <2> DEFINE k == b - 1  z == at[k]  f == ss[b]
  <2>5. b \in 1..m /\ y <= at[b] /\ k \in 0..m /\ k < b
    BY <1>1, <2>4
  <2>6. z < y /\ z \in Nat
    <3>1. z \in Nat
      BY <1>2, <2>5
    <3>2. CASE k = 0
      BY <1>1, <1>2, <2>1, <3>1, <3>2
    <3>3. CASE k # 0
      <4>1. k \in 1..m /\ ~(b <= k)
        BY <1>1, <2>5, <3>3
      <4>2. k \notin T
        BY <2>4, <4>1
      <4>3. ~(y <= z)
        BY <4>1, <4>2
      <4> HIDE DEF y, z
      <4>4. QED BY <2>2, <3>1, <4>3
    <3>4. QED BY <3>2, <3>3
  <2>7. n <= k
    <3> SUFFICES ASSUME ~(n <= k) PROVE FALSE
      OBVIOUS
    <3>1. b \in 0..n /\ n \in b..m /\ b \in 0..m
      BY <1>1, <2>5
    <3>2. at[b] <= at[n]
      <4>1. at[b] <= at[n] /\ at[b] \in Nat
        BY <3>1, PartsBetween
      <4>2. QED BY <4>1
    <3>3. y \in Nat /\ at[n] \in Nat /\ at[b] \in Nat /\ at[n] < y /\ y <= at[b]
      <4>1. at[b] \in Nat
        BY <1>2, <3>1
      <4>2. at[n] < y
        BY <1>1, <2>1
      <4>3. QED BY <2>1, <2>2, <2>5, <4>1, <4>2
    <3> HIDE DEF y
    <3>4. QED BY <3>2, <3>3
  <2>8. k \in n..m /\ n \in 0..m
    BY <1>1, <2>5, <2>7
  <2> DEFINE v == FlattenSeq(SubSeq(ss, n + 1, k))
  <2>9. /\ v \in Text /\ Len(v) = z - at[n] /\ Stretch(t, at[n], v) /\ at[n] <= z
    BY <2>8, PartsBetween
  <2> HIDE DEF k
  <2>10. /\ f \in Text /\ Len(f) \in Nat /\ at[b] = z + Len(f) /\ SignedRight(f)
         /\ \A j \in 1..Len(f) : t[z + j] = f[j]
    <3>1. f \in Text /\ SignedRight(f)
      BY <2>5
    <3>2. Len(f) \in Nat
      BY <3>1 DEF Text
    <3>3. QED BY <1>2, <2>5, <3>1, <3>2 DEF k
  <2> HIDE DEF f, v, z
  <2>11. y - z \in 1..Len(f) /\ z + (y - z) = y
    <3>1. y <= z + Len(f)
      BY <2>5, <2>10
    <3> HIDE DEF y
    <3>2. QED BY <2>2, <2>6, <2>10, <3>1
  <2>12. f[y - z] = Sign
    BY <2>2, <2>10, <2>11
  <2>13. Has(f, Sign)
    BY <2>10, <2>11, <2>12 DEF Has, Text
  <2>14. PICK c \in Text : ~Has(c, Sign) /\ f = Token(c)
    BY <2>10, <2>13 DEF SignedRight
  <2>15. f[1] = Sign /\ Len(f) >= 2
    <3>1. Len(f) = Len(c) + 2 /\ Len(c) \in Nat /\ f[1] = Sign
      BY <2>14, TokenIs
    <3>2. QED BY <3>1
  <2>16. t[z + 1] = Sign
    BY <2>10, <2>15
  <2>17. y = z + 1
    <3> SUFFICES ASSUME y # z + 1 PROVE FALSE
      OBVIOUS
    <3>1. z + 1 \in (at[n] + 1)..(y - 1)
      <4>1. y \in Nat /\ z \in Nat /\ at[n] \in Nat /\ z < y /\ y # z + 1 /\ at[n] <= z
        BY <2>1, <2>2, <2>6, <2>9
      <4> HIDE DEF y
      <4>2. QED BY <4>1
    <3>2. QED BY <2>2, <2>16, <3>1
  <2>18. Len(v) = l
    BY <1>1, <2>1, <2>6, <2>9, <2>17, SMTT(20)
  <2>19. v = key
    <3>1. ASSUME NEW j \in 1..l PROVE v[j] = key[j]
      <4>1. at[n] + j = x + 1 + j
        BY <2>1
      <4>2. t[at[n] + j] = v[j]
        BY <2>9, <2>18 DEF Stretch
      <4>3. t[x + 1 + j] = key[j]
        BY <1>6
      <4>4. QED BY <4>1, <4>2, <4>3
    <3>2. v \in Seq(Char) /\ key \in Seq(Char) /\ Len(v) = Len(key)
      BY <2>9, <2>18 DEF Text
    <3>3. QED BY <2>18, <3>1, <3>2, SeqEqual
  <2>20. n < b
    BY <1>1, <2>5, <2>7 DEF k
  <2>21. FlattenSeq(SubSeq(ss, n + 1, b - 1)) = key /\ Has(ss[n], Sign) /\ Has(ss[b], Sign)
    BY <1>8, <2>13, <2>19 DEF v, k, e, f
  <2>22. QED BY <2>5, <2>20, <2>21
<1>15. QED BY <1>12, <1>13, <1>14


\* Then replace_all() replaces exactly the parts that are the token.
LEMMA TokenReplaced ==
  ASSUME NEW ss \in Seq(Text), \A n \in 1..Len(ss) : SignedRight(ss[n]),
         NEW key \in Text, ~Has(key, Sign), NEW value \in Text,
         \A a, b \in 1..Len(ss) : a < b /\ Has(ss[a], Sign) /\ Has(ss[b], Sign) =>
           FlattenSeq(SubSeq(ss, a + 1, b - 1)) # key
  PROVE  /\ FlattenSeq(ss) \in Text
         /\ ReplaceEach(FlattenSeq(ss), Token(key), value)
              = FlattenSeq(Exchanged(ss, Token(key), value))
<1> DEFINE t == FlattenSeq(ss)  old == Token(key)
<1>1. ss \in Seq(Seq(Char))
  BY DEF Text
<1>2. t \in Text /\ \E at : PartsAt(t, ss, at)
  BY <1>1, FlattenParts DEF Text
<1>3. PICK at : PartsAt(t, ss, at)
  BY <1>2
<1>4. old \in Text /\ Len(old) >= 1
  <2>1. old \in Text /\ Len(old) = Len(key) + 2 /\ Len(key) \in Nat
    BY TokenIs
  <2> HIDE DEF old
  <2>2. QED BY <2>1
<1>5. OnlyAsPart(t, ss, at, old)
  <2> HIDE DEF t
  <2>1. QED BY <1>2, <1>3, TokensApart
<1> HIDE DEF old
<1>6. ReplaceEach(t, old, value) = FlattenSeq(Exchanged(ss, old, value))
  BY <1>3, <1>4, <1>5, PartsReplaced
<1>7. QED BY <1>2, <1>6 DEF old

\* Two keys have two tokens.
LEMMA TokensDiffer ==
  ASSUME NEW a \in Text, NEW b \in Text, Token(a) = Token(b) PROVE a = b
<1>1. /\ Len(a) \in Nat /\ Len(Token(a)) = Len(a) + 2
      /\ \A i \in 1..Len(a) : Token(a)[i + 1] = a[i]
  BY TokenIs
<1>2. /\ Len(b) \in Nat /\ Len(Token(b)) = Len(b) + 2
      /\ \A i \in 1..Len(b) : Token(b)[i + 1] = b[i]
  BY TokenIs
<1>3. Len(a) = Len(b)
  BY <1>1, <1>2
<1>4. \A i \in 1..Len(a) : a[i] = b[i]
  BY <1>1, <1>2, <1>3
<1>5. QED BY <1>3, <1>4, SeqEqual DEF Text

\* A character of a part is one of the whole text.
LEMMA PartHas ==
  ASSUME NEW ss \in Seq(Text), NEW n \in 1..Len(ss), NEW c, Has(ss[n], c)
  PROVE  Has(FlattenSeq(ss), c)
<1> DEFINE t == FlattenSeq(ss)
<1>1. ss \in Seq(Seq(Char)) /\ ss[n] \in Seq(Char)
  BY DEF Text
<1>2. t \in Seq(Char) /\ \E at : PartsAt(t, ss, at)
  BY <1>1, FlattenParts
<1> HIDE DEF t
<1>3. PICK at : PartsAt(t, ss, at)
  BY <1>2
<1>4. PICK i \in 1..Len(ss[n]) : ss[n][i] = c
  BY <1>1 DEF Has
<1> DEFINE p == at[n - 1]  k == p + i
<1>5. /\ p \in Nat /\ at[n] = p + Len(ss[n]) /\ at[n] <= Len(t) /\ Len(ss[n]) \in Nat
      /\ t[k] = ss[n][i]
  <2>1. n - 1 \in 0..Len(ss) /\ Len(ss[n]) \in Nat
    BY <1>1
  <2>2. at \in [0..Len(ss) -> Nat]
    BY <1>3 DEF PartsAt
  <2>3. /\ at[n] = at[n - 1] + Len(ss[n]) /\ at[n] <= Len(t)
        /\ \A j \in 1..Len(ss[n]) : t[at[n - 1] + j] = ss[n][j]
    BY <1>3 DEF PartsAt
  <2>4. QED BY <2>1, <2>2, <2>3
<1> HIDE DEF p
<1>6. k \in 1..Len(t) /\ Len(t) \in Nat
  BY <1>2, <1>5
<1> HIDE DEF k
<1>7. QED BY <1>2, <1>4, <1>5, <1>6 DEF Has, t


-----------------------------------------------------------------------------
(* MacrosReplaced: one round after the other.                               *)

TemplatePiece == [text : Text] \cup [ref : Text]

\* What a piece of a template is, or has between its signs.
Content(piece) == IF "ref" \in DOMAIN piece THEN piece.ref ELSE piece.text

\* A macro file and a template in which every sign marks a reference.
Marked(macros, pieces) ==
  /\ macros \in Seq([key : Text, value : Text]) /\ pieces \in Seq(TemplatePiece)
  /\ \A i, j \in 1..Len(macros) : macros[i].key = macros[j].key => i = j
  /\ \A i \in 1..Len(macros) : ~Has(macros[i].key, Sign) /\ ~Has(macros[i].value, Sign)
  /\ \A n \in 1..Len(pieces) : ~Has(Content(pieces[n]), Sign)

\* The reference is to one of the first i macros.
Known(macros, i, piece) == "ref" \in DOMAIN piece /\ \E j \in 1..i : macros[j].key = piece.ref

\* What stands for a piece after i rounds.
StandsFor(macros, i, piece) ==
  IF Known(macros, i, piece) THEN ValueOf(macros, piece.ref) ELSE Written(piece)

After(macros, i, pieces) == [n \in 1..Len(pieces) |-> StandsFor(macros, i, pieces[n])]

\* A piece is a text or a reference.
LEMMA PieceIs ==
  ASSUME NEW macros, NEW pieces, Marked(macros, pieces), NEW n \in 1..Len(pieces)
  PROVE  /\ pieces[n] \in TemplatePiece /\ Content(pieces[n]) \in Text /\ ~Has(Content(pieces[n]), Sign)
         /\ Written(pieces[n]) = IF "ref" \in DOMAIN pieces[n] THEN Token(Content(pieces[n]))
                                 ELSE Content(pieces[n])
<1> DEFINE piece == pieces[n]
<1>1. piece \in TemplatePiece /\ ~Has(Content(piece), Sign)
  BY DEF Marked
<1> HIDE DEF piece
<1>2. CASE piece \in [text : Text]
  <2>1. DOMAIN piece = {"text"} /\ piece.text \in Text
    BY <1>2
  <2>2. "ref" \notin DOMAIN piece
    BY <2>1
  <2>3. QED BY <1>1, <2>1, <2>2 DEF Content, Written, piece
<1>3. CASE piece \in [ref : Text]
  <2>1. DOMAIN piece = {"ref"} /\ piece.ref \in Text
    BY <1>3
  <2>2. "ref" \in DOMAIN piece
    BY <2>1
  <2>3. QED BY <1>1, <2>1, <2>2 DEF Content, Written, piece
<1>4. QED BY <1>1, <1>2, <1>3 DEF TemplatePiece

\* A key has one value, the one of its macro.
LEMMA ValueIs ==
  ASSUME NEW macros, NEW pieces, Marked(macros, pieces), NEW j \in 1..Len(macros)
  PROVE  /\ ValueOf(macros, macros[j].key) = macros[j].value
         /\ macros[j].value \in Text /\ macros[j].key \in Text
         /\ ~Has(macros[j].value, Sign) /\ ~Has(macros[j].key, Sign)
<1> DEFINE m == CHOOSE x \in ToSet(macros) : x.key = macros[j].key
<1>1. macros \in Seq([key : Text, value : Text])
  BY DEF Marked
<1>2. macros[j] \in ToSet(macros) /\ macros[j] \in [key : Text, value : Text]
  <2> DEFINE R == [key : Text, value : Text]
  <2>1. macros \in Seq(R)
    BY <1>1
  <2> HIDE DEF R
  <2>2. DOMAIN macros = 1..Len(macros) /\ macros[j] \in R
    BY <2>1
  <2>3. QED BY <2>2 DEF ToSet, R
<1>3. m \in ToSet(macros) /\ m.key = macros[j].key
  BY <1>2
<1> HIDE DEF m
<1>4. PICK i \in 1..Len(macros) : m = macros[i]
  BY <1>1, <1>3 DEF ToSet
<1>5. i = j
  BY <1>3, <1>4 DEF Marked
<1>6. ~Has(macros[j].value, Sign) /\ ~Has(macros[j].key, Sign)
  BY DEF Marked
<1>7. QED BY <1>2, <1>4, <1>5, <1>6 DEF ValueOf, m

\* A token has a sign.
LEMMA TokenHas == ASSUME NEW r \in Text PROVE Has(Token(r), Sign)
<1>1. Token(r) \in Seq(Char) /\ Len(Token(r)) = Len(r) + 2 /\ Len(r) \in Nat /\ Token(r)[1] = Sign
  BY TokenIs DEF Text
<1>2. 1 \in 1..Len(Token(r))
  BY <1>1
<1>3. QED BY <1>1, <1>2 DEF Has

\* The value of a macro, the text of a piece or a token stand for it; what is no
\* token stays as it is.
LEMMA StandsForIs ==
  ASSUME NEW macros, NEW pieces, Marked(macros, pieces), NEW n \in 1..Len(pieces),
         NEW i \in 0..Len(macros)
  PROVE  LET piece == pieces[n]  x == StandsFor(macros, i, piece) IN
         /\ x \in Text /\ SignedRight(x)
         /\ Has(x, Sign) => "ref" \in DOMAIN piece
         /\ ~Has(x, Sign) => x = StandsFor(macros, Len(macros), piece)
<1> DEFINE piece == pieces[n]  c == Content(piece)  m == Len(macros)
<1>1. /\ piece \in TemplatePiece /\ c \in Text /\ ~Has(c, Sign)
      /\ Written(piece) = IF "ref" \in DOMAIN piece THEN Token(c) ELSE c
  BY PieceIs
<1>2. m \in Nat /\ i \in Nat /\ i <= m
  BY DEF Marked
<1> HIDE DEF piece
<1>3. CASE Known(macros, i, piece)
  <2>1. PICK j \in 1..i : macros[j].key = piece.ref
    BY <1>3 DEF Known
  <2>2. j \in 1..m
    BY <1>2, <2>1
  <2>3. Known(macros, m, piece)
    BY <1>3, <2>1, <2>2 DEF Known
  <2>4. /\ StandsFor(macros, i, piece) = ValueOf(macros, piece.ref)
        /\ StandsFor(macros, m, piece) = ValueOf(macros, piece.ref)
    BY <1>3, <2>3 DEF StandsFor
  <2>5. ValueOf(macros, piece.ref) \in Text /\ ~Has(ValueOf(macros, piece.ref), Sign)
    BY <2>1, <2>2, ValueIs
  <2>6. QED BY <2>4, <2>5 DEF SignedRight, piece
<1>4. CASE ~Known(macros, i, piece) /\ "ref" \in DOMAIN piece
  <2>1. StandsFor(macros, i, piece) = Token(c)
    BY <1>1, <1>4 DEF StandsFor
  <2>2. Token(c) \in Text /\ Has(Token(c), Sign)
    BY <1>1, TokenIs, TokenHas
  <2>3. SignedRight(Token(c))
    BY <1>1 DEF SignedRight
  <2>4. QED BY <1>4, <2>1, <2>2, <2>3 DEF piece
<1>5. CASE "ref" \notin DOMAIN piece
  <2>1. ~Known(macros, i, piece) /\ ~Known(macros, m, piece)
    BY <1>5 DEF Known
  <2>2. StandsFor(macros, i, piece) = c /\ StandsFor(macros, m, piece) = c
    BY <1>1, <1>5, <2>1 DEF StandsFor
  <2>3. QED BY <1>1, <2>2 DEF SignedRight, piece
<1>6. QED BY <1>3, <1>4, <1>5

\* A round turns the tokens of its macro into its value, and nothing else.
LEMMA StandsForStep ==
  ASSUME NEW macros, NEW pieces, Marked(macros, pieces), NEW n \in 1..Len(pieces),
         NEW i \in 1..Len(macros), NEW k, k = i - 1
  PROVE  StandsFor(macros, i, pieces[n]) =
           IF StandsFor(macros, k, pieces[n]) = Token(macros[i].key) THEN macros[i].value
           ELSE StandsFor(macros, k, pieces[n])
<1> DEFINE piece == pieces[n]  c == Content(piece)  key == macros[i].key  value == macros[i].value
<1>1. /\ piece \in TemplatePiece /\ c \in Text /\ ~Has(c, Sign)
      /\ Written(piece) = IF "ref" \in DOMAIN piece THEN Token(c) ELSE c
  BY PieceIs
<1>2. /\ ValueOf(macros, key) = value /\ key \in Text /\ Has(Token(key), Sign)
  BY ValueIs, TokenHas
<1>3. \A j \in 1..i : j \in 1..k \/ j = i
  OBVIOUS
<1>4. \A j \in 1..k : j \in 1..i /\ j \in 1..Len(macros)
  BY DEF Marked
<1>5. i \in 1..i
  BY DEF Marked
<1>6. "ref" \in DOMAIN piece => c = piece.ref
  BY DEF Content
<1> HIDE DEF piece, key, value, c
<1>7. CASE Known(macros, k, piece)
  <2>1. PICK j \in 1..k : macros[j].key = piece.ref
    BY <1>7 DEF Known
  <2>2. Known(macros, i, piece)
    BY <1>4, <1>7, <2>1 DEF Known
  <2>3. ~Has(ValueOf(macros, piece.ref), Sign)
    BY <1>4, <2>1, ValueIs
  <2>4. ValueOf(macros, piece.ref) # Token(key)
    BY <1>2, <2>3
  <2>5. QED BY <1>7, <2>2, <2>4 DEF StandsFor, piece, key
<1>8. CASE ~Known(macros, k, piece) /\ Known(macros, i, piece)
  <2>1. "ref" \in DOMAIN piece /\ piece.ref = key
    BY <1>3, <1>8 DEF Known, key
  <2>2. StandsFor(macros, k, piece) = Token(key)
    BY <1>1, <1>6, <1>8, <2>1 DEF StandsFor
  <2>3. StandsFor(macros, i, piece) = value
    BY <1>2, <1>8, <2>1 DEF StandsFor
  <2>4. QED BY <2>2, <2>3 DEF piece, key, value
<1>9. CASE ~Known(macros, i, piece)
  <2>1. ~Known(macros, k, piece)
    BY <1>4, <1>9 DEF Known
  <2>2. StandsFor(macros, k, piece) = Written(piece) /\ StandsFor(macros, i, piece) = Written(piece)
    BY <1>9, <2>1 DEF StandsFor
  <2>3. Written(piece) # Token(key)
    <3>1. CASE "ref" \in DOMAIN piece
      <4>1. c # key
        BY <1>5, <1>6, <1>9, <3>1 DEF Known, key
      <4>2. QED BY <1>1, <1>2, <3>1, <4>1, TokensDiffer
    <3>2. CASE "ref" \notin DOMAIN piece
      BY <1>1, <1>2, <3>2
    <3>3. QED BY <3>1, <3>2
  <2>4. QED BY <2>2, <2>3 DEF piece, key
<1>10. QED BY <1>7, <1>8, <1>9


\* The parts after a round.
LEMMA AfterType ==
  ASSUME NEW macros, NEW pieces, Marked(macros, pieces), NEW i \in 0..Len(macros)
  PROVE  /\ After(macros, i, pieces) \in Seq(Text)
         /\ Len(After(macros, i, pieces)) = Len(pieces) /\ Len(pieces) \in Nat
         /\ \A n \in 1..Len(pieces) :
              /\ After(macros, i, pieces)[n] = StandsFor(macros, i, pieces[n])
              /\ SignedRight(After(macros, i, pieces)[n])
<1>1. Len(pieces) \in Nat
  BY DEF Marked
<1>2. \A n \in 1..Len(pieces) : /\ StandsFor(macros, i, pieces[n]) \in Text
                                /\ SignedRight(StandsFor(macros, i, pieces[n]))
  BY StandsForIs
<1>3. QED BY <1>1, <1>2 DEF After

\* What is to come of a template is what there is after the last round.
LEMMA ExpansionIs ==
  ASSUME NEW macros, NEW pieces, Marked(macros, pieces)
  PROVE  Expansion(macros, pieces) = FlattenSeq(After(macros, Len(macros), pieces))
<1>1. DOMAIN pieces = 1..Len(pieces) /\ DOMAIN macros = 1..Len(macros)
  BY DEF Marked
<1>2. \A n \in 1..Len(pieces) :
        Known(macros, Len(macros), pieces[n])
          <=> "ref" \in DOMAIN pieces[n] /\ pieces[n].ref \in Keys(macros)
  BY <1>1 DEF Known, Keys
<1>3. After(macros, Len(macros), pieces) =
        [n \in DOMAIN pieces |->
          IF "ref" \in DOMAIN pieces[n] /\ pieces[n].ref \in Keys(macros)
          THEN ValueOf(macros, pieces[n].ref) ELSE Written(pieces[n])]
  BY <1>1, <1>2, Zenon DEF After, StandsFor
<1>4. QED BY <1>3 DEF Expansion

\* If the name of a macro comes to stand between two tokens, there is a clash.
LEMMA BetweenTokens ==
  ASSUME NEW macros, NEW pieces, Marked(macros, pieces), NEW i \in 0..Len(macros),
         NEW j \in 1..Len(macros), NEW a \in 1..Len(pieces), NEW b \in 1..Len(pieces), a < b,
         Has(After(macros, i, pieces)[a], Sign), Has(After(macros, i, pieces)[b], Sign),
         FlattenSeq(SubSeq(After(macros, i, pieces), a + 1, b - 1)) = macros[j].key
  PROVE  Clash(macros, pieces)
<1> DEFINE ss == After(macros, i, pieces)  l == b - 1
           zz == SubSeq(ss, a + 1, l)  pp == SubSeq(pieces, a + 1, l)  k == l - a
           ee == After(macros, Len(macros), pp)
<1>1. /\ ss \in Seq(Text) /\ Len(ss) = Len(pieces) /\ Len(pieces) \in Nat
      /\ \A n \in 1..Len(pieces) : ss[n] = StandsFor(macros, i, pieces[n])
  BY AfterType
<1>2. a \in 0..Len(pieces) /\ l \in a..Len(pieces) /\ k \in Nat
      /\ \A n \in 1..k : a + n \in 1..Len(pieces)
  BY <1>1
<1>3. pieces \in Seq(TemplatePiece) /\ macros \in Seq([key : Text, value : Text])
  BY DEF Marked
<1>4. FlattenSeq(zz) = macros[j].key /\ Has(ss[a], Sign) /\ Has(ss[b], Sign)
  OBVIOUS
<1> HIDE DEF ss, l, k
<1>5. zz \in Seq(Text) /\ Len(zz) = k /\ \A n \in 1..k : zz[n] = ss[a + n]
  <2>1. a \in 0..Len(ss) /\ l \in a..Len(ss)
    BY <1>1, <1>2
  <2>2. QED BY <1>1, <2>1, CutIs DEF k
<1>6. pp \in Seq(TemplatePiece) /\ Len(pp) = k /\ \A n \in 1..k : pp[n] = pieces[a + n]
  BY <1>2, <1>3, CutIs DEF k
<1> HIDE DEF zz, pp
<1>7. Marked(macros, pp)
  <2>1. \A n \in 1..Len(pp) : ~Has(Content(pp[n]), Sign)
    BY <1>2, <1>6 DEF Marked
  <2>2. QED BY <1>6, <2>1 DEF Marked
<1>8. /\ ee \in Seq(Text) /\ Len(ee) = k
      /\ \A n \in 1..k : ee[n] = StandsFor(macros, Len(macros), pp[n])
  <2>1. Len(macros) \in 0..Len(macros)
    BY <1>3
  <2>2. QED BY <1>6, <1>7, <2>1, AfterType
<1> HIDE DEF ee
<1>9. ASSUME NEW n \in 1..k PROVE zz[n] = ee[n]
  <2>1. ~Has(zz[n], Sign)
    <3>1. ~Has(macros[j].key, Sign)
      BY ValueIs
    <3>2. QED BY <1>4, <1>5, <3>1, PartHas
  <2>2. zz[n] = StandsFor(macros, i, pieces[a + n]) /\ a + n \in 1..Len(pieces)
    BY <1>1, <1>2, <1>5
  <2>3. zz[n] = StandsFor(macros, Len(macros), pieces[a + n])
    BY <2>1, <2>2, StandsForIs
  <2>4. QED BY <1>6, <1>8, <2>3
<1>10. zz = ee
  <2>1. Len(zz) = Len(ee)
    BY <1>5, <1>8
  <2>2. \A n \in 1..Len(zz) : zz[n] = ee[n]
    BY <1>5, <1>9
  <2>3. QED BY <1>5, <1>8, <2>1, <2>2, SeqEqual
<1>11. Expansion(macros, pp) = macros[j].key
  BY <1>4, <1>7, <1>10, ExpansionIs DEF ee
<1>12. Expansion(macros, pp) \in Keys(macros)
  <2>1. j \in DOMAIN macros
    BY <1>3
  <2>2. QED BY <1>11, <2>1 DEF Keys
<1>13. "ref" \in DOMAIN pieces[a] /\ "ref" \in DOMAIN pieces[b]
  <2>1. ss[a] = StandsFor(macros, i, pieces[a]) /\ ss[b] = StandsFor(macros, i, pieces[b])
    BY <1>1
  <2>2. QED BY <1>4, <2>1, StandsForIs
<1>14. a \in DOMAIN pieces /\ b \in DOMAIN pieces /\ "ref" \in DOMAIN pieces[a] \cap DOMAIN pieces[b]
  BY <1>3, <1>13
<1>15. Expansion(macros, SubSeq(pieces, a + 1, b - 1)) \in Keys(macros)
  BY <1>12 DEF pp, l
<1>16. QED BY <1>14, <1>15 DEF Clash

\* A round of replace_all() makes of the parts before it those after it.
LEMMA RoundDone ==
  ASSUME NEW macros, NEW pieces, Marked(macros, pieces), ~Clash(macros, pieces),
         NEW i \in 1..Len(macros), NEW k, k = i - 1
  PROVE  ReplaceEach(FlattenSeq(After(macros, k, pieces)), Token(macros[i].key), macros[i].value)
           = FlattenSeq(After(macros, i, pieces))
<1> DEFINE ss == After(macros, k, pieces)  key == macros[i].key  value == macros[i].value
           rr == After(macros, i, pieces)
<1>1. k \in 0..Len(macros) /\ i \in 0..Len(macros)
  BY DEF Marked
<1>2. /\ ss \in Seq(Text) /\ Len(ss) = Len(pieces) /\ Len(pieces) \in Nat
      /\ \A n \in 1..Len(pieces) : /\ ss[n] = StandsFor(macros, k, pieces[n])
                                   /\ SignedRight(ss[n])
  BY <1>1, AfterType
<1>3. /\ rr \in Seq(Text) /\ Len(rr) = Len(pieces)
      /\ \A n \in 1..Len(pieces) : rr[n] = StandsFor(macros, i, pieces[n])
  BY <1>1, AfterType
<1>4. key \in Text /\ value \in Text /\ ~Has(key, Sign)
  BY ValueIs
<1>5. ASSUME NEW a \in 1..Len(ss), NEW b \in 1..Len(ss), a < b, Has(ss[a], Sign), Has(ss[b], Sign)
      PROVE  FlattenSeq(SubSeq(ss, a + 1, b - 1)) # key
  <2>1. a \in 1..Len(pieces) /\ b \in 1..Len(pieces)
    BY <1>2
  <2>2. QED BY <1>1, <1>5, <2>1, BetweenTokens
<1> HIDE DEF ss, rr, key, value
<1>6. ReplaceEach(FlattenSeq(ss), Token(key), value) = FlattenSeq(Exchanged(ss, Token(key), value))
  <2>1. \A n \in 1..Len(ss) : SignedRight(ss[n])
    BY <1>2
  <2>2. QED BY ONLY <1>2, <1>4, <1>5, <2>1, TokenReplaced
<1>7. Exchanged(ss, Token(key), value) = rr
  <2> DEFINE xx == Exchanged(ss, Token(key), value)
  <2>1. DOMAIN ss = 1..Len(pieces)
    BY <1>2
  <2>2. ASSUME NEW n \in 1..Len(pieces)
        PROVE  IF ss[n] = Token(key) THEN value = rr[n] ELSE ss[n] = rr[n]
    <3>1. rr[n] = IF ss[n] = Token(key) THEN value ELSE ss[n]
      BY <1>2, <1>3, StandsForStep DEF key, value
    <3>2. QED BY <3>1
  <2>3. xx = [n \in 1..Len(pieces) |-> rr[n]]
    BY <2>1, <2>2 DEF Exchanged
  <2>4. rr = [n \in 1..Len(pieces) |-> rr[n]]
    BY <1>3
  <2>5. QED BY <2>3, <2>4
<1>8. QED BY <1>6, <1>7 DEF ss, rr, key, value


\* One round after the other, and nothing if a key has a dot.
LEMMA MacrosAre ==
  ASSUME NEW macros, NEW pieces, Marked(macros, pieces), ~Clash(macros, pieces),
         NEW s, s = FlattenSeq([n \in DOMAIN pieces |-> Written(pieces[n])]),
         ReplaceMacros(macros, s) # Failed
  PROVE  ReplaceMacros(macros, s) = Expansion(macros, pieces)
<1> DEFINE m == Len(macros)
           Round(n, u) == ReplaceEach(u, Token(macros[n].key), macros[n].value)
           Part(n) == FlattenSeq(After(macros, n, pieces))
           h == [n \in 0..m |-> Part(n)]
           Is(g) == g = [n \in 0..m |-> IF n = 0 THEN s ELSE Round(n, g[n - 1])]
<1>1. m \in Nat
  BY DEF Marked
<1>2. Part(0) = s
  <2>1. pieces \in Seq(TemplatePiece)
    BY DEF Marked
  <2>2. DOMAIN pieces = 1..Len(pieces)
    BY <2>1
  <2>3. \A n \in 1..Len(pieces) : StandsFor(macros, 0, pieces[n]) = Written(pieces[n])
    <3>1. 1..0 = {}
      OBVIOUS
    <3>2. QED BY <3>1 DEF StandsFor, Known
  <2>4. QED BY <2>2, <2>3 DEF After
<1>3. ASSUME NEW n \in 1..m PROVE Part(n) = Round(n, Part(n - 1))
  BY RoundDone
<1>4. ReplaceMacros(macros, s) = (CHOOSE g : Is(g))[m]
  BY DEF ReplaceMacros
<1> HIDE DEF Round, Part
<1>5. Is(h)
  <2>1. \A n \in 0..m : h[n] = IF n = 0 THEN s ELSE Round(n, h[n - 1])
    <3>1. \A n \in 1..m : n - 1 \in 0..m
      BY <1>1
    <3>2. QED BY <1>1, <1>2, <1>3, <3>1
  <2>2. QED BY <2>1
<1>6. PICK g : Is(g) /\ ReplaceMacros(macros, s) = g[m]
  <2> HIDE DEF Is
  <2> QED BY <1>4, <1>5
<1>7. g[0] = s /\ \A n \in 1..m : g[n] = Round(n, g[n - 1])
  BY <1>1, <1>6
<1> HIDE DEF Is, h
<1> DEFINE S == {n \in 0..m : g[n] = Part(n)}
<1>8. 0 \in S
  BY <1>1, <1>2, <1>7
<1>9. ASSUME NEW n \in 0..(m - 1), n \in S PROVE n + 1 \in S
  <2> DEFINE k == n + 1
  <2>1. k \in 1..m /\ k \in 0..m /\ k - 1 = n
    BY <1>1
  <2> HIDE DEF k
  <2>2. g[k] = Part(k)
    BY <1>3, <1>7, <1>9, <2>1
  <2>3. QED BY <2>1, <2>2 DEF k
<1>10. m \in S
  <2> HIDE DEF S
  <2> QED BY <1>1, <1>8, <1>9, UpTo
<1>11. ReplaceMacros(macros, s) = Part(m)
  BY <1>6, <1>10
<1>12. QED BY <1>11, ExpansionIs DEF Part

\* Every reference to a macro becomes its value, whatever the order of the file,
\* unless a sign that marks none, or a name that comes to stand between two
\* tokens, leads replace_all() astray.
THEOREM MacrosExpanded == Spec => []MacrosReplaced
<1>1. TextInv => MacrosReplaced
  <2> SUFFICES ASSUME TextInv, Done("expand"), result # Failed,
                      ~OtherAt(task.macros, task.template), ~Clash(task.macros, task.template)
               PROVE  result = Expansion(task.macros, task.template)
    BY DEF MacrosReplaced
  <2> DEFINE macros == task.macros  pieces == task.template
             s == FlattenSeq([n \in DOMAIN pieces |-> Written(pieces[n])])
  <2>1. /\ macros \in Seq([key : Text, value : Text]) /\ pieces \in Seq(TemplatePiece)
        /\ \A i, j \in DOMAIN macros : macros[i].key = macros[j].key => i = j
    <3>1. PICK m \in Macros, t \in Templates : task = [do |-> "expand", macros |-> m, template |-> t]
      BY DEF TextInv, Asked, Done
    <3>2. task.macros = m /\ task.template = t
      BY <3>1
    <3>3. QED BY <3>2, TextAssumption DEF TemplatePiece
  <2>2. result = ReplaceMacros(macros, s)
    BY DEF TextInv, Computed
  <2>3. ~OtherAt(macros, pieces) /\ ~Clash(macros, pieces)
    OBVIOUS
  <2> HIDE DEF macros, pieces
  <2>4. DOMAIN macros = 1..Len(macros) /\ DOMAIN pieces = 1..Len(pieces)
    BY <2>1
  <2>5. Marked(macros, pieces)
    <3>1. \A i \in 1..Len(macros) : macros[i] \in ToSet(macros)
      BY <2>4 DEF ToSet
    <3>2. \A n \in 1..Len(pieces) : pieces[n] \in ToSet(pieces)
      BY <2>4 DEF ToSet
    <3>3. \A i \in 1..Len(macros) : ~Has(macros[i].key, Sign) /\ ~Has(macros[i].value, Sign)
      BY <2>3, <3>1 DEF OtherAt, Sign
    <3>4. \A n \in 1..Len(pieces) : ~Has(Content(pieces[n]), Sign)
      BY <2>3, <3>2 DEF OtherAt, Sign, Content
    <3>5. QED BY <2>1, <2>4, <3>3, <3>4 DEF Marked
  <2> HIDE DEF s
  <2>6. ReplaceMacros(macros, s) = Expansion(macros, pieces)
    BY <2>2, <2>3, <2>5, MacrosAre DEF s
  <2>7. QED BY <2>2, <2>6 DEF macros, pieces
<1>2. QED BY <1>1, TextInvAlways, PTL
=============================================================================
