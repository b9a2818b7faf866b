--------------------------- MODULE MCTextFunctions ---------------------------
(* TextFunctions for TLC: every short text over the characters that matter. *)
EXTENDS TextFunctions

MCChar ==
  {" ", "\"", "\\", "@", "/", ".", "exe", "com", "bat", "newline", "tab", "NUL", ":", ";", "=",
   "a", "b", "d", "e", "m", "p", "r", "x"}

Texts(chars, n) == UNION {[1..k -> chars] : k \in 0..n}
Lists(texts, n) == UNION {[1..k -> texts] : k \in 0..n}

\* Macros a and b in either order, whose values may be names, or hold an @; and
\* a key with a dot.  There is no macro e.
MCMacros ==
  {<<[key |-> k, value |-> v], [key |-> l, value |-> w]>> :
     k, l \in {<<"a">>, <<"b">>}, v, w \in {<<>>, <<"a">>, <<"b">>, <<"x">>, <<"@">>, <<"@", "b", "@">>}}
  \ {<<[key |-> k, value |-> v], [key |-> k, value |-> w]>> :
     k \in {<<"a">>, <<"b">>}, v, w \in {<<>>, <<"a">>, <<"b">>, <<"x">>, <<"@">>, <<"@", "b", "@">>}}
MCDotted == {<<[key |-> <<"a", ".">>, value |-> <<"x">>]>>}

Piece == {[ref |-> <<"a">>], [ref |-> <<"b">>], [ref |-> <<"e">>],
          [text |-> <<"a">>], [text |-> <<"x">>]}
MCTemplates == Lists(Piece, 4)
MCAllMacros == MCMacros \cup MCDotted

MCLines ==
  [1..4 -> {<<>>, <<"r">>, <<" ">>, <<"r", " ">>, <<" ", "r">>, <<"r", " ", "p">>,
            <<"r", "NUL", "p">>}]

MCCommands ==
  {[name |-> n, args |-> a] : n \in {<<"m">>, <<"m", "a">>},
                              a \in Lists(Texts({"m", " ", "\"", "\\"}, 2), 2)}

MCSearches ==
  {[path |-> p, files |-> f] :
     p \in {<<>>, <<"d">>, <<":", "d", "/", ":", "e">>},
     f \in SUBSET {<<"d", "/", "m">>, <<"e", "/", "m">>}}
  \cup
  {[path |-> p, files |-> f] :
     p \in {<<"e", ";", ";", "d">>, <<"e", "/", ";", "d", "\\">>},
     f \in SUBSET {<<"d", "\\", "m">>, <<"e", "\\", "m">>, <<"e", "\\", "m", ".", "exe">>,
                   <<"e", "/", "m", ".", "exe">>}}

MCArgLists ==
  Lists(Texts({"a", " ", "tab", "\"", "\\", "NUL"}, 2), 2)
  \cup [1..1 -> Texts({"a", " ", "tab", "\\"}, 3)]
MCEnvLists == Lists(Texts({"a", "=", "NUL"}, 2), 2)
=============================================================================
