--------------------------- MODULE VariableScripts ---------------------------
(***************************************************************************)
(* Build scripts of four statements about two variables, for TLC.          *)
(***************************************************************************)
EXTENDS Naturals, Sequences

Word(w) == [is |-> "word", name |-> w, dflt |-> <<>>]
Ref(k)  == [is |-> "ref", name |-> k, dflt |-> <<"d">>]
Join(k) == [is |-> "join", name |-> k, dflt |-> <<"d">>]
Def(is, u, t, k, parts) ==
  [is |-> is, unit |-> u, table |-> t, key |-> k, parts |-> parts, passes |-> {}]
Reads(u, k, ps) ==
  [is |-> "read", unit |-> u, table |-> u, key |-> k, parts |-> <<>>, passes |-> ps]

MCVars == {"X", "Y"}

\* Definitions of X, in the root script, in an included one, and for the root
\* script in an included one; of Y by X; and requests.
Xs == {Def("set", 1, 1, "X", <<Word("a")>>), Def("set", 1, 1, "X", <<Ref("X"), Word("b")>>),
       Def("set", 2, 1, "X", <<Word("c")>>), Def("set", 2, 2, "X", <<Ref("X"), Word("e")>>),
       Def("let", 1, 1, "X", <<Word("l")>>), Def("let", 1, 1, "X", <<Word("m")>>),
       Def("env", 1, 1, "X", <<Word("w")>>), Def("env", 2, 2, "X", <<Word("v")>>)}
Ys == {Def("set", 1, 1, "Y", <<Ref("X"), Join("X")>>), Def("let", 1, 1, "Y", <<Word("y"), Ref("X")>>),
       Def("env", 1, 1, "Y", <<Ref("X"), Word("z")>>)}
Rs == {Reads(1, "X", {"build"}), Reads(2, "X", {"setup", "build"}), Reads(1, "Y", {"setup", "build"}),
       Reads(1, "X", {"init", "build"})}

\* X is in the environment; and neither or both are given with -D.
MCGivens   == {[k \in MCVars |-> {}], [k \in MCVars |-> {<<"g">>}]}
MCEnvirons == {[k \in MCVars |-> IF k = "X" THEN {<<"o">>} ELSE {}]}

MCScripts == {s \in [1 .. 4 -> Xs \cup Ys \cup Rs] : s[4] \in Rs /\ \E i \in 1 .. 3 : s[i] \notin Rs}
=============================================================================
