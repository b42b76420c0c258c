---------------------------- MODULE MCScriptTree ----------------------------
(***************************************************************************)
(* Build scripts for TLC: one or two macros and a few directives in all    *)
(* orders and nestings up to a depth.                                      *)
(***************************************************************************)
EXTENDS ScriptText, TLC

\* Trees.
T(kind, val, num, neg, kids) ==
  [kind |-> kind, val |-> val, num |-> num, neg |-> neg, kids |-> kids]
Word(v)        == T("word", v, 0, FALSE, <<>>)
Rule(v, kids)  == T("rule", v, 0, FALSE, kids)
Arg(i)         == T("arg", "", i, FALSE, <<>>)
Cond(neg, kid) == T("cond", "", 0, neg, <<kid>>)
If(c, kids)    == T("if", "", 0, FALSE, <<c>> \o kids)
Else(kids)     == T("else", "", 0, FALSE, kids)
In(kids)       == T("in", "", 0, FALSE, kids)
Include(f)     == T("include", "", 0, FALSE, <<Word(f)>>)
Macro(m, kids) == T("macro", "", 0, FALSE, <<Word(m)>> \o kids)
Call(m, args)  == T("call", "", 0, FALSE, <<Word(m)>> \o args)
Script(kids)   == T("script", "", 0, FALSE, kids)

\* A tree as a text whose first node is the n-th of the whole.
RECURSIVE Flat(_, _, _), FlatAll(_, _, _)
Flat(tree, n, up) ==
  <<[kind |-> tree.kind, val |-> tree.val, num |-> tree.num, neg |-> tree.neg, up |-> up]>>
  \o FlatAll(tree.kids, n + 1, n)
FlatAll(trees, n, up) ==
  IF trees = <<>> THEN <<>>
  ELSE LET f == Flat(Head(trees), n, up) IN f \o FlatAll(Tail(trees), n + Len(f), up)

TextOf(kids) == Flat(Script(kids), 1, 0)

-----------------------------------------------------------------------------
Yes == Word("yes")
No  == Word("no")
A == Rule("a", <<>>)
B == Rule("b", <<>>)

MCFiles == [f |-> TextOf(<<Macro("M", <<Rule("f", <<>>)>>), A, Call("M", <<>>), B>>)]

\* M shows its arguments, once inside of a condition and once in sources.
Shows == <<If(Arg(1), <<Rule("x", <<Arg(0)>>)>>), Else(<<In(<<Rule("y", <<Arg(1)>>)>>)>>),
           Rule("z", <<Arg(0)>>)>>
\* M calls itself once more, or again and again, before its last rule.
Recurs == <<If(Arg(1), <<Rule("x", <<>>), Call("M", <<No, Yes>>)>>), Rule("z", <<Arg(2)>>)>>
Loops  == <<Call("M", <<Arg(2), Arg(1)>>), Rule("z", <<>>)>>
\* M defines a macro and calls it inside of a rule.
Nests  == <<Macro("N", <<Rule("n", <<>>)>>), Rule("g", <<Call("N", <<>>), Arg(1)>>)>>
Includes == <<In(<<A>>), Include("f"), B>>

Call2 == Call("M", <<Yes, No>>)
Call1 == Call("M", <<No>>)
Plain == {<<>>, <<A>>, <<Call2>>, <<A, Call2>>, <<Call1, B>>}

\* Lists with one directive, or an if and its else.
Ifs(S) == {<<If(c, s)>> : c \in {Yes, Cond(TRUE, Yes)}, s \in S} \cup
          {<<If(c, s), Else(e)>> : c \in {Yes, Cond(TRUE, Yes)}, s, e \in S}
Ins   == {<<In(<<>>)>>, <<In(<<A>>)>>, <<In(<<If(No, <<A>>), Else(<<B, A>>), A>>)>>}
Lists == Plain \cup Ifs(Plain) \cup Ins \cup {<<Include("f")>>}
Inner == {<<Rule("r", s)>> : s \in Lists} \cup {<<If(Yes, s), Else(<<>>)>> : s \in Lists}

MCTexts ==
  {TextOf(<<Macro("M", body)>> \o s \o e) :
     body \in {Shows, Recurs, Loops, Nests, Includes, <<>>},
     s \in Lists \cup Inner, e \in {<<>>, <<A>>, <<Call2>>}}
  \cup {TextOf(<<Call2, Macro("M", <<A>>)>>), TextOf(<<Macro("M", <<A>>), Macro("M", <<B>>), Call2>>)}

\* A macro with a negated condition.
MCNegated ==
  {TextOf(<<Macro("M", <<If(Cond(neg, Arg(1)), <<A>>), Else(<<B>>)>>)>> \o s \o <<Call2>>) :
     neg \in BOOLEAN, s \in Lists}
=============================================================================
