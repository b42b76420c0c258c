----------------------------- MODULE NamedRules -----------------------------
(***************************************************************************)
(* Projects of a root script and two scripts it includes, for TLC.         *)
(***************************************************************************)
EXTENDS Naturals

\* What an include or a call registers.
From(script, optional, texts) == [script |-> script, optional |-> optional, texts |-> texts]

\* The scripts whose rules come and go are the last one and the root, which is
\* recorded by every rule.
MCLastGrows == <<
  From("root", FALSE, {<<"a">>, <<"b", "a">>}),
  From("q", TRUE, {<<"c", "d">>, <<"d">>, <<"d", "c">>})>>

\* An optional call, and two included scripts the first of which grows.
MCAnyGrows == <<
  From("root", TRUE, {<<"a">>}),
  From("p", FALSE, {<<>>, <<"b">>}),
  From("q", FALSE, {<<"c", "d">>})>>
=============================================================================
