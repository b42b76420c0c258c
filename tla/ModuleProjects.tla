--------------------------- MODULE ModuleProjects ---------------------------
(***************************************************************************)
(* Projects of two or three cxx rules for TLC.                             *)
(***************************************************************************)
EXTENDS Naturals, Sequences

\* What a source may say.
Says(is, name, imports, first) ==
  [is |-> is, name |-> name, imports |-> imports, ext |-> is # "plain", first |-> first]

\* Two interfaces, the second of which may import the first, may exchange names
\* or become a partition; a unit of the first; a program.
MCSources == [
  b |-> {Says("interface", "base", {}, TRUE), Says("interface", "other", {}, FALSE)},
  d |-> {Says("interface", "derived", {"base"}, TRUE), Says("interface", "other", {}, FALSE),
         Says("partition", "derived", {}, FALSE)},
  u |-> {Says("plain", "", {"base"}, FALSE), [Says("unit", "base", {"base"}, TRUE) EXCEPT !.ext = FALSE]},
  m |-> {Says("plain", "", {"derived"}, TRUE)}]

R(tag, sources, listed, consumes) ==
  [tag |-> tag, sources |-> sources, listed |-> listed, consumes |-> consumes]

\* The program in a rule of its own, after the one with the interfaces or before
\* it; a build tool that shares an interface, and a list of module units; two rules
\* that need each other's interface; two programs of one rule.
MCLayouts == {
  <<R("target", <<"b", "d">>, {}, {}), R("target", <<"m">>, {}, {})>>,
  <<R("target", <<"m">>, {}, {<<"target", "derived">>}), R("target", <<"b", "d">>, {}, {})>>,
  <<R("host", <<"b">>, {}, {}), R("target", <<"b", "u">>, {"u"}, {})>>,
  <<R("target", <<"b">>, {}, {<<"target", "derived">>}), R("target", <<"d">>, {}, {<<"target", "base">>})>>,
  <<R("target", <<"b", "d", "u", "m">>, {}, {})>>}

\* Two rules with an interface each.
MCTwoProviders == {<<R("target", <<"b">>, {}, {}), R("target", <<"d">>, {}, {})>>}
=============================================================================
