---------------------------- MODULE MCTemplates ----------------------------
(***************************************************************************)
(* Two templates for TLC.                                                  *)
(***************************************************************************)
EXTENDS Templates, TLC

CONSTANTS v, w, x, y, usr, opt     \* variables, values, prefixes

MCSame == <<{v}, {v}>>     \* both templates mention v
Symmetry == Permutations({x, y}) \cup Permutations({usr, opt})

MCOwn  == <<{v}, {w}>>     \* each mentions a variable of its own
=============================================================================
