---------------------------- MODULE MCBuildGraph ----------------------------
(***************************************************************************)
(* Build scripts of three rules for TLC, with two products at most where   *)
(* they build, so that the bound on times leaves room for a second build.  *)
(***************************************************************************)
EXTENDS BuildGraphInv

CONSTANTS s, p, q, z     \* files

Three(c1, c2, c3) == <<c1, c2, c3>>

\* What the rules consume, by shape.
MCConsumes == [
  chain |-> Three(<<p, q>>, <<s>>, <<s, p>>),  \* 1 needs 2 and 3, and 3 needs 2
  flags |-> Three(<<p, q>>, <<s>>, <<s, p>>),  \* the same, with other arguments for 2
  swap  |-> Three(<<p>>, <<q, s>>, <<s>>),     \* 1 needs 2, and 2 needs 3
  both  |-> Three(<<p, q>>, <<s>>, <<p>>),     \* 2 makes what 3 made
  less  |-> Three(<<p>>, <<s>>, <<s>>),        \* q is made no more
  ring  |-> Three(<<s, p>>, <<q>>, <<z>>),     \* every rule needs the next one
  self  |-> Three(<<p>>, <<s>>, <<q>>),        \* rule 3 needs itself
  twice |-> Three(<<p>>, <<s>>, <<s>>),        \* rules 2 and 3 both produce p
  late  |-> Three(<<p>>, <<s>>, <<p, s>>)]     \* the last rule installs

MCProduces == [sh \in DOMAIN MCConsumes |->
  CASE sh = "both"  -> Three({}, {p, q}, {})
    [] sh = "less"  -> Three({}, {p}, {})
    [] sh = "twice" -> Three({}, {p}, {p})
    [] sh = "ring"  -> Three({z}, {p}, {q})
    [] OTHER        -> Three({}, {p}, {q})]

MCArgs == [sh \in DOMAIN MCConsumes |->
  IF sh = "flags" THEN Three("a", "b", "a") ELSE Three("a", "a", "a")]

MCAlways == [sh \in DOMAIN MCConsumes |-> IF sh = "late" THEN {2} ELSE {}]
MCLate   == [sh \in DOMAIN MCConsumes |-> IF sh = "late" THEN {3} ELSE {}]

\* Pairs of shapes a variable may switch between.
MCVariables == {<<"chain", "flags">>, <<"flags", "chain">>}

\* The theorems apply to these scripts.
ASSUME TrustworthyAssumption == Trustworthy
=============================================================================
