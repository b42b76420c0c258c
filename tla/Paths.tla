-------------------------------- MODULE Paths --------------------------------
(***************************************************************************)
(* The algorithms on paths (paths.c), which work on characters, and what   *)
(* they compute, in terms of the segments of a path.  A path is a sequence *)
(* of characters.  Every rule names its products and its dependencies by   *)
(* what these functions return.                                            *)
(***************************************************************************)
EXTENDS Naturals, Sequences, FiniteSetsExt, SequencesExt

CONSTANTS
  Chars,     \* characters, "/" and "." among them
  MaxLength  \* bound: length of a path

VARIABLES from, to, cwd     \* the paths of a call
vars == <<from, to, cwd>>

Slash == <<"/">>
Dots  == <<".", ".">>
Absolute(p) == p # <<>> /\ p[1] = "/"

\* The character at i, or "end".
At(p, i) == IF i \in DOMAIN p THEN p[i] ELSE "end"
From(p, i) == SubSeq(p, i, Len(p))

-----------------------------------------------------------------------------
\* Mutant: a path that ends in .. is taken for normal.
NeedsNormalize_DotsInside(p) ==
  \/ \E i \in DOMAIN p :
       /\ p[i] = "/"
       /\ \/ At(p, i + 1) = "/"
          \/ At(p, i + 1) = "." /\ At(p, i + 2) \in {"/", "end"}
          \/ At(p, i + 1) = "." /\ At(p, i + 2) = "." /\ At(p, i + 3) = "/"
  \/ Len(p) > 1 /\ Last(p) = "/"

\* _path_needs_normalize
NeedsNormalize(p) ==
  \/ \E i \in DOMAIN p :
       /\ p[i] = "/"
       /\ \/ At(p, i + 1) = "/"
          \/ At(p, i + 1) = "." /\ At(p, i + 2) \in {"/", "end"}
          \/ At(p, i + 1) = "." /\ At(p, i + 2) = "." /\ At(p, i + 3) \in {"/", "end"}
  \/ Len(p) > 1 /\ Last(p) = "/"

\* The loop over the segments from i on, with those that are kept so far.
RECURSIVE Scan(_, _, _)
Scan(p, i, kept) ==
  IF i > Len(p) THEN kept
  ELSE IF p[i] = "/" THEN Scan(p, i + 1, kept)
  ELSE LET next == Min({j \in i .. Len(p) + 1 : At(p, j) \in {"/", "end"}})
           s == SubSeq(p, i, next - 1)
       IN Scan(p, next, CASE s = <<".">> -> kept
                          [] s = Dots -> IF kept = <<>> THEN kept ELSE Front(kept)
                          [] OTHER -> Append(kept, s))

\* path_normalize_cwd
Normalize(p, c) ==
  LET whole == IF Absolute(p) THEN p ELSE c \o Slash \o p
      kept  == Scan(whole, 1, <<>>)
  IN IF Absolute(p) /\ ~NeedsNormalize(p) THEN p
     ELSE IF kept = <<>> THEN Slash
     ELSE FlattenSeq([k \in DOMAIN kept |-> Slash \o kept[k]])

NumSegments(p) == IF p = Slash THEN 0 ELSE Cardinality({i \in DOMAIN p : p[i] = "/"})

\* path_relativize_cwd: the first place at which both differ, the segments both
\* have, and the place in the target after them.
Relativize(f, t, c) ==
  LET a == Normalize(f, c)
      b == Normalize(t, c)
      i == Min({j \in 2 .. Len(a) + 1 : At(a, j) # At(b, j)} \cup {Len(a) + 2})
      both == {j \in 2 .. Min({i - 1, Len(a) + 1}) : At(a, j) \in {"/", "end"}}
      ends == both \cup (IF {At(a, i), At(b, i)} = {"/", "end"} THEN {i} ELSE {})
      up == IF NumSegments(a) > Cardinality(ends) THEN NumSegments(a) - Cardinality(ends) ELSE 0
      rest == From(b, Max({1} \cup ends) + 1)
      r == FlattenSeq([k \in 1 .. up |-> <<".", ".", "/">>]) \o rest
  IN IF r = <<>> THEN <<".">> ELSE IF Len(r) > 1 /\ Last(r) = "/" THEN Front(r) ELSE r

\* path_is_prefix_for: {} or {what follows the prefix}.
PrefixFor(prefix, p, c) ==
  LET q == IF Absolute(p) THEN p ELSE Normalize(p, c)
      rest == From(q, Len(prefix) + 1)
      start == Min({j \in 1 .. Len(rest) + 1 : At(rest, j) # "/"})
  IN CASE ~IsPrefix(prefix, q) -> {}
       [] rest = <<>> -> {<<>>}
       [] rest # <<>> /\ rest[1] = "/" -> {From(rest, start)}
       [] OTHER -> IF Last(prefix) = "/" THEN {rest} ELSE {}

\* path_basename
Basename(p) ==
  LET last == Max({1} \cup {i \in DOMAIN p : p[i] # "/"})
      first == Max({1} \cup {i \in 2 .. last : p[i - 1] = "/"})
  IN IF p = <<>> THEN <<".">> ELSE SubSeq(p, first, last)

\* path_join_path_alloc, path_join_path_pool
Join(dir, name) ==
  LET start == Min({j \in 1 .. Len(name) + 1 : At(name, j) # "/"})
  IN dir \o (IF dir # <<>> /\ Last(dir) # "/" THEN Slash ELSE <<>>) \o From(name, start)

-----------------------------------------------------------------------------
\* What a path means: the segments that lead from the root to it.
Segments(p) ==
  LET cuts == {i \in 0 .. Len(p) + 1 : At(p, i) \in {"/", "end"}}
      next(i) == Min({j \in cuts : j > i})
      at == SetToSortSeq(cuts \ {Len(p) + 1}, <)
  IN SelectSeq([k \in DOMAIN at |-> SubSeq(p, at[k] + 1, next(at[k]) - 1)], LAMBDA s : s # <<>>)

Walked(start, p) ==
  FoldLeft(LAMBDA w, s : CASE s = <<".">> -> w
                            [] s = Dots -> IF w = <<>> THEN w ELSE Front(w)
                            [] OTHER -> Append(w, s), start, Segments(p))

Meaning(p, c) == Walked(IF Absolute(p) THEN <<>> ELSE Walked(<<>>, c), p)

\* How it is written in the one normal way.
Written(w) == IF w = <<>> THEN Slash ELSE FlattenSeq([k \in DOMAIN w |-> Slash \o w[k]])

PathsUpTo(n) == UNION {[1 .. k -> Chars] : k \in 0 .. n}

Init ==
  /\ from \in PathsUpTo(MaxLength) /\ to \in {Slash \o p : p \in PathsUpTo(MaxLength - 2)}
  /\ cwd = Slash

\* A call later the process may be somewhere else.
Chdir == cwd = Slash /\ cwd' = Normalize(to, Slash) /\ UNCHANGED <<from, to>>
Next == Chdir
Spec == Init /\ [][Next]_vars

-----------------------------------------------------------------------------
\* Two names of one file have one normal form, which is the key of products and
\* of lines in .deps, and the shortcut for paths that look normal keeps it: the
\* normal form is that of the path's meaning (paths.c:74).
OneName == Normalize(from, cwd) = Written(Meaning(from, cwd))

\* A relative path leads from the one directory to the other, and back to the
\* same name, and climbs no higher than it must (paths.c:447).
LeadsThere ==
  LET r == Relativize(from, to, cwd)
      a == Meaning(from, cwd)
      b == Meaning(to, cwd)
      common == Max({k \in 0 .. Min({Len(a), Len(b)}) : SubSeq(a, 1, k) = SubSeq(b, 1, k)})
  IN /\ Walked(a, r) = b
     /\ Len(SelectSeq(Segments(r), LAMBDA s : s = Dots)) = Len(a) - common
     /\ Normalize(r, Normalize(from, cwd)) = Normalize(to, cwd)

\* A directory is a prefix of just the paths in it, and what follows it names
\* the same file from there, also for the join of both (paths.c:510 and 539).
InsideOnly ==
  LET a == Normalize(from, cwd)
      b == Normalize(to, cwd)
      inside == IsPrefix(Meaning(a, cwd), Meaning(b, cwd))
  IN /\ PrefixFor(a, b, cwd) # {} <=> inside
     /\ \A rest \in PrefixFor(a, b, cwd) :
          Normalize(Join(a, rest), cwd) = b
     /\ b # Slash => Basename(b) = Last(Meaning(b, cwd))
=============================================================================
