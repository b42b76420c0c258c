----------------------------- MODULE ScriptText -----------------------------
(***************************************************************************)
(* What a build script says, and that ScriptTree makes this of it: a text  *)
(* is expanded without pointers and passes, as one would read it.          *)
(***************************************************************************)
EXTENDS ScriptTree

-----------------------------------------------------------------------------
\* A text as a tree.

\* The argument a placeholder stands for: &{} for the one after the last.
RECURSIVE Number(_, _)
Number(t, i) ==
  LET before == {j \in 1 .. i - 1 : t[j].kind \in {"arg", "macro"}}
      last == Max(before)
  IN IF t[i].num > 0 THEN t[i].num
     ELSE IF t[last].kind = "macro" THEN 1 ELSE Number(t, last) + 1

RECURSIVE TreeOf(_, _)
TreeOf(t, i) ==
  [kind |-> t[i].kind, val |-> t[i].val, neg |-> t[i].neg,
   num |-> IF t[i].kind = "arg" THEN Number(t, i) ELSE 0,
   kids |-> LET js == SetToSortSeq({j \in DOMAIN t : t[j].up = i}, <)
            IN [k \in DOMAIN js |-> TreeOf(t, js[k])]]

\* A tree with arguments in place of its placeholders, which have numbers.
RECURSIVE Filled(_, _)
Filled(tree, args) ==
  IF tree.kind = "arg" THEN args[tree.num]
  ELSE [tree EXCEPT !.kids = [k \in DOMAIN tree.kids |-> Filled(tree.kids[k], args)]]

\* The numbers of placeholders in a tree, in the order of the text.
RECURSIVE Placeholders(_)
Placeholders(tree) ==
  IF tree.kind = "arg" THEN <<tree.num>>
  ELSE FlattenSeq([k \in DOMAIN tree.kids |-> Placeholders(tree.kids[k])])

-----------------------------------------------------------------------------
\* Reading a list of trees.  r has what stands here so far, what calls have
\* added behind it, the macros known, how deep in calls of each we are, whether
\* in-sources is around, and whether the script is wrong.

True(c) == LET word == IF c.kind = "word" THEN <<c>> ELSE c.kids
           IN (word # <<>> /\ word[1].val = "yes") # c.neg

Depth(r, name) == Len(SelectSeq(r.in, LAMBDA m : m = name))

\* A node with what its own list of children came to.
Node(tree, r) == [kind |-> tree.kind, val |-> tree.val, insrc |-> tree.kind = "rule" /\ r.src,
                  kids |-> r.here \o r.behind]

RECURSIVE Read(_, _)
Read(trees, r) ==
  IF trees = <<>> \/ r.wrong THEN r ELSE
  LET tree == Head(trees)
      more == Tail(trees)
      below == [r EXCEPT !.here = <<>>, !.behind = <<>>]
      \* r after the list s was read inside of it
      With(s) == [r EXCEPT !.macros = s.macros, !.wrong = s.wrong]
  IN CASE tree.kind = "if" ->
            LET els == more # <<>> /\ Head(more).kind = "else"
                branch == IF True(tree.kids[1]) THEN Tail(tree.kids)
                          ELSE IF els THEN Head(more).kids ELSE <<>>
            IN Read(IF els THEN Tail(more) ELSE more, Read(branch, r))
       [] tree.kind = "in" ->
            Read(more, [Read(tree.kids, [r EXCEPT !.src = TRUE]) EXCEPT !.src = r.src])
       [] tree.kind = "include" ->
            LET script == TreeOf(Files[tree.kids[1].val], 1)
                s == Read(script.kids, [below EXCEPT !.macros = <<>>])
            IN Read(more, [r EXCEPT !.here = Append(@, Node(script, s)), !.wrong = s.wrong])
       [] tree.kind = "macro" ->
            Read(more, [r EXCEPT !.macros = <<[name |-> tree.kids[1].val,
                                               body |-> Tail(tree.kids)]>> \o @])
       [] tree.kind = "call" ->
            LET name == tree.kids[1].val
                args == Tail(tree.kids)
                known == SelectSeq(r.macros, LAMBDA m : m.name = name)
                body == known[1].body
                ok == /\ known # <<>>
                      /\ Depth(r, name) + 1 < MaxCalls
                      /\ \A k \in DOMAIN body :
                           ToSet(Placeholders(body[k])) \subseteq DOMAIN args
                s == Read([k \in DOMAIN body |-> Filled(body[k], args)],
                          [below EXCEPT !.in = Append(@, name)])
            IN IF ok THEN Read(more, [With(s) EXCEPT !.behind = @ \o s.here \o s.behind])
                     ELSE [r EXCEPT !.wrong = TRUE]
       [] OTHER ->
            LET s == Read(tree.kids, below)
            IN Read(more, [With(s) EXCEPT !.here = Append(@, Node(tree, s))])

Reading ==
  Read(TreeOf(text, 1).kids, [here |-> <<>>, behind |-> <<>>, macros |-> <<>>,
                              in |-> <<>>, src |-> FALSE, wrong |-> FALSE])

\* What the pointers of a finished tree say.
RECURSIVE Built(_)
Built(n) ==
  [kind |-> node[n].kind, val |-> node[n].val, insrc |-> node[n].insrc,
   kids |-> LET l == Children(node, n) IN [k \in DOMAIN l |-> Built(l[k])]]

-----------------------------------------------------------------------------
\* The registered nodes and the loops.
TypeOK ==
  LET Ptr == 0 .. Len(node) IN
  /\ \A n \in DOMAIN node :
       /\ node[n].kind \in Kinds
       /\ node[n].parent \in Ptr /\ node[n].child \in Ptr /\ node[n].next \in Ptr
  /\ \A i \in DOMAIN stack :
       /\ stack[i].loop \in {"pass", "cond", "clones"}
       /\ stack[i].of \in DOMAIN node /\ stack[i].at \in Ptr /\ stack[i].end \in Ptr
  /\ \A m \in macros : m.mn \in DOMAIN node /\ node[m.mn].kind = "macro"
  /\ DOMAIN calls \subseteq DOMAIN node
  /\ result \in {"running", "done", "fatal"}

\* However often lists are cut open while loops stand in them, the tree stays
\* a tree: no node is in two places, and every node knows the parent in whose
\* list it is, which the next replacement relies on (node_find_prev_sibling).
TreeSound ==
  LET all == Walk(node, 1) IN
  /\ TypeOK
  /\ IsInjective(all)
  /\ \A i \in DOMAIN all : \A m \in ToSet(Children(node, all[i])) : node[m].parent = all[i]

\* At the end every node of the tree has been initialised, also the ones that
\* came into lists whose loops had gone past them, and no directive is left.
AllInitialised ==
  result = "done" =>
    \A n \in ToSet(Walk(node, 1)) :
      node[n].init /\ node[n].kind \notin {"if", "in", "include", "macro", "call", "arg"}

\* The tree is what the text says: branches as their conditions select them,
\* in-sources and included scripts at their place, calls behind the other
\* children in the order of their initialisation, all with their arguments.
\* And initialisation gives up only if a macro is not known at the call, an
\* argument is missing, or a macro is called too deep within itself.
AsWritten ==
  /\ result = "done" => /\ ~Reading.wrong
                        /\ Built(1).kids = Reading.here \o Reading.behind
  /\ result = "fatal" => Reading.wrong

\* Macros that call themselves are stopped: initialisation ends.
Terminates == <>(result # "running")
=============================================================================
