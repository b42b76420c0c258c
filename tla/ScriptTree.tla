----------------------------- MODULE ScriptTree -----------------------------
(***************************************************************************)
(* The initialisation of a build script (node_init in script.c): the tree  *)
(* of nodes is visited while `if', `in-sources', `include', `macro' and    *)
(* `call' rewrite the very lists of siblings that are being visited.       *)
(*                                                                         *)
(* A node is a record with the pointers of struct node; 0 is the null      *)
(* pointer, and a new node gets the next number, as in sctx->nodes.  A     *)
(* text is a sequence of nodes in the order of the parser, each with the   *)
(* position of the node it stands in.                                      *)
(*                                                                         *)
(* Everything that is neither one of the five directives nor a part of     *)
(* one is a "rule" (with an own init handler, or none) or a "word".        *)
(***************************************************************************)
EXTENDS Naturals, Sequences, FiniteSetsExt, SequencesExt

CONSTANTS
  Texts,     \* build scripts
  Files,     \* text of every script that may be included
  MaxCalls   \* MACRO_MAX_RECURSIVE_CALLS

ASSUME CallsAssumption == MaxCalls \in Nat \ {0}

\* A directive has its condition, or its name: without, the script is refused.
ASSUME TextsAssumption ==
  \A t \in Texts \cup {Files[f] : f \in DOMAIN Files} : \A i \in DOMAIN t :
    t[i].kind \in {"if", "include", "macro", "call"} => \E j \in DOMAIN t : t[j].up = i

Kinds == {"script", "rule", "word", "cond", "if", "else", "in", "include",
          "macro", "call", "arg"}

VARIABLES
  text,     \* the build script
  node,     \* all nodes registered so far
  stack,    \* node_init and the loops it is in, innermost last
  macros,   \* macros by unit and name
  calls,    \* num_calls of every macro
  result    \* "running", "done" or "fatal"

vars == <<text, node, stack, macros, calls, result>>

-----------------------------------------------------------------------------
\* Lists and trees in a heap h of nodes.

First(S) == IF S = {} THEN 0 ELSE Min(S)

\* The nodes from n on along `next'.
List(h, n) ==
  LET from[m \in 0 .. Len(h)] == IF m = 0 THEN <<>> ELSE <<m>> \o from[h[m].next]
  IN from[n]

Children(h, n) == List(h, h[n].child)

\* node_visit of n and of its next siblings.
Walk(h, n) ==
  LET from[m \in 0 .. Len(h)] ==
        IF m = 0 THEN <<>> ELSE <<m>> \o from[h[m].child] \o from[h[m].next]
  IN from[n]

\* A node kind stands somewhere above n.
Inside(h, n, kind) ==
  LET above[m \in 0 .. Len(h)] ==
        m # 0 /\ (h[m].kind = kind \/ above[h[m].parent])
  IN above[h[n].parent]

\* The script node n belongs to.
Unit(h, n) ==
  LET up[m \in 1 .. Len(h)] == IF h[m].kind = "script" THEN m ELSE up[h[m].parent]
  IN up[n]

\* node_find_prev_sibling: 0 if n is the first child, or is not in its list.
Prev(h, n) ==
  LET l == Children(h, h[n].parent)
  IN First({l[i] : i \in {j \in 1 .. Len(l) - 1 : l[j + 1] = n}})

\* Let the list that led to n lead to m instead.
Relink(h, n, m) ==
  IF Prev(h, n) # 0 THEN [h EXCEPT ![Prev(h, n)].next = m]
                    ELSE [h EXCEPT ![h[n].parent].child = m]

\* node_bind: whether the commands of a rule run in the source directory.
Bound(h, from) ==
  [n \in DOMAIN h |->
     IF n >= from THEN [h[n] EXCEPT !.insrc = h[n].kind = "rule" /\ Inside(h, n, "in")]
                  ELSE h[n]]

\* The nodes of a text parsed after `base' others, under a parent.
Parsed(h, t, parent) ==
  LET base == Len(h)
      Id(S) == IF S = {} THEN 0 ELSE base + Min(S)
      new == [i \in DOMAIN t |->
                [kind |-> t[i].kind, val |-> t[i].val, num |-> t[i].num,
                 neg |-> t[i].neg, insrc |-> FALSE, init |-> FALSE,
                 parent |-> IF t[i].up = 0 THEN parent ELSE base + t[i].up,
                 child |-> Id({j \in DOMAIN t : t[j].up = i}),
                 next |-> Id({j \in DOMAIN t : j > i /\ t[j].up # 0 /\ t[j].up = t[i].up})]]
  IN Bound(h \o new, base + 1)

-----------------------------------------------------------------------------
\* Replacing a node by what it holds.

\* Mutant: the new nodes keep their old parent.
Spliced_OldParent(h, n, first, rest) ==
  LET l == List(h, first)
      to == IF first = 0 THEN rest ELSE first
      closed == IF first = 0 THEN h ELSE [h EXCEPT ![Last(l)].next = rest]
  IN [Relink(closed, n, to) EXCEPT ![n].next = to, ![n].child = 0]

\* The list that starts with `first' takes the place of n, and `rest' follows
\* it.  n itself leads into the new list: loops that stand at n go on there.
Spliced(h, n, first, rest) ==
  LET l == List(h, first)
      to == IF first = 0 THEN rest ELSE first
      parented == [m \in DOMAIN h |->
                     IF m \in ToSet(l) THEN [h[m] EXCEPT !.parent = h[n].parent] ELSE h[m]]
      closed == IF first = 0 THEN h ELSE [parented EXCEPT ![Last(l)].next = rest]
  IN [Relink(closed, n, to) EXCEPT ![n].next = to, ![n].child = 0]

\* _if_cond_eval, of a word or of a condition on one.
Holds(h, c) ==
  LET word == IF h[c].kind = "word" THEN c ELSE h[c].child
  IN (word # 0 /\ h[word].val = "yes") # h[c].neg

IsElse(h, n) == n # 0 /\ h[n].kind = "else"

\* _if_pull_if and _if_pull_else.
Branch(h, n) ==
  LET c == h[n].child
      nx == h[n].next
      els == IF IsElse(h, nx) THEN h[nx].child ELSE 0
      rest == IF IsElse(h, nx) THEN h[nx].next ELSE nx
  IN Spliced(h, n, IF Holds(h, c) THEN h[c].next ELSE els, rest)

-----------------------------------------------------------------------------
\* Calls.

\* The nodes of a macro that a call clones: all but itself and its name.
Body(h, mn) == Walk(h, h[h[mn].child].next)

Args(h, n) == List(h, h[h[n].child].next)

\* Mutant: &{} always stands for the first argument.
ArgNo_First(h, body) ==
  [i \in DOMAIN body |-> IF h[body[i]].num > 0 THEN h[body[i]].num ELSE 1]

\* The argument each node of a body stands for: &{N} for the N-th, &{} for the
\* one after that of the last placeholder.
ArgNo(h, body) ==
  LET no[i \in 0 .. Len(body)] ==
        IF i = 0 THEN 0
        ELSE IF h[body[i]].kind # "arg" THEN no[i - 1]
        ELSE IF h[body[i]].num > 0 THEN h[body[i]].num
        ELSE no[i - 1] + 1
  IN [i \in DOMAIN body |-> no[i]]

MissingArg(h, n, mn) ==
  LET body == Body(h, mn) IN
  \E i \in DOMAIN body : /\ h[body[i]].kind = "arg"
                         /\ ArgNo(h, body)[i] \notin DOMAIN Args(h, n)

\* node_clone_and_register: a copy has neither the flags nor the pointers.
Copied(r) == [r EXCEPT !.neg = FALSE, !.insrc = FALSE, !.init = FALSE,
                       !.parent = 0, !.child = 0, !.next = 0]

\* Copies of the body for the call n: a placeholder becomes a copy of its
\* argument, without what stands in that.
Clones(h, n, mn) ==
  LET body == Body(h, mn)
      args == Args(h, n)
      Copy(m) == IF m \in ToSet(body)
                 THEN Len(h) + (CHOOSE i \in DOMAIN body : body[i] = m) ELSE 0
      Of(i) == IF h[body[i]].kind = "arg" THEN args[ArgNo(h, body)[i]] ELSE body[i]
  IN [i \in DOMAIN body |->
        [Copied(h[Of(i)]) EXCEPT
           !.parent = IF h[body[i]].parent = mn THEN h[n].parent ELSE Copy(h[body[i]].parent),
           !.child = Copy(h[body[i]].child),
           !.next = Copy(h[body[i]].next)]]

\* Add a list after the last child of p.
Appended(h, p, first) ==
  LET l == Children(h, p)
  IN IF first = 0 THEN h
     ELSE IF l = <<>> THEN [h EXCEPT ![p].child = first]
     ELSE [h EXCEPT ![Last(l)].next = first]

FirstClone(h, mn) == IF Body(h, mn) = <<>> THEN 0 ELSE Len(h) + 1

\* Mutant: the call stays in the list.
Called_Keeps(h, n, mn) ==
  Bound(Appended(h \o Clones(h, n, mn), h[n].parent, FirstClone(h, mn)), Len(h) + 1)

\* _call_init: the arguments are taken apart, the call is removed, and the
\* copies become the last children of its parent.
Called(h, n, mn) ==
  LET apart == [m \in DOMAIN h |->
                  IF m \in ToSet(Args(h, n)) THEN [h[m] EXCEPT !.next = 0] ELSE h[m]]
      removed == Relink(apart \o Clones(h, n, mn), n, h[n].next)
  IN Bound(Appended(removed, h[n].parent, FirstClone(h, mn)), Len(h) + 1)

-----------------------------------------------------------------------------
\* A loop of node_init.  It stands at node `at', ends at 0 or at `end', and
\* belongs to `of'.  Passes are repeated as long as something was initialised.

Pass(n, first) == [loop |-> "pass", of |-> n, at |-> first, end |-> 0, again |-> FALSE]
Condition(n, c) == [loop |-> "cond", of |-> n, at |-> c, end |-> 0, again |-> FALSE]
CloneLoop(mn, first, end) ==
  [loop |-> "clones", of |-> mn, at |-> first, end |-> end, again |-> FALSE]

Init ==
  /\ text \in Texts
  /\ node = [Parsed(<<>>, text, 0) EXCEPT ![1].init = TRUE]
  /\ stack = <<Pass(1, node[1].child)>>
  /\ macros = {}
  /\ calls = [n \in {} |-> 0]
  /\ result = "running"

Top == Last(stack)
AtEnd == Top.at \in {0, Top.end}
Running == result = "running" /\ stack # <<>>

\* The loop has met a node of this kind that is not initialised.
Meets(kinds) ==
  /\ Running /\ ~AtEnd
  /\ ~node[Top.at].init
  /\ node[Top.at].kind \in kinds

Marked(h, n) == [h EXCEPT ![n].init = TRUE]

\* The loop has initialised a node.
Counted == [stack EXCEPT ![Len(stack)].again = TRUE]

Fatal ==
  /\ result' = "fatal"
  /\ UNCHANGED <<text, node, stack, macros, calls>>

\* A rule or a word: its children first.
InitNode ==
  /\ Meets({"script", "rule", "word", "cond", "else", "arg"})
  /\ node' = Marked(node, Top.at)
  /\ stack' = IF node[Top.at].child = 0 THEN Counted
              ELSE Append(Counted, Pass(Top.at, node[Top.at].child))
  /\ UNCHANGED <<text, macros, calls, result>>

\* An `if' has its condition initialised,
InitIf ==
  /\ Meets({"if"})
  /\ node' = Marked(node, Top.at)
  /\ stack' = Append(Counted, Condition(Top.at, node[Top.at].child))
  /\ UNCHANGED <<text, macros, calls, result>>

\* and then gives way to one of its branches.
TakeBranch ==
  /\ Running
  /\ Top.loop = "cond" /\ node[Top.at].init
  /\ node' = Branch(node, Top.of)
  /\ stack' = Front(stack)
  /\ UNCHANGED <<text, macros, calls, result>>

InitInSources ==
  /\ Meets({"in"})
  /\ node' = LET n == Top.at
             IN Spliced(Marked(node, n), n, node[n].child, node[n].next)
  /\ stack' = Counted
  /\ UNCHANGED <<text, macros, calls, result>>

\* The script named is parsed and takes the place of the directive.
InitInclude ==
  /\ Meets({"include"})
  /\ node' = LET n == Top.at
                 h == Marked(Marked(node, n), node[n].child)
                 t == Files[node[node[n].child].val]
             IN Spliced(Parsed(h, t, h[n].parent), n, Len(h) + 1, h[n].next)
  /\ stack' = Counted
  /\ UNCHANGED <<text, macros, calls, result>>

\* A macro is removed and kept under its name in the unit it stands in.
InitMacro ==
  /\ Meets({"macro"})
  /\ LET n == Top.at
         key == [unit |-> Unit(node, n), name |-> node[node[n].child].val]
     IN /\ node' = Relink(Marked(node, n), n, node[n].next)
        /\ macros' = {m \in macros : m.key # key} \cup {[key |-> key, mn |-> n]}
        /\ calls' = [m \in DOMAIN calls \cup {n} |-> IF m = n THEN 0 ELSE calls[m]]
  /\ stack' = Counted
  /\ UNCHANGED <<text, result>>

Named(n) ==
  {m.mn : m \in {x \in macros :
     x.key = [unit |-> Unit(node, n), name |-> node[node[n].child].val]}}

\* No such macro in the unit, an argument that is not given, or too deep.
InitCallFatal ==
  /\ Meets({"call"})
  /\ \A mn \in Named(Top.at) : \/ MissingArg(node, Top.at, mn)
                               \/ calls[mn] + 1 >= MaxCalls
  /\ Fatal

\* The copies are initialised one after the other before the loop goes on.
InitCall ==
  /\ Meets({"call"})
  /\ \E mn \in Named(Top.at) :
       /\ ~MissingArg(node, Top.at, mn)
       /\ calls[mn] + 1 < MaxCalls
       /\ node' = Called(Marked(node, Top.at), Top.at, mn)
       /\ calls' = [calls EXCEPT ![mn] = @ + 1]
       /\ stack' = Append(Counted, CloneLoop(mn, FirstClone(node, mn), node[Top.at].next))
  /\ UNCHANGED <<text, macros, result>>

\* On to the next sibling, wherever the node at hand leads now.
Advance ==
  /\ Running /\ ~AtEnd
  /\ Top.loop # "cond" /\ node[Top.at].init
  /\ stack' = [stack EXCEPT ![Len(stack)].at = node[Top.at].next]
  /\ UNCHANGED <<text, node, macros, calls, result>>

\* Mutant: what the earlier pass has initialised is counted again.
Repeat_Forever ==
  /\ Running /\ AtEnd
  /\ Top.loop = "pass" /\ Top.again
  /\ stack' = [stack EXCEPT ![Len(stack)].at = node[Top.of].child]
  /\ UNCHANGED <<text, node, macros, calls, result>>

\* Another pass over the children, of which some may be new.
Repeat ==
  /\ Running /\ AtEnd
  /\ Top.loop = "pass" /\ Top.again
  /\ stack' = [stack EXCEPT ![Len(stack)] = Pass(Top.of, node[Top.of].child)]
  /\ UNCHANGED <<text, node, macros, calls, result>>

Return ==
  /\ Running /\ AtEnd
  /\ ~(Top.loop = "pass" /\ Top.again)
  /\ calls' = IF Top.loop = "clones" THEN [calls EXCEPT ![Top.of] = @ - 1] ELSE calls
  /\ stack' = Front(stack)
  /\ result' = IF Front(stack) = <<>> THEN "done" ELSE result
  /\ UNCHANGED <<text, node, macros>>

Next == \/ InitNode \/ InitIf \/ TakeBranch \/ InitInSources \/ InitInclude
        \/ InitMacro \/ InitCallFatal \/ InitCall
        \/ Advance \/ Repeat \/ Return

Spec == Init /\ [][Next]_vars

\* autark waits for nobody while it initialises the tree: it does not stop for
\* ever.  (Next is enabled as long as Running is true, and this is WF_vars(Next).)
FairSpec == Spec /\ (<>[]Running => []<><<Next>>_vars)
=============================================================================
