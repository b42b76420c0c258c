----------------------------- MODULE RuleNames -----------------------------
(***************************************************************************)
(* The .deps files of the cc rules of a project are named by the rules'    *)
(* place in the list of all registered nodes (script.c:192 and 488).  The  *)
(* nodes of the root script are registered when it is parsed; those of the *)
(* scripts it includes and the copies a macro call makes follow while the  *)
(* tree is initialised, one include or call after the other.  A project is *)
(* here this row of groups.  Every rule is taken for one node with one     *)
(* hard-coded source, which is not among the recorded values               *)
(* (script.c:1125), and its other settings never change.                   *)
(***************************************************************************)
EXTENDS Naturals, Sequences, SequencesExt

CONSTANTS
  Root,       \* the root script
  Groups,     \* what includes and calls register, in order: the script it comes
              \* from, whether an if on the option is around it, and the rows of
              \* rules that may be written there
  MaxChanges  \* bound: number of changes by the user, and of kills

VARIABLES
  changes,  \* counts the changes
  clock,    \* the last modification time issued
  rules,    \* by group: its rules
  option,   \* the variable of the conditions
  script,   \* modification time of every script
  source,   \* modification time of the source of every rule
  object,   \* by rule: the time of the source its object is of, 0 without one
  deps,     \* the .deps files: their name and what they record
  pos,      \* place of the rule that is resolved, 0 while no autark runs
  step,     \* what is to be done with it
  last      \* outcome of the last invocation, if nothing has changed since

user  == <<rules, option, script, source>>
disk  == <<object, deps>>
proc  == <<pos, step>>
vars  == <<changes, clock, user, disk, proc, last>>

Group   == DOMAIN Groups
Scripts == {Root} \cup {Groups[g].script : g \in Group}
Sources == UNION {Range(t) : t \in UNION {Groups[g].texts : g \in Group}}

\* The nodes in the order of their registration, with the rules ru and the option op.
RegisteredOf(ru, op) == FlattenSeq([g \in Group |->
  IF op \/ ~Groups[g].optional
  THEN [i \in DOMAIN ru[g] |-> [script |-> Groups[g].script, source |-> ru[g][i]]]
  ELSE <<>>])
Registered == RegisteredOf(rules, option)

Rule == Registered[pos]

\* The directory of a rule's script and the rule's number: .N.deps.
Vfile == <<Rule.script, pos>>
Kept  == {d \in deps : d.name = Vfile}

\* Mutant: only the script the rule stands in.
UnitDeps_Own(s) == {s}

\* The scripts a rule records: its own and those around it.
UnitDeps(s) == {s, Root}

Record == [name |-> Vfile, source |-> Rule.source, at |-> source[Rule.source],
           scripts |-> [s \in UnitDeps(Rule.script) |-> script[s]]]

ScriptLate(d) == \E s \in DOMAIN d.scripts : script[s] > d.scripts[s]
SourceLate(d) == source[d.source] > d.at
Outdated(d)   == ScriptLate(d) \/ SourceLate(d)

\* The rule's source is compiled if a record about all sources is outdated, or
\* the one about this source is.
ToCompile(d) == ScriptLate(d) \/ (SourceLate(d) /\ d.source = Rule.source)

-----------------------------------------------------------------------------
\* What may be written in the scripts.
Texts == {ru \in [Group -> UNION {Groups[g].texts : g \in Group}] :
            \A g \in Group : ru[g] \in Groups[g].texts}

Assumption ==
  /\ Groups \in Seq(Range(Groups))
  /\ \A g \in Group : /\ Groups[g].optional \in BOOLEAN
                       /\ \A t \in Groups[g].texts : t \in Seq(Range(t))

Init ==
  /\ changes = 0 /\ clock = 1
  /\ rules \in Texts
  /\ option \in BOOLEAN
  /\ script = [s \in Scripts |-> 1] /\ source = [s \in Sources |-> 1]
  /\ object = [s \in Sources |-> 0] /\ deps = {}
  /\ pos = 0 /\ step = "idle" /\ last = "none"

Outside ==
  /\ pos = 0 /\ changes < MaxChanges /\ changes' = changes + 1
  /\ last' = "none"
  /\ UNCHANGED <<disk, proc>>

EditScript(g, t) ==
  /\ Outside
  /\ clock' = clock + 1
  /\ rules' = [rules EXCEPT ![g] = t]
  /\ script' = [script EXCEPT ![Groups[g].script] = clock']
  /\ UNCHANGED <<option, source>>

EditSource(s) ==
  /\ Outside
  /\ clock' = clock + 1
  /\ source' = [source EXCEPT ![s] = clock']
  /\ UNCHANGED <<rules, option, script>>

SetOption ==
  /\ Outside
  /\ option' = ~option
  /\ UNCHANGED <<clock, rules, script, source>>

-----------------------------------------------------------------------------
\* The rules are built in the order of their registration.
NextRule ==
  IF pos < Len(Registered)
  THEN pos' = pos + 1 /\ step' = "resolve" /\ UNCHANGED last
  ELSE pos' = 0 /\ step' = "idle" /\ last' = "ok"

Begin ==
  /\ pos = 0
  /\ NextRule
  /\ UNCHANGED <<changes, clock, user, disk>>

Skip ==
  /\ step = "resolve" /\ \E d \in Kept : ~Outdated(d)
  /\ NextRule
  /\ UNCHANGED <<changes, clock, user, disk>>

Resolve ==
  /\ step = "resolve" /\ \A d \in Kept : Outdated(d)
  /\ step' = IF \A d \in Kept : ToCompile(d) THEN "compile" ELSE "commit"
  /\ UNCHANGED <<changes, clock, user, disk, pos, last>>

Compile ==
  /\ step = "compile"
  /\ object' = [object EXCEPT ![Rule.source] = source[Rule.source]]
  /\ step' = "commit"
  /\ UNCHANGED <<changes, clock, user, deps, pos, last>>

Commit ==
  /\ step = "commit"
  /\ deps' = (deps \ Kept) \cup {Record}
  /\ NextRule
  /\ UNCHANGED <<changes, clock, user, object>>

Kill ==
  /\ pos # 0 /\ changes < MaxChanges /\ changes' = changes + 1
  /\ pos' = 0 /\ step' = "idle" /\ last' = "killed"
  /\ UNCHANGED <<clock, user, disk>>

Next ==
  \/ \E g \in Group : \E t \in Groups[g].texts : EditScript(g, t)
  \/ \E s \in Sources : EditSource(s)
  \/ SetOption \/ Begin \/ Skip \/ Resolve \/ Compile \/ Commit \/ Kill

Spec == Init /\ [][Next]_vars

-----------------------------------------------------------------------------
\* A finished invocation has left every rule of the project, as it is written
\* now, with an object of its present source, whatever .deps file earlier rules
\* have left under the name that is now the rule's (script.c:488).
ObjectsFresh ==
  last = "ok" => \A r \in Range(Registered) : object[r.source] = source[r.source]

-----------------------------------------------------------------------------
\* What rule of a script has a number is decided by the scripts that rule
\* records: neither an option nor another script gives it to another one.
PlacesKept ==
  \A a, b \in Texts : \A op, oq \in BOOLEAN :
    \A i \in DOMAIN RegisteredOf(a, op) \cap DOMAIN RegisteredOf(b, oq) :
      LET m == RegisteredOf(a, op)[i]
          n == RegisteredOf(b, oq)[i]
      IN  /\ m.script = n.script
          /\ \A g \in Group : Groups[g].script \in {m.script, Root} => a[g] = b[g]
          => m.source = n.source

\* So it is when only the last include or call, and the root script, may register
\* now this and now that.
OnlyLastChanges ==
  \A g \in Group \ {Len(Groups)} :
    /\ ~Groups[g].optional
    /\ Groups[g].script = Root \/ \A t, u \in Groups[g].texts : t = u
=============================================================================
