----------------------------- MODULE CxxModules -----------------------------
(***************************************************************************)
(* C++20 modules across the cxx rules of a project (cxx_modules.c and its  *)
(* callers in node_cc.c): the registry that all rules fill while they are  *)
(* set up, the compiled interfaces (BMIs), the module map that gcc reads,  *)
(* and what every rule records of them in its .deps file.                  *)
(*                                                                         *)
(* A module is named by the tag of its target, "host" for build tools, and *)
(* its name.  A file is its modification time and its image, that is what  *)
(* it was made from.  CcRule looks at one rule from inside, in particular  *)
(* at its headers, settings and parallel compilers.                        *)
(***************************************************************************)
EXTENDS Naturals, FiniteSets, FiniteSetsExt, SequencesExt

CONSTANTS
  Styles,     \* of the compiler: "gcc" or "clang"
  Layouts,    \* build scripts: sequences of cxx rules
  Texts,      \* what a source may say: by source, a set of texts
  MaxChanges  \* bound: number of edits, deletions and invocations that fail

VARIABLES
  style, rules,  \* the inputs
  changes,
  clock,         \* the last modification time issued
  source,        \* by source: its time and its text
  object,        \* by rule and source: {} or the file
  bmi,           \* by module: {} or the file
  map,           \* by tag: {} or the module map, its time and its modules
  deps,          \* by rule: the lines of its .deps file, {} if there is none
  stack,         \* rules that are being built, the innermost last
  step,          \* what the innermost has come to
  built,         \* rules this invocation has been through
  ifaces, rest,  \* the sources it still has to compile
  failed,        \* those that did not compile
  last           \* outcome of the last invocation, if nothing has changed since

inputs == <<style, rules>>
files  == <<object, bmi, map>>
proc   == <<stack, step, built, ifaces, rest, failed>>
vars   == <<inputs, changes, clock, source, files, deps, proc, last>>

Sources == DOMAIN Texts
Names   == UNION {{t.name : t \in Texts[s]} : s \in Sources}
Modules == {"target", "host"} \X Names
Rules   == DOMAIN rules

-----------------------------------------------------------------------------
\* Sources that are taken for module units: by their extension, or because the
\* rule says so; and what the scan of one finds.
Text(s)       == source[s].text
Unit(r, s)    == s \in rules[r].listed \/ Text(s).ext
Exports(r, s) == Unit(r, s) /\ Text(s).is = "interface"

\* The registry, in the order of the rules and their sources.
Provided ==
  LET Units(r) == SelectSeq(rules[r].sources, LAMBDA s : Exports(r, s))
      Of(r)    == [k \in DOMAIN Units(r) |-> <<rules[r].tag, Text(Units(r)[k]).name>>]
  IN FlattenSeq([r \in Rules |-> Of(r)])

InTag(t) == SelectSeq(Provided, LAMBDA m : m[1] = t)

\* The setup of some rule stops autark.
Refused ==
  \/ ~IsInjective(Provided)
  \/ \E r \in Rules : \E s \in ToSet(rules[r].sources) :
       \/ Unit(r, s) /\ Text(s).is = "partition"
       \/ s \in rules[r].listed /\ Text(s).is = "plain"
  \/ \E r \in Rules : ~(rules[r].listed \subseteq ToSet(rules[r].sources))

\* The rule that has a BMI as its product.
Provider(m) ==
  {r \in Rules : rules[r].tag = m[1] /\
     \E s \in ToSet(rules[r].sources) : Exports(r, s) /\ Text(s).name = m[2]}

-----------------------------------------------------------------------------
\* Lines of .deps: what they are about, the time there now, and the flag.
Time(x) ==
  CASE x[1] = "source" -> {source[x[2]].at}
    [] x[1] = "bmi"    -> {f.at : f \in bmi[x[2]]}
    [] OTHER           -> {f.at : f \in map[x[2]]}

Outdated(l) == \A t \in Time(l.of) : t > l.time
Late(r)     == {l \in deps[r] : Outdated(l)}

\* Of the modules of the tag, the BMIs that are there and the map.
\* Mutant: the rules do not depend on the BMIs of the project.
ModuleLines_None(t) == {}

ModuleLines(t) ==
  {[flag |-> " ", of |-> x, time |-> Max(Time(x))] :
     x \in {y \in {<<"bmi", m>> : m \in ToSet(InTag(t))} \cup
                  (IF style = "gcc" /\ InTag(t) # <<>> THEN {<<"map", t>>} ELSE {}) :
            Time(y) # {}}}

\* A source that failed is outdated, and an interface makes the rest outdated.
SourceLine(r, s) ==
  [flag |-> IF Exports(r, s) THEN " " ELSE "s", of |-> <<"source", s>>,
   time |-> IF s \in failed THEN 0 ELSE source[s].at]

\* The sources to compile: all, unless only sources are outdated.
Chosen(r) ==
  IF deps[r] = {} \/ \E l \in Late(r) : l.flag # "s"
  THEN ToSet(rules[r].sources)
  ELSE {l.of[2] : l \in Late(r)}

-----------------------------------------------------------------------------
Init ==
  /\ style \in Styles /\ rules \in Layouts
  /\ changes = 0 /\ clock = 1
  /\ source = [s \in Sources |-> [at |-> 1, text |-> CHOOSE t \in Texts[s] : t.first]]
  /\ object = [x \in Rules \X Sources |-> {}]
  /\ bmi = [m \in Modules |-> {}]
  /\ map = [t \in {"target", "host"} |-> {}]
  /\ deps = [r \in Rules |-> {}]
  /\ stack = <<>> /\ step = "idle" /\ built = {}
  /\ ifaces = <<>> /\ rest = {} /\ failed = {}
  /\ last = "none"

Tick   == clock' = clock + 1
Change == changes < MaxChanges /\ changes' = changes + 1

Outside == step = "idle" /\ Change /\ last' = "none" /\ UNCHANGED <<inputs, deps, proc, map, object>>

\* With clang a source goes on exporting what it exports: a BMI whose module is
\* gone stays where the compiler looks for it, and is in no .deps.
Exported(t) == IF t.is = "interface" THEN {t.name} ELSE {}

Edit(s, t) ==
  /\ Outside /\ Tick
  /\ style = "clang" => Exported(t) = Exported(Text(s))
  /\ source' = [source EXCEPT ![s] = [at |-> clock', text |-> t]]
  /\ UNCHANGED bmi

RemoveBmi(m) ==
  /\ Outside
  /\ bmi[m] # {}
  /\ bmi' = [bmi EXCEPT ![m] = {}]
  /\ UNCHANGED <<clock, source>>

User == \/ \E s \in Sources : \E t \in Texts[s] : Edit(s, t)
        \/ \E m \in Modules : RemoveBmi(m)

-----------------------------------------------------------------------------
\* All rules are set up, then built in the order of the script.
Refuse ==
  /\ step = "idle" /\ Refused /\ last # "refused"
  /\ last' = "refused"
  /\ UNCHANGED <<inputs, changes, clock, source, files, deps, proc>>

Enter(r) ==
  /\ stack' = Append(stack, r) /\ step' = "prepare"
  /\ ifaces' = <<>> /\ rest' = {} /\ failed' = {}

Begin ==
  /\ step = "idle" /\ ~Refused
  /\ Enter(1)
  /\ built' = {} /\ last' = "none"
  /\ UNCHANGED <<inputs, changes, clock, source, files, deps>>

Top  == Last(stack)
Tag  == rules[Top].tag
At(s) == stack # <<>> /\ step = s /\ UNCHANGED <<inputs, source>>

\* The module map is written if it is another one than before.
\* Mutant: whenever there are modules.
Prepare_Always ==
  /\ At("prepare")
  /\ IF style = "gcc" /\ InTag(Tag) # <<>>
     THEN Tick /\ map' = [map EXCEPT ![Tag] = {[at |-> clock', lists |-> InTag(Tag)]}]
     ELSE UNCHANGED <<clock, map>>
  /\ step' = "consume"
  /\ UNCHANGED <<changes, object, bmi, deps, stack, built, ifaces, rest, failed, last>>

Prepare ==
  /\ At("prepare")
  /\ IF style = "gcc" /\ InTag(Tag) \notin {<<>>} \cup {f.lists : f \in map[Tag]}
     THEN Tick /\ map' = [map EXCEPT ![Tag] = {[at |-> clock', lists |-> InTag(Tag)]}]
     ELSE UNCHANGED <<clock, map>>
  /\ step' = "consume"
  /\ UNCHANGED <<changes, object, bmi, deps, stack, built, ifaces, rest, failed, last>>

\* A BMI the rule consumes is built first by its rule.
Needed == UNION {Provider(m) : m \in rules[Top].consumes} \ built
AllThere == Needed = {} /\ \A m \in rules[Top].consumes : bmi[m] # {}

Consume ==
  /\ At("consume")
  /\ \E r \in Needed \ ToSet(stack) : Enter(r)
  /\ UNCHANGED <<changes, clock, files, deps, built, last>>

\* That rule is being built already: rules that need each other.
Cyclic ==
  /\ At("consume") /\ Needed \cap ToSet(stack) # {}
  /\ stack' = <<>> /\ step' = "idle" /\ last' = "failed"
  /\ UNCHANGED <<changes, clock, files, deps, built, ifaces, rest, failed>>

\* The rule is done: back to the one that needs it, on to the next, or the end.
Leave ==
  /\ built' = built \cup {Top}
  /\ LET todo == Rules \ built' IN
     IF Len(stack) > 1
     THEN stack' = Front(stack) /\ step' = "consume" /\ UNCHANGED last
     ELSE IF todo # {}
     THEN stack' = <<Min(todo)>> /\ step' = "prepare" /\ UNCHANGED last
     ELSE stack' = <<>> /\ step' = "idle" /\ last' = "ok"
  /\ ifaces' = <<>> /\ rest' = {} /\ failed' = {}

Skip ==
  /\ At("consume") /\ AllThere
  /\ deps[Top] # {} /\ Late(Top) = {}
  /\ Leave
  /\ UNCHANGED <<changes, clock, files, deps>>

\* A consumed BMI is not there.
Unresolved ==
  /\ At("consume") /\ Needed = {} /\ ~AllThere /\ Change
  /\ stack' = <<>> /\ step' = "idle" /\ last' = "failed"
  /\ UNCHANGED <<clock, files, deps, built, ifaces, rest, failed>>

Resolve ==
  /\ At("consume") /\ AllThere
  /\ deps[Top] = {} \/ Late(Top) # {}
  /\ LET mine == SelectSeq(rules[Top].sources, LAMBDA s : s \in Chosen(Top)) IN
       /\ ifaces' = SelectSeq(mine, LAMBDA s : Exports(Top, s))
       /\ rest'   = {s \in ToSet(mine) : ~Exports(Top, s)}
  /\ step' = "compile"
  /\ UNCHANGED <<changes, clock, files, deps, stack, built, failed, last>>

-----------------------------------------------------------------------------
\* Interfaces are compiled one after the other, all of them, then the rest in any
\* order, unless an interface has failed.
Broken == \E s \in failed : Exports(Top, s)
Due(s) ==
  IF ifaces # <<>> THEN s = Head(ifaces) ELSE ~Broken /\ s \in rest

Imports(s) == {<<Tag, n>> : n \in Text(s).imports}

\* Where the compiler looks for an imported module; it is not told to look
\* anywhere when the tag has none.
Found(m) ==
  /\ bmi[m] # {} /\ InTag(m[1]) # <<>>
  /\ style = "gcc" => \E f \in map[m[1]] : m \in ToSet(f.lists)

Through(s) ==
  /\ ifaces' = IF ifaces # <<>> THEN Tail(ifaces) ELSE <<>>
  /\ rest' = rest \ {s}
  /\ UNCHANGED <<map, deps, stack, step, built, last>>

Compile(s) ==
  /\ At("compile") /\ Due(s)
  /\ \A m \in Imports(s) : Found(m)
  /\ Tick
  /\ LET made == [at |-> clock', image |-> [of |-> s, text |-> source[s].at,
                   using |-> [m \in Imports(s) |-> {f.image : f \in bmi[m]}]]]
     IN /\ object' = [object EXCEPT ![Top, s] = {made}]
        /\ bmi' = IF Exports(Top, s) THEN [bmi EXCEPT ![Tag, Text(s).name] = {made}] ELSE bmi
  /\ Through(s)
  /\ UNCHANGED <<changes, failed>>

\* The compiler does not find a module, or reports an error; it may have removed
\* what it was to make.
CompileFails(s) ==
  /\ At("compile") /\ Due(s) /\ Change
  /\ failed' = failed \cup {s}
  /\ \/ UNCHANGED <<object, bmi>>
     \/ /\ object' = [object EXCEPT ![Top, s] = {}]
        /\ bmi' = IF Exports(Top, s) THEN [bmi EXCEPT ![Tag, Text(s).name] = {}] ELSE bmi
  /\ Through(s)
  /\ UNCHANGED clock

\* The new .deps file; a rule with a failed source ends the invocation.
Record ==
  /\ At("compile") /\ ifaces = <<>> /\ (rest = {} \/ Broken)
  /\ deps' = [deps EXCEPT ![Top] =
       {SourceLine(Top, s) : s \in ToSet(rules[Top].sources)} \cup ModuleLines(Tag)
       \cup {[flag |-> " ", of |-> <<"bmi", m>>, time |-> Max(Time(<<"bmi", m>>))] :
               m \in rules[Top].consumes}]
  /\ IF failed = {} THEN Leave
     ELSE /\ stack' = <<>> /\ step' = "idle" /\ last' = "failed"
          /\ ifaces' = <<>> /\ rest' = {} /\ failed' = {} /\ UNCHANGED built
  /\ UNCHANGED <<changes, clock, files>>

Kill ==
  /\ At(step) /\ Change
  /\ stack' = <<>> /\ step' = "idle" /\ last' = "killed"
  /\ ifaces' = <<>> /\ rest' = {} /\ failed' = {}
  /\ UNCHANGED <<clock, files, deps, built>>

Build == \/ Refuse \/ Begin \/ Prepare \/ Consume \/ Cyclic \/ Skip \/ Unresolved \/ Resolve
         \/ \E s \in Sources : Compile(s) \/ CompileFails(s)
         \/ Record \/ Kill

Next == User \/ Build
Spec == Init /\ [][Next]_vars

-----------------------------------------------------------------------------
\* An image of a source in a rule is what a build from nothing would make: from
\* its present text and the present interface of every module it imports.
RECURSIVE Clean(_, _, _)
Clean(r, s, image) ==
  /\ image.of = s /\ image.text = source[s].at
  /\ DOMAIN image.using = {rules[r].tag} \X Text(s).imports
  /\ \A m \in DOMAIN image.using :
       \E q \in Provider(m) : \E i \in ToSet(rules[q].sources) :
         Exports(q, i) /\ Text(i).name = m[2] /\ \A using \in image.using[m] : Clean(q, i, using)

\* A successful build leaves every object and every interface as a build from
\* nothing would make it, although a rule only compares times with what it has
\* recorded of the modules of other rules, and interfaces are made, renamed and
\* lost while others keep what they have recorded (cxx_modules.c:473).
ModulesFresh ==
  last = "ok" => \A r \in Rules : \A s \in ToSet(rules[r].sources) :
    /\ object[r, s] # {} /\ \A f \in object[r, s] : Clean(r, s, f.image)
    /\ Exports(r, s) =>
         /\ bmi[rules[r].tag, Text(s).name] # {}
         /\ \A f \in bmi[rules[r].tag, Text(s).name] : Clean(r, s, f.image)

\* The invocation after a successful one compiles nothing ("build after an
\* interface edit did not converge", tests/cxx-modules/run-tests.sh:230).
Converges ==
  last = "ok" => \A r \in Rules : deps[r] # {} /\ Late(r) = {}
=============================================================================
