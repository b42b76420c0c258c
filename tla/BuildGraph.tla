----------------------------- MODULE BuildGraph -----------------------------
(***************************************************************************)
(* One autark process and the run rules of its build script (node_run.c),  *)
(* as script_build drives them (script.c): the rules are built in script   *)
(* order, a rule builds the producers of what it consumes first, by        *)
(* recursion, and node_resolve then compares the rule's .deps file with    *)
(* the present state to decide whether its commands run.                   *)
(*                                                                         *)
(* A shape is what the build script evaluates to: what every rule consumes *)
(* and produces, and the evaluated arguments of its commands.  It changes  *)
(* when the script is edited and when a variable of the script changes.    *)
(* A file is its modification time; a product also says what its command   *)
(* has read.  Optional values are sets of at most one element.             *)
(***************************************************************************)
EXTENDS Naturals, Sequences, FiniteSets

CONSTANTS
  N,          \* number of rules; rule r is the r-th in script order
  Names,      \* file names, relative to the source and the cache directory
  Sources,    \* names that may exist in the source directory
  Shapes,     \* what the script may evaluate to
  Consumes,   \* by shape and rule: sequence of the names the rule consumes
  Produces,   \* by shape and rule: set of the names the rule produces
  Args,       \* by shape and rule: evaluated arguments of its commands
  Variables,  \* pairs of shapes that differ in variables, not in the script
  Always,     \* by shape: rules marked `always'
  Late,       \* by shape: run-on-install rules, built by the post-build pass
  MaxClock    \* bound: number of file modification times ever issued

Rules == 1 .. N

ASSUME NAssumption == N \in Nat
ASSUME ShapeAssumption ==
  /\ Shapes # {} /\ Variables \subseteq Shapes \X Shapes
  /\ \A sh \in Shapes : /\ Consumes[sh] \in [Rules -> Seq(Names)]
                         /\ Produces[sh] \in [Rules -> SUBSET Names]
                         /\ Always[sh] \subseteq Rules /\ Late[sh] \subseteq Rules
ASSUME NamesAssumption == IsFiniteSet(Names) /\ Sources \subseteq Names /\ MaxClock \in Nat \ {0}

VARIABLES
  clock,   \* the last modification time issued
  text,    \* modification time of the build script
  shape,   \* what the script evaluates to now
  src,     \* modification time of every name in the source directory, 0: none
  cache,   \* file of every name in the cache directory: {} or {product}
  deps,    \* .deps file of every rule: {} or {record}
  pc,      \* pass of script_build
  built,   \* rules flagged built (post-built if they are late)
  stack,   \* rules being built, each waiting for the next one
  cmd,     \* the running command of the topmost rule: {} or {command}
  log,     \* rules whose commands were started by this process
  result   \* outcome of the last invocation, if nothing has changed since

world == <<clock, text, shape, src>>
vars  == <<clock, text, shape, src, cache, deps, pc, built, stack, cmd, log, result>>

-----------------------------------------------------------------------------
Producer(f) == {r \in Rules : f \in Produces[shape][r]}
Consumed(r) == {Consumes[shape][r][k] : k \in DOMAIN Consumes[shape][r]}

\* Files by place, and their modification times: the empty set if there is none.
File == {"src", "cache"} \X Names
MTime(x) == IF x[1] = "src" THEN {src[x[2]]} \ {0} ELSE {c.at : c \in cache[x[2]]}
Present(F) == UNION {{<<x, t>> : t \in MTime(x)} : x \in F}

Product == [at : Nat, by : Rules \cup {0}, args : {Args[sh][r] : sh \in Shapes, r \in Rules},
            in : SUBSET (File \X Nat)]
Record  == [text : Nat, args : {Args[sh][r] : sh \in Shapes, r \in Rules},
            files : SUBSET (File \X Nat)]
Frame   == [rule : Rules, left : Seq(Names), miss : Seq(Names), got : SUBSET File]

Top == stack[Len(stack)]
SetTop(fr) == [stack EXCEPT ![Len(stack)] = fr]
OnStack == {stack[k].rule : k \in 1 .. Len(stack)}

Enter(r) == Append(stack, [rule |-> r, left |-> Consumes[shape][r], miss |-> <<>>, got |-> {}])

\* The process exits; what it leaves behind is in its files.
Exit(outcome) ==
  /\ pc' = "idle"
  /\ built' = {} /\ stack' = <<>> /\ cmd' = {} /\ log' = {}
  /\ result' = outcome

-----------------------------------------------------------------------------
Init ==
  /\ clock = 1 /\ text = 1
  /\ shape \in Shapes
  /\ src = [f \in Names |-> IF f \in Sources THEN 1 ELSE 0]
  /\ cache = [f \in Names |-> {}]
  /\ deps = [r \in Rules |-> {}]
  /\ pc = "idle"
  /\ built = {} /\ stack = <<>> /\ cmd = {} /\ log = {}
  /\ result = "none"

\* Between two invocations the user writes a file ...
Tick == clock < MaxClock /\ clock' = clock + 1
Outside == pc = "idle" /\ result' = "none" /\ UNCHANGED <<deps, pc, built, stack, cmd, log>>

EditSource(f) ==
  /\ Outside /\ Tick
  /\ f \in Sources
  /\ src' = [src EXCEPT ![f] = clock']
  /\ UNCHANGED <<text, shape, cache>>

DeleteSource(f) ==
  /\ Outside
  /\ src' = [src EXCEPT ![f] = 0]
  /\ UNCHANGED <<clock, text, shape, cache>>

\* ... deletes a product or writes over it ...
DeleteProduct(f) ==
  /\ Outside
  /\ cache' = [cache EXCEPT ![f] = {}]
  /\ UNCHANGED world

EditProduct(f) ==
  /\ Outside /\ Tick
  /\ cache[f] # {}
  /\ cache' = [cache EXCEPT ![f] = {[at |-> clock', by |-> 0, args |-> c.args, in |-> c.in] : c \in @}]
  /\ UNCHANGED <<text, shape, src>>

\* ... edits the build script, or only changes variables it depends on.
EditScript(sh) ==
  /\ Outside /\ Tick
  /\ text' = clock'
  /\ shape' = sh
  /\ UNCHANGED <<src, cache>>

SetVariables(sh) ==
  /\ Outside
  /\ <<shape, sh>> \in Variables
  /\ shape' = sh
  /\ UNCHANGED <<clock, text, src, cache>>

User == \/ \E f \in Names : \/ EditSource(f) \/ DeleteSource(f)
                            \/ DeleteProduct(f) \/ EditProduct(f)
        \/ \E sh \in Shapes : EditScript(sh) \/ SetVariables(sh)

-----------------------------------------------------------------------------
\* A new invocation, if there is room for everything it may write.
Begin ==
  /\ pc = "idle"
  /\ clock + Cardinality({f \in Names : Producer(f) # {}}) <= MaxClock
  /\ pc' = "setup"
  /\ result' = "none"
  /\ UNCHANGED <<world, cache, deps, built, stack, cmd, log>>

\* node_setup: every rule registers its products, and no two the same one.
Setup ==
  /\ pc = "setup"
  /\ UNCHANGED <<world, cache, deps>>
  /\ IF \E f \in Names : Cardinality(Producer(f)) > 1
     THEN Exit("fail")
     ELSE pc' = "build" /\ UNCHANGED <<built, stack, cmd, log, result>>

\* Rules the current pass builds.  node_build has nothing to do for late rules.
Pass == IF pc = "build" THEN Rules \ Late[shape] ELSE Late[shape]
Waiting == Pass \ built

\* node_build and node_post_build: the children of the script, in their order.
NextRule(r) ==
  /\ pc \in {"build", "post"} /\ stack = <<>>
  /\ r \in Waiting /\ \A q \in Waiting : r <= q
  /\ stack' = Enter(r)
  /\ UNCHANGED <<world, cache, deps, pc, built, cmd, log, result>>

EndOfPass ==
  /\ pc \in {"build", "post"} /\ stack = <<>>
  /\ Waiting = {}
  /\ UNCHANGED <<world, cache, deps>>
  /\ IF pc = "build"
     THEN pc' = "post" /\ UNCHANGED <<built, stack, cmd, log, result>>
     ELSE Exit("ok")

-----------------------------------------------------------------------------
\* node_consumes_resolve of the topmost rule, name by name.
Resolving == stack # <<>> /\ cmd = {}

\* Mutant: a producer is only built if the file is not there yet.
Unbuilt_IfMissing(f) ==
  IF cache[f] = {} THEN Producer(f) \ (built \cup Late[shape]) ELSE {}

\* Mutant: a rule that is being built already counts as built.
Unbuilt_NotOnStack(f) == Producer(f) \ (built \cup Late[shape] \cup OnStack)

\* Producers of f that node_build still has something to do for.
Unbuilt(f) == Producer(f) \ (built \cup Late[shape])

\* Mutant: a rule that is being built already is not noticed.
BuildProducer_Again(r) ==
  /\ Resolving
  /\ Top.left # <<>> /\ r \in Unbuilt(Head(Top.left))
  /\ stack' = Enter(r)
  /\ UNCHANGED <<world, cache, deps, pc, built, cmd, log, result>>

\* The rule that produces the next name is built first.  If it is being built
\* already the build ends: AK_ERROR_CYCLIC_BUILD_DEPS.
BuildProducer(r) ==
  /\ Resolving
  /\ Top.left # <<>> /\ r \in Unbuilt(Head(Top.left))
  /\ UNCHANGED <<world, cache, deps>>
  /\ IF r \in OnStack
     THEN Exit("cyclic")
     ELSE stack' = Enter(r) /\ UNCHANGED <<pc, built, cmd, log, result>>

\* Then the name is looked for in the cache directory ...
LookInCache ==
  /\ Resolving
  /\ Top.left # <<>>
  /\ LET f == Head(Top.left) IN
       /\ Unbuilt(f) = {}
       /\ stack' = SetTop(IF cache[f] # {}
            THEN [Top EXCEPT !.left = Tail(@), !.got = @ \cup {<<"cache", f>>}]
            ELSE [Top EXCEPT !.left = Tail(@), !.miss = Append(@, f)])
  /\ UNCHANGED <<world, cache, deps, pc, built, cmd, log, result>>

\* ... and, when that is done for all names, the rest in the source directory.
LookInSource ==
  /\ Resolving
  /\ Top.left = <<>> /\ Top.miss # <<>>
  /\ UNCHANGED <<world, cache, deps>>
  /\ LET f == Head(Top.miss) IN
       IF src[f] # 0
       THEN /\ stack' = SetTop([Top EXCEPT !.miss = Tail(@), !.got = @ \cup {<<"src", f>>}])
            /\ UNCHANGED <<pc, built, cmd, log, result>>
       ELSE Exit("unresolved")

-----------------------------------------------------------------------------
\* node_resolve of the topmost rule.
Resolved == Resolving /\ Top.left = <<>> /\ Top.miss = <<>>

\* Mutant: an equal modification time counts as newer.
FileOutdated_SameTime(x, t) == \A m \in MTime(x) : m >= t

\* A recorded file is outdated when it is newer or gone.
FileOutdated(x, t) == \A m \in MTime(x) : m > t

UpToDate(r) ==
  \E d \in deps[r] : /\ text <= d.text
                     /\ d.args = Args[shape][r]
                     /\ \A rec \in d.files : ~FileOutdated(rec[1], rec[2])

Forced == Always[shape] \cup Late[shape]

\* Mutant: a rule with nothing to do is not marked built.
Skip_NotBuilt ==
  /\ Resolved
  /\ Top.rule \notin Forced /\ UpToDate(Top.rule)
  /\ stack' = SubSeq(stack, 1, Len(stack) - 1)
  /\ UNCHANGED <<world, cache, deps, pc, built, cmd, log, result>>

\* Nothing is outdated: the rule is built.
Skip ==
  /\ Resolved
  /\ Top.rule \notin Forced /\ UpToDate(Top.rule)
  /\ built' = built \cup {Top.rule}
  /\ stack' = SubSeq(stack, 1, Len(stack) - 1)
  /\ UNCHANGED <<world, cache, deps, pc, cmd, log, result>>

\* The commands of the rule start, and read what it consumes.
Exec ==
  /\ Resolved
  /\ Top.rule \in Forced \/ ~UpToDate(Top.rule)
  /\ cmd' = {[args |-> Args[shape][Top.rule], in |-> Present(Top.got),
              todo |-> Produces[shape][Top.rule]]}
  /\ log' = log \cup {Top.rule}
  /\ UNCHANGED <<world, cache, deps, pc, built, stack, result>>

\* A command writes one of the products.
Write(f) ==
  \E c \in cmd :
    /\ f \in c.todo
    /\ clock' = clock + 1
    /\ cache' = [cache EXCEPT ![f] = {[at |-> clock', by |-> Top.rule,
                                       args |-> c.args, in |-> c.in]}]
    /\ cmd' = {[c EXCEPT !.todo = @ \ {f}]}
    /\ UNCHANGED <<text, shape, src, deps, pc, built, stack, log, result>>

\* Mutant: the products are not recorded.
Recorded_NoProducts(fr) == Present(fr.got)

\* FILE records of the consumed files and of the products.
Recorded(fr) == Present(fr.got \cup {"cache"} \X Produces[shape][fr.rule])

\* Mutant: the exit code of a command is not looked at.
Commit_AnyExit ==
  /\ cmd # {}
  /\ deps' = [deps EXCEPT ![Top.rule] =
                {[text |-> text, args |-> Args[shape][Top.rule], files |-> Recorded(Top)]}]
  /\ built' = built \cup {Top.rule}
  /\ stack' = SubSeq(stack, 1, Len(stack) - 1)
  /\ cmd' = {}
  /\ UNCHANGED <<world, cache, pc, log, result>>

\* Mutant: a rule whose commands have run is not marked built.
Commit_NotBuilt ==
  /\ \E c \in cmd : c.todo = {}
  /\ deps' = [deps EXCEPT ![Top.rule] =
                {[text |-> text, args |-> Args[shape][Top.rule], files |-> Recorded(Top)]}]
  /\ stack' = SubSeq(stack, 1, Len(stack) - 1)
  /\ cmd' = {}
  /\ UNCHANGED <<world, cache, pc, built, log, result>>

\* The commands have exited with 0: the new .deps replaces the old one.
Commit ==
  /\ \E c \in cmd : c.todo = {}
  /\ deps' = [deps EXCEPT ![Top.rule] =
                {[text |-> text, args |-> Args[shape][Top.rule], files |-> Recorded(Top)]}]
  /\ built' = built \cup {Top.rule}
  /\ stack' = SubSeq(stack, 1, Len(stack) - 1)
  /\ cmd' = {}
  /\ UNCHANGED <<world, cache, pc, log, result>>

\* A command exits with an error, or cannot be started: node_fatal.
CommandFails ==
  /\ cmd # {}
  /\ Exit("fail")
  /\ UNCHANGED <<world, cache, deps>>

\* autark and its command are killed.
Kill ==
  /\ pc # "idle"
  /\ Exit("killed")
  /\ UNCHANGED <<world, cache, deps>>

-----------------------------------------------------------------------------
Visit   == Setup \/ EndOfPass \/ \E r \in Rules : NextRule(r)
Resolve == LookInCache \/ LookInSource \/ \E r \in Rules : BuildProducer(r)
Run     == Skip \/ Exec \/ Commit \/ \E f \in Names : Write(f)
Autark  == Visit \/ Resolve \/ Run

Next == User \/ Begin \/ Autark \/ CommandFails \/ Kill
Spec == Init /\ [][Next]_vars

\* autark and its commands are scheduled, and no command runs for ever.
FairSpec == Spec /\ WF_vars(Autark)

-----------------------------------------------------------------------------
\* The type invariant.  No rule waits for itself, so the stack stays small.
TypeOK ==
  /\ clock \in 1 .. MaxClock /\ text \in 1 .. clock
  /\ shape \in Shapes
  /\ src \in [Names -> 0 .. clock]
  /\ cache \in [Names -> SUBSET Product]
  /\ deps \in [Rules -> SUBSET Record]
  /\ pc \in {"idle", "setup", "build", "post"}
  /\ built \subseteq Rules /\ log \subseteq Rules
  /\ stack \in Seq(Frame)
  /\ \A j, k \in DOMAIN stack : stack[j].rule = stack[k].rule => j = k
  /\ result \in {"none", "ok", "fail", "cyclic", "unresolved", "killed"}

\* What a build from an empty cache would make of f by rule r: from the products
\* of other rules, and from the source directory where there is no such product.
FromClean(r) ==
  Present({<<IF Producer(f) # {} THEN "cache" ELSE "src", f>> : f \in Consumed(r)})
Clean(r, f) == \E c \in cache[f] : /\ c.by = r
                                   /\ c.args = Args[shape][r]
                                   /\ c.in = FromClean(r)
stale == {f \in Names : \E r \in Producer(f) : ~Clean(r, f)}

\* An incremental build that went through leaves what a clean build would have
\* made, whatever was edited, deleted, failed or killed before.
SameAsClean == result = "ok" => stale = {}

\* The commands of a rule only run when every product they read is made by a
\* rule that is built, from what its own inputs are now.
InputsReady ==
  cmd # {} => \A f \in Consumed(Top.rule) :
                 \A r \in Producer(f) \ Late[shape] : r \in built /\ Clean(r, f)

\* No invocation runs the commands of a rule twice, whatever way leads to it.
RunsOnce == [][\A r \in log : ~(Exec /\ Top.rule = r)]_vars

\* After a build that went through the next one has nothing to do.
NothingToDo == result = "ok" => \A r \in Rules \ Forced : UpToDate(r)

\* The rules that a rule of S needs to be built first.
Needs(S) == {q \in Rules \ Late[shape] : \E r \in S : \E f \in Consumed(r) : q \in Producer(f)}

\* Some rules need each other, or one itself: each of them needs one of them.
Cycle ==
  \E S \in SUBSET (Rules \ Late[shape]) : S # {} /\ \A r \in S : Needs({r}) \cap S # {}

\* A build reports a cycle only if there is one, a file it cannot find only if
\* no rule makes it, and success only if there is neither.
Verdict ==
  /\ result = "cyclic" => Cycle
  /\ result = "unresolved" =>
       \E r \in Rules : \E f \in Consumed(r) : Producer(f) \ Late[shape] = {} /\ src[f] = 0
  /\ result = "ok" => /\ ~Cycle
                      /\ \A r \in Rules : \A f \in Consumed(r) :
                           Producer(f) = {} => src[f] # 0

\* Every build ends: also one whose rules need each other.
Terminates == (pc # "idle") ~> (pc = "idle")

\* The rules of a script together keep the promise of an incremental rule.
Promise == INSTANCE Rebuild WITH
  Items <- Names,
  phase <- IF pc = "idle" THEN "idle" ELSE "building",
  outcome <- IF result \in {"cyclic", "unresolved"} THEN "fail" ELSE result
KeepsPromise == Promise!Spec
=============================================================================
