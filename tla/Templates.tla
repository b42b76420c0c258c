----------------------------- MODULE Templates -----------------------------
(***************************************************************************)
(* The rules that make again only some of their elements, in a row: a      *)
(* configure rule with several templates (node_configure.c), a run rule in *)
(* a foreach over the configured files (node_run.c), and an install rule   *)
(* for what it makes (node_install.c), each under node_resolve (script.c). *)
(*                                                                         *)
(* A .deps file is a set of lines.  A line says what it is about, the time *)
(* the code has stored for it, and its flag: "s" if only the element it    *)
(* belongs to has to be made again (the code writes s or f), " " if all    *)
(* have to.  A file is its modification time and its image, which tells    *)
(* what its content was made from; the image of a file that is half        *)
(* written, or that somebody has written over, is empty.                   *)
(***************************************************************************)
EXTENDS Naturals, FiniteSets, FiniteSetsExt

CONSTANTS
  N,          \* number of elements: templates, foreach values, installed files
  Vars,       \* variables of the build script
  Uses,       \* by element: the variables its template mentions
  Arg,        \* the variable among the arguments of the run rule's command
  Values,     \* what a variable may be; an undefined one is recorded as ""
  Prefixes,   \* install prefixes
  MaxChanges  \* bound: number of changes by the user, and of invocations that stop

Item == 1 .. N

ASSUME ItemAssumption == N \in Nat /\ Uses \in [Item -> SUBSET Vars] /\ Arg \in Vars
ASSUME PlaceAssumption == /\ {"gen", "out", "src", "script", "value", "prefix"} \cap Prefixes = {}
                          /\ MaxChanges \in Nat

\* What a .deps file says of variables comes from the templates configured last:
\* it is enough if a variable that one template mentions is mentioned by all.
SameUses == \A i, j \in Item : Uses[i] = Uses[j]

VARIABLES
  changes,  \* counts the changes
  clock,    \* the last modification time issued
  src,      \* modification time of every template
  script,   \* modification time of the build script
  val,      \* the variables
  prefix,   \* the install prefix of the next invocation
  file,     \* by place and element: {} or the file there
  deps,     \* by rule: the lines of its .deps file, {} if there is none
  pc,       \* the rule being resolved
  todo,     \* elements to make again, once the rule has decided
  deciding, \* it has not
  open,     \* the element being written: {} or {element}
  used,     \* variables whose ENV lines the configure rule has written
  install,  \* was this invocation started with -I
  last      \* outcome of the last invocation, if nothing has changed since

user == <<src, script, val, prefix>>
proc == <<pc, todo, deciding, open, used, install>>
vars == <<changes, clock, user, file, deps, proc, last>>

Rules == {"configure", "run", "install"}
Place == {"gen", "out"} \cup Prefixes

\* Where the rules put what they make.
Target(r) == CASE r = "configure" -> "gen" [] r = "run" -> "out" [] OTHER -> prefix

-----------------------------------------------------------------------------
\* What the lines of a .deps file may be about, and the times found there now.
Time(x) ==
  CASE x[1] = "src"    -> {src[x[2]]}
    [] x[1] = "script" -> {script}
    [] OTHER           -> {f.at : f \in file[x]}

Line(flag, x, time) == [flag |-> flag, of |-> x, time |-> time]
FileLines(flag, X) == {Line(flag, x, Max({0} \cup Time(x))) : x \in X}
ValueLine(v) == Line(" ", <<"value", v, val[v]>>, 0)

\* Mutant: the recorded time is late already.
Outdated_SameTime(l) ==
  CASE l.of[1] = "value"  -> l.of[3] # val[l.of[2]]
    [] l.of[1] = "prefix" -> l.of[2] # prefix
    [] OTHER -> \A t \in Time(l.of) : t >= l.time

Outdated(l) ==
  CASE l.of[1] = "value"  -> l.of[3] # val[l.of[2]]
    [] l.of[1] = "prefix" -> l.of[2] # prefix
    [] OTHER -> \A t \in Time(l.of) : t > l.time

Late(r) == {l \in deps[r] : Outdated(l)}

\* Mutant: whatever is outdated, only the elements of the lines are made again.
Chosen_ByLine(r) ==
  IF deps[r] = {} THEN Item ELSE {l.of[2] : l \in {k \in Late(r) : k.flag = "s"}}

\* The elements to make again.
Chosen(r) ==
  IF deps[r] = {} \/ \E l \in Late(r) : l.flag # "s"
  THEN Item
  ELSE {l.of[2] : l \in Late(r)}

-----------------------------------------------------------------------------
\* The lines a rule writes: for all elements, whether made again or not, but
\* for the variables of the templates that were.
Sources(r) ==
  CASE r = "configure" -> {"src"} \X Item
    [] r = "run"       -> {"gen"} \X Item
    [] OTHER           -> {"out"} \X Item

ConfigureLines == {ValueLine(v) : v \in used} \cup FileLines(" ", {"gen"} \X Item)
RunLines       == {ValueLine(Arg)} \cup FileLines(" ", {"out"} \X Item)
InstallLines   == {Line(" ", <<"prefix", prefix>>, 0)} \cup FileLines("s", {prefix} \X Item)

Own(r) ==
  CASE r = "configure" -> ConfigureLines [] r = "run" -> RunLines [] OTHER -> InstallLines

Lines(r) == FileLines(" ", {<<"script">>}) \cup FileLines("s", Sources(r)) \cup Own(r)

\* What an element is made of: a template and the values it mentions; a
\* configured file, the command and its argument; the file to install itself.
Image(x)      == UNION {f.image : f \in file[x]}
Configured(i) == {[template |-> src[i], text |-> [v \in Uses[i] |-> val[v]]]}
Printed(i)    == {[input |-> m, command |-> script, arg |-> val[Arg]] : m \in Image(<<"gen", i>>)}
Installed(i)  == Image(<<"out", i>>)

Made(r, i) ==
  CASE r = "configure" -> Configured(i) [] r = "run" -> Printed(i) [] OTHER -> Installed(i)

\* An installed file takes the modification time of its source.
Stamp(r, i, now) == IF r = "install" THEN Max({0} \cup Time(<<"out", i>>)) ELSE now

-----------------------------------------------------------------------------
Init ==
  /\ changes = 0 /\ clock = 1
  /\ src = [i \in Item |-> 1] /\ script = 1
  /\ val \in [Vars -> Values]
  /\ prefix \in Prefixes
  /\ file = [x \in Place \X Item |-> {}]
  /\ deps = [r \in Rules |-> {}]
  /\ pc = "idle" /\ todo = {} /\ deciding = FALSE /\ open = {} /\ used = {}
  /\ install = FALSE /\ last = "none"

Tick == clock' = clock + 1
Change == changes < MaxChanges /\ changes' = changes + 1

\* Between two invocations the user edits a template or the script, sets a
\* variable, chooses another prefix, deletes a product or writes over it.
Outside == pc = "idle" /\ Change /\ last' = "none" /\ UNCHANGED <<deps, proc>>

EditTemplate(i) ==
  /\ Outside /\ Tick
  /\ src' = [src EXCEPT ![i] = clock']
  /\ UNCHANGED <<script, val, prefix, file>>

EditScript ==
  /\ Outside /\ Tick
  /\ script' = clock'
  /\ UNCHANGED <<src, val, prefix, file>>

SetVar(v, x) ==
  /\ Outside
  /\ val' = [val EXCEPT ![v] = x]
  /\ UNCHANGED <<clock, src, script, prefix, file>>

ChangePrefix(p) ==
  /\ Outside
  /\ prefix' = p
  /\ UNCHANGED <<clock, src, script, val, file>>

RemoveFile(x) ==
  /\ Outside
  /\ file' = [file EXCEPT ![x] = {}]
  /\ UNCHANGED <<clock, user>>

WriteOver(x) ==
  /\ Outside /\ Tick
  /\ file[x] # {}
  /\ file' = [file EXCEPT ![x] = {[at |-> clock', image |-> {}]}]
  /\ UNCHANGED user

User ==
  \/ \E i \in Item : EditTemplate(i)
  \/ EditScript
  \/ \E v \in Vars, x \in Values : SetVar(v, x)
  \/ \E p \in Prefixes : ChangePrefix(p)
  \/ \E x \in Place \X Item : RemoveFile(x) \/ WriteOver(x)

-----------------------------------------------------------------------------
\* The rules are resolved one after the other, the install rule last and only
\* with -I.
Begin(withInstall) ==
  /\ pc = "idle"
  /\ pc' = "configure" /\ deciding' = TRUE
  /\ install' = withInstall
  /\ last' = "none"
  /\ UNCHANGED <<changes, clock, user, file, deps, todo, open, used>>

NextRule ==
  IF pc = "configure" \/ (pc = "run" /\ install)
  THEN /\ pc' = IF pc = "configure" THEN "run" ELSE "install"
       /\ deciding' = TRUE
       /\ UNCHANGED last
  ELSE pc' = "idle" /\ deciding' = FALSE /\ last' = "ok"

Skip ==
  /\ deciding /\ deps[pc] # {} /\ Late(pc) = {}
  /\ NextRule
  /\ UNCHANGED <<changes, clock, user, file, deps, todo, open, used, install>>

Resolve ==
  /\ deciding /\ (deps[pc] = {} \/ Late(pc) # {})
  /\ deciding' = FALSE
  /\ todo' = Chosen(pc)
  /\ UNCHANGED <<changes, clock, user, file, deps, pc, open, used, install, last>>

\* The target of the next element is truncated ...
Open ==
  /\ todo # {} /\ open = {} /\ Tick
  /\ open' = {Min(todo)}
  /\ file' = [file EXCEPT ![<<Target(pc), Min(todo)>>] = {[at |-> clock', image |-> {}]}]
  /\ UNCHANGED <<changes, user, deps, pc, todo, deciding, used, install, last>>

\* ... and completed; the variables of a template are recorded meanwhile.
Done ==
  /\ open # {}
  /\ open' = {} /\ todo' = todo \ open
  /\ file' = [x \in DOMAIN file |->
       IF x \in {Target(pc)} \X open
       THEN {[at |-> Stamp(pc, x[2], f.at), image |-> Made(pc, x[2])] : f \in file[x]}
       ELSE file[x]]
  /\ used' = used \cup (IF pc = "configure" THEN UNION {Uses[i] : i \in open} ELSE {})
  /\ UNCHANGED <<changes, clock, user, deps, pc, deciding, install, last>>

\* The new .deps file replaces the old one.
Commit ==
  /\ pc # "idle" /\ ~deciding /\ todo = {}
  /\ deps' = [deps EXCEPT ![pc] = Lines(pc)]
  /\ used' = {}
  /\ NextRule
  /\ UNCHANGED <<changes, clock, user, file, todo, open, install>>

\* The process dies, or a command or a copy fails and it exits.
Stop ==
  /\ pc # "idle" /\ Change
  /\ pc' = "idle" /\ todo' = {} /\ deciding' = FALSE /\ open' = {} /\ used' = {}
  /\ last' = "stopped"
  /\ UNCHANGED <<clock, user, file, deps, install>>

Build == Skip \/ Resolve \/ Open \/ Done \/ Commit \/ Stop
Next == User \/ Build \/ \E b \in BOOLEAN : Begin(b)
Spec == Init /\ [][Next]_vars

-----------------------------------------------------------------------------
\* A finished invocation has made every element from the present template, the
\* present values of the variables it mentions, the present command and its
\* present argument, and with -I the present prefix has a copy of it: although
\* every rule goes only by the lines of its .deps file, and makes only some of
\* its elements again (node_configure.c:196, node_run.c:258, node_install.c:207).
Current(i) ==
  [input   |-> [template |-> src[i], text |-> [v \in Uses[i] |-> val[v]]],
   command |-> script, arg |-> val[Arg]]
Holds(x, image) == \E f \in file[x] : f.image = {image}

OutputsFresh ==
  last = "ok" => \A i \in Item :
    /\ Holds(<<"gen", i>>, Current(i).input)
    /\ Holds(<<"out", i>>, Current(i))
    /\ install => Holds(<<prefix, i>>, Current(i))

\* What the first two rules promise, in one invocation: it reports success only
\* when none of their products is stale, whatever was stopped before.
Wanted(x) == IF x[1] = "gen" THEN Current(x[2]).input ELSE Current(x[2])
Stale == {x \in {"gen", "out"} \X Item : ~Holds(x, Wanted(x))}

Promise == INSTANCE Rebuild WITH
             Items   <- {"gen", "out"} \X Item,
             stale   <- Stale,
             phase   <- IF pc = "idle" THEN "idle" ELSE "building",
             outcome <- IF last = "stopped" THEN "fail" ELSE last

KeepsPromise == Promise!Spec

\* After a finished invocation no line is outdated: the next one makes nothing,
\* also where a rule has recorded what a later rule might have touched
\* (script.c:1332).
NothingToDo ==
  last = "ok" => \A r \in Rules : r # "install" \/ install => deps[r] # {} /\ Late(r) = {}
=============================================================================
