# Autark, specified

TLA+ modules of [Autark](https://github.com/Softmotions/autark), a
self-contained build system in C: an `Autark` script is a tree of nodes, rules
among them run compilers and commands, and records kept in the cache directory
decide what an invocation has to do again. The specification is translated from
the sources of the repository; every definition of a model is mapped to its
lines in `PROJECT.json`.

The question behind nearly everything here is the one an incremental build has
to answer: **after any history of edits, failures and kills, does a build that
reports success leave what a build from scratch would have made?**

## 1. The system

### Components

| Part | Source | State it keeps | Operations |
|---|---|---|---|
| Driver | `main.c`, `autark_core.c` | the environment `g_env`, the stack of units | build, clean, install; the commands `set`, `dep`, `dep env`, `glob`, `fetched` called by scripts the build has started |
| Script tree | `script.c`, `scriptx.leg` | nodes with flags *init*, *setup*, *built*, *post-built*; product table | open, the passes init / setup / build / post-build, close |
| Resolver | `script.c` (`node_resolve`), `deps.c` | per rule: `.deps`, `.deps.tmp`, `.env`, `.env.tmp` | read and compare records, call the rule's handler, commit by rename |
| Dependencies between rules | `script.c` (`node_consumes_resolve`, `node_by_product`) | products → rule | build the producers of consumed files by recursion |
| `cc` / `cxx` | `node_cc.c` | objects, `.d` files, `.autark-tag` files, `compile_commands.json` | choose sources, run up to `max_parallel_jobs` compilers, record |
| C++ modules | `cxx_modules.c` | process-wide registry of modules, BMI files, module map | scan, register, compile interfaces first, record BMIs |
| Toolchains | `toolchain.c` | current toolchain; object tags | detect, publish variables, write and compare tags |
| `run` | `node_run.c` | products | run commands, once or for each element of a `foreach` |
| `check` | `node_check.c` | `.env` of the check | run a probing script, load what it has set |
| `configure` | `node_configure.c` | processed templates | substitute, record the variables used |
| `install` | `node_install.c` | installed files | copy in a post-build pass |
| `if`, `in-sources`, `include`, `macro`, `call`, `foreach` | `node_*.c` | the tree itself | splice nodes while the tree is initialised |
| `set`, `let`, `env`, `${}`, `@{}` | `node_set.c`, `node_subst.c` | variables of units, cached values | evaluate, redefine |
| Processes | `spawn.c` | pipes, exit status | fork, feed input, poll output, wait |
| Containers | `map.c`, `ulist.c`, `pool.c`, `xstr.c` | tables, arrays, arenas | as usual |
| Fetch registry | `fetchreg.c`, `node_fetch_url.c` | append-only log of fetched directories | register, find the last |
| Paths | `paths.c` | – | normalise, relativise |

### How they interact

`script_build` visits the rules in script order. The `build` handler of a rule
calls `node_resolve`, which (1) unlinks left-over temporary files, (2) calls
`on_init`, where the rule resolves what it consumes and thereby **recursively
builds the producers**, (3) reads `.deps` and collects outdated records, (4)
calls `on_resolve` if there are no records, some are outdated or the target has
changed: it **starts processes** and writes `.deps.tmp`, (5) renames `.deps.tmp` and
`.env.tmp` over the old files, (6) loads `.env`. The processes a check starts
**call autark back**: `autark set` and `autark dep` append to the temporary files
of the unit given in the environment. Rules talk to each other only through
files and through variables. There are no threads: concurrency is that of
autark with its child processes, of the user with a running build, and of an
invocation with what killed ones have left behind.

### What is hard, and what makes each part correct

* **Selective rebuilds** (`cc`, `configure`, `install`, `run` in a `foreach`): only
  the elements whose record is outdated are made again, and the new `.deps`
  vouches for all. Correct if everything it vouches for is current.
* **Failure and kills**: a failed source must stay outdated; a commit in several
  steps can be interrupted between them.
* **Order**: producers before consumers, module interfaces before importers,
  whatever the order in the script; cycles must be reported.
* **The compiler pool**: bounded, every source once, exits in any order.
* **Stale state**: cached values, files left in the cache directory, values
  recorded once for many objects, times taken later than the contents.
* **Trees that change while they are traversed**: `if`, `call`, `include`.
* **Containers with moving contents**: removal from `map` while iterating.
* **Pipes**: who waits for whom.

`PROJECT.json` lists the hazards at their lines, with the properties that cover
them or the reason why none does.

## 2. The modules

| Module | Models | Built on |
|---|---|---|
| `Rebuild` | what an incremental rule promises: success means nothing is stale | – |
| `CcRule` | a `cc`/`cxx` rule: `node_cc.c` driven by `node_resolve` | refines `Rebuild` |
| `CcRuleInv` | its inductive invariants, which TLC checks and the proofs use | `CcRule` |
| `CcRule_proofs` | theorems about contents and order, settings and tags, and the promise | `CcRuleInv`, TLAPS |
| `CxxModules` | C++ modules across the `cxx` rules of a project: registry, BMIs, module map, records | – |
| `CheckRule`, `CheckRule_proofs` | a `check` rule, its script and the commands the script calls; theorems about it | TLAPS |
| `BuildGraph` | one build of several `run` rules: passes, recursion, records, products | refines `Rebuild` |
| `BuildGraphInv` | its inductive invariants | `BuildGraph` |
| `BuildGraph_proofs` | theorems about the recursion, about products, records and the promise | `BuildGraphInv`, TLAPS |
| `Templates` | `configure`, `run` in a `foreach` over its products, and `install` of what that makes | refines `Rebuild` |
| `Templates_proofs` | its inductive invariant, and theorems | `Templates`, TLAPS |
| `RuleNames`, `RuleNames_proofs` | the names of the `.deps` files, while rules come and go; when they can be trusted | TLAPS |
| `ScriptTree`, `ScriptText` | `node_init`: the tree that `if`, `in-sources`, `include`, `macro` and `call` rewrite while it is visited; what the text says, read without pointers | – |
| `Variables` | `set`, `let`, `env`, `${}` and `^{}`, in a root and an included script | – |
| `Spawn`, `Spawn_proofs` | a child process whose output is read while it runs; theorems about it | TLAPS |
| `KeyMap`, `HashMap` | what a map promises; `map.c` | `HashMap` refines `KeyMap` |
| `HashMap_proofs` | its inductive invariant, and theorems | `HashMap`, TLAPS |
| `UList`, `UList_proofs` | `ulist.c`; theorems about it | TLAPS |
| `Paths` | the algorithms of `paths.c` | – |
| `ModuleProjects`, `NamedRules`, `VariableScripts` | projects and texts for the instances | – |
| `MC*` | instances for TLC; `MCScript`, `MCParts` and `MCRecords` host several | the modules named in them |

Definitions whose comment begins with "Mutant:" are not part of a model. Each is
a plausible mistake in the definition after it, and putting it in the place of
that definition makes a property fail: the evidence that the property says
something about the code.

Modification times are issued by a counter, so that a file written later has a
later time and equal times mean equal contents. The code compares times in
milliseconds with `>`: a second write within one millisecond, and a time that is
set back, are outside of what the models (and the properties) speak about.
Optional things - a `.deps` file, an object, a running process - are sets of at
most one element. Where a file's content matters, it is an *image*: a record of all
that the file was made from.

### CcRule

`smt`, `hmt`, `amt`, `incl`, `flags`, `target` are what the user controls: times of
sources, headers and consumed files, which headers a source includes, the
evaluated values (flags, compiler, list of sources) and the toolchain; `Changes` and
`Switches` are the pairs of values and of toolchains that consecutive invocations
may have. `obj`, `tag`,
`dfile`, `bmi`, `deps` are the files of the rule; an object is the *image* of all
its compiler has read. `pc` .. `recno` belong to the process.

An invocation is `BeginUpToDate`, `BeginAll` or `BeginSome` (the decision of
`node_resolve` and `_cc_sources_split`), `Open` (`.deps.tmp`), `Spawn` / `SpawnError` /
`Reap` (`_cc_compile_sources`, for the interfaces with one job and then for the
others), `IfacesDone`, `SourcesDone`, one `Record` for every source and `Commit`.
`CompilerOk` and `CompilerFails` are the compiler's side, `Crash` kills the build at any
point, `UserEdit`, `Reconfigure` and `LiveEdit` are the user. An interface that
is compiled outdates all images read from its old BMI.

Left out: `compile_commands.json`, the names of objects, the module map of GCC, and
two sources that map to the same object.

### CheckRule

`input` is everything the outcome can depend on, `deps`, `env` and their `Tmp` files are
the files, `loaded` is what the build script sees. What the script does is a
parameter (`Reads`, `Sets`); it is assumed to register what it looks at
(`ScriptAssumption`). `Register` and `SetPair` are `autark dep` / `autark env` and
`autark set`, `RenameDeps` and `RenameEnv` the two renames, `Load` the loop that
passes the pairs to the script. `KillPoints` are the stages at which autark
may be killed; the run `parts` has all of them. The history variable `behind` says that the run
of the script that `.deps` records did not replace `.env`: from the first rename to the second,
and after the second if the script has set nothing and an earlier one has. What is served then is
the work of another run (`ServesRecorded` speaks of the rest, `ServesCurrent` of all).

### BuildGraph

A *shape* is what the build script evaluates to: names consumed and
produced, and arguments, for every rule. `stack` is the recursion
`node_build` → `node_resolve` → `node_consumes_resolve` → `node_build`; a frame has the names
still to look up, those not found in the cache directory, and the files found.
`Setup` is the registration of products, `NextRule` / `EndOfPass` the traversals,
`BuildProducer` / `LookInCache` / `LookInSource` are `node_consumes_resolve`, `Skip` / `Exec` /
`Commit` the decision and the end of `node_resolve`, `Write` a command that writes
one product. Which rules are marked `always` or run on install depends on the
shape as well. An edit of the script goes from any shape to any
other (`EditScript`), a variable only between some (`SetVariables`). A product carries what its command has read, so that
`FromClean` can say what a build from an empty cache would have put there.

Left out: checks of object tags, and the other kinds of rules: what a
`run` rule consumes may as well be the product of one of those. A command
fails or succeeds as a whole; it may have written any of its products before.
Its products are written after it has started and never kept from an
earlier run.

### ScriptTree

`node` is the heap of `struct node`s with their `parent`, `child` and `next` pointers, numbered
as in `sctx->nodes`; `stack` has the loops of `node_init` and `_init_subnodes`, each with
the node it stands at. Every loop goes on by the `next` of that node, which a
directive may just have changed: `Spliced` is the surgery of `if`, `in-sources` and
`include`, `Called` the one of `call` with its copies (`Clones`). `InitNode`, `InitIf` with `TakeBranch`,
`InitInSources`, `InitInclude`, `InitMacro`, `InitCall` are the init handlers, `Advance`, `Repeat` and
`Return` the loops. `ScriptText` reads the same text as a tree, without pointers, passes
or loops (`Read`), and compares.

Left out: how a condition is computed (its word says `yes` or not), directives
without a condition or name, and all that rules do in their own init handlers.

### CxxModules

A project is a sequence of `cxx` rules, each with its tag (target or host), sources,
module units listed by hand, and modules it consumes. What the lexical scan finds in a
source (interface, unit, partition or plain; its module and imports) is its
`Text`, one of a set. `Provided` is the registry all rules fill while they are set up,
with the refusals of `cxx_modules_add_source` (`Refused`). `Begin` .. `Leave` are the
recursion of `node_build`, `Prepare` writes GCC's module map when its content
changes, `Consume` builds the provider first, `Skip` / `Resolve` / `Compile` /
`CompileFails` / `Record` are `node_resolve` with the handlers of `node_cc.c`: all interfaces
first, and the other sources if no interface has failed. `Cyclic` is the end of rules that need
each other. `ModuleLines` is what `cxx_modules_deps_add` records.

Left out: headers, settings and parallel compilers, which are in `CcRule`.

### Templates

Three rules in a row: `configure` with `N` templates, a `run` in a `foreach` over the `N`
files it makes, and `install` of the `N` files this makes. All of them go by the
same scheme - a record flagged `s` or `f` stands for one element, any other for all - and
differ in `Sources`, `Own` (what else they record) and `Made`. `Resolve` chooses the
elements, `Open` and `Done` write one (a kill in between leaves half a file),
`Commit` replaces `.deps`, `Stop` is any way an invocation ends early.

Left out: quoting and layout of substituted lines, symbolic links, modes,
`install{exact}`.

### RuleNames

`_node_bind` names the records of a rule by the number of its node, and a number
depends on everything registered before. A project is a row of groups, one for
every include or call that registers rules, some inside of an `if` on an option. `Vfile`
is the name, `UnitDeps` the scripts a rule records, `ToCompile` the selection of
`_cc_sources_split` for one source. All nodes between the rules are left out, so that
rules of one shape exchange their numbers, as copies of one macro do.

### Variables

Statements of a root script and of one it includes are visited in three passes. `table`
has by script and variable the definition in force or a raw value, `nodes` what the
value nodes have cached and what they were defined over (`recur_next`). `SetValue` is
`_set_value_get`, `Reference` is `${name default}`, `Register` the four ways a definition
comes into a table. A request sets the definition it finds up, if that has not been done
(`NodeSetup`, the `node_setup` in `node_value`): a `let` takes its place in the table again, an
`env` goes into the environment, and neither happens once more at its own place. So evaluation
changes the tables and the environment, and the operators pass them on as one value (`World`).
`early` remembers the definitions by `let` that were set up that way. `Expected` reads the same statements without caches, links and
marks: the value of the definition in force, with the earlier ones for its references
to itself.

Left out: `@{}`, spread values, the prefix forms of `^{}`, `set` in a `foreach`.

### Spawn

`Environment` and `Resolve` put together what the child gets. `OpenStdout`, `OpenStderr`, `Fork` and
`CloseWriteEnds` make the pipes and the child; each may fail, and then what has been opened is closed
(`CannotStart`, `Fail`). `Poll`, `Receive`, `EndOfPipe` and `Wait` are the loop of `spawn_do`, with a
`poll`, a `read` and a `waitpid` that fail. The child writes to its pipes by a plan, blocks when one is
full, may exit or be killed at any point, and may leave a process behind that still holds them.

Left out: feeding the child by its standard input (nothing in autark sets a provider), and children
that are not waited for (`nowait`): these are the compilers of `CcRule`.

### UList, Paths

`UList` has the array with its slots, also those nobody has written, `start` and `num`; the
history variable `call` keeps the list before a call, and `AsCalled` says what it
becomes. `Paths` translates the character loops (`NeedsNormalize`, `Scan`, `Relativize`,
`PrefixFor`, `Basename`, `Join`) and compares them with the segments a path walks through.

### HashMap

`entries` is the table, with hash, key and value in every slot; `iter` is
the iterator, `seen` and `begun` are history variables of the iteration. `Close` is the
loop in `_map_entry_remove` that moves entries back, `Resize` is `_map_resize`. Hash values
have `Width` bits, so that `NHash` overflows as `_map_nhash` does. `Find` is one
operator for the searches of `_map_entry_find` and `_map_entry_put`: both walk from the home of a key
to the slot that holds it or to an empty one.

## 3. What the runs show

| Run | Question | Bounds, and why they are enough |
|---|---|---|
| `cc_killed` | Does `.deps` ever vouch for an object made from other contents or with other settings? Is a failure ever forgotten? Is `SInv`, the inductive invariant of the proofs, true? Is `Rebuild` implemented? | An interface and an importer, a common header, 2 jobs, flags that change once, a cross build that becomes a native one, 1 edit. Failure of one and success of the other, and kills at every step, before and after each change: every case of `_cc_sources_split` occurs. |
| `cc_retry` | Order of interfaces and importers; every build ends, whichever compiler exits next; repeated builds get everything built | 2 interfaces of which one may import the other, 2 importers, 2 jobs, so that the pool is full and is emptied in either order; 1 edit, kills and failures for as long as they last. |
| `graph` | Same result as a clean build? Nothing to do afterwards? Inputs ready? Cycles reported when and only when there are any? No rule run twice? Does every build end? Is the inductive invariant `IInv` true? Is `Rebuild` implemented? | 3 rules; nine scripts, edited into each other: one rule needed twice and out of order, arguments changed by a variable and back, an order turned round, a product dropped, and one that another rule makes, two products of one rule, rings of 3 and of 1, double products, an `always` rule with a run-on-install rule. Products deleted and overwritten. Scripts that build make two products at most, and rules without products look only at what they consume; so times from 1 to 6 have room for a build in full (2), an edit (1), and a second build in full (2), with failures and kills in both. |
| `records` | Do the selective rules (`Templates`) leave what making everything would? Do cc rules whose numbers move (`RuleNames`) keep objects of their sources? Do C++ modules stay fresh, and do builds settle? | Templates: 2 elements, 2 variables of 2 values, 2 prefixes, 3 changes or stops: a partial build, an invocation that stops in it, and a change of what it had left out. Names: 4 rules in a root and an included script, 3 changes or kills: an option on, off and on again, or a script that grows and shrinks. Modules: four projects of two rules, of which one has rules that need each other, and one of a single rule; 3 edits, losses, failures or kills, for GCC and for clang. |
| `script` | Is the initialised tree the one the script describes? Does whoever asks for a variable get what the script says? | 3620 texts: six macro bodies, one or two top-level directives out of the nestings to depth two (but no `call` or `include` directly inside of `in-sources`), recursion to depth 4. All texts of four statements that end with a request, about two variables in two scripts, each with and without `-D`: three definitions of one variable are the longest chain `recur_next` makes here. Requests in the setup pass that come before a definition are among them. |
| `parts` | Is the table a map, is every entry reachable, does iteration with removal skip any? Is a list after every call what the call says? Do paths have one normal form that leads to the same place? Does autark get all a child writes, and come back? Are the values of a check those of the present inputs, and `.env` never a mixture? Is its script run until it succeeds and then no more? | Map: 5 keys with equal, wrapping and overflowing hashes; capacities 4 and 8 with all transitions. List: units of 2 slots, 4 elements, both ends. Paths: all paths of five characters out of `/`, `.` and a letter, to all of four. Child: pipes of 1 piece, plans that fill either first, one environment (the theorem is for all). The system calls of the parent fail at every place. Check: 3 inputs of which one decides whether another is looked at and whether anything is set, 3 values; kills at every stage, for as long as they last. |

`script`, `parts` and `records` are hosts: the initial state chooses a part, the others
stand still. The parts share no variable; one host needs one run of TLC.

Six runs show where the program differs from what its documentation, comments
or tests say (`findings` in `PROJECT.json`; the built program does the same):

* `cc_native_to_cross`: from a native to a cross build with one source outdated,
  the other objects stay native and are recorded as cross.
* `rule_names`: the records of a rule are found by a number that an option or another
  script can change; the rule trusts those of another one, is skipped, and the build
  is successful without its object, or with an old one.
* `template_variables`: after a partial `configure` the variables of the templates left
  out are forgotten.
* `tree_macro_negation`: `if { !... }` inside of a macro loses its negation.
* `check_unset`: a check that is run again and sets nothing leaves the values of an earlier run in force.
* `modules_converge`: two `cxx` rules of one target that both provide modules compile each
  other for ever.

### Where the promises end

The passing runs are about the cases in which the properties are meant to hold.
They leave out these, in each of which the models fail as the program does:

* the cases of the six runs above: no switch from native to cross (`Switches`), only the
  last script or the root may change what it registers (`MCLastGrows`), templates that
  mention the same variable (`MCSame`), no negated condition in a macro, no run of a check that
  sets nothing where an earlier one has (`behind`), one provider of modules in a project's
  target (`MCLayouts`);
* a `let` that refers to its own variable, defined nowhere before: it is evaluated without end,
  because `_set_value_get` forgets the mark of a `let` that is being evaluated (`node_set.c:103`; the
  comment at `node_set.c:53` promises the default). No text of `script` has one first;
* two `let` of a variable and a request in the setup pass before them: the request sets the later one up, the
  earlier one then takes its place, and a request after both gets the earlier value
  (`script.c:599`; `AsWrittenInOrder` excepts that);
* flags that change, a build that is killed, and flags that change back: the old
  `.deps` vouches for objects of both settings (`Changes` goes forward only);
* a source that is saved while it is being compiled is recorded with the time of
  the edit, so `ContentFresh` is claimed for `Spec` and not for `LiveSpec`;
* a check that is killed between the two renames: the new `.deps` vouches for the
  old `.env` (`behind` as well; the run `parts` has that kill, and `ServesRecorded` excepts it);
* a variable that adds a file to `consumes` or `produces` of a `run` rule: no list is recorded, only the
  files found, and the rule is not run (`node_run.c:447`, where `README.md:1340` of the repository
  promises it; `Trustworthy`, and shapes joined by `MCVariables` differ in arguments only);
* a name that one version of the script makes, and another consumes as a source: the copy in the cache
  directory hides the source (no shape has one);
* a file that is made when installing and consumed by a rule of the build: it is not found there,
  although no rule is missing (`Verdict` would say otherwise; no shape has one);
* a `poll` that fails: `spawn_do` leaves both read ends open and waits for a child that may be blocked by a
  full pipe (`AllReceived` and `Returns` except it); a `read` that fails: the rest of the pipe is
  lost, and `spawn_do` returns as if it were not (`broken`);
* a removal inside an iteration that shrinks the table while entries are left: the
  iterator keeps its slot number and misses entries (`map.c:201`; the tables of `parts`
  only shrink when nothing is left);
* clang looks for modules by their place: the BMI of a renamed or removed module
  stays there and is in no `.deps` (`Edit` of `CxxModules` does not rename under clang); and a
  rule that stands before the provider of a module, and does not say that it consumes
  it, is compiled again one invocation late (layouts say so);
* two variables that refer to each other: what they give depends on which is asked
  for first; a value that was asked for keeps its cache when an `env` defines the variable
  again later, and `^{}` in a `let` keeps its first value (`VariableScripts` has none of these);
* a `@{}` in a `foreach` keeps the output it had for the first item;
* an argument of `call` that is a rule (`${X}`): its copy loses what stands in it; and
  a `call` or `include` directly inside of `in-sources`: what it brings is bound when
  `in-sources` is gone, and does not run in the source directory. (The copies of a
  call become the *last* children of the parent, behind rules that follow the
  call. The documentation does not say where they go; `AsWritten` takes that for
  the meaning of a call.)

Deadlock is not checked (`CHECK_DEADLOCK FALSE`): when the bound on changes or on the
clock has been reached, an idle system has nothing left to do, and an initialised tree,
a child that was waited for and a script that was read are done.

### Fairness

`FairSpec` of `BuildGraph` assumes that the scheduler runs autark and that a command
ends: the code waits for it without a time limit. `Fairness` of `CcRule` assumes the same of
autark and of every compiler. `FairSpec` of `ScriptTree` assumes only
that autark goes on, for it waits for nobody there. `Fair` of `Spawn` assumes that autark (which
may meet a failing call, but is never made to by fairness), the
writes of the child and its exit go on, and that a process left behind closes its pipes some
time: `spawn_do` reads until both are closed. A child that writes to a pipe without a reader goes on
(`NoReader`), or is killed by the signal. `RetrySpec` of `CcRule` and `Fairness` of
`CheckRule` add that the user starts the build again and that from some time on nothing
is killed and no compiler or script fails (and no input changes, for a check).
That failures end is more than strong fairness of success, and needed: with two
interfaces each may fail just when the other succeeds, and every build starts
both again, for ever.

## 4. What is proved

TLAPS checks these for every value of the constants: every number of sources, headers,
jobs, rules, products, scripts, templates, variables, settings, inputs, lengths and
sizes. *Under* names the hypothesis of the theorem, where it has one.

| Theorem | Says | Under |
|---|---|---|
| `CcRule_proofs!TypeCorrect`, `TypeCorrectLive` | the type invariant, without and with edits during builds | |
| `CcRule_proofs!FailedRetried`, `FailedRetriedLive` | after a failed build the next one has something to do | |
| `CcRule_proofs!Inductive` | `IInv`: what the records say of contents, in every phase of a build | |
| `CcRule_proofs!ObjectsStayFresh` | `ContentFresh`: what `.deps` vouches for was compiled from the present source, headers, consumed files and interfaces | |
| `CcRule_proofs!InterfacesFirst` | `InterfacesAlone`: the pool's bound and the order of interfaces | |
| `CcRule_proofs!OkIsUpToDate` | `NothingToDoAfterOk` | |
| `CcRule_proofs!SettingsInductive` | `SInv`: `IInv`, and what the records say of settings and tags | `SettingsForward` |
| `CcRule_proofs!SettingsStayFresh` | `SettingsFresh`: the same as `ContentFresh` for node values and toolchain | `SettingsForward` |
| `CcRule_proofs!TagsTrue` | `TagTruth`: the tag beside an object names its toolchain | `SettingsForward` |
| `CcRule_proofs!CcRulePromise` | `KeepsPromise`: a `cc` rule implements `Rebuild` | `SettingsForward` |
| `BuildGraph_proofs!CoreInductive` | `CoreInv`: the stack of `node_build` | |
| `BuildGraph_proofs!EveryRuleOnce` | `RunsOnce` | |
| `BuildGraph_proofs!FreshInductive`, `BuildInductive` | `FreshInv`; all of `IInv` | `Trustworthy` |
| `BuildGraph_proofs!BuildVerdict` | `Verdict`: cyclic, unresolved or ok is what the script as a whole is | `Trustworthy` |
| `BuildGraph_proofs!BuildIsClean` | `SameAsClean`: a successful build leaves what one from an empty cache would | `Trustworthy` |
| `BuildGraph_proofs!BuildIsStable` | `NothingToDo` | `Trustworthy` |
| `BuildGraph_proofs!BuildInOrder` | `InputsReady`: commands find their inputs finished | `Trustworthy` |
| `BuildGraph_proofs!BuildKeepsPromise` | `KeepsPromise`: the rules of a script implement `Rebuild` | `Trustworthy` |
| `Templates_proofs!TemplatesInductive` | its `IInv` | `SameUses` |
| `Templates_proofs!TemplatesFresh` | `OutputsFresh` of `Templates` | `SameUses` |
| `Templates_proofs!TemplatesStable` | `NothingToDo` of `Templates` | `SameUses` |
| `Templates_proofs!TemplatesPromise` | `KeepsPromise`: `configure` and `run` of one invocation implement `Rebuild` | `SameUses` |
| `RuleNames_proofs!NamesInductive`, `NumbersSafe` | `ObjectsFresh`: no rule trusts the records of another one | `PlacesKept` |
| `RuleNames_proofs!LastMayChange` | `PlacesKept`: what has a number depends on nothing else | `OnlyLastChanges` |
| `CheckRule_proofs!TypeCorrect` | the type invariant | |
| `CheckRule_proofs!EnvWhole` | `NotTorn`: the `.env` file is of one complete run | |
| `CheckRule_proofs!RunOnce` | `UpToDateAfterOk` | |
| `CheckRule_proofs!ServedFresh` | `ServesRecorded`: the build script sees what the check would set now, if its recorded run could replace `.env` | |
| `Spawn_proofs!SpawnInductive`, `ReceivesAll` | `AllReceived`: nothing a child writes is reordered, nor lost if `spawn_do` returns without an error and all reads succeed; all pipes are closed, unless `poll` failed | |
| `Spawn_proofs!GivenInductive`, `SeesSettings` | `ChildSees`: every variable once, as it was set, and the program of the child's own `PATH` | `NamesOnce` |
| `UList_proofs!ListInductive`, `ListIsAsCalled` | `AsCalled`: no element is lost, whatever the array does | `Assumption` |
| `HashMap_proofs!MapInductive`, `NeverFull`, `AllReachable`, `MapStaysSound` | `MapSound`: a search ends, and finds every entry | `Assumption` |
| `HashMap_proofs!ImplementsMap` | `IsMap`: `HashMap` implements `KeyMap` | `Assumption` |
| `HashMap_proofs!WholeIteration` | `NothingSkipped`: an iteration with removals returns every entry | `Assumption`, `[][KeepsSize]_vars` |

### Assumptions

Those the modules name, which TLC evaluates in every run; and the hypotheses of the last
column. None is there for the prover's sake: without each of them the models, and the
program, do what *Where the promises end* describes. TLC evaluates each on the instance of
the run that checks the same property (`ForwardAssumption`, `TrustworthyAssumption`,
`SameUsesAssumption`, `NamesAssumption`, `ListAssumption`, `MapAssumption`, `ChildAssumption`), so that none of them is empty.

* `SettingsForward`: no node value and no toolchain returns once it was replaced, and no
  cross build follows a native one. There is *some* strict order the changes go along; any
  number of values is allowed. With a value that returns, a killed build leaves objects
  of two settings and one record that fits (second item there); a cross build after
  a native one is the run `cc_native_to_cross`. A change of contents needs no such order.
* `Trustworthy`: a variable changes arguments and not the lists of names; a name that one version
  of the script consumes, and any version makes, is made in the version that consumes it; and what is made
  only when installing is not consumed. Edits that add products, drop them, rename them or give them to
  another rule, rings, double products, missing files and every order of the rules are covered. `EveryRuleOnce` and `CoreInductive` do without it.
* `SameUses`: all templates of a rule mention the same variables (run `template_variables`).
* `PlacesKept`: which rule of a script has a number is decided by the scripts this rule
  records: its own and the root. `OnlyLastChanges`: the groups before the last one (what the
  root script has, each include, each call) are in no `if`, and only those of the root script change. The
  run `rule_names` is a project with neither.
* `Assumption` of `UList`: the allocation unit and the initial lengths are natural numbers.
  `Assumption` of `RuleNames`: groups are in a sequence, and their texts are sequences.
* `Assumption` of `HashMap`: a hash has `Width` bits, the null pointer is no key, and `MAX_CAPACITY`
  is `INITIAL_CAPACITY` (4 or more) doubled some times (`map.c:14`). Nothing is assumed of the
  hash function: all keys may have the same hash.
* `KeepsSize`: no removal inside of this iteration halves the table. Without it the
  statement is false, see *Where the promises end*; the hypothesis is on the steps and not on the
  constants because a table of any size can reach that point.
* `NamesOnce` of `Spawn`: the environment of autark has no name twice, nobody calls
  `spawn_env_set` with a name twice (`node_run.c:64` does not) and `PATH` is left to
  `spawn_env_path_prepend`. A second setting of a name would be at the end of the child's environment.

### The arguments

**`ContentFresh`.** The property speaks of what lies on disk
between builds and is not inductive: a partial build changes objects and records
separately. `IInv` adds what each stage has established: `DepsInv` (what `.deps`
vouches for is *good*, meaning its object and its `.d` file are of the present
contents, and the record lists the headers the source includes now), `TodoInv` (a source not selected
is vouched for, and a selection with an interface is the whole list), `StageInv`
(which sources wait, are being compiled, or failed), `WorkInv` (a finished source is
good, and a running compiler has read the present contents) and `TmpInv`
(what has been recorded so far). `ClockInv` says that an edit is newer than any
record. The central point is that re-recording a source that was left out is only
right because `DepsInv` made it good before, and that a compiled interface cannot
outdate such a source because then all sources are selected.

**`SettingsFresh` and `TagTruth`.** Settings are recorded once for all sources, so a
partial build may only record them if the objects it leaves out have them.
`SettledInv` says so: what `.deps` trusts has an object and a tag of this build's settings, and a
selected source is *not* trusted, so that a kill after its object was replaced spoils
nothing. That a record of earlier settings can never fit again is `OrderInv`:
it lies before the present ones in an order, which exists by `SettingsForward`. `TagInv` keeps the
truth of the tags from one success to the next edit.

**`Rebuild` by `CcRule`.** A step to `result = "ok"` is `BeginUpToDate` or `Commit`. By
`SInv` no object is stale after either: `DepsInv` gives the contents, `SettledInv` the
settings. Every other step is one of the abstract rule's or a stutter.

**`RunsOnce`.** `CoreInv`: no rule is twice on the stack and none that is
built is on it, a running command belongs to the top of the stack, whose
names are all found, and whatever has started its commands is built or running.
The step that could break it is a rule reached by a second way; it is either built,
and left alone, or on the stack, and the build stops.

**`SameAsClean`, `NothingToDo`, `InputsReady`.** `RecordInv` says what a `.deps` file that was
made with the present script vouches for: a product whose time is the recorded one
was made by this rule, with the recorded arguments, from the recorded times of what it
consumes. It does not say that the rule is up to date, and so survives edits and kills;
`BuiltInv` says that for built rules, and that what they need is built. A product
carries the places and times of what its commands have read, and a clean build would
read those that are there now (`FromClean`). So the proof goes rule by rule, with no induction
over the graph: `UpToDate` means that every recorded time is the present one, with
`RecordInv` the product is of the present inputs (lemma `UpToDateClean`), and this for all rules
together is what a clean build would have made. `FramesInv` and `WrittenInv` carry
it through a rule that runs: what `node_consumes_resolve` has found so far, and what
a command has written.
`RoomInv` shows that the bound `MaxClock` on times never stops a process half way.

**`Verdict`.** The code looks for a rule on its stack; the property speaks of the script. `ChainInv`
says that every rule on the stack needs the one above it, so the rules from the one found up
to the topmost need each other. `OrderInv` is the other half: among any
rules that are built there is one that needs none of the others, the one that was first. After
a successful build every rule is built, and so no set of rules is a ring. A name that
is missing is in `miss`, where only names without a producer come (`FrameInv`); a rule that
is built has a record with a time for everything it consumes, so nothing is missing.

**`NothingToDo` and `OutputsFresh` of `Templates`.** A line is trusted by itself, so `RecordInv` says of each of the
three kinds of `.deps` what a file not newer than its recorded time was made from,
and `ResolvedInv` that the rules resolved in this invocation are settled. Under
`SameUses` the variables recorded by a partial `configure` are those of all templates; that is
the point at which `template_variables` fails.

**`ObjectsFresh` of `RuleNames`.** `PlaceInv` says that a record none of whose scripts has changed was
made under its name in some project with the same text of these scripts, which by
`PlacesKept` gives the number to the same rule as the present one. So a record that is
consulted is outdated by a script, and all is compiled, or it is the rule's own (lemma
`KeptIsOwn`), and a source that is not outdated has its object (`TimeInv`). For `LastMayChange` the row of
nodes is put together by a recursive function; that it is a sequence, and that two rows which
differ in the last group agree before it, are inductions over the groups (`FlattenType`,
`FlattenLast`).

**Induction.** The prover cannot use a theorem whose parameter is an operator, and so
not the induction theorems of the library. But that a non-empty set of naturals has a
least element follows from `WFMin` and `NatLessThanWellFounded`, which are about sets; the lemmas
`Least` and `Induct` are induction for a *set* of naturals. A recursive function is unfolded by showing,
with the same lemma, that its equation has a solution (`FixedExists`).

**`AllReceived`.** Per pipe, what was received and what is in the pipe are, in this order,
what was written (`StreamInv`); autark closes a pipe only when it is empty and nobody
has its other end (`ClosedInv`). A pipe `poll` reported, and the loop has not come to,
is still readable or at its end, because only autark empties it. A pipe that could not be read is in
`broken`, and nothing is said of its rest.

**`ChildSees`.** The loop invariant `Taken` of `_env_create`: of the first `n` names each stands once,
in the order of the own environment and as it was set if it was, and the settings left over are those of
other names (`TakeMore`, one entry on). At the end the two parts share no name (`JoinIs`),
and `GivenInv` keeps what was made for the child until `spawn_do` returns.

**`MapSound`, `IsMap`, `NothingSkipped` of `HashMap`.** A table is *sound* (`Sound`) if an entry has the hash of its key,
no key is there twice, and from the home of an entry to its place there is no empty
slot (`NoHole`). A search from the home of a key meets its entry before the first empty slot
(`FindThere`), and there is an empty slot because the load is below `MaxLoad`. Growing and shrinking put every entry
into the first empty slot behind its home, one after the other (`Tables`), which keeps a sound table sound. The
hard part is the loop of `_map_entry_remove` (`Close`). Its invariant `Looked` has a hole: every live entry
is reached from its home without an empty slot, where the hole does not count as one, and no entry that the loop has
come by lies behind the hole on its path (`Near`). When the loop reaches the end of
the cluster no path leads over the hole, so that it may be emptied (`Closed`). Contents are compared as
sets of entries (`Bag`): a put adds one, a removal takes one, and all else leaves them, which is `KeyMap`.
For the iterator, `WalkInv` says that what it has still to return lies at its slot or behind it. A
removal moves entries only back, and of those behind the hole none moves before it (`Stays`), so
`map_iter_next` has to look at the slot it points to once more, and nowhere else.

**`Rebuild` by `Templates`.** The artifacts are the configured and the printed
files; a step that ends an invocation changes no file, and after it `OutputsFresh` holds. What
`install` copies is no artifact of this promise, since only `-I` makes it one; `OutputsFresh` speaks of it. This
refinement is not among the properties of the runs, which check `OutputsFresh`.

**`AsCalled`.** The elements lie in slots `start` to `start + num - 1` of an array that has
them all (`ArrayInv`); each call is a lemma that says which slot has which element
after `Realloc`, `Move` and `Store`, and one lemma for each kind of call (put, drop, set, clear,
clone) turns that into the sequence operator.

**`FailedStaysOutdated`** (`RetryInv`). A failed source is recorded
with time 0, every file has a time above 0, and nothing but the next complete
build replaces the record.

**`ServesRecorded`** (`CacheInv`). Unless `behind`, the `.env` file is of the run that `.deps` records. If every record of `.deps` equals the present
inputs then, a script registering what it looks at, `.env` holds what it would
set now. A file that is not newer than its record has the recorded time,
because files only get newer.

### Only model-checked

* Liveness: `Terminates`, `EventuallyBuilt`, `CheckServes`, `ChildReturns`, `TreeTerminates`.
  The prover knows no `ENABLED`, and so no fairness.
* `TreeSound`, `AllInitialised`, `AsWritten`, `ValuesAsWritten`, `CxxFresh`, `CxxConverges`:
  `ScriptText`, `Variables` and `CxxModules` use recursive operators: with one in reach the prover
  has no arithmetic. `PathAsSegments` (`Paths` is recursive as well) compares loops over characters
  with a definition; the inductions this needs have not been done.
* `NothingSkipped` where a removal halves the table and nothing is left behind the iterator (the
  tables of `parts` do that): the theorem is about iterations without such a removal.

## 5. Plan

In this order; the first parts are what most of the program relies on.

1. The loops of `Paths` with recursive functions, and their inductions.
2. `CxxModules` without recursive operators, and `CxxFresh` for one rule of a target that provides
   modules.
3. `TreeSound` for the surgery of `ScriptTree`, which needs no recursion.
4. Object tags from `cc` to `run`, host and target scopes; the compiler taken from the
   environment.

## 6. Not modelled

The generated PEG parser, formatting and logging, memory management, the
amalgamation in `dist/`, the test harness, and option parsing: generated or third-party
code, pure I/O, or nothing that changes state. The shell scripts in `check_scripts/` are
parameters of `CheckRule`. Value nodes (`find`, `dir`, `basename`, `echo`, `error`, `meta`) compute a value
and keep nothing. The fetch registry is an append-only log whose last match counts; around it
is network and file I/O of a check script. Detection of toolchains
is a function of a descriptor and the environment. `compile_commands.json`, and the lexical scan
of C++ sources, are text processing. Two autark processes on one cache
directory, and compilers that outlive a killed autark, are outside the models: the
program has no lock, and its documentation does not speak of either.

## 7. Running

    tlc -config CcRule_killed.cfg MCCcRule
    tlapm CcRule_proofs.tla

Each `.cfg` is named after its module and run; `PROJECT.json` lists them all.
