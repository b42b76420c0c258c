------------------------------- MODULE CcRule -------------------------------
(***************************************************************************)
(* The compilation rule cc / cxx (node_cc.c) driven by the incremental     *)
(* resolver node_resolve (script.c): what it reads from the rule's .deps   *)
(* file, which sources it decides to recompile, how the compilers run in   *)
(* parallel, what it records, and when the record replaces the old one.    *)
(*                                                                         *)
(* A file is its modification time: `clock' issues a new one for every     *)
(* edit, so two equal times mean the same contents.  An object file is the *)
(* image of what its compiler read.  Optional values (a .deps file, an     *)
(* object, a running compiler) are sets of at most one element.            *)
(*                                                                         *)
(* The list of sources is fixed: a change of the list changes either the   *)
(* build script (a member of Consumes) or the value of the list expression *)
(* (a member of Flags), and both outdate the whole rule.                   *)
(***************************************************************************)
EXTENDS Naturals, FiniteSets

CONSTANTS
  N,         \* number of sources; source s is the s-th in declaration order
  Ifaces,    \* sources that are C++ module interface units
  Headers,   \* header files the sources may include
  Consumes,  \* build scripts of the rule and its `consumes' files
  Flags,     \* values of the evaluated node values (cflags, compiler, list)
  Targets,   \* toolchains a build may be started for
  Native,    \* no toolchain: toolchain_id() = 0
  Changes,   \* pairs of flags two consecutive invocations may have
  Switches,  \* pairs of targets two consecutive invocations may have
  MaxJobs,   \* g_env.max_parallel_jobs
  MaxClock   \* bound: number of file modification times ever issued

Sources == 1 .. N

ASSUME NAssumption == N \in Nat /\ Ifaces \subseteq Sources
ASSUME JobsAssumption == MaxJobs \in Nat \ {0}
ASSUME ClockAssumption == MaxClock \in Nat
ASSUME SettingsAssumption == /\ Flags # {} /\ Targets # {}
                             /\ Changes \subseteq Flags \X Flags
                             /\ Switches \subseteq Targets \X Targets

VARIABLES
  clock,   \* the last modification time issued
  smt,     \* modification time of every source
  hmt,     \* ... of every header
  amt,     \* ... of every file in Consumes
  incl,    \* headers the current text of a source includes
  flags,   \* current value of the node values the rule depends on
  target,  \* toolchain of the current invocation
  obj,     \* object file of every source: {} or {image}
  tag,     \* .autark-tag sidecar of every object; Native stands for no tag
  dfile,   \* headers listed in the compiler generated .d file
  bmi,     \* BMI of an interface: absent, recorded in deps, or newer
  deps,    \* the .deps file: {} or {record}
  pc,      \* where node_resolve is
  todo,    \* sources selected for compilation
  pend,    \* selected sources not yet given to a compiler
  task,    \* compiler process of a source: its state
  img,     \* what that compiler has read: {} or {image}
  failed,  \* fmap: sources whose compilation failed in this build
  tmp,     \* the .deps.tmp file being written: {} or {record}
  recno,   \* next source to be recorded in it
  result   \* outcome of the last invocation

world == <<clock, smt, hmt, amt, incl, flags, target>>
cache == <<obj, tag, dfile, bmi, deps>>
vars  == <<clock, smt, hmt, amt, incl, flags, target, obj, tag, dfile, bmi,
           deps, pc, todo, pend, task, img, failed, tmp, recno, result>>

-----------------------------------------------------------------------------
\* What the files contain.

Image == [src : Nat, hdr : [Headers -> Nat], aux : [Consumes -> Nat],
          flags : Flags, target : Targets, old : SUBSET Ifaces]

DepsRec == [aux : [Consumes -> Nat], flags : Flags, target : Targets \cup {Native},
            src : [Sources -> Nat], inc : [Sources -> SUBSET Headers],
            hdr : [Sources -> [Headers -> Nat]], bmi : SUBSET Ifaces]

\* Modules a source may import: an interface only those declared before it.
Imports(s) == {i \in Ifaces : s \in Ifaces => i < s}

\* What a compiler started now reads for source s.
ImageNow(s) ==
  [src |-> smt[s], hdr |-> [h \in Headers |-> IF h \in incl[s] THEN hmt[h] ELSE 0],
   aux |-> amt, flags |-> flags, target |-> target, old |-> {}]

-----------------------------------------------------------------------------
\* Reading .deps: which records are outdated, and what that selects.

\* Mutant: an equal modification time counts as outdated.
SrcCurrent_Strict(d, s) ==
  smt[s] < d.src[s] /\ \A h \in d.inc[s] : hmt[h] < d.hdr[s][h]

\* The FILE record of s and the ALIAS records of its headers.
SrcCurrent(d, s) ==
  /\ smt[s] <= d.src[s]
  /\ \A h \in d.inc[s] : hmt[h] <= d.hdr[s][h]

\* Mutant: the records of module interfaces carry the flag 's' as well.
FilesOutdated_IfacesSelective(d) ==
  (\E a \in Consumes : amt[a] > d.aux[a]) \/ (\E i \in d.bmi : bmi[i] # "recorded")

\* Outdated records that do not carry the flag 's'.
FilesOutdated(d) ==
  \/ \E a \in Consumes : amt[a] > d.aux[a]
  \/ \E i \in Ifaces : ~SrcCurrent(d, i)
  \/ \E i \in d.bmi : bmi[i] # "recorded"

\* Mutant: the AUTARK_TARGET record is not compared.
SettingsOutdated_NoTarget(d) == d.flags # flags

SettingsOutdated(d) ==
  \/ d.flags # flags
  \/ d.target # Native /\ d.target # target

GroupOutdated(d) == FilesOutdated(d) \/ SettingsOutdated(d)

SourcesOutdated(d) == {s \in Sources : ~SrcCurrent(d, s)}

\* No AUTARK_TARGET record was seen and the build has a toolchain.
TargetChanged(d) == target # Native /\ d.target = Native

UpToDate ==
  \E d \in deps : /\ ~GroupOutdated(d)
                  /\ SourcesOutdated(d) = {}
                  /\ ~TargetChanged(d)

-----------------------------------------------------------------------------
NewDeps == [aux |-> amt, flags |-> flags, target |-> Native,
            src |-> [s \in Sources |-> 0], inc |-> [s \in Sources |-> {}],
            hdr |-> [s \in Sources |-> [h \in Headers |-> 0]], bmi |-> {}]

NoTask == [s \in Sources |-> "none"]
NoImg  == [s \in Sources |-> {}]

Init ==
  /\ clock = 1
  /\ smt = [s \in Sources |-> 1]
  /\ hmt = [h \in Headers |-> 1]
  /\ amt = [a \in Consumes |-> 1]
  /\ incl \in [Sources -> SUBSET Headers]
  /\ flags \in Flags
  /\ target \in Targets
  /\ obj = [s \in Sources |-> {}]
  /\ tag = [s \in Sources |-> Native]
  /\ dfile = [s \in Sources |-> {}]
  /\ bmi = [i \in Ifaces |-> "none"]
  /\ deps = {}
  /\ pc = "idle"
  /\ todo = {} /\ pend = {} /\ failed = {}
  /\ task = NoTask /\ img = NoImg
  /\ tmp = {}
  /\ recno = 1
  /\ result = "none"

-----------------------------------------------------------------------------
\* The user, and the environment of the next invocation.

EditSource(s, hs) ==
  /\ clock < MaxClock
  /\ clock' = clock + 1
  /\ smt' = [smt EXCEPT ![s] = clock']
  /\ incl' = [incl EXCEPT ![s] = hs]
  /\ UNCHANGED <<hmt, amt, flags, target>>

EditHeader(h) ==
  /\ clock < MaxClock
  /\ clock' = clock + 1
  /\ hmt' = [hmt EXCEPT ![h] = clock']
  /\ UNCHANGED <<smt, amt, incl, flags, target>>

EditConsumed(a) ==
  /\ clock < MaxClock
  /\ clock' = clock + 1
  /\ amt' = [amt EXCEPT ![a] = clock']
  /\ UNCHANGED <<smt, hmt, incl, flags, target>>

Edit == \/ \E s \in Sources, hs \in SUBSET Headers : EditSource(s, hs)
        \/ \E h \in Headers : EditHeader(h)
        \/ \E a \in Consumes : EditConsumed(a)

UserEdit ==
  /\ pc = "idle"
  /\ Edit
  /\ UNCHANGED <<cache, pc, todo, pend, task, img, failed, tmp, recno, result>>

\* The user saves a file while a build is running.
LiveEdit ==
  /\ pc # "idle"
  /\ Edit
  /\ UNCHANGED <<cache, pc, todo, pend, task, img, failed, tmp, recno, result>>

Reconfigure ==
  /\ pc = "idle"
  /\ flags' \in {f \in Flags : f = flags \/ <<flags, f>> \in Changes}
  /\ target' \in {t \in Targets : t = target \/ <<target, t>> \in Switches}
  /\ UNCHANGED <<clock, smt, hmt, amt, incl, cache,
                 pc, todo, pend, task, img, failed, tmp, recno, result>>

\* What a process leaves behind is in its files.
Quit ==
  /\ pc' = "idle"
  /\ todo' = {} /\ pend' = {} /\ failed' = {}
  /\ task' = NoTask /\ img' = NoImg
  /\ tmp' = {}
  /\ recno' = 1

-----------------------------------------------------------------------------
\* node_resolve: from the start of an invocation to on_resolve.

\* Nothing is outdated: the rule does nothing and its objects are used.
BeginUpToDate ==
  /\ pc = "idle"
  /\ UpToDate
  /\ result' = "ok"
  /\ UNCHANGED <<world, cache, pc, todo, pend, task, img, failed, tmp, recno>>

\* Mutant: a partial build is handed the whole list of sources.
StartWith_WholeList(S) ==
  /\ pc = "idle" /\ pc' = "open" /\ todo' = S /\ pend' = Sources /\ result' = "none"
  /\ UNCHANGED <<world, cache, task, img, failed, tmp, recno>>

StartWith(S) ==
  /\ pc = "idle"
  /\ pc' = "open"
  /\ todo' = S
  /\ pend' = S
  /\ result' = "none"
  /\ UNCHANGED <<world, cache, task, img, failed, tmp, recno>>

\* No record, an outdated record without the flag 's', or only a new target.
BeginAll ==
  /\ \/ deps = {}
     \/ \E d \in deps : GroupOutdated(d)
     \/ \E d \in deps : SourcesOutdated(d) = {} /\ TargetChanged(d)
  /\ StartWith(Sources)

\* Every outdated record names one source.
BeginSome ==
  \E d \in deps : /\ ~GroupOutdated(d)
                  /\ SourcesOutdated(d) # {}
                  /\ StartWith(SourcesOutdated(d))

\* _cc_on_resolve opens .deps.tmp: unit, node value and consumed records.
Open ==
  /\ pc = "open"
  /\ tmp' = {NewDeps}
  /\ pc' = "ifaces"
  /\ UNCHANGED <<world, cache, todo, pend, task, img, failed, recno, result>>

-----------------------------------------------------------------------------
\* _cc_compile_sources, called for the interfaces and then for the others.

Stage == IF pc = "ifaces" THEN pend \cap Ifaces ELSE pend

Limit == IF pc = "ifaces" THEN 1 ELSE MaxJobs
Tasks == {s \in Sources : task[s] # "none"}
CanStart == Stage # {} /\ Cardinality(Tasks) < Limit

Next1(s) == s \in Stage /\ \A t \in Stage : s <= t

Spawn(s) ==
  /\ pc \in {"ifaces", "sources"}
  /\ CanStart /\ Next1(s)
  /\ pend' = pend \ {s}
  /\ task' = [task EXCEPT ![s] = "running"]
  /\ img' = [img EXCEPT ![s] = {ImageNow(s)}]
  /\ UNCHANGED <<world, cache, pc, todo, failed, tmp, recno, result>>

\* spawn_do fails (no process, no pipe): the source counts as failed.
SpawnError(s) ==
  /\ pc \in {"ifaces", "sources"}
  /\ CanStart /\ Next1(s)
  /\ pend' = pend \ {s}
  /\ failed' = failed \cup {s}
  /\ UNCHANGED <<world, cache, pc, todo, task, img, tmp, recno, result>>

\* An importer that has read the BMI of i has read an old one from now on.
Outdate(f, i) ==
  [s \in Sources |->
     IF i \in Imports(s) THEN {[o EXCEPT !.old = @ \cup {i}] : o \in f[s]} ELSE f[s]]

\* The compiler of s exits with 0: object, .d file and BMI are in place.
CompilerOk(s) ==
  /\ task[s] = "running"
  /\ task' = [task EXCEPT ![s] = "exit0"]
  /\ dfile' = [dfile EXCEPT ![s] = {h \in Headers : \E o \in img[s] : o.hdr[h] # 0}]
  /\ LET wobj == [obj EXCEPT ![s] = img[s]]
         wimg == [img EXCEPT ![s] = {}]
     IN IF s \in Ifaces
        THEN /\ bmi' = [bmi EXCEPT ![s] = "new"]
             /\ obj' = Outdate(wobj, s)
             /\ img' = Outdate(wimg, s)
        ELSE /\ obj' = wobj
             /\ img' = wimg
             /\ UNCHANGED bmi
  /\ UNCHANGED <<world, tag, deps, pc, todo, pend, failed, tmp, recno, result>>

\* The compiler of s exits with an error: it leaves its outputs or deletes them.
CompilerFails(s) ==
  /\ task[s] = "running"
  /\ task' = [task EXCEPT ![s] = "exit1"]
  /\ img' = [img EXCEPT ![s] = {}]
  /\ \E del \in BOOLEAN :
       /\ obj' = [obj EXCEPT ![s] = IF del THEN {} ELSE @]
       /\ bmi' = [i \in Ifaces |-> IF i = s /\ del THEN "none" ELSE bmi[i]]
  /\ UNCHANGED <<world, tag, dfile, deps, pc, todo, pend, failed, tmp, recno, result>>

\* Mutant: an object of a native build keeps the tag of a cross build.
Reap_KeepsTag(s) ==
  /\ pc \in {"ifaces", "sources"}
  /\ ~CanStart
  /\ task[s] \in {"exit0", "exit1"}
  /\ task' = [task EXCEPT ![s] = "none"]
  /\ failed' = IF task[s] = "exit0" THEN failed ELSE failed \cup {s}
  /\ tag' = IF task[s] = "exit0" /\ target # Native THEN [tag EXCEPT ![s] = target] ELSE tag
  /\ UNCHANGED <<world, obj, dfile, bmi, deps, pc, todo, pend, img, tmp, recno, result>>

\* Mutant: a compiler that failed stays in the pool.
Reap_OnlySuccess(s) ==
  /\ pc \in {"ifaces", "sources"}
  /\ ~CanStart
  /\ task[s] = "exit0"
  /\ task' = [task EXCEPT ![s] = "none"]
  /\ tag' = [tag EXCEPT ![s] = target]
  /\ UNCHANGED <<world, obj, dfile, bmi, deps, pc, todo, pend, img, failed, tmp, recno, result>>

\* wait() returns a finished compiler, once no further one can be started.
Reap(s) ==
  /\ pc \in {"ifaces", "sources"}
  /\ ~CanStart
  /\ task[s] \in {"exit0", "exit1"}
  /\ task' = [task EXCEPT ![s] = "none"]
  /\ IF task[s] = "exit0"
     THEN tag' = [tag EXCEPT ![s] = target] /\ UNCHANGED failed
     ELSE failed' = failed \cup {s} /\ UNCHANGED tag
  /\ UNCHANGED <<world, obj, dfile, bmi, deps, pc, todo, pend, img, tmp, recno, result>>

StageDone == Stage = {} /\ Tasks = {}

\* Mutant: the importers are compiled although an interface failed.
IfacesDone_GoOn ==
  /\ pc = "ifaces" /\ StageDone
  /\ pc' = "sources"
  /\ UNCHANGED <<world, cache, todo, pend, task, img, failed, tmp, recno, result>>

\* All interfaces are compiled.  If one failed the other sources are skipped.
IfacesDone ==
  /\ pc = "ifaces" /\ StageDone
  /\ pc' = IF failed = {} THEN "sources" ELSE "record"
  /\ UNCHANGED <<world, cache, todo, pend, task, img, failed, tmp, recno, result>>

SourcesDone ==
  /\ pc = "sources" /\ StageDone
  /\ pc' = "record"
  /\ UNCHANGED <<world, cache, todo, pend, task, img, failed, tmp, recno, result>>

-----------------------------------------------------------------------------
\* Recording every source, in declaration order, compiled now or not.

\* Mutant: a failed source is recorded like any other.
Recorded_Failed(d, s) ==
  [d EXCEPT !.src[s] = smt[s], !.inc[s] = dfile[s], !.hdr[s] = hmt]

\* Mutant: the headers of sources left out of the build are not recorded again.
Recorded_OnlyCompiled(d, s) ==
  IF s \in failed
  THEN [d EXCEPT !.src[s] = 0]
  ELSE [d EXCEPT !.src[s] = smt[s], !.inc[s] = IF s \in todo THEN dfile[s] ELSE {},
                 !.hdr[s] = hmt]

Recorded(d, s) ==
  IF s \in failed
  THEN [d EXCEPT !.src[s] = 0]
  ELSE [d EXCEPT !.src[s] = smt[s], !.inc[s] = dfile[s], !.hdr[s] = hmt]

Record ==
  /\ pc = "record" /\ recno \in Sources
  /\ tmp' = {Recorded(d, recno) : d \in tmp}
  /\ recno' = recno + 1
  /\ UNCHANGED <<world, cache, pc, todo, pend, task, img, failed, result>>

\* BMI and toolchain records, rename of .deps.tmp, and the end of the rule.
Commit ==
  /\ pc = "record" /\ recno \notin Sources
  /\ LET built == {i \in Ifaces : bmi[i] # "none"} IN
       /\ deps' = {[d EXCEPT !.bmi = built, !.target = target] : d \in tmp}
       /\ bmi' = [i \in Ifaces |-> IF i \in built THEN "recorded" ELSE "none"]
  /\ result' = IF failed = {} THEN "ok" ELSE "fail"
  /\ Quit
  /\ UNCHANGED <<world, obj, tag, dfile>>

\* The build and its compilers are killed, some of which delete their outputs.
\* A .deps.tmp left behind is unlinked by the next invocation.
Crash ==
  /\ pc # "idle"
  /\ result' = "killed"
  /\ \E gone \in SUBSET {s \in Sources : task[s] = "running"} :
       /\ obj' = [s \in Sources |-> IF s \in gone THEN {} ELSE obj[s]]
       /\ bmi' = [i \in Ifaces |-> IF i \in gone THEN "none" ELSE bmi[i]]
  /\ Quit
  /\ UNCHANGED <<world, tag, dfile, deps>>

-----------------------------------------------------------------------------
Begin == BeginUpToDate \/ BeginAll \/ BeginSome

Autark == \/ Open \/ IfacesDone \/ SourcesDone \/ Record \/ Commit
          \/ \E s \in Sources : Spawn(s) \/ SpawnError(s) \/ Reap(s)

Compiler(s) == CompilerOk(s) \/ CompilerFails(s)

Build == Begin \/ Autark \/ \E s \in Sources : Compiler(s)

SteadyNext == Build \/ UserEdit \/ Reconfigure
Next       == SteadyNext \/ Crash
LiveNext   == SteadyNext \/ LiveEdit

\* Files change between builds, and a build may be killed at any point.
Spec == Init /\ [][Next]_vars
\* Files may also change while a build runs, and builds run to their end.
LiveSpec == Init /\ [][LiveNext]_vars

\* A started build is scheduled and a compiler terminates.
Fairness == WF_vars(Autark) /\ \A s \in Sources : WF_vars(Compiler(s))
FairSpec == Spec /\ Fairness

\* The build is started over and over; from some time on no build is killed,
\* and every compiler can be started and succeeds (the user has corrected the
\* sources).
Persistence ==
  /\ WF_vars(Begin)
  /\ <>[][~Crash /\ \A s \in Sources : ~SpawnError(s) /\ ~CompilerFails(s)]_vars
RetrySpec == FairSpec /\ Persistence

-----------------------------------------------------------------------------
\* The type invariant of the rule's files and of the resolver's state.
TypeOK ==
  /\ clock \in 1 .. MaxClock + 1
  /\ smt \in [Sources -> Nat \ {0}]
  /\ hmt \in [Headers -> Nat \ {0}]
  /\ amt \in [Consumes -> Nat \ {0}]
  /\ incl \in [Sources -> SUBSET Headers]
  /\ flags \in Flags
  /\ target \in Targets
  /\ obj \in [Sources -> SUBSET Image]
  /\ tag \in [Sources -> Targets \cup {Native}]
  /\ dfile \in [Sources -> SUBSET Headers]
  /\ bmi \in [Ifaces -> {"none", "recorded", "new"}]
  /\ deps \in SUBSET DepsRec
  /\ pc \in {"idle", "open", "ifaces", "sources", "record"}
  /\ todo \in SUBSET Sources
  /\ pend \in SUBSET todo
  /\ task \in [Sources -> {"none", "running", "exit0", "exit1"}]
  /\ img \in [Sources -> SUBSET Image]
  /\ failed \in SUBSET Sources
  /\ tmp \in SUBSET DepsRec
  /\ recno \in 1 .. N + 1
  /\ result \in {"none", "ok", "fail", "killed"}

\* An object was compiled from the present text of its source, of the headers
\* it includes, of the consumed files and from the BMIs now on disk.
ContentCurrent(s, o) ==
  /\ o.src = smt[s]
  /\ \A h \in Headers : o.hdr[h] = IF h \in incl[s] THEN hmt[h] ELSE 0
  /\ o.aux = amt
  /\ o.old = {}

SettingsCurrent(o) == o.flags = flags /\ o.target = target

\* The resolver trusts the object of s: no record makes it recompile s.
Vouched(d, s) == ~GroupOutdated(d) /\ ~TargetChanged(d) /\ SrcCurrent(d, s)

\* Whatever builds failed or were killed before, .deps never vouches for an
\* object compiled from other contents: a source left out by _cc_sources_split
\* has an object that is up to date with its source, headers, consumed files
\* and module interfaces.
ContentFresh ==
  \A d \in deps, s \in Sources :
    ~FilesOutdated(d) /\ SrcCurrent(d, s) => \A o \in obj[s] : ContentCurrent(s, o)

\* The node values and the toolchain are shared by all sources and recorded
\* once: a trusted object exists and was compiled with the recorded flags by
\* the toolchain of this build, although a build may recompile only some.
SettingsFresh ==
  \A d \in deps, s \in Sources :
    Vouched(d, s) => obj[s] # {} /\ \A o \in obj[s] : SettingsCurrent(o)

\* Switching the toolchain rebuilds every artifact of the rule
\* (node_resolve_toolchain_deps): a trusted object is of this build's target.
TargetFresh ==
  \A d \in deps, s \in Sources : Vouched(d, s) => \A o \in obj[s] : o.target = target

\* A build that failed is never followed by one that finds nothing to do,
\* whatever is edited or reconfigured in between (DEPS_TYPE_FILE_OUTDATED).
FailedStaysOutdated == result = "fail" => ~UpToDate

\* An interface is compiled alone, and other sources only after every
\* selected interface succeeded; the pool never exceeds its size.
InterfacesAlone ==
  /\ Cardinality(Tasks) <= MaxJobs
  /\ \A i \in Ifaces : i \in Tasks => Tasks = {i}
  /\ (\E s \in Tasks : s \notin Ifaces) =>
       Ifaces \cap (pend \cup failed) = {}

\* After a build that went through, the tag a link rule will check names the
\* toolchain of the object, although a kill may have come between the two.
TagTruth == result = "ok" => \A s \in Sources : \A o \in obj[s] : tag[s] = o.target

\* A successful build leaves nothing outdated: started again, it does nothing.
NothingToDoAfterOk ==
  [][pc = "record" /\ pc' = "idle" /\ result' = "ok" => UpToDate']_vars

\* Every started build ends: no state of the compiler pool is stuck.
Terminates == pc # "idle" ~> pc = "idle"

\* Once the edits stop, a build that is repeated until its compilers succeed
\* reaches objects that are all current, and stays there.
EventuallyBuilt ==
  <>[](\A s \in Sources :
         obj[s] # {} /\ \A o \in obj[s] : ContentCurrent(s, o) /\ SettingsCurrent(o))

-----------------------------------------------------------------------------
\* What the rule promises to the rest of the build.
Stale == {s \in Sources :
            ~ \E o \in obj[s] : ContentCurrent(s, o) /\ SettingsCurrent(o)}

Promise == INSTANCE Rebuild WITH
             Items   <- Sources,
             stale   <- Stale,
             phase   <- IF pc = "idle" THEN "idle" ELSE "building",
             outcome <- result

\* The rule implements the promise: it reports success only when every
\* object is current, by the step that ends the build or finds it up to date.
KeepsPromise == Promise!Spec
=============================================================================
