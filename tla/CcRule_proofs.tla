--------------------------- MODULE CcRule_proofs ---------------------------
(***************************************************************************)
(* Theorems about the compilation rule, for every number of sources,       *)
(* every include relation, every pool size and every sequence of edits,    *)
(* failures and killed builds.                                             *)
(***************************************************************************)
EXTENDS CcRuleInv, FiniteSetTheorems, TLAPS

AnyNext == Next \/ LiveEdit

-----------------------------------------------------------------------------
\* Types of the values the actions build.

LEMMA NewDepsType == TypeOK => NewDeps \in DepsRec
  BY NAssumption DEF TypeOK, NewDeps, DepsRec, Sources

LEMMA ImageNowType == ASSUME TypeOK, NEW s \in Sources
                      PROVE  ImageNow(s) \in Image
  BY DEF TypeOK, ImageNow, Image

LEMMA RecordedType == ASSUME TypeOK, NEW d \in DepsRec, NEW s \in Sources
                      PROVE  Recorded(d, s) \in DepsRec
  <1>1. smt[s] \in Nat /\ dfile[s] \in SUBSET Headers /\ hmt \in [Headers -> Nat]
    BY DEF TypeOK
  <1>2. d.src \in [Sources -> Nat] /\ d.inc \in [Sources -> SUBSET Headers]
        /\ d.hdr \in [Sources -> [Headers -> Nat]]
    BY DEF DepsRec
  <1>3. CASE s \in failed
    BY <1>2, <1>3 DEF Recorded, DepsRec
  <1>4. CASE s \notin failed
    BY <1>1, <1>2, <1>4 DEF Recorded, DepsRec
  <1>5. QED
    BY <1>3, <1>4

LEMMA OutdateType == ASSUME NEW f \in [Sources -> SUBSET Image], NEW i \in Ifaces
                     PROVE  Outdate(f, i) \in [Sources -> SUBSET Image]
  <1>1. SUFFICES ASSUME NEW s \in Sources, NEW o \in f[s]
                 PROVE  [o EXCEPT !.old = @ \cup {i}] \in Image
    BY DEF Outdate
  <1>2. o \in Image
    OBVIOUS
  <1>3. QED
    BY <1>2 DEF Image

-----------------------------------------------------------------------------
(***************************************************************************)
(* Type correctness.  It holds with live edits too.                        *)
(***************************************************************************)

LEMMA QuitType == ASSUME TypeOK, Quit
                  PROVE  /\ pc' = "idle" /\ todo' \in SUBSET Sources
                         /\ pend' \in SUBSET todo' /\ failed' \in SUBSET Sources
                         /\ task' \in [Sources -> {"none", "running", "exit0", "exit1"}]
                         /\ img' \in [Sources -> SUBSET Image]
                         /\ tmp' \in SUBSET DepsRec /\ recno' \in 1 .. N + 1
  BY NAssumption DEF Quit, NoTask, NoImg

LEMMA EditType == ASSUME TypeOK, Edit
                  PROVE  /\ clock' \in 1 .. MaxClock + 1
                         /\ smt' \in [Sources -> Nat \ {0}]
                         /\ hmt' \in [Headers -> Nat \ {0}]
                         /\ amt' \in [Consumes -> Nat \ {0}]
                         /\ incl' \in [Sources -> SUBSET Headers]
                         /\ flags' = flags /\ target' = target
  BY ClockAssumption DEF TypeOK, Edit, EditSource, EditHeader, EditConsumed

LEMMA InitType == Init => TypeOK
  BY NAssumption, ClockAssumption, SettingsAssumption
  DEF Init, TypeOK, NoTask, NoImg

LEMMA NextType == TypeOK /\ [AnyNext]_vars => TypeOK'
  <1> SUFFICES ASSUME TypeOK, [AnyNext]_vars PROVE TypeOK'
    OBVIOUS
  <1>1. CASE UserEdit \/ LiveEdit
    <2>1. Edit /\ UNCHANGED <<cache, pc, todo, pend, task, img, failed, tmp, recno, result>>
      BY <1>1 DEF UserEdit, LiveEdit
    <2>2. QED
      BY <2>1, EditType DEF TypeOK, cache
  <1>2. CASE Reconfigure
    BY <1>2 DEF TypeOK, Reconfigure, cache
  <1>3. CASE Begin
    <2>1. \A S : StartWith(S) /\ S \subseteq Sources => TypeOK'
      BY DEF TypeOK, StartWith, world, cache
    <2>2. CASE BeginUpToDate
      BY <2>2 DEF TypeOK, BeginUpToDate, world, cache
    <2>3. CASE BeginAll
      BY <2>1, <2>3 DEF BeginAll
    <2>4. CASE BeginSome
      BY <2>1, <2>4 DEF BeginSome, SourcesOutdated
    <2>5. QED
      BY <1>3, <2>2, <2>3, <2>4 DEF Begin
  <1>4. CASE Open
    BY <1>4, NewDepsType DEF TypeOK, Open, world, cache
  <1>5. ASSUME NEW s \in Sources, Spawn(s) PROVE TypeOK'
    BY <1>5, ImageNowType DEF TypeOK, Spawn, world, cache
  <1>6. ASSUME NEW s \in Sources, SpawnError(s) PROVE TypeOK'
    BY <1>6 DEF TypeOK, SpawnError, world, cache
  <1>7. ASSUME NEW s \in Sources, Reap(s) PROVE TypeOK'
    BY <1>7 DEF TypeOK, Reap, world, cache
  <1>8. ASSUME NEW s \in Sources, CompilerOk(s) PROVE TypeOK'
    <2>1. /\ [obj EXCEPT ![s] = img[s]] \in [Sources -> SUBSET Image]
          /\ [img EXCEPT ![s] = {}] \in [Sources -> SUBSET Image]
      BY DEF TypeOK
    <2>2. /\ obj' \in [Sources -> SUBSET Image]
          /\ img' \in [Sources -> SUBSET Image]
          /\ bmi' \in [Ifaces -> {"none", "recorded", "new"}]
      <3>1. CASE s \in Ifaces
        <4>1. /\ obj' = Outdate([obj EXCEPT ![s] = img[s]], s)
              /\ img' = Outdate([img EXCEPT ![s] = {}], s)
              /\ bmi' = [bmi EXCEPT ![s] = "new"]
          BY <1>8, <3>1 DEF CompilerOk
        <4>2. /\ Outdate([obj EXCEPT ![s] = img[s]], s) \in [Sources -> SUBSET Image]
              /\ Outdate([img EXCEPT ![s] = {}], s) \in [Sources -> SUBSET Image]
          BY <2>1, <3>1, OutdateType
        <4>3. QED
          BY <4>1, <4>2 DEF TypeOK
      <3>2. CASE s \notin Ifaces
        BY <1>8, <2>1, <3>2 DEF CompilerOk, TypeOK
      <3>3. QED
        BY <3>1, <3>2
    <2>3. /\ task' \in [Sources -> {"none", "running", "exit0", "exit1"}]
          /\ dfile' \in [Sources -> SUBSET Headers]
      <3>1. {h \in Headers : \E o \in img[s] : o.hdr[h] # 0} \in SUBSET Headers
        OBVIOUS
      <3>2. task' = [task EXCEPT ![s] = "exit0"]
            /\ dfile' = [dfile EXCEPT ![s] =
                           {h \in Headers : \E o \in img[s] : o.hdr[h] # 0}]
        BY <1>8 DEF CompilerOk
      <3>3. QED
        BY <3>1, <3>2 DEF TypeOK
    <2>4. UNCHANGED <<world, tag, deps, pc, todo, pend, failed, tmp, recno, result>>
      BY <1>8 DEF CompilerOk
    <2>5. QED
      BY <2>2, <2>3, <2>4 DEF TypeOK, world
  <1>9. ASSUME NEW s \in Sources, CompilerFails(s) PROVE TypeOK'
    BY <1>9 DEF TypeOK, CompilerFails, world
  <1>10. CASE IfacesDone \/ SourcesDone
    BY <1>10 DEF TypeOK, IfacesDone, SourcesDone, world, cache
  <1>11. CASE Record
    <2>1. \A d \in tmp : Recorded(d, recno) \in DepsRec
      BY <1>11, RecordedType DEF Record, TypeOK
    <2>2. recno' \in 1 .. N + 1
      BY <1>11, NAssumption DEF Record, TypeOK, Sources
    <2>3. QED
      BY <1>11, <2>1, <2>2 DEF TypeOK, Record, world, cache
  <1>12. CASE Commit
    <2>1. \A d \in DepsRec, B \in SUBSET Ifaces :
            [d EXCEPT !.bmi = B, !.target = target] \in DepsRec
      BY DEF DepsRec, TypeOK
    <2>2. deps' \in SUBSET DepsRec
      <3>1. deps' = {[d EXCEPT !.bmi = {i \in Ifaces : bmi[i] # "none"},
                               !.target = target] : d \in tmp}
        BY <1>12 DEF Commit
      <3>2. tmp \subseteq DepsRec
        BY DEF TypeOK
      <3>3. {i \in Ifaces : bmi[i] # "none"} \in SUBSET Ifaces
        OBVIOUS
      <3>4. \A d \in tmp : [d EXCEPT !.bmi = {i \in Ifaces : bmi[i] # "none"},
                                   !.target = target] \in DepsRec
        BY <2>1, <3>2, <3>3
      <3>5. QED
        BY <3>1, <3>4
    <2>3. bmi' \in [Ifaces -> {"none", "recorded", "new"}]
      BY <1>12 DEF Commit
    <2>4. result' \in {"none", "ok", "fail", "killed"}
      BY <1>12 DEF Commit
    <2>5. Quit /\ UNCHANGED <<world, obj, tag, dfile>>
      BY <1>12 DEF Commit
    <2>6. QED
      BY <2>2, <2>3, <2>4, <2>5, QuitType DEF TypeOK, world
  <1>13. CASE Crash
    BY <1>13, QuitType DEF TypeOK, Crash, world
  <1>14. CASE UNCHANGED vars
    BY <1>14 DEF TypeOK, vars
  <1>15. QED
    BY <1>1, <1>2, <1>3, <1>4, <1>5, <1>6, <1>7, <1>8, <1>9, <1>10, <1>11, <1>12,
       <1>13, <1>14
    DEF AnyNext, Next, SteadyNext, Build, Autark, Compiler

\* Every state of a behaviour with edits, failures and killed builds has the
\* types of TypeOK.
THEOREM TypeCorrect == Spec => []TypeOK
  <1>1. TypeOK /\ [Next]_vars => TypeOK'
    BY NextType DEF AnyNext
  <1>2. QED
    BY InitType, <1>1, PTL DEF Spec

\* ... and of a behaviour with edits while a build runs.
THEOREM TypeCorrectLive == LiveSpec => []TypeOK
  <1>1. TypeOK /\ [LiveNext]_vars => TypeOK'
    BY NextType DEF AnyNext, Next, LiveNext
  <1>2. QED
    BY InitType, <1>1, PTL DEF LiveSpec

-----------------------------------------------------------------------------
(***************************************************************************)
(* A failed build is repeated, whatever happens in between.                *)
(***************************************************************************)

LEMMA RetryStep == TypeOK /\ RetryInv /\ [AnyNext]_vars => RetryInv'
  <1> SUFFICES ASSUME TypeOK, RetryInv, [AnyNext]_vars PROVE RetryInv'
    OBVIOUS
  <1>0. /\ failed \subseteq Sources /\ tmp \subseteq DepsRec
        /\ recno \in Nat /\ 1 <= recno /\ recno <= N + 1
        /\ smt \in [Sources -> Nat]
    BY NAssumption DEF TypeOK
  <1>1. CASE UserEdit \/ LiveEdit
    BY <1>1 DEF UserEdit, LiveEdit, cache, RetryInv
  <1>2. CASE Reconfigure
    BY <1>2 DEF Reconfigure, cache, RetryInv
  <1>3. CASE Begin
    BY <1>3 DEF Begin, BeginUpToDate, BeginAll, BeginSome, StartWith, world, cache, RetryInv
  <1>4. CASE Open
    BY <1>4 DEF Open, world, cache, RetryInv
  <1>5. ASSUME NEW s \in Sources, Spawn(s) \/ SpawnError(s) \/ Reap(s)
        PROVE  RetryInv'
    BY <1>5 DEF Spawn, SpawnError, Reap, world, cache, RetryInv
  <1>6. ASSUME NEW s \in Sources, Compiler(s) PROVE RetryInv'
    BY <1>6 DEF Compiler, CompilerOk, CompilerFails, world, RetryInv
  <1>7. CASE IfacesDone \/ SourcesDone
    <2>1. /\ recno = 1 /\ pc # "idle" /\ result' = result /\ pc' \in {"sources", "record"}
          /\ UNCHANGED <<tmp, failed, recno, deps>>
      BY <1>7 DEF IfacesDone, SourcesDone, RetryInv, cache
    <2>2. \A s \in failed : ~(s < 1)
      BY <1>0, NAssumption DEF Sources
    <2>3. QED
      BY <2>1, <2>2 DEF RetryInv
  <1>8. CASE Record
    <2>1. /\ recno \in Sources /\ pc = "record" /\ pc' = "record" /\ recno' = recno + 1
          /\ tmp' = {Recorded(d, recno) : d \in tmp}
          /\ UNCHANGED <<failed, result, deps>>
      BY <1>8 DEF Record, cache
    <2>2. ASSUME NEW d \in tmp, NEW s \in failed, s < recno + 1
          PROVE  Recorded(d, recno).src[s] = 0
      <3>1. d \in DepsRec /\ s \in Sources
        BY <1>0
      <3>2. CASE s = recno
        BY <3>1, <3>2 DEF Recorded, DepsRec
      <3>3. CASE s # recno
        <4>1. Recorded(d, recno).src[s] = d.src[s]
          BY <3>1, <3>3 DEF Recorded, DepsRec
        <4>2. s < recno
          BY <3>1, <3>3, <2>2, <2>1, NAssumption DEF Sources
        <4>3. QED
          BY <4>1, <4>2, <2>1 DEF RetryInv
      <3>4. QED
        BY <3>2, <3>3
    <2>3. QED
      BY <2>1, <2>2 DEF RetryInv
  <1>9. CASE Commit
    <2>1. /\ pc = "record" /\ recno \notin Sources
          /\ deps' = {[d EXCEPT !.bmi = {i \in Ifaces : bmi[i] # "none"},
                                !.target = target] : d \in tmp}
          /\ result' = IF failed = {} THEN "ok" ELSE "fail"
          /\ pc' = "idle" /\ tmp' = {} /\ failed' = {} /\ recno' = 1
      BY <1>9 DEF Commit, Quit
    <2>2. \A s \in failed : s < recno /\ s \in Sources
      <3>1. recno \notin Sources
        BY <2>1
      <3>2. recno = N + 1
        BY <1>0, <3>1, NAssumption DEF Sources
      <3>3. QED
        BY <1>0, <3>2, NAssumption DEF Sources
    <2>3. ASSUME result' = "fail", NEW d \in tmp
          PROVE  \E s \in Sources : d.src[s] = 0
      BY <2>1, <2>2, <2>3 DEF RetryInv
    <2>4. ASSUME result' = "fail", NEW e \in deps'
          PROVE  \E s \in Sources : e.src[s] = 0
      <3>1. PICK d \in tmp : e = [d EXCEPT !.bmi = {i \in Ifaces : bmi[i] # "none"},
                                         !.target = target]
        BY <2>1
      <3>2. d \in DepsRec
        BY <1>0
      <3>3. e.src = d.src
        BY <3>1, <3>2 DEF DepsRec
      <3>4. QED
        BY <2>3, <2>4, <3>3
    <2>5. QED
      BY <2>1, <2>4 DEF RetryInv
  <1>10. CASE Crash
    BY <1>10 DEF Crash, Quit, RetryInv
  <1>11. CASE UNCHANGED vars
    BY <1>11 DEF vars, RetryInv
  <1>12. QED
    BY <1>1, <1>2, <1>3, <1>4, <1>5, <1>6, <1>7, <1>8, <1>9, <1>10, <1>11
    DEF AnyNext, Next, SteadyNext, Build, Autark

LEMMA RetryInit == Init => RetryInv
  BY DEF Init, RetryInv

LEMMA RetryImplies == TypeOK /\ RetryInv => FailedStaysOutdated
  BY DEF TypeOK, RetryInv, FailedStaysOutdated, UpToDate, SourcesOutdated, SrcCurrent

\* After a failed build the next one has something to do, for every sequence
\* of edits, reconfigurations and killed builds.
THEOREM FailedRetried == Spec => []FailedStaysOutdated
  <1>1. RetryInv /\ TypeOK /\ [Next]_vars => RetryInv'
    BY RetryStep DEF AnyNext
  <1>2. QED
    BY TypeCorrect, RetryInit, <1>1, RetryImplies, PTL DEF Spec

\* ... and also when files change while a build runs.
THEOREM FailedRetriedLive == LiveSpec => []FailedStaysOutdated
  <1>1. RetryInv /\ TypeOK /\ [LiveNext]_vars => RetryInv'
    BY RetryStep DEF AnyNext, Next, LiveNext
  <1>2. QED
    BY TypeCorrectLive, RetryInit, <1>1, RetryImplies, PTL DEF LiveSpec

-----------------------------------------------------------------------------
(***************************************************************************)
(* ContentFresh.  What an action leaves unchanged keeps the parts of the   *)
(* invariant that speak of nothing else.                                   *)
(***************************************************************************)

files == <<smt, hmt, amt, incl, obj, dfile, bmi, deps>>

LEMMA FilesFrame ==
  ASSUME DepsInv, UNCHANGED files
  PROVE  /\ DepsInv'
         /\ \A d : FilesOutdated(d)' <=> FilesOutdated(d)
         /\ \A d, s : SrcCurrent(d, s)' <=> SrcCurrent(d, s)
         /\ \A s : Good(s)' <=> Good(s)
         /\ \A s, o : ContentCurrent(s, o)' <=> ContentCurrent(s, o)
  BY DEF DepsInv, files, FilesOutdated, SrcCurrent, Good, ContentCurrent

LEMMA ClockFrame ==
  ASSUME ClockInv, UNCHANGED <<clock, smt, hmt, amt, deps>>, tmp' \subseteq tmp
  PROVE  ClockInv'
  BY DEF ClockInv

LEMMA TodoFrame ==
  ASSUME DepsInv, TodoInv, pc # "idle", UNCHANGED files, UNCHANGED todo
  PROVE  TodoInv'
  <1>1. UNCHANGED deps
    BY DEF files
  <1>2. QED
    BY <1>1, FilesFrame DEF TodoInv

LEMMA NoTasks == task = NoTask => Tasks = {}
  BY DEF NoTask, Tasks

\* A process that has ended, or never started, satisfies the parts about it.
LEMMA Idle ==
  ASSUME TypeOK, Quit
  PROVE  IdleInv' /\ TodoInv' /\ StageInv' /\ WorkInv' /\ TmpInv'
  <1>1. /\ pc' = "idle" /\ todo' = {} /\ pend' = {} /\ failed' = {}
        /\ task' = NoTask /\ img' = NoImg' /\ tmp' = {} /\ recno' = 1
    BY DEF Quit, NoImg
  <1>2. Tasks' = {} /\ \A s \in Sources : task'[s] = "none"
    BY <1>1 DEF Tasks, NoTask
  <1>3. IdleInv' /\ TodoInv' /\ TmpInv'
    BY <1>1 DEF IdleInv, TodoInv, TmpInv, NoTask
  <1>4. StageInv'
    BY <1>1, <1>2 DEF StageInv
  <1>5. WorkInv'
    BY <1>1, <1>2 DEF WorkInv, Finished
  <1>6. QED
    BY <1>3, <1>4, <1>5

LEMMA ContentInit == Init => IInv
  <1> SUFFICES ASSUME Init PROVE IInv
    OBVIOUS
  <1>1. TypeOK
    BY InitType
  <1>2. ClockInv /\ DepsInv /\ IdleInv /\ TodoInv /\ TmpInv
    BY DEF Init, ClockInv, DepsInv, IdleInv, TodoInv, TmpInv
  <1>3. Tasks = {} /\ \A s \in Sources : task[s] = "none"
    BY DEF Init, NoTask, Tasks
  <1>4. StageInv
    BY <1>3 DEF Init, StageInv
  <1>5. WorkInv
    BY <1>3 DEF Init, WorkInv, Finished
  <1>6. QED
    BY <1>1, <1>2, <1>4, <1>5 DEF IInv

-----------------------------------------------------------------------------
\* Between two builds.

LEMMA ContentUserEdit == IInv /\ UserEdit => ClockInv' /\ DepsInv'
  <1> SUFFICES ASSUME IInv, UserEdit PROVE ClockInv' /\ DepsInv'
    OBVIOUS
  <1> USE DEF IInv
  <1>1. /\ clock \in Nat /\ clock' = clock + 1
        /\ smt \in [Sources -> Nat] /\ hmt \in [Headers -> Nat] /\ amt \in [Consumes -> Nat]
        /\ deps \subseteq DepsRec /\ tmp = {} /\ tmp' = {}
        /\ UNCHANGED <<obj, dfile, bmi, deps>>
    BY DEF UserEdit, TypeOK, Edit, EditSource, EditHeader, EditConsumed, IdleInv, cache
  <1>2. /\ \A s \in Sources : smt'[s] = smt[s] \/ smt'[s] = clock + 1
        /\ \A h \in Headers : hmt'[h] = hmt[h] \/ hmt'[h] = clock + 1
        /\ \A a \in Consumes : amt'[a] = amt[a] \/ amt'[a] = clock + 1
    BY <1>1 DEF UserEdit, TypeOK, Edit, EditSource, EditHeader, EditConsumed
  <1>3. /\ \A s \in Sources : smt'[s] = smt[s] => incl'[s] = incl[s]
        /\ smt' \in [Sources -> Nat] /\ hmt' \in [Headers -> Nat] /\ amt' \in [Consumes -> Nat]
    BY <1>1 DEF UserEdit, TypeOK, Edit, EditSource, EditHeader, EditConsumed, ClockInv
  <1>4. ClockInv'
    BY <1>1, <1>2 DEF ClockInv, DepsRec
  <1>5. ASSUME NEW d \in deps, NEW s \in Sources, SrcCurrent(d, s)'
        PROVE  /\ SrcCurrent(d, s) /\ smt'[s] = smt[s] /\ incl'[s] = incl[s]
               /\ \A h \in d.inc[s] : hmt'[h] = hmt[h]
    <2>1. d.src[s] \in Nat /\ d.src[s] <= clock /\ d.inc[s] \subseteq Headers
          /\ \A h \in Headers : d.hdr[s][h] \in Nat /\ d.hdr[s][h] <= clock
      BY <1>1 DEF ClockInv, DepsRec
    <2>2. smt'[s] <= d.src[s] /\ \A h \in d.inc[s] : hmt'[h] <= d.hdr[s][h]
      BY <1>5 DEF SrcCurrent
    <2>3. smt'[s] = smt[s] /\ incl'[s] = incl[s]
      BY <1>1, <1>2, <1>3, <2>1, <2>2
    <2>4. \A h \in d.inc[s] : hmt'[h] = hmt[h]
      BY <1>1, <1>2, <2>1, <2>2
    <2>5. QED
      BY <2>2, <2>3, <2>4 DEF SrcCurrent
  <1>6. ASSUME NEW d \in deps, ~FilesOutdated(d)'
        PROVE  ~FilesOutdated(d) /\ amt' = amt
    <2>1. \A a \in Consumes : d.aux[a] \in Nat /\ d.aux[a] <= clock /\ ~(amt'[a] > d.aux[a])
      BY <1>1, <1>6 DEF ClockInv, DepsRec, FilesOutdated
    <2>2. \A a \in Consumes : amt'[a] = amt[a]
      BY <1>1, <1>2, <2>1
    <2>3. \A i \in Ifaces : SrcCurrent(d, i)
      BY <1>5, <1>6, NAssumption DEF FilesOutdated
    <2>4. amt' = amt
      BY <1>1, <1>3, <2>2
    <2>5. QED
      BY <1>1, <1>6, <2>3, <2>4 DEF FilesOutdated
  <1>7. ASSUME NEW d \in deps, NEW s \in Sources, ~FilesOutdated(d)', SrcCurrent(d, s)'
        PROVE  Good(s)' /\ d.inc[s] = incl'[s]
    <2>1. ~FilesOutdated(d) /\ amt' = amt
      BY <1>6, <1>7
    <2>2. /\ SrcCurrent(d, s) /\ smt'[s] = smt[s] /\ incl'[s] = incl[s]
          /\ \A h \in d.inc[s] : hmt'[h] = hmt[h]
      BY <1>5, <1>7
    <2>3. Good(s) /\ d.inc[s] = incl[s]
      BY <2>1, <2>2 DEF DepsInv
    <2>4. QED
      BY <1>1, <2>1, <2>2, <2>3 DEF Good, ContentCurrent
  <1>8. DepsInv'
    BY <1>1, <1>6, <1>7 DEF DepsInv
  <1>9. QED
    BY <1>4, <1>8

-----------------------------------------------------------------------------
\* The start of a build.

LEMMA ContentStart ==
  ASSUME IInv, NEW S \in SUBSET Sources, StartWith(S),
         \A s \in Sources \ S : \E d \in deps : ~FilesOutdated(d) /\ SrcCurrent(d, s),
         S = Sources \/ Ifaces \cap S = {}
  PROVE  /\ ClockInv' /\ DepsInv' /\ IdleInv' /\ TodoInv'
         /\ StageInv' /\ WorkInv' /\ TmpInv'
  <1> USE DEF IInv
  <1>1. /\ pc = "idle" /\ pc' = "open" /\ todo' = S /\ pend' = S
        /\ failed = {} /\ tmp = {} /\ task = NoTask
        /\ UNCHANGED <<clock, failed, tmp, task, img, recno>> /\ UNCHANGED files
    BY DEF StartWith, IdleInv, world, cache, files
  <1>2. Tasks = {} /\ Tasks' = {} /\ \A s \in Sources : task'[s] = "none"
    BY <1>1, NoTasks DEF NoTask, Tasks
  <1>3. ClockInv' /\ DepsInv'
    BY <1>1, FilesFrame, ClockFrame DEF files
  <1>4. IdleInv' /\ TmpInv'
    BY <1>1 DEF IdleInv, TmpInv
  <1>5. TodoInv'
    <2>1. deps' = deps
      BY <1>1 DEF files
    <2>2. QED
      BY <1>1, <2>1, FilesFrame DEF TodoInv
  <1>6. StageInv'
    BY <1>1, <1>2 DEF StageInv
  <1>7. WorkInv'
    BY <1>1, <1>2 DEF WorkInv, Finished
  <1>8. QED
    BY <1>3, <1>4, <1>5, <1>6, <1>7

LEMMA ContentBeginAll == IInv /\ BeginAll => /\ ClockInv' /\ DepsInv' /\ IdleInv' /\ TodoInv'
                                            /\ StageInv' /\ WorkInv' /\ TmpInv'
  BY ContentStart DEF BeginAll

LEMMA ContentBeginSome == IInv /\ BeginSome => /\ ClockInv' /\ DepsInv' /\ IdleInv' /\ TodoInv'
                                              /\ StageInv' /\ WorkInv' /\ TmpInv'
  <1> SUFFICES ASSUME IInv, NEW d \in deps, ~GroupOutdated(d),
                      StartWith(SourcesOutdated(d))
               PROVE  /\ ClockInv' /\ DepsInv' /\ IdleInv' /\ TodoInv'
                      /\ StageInv' /\ WorkInv' /\ TmpInv'
    BY DEF BeginSome
  <1>1. SourcesOutdated(d) \in SUBSET Sources
    BY DEF SourcesOutdated
  <1>2. \A s \in Sources \ SourcesOutdated(d) : ~FilesOutdated(d) /\ SrcCurrent(d, s)
    BY DEF SourcesOutdated, GroupOutdated
  <1>3. Ifaces \cap SourcesOutdated(d) = {}
    BY DEF SourcesOutdated, GroupOutdated, FilesOutdated
  <1>4. QED
    BY <1>1, <1>2, <1>3, ContentStart

LEMMA ContentOpen == IInv /\ Open => /\ ClockInv' /\ DepsInv' /\ IdleInv' /\ TodoInv'
                                    /\ StageInv' /\ WorkInv' /\ TmpInv'
  <1> SUFFICES ASSUME IInv, Open
               PROVE  /\ ClockInv' /\ DepsInv' /\ IdleInv' /\ TodoInv'
                      /\ StageInv' /\ WorkInv' /\ TmpInv'
    OBVIOUS
  <1> USE DEF IInv
  <1>1. /\ pc = "open" /\ pc' = "ifaces" /\ tmp' = {NewDeps}
        /\ UNCHANGED <<clock, todo, pend, task, img, failed, recno>> /\ UNCHANGED files
    BY DEF Open, world, cache, files
  <1>2. DepsInv' /\ TodoInv'
    BY <1>1, FilesFrame, TodoFrame
  <1>3. ClockInv'
    <2>1. /\ clock \in Nat /\ 0 <= clock /\ NewDeps.aux = amt
          /\ \A s \in Sources : NewDeps.src[s] = 0
          /\ \A s \in Sources, h \in Headers : NewDeps.hdr[s][h] = 0
      BY DEF NewDeps, TypeOK
    <2>2. QED
      BY <1>1, <2>1 DEF ClockInv, files
  <1>4. IdleInv'
    BY <1>1 DEF IdleInv
  <1>5. Tasks' = Tasks
    BY <1>1 DEF Tasks
  <1>6. StageInv'
    <2>1. Tasks = {}
      BY <1>1 DEF StageInv, Tasks
    <2>2. QED
      BY <1>1, <1>5, <2>1 DEF StageInv
  <1>7. WorkInv'
    BY <1>1, FilesFrame DEF WorkInv, Finished, files
  <1>8. TmpInv'
    <2>1. NewDeps.aux = amt
      BY DEF NewDeps
    <2>2. QED
      BY <1>1, <2>1 DEF TmpInv, files
  <1>9. QED
    BY <1>2, <1>3, <1>4, <1>6, <1>7, <1>8

-----------------------------------------------------------------------------
\* The compiler pool.

LEMMA FiniteTasks == IsFiniteSet(Tasks) /\ Cardinality(Tasks) \in Nat
  <1>1. Tasks \subseteq Sources /\ IsFiniteSet(Sources)
    BY FS_Interval, NAssumption DEF Tasks, Sources
  <1>2. QED
    BY <1>1, FS_Subset, FS_CardinalityType

LEMMA NoStart == ASSUME TypeOK, pc = "ifaces", CanStart
                 PROVE  Tasks = {}
  <1>1. Cardinality(Tasks) = 0
    BY FiniteTasks DEF CanStart, Limit
  <1>2. QED
    BY <1>1, FiniteTasks, FS_EmptySet

LEMMA ContentSpawn ==
  ASSUME IInv, NEW s \in Sources, Spawn(s)
  PROVE  /\ ClockInv' /\ DepsInv' /\ IdleInv' /\ TodoInv'
         /\ StageInv' /\ WorkInv' /\ TmpInv'
  <1> USE DEF IInv
  <1>1. /\ pc \in {"ifaces", "sources"} /\ CanStart /\ Next1(s)
        /\ pend' = pend \ {s} /\ task' = [task EXCEPT ![s] = "running"]
        /\ img' = [img EXCEPT ![s] = {ImageNow(s)}]
        /\ UNCHANGED <<clock, pc, todo, failed, tmp, recno>> /\ UNCHANGED files
    BY DEF Spawn, world, cache, files
  <1>2. /\ s \in pend /\ s \in todo /\ (pc = "ifaces" => s \in Ifaces)
        /\ pend \subseteq todo
    BY <1>1 DEF Next1, Stage, TypeOK
  <1>3. Tasks' = Tasks \cup {s}
    BY <1>1 DEF Tasks, TypeOK
  <1>4. DepsInv' /\ TodoInv' /\ ClockInv'
    BY <1>1, FilesFrame, TodoFrame, ClockFrame DEF files
  <1>5. IdleInv' /\ TmpInv'
    BY <1>1 DEF IdleInv, TmpInv, files
  <1>6. StageInv'
    <2>1. /\ Tasks' \cap pend' = {} /\ failed' \cap pend' = {} /\ failed' \cap Tasks' = {}
          /\ Tasks' \subseteq todo' /\ failed' \subseteq todo'
      BY <1>1, <1>2, <1>3 DEF StageInv
    <2>2. CASE pc = "ifaces"
      <3>1. Tasks = {}
        BY <1>1, <2>2, NoStart
      <3>2. \A i \in Ifaces \cap pend : s <= i
        BY <1>1, <2>2 DEF Next1, Stage
      <3>3. \A i \in Ifaces \cap pend, j \in Ifaces \cap (todo \ pend) : j < i
        BY <2>2 DEF StageInv
      <3>4. todo \ Ifaces \subseteq pend
        BY <2>2 DEF StageInv
      <3>5. \A i \in Ifaces \cap pend : i \in Nat
        BY NAssumption DEF Sources
      <3>6. \A i \in Ifaces \cap pend', j \in Ifaces \cap (todo' \ pend') : j < i
        <4>1. SUFFICES ASSUME NEW i \in Ifaces \cap pend, i # s,
                              NEW j \in Ifaces, j \in todo \ pend \/ j = s
                       PROVE  j < i
          BY <1>1
        <4>2. CASE j = s
          BY <4>1, <4>2, <3>2, <3>5, <1>2, <2>2
        <4>3. CASE j \in todo \ pend
          BY <4>3, <3>3
        <4>4. QED
          BY <4>1, <4>2, <4>3
      <3>7. \A i \in Tasks', j \in Ifaces \cap (todo' \ pend') : j <= i
        <4>1. SUFFICES ASSUME NEW j \in Ifaces, j \in todo \ pend \/ j = s
                       PROVE  j <= s
          BY <1>1, <1>3, <3>1
        <4>2. s \in Ifaces \cap pend /\ s \in Nat /\ j \in Nat
          BY <1>2, <2>2, NAssumption DEF Sources
        <4>3. QED
          BY <4>1, <4>2, <3>3
      <3>8. QED
        BY <1>1, <1>2, <1>3, <2>1, <2>2, <3>1, <3>4, <3>6, <3>7 DEF StageInv
    <2>3. CASE pc = "sources"
      BY <1>1, <1>2, <1>3, <2>1, <2>3 DEF StageInv
    <2>4. QED
      BY <1>1, <2>2, <2>3
  <1>7. WorkInv'
    <2>1. ContentCurrent(s, ImageNow(s))
      BY DEF ContentCurrent, ImageNow
    <2>2. \A o \in img'[s] : ContentCurrent(s, o)'
      BY <1>1, <2>1, FilesFrame DEF TypeOK
    <2>3. img'[s] # {}
      BY <1>1 DEF TypeOK
    <2>4. ASSUME NEW t \in Sources, t # s
          PROVE  /\ Finished(t)' => Finished(t)
                 /\ task'[t] = task[t] /\ img'[t] = img[t]
      BY <1>1, <2>4 DEF Finished, TypeOK
    <2>5. task'[s] = "running" /\ bmi' = bmi
      BY <1>1 DEF TypeOK, files
    <2>6. ~Finished(s)'
      BY <2>5 DEF Finished
    <2>7. ASSUME NEW t \in Sources
          PROVE  /\ Finished(t)' => Good(t)' /\ (t \in Ifaces => bmi'[t] # "none")
                 /\ task'[t] = "running" => /\ img'[t] # {}
                                            /\ \A o \in img'[t] : ContentCurrent(t, o)'
      BY <1>1, <2>2, <2>3, <2>4, <2>5, <2>6, FilesFrame DEF WorkInv
    <2>8. QED
      BY <2>7 DEF WorkInv
  <1>8. QED
    BY <1>4, <1>5, <1>6, <1>7

LEMMA ContentSpawnError ==
  ASSUME IInv, NEW s \in Sources, SpawnError(s)
  PROVE  /\ ClockInv' /\ DepsInv' /\ IdleInv' /\ TodoInv'
         /\ StageInv' /\ WorkInv' /\ TmpInv'
  <1> USE DEF IInv
  <1>1. /\ pc \in {"ifaces", "sources"} /\ Next1(s)
        /\ pend' = pend \ {s} /\ failed' = failed \cup {s}
        /\ UNCHANGED <<clock, pc, todo, task, img, tmp, recno>> /\ UNCHANGED files
    BY DEF SpawnError, world, cache, files
  <1>2. s \in pend /\ s \in todo /\ (pc = "ifaces" => s \in Ifaces) /\ pend \subseteq todo
    BY <1>1 DEF Next1, Stage, TypeOK
  <1>3. Tasks' = Tasks
    BY <1>1 DEF Tasks
  <1>4. DepsInv' /\ TodoInv' /\ ClockInv'
    BY <1>1, FilesFrame, TodoFrame, ClockFrame DEF files
  <1>5. IdleInv' /\ TmpInv'
    BY <1>1 DEF IdleInv, TmpInv, files
  <1>6. StageInv'
    <2>1. CASE pc = "ifaces"
      <3>1. \A i \in Ifaces \cap pend : s <= i
        BY <1>1, <2>1 DEF Next1, Stage
      <3>2. \A i \in Ifaces \cap pend, j \in Ifaces \cap (todo \ pend) : j < i
        BY <2>1 DEF StageInv
      <3>3. \A i \in Ifaces \cap pend', j \in Ifaces \cap (todo' \ pend') : j < i
        <4>1. SUFFICES ASSUME NEW i \in Ifaces \cap pend, i # s,
                              NEW j \in Ifaces, j \in todo \ pend \/ j = s
                       PROVE  j < i
          BY <1>1
        <4>2. i \in Nat /\ s \in Nat
          BY NAssumption DEF Sources
        <4>3. QED
          BY <4>1, <4>2, <3>1, <3>2
      <3>4. \A i \in Tasks', j \in Ifaces \cap (todo' \ pend') : j <= i
        <4>1. Tasks = {}
          BY <1>1, <2>1, NoStart DEF SpawnError
        <4>2. QED
          BY <4>1, <1>3
      <3>5. QED
        BY <1>1, <1>2, <1>3, <2>1, <3>3, <3>4 DEF StageInv
    <2>2. CASE pc = "sources"
      BY <1>1, <1>2, <1>3, <2>2 DEF StageInv
    <2>3. QED
      BY <1>1, <2>1, <2>2
  <1>7. WorkInv'
    BY <1>1, <1>2, FilesFrame DEF WorkInv, Finished, files
  <1>8. QED
    BY <1>4, <1>5, <1>6, <1>7

LEMMA ContentReap ==
  ASSUME IInv, NEW s \in Sources, Reap(s)
  PROVE  /\ ClockInv' /\ DepsInv' /\ IdleInv' /\ TodoInv'
         /\ StageInv' /\ WorkInv' /\ TmpInv'
  <1> USE DEF IInv
  <1>1. /\ pc \in {"ifaces", "sources"} /\ task[s] \in {"exit0", "exit1"}
        /\ task' = [task EXCEPT ![s] = "none"]
        /\ failed' = IF task[s] = "exit0" THEN failed ELSE failed \cup {s}
        /\ UNCHANGED <<clock, pc, todo, pend, img, tmp, recno>> /\ UNCHANGED files
    BY DEF Reap, world, files
  <1>2. Tasks' = Tasks \ {s} /\ s \in Tasks
    BY <1>1 DEF Tasks, TypeOK
  <1>3. DepsInv' /\ TodoInv' /\ ClockInv'
    BY <1>1, FilesFrame, TodoFrame, ClockFrame DEF files
  <1>4. IdleInv' /\ TmpInv'
    BY <1>1 DEF IdleInv, TmpInv, files
  <1>5. StageInv'
    <2>1. failed' \subseteq failed \cup {s}
      BY <1>1
    <2>2. QED
      BY <1>1, <1>2, <2>1 DEF StageInv
  <1>6. WorkInv'
    <2>1. ASSUME NEW t \in Sources
          PROVE  /\ Finished(t)' => Finished(t)
                 /\ task'[t] = "running" => task[t] = "running"
      BY <1>1 DEF Finished, TypeOK
    <2>2. bmi' = bmi /\ img' = img
      BY <1>1 DEF files
    <2>3. QED
      BY <1>1, <2>1, <2>2, FilesFrame DEF WorkInv
  <1>7. QED
    BY <1>3, <1>4, <1>5, <1>6

LEMMA ContentIfacesDone ==
  ASSUME IInv, RetryInv, IfacesDone
  PROVE  /\ ClockInv' /\ DepsInv' /\ IdleInv' /\ TodoInv'
         /\ StageInv' /\ WorkInv' /\ TmpInv'
  <1> USE DEF IInv
  <1>1. /\ pc = "ifaces" /\ Ifaces \cap pend = {} /\ Tasks = {}
        /\ pc' = IF failed = {} THEN "sources" ELSE "record"
        /\ UNCHANGED <<clock, todo, pend, task, img, failed, tmp, recno>>
        /\ UNCHANGED files
    BY DEF IfacesDone, StageDone, Stage, world, cache, files
  <1>2. recno = 1
    BY <1>1 DEF RetryInv
  <1>3. Tasks' = Tasks
    BY <1>1 DEF Tasks
  <1>4. DepsInv' /\ TodoInv' /\ ClockInv'
    BY <1>1, FilesFrame, TodoFrame, ClockFrame DEF files
  <1>5. IdleInv'
    BY <1>1 DEF IdleInv
  <1>6. TmpInv'
    <2>1. \A s \in Sources : ~(s < 1)
      BY NAssumption DEF Sources
    <2>2. QED
      BY <1>1, <1>2, <2>1 DEF TmpInv, files
  <1>7. StageInv'
    <2>1. failed \subseteq Ifaces
      BY <1>1 DEF StageInv
    <2>2. QED
      BY <1>1, <1>3, <2>1 DEF StageInv
  <1>8. WorkInv'
    BY <1>1, FilesFrame DEF WorkInv, Finished, files
  <1>9. QED
    BY <1>4, <1>5, <1>6, <1>7, <1>8

LEMMA ContentSourcesDone ==
  ASSUME IInv, RetryInv, SourcesDone
  PROVE  /\ ClockInv' /\ DepsInv' /\ IdleInv' /\ TodoInv'
         /\ StageInv' /\ WorkInv' /\ TmpInv'
  <1> USE DEF IInv
  <1>1. /\ pc = "sources" /\ pend = {} /\ Tasks = {} /\ pc' = "record"
        /\ UNCHANGED <<clock, todo, pend, task, img, failed, tmp, recno>>
        /\ UNCHANGED files
    BY DEF SourcesDone, StageDone, Stage, world, cache, files
  <1>2. recno = 1
    BY <1>1 DEF RetryInv
  <1>3. Tasks' = Tasks
    BY <1>1 DEF Tasks
  <1>4. DepsInv' /\ TodoInv' /\ ClockInv'
    BY <1>1, FilesFrame, TodoFrame, ClockFrame DEF files
  <1>5. IdleInv'
    BY <1>1 DEF IdleInv
  <1>6. TmpInv'
    <2>1. \A s \in Sources : ~(s < 1)
      BY NAssumption DEF Sources
    <2>2. QED
      BY <1>1, <1>2, <2>1 DEF TmpInv, files
  <1>7. StageInv'
    BY <1>1, <1>3 DEF StageInv
  <1>8. WorkInv'
    BY <1>1, FilesFrame DEF WorkInv, Finished, files
  <1>9. QED
    BY <1>4, <1>5, <1>6, <1>7, <1>8

LEMMA Running ==
  ASSUME IInv, NEW s \in Sources, task[s] = "running"
  PROVE  /\ pc \in {"ifaces", "sources"}
         /\ s \in Tasks /\ s \in todo /\ s \notin pend /\ s \notin failed
         /\ s \in Ifaces => pc = "ifaces" /\ todo = Sources
  <1>1. s \in Tasks
    BY DEF Tasks
  <1>2. pc # "idle"
    BY DEF IInv, IdleInv, NoTask
  <1>3. pc \in {"ifaces", "sources"}
    BY <1>1, <1>2 DEF IInv, StageInv, TypeOK
  <1>4. s \in todo /\ s \notin pend /\ s \notin failed
    BY <1>1 DEF IInv, StageInv
  <1>5. s \in Ifaces => pc = "ifaces" /\ todo = Sources
    BY <1>1, <1>2, <1>3, <1>4 DEF IInv, StageInv, TodoInv
  <1>6. QED
    BY <1>1, <1>3, <1>4, <1>5

\* A record that still vouches after the BMIs in G were lost or rewritten
\* vouched before, and then there was no such BMI: all of them are recorded.
LEMMA BmiFrame ==
  ASSUME DepsInv, UNCHANGED <<smt, hmt, amt, deps>>, NEW G \in SUBSET Ifaces,
         \A i \in G : bmi'[i] # "recorded",
         \A i \in Ifaces \ G : bmi'[i] = bmi[i],
         NEW d \in deps, d.bmi \subseteq Ifaces, ~FilesOutdated(d)'
  PROVE  ~FilesOutdated(d) /\ G = {}
  <1>1. \A s : SrcCurrent(d, s)' <=> SrcCurrent(d, s)
    BY DEF SrcCurrent
  <1>2. \A i \in d.bmi : bmi'[i] = "recorded" /\ i \notin G
    BY DEF FilesOutdated
  <1>3. ~FilesOutdated(d)
    BY <1>1, <1>2 DEF FilesOutdated
  <1>4. QED
    BY <1>2, <1>3 DEF DepsInv

LEMMA ContentCompilerOk ==
  ASSUME IInv, NEW s \in Sources, CompilerOk(s)
  PROVE  /\ ClockInv' /\ DepsInv' /\ IdleInv' /\ TodoInv'
         /\ StageInv' /\ WorkInv' /\ TmpInv'
  <1> USE DEF IInv
  <1> DEFINE G == Ifaces \cap {s}
  <1>1. /\ task[s] = "running" /\ task' = [task EXCEPT ![s] = "exit0"]
        /\ dfile' = [dfile EXCEPT ![s] = {h \in Headers : \E o \in img[s] : o.hdr[h] # 0}]
        /\ UNCHANGED <<clock, smt, hmt, amt, incl, deps, pc, todo, pend, failed,
                       tmp, recno>>
    BY DEF CompilerOk, world
  <1>2. /\ pc \in {"ifaces", "sources"}
        /\ s \in Tasks /\ s \in todo /\ s \notin pend /\ s \notin failed
        /\ s \in Ifaces => pc = "ifaces" /\ todo = Sources
    BY <1>1, Running
  <1>3. /\ \A i \in G : bmi'[i] = "new"
        /\ \A i \in Ifaces \ G : bmi'[i] = bmi[i]
    BY DEF CompilerOk, TypeOK
  <1>4. \A t \in Sources : (s \notin Ifaces \/ s \notin Imports(t)) =>
             /\ obj'[t] = IF t = s THEN img[s] ELSE obj[t]
             /\ img'[t] = IF t = s THEN {} ELSE img[t]
    BY DEF CompilerOk, Outdate, TypeOK
  <1>5. s \notin Ifaces \/ s \notin Imports(s)
    BY NAssumption DEF Imports, Sources
  <1>6. /\ \A d, t : SrcCurrent(d, t)' <=> SrcCurrent(d, t)
        /\ \A t, o : ContentCurrent(t, o)' <=> ContentCurrent(t, o)
    BY <1>1 DEF SrcCurrent, ContentCurrent
  <1>7. Good(s)'
    <2>1. img[s] # {} /\ \A o \in img[s] : ContentCurrent(s, o)
      BY <1>1 DEF WorkInv
    <2>2. hmt \in [Headers -> Nat \ {0}] /\ incl[s] \subseteq Headers
          /\ dfile'[s] = {h \in Headers : \E o \in img[s] : o.hdr[h] # 0}
      BY <1>1 DEF TypeOK
    <2>3. \A o \in img[s], h \in Headers : o.hdr[h] # 0 <=> h \in incl[s]
      BY <2>1, <2>2 DEF ContentCurrent
    <2>4. dfile'[s] = incl[s]
      BY <2>1, <2>2, <2>3
    <2>5. obj'[s] = img[s]
      BY <1>4, <1>5
    <2>6. QED
      BY <1>1, <1>6, <2>1, <2>4, <2>5 DEF Good
  <1>8. ASSUME NEW t \in Sources, t # s, s \notin Ifaces \/ s \notin Imports(t)
        PROVE  Good(t)' <=> Good(t)
    <2>1. dfile'[t] = dfile[t] /\ obj'[t] = obj[t]
      BY <1>1, <1>4, <1>8 DEF TypeOK
    <2>2. QED
      BY <1>1, <1>6, <2>1 DEF Good
  <1>9. DepsInv'
    <2>1. SUFFICES ASSUME NEW d \in deps, ~FilesOutdated(d)'
                   PROVE  /\ d.bmi = Ifaces
                          /\ \A t \in Sources : SrcCurrent(d, t)' =>
                               Good(t)' /\ d.inc[t] = incl[t]
      BY <1>1 DEF DepsInv
    <2>2. d.bmi \subseteq Ifaces
      BY DEF TypeOK, DepsRec
    <2>3. ~FilesOutdated(d) /\ G = {}
      BY <1>1, <1>3, <2>1, <2>2, BmiFrame
    <2>4. QED
      BY <1>6, <1>7, <1>8, <2>3 DEF DepsInv
  <1>10. TodoInv'
    <2>1. CASE s \in Ifaces
      BY <1>1, <1>2, <2>1 DEF TodoInv
    <2>2. CASE s \notin Ifaces
      <3>1. \A i \in Ifaces : bmi'[i] = bmi[i]
        BY <1>3, <2>2
      <3>2. \A d \in deps : FilesOutdated(d)' <=> FilesOutdated(d)
        <4>1. \A d \in deps : d.bmi \subseteq Ifaces
          BY DEF TypeOK, DepsRec
        <4>2. QED
          BY <1>1, <1>6, <3>1, <4>1 DEF FilesOutdated
      <3>3. QED
        BY <1>1, <1>6, <3>2 DEF TodoInv
    <2>3. QED
      BY <2>1, <2>2
  <1>11. Tasks' = Tasks
    BY <1>1, <1>2 DEF Tasks, TypeOK
  <1>12. StageInv'
    BY <1>1, <1>2, <1>11 DEF StageInv
  <1>13. ClockInv' /\ IdleInv' /\ TmpInv'
    BY <1>1, <1>2 DEF ClockInv, IdleInv, TmpInv
  <1>14. WorkInv'
    <2>1. SUFFICES ASSUME NEW t \in Sources
                   PROVE  /\ Finished(t)' => Good(t)' /\ (t \in Ifaces => bmi'[t] # "none")
                          /\ task'[t] = "running" => /\ img'[t] # {}
                                                     /\ \A o \in img'[t] : ContentCurrent(t, o)'
      BY DEF WorkInv
    <2>2. CASE t = s
      BY <1>1, <1>3, <1>7, <2>2 DEF TypeOK
    <2>3. ASSUME t # s
          PROVE  task'[t] = task[t] /\ (Finished(t)' <=> Finished(t))
                 /\ (t \in Ifaces => bmi'[t] = bmi[t])
      BY <1>1, <1>3, <2>3 DEF Finished, TypeOK
    <2>4. ASSUME t # s, task'[t] = "running"
          PROVE  img'[t] # {} /\ \A o \in img'[t] : ContentCurrent(t, o)'
      <3>1. task[t] = "running" /\ t \in Tasks
        BY <2>3, <2>4 DEF Tasks
      <3>2. s \notin Ifaces
        BY <1>2, <2>4, <3>1 DEF StageInv
      <3>3. QED
        BY <1>4, <1>6, <2>4, <3>1, <3>2 DEF WorkInv
    <2>5. ASSUME t # s, Finished(t)'
          PROVE  Good(t)' /\ (t \in Ifaces => bmi'[t] # "none")
      <3>1. Finished(t)
        BY <2>3, <2>5
      <3>2. Good(t) /\ (t \in Ifaces => bmi'[t] # "none")
        BY <2>3, <2>5, <3>1 DEF WorkInv
      <3>3. s \in Ifaces => s \notin Imports(t)
        <4>1. SUFFICES ASSUME s \in Ifaces
                       PROVE  t \in Ifaces /\ ~(s < t)
          BY DEF Imports
        <4>2. t \in Ifaces
          BY <1>2, <3>1, <4>1 DEF StageInv, Finished
        <4>3. t <= s
          BY <1>2, <3>1, <4>1, <4>2 DEF StageInv, Finished
        <4>4. QED
          BY <4>2, <4>3, NAssumption DEF Sources
      <3>4. QED
        BY <1>8, <2>5, <3>2, <3>3
    <2>6. QED
      BY <2>2, <2>4, <2>5
  <1>15. QED
    BY <1>9, <1>10, <1>12, <1>13, <1>14

LEMMA ContentCompilerFails ==
  ASSUME IInv, NEW s \in Sources, CompilerFails(s)
  PROVE  /\ ClockInv' /\ DepsInv' /\ IdleInv' /\ TodoInv'
         /\ StageInv' /\ WorkInv' /\ TmpInv'
  <1> USE DEF IInv
  <1>1. /\ task[s] = "running" /\ task' = [task EXCEPT ![s] = "exit1"]
        /\ img' = [img EXCEPT ![s] = {}]
        /\ UNCHANGED <<clock, smt, hmt, amt, incl, dfile, deps, pc, todo, pend,
                       failed, tmp, recno>>
    BY DEF CompilerFails, world
  <1>2. /\ pc \in {"ifaces", "sources"}
        /\ s \in Tasks /\ s \in todo /\ s \notin pend /\ s \notin failed
        /\ s \in Ifaces => pc = "ifaces" /\ todo = Sources
    BY <1>1, Running
  <1>3. \E G \in SUBSET (Ifaces \cap {s}) :
           /\ \A i \in G : bmi'[i] = "none"
           /\ \A i \in Ifaces \ G : bmi'[i] = bmi[i]
    <2>1. PICK del \in BOOLEAN :
             bmi' = [i \in Ifaces |-> IF i = s /\ del THEN "none" ELSE bmi[i]]
      BY DEF CompilerFails
    <2>2. CASE del
      <3>1. /\ \A i \in Ifaces \cap {s} : bmi'[i] = "none"
            /\ \A i \in Ifaces \ (Ifaces \cap {s}) : bmi'[i] = bmi[i]
        BY <2>1, <2>2
      <3>2. QED
        BY <3>1
    <2>3. CASE ~del
      <3>1. /\ {} \in SUBSET (Ifaces \cap {s})
            /\ \A i \in {} : bmi'[i] = "none"
            /\ \A i \in Ifaces \ {} : bmi'[i] = bmi[i]
        BY <2>1, <2>3
      <3>2. QED
        BY <3>1
    <2>4. QED
      BY <2>2, <2>3
  <1>4. \A t \in Sources : obj'[t] \subseteq obj[t]
    BY DEF CompilerFails, TypeOK
  <1>5. /\ \A d, t : SrcCurrent(d, t)' <=> SrcCurrent(d, t)
        /\ \A t, o : ContentCurrent(t, o)' <=> ContentCurrent(t, o)
    BY <1>1 DEF SrcCurrent, ContentCurrent
  <1>6. \A t \in Sources : Good(t) => Good(t)'
    BY <1>1, <1>4, <1>5 DEF Good
  <1>7. DepsInv'
    <2>1. SUFFICES ASSUME NEW d \in deps, ~FilesOutdated(d)'
                   PROVE  /\ d.bmi = Ifaces
                          /\ \A t \in Sources : SrcCurrent(d, t)' =>
                               Good(t)' /\ d.inc[t] = incl[t]
      BY <1>1 DEF DepsInv
    <2>2. d.bmi \subseteq Ifaces
      BY DEF TypeOK, DepsRec
    <2>3. ~FilesOutdated(d)
      BY <1>1, <1>3, <2>1, <2>2, BmiFrame
    <2>4. QED
      BY <1>5, <1>6, <2>3 DEF DepsInv
  <1>8. TodoInv'
    <2>1. CASE s \in Ifaces
      BY <1>1, <1>2, <2>1 DEF TodoInv
    <2>2. CASE s \notin Ifaces
      <3>1. \A i \in Ifaces : bmi'[i] = bmi[i]
        BY <1>3, <2>2
      <3>2. \A d \in deps : d.bmi \subseteq Ifaces
        BY DEF TypeOK, DepsRec
      <3>3. \A d \in deps : FilesOutdated(d)' <=> FilesOutdated(d)
        BY <1>1, <1>5, <3>1, <3>2 DEF FilesOutdated
      <3>4. QED
        BY <1>1, <1>5, <3>3 DEF TodoInv
    <2>3. QED
      BY <2>1, <2>2
  <1>9. Tasks' = Tasks
    BY <1>1, <1>2 DEF Tasks, TypeOK
  <1>10. StageInv'
    BY <1>1, <1>2, <1>9 DEF StageInv
  <1>11. ClockInv' /\ IdleInv' /\ TmpInv'
    BY <1>1, <1>2 DEF ClockInv, IdleInv, TmpInv
  <1>12. WorkInv'
    <2>1. ASSUME NEW t \in Sources, t # s
          PROVE  /\ task'[t] = task[t] /\ img'[t] = img[t]
                 /\ Finished(t)' <=> Finished(t)
                 /\ t \in Ifaces => bmi'[t] = bmi[t]
      BY <1>1, <1>3, <2>1 DEF Finished, TypeOK
    <2>2. task'[s] = "exit1"
      BY <1>1 DEF TypeOK
    <2>3. \A t \in Sources : Finished(t)' => t # s
      BY <2>2 DEF Finished
    <2>4. QED
      BY <1>5, <1>6, <2>1, <2>2, <2>3 DEF WorkInv
  <1>13. QED
    BY <1>7, <1>8, <1>10, <1>11, <1>12

-----------------------------------------------------------------------------
\* The record of the build, and its end.

LEMMA ContentRecord ==
  ASSUME IInv, Record
  PROVE  /\ ClockInv' /\ DepsInv' /\ IdleInv' /\ TodoInv'
         /\ StageInv' /\ WorkInv' /\ TmpInv'
  <1> USE DEF IInv
  <1>1. /\ pc = "record" /\ recno \in Sources /\ recno' = recno + 1
        /\ tmp' = {Recorded(d, recno) : d \in tmp}
        /\ UNCHANGED <<clock, pc, todo, pend, task, img, failed>> /\ UNCHANGED files
    BY DEF Record, world, cache, files
  <1>2. Tasks' = Tasks
    BY <1>1 DEF Tasks
  <1>3. DepsInv' /\ TodoInv'
    BY <1>1, FilesFrame, TodoFrame
  <1>4. IdleInv' /\ StageInv'
    BY <1>1, <1>2 DEF IdleInv, StageInv
  <1>5. WorkInv'
    BY <1>1, FilesFrame DEF WorkInv, Finished, files
  <1>6. tmp \subseteq DepsRec /\ clock \in Nat /\ \A h \in Headers : hmt[h] <= clock
    BY DEF TypeOK, ClockInv
  <1>7. ASSUME NEW d \in tmp
        PROVE  LET e == Recorded(d, recno) IN
               /\ e.aux = d.aux
               /\ \A s \in Sources \ {recno} : e.src[s] = d.src[s] /\ e.inc[s] = d.inc[s]
                                               /\ e.hdr[s] = d.hdr[s]
               /\ IF recno \in failed
                  THEN e.src[recno] = 0 /\ e.hdr[recno] = d.hdr[recno]
                  ELSE e.src[recno] = smt[recno] /\ e.inc[recno] = dfile[recno]
                       /\ e.hdr[recno] = hmt
    <2>1. d \in DepsRec
      BY <1>6
    <2>2. CASE recno \in failed
      BY <1>1, <2>1, <2>2 DEF Recorded, DepsRec
    <2>3. CASE recno \notin failed
      BY <1>1, <2>1, <2>3 DEF Recorded, DepsRec
    <2>4. QED
      BY <2>2, <2>3
  <1>8. ClockInv'
    <2>1. /\ \A s \in Sources : smt[s] <= clock
          /\ \A d \in tmp :
               /\ \A s \in Sources : d.src[s] <= clock
               /\ \A s \in Sources, h \in Headers : d.hdr[s][h] <= clock
               /\ \A a \in Consumes : d.aux[a] <= clock
      BY DEF ClockInv
    <2>2. ASSUME NEW d \in tmp, NEW s \in Sources
          PROVE  /\ Recorded(d, recno).src[s] <= clock
                 /\ \A h \in Headers : Recorded(d, recno).hdr[s][h] <= clock
      <3>1. CASE s # recno
        BY <1>7, <2>1, <3>1
      <3>2. CASE s = recno
        BY <1>6, <1>7, <2>1, <3>2
      <3>3. QED
        BY <3>1, <3>2
    <2>3. \A d \in tmp, a \in Consumes : Recorded(d, recno).aux[a] <= clock
      BY <1>7, <2>1
    <2>4. QED
      BY <1>1, <2>2, <2>3 DEF ClockInv, files
  <1>9. TmpInv'
    <2>1. SUFFICES ASSUME NEW d \in tmp
                   PROVE  LET e == Recorded(d, recno) IN
                          /\ e.aux = amt
                          /\ \A s \in Sources : s < recno + 1 =>
                               IF s \in failed THEN e.src[s] = 0
                               ELSE e.src[s] = smt[s] /\ e.inc[s] = dfile[s]
      BY <1>1 DEF TmpInv, files
    <2>2. Recorded(d, recno).aux = amt
      BY <1>7 DEF TmpInv
    <2>3. ASSUME NEW s \in Sources, s < recno + 1, s # recno
          PROVE  IF s \in failed THEN Recorded(d, recno).src[s] = 0
                 ELSE /\ Recorded(d, recno).src[s] = smt[s]
                      /\ Recorded(d, recno).inc[s] = dfile[s]
      <3>1. s < recno
        BY <1>1, <2>3, NAssumption DEF Sources
      <3>2. QED
        BY <1>1, <1>7, <2>3, <3>1 DEF TmpInv
    <2>4. QED
      BY <1>7, <2>2, <2>3
  <1>10. QED
    BY <1>3, <1>4, <1>5, <1>8, <1>9

LEMMA ContentCommit ==
  ASSUME IInv, Commit
  PROVE  /\ ClockInv' /\ DepsInv' /\ IdleInv' /\ TodoInv'
         /\ StageInv' /\ WorkInv' /\ TmpInv'
  <1> USE DEF IInv
  <1> DEFINE built == {i \in Ifaces : bmi[i] # "none"}
  <1>1. /\ pc = "record" /\ recno = N + 1 /\ tmp' = {}
        /\ UNCHANGED <<clock, smt, hmt, amt, incl, obj, dfile>>
    <2>1. recno \in 1 .. N + 1
      BY DEF TypeOK
    <2>2. recno \notin Sources
      BY DEF Commit
    <2>3. recno = N + 1
      BY <2>1, <2>2, NAssumption DEF Sources
    <2>4. QED
      BY <2>3 DEF Commit, Quit, world
  <1>2. IdleInv' /\ TodoInv' /\ StageInv' /\ WorkInv' /\ TmpInv'
    BY Idle DEF Commit
  <1>3. ASSUME NEW e \in deps'
        PROVE  \E d \in tmp : /\ e.aux = d.aux /\ e.src = d.src /\ e.inc = d.inc
                              /\ e.hdr = d.hdr /\ e.bmi = built
    <2>1. PICK d \in tmp : e = [d EXCEPT !.bmi = built, !.target = target]
      BY <1>3 DEF Commit
    <2>2. d \in DepsRec
      BY DEF TypeOK
    <2>3. QED
      BY <2>1, <2>2 DEF DepsRec
  <1>4. ClockInv'
    <2>1. ASSUME NEW e \in deps'
          PROVE  /\ \A s \in Sources : e.src[s] <= clock
                 /\ \A s \in Sources, h \in Headers : e.hdr[s][h] <= clock
                 /\ \A a \in Consumes : e.aux[a] <= clock
      BY <1>3, <2>1 DEF ClockInv
    <2>2. QED
      BY <1>1, <2>1 DEF ClockInv
  <1>5. ASSUME NEW e \in deps', ~FilesOutdated(e)'
        PROVE  /\ e.bmi = Ifaces
               /\ \A s \in Sources : SrcCurrent(e, s)' => Good(s) /\ e.inc[s] = incl[s]
    <2>1. PICK d \in tmp : e.src = d.src /\ e.inc = d.inc /\ e.bmi = built
      BY <1>3, <1>5
    <2>2. \A s \in Sources : IF s \in failed THEN e.src[s] = 0
                             ELSE e.src[s] = smt[s] /\ e.inc[s] = dfile[s]
      BY <1>1, <2>1, NAssumption DEF TmpInv, Sources
    <2>3. ASSUME NEW s \in Sources, SrcCurrent(e, s)'
          PROVE  s \notin failed
      <3>1. smt[s] <= e.src[s] /\ smt[s] \in Nat \ {0}
        BY <1>1, <2>3 DEF SrcCurrent, TypeOK
      <3>2. QED
        BY <2>2, <3>1
    <2>4. Ifaces \cap failed = {}
      BY <1>5, <2>3, NAssumption DEF FilesOutdated
    <2>5. pend = {} /\ Tasks = {}
      BY <1>1, <2>4 DEF StageInv
    <2>6. ASSUME NEW s \in Sources, s \notin failed
          PROVE  Good(s) /\ (s \in Ifaces => bmi[s] # "none")
      <3>1. CASE s \in todo
        <4>1. task[s] = "none"
          BY <2>5 DEF Tasks
        <4>2. Finished(s)
          BY <2>5, <2>6, <3>1, <4>1 DEF Finished
        <4>3. QED
          BY <4>2 DEF WorkInv
      <3>2. CASE s \notin todo
        <4>1. PICK f \in deps : ~FilesOutdated(f) /\ SrcCurrent(f, s)
          BY <1>1, <3>2 DEF TodoInv
        <4>2. f.bmi = Ifaces /\ Good(s)
          BY <4>1 DEF DepsInv
        <4>3. QED
          BY <4>1, <4>2 DEF FilesOutdated
      <3>3. QED
        BY <3>1, <3>2
    <2>7. built = Ifaces
      BY <2>4, <2>6, NAssumption
    <2>8. ASSUME NEW s \in Sources, SrcCurrent(e, s)'
          PROVE  Good(s) /\ e.inc[s] = incl[s]
      <3>1. s \notin failed /\ Good(s)
        BY <2>3, <2>6, <2>8
      <3>2. QED
        BY <2>2, <3>1 DEF Good
    <2>9. QED
      BY <2>1, <2>7, <2>8
  <1>6. \A s : Good(s)' <=> Good(s)
    BY <1>1 DEF Good, ContentCurrent
  <1>7. DepsInv'
    BY <1>1, <1>5, <1>6 DEF DepsInv
  <1>8. QED
    BY <1>2, <1>4, <1>7

LEMMA ContentCrash ==
  ASSUME IInv, Crash
  PROVE  /\ ClockInv' /\ DepsInv' /\ IdleInv' /\ TodoInv'
         /\ StageInv' /\ WorkInv' /\ TmpInv'
  <1> USE DEF IInv
  <1>1. /\ tmp' = {} /\ UNCHANGED <<clock, smt, hmt, amt, incl, dfile, deps>>
    BY DEF Crash, Quit, world
  <1>2. IdleInv' /\ TodoInv' /\ StageInv' /\ WorkInv' /\ TmpInv'
    BY Idle DEF Crash
  <1>3. ClockInv'
    BY <1>1, ClockFrame
  <1>4. PICK gone \in SUBSET Sources :
           /\ \A s \in Sources : obj'[s] \subseteq obj[s]
           /\ \A i \in Ifaces : bmi'[i] = IF i \in gone THEN "none" ELSE bmi[i]
    BY NAssumption DEF Crash
  <1>5. \A s \in Sources : Good(s) => Good(s)'
    BY <1>1, <1>4 DEF Good, ContentCurrent
  <1>6. \A d, s : SrcCurrent(d, s)' <=> SrcCurrent(d, s)
    BY <1>1 DEF SrcCurrent
  <1>7. DepsInv'
    <2>1. SUFFICES ASSUME NEW d \in deps, ~FilesOutdated(d)'
                   PROVE  /\ d.bmi = Ifaces
                          /\ \A s \in Sources : SrcCurrent(d, s)' =>
                               Good(s)' /\ d.inc[s] = incl[s]
      BY <1>1 DEF DepsInv
    <2>2. d.bmi \subseteq Ifaces
      BY DEF TypeOK, DepsRec
    <2>3. \A i \in gone \cap Ifaces : bmi'[i] # "recorded"
      BY <1>4
    <2>4. \A i \in Ifaces \ (gone \cap Ifaces) : bmi'[i] = bmi[i]
      BY <1>4
    <2>5. ~FilesOutdated(d)
      BY <1>1, <2>1, <2>2, <2>3, <2>4, BmiFrame
    <2>6. QED
      BY <1>5, <1>6, <2>5 DEF DepsInv
  <1>8. QED
    BY <1>2, <1>3, <1>7

-----------------------------------------------------------------------------
LEMMA ContentStep ==
  ASSUME IInv, RetryInv, [Next]_vars
  PROVE  /\ ClockInv' /\ DepsInv' /\ IdleInv' /\ TodoInv'
         /\ StageInv' /\ WorkInv' /\ TmpInv'
  <1> DEFINE Goal == /\ ClockInv' /\ DepsInv' /\ IdleInv' /\ TodoInv'
                     /\ StageInv' /\ WorkInv' /\ TmpInv'
  <1> DEFINE frame == /\ UNCHANGED files
                      /\ UNCHANGED <<clock, pc, todo, pend, task, img, failed, tmp, recno>>
  <1>1. ASSUME frame PROVE Goal
    <2>1. Tasks' = Tasks
      BY <1>1 DEF Tasks
    <2>2. DepsInv' /\ ClockInv'
      BY <1>1, FilesFrame, ClockFrame DEF IInv, files
    <2>3. IdleInv' /\ StageInv'
      BY <1>1, <2>1 DEF IInv, IdleInv, StageInv
    <2>4. TodoInv'
      BY <1>1, FilesFrame DEF IInv, TodoInv, files
    <2>5. WorkInv'
      BY <1>1, FilesFrame DEF IInv, WorkInv, Finished, files
    <2>6. TmpInv'
      BY <1>1 DEF IInv, TmpInv, files
    <2>7. QED
      BY <2>2, <2>3, <2>4, <2>5, <2>6
  <1>2. CASE BeginUpToDate
    BY <1>1, <1>2 DEF BeginUpToDate, world, cache, files
  <1>3. CASE Reconfigure
    BY <1>1, <1>3 DEF Reconfigure, cache, files
  <1>4. CASE UNCHANGED vars
    BY <1>1, <1>4 DEF vars, files
  <1>5. CASE UserEdit
    <2>1. ClockInv' /\ DepsInv'
      BY <1>5, ContentUserEdit
    <2>2. /\ pc = "idle" /\ UNCHANGED <<pc, todo, pend, task, img, failed, tmp, recno>>
      BY <1>5 DEF UserEdit
    <2>3. /\ todo = {} /\ pend = {} /\ failed = {} /\ task = NoTask /\ tmp = {}
      BY <2>2 DEF IInv, IdleInv
    <2>4. Tasks' = {} /\ \A s \in Sources : task'[s] = "none"
      BY <2>2, <2>3 DEF Tasks, NoTask
    <2>5. IdleInv' /\ TodoInv' /\ TmpInv'
      BY <2>2, <2>3 DEF IInv, IdleInv, TodoInv, TmpInv
    <2>6. StageInv' /\ WorkInv'
      BY <2>2, <2>3, <2>4 DEF StageInv, WorkInv, Finished
    <2>7. QED
      BY <2>1, <2>5, <2>6
  <1>6. CASE BeginAll \/ BeginSome \/ Open
    BY <1>6, ContentBeginAll, ContentBeginSome, ContentOpen
  <1>7. CASE \E s \in Sources : Spawn(s) \/ SpawnError(s) \/ Reap(s)
    BY <1>7, ContentSpawn, ContentSpawnError, ContentReap
  <1>8. CASE \E s \in Sources : CompilerOk(s) \/ CompilerFails(s)
    BY <1>8, ContentCompilerOk, ContentCompilerFails
  <1>9. CASE IfacesDone \/ SourcesDone
    BY <1>9, ContentIfacesDone, ContentSourcesDone
  <1>10. CASE Record \/ Commit \/ Crash
    BY <1>10, ContentRecord, ContentCommit, ContentCrash
  <1>11. QED
    BY <1>2, <1>3, <1>4, <1>5, <1>6, <1>7, <1>8, <1>9, <1>10
    DEF Next, SteadyNext, Build, Begin, Autark, Compiler

\* The inductive invariant behind the freshness of objects: in every phase of a
\* build, and wherever it is killed, what .deps, .deps.tmp and a finished but
\* unreaped compiler say of an object is true of its contents (node_cc.c:337).
THEOREM Inductive == Spec => []IInv
  <1>1. IInv /\ RetryInv /\ TypeOK' /\ [Next]_vars => IInv'
    BY ContentStep DEF IInv
  <1>2. RetryInv /\ TypeOK /\ [Next]_vars => RetryInv'
    BY RetryStep DEF AnyNext
  <1>3. QED
    BY TypeCorrect, ContentInit, RetryInit, <1>1, <1>2, PTL DEF Spec

LEMMA IInvImplies == IInv => ContentFresh
  BY DEF IInv, DepsInv, Good, ContentFresh

\* However builds fail, are killed and follow edits of sources, headers,
\* includes, consumed files and module interfaces: a source that .deps does
\* not let a build recompile has no object made from other contents.
THEOREM ObjectsStayFresh == Spec => []ContentFresh
  BY Inductive, IInvImplies, PTL

-----------------------------------------------------------------------------
(***************************************************************************)
(* The compiler pool: StageInv orders the compilations, and no step starts *)
(* one when the pool is full.                                              *)
(***************************************************************************)

PoolInv == Cardinality(Tasks) <= MaxJobs

LEMMA PoolStep == ASSUME TypeOK, PoolInv, [Next]_vars
                  PROVE  PoolInv'
  <1>1. ASSUME Tasks' \subseteq Tasks PROVE PoolInv'
    <2>1. Cardinality(Tasks') \in Nat /\ Cardinality(Tasks') <= Cardinality(Tasks)
      BY <1>1, FiniteTasks, FS_Subset, FS_CardinalityType
    <2>2. QED
      BY <2>1, FiniteTasks, JobsAssumption DEF PoolInv
  <1>2. CASE \E s \in Sources : Spawn(s)
    <2>1. PICK s \in Sources : Spawn(s)
      BY <1>2
    <2>2. Tasks' = Tasks \cup {s}
      BY <2>1 DEF Spawn, Tasks, TypeOK
    <2>3. Cardinality(Tasks) < MaxJobs
      BY <2>1, FiniteTasks, JobsAssumption DEF Spawn, CanStart, Limit
    <2>4. Cardinality(Tasks \cup {s}) = IF s \in Tasks THEN Cardinality(Tasks)
                                                     ELSE Cardinality(Tasks) + 1
      BY FiniteTasks, FS_AddElement
    <2>5. Cardinality(Tasks') <= Cardinality(Tasks) + 1 /\ Cardinality(Tasks') \in Nat
      BY <2>2, <2>4, FiniteTasks
    <2>6. QED
      BY <2>3, <2>5, FiniteTasks, JobsAssumption DEF PoolInv
  <1>3. CASE \E s \in Sources : CompilerOk(s) \/ CompilerFails(s) \/ Reap(s)
    <2>1. Tasks' \subseteq Tasks
      BY <1>3 DEF CompilerOk, CompilerFails, Reap, Tasks, TypeOK
    <2>2. QED
      BY <1>1, <2>1
  <1>4. CASE Commit \/ Crash
    <2>1. task' = NoTask
      BY <1>4 DEF Commit, Crash, Quit
    <2>2. Tasks' \subseteq Tasks
      BY <2>1 DEF Tasks, NoTask
    <2>3. QED
      BY <1>1, <2>2
  <1>5. CASE UNCHANGED task
    BY <1>1, <1>5 DEF Tasks
  <1>6. UNCHANGED task \/ Commit \/ Crash
        \/ \E s \in Sources : Spawn(s) \/ CompilerOk(s) \/ CompilerFails(s) \/ Reap(s)
    BY DEF Next, SteadyNext, Build, Begin, Autark, Compiler, UserEdit, Reconfigure,
           BeginUpToDate, BeginAll, BeginSome, StartWith, Open, IfacesDone,
           SourcesDone, Record, SpawnError, vars
  <1>7. QED
    BY <1>2, <1>3, <1>4, <1>5, <1>6

LEMMA PoolInit == Init => PoolInv
  <1>1. Init => Tasks = {}
    BY NoTasks DEF Init
  <1>2. QED
    BY <1>1, FS_EmptySet, JobsAssumption DEF PoolInv

LEMMA PoolImplies == IInv /\ PoolInv => InterfacesAlone
  <1> SUFFICES ASSUME IInv, PoolInv PROVE InterfacesAlone
    OBVIOUS
  <1>1. /\ Tasks \subseteq todo /\ Tasks \cap pend = {}
        /\ pc = "ifaces" => todo \ Ifaces \subseteq pend /\ \A s, t \in Tasks : s = t
        /\ pc = "sources" => Ifaces \cap (pend \cup Tasks \cup failed) = {}
    BY DEF IInv, StageInv
  <1>2. \A s \in Tasks : pc \in {"ifaces", "sources"}
    <2>1. pc \in {"open", "record"} => Tasks = {}
      BY DEF IInv, StageInv
    <2>2. pc = "idle" => Tasks = {}
      BY NoTasks DEF IInv, IdleInv
    <2>3. QED
      BY <2>1, <2>2 DEF IInv, TypeOK
  <1>3. \A i \in Ifaces : i \in Tasks => Tasks = {i}
    BY <1>1, <1>2
  <1>4. (\E s \in Tasks : s \notin Ifaces) => Ifaces \cap (pend \cup failed) = {}
    BY <1>1, <1>2
  <1>5. QED
    BY <1>3, <1>4 DEF InterfacesAlone, PoolInv

\* The compilers of a rule never exceed the pool, a module interface is
\* compiled alone, and its importers only after every interface succeeded.
THEOREM InterfacesFirst == Spec => []InterfacesAlone
  <1>1. PoolInv /\ TypeOK /\ [Next]_vars => PoolInv'
    BY PoolStep
  <1>2. QED
    BY TypeCorrect, Inductive, PoolInit, <1>1, PoolImplies, PTL DEF Spec

-----------------------------------------------------------------------------
(***************************************************************************)
(* The settings a rule is built with, and the promise it keeps towards the *)
(* rest of the build: an invocation that reports success leaves no object  *)
(* stale.                                                                  *)
(***************************************************************************)

-----------------------------------------------------------------------------
(***************************************************************************)
(* The record of a build, whatever the settings do.                        *)
(***************************************************************************)

LEMMA RecordIdle ==
  ASSUME RecordInv, tmp = {}, pc' \in {"idle", "open"}, UNCHANGED <<tmp, deps>>
  PROVE  RecordInv'
  BY DEF RecordInv

LEMMA RecordPool ==
  ASSUME RecordInv, pc \in {"ifaces", "sources"}, recno' = 1,
         UNCHANGED <<tmp, deps, flags>>
  PROVE  RecordInv'
  BY NAssumption DEF RecordInv, Sources

LEMMA RecordOpen == ASSUME IInv, RecordInv, Open PROVE RecordInv'
  BY DEF Open, RecordInv, NewDeps, world, cache

LEMMA RecordRecord == ASSUME IInv, RecordInv, Record PROVE RecordInv'
  <1>1. /\ pc = "record" /\ recno \in Sources /\ recno' = recno + 1
        /\ tmp' = {Recorded(d, recno) : d \in tmp}
        /\ UNCHANGED <<pc, failed, flags, hmt, deps>>
    BY DEF Record, world, cache
  <1>2. ASSUME NEW d \in tmp
        PROVE  /\ Recorded(d, recno).flags = d.flags
               /\ \A s \in Sources \ {recno} : Recorded(d, recno).hdr[s] = d.hdr[s]
               /\ recno \notin failed => Recorded(d, recno).hdr[recno] = hmt
    <2>1. d \in DepsRec
      BY DEF IInv, TypeOK
    <2>2. QED
      BY <1>1, <2>1 DEF Recorded, DepsRec
  <1>3. \A s \in Sources : s < recno' => s < recno \/ s = recno
    BY <1>1, NAssumption DEF Sources
  <1>4. QED
    BY <1>1, <1>2, <1>3 DEF RecordInv

LEMMA RecordStep == ASSUME IInv, RetryInv, RecordInv, [Next]_vars PROVE RecordInv'
  <1>1. CASE UserEdit \/ Reconfigure \/ Begin
    <2>1. pc = "idle" /\ tmp = {} /\ pc' \in {"idle", "open"} /\ UNCHANGED <<tmp, deps>>
      BY <1>1 DEF IInv, IdleInv, UserEdit, Reconfigure, Begin, BeginUpToDate, BeginAll,
                  BeginSome, StartWith, cache
    <2>2. QED
      BY <2>1, RecordIdle
  <1>2. CASE IfacesDone \/ SourcesDone \/ \E s \in Sources : Spawn(s) \/ SpawnError(s) \/ Reap(s)
    <2>1. /\ pc \in {"ifaces", "sources"}
          /\ UNCHANGED <<tmp, deps, flags>> /\ recno' = recno
      BY <1>2 DEF IfacesDone, SourcesDone, Spawn, SpawnError, Reap, world, cache
    <2>2. recno' = 1
      BY <2>1 DEF RetryInv
    <2>3. QED
      BY <2>1, <2>2, RecordPool
  <1>3. CASE \E s \in Sources : CompilerOk(s) \/ CompilerFails(s)
    <2>1. /\ pc \in {"ifaces", "sources"}
          /\ UNCHANGED <<tmp, deps, flags>> /\ recno' = recno
      BY <1>3, Running DEF CompilerOk, CompilerFails, world
    <2>2. recno' = 1
      BY <2>1 DEF RetryInv
    <2>3. QED
      BY <2>1, <2>2, RecordPool
  <1>4. CASE Commit
    <2>1. tmp' = {} /\ pc' = "idle"
      BY <1>4 DEF Commit, Quit
    <2>2. \A d, e \in tmp : d = e
      BY DEF RecordInv
    <2>3. \A d, e \in deps' : d = e
      BY <1>4, <2>2, Zenon DEF Commit
    <2>4. QED
      BY <2>1, <2>3 DEF RecordInv
  <1>5. CASE Crash
    BY <1>5 DEF Crash, Quit, RecordInv
  <1>6. CASE UNCHANGED vars
    BY <1>6 DEF vars, RecordInv
  <1>7. QED
    BY <1>1, <1>2, <1>3, <1>4, <1>5, <1>6, RecordOpen, RecordRecord
    DEF Next, SteadyNext, Build, Autark, Compiler

LEMMA RecordInit == Init => RecordInv
  BY DEF Init, RecordInv

LEMMA RecordHolds == Spec => []RecordInv
  <1>1. IInv /\ RetryInv /\ RecordInv /\ [Next]_vars => RecordInv'
    BY RecordStep
  <1>2. RetryInv /\ TypeOK /\ [Next]_vars => RetryInv'
    BY RetryStep DEF AnyNext
  <1>3. QED
    BY Inductive, TypeCorrect, RetryInit, RecordInit, <1>1, <1>2, PTL DEF Spec

\* The record a successful build commits is current in every respect.
LEMMA CommitCurrent ==
  ASSUME IInv, RecordInv, Commit, failed = {}
  PROVE  UpToDate'
  <1> DEFINE built == {i \in Ifaces : bmi[i] # "none"}
  <1>1. PICK d \in tmp : TRUE
    BY DEF Commit, RecordInv
  <1>2. d \in DepsRec
    BY DEF IInv, TypeOK
  <1>3. PICK e \in deps' :
        /\ e.bmi = built /\ e.target = target /\ e.flags = flags /\ e.aux = amt
        /\ e.src = d.src /\ e.inc = d.inc /\ e.hdr = d.hdr
        /\ \A i \in built : bmi'[i] = "recorded"
        /\ UNCHANGED <<smt, hmt, amt, flags, target>>
    <2>1. [d EXCEPT !.bmi = built, !.target = target] \in deps'
      BY <1>1 DEF Commit
    <2>2. /\ d.flags = flags /\ d.aux = amt
          /\ \A i \in built : bmi'[i] = "recorded"
          /\ UNCHANGED <<smt, hmt, amt, flags, target>>
      BY <1>1 DEF Commit, RecordInv, IInv, TmpInv, world
    <2>3. QED
      BY <1>2, <2>1, <2>2 DEF DepsRec
  <1>4. recno = N + 1 /\ pc = "record"
    <2>1. recno \in 1 .. N + 1 /\ recno \notin Sources /\ pc = "record"
      BY DEF Commit, IInv, TypeOK
    <2>2. QED
      BY <2>1, NAssumption DEF Sources
  <1>5. ASSUME NEW s \in Sources
        PROVE  d.src[s] = smt[s] /\ d.inc[s] \subseteq Headers /\ d.hdr[s] = hmt
    <2>1. s < recno
      BY <1>4, NAssumption DEF Sources
    <2>2. QED
      BY <1>1, <1>2, <1>4, <2>1 DEF IInv, TmpInv, RecordInv, DepsRec
  <1>6. \A s \in Sources : SrcCurrent(e, s)'
    <2>1. smt \in [Sources -> Nat] /\ hmt \in [Headers -> Nat]
      BY DEF IInv, TypeOK
    <2>2. QED
      BY <1>3, <1>5, <2>1 DEF SrcCurrent
  <1>7. ~FilesOutdated(e)'
    <2>1. amt \in [Consumes -> Nat]
      BY DEF IInv, TypeOK
    <2>2. \A a \in Consumes : ~(amt'[a] > e.aux[a])
      BY <1>3, <2>1
    <2>3. \A i \in Ifaces : SrcCurrent(e, i)'
      BY <1>6, NAssumption
    <2>4. \A i \in e.bmi : bmi'[i] = "recorded"
      BY <1>3
    <2>5. QED
      BY <2>2, <2>3, <2>4, Zenon DEF FilesOutdated
  <1>8. ~SettingsOutdated(e)' /\ ~TargetChanged(e)'
    BY <1>3 DEF SettingsOutdated, TargetChanged
  <1>9. SourcesOutdated(e)' = {}
    BY <1>6 DEF SourcesOutdated
  <1>10. QED
    BY <1>7, <1>8, <1>9 DEF UpToDate, GroupOutdated

\* After a build that went through nothing is outdated, so that the next one
\* does nothing: every record is of the present time of what it names, for the
\* sources compiled now and for those left out, and so are settings and BMIs.
THEOREM OkIsUpToDate == Spec => NothingToDoAfterOk
  <1>1. IInv /\ RecordInv /\ [Next]_vars
          => [pc = "record" /\ pc' = "idle" /\ result' = "ok" => UpToDate']_vars
    <2> SUFFICES ASSUME IInv, RecordInv, Next,
                        pc = "record", pc' = "idle", result' = "ok"
                 PROVE  UpToDate'
      OBVIOUS
    <2>1. Commit
      <3>1. ~UserEdit /\ ~Reconfigure /\ ~Begin
        BY DEF UserEdit, Reconfigure, Begin, BeginUpToDate, BeginAll, BeginSome, StartWith
      <3>2. ~Open /\ ~IfacesDone /\ ~SourcesDone /\ ~Record /\ ~Crash
        BY DEF Open, IfacesDone, SourcesDone, Record, Crash
      <3>3. \A s \in Sources : ~Spawn(s) /\ ~SpawnError(s) /\ ~Reap(s)
        BY DEF Spawn, SpawnError, Reap
      <3>4. \A s \in Sources : ~Compiler(s)
        BY Running DEF Compiler, CompilerOk, CompilerFails
      <3>5. QED
        BY <3>1, <3>2, <3>3, <3>4 DEF Next, SteadyNext, Build, Autark
    <2>2. failed = {}
      BY <2>1 DEF Commit
    <2>3. QED
      BY <2>1, <2>2, CommitCurrent
  <1>2. QED
    BY Inductive, RecordHolds, <1>1, PTL DEF Spec, NothingToDoAfterOk

-----------------------------------------------------------------------------
(***************************************************************************)
(* The settings of trusted objects, when no setting ever returns.          *)
(***************************************************************************)

LEMMA OrderFacts ==
  ASSUME SettingsForward
  PROVE  FlagOrder \in Orders(Flags, Changes) /\ TargetOrder \in Orders(Targets, Switches)
  <1>1. \A S : S # {} => (CHOOSE R \in S : TRUE) \in S
    OBVIOUS
  <1>2. QED
    BY <1>1 DEF SettingsForward, FlagOrder, TargetOrder

\* A later value is not an earlier one.
LEMMA Forward ==
  ASSUME NEW V, NEW C, NEW R \in Orders(V, C), NEW u \in V, NEW v \in V, NEW w \in V,
         u = v \/ <<u, v>> \in R, v = w \/ <<v, w>> \in C
  PROVE  /\ u = w \/ <<u, w>> \in R
         /\ u = w => v = w
  <1>1. /\ \A p \in C : p[1] # p[2] => p \in R
        /\ \A x \in V : <<x, x>> \notin R
        /\ \A x, y, z \in V : <<x, y>> \in R /\ <<y, z>> \in R => <<x, z>> \in R
    BY DEF Orders
  <1>2. v # w => <<v, w>> \in R
    <2>1. v # w => <<v, w>>[1] # <<v, w>>[2]
      OBVIOUS
    <2>2. QED
      BY <1>1, <2>1
  <1>3. QED
    BY <1>1, <1>2

LEMMA OrderReconfigure ==
  ASSUME SettingsForward, TypeOK, OrderInv, Reconfigure, NEW d \in deps
  PROVE  /\ d.flags = flags' \/ <<d.flags, flags'>> \in FlagOrder
         /\ d.target = target' \/ <<d.target, target'>> \in TargetOrder
         /\ target' # Native => d.target # Native
         /\ d.flags = flags' => flags' = flags
         /\ d.target = target' => target' = target
  <1>1. /\ flags' = flags \/ <<flags, flags'>> \in Changes
        /\ target' = target \/ <<target, target'>> \in Switches
        /\ flags \in Flags /\ flags' \in Flags /\ target \in Targets /\ target' \in Targets
        /\ d.flags \in Flags
    BY DEF Reconfigure, TypeOK, DepsRec
  <1>2. /\ d.flags = flags \/ <<d.flags, flags>> \in FlagOrder
        /\ d.target = target \/ <<d.target, target>> \in TargetOrder
        /\ target # Native => d.target # Native
    BY DEF OrderInv
  <1>3. d.target \in Targets
    <2>1. TargetOrder \subseteq Targets \X Targets
      BY OrderFacts DEF Orders
    <2>2. QED
      BY <1>1, <1>2, <2>1
  <1>4. target' # Native => target # Native
    <2>1. \A p \in Switches : p[1] = Native => p[2] = Native
      BY DEF SettingsForward
    <2>2. CASE <<target, target'>> \in Switches
      <3>1. <<target, target'>>[1] = target /\ <<target, target'>>[2] = target'
        OBVIOUS
      <3>2. QED
        BY <2>1, <2>2, <3>1
    <2>3. QED
      BY <1>1, <2>2
  <1>5. /\ d.flags = flags' \/ <<d.flags, flags'>> \in FlagOrder
        /\ d.flags = flags' => flags = flags'
    BY <1>1, <1>2, OrderFacts, Forward
  <1>6. /\ d.target = target' \/ <<d.target, target'>> \in TargetOrder
        /\ d.target = target' => target = target'
    BY <1>1, <1>2, <1>3, OrderFacts, Forward
  <1>7. QED
    BY <1>2, <1>4, <1>5, <1>6

LEMMA OrderStep ==
  ASSUME SettingsForward, TypeOK, RecordInv, OrderInv, [Next]_vars
  PROVE  OrderInv'
  <1>1. CASE Reconfigure
    <2>1. deps' = deps
      BY <1>1 DEF Reconfigure, cache
    <2>2. QED
      BY <1>1, <2>1, OrderReconfigure DEF OrderInv
  <1>2. CASE Commit
    <2>1. /\ flags' = flags /\ target' = target
      BY <1>2 DEF Commit, world
    <2>2. ASSUME NEW e \in deps'
          PROVE  e.flags = flags /\ e.target = target
      <3>1. PICK d \in tmp :
              e = [d EXCEPT !.bmi = {i \in Ifaces : bmi[i] # "none"}, !.target = target]
        BY <1>2, <2>2 DEF Commit
      <3>2. d \in DepsRec /\ d.flags = flags
        BY DEF TypeOK, RecordInv
      <3>3. QED
        BY <3>1, <3>2 DEF DepsRec
    <2>3. QED
      BY <2>1, <2>2 DEF OrderInv
  <1>3. CASE UNCHANGED <<deps, flags, target>>
    BY <1>3 DEF OrderInv
  <1>4. Reconfigure \/ Commit \/ UNCHANGED <<deps, flags, target>>
    BY DEF Next, SteadyNext, Build, Begin, Autark, Compiler, UserEdit, Edit, EditSource,
           EditHeader, EditConsumed, BeginUpToDate, BeginAll, BeginSome, StartWith, Open,
           IfacesDone, SourcesDone, Record, Crash, Spawn, SpawnError, Reap, CompilerOk,
           CompilerFails, world, cache, vars
  <1>5. QED
    BY <1>1, <1>2, <1>3, <1>4

-----------------------------------------------------------------------------
\* An edit or a step of a build only takes trust away from a record.
LEMMA TrustedLess ==
  ASSUME TypeOK, TypeOK', flags' = flags, target' = target,
         \A s \in Sources : smt[s] <= smt'[s],
         \A h \in Headers : hmt[h] <= hmt'[h],
         \A a \in Consumes : amt[a] <= amt'[a],
         \A i \in Ifaces : bmi'[i] = "recorded" => bmi[i] = "recorded",
         NEW d \in DepsRec, NEW s \in Sources, Trusted(d, s)'
  PROVE  Trusted(d, s)
  <1>1. /\ smt \in [Sources -> Nat] /\ smt' \in [Sources -> Nat]
        /\ hmt \in [Headers -> Nat] /\ hmt' \in [Headers -> Nat]
        /\ amt \in [Consumes -> Nat] /\ amt' \in [Consumes -> Nat]
    BY DEF TypeOK
  <1>2. /\ d.src \in [Sources -> Nat] /\ d.inc \in [Sources -> SUBSET Headers]
        /\ d.hdr \in [Sources -> [Headers -> Nat]] /\ d.aux \in [Consumes -> Nat]
        /\ d.bmi \subseteq Ifaces
    BY DEF DepsRec
  <1>3. ASSUME NEW t \in Sources, SrcCurrent(d, t)' PROVE SrcCurrent(d, t)
    <2>1. smt'[t] <= d.src[t] /\ \A h \in d.inc[t] : hmt'[h] <= d.hdr[t][h]
      BY <1>3 DEF SrcCurrent
    <2>2. smt[t] <= d.src[t]
      BY <1>1, <1>2, <2>1
    <2>3. \A h \in d.inc[t] : h \in Headers /\ hmt[h] <= d.hdr[t][h]
      BY <1>1, <1>2, <2>1
    <2>4. QED
      BY <2>2, <2>3 DEF SrcCurrent
  <1>4. ~FilesOutdated(d)'
    BY DEF Trusted
  <1>5. \A a \in Consumes : ~(amt[a] > d.aux[a])
    <2>1. \A a \in Consumes : ~(amt'[a] > d.aux[a])
      BY <1>4 DEF FilesOutdated
    <2>2. QED
      BY <1>1, <1>2, <2>1
  <1>6. \A i \in Ifaces : SrcCurrent(d, i)
    BY <1>3, <1>4, NAssumption DEF FilesOutdated
  <1>7. \A i \in d.bmi : bmi[i] = "recorded"
    BY <1>2, <1>4 DEF FilesOutdated
  <1>8. ~FilesOutdated(d)
    BY <1>5, <1>6, <1>7 DEF FilesOutdated
  <1>9. QED
    BY <1>3, <1>8 DEF Trusted

\* Nothing is known of the sources of a process that does not run.
LEMMA SettledIdle ==
  ASSUME Quit
  PROVE  /\ pc' = "idle" /\ todo' = {}
         /\ \A s \in Sources : task'[s] = "none" /\ ~Finished(s)'
  BY DEF Quit, NoTask, Finished

LEMMA SettledEdit ==
  ASSUME IInv, SettledInv, UserEdit, TypeOK' PROVE SettledInv'
  <1>1. /\ pc = "idle" /\ todo = {} /\ task = NoTask
        /\ UNCHANGED <<flags, target, obj, tag, bmi, deps, pc, todo, pend, failed, task, img>>
    BY DEF UserEdit, Edit, EditSource, EditHeader, EditConsumed, IInv, IdleInv, cache
  <1>2. /\ \A s \in Sources : smt[s] <= smt'[s]
        /\ \A h \in Headers : hmt[h] <= hmt'[h]
        /\ \A a \in Consumes : amt[a] <= amt'[a]
    <2>1. /\ clock \in Nat /\ clock' = clock + 1
          /\ smt \in [Sources -> Nat] /\ hmt \in [Headers -> Nat] /\ amt \in [Consumes -> Nat]
      BY DEF UserEdit, Edit, EditSource, EditHeader, EditConsumed, IInv, TypeOK
    <2>2. /\ \A s \in Sources : smt'[s] = smt[s] \/ smt'[s] = clock + 1
          /\ \A h \in Headers : hmt'[h] = hmt[h] \/ hmt'[h] = clock + 1
          /\ \A a \in Consumes : amt'[a] = amt[a] \/ amt'[a] = clock + 1
      BY <2>1 DEF UserEdit, Edit, EditSource, EditHeader, EditConsumed
    <2>3. QED
      BY <2>1, <2>2 DEF IInv, ClockInv
  <1>3. \A d \in deps, s \in Sources : Trusted(d, s)' => Trusted(d, s)
    BY <1>1, <1>2, TrustedLess DEF IInv, TypeOK
  <1>4. \A s \in Sources : (Settled(s)' <=> Settled(s)) /\ ~Finished(s)' /\ task'[s] = "none"
    BY <1>1 DEF Settled, SettingsCurrent, Finished, NoTask
  <1>5. QED
    BY <1>1, <1>3, <1>4 DEF SettledInv

LEMMA SettledReconfigure ==
  ASSUME SettingsForward, IInv, OrderInv, SettledInv, Reconfigure PROVE SettledInv'
  <1>1. /\ pc = "idle" /\ todo = {} /\ task = NoTask
        /\ UNCHANGED <<smt, hmt, amt, obj, tag, bmi, deps, pc, todo, pend, failed, task, img>>
    BY DEF Reconfigure, IInv, IdleInv, cache
  <1>2. ASSUME NEW d \in deps, NEW s \in Sources, Trusted(d, s)' PROVE Settled(s)'
    <2>1. d.flags = flags' /\ d.target = target' /\ ~FilesOutdated(d)' /\ SrcCurrent(d, s)'
      BY <1>2 DEF Trusted
    <2>2. flags' = flags /\ target' = target
      BY <2>1, OrderReconfigure DEF IInv
    <2>3. ~FilesOutdated(d) /\ SrcCurrent(d, s)
      BY <1>1, <2>1 DEF FilesOutdated, SrcCurrent
    <2>4. Settled(s)
      BY <2>1, <2>2, <2>3 DEF Trusted, SettledInv
    <2>5. QED
      BY <1>1, <2>2, <2>4 DEF Settled, SettingsCurrent
  <1>3. \A s \in Sources : ~Finished(s)' /\ task'[s] = "none"
    BY <1>1 DEF Finished, NoTask
  <1>4. QED
    BY <1>1, <1>2, <1>3 DEF SettledInv

-----------------------------------------------------------------------------
\* The start of a build: what is not selected is trusted, and so settled.

LEMMA SettledStart ==
  ASSUME IInv, SettledInv, NEW S \in SUBSET Sources, StartWith(S),
         \A d \in deps, s \in S : ~Trusted(d, s),
         \A s \in Sources \ S : Settled(s)
  PROVE  SettledInv'
  <1>1. /\ todo' = S /\ pend' = S /\ task = NoTask
        /\ UNCHANGED <<smt, hmt, amt, flags, target, obj, tag, bmi, deps, task>>
    BY DEF StartWith, IInv, IdleInv, world, cache
  <1>2. /\ \A d, s : Trusted(d, s)' <=> Trusted(d, s)
        /\ \A s : Settled(s)' <=> Settled(s)
    BY <1>1 DEF Trusted, FilesOutdated, SrcCurrent, Settled, SettingsCurrent
  <1>3. \A s \in Sources : ~Finished(s)' /\ task'[s] = "none"
    BY <1>1 DEF Finished, NoTask
  <1>4. QED
    BY <1>1, <1>2, <1>3 DEF SettledInv

\* Only a native build records no toolchain, and only such builds follow it.
LEMMA SameTarget == ASSUME OrderInv, NEW d \in deps PROVE ~TargetChanged(d)
  BY DEF OrderInv, TargetChanged

LEMMA Vouch ==
  ASSUME OrderInv, NEW d \in deps, NEW s \in Sources
  PROVE  Vouched(d, s) <=> Trusted(d, s)
  BY DEF OrderInv, Vouched, Trusted, GroupOutdated, SettingsOutdated, TargetChanged

LEMMA SettledBeginAll ==
  ASSUME IInv, RecordInv, OrderInv, SettledInv, BeginAll PROVE SettledInv'
  <1>1. \A d \in deps : GroupOutdated(d)
    BY SameTarget DEF BeginAll, RecordInv
  <1>2. \A d \in deps, s \in Sources : ~Trusted(d, s)
    BY <1>1, Vouch DEF Vouched
  <1>3. StartWith(Sources)
    BY DEF BeginAll
  <1>4. QED
    BY <1>2, <1>3, SettledStart

LEMMA SettledBeginSome ==
  ASSUME IInv, RecordInv, OrderInv, SettledInv, BeginSome PROVE SettledInv'
  <1>1. PICK d \in deps : ~GroupOutdated(d) /\ StartWith(SourcesOutdated(d))
    BY DEF BeginSome
  <1>2. \A e \in deps : e = d
    BY <1>1 DEF RecordInv
  <1>3. \A s \in SourcesOutdated(d) : ~Trusted(d, s)
    BY DEF SourcesOutdated, Trusted
  <1>4. \A s \in Sources \ SourcesOutdated(d) : Settled(s)
    <2>1. \A s \in Sources \ SourcesOutdated(d) : Vouched(d, s)
      BY <1>1, SameTarget DEF SourcesOutdated, Vouched
    <2>2. QED
      BY <1>1, <2>1, Vouch DEF SettledInv
  <1>5. SourcesOutdated(d) \in SUBSET Sources
    BY DEF SourcesOutdated
  <1>6. QED
    BY <1>1, <1>2, <1>3, <1>4, <1>5, SettledStart

-----------------------------------------------------------------------------
(***************************************************************************)
(* The compilers.  A step of the pool only touches selected sources, which *)
(* no record trusts.                                                       *)
(***************************************************************************)

Work(s) ==
  /\ task[s] = "running" => \A o \in img[s] : SettingsCurrent(o)
  /\ Finished(s) => obj[s] # {} /\ \A o \in obj[s] : SettingsCurrent(o)
  /\ Finished(s) /\ task[s] = "none" => tag[s] = target

LEMMA SettledPool ==
  ASSUME IInv, TypeOK', SettledInv, pc # "idle",
         UNCHANGED <<smt, hmt, amt, flags, target, deps, todo>>,
         \A i \in Ifaces : bmi'[i] = "recorded" => bmi[i] = "recorded",
         \A s \in Sources \ todo : Settled(s)',
         \A s \in Sources : Work(s)'
  PROVE  SettledInv'
  <1>1. \A s \in Sources : /\ smt[s] <= smt'[s]
                           /\ todo \subseteq Sources
    BY DEF IInv, TypeOK
  <1>2. /\ \A h \in Headers : hmt[h] <= hmt'[h]
        /\ \A a \in Consumes : amt[a] <= amt'[a]
    BY DEF IInv, TypeOK
  <1>3. \A d \in deps, s \in Sources : Trusted(d, s)' => Trusted(d, s)
    <2>1. \A d \in deps : d \in DepsRec
      BY DEF IInv, TypeOK
    <2>2. QED
      BY <1>1, <1>2, <2>1, TrustedLess DEF IInv
  <1>4. \A d \in deps, s \in todo : ~Trusted(d, s)
    BY DEF SettledInv
  <1>5. todo \subseteq Sources
    BY DEF IInv, TypeOK
  <1>6. QED
    BY <1>3, <1>4, <1>5 DEF SettledInv, Work

\* A source whose files and compiler are as before.
LEMMA SettledSame ==
  ASSUME SettledInv, NEW s \in Sources, pc # "idle",
         UNCHANGED <<flags, target, todo>>,
         obj'[s] = obj[s], tag'[s] = tag[s], img'[s] = img[s], task'[s] = task[s],
         s \in pend <=> s \in pend', s \in failed <=> s \in failed'
  PROVE  Work(s)' /\ (s \notin todo => Settled(s)')
  BY DEF SettledInv, Work, Settled, SettingsCurrent, Finished

LEMMA SettledSpawn ==
  ASSUME IInv, TypeOK', SettledInv, NEW s \in Sources, Spawn(s) PROVE SettledInv'
  <1>1. /\ pc # "idle" /\ s \in pend /\ pend' = pend \ {s}
        /\ task' = [task EXCEPT ![s] = "running"] /\ img' = [img EXCEPT ![s] = {ImageNow(s)}]
        /\ UNCHANGED <<smt, hmt, amt, flags, target, deps, todo, bmi, obj, tag, failed>>
    BY DEF Spawn, Next1, Stage, world, cache
  <1>2. s \in todo
    BY <1>1 DEF IInv, TypeOK
  <1>3. \A t \in Sources \ {s} : Work(t)' /\ (t \notin todo => Settled(t)')
    BY <1>1, SettledSame DEF IInv, TypeOK
  <1>4. Work(s)'
    BY <1>1 DEF Work, Finished, SettingsCurrent, ImageNow, IInv, TypeOK
  <1>5. QED
    BY <1>1, <1>2, <1>3, <1>4, SettledPool

LEMMA SettledSpawnError ==
  ASSUME IInv, TypeOK', SettledInv, NEW s \in Sources, SpawnError(s) PROVE SettledInv'
  <1>1. /\ pc # "idle" /\ s \in pend /\ pend' = pend \ {s} /\ failed' = failed \cup {s}
        /\ UNCHANGED <<smt, hmt, amt, flags, target, deps, todo, bmi, obj, tag, task, img>>
    BY DEF SpawnError, Next1, Stage, world, cache
  <1>2. s \in todo /\ task[s] # "running"
    BY <1>1, Running DEF IInv, TypeOK
  <1>3. \A t \in Sources \ {s} : Work(t)' /\ (t \notin todo => Settled(t)')
    BY <1>1, SettledSame
  <1>4. Work(s)'
    BY <1>1, <1>2 DEF Work, Finished
  <1>5. QED
    BY <1>1, <1>2, <1>3, <1>4, SettledPool

\* An importer outdated by a new BMI keeps its settings.
LEMMA OutdateSettings ==
  ASSUME NEW f \in [Sources -> SUBSET Image], NEW i \in Ifaces, NEW s \in Sources
  PROVE  /\ (\A o \in f[s] : SettingsCurrent(o)) => \A o \in Outdate(f, i)[s] : SettingsCurrent(o)
         /\ f[s] # {} => Outdate(f, i)[s] # {}
  <1>1. \A o \in f[s] : /\ [o EXCEPT !.old = @ \cup {i}].flags = o.flags
                        /\ [o EXCEPT !.old = @ \cup {i}].target = o.target
    BY DEF Image
  <1>2. Outdate(f, i)[s] = IF i \in Imports(s)
                           THEN {[o EXCEPT !.old = @ \cup {i}] : o \in f[s]} ELSE f[s]
    BY DEF Outdate
  <1>3. CASE i \in Imports(s)
    <2>1. Outdate(f, i)[s] = {[o EXCEPT !.old = @ \cup {i}] : o \in f[s]}
      BY <1>2, <1>3
    <2>2. ASSUME NEW q \in Outdate(f, i)[s]
          PROVE  \E o \in f[s] : q.flags = o.flags /\ q.target = o.target
      BY <1>1, <2>1, <2>2
    <2>3. f[s] # {} => Outdate(f, i)[s] # {}
      BY <2>1
    <2>4. QED
      BY <2>2, <2>3 DEF SettingsCurrent
  <1>4. CASE i \notin Imports(s)
    BY <1>2, <1>4
  <1>5. QED
    BY <1>3, <1>4

LEMMA SettledCompilerOk ==
  ASSUME IInv, TypeOK', SettledInv, NEW s \in Sources, CompilerOk(s) PROVE SettledInv'
  <1> DEFINE wobj == [obj EXCEPT ![s] = img[s]]
             wimg == [img EXCEPT ![s] = {}]
  <1>1. /\ task[s] = "running" /\ task' = [task EXCEPT ![s] = "exit0"]
        /\ UNCHANGED <<smt, hmt, amt, flags, target, deps, todo, pend, tag, failed>>
        /\ s \in Ifaces => bmi' = [bmi EXCEPT ![s] = "new"]
                          /\ obj' = Outdate(wobj, s) /\ img' = Outdate(wimg, s)
        /\ s \notin Ifaces => bmi' = bmi /\ obj' = wobj /\ img' = wimg
    BY DEF CompilerOk, world
  <1>2. pc # "idle" /\ s \in todo /\ s \notin pend /\ s \notin failed
    BY <1>1, Running
  <1>3. /\ wobj \in [Sources -> SUBSET Image] /\ wimg \in [Sources -> SUBSET Image]
        /\ wobj[s] = img[s] /\ img[s] # {}
        /\ \A t \in Sources \ {s} : wobj[t] = obj[t] /\ wimg[t] = img[t]
        /\ \A o \in wobj[s] : SettingsCurrent(o)
    BY <1>1 DEF IInv, TypeOK, WorkInv, SettledInv
  <1>4. \A t \in Sources :
          /\ (\A o \in wobj[t] : SettingsCurrent(o)) => \A o \in obj'[t] : SettingsCurrent(o)
          /\ (\A o \in wimg[t] : SettingsCurrent(o)) => \A o \in img'[t] : SettingsCurrent(o)
          /\ wobj[t] # {} => obj'[t] # {}
    <2>1. CASE s \in Ifaces
      <3>1. obj' = Outdate(wobj, s) /\ img' = Outdate(wimg, s)
        BY <1>1, <2>1
      <3>2. wobj \in [Sources -> SUBSET Image] /\ wimg \in [Sources -> SUBSET Image]
        BY <1>3
      <3> HIDE DEF wobj, wimg
      <3>3. QED
        BY <2>1, <3>1, <3>2, OutdateSettings
    <2>2. CASE s \notin Ifaces
      BY <1>1, <2>2
    <2>3. QED
      BY <2>1, <2>2
  <1>5. \A o : SettingsCurrent(o)' <=> SettingsCurrent(o)
    BY <1>1 DEF SettingsCurrent
  <1>6. ASSUME NEW t \in Sources \ {s}
        PROVE  /\ Work(t)' /\ (t \notin todo => Settled(t)')
    <2>1. /\ task'[t] = task[t] /\ tag'[t] = tag[t] /\ (Finished(t)' <=> Finished(t))
      BY <1>1 DEF IInv, TypeOK, Finished
    <2>2. Settled(t) => Settled(t)'
      BY <1>1, <1>3, <1>4, <1>5, <2>1 DEF Settled
    <2>3. Work(t)'
      BY <1>1, <1>3, <1>4, <1>5, <2>1 DEF Work, SettledInv
    <2>4. QED
      BY <1>2, <2>2, <2>3 DEF SettledInv
  <1>7. Work(s)'
    <2>1. task'[s] = "exit0"
      BY <1>1 DEF IInv, TypeOK
    <2>2. obj'[s] # {} /\ \A o \in obj'[s] : SettingsCurrent(o)'
      BY <1>3, <1>4, <1>5
    <2>3. QED
      BY <2>1, <2>2 DEF Work
  <1>8. \A i \in Ifaces : bmi'[i] = "recorded" => bmi[i] = "recorded"
    BY <1>1 DEF IInv, TypeOK
  <1>9. QED
    BY <1>1, <1>2, <1>6, <1>7, <1>8, SettledPool

LEMMA SettledCompilerFails ==
  ASSUME IInv, TypeOK', SettledInv, NEW s \in Sources, CompilerFails(s) PROVE SettledInv'
  <1>1. /\ task[s] = "running" /\ task' = [task EXCEPT ![s] = "exit1"]
        /\ img' = [img EXCEPT ![s] = {}]
        /\ UNCHANGED <<smt, hmt, amt, flags, target, deps, todo, pend, tag, failed>>
        /\ \A t \in Sources \ {s} : obj'[t] = obj[t]
        /\ \A i \in Ifaces : bmi'[i] = "recorded" => bmi[i] = "recorded"
    BY DEF CompilerFails, world, IInv, TypeOK
  <1>2. pc # "idle" /\ s \in todo
    BY <1>1, Running
  <1>3. \A t \in Sources \ {s} : Work(t)' /\ (t \notin todo => Settled(t)')
    BY <1>1, <1>2, SettledSame DEF IInv, TypeOK
  <1>4. Work(s)'
    BY <1>1 DEF Work, Finished, IInv, TypeOK
  <1>5. QED
    BY <1>1, <1>2, <1>3, <1>4, SettledPool

LEMMA SettledReap ==
  ASSUME IInv, TypeOK', SettledInv, NEW s \in Sources, Reap(s) PROVE SettledInv'
  <1>1. /\ pc # "idle" /\ task[s] \in {"exit0", "exit1"} /\ task' = [task EXCEPT ![s] = "none"]
        /\ UNCHANGED <<smt, hmt, amt, flags, target, deps, todo, pend, bmi, obj, img>>
        /\ task[s] = "exit0" => tag' = [tag EXCEPT ![s] = target] /\ failed' = failed
        /\ task[s] = "exit1" => failed' = failed \cup {s} /\ tag' = tag
    BY DEF Reap, world
  <1>2. s \in todo
    <2>1. s \in Tasks
      BY <1>1 DEF Tasks
    <2>2. QED
      BY <2>1 DEF IInv, StageInv
  <1>3. \A t \in Sources \ {s} : Work(t)' /\ (t \notin todo => Settled(t)')
    BY <1>1, SettledSame DEF IInv, TypeOK
  <1>4. Work(s)'
    <2>1. CASE task[s] = "exit0"
      <3>1. Finished(s)' => Finished(s)
        BY <1>1, <2>1 DEF Finished
      <3>2. task'[s] = "none" /\ tag'[s] = target'
        BY <1>1, <2>1 DEF IInv, TypeOK
      <3>3. QED
        BY <1>1, <3>1, <3>2 DEF Work, SettledInv, SettingsCurrent
    <2>2. CASE task[s] = "exit1"
      BY <1>1, <2>2 DEF Work, Finished, IInv, TypeOK
    <2>3. QED
      BY <1>1, <2>1, <2>2
  <1>5. QED
    BY <1>1, <1>2, <1>3, <1>4, SettledPool

LEMMA SettledElse ==
  ASSUME IInv, TypeOK', SettledInv, Open \/ IfacesDone \/ SourcesDone \/ Record
  PROVE  SettledInv'
  <1>1. /\ pc # "idle"
        /\ UNCHANGED <<smt, hmt, amt, flags, target, deps, todo, pend, bmi, obj, tag,
                       img, task, failed>>
    BY DEF Open, IfacesDone, SourcesDone, Record, world, cache
  <1>2. \A t \in Sources : Work(t)' /\ (t \notin todo => Settled(t)')
    BY <1>1, SettledSame
  <1>3. QED
    BY <1>1, <1>2, SettledPool

-----------------------------------------------------------------------------
\* The end of a build.

LEMMA SettledCrash == ASSUME IInv, TypeOK', SettledInv, Crash PROVE SettledInv'
  <1>1. /\ pc # "idle" /\ UNCHANGED <<smt, hmt, amt, flags, target, deps, tag>>
        /\ \A s \in Sources : task[s] # "running" => obj'[s] = obj[s]
        /\ \A i \in Ifaces : bmi'[i] = "recorded" => bmi[i] = "recorded"
    BY DEF Crash, world
  <1>2. /\ todo' = {} /\ pc' = "idle" /\ \A s \in Sources : task'[s] = "none" /\ ~Finished(s)'
    BY SettledIdle DEF Crash
  <1>3. ASSUME NEW d \in deps, NEW s \in Sources, Trusted(d, s)' PROVE Settled(s)'
    <2>1. Trusted(d, s)
      <3>1. /\ d \in DepsRec /\ TypeOK
            /\ smt \in [Sources -> Nat] /\ hmt \in [Headers -> Nat] /\ amt \in [Consumes -> Nat]
        BY DEF IInv, TypeOK
      <3>2. /\ \A t \in Sources : smt[t] <= smt'[t]
            /\ \A h \in Headers : hmt[h] <= hmt'[h]
            /\ \A a \in Consumes : amt[a] <= amt'[a]
        BY <1>1, <3>1
      <3>3. QED
        BY <1>1, <1>3, <3>1, <3>2, TrustedLess
    <2>2. s \notin todo /\ Settled(s)
      BY <2>1 DEF SettledInv
    <2>3. task[s] # "running"
      BY <2>2, Running
    <2>4. QED
      BY <1>1, <2>2, <2>3 DEF Settled, SettingsCurrent
  <1>4. QED
    BY <1>1, <1>2, <1>3 DEF SettledInv

\* When a build ends, all its sources but the failed ones are settled, unless
\* an interface failed and the others were skipped.
LEMMA RecordSettled ==
  ASSUME IInv, SettledInv, pc = "record", Ifaces \cap failed = {},
         NEW s \in Sources, s \notin failed
  PROVE  Settled(s)
  <1>1. CASE s \notin todo
    BY <1>1 DEF SettledInv
  <1>2. CASE s \in todo
    <2>1. Tasks = {} /\ pend = {}
      BY DEF IInv, StageInv
    <2>2. task[s] = "none"
      BY <2>1 DEF Tasks
    <2>3. Finished(s)
      BY <1>2, <2>1, <2>2 DEF Finished
    <2>4. QED
      BY <2>2, <2>3 DEF SettledInv, Settled
  <1>3. QED
    BY <1>1, <1>2

LEMMA SettledCommit == ASSUME IInv, SettledInv, Commit PROVE SettledInv'
  <1> DEFINE built == {i \in Ifaces : bmi[i] # "none"}
  <1>1. /\ pc = "record" /\ recno = N + 1
        /\ UNCHANGED <<smt, hmt, amt, incl, flags, target, obj, tag>>
    <2>1. recno \in 1 .. N + 1 /\ recno \notin Sources
      BY DEF Commit, IInv, TypeOK
    <2>2. recno = N + 1
      BY <2>1, NAssumption DEF Sources
    <2>3. QED
      BY <2>2 DEF Commit, world
  <1>2. /\ todo' = {} /\ pc' = "idle" /\ \A s \in Sources : task'[s] = "none" /\ ~Finished(s)'
    BY SettledIdle DEF Commit
  <1>3. ASSUME NEW e \in deps', NEW s \in Sources, Trusted(e, s)' PROVE Settled(s)'
    <2>1. PICK d \in tmp : e = [d EXCEPT !.bmi = built, !.target = target]
      BY DEF Commit
    <2>2. d \in DepsRec
      BY DEF IInv, TypeOK
    <2>3. e.src = d.src
      BY <2>1, <2>2 DEF DepsRec
    <2>4. \A t \in failed : e.src[t] = 0
      BY <1>1, <2>1, <2>3, NAssumption DEF IInv, TypeOK, TmpInv, Sources
    <2>5. \A t \in Sources : SrcCurrent(e, t)' => t \notin failed
      <3>1. \A t \in Sources : smt'[t] \in Nat \ {0}
        BY <1>1 DEF IInv, TypeOK
      <3>2. QED
        BY <2>4, <3>1 DEF SrcCurrent
    <2>6. s \notin failed /\ Ifaces \cap failed = {}
      BY <1>3, <2>5, NAssumption DEF Trusted, FilesOutdated
    <2>7. Settled(s)
      BY <1>1, <2>6, RecordSettled
    <2>8. QED
      BY <1>1, <2>7 DEF Settled, SettingsCurrent
  <1>4. QED
    BY <1>2, <1>3 DEF SettledInv

LEMMA SettledStep ==
  ASSUME SettingsForward, IInv, TypeOK', RecordInv, OrderInv, SettledInv, [Next]_vars
  PROVE  SettledInv'
  <1>1. CASE UserEdit \/ Reconfigure
    BY <1>1, SettledEdit, SettledReconfigure
  <1>2. CASE BeginUpToDate \/ UNCHANGED vars
    <2>1. UNCHANGED <<smt, hmt, amt, flags, target, obj, tag, bmi, deps, pc, todo, pend,
                      task, img, failed>>
      BY <1>2 DEF BeginUpToDate, world, cache, vars
    <2>2. QED
      BY <2>1 DEF SettledInv, Trusted, FilesOutdated, SrcCurrent, Settled, SettingsCurrent,
                  Finished
  <1>3. CASE BeginAll \/ BeginSome
    BY <1>3, SettledBeginAll, SettledBeginSome
  <1>4. CASE Open \/ IfacesDone \/ SourcesDone \/ Record
    BY <1>4, SettledElse
  <1>5. CASE \E s \in Sources : Spawn(s) \/ SpawnError(s) \/ Reap(s)
    BY <1>5, SettledSpawn, SettledSpawnError, SettledReap
  <1>6. CASE \E s \in Sources : CompilerOk(s) \/ CompilerFails(s)
    BY <1>6, SettledCompilerOk, SettledCompilerFails
  <1>7. CASE Commit \/ Crash
    BY <1>7, SettledCommit, SettledCrash
  <1>8. QED
    BY <1>1, <1>2, <1>3, <1>4, <1>5, <1>6, <1>7
    DEF Next, SteadyNext, Build, Begin, Autark, Compiler

-----------------------------------------------------------------------------
\* What a successful invocation leaves behind, whichever way it succeeds.

LEMMA UpToDateSettled ==
  ASSUME IInv, OrderInv, SettledInv, UpToDate, NEW s \in Sources
  PROVE  Settled(s) /\ Good(s)
  <1>1. PICK d \in deps : ~GroupOutdated(d) /\ SourcesOutdated(d) = {} /\ ~TargetChanged(d)
    BY DEF UpToDate
  <1>2. Vouched(d, s)
    BY <1>1 DEF SourcesOutdated, Vouched
  <1>3. Trusted(d, s)
    BY <1>2, Vouch
  <1>4. QED
    BY <1>3 DEF SettledInv, IInv, DepsInv, Trusted

LEMMA CommitSettled ==
  ASSUME IInv, SettledInv, Commit, failed = {}, NEW s \in Sources
  PROVE  Settled(s) /\ Good(s)
  <1>1. pc = "record"
    BY DEF Commit
  <1>2. Settled(s)
    BY <1>1, RecordSettled
  <1>3. CASE s \in todo
    <2>1. Tasks = {} /\ pend = {}
      BY <1>1 DEF IInv, StageInv
    <2>2. Finished(s)
      BY <1>3, <2>1 DEF Finished, Tasks
    <2>3. QED
      BY <1>2, <2>2 DEF IInv, WorkInv
  <1>4. CASE s \notin todo
    BY <1>1, <1>2, <1>4 DEF IInv, TodoInv, DepsInv
  <1>5. QED
    BY <1>3, <1>4

LEMMA TagStep ==
  ASSUME IInv, OrderInv, SettledInv, TagInv, [Next]_vars
  PROVE  TagInv'
  <1>1. CASE BeginUpToDate
    <2>1. pc' = "idle" /\ UNCHANGED <<obj, tag>> /\ UpToDate
      BY <1>1 DEF BeginUpToDate, cache
    <2>2. QED
      BY <2>1, UpToDateSettled DEF TagInv, TagTruth, Settled, SettingsCurrent
  <1>2. CASE Commit
    <2>1. pc' = "idle" /\ UNCHANGED <<obj, tag>> /\ (result' = "ok" => failed = {})
      BY <1>2 DEF Commit, Quit
    <2>2. QED
      BY <1>2, <2>1, CommitSettled DEF TagInv, TagTruth, Settled, SettingsCurrent
  <1>3. CASE UserEdit \/ Reconfigure \/ UNCHANGED vars
    <2>1. UNCHANGED <<pc, obj, tag, result>>
      BY <1>3 DEF UserEdit, Reconfigure, cache, vars
    <2>2. QED
      BY <2>1 DEF TagInv, TagTruth
  <1>4. CASE BeginAll \/ BeginSome \/ Crash
    BY <1>4 DEF BeginAll, BeginSome, StartWith, Crash, TagInv
  <1>5. CASE pc # "idle" /\ UNCHANGED result
    BY <1>5 DEF TagInv
  <1>6. Open \/ IfacesDone \/ SourcesDone \/ Record => pc # "idle" /\ UNCHANGED result
    BY DEF Open, IfacesDone, SourcesDone, Record
  <1>7. ASSUME NEW s \in Sources, Spawn(s) \/ SpawnError(s) \/ Reap(s) \/ Compiler(s)
        PROVE  pc # "idle" /\ UNCHANGED result
    BY <1>7, Running DEF Spawn, SpawnError, Reap, Compiler, CompilerOk, CompilerFails
  <1>8. QED
    BY <1>1, <1>2, <1>3, <1>4, <1>5, <1>6, <1>7 DEF Next, SteadyNext, Build, Begin, Autark

LEMMA SettingsInit == Init => OrderInv /\ SettledInv /\ TagInv
  <1> SUFFICES ASSUME Init PROVE OrderInv /\ SettledInv /\ TagInv
    OBVIOUS
  <1>1. OrderInv /\ TagInv
    BY DEF Init, OrderInv, TagInv
  <1>2. \A s \in Sources : ~Finished(s) /\ task[s] = "none"
    BY DEF Init, Finished, NoTask
  <1>3. SettledInv
    BY <1>2 DEF Init, SettledInv
  <1>4. QED
    BY <1>1, <1>3

\* The inductive invariant: what the record trusts, and so what a build leaves
\* out, has an object and a tag of the present settings.
THEOREM SettingsInductive == ASSUME SettingsForward PROVE Spec => []SInv
  <1>1. IInv /\ TypeOK' /\ RecordInv /\ OrderInv /\ SettledInv /\ TagInv /\ [Next]_vars
          => OrderInv' /\ SettledInv' /\ TagInv'
    BY OrderStep, SettledStep, TagStep DEF IInv
  <1>2. QED
    BY Inductive, TypeCorrect, RecordHolds, SettingsInit, <1>1, PTL DEF Spec, SInv

\* An object that no record makes the next build recompile exists and was made
\* with the recorded node values by the toolchain of this build, although a
\* build that recompiles some sources records the settings for all of them.
THEOREM SettingsStayFresh == ASSUME SettingsForward PROVE Spec => []SettingsFresh
  <1>1. SInv => SettingsFresh
    BY Vouch DEF SInv, SettledInv, Settled, SettingsFresh
  <1>2. QED
    BY SettingsInductive, <1>1, PTL

\* The tag a link rule checks names the toolchain of the object: a kill between
\* the compiler's exit and the tag is repaired before a build succeeds.
THEOREM TagsTrue == ASSUME SettingsForward PROVE Spec => []TagTruth
  <1>1. SInv => TagTruth
    BY DEF SInv, TagInv, TagTruth
  <1>2. QED
    BY SettingsInductive, <1>1, PTL

-----------------------------------------------------------------------------
(***************************************************************************)
(* The rule implements the promise of an incremental rule (Rebuild).       *)
(***************************************************************************)

LEMMA NotStale == ASSUME \A s \in Sources : Settled(s) /\ Good(s) PROVE Stale = {}
  BY DEF Stale, Settled, Good

LEMMA StaleFrame ==
  ASSUME UNCHANGED <<smt, hmt, amt, incl, flags, target, obj>>
  PROVE  UNCHANGED Stale
  BY DEF Stale, ContentCurrent, SettingsCurrent

LEMMA PromiseInit == Init => Promise!Init
  BY DEF Init, Promise!Init, Stale

LEMMA PromiseSucceeds ==
  ASSUME IInv, OrderInv, SettledInv, BeginUpToDate \/ (Commit /\ failed = {})
  PROVE  Promise!Next
  <1>1. Stale = {}
    BY NotStale, UpToDateSettled, CommitSettled DEF BeginUpToDate
  <1>2. UNCHANGED Stale
    BY StaleFrame DEF BeginUpToDate, Commit, world, cache
  <1>3. CASE BeginUpToDate
    BY <1>1, <1>2, <1>3 DEF BeginUpToDate, Promise!Next, Promise!Skip
  <1>4. CASE Commit /\ failed = {}
    BY <1>1, <1>2, <1>4 DEF Commit, Quit, Promise!Next, Promise!Succeed
  <1>5. QED
    BY <1>3, <1>4

LEMMA PromiseGivesUp ==
  ASSUME IInv, Crash \/ (Commit /\ failed # {})
  PROVE  Promise!Next
  <1>1. CASE Crash
    <2>1. pc # "idle" /\ pc' = "idle" /\ result' = "killed"
      BY <1>1 DEF Crash, Quit
    <2>2. \A s \in Sources : obj'[s] \subseteq obj[s]
      BY <1>1 DEF Crash
    <2>3. UNCHANGED <<smt, hmt, amt, incl, flags, target>>
      BY <1>1 DEF Crash, world
    <2>4. Stale \subseteq Stale' /\ Stale' \in SUBSET Sources
      <3>1. ASSUME NEW s \in Stale PROVE s \in Stale'
        <4>1. s \in Sources /\ \A o \in obj[s] : ~(ContentCurrent(s, o) /\ SettingsCurrent(o))
          BY <3>1 DEF Stale
        <4>2. ASSUME NEW o \in obj'[s]
              PROVE  ~(ContentCurrent(s, o)' /\ SettingsCurrent(o)')
          <5>1. o \in obj[s]
            BY <2>2, <4>1
          <5>2. ~(ContentCurrent(s, o) /\ SettingsCurrent(o))
            BY <4>1, <5>1
          <5>3. /\ ContentCurrent(s, o)' <=> ContentCurrent(s, o)
                /\ SettingsCurrent(o)' <=> SettingsCurrent(o)
            BY <2>3 DEF ContentCurrent, SettingsCurrent
          <5>4. QED
            BY <5>2, <5>3
        <4>3. QED
          BY <4>1, <4>2 DEF Stale
      <3>2. QED
        BY <3>1 DEF Stale
    <2>5. QED
      BY <2>1, <2>4 DEF Promise!Next, Promise!GiveUp
  <1>2. CASE Commit /\ failed # {}
    <2>1. pc # "idle" /\ pc' = "idle" /\ result' = "fail"
      BY <1>2 DEF Commit, Quit
    <2>2. UNCHANGED Stale
      BY <1>2, StaleFrame DEF Commit, world
    <2>3. QED
      BY <2>1, <2>2 DEF Promise!Next, Promise!GiveUp
  <1>3. QED
    BY <1>1, <1>2

LEMMA PromiseStep ==
  ASSUME IInv, OrderInv, SettledInv, [Next]_vars
  PROVE  [Promise!Next]_(Promise!vars)
  <1>1. Stale \in SUBSET Sources /\ Stale' \in SUBSET Sources
    BY DEF Stale
  <1>2. CASE UserEdit \/ Reconfigure
    <2>1. pc = "idle" /\ UNCHANGED <<pc, result>>
      BY <1>2 DEF UserEdit, Reconfigure
    <2>2. QED
      BY <1>1, <2>1 DEF Promise!Next, Promise!Change
  <1>3. CASE BeginUpToDate \/ (Commit /\ failed = {})
    BY <1>3, PromiseSucceeds
  <1>4. CASE BeginAll \/ BeginSome
    <2>1. pc = "idle" /\ pc' = "open" /\ result' = "none"
      BY <1>4 DEF BeginAll, BeginSome, StartWith
    <2>2. UNCHANGED Stale
      BY <1>4, StaleFrame DEF BeginAll, BeginSome, StartWith, world, cache
    <2>3. QED
      BY <2>1, <2>2 DEF Promise!Next, Promise!Start
  <1>5. CASE pc # "idle" /\ pc' # "idle" /\ UNCHANGED result
    BY <1>1, <1>5 DEF Promise!Next, Promise!Work
  <1>6. Open \/ IfacesDone \/ SourcesDone \/ Record
          => pc # "idle" /\ pc' # "idle" /\ UNCHANGED result
    BY DEF Open, IfacesDone, SourcesDone, Record
  <1>7. ASSUME NEW s \in Sources, Spawn(s) \/ SpawnError(s) \/ Reap(s) \/ Compiler(s)
        PROVE  pc # "idle" /\ pc' # "idle" /\ UNCHANGED result
    BY <1>7, Running DEF Spawn, SpawnError, Reap, Compiler, CompilerOk, CompilerFails
  <1>8. CASE Crash \/ (Commit /\ failed # {})
    BY <1>8, PromiseGivesUp
  <1>9. CASE UNCHANGED vars
    <2>1. UNCHANGED <<pc, result>> /\ UNCHANGED Stale
      BY <1>9, StaleFrame DEF vars
    <2>2. QED
      BY <2>1 DEF Promise!vars
  <1>10. ASSUME NEW s \in Sources, Spawn(s) \/ SpawnError(s) \/ Reap(s) \/ Compiler(s)
         PROVE  [Promise!Next]_(Promise!vars)
    BY <1>5, <1>7, <1>10
  <1>11. CASE Open \/ IfacesDone \/ SourcesDone \/ Record
    BY <1>5, <1>6, <1>11
  <1>12. QED
    BY <1>2, <1>3, <1>4, <1>8, <1>9, <1>10, <1>11
    DEF Next, SteadyNext, Build, Begin, Autark

\* Every behaviour of the rule, with whatever edits, failures and kills, is one
\* of the promise: success is only reported when no object is stale.
THEOREM CcRulePromise == ASSUME SettingsForward PROVE Spec => KeepsPromise
  <1>1. SInv /\ [Next]_vars => [Promise!Next]_(Promise!vars)
    BY PromiseStep DEF SInv
  <1>2. QED
    BY SettingsInductive, PromiseInit, <1>1, PTL DEF Spec, KeepsPromise, Promise!Spec
=============================================================================
