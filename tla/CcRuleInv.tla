----------------------------- MODULE CcRuleInv -----------------------------
(***************************************************************************)
(* The inductive invariant behind ContentFresh: what holds between two     *)
(* builds of what .deps vouches for, and what every stage of a build has   *)
(* established of the sources it has dealt with.                           *)
(***************************************************************************)
EXTENDS CcRule

\* No recorded time is later than the clock, so every edit is noticed.
ClockInv ==
  /\ \A s \in Sources : smt[s] <= clock
  /\ \A h \in Headers : hmt[h] <= clock
  /\ \A a \in Consumes : amt[a] <= clock
  /\ \A d \in deps \cup tmp :
       /\ \A s \in Sources : d.src[s] <= clock
       /\ \A s \in Sources, h \in Headers : d.hdr[s][h] <= clock
       /\ \A a \in Consumes : d.aux[a] <= clock

\* The object and the .d file of s belong to the present contents.
Good(s) ==
  /\ dfile[s] = incl[s]
  /\ \A o \in obj[s] : ContentCurrent(s, o)

\* What .deps vouches for is good, and lists what its objects depend on.
DepsInv ==
  \A d \in deps : ~FilesOutdated(d) =>
    /\ d.bmi = Ifaces
    /\ \A s \in Sources : SrcCurrent(d, s) => Good(s) /\ d.inc[s] = incl[s]

\* A process that is not running has no state.
IdleInv ==
  pc = "idle" => /\ todo = {} /\ pend = {} /\ failed = {}
                 /\ task = NoTask /\ img = NoImg /\ tmp = {} /\ recno = 1

\* A source that was not selected is vouched for by .deps.
TodoInv ==
  pc # "idle" =>
    /\ \A s \in Sources \ todo : \E d \in deps : ~FilesOutdated(d) /\ SrcCurrent(d, s)
    /\ todo = Sources \/ Ifaces \cap todo = {}

\* Which sources are waiting, being compiled, or failed at each stage.
StageInv ==
  /\ Tasks \cap pend = {} /\ failed \cap pend = {} /\ failed \cap Tasks = {}
  /\ Tasks \subseteq todo /\ failed \subseteq todo
  /\ pc = "open" => pend = todo
  /\ pc = "ifaces" =>
       /\ todo \ Ifaces \subseteq pend
       /\ \A s, t \in Tasks : s = t
       /\ \A i \in Ifaces \cap pend, j \in Ifaces \cap (todo \ pend) : j < i
       /\ \A i \in Tasks, j \in Ifaces \cap (todo \ pend) : j <= i
  /\ pc = "sources" => Ifaces \cap (pend \cup Tasks \cup failed) = {}
  /\ pc = "record" =>
       /\ Tasks = {} /\ Ifaces \cap pend = {}
       /\ pend # {} => Ifaces \cap failed # {}

\* A source that has been compiled is good, one being compiled will be.
Finished(s) == s \in todo \ (pend \cup failed) /\ task[s] \in {"none", "exit0"}

WorkInv ==
  \A s \in Sources :
    /\ Finished(s) => Good(s) /\ (s \in Ifaces => bmi[s] # "none")
    /\ task[s] = "running" => /\ img[s] # {}
                              /\ \A o \in img[s] : ContentCurrent(s, o)

\* What .deps.tmp holds so far.
TmpInv ==
  \A d \in tmp :
    /\ d.aux = amt
    /\ \A s \in Sources : pc = "record" /\ s < recno =>
         IF s \in failed THEN d.src[s] = 0
                         ELSE d.src[s] = smt[s] /\ d.inc[s] = dfile[s]

\* A failed build leaves a record with a source of time 0, which is earlier
\* than any modification time: the invariant behind FailedStaysOutdated.
RetryInv ==
  /\ pc # "record" => recno = 1
  /\ \A d \in tmp, s \in failed : pc = "record" /\ s < recno => d.src[s] = 0
  /\ result = "fail" => /\ pc = "idle"
                        /\ \A d \in deps : \E s \in Sources : d.src[s] = 0

\* The inductive invariant of Spec that implies ContentFresh.
IInv == /\ TypeOK /\ ClockInv /\ DepsInv /\ IdleInv /\ TodoInv
        /\ StageInv /\ WorkInv /\ TmpInv

-----------------------------------------------------------------------------
(***************************************************************************)
(* The settings of a build: node values and toolchain.  They are recorded  *)
(* once for all sources, so a record can only be trusted if a value never  *)
(* returns after a build with another one was killed.                      *)
(***************************************************************************)

\* Orders in which the values V can follow each other without coming back.
Orders(V, C) ==
  {R \in SUBSET (V \X V) :
     /\ \A p \in C : p[1] # p[2] => p \in R
     /\ \A v \in V : <<v, v>> \notin R
     /\ \A u, v, w \in V : <<u, v>> \in R /\ <<v, w>> \in R => <<u, w>> \in R}

FlagOrder   == CHOOSE R \in Orders(Flags, Changes) : TRUE
TargetOrder == CHOOSE R \in Orders(Targets, Switches) : TRUE

\* No setting returns, and no build for a toolchain follows a native one.
SettingsForward ==
  /\ Orders(Flags, Changes) # {} /\ Orders(Targets, Switches) # {}
  /\ \A p \in Switches : p[1] = Native => p[2] = Native

\* At most one record; the one being written has the present settings, and
\* the present times of every source recorded as compiled.
RecordInv ==
  /\ \A d, e \in deps : d = e
  /\ \A d, e \in tmp : d = e
  /\ pc \in {"ifaces", "sources", "record"} => tmp # {}
  /\ \A d \in tmp :
       /\ d.flags = flags
       /\ \A s \in Sources \ failed : pc = "record" /\ s < recno => d.hdr[s] = hmt

\* The record of the last build is not from later settings.
OrderInv ==
  \A d \in deps :
    /\ d.flags = flags \/ <<d.flags, flags>> \in FlagOrder
    /\ d.target = target \/ <<d.target, target>> \in TargetOrder
    /\ target # Native => d.target # Native

\* The record takes the object of s for one of this build.
Trusted(d, s) ==
  ~FilesOutdated(d) /\ SrcCurrent(d, s) /\ d.flags = flags /\ d.target = target

\* The object of s exists, and it and its tag are of this build.
Settled(s) ==
  obj[s] # {} /\ (\A o \in obj[s] : SettingsCurrent(o)) /\ tag[s] = target

\* What the record trusts is settled; a selected source is not trusted, so a
\* build that is killed spoils nothing; what has been compiled is settled.
SettledInv ==
  /\ \A d \in deps, s \in Sources : Trusted(d, s) => Settled(s)
  /\ \A d \in deps, s \in todo : ~Trusted(d, s)
  /\ pc # "idle" => \A s \in Sources \ todo : Settled(s)
  /\ \A s \in Sources :
       /\ task[s] = "running" => \A o \in img[s] : SettingsCurrent(o)
       /\ Finished(s) => obj[s] # {} /\ \A o \in obj[s] : SettingsCurrent(o)
       /\ Finished(s) /\ task[s] = "none" => tag[s] = target

TagInv == result = "ok" => pc = "idle" /\ TagTruth

\* The inductive invariant of Spec that implies SettingsFresh and TagTruth.
SInv == IInv /\ RecordInv /\ OrderInv /\ SettledInv /\ TagInv
=============================================================================
