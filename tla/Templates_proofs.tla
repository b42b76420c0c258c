-------------------------- MODULE Templates_proofs --------------------------
(***************************************************************************)
(* Theorems about the rules that make again only some of their elements,   *)
(* for every number of elements, variables and prefixes, and every order   *)
(* of edits, failures and kills.                                           *)
(***************************************************************************)
EXTENDS Templates, WellFoundedInduction, TLAPS

-----------------------------------------------------------------------------
(***************************************************************************)
(* The inductive invariant.                                                *)
(***************************************************************************)

\* A process resolves its rules one after the other, and opens one element at
\* a time of those it has to make again.
ProcessInv ==
  /\ pc \in {"idle"} \cup Rules /\ deciding \in BOOLEAN /\ install \in BOOLEAN
  /\ todo \subseteq Item /\ open \subseteq todo /\ \A i, j \in open : i = j
  /\ pc = "idle" => ~deciding /\ todo = {}
  /\ deciding => todo = {}
  /\ pc = "install" => install
  /\ used # {} => pc = "configure" /\ ~deciding
  /\ used \subseteq Vars

\* A place has one file; no time is later than the clock, and the file that is
\* being written is newer than anything that is recorded.
FilesInv ==
  /\ clock \in Nat /\ src \in [Item -> Nat] /\ script \in Nat
  /\ val \in [Vars -> Values] /\ prefix \in Prefixes
  /\ file = [x \in Place \X Item |-> file[x]]
  /\ \A x \in Place \X Item : \A f \in file[x] : f.at \in Nat /\ f.at <= clock
  /\ \A x \in Place \X Item : \A f, e \in file[x] : f = e
  /\ \A i \in Item : src[i] <= clock
  /\ script <= clock
  /\ deps = [r \in Rules |-> deps[r]]
  /\ \A r \in Rules : \A l \in deps[r] : l.time \in Nat /\ l.time <= clock
  /\ open # {} => /\ \A r \in Rules : \A l \in deps[r] : l.time < clock
                  /\ \A i \in open : \A f \in file[<<Target(pc), i>>] : f.at = clock

\* A file that is not newer than the time recorded for it.
Kept(x, t) == \E f \in file[x] : f.at <= t

\* The .deps file of the configure rule: times of the script, the templates and
\* the configured files, and values of the variables in U.  A file that is not
\* newer than that was made from the template and from these values.
ConfigureDeps(a, s, g, U, w) ==
  {Line(" ", <<"script">>, a)} \cup {Line("s", <<"src", i>>, s[i]) : i \in Item}
    \cup {Line(" ", <<"gen", i>>, g[i]) : i \in Item}
    \cup {Line(" ", <<"value", v, w[v]>>, 0) : v \in U}

ConfigureVouches(s, g, w) ==
  \A i \in Item : \A f \in file[<<"gen", i>>] :
    src[i] <= s[i] /\ f.at <= g[i] =>
      f.image = {[template |-> src[i], text |-> [v \in Uses[i] |-> w[v]]]}

ConfigureRecord ==
  deps["configure"] # {} =>
    \E a \in Nat, s \in [Item -> Nat], g \in [Item -> Nat], U \in SUBSET Vars, w \in [Vars -> Values] :
      /\ deps["configure"] = ConfigureDeps(a, s, g, U, w)
      /\ \A i \in Item : Uses[i] \subseteq U
      /\ ConfigureVouches(s, g, w)

\* The same for the run rule, with the value of its argument ...
RunDeps(a, g, o, w) ==
  {Line(" ", <<"script">>, a)} \cup {Line("s", <<"gen", i>>, g[i]) : i \in Item}
    \cup {Line(" ", <<"out", i>>, o[i]) : i \in Item} \cup {Line(" ", <<"value", Arg, w>>, 0)}

RunVouches(a, g, o, w) ==
  \A i \in Item : \A f \in file[<<"out", i>>] :
    script <= a /\ Kept(<<"gen", i>>, g[i]) /\ f.at <= o[i] =>
      f.image = {[input |-> m, command |-> script, arg |-> w] : m \in Image(<<"gen", i>>)}

RunRecord ==
  deps["run"] # {} =>
    \E a \in Nat, g \in [Item -> Nat], o \in [Item -> Nat], w \in Values :
      deps["run"] = RunDeps(a, g, o, w) /\ RunVouches(a, g, o, w)

\* ... and for the install rule, with its prefix.
InstallDeps(a, o, q, p) ==
  {Line(" ", <<"script">>, a)} \cup {Line("s", <<"out", i>>, o[i]) : i \in Item}
    \cup {Line("s", <<p, i>>, q[i]) : i \in Item} \cup {Line(" ", <<"prefix", p>>, 0)}

InstallVouches(o, q, p) ==
  \A i \in Item : \A f \in file[<<p, i>>] :
    Kept(<<"out", i>>, o[i]) /\ f.at <= q[i] => f.image = Image(<<"out", i>>)

InstallRecord ==
  deps["install"] # {} =>
    \E a \in Nat, o \in [Item -> Nat], q \in [Item -> Nat], p \in Prefixes :
      deps["install"] = InstallDeps(a, o, q, p) /\ InstallVouches(o, q, p)

RecordInv == ConfigureRecord /\ RunRecord /\ InstallRecord

\* An element is made as it should be now; a rule is settled if all are, and its
\* .deps file finds nothing outdated.
Good(r, i) == \E f \in file[<<Target(r), i>>] : f.image = Made(r, i)
Settled(r) == deps[r] # {} /\ Late(r) = {} /\ \A i \in Item : Good(r, i)
Earlier(r) == CASE r = "configure" -> {} [] r = "run" -> {"configure"} [] OTHER -> {"configure", "run"}

\* The rules before the one that is resolved are settled, and so are the
\* elements of that one which are not to be made again, or have been.
ResolvedInv ==
  /\ pc \in Rules => \A r \in Earlier(pc) : Settled(r)
  /\ pc \in Rules /\ ~deciding => \A i \in Item \ todo : Good(pc, i)
  /\ pc = "configure" /\ ~deciding => todo # {} \/ \A i \in Item : Uses[i] \subseteq used
  /\ \A i \in open : file[<<Target(pc), i>>] # {}
  /\ last = "ok" => /\ pc = "idle" /\ Settled("configure") /\ Settled("run")
                    /\ install => Settled("install")

IInv == ProcessInv /\ FilesInv /\ RecordInv /\ ResolvedInv

-----------------------------------------------------------------------------
(***************************************************************************)
(* Times and lines.                                                        *)
(***************************************************************************)

LEMMA MaxOne ==
  /\ Max({0} \cup {}) = 0
  /\ \A t \in Nat : Max({0} \cup {t}) = t
<1>1. Max({0} \cup {}) = 0
  BY DEF Max
<1>2. ASSUME NEW t \in Nat PROVE Max({0} \cup {t}) = t
  <2>1. \A y \in {0} \cup {t} : t >= y
    OBVIOUS
  <2>2. PICK x \in {0} \cup {t} : x = Max({0} \cup {t}) /\ \A y \in {0} \cup {t} : x >= y
    BY <2>1 DEF Max
  <2> QED BY <2>2
<1> QED BY <1>1, <1>2

\* The next element to make again is one of them.
LEMMA MinOf ==
  ASSUME NEW S \in SUBSET Item, S # {}
  PROVE  Min(S) \in S
<1>1. S \subseteq Nat
  BY ItemAssumption DEF Item
<1>2. PICK x \in S : \A y \in S : ~ (<<y, x>> \in OpToRel(<, Nat))
  BY <1>1, NatLessThanWellFounded, WFMin
<1>3. ASSUME NEW y \in S PROVE x =< y
  <2>1. x \in Nat /\ y \in Nat
    BY <1>1
  <2>2. CASE y < x
    <3>1. <<y, x>> \in Nat \X Nat
      BY <2>1
    <3>2. <<y, x>> \in OpToRel(<, Nat)
      BY <2>1, <2>2, <3>1, Zenon DEF OpToRel
    <3> QED BY <1>2, <3>2
  <2> QED BY <2>1, <2>2
<1> QED BY <1>3 DEF Min

\* The prefixes are places of their own.
LEMMA Kinds ==
  /\ \A p \in Prefixes : p \notin {"gen", "out", "src", "script", "value", "prefix"}
  /\ {"gen", "out"} \subseteq Place /\ Prefixes \subseteq Place
  /\ \A x \in Place : x \notin {"src", "script", "value", "prefix"}
BY PlaceAssumption DEF Place

LEMMA Times ==
  /\ \A i \in Item : Time(<<"src", i>>) = {src[i]}
  /\ Time(<<"script">>) = {script}
  /\ \A x \in Place \X Item : Time(x) = {f.at : f \in file[x]}
<1>1. \A i \in Item : Time(<<"src", i>>) = {src[i]}
  BY DEF Time
<1>2. Time(<<"script">>) = {script}
  BY DEF Time
<1>3. ASSUME NEW x \in Place \X Item PROVE Time(x) = {f.at : f \in file[x]}
  <2>1. x[1] \in Place
    OBVIOUS
  <2>2. x[1] # "src" /\ x[1] # "script"
    BY <2>1, Kinds
  <2> QED BY <2>2 DEF Time
<1> QED BY <1>1, <1>2, <1>3

\* The time that is recorded for a file.
TimeOf(x) == Max({0} \cup Time(x))

LEMMA FileTimes ==
  ASSUME FilesInv, NEW x \in Place \X Item
  PROVE  /\ TimeOf(x) \in Nat /\ TimeOf(x) <= clock
         /\ \A f \in file[x] : f.at = TimeOf(x)
<1>1. Time(x) = {f.at : f \in file[x]}
  BY Times
<1>2. CASE file[x] = {}
  <2>1. Time(x) = {}
    BY <1>1, <1>2
  <2> QED BY <2>1, <1>2, MaxOne DEF TimeOf, FilesInv
<1>3. ASSUME NEW f \in file[x] PROVE TimeOf(x) = f.at
  <2>1. Time(x) = {f.at}
    BY <1>1, <1>3 DEF FilesInv
  <2>2. f.at \in Nat
    BY DEF FilesInv
  <2> QED BY <2>1, <2>2, MaxOne DEF TimeOf
<1>4. CASE file[x] # {}
  <2>1. PICK f \in file[x] : TRUE
    BY <1>4
  <2>2. TimeOf(x) \in Nat /\ TimeOf(x) <= clock
    BY <1>3, <2>1 DEF FilesInv
  <2> QED BY <1>3, <2>2
<1> QED BY <1>2, <1>4

\* What an outdated line says, by what the line is about.
LEMMA OutdatedLines ==
  /\ \A flag, t : Outdated(Line(flag, <<"script">>, t)) <=> script > t
  /\ \A flag, t : \A i \in Item : Outdated(Line(flag, <<"src", i>>, t)) <=> src[i] > t
  /\ \A flag, t : \A x \in Place \X Item : Outdated(Line(flag, x, t)) <=> \A f \in file[x] : f.at > t
  /\ \A flag, t, v, w : Outdated(Line(flag, <<"value", v, w>>, t)) <=> w # val[v]
  /\ \A flag, t, p : Outdated(Line(flag, <<"prefix", p>>, t)) <=> p # prefix
<1>1. ASSUME NEW flag, NEW t PROVE Outdated(Line(flag, <<"script">>, t)) <=> script > t
  <2>1. \A u \in Time(<<"script">>) : u = script
    BY Times
  <2> QED BY <2>1, Times DEF Outdated, Line
<1>2. ASSUME NEW flag, NEW t, NEW i \in Item
      PROVE  Outdated(Line(flag, <<"src", i>>, t)) <=> src[i] > t
  BY Times DEF Outdated, Line
<1>3. ASSUME NEW flag, NEW t, NEW x \in Place \X Item
      PROVE  Outdated(Line(flag, x, t)) <=> \A f \in file[x] : f.at > t
  <2>1. x[1] \in Place
    OBVIOUS
  <2>2. x[1] # "value" /\ x[1] # "prefix"
    BY <2>1, Kinds
  <2>3. Outdated(Line(flag, x, t)) <=> \A u \in Time(x) : u > t
    BY <2>2 DEF Outdated, Line
  <2>4. Time(x) = {f.at : f \in file[x]}
    BY Times
  <2> QED BY <2>3, <2>4
<1>4. ASSUME NEW flag, NEW t, NEW v, NEW w
      PROVE  Outdated(Line(flag, <<"value", v, w>>, t)) <=> w # val[v]
  BY DEF Outdated, Line
<1>5. ASSUME NEW flag, NEW t, NEW p
      PROVE  Outdated(Line(flag, <<"prefix", p>>, t)) <=> p # prefix
  BY DEF Outdated, Line
<1> QED BY <1>1, <1>2, <1>3, <1>4, <1>5

-----------------------------------------------------------------------------
(***************************************************************************)
(* The process, and the files.                                             *)
(***************************************************************************)

\* The parts of a line.
LEMMA SharedLine == ASSUME NEW x, NEW t PROVE Line(" ", x, t).flag # "s"
BY DEF Line

LEMMA OwnLine ==
  ASSUME NEW x, NEW i, NEW t
  PROVE  Line("s", <<x, i>>, t).of[2] = i
BY DEF Line

\* A line that stands for one element names it.
LEMMA OwnLines ==
  ASSUME RecordInv, NEW r \in Rules, NEW l \in deps[r], l.flag = "s"
  PROVE  l.of[2] \in Item
<1>1. CASE r = "configure"
  <2>1. PICK a \in Nat, s \in [Item -> Nat], g \in [Item -> Nat], U \in SUBSET Vars, w \in [Vars -> Values] :
          deps["configure"] = ConfigureDeps(a, s, g, U, w)
    BY <1>1 DEF RecordInv, ConfigureRecord
  <2>2. l \in ConfigureDeps(a, s, g, U, w)
    BY <1>1, <2>1
  <2>3. \E i \in Item : l = Line("s", <<"src", i>>, s[i])
    BY <2>2, SharedLine, Zenon DEF ConfigureDeps
  <2> QED BY <2>3, OwnLine
<1>2. CASE r = "run"
  <2>1. PICK a \in Nat, g \in [Item -> Nat], o \in [Item -> Nat], w \in Values :
          deps["run"] = RunDeps(a, g, o, w)
    BY <1>2 DEF RecordInv, RunRecord
  <2>2. l \in RunDeps(a, g, o, w)
    BY <1>2, <2>1
  <2>3. \E i \in Item : l = Line("s", <<"gen", i>>, g[i])
    BY <2>2, SharedLine, Zenon DEF RunDeps
  <2> QED BY <2>3, OwnLine
<1>3. CASE r = "install"
  <2>1. PICK a \in Nat, o \in [Item -> Nat], q \in [Item -> Nat], p \in Prefixes :
          deps["install"] = InstallDeps(a, o, q, p)
    BY <1>3 DEF RecordInv, InstallRecord
  <2>2. l \in InstallDeps(a, o, q, p)
    BY <1>3, <2>1
  <2>3. \E i \in Item : l = Line("s", <<"out", i>>, o[i]) \/ l = Line("s", <<p, i>>, q[i])
    BY <2>2, SharedLine, Zenon DEF InstallDeps
  <2> QED BY <2>3, OwnLine
<1> QED BY <1>1, <1>2, <1>3 DEF Rules

LEMMA ProcessStep ==
  ASSUME ProcessInv, RecordInv, [Next]_vars
  PROVE  ProcessInv'
<1> USE DEF ProcessInv
<1>1. CASE User
  BY <1>1 DEF User, Outside, EditTemplate, EditScript, SetVar, ChangePrefix, RemoveFile, WriteOver, proc
<1>2. CASE Skip
  BY <1>2 DEF Skip, NextRule, Rules
<1>3. CASE Resolve
  <2>1. pc \in Rules
    BY <1>3 DEF Resolve
  <2>2. Chosen(pc) \subseteq Item
    BY <2>1, OwnLines DEF Chosen, Late
  <2> QED BY <1>3, <2>1, <2>2 DEF Resolve
<1>4. CASE Open
  BY <1>4, MinOf DEF Open
<1>5. CASE Done
  <2>1. UNION {Uses[i] : i \in open} \subseteq Vars
    BY ItemAssumption
  <2>2. pc # "idle" /\ ~deciding
    BY <1>5 DEF Done
  <2> QED BY <1>5, <2>1, <2>2 DEF Done
<1>6. CASE Commit
  BY <1>6 DEF Commit, NextRule, Rules
<1>7. CASE Stop
  BY <1>7 DEF Stop
<1>8. CASE \E b \in BOOLEAN : Begin(b)
  BY <1>8 DEF Begin, Rules
<1>9. CASE UNCHANGED vars
  BY <1>9 DEF vars, proc
<1> QED BY <1>1, <1>2, <1>3, <1>4, <1>5, <1>6, <1>7, <1>8, <1>9 DEF Next, Build

\* The lines a rule writes are such a file, with the present times and values.
Stored(x) == [i \in Item |-> TimeOf(<<x, i>>)]

LEMMA FileLinesOf ==
  ASSUME NEW flag, NEW x
  PROVE  FileLines(flag, {x} \X Item) = {Line(flag, <<x, i>>, TimeOf(<<x, i>>)) : i \in Item}
<1>1. \A y \in {x} \X Item : \E i \in Item : y = <<x, i>>
  OBVIOUS
<1>2. \A i \in Item : <<x, i>> \in {x} \X Item
  OBVIOUS
<1>3. ASSUME NEW l \in FileLines(flag, {x} \X Item)
      PROVE  l \in {Line(flag, <<x, i>>, TimeOf(<<x, i>>)) : i \in Item}
  <2>1. PICK y \in {x} \X Item : l = Line(flag, y, TimeOf(y))
    BY DEF FileLines, TimeOf
  <2>2. PICK i \in Item : y = <<x, i>>
    BY <1>1
  <2>3. l = Line(flag, <<x, i>>, TimeOf(<<x, i>>))
    BY <2>1, <2>2
  <2> QED BY <2>3
<1>4. ASSUME NEW i \in Item
      PROVE  Line(flag, <<x, i>>, TimeOf(<<x, i>>)) \in FileLines(flag, {x} \X Item)
  BY <1>2 DEF FileLines, TimeOf
<1> QED BY <1>3, <1>4

LEMMA LinesWritten ==
  ASSUME FilesInv
  PROVE  /\ Lines("configure") = ConfigureDeps(script, src, Stored("gen"), used, val)
         /\ Lines("run") = RunDeps(script, Stored("gen"), Stored("out"), val[Arg])
         /\ Lines("install") = InstallDeps(script, Stored("out"), Stored(prefix), prefix)
<1>1. FileLines(" ", {<<"script">>}) = {Line(" ", <<"script">>, script)}
  <2>1. Max({0} \cup Time(<<"script">>)) = script
    BY MaxOne, Times DEF FilesInv
  <2> QED BY <2>1 DEF FileLines
<1>2. FileLines("s", {"src"} \X Item) = {Line("s", <<"src", i>>, src[i]) : i \in Item}
  <2>1. \A i \in Item : TimeOf(<<"src", i>>) = src[i]
    BY MaxOne, Times DEF FilesInv, TimeOf
  <2>2. FileLines("s", {"src"} \X Item) = {Line("s", <<"src", i>>, TimeOf(<<"src", i>>)) : i \in Item}
    BY FileLinesOf
  <2> QED BY <2>1, <2>2
<1>3. ASSUME NEW flag, NEW x
      PROVE  FileLines(flag, {x} \X Item) = {Line(flag, <<x, i>>, Stored(x)[i]) : i \in Item}
  <2>1. \A i \in Item : Stored(x)[i] = TimeOf(<<x, i>>)
    BY DEF Stored
  <2>2. FileLines(flag, {x} \X Item) = {Line(flag, <<x, i>>, TimeOf(<<x, i>>)) : i \in Item}
    BY FileLinesOf
  <2> QED BY <2>1, <2>2
<1>4. Lines("configure") = ConfigureDeps(script, src, Stored("gen"), used, val)
  <2>1. Lines("configure") =
          FileLines(" ", {<<"script">>}) \cup FileLines("s", {"src"} \X Item) \cup ConfigureLines
    BY DEF Lines, Sources, Own
  <2>2. {ValueLine(v) : v \in used} = {Line(" ", <<"value", v, val[v]>>, 0) : v \in used}
    BY DEF ValueLine
  <2>3. FileLines(" ", {"gen"} \X Item) = {Line(" ", <<"gen", i>>, Stored("gen")[i]) : i \in Item}
    BY <1>3
  <2> QED BY <2>1, <2>2, <2>3, <1>1, <1>2 DEF ConfigureDeps, ConfigureLines
<1>5. Lines("run") = RunDeps(script, Stored("gen"), Stored("out"), val[Arg])
  <2>1. Lines("run") =
          FileLines(" ", {<<"script">>}) \cup FileLines("s", {"gen"} \X Item) \cup RunLines
    BY DEF Lines, Sources, Own
  <2>2. ValueLine(Arg) = Line(" ", <<"value", Arg, val[Arg]>>, 0)
    BY DEF ValueLine
  <2>3. /\ FileLines("s", {"gen"} \X Item) = {Line("s", <<"gen", i>>, Stored("gen")[i]) : i \in Item}
        /\ FileLines(" ", {"out"} \X Item) = {Line(" ", <<"out", i>>, Stored("out")[i]) : i \in Item}
    BY <1>3
  <2> QED BY <2>1, <2>2, <2>3, <1>1 DEF RunDeps, RunLines
<1>6. Lines("install") = InstallDeps(script, Stored("out"), Stored(prefix), prefix)
  <2>1. Lines("install") =
          FileLines(" ", {<<"script">>}) \cup FileLines("s", {"out"} \X Item) \cup InstallLines
    BY DEF Lines, Sources, Own
  <2>2. /\ FileLines("s", {"out"} \X Item) = {Line("s", <<"out", i>>, Stored("out")[i]) : i \in Item}
        /\ FileLines("s", {prefix} \X Item) = {Line("s", <<prefix, i>>, Stored(prefix)[i]) : i \in Item}
    BY <1>3
  <2> QED BY <2>1, <2>2, <1>1 DEF InstallDeps, InstallLines
<1> QED BY <1>4, <1>5, <1>6

\* No line has a time later than the clock.
LEMMA WrittenTimes ==
  ASSUME ProcessInv, FilesInv, NEW r \in Rules, NEW l \in Lines(r)
  PROVE  l.time \in Nat /\ l.time <= clock
<1>1. script \in Nat /\ script <= clock /\ clock \in Nat
  BY DEF FilesInv
<1>2. \A i \in Item : src[i] \in Nat /\ src[i] <= clock
  BY DEF FilesInv
<1>3. ASSUME NEW x \in Place, NEW i \in Item
      PROVE  Stored(x)[i] \in Nat /\ Stored(x)[i] <= clock
  BY FileTimes DEF Stored
<1>4. Line(" ", <<"script">>, script).time = script
  BY DEF Line
<1>5. CASE r = "configure"
  <2>1. l \in ConfigureDeps(script, src, Stored("gen"), used, val)
    BY <1>5, LinesWritten
  <2>2. /\ \A i \in Item : Line("s", <<"src", i>>, src[i]).time = src[i]
        /\ \A i \in Item : Line(" ", <<"gen", i>>, Stored("gen")[i]).time = Stored("gen")[i]
        /\ \A v \in used : Line(" ", <<"value", v, val[v]>>, 0).time = 0
    BY DEF Line
  <2>3. \/ l.time = script \/ l.time = 0
        \/ \E i \in Item : l.time = src[i] \/ l.time = Stored("gen")[i]
    BY <2>1, <2>2, <1>4, Zenon DEF ConfigureDeps
  <2> QED BY <2>3, <1>1, <1>2, <1>3, Kinds
<1>6. CASE r = "run"
  <2>1. l \in RunDeps(script, Stored("gen"), Stored("out"), val[Arg])
    BY <1>6, LinesWritten
  <2>2. /\ \A i \in Item : Line("s", <<"gen", i>>, Stored("gen")[i]).time = Stored("gen")[i]
        /\ \A i \in Item : Line(" ", <<"out", i>>, Stored("out")[i]).time = Stored("out")[i]
        /\ Line(" ", <<"value", Arg, val[Arg]>>, 0).time = 0
    BY DEF Line
  <2>3. \/ l.time = script \/ l.time = 0
        \/ \E i \in Item : l.time = Stored("gen")[i] \/ l.time = Stored("out")[i]
    BY <2>1, <2>2, <1>4, Zenon DEF RunDeps
  <2> QED BY <2>3, <1>1, <1>3, Kinds
<1>7. CASE r = "install"
  <2>1. l \in InstallDeps(script, Stored("out"), Stored(prefix), prefix)
    BY <1>7, LinesWritten
  <2>2. /\ \A i \in Item : Line("s", <<"out", i>>, Stored("out")[i]).time = Stored("out")[i]
        /\ \A i \in Item : Line("s", <<prefix, i>>, Stored(prefix)[i]).time = Stored(prefix)[i]
        /\ Line(" ", <<"prefix", prefix>>, 0).time = 0
    BY DEF Line
  <2>3. \/ l.time = script \/ l.time = 0
        \/ \E i \in Item : l.time = Stored("out")[i] \/ l.time = Stored(prefix)[i]
    BY <2>1, <2>2, <1>4, Zenon DEF InstallDeps
  <2>4. prefix \in Place
    BY Kinds DEF FilesInv
  <2> QED BY <2>3, <2>4, <1>1, <1>3, Kinds
<1> QED BY <1>5, <1>6, <1>7 DEF Rules

LEMMA FilesStep ==
  ASSUME ProcessInv, FilesInv, [Next]_vars
  PROVE  FilesInv'
<1> USE DEF FilesInv
<1>1. CASE \E i \in Item : EditTemplate(i)
  BY <1>1 DEF EditTemplate, Outside, Tick, Change, proc, ProcessInv
<1>2. CASE EditScript
  BY <1>2 DEF EditScript, Outside, Tick, Change, proc, ProcessInv
<1>3. CASE \E v \in Vars, x \in Values : SetVar(v, x)
  BY <1>3 DEF SetVar, Outside, Change, proc, ProcessInv
<1>4. CASE \E p \in Prefixes : ChangePrefix(p)
  BY <1>4 DEF ChangePrefix, Outside, Change, proc, ProcessInv
<1>5. CASE \E x \in Place \X Item : RemoveFile(x)
  <2>1. PICK x \in Place \X Item : RemoveFile(x)
    BY <1>5
  <2>2. file' = [y \in Place \X Item |-> IF y = x THEN {} ELSE file[y]]
    BY <2>1 DEF RemoveFile
  <2>3. \A y \in Place \X Item : \A f \in file'[y] : f \in file[y]
    BY <2>2
  <2>4. file' = [y \in Place \X Item |-> file'[y]]
    BY <2>2
  <2> QED BY <2>1, <2>3, <2>4 DEF RemoveFile, Outside, Change, proc, user, ProcessInv
<1>6. CASE \E x \in Place \X Item : WriteOver(x)
  <2>1. PICK x \in Place \X Item : WriteOver(x)
    BY <1>6
  <2> DEFINE new == [at |-> clock', image |-> {}]
  <2>2. file' = [y \in Place \X Item |-> IF y = x THEN {new} ELSE file[y]]
    BY <2>1 DEF WriteOver
  <2>3. new.at = clock'
    OBVIOUS
  <2> HIDE DEF new
  <2>4. \A y \in Place \X Item : \A f \in file'[y] : f \in file[y] \/ f = new
    BY <2>2
  <2>5. file' = [y \in Place \X Item |-> file'[y]]
    BY <2>2
  <2>6. clock' = clock + 1
    BY <2>1 DEF WriteOver, Tick
  <2>7. \A y \in Place \X Item : \A f \in file'[y] : f.at \in Nat /\ f.at <= clock'
    BY <2>4, <2>3, <2>6
  <2>8. \A y \in Place \X Item : \A f, e \in file'[y] : f = e
    BY <2>2
  <2>9. open' = {} /\ UNCHANGED <<src, script, val, prefix, deps>>
    BY <2>1 DEF WriteOver, Outside, proc, user, ProcessInv
  <2> QED BY <2>5, <2>6, <2>7, <2>8, <2>9
<1>7. CASE Skip
  BY <1>7 DEF Skip, user, ProcessInv, NextRule
<1>8. CASE Resolve
  BY <1>8 DEF Resolve, user, ProcessInv
<1>9. CASE Open
  <2> DEFINE x   == <<Target(pc), Min(todo)>>
             new == [at |-> clock', image |-> {}]
  <2>1. todo # {} /\ open = {} /\ open' = {Min(todo)} /\ clock' = clock + 1 /\ pc' = pc
    BY <1>9 DEF Open, Tick
  <2>2. Min(todo) \in Item /\ pc \in Rules
    BY <2>1, MinOf DEF ProcessInv
  <2>3. Target(pc) \in Place /\ Target(pc)' = Target(pc)
    BY <2>1, <2>2, <1>9, Kinds DEF Target, Rules, Open, user
  <2>4. x \in Place \X Item
    BY <2>2, <2>3
  <2>5. file' = [y \in Place \X Item |-> IF y = x THEN {new} ELSE file[y]]
    BY <1>9 DEF Open
  <2>6. new.at = clock'
    OBVIOUS
  <2>7. \A i \in open' : <<Target(pc)', i>> = x
    BY <2>1, <2>3
  <2> HIDE DEF new, x
  <2>8. \A y \in Place \X Item : \A f \in file'[y] : f \in file[y] \/ f = new
    BY <2>5
  <2>9. file' = [y \in Place \X Item |-> file'[y]]
    BY <2>5
  <2>10. \A y \in Place \X Item : \A f \in file'[y] : f.at \in Nat /\ f.at <= clock'
    BY <2>8, <2>6, <2>1
  <2>11. \A y \in Place \X Item : \A f, e \in file'[y] : f = e
    BY <2>5
  <2>12. \A f \in file'[x] : f.at = clock'
    BY <2>5, <2>4, <2>6
  <2>13. \A i \in open' : \A f \in file'[<<Target(pc)', i>>] : f.at = clock'
    BY <2>12, <2>7
  <2>14. \A r \in Rules : \A l \in deps'[r] : l.time \in Nat /\ l.time < clock'
    BY <2>1, <1>9 DEF Open
  <2>15. UNCHANGED <<src, script, val, prefix, deps>>
    BY <1>9 DEF Open, user
  <2> QED BY <2>1, <2>9, <2>10, <2>11, <2>13, <2>14, <2>15
<1>10. CASE Done
  <2>1. open # {} /\ open' = {} /\ UNCHANGED <<clock, src, script, val, prefix, deps>>
    BY <1>10 DEF Done, user
  <2>2. /\ file' = [y \in Place \X Item |-> file'[y]]
        /\ \A y \in Place \X Item :
             file'[y] = IF y \in {Target(pc)} \X open
                        THEN {[at |-> Stamp(pc, y[2], f.at), image |-> Made(pc, y[2])] : f \in file[y]}
                        ELSE file[y]
    BY <1>10 DEF Done
  <2>3. ASSUME NEW y \in Place \X Item, NEW f \in file[y]
        PROVE  Stamp(pc, y[2], f.at) \in Nat /\ Stamp(pc, y[2], f.at) <= clock
    <3>1. <<"out", y[2]>> \in Place \X Item
      BY Kinds
    <3> QED BY <3>1, FileTimes DEF Stamp, TimeOf
  <2>4. \A y \in Place \X Item : \A f \in file'[y] : f.at \in Nat /\ f.at <= clock'
    BY <2>1, <2>2, <2>3
  <2>5. ASSUME NEW y \in Place \X Item PROVE \A f, e \in file'[y] : f = e
    <3>1. CASE y \in {Target(pc)} \X open
      BY <3>1, <2>2
    <3>2. CASE y \notin {Target(pc)} \X open
      BY <3>2, <2>2
    <3> QED BY <3>1, <3>2
  <2> QED BY <2>1, <2>2, <2>4, <2>5
<1>11. CASE Commit
  BY <1>11, WrittenTimes DEF Commit, NextRule, user, ProcessInv
<1>12. CASE Stop
  BY <1>12 DEF Stop, Change, user
<1>13. CASE \E b \in BOOLEAN : Begin(b)
  BY <1>13 DEF Begin, user, ProcessInv
<1>14. CASE UNCHANGED vars
  BY <1>14 DEF vars, user, proc, Target
<1> QED
  BY <1>1, <1>2, <1>3, <1>4, <1>5, <1>6, <1>7, <1>8, <1>9, <1>10, <1>11, <1>12, <1>13, <1>14
  DEF Next, User, Build

-----------------------------------------------------------------------------
(***************************************************************************)
(* What a step does to the times: what it changes becomes newer than all   *)
(* that is recorded.  Only an installed file takes an older time, with the *)
(* content of what has it.                                                 *)
(***************************************************************************)

Newer(t) == \A r \in Rules : \A l \in deps[r] : l.time < t
Copied(f, x) == /\ x[1] \in Prefixes
                /\ f.image = Image(<<"out", x[2]>>)
                /\ file'[<<"out", x[2]>>] = file[<<"out", x[2]>>]

StampsGrow ==
  /\ \A i \in Item : src'[i] = src[i] \/ Newer(src'[i])
  /\ script' = script \/ Newer(script')
  /\ \A x \in Place \X Item : \A f \in file'[x] : f \in file[x] \/ Newer(f.at) \/ Copied(f, x)

LEMMA TickIsNewer ==
  ASSUME FilesInv, Tick
  PROVE  Newer(clock')
BY DEF FilesInv, Tick, Newer

LEMMA StampStep ==
  ASSUME ProcessInv, FilesInv, [Next]_vars
  PROVE  StampsGrow
<1>1. CASE \E i \in Item : EditTemplate(i)
  BY <1>1, TickIsNewer DEF EditTemplate, FilesInv, StampsGrow
<1>2. CASE EditScript
  BY <1>2, TickIsNewer DEF EditScript, StampsGrow
<1>3. CASE \/ \E v \in Vars, x \in Values : SetVar(v, x)
           \/ \E p \in Prefixes : ChangePrefix(p)
  BY <1>3 DEF SetVar, ChangePrefix, StampsGrow
<1>4. CASE \E x \in Place \X Item : RemoveFile(x)
  <2>1. PICK x \in Place \X Item : RemoveFile(x)
    BY <1>4
  <2>2. \A y \in Place \X Item : file'[y] = IF y = x THEN {} ELSE file[y]
    BY <2>1 DEF RemoveFile, FilesInv
  <2> QED BY <2>1, <2>2 DEF RemoveFile, user, StampsGrow
<1>5. CASE \E x \in Place \X Item : WriteOver(x)
  <2>1. PICK x \in Place \X Item : WriteOver(x)
    BY <1>5
  <2>2. \A y \in Place \X Item :
          file'[y] = IF y = x THEN {[at |-> clock', image |-> {}]} ELSE file[y]
    BY <2>1 DEF WriteOver, FilesInv
  <2>3. Newer(clock') /\ UNCHANGED <<src, script>>
    BY <2>1, TickIsNewer DEF WriteOver, user
  <2>4. \A y \in Place \X Item : \A f \in file'[y] : f \in file[y] \/ f.at = clock'
    BY <2>2
  <2> QED BY <2>3, <2>4 DEF StampsGrow
<1>6. CASE Open
  <2>1. \A y \in Place \X Item :
          file'[y] = IF y = <<Target(pc), Min(todo)>> THEN {[at |-> clock', image |-> {}]} ELSE file[y]
    BY <1>6 DEF Open, FilesInv
  <2>2. Newer(clock') /\ UNCHANGED <<src, script>>
    BY <1>6, TickIsNewer DEF Open, user
  <2>3. \A y \in Place \X Item : \A f \in file'[y] : f \in file[y] \/ f.at = clock'
    BY <2>1
  <2> QED BY <2>2, <2>3 DEF StampsGrow
<1>7. CASE Done
  <2>1. \A y \in Place \X Item :
          file'[y] = IF y \in {Target(pc)} \X open
                     THEN {[at |-> Stamp(pc, y[2], f.at), image |-> Made(pc, y[2])] : f \in file[y]}
                     ELSE file[y]
    BY <1>7 DEF Done, FilesInv
  <2>2. open # {} /\ pc \in Rules /\ UNCHANGED <<src, script>>
    BY <1>7 DEF Done, user, ProcessInv
  <2>3. ASSUME NEW y \in Place \X Item, NEW f \in file'[y], y \in {Target(pc)} \X open
        PROVE  Newer(f.at) \/ Copied(f, y)
    <3>0. file'[y] = {[at |-> Stamp(pc, y[2], e.at), image |-> Made(pc, y[2])] : e \in file[y]}
      BY <2>1, <2>3
    <3>1. PICK e \in file[y] : f = [at |-> Stamp(pc, y[2], e.at), image |-> Made(pc, y[2])]
      BY <3>0
    <3>2. f.at = Stamp(pc, y[2], e.at) /\ f.image = Made(pc, y[2])
      BY <3>1
    <3>3. CASE pc # "install"
      <4>1. f.at = e.at
        BY <3>2, <3>3 DEF Stamp
      <4>0. y = <<Target(pc), y[2]>> /\ y[2] \in open
        BY <2>3
      <4>2. e.at = clock
        BY <2>2, <4>0 DEF FilesInv
      <4> QED BY <4>1, <4>2, <2>2 DEF FilesInv, Newer
    <3>4. CASE pc = "install"
      <4>1. y[1] = prefix /\ y[2] \in Item /\ prefix \in Prefixes
        BY <3>4, <2>3 DEF Target, FilesInv
      <4>2. f.image = Image(<<"out", y[2]>>)
        BY <3>2, <3>4 DEF Made, Installed
      <4>3. <<"out", y[2]>> \in Place \X Item /\ "out" # prefix
        BY <4>1, Kinds
      <4>4. <<"out", y[2]>> \notin {Target(pc)} \X open
        BY <4>3, <4>1, <2>3
      <4>5. file'[<<"out", y[2]>>] = file[<<"out", y[2]>>]
        BY <4>3, <4>4, <2>1
      <4> QED BY <4>1, <4>2, <4>5 DEF Copied
    <3> QED BY <3>3, <3>4
  <2> QED BY <2>1, <2>2, <2>3 DEF StampsGrow
<1>8. CASE Skip \/ Resolve \/ Commit \/ Stop \/ (\E b \in BOOLEAN : Begin(b)) \/ UNCHANGED vars
  <2>1. UNCHANGED <<src, script, file>>
    BY <1>8 DEF Skip, Resolve, Commit, Stop, Begin, vars, user
  <2> QED BY <2>1 DEF StampsGrow
<1> QED BY <1>1, <1>2, <1>3, <1>4, <1>5, <1>6, <1>7, <1>8 DEF Next, User, Build

LEMMA OneImage ==
  ASSUME NEW S, NEW f \in S, \A e, g \in S : e = g
  PROVE  UNION {e.image : e \in S} = f.image
<1>1. {e.image : e \in S} = {f.image}
  OBVIOUS
<1> QED BY <1>1

\* A file that is kept has not been touched.
LEMMA KeptStep ==
  ASSUME FilesInv, FilesInv', StampsGrow, NEW x \in {"gen", "out"} \X Item, NEW t \in Nat, ~Newer(t),
         Kept(x, t)'
  PROVE  Kept(x, t) /\ file'[x] = file[x] /\ Image(x)' = Image(x)
<1>0. x \in Place \X Item /\ x[1] \notin Prefixes
  BY Kinds
<1>1. PICK f \in file'[x] : f.at <= t
  BY DEF Kept
<1>2. ~Newer(f.at)
  <2>1. f.at \in Nat
    BY <1>0 DEF FilesInv
  <2> QED BY <1>1, <2>1 DEF Newer, FilesInv
<1>3. f \in file[x]
  BY <1>0, <1>2 DEF StampsGrow, Copied
<1>4. file'[x] = {f} /\ file[x] = {f}
  BY <1>0, <1>1, <1>3 DEF FilesInv
<1> QED BY <1>1, <1>3, <1>4 DEF Kept, Image

LEMMA NotNewer ==
  ASSUME NEW r \in Rules, NEW l \in deps[r], NEW t \in Nat, l.time = t
  PROVE  ~Newer(t)
BY DEF Newer

LEMMA ConfigureKept ==
  ASSUME FilesInv, FilesInv', StampsGrow, ConfigureRecord, deps'["configure"] = deps["configure"]
  PROVE  ConfigureRecord'
<1>1. SUFFICES ASSUME deps["configure"] # {} PROVE ConfigureRecord'
  BY DEF ConfigureRecord
<1>2. PICK a \in Nat, s \in [Item -> Nat], g \in [Item -> Nat], U \in SUBSET Vars, w \in [Vars -> Values] :
         /\ deps["configure"] = ConfigureDeps(a, s, g, U, w)
         /\ \A i \in Item : Uses[i] \subseteq U
         /\ ConfigureVouches(s, g, w)
  BY <1>1 DEF ConfigureRecord
<1>3. ASSUME NEW i \in Item PROVE ~Newer(s[i]) /\ ~Newer(g[i])
  <2>1. /\ Line("s", <<"src", i>>, s[i]) \in deps["configure"]
        /\ Line(" ", <<"gen", i>>, g[i]) \in deps["configure"]
    BY <1>2 DEF ConfigureDeps
  <2>2. Line("s", <<"src", i>>, s[i]).time = s[i] /\ Line(" ", <<"gen", i>>, g[i]).time = g[i]
    BY DEF Line
  <2> QED BY <2>1, <2>2, NotNewer DEF Rules
<1>4. ASSUME NEW i \in Item, NEW f \in file'[<<"gen", i>>], src'[i] <= s[i], f.at <= g[i]
      PROVE  f.image = {[template |-> src'[i], text |-> [v \in Uses[i] |-> w[v]]]}
  <2>1. src'[i] = src[i]
    BY <1>3, <1>4 DEF StampsGrow, Newer, FilesInv
  <2>2. Kept(<<"gen", i>>, g[i])'
    BY <1>4 DEF Kept
  <2>3. file'[<<"gen", i>>] = file[<<"gen", i>>]
    BY <2>2, <1>3, KeptStep
  <2> QED BY <1>2, <1>4, <2>1, <2>3 DEF ConfigureVouches
<1>5. ConfigureVouches(s, g, w)'
  BY <1>4 DEF ConfigureVouches
<1> QED BY <1>2, <1>5 DEF ConfigureRecord

LEMMA RunKept ==
  ASSUME FilesInv, FilesInv', StampsGrow, RunRecord, deps'["run"] = deps["run"]
  PROVE  RunRecord'
<1>1. SUFFICES ASSUME deps["run"] # {} PROVE RunRecord'
  BY DEF RunRecord
<1>2. PICK a \in Nat, g \in [Item -> Nat], o \in [Item -> Nat], w \in Values :
         deps["run"] = RunDeps(a, g, o, w) /\ RunVouches(a, g, o, w)
  BY <1>1 DEF RunRecord
<1>3. ASSUME NEW i \in Item PROVE ~Newer(a) /\ ~Newer(g[i]) /\ ~Newer(o[i])
  <2>1. /\ Line(" ", <<"script">>, a) \in deps["run"]
        /\ Line("s", <<"gen", i>>, g[i]) \in deps["run"]
        /\ Line(" ", <<"out", i>>, o[i]) \in deps["run"]
    BY <1>2 DEF RunDeps
  <2>2. /\ Line(" ", <<"script">>, a).time = a
        /\ Line("s", <<"gen", i>>, g[i]).time = g[i] /\ Line(" ", <<"out", i>>, o[i]).time = o[i]
    BY DEF Line
  <2> QED BY <2>1, <2>2, NotNewer DEF Rules
<1>4. ASSUME NEW i \in Item, NEW f \in file'[<<"out", i>>],
             script' <= a, Kept(<<"gen", i>>, g[i])', f.at <= o[i]
      PROVE  f.image = {[input |-> m, command |-> script', arg |-> w] : m \in Image(<<"gen", i>>)'}
  <2>1. script' = script
    BY <1>3, <1>4 DEF StampsGrow, Newer, FilesInv
  <2>2. Kept(<<"gen", i>>, g[i]) /\ Image(<<"gen", i>>)' = Image(<<"gen", i>>)
    BY <1>3, <1>4, KeptStep
  <2>3. Kept(<<"out", i>>, o[i])'
    BY <1>4 DEF Kept
  <2>4. file'[<<"out", i>>] = file[<<"out", i>>]
    BY <2>3, <1>3, KeptStep
  <2> QED BY <1>2, <1>4, <2>1, <2>2, <2>4 DEF RunVouches
<1>5. RunVouches(a, g, o, w)'
  BY <1>4 DEF RunVouches
<1> QED BY <1>2, <1>5 DEF RunRecord

LEMMA InstallKept ==
  ASSUME FilesInv, FilesInv', StampsGrow, InstallRecord, deps'["install"] = deps["install"]
  PROVE  InstallRecord'
<1>1. SUFFICES ASSUME deps["install"] # {} PROVE InstallRecord'
  BY DEF InstallRecord
<1>2. PICK a \in Nat, o \in [Item -> Nat], q \in [Item -> Nat], p \in Prefixes :
         deps["install"] = InstallDeps(a, o, q, p) /\ InstallVouches(o, q, p)
  BY <1>1 DEF InstallRecord
<1>3. ASSUME NEW i \in Item PROVE ~Newer(o[i]) /\ ~Newer(q[i])
  <2>1. /\ Line("s", <<"out", i>>, o[i]) \in deps["install"]
        /\ Line("s", <<p, i>>, q[i]) \in deps["install"]
    BY <1>2 DEF InstallDeps
  <2>2. Line("s", <<"out", i>>, o[i]).time = o[i] /\ Line("s", <<p, i>>, q[i]).time = q[i]
    BY DEF Line
  <2> QED BY <2>1, <2>2, NotNewer DEF Rules
<1>4. ASSUME NEW i \in Item, NEW f \in file'[<<p, i>>], Kept(<<"out", i>>, o[i])', f.at <= q[i]
      PROVE  f.image = Image(<<"out", i>>)'
  <2>1. /\ Kept(<<"out", i>>, o[i]) /\ Image(<<"out", i>>)' = Image(<<"out", i>>)
        /\ file'[<<"out", i>>] = file[<<"out", i>>]
    BY <1>3, <1>4, KeptStep
  <2>2. <<p, i>> \in Place \X Item
    BY Kinds
  <2>3. ~Newer(f.at)
    <3>1. f.at \in Nat
      BY <2>2 DEF FilesInv
    <3> QED BY <3>1, <1>3, <1>4 DEF Newer, FilesInv
  <2>4. CASE f \in file[<<p, i>>]
    BY <2>1, <2>4, <1>2, <1>4 DEF InstallVouches
  <2>5. CASE Copied(f, <<p, i>>)
    BY <2>1, <2>5 DEF Copied
  <2> QED BY <2>2, <2>3, <2>4, <2>5 DEF StampsGrow
<1>5. InstallVouches(o, q, p)'
  BY <1>4 DEF InstallVouches
<1> QED BY <1>2, <1>5 DEF InstallRecord

-----------------------------------------------------------------------------
(***************************************************************************)
(* The new .deps file: the rule vouches for what is there, since every     *)
(* element has been made or was not to be made again.                      *)
(***************************************************************************)

LEMMA StoredTimes ==
  ASSUME FilesInv, NEW x \in Place
  PROVE  /\ Stored(x) \in [Item -> Nat]
         /\ \A i \in Item : \A f \in file[<<x, i>>] : f.at = Stored(x)[i]
<1>1. ASSUME NEW i \in Item
      PROVE  TimeOf(<<x, i>>) \in Nat /\ \A f \in file[<<x, i>>] : f.at = TimeOf(<<x, i>>)
  BY FileTimes
<1> QED BY <1>1 DEF Stored

\* A file with the image it should have has that image.
LEMMA GoodImage ==
  ASSUME ProcessInv, FilesInv, pc \in Rules, NEW i \in Item, Good(pc, i),
         NEW f \in file[<<Target(pc), i>>]
  PROVE  f.image = Made(pc, i)
<1>1. <<Target(pc), i>> \in Place \X Item
  BY Kinds DEF Target, Rules, FilesInv
<1> QED BY <1>1 DEF Good, FilesInv

LEMMA CommitFacts ==
  ASSUME IInv, Commit
  PROVE  /\ pc \in Rules /\ ~deciding /\ todo = {}
         /\ \A i \in Item : Good(pc, i)
         /\ pc = "configure" => \A i \in Item : Uses[i] \subseteq used
         /\ deps' = [r \in Rules |-> IF r = pc THEN Lines(pc) ELSE deps[r]]
         /\ UNCHANGED <<clock, src, script, val, prefix, file, install>>
BY DEF Commit, user, IInv, ProcessInv, FilesInv, ResolvedInv

LEMMA ConfigureCommits ==
  ASSUME IInv, Commit, pc = "configure"
  PROVE  ConfigureRecord'
<1>1. /\ \A i \in Item : Good(pc, i) /\ Uses[i] \subseteq used
      /\ deps'["configure"] = Lines("configure")
      /\ UNCHANGED <<src, val, file>>
  BY CommitFacts DEF Rules
<1>2. PICK a, s, g, U, w : a = script /\ s = src /\ g = Stored("gen") /\ U = used /\ w = val
  OBVIOUS
<1>3. /\ a \in Nat /\ s \in [Item -> Nat] /\ g \in [Item -> Nat]
      /\ U \in SUBSET Vars /\ w \in [Vars -> Values]
  BY <1>2, StoredTimes, Kinds DEF IInv, FilesInv, ProcessInv
<1>4. deps'["configure"] = ConfigureDeps(a, s, g, U, w)
  BY <1>1, <1>2, LinesWritten DEF IInv
<1>5. ASSUME NEW i \in Item, NEW f \in file'[<<"gen", i>>]
      PROVE  f.image = {[template |-> src'[i], text |-> [v \in Uses[i] |-> w[v]]]}
  <2>1. f \in file[<<Target(pc), i>>]
    BY <1>1, <1>5 DEF Target
  <2>2. f.image = Made(pc, i)
    BY <1>1, <2>1, GoodImage DEF IInv, Rules
  <2> QED BY <1>1, <1>2, <2>2 DEF Made, Configured
<1>6. ConfigureVouches(s, g, w)'
  BY <1>5 DEF ConfigureVouches
<1>7. \A i \in Item : Uses[i] \subseteq U
  BY <1>1, <1>2
<1> QED BY <1>3, <1>4, <1>6, <1>7 DEF ConfigureRecord

LEMMA RunCommits ==
  ASSUME IInv, Commit, pc = "run"
  PROVE  RunRecord'
<1>1. /\ \A i \in Item : Good(pc, i)
      /\ deps'["run"] = Lines("run")
      /\ UNCHANGED <<script, val, file>>
  BY CommitFacts DEF Rules
<1>2. PICK a, g, o, w : a = script /\ g = Stored("gen") /\ o = Stored("out") /\ w = val[Arg]
  OBVIOUS
<1>3. a \in Nat /\ g \in [Item -> Nat] /\ o \in [Item -> Nat] /\ w \in Values
  BY <1>2, StoredTimes, Kinds, ItemAssumption DEF IInv, FilesInv
<1>4. deps'["run"] = RunDeps(a, g, o, w)
  BY <1>1, <1>2, LinesWritten DEF IInv
<1>5. ASSUME NEW i \in Item, NEW f \in file'[<<"out", i>>]
      PROVE  f.image = {[input |-> m, command |-> script', arg |-> w] : m \in Image(<<"gen", i>>)'}
  <2>1. f \in file[<<Target(pc), i>>]
    BY <1>1, <1>5 DEF Target
  <2>2. f.image = Made(pc, i)
    BY <1>1, <2>1, GoodImage DEF IInv, Rules
  <2>3. Image(<<"gen", i>>)' = Image(<<"gen", i>>)
    BY <1>1 DEF Image
  <2> QED BY <1>1, <1>2, <2>2, <2>3 DEF Made, Printed
<1>6. RunVouches(a, g, o, w)'
  BY <1>5 DEF RunVouches
<1> QED BY <1>3, <1>4, <1>6 DEF RunRecord

LEMMA InstallCommits ==
  ASSUME IInv, Commit, pc = "install"
  PROVE  InstallRecord'
<1>1. /\ \A i \in Item : Good(pc, i)
      /\ deps'["install"] = Lines("install")
      /\ UNCHANGED <<prefix, file>>
  BY CommitFacts DEF Rules
<1>2. PICK a, o, q, p : a = script /\ o = Stored("out") /\ q = Stored(prefix) /\ p = prefix
  OBVIOUS
<1>3. a \in Nat /\ o \in [Item -> Nat] /\ q \in [Item -> Nat] /\ p \in Prefixes
  BY <1>2, StoredTimes, Kinds DEF IInv, FilesInv
<1>4. deps'["install"] = InstallDeps(a, o, q, p)
  BY <1>1, <1>2, LinesWritten DEF IInv
<1>5. ASSUME NEW i \in Item, NEW f \in file'[<<p, i>>]
      PROVE  f.image = Image(<<"out", i>>)'
  <2>1. f \in file[<<Target(pc), i>>]
    BY <1>1, <1>2, <1>5 DEF Target
  <2>2. f.image = Made(pc, i)
    BY <1>1, <2>1, GoodImage DEF IInv, Rules
  <2>3. Image(<<"out", i>>)' = Image(<<"out", i>>)
    BY <1>1 DEF Image
  <2> QED BY <2>2, <2>3 DEF Made, Installed
<1>6. InstallVouches(o, q, p)'
  BY <1>5 DEF InstallVouches
<1> QED BY <1>3, <1>4, <1>6 DEF InstallRecord

LEMMA RecordStep ==
  ASSUME IInv, FilesInv', [Next]_vars
  PROVE  RecordInv'
<1>1. StampsGrow
  BY StampStep DEF IInv
<1>2. ASSUME deps'["configure"] = deps["configure"] PROVE ConfigureRecord'
  BY <1>1, <1>2, ConfigureKept DEF IInv, RecordInv
<1>3. ASSUME deps'["run"] = deps["run"] PROVE RunRecord'
  BY <1>1, <1>3, RunKept DEF IInv, RecordInv
<1>4. ASSUME deps'["install"] = deps["install"] PROVE InstallRecord'
  BY <1>1, <1>4, InstallKept DEF IInv, RecordInv
<1>5. CASE Commit
  <2>1. pc \in Rules /\ deps' = [r \in Rules |-> IF r = pc THEN Lines(pc) ELSE deps[r]]
    BY <1>5, CommitFacts
  <2>2. /\ pc # "configure" => deps'["configure"] = deps["configure"]
        /\ pc # "run" => deps'["run"] = deps["run"]
        /\ pc # "install" => deps'["install"] = deps["install"]
    BY <2>1 DEF Rules
  <2> QED
    BY <2>1, <2>2, <1>2, <1>3, <1>4, <1>5, ConfigureCommits, RunCommits, InstallCommits DEF RecordInv
<1>6. CASE ~Commit
  <2>1. deps' = deps
    BY <1>6
    DEF Next, User, Build, EditTemplate, EditScript, SetVar, ChangePrefix, RemoveFile, WriteOver,
        Outside, Skip, Resolve, Open, Done, Stop, Begin, vars
  <2> QED BY <2>1, <1>2, <1>3, <1>4 DEF RecordInv
<1> QED BY <1>5, <1>6

-----------------------------------------------------------------------------
(***************************************************************************)
(* What is not to be made again is as it should be.                        *)
(***************************************************************************)

\* Of the elements whose lines are not outdated the .deps file vouches for the
\* product, if the lines that stand for all of them are not outdated either.
LEMMA UnchosenAreGood ==
  ASSUME IInv, NEW r \in Rules, NEW i \in Item, deps[r] # {},
         \A l \in Late(r) : l.flag = "s" /\ l.of[2] # i
  PROVE  Good(r, i)
<1>1. ASSUME NEW l \in deps[r], l.flag # "s" \/ l.of[2] = i PROVE ~Outdated(l)
  BY <1>1 DEF Late
<1>3. CASE r = "configure"
  <2>1. PICK a \in Nat, s \in [Item -> Nat], g \in [Item -> Nat], U \in SUBSET Vars, w \in [Vars -> Values] :
           /\ deps["configure"] = ConfigureDeps(a, s, g, U, w)
           /\ \A j \in Item : Uses[j] \subseteq U
           /\ ConfigureVouches(s, g, w)
    BY <1>3 DEF IInv, RecordInv, ConfigureRecord
  <2>2. /\ Line("s", <<"src", i>>, s[i]) \in deps[r]
        /\ Line(" ", <<"gen", i>>, g[i]) \in deps[r]
        /\ \A v \in U : Line(" ", <<"value", v, w[v]>>, 0) \in deps[r]
    BY <1>3, <2>1 DEF ConfigureDeps
  <2>0. /\ ~Outdated(Line("s", <<"src", i>>, s[i]))
        /\ ~Outdated(Line(" ", <<"gen", i>>, g[i]))
        /\ \A v \in U : ~Outdated(Line(" ", <<"value", v, w[v]>>, 0))
    <3>1. /\ Line("s", <<"src", i>>, s[i]).of[2] = i
          /\ Line(" ", <<"gen", i>>, g[i]).flag # "s"
          /\ \A v \in U : Line(" ", <<"value", v, w[v]>>, 0).flag # "s"
      BY DEF Line
    <3> QED BY <1>1, <2>2, <3>1, Zenon
  <2>3. src[i] <= s[i]
    <3>1. ~ (src[i] > s[i])
      BY <2>0, OutdatedLines
    <3> QED BY <3>1 DEF IInv, FilesInv
  <2>4. PICK f \in file[<<"gen", i>>] : ~ (f.at > g[i])
    BY <2>0, OutdatedLines, Kinds
  <2>5. f.at <= g[i]
    BY <2>4, Kinds DEF IInv, FilesInv
  <2>6. \A v \in Uses[i] : w[v] = val[v]
    <3>1. ASSUME NEW v \in U PROVE w[v] = val[v]
      <4>1. Outdated(Line(" ", <<"value", v, w[v]>>, 0)) <=> w[v] # val[v]
        BY OutdatedLines, Zenon
      <4> QED BY <2>0, <4>1
    <3> QED BY <2>1, <3>1
  <2>7. f.image = {[template |-> src[i], text |-> [v \in Uses[i] |-> w[v]]]}
    BY <2>1, <2>3, <2>4, <2>5 DEF ConfigureVouches
  <2>8. f.image = Made(r, i)
    BY <1>3, <2>6, <2>7 DEF Made, Configured
  <2> QED BY <1>3, <2>4, <2>8 DEF Good, Target
<1>4. CASE r = "run"
  <2>1. PICK a \in Nat, g \in [Item -> Nat], o \in [Item -> Nat], w \in Values :
          deps["run"] = RunDeps(a, g, o, w) /\ RunVouches(a, g, o, w)
    BY <1>4 DEF IInv, RecordInv, RunRecord
  <2>2. /\ Line(" ", <<"script">>, a) \in deps[r]
        /\ Line("s", <<"gen", i>>, g[i]) \in deps[r]
        /\ Line(" ", <<"out", i>>, o[i]) \in deps[r]
        /\ Line(" ", <<"value", Arg, w>>, 0) \in deps[r]
    BY <1>4, <2>1 DEF RunDeps
  <2>0. /\ ~Outdated(Line(" ", <<"script">>, a))
        /\ ~Outdated(Line("s", <<"gen", i>>, g[i]))
        /\ ~Outdated(Line(" ", <<"out", i>>, o[i]))
        /\ ~Outdated(Line(" ", <<"value", Arg, w>>, 0))
    <3>1. /\ Line(" ", <<"script">>, a).flag # "s"
          /\ Line("s", <<"gen", i>>, g[i]).of[2] = i
          /\ Line(" ", <<"out", i>>, o[i]).flag # "s"
          /\ Line(" ", <<"value", Arg, w>>, 0).flag # "s"
      BY DEF Line
    <3> QED BY <1>1, <2>2, <3>1, Zenon
  <2>3. script <= a
    <3>1. ~ (script > a)
      BY <2>0, OutdatedLines
    <3> QED BY <3>1 DEF IInv, FilesInv
  <2>4. Kept(<<"gen", i>>, g[i])
    <3>1. PICK f \in file[<<"gen", i>>] : ~ (f.at > g[i])
      BY <2>0, OutdatedLines, Kinds
    <3> QED BY <3>1, Kinds DEF Kept, IInv, FilesInv
  <2>5. PICK f \in file[<<"out", i>>] : ~ (f.at > o[i])
    BY <2>0, OutdatedLines, Kinds
  <2>6. f.at <= o[i]
    BY <2>5, Kinds DEF IInv, FilesInv
  <2>7. w = val[Arg]
    BY <2>0, OutdatedLines
  <2>8. f.image = Made(r, i)
    BY <1>4, <2>1, <2>3, <2>4, <2>5, <2>6, <2>7 DEF RunVouches, Made, Printed
  <2> QED BY <1>4, <2>5, <2>8 DEF Good, Target
<1>5. CASE r = "install"
  <2>1. PICK a \in Nat, o \in [Item -> Nat], q \in [Item -> Nat], p \in Prefixes :
          deps["install"] = InstallDeps(a, o, q, p) /\ InstallVouches(o, q, p)
    BY <1>5 DEF IInv, RecordInv, InstallRecord
  <2>2. /\ Line("s", <<"out", i>>, o[i]) \in deps[r]
        /\ Line("s", <<p, i>>, q[i]) \in deps[r]
        /\ Line(" ", <<"prefix", p>>, 0) \in deps[r]
    BY <1>5, <2>1 DEF InstallDeps
  <2>0. /\ ~Outdated(Line("s", <<"out", i>>, o[i]))
        /\ ~Outdated(Line("s", <<p, i>>, q[i]))
        /\ ~Outdated(Line(" ", <<"prefix", p>>, 0))
    <3>1. /\ Line("s", <<"out", i>>, o[i]).of[2] = i
          /\ Line("s", <<p, i>>, q[i]).of[2] = i
          /\ Line(" ", <<"prefix", p>>, 0).flag # "s"
      BY DEF Line
    <3> QED BY <1>1, <2>2, <3>1, Zenon
  <2>3. Kept(<<"out", i>>, o[i])
    <3>1. PICK f \in file[<<"out", i>>] : ~ (f.at > o[i])
      BY <2>0, OutdatedLines, Kinds
    <3> QED BY <3>1, Kinds DEF Kept, IInv, FilesInv
  <2>4. PICK f \in file[<<p, i>>] : ~ (f.at > q[i])
    BY <2>0, OutdatedLines, Kinds
  <2>5. f.at <= q[i]
    BY <2>4, Kinds DEF IInv, FilesInv
  <2>6. p = prefix
    BY <2>0, OutdatedLines
  <2>7. f.image = Made(r, i)
    BY <1>5, <2>1, <2>3, <2>4, <2>5 DEF InstallVouches, Made, Installed
  <2> QED BY <1>5, <2>4, <2>6, <2>7 DEF Good, Target
<1> QED BY <1>3, <1>4, <1>5 DEF Rules

LEMMA SkippedIsSettled ==
  ASSUME IInv, NEW r \in Rules, deps[r] # {}, Late(r) = {}
  PROVE  Settled(r)
BY UnchosenAreGood DEF Settled

\* What the lines of the configure rule and of the run rule are about.
LEMMA LinesAbout ==
  ASSUME RecordInv, NEW r \in {"configure", "run"}, NEW l \in deps[r]
  PROVE  \/ l.of = <<"script">> \/ l.of[1] = "value"
         \/ \E i \in Item : \/ l.of = <<"src", i>> \/ l.of = <<"gen", i>>
                            \/ r = "run" /\ l.of = <<"out", i>>
<1>1. CASE r = "configure"
  <2>1. PICK a \in Nat, s \in [Item -> Nat], g \in [Item -> Nat], U \in SUBSET Vars, w \in [Vars -> Values] :
          deps["configure"] = ConfigureDeps(a, s, g, U, w)
    BY <1>1 DEF RecordInv, ConfigureRecord
  <2>2. /\ Line(" ", <<"script">>, a).of = <<"script">>
        /\ \A i \in Item : Line("s", <<"src", i>>, s[i]).of = <<"src", i>>
        /\ \A i \in Item : Line(" ", <<"gen", i>>, g[i]).of = <<"gen", i>>
        /\ \A v \in U : Line(" ", <<"value", v, w[v]>>, 0).of[1] = "value"
    BY DEF Line
  <2>3. l \in ConfigureDeps(a, s, g, U, w)
    BY <1>1, <2>1
  <2> QED BY <2>2, <2>3, Zenon DEF ConfigureDeps
<1>2. CASE r = "run"
  <2>1. PICK a \in Nat, g \in [Item -> Nat], o \in [Item -> Nat], w \in Values :
          deps["run"] = RunDeps(a, g, o, w)
    BY <1>2 DEF RecordInv, RunRecord
  <2>2. /\ Line(" ", <<"script">>, a).of = <<"script">>
        /\ \A i \in Item : Line("s", <<"gen", i>>, g[i]).of = <<"gen", i>>
        /\ \A i \in Item : Line(" ", <<"out", i>>, o[i]).of = <<"out", i>>
        /\ Line(" ", <<"value", Arg, w>>, 0).of[1] = "value"
    BY DEF Line
  <2>3. l \in RunDeps(a, g, o, w)
    BY <1>2, <2>1
  <2> QED BY <1>2, <2>2, <2>3, Zenon DEF RunDeps
<1> QED BY <1>1, <1>2

\* A rule that is resolved later disturbs none that has been: it writes its own
\* .deps file and files that no earlier one reads or makes.
LEMMA EarlierStaySettled ==
  ASSUME IInv, pc \in Rules, NEW r \in Earlier(pc), Settled(r),
         UNCHANGED <<src, script, val, prefix>>, deps'[r] = deps[r],
         \A x \in Place \X Item : x[1] # Target(pc) => file'[x] = file[x]
  PROVE  Settled(r)'
<1>1. r \in {"configure", "run"} /\ (r = "run" => pc = "install")
  BY DEF Earlier, Rules
<1>2. \A i \in Item : file'[<<"gen", i>>] = file[<<"gen", i>>]
  <2>1. Target(pc) # "gen"
    BY <1>1, Kinds DEF Target, Earlier, Rules, IInv, FilesInv
  <2> QED BY <2>1, Kinds
<1>3. r = "run" => \A i \in Item : file'[<<"out", i>>] = file[<<"out", i>>]
  <2>1. r = "run" => Target(pc) # "out"
    BY <1>1, Kinds DEF Target, IInv, FilesInv
  <2> QED BY <2>1, Kinds
<1>4. ASSUME NEW l \in deps[r] PROVE Outdated(l)' = Outdated(l)
  <2>1. CASE l.of[1] = "value"
    BY <2>1 DEF Outdated
  <2>2. CASE l.of = <<"script">>
    BY <2>2 DEF Outdated, Time
  <2>3. CASE \E i \in Item : l.of = <<"src", i>>
    BY <2>3 DEF Outdated, Time
  <2>4. CASE \E i \in Item : l.of = <<"gen", i>>
    BY <2>4, <1>2 DEF Outdated, Time
  <2>5. CASE r = "run" /\ \E i \in Item : l.of = <<"out", i>>
    BY <2>5, <1>3 DEF Outdated, Time
  <2> QED BY <2>1, <2>2, <2>3, <2>4, <2>5, <1>1, LinesAbout DEF IInv
<1>5. Late(r)' = {}
  BY <1>4 DEF Late, Settled
<1>6. ASSUME NEW i \in Item PROVE Good(r, i)'
  <2>1. PICK f \in file[<<Target(r), i>>] : f.image = Made(r, i)
    BY DEF Settled, Good
  <2>2. CASE r = "configure"
    <3>1. f \in file'[<<"gen", i>>] /\ f.image = Configured(i)
      BY <2>1, <2>2, <1>2 DEF Target, Made
    <3>2. Configured(i)' = Configured(i)
      BY DEF Configured
    <3> QED BY <2>2, <3>1, <3>2 DEF Good, Target, Made
  <2>3. CASE r = "run"
    <3>1. f \in file'[<<"out", i>>] /\ f.image = Printed(i)
      BY <2>1, <2>3, <1>3 DEF Target, Made
    <3>2. Printed(i)' = Printed(i)
      BY <1>2 DEF Printed, Image
    <3> QED BY <2>3, <3>1, <3>2 DEF Good, Target, Made
  <2> QED BY <1>1, <2>2, <2>3
<1> QED BY <1>5, <1>6 DEF Settled

\* A line with the present time of what is there is not outdated.
LEMMA PresentLine ==
  ASSUME FilesInv, NEW flag, NEW x \in Place, NEW i \in Item, file[<<x, i>>] # {}
  PROVE  ~Outdated(Line(flag, <<x, i>>, Stored(x)[i]))
<1>1. PICK f \in file[<<x, i>>] : f.at = Stored(x)[i] /\ Stored(x)[i] \in Nat
  BY StoredTimes
<1>2. ~ (f.at > Stored(x)[i])
  BY <1>1
<1>3. <<x, i>> \in Place \X Item
  OBVIOUS
<1>4. Outdated(Line(flag, <<x, i>>, Stored(x)[i])) <=> \A e \in file[<<x, i>>] : e.at > Stored(x)[i]
  BY <1>3, OutdatedLines
<1> QED BY <1>2, <1>4

LEMMA CommittedLines ==
  ASSUME IInv, Commit, NEW l \in Lines(pc)
  PROVE  ~Outdated(l)
<1>1. FilesInv /\ pc \in Rules
  BY CommitFacts DEF IInv
<1>2. ~Outdated(Line(" ", <<"script">>, script))
  <2>1. Outdated(Line(" ", <<"script">>, script)) <=> script > script
    BY OutdatedLines, Zenon
  <2>2. ~ (script > script)
    BY <1>1 DEF FilesInv
  <2> QED BY <2>1, <2>2
<1>3. ASSUME NEW i \in Item PROVE file[<<Target(pc), i>>] # {}
  BY CommitFacts DEF Good
<1>4. ASSUME NEW r \in Earlier(pc), NEW i \in Item PROVE file[<<Target(r), i>>] # {}
  BY <1>1 DEF IInv, ResolvedInv, Settled, Good
<1>5. CASE pc = "configure"
  <2>1. ASSUME NEW i \in Item PROVE ~Outdated(Line("s", <<"src", i>>, src[i]))
    <3>1. Outdated(Line("s", <<"src", i>>, src[i])) <=> src[i] > src[i]
      BY OutdatedLines, Zenon
    <3> QED BY <1>1, <3>1 DEF FilesInv
  <2>2. \A i \in Item : ~Outdated(Line(" ", <<"gen", i>>, Stored("gen")[i]))
    BY <1>1, <1>3, <1>5, PresentLine, Kinds DEF Target
  <2>3. ASSUME NEW v \in used PROVE ~Outdated(Line(" ", <<"value", v, val[v]>>, 0))
    BY OutdatedLines, Zenon
  <2>4. l \in ConfigureDeps(script, src, Stored("gen"), used, val)
    BY <1>1, <1>5, LinesWritten
  <2> QED BY <1>2, <2>1, <2>2, <2>3, <2>4, Zenon DEF ConfigureDeps
<1>6. CASE pc = "run"
  <2>1. \A i \in Item : ~Outdated(Line("s", <<"gen", i>>, Stored("gen")[i]))
    BY <1>1, <1>4, <1>6, PresentLine, Kinds DEF Target, Earlier
  <2>2. \A i \in Item : ~Outdated(Line(" ", <<"out", i>>, Stored("out")[i]))
    BY <1>1, <1>3, <1>6, PresentLine, Kinds DEF Target
  <2>3. ~Outdated(Line(" ", <<"value", Arg, val[Arg]>>, 0))
    BY OutdatedLines, Zenon
  <2>4. l \in RunDeps(script, Stored("gen"), Stored("out"), val[Arg])
    BY <1>1, <1>6, LinesWritten
  <2> QED BY <1>2, <2>1, <2>2, <2>3, <2>4, Zenon DEF RunDeps
<1>7. CASE pc = "install"
  <2>1. \A i \in Item : ~Outdated(Line("s", <<"out", i>>, Stored("out")[i]))
    BY <1>1, <1>4, <1>7, PresentLine, Kinds DEF Target, Earlier
  <2>2. \A i \in Item : ~Outdated(Line("s", <<prefix, i>>, Stored(prefix)[i]))
    BY <1>1, <1>3, <1>7, PresentLine, Kinds DEF Target, FilesInv
  <2>3. ~Outdated(Line(" ", <<"prefix", prefix>>, 0))
    BY OutdatedLines, Zenon
  <2>4. l \in InstallDeps(script, Stored("out"), Stored(prefix), prefix)
    BY <1>1, <1>7, LinesWritten
  <2> QED BY <1>2, <2>1, <2>2, <2>3, <2>4, Zenon DEF InstallDeps
<1> QED BY <1>1, <1>5, <1>6, <1>7 DEF Rules

LEMMA CommittedIsSettled ==
  ASSUME IInv, Commit, NEW r \in Rules, r = pc
  PROVE  Settled(r)'
<1>1. /\ deps'[r] = Lines(r)
      /\ UNCHANGED <<src, script, val, prefix, file>>
      /\ \A i \in Item : Good(r, i)
  BY CommitFacts
<1>2. deps'[r] # {}
  <2>1. Line(" ", <<"script">>, script) \in Lines(r)
    BY LinesWritten DEF IInv, Rules, ConfigureDeps, RunDeps, InstallDeps
  <2> QED BY <1>1, <2>1
<1>3. \A l : Outdated(l)' = Outdated(l)
  BY <1>1 DEF Outdated, Time
<1>4. Late(r)' = {}
  BY <1>1, <1>3, CommittedLines DEF Late
<1>5. \A i \in Item : Good(r, i)' = Good(r, i)
  BY <1>1 DEF Good, Target, Made, Configured, Printed, Installed, Image
<1> QED BY <1>1, <1>2, <1>4, <1>5 DEF Settled

LEMMA SettledStays ==
  ASSUME UNCHANGED <<src, script, val, prefix, file, deps>>, NEW r \in Rules, Settled(r)
  PROVE  Settled(r)'
<1>1. \A l : Outdated(l)' = Outdated(l)
  BY DEF Outdated, Time
<1>2. \A i \in Item : Good(r, i)' = Good(r, i)
  BY DEF Good, Target, Made, Configured, Printed, Installed, Image
<1> QED BY <1>1, <1>2 DEF Settled, Late

LEMMA NextRuleStep ==
  ASSUME IInv, NEW q \in Rules, pc = q, NextRule, Settled(q)', \A r \in Earlier(q) : Settled(r)',
         open' = {}, install' = install
  PROVE  ResolvedInv'
<1>1. last # "ok"
  BY DEF IInv, ResolvedInv, Rules
<1>2. CASE q = "configure"
  <2>1. pc' = "run" /\ deciding' /\ last' # "ok" /\ Settled("configure")'
    BY <1>1, <1>2 DEF NextRule
  <2> QED BY <2>1 DEF ResolvedInv, Earlier
<1>3. CASE q = "run" /\ install
  <2>1. pc' = "install" /\ deciding' /\ last' # "ok" /\ Settled("configure")' /\ Settled("run")'
    BY <1>1, <1>3 DEF NextRule, Earlier
  <2> QED BY <2>1 DEF ResolvedInv, Earlier
<1>4. CASE (q = "run" /\ ~install) \/ q = "install"
  <2>1. pc' = "idle"
    BY <1>4 DEF NextRule
  <2>2. Settled("configure")' /\ Settled("run")' /\ (install' => Settled("install")')
    BY <1>4 DEF Earlier, IInv, ProcessInv
  <2> QED BY <2>1, <2>2 DEF ResolvedInv, Rules
<1> QED BY <1>2, <1>3, <1>4 DEF Rules

\* A rule does not touch what it makes its elements from.
LEMMA MadeStays ==
  ASSUME IInv, NEW q \in Rules, NEW i \in Item, UNCHANGED <<src, script, val, prefix>>,
         \A x \in Place \X Item : x[1] # Target(q) => file'[x] = file[x]
  PROVE  Made(q, i)' = Made(q, i)
<1>1. CASE q = "configure"
  BY <1>1 DEF Made, Configured
<1>2. CASE q = "run"
  <2>1. file'[<<"gen", i>>] = file[<<"gen", i>>]
    BY <1>2, Kinds DEF Target
  <2> QED BY <1>2, <2>1 DEF Made, Printed, Image
<1>3. CASE q = "install"
  <2>1. file'[<<"out", i>>] = file[<<"out", i>>]
    BY <1>3, Kinds DEF Target, IInv, FilesInv
  <2> QED BY <1>3, <2>1 DEF Made, Installed, Image
<1> QED BY <1>1, <1>2, <1>3 DEF Rules

\* An element that is opened or completed leaves the others alone.
LEMMA OthersStayGood ==
  ASSUME IInv, NEW q \in Rules, NEW i \in Item, Good(q, i),
         UNCHANGED <<src, script, val, prefix>>, file'[<<Target(q), i>>] = file[<<Target(q), i>>],
         \A x \in Place \X Item : x[1] # Target(q) => file'[x] = file[x]
  PROVE  Good(q, i)'
<1>1. Made(q, i)' = Made(q, i)
  BY MadeStays
<1>2. Target(q)' = Target(q)
  BY DEF Target
<1> QED BY <1>1, <1>2 DEF Good

LEMMA ResolvedStep ==
  ASSUME SameUses, IInv, [Next]_vars
  PROVE  ResolvedInv'
<1> USE DEF IInv
<1>0. \A q \in Rules : \A r \in Earlier(q) : r \in Rules /\ r # q
  BY DEF Earlier, Rules
<1>1. CASE User \/ Stop \/ \E b \in BOOLEAN : Begin(b)
  <2>1. last' # "ok" /\ open' = {} /\ (pc' = "idle" \/ (pc' = "configure" /\ deciding'))
    BY <1>1
    DEF User, EditTemplate, EditScript, SetVar, ChangePrefix, RemoveFile, WriteOver, Outside, proc,
        Stop, Begin, ProcessInv
  <2> QED BY <2>1 DEF ResolvedInv, Earlier, Rules
<1>2. CASE Skip
  <2>1. PICK q \in Rules : pc = q
    BY <1>2 DEF Skip, ProcessInv
  <2>2. NextRule /\ Settled(q) /\ open' = {} /\ install' = install
    BY <1>2, <2>1, SkippedIsSettled DEF Skip, ProcessInv
  <2>3. \A r \in Earlier(q) : r \in Rules /\ Settled(r)
    BY <1>0, <2>1 DEF ResolvedInv
  <2>4. UNCHANGED <<src, script, val, prefix, file, deps>>
    BY <1>2 DEF Skip, user
  <2>5. ASSUME NEW r \in Rules, Settled(r) PROVE Settled(r)'
    BY <2>4, <2>5, SettledStays
  <2> QED BY <2>1, <2>2, <2>3, <2>5, NextRuleStep
<1>3. CASE Resolve
  <2>1. PICK q \in Rules : pc = q
    BY <1>3 DEF Resolve, ProcessInv
  <2>2. /\ pc' = q /\ ~deciding' /\ todo' = Chosen(q) /\ open' = {} /\ last' # "ok"
        /\ UNCHANGED <<src, script, val, prefix, file, deps>>
        /\ deps[q] = {} \/ Late(q) # {}
    BY <1>3, <2>1 DEF Resolve, user, ProcessInv, ResolvedInv, Rules
  <2>3. ASSUME NEW r \in Rules, Settled(r) PROVE Settled(r)'
    BY <2>2, <2>3, SettledStays
  <2>4. \A r \in Earlier(q) : Settled(r)'
    BY <1>0, <2>1, <2>3 DEF ResolvedInv
  <2>5. ASSUME NEW i \in Item, i \notin Chosen(q) PROVE Good(q, i)'
    <3>1. deps[q] # {} /\ \A l \in Late(q) : l.flag = "s" /\ l.of[2] # i
      BY <2>5 DEF Chosen
    <3>2. Good(q, i)
      BY <3>1, UnchosenAreGood
    <3> QED BY <2>2, <3>2 DEF Good, Target, Made, Configured, Printed, Installed, Image
  <2>6. Chosen(q) # {} \/ \A i \in Item : Uses[i] \subseteq used'
    BY <2>2 DEF Chosen
  <2> QED BY <2>2, <2>4, <2>5, <2>6 DEF ResolvedInv, Rules
<1>4. CASE Open
  <2>1. PICK q \in Rules : pc = q
    BY <1>4 DEF Open, ProcessInv
  <2>2. PICK m \in todo : m = Min(todo)
    BY <1>4, MinOf DEF Open, ProcessInv
  <2>3. PICK p : p = Target(q)
    OBVIOUS
  <2>4. /\ pc' = q /\ open' = {m} /\ last' # "ok"
        /\ UNCHANGED <<src, script, val, prefix, deps, deciding, todo, used>>
    BY <1>4, <2>1, <2>2 DEF Open, user, ResolvedInv, Rules
  <2>5. Target(q)' = p /\ p \in Place /\ m \in Item
    BY <2>1, <2>2, <2>3, <2>4, Kinds DEF Target, Rules, FilesInv, ProcessInv
  <2>6. \A x \in Place \X Item :
          file'[x] = IF x = <<p, m>> THEN {[at |-> clock', image |-> {}]} ELSE file[x]
    BY <1>4, <2>1, <2>2, <2>3 DEF Open, FilesInv
  <2>7. \A x \in Place \X Item : x[1] # Target(q) => file'[x] = file[x]
    BY <2>3, <2>6
  <2>8. \A r \in Earlier(q) : Settled(r)'
    BY <1>0, <2>1, <2>4, <2>7, EarlierStaySettled DEF ResolvedInv
  <2>9. ASSUME NEW i \in Item \ todo PROVE Good(q, i)'
    <3>1. Good(q, i)
      BY <1>4, <2>1 DEF ResolvedInv, Open, ProcessInv
    <3>2. file'[<<Target(q), i>>] = file[<<Target(q), i>>]
      BY <2>2, <2>3, <2>5, <2>6
    <3> QED BY <3>1, <3>2, <2>1, <2>4, <2>7, OthersStayGood
  <2>10. file'[<<p, m>>] # {}
    BY <2>5, <2>6
  <2>11. /\ \A i \in Item \ todo' : Good(q, i)'
         /\ \A i \in open' : file'[<<Target(pc)', i>>] # {}
         /\ pc' = "configure" /\ ~deciding' => todo' # {}
    BY <2>1, <2>2, <2>4, <2>5, <2>9, <2>10
  <2> QED BY <2>4, <2>8, <2>11 DEF ResolvedInv, Rules
<1>5. CASE Done
  <2>1. PICK q \in Rules : pc = q
    BY <1>5 DEF Done, ProcessInv
  <2>2. PICK p : p = Target(q)
    OBVIOUS
  <2>3. PICK m \in todo : open = {m}
    BY <1>5 DEF Done, ProcessInv
  <2>4. /\ pc' = q /\ open' = {} /\ todo' = todo \ {m} /\ last' # "ok" /\ ~deciding
        /\ UNCHANGED <<src, script, val, prefix, deps, deciding>>
    BY <1>5, <2>1, <2>3 DEF Done, user, ResolvedInv, ProcessInv, Rules
  <2>5. Target(q)' = p /\ p \in Place /\ m \in Item
    BY <2>1, <2>2, <2>3, <2>4, Kinds DEF Target, Rules, FilesInv, ProcessInv
  <2>6. \A x \in Place \X Item :
          file'[x] = IF x = <<p, m>>
                     THEN {[at |-> Stamp(q, x[2], f.at), image |-> Made(q, x[2])] : f \in file[x]}
                     ELSE file[x]
    BY <1>5, <2>1, <2>2, <2>3 DEF Done, FilesInv
  <2>7. ASSUME NEW x \in Place \X Item, x[1] # Target(q) PROVE file'[x] = file[x]
    <3>1. x # <<p, m>>
      BY <2>2, <2>7
    <3> QED BY <2>6, <3>1
  <2>8. \A r \in Earlier(q) : Settled(r)'
    BY <1>0, <2>1, <2>4, <2>7, EarlierStaySettled DEF ResolvedInv
  <2>9. ASSUME NEW i \in Item \ todo PROVE Good(q, i)'
    <3>1. Good(q, i)
      BY <2>1, <2>4 DEF ResolvedInv
    <3>2. file'[<<Target(q), i>>] = file[<<Target(q), i>>]
      BY <2>2, <2>3, <2>5, <2>6
    <3> QED BY <3>1, <3>2, <2>1, <2>4, <2>7, OthersStayGood
  <2>10. Good(q, m)'
    <3>1. PICK f \in file[<<p, m>>] : TRUE
      BY <2>1, <2>2, <2>3 DEF ResolvedInv
    <3>2. file'[<<p, m>>] = {[at |-> Stamp(q, m, e.at), image |-> Made(q, m)] : e \in file[<<p, m>>]}
      BY <2>5, <2>6
    <3>3. [at |-> Stamp(q, m, f.at), image |-> Made(q, m)] \in file'[<<p, m>>]
      BY <3>1, <3>2
    <3>4. PICK e \in file'[<<p, m>>] : e = [at |-> Stamp(q, m, f.at), image |-> Made(q, m)]
      BY <3>3
    <3>5. e.image = Made(q, m)
      BY <3>4
    <3>6. Made(q, m)' = Made(q, m)
      BY <2>4, <2>5, <2>7, MadeStays
    <3> QED BY <2>5, <3>4, <3>5, <3>6 DEF Good
  <2>11. \A i \in Item \ todo' : Good(q, i)'
    BY <2>4, <2>9, <2>10
  <2>12. q = "configure" => \A i \in Item : Uses[i] \subseteq used'
    <3>1. q = "configure" => Uses[m] \subseteq used'
      BY <1>5, <2>1, <2>3 DEF Done
    <3> QED BY <2>5, <3>1 DEF SameUses
  <2> QED BY <2>4, <2>8, <2>11, <2>12 DEF ResolvedInv, Rules
<1>6. CASE Commit
  <2>1. PICK q \in Rules : pc = q
    BY <1>6, CommitFacts
  <2>2. /\ NextRule /\ open' = {} /\ install' = install
        /\ UNCHANGED <<src, script, val, prefix, file>>
        /\ \A r \in Rules : r # q => deps'[r] = deps[r]
    BY <1>6, <2>1, CommitFacts DEF Commit, ProcessInv
  <2>3. Settled(q)'
    BY <1>6, <2>1, CommittedIsSettled
  <2>4. \A r \in Earlier(q) : Settled(r)'
    BY <1>0, <2>1, <2>2, EarlierStaySettled DEF ResolvedInv
  <2> QED BY <2>1, <2>2, <2>3, <2>4, NextRuleStep
<1>7. CASE UNCHANGED vars
  <2>1. UNCHANGED <<src, script, val, prefix, file, deps, pc, todo, deciding, open, used, install, last>>
    BY <1>7 DEF vars, user, proc
  <2>2. \A r \in Rules : Settled(r) => Settled(r)'
    BY <2>1, SettledStays
  <2>3. \A r \in Rules, i \in Item : Good(r, i)' = Good(r, i)
    BY <2>1 DEF Good, Target, Made, Configured, Printed, Installed, Image
  <2>4. \A i \in open' : file'[<<Target(pc)', i>>] # {}
    BY <2>1 DEF ResolvedInv, Target
  <2>5. PICK q : q = pc
    OBVIOUS
  <2>6. q \in Rules => \A r \in Earlier(q) : Settled(r)'
    BY <1>0, <2>2, <2>5 DEF ResolvedInv
  <2>7. q \in Rules /\ ~deciding => \A i \in Item \ todo : Good(q, i)'
    BY <2>3, <2>5 DEF ResolvedInv
  <2>8. last = "ok" => /\ pc = "idle" /\ Settled("configure")' /\ Settled("run")'
                       /\ install => Settled("install")'
    BY <2>2 DEF ResolvedInv, Rules
  <2>9. pc = "configure" /\ ~deciding => todo # {} \/ \A i \in Item : Uses[i] \subseteq used
    BY DEF ResolvedInv
  <2> QED BY <2>1, <2>4, <2>5, <2>6, <2>7, <2>8, <2>9 DEF ResolvedInv
<1> QED BY <1>1, <1>2, <1>3, <1>4, <1>5, <1>6, <1>7 DEF Next, Build

-----------------------------------------------------------------------------
(***************************************************************************)
(* The theorems.                                                           *)
(***************************************************************************)

LEMMA TemplatesInit == Init => IInv
<1> SUFFICES ASSUME Init PROVE IInv
  OBVIOUS
<1>1. \A r \in Rules : deps[r] = {}
  BY DEF Init
<1>2. \A x \in Place \X Item : file[x] = {}
  BY DEF Init
<1>3. ProcessInv
  BY DEF Init, ProcessInv
<1>4. FilesInv
  BY <1>1, <1>2 DEF Init, FilesInv
<1>5. RecordInv
  BY <1>1 DEF RecordInv, ConfigureRecord, RunRecord, InstallRecord, Rules
<1>6. ResolvedInv
  BY DEF Init, ResolvedInv, Rules
<1> QED BY <1>3, <1>4, <1>5, <1>6 DEF IInv

\* Whatever the user changes and however often an invocation dies or fails, what
\* the .deps files say of a file that is not newer than its recorded time is
\* true, and the rules that have been resolved are settled: the inductive
\* invariant behind the selective rules (node_configure.c:196, node_run.c:258,
\* node_install.c:207), for templates that mention the same variables.
THEOREM TemplatesInductive ==
  ASSUME SameUses
  PROVE  Spec => []IInv
<1>1. ASSUME IInv, [Next]_vars PROVE IInv'
  <2>1. ProcessInv' /\ FilesInv'
    BY <1>1, ProcessStep, FilesStep DEF IInv
  <2> QED BY <1>1, <2>1, RecordStep, ResolvedStep DEF IInv
<1> QED BY <1>1, TemplatesInit, PTL DEF Spec

\* A finished invocation has made every element from the present template, values
\* and command, also those it has not made again.
THEOREM TemplatesFresh ==
  ASSUME SameUses
  PROVE  Spec => []OutputsFresh
<1>1. ASSUME IInv PROVE OutputsFresh
  <2> SUFFICES ASSUME last = "ok", NEW i \in Item
               PROVE  /\ Holds(<<"gen", i>>, Current(i).input)
                      /\ Holds(<<"out", i>>, Current(i))
                      /\ install => Holds(<<prefix, i>>, Current(i))
    BY DEF OutputsFresh
  <2>1. Settled("configure") /\ Settled("run") /\ (install => Settled("install"))
    BY <1>1 DEF IInv, ResolvedInv
  <2>2. PICK g \in file[<<"gen", i>>] : g.image = Configured(i)
    BY <2>1 DEF Settled, Good, Target, Made
  <2>3. g.image = {Current(i).input}
    BY <2>2 DEF Configured, Current
  <2>4. PICK f \in file[<<"out", i>>] : f.image = Printed(i)
    BY <2>1 DEF Settled, Good, Target, Made
  <2>5. Image(<<"gen", i>>) = {Current(i).input}
    <3>1. \A e, d \in file[<<"gen", i>>] : e = d
      BY <1>1, Kinds DEF IInv, FilesInv
    <3> QED BY <2>2, <2>3, <3>1, OneImage DEF Image
  <2>6. f.image = {Current(i)}
    BY <2>4, <2>5 DEF Printed, Current
  <2>7. Image(<<"out", i>>) = {Current(i)}
    <3>1. \A e, d \in file[<<"out", i>>] : e = d
      BY <1>1, Kinds DEF IInv, FilesInv
    <3> QED BY <2>4, <2>6, <3>1, OneImage DEF Image
  <2>8. ASSUME install PROVE Holds(<<prefix, i>>, Current(i))
    <3>1. PICK e \in file[<<prefix, i>>] : e.image = Installed(i)
      BY <2>1, <2>8 DEF Settled, Good, Target, Made
    <3> QED BY <3>1, <2>7 DEF Installed, Holds
  <2> QED BY <2>2, <2>3, <2>4, <2>6, <2>8 DEF Holds
<1> QED BY <1>1, TemplatesInductive, PTL

\* After a finished invocation no line is outdated: the next one makes nothing.
THEOREM TemplatesStable ==
  ASSUME SameUses
  PROVE  Spec => []NothingToDo
<1>1. ASSUME IInv PROVE NothingToDo
  BY <1>1 DEF IInv, ResolvedInv, Settled, NothingToDo, Rules
<1> QED BY <1>1, TemplatesInductive, PTL

\* configure and run together implement Rebuild: an invocation that reports
\* success leaves none of their products stale (script.c:1332).
THEOREM TemplatesPromise ==
  ASSUME SameUses
  PROVE  Spec => KeepsPromise
<1>1. Init => Promise!Init
  BY DEF Init, Promise!Init, Stale
<1>2. IInv /\ OutputsFresh' /\ [Next]_vars => [Promise!Next]_(Promise!vars)
  <2> SUFFICES ASSUME IInv, OutputsFresh', [Next]_vars PROVE [Promise!Next]_(Promise!vars)
    OBVIOUS
  <2>1. Stale \in SUBSET ({"gen", "out"} \X Item) /\ Stale' \in SUBSET ({"gen", "out"} \X Item)
    BY DEF Stale
  <2>2. UNCHANGED <<user, file>> => Stale' = Stale
    BY DEF user, Stale, Wanted, Current, Holds
  <2>3. last' = "ok" => Stale' = {}
    <3>1. SUFFICES ASSUME last' = "ok", NEW x \in {"gen", "out"} \X Item PROVE Holds(x, Wanted(x))'
      BY DEF Stale
    <3>2. PICK i \in Item : x = <<"gen", i>> \/ x = <<"out", i>>
      OBVIOUS
    <3>3. Holds(<<"gen", i>>, Current(i).input)' /\ Holds(<<"out", i>>, Current(i))'
      BY <3>1 DEF OutputsFresh
    <3>4. QED
      BY <3>2, <3>3 DEF Wanted
  <2>4. ASSUME pc # "idle", NextRule, UNCHANGED <<user, file>> PROVE Promise!Next
    <3>1. CASE pc' # "idle"
      <4>1. UNCHANGED last
        BY <2>4, <3>1 DEF NextRule
      <4>2. QED
        BY <2>1, <2>4, <3>1, <4>1 DEF Promise!Next, Promise!Work
    <3>2. CASE pc' = "idle"
      <4>1. last' = "ok"
        BY <2>4, <3>2 DEF NextRule
      <4>2. QED
        BY <2>2, <2>3, <2>4, <3>2, <4>1 DEF Promise!Next, Promise!Succeed
    <3>3. QED
      BY <3>1, <3>2
  <2>5. CASE User
    <3>1. pc = "idle" /\ last' = "none" /\ UNCHANGED pc
      BY <2>5 DEF User, EditTemplate, EditScript, SetVar, ChangePrefix, RemoveFile, WriteOver, Outside, proc
    <3>2. QED
      BY <2>1, <3>1 DEF Promise!Next, Promise!Change
  <2>6. CASE \E b \in BOOLEAN : Begin(b)
    <3>1. pc = "idle" /\ pc' = "configure" /\ last' = "none" /\ UNCHANGED <<user, file>>
      BY <2>6 DEF Begin
    <3>2. QED
      BY <2>2, <3>1 DEF Promise!Next, Promise!Start
  <2>7. CASE Skip \/ Commit
    <3>1. pc # "idle"
      BY <2>7 DEF Skip, Commit, IInv, ProcessInv
    <3>2. QED
      BY <2>4, <2>7, <3>1 DEF Skip, Commit
  <2>8. CASE Resolve \/ Open \/ Done
    <3>1. pc # "idle" /\ UNCHANGED <<pc, last>>
      BY <2>8 DEF Resolve, Open, Done, IInv, ProcessInv
    <3>2. QED
      BY <2>1, <3>1 DEF Promise!Next, Promise!Work
  <2>9. CASE Stop
    <3>1. pc # "idle" /\ pc' = "idle" /\ last' = "stopped" /\ UNCHANGED <<user, file>>
      BY <2>9 DEF Stop
    <3>2. QED
      BY <2>2, <3>1 DEF Promise!Next, Promise!GiveUp
  <2>10. CASE UNCHANGED vars
    BY <2>2, <2>10 DEF vars, user, proc, Promise!vars
  <2>11. QED
    BY <2>5, <2>6, <2>7, <2>8, <2>9, <2>10 DEF Next, Build
<1>3. QED
  BY TemplatesInductive, TemplatesFresh, <1>1, <1>2, PTL DEF Spec, KeepsPromise, Promise!Spec
=============================================================================
