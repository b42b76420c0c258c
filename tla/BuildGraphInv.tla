--------------------------- MODULE BuildGraphInv ---------------------------
(***************************************************************************)
(* The inductive invariants behind RunsOnce, InputsReady, SameAsClean and  *)
(* NothingToDo: which rules are being built, what a rule has resolved so   *)
(* far, and what a .deps file that finds nothing outdated vouches for.     *)
(***************************************************************************)
EXTENDS BuildGraph, Functions

-----------------------------------------------------------------------------
(***************************************************************************)
(* The recursion of node_build, for every build script.                    *)
(***************************************************************************)

Command == [args : {Args[sh][r] : sh \in Shapes, r \in Rules},
            in : SUBSET (File \X Nat), todo : SUBSET Names]

\* TypeOK, without what it says of the stack and of the bound of the clock.
Types ==
  /\ clock \in Nat /\ text \in Nat
  /\ shape \in Shapes
  /\ src \in [Names -> Nat]
  /\ cache \in [Names -> SUBSET Product]
  /\ deps \in [Rules -> SUBSET Record]
  /\ pc \in {"idle", "setup", "build", "post"}
  /\ built \subseteq Rules /\ log \subseteq Rules
  /\ stack \in Seq(Frame)
  /\ cmd \subseteq Command
  /\ result \in {"none", "ok", "fail", "cyclic", "unresolved", "killed"}

\* A process starts from nothing, and the second pass after the first.
PassInv ==
  /\ pc \in {"idle", "setup"} => built = {} /\ stack = <<>> /\ cmd = {} /\ log = {}
  /\ pc = "post" => Rules \ Late[shape] \subseteq built
  /\ result # "none" => pc = "idle"

\* No two rules on the stack are the same, and none of them is built.
StackInv ==
  /\ \A j, k \in 1 .. Len(stack) : stack[j].rule = stack[k].rule => j = k
  /\ \A k \in 1 .. Len(stack) : stack[k].rule \notin built

\* The command that runs is of the topmost rule, which has found all its files.
CommandInv ==
  cmd # {} => /\ stack # <<>> /\ Top.left = <<>> /\ Top.miss = <<>>
              /\ \A c \in cmd : /\ c.args = Args[shape][Top.rule]
                                /\ c.todo \subseteq Produces[shape][Top.rule]

\* A rule whose commands were started is built, or they are running.
LogInv == \A r \in log : r \in built \/ (cmd # {} /\ Top.rule = r)

\* The invariant behind RunsOnce.
CoreInv == Types /\ PassInv /\ StackInv /\ CommandInv /\ LogInv

-----------------------------------------------------------------------------
(***************************************************************************)
(* What the files say, for the scripts the promise is meant for.           *)
(***************************************************************************)

\* No two rules of a script that gets through node_setup share a product.
Sound(sh) == \A q, r \in Rules : q # r => Produces[sh][q] \cap Produces[sh][r] = {}
Made(sh)  == UNION {Produces[sh][r] : r \in Rules}

\* A variable changes arguments only, no name is produced by one version of the
\* script and consumed as a source by another, and what is made when installing
\* is not consumed.  Products may come, go, be renamed and change their rules.
Trustworthy ==
  /\ \A p \in Variables : /\ Consumes[p[1]] = Consumes[p[2]]
                          /\ Produces[p[1]] = Produces[p[2]]
  /\ \A a, b \in Shapes : Sound(a) /\ Sound(b) =>
       \A r \in Rules : \A k \in DOMAIN Consumes[b][r] :
         Consumes[b][r][k] \in Made(a) => Consumes[b][r][k] \in Made(b)
  /\ \A sh \in Shapes : \A r, q \in Rules :
       \A k \in DOMAIN Consumes[sh][r] :
         Consumes[sh][r][k] \in Produces[sh][q] => q \notin Late[sh]

\* Where a consumed file is, and the places a record of r has to name.
Place(f)   == <<IF Producer(f) # {} THEN "cache" ELSE "src", f>>
Inputs(r)  == {Place(f) : f \in Consumed(r)}
Outputs(r) == {"cache"} \X Produces[shape][r]

\* A record is never later than the files it names, nor these than the clock.
TimeInv ==
  /\ text <= clock
  /\ \A f \in Names : src[f] <= clock /\ \A c \in cache[f] : c.at <= clock
  /\ \A r \in Rules : \A d \in deps[r] :
       /\ d.text <= clock
       /\ \A p \in d.files : p[2] <= clock /\ \A m \in MTime(p[1]) : p[2] <= m

\* A name has one file; rules that build share no product; the cache directory
\* only holds what some version of the script makes.
NameInv ==
  /\ \A f \in Names : \A c, e \in cache[f] : c = e
  /\ pc \in {"build", "post"} => Sound(shape)
  /\ \A f \in Names : cache[f] # {} => \E sh \in Shapes : Sound(sh) /\ f \in Made(sh)

\* A record made with the present script names what r consumes and produces;
\* a product that has not changed since was made by r, with the recorded
\* arguments, from what the record says of the consumed files.
RecordInv ==
  \A r \in Rules : \A d \in deps[r] : text <= d.text =>
    /\ {p[1] : p \in d.files} = Inputs(r) \cup Outputs(r)
    /\ \A p, e \in d.files : p[1] = e[1] => p = e
    /\ \A f \in Produces[shape][r] : \A c \in cache[f] :
         <<<<"cache", f>>, c.at>> \in d.files =>
           /\ c.by = r /\ c.args = d.args
           /\ c.in = {p \in d.files : p[1] \in Inputs(r)}

\* What a rule has resolved: the names in left and miss are still open, the
\* producers of the others are built, and got says where the others are.
FrameInv(fr) ==
  /\ Range(fr.left) \cup Range(fr.miss) \subseteq Consumed(fr.rule)
  /\ \A f \in Range(fr.miss) : Producer(f) = {}
  /\ \A f \in Consumed(fr.rule) : f \in Range(fr.left) \/ Producer(f) \subseteq built
  /\ \A f \in Consumed(fr.rule) :
       f \in Range(fr.left) \/ f \in Range(fr.miss) \/ Place(f) \in fr.got
  /\ fr.got \subseteq Inputs(fr.rule)
  /\ \A x \in fr.got : MTime(x) # {}

FramesInv == \A k \in 1 .. Len(stack) : FrameInv(stack[k])

\* A running command has read what is there now, and what it has written is
\* as it was started for.
WrittenInv ==
  \A c \in cmd :
    /\ c.in = Present(Top.got)
    /\ \A f \in Produces[shape][Top.rule] \ c.todo :
         /\ cache[f] # {}
         /\ \A e \in cache[f] : e.by = Top.rule /\ e.args = c.args /\ e.in = c.in

\* A built rule is up to date, and so are the rules it needs.
BuiltInv ==
  \A r \in built : UpToDate(r) /\ \A f \in Consumed(r) : Producer(f) \subseteq built

OkInv == result = "ok" => \A r \in Rules : UpToDate(r)

\* Products this process has still to write, or will not write at all.
Unwritten ==
  {f \in Names : \E r \in Producer(f) :
     r \notin built /\ (cmd # {} /\ r = Top.rule => \E c \in cmd : f \in c.todo)}

\* There is room for every modification time that a running process will issue:
\* no product is written twice.
RoomInv ==
  /\ clock <= MaxClock /\ 1 <= text
  /\ pc = "setup" => clock + Cardinality({f \in Names : Producer(f) # {}}) <= MaxClock
  /\ pc \in {"build", "post"} => clock + Cardinality(Unwritten) <= MaxClock

\* A rule on the stack waits for the next one because it needs it.
ChainInv == \A k \in 1 .. Len(stack) - 1 : stack[k + 1].rule \in Needs({stack[k].rule})

\* Rules are built one after the other: among any that are, one was the first.
OrderInv == \A S \in SUBSET built : S # {} => \E r \in S : Needs({r}) \cap S = {}

\* The invariant behind Verdict.
WayInv == ChainInv /\ OrderInv

\* The invariant behind InputsReady, SameAsClean and NothingToDo.
FreshInv == /\ TimeInv /\ NameInv /\ RecordInv /\ FramesInv
            /\ WrittenInv /\ BuiltInv /\ OkInv

IInv == TypeOK /\ CoreInv /\ FreshInv /\ WayInv /\ RoomInv
=============================================================================
