------------------------------- MODULE MCParts -------------------------------
(***************************************************************************)
(* The parts of autark that do not see each other's state, for TLC: the    *)
(* map, the list and the paths that everything else is made of, a child    *)
(* process, and a check rule.  One of them moves; the others are off, or   *)
(* stay as they begin.                                                     *)
(***************************************************************************)
EXTENDS MCCheckRule, FiniteSets, TLC

CONSTANTS k1, k2, k3, k4, k5, v, w, x, y, None, Garbage

VARIABLES
  part,                                                 \* the one that moves
  entries, iter, seen, begun,                           \* of HashMap
  array, start, num, call,                              \* of UList
  from, to, cwd,                                        \* of Paths
  environ, settings, has, cenv, program, phase, ready, at, reads, writers,
  pipe, written, got, child, plan, wstatus, rc, broken  \* of Spawn

-----------------------------------------------------------------------------
\* Hashes that collide, that wrap around the end of the table, and one that
\* becomes 0 when 1 is added.
MCKeys == {k1, k2, k3, k4, k5}
MCHash == k1 :> 2 @@ k2 :> 2 @@ k3 :> 6 @@ k4 :> 15 @@ k5 :> 10

Map == INSTANCE HashMap WITH
  Keys <- MCKeys, Vals <- {v, w}, Hash <- MCHash, Width <- 4, Initial <- 4, Maximal <- 16

ASSUME MapAssumption == Map!Assumption

\* Arrays that grow by more than a unit, and are cut to one.
List == INSTANCE UList WITH
  Data <- {x, y}, AllocUnit <- 2, Lengths <- {0, 1, 2}, MaxLength <- 4, MaxSlots <- 5

ASSUME ListAssumption == List!Assumption

\* All paths of five characters, to all of four.
Path == INSTANCE Paths WITH Chars <- {"/", ".", "a"}, MaxLength <- 5

\* A child that writes more to each pipe than fits, to either first.
Var(k, val) == [key |-> k, val |-> val]
Child == INSTANCE Spawn WITH
  Environs <- {<<Var("A", <<"1">>), Var("PATH", <<"bin", "usr">>), Var("B", <<"2">>)>>},
  Settings <- {<<Var("B", <<"3">>), Var("C", <<"4">>), Var("A", <<>>)>>},
  Prepended <- <<"cache", "dir">>,
  Present <- {{}, {"cache", "usr"}},
  Plans <- {<<"stderr", "stderr", "stdout">>, <<"stdout", "stderr", "stdout">>},
  Room <- 1, MaxPieces <- 2, env <- cenv

ASSUME ChildAssumption == Child!NamesOnce

-----------------------------------------------------------------------------
MapOff   == Map!Init
ListOff  == array = "off" /\ start = 0 /\ num = 0 /\ call = "off"
PathOff  == from = "off" /\ to = "off" /\ cwd = "off"
ChildOff == /\ environ = "off" /\ settings = "off" /\ has = "off" /\ cenv = "off"
            /\ program = "off" /\ phase = "off" /\ ready = "off" /\ at = "off"
            /\ reads = "off" /\ writers = [p \in {"stdout", "stderr"} |-> {}] /\ pipe = "off" /\ written = "off"
            /\ got = "off" /\ child = {} /\ plan = "off" /\ wstatus = "off" /\ rc = "off" /\ broken = "off"
CheckOff == /\ input = [n \in MCInputs |-> 0] /\ deps = {} /\ env = {} /\ pc = "off"
            /\ depsTmp = {} /\ envTmp = {} /\ loaded = {} /\ result = "none" /\ behind = FALSE

AnInit ==
  \/ part = "map"   /\ Map!Init /\ ListOff /\ PathOff /\ ChildOff /\ CheckOff
  \/ part = "list"  /\ List!Init /\ MapOff /\ PathOff /\ ChildOff /\ CheckOff
  \/ part = "paths" /\ Path!Init /\ MapOff /\ ListOff /\ ChildOff /\ CheckOff
  \/ part = "child" /\ Child!Init /\ MapOff /\ ListOff /\ PathOff /\ CheckOff
  \/ part = "check" /\ Init /\ MapOff /\ ListOff /\ PathOff /\ ChildOff

mapVars   == <<entries, iter, seen, begun>>
listVars  == <<array, start, num, call>>
pathVars  == <<from, to, cwd>>
childVars == <<environ, settings, has, cenv, program, phase, ready, at, reads, writers,
               pipe, written, got, child, plan, wstatus, rc, broken>>
allVars   == <<part, mapVars, listVars, pathVars, childVars, vars>>

ANext ==
  /\ UNCHANGED part
  /\ IF part = "map"   THEN Map!Next   ELSE UNCHANGED mapVars
  /\ IF part = "list"  THEN List!Next  ELSE UNCHANGED listVars
  /\ IF part = "paths" THEN Path!Next  ELSE UNCHANGED pathVars
  /\ IF part = "child" THEN Child!Next ELSE UNCHANGED childVars
  /\ IF part = "check" THEN Next       ELSE UNCHANGED vars

\* A part that is off has nothing to be fair to.
ASpec == AnInit /\ [][ANext]_allVars /\ Child!Fair /\ Fairness

-----------------------------------------------------------------------------
\* The table is never full, so every search ends, and every entry is found from
\* its key wherever growing, shrinking and removals have put it (map.c:167, 179).
MapSound == Map!MapSound

\* An iteration whose user removes entries it has just received returns every
\* entry of the map (map.c:285).
NothingSkipped == Map!NothingSkipped

\* The table is a map from keys to values (map.c, in terms of KeyMap).
IsMap == Map!IsMap

\* After every call a list is what the call makes of the list before it, whatever
\* growing, shrinking and moves to either end do to its array (ulist.c:103, 157).
AsCalled == part = "list" => List!AsCalled

\* A path has one normal form, and relative paths, prefixes and joins lead where
\* the segments of the paths say (paths.c:74, 447, 510 and 539).
PathAsSegments == part = "paths" => Path!OneName /\ Path!LeadsThere /\ Path!InsideOnly

\* What a child wrote to its pipes is received in order, and all of it when spawn_do
\* returns without an error, with its status; and on every way out but a failure of
\* poll all pipes are closed (Spawn!AllReceived, spawn.c:411 and 421).
AllReceived == part = "child" => Child!AllReceived

\* The child finds every variable once, as it was set, and is the program that
\* its own PATH leads to (spawn.c:138 and 182).
ChildSees == part = "child" => Child!ChildSees

\* spawn_do returns, whichever pipe the child fills first, unless poll fails
\* (Spawn!Returns, spawn.c:419).
ChildReturns == part = "child" => Child!Returns

\* Once the inputs of a check stay as they are, its script is run until it has
\* succeeded, and then no more (CheckRule!EventuallyServed, script.c:1262).
CheckServes == part = "check" => EventuallyServed
=============================================================================
