----------------------------- MODULE MCRecords -----------------------------
(***************************************************************************)
(* What the .deps files of a row of rules have to record, for TLC: rules   *)
(* that make again only some of their elements, cc rules whose .deps files *)
(* are named by their place, or cxx rules that share their modules.  The   *)
(* other parts do not move.                                                *)
(***************************************************************************)
EXTENDS MCTemplates, NamedRules, ModuleProjects

ASSUME SameUsesAssumption == SameUses

VARIABLES
  part,
  nchanges, nclock, rules, option, scripts, source, object, ndeps, pos, step, nlast, \* of RuleNames
  style, projects, cchanges, cclock, sources, objects, bmi, map, mdeps, stack, cstep,
  built, ifaces, rest, failed, clast                     \* of CxxModules

nameVars == <<nchanges, nclock, rules, option, scripts, source, object, ndeps, pos, step, nlast>>
cxxVars  == <<style, projects, cchanges, cclock, sources, objects, bmi, map, mdeps, stack,
              cstep, built, ifaces, rest, failed, clast>>
allVars  == <<part, nameVars, cxxVars, vars>>

Named == INSTANCE RuleNames WITH
  Root <- "root", Groups <- MCLastGrows, MaxChanges <- 3,
  changes <- nchanges, clock <- nclock, script <- scripts, deps <- ndeps, last <- nlast

ASSUME NamesAssumption == Named!Assumption /\ Named!PlacesKept /\ Named!OnlyLastChanges

Cxx == INSTANCE CxxModules WITH
  Styles <- {"gcc", "clang"}, Layouts <- MCLayouts, Texts <- MCSources, MaxChanges <- 3,
  rules <- projects, changes <- cchanges, clock <- cclock, source <- sources,
  object <- objects, deps <- mdeps, step <- cstep, last <- clast

NamesOff == /\ nchanges = 0 /\ nclock = 0 /\ rules = <<<<>>, <<>>>> /\ option = FALSE
            /\ scripts = <<>> /\ source = <<>> /\ object = <<>> /\ ndeps = {}
            /\ pos = 0 /\ step = "off" /\ nlast = "none"

CxxOff == /\ style = "off" /\ projects = "off" /\ cchanges = "off" /\ cclock = "off"
          /\ sources = "off" /\ objects = "off" /\ bmi = "off" /\ map = "off"
          /\ mdeps = "off" /\ stack = "off" /\ cstep = "off" /\ built = "off"
          /\ ifaces = "off" /\ rest = "off" /\ failed = "off" /\ clast = "off"

Resting == Init /\ val = [u \in Vars |-> x] /\ prefix = usr

AnInit ==
  \/ part = "templates" /\ Init /\ NamesOff /\ CxxOff
  \/ part = "names" /\ Named!Init /\ Resting /\ CxxOff
  \/ part = "cxx" /\ Cxx!Init /\ Resting /\ NamesOff

ANext ==
  \/ part = "templates" /\ Next /\ UNCHANGED <<part, nameVars, cxxVars>>
  \/ part = "names" /\ Named!Next /\ UNCHANGED <<part, vars, cxxVars>>
  \/ part = "cxx" /\ Cxx!Next /\ UNCHANGED <<part, vars, nameVars>>

ASpec == AnInit /\ [][ANext]_allVars

-----------------------------------------------------------------------------
\* A finished invocation has left every cc rule with an object of its present
\* source (RuleNames!ObjectsFresh, script.c:488).
ObjectsFresh == Named!ObjectsFresh

\* A successful build leaves every object and interface as a build from nothing
\* would make it (CxxModules!ModulesFresh, cxx_modules.c:473).
CxxFresh == part = "cxx" => Cxx!ModulesFresh

\* The invocation after it compiles nothing (CxxModules!Converges,
\* tests/cxx-modules/run-tests.sh:230).
CxxConverges == part = "cxx" => Cxx!Converges
=============================================================================
