------------------------------ MODULE MCScript ------------------------------
(***************************************************************************)
(* What autark makes of the text of a build script, for TLC: either the    *)
(* tree of one of the scripts of MCScriptTree, or the variables of one of  *)
(* those of VariableScripts.  The other part does not move.                *)
(***************************************************************************)
EXTENDS MCScriptTree

VARIABLES
  part,     \* "tree" or "variables"
  script, given, environ, table, nodes, pass, pos, seen, born, early  \* of Variables

allVars == <<part, vars, script, given, environ, table, nodes, pass, pos, seen, born, early>>

Data == INSTANCE VariableScripts
Variable == INSTANCE Variables WITH
  Keys <- Data!MCVars, Scripts <- Data!MCScripts,
  Givens <- Data!MCGivens, Environs <- Data!MCEnvirons

AnInit ==
  \/ /\ part = "tree" /\ Init
     /\ script = <<>> /\ given = <<>> /\ environ = <<>> /\ table = <<>> /\ nodes = <<>>
     /\ pass = 1 /\ pos = 1 /\ seen = <<>> /\ born = <<>> /\ early = {}
  \/ /\ part = "variables"
     /\ text = TextOf(<<Macro("M", <<>>)>>) /\ Init
     /\ Variable!Init

ANext ==
  \/ part = "tree" /\ Next
     /\ UNCHANGED <<part, script, given, environ, table, nodes, pass, pos, seen, born, early>>
  \/ part = "variables" /\ Variable!Next /\ UNCHANGED <<part, vars>>

\* The fairness of ScriptTree!FairSpec.
TreeRuns == part = "tree" /\ Running
ASpec == AnInit /\ [][ANext]_allVars /\ (<>[]TreeRuns => []<><<ANext>>_allVars)

-----------------------------------------------------------------------------
\* Whoever asks for a variable gets what the script says, as long as no request has set
\* up a let before its place (Variables!AsWrittenInOrder, node_set.c:91 and script.c:599).
ValuesAsWritten == Variable!AsWrittenInOrder

\* Macros that call themselves are stopped: initialisation ends
\* (ScriptText!Terminates, node_call.c:109).
TreeTerminates == part = "tree" => Terminates
=============================================================================
