---------------------------- MODULE MCCheckRule ----------------------------
(***************************************************************************)
(* A check script for TLC: it asks for the compiler, with some of the      *)
(* compilers it also looks at a header, and one of them finds nothing, so  *)
(* that nothing is set (as check_scripts/test_symbol.sh does).             *)
(***************************************************************************)
EXTENDS CheckRule

CONSTANTS script, cc, header

MCInputs == {script, cc, header}
MCFiles  == {script, header}
MCWorld  == [MCInputs -> Vals]

MCReads == [w \in MCWorld |-> IF w[cc] = 0 THEN {cc} ELSE {cc, header}]

Version(w) == <<"VERSION", w[script]>>
Header(w)  == <<"HEADER", w[header]>>

MCSets == [w \in MCWorld |-> CASE w[cc] = 0 -> {Version(w), <<"NATIVE", 1>>}
                                [] w[cc] = 1 -> {Version(w), Header(w)}
                                [] OTHER     -> {}]
=============================================================================
