---------------------------- MODULE MCRuleNames ----------------------------
(***************************************************************************)
(* The rules of one project for TLC.                                       *)
(***************************************************************************)
EXTENDS RuleNames, NamedRules
=============================================================================
