---------------------------- MODULE MCCxxModules ----------------------------
(***************************************************************************)
(* The rules of one project for TLC.                                       *)
(***************************************************************************)
EXTENDS CxxModules, ModuleProjects
=============================================================================
