------------------------------ MODULE MCCcRule ------------------------------
(***************************************************************************)
(* Instances of CcRule for TLC: how a user changes the settings.           *)
(***************************************************************************)
EXTENDS CcRuleInv

CONSTANTS f1, f2, arm

\* The flags change, and do not change back.
MCForward == {<<f1, f2>>}

\* From a cross build to a native one, and not back.
MCToNative == {<<arm, Native>>}

\* From a native build to a cross build.
MCToCross == {<<Native, arm>>}

\* Without a switch to a cross build the settings meet what the proofs ask for.
ASSUME ForwardAssumption == Switches \subseteq MCToNative => SettingsForward
=============================================================================
