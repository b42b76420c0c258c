------------------------------ MODULE Rebuild ------------------------------
(***************************************************************************)
(* What an incremental rule promises, whatever it records and however it   *)
(* decides: artifacts may become stale between builds and in any order     *)
(* during one, but an invocation that reports success leaves none stale.   *)
(***************************************************************************)
CONSTANT Items      \* the artifacts of the rule

VARIABLES
  stale,     \* artifacts that are missing or differ from what a build makes
  phase,     \* "idle" between invocations, "building" during one
  outcome    \* what the last invocation reported

vars == <<stale, phase, outcome>>

Init ==
  /\ stale \in SUBSET Items
  /\ phase = "idle"
  /\ outcome = "none"

\* The world changes between two invocations, and the last report may no more
\* be about it.
Change ==
  /\ phase = "idle"
  /\ stale' \in SUBSET Items
  /\ outcome' \in {outcome, "none"}
  /\ UNCHANGED phase

\* Everything is current: the invocation does nothing.
Skip ==
  /\ phase = "idle"
  /\ stale = {}
  /\ outcome' = "ok"
  /\ UNCHANGED <<stale, phase>>

Start ==
  /\ phase = "idle"
  /\ phase' = "building"
  /\ outcome' = "none"
  /\ UNCHANGED stale

\* Some artifacts are made, deleted, or outdated by one just made.
Work ==
  /\ phase = "building"
  /\ stale' \in SUBSET Items
  /\ UNCHANGED <<phase, outcome>>

Succeed ==
  /\ phase = "building"
  /\ stale = {}
  /\ phase' = "idle"
  /\ outcome' = "ok"
  /\ UNCHANGED stale

\* A killed build may take artifacts it was making with it.
GiveUp ==
  /\ phase = "building"
  /\ phase' = "idle"
  /\ \/ outcome' = "fail" /\ UNCHANGED stale
     \/ outcome' = "killed" /\ stale' \in SUBSET Items /\ stale \subseteq stale'

Next == Change \/ Skip \/ Start \/ Work \/ Succeed \/ GiveUp

Spec == Init /\ [][Next]_vars
=============================================================================
