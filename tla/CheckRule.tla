----------------------------- MODULE CheckRule -----------------------------
(***************************************************************************)
(* The rule check (node_check.c): a shell script probes the system, tells  *)
(* autark what it depends on (autark dep, autark env) and what it found    *)
(* (autark set).  node_resolve keeps the first in a .deps and the second   *)
(* in an .env file, and runs the script again only when a recorded         *)
(* dependency differs.                                                     *)
(*                                                                         *)
(* An input is anything the outcome of the script may depend on: a file    *)
(* (its modification time), an environment variable (its value), and the   *)
(* script's own text, arguments and toolchain, which autark records        *)
(* itself.  What the script does is a parameter: Reads and Sets say, for   *)
(* every state of the inputs, which it registers and which variables it    *)
(* sets; both may only depend on inputs that are recorded.                 *)
(***************************************************************************)
EXTENDS Naturals

CONSTANTS
  Inputs,      \* names of the inputs
  Files,       \* inputs that are files: outdated when newer, others when different
  Own,         \* inputs recorded by _check_on_resolve and node_resolve
  Vals,        \* values and modification times
  Reads,       \* inputs the script registers
  Sets,        \* key-value pairs the script sets
  KillPoints   \* stages of an invocation at which it may be killed

World == [Inputs -> Vals]

ASSUME InputAssumption == /\ Files \subseteq Inputs /\ Vals \subseteq Nat
                          /\ Own \subseteq Inputs /\ Own # {}
\* A script registers everything it looks at.
ASSUME ScriptAssumption ==
  /\ \A w \in World : Reads[w] \subseteq Inputs \ Own
  /\ \A v, w \in World : (\A n \in Own \cup Reads[v] : v[n] = w[n])
                            => Reads[v] = Reads[w] /\ Sets[v] = Sets[w]

VARIABLES
  input,    \* present state of the inputs
  deps,     \* the .deps file: {} or {recorded inputs}
  env,      \* the .env file: {} or {pairs}
  pc,       \* stage of the invocation
  depsTmp,  \* records of the .deps.tmp file
  envTmp,   \* pairs of the .env.tmp file, which exists if there are any
  loaded,   \* pairs given to the rules of the build script
  result,   \* outcome of the last invocation, if nothing has changed since
  behind    \* history: .env is not of the run of the script that .deps is of

vars == <<input, deps, env, pc, depsTmp, envTmp, loaded, result, behind>>

\* A recorded input: its name and its value.
Known(d, n) == \E v \in Vals : <<n, v>> \in d

-----------------------------------------------------------------------------
Init ==
  /\ input \in World
  /\ deps = {} /\ env = {}
  /\ pc = "idle"
  /\ depsTmp = {} /\ envTmp = {}
  /\ loaded = {}
  /\ result = "none"
  /\ behind = FALSE

\* Between two invocations an input changes; a file only gets newer.
Change ==
  /\ pc = "idle"
  /\ \E n \in Inputs, v \in Vals :
       /\ IF n \in Files THEN v > input[n] ELSE v # input[n]
       /\ input' = [input EXCEPT ![n] = v]
  /\ result' = "none"
  /\ UNCHANGED <<deps, env, pc, depsTmp, envTmp, loaded, behind>>

\* Mutant: an equal modification time counts as newer.
Outdated_SameTime(r) ==
  IF r[1] \in Files THEN input[r[1]] >= r[2] ELSE input[r[1]] # r[2]

Outdated(r) == IF r[1] \in Files THEN input[r[1]] > r[2] ELSE input[r[1]] # r[2]

UpToDate == \E d \in deps : \A r \in d : ~Outdated(r)

\* node_resolve: nothing is outdated, the script does not run.
BeginUpToDate ==
  /\ pc = "idle" /\ UpToDate
  /\ pc' = "load"
  /\ depsTmp' = {} /\ envTmp' = {} /\ loaded' = {}
  /\ UNCHANGED <<input, deps, env, result, behind>>

\* Mutant: the .env.tmp file of an earlier run is not unlinked.
BeginRun_KeepsTmp ==
  /\ pc = "idle" /\ ~UpToDate
  /\ pc' = "script"
  /\ depsTmp' = {} /\ loaded' = {}
  /\ UNCHANGED <<input, deps, env, envTmp, result, behind>>

\* Mutant: the script runs only if it has never run before.
BeginRun_Once ==
  /\ pc = "idle" /\ deps = {}
  /\ pc' = "script"
  /\ depsTmp' = {} /\ envTmp' = {} /\ loaded' = {}
  /\ UNCHANGED <<input, deps, env, result, behind>>

\* Left over .deps.tmp and .env.tmp files are unlinked first.
BeginRun ==
  /\ pc = "idle" /\ ~UpToDate
  /\ pc' = "script"
  /\ depsTmp' = {} /\ envTmp' = {} /\ loaded' = {}
  /\ UNCHANGED <<input, deps, env, result, behind>>

\* The script calls autark dep FILE or autark env VARIABLE.
Register ==
  /\ pc = "script"
  /\ \E n \in Reads[input] :
       /\ ~Known(depsTmp, n)
       /\ depsTmp' = depsTmp \cup {<<n, input[n]>>}
  /\ UNCHANGED <<input, deps, env, pc, envTmp, loaded, result, behind>>

\* The script calls autark set KEY=VALUE.
SetPair ==
  /\ pc = "script"
  /\ \E p \in Sets[input] \ envTmp : envTmp' = envTmp \cup {p}
  /\ UNCHANGED <<input, deps, env, pc, depsTmp, loaded, result, behind>>

\* Mutant: autark does not record the script itself and its arguments.
ScriptOk_NotOwn ==
  /\ pc = "script"
  /\ Sets[input] \subseteq envTmp /\ \A n \in Reads[input] : Known(depsTmp, n)
  /\ pc' = "exited"
  /\ UNCHANGED <<input, deps, env, depsTmp, envTmp, loaded, result, behind>>

\* The script exits with 0.  autark adds the script, its arguments and the
\* toolchain to the dependencies.
ScriptOk ==
  /\ pc = "script"
  /\ Sets[input] \subseteq envTmp /\ \A n \in Reads[input] : Known(depsTmp, n)
  /\ depsTmp' = depsTmp \cup {<<n, input[n]>> : n \in Own}
  /\ pc' = "exited"
  /\ UNCHANGED <<input, deps, env, envTmp, loaded, result, behind>>

\* The script exits with an error, which ends the whole build.
ScriptFails ==
  /\ pc = "script"
  /\ pc' = "idle"
  /\ result' = "fail"
  /\ UNCHANGED <<input, deps, env, depsTmp, envTmp, loaded, behind>>

RenameDeps ==
  /\ pc = "exited"
  /\ deps' = {depsTmp}
  /\ depsTmp' = {}
  /\ behind' = TRUE
  /\ pc' = "renamed"
  /\ UNCHANGED <<input, env, envTmp, loaded, result>>

\* The .env file is replaced only if the script has set something; if it has
\* not, the pairs of an earlier run stay.
RenameEnv ==
  /\ pc = "renamed"
  /\ env' = IF envTmp # {} THEN {envTmp} ELSE env
  /\ behind' = (envTmp = {} /\ env # {})
  /\ envTmp' = {}
  /\ pc' = "load"
  /\ UNCHANGED <<input, deps, depsTmp, loaded, result>>

\* Every pair of the .env file becomes a variable of the build script.
Load ==
  /\ pc = "load"
  /\ loaded' = UNION env
  /\ result' = "ok"
  /\ pc' = "idle"
  /\ UNCHANGED <<input, deps, env, depsTmp, envTmp, behind>>

Kill ==
  /\ pc \in KillPoints \ {"idle"}
  /\ pc' = "idle"
  /\ result' = "fail"
  /\ UNCHANGED <<input, deps, env, depsTmp, envTmp, loaded, behind>>

-----------------------------------------------------------------------------
Begin  == BeginUpToDate \/ BeginRun
Script == Register \/ SetPair \/ ScriptOk
Autark == RenameDeps \/ RenameEnv \/ Load

Next == Change \/ Begin \/ Script \/ ScriptFails \/ Autark \/ Kill
Spec == Init /\ [][Next]_vars

\* The build is started over and over and its processes are scheduled; from
\* some time on no input changes, no script fails and no build is killed.
Fairness == /\ WF_vars(Begin) /\ WF_vars(Script) /\ WF_vars(Autark)
            /\ <>[][~Change /\ ~ScriptFails /\ ~Kill]_vars
FairSpec == Spec /\ Fairness

-----------------------------------------------------------------------------
Pairs == UNION {Sets[w] : w \in World}

\* The type invariant of the two files and of the resolver.
TypeOK ==
  /\ input \in World
  /\ deps \in SUBSET SUBSET (Inputs \X Vals)
  /\ env \in SUBSET SUBSET Pairs
  /\ pc \in {"idle", "script", "exited", "renamed", "load"}
  /\ depsTmp \in SUBSET (Inputs \X Vals)
  /\ envTmp \in SUBSET Pairs
  /\ loaded \in SUBSET Pairs
  /\ result \in {"none", "ok", "fail"}
  /\ behind \in BOOLEAN

\* The rules of the build see what the script would set now, whether it was run
\* by this invocation or by an earlier one, for other inputs in between, and
\* whatever failed or was killed; unless the run that .deps records could not
\* replace .env, because it was killed between the two renames or because it had
\* nothing to put in the place of what an earlier run had set (script.c:1347).
ServesRecorded == [][Load /\ ~behind => loaded' = Sets[input]]_vars

\* The same with no exception: the results of the script are what the build
\* script uses (README.md:795 to 797).  It does not hold.
ServesCurrent == [][Load => loaded' = Sets[input]]_vars

\* The .env file holds the pairs of one complete run of the script: no rest of
\* a failed or killed run, and no mixture of two runs.
NotTorn == \A e \in env : \E w \in World : e = Sets[w]

\* A build that went through leaves nothing to check to the next one.
UpToDateAfterOk == result = "ok" => UpToDate

\* Once the inputs stay as they are, the script is run until it has succeeded,
\* and then no more; and what it set is served, with the exception above.
EventuallyServed ==
  <>[](/\ result = "ok" /\ pc # "script"
       /\ pc = "idle" /\ ~behind => loaded = Sets[input])
=============================================================================
