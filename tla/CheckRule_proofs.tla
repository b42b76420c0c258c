-------------------------- MODULE CheckRule_proofs --------------------------
(***************************************************************************)
(* Theorems about the check rule, for every script that registers what it  *)
(* looks at, every set of inputs and every order of failures and kills.    *)
(***************************************************************************)
EXTENDS CheckRule, TLAPS

\* What .deps holds after a run of the script for the inputs w.
Full(w) == {<<n, w[n]>> : n \in Own \cup Reads[w]}

LEMMA ReadsType == ASSUME NEW w \in World PROVE Reads[w] \subseteq Inputs
  BY ScriptAssumption

LEMMA Time == ASSUME NEW w \in World, NEW n \in Inputs
              PROVE  w[n] \in Nat /\ w[n] <= w[n]
  <1>1. w[n] \in Vals
    BY DEF World
  <1>2. w[n] \in Nat
    BY <1>1, InputAssumption
  <1>3. \A k \in Nat : k <= k
    OBVIOUS
  <1>4. QED
    BY <1>2, <1>3

-----------------------------------------------------------------------------
\* The two files and the resolver have their types.
THEOREM TypeCorrect == Spec => []TypeOK
  <1>1. Init => TypeOK
    BY DEF Init, TypeOK
  <1>2. TypeOK /\ [Next]_vars => TypeOK'
    <2> SUFFICES ASSUME TypeOK, [Next]_vars PROVE TypeOK'
      OBVIOUS
    <2>1. CASE Change
      <3>1. PICK n \in Inputs, v \in Vals : input' = [input EXCEPT ![n] = v]
        BY <2>1 DEF Change
      <3>2. input' \in World
        BY <3>1 DEF TypeOK, World
      <3>3. QED
        BY <2>1, <3>2 DEF Change, TypeOK, World, Pairs
    <2>2. CASE BeginUpToDate \/ BeginRun
      BY <2>2 DEF BeginUpToDate, BeginRun, TypeOK
    <2>3. CASE Register
      <3>1. PICK n \in Reads[input] : depsTmp' = depsTmp \cup {<<n, input[n]>>}
        BY <2>3 DEF Register
      <3>2. n \in Inputs /\ input[n] \in Vals
        BY ReadsType DEF TypeOK, World
      <3>3. QED
        BY <2>3, <3>1, <3>2 DEF Register, TypeOK
    <2>4. CASE SetPair
      BY <2>4 DEF SetPair, TypeOK, Pairs
    <2>5. CASE ScriptOk
      <3>1. \A n \in Own : n \in Inputs /\ input[n] \in Vals
        BY InputAssumption DEF TypeOK, World
      <3>2. QED
        BY <2>5, <3>1 DEF ScriptOk, TypeOK
    <2>6. CASE ScriptFails \/ Kill
      BY <2>6 DEF ScriptFails, Kill, TypeOK
    <2>7. CASE RenameDeps \/ RenameEnv
      BY <2>7 DEF RenameDeps, RenameEnv, TypeOK
    <2>8. CASE Load
      BY <2>8 DEF Load, TypeOK
    <2>9. CASE UNCHANGED vars
      BY <2>9 DEF vars, TypeOK
    <2>10. QED
      BY <2>1, <2>2, <2>3, <2>4, <2>5, <2>6, <2>7, <2>8, <2>9
      DEF Next, Begin, Script, Autark
  <1>3. QED
    BY <1>1, <1>2, PTL DEF Spec

-----------------------------------------------------------------------------
(***************************************************************************)
(* What a run of the script has written so far belongs to this run.        *)
(***************************************************************************)

RunInv ==
  /\ pc = "script" => /\ depsTmp \subseteq {<<n, input[n]>> : n \in Reads[input]}
                      /\ envTmp \subseteq Sets[input]
  /\ pc = "exited" => depsTmp = Full(input)
  /\ pc \in {"exited", "renamed"} => envTmp = Sets[input]

LEMMA RunStep == TypeOK /\ RunInv /\ [Next]_vars => RunInv'
  <1> SUFFICES ASSUME TypeOK, RunInv, [Next]_vars PROVE RunInv'
    OBVIOUS
  <1>1. CASE Change \/ BeginUpToDate \/ BeginRun
    BY <1>1 DEF Change, BeginUpToDate, BeginRun, RunInv
  <1>2. CASE Register \/ SetPair
    BY <1>2 DEF Register, SetPair, RunInv
  <1>3. CASE ScriptOk
    <2>1. /\ depsTmp' = depsTmp \cup {<<n, input[n]>> : n \in Own}
          /\ \A n \in Reads[input] : \E v \in Vals : <<n, v>> \in depsTmp
          /\ depsTmp \subseteq {<<n, input[n]>> : n \in Reads[input]}
          /\ Sets[input] \subseteq envTmp /\ envTmp \subseteq Sets[input]
          /\ pc' = "exited" /\ UNCHANGED <<input, envTmp>>
      BY <1>3 DEF ScriptOk, Known, RunInv
    <2>2. depsTmp = {<<n, input[n]>> : n \in Reads[input]}
      BY <2>1
    <2>3. depsTmp' = Full(input)
      BY <2>1, <2>2 DEF Full
    <2>4. QED
      BY <2>1, <2>3 DEF RunInv, Full
  <1>4. CASE RenameDeps
    BY <1>4 DEF RenameDeps, RunInv
  <1>5. CASE ScriptFails \/ Kill \/ RenameEnv \/ Load
    BY <1>5 DEF ScriptFails, Kill, RenameEnv, Load, RunInv
  <1>6. CASE UNCHANGED vars
    BY <1>6 DEF vars, RunInv, Full
  <1>7. QED
    BY <1>1, <1>2, <1>3, <1>4, <1>5, <1>6 DEF Next, Begin, Script, Autark

LEMMA RunInit == Init => RunInv
  BY DEF Init, RunInv

\* The .env file never holds a part of a run nor a mixture of two runs.
THEOREM EnvWhole == Spec => []NotTorn
  <1>1. Init => NotTorn
    BY DEF Init, NotTorn
  <1>2. TypeOK /\ RunInv /\ NotTorn /\ [Next]_vars => NotTorn'
    <2> SUFFICES ASSUME TypeOK, RunInv, NotTorn, [Next]_vars PROVE NotTorn'
      OBVIOUS
    <2>1. CASE RenameEnv
      <3>1. env' \subseteq env \cup {Sets[input]} /\ input \in World
        BY <2>1 DEF RenameEnv, RunInv, TypeOK
      <3>2. QED
        BY <3>1 DEF NotTorn
    <2>2. CASE UNCHANGED env
      BY <2>2 DEF NotTorn
    <2>3. RenameEnv \/ UNCHANGED env
      BY DEF Next, Change, Begin, BeginUpToDate, BeginRun, Script, Register, SetPair,
             ScriptOk, ScriptFails, Autark, RenameDeps, Load, Kill, vars
    <2>4. QED
      BY <2>1, <2>2, <2>3
  <1>3. QED
    BY TypeCorrect, RunInit, RunStep, <1>1, <1>2, PTL DEF Spec

-----------------------------------------------------------------------------
(***************************************************************************)
(* A completed run is recognised as such.                                  *)
(***************************************************************************)

OkInv == result = "ok" \/ pc \in {"renamed", "load"} => UpToDate

LEMMA OkStep == TypeOK /\ RunInv /\ OkInv /\ [Next]_vars => OkInv'
  <1> SUFFICES ASSUME TypeOK, RunInv, OkInv, [Next]_vars PROVE OkInv'
    OBVIOUS
  <1>1. CASE RenameDeps
    <2>1. deps' = {Full(input)} /\ input' = input /\ input \in World
      BY <1>1 DEF RenameDeps, RunInv, TypeOK
    <2>2. \A n \in Inputs : input[n] \in Nat
      BY <2>1, InputAssumption DEF World
    <2>3. \A r \in Full(input) : ~Outdated(r)'
      <3>1. SUFFICES ASSUME NEW n \in Own \cup Reads[input]
                     PROVE  ~(input[n] > input[n])
        BY <2>1 DEF Full, Outdated
      <3>2. QED
        BY <2>1, <2>2, ReadsType, InputAssumption
    <2>4. QED
      BY <2>1, <2>3 DEF OkInv, UpToDate
  <1>2. ASSUME UNCHANGED <<input, deps>>
        PROVE  UpToDate' <=> UpToDate
    BY <1>2 DEF UpToDate, Outdated
  <1>3. CASE Change
    BY <1>3 DEF Change, OkInv
  <1>4. CASE BeginUpToDate \/ BeginRun
    BY <1>2, <1>4 DEF BeginUpToDate, BeginRun, OkInv
  <1>5. CASE Register \/ SetPair \/ ScriptOk \/ ScriptFails \/ Kill
    BY <1>2, <1>5 DEF Register, SetPair, ScriptOk, ScriptFails, Kill, OkInv
  <1>6. CASE RenameEnv \/ Load
    BY <1>2, <1>6 DEF RenameEnv, Load, OkInv
  <1>7. CASE UNCHANGED vars
    BY <1>2, <1>7 DEF vars, OkInv
  <1>8. QED
    BY <1>1, <1>3, <1>4, <1>5, <1>6, <1>7 DEF Next, Begin, Script, Autark

\* After a build that went through, the next one has nothing to check.
THEOREM RunOnce == Spec => []UpToDateAfterOk
  <1>1. Init => OkInv
    BY DEF Init, OkInv
  <1>2. OkInv => UpToDateAfterOk
    BY DEF OkInv, UpToDateAfterOk
  <1>3. QED
    BY TypeCorrect, RunInit, RunStep, OkStep, <1>1, <1>2, PTL DEF Spec

-----------------------------------------------------------------------------
(***************************************************************************)
(* The served values.                                                      *)
(***************************************************************************)

\* The .env file belongs to the inputs .deps records, unless it is behind, as it
\* is between the two renames; no recorded time is later than the file's.
CacheInv ==
  /\ \A d \in deps : \E w \in World : /\ d = Full(w)
                                      /\ \A n \in Files : w[n] <= input[n]
                                      /\ ~behind => UNION env = Sets[w]
  /\ pc = "renamed" => behind /\ deps = {Full(input)}
  /\ pc = "load" /\ ~behind => UNION env = Sets[input]

LEMMA CurrentRun ==
  ASSUME TypeOK, CacheInv, ~behind, UpToDate
  PROVE  UNION env = Sets[input]
  <1>1. PICK d \in deps : \A r \in d : ~Outdated(r)
    BY DEF UpToDate
  <1>2. PICK w \in World : /\ d = Full(w)
                           /\ \A n \in Files : w[n] <= input[n]
                           /\ UNION env = Sets[w]
    BY <1>1 DEF CacheInv
  <1>3. ASSUME NEW n \in Own \cup Reads[w]
        PROVE  w[n] = input[n]
    <2>1. <<n, w[n]>> \in d
      BY <1>2 DEF Full
    <2>2. IF n \in Files THEN ~(input[n] > w[n]) ELSE input[n] = w[n]
      BY <1>1, <2>1 DEF Outdated
    <2>3. n \in Inputs /\ w[n] \in Nat /\ input[n] \in Nat
      BY ReadsType, InputAssumption DEF TypeOK, World
    <2>4. QED
      BY <1>2, <2>2, <2>3
  <1>4. input \in World
    BY DEF TypeOK
  <1>5. Sets[w] = Sets[input]
    BY <1>3, <1>4, ScriptAssumption
  <1>6. QED
    BY <1>2, <1>5

LEMMA CacheStep == TypeOK /\ RunInv /\ CacheInv /\ [Next]_vars => CacheInv'
  <1> SUFFICES ASSUME TypeOK, RunInv, CacheInv, [Next]_vars PROVE CacheInv'
    OBVIOUS
  <1>1. CASE Change
    <2>1. PICK n \in Inputs, v \in Vals :
             /\ IF n \in Files THEN v > input[n] ELSE v # input[n]
             /\ input' = [input EXCEPT ![n] = v]
      BY <1>1 DEF Change
    <2>2. ASSUME NEW w \in World, NEW m \in Files, w[m] <= input[m]
          PROVE  w[m] <= input'[m]
      <3>1. m \in Inputs /\ w[m] \in Nat /\ input[m] \in Nat /\ v \in Nat
        BY Time, InputAssumption DEF TypeOK
      <3>2. input'[m] = IF m = n THEN v ELSE input[m]
        BY <2>1, <3>1 DEF TypeOK, World
      <3>3. m = n => v > input[m]
        BY <2>1
      <3>4. QED
        BY <2>2, <3>1, <3>2, <3>3
    <2>3. pc = "idle" /\ UNCHANGED <<deps, env, pc, behind>>
      BY <1>1 DEF Change
    <2>4. QED
      BY <2>2, <2>3 DEF CacheInv
  <1>2. CASE BeginUpToDate
    <2>1. pc = "idle" /\ pc' = "load" /\ UNCHANGED <<input, deps, env, behind>>
      BY <1>2 DEF BeginUpToDate
    <2>2. ~behind => UNION env = Sets[input]
      BY <1>2, <2>1, CurrentRun DEF BeginUpToDate
    <2>3. QED
      BY <2>1, <2>2 DEF CacheInv
  <1>3. CASE BeginRun \/ Register \/ SetPair \/ ScriptOk \/ ScriptFails
    BY <1>3 DEF BeginRun, Register, SetPair, ScriptOk, ScriptFails, CacheInv
  <1>4. CASE RenameDeps
    <2>1. /\ deps' = {Full(input)} /\ pc' = "renamed" /\ behind' = TRUE
          /\ input' = input /\ input \in World
      BY <1>4 DEF RenameDeps, RunInv, TypeOK
    <2>2. \A n \in Files : input[n] <= input[n]
      BY <2>1, Time, InputAssumption
    <2>3. QED
      BY <2>1, <2>2 DEF CacheInv, Full
  <1>5. CASE RenameEnv
    <2>1. /\ pc = "renamed" /\ pc' = "load" /\ input' = input /\ deps' = deps
          /\ input \in World /\ deps = {Full(input)}
      BY <1>5 DEF RenameEnv, TypeOK, CacheInv
    <2>2. envTmp = Sets[input]
      BY <2>1 DEF RunInv
    <2>3. ~behind' => UNION env' = Sets[input]
      <3>1. SUFFICES ASSUME ~(envTmp = {} /\ env # {})
                     PROVE  UNION env' = Sets[input]
        BY <1>5 DEF RenameEnv
      <3>2. CASE envTmp # {}
        <4>1. env' = {envTmp}
          BY <1>5, <3>2 DEF RenameEnv
        <4>2. QED
          BY <2>2, <4>1
      <3>3. CASE envTmp = {}
        <4>1. env' = {}
          BY <1>5, <3>1, <3>3 DEF RenameEnv
        <4>2. QED
          BY <2>2, <3>3, <4>1
      <3>4. QED
        BY <3>2, <3>3
    <2>4. \A n \in Files : input[n] <= input[n]
      BY <2>1, Time, InputAssumption
    <2>5. QED
      BY <2>1, <2>3, <2>4 DEF CacheInv
  <1>6. CASE Load \/ Kill
    BY <1>6 DEF Load, Kill, CacheInv
  <1>7. CASE UNCHANGED vars
    BY <1>7 DEF vars, CacheInv, Full
  <1>8. QED
    BY <1>1, <1>2, <1>3, <1>4, <1>5, <1>6, <1>7 DEF Next, Begin, Script, Autark

\* .deps and .env belong together unless .env is behind, whatever changes, fails
\* and is killed, and wherever it is killed.
THEOREM CacheInductive == Spec => [](TypeOK /\ CacheInv)
  <1>1. Init => CacheInv
    BY DEF Init, CacheInv
  <1>2. QED
    BY TypeCorrect, RunInit, RunStep, CacheStep, <1>1, PTL DEF Spec

\* Every build gives its rules the values the script would set now, however
\* many failed and killed builds lie between it and the run that set them, but
\* where the run that .deps records could not replace .env.
THEOREM ServedFresh == Spec => ServesRecorded
  <1>1. CacheInv /\ [Next]_vars => [Load /\ ~behind => loaded' = Sets[input]]_vars
    BY DEF CacheInv, Load
  <1>2. QED
    BY CacheInductive, <1>1, PTL DEF Spec, ServesRecorded
=============================================================================
