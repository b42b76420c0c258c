------------------------------- MODULE Spawn -------------------------------
(***************************************************************************)
(* One child process (spawn.c) whose output autark reads while it runs: a  *)
(* command of a run rule, a check script or a @{} substitution.  The child *)
(* writes to two pipes and may leave a process behind that still holds     *)
(* them; autark polls both, reads what is there, and waits for the child   *)
(* after the end of both.  Before that it has put together the environment *)
(* of the child, looked for the program in its PATH, and made the pipes.   *)
(* Every call to the system may fail.  Nobody in autark feeds a child by   *)
(* standard input (spawn.c:392), which is left out, or passes output on    *)
(* without pipes but node_cc.c, whose compilers are in CcRule.             *)
(*                                                                         *)
(* A pipe is the sequence of the pieces in it, which are numbered in the   *)
(* order they are written.  An environment is a sequence of pairs.         *)
(***************************************************************************)
EXTENDS Naturals, Sequences, SequencesExt

CONSTANTS
  Environs,   \* environments of autark: sequences of [key, val]
  Settings,   \* what spawn_env_set was called with, in order
  Prepended,  \* directories spawn_env_path_prepend was called with, in order
  Present,    \* sets of directories that have the program
  Plans,      \* what the child may write: sequences of pipes, a piece for each
  Room,       \* pieces that fit into a pipe
  MaxPieces   \* bound: a helper writes to a pipe only if it has had fewer

\* No environment has a name twice, and nobody sets one twice; PATH is only set
\* by what is put before it.
NamesOnce ==
  /\ \A s \in Environs \cup Settings :
       s \in Seq(ToSet(s)) /\ \A i, j \in DOMAIN s : s[i].key = s[j].key => i = j
  /\ \A s \in Settings : \A i \in DOMAIN s : s[i].key # "PATH"

Streams == <<"stdout", "stderr">>
Pipes == {"stdout", "stderr"}

VARIABLES
  environ, settings, has,   \* the inputs
  env,       \* environment of the child
  program,   \* directory of the program that was found: {} or {directory}
  phase,     \* where autark is in spawn_do
  ready,     \* pipes of which poll has said that they can be read
  at,        \* the pipe the loop over the answer comes to next
  reads,     \* read ends autark has open
  writers,   \* by pipe: the processes that have its write end open
  pipe,      \* by pipe: what is in it
  written,   \* by pipe: number of pieces written so far
  got,       \* by pipe: the pieces passed to the handler
  child,     \* {} before it starts, then {status of it}
  plan,      \* what the child still has to write
  wstatus,   \* what waitpid has told: {} or {exit code}
  rc,        \* the result of spawn_do
  broken     \* history: pipes of which a read has failed

inputs == <<environ, settings, has>>
setup  == <<env, program>>
data   == <<pipe, written, got>>
proc   == <<child, plan>>
vars   == <<inputs, setup, phase, ready, at, reads, writers, data, proc, wstatus, rc, broken>>

-----------------------------------------------------------------------------
\* The environment of the child: every entry of the own one, in its order, in
\* the form that was set first if any was; then the settings left over.
PathOf == Reverse(Prepended) \o
  LET k == SelectInSeq(environ, LAMBDA e : e.key = "PATH") IN IF k = 0 THEN <<>> ELSE environ[k].val

Take(st, e) ==
  LET k == SelectInSeq(st.mine, LAMBDA m : m.key = e.key) IN
  IF k = 0 THEN [st EXCEPT !.out = Append(@, e)]
  ELSE [out |-> Append(st.out, st.mine[k]), mine |-> RemoveAt(st.mine, k)]

Mine == Append(settings, [key |-> "PATH", val |-> PathOf])

Environment ==
  LET st[n \in 0 .. Len(environ)] ==
        IF n = 0 THEN [out |-> <<>>, mine |-> Mine] ELSE Take(st[n - 1], environ[n])
      end == st[Len(environ)]
  IN end.out \o end.mine

\* Mutant: the program is looked for in the PATH of autark.
Resolve_OwnPath ==
  LET own == SubSeq(PathOf, Len(Prepended) + 1, Len(PathOf))
      k == SelectInSeq(own, LAMBDA d : d \in has) IN
  IF k = 0 THEN {} ELSE {own[k]}

Resolve ==
  LET k == SelectInSeq(PathOf, LAMBDA d : d \in has) IN IF k = 0 THEN {} ELSE {PathOf[k]}

-----------------------------------------------------------------------------
Init ==
  /\ environ \in Environs /\ settings \in Settings /\ has \in Present
  /\ env = <<>> /\ program = {}
  /\ phase = "new" /\ ready = {} /\ at = 1
  /\ reads = {} /\ writers = [p \in Pipes |-> {}]
  /\ pipe = [p \in Pipes |-> <<>>]
  /\ written = [p \in Pipes |-> 0] /\ got = [p \in Pipes |-> <<>>]
  /\ child = {} /\ plan \in Plans /\ wstatus = {} /\ rc = "none"
  /\ broken = {}

\* The program is not there: no pipe has been opened yet.
NotFound ==
  /\ phase = "new" /\ Resolve = {}
  /\ phase' = "returned" /\ rc' = "not found"
  /\ UNCHANGED <<inputs, setup, ready, at, reads, writers, data, proc, wstatus, broken>>

\* A pipe is made; autark has both of its ends.
Open(p) ==
  /\ reads' = reads \cup {p} /\ writers' = [writers EXCEPT ![p] = {"autark"}]
  /\ UNCHANGED <<inputs, setup, ready, at, data, proc, wstatus, rc, broken>>

OpenStdout == phase = "new" /\ Resolve # {} /\ phase' = "stderr" /\ Open("stdout")
OpenStderr == phase = "stderr" /\ phase' = "fork" /\ Open("stderr")

\* A pipe or the child cannot be made ...
CannotStart ==
  /\ (phase = "new" /\ Resolve # {}) \/ phase \in {"stderr", "fork"}
  /\ phase' = "fail" /\ rc' = "failed"
  /\ UNCHANGED <<inputs, setup, ready, at, reads, writers, data, proc, wstatus, broken>>

\* ... and what has been opened is closed.
Fail ==
  /\ phase = "fail" /\ phase' = "returned"
  /\ reads' = {} /\ writers' = [p \in Pipes |-> writers[p] \ {"autark"}]
  /\ UNCHANGED <<inputs, setup, ready, at, data, proc, wstatus, rc, broken>>

\* The child inherits the write ends ...
Fork ==
  /\ phase = "fork" /\ phase' = "parent"
  /\ env' = Environment /\ program' = Resolve
  /\ child' = {"running"}
  /\ writers' = [p \in Pipes |-> writers[p] \cup {"child"}]
  /\ UNCHANGED <<inputs, ready, at, reads, data, plan, wstatus, rc, broken>>

\* ... and autark, while the child runs, closes its own copies of them.
CloseWriteEnds ==
  /\ phase = "parent" /\ phase' = "poll"
  /\ writers' = [p \in Pipes |-> writers[p] \ {"autark"}]
  /\ UNCHANGED <<inputs, setup, ready, at, reads, data, proc, wstatus, rc, broken>>

\* poll: there is something in a pipe, or nobody can write to it any more.
\* Mutant: standard error is not looked at before the end of standard output.
Readable_InTurn ==
  {p \in reads : (p = "stderr" => "stdout" \notin reads) /\ (pipe[p] # <<>> \/ writers[p] = {})}

Readable == {p \in reads : pipe[p] # <<>> \/ writers[p] = {}}

Poll ==
  /\ phase = "poll" /\ reads # {}
  /\ Readable # {}
  /\ ready' = Readable /\ at' = 1
  /\ phase' = "read"
  /\ UNCHANGED <<inputs, setup, reads, writers, data, proc, wstatus, rc, broken>>

\* The loop is left with the pipes open.
PollFails ==
  /\ phase = "poll" /\ reads # {}
  /\ phase' = "wait" /\ rc' = "poll"
  /\ UNCHANGED <<inputs, setup, ready, at, reads, writers, data, proc, wstatus, broken>>

\* One turn of the loop over both pipes.
Turn ==
  /\ phase = "read"
  /\ at' = at + 1
  /\ phase' = IF at = Len(Streams) THEN "poll" ELSE "read"
  /\ UNCHANGED <<inputs, setup, ready, writers, written, proc, wstatus, rc>>

NotReady == Turn /\ Streams[at] \notin ready /\ UNCHANGED <<pipe, got, reads, broken>>

\* A read returns as much as fits into its buffer, here one piece.
Receive ==
  /\ Turn
  /\ LET p == Streams[at] IN
       /\ p \in ready /\ pipe[p] # <<>>
       /\ got' = [got EXCEPT ![p] = Append(@, Head(pipe[p]))]
       /\ pipe' = [pipe EXCEPT ![p] = Tail(@)]
  /\ UNCHANGED <<reads, broken>>

\* Mutant: the end of one pipe is taken for the end of both.
EndOfPipe_Both ==
  /\ Turn
  /\ Streams[at] \in ready /\ pipe[Streams[at]] = <<>>
  /\ reads' = {}
  /\ UNCHANGED <<pipe, got, broken>>

EndOfPipe ==
  /\ Turn
  /\ Streams[at] \in ready /\ pipe[Streams[at]] = <<>>
  /\ reads' = reads \ {Streams[at]}
  /\ UNCHANGED <<pipe, got, broken>>

\* A read fails for good: the pipe is closed with what is in it.
ReadFails ==
  /\ Turn
  /\ Streams[at] \in ready
  /\ reads' = reads \ {Streams[at]} /\ broken' = broken \cup {Streams[at]}
  /\ UNCHANGED <<pipe, got>>

\* After the loop, wait for the child; that may fail as well.
Wait ==
  /\ (phase = "poll" /\ reads = {}) \/ phase = "wait"
  /\ "running" \notin child
  /\ \/ wstatus' = child /\ rc' = IF rc = "none" THEN "ok" ELSE rc
     \/ wstatus' = wstatus /\ rc' = IF rc = "none" THEN "wait" ELSE rc
  /\ phase' = "returned"
  /\ UNCHANGED <<inputs, setup, ready, at, reads, writers, data, proc, broken>>

GoesOn == \/ NotFound \/ OpenStdout \/ OpenStderr \/ Fail \/ Fork \/ CloseWriteEnds
          \/ Poll \/ NotReady \/ Receive \/ EndOfPipe \/ Wait
Autark == GoesOn \/ CannotStart \/ PollFails \/ ReadFails

-----------------------------------------------------------------------------
\* The child writes what it has to, waiting for room, and then exits; it may be
\* killed before, close a pipe before, and leave a process behind.
Process(w, p) == w \in writers[p] /\ UNCHANGED <<inputs, setup, phase, ready, at, reads, wstatus, rc, broken>>

Write(w, p) ==
  /\ Process(w, p)
  /\ p \in reads /\ Len(pipe[p]) < Room
  /\ IF w = "child" THEN plan # <<>> /\ p = Head(plan) /\ plan' = Tail(plan)
     ELSE written[p] < MaxPieces /\ plan' = plan
  /\ written' = [written EXCEPT ![p] = @ + 1]
  /\ pipe' = [pipe EXCEPT ![p] = Append(@, written'[p])]
  /\ UNCHANGED <<writers, got, child>>

\* Nobody reads the pipe any more: a child that is not killed by the signal goes
\* on without.
NoReader(p) ==
  /\ Process("child", p) /\ p \notin reads
  /\ plan # <<>> /\ p = Head(plan) /\ plan' = Tail(plan)
  /\ UNCHANGED <<writers, data, child>>

Close(w, p) ==
  /\ Process(w, p)
  /\ w = "child" => \A k \in DOMAIN plan : plan[k] # p
  /\ writers' = [writers EXCEPT ![p] = @ \ {w}]
  /\ UNCHANGED <<data, proc>>

\* The child leaves a process behind that has inherited the pipe.
Leave(p) ==
  /\ Process("child", p) /\ child = {"running"}
  /\ writers' = [writers EXCEPT ![p] = @ \cup {"helper"}]
  /\ UNCHANGED <<data, proc>>

\* The child exits with a code, or is killed.
ChildEnds(code) ==
  /\ child = {"running"} /\ (plan = <<>> \/ code = "signal")
  /\ child' = {code}
  /\ writers' = [p \in Pipes |-> writers[p] \ {"child"}]
  /\ UNCHANGED <<inputs, setup, phase, ready, at, reads, data, plan, wstatus, rc, broken>>

Others == \/ \E w \in {"child", "helper"}, p \in Pipes : Write(w, p) \/ Close(w, p)
          \/ \E p \in Pipes : Leave(p) \/ NoReader(p)
          \/ \E code \in {"exit 0", "exit 1", "signal"} : ChildEnds(code)

Next == Autark \/ Others

\* autark goes on if it can without a failure of its own; a child that is not
\* waiting for room writes, and exits in the end; a process it has left behind
\* closes the pipes some time.
Fair ==
  /\ WF_vars(GoesOn)
  /\ WF_vars(\E p \in Pipes : Write("child", p) \/ NoReader(p)) /\ WF_vars(ChildEnds("exit 0"))
  /\ \A p \in Pipes : WF_vars(Close("helper", p))

Spec     == Init /\ [][Next]_vars
FairSpec == Spec /\ Fair

-----------------------------------------------------------------------------
\* The handlers get what is written to either pipe in its order; and when spawn_do
\* returns without an error, they have got everything, by whomever it was written,
\* but for a pipe that could not be read, and the status is that of the child.
\* On every way out autark has closed all ends of the pipes, unless poll itself
\* has failed, when the read ends stay open (spawn.c:411 and 421).
AllReceived ==
  /\ \A p \in Pipes : got[p] = [k \in 1 .. Len(got[p]) |-> k]
  /\ phase = "returned" =>
       /\ \A p \in Pipes : "autark" \notin writers[p] /\ (p \in reads => rc = "poll")
       /\ rc = "ok" => /\ wstatus = child /\ child # {} /\ "running" \notin child
                       /\ \A p \in Pipes \ broken : Len(got[p]) = written[p]

Keys(S) == {e.key : e \in S}
Entry(S, k) == CHOOSE e \in S : e.key = k

AsSet ==
  \A k \in Keys(ToSet(env)) \ {"PATH"} :
    Entry(ToSet(env), k) \in
      LET set == {e \in ToSet(settings) : e.key = k} IN IF set # {} THEN set ELSE ToSet(environ)

OnItsPath ==
  LET dirs == Entry(ToSet(env), "PATH").val
      first == SelectInSeq(dirs, LAMBDA d : d \in has)
  IN first # 0 /\ program = {dirs[first]}

\* The child finds every variable once, as it was set or else as autark has it,
\* and its own PATH leads to the program it is (spawn.c:138 and 182).
ChildSees ==
  program # {} =>
    /\ \A i, j \in DOMAIN env : env[i].key = env[j].key => i = j
    /\ Keys(ToSet(env)) = Keys(ToSet(environ) \cup ToSet(settings)) \cup {"PATH"}
    /\ AsSet /\ OnItsPath

\* spawn_do returns, however much the child writes to whichever pipe and in
\* whatever order, once it has ended and nobody holds its pipes (spawn.c:419); but
\* a child that waits for room is waited for when poll has failed.
Returns == <>(phase = "returned" \/ rc = "poll")
=============================================================================
