---------------------------- MODULE Spawn_proofs ----------------------------
(***************************************************************************)
(* What has been received when spawn_do returns, for every plan of the     *)
(* child, every size of the pipes and every environment.                   *)
(***************************************************************************)
EXTENDS Spawn, SequenceTheorems, WellFoundedInduction, TLAPS

-----------------------------------------------------------------------------
(***************************************************************************)
(* The inductive invariant.                                                *)
(***************************************************************************)

\* Who has the pipes in which phase: autark both ends until the child is there;
\* and which results there are.
EndsInv ==
  /\ phase \in {"new", "stderr", "fork", "fail", "parent", "poll", "read", "wait", "returned"}
  /\ reads \subseteq Pipes
  /\ DOMAIN writers = Pipes /\ \A p \in Pipes : writers[p] \subseteq {"autark", "child", "helper"}
  /\ \A p \in Pipes : "autark" \in writers[p] => phase \in {"stderr", "fork", "fail", "parent"}
  /\ phase \in {"new", "stderr", "fork", "fail"} =>
       child = {} /\ \A p \in Pipes : writers[p] \subseteq {"autark"}
  /\ phase = "new" => reads = {}
  /\ phase = "stderr" => reads = {"stdout"}
  /\ phase \in {"fork", "parent"} => reads = Pipes
  /\ phase \notin {"wait", "fail", "returned"} => rc = "none"
  /\ phase = "wait" => rc = "poll"
  /\ phase = "fail" => rc = "failed"
  /\ phase = "returned" => rc # "none" /\ (rc # "poll" => reads = {})
  /\ rc = "ok" => phase = "returned" /\ wstatus = child /\ child # {} /\ "running" \notin child
  /\ phase \in {"parent", "poll", "read", "wait"} => child # {}

\* What is in a pipe follows what has been received from it.
StreamInv ==
  /\ got \in [Pipes -> Seq(Nat)] /\ pipe \in [Pipes -> Seq(Nat)] /\ written \in [Pipes -> Nat]
  /\ \A p \in Pipes :
       /\ Len(got[p]) + Len(pipe[p]) = written[p]
       /\ \A k \in 1 .. Len(got[p]) : got[p][k] = k
       /\ \A k \in 1 .. Len(pipe[p]) : pipe[p][k] = Len(got[p]) + k

\* A pipe is closed when it is empty and nobody can write to it any more, unless
\* a read has failed; one that poll has found readable, and that the loop has still
\* to come to, is open, and either not empty or at its end.
ClosedInv ==
  /\ phase \in {"new", "stderr", "fork", "fail"} => \A p \in Pipes : pipe[p] = <<>>
  /\ \A p \in Pipes \ (reads \cup broken) : pipe[p] = <<>> /\ writers[p] = {}
  /\ phase = "read" =>
       /\ at \in 1 .. 2
       /\ \A k \in at .. 2 : Streams[k] \in ready =>
            Streams[k] \in reads /\ (pipe[Streams[k]] # <<>> \/ writers[Streams[k]] = {})

IInv == EndsInv /\ StreamInv /\ ClosedInv

-----------------------------------------------------------------------------
LEMMA StreamPipes ==
  /\ Len(Streams) = 2 /\ Streams[1] = "stdout" /\ Streams[2] = "stderr"
  /\ \A k \in 1 .. 2 : Streams[k] \in Pipes
  /\ \A k, m \in 1 .. 2 : Streams[k] = Streams[m] => k = m
BY DEF Streams, Pipes

LEMMA SpawnInit == Init => IInv
<1> SUFFICES ASSUME Init PROVE IInv
  OBVIOUS
<1> USE DEF Init
<1>1. EndsInv
  BY DEF EndsInv
<1>2. StreamInv
  BY DEF StreamInv
<1>3. ClosedInv
  BY DEF ClosedInv
<1> QED BY <1>1, <1>2, <1>3 DEF IInv

LEMMA EndsStep ==
  ASSUME IInv, [Next]_vars
  PROVE  EndsInv'
<1> USE DEF IInv, EndsInv
<1>1. CASE NotFound \/ CannotStart
  BY <1>1 DEF NotFound, CannotStart, proc
<1>2. CASE OpenStdout \/ OpenStderr
  BY <1>2 DEF OpenStdout, OpenStderr, Open, Pipes, proc
<1>3. CASE Fail
  BY <1>3 DEF Fail, proc
<1>4. CASE Fork
  BY <1>4 DEF Fork
<1>5. CASE CloseWriteEnds
  BY <1>5 DEF CloseWriteEnds, proc
<1>6. CASE Poll \/ PollFails
  BY <1>6 DEF Poll, PollFails, proc
<1>7. CASE NotReady \/ Receive
  BY <1>7 DEF NotReady, Receive, Turn, proc
<1>8. CASE EndOfPipe \/ ReadFails
  BY <1>8 DEF EndOfPipe, ReadFails, Turn, proc
<1>9. CASE Wait
  BY <1>9 DEF Wait, proc
<1>10. CASE \E w \in {"child", "helper"}, p \in Pipes : Write(w, p) \/ Close(w, p)
  <2>1. /\ UNCHANGED <<phase, reads, child, wstatus, rc>>
        /\ writers' = writers \/ \E w, p : writers' = [writers EXCEPT ![p] = @ \ {w}]
    BY <1>10 DEF Write, Close, Process, proc
  <2>2. DOMAIN writers' = Pipes /\ \A p \in Pipes : writers'[p] \subseteq writers[p]
    BY <2>1
  <2> QED BY <2>1, <2>2
<1>11. CASE \E p \in Pipes : Leave(p) \/ NoReader(p)
  BY <1>11 DEF Leave, NoReader, Process, proc
<1>12. CASE \E code \in {"exit 0", "exit 1", "signal"} : ChildEnds(code)
  BY <1>12 DEF ChildEnds
<1>13. CASE UNCHANGED vars
  BY <1>13 DEF vars, proc
<1> QED
  BY <1>1, <1>2, <1>3, <1>4, <1>5, <1>6, <1>7, <1>8, <1>9, <1>10, <1>11, <1>12, <1>13
  DEF Next, Autark, GoesOn, Others

LEMMA StreamStep ==
  ASSUME IInv, [Next]_vars
  PROVE  StreamInv'
<1> USE DEF IInv, StreamInv
<1>1. CASE Receive
  <2>1. PICK p \in Pipes : /\ pipe[p] # <<>>
                           /\ got' = [got EXCEPT ![p] = Append(@, Head(pipe[p]))]
                           /\ pipe' = [pipe EXCEPT ![p] = Tail(@)]
                           /\ written' = written
    BY <1>1, StreamPipes DEF Receive, Turn, ClosedInv
  <2>2. /\ Append(got[p], Head(pipe[p])) \in Seq(Nat) /\ Tail(pipe[p]) \in Seq(Nat)
        /\ Len(Append(got[p], Head(pipe[p]))) = Len(got[p]) + 1
        /\ Len(Tail(pipe[p])) = Len(pipe[p]) - 1 /\ Len(pipe[p]) > 0
        /\ \A k \in 1 .. Len(got[p]) + 1 : Append(got[p], Head(pipe[p]))[k] = k
        /\ \A k \in 1 .. Len(pipe[p]) - 1 : Tail(pipe[p])[k] = Len(got[p]) + 1 + k
    BY <2>1
  <2> QED BY <2>1, <2>2
<1>2. CASE \E w \in {"child", "helper"}, p \in Pipes : Write(w, p)
  <2>1. PICK p \in Pipes : /\ written' = [written EXCEPT ![p] = @ + 1]
                           /\ pipe' = [pipe EXCEPT ![p] = Append(@, written'[p])]
                           /\ got' = got
    BY <1>2 DEF Write
  <2>2. written'[p] = written[p] + 1 /\ written[p] + 1 \in Nat /\ pipe[p] \in Seq(Nat)
    BY <2>1
  <2>3. PICK t : t = Append(pipe[p], written[p] + 1)
    OBVIOUS
  <2>4. /\ t \in Seq(Nat) /\ Len(t) = Len(pipe[p]) + 1
        /\ \A k \in 1 .. Len(pipe[p]) : t[k] = pipe[p][k]
        /\ t[Len(pipe[p]) + 1] = written[p] + 1
    BY <2>2, <2>3
  <2>5. Len(got[p]) \in Nat /\ Len(pipe[p]) \in Nat /\ Len(got[p]) + Len(pipe[p]) = written[p]
    OBVIOUS
  <2>6. ASSUME NEW k \in 1 .. Len(t) PROVE t[k] = Len(got[p]) + k
    <3>1. CASE k = Len(pipe[p]) + 1
      BY <2>4, <2>5, <3>1
    <3>2. CASE k \in 1 .. Len(pipe[p])
      <4>1. pipe[p][k] = Len(got[p]) + k
        BY <3>2
      <4> QED BY <2>4, <3>2, <4>1
    <3> QED BY <2>4, <2>5, <3>1, <3>2
  <2>7. /\ pipe' = [pipe EXCEPT ![p] = t]
        /\ written' = [written EXCEPT ![p] = written[p] + 1]
        /\ got' = got
    BY <2>1, <2>2, <2>3
  <2>8. Len(got[p]) + Len(t) = written[p] + 1
    BY <2>4, <2>5
  <2> QED BY <2>2, <2>4, <2>6, <2>7, <2>8
<1>3. CASE UNCHANGED data
  BY <1>3 DEF data
<1> QED
  BY <1>1, <1>2, <1>3
  DEF Next, Autark, GoesOn, Others, NotFound, OpenStdout, OpenStderr, Open, CannotStart, Fail, Fork,
      CloseWriteEnds, Poll, PollFails, NotReady, EndOfPipe, ReadFails, Turn, Wait,
      NoReader, Close, Leave, ChildEnds, vars, data

LEMMA ClosedStep ==
  ASSUME IInv, [Next]_vars
  PROVE  ClosedInv'
<1> USE DEF IInv, ClosedInv
<1>1. CASE NotFound \/ CannotStart \/ PollFails
  BY <1>1 DEF NotFound, CannotStart, PollFails, data
<1>2. CASE OpenStdout \/ OpenStderr
  BY <1>2 DEF OpenStdout, OpenStderr, Open, Pipes, data, EndsInv
<1>11. CASE Fail
  BY <1>11 DEF Fail, data, EndsInv
<1>12. CASE Fork
  BY <1>12 DEF Fork, data, EndsInv
<1>13. CASE CloseWriteEnds
  BY <1>13 DEF CloseWriteEnds, data, EndsInv
<1>14. CASE ReadFails
  <2>1. PICK p \in Pipes : /\ p = Streams[at]
                           /\ reads' = reads \ {p} /\ broken' = broken \cup {p}
                           /\ UNCHANGED <<pipe, writers, ready>>
                           /\ at' = at + 1 /\ (phase' = "read" => at # 2)
    BY <1>14, StreamPipes DEF ReadFails, Turn
  <2>2. phase = "read" /\ at \in 1 .. 2 /\ phase' \in {"poll", "read"}
    BY <1>14 DEF ReadFails, Turn
  <2> QED BY <2>1, <2>2, StreamPipes
<1>3. CASE Poll
  BY <1>3, StreamPipes DEF Poll, Readable, data
<1>4. CASE NotReady
  BY <1>4, StreamPipes DEF NotReady, Turn
<1>5. CASE Receive
  <2>1. PICK p \in Pipes : /\ p = Streams[at] /\ pipe[p] # <<>>
                           /\ pipe' = [pipe EXCEPT ![p] = Tail(@)]
                           /\ UNCHANGED <<reads, writers, ready, broken>>
                           /\ at' = at + 1 /\ (phase' = "read" => at # 2)
    BY <1>5, StreamPipes DEF Receive, Turn
  <2>2. p \in reads
    BY <1>5, <2>1 DEF Receive, Turn
  <2>3. \A q \in Pipes : q # p => pipe'[q] = pipe[q]
    BY <2>1 DEF StreamInv
  <2>4. ASSUME phase' = "read", NEW k \in at' .. 2 PROVE Streams[k] # p
    BY <2>1, <2>4, <1>5, StreamPipes DEF Receive, Turn
  <2> QED BY <1>5, <2>1, <2>2, <2>3, <2>4, StreamPipes DEF Receive, Turn
<1>6. CASE EndOfPipe
  <2>1. PICK p \in Pipes : /\ p = Streams[at] /\ p \in ready /\ pipe[p] = <<>>
                           /\ reads' = reads \ {p}
                           /\ UNCHANGED <<pipe, writers, ready, broken>>
                           /\ at' = at + 1 /\ (phase' = "read" => at # 2)
    BY <1>6, StreamPipes DEF EndOfPipe, Turn
  <2>2. phase = "read" /\ at \in 1 .. 2 /\ phase' \in {"poll", "read"}
    BY <1>6 DEF EndOfPipe, Turn
  <2>3. writers[p] = {}
    BY <2>1, <2>2
  <2> QED BY <2>1, <2>2, <2>3, StreamPipes
<1>7. CASE Wait
  BY <1>7 DEF Wait, data
<1>8. CASE \E w \in {"child", "helper"}, p \in Pipes : Write(w, p)
  <2>1. PICK w \in {"child", "helper"}, p \in Pipes : Write(w, p)
    BY <1>8
  <2>2. /\ w \in writers[p] /\ p \in reads /\ UNCHANGED <<reads, writers, ready, phase, at, broken>>
        /\ pipe' = [pipe EXCEPT ![p] = Append(@, written'[p])]
    BY <2>1 DEF Write, Process
  <2>3. \A q \in Pipes : q # p => pipe'[q] = pipe[q]
    BY <2>2 DEF StreamInv
  <2>4. pipe'[p] # <<>>
    <3>1. pipe[p] \in Seq(Nat) /\ written'[p] \in Nat /\ pipe'[p] = Append(pipe[p], written'[p])
      BY <2>1, <2>2 DEF StreamInv, Write
    <3> QED BY <3>1
  <2>5. p \in reads
    BY <2>2
  <2>6. UNCHANGED writers
    BY <2>1 DEF Write
  <2>7. \A q \in Pipes : pipe[q] # <<>> => pipe'[q] # <<>>
    BY <2>3, <2>4
  <2>8. \A q \in Pipes \ (reads \cup broken)' : pipe'[q] = <<>> /\ writers'[q] = {}
    BY <2>2, <2>3, <2>5, <2>6
  <2>9. phase' = "read" =>
          /\ at' \in 1 .. 2
          /\ \A k \in at' .. 2 : Streams[k] \in ready' =>
               Streams[k] \in reads' /\ (pipe'[Streams[k]] # <<>> \/ writers'[Streams[k]] = {})
    BY <2>2, <2>6, <2>7, StreamPipes
  <2>10. phase' \notin {"new", "stderr", "fork", "fail"}
    BY <2>1, <2>2 DEF EndsInv
  <2> QED BY <2>8, <2>9, <2>10
<1>9. CASE \/ \E w \in {"child", "helper"}, p \in Pipes : Close(w, p)
           \/ \E p \in Pipes : Leave(p) \/ NoReader(p)
           \/ \E code \in {"exit 0", "exit 1", "signal"} : ChildEnds(code)
  <2>1. UNCHANGED <<reads, ready, phase, at, pipe, broken>>
    BY <1>9 DEF Close, Leave, NoReader, ChildEnds, Process, data
  <2>2. ASSUME NEW q \in Pipes, writers[q] = {} PROVE writers'[q] = {}
    <3>1. CASE \E w \in {"child", "helper"}, p \in Pipes : Close(w, p)
      BY <2>2, <3>1 DEF Close, EndsInv
    <3>2. CASE \E p \in Pipes : Leave(p) \/ NoReader(p)
      BY <2>2, <3>2 DEF Leave, NoReader, Process, EndsInv
    <3>3. CASE \E code \in {"exit 0", "exit 1", "signal"} : ChildEnds(code)
      BY <2>2, <3>3 DEF ChildEnds
    <3> QED BY <1>9, <3>1, <3>2, <3>3
  <2>3. \A q \in Pipes \ (reads \cup broken)' : pipe'[q] = <<>> /\ writers'[q] = {}
    BY <2>1, <2>2
  <2>4. phase' = "read" =>
          /\ at' \in 1 .. 2
          /\ \A k \in at' .. 2 : Streams[k] \in ready' =>
               Streams[k] \in reads' /\ (pipe'[Streams[k]] # <<>> \/ writers'[Streams[k]] = {})
    BY <2>1, <2>2, StreamPipes
  <2>5. phase' \in {"new", "stderr", "fork", "fail"} => \A q \in Pipes : pipe'[q] = <<>>
    BY <2>1
  <2> QED BY <2>3, <2>4, <2>5
<1>10. CASE UNCHANGED vars
  BY <1>10 DEF vars, data
<1> QED
  BY <1>1, <1>2, <1>3, <1>4, <1>5, <1>6, <1>7, <1>8, <1>9, <1>10, <1>11, <1>12, <1>13, <1>14
  DEF Next, Autark, GoesOn, Others

-----------------------------------------------------------------------------
\* The pipes carry what is written to them in order, and autark closes its end of
\* one only at the end of what will ever be written to it: the inductive
\* invariant of spawn_do (spawn.c:411).
THEOREM SpawnInductive == Spec => []IInv
<1>1. ASSUME IInv, [Next]_vars PROVE IInv'
  BY <1>1, EndsStep, StreamStep, ClosedStep DEF IInv
<1> QED BY <1>1, SpawnInit, PTL DEF Spec

\* What is written to either pipe, by the child or by what it left behind, is received
\* in its order, and all of it when spawn_do returns without an error and could read the
\* pipe; the status is then that of the child.  No pipe is left open on any way out,
\* but the read ends when poll has failed (spawn.c:411 and 421).
THEOREM ReceivesAll == Spec => []AllReceived
<1>1. ASSUME IInv PROVE AllReceived
  <2>1. ASSUME NEW p \in Pipes PROVE got[p] = [k \in 1 .. Len(got[p]) |-> k]
    <3>1. got[p] \in Seq(Nat) /\ \A k \in 1 .. Len(got[p]) : got[p][k] = k
      BY <1>1 DEF IInv, StreamInv
    <3>2. got[p] = [k \in 1 .. Len(got[p]) |-> got[p][k]]
      BY <3>1
    <3> QED BY <3>1, <3>2
  <2>2. ASSUME phase = "returned", NEW p \in Pipes
        PROVE  "autark" \notin writers[p] /\ (p \in reads => rc = "poll")
    BY <1>1, <2>2 DEF IInv, EndsInv
  <2>3. ASSUME phase = "returned", rc = "ok"
        PROVE  /\ wstatus = child /\ child # {} /\ "running" \notin child
               /\ \A p \in Pipes \ broken : Len(got[p]) = written[p]
    <3>1. wstatus = child /\ child # {} /\ "running" \notin child /\ reads = {}
      BY <1>1, <2>3 DEF IInv, EndsInv
    <3>2. ASSUME NEW p \in Pipes \ broken PROVE Len(got[p]) = written[p]
      <4>1. pipe[p] = <<>>
        BY <1>1, <3>1 DEF IInv, ClosedInv
      <4>2. got[p] \in Seq(Nat) /\ Len(got[p]) + Len(pipe[p]) = written[p]
        BY <1>1 DEF IInv, StreamInv
      <4> QED BY <4>1, <4>2
    <3> QED BY <3>1, <3>2
  <2> QED BY <2>1, <2>2, <2>3 DEF AllReceived
<1> QED BY <1>1, SpawnInductive, PTL

-----------------------------------------------------------------------------
(***************************************************************************)
(* The environment of the child.                                           *)
(***************************************************************************)

LEMMA LeastOf == ASSUME NEW T, T \subseteq Nat, T # {} PROVE \E m \in T : \A k \in T : m <= k
  <1>1. PICK m \in T : \A k \in T : ~(<<k, m>> \in OpToRel(<, Nat))
    BY NatLessThanWellFounded, WFMin
  <1>2. ASSUME NEW k \in T PROVE ~(k < m)
    BY <1>1 DEF OpToRel
  <1>3. QED
    BY <1>2

LEMMA Induct ==
  ASSUME NEW T, NEW n \in Nat, 0 \in T, \A k \in 0 .. n : k \in T /\ k < n => k + 1 \in T
  PROVE  \A k \in 0 .. n : k \in T
  <1> DEFINE U == (0 .. n) \ T
  <1>1. SUFFICES ASSUME U # {} PROVE FALSE
    OBVIOUS
  <1>2. PICK m \in U : \A k \in U : m <= k
    <2>1. U \subseteq Nat
      OBVIOUS
    <2> HIDE DEF U
    <2>2. QED
      BY <1>1, <2>1, LeastOf
  <1>3. m \in Nat /\ m # 0 /\ m <= n /\ m \notin T
    BY <1>2
  <1>4. m - 1 \in 0 .. n /\ m - 1 < n /\ m - 1 < m /\ (m - 1) + 1 = m
    BY <1>3
  <1>5. m - 1 \in T
    BY <1>2, <1>3, <1>4
  <1>6. QED
    BY <1>3, <1>4, <1>5

\* _env_find takes out the entry with a name, if there is one.
LEMMA TakeIs ==
  ASSUME NEW st, NEW e, Len(st.mine) \in Nat
  PROVE  \/ /\ \A i \in 1 .. Len(st.mine) : st.mine[i].key # e.key
            /\ Take(st, e) = [st EXCEPT !.out = Append(@, e)]
         \/ \E k \in 1 .. Len(st.mine) :
              /\ st.mine[k].key = e.key
              /\ Take(st, e) = [out |-> Append(st.out, st.mine[k]), mine |-> RemoveAt(st.mine, k)]
  <1>1. PICK I : I = {i \in 1 .. Len(st.mine) : st.mine[i].key = e.key}
    OBVIOUS
  <1>2. CASE I = {}
    <2>1. Take(st, e) = [st EXCEPT !.out = Append(@, e)]
      BY <1>1, <1>2 DEF Take, SelectInSeq
    <2>2. QED
      BY <1>1, <1>2, <2>1
  <1>3. CASE I # {}
    <2>1. I \subseteq Nat
      BY <1>1
    <2>2. PICK k \in I : k = Min(I)
      BY <1>3, <2>1, LeastOf DEF Min
    <2>3. k # 0 /\ k \in 1 .. Len(st.mine) /\ st.mine[k].key = e.key
      BY <1>1
    <2>4. Take(st, e) = [out |-> Append(st.out, st.mine[k]), mine |-> RemoveAt(st.mine, k)]
      BY <1>1, <1>3, <2>2, <2>3 DEF Take, SelectInSeq
    <2>5. QED
      BY <2>3, <2>4
  <1>4. QED
    BY <1>2, <1>3

\* No name twice.
Once(s) == \A i, j \in DOMAIN s : s[i].key = s[j].key => i = j

LEMMA WithoutIs ==
  ASSUME NEW R, NEW s \in Seq(R), NEW k \in 1 .. Len(s), Once(s)
  PROVE  /\ RemoveAt(s, k) \in Seq(R) /\ Once(RemoveAt(s, k))
         /\ ToSet(RemoveAt(s, k)) = {m \in ToSet(s) : m.key # s[k].key}
  <1>1. PICK t : t = RemoveAt(s, k)
    OBVIOUS
  <1>2. /\ t \in Seq(R) /\ Len(t) = Len(s) - 1
        /\ \A i \in 1 .. Len(s) - 1 : t[i] = IF i < k THEN s[i] ELSE s[i + 1]
    <2>1. PICK a, b : a = SubSeq(s, 1, k - 1) /\ b = SubSeq(s, k + 1, Len(s))
      OBVIOUS
    <2>2. a \in Seq(R) /\ Len(a) = k - 1 /\ \A i \in 1 .. k - 1 : a[i] = s[i]
      BY <2>1
    <2>3. b \in Seq(R) /\ Len(b) = Len(s) - k /\ \A i \in 1 .. Len(s) - k : b[i] = s[i + k]
      BY <2>1
    <2>4. t = a \o b
      BY <1>1, <2>1 DEF RemoveAt
    <2>5. t \in Seq(R) /\ Len(t) = Len(s) - 1
      BY <2>2, <2>3, <2>4
    <2>6. ASSUME NEW i \in 1 .. Len(s) - 1 PROVE t[i] = IF i < k THEN s[i] ELSE s[i + 1]
      <3>1. CASE i < k
        <4>1. i \in 1 .. Len(a) /\ i \in 1 .. Len(a) + Len(b)
          BY <2>2, <2>3, <3>1
        <4>2. QED
          BY <2>2, <2>3, <2>4, <3>1, <4>1
      <3>2. CASE ~(i < k)
        <4>1. i - (k - 1) \in 1 .. Len(s) - k /\ i - (k - 1) + k = i + 1 /\ i \in 1 .. Len(a) + Len(b)
          BY <2>2, <2>3, <3>2
        <4>2. t[i] = b[i - (k - 1)]
          BY <2>2, <2>3, <2>4, <3>2, <4>1
        <4>3. QED
          BY <2>3, <3>2, <4>1, <4>2
      <3>3. QED
        BY <3>1, <3>2
    <2>7. QED
      BY <2>5, <2>6
  <1>3. DOMAIN t = 1 .. Len(s) - 1 /\ DOMAIN s = 1 .. Len(s)
    BY <1>2
  <1>4. Once(t)
    <2>1. SUFFICES ASSUME NEW i \in DOMAIN t, NEW j \in DOMAIN t, t[i].key = t[j].key PROVE i = j
      BY DEF Once
    <2>2. PICK a \in 1 .. Len(s) : t[i] = s[a] /\ a = IF i < k THEN i ELSE i + 1
      BY <1>2, <1>3
    <2>3. PICK b \in 1 .. Len(s) : t[j] = s[b] /\ b = IF j < k THEN j ELSE j + 1
      BY <1>2, <1>3
    <2>4. a = b
      BY <1>3, <2>1, <2>2, <2>3 DEF Once
    <2>5. QED
      BY <1>3, <2>2, <2>3, <2>4
  <1>5. ASSUME NEW i \in DOMAIN t PROVE t[i] \in ToSet(s) /\ t[i].key # s[k].key
    <2>1. PICK a \in 1 .. Len(s) : t[i] = s[a] /\ a # k
      BY <1>2, <1>3
    <2>2. QED
      BY <1>3, <2>1 DEF Once, ToSet
  <1>6. ASSUME NEW m \in ToSet(s), m.key # s[k].key PROVE m \in ToSet(t)
    <2>1. PICK j \in DOMAIN s : m = s[j]
      BY DEF ToSet
    <2>2. j # k
      BY <1>6, <2>1
    <2>3. CASE j < k
      <3>1. j \in DOMAIN t /\ t[j] = m
        BY <1>2, <1>3, <2>1, <2>3
      <3>2. QED
        BY <3>1 DEF ToSet
    <2>4. CASE j > k
      <3>1. j - 1 \in DOMAIN t /\ t[j - 1] = m
        BY <1>2, <1>3, <2>1, <2>4
      <3>2. QED
        BY <3>1 DEF ToSet
    <2>5. QED
      BY <1>3, <2>1, <2>2, <2>3, <2>4
  <1>7. ToSet(t) = {m \in ToSet(s) : m.key # s[k].key}
    <2>1. \A m : m \in ToSet(t) <=> \E i \in DOMAIN t : m = t[i]
      BY DEF ToSet
    <2>2. QED
      BY <1>5, <1>6, <2>1
  <1>8. QED
    BY <1>1, <1>2, <1>4, <1>7

\* What stands in the environment after n entries of the own one.
Taken(e, m, s, n) ==
  LET R == ToSet(e) \cup ToSet(m) IN
  /\ s = [out |-> s.out, mine |-> s.mine]
  /\ s.out \in Seq(R) /\ Len(s.out) = n
  /\ s.mine \in Seq(R) /\ Once(s.mine)
  /\ \A i \in 1 .. n :
       /\ s.out[i].key = e[i].key
       /\ s.out[i] \in ToSet(m) \/ (s.out[i] = e[i] /\ \A x \in ToSet(m) : x.key # e[i].key)
  /\ ToSet(s.mine) = {x \in ToSet(m) : \A i \in 1 .. n : e[i].key # x.key}

LEMMA TakeMore ==
  ASSUME NEW R, NEW Q, NEW e \in Seq(R), NEW m \in Seq(Q), Once(e),
         NEW n \in 0 .. Len(e) - 1, NEW s, Taken(e, m, s, n)
  PROVE  Taken(e, m, Take(s, e[n + 1]), n + 1)
  <1>1. n + 1 \in 1 .. Len(e) /\ n \in Nat /\ DOMAIN e = 1 .. Len(e) /\ e[n + 1] \in ToSet(e)
    BY DEF ToSet
  <1>2. PICK U : U = ToSet(e) \cup ToSet(m)
    OBVIOUS
  <1>3. /\ s = [out |-> s.out, mine |-> s.mine]
        /\ s.out \in Seq(U) /\ Len(s.out) = n
        /\ s.mine \in Seq(U) /\ Once(s.mine)
        /\ \A i \in 1 .. n :
             /\ s.out[i].key = e[i].key
             /\ s.out[i] \in ToSet(m) \/ (s.out[i] = e[i] /\ \A x \in ToSet(m) : x.key # e[i].key)
        /\ ToSet(s.mine) = {x \in ToSet(m) : \A i \in 1 .. n : e[i].key # x.key}
    BY <1>2 DEF Taken
  <1>4. PICK t : t = Take(s, e[n + 1])
    OBVIOUS
  <1>5. Len(s.mine) \in Nat /\ DOMAIN s.mine = 1 .. Len(s.mine)
    BY <1>3
  <1>6. \A i \in 1 .. n : e[i].key # e[n + 1].key
    BY <1>1 DEF Once
  <1>7. \A i \in 1 .. n + 1 : i = n + 1 \/ i \in 1 .. n
    BY <1>1
  <1>8. CASE /\ \A i \in 1 .. Len(s.mine) : s.mine[i].key # e[n + 1].key
             /\ t = [s EXCEPT !.out = Append(@, e[n + 1])]
    <2>1. t.out = Append(s.out, e[n + 1]) /\ t.mine = s.mine /\ t = [out |-> t.out, mine |-> t.mine]
      BY <1>3, <1>8
    <2>2. /\ t.out \in Seq(U) /\ Len(t.out) = n + 1 /\ t.out[n + 1] = e[n + 1]
          /\ \A i \in 1 .. n : t.out[i] = s.out[i]
      BY <1>1, <1>2, <1>3, <2>1
    <2>3. \A x \in ToSet(s.mine) : x.key # e[n + 1].key
      BY <1>5, <1>8 DEF ToSet
    <2>4. \A x \in ToSet(m) : x.key # e[n + 1].key
      BY <1>3, <1>6, <2>3
    <2>5. ToSet(t.mine) = {x \in ToSet(m) : \A i \in 1 .. n + 1 : e[i].key # x.key}
      BY <1>1, <1>3, <1>7, <2>1, <2>4
    <2>6. \A i \in 1 .. n + 1 :
            /\ t.out[i].key = e[i].key
            /\ t.out[i] \in ToSet(m) \/ (t.out[i] = e[i] /\ \A x \in ToSet(m) : x.key # e[i].key)
      BY <1>3, <1>7, <2>2, <2>4
    <2>7. Taken(e, m, t, n + 1)
      BY <1>2, <1>3, <2>1, <2>2, <2>5, <2>6 DEF Taken
    <2>8. QED
      BY <1>4, <2>7
  <1>9. CASE \E k \in 1 .. Len(s.mine) :
               /\ s.mine[k].key = e[n + 1].key
               /\ t = [out |-> Append(s.out, s.mine[k]), mine |-> RemoveAt(s.mine, k)]
    <2>1. PICK k \in 1 .. Len(s.mine) :
               /\ s.mine[k].key = e[n + 1].key
               /\ t = [out |-> Append(s.out, s.mine[k]), mine |-> RemoveAt(s.mine, k)]
      BY <1>9
    <2>2. /\ s.mine[k] \in U /\ s.mine[k] \in ToSet(s.mine) /\ s.mine[k] \in ToSet(m)
      <3>1. s.mine[k] \in U /\ s.mine[k] \in ToSet(s.mine)
        BY <1>3, <1>5 DEF ToSet
      <3>2. QED
        BY <1>3, <3>1
    <2>3. t.out = Append(s.out, s.mine[k]) /\ t.mine = RemoveAt(s.mine, k) /\ t = [out |-> t.out, mine |-> t.mine]
      BY <2>1
    <2>4. /\ t.out \in Seq(U) /\ Len(t.out) = n + 1 /\ t.out[n + 1] = s.mine[k]
          /\ \A i \in 1 .. n : t.out[i] = s.out[i]
      BY <1>1, <1>3, <2>2, <2>3
    <2>5. /\ t.mine \in Seq(U) /\ Once(t.mine)
          /\ ToSet(t.mine) = {x \in ToSet(s.mine) : x.key # s.mine[k].key}
      BY <1>3, <2>3, WithoutIs
    <2>6. ToSet(t.mine) = {x \in ToSet(m) : \A i \in 1 .. n + 1 : e[i].key # x.key}
      BY <1>1, <1>3, <1>7, <2>1, <2>5
    <2>7. \A i \in 1 .. n + 1 :
            /\ t.out[i].key = e[i].key
            /\ t.out[i] \in ToSet(m) \/ (t.out[i] = e[i] /\ \A x \in ToSet(m) : x.key # e[i].key)
      BY <1>3, <1>7, <2>1, <2>2, <2>4
    <2>8. Taken(e, m, t, n + 1)
      BY <1>2, <2>3, <2>4, <2>5, <2>6, <2>7 DEF Taken
    <2>9. QED
      BY <1>4, <2>8
  <1>10. QED
    BY <1>4, <1>5, <1>8, <1>9, TakeIs

\* The states of the loop of _env_create.
States(e, m, n, g) ==
  g = [k \in 0 .. n |-> IF k = 0 THEN [out |-> <<>>, mine |-> m] ELSE Take(g[k - 1], e[k])]

LEMMA StatesExist ==
  ASSUME NEW e, NEW m, NEW n \in Nat
  PROVE  \E g : States(e, m, n, g)
  <1> DEFINE T == {k \in 0 .. n : \E g : States(e, m, k, g)}
  <1>1. 0 \in T
    <2>1. PICK g : g = [k \in 0 .. 0 |-> [out |-> <<>>, mine |-> m]]
      OBVIOUS
    <2>2. States(e, m, 0, g)
      BY <2>1 DEF States
    <2>3. QED
      BY <2>2
  <1>2. ASSUME NEW j \in 0 .. n, j \in T, j < n PROVE j + 1 \in T
    <2>1. PICK g : States(e, m, j, g)
      BY <1>2
    <2>2. PICK t : t = Take(g[j], e[j + 1])
      OBVIOUS
    <2>3. PICK h : h = [k \in 0 .. j + 1 |-> IF k = j + 1 THEN t ELSE g[k]]
      OBVIOUS
    <2>4. ASSUME NEW k \in 0 .. j + 1
          PROVE  h[k] = IF k = 0 THEN [out |-> <<>>, mine |-> m] ELSE Take(h[k - 1], e[k])
      <3>1. CASE k = j + 1
        <4>1. k # 0 /\ k - 1 = j /\ h[k] = t /\ h[j] = g[j]
          BY <2>3, <3>1
        <4>2. QED
          BY <2>2, <3>1, <4>1
      <3>2. CASE k # j + 1
        <4>1. k \in 0 .. j /\ h[k] = g[k]
          BY <2>3, <3>2
        <4>2. k # 0 => h[k - 1] = g[k - 1]
          BY <2>3, <4>1
        <4>3. g[k] = IF k = 0 THEN [out |-> <<>>, mine |-> m] ELSE Take(g[k - 1], e[k])
          BY <2>1, <4>1 DEF States
        <4>4. QED
          BY <4>1, <4>2, <4>3
      <3>3. QED
        BY <3>1, <3>2
    <2>5. States(e, m, j + 1, h)
      BY <2>3, <2>4 DEF States
    <2>6. QED
      BY <1>2, <2>5
  <1>3. \A k \in 0 .. n : k \in T
    <2> HIDE DEF T
    <2> QED
      BY <1>1, <1>2, Induct
  <1>4. QED
    BY <1>3

\* Every state of the loop has what it should.
LEMMA TakenAll ==
  ASSUME NEW R, NEW Q, NEW e \in Seq(R), NEW m \in Seq(Q), Once(e), Once(m),
         NEW g, States(e, m, Len(e), g)
  PROVE  Taken(e, m, g[Len(e)], Len(e))
  <1> DEFINE T == {n \in 0 .. Len(e) : Taken(e, m, g[n], n)}
  <1>1. Len(e) \in Nat /\ 0 \in 0 .. Len(e)
    OBVIOUS
  <1>2. 0 \in T
    <2>1. g[0] = [out |-> <<>>, mine |-> m]
      BY <1>1 DEF States
    <2>2. m \in Seq(ToSet(e) \cup ToSet(m))
      BY DEF ToSet
    <2>3. Taken(e, m, g[0], 0)
      BY <2>1, <2>2 DEF Taken
    <2>4. QED
      BY <1>1, <2>3
  <1>3. ASSUME NEW n \in 0 .. Len(e), n \in T, n < Len(e) PROVE n + 1 \in T
    <2>1. n \in 0 .. Len(e) - 1 /\ n + 1 \in 0 .. Len(e) /\ n + 1 # 0 /\ (n + 1) - 1 = n
      BY <1>1, <1>3
    <2>2. g[n + 1] = Take(g[n], e[n + 1])
      BY <2>1 DEF States
    <2>3. Taken(e, m, g[n + 1], n + 1)
      BY <1>3, <2>1, <2>2, TakeMore
    <2>4. QED
      BY <2>1, <2>3
  <1>4. \A n \in 0 .. Len(e) : n \in T
    <2> HIDE DEF T
    <2> QED
      BY <1>1, <1>2, <1>3, Induct
  <1>5. QED
    BY <1>1, <1>4

\* What _env_create makes: every name of the own environment and of the settings
\* once, as it was set if it was.
Joined(e, m, v) ==
  /\ Once(v)
  /\ \A x \in ToSet(v) : x \in ToSet(m) \/ (x \in ToSet(e) /\ \A y \in ToSet(m) : y.key # x.key)
  /\ \A x \in ToSet(e) \cup ToSet(m) : \E y \in ToSet(v) : y.key = x.key

LEMMA JoinIs ==
  ASSUME NEW R, NEW Q, NEW e \in Seq(R), NEW m \in Seq(Q), Once(e), Once(m),
         NEW s, Taken(e, m, s, Len(e))
  PROVE  Joined(e, m, s.out \o s.mine)
  <1>1. PICK U, a, b : U = ToSet(e) \cup ToSet(m) /\ a = s.out /\ b = s.mine
    OBVIOUS
  <1>2. /\ a \in Seq(U) /\ Len(a) = Len(e) /\ b \in Seq(U) /\ Once(b)
        /\ \A i \in 1 .. Len(e) :
             /\ a[i].key = e[i].key
             /\ a[i] \in ToSet(m) \/ (a[i] = e[i] /\ \A x \in ToSet(m) : x.key # e[i].key)
        /\ ToSet(b) = {x \in ToSet(m) : \A i \in 1 .. Len(e) : e[i].key # x.key}
    BY <1>1 DEF Taken
  <1>3. PICK v : v = a \o b
    OBVIOUS
  <1>4. /\ v \in Seq(U) /\ Len(v) = Len(a) + Len(b) /\ Len(a) \in Nat /\ Len(b) \in Nat
        /\ \A i \in 1 .. Len(v) : v[i] = IF i <= Len(a) THEN a[i] ELSE b[i - Len(a)]
    <2>1. a \in Seq(U) /\ b \in Seq(U)
      BY <1>2
    <2>2. Len(a) \in Nat /\ Len(b) \in Nat
      BY <2>1
    <2>3. QED
      BY <1>3, <2>1, <2>2, ConcatProperties
  <1>5. /\ DOMAIN v = 1 .. Len(v) /\ DOMAIN b = 1 .. Len(b) /\ DOMAIN e = 1 .. Len(e)
    BY <1>2, <1>4
  <1>6. \A i \in DOMAIN v :
          \/ i \in 1 .. Len(e) /\ v[i] = a[i] /\ v[i].key = e[i].key
          \/ i - Len(a) \in DOMAIN b /\ v[i] = b[i - Len(a)] /\ v[i] \in ToSet(b)
    <2>1. SUFFICES ASSUME NEW i \in DOMAIN v
                   PROVE  \/ i \in 1 .. Len(e) /\ v[i] = a[i] /\ v[i].key = e[i].key
                          \/ i - Len(a) \in DOMAIN b /\ v[i] = b[i - Len(a)] /\ v[i] \in ToSet(b)
      OBVIOUS
    <2>2. CASE i <= Len(a)
      <3>1. i \in 1 .. Len(e) /\ v[i] = a[i]
        BY <1>2, <1>4, <1>5, <2>2
      <3>2. QED
        BY <1>2, <3>1
    <2>3. CASE ~(i <= Len(a))
      <3>1. i - Len(a) \in DOMAIN b /\ v[i] = b[i - Len(a)]
        BY <1>4, <1>5, <2>3
      <3>2. QED
        BY <3>1 DEF ToSet
    <2>4. QED
      BY <2>2, <2>3
  <1>7. \A x \in ToSet(b), i \in 1 .. Len(e) : x.key # e[i].key
    BY <1>2
  <1>8. Once(v)
    <2>1. SUFFICES ASSUME NEW i \in DOMAIN v, NEW j \in DOMAIN v, v[i].key = v[j].key PROVE i = j
      BY DEF Once
    <2>2. CASE i \in 1 .. Len(e) /\ v[i].key = e[i].key
      <3>1. j \in 1 .. Len(e) /\ v[j].key = e[j].key
        BY <1>6, <1>7, <2>1, <2>2
      <3>2. QED
        BY <1>5, <2>1, <2>2, <3>1 DEF Once
    <2>3. CASE i - Len(a) \in DOMAIN b /\ v[i] = b[i - Len(a)] /\ v[i] \in ToSet(b)
      <3>1. j - Len(a) \in DOMAIN b /\ v[j] = b[j - Len(a)]
        BY <1>6, <1>7, <2>1, <2>3
      <3>2. i - Len(a) = j - Len(a)
        BY <1>2, <2>1, <2>3, <3>1 DEF Once
      <3>3. QED
        BY <1>4, <1>5, <3>2
    <2>4. QED
      BY <1>6, <2>2, <2>3
  <1>9. ASSUME NEW x \in ToSet(v)
        PROVE  x \in ToSet(m) \/ (x \in ToSet(e) /\ \A y \in ToSet(m) : y.key # x.key)
    <2>1. PICK i \in DOMAIN v : x = v[i]
      BY DEF ToSet
    <2>2. CASE i \in 1 .. Len(e) /\ v[i] = a[i]
      <3>1. e[i] \in ToSet(e)
        BY <1>5, <2>2 DEF ToSet
      <3>2. QED
        BY <1>2, <2>1, <2>2, <3>1
    <2>3. CASE v[i] \in ToSet(b)
      BY <1>2, <2>1, <2>3
    <2>4. QED
      BY <1>6, <2>2, <2>3
  <1>10. ASSUME NEW i \in 1 .. Len(e) PROVE i \in DOMAIN v /\ v[i] \in ToSet(v) /\ v[i].key = e[i].key
    <2>1. i \in DOMAIN v /\ v[i] = a[i]
      BY <1>2, <1>4, <1>5
    <2>2. QED
      BY <1>2, <2>1 DEF ToSet
  <1>11. ASSUME NEW x \in ToSet(b) PROVE x \in ToSet(v)
    <2>1. PICK j \in DOMAIN b : x = b[j]
      BY DEF ToSet
    <2>2. /\ j + Len(a) \in DOMAIN v /\ ~(j + Len(a) <= Len(a)) /\ (j + Len(a)) - Len(a) = j
      BY <1>4, <1>5
    <2>3. v[j + Len(a)] = b[j]
      BY <1>4, <1>5, <2>2
    <2>4. QED
      BY <2>1, <2>2, <2>3 DEF ToSet
  <1>12. ASSUME NEW x \in ToSet(e) \cup ToSet(m) PROVE \E y \in ToSet(v) : y.key = x.key
    <2>1. CASE \E i \in 1 .. Len(e) : e[i].key = x.key
      BY <1>10, <2>1
    <2>2. CASE \A i \in 1 .. Len(e) : e[i].key # x.key
      <3>1. x \notin ToSet(e)
        BY <1>5, <2>2 DEF ToSet
      <3>2. x \in ToSet(b)
        BY <1>2, <2>2, <3>1
      <3>3. QED
        BY <1>11, <3>2
    <2>3. QED
      BY <2>1, <2>2
  <1>13. Joined(e, m, v)
    BY <1>8, <1>9, <1>12 DEF Joined
  <1>14. QED
    BY <1>1, <1>3, <1>13

LEMMA EnvironmentIs ==
  ASSUME NamesOnce, environ \in Environs, settings \in Settings
  PROVE  /\ Joined(environ, Mine, Environment)
         /\ ToSet(Mine) = ToSet(settings) \cup {[key |-> "PATH", val |-> PathOf]}
         /\ Once(settings) /\ Once(environ)
         /\ \A x \in ToSet(settings) : x.key # "PATH"
  <1>1. /\ environ \in Seq(ToSet(environ)) /\ Once(environ)
        /\ settings \in Seq(ToSet(settings)) /\ Once(settings)
        /\ \A i \in DOMAIN settings : settings[i].key # "PATH"
    BY DEF NamesOnce, Once
  <1>2. PICK p, S, m : p = [key |-> "PATH", val |-> PathOf] /\ S = ToSet(settings) \cup {p} /\ m = Mine
    OBVIOUS
  <1>3. settings \in Seq(S) /\ p \in S
    BY <1>1, <1>2
  <1>4. m = Append(settings, p)
    BY <1>2 DEF Mine
  <1>5. /\ m \in Seq(S) /\ Len(m) = Len(settings) + 1 /\ m[Len(settings) + 1] = p
        /\ \A i \in 1 .. Len(settings) : m[i] = settings[i]
        /\ DOMAIN m = 1 .. Len(settings) + 1 /\ DOMAIN settings = 1 .. Len(settings) /\ Len(settings) \in Nat
    BY <1>3, <1>4
  <1>6. \A i \in DOMAIN m : (i = Len(settings) + 1 /\ m[i] = p) \/ (i \in DOMAIN settings /\ m[i] = settings[i])
    BY <1>5
  <1>7. p.key = "PATH"
    BY <1>2
  <1>8. Once(m)
    BY <1>1, <1>6, <1>7 DEF Once
  <1>9. ToSet(m) = ToSet(settings) \cup {p}
    <2>1. \A x \in ToSet(m) : x \in ToSet(settings) \cup {p}
      BY <1>6 DEF ToSet
    <2>2. Len(settings) + 1 \in DOMAIN m
      BY <1>5
    <2>3. p \in ToSet(m)
      BY <1>5, <2>2 DEF ToSet
    <2>4. ASSUME NEW x \in ToSet(settings) PROVE x \in ToSet(m)
      <3>1. PICK i \in DOMAIN settings : x = settings[i]
        BY DEF ToSet
      <3>2. i \in DOMAIN m /\ m[i] = x
        BY <1>5, <3>1
      <3>3. QED
        BY <3>2 DEF ToSet
    <2>5. QED
      BY <2>1, <2>3, <2>4
  <1>10. PICK g : g = CHOOSE h : States(environ, m, Len(environ), h)
    OBVIOUS
  <1>11. Len(environ) \in Nat
    BY <1>1
  <1>12. States(environ, m, Len(environ), g)
    BY <1>10, <1>11, StatesExist
  <1>13. Environment = g[Len(environ)].out \o g[Len(environ)].mine
    BY <1>2, <1>10 DEF Environment, States
  <1>14. Taken(environ, m, g[Len(environ)], Len(environ))
    BY <1>1, <1>5, <1>8, <1>12, TakenAll
  <1>15. Joined(environ, m, Environment)
    BY <1>1, <1>5, <1>8, <1>13, <1>14, JoinIs
  <1>16. \A x \in ToSet(settings) : x.key # "PATH"
    BY <1>1 DEF ToSet
  <1>17. QED
    BY <1>1, <1>2, <1>9, <1>15, <1>16

\* What the child was given when it was started.
GivenInv ==
  /\ environ \in Environs /\ settings \in Settings
  /\ program # {} => env = Environment /\ program = Resolve

LEMMA GivenStep == ASSUME GivenInv, [Next]_vars PROVE GivenInv'
  <1>1. UNCHANGED inputs => PathOf' = PathOf
    BY DEF inputs, PathOf, SelectInSeq
  <1>2. UNCHANGED inputs => Environment' = Environment /\ Resolve' = Resolve
    <2>1. UNCHANGED inputs => Environment' = Environment
      BY <1>1 DEF inputs, Environment, Mine
    <2>2. UNCHANGED inputs => Resolve' = Resolve
      BY <1>1 DEF inputs, Resolve, SelectInSeq
    <2>3. QED
      BY <2>1, <2>2
  <1>3. CASE Fork
    BY <1>2, <1>3 DEF Fork, GivenInv, inputs
  <1>4. CASE UNCHANGED <<inputs, setup>>
    BY <1>2, <1>4 DEF GivenInv, inputs, setup
  <1>5. Next => Fork \/ UNCHANGED <<inputs, setup>>
    <2>1. Autark => Fork \/ UNCHANGED <<inputs, setup>>
      BY DEF Autark, GoesOn, NotFound, OpenStdout, OpenStderr, Open, CannotStart, Fail, CloseWriteEnds,
             Poll, PollFails, NotReady, Receive, EndOfPipe, ReadFails, Wait, Turn
    <2>2. Others => UNCHANGED <<inputs, setup>>
      BY DEF Others, Write, NoReader, Close, Leave, ChildEnds, Process
    <2>3. QED
      BY <2>1, <2>2 DEF Next
  <1>6. QED
    BY <1>3, <1>4, <1>5 DEF vars

\* Every phase of spawn_do knows what the child was given.
THEOREM GivenInductive == Spec => []GivenInv
  <1>1. Init => GivenInv
    BY DEF Init, GivenInv
  <1>2. GivenInv /\ [Next]_vars => GivenInv'
    BY GivenStep
  <1>3. QED
    BY <1>1, <1>2, PTL DEF Spec

\* The child finds every variable of autark and every setting once, with the
\* value that was set or else the one autark has, and it is the program to which
\* its own PATH leads (spawn.c:138 and 182).
THEOREM SeesSettings == ASSUME NamesOnce PROVE Spec => []ChildSees
  <1>1. GivenInv => ChildSees
    <2>1. SUFFICES ASSUME GivenInv, program # {} PROVE ChildSees
      BY DEF ChildSees
    <2>2. env = Environment /\ program = Resolve
      BY <2>1 DEF GivenInv
    <2>3. PICK p : p = [key |-> "PATH", val |-> PathOf]
      OBVIOUS
    <2>4. PICK E, T, S, M : E = ToSet(environ) /\ T = ToSet(settings) /\ S = ToSet(env) /\ M = Mine
      OBVIOUS
    <2>5. /\ Joined(environ, M, env) /\ ToSet(M) = T \cup {p}
          /\ Once(settings) /\ Once(environ) /\ \A x \in T : x.key # "PATH"
      BY <2>1, <2>2, <2>3, <2>4, EnvironmentIs DEF GivenInv
    <2>6. /\ Once(env)
          /\ \A x \in S : x \in T \cup {p} \/ (x \in E /\ \A y \in T \cup {p} : y.key # x.key)
          /\ \A x \in E \cup T \cup {p} : \E y \in S : y.key = x.key
      BY <2>4, <2>5 DEF Joined
    <2>7. p.key = "PATH" /\ p.val = PathOf
      BY <2>3
    <2>8. \A x, y \in S : x.key = y.key => x = y
      BY <2>4, <2>6 DEF Once, ToSet
    <2>9. PICK keys : keys = {x.key : x \in S}
      OBVIOUS
    <2>10. keys = {x.key : x \in E \cup T} \cup {"PATH"}
      <3>1. \A k \in keys : k \in {x.key : x \in E \cup T} \cup {"PATH"}
        BY <2>6, <2>7, <2>9
      <3>2. \A x \in E \cup T : x.key \in keys
        BY <2>6, <2>9
      <3>3. "PATH" \in keys
        BY <2>6, <2>7, <2>9
      <3>4. QED
        BY <3>1, <3>2, <3>3
    <2>11. ASSUME NEW k \in keys PROVE (CHOOSE x \in S : x.key = k) \in S /\ (CHOOSE x \in S : x.key = k).key = k
      <3>1. \E x \in S : x.key = k
        BY <2>9
      <3>2. QED
        BY <3>1
    <2>12. (CHOOSE x \in S : x.key = "PATH") = p
      <3>1. PICK x : x = CHOOSE y \in S : y.key = "PATH"
        OBVIOUS
      <3>2. x \in S /\ x.key = "PATH"
        BY <2>10, <2>11, <3>1
      <3>3. x = p
        BY <2>5, <2>6, <2>7, <3>2
      <3>4. QED
        BY <3>1, <3>3
    <2>13. ASSUME NEW k \in keys \ {"PATH"}
           PROVE  (CHOOSE x \in S : x.key = k) \in
                    IF {x \in T : x.key = k} # {} THEN {x \in T : x.key = k} ELSE E
      <3>1. PICK x \in S : x = (CHOOSE y \in S : y.key = k) /\ x.key = k
        BY <2>11
      <3>2. x \in T \/ (x \in E /\ \A y \in T : y.key # k)
        BY <2>6, <2>7, <2>13, <3>1
      <3>3. QED
        BY <3>1, <3>2
    <2>14. PICK I, first : /\ I = {i \in 1 .. Len(PathOf) : PathOf[i] \in has}
                           /\ first = IF I # {} THEN Min(I) ELSE 0
      OBVIOUS
    <2>15. first # 0 /\ program = {PathOf[first]}
      BY <2>1, <2>2, <2>14 DEF Resolve, SelectInSeq
    <2>16. \A i, j \in DOMAIN env : env[i].key = env[j].key => i = j
      BY <2>6 DEF Once
    <2>17. PICK x : x = CHOOSE y \in ToSet(env) : y.key = "PATH"
      OBVIOUS
    <2>18. x.val = PathOf
      BY <2>4, <2>7, <2>12, <2>17
    <2>19. OnItsPath
      <3>1. x = Entry(ToSet(env), "PATH")
        BY <2>17 DEF Entry
      <3>2. SelectInSeq(x.val, LAMBDA d : d \in has) # 0
            /\ program = {x.val[SelectInSeq(x.val, LAMBDA d : d \in has)]}
        BY <2>14, <2>15, <2>18 DEF SelectInSeq
      <3>3. QED
        BY <3>1, <3>2 DEF OnItsPath, SelectInSeq
    <2>20. Keys(ToSet(env)) = Keys(ToSet(environ) \cup ToSet(settings)) \cup {"PATH"}
      BY <2>4, <2>9, <2>10 DEF Keys
    <2>21. AsSet
      <3>1. \A k \in keys \ {"PATH"} :
              Entry(S, k) \in IF {y \in T : y.key = k} # {} THEN {y \in T : y.key = k} ELSE E
        BY <2>13 DEF Entry
      <3>2. keys = Keys(ToSet(env))
        BY <2>4, <2>9 DEF Keys
      <3>3. QED
        BY <2>4, <3>1, <3>2 DEF AsSet
    <2>22. QED
      BY <2>16, <2>19, <2>20, <2>21 DEF ChildSees
  <1>2. QED
    BY <1>1, GivenInductive, PTL
=============================================================================
