----------------------------- MODULE Variables -----------------------------
(***************************************************************************)
(* The variables of a build script: set, let and env (node_set.c), ${} and *)
(* ^{} (node_subst.c, node_join.c), and the tables of the root script and  *)
(* of a script it includes (autark_core.c).  The three passes of           *)
(* script_build visit the statements in order, and a value is evaluated    *)
(* when something asks for it, through the values of other variables and   *)
(* the earlier definitions of its own.                                     *)
(*                                                                         *)
(* A value is a sequence of words.  A statement is a record: what it is    *)
(* ("set", "let", "env" or "read"), the script it stands in (1: root, 2:   *)
(* included), the script whose table it means, its key, and its parts; a   *)
(* part is a word, a reference ${name dflt}, or a reference inside of ^{}. *)
(* A "read" is any rule that asks for ${key dflt}, in the given passes.    *)
(***************************************************************************)
EXTENDS Naturals, Sequences, FiniteSetsExt

CONSTANTS
  Keys,      \* names of variables
  Scripts,   \* set of sequences of statements
  Givens,    \* values given on the command line with -D: functions from Keys
             \* to sets of at most one value
  Environs   \* and those of the environment of the process, likewise

VARIABLES
  script,    \* the statements
  given,     \* see above
  environ,   \* the environment of the process
  table,     \* by script and key: {} or {item}, the definition or raw value
  nodes,     \* by statement: its cached value, what it was defined over, and
             \* whether it has been set up
  pass, pos, \* the pass, and the statement it comes to next
  seen,      \* history: the values that were asked for
  born,      \* history: when every definition got the value it keeps
  early      \* history: definitions by let that a request has set up before the
             \* setup pass came to them

vars == <<script, given, environ, table, nodes, pass, pos, seen, born, early>>

Stmts   == 1 .. Len(script)
Units   == {1, 2}
Passes  == <<"init", "setup", "build", "end">>
Here(i) == IF script[i].unit = 2 THEN <<2, 1>> ELSE <<1>>

Unset   == [is |-> "none", val |-> <<>>]
Busy    == [is |-> "busy", val |-> <<>>]
Done(v) == [is |-> "done", val |-> v]

\* The stack of a process is deep enough for every definition to be entered
\* twice; a recursion beyond that does not come back.
Deep == 4 * Len(script)

-----------------------------------------------------------------------------
\* What a request reads and changes, and what comes of it: that state
\* afterwards, {} or {value}, and whether it came back.
World      == [nodes |-> nodes, table |-> table, environ |-> environ]
Got(w, v)  == [w |-> w, val |-> v, ok |-> TRUE]
Lost(w)    == [w |-> w, val |-> {}, ok |-> FALSE]

\* The definition i with node n takes the place of item, and remembers that for its
\* own references to it.
\* Mutant: a value given with -D is lost when a definition takes its place.
Over_NoRaw(n, i, item) ==
  IF item.n \notin {0, i} THEN [n EXCEPT !.next = item.n] ELSE n

Over(n, i, item) ==
  CASE item.n \notin {0, i} -> [n EXCEPT !.next = item.n]
    [] item.raw # {} /\ n.raw = {} -> [n EXCEPT !.raw = item.raw]
    [] OTHER -> n

Register(w, i) ==
  LET x == <<script[i].table, script[i].key>> IN
    [w EXCEPT !.nodes[i] = IF w.table[x] = {} THEN @ ELSE Over(@, i, CHOOSE it \in w.table[x] : TRUE),
              !.table[x] = {[n |-> i, raw |-> {}]}]

\* A definition i that r has evaluated: kept, unless the recursion did not come back.
Keep(r, i) ==
  IF ~r.ok THEN r
  ELSE Got([r.w EXCEPT !.nodes[i].active = FALSE,
                       !.nodes[i].impl = Done(CHOOSE v \in r.val : TRUE)], r.val)

\* ... by env: its value is one of the environment of the process, too.
Export(r, i) ==
  [r EXCEPT !.w.environ[script[i].key] = IF r.val = {} THEN @ ELSE r.val]

RECURSIVE SetValue(_, _, _), NodeSetup(_, _, _), Reference(_, _, _, _), Parts(_, _, _, _)

\* The value of the definition i.
SetValue(w, i, d) ==
  LET n   == w.nodes[i]
      old == IF script[i].is = "let" THEN Unset ELSE n.impl
      out == [w EXCEPT !.nodes[i].active = FALSE]
      in  == [w EXCEPT !.nodes[i].active = TRUE, !.nodes[i].impl = Busy]
  IN CASE d = 0 -> Lost(w)
       [] d # 0 /\ n.active /\ n.next # 0 -> SetValue(w, n.next, d - 1)
       [] d # 0 /\ n.active /\ n.next = 0 /\ n.raw # {} -> Got(w, n.raw)
       [] OTHER -> CASE old.is = "busy" -> Got(out, {})
                     [] old.is = "done" -> Got(out, {old.val})
                     [] OTHER -> Keep(Parts(in, i, 1, d), i)

\* The definition i is set up, once: let is registered again, env evaluates its
\* value for the environment of the process.  The value is that of env.
NodeSetup(w, i, d) ==
  LET in == [w EXCEPT !.nodes[i].setup = TRUE]
  IN CASE w.nodes[i].setup -> Got(w, {})
       [] ~w.nodes[i].setup /\ script[i].is = "set" -> Got(in, {})
       [] ~w.nodes[i].setup /\ script[i].is = "let" -> Got(Register(in, i), {})
       [] OTHER -> Export(SetValue(in, i, d), i)

\* The value of ${name dflt}: of the scripts us, from the inside out, the first
\* whose table has a value, then the environment, then the default.  Asking a
\* definition that was not set up sets it up (node_value).
Reference(w, us, p, d) ==
  IF us = <<>>
  THEN Got(w, IF w.environ[p.name] = {} THEN {p.dflt} ELSE w.environ[p.name])
  ELSE LET Ask(s, i) == IF s.ok THEN SetValue(s.w, i, d) ELSE s
           Of(it)    == IF it.raw # {} THEN Got(w, it.raw) ELSE Ask(NodeSetup(w, it.n, d), it.n)
           Or(r)     == IF r.ok /\ r.val = {} THEN Reference(r.w, Tail(us), p, d) ELSE r
           item      == w.table[Head(us), p.name]
       IN Or(IF item = {} THEN Got(w, {}) ELSE Of(CHOOSE it \in item : TRUE))

\* The parts of the definition i from the k-th on; ^{} keeps its first value.
Parts(w, i, k, d) ==
  IF k > Len(script[i].parts) THEN Got(w, {<<>>})
  ELSE LET p == script[i].parts[k]
           Kept(r) == IF p.is = "join" THEN [r.w EXCEPT !.nodes[i].joined = r.val] ELSE r.w
           Cat(r, rest) == IF ~rest.ok THEN rest
                           ELSE Got(rest.w, {v \o u : v \in r.val, u \in rest.val})
           Then(r) == IF r.ok THEN Cat(r, Parts(Kept(r), i, k + 1, d)) ELSE r
       IN Then(CASE d = 0 -> Lost(w)
                 [] d # 0 /\ p.is = "word" -> Got(w, {<<p.name>>})
                 [] d # 0 /\ p.is = "join" /\ w.nodes[i].joined # {} -> Got(w, w.nodes[i].joined)
                 [] OTHER -> Reference(w, Here(i), p, d - 1))

-----------------------------------------------------------------------------
Init ==
  /\ script \in Scripts /\ given \in Givens /\ environ \in Environs
  /\ table = [x \in Units \X Keys |->
       IF x[1] = 1 /\ given[x[2]] # {} THEN {[n |-> 0, raw |-> given[x[2]]]} ELSE {}]
  /\ nodes = [i \in Stmts |-> [impl |-> Unset, active |-> FALSE, setup |-> FALSE,
                               next |-> 0, raw |-> {}, joined |-> {}]]
  /\ pass = 1 /\ pos = 1
  /\ seen = <<>>
  /\ born = [i \in Stmts |-> {}]
  /\ early = {}

Step(i) == pos = i /\ pass < 4 /\ i <= Len(script)
Advance ==
  /\ pos' = IF pos = Len(script) THEN 1 ELSE pos + 1
  /\ pass' = IF pos = Len(script) THEN pass + 1 ELSE pass
  /\ UNCHANGED <<script, given>>

\* What a step makes of the world, with what it has asked for.
Now == [pass |-> pass, pos |-> pos, environ |-> environ]
Becomes(w, asked) ==
  /\ nodes' = w.nodes /\ table' = w.table /\ environ' = w.environ
  /\ seen' = seen \o asked
  /\ born' = [i \in Stmts |-> IF born[i] = {} /\ w.nodes[i].impl.is = "done" THEN {Now} ELSE born[i]]
  /\ early' = early \cup {i \in Stmts : script[i].is = "let" /\ w.nodes[i].setup
                                         /\ ~nodes[i].setup /\ ~(pass = 2 /\ pos = i)}
Request(key, def, r) == <<[at |-> Now, key |-> key, def |-> def, val |-> r.val, ok |-> r.ok]>>

\* All definitions are registered by the first pass, those of let again by every
\* other one.
Define(i) ==
  /\ Step(i) /\ script[i].is # "read"
  /\ pass = 1 \/ (pass = 3 /\ script[i].is = "let")
  /\ Becomes(Register(World, i), <<>>)
  /\ Advance

Setup(i) ==
  /\ Step(i) /\ pass = 2 /\ script[i].is # "read"
  /\ LET r == NodeSetup(World, i, Deep)
         evaluates == script[i].is = "env" /\ ~nodes[i].setup
     IN Becomes(r.w, IF evaluates THEN Request(script[i].key, i, r) ELSE <<>>)
  /\ Advance

Read(i) ==
  /\ Step(i) /\ script[i].is = "read" /\ Passes[pass] \in script[i].passes
  /\ LET r == Reference(World, Here(i), [name |-> script[i].key, dflt |-> <<"">>], Deep) IN
       Becomes(r.w, Request(script[i].key, 0, r))
  /\ Advance

Pass(i) ==
  /\ Step(i)
  /\ \/ script[i].is = "read" /\ Passes[pass] \notin script[i].passes
     \/ script[i].is \in {"set", "env"} /\ pass = 3
  /\ Advance
  /\ UNCHANGED <<table, nodes, environ, seen, born, early>>

Next == \E i \in Stmts : Define(i) \/ Setup(i) \/ Read(i) \/ Pass(i)
Spec == Init /\ [][Next]_vars

-----------------------------------------------------------------------------
\* What a value should be, without tables, caches and flags: the statements that
\* define a key for a script, the one in force at a time, and the value of a
\* definition in which those in A are being evaluated.
Defs(u, k) == {j \in Stmts : script[j].is # "read" /\ script[j].table = u /\ script[j].key = k}

InForce(u, k, t) ==
  LET lets  == {j \in Defs(u, k) : script[j].is = "let"}
      above == {j \in lets : j < t.pos}
      known == IF t.pass = 1 THEN {j \in Defs(u, k) : j < t.pos} ELSE Defs(u, k)
      last  == IF t.pass > 1 /\ above # {} THEN above
               ELSE IF t.pass = 3 /\ lets # {} THEN lets ELSE known
  IN IF last = {} THEN 0 ELSE Max(last)

RECURSIVE Meaning(_, _, _, _), MeaningOf(_, _, _)
\* ... of a reference from the scripts us ...
Meaning(us, p, A, t) ==
  IF us = <<>>
  THEN IF t.environ[p.name] = {} THEN p.dflt ELSE CHOOSE v \in t.environ[p.name] : TRUE
  ELSE LET u == Head(us)
           b == InForce(u, p.name, t)
           C == {j \in Defs(u, p.name) \cup {b} : j <= b} \ (A \cup {0})
       IN CASE C # {} -> MeaningOf(Max(C), A, t)
            [] C = {} /\ u = 1 /\ given[p.name] # {} -> CHOOSE v \in given[p.name] : TRUE
            [] OTHER -> Meaning(Tail(us), p, A, t)

\* ... and of the definition i, which other than let keeps its first value.
MeaningOf(i, A, t) ==
  LET when == IF script[i].is = "let" \/ born[i] = {} THEN t ELSE CHOOSE b \in born[i] : TRUE
      Of(p) == IF p.is = "word" THEN <<p.name>> ELSE Meaning(Here(i), p, A \cup {i}, when)
      Cat[k \in 0 .. Len(script[i].parts)] ==
        IF k = 0 THEN <<>> ELSE Cat[k - 1] \o Of(script[i].parts[k])
  IN Cat[Len(script[i].parts)]

Expected(r) ==
  IF r.def # 0 THEN MeaningOf(r.def, {}, r.at)
  ELSE Meaning(Here(r.at.pos), [name |-> r.key, dflt |-> <<"">>], {}, r.at)

\* Whoever asks for a variable gets what the script says: the last definition
\* of the nearest script that has one (for let, the last one before it), made of
\* the definitions before it where it refers to itself, although values are
\* evaluated late, kept, and found by way of a flag and a link that every
\* return and every pass change again (node_set.c:91, script.c:961).
AsWritten == \A n \in DOMAIN seen : seen[n].ok /\ seen[n].val = {Expected(seen[n])}

\* ... as long as no request has set up, before its place, a let of a variable that
\* has other definitions: the setup pass does not register that one again
\* (script.c:599), and the definition in force is no longer the one before the request.
AsWrittenInOrder == (\A i \in early : Defs(script[i].table, script[i].key) = {i}) => AsWritten
=============================================================================
