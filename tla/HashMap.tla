------------------------------ MODULE HashMap ------------------------------
(***************************************************************************)
(* The string map of autark (map.c): one table of a power of two slots,    *)
(* linear probing, removal by moving the rest of the probe cluster back,   *)
(* growing, shrinking, and an iterator whose user may remove the entry it  *)
(* has just received.                                                      *)
(***************************************************************************)
EXTENDS Naturals, FiniteSets

CONSTANTS
  Keys, Vals,
  Hash,      \* hash of every key
  Width,     \* bits of a hash: 32 in the code
  Initial,   \* INITIAL_CAPACITY, a power of two
  Maximal,   \* MAX_CAPACITY
  None       \* the null pointer

\* Every capacity is the initial one doubled some times.
Doubled[n \in 0 .. Width] == IF n = 0 THEN Initial ELSE 2 * Doubled[n - 1]

\* What the code guarantees for the constants.
Assumption == /\ Width \in Nat /\ 2 ^ Width \in Nat /\ 2 ^ Width > 1
              /\ Hash \in [Keys -> 0 .. 2 ^ Width - 1]
              /\ None \notin Keys
              /\ Initial \in Nat /\ Initial >= 4
              /\ \E n \in 0 .. Width : Maximal = Doubled[n]

VARIABLES
  entries,   \* the table: an entry for every slot
  iter,      \* the iterator: slot it points to and entry it returned, if any
  seen,      \* entries returned by the iteration
  begun      \* entries of the map when the iteration began

vars == <<entries, iter, seen, begun>>

Empty == [hash |-> 0, key |-> None, val |-> None]
Slots(e) == DOMAIN e
Capacity(e) == Cardinality(Slots(e))
Used(e) == {i \in Slots(e) : e[i].hash # 0}
Count(e) == Cardinality(Used(e))

\* _map_nhash: 0 marks an empty slot.
NHash(k) == LET h == (Hash[k] + 1) % 2 ^ Width IN IF h # 0 THEN h ELSE 1

\* Mutant: the table may become full.
MaxLoad_Full(c) == c

MaxLoad(c) == c - c \div 4

-----------------------------------------------------------------------------
\* Slots from i on to j, round a table of c slots.
Ahead(c, i, j) == (j + c - i) % c

\* The first empty slot from slot i on, round the table.
Free(e, i) ==
  LET Slot(d) == (i + d) % Capacity(e)
  IN Slot(CHOOSE d \in 0 .. Capacity(e) - 1 :
       /\ e[Slot(d)].hash = 0
       /\ \A n \in 0 .. d - 1 : e[Slot(n)].hash # 0)

\* Mutant: keys are taken for equal if their hashes are.
Holds_HashOnly(e, i, k) == e[i].hash = NHash(k)

Holds(e, i, k) == e[i].hash = NHash(k) /\ e[i].key = k

\* The slot at which the search for a key ends: the one that holds it, or an
\* empty one.
Find(e, k) ==
  LET Slot(d) == (NHash(k) + d) % Capacity(e)
  IN Slot(CHOOSE d \in 0 .. Capacity(e) - 1 :
       /\ e[Slot(d)].hash = 0 \/ Holds(e, Slot(d), k)
       /\ \A n \in 0 .. d - 1 : e[Slot(n)].hash # 0 /\ ~Holds(e, Slot(n), k))

Get(e, k) == IF e[Find(e, k)].hash = 0 THEN {} ELSE {e[Find(e, k)].val}

\* _map_resize: every entry, in the order of the old table, to a new place.
Place(e, x) == [e EXCEPT ![Free(e, x.hash)] = x]

NewTable(c) == [i \in 0 .. c - 1 |-> Empty]

Resize(e, c) ==
  LET f[n \in 0 .. Capacity(e)] ==
        IF n = 0 THEN NewTable(c)
        ELSE IF e[n - 1].hash = 0 THEN f[n - 1] ELSE Place(f[n - 1], e[n - 1])
  IN f[Capacity(e)]

\* _map_reserve_entry, before every put.
Reserve(e) ==
  IF Count(e) + 1 <= MaxLoad(Capacity(e)) THEN e ELSE Resize(e, 2 * Capacity(e))

\* _map_entry_remove: the entries behind the hole, up to the next empty slot,
\* move back into it if it lies on their probe path.
Shift(s, i) ==
  LET c    == Capacity(s.table)
      home == s.table[i].hash % c
  IN IF Ahead(c, home, s.hole) <= Ahead(c, home, i)
     THEN [table |-> [s.table EXCEPT ![s.hole] = s.table[i]], hole |-> i]
     ELSE s

Close(e, hole) ==
  LET c   == Capacity(e)
      run == Ahead(c, hole, Free(e, hole)) - 1
      f[d \in 0 .. run] ==
        IF d = 0 THEN [table |-> e, hole |-> hole] ELSE Shift(f[d - 1], (hole + d) % c)
      end == f[run]
  IN [end.table EXCEPT ![end.hole] = Empty]

\* The table is halved when it has become too empty.
Shrunk(e) ==
  IF Capacity(e) > Initial /\ Count(e) < Capacity(e) \div 8
  THEN Resize(e, Capacity(e) \div 2) ELSE e

Removed(e, k) == Shrunk(Close(e, Find(e, k)))

-----------------------------------------------------------------------------
NoIter == [entry |-> None, key |-> None]

Init ==
  /\ entries = NewTable(Initial)
  /\ iter = NoIter /\ seen = {} /\ begun = {}

Put(k, v) ==
  /\ iter = NoIter
  /\ LET e == Reserve(entries) IN
       entries' = [e EXCEPT ![Find(e, k)] = [hash |-> NHash(k), key |-> k, val |-> v]]
  /\ Count(entries) + 1 <= MaxLoad(Maximal)
  /\ UNCHANGED <<iter, seen, begun>>

Remove(k) ==
  /\ iter = NoIter
  /\ Get(entries, k) # {}
  /\ entries' = Removed(entries, k)
  /\ UNCHANGED <<iter, seen, begun>>

-----------------------------------------------------------------------------
Stored(e) == {e[i].key : i \in Used(e)}

\* map_iter_init and the first map_iter_next.
Later(i) == {j \in Used(entries) : j >= i}
Least(S) == CHOOSE i \in S : \A j \in S : i <= j

Return(i) == /\ iter' = [entry |-> i, key |-> entries[i].key]
             /\ seen' = seen \cup {entries[i].key}

IterBegin ==
  /\ iter = NoIter /\ Used(entries) # {}
  /\ Return(Least(Later(0)))
  /\ begun' = Stored(entries)
  /\ UNCHANGED entries

\* Another entry has taken the place of the one returned last.
Replaced == /\ iter.entry \in Used(entries)
            /\ entries[iter.entry].key # iter.key

\* Mutant: the iterator always goes on to the next slot.
IterNext_Skip ==
  /\ iter # NoIter /\ Later(iter.entry + 1) # {}
  /\ Return(Least(Later(iter.entry + 1)))
  /\ UNCHANGED <<entries, begun>>

IterNext ==
  /\ iter # NoIter
  /\ IF Replaced
     THEN Return(iter.entry)
     ELSE Later(iter.entry + 1) # {} /\ Return(Least(Later(iter.entry + 1)))
  /\ UNCHANGED <<entries, begun>>

IterEnd ==
  /\ iter # NoIter
  /\ ~Replaced /\ Later(iter.entry + 1) = {}
  /\ iter' = NoIter
  /\ seen' = {} /\ begun' = {}
  /\ UNCHANGED entries

\* The user of the iterator removes the entry it has just received.
RemoveCurrent ==
  /\ iter # NoIter
  /\ Get(entries, iter.key) # {}
  /\ entries' = Removed(entries, iter.key)
  /\ UNCHANGED <<iter, seen, begun>>

Next == \/ \E k \in Keys : Remove(k) \/ \E v \in Vals : Put(k, v)
        \/ IterBegin \/ IterNext \/ IterEnd \/ RemoveCurrent

Spec == Init /\ [][Next]_vars

-----------------------------------------------------------------------------
Entry == [hash : 1 .. 2 ^ Width - 1, key : Keys, val : Vals] \cup {Empty}

\* The type invariant: the table is never full, so every search ends.
TypeOK ==
  /\ \E n \in 1 .. Maximal : entries \in [0 .. n - 1 -> Entry]
  /\ Initial <= Capacity(entries) /\ Capacity(entries) <= Maximal
  /\ Count(entries) < Capacity(entries)
  /\ seen \subseteq Keys /\ begun \subseteq Keys

\* Every entry is found from its key, wherever growing, shrinking and the
\* moves of a removal have put it.
Reachable == \A i \in Used(entries) : Find(entries, entries[i].key) = i

\* What get, put and remove rely on (map.c:92).
MapSound == TypeOK /\ Reachable

\* An iteration whose user removes entries it has just received returns every
\* entry of the map.
NothingSkipped == [][IterEnd => seen = begun]_vars

\* The table is a map from keys to values.
Abstract == INSTANCE KeyMap WITH map <- [k \in Keys |-> Get(entries, k)]
IsMap == Abstract!Spec
=============================================================================
