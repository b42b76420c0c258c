------------------------------- MODULE UList -------------------------------
(***************************************************************************)
(* The list of autark (ulist.c): elements of equal size in an array that   *)
(* has room at both ends and is grown and shrunk on the way.  Slots are    *)
(* numbered from 0, as in C; a slot nobody has written holds Garbage.      *)
(*                                                                         *)
(* What a write puts outside of the array is lost, and a read from there   *)
(* gives Garbage.                                                          *)
(***************************************************************************)
EXTENDS Naturals, Sequences, FiniteSetsExt, SequencesExt

CONSTANTS
  Data,       \* elements
  AllocUnit,  \* _ALLOC_UNIT, 32 in the code
  Lengths,    \* initial lengths; 0 for a list that was only zeroed
  MaxLength,  \* bound: a list of this length does not grow,
  MaxSlots,   \* nor one with more slots than this
  Garbage     \* content of a slot that was not written

\* What the code guarantees for the constants.
Assumption == AllocUnit \in Nat /\ Lengths \subseteq Nat

VARIABLES
  array,      \* the slots: anum is their number
  start,      \* slot of the first element
  num,        \* number of elements
  call        \* history: the last call, where and with what, and the list before

vars == <<array, start, num, call>>

Anum(a)  == Cardinality(DOMAIN a)
Fresh(n) == [i \in 0 .. n - 1 |-> Garbage]

At(a, i) == IF i \in DOMAIN a THEN a[i] ELSE Garbage

\* The list its users see, through ulist_get.
List == [i \in 1 .. num |-> At(array, start + i - 1)]

\* xrealloc; memmove of n slots from one place to another; memcpy of an element.
Realloc(a, n)        == [i \in 0 .. n - 1 |-> At(a, i)]
Move(a, to, from, n) == [i \in DOMAIN a |-> IF i \in to .. to + n - 1 THEN At(a, from + i - to) ELSE a[i]]
Store(a, i, x)       == [k \in DOMAIN a |-> IF k = i THEN x ELSE a[k]]

Grown(a) == Realloc(a, Anum(a) + num + 1)

\* Mutant: the elements stay where they are in the smaller array.
Shrunk_InPlace(a, s, n) ==
  IF Anum(a) > AllocUnit /\ Anum(a) >= 2 * n
  THEN [array |-> Realloc(a, Max({n, AllocUnit})), start |-> 0]
  ELSE [array |-> a, start |-> s]

\* The end of remove, pop and shift, with n elements left from slot s on: an
\* array that is twice too large is moved to its front and cut.
Shrunk(a, s, n) ==
  IF Anum(a) > AllocUnit /\ Anum(a) >= 2 * n
  THEN [array |-> Realloc(Move(a, 0, s, n), Max({n, AllocUnit})), start |-> 0]
  ELSE [array |-> a, start |-> s]

-----------------------------------------------------------------------------
\* ulist_init; a zeroed list has no array yet.
Init ==
  /\ \E n \in Lengths : array = Fresh(n)
  /\ start = 0 /\ num = 0
  /\ call = [is |-> "clear", at |-> 0, x |-> Garbage, before |-> <<>>]

Called(is, at, x) == call' = [is |-> is, at |-> at, x |-> x, before |-> List]
Room == num < MaxLength /\ Anum(array) <= MaxSlots

Insert(i, x) ==
  /\ Room /\ i <= num
  /\ LET a == IF start + num >= Anum(array) THEN Grown(array) ELSE array
         j == i + start
     IN array' = Store(Move(a, j + 1, j, start + num - j), j, x)
  /\ num' = num + 1 /\ UNCHANGED start
  /\ Called("put", i, x)

Push(x) ==
  /\ Room
  /\ LET a == IF start + num >= Anum(array) THEN Grown(array) ELSE array
     IN array' = Store(a, start + num, x)
  /\ num' = num + 1 /\ UNCHANGED start
  /\ Called("put", num, x)

\* Put before the first: the elements move to the end of the array if there is
\* no slot before them.
Unshift(x) ==
  /\ Room
  /\ LET a == IF num >= Anum(array) THEN Grown(array) ELSE array
         s == Anum(a) - num
     IN IF start = 0
        THEN array' = Store(Move(a, s, 0, num), s - 1, x) /\ start' = s - 1
        ELSE array' = Store(array, start - 1, x) /\ start' = start - 1
  /\ num' = num + 1
  /\ Called("put", 0, x)

SetAt(i, x) ==
  /\ i < num
  /\ array' = Store(array, start + i, x)
  /\ UNCHANGED <<start, num>>
  /\ Called("set", i, x)

RemoveNth(i) ==
  /\ i < num
  /\ LET j == start + i
         r == Shrunk(Move(array, j, j + 1, start + num - 1 - j), start, num - 1)
     IN array' = r.array /\ start' = r.start
  /\ num' = num - 1
  /\ Called("drop", i, Garbage)

Pop ==
  /\ num > 0
  /\ LET r == Shrunk(array, start, num - 1) IN array' = r.array /\ start' = r.start
  /\ num' = num - 1
  /\ Called("drop", num - 1, Garbage)

PopNoRealloc ==
  /\ num > 0
  /\ num' = num - 1 /\ UNCHANGED <<array, start>>
  /\ Called("drop", num - 1, Garbage)

Shift ==
  /\ num > 0
  /\ LET r == Shrunk(array, start + 1, num - 1) IN array' = r.array /\ start' = r.start
  /\ num' = num - 1
  /\ Called("drop", 0, Garbage)

\* ulist_clear gives the array back, ulist_reset keeps it.
Clear ==
  /\ array' = Fresh(AllocUnit) /\ start' = 0 /\ num' = 0
  /\ Called("clear", 0, Garbage)

Reset ==
  /\ start' = 0 /\ num' = 0 /\ UNCHANGED array
  /\ Called("clear", 0, Garbage)

\* ulist_clone: the copy takes the place of the list here.
Clone ==
  /\ array' = IF num = 0
              THEN Fresh(IF DOMAIN array = {} THEN AllocUnit ELSE Anum(array))
              ELSE [i \in 0 .. Max({num, AllocUnit}) - 1 |->
                      IF i < num THEN At(array, start + i) ELSE Garbage]
  /\ start' = 0 /\ UNCHANGED num
  /\ Called("clone", 0, Garbage)

\* ulist_find: the index of an element, or -1 (here: none).
Find(x) == LET S == {i \in 0 .. num - 1 : At(array, start + i) = x} IN IF S = {} THEN {} ELSE {Min(S)}

RemoveBy(x) == \E i \in Find(x) : RemoveNth(i)

Next == \/ \E x \in Data : \/ Push(x) \/ Unshift(x) \/ RemoveBy(x)
                           \/ \E i \in 0 .. num : Insert(i, x) \/ SetAt(i, x)
        \/ \E i \in 0 .. num : RemoveNth(i)
        \/ Pop \/ PopNoRealloc \/ Shift \/ Clear \/ Reset \/ Clone

Spec == Init /\ [][Next]_vars

-----------------------------------------------------------------------------
\* After every call the list is what the call makes of the list before it, with
\* no element lost, moved over another or left outside of the array, whatever
\* growing, shrinking and moves to either end have done to the array; a copy and
\* its original are the same list (ulist.c:103 and 157).
AsCalled ==
  /\ start + num <= Anum(array)
  /\ List = CASE call.is = "put"   -> InsertAt(call.before, call.at + 1, call.x)
              [] call.is = "set"   -> [call.before EXCEPT ![call.at + 1] = call.x]
              [] call.is = "drop"  -> RemoveAt(call.before, call.at + 1)
              [] call.is = "clear" -> <<>>
              [] OTHER             -> call.before
=============================================================================
