---------------------------- MODULE UList_proofs ----------------------------
(***************************************************************************)
(* The list is what the calls make of it, for every length, allocation     *)
(* unit and order of calls.                                                *)
(***************************************************************************)
EXTENDS UList, SequenceTheorems, FiniteSetTheorems, WellFoundedInduction, TLAPS

-----------------------------------------------------------------------------
Slot == Data \cup {Garbage}

(***************************************************************************)
(* Sequences: an element put in, and one taken out.                        *)
(***************************************************************************)

LEMMA InsertAtPoints ==
  ASSUME NEW s \in Seq(Slot), NEW i \in 1 .. Len(s) + 1, NEW e \in Slot
  PROVE  /\ InsertAt(s, i, e) \in Seq(Slot)
         /\ Len(InsertAt(s, i, e)) = Len(s) + 1
         /\ \A k \in 1 .. Len(s) + 1 :
              InsertAt(s, i, e)[k] = IF k < i THEN s[k] ELSE IF k = i THEN e ELSE s[k - 1]
<1> DEFINE a == SubSeq(s, 1, i - 1)
           b == SubSeq(s, i, Len(s))
           l == a \o <<e>>
<1>1. /\ a \in Seq(Slot) /\ Len(a) = i - 1
      /\ \A k \in 1 .. i - 1 : a[k] = s[k]
  <2>1. \A k \in 1 .. i - 1 : s[k] \in Slot
    BY ElementOfSeq
  <2> QED BY <2>1, SubSeqProperties
<1>2. /\ b \in Seq(Slot) /\ Len(b) = Len(s) - i + 1
      /\ \A k \in 1 .. Len(s) - i + 1 : b[k] = s[i + k - 1]
  <2>1. \A k \in i .. Len(s) : s[k] \in Slot
    BY ElementOfSeq
  <2> QED BY <2>1, SubSeqProperties
<1> HIDE DEF a, b
<1>3. <<e>> \in Seq(Slot) /\ Len(<<e>>) = 1 /\ <<e>>[1] = e
  OBVIOUS
<1>4. /\ l \in Seq(Slot) /\ Len(l) = i
      /\ \A k \in 1 .. i : l[k] = IF k < i THEN s[k] ELSE e
  BY <1>1, <1>3, ConcatProperties
<1> HIDE DEF l
<1>5. /\ l \o b \in Seq(Slot) /\ Len(l \o b) = Len(s) + 1
      /\ \A k \in 1 .. Len(s) + 1 : (l \o b)[k] = IF k <= i THEN l[k] ELSE b[k - i]
  <2>1. /\ l \o b \in Seq(Slot) /\ Len(l \o b) = Len(l) + Len(b)
        /\ \A k \in 1 .. Len(l) + Len(b) : (l \o b)[k] = IF k <= Len(l) THEN l[k] ELSE b[k - Len(l)]
    BY <1>2, <1>4, ConcatProperties
  <2>2. Len(l) = i /\ Len(l) + Len(b) = Len(s) + 1
    BY <1>2, <1>4
  <2> QED BY <2>1, <2>2
<1>6. \A k \in 1 .. Len(s) + 1 :
        (l \o b)[k] = IF k < i THEN s[k] ELSE IF k = i THEN e ELSE s[k - 1]
  BY <1>2, <1>4, <1>5
<1>7. InsertAt(s, i, e) = l \o b
  BY DEF InsertAt, l, a, b
<1> QED BY <1>5, <1>6, <1>7

LEMMA RemoveAtPoints ==
  ASSUME NEW s \in Seq(Slot), NEW i \in 1 .. Len(s)
  PROVE  /\ RemoveAt(s, i) \in Seq(Slot)
         /\ Len(RemoveAt(s, i)) = Len(s) - 1
         /\ \A k \in 1 .. Len(s) - 1 : RemoveAt(s, i)[k] = IF k < i THEN s[k] ELSE s[k + 1]
<1> DEFINE a == SubSeq(s, 1, i - 1)
           b == SubSeq(s, i + 1, Len(s))
<1>1. /\ a \in Seq(Slot) /\ Len(a) = i - 1
      /\ \A k \in 1 .. i - 1 : a[k] = s[k]
  <2>1. \A k \in 1 .. i - 1 : s[k] \in Slot
    BY ElementOfSeq
  <2> QED BY <2>1, SubSeqProperties
<1>2. /\ b \in Seq(Slot) /\ Len(b) = Len(s) - i
      /\ \A k \in 1 .. Len(s) - i : b[k] = s[i + k]
  <2>1. \A k \in i + 1 .. Len(s) : s[k] \in Slot
    BY ElementOfSeq
  <2> QED BY <2>1, SubSeqProperties
<1> HIDE DEF a, b
<1>3. /\ a \o b \in Seq(Slot) /\ Len(a \o b) = Len(s) - 1
      /\ \A k \in 1 .. Len(s) - 1 : (a \o b)[k] = IF k <= i - 1 THEN a[k] ELSE b[k - (i - 1)]
  <2>1. /\ a \o b \in Seq(Slot) /\ Len(a \o b) = Len(a) + Len(b)
        /\ \A k \in 1 .. Len(a) + Len(b) : (a \o b)[k] = IF k <= Len(a) THEN a[k] ELSE b[k - Len(a)]
    BY <1>1, <1>2, ConcatProperties
  <2>2. Len(a) = i - 1 /\ Len(a) + Len(b) = Len(s) - 1
    BY <1>1, <1>2
  <2> QED BY <2>1, <2>2
<1>4. \A k \in 1 .. Len(s) - 1 : (a \o b)[k] = IF k < i THEN s[k] ELSE s[k + 1]
  BY <1>1, <1>2, <1>3
<1>5. RemoveAt(s, i) = a \o b
  BY DEF RemoveAt, a, b
<1> QED BY <1>3, <1>4, <1>5

-----------------------------------------------------------------------------
(***************************************************************************)
(* Arrays.                                                                 *)
(***************************************************************************)

Arrays(n) == [0 .. n - 1 -> Slot]

LEMMA Slots ==
  ASSUME NEW n \in Nat, NEW a \in Arrays(n)
  PROVE  /\ Anum(a) = n /\ DOMAIN a = 0 .. n - 1
         /\ \A i : At(a, i) \in Slot
         /\ \A i \in 0 .. n - 1 : At(a, i) = a[i]
<1>1. DOMAIN a = 0 .. n - 1
  BY DEF Arrays
<1>2. Cardinality(0 .. n - 1) = n
  BY FS_Interval
<1> QED BY <1>1, <1>2 DEF Anum, At, Arrays, Slot

LEMMA FreshArray ==
  ASSUME NEW n \in Nat
  PROVE  Fresh(n) \in Arrays(n)
BY DEF Fresh, Arrays, Slot

LEMMA ReallocArray ==
  ASSUME NEW n \in Nat, NEW a \in Arrays(n), NEW m \in Nat
  PROVE  Realloc(a, m) \in Arrays(m) /\ \A i \in 0 .. m - 1 : Realloc(a, m)[i] = At(a, i)
<1>1. \A i : At(a, i) \in Slot
  BY Slots
<1> QED BY <1>1 DEF Realloc, Arrays

LEMMA MoveArray ==
  ASSUME NEW n \in Nat, NEW a \in Arrays(n), NEW to \in Nat, NEW from \in Nat, NEW k \in Nat
  PROVE  /\ Move(a, to, from, k) \in Arrays(n)
         /\ \A i \in 0 .. n - 1 :
              Move(a, to, from, k)[i] = IF i \in to .. to + k - 1 THEN At(a, from + i - to) ELSE a[i]
<1>1. /\ \A i : At(a, i) \in Slot
      /\ DOMAIN a = 0 .. n - 1
  BY Slots
<1> QED BY <1>1 DEF Move, Arrays

LEMMA StoreArray ==
  ASSUME NEW n \in Nat, NEW a \in Arrays(n), NEW i, NEW x \in Data
  PROVE  /\ Store(a, i, x) \in Arrays(n)
         /\ \A k \in 0 .. n - 1 : Store(a, i, x)[k] = IF k = i THEN x ELSE a[k]
BY DEF Store, Arrays, Slot

LEMMA MaxPair ==
  ASSUME NEW m \in Nat, NEW n \in Nat
  PROVE  Max({m, n}) \in Nat /\ m <= Max({m, n}) /\ n <= Max({m, n})
<1>1. \E x \in {m, n} : \A y \in {m, n} : x >= y
  OBVIOUS
<1>2. PICK x : x = Max({m, n})
  OBVIOUS
<1>3. x \in {m, n} /\ \A y \in {m, n} : x >= y
  BY <1>1, <1>2 DEF Max
<1> QED BY <1>2, <1>3

LEMMA MinOf ==
  ASSUME NEW S \in SUBSET Nat, S # {}
  PROVE  Min(S) \in S
<1>1. PICK x \in S : \A y \in S : ~ (<<y, x>> \in OpToRel(<, Nat))
  BY NatLessThanWellFounded, WFMin
<1>2. ASSUME NEW y \in S PROVE x =< y
  <2>1. CASE y < x
    <3>1. <<y, x>> \in Nat \X Nat
      OBVIOUS
    <3>2. <<y, x>> \in OpToRel(<, Nat)
      BY <2>1, <3>1, Zenon DEF OpToRel
    <3> QED BY <1>1, <3>2
  <2> QED BY <2>1
<1> QED BY <1>2 DEF Min

\* Shrinking keeps the elements, where they are or at the front.
LEMMA ShrunkArray ==
  ASSUME Assumption, NEW n \in Nat, NEW a \in Arrays(n), NEW s \in Nat, NEW k \in Nat, s + k <= n
  PROVE  LET r == Shrunk(a, s, k) IN
         /\ r.start \in Nat
         /\ \E m \in Nat : r.array \in Arrays(m) /\ r.start + k <= m
         /\ \A i \in 0 .. k - 1 : r.array[r.start + i] = a[s + i]
<1> DEFINE r == Shrunk(a, s, k)
           m == Max({k, AllocUnit})
           b == Move(a, 0, s, k)
<1>1. CASE Anum(a) > AllocUnit /\ Anum(a) >= 2 * k
  <2>1. r.start = 0 /\ r.array = Realloc(b, m)
    BY <1>1 DEF Shrunk
  <2>2. m \in Nat /\ k <= m
    BY MaxPair DEF Assumption
  <2>3. b \in Arrays(n) /\ \A i \in 0 .. k - 1 : b[i] = At(a, s + i)
    BY MoveArray
  <2> HIDE DEF b, m, r
  <2>4. /\ Realloc(b, m) \in Arrays(m)
        /\ \A i \in 0 .. k - 1 : Realloc(b, m)[i] = At(b, i)
    BY <2>2, <2>3, ReallocArray
  <2>5. \A i \in 0 .. k - 1 : At(b, i) = b[i] /\ At(a, s + i) = a[s + i]
    BY <2>3, Slots
  <2>6. \A i \in 0 .. k - 1 : r.array[r.start + i] = a[s + i]
    BY <2>1, <2>3, <2>4, <2>5
  <2> QED BY <2>1, <2>2, <2>4, <2>6 DEF r
<1>2. CASE ~(Anum(a) > AllocUnit /\ Anum(a) >= 2 * k)
  <2>1. r.start = s /\ r.array = a
    BY <1>2 DEF Shrunk
  <2> QED BY <2>1
<1> QED BY <1>1, <1>2

-----------------------------------------------------------------------------
(***************************************************************************)
(* The inductive invariant: the elements lie in the array.                 *)
(***************************************************************************)

ArrayInv ==
  /\ start \in Nat /\ num \in Nat
  /\ \E n \in Nat : array \in Arrays(n) /\ start + num <= n

IInv == ArrayInv /\ AsCalled

LEMMA SlotList ==
  ASSUME NEW m \in Nat, NEW l \in [1 .. m -> Slot]
  PROVE  l \in Seq(Slot) /\ Len(l) = m
OBVIOUS

LEMMA ElementsOf ==
  ASSUME NEW n \in Nat, NEW a \in Arrays(n), NEW s \in Nat, NEW m \in Nat, s + m <= n,
         NEW l \in [1 .. m -> Slot], \A i \in 1 .. m : l[i] = At(a, s + i - 1)
  PROVE  /\ s + m <= Anum(a)
         /\ l \in Seq(Slot) /\ Len(l) = m
         /\ \A i \in 1 .. m : l[i] = a[s + i - 1]
<1>1. Anum(a) = n /\ \A i \in 1 .. m : At(a, s + i - 1) = a[s + i - 1]
  BY Slots
<1>2. l \in Seq(Slot) /\ Len(l) = m
  BY SlotList
<1> QED BY <1>1, <1>2

LEMMA Elements ==
  ASSUME ArrayInv
  PROVE  /\ List \in Seq(Slot) /\ Len(List) = num
         /\ \A i \in 1 .. num : List[i] = array[start + i - 1]
<1>1. PICK n \in Nat : array \in Arrays(n) /\ start + num <= n
  BY DEF ArrayInv
<1>2. start \in Nat /\ num \in Nat
  BY DEF ArrayInv
<1>3. \A i : At(array, i) \in Slot
  BY <1>1, Slots
<1>4. PICK l, a, s, m : l = List /\ a = array /\ s = start /\ m = num
  OBVIOUS
<1>5. /\ a \in Arrays(n) /\ s \in Nat /\ m \in Nat /\ s + m <= n
      /\ l \in [1 .. m -> Slot] /\ \A i \in 1 .. m : l[i] = At(a, s + i - 1)
  BY <1>1, <1>2, <1>3, <1>4 DEF List
<1>6. /\ s + m <= Anum(a)
      /\ l \in Seq(Slot) /\ Len(l) = m
      /\ \A i \in 1 .. m : l[i] = a[s + i - 1]
  BY <1>5, ElementsOf
<1> QED BY <1>4, <1>6

LEMMA NextElements ==
  ASSUME ArrayInv', NEW t, t = List'
  PROVE  /\ start' + num' <= Anum(array')
         /\ t \in Seq(Slot) /\ Len(t) = num'
         /\ \A i \in 1 .. num' : t[i] = array'[start' + i - 1]
<1>1. PICK n \in Nat : array' \in Arrays(n) /\ start' + num' <= n
  BY DEF ArrayInv
<1>2. start' \in Nat /\ num' \in Nat
  BY DEF ArrayInv
<1>3. \A i : At(array', i) \in Slot
  BY <1>1, Slots
<1>4. t \in [1 .. num' -> Slot] /\ \A i \in 1 .. num' : t[i] = At(array', start' + i - 1)
  BY <1>3 DEF List
<1> QED BY <1>1, <1>2, <1>4, ElementsOf

\* Two lists are the same if they are as long, element by element.
LEMMA SameList ==
  ASSUME NEW s \in Seq(Slot), NEW t \in Seq(Slot), Len(s) = Len(t), \A k \in 1 .. Len(s) : s[k] = t[k]
  PROVE  s = t
BY SeqEqual

LEMMA PutStep ==
  ASSUME ArrayInv, ArrayInv', NEW i \in 0 .. num, NEW x \in Data,
         Called("put", i, x), num' = num + 1,
         \A k \in 0 .. num : array'[start' + k] = IF k < i THEN array[start + k]
                                                 ELSE IF k = i THEN x ELSE array[start + k - 1]
  PROVE  AsCalled'
<1>1. /\ List \in Seq(Slot) /\ Len(List) = num
      /\ \A k \in 1 .. num : List[k] = array[start + k - 1]
  BY Elements
<1>2. PICK t : t = List'
  OBVIOUS
<1>3. /\ start' + num' <= Anum(array')
      /\ t \in Seq(Slot) /\ Len(t) = num + 1
      /\ \A k \in 1 .. num + 1 : t[k] = array'[start' + k - 1]
  BY <1>2, NextElements
<1>4. PICK b, l, j : b = InsertAt(List, i + 1, x) /\ l = List /\ j = i + 1
  OBVIOUS
<1>5. /\ b \in Seq(Slot) /\ Len(b) = num + 1
      /\ \A k \in 1 .. num + 1 : b[k] = IF k < j THEN List[k] ELSE IF k = j THEN x ELSE List[k - 1]
  <2>1. l \in Seq(Slot) /\ j \in 1 .. Len(l) + 1 /\ x \in Slot
    BY <1>1, <1>4 DEF ArrayInv, Slot
  <2>2. /\ InsertAt(l, j, x) \in Seq(Slot) /\ Len(InsertAt(l, j, x)) = Len(l) + 1
        /\ \A k \in 1 .. Len(l) + 1 :
             InsertAt(l, j, x)[k] = IF k < j THEN l[k] ELSE IF k = j THEN x ELSE l[k - 1]
    BY ONLY <2>1, InsertAtPoints
  <2> QED BY <1>1, <1>4, <2>1, <2>2
<1>6. ASSUME NEW k \in 1 .. num + 1 PROVE t[k] = b[k]
  <2>1. k - 1 \in 0 .. num /\ start' + k - 1 = start' + (k - 1)
    BY DEF ArrayInv
  <2>2. t[k] = IF k - 1 < i THEN array[start + (k - 1)]
               ELSE IF k - 1 = i THEN x ELSE array[start + (k - 1) - 1]
    BY <1>3, <2>1
  <2>3. CASE k < i + 1
    <3>1. k \in 1 .. num /\ k - 1 < i /\ k < j /\ start + (k - 1) = start + k - 1
      BY <1>4, <2>3 DEF ArrayInv
    <3>2. t[k] = array[start + (k - 1)] /\ b[k] = List[k]
      BY <1>5, <2>2, <3>1
    <3> QED BY <1>1, <3>1, <3>2
  <2>4. CASE k = i + 1
    BY <1>4, <1>5, <2>2, <2>4 DEF ArrayInv
  <2>5. CASE k > i + 1
    <3>1. k - 1 \in 1 .. num /\ ~ (k - 1 < i) /\ k - 1 # i /\ ~ (k < i + 1) /\ k # i + 1
      BY <2>5 DEF ArrayInv
    <3>2. t[k] = array[start + (k - 1) - 1] /\ b[k] = List[k - 1]
      BY <1>4, <1>5, <2>2, <3>1
    <3> QED BY <1>1, <3>1, <3>2
  <2> QED BY <2>3, <2>4, <2>5 DEF ArrayInv
<1>7. t = b
  BY <1>3, <1>5, <1>6, SameList
<1> QED BY <1>2, <1>3, <1>4, <1>7, Zenon DEF AsCalled, Called

LEMMA DropStep ==
  ASSUME ArrayInv, ArrayInv', num > 0, NEW i \in 0 .. num - 1, NEW x,
         Called("drop", i, x), num' = num - 1,
         \A k \in 0 .. num - 2 : array'[start' + k] = IF k < i THEN array[start + k] ELSE array[start + k + 1]
  PROVE  AsCalled'
<1>1. /\ List \in Seq(Slot) /\ Len(List) = num
      /\ \A k \in 1 .. num : List[k] = array[start + k - 1]
  BY Elements
<1>2. PICK t : t = List'
  OBVIOUS
<1>3. /\ start' + num' <= Anum(array')
      /\ t \in Seq(Slot) /\ Len(t) = num - 1
      /\ \A k \in 1 .. num - 1 : t[k] = array'[start' + k - 1]
  BY <1>2, NextElements
<1>4. PICK b, l, j : b = RemoveAt(List, i + 1) /\ l = List /\ j = i + 1
  OBVIOUS
<1>5. /\ b \in Seq(Slot) /\ Len(b) = num - 1
      /\ \A k \in 1 .. num - 1 : b[k] = IF k < j THEN List[k] ELSE List[k + 1]
  <2>1. l \in Seq(Slot) /\ j \in 1 .. Len(l)
    BY <1>1, <1>4 DEF ArrayInv
  <2>2. /\ RemoveAt(l, j) \in Seq(Slot) /\ Len(RemoveAt(l, j)) = Len(l) - 1
        /\ \A k \in 1 .. Len(l) - 1 : RemoveAt(l, j)[k] = IF k < j THEN l[k] ELSE l[k + 1]
    BY ONLY <2>1, RemoveAtPoints
  <2> QED BY <1>1, <1>4, <2>2
<1>6. ASSUME NEW k \in 1 .. num - 1 PROVE t[k] = b[k]
  <2>1. /\ k - 1 \in 0 .. num - 2 /\ start' + k - 1 = start' + (k - 1)
        /\ k \in 1 .. num /\ k + 1 \in 1 .. num
        /\ start + (k - 1) = start + k - 1 /\ start + (k - 1) + 1 = start + (k + 1) - 1
    BY DEF ArrayInv
  <2>2. t[k] = IF k - 1 < i THEN array[start + k - 1] ELSE array[start + (k + 1) - 1]
    BY <1>3, <2>1
  <2>3. List[k] = array[start + k - 1] /\ List[k + 1] = array[start + (k + 1) - 1]
    BY <1>1, <2>1
  <2>4. k - 1 < i <=> k < j
    BY <1>4
  <2> QED BY <1>5, <2>2, <2>3, <2>4
<1>7. t = b
  BY <1>3, <1>5, <1>6, SameList
<1> QED BY <1>2, <1>3, <1>4, <1>7, Zenon DEF AsCalled, Called

LEMMA SetStep ==
  ASSUME ArrayInv, ArrayInv', NEW i \in 0 .. num - 1, NEW x \in Data,
         Called("set", i, x), num' = num,
         \A k \in 0 .. num - 1 : array'[start' + k] = IF k = i THEN x ELSE array[start + k]
  PROVE  AsCalled'
<1>1. /\ List \in Seq(Slot) /\ Len(List) = num
      /\ \A k \in 1 .. num : List[k] = array[start + k - 1]
  BY Elements
<1>2. PICK t : t = List'
  OBVIOUS
<1>3. /\ start' + num' <= Anum(array')
      /\ t \in Seq(Slot) /\ Len(t) = num
      /\ \A k \in 1 .. num : t[k] = array'[start' + k - 1]
  BY <1>2, NextElements
<1>4. PICK b, l, j : b = [List EXCEPT ![i + 1] = x] /\ l = List /\ j = i + 1
  OBVIOUS
<1>5. /\ b \in Seq(Slot) /\ Len(b) = num
      /\ \A k \in 1 .. num : b[k] = IF k = j THEN x ELSE List[k]
  <2>1. l \in Seq(Slot) /\ j \in 1 .. Len(l) /\ x \in Slot /\ b = [l EXCEPT ![j] = x]
    BY <1>1, <1>4 DEF ArrayInv, Slot
  <2>2. b \in Seq(Slot) /\ Len(b) = Len(l) /\ \A k \in 1 .. Len(l) : b[k] = IF k = j THEN x ELSE l[k]
    BY ONLY <2>1, ExceptSeq
  <2> QED BY <1>1, <1>4, <2>2
<1>6. ASSUME NEW k \in 1 .. num PROVE t[k] = b[k]
  <2>1. /\ k - 1 \in 0 .. num - 1 /\ start' + k - 1 = start' + (k - 1)
        /\ start + (k - 1) = start + k - 1
    BY DEF ArrayInv
  <2>2. t[k] = IF k - 1 = i THEN x ELSE array[start + k - 1]
    BY <1>3, <2>1
  <2>3. k - 1 = i <=> k = j
    BY <1>4
  <2> QED BY <1>1, <1>5, <2>2, <2>3
<1>7. t = b
  BY <1>3, <1>5, <1>6, SameList
<1> QED BY <1>2, <1>3, <1>4, <1>7, Zenon DEF AsCalled, Called

LEMMA ClearStep ==
  ASSUME ArrayInv', NEW x, Called("clear", 0, x), num' = 0
  PROVE  AsCalled'
<1>1. PICK t : t = List'
  OBVIOUS
<1>2. start' + num' <= Anum(array') /\ t \in Seq(Slot) /\ Len(t) = 0
  BY <1>1, NextElements
<1>3. t = <<>>
  BY <1>2, EmptySeq
<1> QED BY <1>1, <1>2, <1>3, Zenon DEF AsCalled, Called

LEMMA CloneStep ==
  ASSUME ArrayInv, ArrayInv', NEW x, Called("clone", 0, x), num' = num,
         \A k \in 0 .. num - 1 : array'[start' + k] = array[start + k]
  PROVE  AsCalled'
<1>1. /\ List \in Seq(Slot) /\ Len(List) = num
      /\ \A k \in 1 .. num : List[k] = array[start + k - 1]
  BY Elements
<1>2. PICK t, b : t = List' /\ b = List
  OBVIOUS
<1>3. /\ start' + num' <= Anum(array')
      /\ t \in Seq(Slot) /\ Len(t) = num
      /\ \A k \in 1 .. num : t[k] = array'[start' + k - 1]
  BY <1>2, NextElements
<1>4. ASSUME NEW k \in 1 .. num PROVE t[k] = b[k]
  <2>1. /\ k - 1 \in 0 .. num - 1 /\ start' + k - 1 = start' + (k - 1)
        /\ start + (k - 1) = start + k - 1
    BY DEF ArrayInv
  <2> QED BY <1>1, <1>2, <1>3, <2>1
<1>5. t = b
  BY <1>1, <1>2, <1>3, <1>4, SameList
<1> QED BY <1>2, <1>3, <1>5, Zenon DEF AsCalled, Called

-----------------------------------------------------------------------------
(***************************************************************************)
(* The calls, slot by slot.                                                *)
(***************************************************************************)

LEMMA GrownArray ==
  ASSUME num \in Nat, NEW n \in Nat, array \in Arrays(n)
  PROVE  /\ n + num + 1 \in Nat /\ Grown(array) \in Arrays(n + num + 1)
         /\ \A i \in 0 .. n - 1 : Grown(array)[i] = array[i]
<1>1. Anum(array) = n /\ \A i \in 0 .. n - 1 : At(array, i) = array[i]
  BY Slots
<1>2. PICK a, m : a = array /\ m = n + num + 1
  OBVIOUS
<1>3. a \in Arrays(n) /\ m \in Nat
  BY <1>2
<1>4. /\ Realloc(a, m) \in Arrays(m)
      /\ \A i \in 0 .. m - 1 : Realloc(a, m)[i] = At(a, i)
  BY <1>3, ReallocArray
<1>5. Grown(array) = Realloc(a, m)
  BY <1>1, <1>2 DEF Grown
<1>6. 0 .. n - 1 \subseteq 0 .. m - 1
  BY <1>2
<1> QED BY <1>1, <1>2, <1>3, <1>4, <1>5, <1>6

\* The array an insertion writes to has a free slot behind the elements.
LEMMA RoomBehind ==
  ASSUME ArrayInv, NEW a, a = IF start + num >= Anum(array) THEN Grown(array) ELSE array
  PROVE  \E m \in Nat : /\ a \in Arrays(m) /\ start + num < m
                        /\ \A i \in 0 .. start + num - 1 : a[i] = array[i]
<1>1. PICK n \in Nat : array \in Arrays(n) /\ start + num <= n
  BY DEF ArrayInv
<1>2. start \in Nat /\ num \in Nat /\ Anum(array) = n
  BY <1>1, Slots DEF ArrayInv
<1>3. CASE start + num >= n
  <2>1. a = Grown(array)
    BY <1>2, <1>3
  <2>2. /\ n + num + 1 \in Nat /\ a \in Arrays(n + num + 1)
        /\ \A i \in 0 .. n - 1 : a[i] = array[i]
    BY <1>1, <1>2, <2>1, GrownArray
  <2>3. n = start + num
    BY <1>1, <1>2, <1>3
  <2>4. PICK m : m = n + num + 1
    OBVIOUS
  <2>5. m \in Nat /\ a \in Arrays(m) /\ start + num < m
    BY <1>2, <2>2, <2>3, <2>4
  <2>6. \A i \in 0 .. start + num - 1 : a[i] = array[i]
    <3>1. 0 .. n - 1 = 0 .. start + num - 1
      BY <1>2, <2>3
    <3> QED BY <2>2, <3>1, Zenon
  <2> QED BY <2>5, <2>6
<1>4. CASE ~ (start + num >= n)
  <2>1. a = array /\ start + num < n
    BY <1>1, <1>2, <1>4
  <2> QED BY <1>1, <2>1
<1> QED BY <1>3, <1>4

LEMMA InsertCall ==
  ASSUME ArrayInv, NEW i \in 0 .. num, NEW x \in Data, Insert(i, x)
  PROVE  ArrayInv' /\ AsCalled'
<1> DEFINE a0 == IF start + num >= Anum(array) THEN Grown(array) ELSE array
<1>1. PICK a : a = a0
  OBVIOUS
<1>2. start \in Nat /\ num \in Nat
  BY DEF ArrayInv
<1>3. PICK m \in Nat : /\ a \in Arrays(m) /\ start + num < m
                       /\ \A k \in 0 .. start + num - 1 : a[k] = array[k]
  BY <1>1, RoomBehind
<1>4. PICK j, k, b : j = i + start /\ k = start + num - j /\ b = Move(a, j + 1, j, k)
  OBVIOUS
<1>5. /\ array' = Store(b, j, x) /\ num' = num + 1 /\ start' = start
      /\ Called("put", i, x)
  BY <1>1, <1>4 DEF Insert
<1>6. j \in Nat /\ k \in Nat /\ j + 1 \in Nat /\ j + k = start + num /\ j < m /\ k = num - i
  BY <1>2, <1>3, <1>4
<1>7. /\ b \in Arrays(m)
      /\ \A q \in 0 .. m - 1 :
           b[q] = IF q \in j + 1 .. j + 1 + k - 1 THEN At(a, j + q - (j + 1)) ELSE a[q]
  <2>1. PICK t : t = j + 1
    OBVIOUS
  <2>2. t \in Nat /\ b = Move(a, t, j, k)
    BY <1>4, <1>6, <2>1
  <2>3. /\ Move(a, t, j, k) \in Arrays(m)
        /\ \A q \in 0 .. m - 1 :
             Move(a, t, j, k)[q] = IF q \in t .. t + k - 1 THEN At(a, j + q - t) ELSE a[q]
    <3>1. a \in Arrays(m) /\ t \in Nat /\ j \in Nat /\ k \in Nat
      BY <1>3, <1>6, <2>2
    <3> QED BY ONLY m \in Nat, <3>1, MoveArray
  <2> QED BY <2>1, <2>2, <2>3
<1>8. /\ array' \in Arrays(m)
      /\ \A q \in 0 .. m - 1 : array'[q] = IF q = j THEN x ELSE b[q]
  BY <1>5, <1>7, StoreArray
<1>9. ArrayInv'
  BY <1>2, <1>3, <1>5, <1>8 DEF ArrayInv
<1>10. ASSUME NEW q \in 0 .. num
       PROVE  array'[start' + q] = IF q < i THEN array[start + q]
                                   ELSE IF q = i THEN x ELSE array[start + q - 1]
  <2>1. start + q \in 0 .. m - 1
    BY <1>2, <1>3
  <2>2. array'[start' + q] = IF start + q = j THEN x ELSE b[start + q]
    BY <1>5, <1>8, <2>1
  <2>3. CASE q < i
    <3>1. start + q # j /\ start + q \notin j + 1 .. j + 1 + k - 1 /\ start + q \in 0 .. start + num - 1
      BY <1>2, <1>4, <2>3
    <3> QED BY <1>3, <1>7, <2>1, <2>2, <2>3, <3>1
  <2>4. CASE q = i
    BY <1>2, <1>4, <2>2, <2>4
  <2>5. CASE q > i
    <3>1. /\ start + q # j /\ start + q \in j + 1 .. j + 1 + k - 1
          /\ j + (start + q) - (j + 1) = start + q - 1
          /\ start + q - 1 \in 0 .. start + num - 1 /\ start + q - 1 \in 0 .. m - 1
      BY <1>2, <1>3, <1>4, <1>6, <2>5
    <3>2. array'[start' + q] = At(a, start + q - 1)
      BY <1>7, <2>1, <2>2, <3>1
    <3>3. At(a, start + q - 1) = array[start + q - 1]
      BY <1>3, <3>1, Slots
    <3> QED BY <2>5, <3>2, <3>3
  <2> QED BY <1>2, <2>3, <2>4, <2>5
<1> QED BY <1>5, <1>9, <1>10, PutStep

LEMMA PushCall ==
  ASSUME ArrayInv, NEW x \in Data, Push(x)
  PROVE  ArrayInv' /\ AsCalled'
<1> DEFINE a0 == IF start + num >= Anum(array) THEN Grown(array) ELSE array
<1>1. PICK a, j : a = a0 /\ j = start + num
  OBVIOUS
<1>2. start \in Nat /\ num \in Nat
  BY DEF ArrayInv
<1>3. PICK m \in Nat : /\ a \in Arrays(m) /\ start + num < m
                       /\ \A k \in 0 .. start + num - 1 : a[k] = array[k]
  BY <1>1, RoomBehind
<1>4. array' = Store(a, j, x) /\ num' = num + 1 /\ start' = start /\ Called("put", num, x)
  BY <1>1 DEF Push
<1>5. /\ array' \in Arrays(m)
      /\ \A q \in 0 .. m - 1 : array'[q] = IF q = j THEN x ELSE a[q]
  BY <1>3, <1>4, StoreArray
<1>6. ArrayInv'
  BY <1>2, <1>3, <1>4, <1>5 DEF ArrayInv
<1>7. ASSUME NEW q \in 0 .. num
      PROVE  array'[start' + q] = IF q < num THEN array[start + q]
                                  ELSE IF q = num THEN x ELSE array[start + q - 1]
  <2>1. start + q \in 0 .. m - 1 /\ (start + q = j <=> q = num)
    BY <1>1, <1>2, <1>3
  <2>2. array'[start' + q] = IF start + q = j THEN x ELSE a[start + q]
    BY <1>4, <1>5, <2>1
  <2>3. CASE q < num
    <3>1. start + q \in 0 .. start + num - 1 /\ q # num
      BY <1>2, <2>3
    <3> QED BY <1>3, <2>1, <2>2, <2>3, <3>1
  <2>4. CASE q = num
    BY <1>2, <2>1, <2>2, <2>4
  <2> QED BY <1>2, <2>3, <2>4
<1>8. num \in 0 .. num
  BY <1>2
<1>9. PICK i \in 0 .. num : i = num
  BY <1>8
<1>10. /\ Called("put", i, x)
       /\ \A q \in 0 .. num : array'[start' + q] = IF q < i THEN array[start + q]
                                  ELSE IF q = i THEN x ELSE array[start + q - 1]
  BY <1>4, <1>7, <1>9
<1> QED BY <1>4, <1>6, <1>10, PutStep

LEMMA UnshiftCall ==
  ASSUME ArrayInv, NEW x \in Data, Unshift(x)
  PROVE  ArrayInv' /\ AsCalled'
<1> DEFINE a0 == IF num >= Anum(array) THEN Grown(array) ELSE array
<1>1. start \in Nat /\ num \in Nat
  BY DEF ArrayInv
<1>2. PICK n \in Nat : array \in Arrays(n) /\ start + num <= n
  BY DEF ArrayInv
<1>3. Anum(array) = n
  BY <1>2, Slots
<1>4. num' = num + 1 /\ Called("put", 0, x)
  BY DEF Unshift
<1>5. SUFFICES
        /\ start' \in Nat
        /\ \E m \in Nat : array' \in Arrays(m) /\ start' + (num + 1) <= m
        /\ array'[start'] = x
        /\ \A q \in 1 .. num : array'[start' + q] = array[start + q - 1]
  <2>1. ArrayInv'
    <3>1. PICK m \in Nat : array' \in Arrays(m) /\ start' + (num + 1) <= m
      BY <1>5
    <3>2. num' = num + 1 /\ start' \in Nat
      BY <1>4, <1>5
    <3>3. num' \in Nat /\ start' + num' <= m
      <4>1. num + 1 \in Nat
        BY <1>1
      <4> QED BY <3>1, <3>2, <4>1, Zenon
    <3> QED BY <3>1, <3>2, <3>3 DEF ArrayInv
  <2>2. PICK i \in 0 .. num : i = 0
    BY <1>1
  <2>3. ASSUME NEW q \in 0 .. num
        PROVE  array'[start' + q] = IF q < i THEN array[start + q]
                                    ELSE IF q = i THEN x ELSE array[start + q - 1]
    <3>1. CASE q = 0
      BY <1>1, <1>5, <2>2, <3>1
    <3>2. CASE q # 0
      <4>1. q \in 1 .. num /\ ~ (q < i) /\ q # i
        BY <2>2, <3>2
      <4> QED BY <1>5, <4>1
    <3> QED BY <3>1, <3>2
  <2>4. Called("put", i, x)
    BY <1>4, <2>2
  <2> QED BY <1>4, <2>1, <2>3, <2>4, PutStep
<1>6. CASE start = 0
  <2>1. PICK a, s, z : a = a0 /\ s = Anum(a) - num /\ z = start
    OBVIOUS
  <2>2. PICK m \in Nat : /\ a \in Arrays(m) /\ num < m
                         /\ \A i \in 0 .. num - 1 : a[i] = array[i]
    <3>1. PICK m \in Nat : /\ a \in Arrays(m) /\ start + num < m
                           /\ \A i \in 0 .. start + num - 1 : a[i] = array[i]
      <4>1. a = IF start + num >= Anum(array) THEN Grown(array) ELSE array
        BY <1>1, <1>6, <2>1
      <4> QED BY <4>1, RoomBehind
    <3>2. start + num = num
      BY <1>1, <1>6
    <3>3. a \in Arrays(m) /\ num < m /\ \A i \in 0 .. num - 1 : a[i] = array[i]
      BY <1>1, <3>1, <3>2
    <3> QED BY <3>3
  <2>3. s = m - num /\ s \in Nat /\ s > 0
    BY <1>1, <2>1, <2>2, Slots
  <2>4. PICK b, j : b = Move(a, s, z, num) /\ j = s - 1
    OBVIOUS
  <2>5. array' = Store(b, j, x) /\ start' = j
    BY <1>6, <2>1, <2>4 DEF Unshift
  <2>6. /\ b \in Arrays(m)
        /\ \A q \in 0 .. m - 1 : b[q] = IF q \in s .. s + num - 1 THEN At(a, z + q - s) ELSE a[q]
    <3>1. a \in Arrays(m) /\ s \in Nat /\ z \in Nat /\ num \in Nat
      BY <1>1, <2>1, <2>2, <2>3
    <3>2. /\ Move(a, s, z, num) \in Arrays(m)
          /\ \A q \in 0 .. m - 1 :
               Move(a, s, z, num)[q] = IF q \in s .. s + num - 1 THEN At(a, z + q - s) ELSE a[q]
      BY ONLY m \in Nat, <3>1, MoveArray
    <3> QED BY <2>4, <3>2
  <2>7. /\ array' \in Arrays(m)
        /\ \A q \in 0 .. m - 1 : array'[q] = IF q = j THEN x ELSE b[q]
    BY <2>5, <2>6, StoreArray
  <2>8. start' \in Nat /\ start' + (num + 1) = m /\ j \in 0 .. m - 1
    BY <1>1, <2>3, <2>4, <2>5
  <2>9. array'[start'] = x
    BY <2>5, <2>7, <2>8
  <2>10. ASSUME NEW q \in 1 .. num PROVE array'[start' + q] = array[start + q - 1]
    <3>1. /\ start' + q \in 0 .. m - 1 /\ start' + q # j /\ start' + q \in s .. s + num - 1
          /\ z + (start' + q) - s = q - 1
          /\ q - 1 \in 0 .. num - 1 /\ q - 1 \in 0 .. m - 1 /\ start + q - 1 = q - 1
      BY <1>1, <1>6, <2>1, <2>2, <2>3, <2>4, <2>5
    <3>2. array'[start' + q] = At(a, q - 1)
      BY <2>6, <2>7, <3>1
    <3>3. At(a, q - 1) = array[q - 1]
      BY <2>2, <3>1, Slots
    <3> QED BY <3>1, <3>2, <3>3
  <2> QED BY <2>7, <2>8, <2>9, <2>10
<1>7. CASE start # 0
  <2>1. PICK j : j = start - 1
    OBVIOUS
  <2>2. array' = Store(array, j, x) /\ start' = j
    BY <1>7, <2>1 DEF Unshift
  <2>3. /\ array' \in Arrays(n)
        /\ \A q \in 0 .. n - 1 : array'[q] = IF q = j THEN x ELSE array[q]
    BY <1>2, <2>2, StoreArray
  <2>4. start' \in Nat /\ start' + (num + 1) <= n /\ j \in 0 .. n - 1
    BY <1>1, <1>2, <1>7, <2>1, <2>2
  <2>5. array'[start'] = x
    BY <2>2, <2>3, <2>4
  <2>6. ASSUME NEW q \in 1 .. num PROVE array'[start' + q] = array[start + q - 1]
    <3>1. start' + q = start + q - 1 /\ start + q - 1 \in 0 .. n - 1 /\ start + q - 1 # j
      BY <1>1, <1>2, <1>7, <2>1, <2>2
    <3> QED BY <2>3, <3>1
  <2> QED BY <2>3, <2>4, <2>5, <2>6
<1> QED BY <1>6, <1>7

LEMMA SetAtCall ==
  ASSUME ArrayInv, NEW i \in 0 .. num, NEW x \in Data, SetAt(i, x)
  PROVE  ArrayInv' /\ AsCalled'
<1>1. start \in Nat /\ num \in Nat
  BY DEF ArrayInv
<1>2. PICK n \in Nat : array \in Arrays(n) /\ start + num <= n
  BY DEF ArrayInv
<1>3. PICK j : j = start + i
  OBVIOUS
<1>4. /\ array' = Store(array, j, x) /\ start' = start /\ num' = num
      /\ Called("set", i, x) /\ i \in 0 .. num - 1
  BY <1>1, <1>3 DEF SetAt
<1>5. /\ array' \in Arrays(n)
      /\ \A q \in 0 .. n - 1 : array'[q] = IF q = j THEN x ELSE array[q]
  BY <1>2, <1>4, StoreArray
<1>6. ArrayInv'
  BY <1>1, <1>2, <1>4, <1>5 DEF ArrayInv
<1>7. ASSUME NEW q \in 0 .. num - 1
      PROVE  array'[start' + q] = IF q = i THEN x ELSE array[start + q]
  <2>1. start' + q = start + q /\ start + q \in 0 .. n - 1 /\ (start + q = j <=> q = i)
    BY <1>1, <1>2, <1>3, <1>4
  <2> QED BY <1>5, <2>1
<1> QED BY <1>4, <1>6, <1>7, SetStep

\* What is left of an array after Shrunk.
LEMMA ShrunkCall ==
  ASSUME Assumption, NEW n \in Nat, NEW a \in Arrays(n), NEW s \in Nat, num \in Nat, num > 0,
         s + (num - 1) <= n, num' = num - 1,
         array' = Shrunk(a, s, num - 1).array, start' = Shrunk(a, s, num - 1).start
  PROVE  /\ ArrayInv'
         /\ \A i \in 0 .. num - 2 : array'[start' + i] = a[s + i]
<1>1. PICK k : k = num - 1
  OBVIOUS
<1>2. k \in Nat /\ s + k <= n /\ k - 1 = num - 2
  BY <1>1
<1>3. PICK r : r = Shrunk(a, s, k)
  OBVIOUS
<1>4. /\ r.start \in Nat
      /\ \E m \in Nat : r.array \in Arrays(m) /\ r.start + k <= m
      /\ \A i \in 0 .. k - 1 : r.array[r.start + i] = a[s + i]
  BY <1>2, <1>3, ShrunkArray
<1>5. array' = r.array /\ start' = r.start /\ num' = k
  BY <1>1, <1>3
<1>6. ArrayInv'
  BY <1>2, <1>4, <1>5 DEF ArrayInv
<1>7. \A i \in 0 .. k - 1 : array'[start' + i] = a[s + i]
  BY <1>4, <1>5
<1> QED BY <1>2, <1>6, <1>7

LEMMA RemoveNthCall ==
  ASSUME Assumption, ArrayInv, NEW i \in 0 .. num, RemoveNth(i)
  PROVE  ArrayInv' /\ AsCalled'
<1>1. start \in Nat /\ num \in Nat
  BY DEF ArrayInv
<1>2. PICK n \in Nat : array \in Arrays(n) /\ start + num <= n
  BY DEF ArrayInv
<1>3. i \in 0 .. num - 1 /\ num > 0
  BY <1>1 DEF RemoveNth
<1>4. PICK j, t, k, b : /\ j = start + i /\ t = j + 1 /\ k = start + num - 1 - j
                        /\ b = Move(array, j, t, k)
  OBVIOUS
<1>5. /\ array' = Shrunk(b, start, num - 1).array /\ start' = Shrunk(b, start, num - 1).start
      /\ num' = num - 1 /\ Called("drop", i, Garbage)
  BY <1>4 DEF RemoveNth
<1>6. j \in Nat /\ t \in Nat /\ k \in Nat /\ k = num - 1 - i
  BY <1>1, <1>3, <1>4
<1>7. /\ b \in Arrays(n)
      /\ \A q \in 0 .. n - 1 : b[q] = IF q \in j .. j + k - 1 THEN At(array, t + q - j) ELSE array[q]
  <2>1. PICK a : a = array
    OBVIOUS
  <2>2. a \in Arrays(n) /\ j \in Nat /\ t \in Nat /\ k \in Nat
    BY <1>2, <1>6, <2>1
  <2>3. /\ Move(a, j, t, k) \in Arrays(n)
        /\ \A q \in 0 .. n - 1 :
             Move(a, j, t, k)[q] = IF q \in j .. j + k - 1 THEN At(a, t + q - j) ELSE a[q]
    BY ONLY n \in Nat, <2>2, MoveArray
  <2> QED BY <1>4, <2>1, <2>3
<1>8. start + (num - 1) <= n
  BY <1>1, <1>2
<1>9. /\ ArrayInv'
      /\ \A q \in 0 .. num - 2 : array'[start' + q] = b[start + q]
  BY <1>1, <1>3, <1>5, <1>7, <1>8, ShrunkCall
<1>10. ASSUME NEW q \in 0 .. num - 2
       PROVE  b[start + q] = IF q < i THEN array[start + q] ELSE array[start + q + 1]
  <2>1. start + q \in 0 .. n - 1 /\ start + q + 1 \in 0 .. n - 1
    BY <1>1, <1>2
  <2>2. CASE q < i
    <3>1. start + q \notin j .. j + k - 1
      BY <1>1, <1>4, <2>2
    <3> QED BY <1>7, <2>1, <2>2, <3>1
  <2>3. CASE ~ (q < i)
    <3>1. start + q \in j .. j + k - 1 /\ t + (start + q) - j = start + q + 1
      BY <1>1, <1>4, <1>6, <2>3
    <3>2. At(array, start + q + 1) = array[start + q + 1]
      BY <1>2, <2>1, Slots
    <3> QED BY <1>7, <2>1, <2>3, <3>1, <3>2
  <2> QED BY <2>2, <2>3
<1>11. \A q \in 0 .. num - 2 :
         array'[start' + q] = IF q < i THEN array[start + q] ELSE array[start + q + 1]
  BY <1>9, <1>10
<1> QED BY <1>3, <1>5, <1>9, <1>11, DropStep

LEMMA PopCall ==
  ASSUME Assumption, ArrayInv, Pop \/ PopNoRealloc
  PROVE  ArrayInv' /\ AsCalled'
<1>1. start \in Nat /\ num \in Nat
  BY DEF ArrayInv
<1>2. PICK n \in Nat : array \in Arrays(n) /\ start + num <= n
  BY DEF ArrayInv
<1>3. num > 0 /\ num' = num - 1 /\ Called("drop", num - 1, Garbage)
  BY DEF Pop, PopNoRealloc
<1>4. /\ ArrayInv'
      /\ \A q \in 0 .. num - 2 : array'[start' + q] = array[start + q]
  <2>1. start + (num - 1) <= n
    BY <1>1, <1>2
  <2>2. CASE Pop
    <3>1. array' = Shrunk(array, start, num - 1).array /\ start' = Shrunk(array, start, num - 1).start
      BY <2>2 DEF Pop
    <3> QED BY <1>1, <1>2, <1>3, <2>1, <3>1, ShrunkCall
  <2>3. CASE PopNoRealloc
    <3>1. array' = array /\ start' = start
      BY <2>3 DEF PopNoRealloc
    <3>2. num' \in Nat /\ start' + num' <= n
      BY <1>1, <1>2, <1>3, <3>1
    <3> QED BY <1>1, <1>2, <3>1, <3>2 DEF ArrayInv
  <2> QED BY <2>2, <2>3
<1>5. PICK i : i = num - 1
  OBVIOUS
<1>6. /\ i \in 0 .. num - 1 /\ Called("drop", i, Garbage)
      /\ \A q \in 0 .. num - 2 :
           array'[start' + q] = IF q < i THEN array[start + q] ELSE array[start + q + 1]
  <2>1. \A q \in 0 .. num - 2 : q < i
    BY <1>1, <1>5
  <2>2. i \in 0 .. num - 1
    BY <1>1, <1>3, <1>5
  <2> QED BY <1>3, <1>4, <1>5, <2>1, <2>2
<1> QED BY <1>3, <1>4, <1>6, DropStep

LEMMA ShiftCall ==
  ASSUME Assumption, ArrayInv, Shift
  PROVE  ArrayInv' /\ AsCalled'
<1>1. start \in Nat /\ num \in Nat
  BY DEF ArrayInv
<1>2. PICK n \in Nat : array \in Arrays(n) /\ start + num <= n
  BY DEF ArrayInv
<1>3. PICK s, i : s = start + 1 /\ i = 0
  OBVIOUS
<1>4. /\ num > 0 /\ num' = num - 1 /\ Called("drop", i, Garbage)
      /\ array' = Shrunk(array, s, num - 1).array /\ start' = Shrunk(array, s, num - 1).start
  BY <1>3 DEF Shift
<1>5. s \in Nat /\ s + (num - 1) <= n /\ i \in 0 .. num - 1
  BY <1>1, <1>2, <1>3, <1>4
<1>6. /\ ArrayInv'
      /\ \A q \in 0 .. num - 2 : array'[start' + q] = array[s + q]
  BY <1>1, <1>2, <1>4, <1>5, ShrunkCall
<1>7. ASSUME NEW q \in 0 .. num - 2
      PROVE  array'[start' + q] = IF q < i THEN array[start + q] ELSE array[start + q + 1]
  <2>1. s + q = start + q + 1 /\ ~ (q < i)
    BY <1>1, <1>3
  <2> QED BY <1>6, <2>1
<1> QED BY <1>4, <1>5, <1>6, <1>7, DropStep

LEMMA ClearCall ==
  ASSUME Assumption, ArrayInv, Clear \/ Reset
  PROVE  ArrayInv' /\ AsCalled'
<1>1. start' = 0 /\ num' = 0 /\ Called("clear", 0, Garbage)
  BY DEF Clear, Reset
<1>2. \E n \in Nat : array' \in Arrays(n)
  <2>1. CASE Clear
    BY <2>1, FreshArray DEF Clear, Assumption
  <2>2. CASE Reset
    BY <2>2 DEF Reset, ArrayInv
  <2> QED BY <2>1, <2>2
<1>3. ArrayInv'
  BY <1>1, <1>2 DEF ArrayInv
<1> QED BY <1>1, <1>3, ClearStep

LEMMA CloneCall ==
  ASSUME Assumption, ArrayInv, Clone
  PROVE  ArrayInv' /\ AsCalled'
<1>1. start \in Nat /\ num \in Nat
  BY DEF ArrayInv
<1>2. PICK n \in Nat : array \in Arrays(n) /\ start + num <= n
  BY DEF ArrayInv
<1>3. start' = 0 /\ num' = num /\ Called("clone", 0, Garbage)
  BY DEF Clone
<1>4. /\ \E m \in Nat : array' \in Arrays(m) /\ num <= m
      /\ \A q \in 0 .. num - 1 : array'[q] = array[start + q]
  <2>1. CASE num = 0
    <3>1. PICK m : m = IF DOMAIN array = {} THEN AllocUnit ELSE Anum(array)
      OBVIOUS
    <3>2. Anum(array) = n
      BY <1>2, Slots
    <3>3. m \in Nat
      BY <3>1, <3>2 DEF Assumption
    <3>4. array' = Fresh(m)
      BY <2>1, <3>1 DEF Clone
    <3>5. array' \in Arrays(m)
      BY <3>3, <3>4, FreshArray
    <3> QED BY <2>1, <3>3, <3>5
  <2>2. CASE num # 0
    <3>1. PICK m : m = Max({num, AllocUnit})
      OBVIOUS
    <3>2. m \in Nat /\ num <= m
      BY <1>1, <3>1, MaxPair DEF Assumption
    <3>3. array' = [i \in 0 .. m - 1 |-> IF i < num THEN At(array, start + i) ELSE Garbage]
      BY <2>2, <3>1 DEF Clone
    <3>4. \A i : At(array, i) \in Slot
      BY <1>2, Slots
    <3>5. Garbage \in Slot
      BY DEF Slot
    <3>6. array' \in Arrays(m)
      BY <3>3, <3>4, <3>5 DEF Arrays
    <3>7. ASSUME NEW q \in 0 .. num - 1 PROVE array'[q] = array[start + q]
      <4>1. q \in 0 .. m - 1 /\ q < num /\ start + q \in 0 .. n - 1
        BY <1>1, <1>2, <3>2
      <4>2. At(array, start + q) = array[start + q]
        BY <1>2, <4>1, Slots
      <4> QED BY <3>3, <4>1, <4>2
    <3> QED BY <3>2, <3>6, <3>7
  <2> QED BY <2>1, <2>2
<1>5. ArrayInv'
  BY <1>1, <1>3, <1>4 DEF ArrayInv
<1>6. \A q \in 0 .. num - 1 : array'[start' + q] = array[start + q]
  BY <1>1, <1>3, <1>4
<1> QED BY <1>3, <1>5, <1>6, CloneStep

LEMMA RemoveByCall ==
  ASSUME Assumption, ArrayInv, NEW x \in Data, RemoveBy(x)
  PROVE  ArrayInv' /\ AsCalled'
<1>1. num \in Nat
  BY DEF ArrayInv
<1>2. PICK S : S = {i \in 0 .. num - 1 : At(array, start + i) = x}
  OBVIOUS
<1>3. PICK i \in Find(x) : RemoveNth(i)
  BY DEF RemoveBy
<1>4. S # {} /\ i = Min(S)
  BY <1>2, <1>3 DEF Find
<1>5. S \in SUBSET Nat
  BY <1>1, <1>2
<1>6. i \in S
  BY <1>4, <1>5, MinOf
<1>7. i \in 0 .. num
  BY <1>1, <1>2, <1>6
<1> QED BY <1>3, <1>7, RemoveNthCall

-----------------------------------------------------------------------------
\* Whatever is put in, taken out, found or copied, the elements lie in the array
\* and the list is what the last call made of the one before it (ulist.c): no
\* element is lost or moved over another when the array grows, shrinks or is
\* moved to either end.
THEOREM ListInductive == ASSUME Assumption PROVE Spec => []IInv
<1>1. Init => IInv
  <2> SUFFICES ASSUME Init PROVE IInv
    OBVIOUS
  <2>1. PICK n \in Lengths : array = Fresh(n)
    BY DEF Init
  <2>2. n \in Nat /\ start = 0 /\ num = 0
    BY <2>1 DEF Assumption, Init
  <2>3. array \in Arrays(n)
    BY <2>1, <2>2, FreshArray
  <2>4. ArrayInv
    BY <2>2, <2>3 DEF ArrayInv
  <2>5. PICK l : l = List
    OBVIOUS
  <2>6. l \in Seq(Slot) /\ Len(l) = num
    BY <2>4, <2>5, Elements
  <2>7. l = <<>>
    BY <2>2, <2>6, EmptySeq
  <2>8. start + num <= Anum(array)
    <3>1. Anum(array) = n
      BY <2>2, <2>3, Slots
    <3> QED BY <2>2, <3>1
  <2>9. call.is = "clear"
    BY DEF Init
  <2>10. AsCalled
    BY <2>5, <2>7, <2>8, <2>9 DEF AsCalled
  <2> QED BY <2>4, <2>10 DEF IInv
<1>2. IInv /\ [Next]_vars => IInv'
  <2> SUFFICES ASSUME IInv, [Next]_vars PROVE IInv'
    OBVIOUS
  <2>1. ArrayInv /\ AsCalled
    BY DEF IInv
  <2>2. ASSUME NEW x \in Data, Push(x) PROVE IInv'
    BY <2>1, <2>2, PushCall DEF IInv
  <2>3. ASSUME NEW x \in Data, Unshift(x) PROVE IInv'
    BY <2>1, <2>3, UnshiftCall DEF IInv
  <2>4. ASSUME NEW x \in Data, RemoveBy(x) PROVE IInv'
    BY <2>1, <2>4, RemoveByCall DEF IInv
  <2>5. ASSUME NEW x \in Data, NEW i \in 0 .. num, Insert(i, x) PROVE IInv'
    BY <2>1, <2>5, InsertCall DEF IInv
  <2>6. ASSUME NEW x \in Data, NEW i \in 0 .. num, SetAt(i, x) PROVE IInv'
    BY <2>1, <2>6, SetAtCall DEF IInv
  <2>7. ASSUME NEW i \in 0 .. num, RemoveNth(i) PROVE IInv'
    BY <2>1, <2>7, RemoveNthCall DEF IInv
  <2>8. ASSUME Pop \/ PopNoRealloc PROVE IInv'
    BY <2>1, <2>8, PopCall DEF IInv
  <2>9. ASSUME Shift PROVE IInv'
    BY <2>1, <2>9, ShiftCall DEF IInv
  <2>10. ASSUME Clear \/ Reset PROVE IInv'
    BY <2>1, <2>10, ClearCall DEF IInv
  <2>11. ASSUME Clone PROVE IInv'
    BY <2>1, <2>11, CloneCall DEF IInv
  <2>12. ASSUME UNCHANGED vars PROVE IInv'
    BY <2>1, <2>12 DEF IInv, ArrayInv, AsCalled, List, vars
  <2> QED BY <2>2, <2>3, <2>4, <2>5, <2>6, <2>7, <2>8, <2>9, <2>10, <2>11, <2>12, Zenon DEF Next
<1> QED BY <1>1, <1>2, PTL DEF Spec

\* After every call the list its users see is what the call makes of the list
\* before it (ulist.c:103 and 157).
THEOREM ListIsAsCalled == ASSUME Assumption PROVE Spec => []AsCalled
<1>1. IInv => AsCalled
  BY DEF IInv
<1> QED BY <1>1, ListInductive, PTL
=============================================================================
