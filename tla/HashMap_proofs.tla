--------------------------- MODULE HashMap_proofs ---------------------------
(***************************************************************************)
(* Theorems about the string map, for all keys, hashes and capacities.     *)
(***************************************************************************)
EXTENDS HashMap, FiniteSetTheorems, FunctionTheorems, WellFoundedInduction, TLAPS

-----------------------------------------------------------------------------
(***************************************************************************)
(* Slots round the table.                                                  *)
(***************************************************************************)

LEMMA Split ==
  ASSUME NEW c \in Nat, c > 0, NEW x \in Nat
  PROVE  \E q \in Nat : x = q * c + (x % c)
  <1>1. x \div c \in Nat
    OBVIOUS
  <1>2. x = (x \div c) * c + (x % c)
    BY Z3
  <1>3. QED
    BY <1>1, <1>2

LEMMA Rest ==
  ASSUME NEW c \in Nat, c > 0, NEW q \in Nat, NEW s \in 0 .. c - 1
  PROVE  (q * c + s) % c = s
  OBVIOUS

LEMMA InTable == ASSUME NEW c \in Nat, c > 0, NEW x \in Nat PROVE x % c \in 0 .. c - 1
  OBVIOUS

\* Going d slots on, from where a hash leads.
LEMMA GoOn ==
  ASSUME NEW c \in Nat, c > 0, NEW x \in Nat, NEW d \in 0 .. c - 1
  PROVE  (x + d) % c = IF (x % c) + d < c THEN (x % c) + d ELSE (x % c) + d - c
  <1>1. PICK q \in Nat : x = q * c + (x % c)
    BY Split
  <1>2. PICK r \in 0 .. c - 1 : r = x % c
    BY InTable
  <1>3. CASE r + d < c
    <2>1. r + d \in 0 .. c - 1
      BY <1>2, <1>3
    <2>2. x + d = q * c + (r + d)
      BY <1>1, <1>2
    <2>3. (q * c + (r + d)) % c = r + d
      BY <2>1, Rest
    <2>4. QED
      BY <1>2, <1>3, <2>2, <2>3
  <1>4. CASE ~(r + d < c)
    <2>1. r + d - c \in 0 .. c - 1 /\ q + 1 \in Nat
      BY <1>2, <1>4
    <2>2. x + d = (q + 1) * c + (r + d - c)
      BY <1>1, <1>2
    <2>3. ((q + 1) * c + (r + d - c)) % c = r + d - c
      BY <2>1, Rest
    <2>4. QED
      BY <1>2, <1>4, <2>2, <2>3
  <1>5. QED
    BY <1>3, <1>4

LEMMA AheadIs ==
  ASSUME NEW c \in Nat, NEW i \in 0 .. c - 1, NEW j \in 0 .. c - 1
  PROVE  Ahead(c, i, j) = IF i <= j THEN j - i ELSE j + c - i
  <1>1. CASE i <= j
    <2>1. j - i \in 0 .. c - 1 /\ j + c - i = 1 * c + (j - i) /\ c > 0
      BY <1>1
    <2>2. (1 * c + (j - i)) % c = j - i
      BY <2>1, Rest
    <2>3. QED
      BY <1>1, <2>1, <2>2 DEF Ahead
  <1>2. CASE ~(i <= j)
    <2>1. j + c - i \in 0 .. c - 1 /\ j + c - i = 0 * c + (j + c - i) /\ c > 0
      BY <1>2
    <2>2. (0 * c + (j + c - i)) % c = j + c - i
      BY <2>1, Rest
    <2>3. QED
      BY <1>2, <2>1, <2>2 DEF Ahead
  <1>3. QED
    BY <1>1, <1>2
LEMMA LeastOf == ASSUME NEW T, T \subseteq Nat, T # {} PROVE \E m \in T : \A k \in T : m <= k
  <1>1. PICK m \in T : \A k \in T : ~(<<k, m>> \in OpToRel(<, Nat))
    BY NatLessThanWellFounded, WFMin
  <1>2. ASSUME NEW k \in T PROVE ~(k < m)
    BY <1>1 DEF OpToRel
  <1>3. QED
    BY <1>2

LEMMA Induct ==
  ASSUME NEW T, NEW n \in Nat, 0 \in T, \A k \in 0 .. n : k \in T /\ k < n => k + 1 \in T
  PROVE  \A k \in 0 .. n : k \in T
  <1> DEFINE U == (0 .. n) \ T
  <1>1. SUFFICES ASSUME U # {} PROVE FALSE
    OBVIOUS
  <1>2. PICK m \in U : \A k \in U : m <= k
    <2>1. U \subseteq Nat
      OBVIOUS
    <2> HIDE DEF U
    <2>2. QED
      BY <1>1, <2>1, LeastOf
  <1>3. m \in Nat /\ m # 0 /\ m <= n /\ m \notin T
    BY <1>2
  <1>4. m - 1 \in 0 .. n /\ m - 1 < n /\ m - 1 < m /\ (m - 1) + 1 = m
    BY <1>3
  <1>5. m - 1 \in T
    BY <1>2, <1>3, <1>4
  <1>6. QED
    BY <1>3, <1>4, <1>5

\* A loop round the table comes to a slot of S if there is one.
LEMMA FirstSlot ==
  ASSUME NEW c \in Nat, NEW x \in Nat, NEW S, NEW j \in 0 .. c - 1, j \in S
  PROVE  \E d \in 0 .. c - 1 : (x + d) % c \in S /\ \A n \in 0 .. d - 1 : (x + n) % c \notin S
  <1> DEFINE T == {d \in 0 .. c - 1 : (x + d) % c \in S}
  <1>1. c > 0
    OBVIOUS
  <1>2. PICK r \in 0 .. c - 1 : r = x % c
    BY <1>1, InTable
  <1>3. \A n \in 0 .. c - 1 : (x + n) % c = IF r + n < c THEN r + n ELSE r + n - c
    BY <1>1, <1>2, GoOn
  <1>4. T # {} /\ T \subseteq Nat
    <2> DEFINE n == IF r <= j THEN j - r ELSE j + c - r
    <2>0. n \in 0 .. c - 1
      OBVIOUS
    <2>1. PICK d \in 0 .. c - 1 : d = n
      BY <2>0
    <2>2. (IF r + d < c THEN r + d ELSE r + d - c) = j
      BY <1>2, <2>1
    <2>3. (x + d) % c = j
      BY <1>3, <2>2
    <2>4. d \in T
      BY <2>3
    <2>5. T # {}
      BY <2>4
    <2>6. T \subseteq Nat
      OBVIOUS
    <2>7. QED
      BY <2>5, <2>6
  <1>5. PICK d \in T : \A n \in T : d <= n
    <2> HIDE DEF T
    <2> QED
      BY <1>4, LeastOf
  <1>6. ASSUME NEW n \in 0 .. d - 1 PROVE (x + n) % c \notin S
    <2>1. n \in 0 .. c - 1 /\ ~(d <= n)
      BY <1>5
    <2>2. QED
      BY <1>5, <2>1
  <1>7. QED
    BY <1>5, <1>6

\* That slot is the nearest one of S.
LEMMA Nearest ==
  ASSUME NEW c \in Nat, NEW x \in Nat, NEW S, NEW d \in 0 .. c - 1,
         (x + d) % c \in S, \A n \in 0 .. d - 1 : (x + n) % c \notin S
  PROVE  /\ (x + d) % c \in 0 .. c - 1
         /\ \A m \in 0 .. c - 1 : m \in S => Ahead(c, x % c, (x + d) % c) <= Ahead(c, x % c, m)
  <1>1. c > 0
    OBVIOUS
  <1>2. PICK r \in 0 .. c - 1 : r = x % c
    BY <1>1, InTable
  <1>3. \A n \in 0 .. c - 1 : (x + n) % c = IF r + n < c THEN r + n ELSE r + n - c
    BY <1>1, <1>2, GoOn
  <1>4. (x + d) % c \in 0 .. c - 1
    BY <1>2, <1>3
  <1>5. Ahead(c, r, (x + d) % c) = d
    <2>1. PICK s \in 0 .. c - 1 : s = (x + d) % c
      BY <1>4
    <2>2. s = IF r + d < c THEN r + d ELSE r + d - c
      BY <1>3, <2>1
    <2>3. Ahead(c, r, s) = d
      BY <2>2, AheadIs
    <2>4. QED
      BY <2>1, <2>3
  <1>6. ASSUME NEW m \in 0 .. c - 1, m \in S PROVE d <= Ahead(c, r, m)
    <2>1. Ahead(c, r, m) = IF r <= m THEN m - r ELSE m + c - r
      BY AheadIs
    <2>2. PICK n \in 0 .. c - 1 : n = Ahead(c, r, m)
      <3>1. Ahead(c, r, m) \in 0 .. c - 1
        BY <2>1
      <3>2. QED
        BY <3>1
    <2>3. (IF r + n < c THEN r + n ELSE r + n - c) = m
      BY <2>1, <2>2
    <2>4. (x + n) % c = m
      BY <1>3, <2>3
    <2>5. QED
      BY <1>6, <2>2, <2>4
  <1>7. QED
    BY <1>2, <1>4, <1>5, <1>6

-----------------------------------------------------------------------------
(***************************************************************************)
(* Searches.                                                               *)
(***************************************************************************)

\* A table of c slots.
Table(e, c) == c \in Nat /\ c > 0 /\ e \in [0 .. c - 1 -> Entry]

LEMMA CapacityIs == ASSUME NEW e, NEW c, Table(e, c) PROVE Capacity(e) = c /\ Slots(e) = 0 .. c - 1
  <1>1. Slots(e) = 0 .. c - 1 /\ c \in Nat /\ c > 0
    BY DEF Table, Slots
  <1>2. Cardinality(0 .. c - 1) = c
    BY <1>1, FS_Interval
  <1>3. QED
    BY <1>1, <1>2 DEF Capacity

LEMMA FreeIs ==
  ASSUME NEW e, NEW c, Table(e, c), NEW x \in Nat, NEW v \in 0 .. c - 1, e[v].hash = 0
  PROVE  /\ Free(e, x) \in 0 .. c - 1 /\ e[Free(e, x)].hash = 0
         /\ \A m \in 0 .. c - 1 :
              e[m].hash = 0 => Ahead(c, x % c, Free(e, x)) <= Ahead(c, x % c, m)
  <1>1. c \in Nat /\ c > 0 /\ Capacity(e) = c
    BY CapacityIs DEF Table
  <1> DEFINE S == {i \in 0 .. c - 1 : e[i].hash = 0}
             First(d) == e[(x + d) % c].hash = 0 /\ \A n \in 0 .. d - 1 : e[(x + n) % c].hash # 0
  <1>2. \A d \in 0 .. c - 1 : (x + d) % c \in 0 .. c - 1
    BY <1>1, InTable
  <1>3. \E d \in 0 .. c - 1 : First(d)
    <2>1. PICK d \in 0 .. c - 1 : (x + d) % c \in S /\ \A n \in 0 .. d - 1 : (x + n) % c \notin S
      <3>1. v \in S
        OBVIOUS
      <3> HIDE DEF S
      <3>2. QED
        BY <1>1, <3>1, FirstSlot
    <2>2. \A n \in 0 .. d - 1 : n \in 0 .. c - 1
      BY <1>1
    <2>3. QED
      BY <1>2, <2>1, <2>2
  <1>4. PICK d \in 0 .. c - 1 : d = CHOOSE n \in 0 .. c - 1 : First(n)
    BY <1>3
  <1>5. First(d)
    BY <1>3, <1>4
  <1>6. Free(e, x) = (x + d) % c
    BY <1>1, <1>4 DEF Free
  <1>7. (x + d) % c \in S /\ \A n \in 0 .. d - 1 : (x + n) % c \notin S
    BY <1>2, <1>5
  <1>8. \A m \in 0 .. c - 1 : m \in S => Ahead(c, x % c, (x + d) % c) <= Ahead(c, x % c, m)
    <2> HIDE DEF S
    <2> QED
      BY <1>1, <1>7, Nearest
  <1>9. QED
    BY <1>2, <1>6, <1>7, <1>8

LEMMA FindIs ==
  ASSUME NEW e, NEW c, Table(e, c), NEW k, NHash(k) \in Nat,
         NEW v \in 0 .. c - 1, e[v].hash = 0
  PROVE  /\ Find(e, k) \in 0 .. c - 1 /\ (e[Find(e, k)].hash = 0 \/ Holds(e, Find(e, k), k))
         /\ \A m \in 0 .. c - 1 : e[m].hash = 0 \/ Holds(e, m, k)
              => Ahead(c, NHash(k) % c, Find(e, k)) <= Ahead(c, NHash(k) % c, m)
  <1>1. c \in Nat /\ c > 0 /\ Capacity(e) = c
    BY CapacityIs DEF Table
  <1> DEFINE Hit(i) == e[i].hash = 0 \/ Holds(e, i, k)
             S == {i \in 0 .. c - 1 : Hit(i)}
             x == NHash(k)
             First(d) == /\ e[(x + d) % c].hash = 0 \/ Holds(e, (x + d) % c, k)
                         /\ \A n \in 0 .. d - 1 : e[(x + n) % c].hash # 0 /\ ~Holds(e, (x + n) % c, k)
  <1> HIDE DEF x
  <1>2. x \in Nat /\ \A d \in 0 .. c - 1 : (x + d) % c \in 0 .. c - 1
    <2>1. x \in Nat
      BY DEF x
    <2>2. QED
      BY <1>1, <2>1, InTable
  <1>3. \E d \in 0 .. c - 1 : First(d)
    <2>1. PICK d \in 0 .. c - 1 : (x + d) % c \in S /\ \A n \in 0 .. d - 1 : (x + n) % c \notin S
      <3>1. v \in S
        OBVIOUS
      <3> HIDE DEF S
      <3>2. QED
        BY <1>1, <1>2, <3>1, FirstSlot
    <2>2. \A n \in 0 .. d - 1 : n \in 0 .. c - 1
      BY <1>1
    <2>3. QED
      BY <1>2, <2>1, <2>2
  <1>4. PICK d \in 0 .. c - 1 : d = CHOOSE n \in 0 .. c - 1 : First(n)
    BY <1>3
  <1>5. First(d)
    BY <1>3, <1>4
  <1>6. Find(e, k) = (x + d) % c
    BY <1>1, <1>4 DEF Find, x
  <1>7. (x + d) % c \in S /\ \A n \in 0 .. d - 1 : (x + n) % c \notin S
    BY <1>2, <1>5
  <1>8. \A m \in 0 .. c - 1 : m \in S => Ahead(c, x % c, (x + d) % c) <= Ahead(c, x % c, m)
    <2> HIDE DEF S
    <2> QED
      BY <1>1, <1>2, <1>7, Nearest
  <1>9. QED
    BY <1>2, <1>6, <1>7, <1>8 DEF x

-----------------------------------------------------------------------------
(***************************************************************************)
(* Sound tables: every entry has the hash of its key, no key is there      *)
(* twice, and no slot between the home of an entry and its place is empty. *)
(***************************************************************************)

\* How far slot i is from the home of entry x.
Dist(c, x, i) == Ahead(c, x.hash % c, i)

Hashed(e)    == \A i \in Used(e) : e[i].hash = NHash(e[i].key)
Distinct(e)  == \A i, j \in Used(e) : e[i].key = e[j].key => i = j
NoHole(e, c) == \A i \in Used(e), m \in 0 .. c - 1 :
                  e[m].hash = 0 => Dist(c, e[i], i) < Dist(c, e[i], m)

Sound(e, c) == Table(e, c) /\ Hashed(e) /\ Distinct(e) /\ NoHole(e, c)

\* The entries of a table, wherever they are.
Bag(e) == {e[i] : i \in Used(e)}

HasRoom(e, c) == \E v \in 0 .. c - 1 : e[v].hash = 0

LEMMA HashType == ASSUME Assumption, NEW k \in Keys PROVE NHash(k) \in 1 .. 2 ^ Width - 1
  <1>1. PICK w : w = 2 ^ Width
    OBVIOUS
  <1>2. w \in Nat /\ w > 1 /\ Hash[k] \in 0 .. w - 1
    BY <1>1 DEF Assumption
  <1>3. (Hash[k] + 1) % w \in 0 .. w - 1
    BY <1>2
  <1>4. NHash(k) \in 1 .. w - 1
    BY <1>1, <1>2, <1>3 DEF NHash
  <1>5. QED
    BY <1>1, <1>4

LEMMA EntryType ==
  ASSUME Assumption, NEW x \in Entry
  PROVE  /\ x.hash \in Nat
         /\ x.hash = 0 => x = Empty
         /\ x.hash # 0 => x.key \in Keys /\ x.val \in Vals
  <1>1. PICK w : w = 2 ^ Width
    OBVIOUS
  <1>2. w \in Nat /\ x \in [hash : 1 .. w - 1, key : Keys, val : Vals] \cup {Empty}
    BY <1>1 DEF Assumption, Entry
  <1>3. QED
    BY <1>2 DEF Empty

LEMMA UsedIs ==
  ASSUME NEW e, NEW c, Table(e, c)
  PROVE  /\ Used(e) \subseteq 0 .. c - 1
         /\ \A i \in 0 .. c - 1 : i \in Used(e) <=> e[i].hash # 0
         /\ IsFiniteSet(Used(e)) /\ Count(e) \in Nat
  <1>1. Slots(e) = 0 .. c - 1 /\ c \in Nat
    BY CapacityIs DEF Table
  <1>2. Used(e) \subseteq 0 .. c - 1 /\ \A i \in 0 .. c - 1 : i \in Used(e) <=> e[i].hash # 0
    BY <1>1 DEF Used
  <1>3. IsFiniteSet(0 .. c - 1)
    BY <1>1, FS_Interval
  <1>4. IsFiniteSet(Used(e))
    BY <1>2, <1>3, FS_Subset
  <1>5. QED
    BY <1>2, <1>4, FS_CardinalityType DEF Count

LEMMA DistType ==
  ASSUME Assumption, NEW c \in Nat, NEW x \in Entry, NEW i \in 0 .. c - 1
  PROVE  /\ Dist(c, x, i) \in 0 .. c - 1
         /\ \A j \in 0 .. c - 1 : Dist(c, x, i) = Dist(c, x, j) => i = j
  <1>1. x.hash \in Nat /\ c > 0
    BY EntryType
  <1>2. PICK r \in 0 .. c - 1 : r = x.hash % c
    BY <1>1, InTable
  <1>3. \A j \in 0 .. c - 1 : Ahead(c, r, j) = IF r <= j THEN j - r ELSE j + c - r
    BY AheadIs
  <1>4. \A j \in 0 .. c - 1 : Dist(c, x, j) = IF r <= j THEN j - r ELSE j + c - r
    BY <1>2, <1>3 DEF Dist
  <1>5. QED
    BY <1>4

LEMMA RoomIs == ASSUME NEW e, NEW c, Table(e, c), Count(e) < c PROVE HasRoom(e, c)
  <1>1. SUFFICES ASSUME ~HasRoom(e, c) PROVE FALSE
    OBVIOUS
  <1>2. Used(e) = 0 .. c - 1
    BY <1>1, UsedIs DEF HasRoom
  <1>3. Cardinality(0 .. c - 1) = c
    BY CapacityIs DEF Capacity
  <1>4. QED
    BY <1>2, <1>3 DEF Count, Table

LEMMA CountIs ==
  ASSUME NEW e, NEW c, Table(e, c), Distinct(e)
  PROVE  IsFiniteSet(Bag(e)) /\ Cardinality(Bag(e)) = Count(e)
  <1> DEFINE f == [i \in Used(e) |-> e[i]]
  <1>1. f \in Bijection(Used(e), Bag(e))
    <2>1. f \in [Used(e) -> Bag(e)]
      BY DEF Bag
    <2>2. \A a, b \in Used(e) : f[a] = f[b] => a = b
      BY DEF Distinct
    <2>3. \A x \in Bag(e) : \E i \in Used(e) : f[i] = x
      BY DEF Bag
    <2> HIDE DEF f
    <2>4. QED
      BY <2>1, <2>2, <2>3, Fun_IsBij
  <1>2. IsFiniteSet(Used(e))
    BY UsedIs
  <1> HIDE DEF f
  <1>3. QED
    BY <1>1, <1>2, FS_Bijection DEF Count, ExistsBijection

LEMMA NewSound ==
  ASSUME Assumption, NEW c \in Nat, c > 0
  PROVE  Sound(NewTable(c), c) /\ Bag(NewTable(c)) = {} /\ Count(NewTable(c)) = 0
  <1>1. Table(NewTable(c), c)
    BY DEF Table, NewTable, Entry
  <1>2. \A i \in 0 .. c - 1 : NewTable(c)[i].hash = 0
    BY DEF NewTable, Empty
  <1>3. Used(NewTable(c)) = {}
    BY <1>1, <1>2, UsedIs
  <1>4. QED
    BY <1>1, <1>3, FS_EmptySet DEF Sound, Hashed, Distinct, NoHole, Bag, Count

\* The table e with entry x in slot j.
Becomes(e, c, j, x, f) ==
  f \in [0 .. c - 1 -> Entry] /\ f[j] = x /\ \A i \in 0 .. c - 1 : i # j => f[i] = e[i]

LEMMA ExceptBecomes ==
  ASSUME NEW e, NEW c, Table(e, c), NEW j \in 0 .. c - 1, NEW x \in Entry
  PROVE  Becomes(e, c, j, x, [e EXCEPT ![j] = x])
  BY DEF Table, Becomes

\* A new entry goes to the nearest empty slot.
LEMMA PutNew ==
  ASSUME Assumption, NEW e, NEW c, Sound(e, c),
         NEW x \in Entry, x.hash # 0, x.hash = NHash(x.key),
         \A i \in Used(e) : e[i].key # x.key,
         NEW j \in 0 .. c - 1, e[j].hash = 0,
         \A m \in 0 .. c - 1 : e[m].hash = 0 => Dist(c, x, j) <= Dist(c, x, m),
         NEW f, Becomes(e, c, j, x, f)
  PROVE  Sound(f, c) /\ Bag(f) = Bag(e) \cup {x}
  <1>1. Table(e, c) /\ c \in Nat /\ e \in [0 .. c - 1 -> Entry]
    BY DEF Sound, Table
  <1>2. Table(f, c)
    BY <1>1 DEF Table, Sound, Becomes
  <1>3. f[j] = x /\ \A i \in 0 .. c - 1 : i # j => f[i] = e[i]
    BY DEF Becomes
  <1>4. Used(f) = Used(e) \cup {j} /\ j \notin Used(e) /\ Used(e) \subseteq 0 .. c - 1
    <2>1. /\ Used(e) \subseteq 0 .. c - 1 /\ Used(f) \subseteq 0 .. c - 1
          /\ \A i \in 0 .. c - 1 : i \in Used(e) <=> e[i].hash # 0
          /\ \A i \in 0 .. c - 1 : i \in Used(f) <=> f[i].hash # 0
      BY <1>1, <1>2, UsedIs
    <2>2. \A i \in 0 .. c - 1 : i \in Used(f) <=> i \in Used(e) \/ i = j
      BY <1>3, <2>1
    <2>3. QED
      BY <2>1, <2>2
  <1>5. \A i \in Used(e) : f[i] = e[i]
    BY <1>3, <1>4
  <1>6. Hashed(f)
    BY <1>3, <1>4, <1>5 DEF Hashed, Sound
  <1>7. Distinct(f)
    BY <1>3, <1>4, <1>5 DEF Distinct, Sound
  <1>8. NoHole(f, c)
    <2>1. SUFFICES ASSUME NEW i \in Used(f), NEW m \in 0 .. c - 1, f[m].hash = 0
                   PROVE  Dist(c, f[i], i) < Dist(c, f[i], m)
      BY DEF NoHole
    <2>2. m # j /\ e[m].hash = 0
      BY <1>3, <2>1
    <2>3. CASE i = j
      <3>1. Dist(c, x, j) <= Dist(c, x, m) /\ Dist(c, x, j) # Dist(c, x, m)
        BY <1>1, <2>2, DistType
      <3>2. Dist(c, x, j) \in 0 .. c - 1 /\ Dist(c, x, m) \in 0 .. c - 1
        BY <1>1, DistType
      <3>3. Dist(c, x, j) < Dist(c, x, m)
        BY <1>1, <3>1, <3>2
      <3>4. QED
        BY <1>3, <2>3, <3>3
    <2>4. CASE i # j
      BY <1>4, <1>5, <2>1, <2>2, <2>4 DEF Sound, NoHole
    <2>5. QED
      BY <2>3, <2>4
  <1>9. Bag(f) = Bag(e) \cup {x}
    <2>1. Bag(f) = {f[i] : i \in Used(e)} \cup {f[j]}
      BY <1>4 DEF Bag
    <2>2. {f[i] : i \in Used(e)} = Bag(e)
      BY <1>5 DEF Bag
    <2>3. QED
      BY <1>3, <2>1, <2>2
  <1>10. QED
    BY <1>2, <1>6, <1>7, <1>8, <1>9 DEF Sound

\* The entry of a key that is there is overwritten.
LEMMA PutOld ==
  ASSUME Assumption, NEW e, NEW c, Sound(e, c),
         NEW x \in Entry, x.hash # 0, x.hash = NHash(x.key),
         NEW j \in Used(e), e[j].key = x.key,
         NEW f, Becomes(e, c, j, x, f)
  PROVE  Sound(f, c) /\ Bag(f) = (Bag(e) \ {e[j]}) \cup {x}
  <1>1. Table(e, c) /\ c \in Nat /\ e \in [0 .. c - 1 -> Entry] /\ Used(e) \subseteq 0 .. c - 1
    BY UsedIs DEF Sound, Table
  <1>2. Table(f, c)
    BY <1>1 DEF Table, Sound, Becomes
  <1>3. f[j] = x /\ \A i \in 0 .. c - 1 : i # j => f[i] = e[i]
    BY DEF Becomes
  <1>4. Used(f) = Used(e)
    BY <1>1, <1>2, <1>3, UsedIs
  <1>5. \A i \in 0 .. c - 1 : f[i].hash = e[i].hash /\ f[i].key = e[i].key
    BY <1>3 DEF Sound, Hashed
  <1>6. Hashed(f) /\ Distinct(f)
    <2>1. \A i \in Used(f) : f[i].hash = e[i].hash /\ f[i].key = e[i].key /\ i \in Used(e)
      BY <1>1, <1>4, <1>5
    <2>2. Hashed(f)
      BY <2>1 DEF Hashed, Sound
    <2>3. Distinct(f)
      BY <2>1 DEF Distinct, Sound
    <2>4. QED
      BY <2>2, <2>3
  <1>7. NoHole(f, c)
    BY <1>1, <1>4, <1>5 DEF NoHole, Dist, Sound
  <1>8. Bag(f) = (Bag(e) \ {e[j]}) \cup {x}
    <2>1. \A i \in Used(e) : i # j => e[i] # e[j]
      BY DEF Sound, Distinct
    <2>2. QED
      BY <1>1, <1>3, <1>4, <2>1 DEF Bag
  <1>9. QED
    BY <1>2, <1>6, <1>7, <1>8 DEF Sound

LEMMA FindThere ==
  ASSUME Assumption, NEW e, NEW c, Sound(e, c), HasRoom(e, c), NEW i \in Used(e)
  PROVE  Find(e, e[i].key) = i
  <1> DEFINE k == e[i].key
             j == Find(e, k)
  <1>1. Table(e, c) /\ c \in Nat /\ i \in 0 .. c - 1 /\ e[i].hash # 0 /\ e[i].hash = NHash(k)
    BY UsedIs DEF Sound, Table, Hashed
  <1>2. e[i] \in Entry /\ e[i].hash \in Nat
    BY <1>1, EntryType DEF Table
  <1>3. /\ j \in 0 .. c - 1 /\ (e[j].hash = 0 \/ Holds(e, j, k))
        /\ \A m \in 0 .. c - 1 : e[m].hash = 0 \/ Holds(e, m, k)
             => Ahead(c, NHash(k) % c, j) <= Ahead(c, NHash(k) % c, m)
    BY <1>1, <1>2, FindIs DEF HasRoom
  <1> HIDE DEF j
  <1>4. Dist(c, e[i], j) <= Dist(c, e[i], i)
    BY <1>1, <1>3 DEF Dist, Holds
  <1>5. Dist(c, e[i], j) \in Nat /\ Dist(c, e[i], i) \in Nat
    BY <1>1, <1>2, <1>3, DistType
  <1>6. e[j].hash # 0
    BY <1>3, <1>4, <1>5 DEF Sound, NoHole
  <1>7. j \in Used(e) /\ e[j].key = k
    BY <1>1, <1>3, <1>6, UsedIs DEF Holds
  <1>8. QED
    BY <1>7 DEF Sound, Distinct, j

LEMMA FindNone ==
  ASSUME Assumption, NEW e, NEW c, Sound(e, c), HasRoom(e, c), NEW x \in Entry,
         x.hash # 0, x.hash = NHash(x.key), \A i \in Used(e) : e[i].key # x.key
  PROVE  /\ Find(e, x.key) \in 0 .. c - 1 /\ e[Find(e, x.key)].hash = 0
         /\ \A m \in 0 .. c - 1 : e[m].hash = 0 => Dist(c, x, Find(e, x.key)) <= Dist(c, x, m)
  <1> DEFINE j == Find(e, x.key)
  <1>1. Table(e, c)
    BY DEF Sound
  <1>2. x.hash \in Nat
    BY EntryType
  <1>3. /\ j \in 0 .. c - 1 /\ (e[j].hash = 0 \/ Holds(e, j, x.key))
        /\ \A m \in 0 .. c - 1 : e[m].hash = 0 \/ Holds(e, m, x.key)
             => Ahead(c, NHash(x.key) % c, j) <= Ahead(c, NHash(x.key) % c, m)
    BY <1>1, <1>2, FindIs DEF HasRoom
  <1> HIDE DEF j
  <1>4. e[j].hash = 0
    BY <1>1, <1>3, UsedIs DEF Holds
  <1>5. QED
    BY <1>3, <1>4 DEF Dist, j

LEMMA PlaceIs ==
  ASSUME Assumption, NEW e, NEW c, Sound(e, c), HasRoom(e, c), NEW x \in Entry,
         x.hash # 0, x.hash = NHash(x.key), \A i \in Used(e) : e[i].key # x.key
  PROVE  Sound(Place(e, x), c) /\ Bag(Place(e, x)) = Bag(e) \cup {x}
  <1>1. x.hash \in Nat /\ Table(e, c)
    BY EntryType DEF Sound
  <1>2. PICK j \in 0 .. c - 1 : j = Free(e, x.hash)
    BY <1>1, FreeIs DEF HasRoom
  <1>3. e[j].hash = 0 /\ \A m \in 0 .. c - 1 : e[m].hash = 0 => Dist(c, x, j) <= Dist(c, x, m)
    BY <1>1, <1>2, FreeIs DEF HasRoom, Dist
  <1>4. PICK f : f = [e EXCEPT ![j] = x]
    OBVIOUS
  <1>5. Place(e, x) = f
    BY <1>2, <1>4 DEF Place
  <1>6. Sound(f, c) /\ Bag(f) = Bag(e) \cup {x}
    <2>1. Becomes(e, c, j, x, f)
      BY <1>1, <1>4, ExceptBecomes
    <2>2. \A m \in 0 .. c - 1 : e[m].hash = 0 => Dist(c, x, j) <= Dist(c, x, m)
      BY <1>3
    <2>3. e[j].hash = 0
      BY <1>3
    <2>4. Sound(f, c)
      BY <2>1, <2>2, <2>3, PutNew, Zenon
    <2>5. Bag(f) = Bag(e) \cup {x}
      BY <2>1, <2>2, <2>3, PutNew, SMTT(30)
    <2>6. QED
      BY <2>4, <2>5
  <1>7. QED
    BY <1>5, <1>6

\* What a table holds for a key.
Value(e, k) == {x.val : x \in {y \in Bag(e) : y.key = k}}

LEMMA GetIs ==
  ASSUME Assumption, NEW e, NEW c, Sound(e, c), HasRoom(e, c), NEW k \in Keys
  PROVE  Get(e, k) = Value(e, k)
  <1>1. Table(e, c)
    BY DEF Sound
  <1>2. CASE \E i \in Used(e) : e[i].key = k
    <2>1. PICK i \in Used(e) : e[i].key = k
      BY <1>2
    <2>2. Find(e, k) = i /\ e[i].hash # 0
      BY <1>1, <2>1, FindThere, UsedIs
    <2>3. Get(e, k) = {e[i].val}
      BY <2>2 DEF Get
    <2>4. {y \in Bag(e) : y.key = k} = {e[i]}
      BY <2>1 DEF Bag, Sound, Distinct
    <2>5. QED
      BY <2>3, <2>4 DEF Value
  <1>3. CASE ~\E i \in Used(e) : e[i].key = k
    <2>1. NHash(k) \in Nat
      BY HashType
    <2>2. /\ Find(e, k) \in 0 .. c - 1
          /\ e[Find(e, k)].hash = 0 \/ Holds(e, Find(e, k), k)
      BY <1>1, <2>1, FindIs DEF HasRoom
    <2>3. e[Find(e, k)].hash = 0
      BY <1>1, <1>3, <2>2, UsedIs DEF Holds
    <2>4. {y \in Bag(e) : y.key = k} = {}
      BY <1>3 DEF Bag
    <2>5. QED
      BY <2>3, <2>4 DEF Get, Value
  <1>4. QED
    BY <1>2, <1>3

-----------------------------------------------------------------------------
(***************************************************************************)
(* A table of another size.                                                *)
(***************************************************************************)

\* The tables of the loop of Resize.
Tables(e, c, b, g) ==
  g = [n \in 0 .. c |->
         IF n = 0 THEN NewTable(b)
         ELSE IF e[n - 1].hash = 0 THEN g[n - 1] ELSE Place(g[n - 1], e[n - 1])]

LEMMA TablesExist ==
  ASSUME NEW e, NEW c \in Nat, NEW b
  PROVE  \E g : Tables(e, c, b, g)
  <1> DEFINE T == {n \in 0 .. c : \E g : Tables(e, n, b, g)}
  <1>1. 0 \in T
    <2>1. PICK g : g = [n \in 0 .. 0 |-> NewTable(b)]
      OBVIOUS
    <2>2. Tables(e, 0, b, g)
      BY <2>1 DEF Tables
    <2>3. QED
      BY <2>2
  <1>2. ASSUME NEW n \in 0 .. c, n \in T, n < c PROVE n + 1 \in T
    <2>1. PICK g : Tables(e, n, b, g)
      BY <1>2
    <2>2. PICK t : t = IF e[n].hash = 0 THEN g[n] ELSE Place(g[n], e[n])
      OBVIOUS
    <2>3. PICK h : h = [k \in 0 .. n + 1 |-> IF k = n + 1 THEN t ELSE g[k]]
      OBVIOUS
    <2>4. ASSUME NEW k \in 0 .. n + 1
          PROVE  h[k] = IF k = 0 THEN NewTable(b)
                        ELSE IF e[k - 1].hash = 0 THEN h[k - 1] ELSE Place(h[k - 1], e[k - 1])
      <3>1. CASE k = n + 1
        <4>1. k # 0 /\ k - 1 = n /\ h[k] = t /\ h[n] = g[n]
          BY <2>3, <3>1
        <4>2. QED
          BY <2>2, <4>1
      <3>2. CASE k # n + 1
        <4>1. k \in 0 .. n /\ h[k] = g[k]
          BY <2>3, <3>2
        <4>2. k # 0 => h[k - 1] = g[k - 1]
          BY <2>3, <4>1
        <4>3. QED
          BY <2>1, <4>1, <4>2 DEF Tables
      <3>3. QED
        BY <3>1, <3>2
    <2>5. Tables(e, n + 1, b, h)
      BY <2>3, <2>4 DEF Tables
    <2>6. QED
      BY <1>2, <2>5
  <1>3. \A n \in 0 .. c : n \in T
    <2> HIDE DEF T
    <2> QED
      BY <1>1, <1>2, Induct
  <1>4. QED
    BY <1>3

\* Everything is in the new table.
LEMMA ResizeIs ==
  ASSUME Assumption, NEW e, NEW c, Sound(e, c), NEW b \in Nat, Count(e) < b
  PROVE  /\ Sound(Resize(e, b), b) /\ Bag(Resize(e, b)) = Bag(e)
         /\ Count(Resize(e, b)) = Count(e)
  <1>1. Table(e, c) /\ c \in Nat /\ Capacity(e) = c /\ Count(e) \in Nat /\ b > 0
    <2>1. Table(e, c) /\ c \in Nat
      BY DEF Sound, Table
    <2>2. Capacity(e) = c /\ Count(e) \in Nat
      BY <2>1, CapacityIs, UsedIs
    <2>3. QED
      BY <2>1, <2>2
  <1>2. PICK g : g = CHOOSE h : Tables(e, c, b, h)
    OBVIOUS
  <1>3. Tables(e, c, b, g)
    BY <1>1, <1>2, TablesExist
  <1>4. Resize(e, b) = g[c]
    BY <1>1, <1>2 DEF Resize, Tables
  <1> DEFINE Before(n) == {e[i] : i \in {j \in Used(e) : j < n}}
             T == {n \in 0 .. c : Sound(g[n], b) /\ Bag(g[n]) = Before(n)}
  <1>5. 0 \in T
    <2>1. g[0] = NewTable(b)
      BY <1>1, <1>3 DEF Tables
    <2>2. Before(0) = {}
      BY <1>1, UsedIs
    <2>3. QED
      BY <1>1, <2>1, <2>2, NewSound
  <1>6. ASSUME NEW n \in 0 .. c, n \in T, n < c PROVE n + 1 \in T
    <2>1. g[n + 1] = IF e[n].hash = 0 THEN g[n] ELSE Place(g[n], e[n])
      BY <1>1, <1>3, <1>6 DEF Tables
    <2>2. n \in 0 .. c - 1 /\ n + 1 \in 0 .. c
      BY <1>1, <1>6
    <2>3. Sound(g[n], b) /\ Bag(g[n]) = Before(n)
      BY <1>6
    <2>4. CASE e[n].hash = 0
      <3>1. Before(n + 1) = Before(n)
        BY <1>1, <2>2, <2>4, UsedIs
      <3>2. QED
        BY <2>1, <2>2, <2>3, <2>4, <3>1
    <2>5. CASE e[n].hash # 0
      <3>1. n \in Used(e) /\ e[n] \in Entry
        BY <1>1, <2>2, <2>5, UsedIs DEF Table
      <3>2. Before(n + 1) = Before(n) \cup {e[n]}
        BY <1>1, <2>2, <3>1, UsedIs
      <3>3. HasRoom(g[n], b)
        <4>1. Bag(g[n]) \subseteq Bag(e)
          BY <2>3 DEF Bag
        <4>2. IsFiniteSet(Bag(e)) /\ Cardinality(Bag(e)) = Count(e)
          BY <1>1, CountIs DEF Sound
        <4>3. Cardinality(Bag(g[n])) = Count(g[n]) /\ Table(g[n], b)
          BY <2>3, CountIs DEF Sound
        <4>4. Cardinality(Bag(g[n])) <= Cardinality(Bag(e))
          BY <4>1, <4>2, FS_Subset
        <4>5. Count(g[n]) \in Nat /\ Count(g[n]) < b
          BY <1>1, <4>2, <4>3, <4>4, UsedIs
        <4>6. QED
          BY <4>3, <4>5, RoomIs
      <3>4. \A i \in Used(g[n]) : g[n][i].key # e[n].key
        <4>1. SUFFICES ASSUME NEW i \in Used(g[n]) PROVE g[n][i].key # e[n].key
          OBVIOUS
        <4>2. g[n][i] \in Before(n)
          BY <2>3 DEF Bag
        <4>3. PICK k \in Used(e) : k < n /\ g[n][i] = e[k]
          BY <4>2
        <4>4. k # n
          BY <1>1, <4>3, UsedIs
        <4>5. QED
          BY <3>1, <4>3, <4>4 DEF Sound, Distinct
      <3>5. e[n].hash # 0 /\ e[n].hash = NHash(e[n].key)
        BY <2>5, <3>1 DEF Sound, Hashed
      <3>6. PICK t : t = g[n]
        OBVIOUS
      <3>7. PICK x \in Entry : x = e[n]
        BY <3>1
      <3>8. Sound(Place(t, x), b)
        BY <2>3, <3>3, <3>4, <3>5, <3>6, <3>7, PlaceIs
      <3>9. Bag(Place(t, x)) = Bag(t) \cup {x}
        BY <2>3, <3>3, <3>4, <3>5, <3>6, <3>7, PlaceIs, SMTT(30)
      <3>10. QED
        BY <2>1, <2>2, <2>3, <2>5, <3>2, <3>6, <3>7, <3>8, <3>9
    <2>6. QED
      BY <2>4, <2>5
  <1>7. c \in T
    <2>1. \A n \in 0 .. c : n \in T
      <3> HIDE DEF T
      <3> QED
        BY <1>1, <1>5, <1>6, Induct
    <2> HIDE DEF T
    <2>2. QED
      BY <1>1, <2>1
  <1>8. Before(c) = Bag(e)
    <2>1. {j \in Used(e) : j < c} = Used(e)
      BY <1>1, UsedIs
    <2>2. QED
      BY <2>1 DEF Bag
  <1>9. Sound(g[c], b) /\ Bag(g[c]) = Bag(e)
    BY <1>7, <1>8
  <1>10. Count(g[c]) = Count(e)
    BY <1>1, <1>9, CountIs DEF Sound
  <1>11. QED
    BY <1>4, <1>9, <1>10

-----------------------------------------------------------------------------
(***************************************************************************)
(* Closing the hole of a removal.                                          *)
(***************************************************************************)

LEMMA DistIs ==
  ASSUME Assumption, NEW c \in Nat, c > 0, NEW x \in Entry
  PROVE  \E r \in 0 .. c - 1 : \A j \in 0 .. c - 1 :
           Dist(c, x, j) = IF r <= j THEN j - r ELSE j + c - r
  <1>1. x.hash \in Nat
    BY EntryType
  <1>2. PICK r \in 0 .. c - 1 : r = x.hash % c
    BY <1>1, InTable
  <1>3. \A j \in 0 .. c - 1 : Ahead(c, r, j) = IF r <= j THEN j - r ELSE j + c - r
    BY AheadIs
  <1>4. QED
    BY <1>2, <1>3 DEF Dist

\* From p on: i, then j, then the empty slot v.
LEMMA InFront ==
  ASSUME Assumption, NEW c \in Nat, c > 0, NEW x \in Entry,
         NEW p \in 0 .. c - 1, NEW i \in 0 .. c - 1, NEW j \in 0 .. c - 1, NEW v \in 0 .. c - 1,
         Ahead(c, p, i) < Ahead(c, p, j), Ahead(c, p, j) < Ahead(c, p, v),
         Dist(c, x, i) < Dist(c, x, v)
  PROVE  Dist(c, x, i) < Dist(c, x, j)
  <1>1. PICK r \in 0 .. c - 1 : \A k \in 0 .. c - 1 :
          Dist(c, x, k) = IF r <= k THEN k - r ELSE k + c - r
    BY DistIs
  <1>2. \A k \in 0 .. c - 1 : Ahead(c, p, k) = IF p <= k THEN k - p ELSE k + c - p
    BY AheadIs
  <1>3. QED
    BY <1>1, <1>2

\* From p on: h, then the empty slot v, then i.
LEMMA Behind ==
  ASSUME Assumption, NEW c \in Nat, c > 0, NEW x \in Entry,
         NEW p \in 0 .. c - 1, NEW i \in 0 .. c - 1, NEW h \in 0 .. c - 1, NEW v \in 0 .. c - 1,
         Ahead(c, p, h) < Ahead(c, p, v), Ahead(c, p, v) < Ahead(c, p, i),
         Dist(c, x, i) < Dist(c, x, v)
  PROVE  Dist(c, x, i) < Dist(c, x, h)
  <1>1. PICK r \in 0 .. c - 1 : \A k \in 0 .. c - 1 :
          Dist(c, x, k) = IF r <= k THEN k - r ELSE k + c - r
    BY DistIs
  <1>2. \A k \in 0 .. c - 1 : Ahead(c, p, k) = IF p <= k THEN k - p ELSE k + c - p
    BY AheadIs
  <1>3. QED
    BY <1>1, <1>2

\* The states of the loop of Close.
States(e, c, p, run, g) ==
  g = [d \in 0 .. run |->
         IF d = 0 THEN [table |-> e, hole |-> p] ELSE Shift(g[d - 1], (p + d) % c)]

LEMMA StatesExist ==
  ASSUME NEW e, NEW c \in Nat, NEW p \in Nat, NEW run \in Nat
  PROVE  \E g : States(e, c, p, run, g)
  <1> DEFINE T == {n \in 0 .. run : \E g : States(e, c, p, n, g)}
  <1>1. 0 \in T
    <2>1. PICK g : g = [n \in 0 .. 0 |-> [table |-> e, hole |-> p]]
      OBVIOUS
    <2>2. States(e, c, p, 0, g)
      BY <2>1 DEF States
    <2>3. QED
      BY <2>2
  <1>2. ASSUME NEW n \in 0 .. run, n \in T, n < run PROVE n + 1 \in T
    <2>1. PICK g : States(e, c, p, n, g)
      BY <1>2
    <2>2. PICK t : t = Shift(g[n], (p + (n + 1)) % c)
      OBVIOUS
    <2>3. PICK h : h = [k \in 0 .. n + 1 |-> IF k = n + 1 THEN t ELSE g[k]]
      OBVIOUS
    <2>4. ASSUME NEW k \in 0 .. n + 1
          PROVE  h[k] = IF k = 0 THEN [table |-> e, hole |-> p] ELSE Shift(h[k - 1], (p + k) % c)
      <3>1. CASE k = n + 1
        <4>1. k # 0 /\ k - 1 = n /\ h[k] = t /\ h[n] = g[n]
          BY <2>3, <3>1
        <4>2. QED
          BY <2>2, <3>1, <4>1
      <3>2. CASE k # n + 1
        <4>1. k \in 0 .. n /\ h[k] = g[k]
          BY <2>3, <3>2
        <4>2. k # 0 => h[k - 1] = g[k - 1]
          BY <2>3, <4>1
        <4>3. g[k] = IF k = 0 THEN [table |-> e, hole |-> p] ELSE Shift(g[k - 1], (p + k) % c)
          BY <2>1, <4>1 DEF States
        <4>4. QED
          BY <4>1, <4>2, <4>3
      <3>3. QED
        BY <3>1, <3>2
    <2>5. States(e, c, p, n + 1, h)
      BY <2>3, <2>4 DEF States
    <2>6. QED
      BY <1>2, <2>5
  <1>3. \A n \in 0 .. run : n \in T
    <2> HIDE DEF T
    <2> QED
      BY <1>1, <1>2, Induct
  <1>4. QED
    BY <1>3

\* Entries of a table with hole h.
Live(t, h) == Used(t) \ {h}

\* What holds when the loop has looked at d slots behind the hole p.
Shape(e, c, p, t, h, d) ==
  /\ Table(t, c) /\ h \in 0 .. c - 1 /\ Ahead(c, p, h) <= d
  /\ \A q \in 0 .. c - 1 : d < Ahead(c, p, q) => t[q] = e[q]
  /\ \A q \in 0 .. c - 1 : t[q].hash = 0 <=> e[q].hash = 0

Kept(e, p, t, h) ==
  /\ {t[i] : i \in Live(t, h)} = Bag(e) \ {e[p]}
  /\ \A i, j \in Live(t, h) : t[i].key = t[j].key => i = j

Near(e, c, p, t, h, d) ==
  /\ \A i \in Live(t, h), m \in 0 .. c - 1 :
       e[m].hash = 0 => Dist(c, t[i], i) < Dist(c, t[i], m)
  /\ \A i \in Live(t, h) :
       Ahead(c, p, i) <= d => Dist(c, t[i], i) < Dist(c, t[i], h)

\* No entry behind p, up to the end of the table, moves before p.
Stays(e, p, t, h) ==
  \A i \in Used(e) : i > p => \E j \in Live(t, h) : p <= j /\ j <= i /\ t[j] = e[i]

Looked(e, c, p, s, d) ==
  /\ s = [table |-> s.table, hole |-> s.hole]
  /\ Shape(e, c, p, s.table, s.hole, d)
  /\ Kept(e, p, s.table, s.hole)
  /\ Near(e, c, p, s.table, s.hole, d)
  /\ Stays(e, p, s.table, s.hole)

LEMMA LookedFirst ==
  ASSUME Assumption, NEW e, NEW c, Sound(e, c), NEW p \in Used(e)
  PROVE  Looked(e, c, p, [table |-> e, hole |-> p], 0)
  <1>1. Table(e, c) /\ c \in Nat /\ c > 0 /\ p \in 0 .. c - 1 /\ Used(e) \subseteq 0 .. c - 1
    BY UsedIs DEF Sound, Table
  <1>2. \A q \in 0 .. c - 1 : Ahead(c, p, q) = IF p <= q THEN q - p ELSE q + c - p
    BY <1>1, AheadIs
  <1>3. Shape(e, c, p, e, p, 0)
    BY <1>1, <1>2 DEF Shape
  <1>4. Kept(e, p, e, p)
    <2>1. \A i, j \in Used(e) : e[i] = e[j] => i = j
      BY DEF Sound, Distinct
    <2>2. {e[i] : i \in Live(e, p)} = Bag(e) \ {e[p]}
      BY <2>1 DEF Live, Bag
    <2>3. QED
      BY <2>2 DEF Kept, Live, Sound, Distinct
  <1>5. Near(e, c, p, e, p, 0)
    <2>1. \A i \in Live(e, p) : ~(Ahead(c, p, i) <= 0)
      BY <1>1, <1>2 DEF Live
    <2>2. \A i \in Live(e, p) : i \in Used(e)
      BY DEF Live
    <2>3. QED
      BY <2>1, <2>2 DEF Near, Sound, NoHole
  <1>6. Stays(e, p, e, p)
    BY <1>1 DEF Stays, Live
  <1>7. QED
    BY <1>3, <1>4, <1>5, <1>6 DEF Looked

\* The entry at slot i moves back into the hole h.
LEMMA MoveKept ==
  ASSUME Assumption, NEW e, NEW c, NEW p, NEW t, NEW h, Table(t, c), Kept(e, p, t, h),
         h \in Used(t), NEW i \in Live(t, h), NEW x \in Entry, x = t[i],
         NEW f, Becomes(t, c, h, x, f)
  PROVE  /\ Table(f, c) /\ Used(f) = Used(t) /\ Kept(e, p, f, i)
         /\ Live(f, i) = (Live(t, h) \ {i}) \cup {h}
         /\ f[h] = t[i] /\ \A j \in Live(t, h) : f[j] = t[j]
  <1>1. Used(t) \subseteq 0 .. c - 1 /\ i # h /\ i \in Used(t) /\ x.hash # 0
    BY UsedIs DEF Live
  <1>2. Table(f, c) /\ f[h] = t[i] /\ \A j \in 0 .. c - 1 : j # h => f[j] = t[j]
    BY DEF Becomes, Table
  <1>3. Used(f) = Used(t)
    <2>1. \A j \in 0 .. c - 1 : j \in Used(f) <=> j \in Used(t)
      BY <1>1, <1>2, UsedIs
    <2>2. QED
      BY <1>1, <1>2, <2>1, UsedIs
  <1>4. Live(f, i) = (Live(t, h) \ {i}) \cup {h}
    BY <1>1, <1>3 DEF Live
  <1>5. \A j \in Live(t, h) : f[j] = t[j]
    BY <1>1, <1>2 DEF Live
  <1>6. {f[j] : j \in Live(f, i)} = {t[j] : j \in Live(t, h)}
    <2>1. ASSUME NEW y \in {f[j] : j \in Live(f, i)} PROVE y \in {t[j] : j \in Live(t, h)}
      BY <1>2, <1>4, <1>5
    <2>2. ASSUME NEW y \in {t[j] : j \in Live(t, h)} PROVE y \in {f[j] : j \in Live(f, i)}
      <3>1. PICK j \in Live(t, h) : y = t[j]
        OBVIOUS
      <3>2. CASE j = i
        BY <1>2, <1>4, <3>1, <3>2
      <3>3. CASE j # i
        BY <1>4, <1>5, <3>1, <3>3
      <3>4. QED
        BY <3>2, <3>3
    <2>3. QED
      BY <2>1, <2>2
  <1>7. \A j, k \in Live(f, i) : f[j].key = f[k].key => j = k
    BY <1>2, <1>4, <1>5 DEF Kept
  <1>8. QED
    BY <1>2, <1>3, <1>4, <1>5, <1>6, <1>7 DEF Kept

LEMMA LookedNext ==
  ASSUME Assumption, NEW e, NEW c, Sound(e, c), NEW p \in Used(e),
         NEW v \in 0 .. c - 1, e[v].hash = 0,
         \A m \in 0 .. c - 1 : e[m].hash = 0 => Ahead(c, p, v) <= Ahead(c, p, m),
         NEW d \in Nat, d + 1 < Ahead(c, p, v),
         NEW s, Looked(e, c, p, s, d), NEW i \in 0 .. c - 1, Ahead(c, p, i) = d + 1
  PROVE  Looked(e, c, p, Shift(s, i), d + 1)
  <1>1. PICK t, h : s = [table |-> t, hole |-> h] /\ s.table = t /\ s.hole = h
    BY DEF Looked
  <1>2. Shape(e, c, p, t, h, d) /\ Kept(e, p, t, h) /\ Near(e, c, p, t, h, d) /\ Stays(e, p, t, h)
    BY <1>1 DEF Looked
  <1>3. /\ Table(e, c) /\ c \in Nat /\ c > 0 /\ p \in 0 .. c - 1 /\ Used(e) \subseteq 0 .. c - 1
        /\ Table(t, c) /\ h \in 0 .. c - 1 /\ Used(t) \subseteq 0 .. c - 1
    BY <1>2, UsedIs DEF Sound, Table, Shape
  <1>4. \A q \in 0 .. c - 1 : Ahead(c, p, q) = IF p <= q THEN q - p ELSE q + c - p
    BY <1>3, AheadIs
  <1>5. \A q \in 0 .. c - 1 : Ahead(c, p, q) <= d + 1 => q \in Used(t) /\ q \in Used(e)
    <2>1. SUFFICES ASSUME NEW q \in 0 .. c - 1, Ahead(c, p, q) <= d + 1
                   PROVE  q \in Used(t) /\ q \in Used(e)
      OBVIOUS
    <2>2. e[q].hash # 0
      BY <1>3, <1>4, <2>1
    <2>3. t[q].hash # 0
      BY <1>2, <2>2 DEF Shape
    <2>4. QED
      BY <1>3, <2>2, <2>3, UsedIs
  <1>6. i # h /\ i \in Live(t, h) /\ h \in Used(t) /\ t[i] = e[i]
    <2>1. Ahead(c, p, h) <= d
      BY <1>2 DEF Shape
    <2>2. i # h
      BY <1>3, <1>4, <2>1
    <2>3. i \in Used(t) /\ h \in Used(t)
      BY <1>3, <1>4, <1>5, <2>1
    <2>4. QED
      BY <1>2, <2>2, <2>3 DEF Shape, Live
  <1>7. PICK x \in Entry : x = t[i]
    BY <1>3 DEF Table
  <1>8. Capacity(t) = c
    BY <1>3, CapacityIs
  <1>9. Shift(s, i) = IF Dist(c, x, h) <= Dist(c, x, i)
                      THEN [table |-> [t EXCEPT ![h] = x], hole |-> i] ELSE s
    BY <1>1, <1>7, <1>8 DEF Shift, Dist
  <1>10. \A j \in Live(t, h) : j \in 0 .. c - 1 /\ t[j] \in Entry
    BY <1>3 DEF Live, Table
  <1>11. Dist(c, x, h) \in 0 .. c - 1 /\ Dist(c, x, i) \in 0 .. c - 1 /\ Dist(c, x, h) # Dist(c, x, i)
    BY <1>3, <1>6, <1>7, DistType
  <1>12. CASE Dist(c, x, h) <= Dist(c, x, i)
    <2>1. PICK f : f = [t EXCEPT ![h] = x]
      OBVIOUS
    <2>2. Becomes(t, c, h, x, f)
      BY <1>3, <2>1, ExceptBecomes
    <2>3. /\ Table(f, c) /\ Used(f) = Used(t) /\ Kept(e, p, f, i)
          /\ Live(f, i) = (Live(t, h) \ {i}) \cup {h}
          /\ f[h] = t[i] /\ \A j \in Live(t, h) : f[j] = t[j]
      BY <1>2, <1>3, <1>6, <1>7, <2>2, MoveKept
    <2>4. Shape(e, c, p, f, i, d + 1)
      <3>1. \A q \in 0 .. c - 1 : q # h => f[q] = t[q]
        BY <2>2 DEF Becomes
      <3>2. \A q \in 0 .. c - 1 : d + 1 < Ahead(c, p, q) => f[q] = e[q]
        BY <1>2, <1>3, <1>4, <3>1 DEF Shape
      <3>3. f[h].hash # 0 /\ t[h].hash # 0
        BY <1>3, <1>6, <2>3, UsedIs
      <3>4. \A q \in 0 .. c - 1 : f[q].hash = 0 <=> e[q].hash = 0
        BY <1>2, <3>1, <3>3 DEF Shape
      <3>5. QED
        BY <2>3, <3>2, <3>4 DEF Shape
    <2>5. Near(e, c, p, f, i, d + 1)
      <3>1. ASSUME NEW m \in 0 .. c - 1, e[m].hash = 0 PROVE Dist(c, x, h) < Dist(c, x, m)
        <4>1. Dist(c, x, i) < Dist(c, x, m) /\ Dist(c, x, m) \in 0 .. c - 1
          BY <1>2, <1>3, <1>6, <1>7, <3>1, DistType DEF Near
        <4>2. QED
          BY <1>3, <1>11, <1>12, <4>1
      <3>2. ASSUME NEW j \in Live(f, i), NEW m \in 0 .. c - 1, e[m].hash = 0
            PROVE  Dist(c, f[j], j) < Dist(c, f[j], m)
        <4>1. CASE j = h
          BY <1>7, <2>3, <3>1, <3>2, <4>1
        <4>2. CASE j # h
          BY <1>2, <2>3, <3>2, <4>2 DEF Near
        <4>3. QED
          BY <4>1, <4>2
      <3>3. ASSUME NEW j \in Live(f, i), Ahead(c, p, j) <= d + 1
            PROVE  Dist(c, f[j], j) < Dist(c, f[j], i)
        <4>1. CASE j = h
          BY <1>3, <1>7, <1>11, <1>12, <2>3, <4>1
        <4>2. CASE j # h
          <5>1. j \in Live(t, h) /\ j # i /\ f[j] = t[j] /\ j \in 0 .. c - 1 /\ t[j] \in Entry
            BY <1>10, <2>3, <4>2 DEF Live
          <5>2. Ahead(c, p, j) < Ahead(c, p, i) /\ Ahead(c, p, i) < Ahead(c, p, v)
            BY <1>3, <1>4, <3>3, <5>1
          <5>3. PICK y \in Entry : y = t[j]
            BY <5>1
          <5>4. Dist(c, y, j) < Dist(c, y, v)
            BY <1>2, <5>1, <5>3 DEF Near
          <5>5. Dist(c, y, j) < Dist(c, y, i)
            BY <1>3, <5>1, <5>2, <5>4, InFront
          <5>6. QED
            BY <5>1, <5>3, <5>5
        <4>3. QED
          BY <4>1, <4>2
      <3>4. QED
        BY <3>2, <3>3 DEF Near
    <2>6. Stays(e, p, f, i)
      <3>1. SUFFICES ASSUME NEW k \in Used(e), k > p
                     PROVE  \E j \in Live(f, i) : p <= j /\ j <= k /\ f[j] = e[k]
        BY DEF Stays
      <3>2. PICK j \in Live(t, h) : p <= j /\ j <= k /\ t[j] = e[k]
        BY <1>2, <3>1 DEF Stays
      <3>3. CASE j # i
        BY <2>3, <3>2, <3>3
      <3>4. CASE j = i
        <4>1. Ahead(c, p, h) <= d
          BY <1>2 DEF Shape
        <4>2. p <= h /\ h <= k
          BY <1>3, <1>4, <3>1, <3>2, <3>4, <4>1
        <4>3. h \in Live(f, i) /\ f[h] = e[k]
          BY <2>3, <3>2, <3>4
        <4>4. QED
          BY <4>2, <4>3
      <3>5. QED
        BY <3>3, <3>4
    <2>7. Shift(s, i) = [table |-> f, hole |-> i]
      BY <1>9, <1>12, <2>1
    <2>8. QED
      BY <2>3, <2>4, <2>5, <2>6, <2>7 DEF Looked
  <1>13. CASE ~(Dist(c, x, h) <= Dist(c, x, i))
    <2>1. Shape(e, c, p, t, h, d + 1)
      BY <1>2, <1>3, <1>4 DEF Shape
    <2>2. Near(e, c, p, t, h, d + 1)
      <3>1. ASSUME NEW j \in Live(t, h), Ahead(c, p, j) <= d + 1
            PROVE  Dist(c, t[j], j) < Dist(c, t[j], h)
        <4>1. CASE j = i
          BY <1>3, <1>7, <1>11, <1>13, <4>1
        <4>2. CASE j # i
          <5>1. Ahead(c, p, j) <= d
            BY <1>3, <1>4, <1>10, <3>1, <4>2
          <5>2. QED
            BY <1>2, <5>1 DEF Near
        <4>3. QED
          BY <4>1, <4>2
      <3>2. QED
        BY <1>2, <3>1 DEF Near
    <2>3. Shift(s, i) = s
      BY <1>9, <1>13
    <2>4. QED
      BY <1>1, <1>2, <2>1, <2>2, <2>3 DEF Looked
  <1>14. QED
    BY <1>12, <1>13

\* The hole is made an empty slot where the loop has left it.
LEMMA LookedLast ==
  ASSUME Assumption, NEW e, NEW c, Sound(e, c), NEW p \in Used(e),
         NEW v \in 0 .. c - 1, e[v].hash = 0,
         \A m \in 0 .. c - 1 : e[m].hash = 0 => Ahead(c, p, v) <= Ahead(c, p, m),
         NEW d \in Nat, d + 1 = Ahead(c, p, v), NEW t, NEW h,
         Shape(e, c, p, t, h, d), Kept(e, p, t, h), Near(e, c, p, t, h, d), Stays(e, p, t, h),
         NEW f, Becomes(t, c, h, Empty, f)
  PROVE  /\ Sound(f, c) /\ Bag(f) = Bag(e) \ {e[p]}
         /\ \A i \in Used(e) : i > p => \E j \in Used(f) : p <= j /\ j <= i /\ f[j] = e[i]
  <1>1. /\ Table(e, c) /\ c \in Nat /\ c > 0 /\ p \in 0 .. c - 1 /\ Used(e) \subseteq 0 .. c - 1
        /\ Table(t, c) /\ h \in 0 .. c - 1 /\ Used(t) \subseteq 0 .. c - 1
    BY UsedIs DEF Sound, Table, Shape
  <1>2. \A q \in 0 .. c - 1 : Ahead(c, p, q) = IF p <= q THEN q - p ELSE q + c - p
    BY <1>1, AheadIs
  <1>3. Table(f, c) /\ f[h].hash = 0 /\ \A j \in 0 .. c - 1 : j # h => f[j] = t[j]
    BY <1>1 DEF Becomes, Table, Empty
  <1>4. Used(f) = Live(t, h) /\ \A j \in Live(t, h) : f[j] = t[j]
    <2>1. \A j \in 0 .. c - 1 : j \in Used(f) <=> j \in Used(t) /\ j # h
      BY <1>1, <1>3, UsedIs
    <2>2. Used(f) \subseteq 0 .. c - 1
      BY <1>3, UsedIs
    <2>3. Used(f) = Live(t, h)
      BY <1>1, <2>1, <2>2 DEF Live
    <2>4. QED
      BY <1>1, <1>3, <2>3 DEF Live
  <1>5. Bag(f) = Bag(e) \ {e[p]}
    <2>1. Bag(f) = {t[j] : j \in Live(t, h)}
      BY <1>4 DEF Bag
    <2>2. QED
      BY <2>1 DEF Kept
  <1>6. Hashed(f)
    <2>1. SUFFICES ASSUME NEW j \in Used(f) PROVE f[j].hash = NHash(f[j].key)
      BY DEF Hashed
    <2>2. f[j] \in Bag(e)
      BY <1>5 DEF Bag
    <2>3. QED
      BY <2>2 DEF Bag, Sound, Hashed
  <1>7. Distinct(f)
    BY <1>4 DEF Distinct, Kept
  <1>8. NoHole(f, c)
    <2>1. SUFFICES ASSUME NEW i \in Used(f), NEW m \in 0 .. c - 1, f[m].hash = 0
                   PROVE  Dist(c, f[i], i) < Dist(c, f[i], m)
      BY DEF NoHole
    <2>2. i \in Live(t, h) /\ i \in 0 .. c - 1 /\ i \in Used(t) /\ f[i] = t[i]
      BY <1>1, <1>4 DEF Live
    <2>3. PICK x \in Entry : x = t[i]
      BY <1>1, <2>2 DEF Table
    <2>4. CASE m # h
      <3>1. e[m].hash = 0
        BY <1>3, <2>1, <2>4 DEF Shape
      <3>2. QED
        BY <2>2, <3>1 DEF Near
    <2>5. CASE m = h
      <3>1. CASE Ahead(c, p, i) <= d
        BY <2>2, <2>5, <3>1 DEF Near
      <3>2. CASE ~(Ahead(c, p, i) <= d)
        <4>1. e[i].hash # 0
          BY <1>1, <2>2, UsedIs DEF Shape
        <4>2. Ahead(c, p, i) # Ahead(c, p, v)
          BY <1>1, <1>2, <2>2, <4>1
        <4>3. Ahead(c, p, h) < Ahead(c, p, v) /\ Ahead(c, p, v) < Ahead(c, p, i)
          BY <1>1, <1>2, <2>2, <3>2, <4>2 DEF Shape
        <4>4. Dist(c, x, i) < Dist(c, x, v)
          BY <2>2, <2>3 DEF Near
        <4>5. Dist(c, x, i) < Dist(c, x, h)
          BY <1>1, <2>2, <4>3, <4>4, Behind
        <4>6. QED
          BY <2>2, <2>3, <2>5, <4>5
      <3>3. QED
        BY <3>1, <3>2
    <2>6. QED
      BY <2>4, <2>5
  <1>9. \A i \in Used(e) : i > p => \E j \in Used(f) : p <= j /\ j <= i /\ f[j] = e[i]
    BY <1>4 DEF Stays
  <1>10. QED
    BY <1>3, <1>5, <1>6, <1>7, <1>8, <1>9 DEF Sound

\* A removal takes out one entry, leaves the others where they are found, and
\* moves none from behind the hole to a place before it.
Closed(e, c, p, f) ==
  /\ Sound(f, c) /\ Bag(f) = Bag(e) \ {e[p]}
  /\ \A i \in Used(e) : i > p => \E j \in Used(f) : p <= j /\ j <= i /\ f[j] = e[i]

LEMMA CloseIs ==
  ASSUME Assumption, NEW e, NEW c, Sound(e, c), HasRoom(e, c), NEW p \in Used(e)
  PROVE  Closed(e, c, p, Close(e, p))
  <1>1. /\ Table(e, c) /\ c \in Nat /\ c > 0 /\ p \in 0 .. c - 1 /\ Used(e) \subseteq 0 .. c - 1
        /\ Capacity(e) = c /\ e[p].hash # 0
    BY UsedIs, CapacityIs DEF Sound, Table
  <1>2. p % c = p
    BY <1>1
  <1>3. PICK v \in 0 .. c - 1 : v = Free(e, p)
    BY <1>1, FreeIs DEF HasRoom
  <1>4. e[v].hash = 0 /\ \A m \in 0 .. c - 1 : e[m].hash = 0 => Ahead(c, p, v) <= Ahead(c, p, m)
    BY <1>1, <1>2, <1>3, FreeIs DEF HasRoom
  <1>5. \A q \in 0 .. c - 1 : Ahead(c, p, q) = IF p <= q THEN q - p ELSE q + c - p
    BY <1>1, AheadIs
  <1>6. PICK run \in Nat : run = Ahead(c, p, v) - 1
    <2>1. v # p
      BY <1>1, <1>4
    <2>2. Ahead(c, p, v) - 1 \in Nat
      BY <1>1, <1>5, <2>1
    <2>3. QED
      BY <2>2
  <1>7. run + 1 = Ahead(c, p, v) /\ run + 1 <= c - 1
    BY <1>1, <1>5, <1>6
  <1>8. PICK g : g = CHOOSE h : States(e, c, p, run, h)
    OBVIOUS
  <1>9. States(e, c, p, run, g)
    <2>1. p \in Nat
      BY <1>1
    <2>2. \E h : States(e, c, p, run, h)
      BY <1>1, <2>1, StatesExist
    <2>3. QED
      BY <1>8, <2>2
  <1>10. Close(e, p) = [g[run].table EXCEPT ![g[run].hole] = Empty]
    BY <1>1, <1>3, <1>6, <1>8 DEF Close, States
  <1> DEFINE T == {d \in 0 .. run : Looked(e, c, p, g[d], d)}
  <1>11. 0 \in T
    <2>1. g[0] = [table |-> e, hole |-> p]
      BY <1>9 DEF States
    <2>2. QED
      BY <2>1, LookedFirst
  <1>12. ASSUME NEW d \in 0 .. run, d \in T, d < run PROVE d + 1 \in T
    <2>1. PICK i \in 0 .. c - 1 : i = IF p + (d + 1) < c THEN p + (d + 1) ELSE p + (d + 1) - c
      <3>1. (IF p + (d + 1) < c THEN p + (d + 1) ELSE p + (d + 1) - c) \in 0 .. c - 1
        BY <1>1, <1>7, <1>12
      <3>2. QED
        BY <3>1
    <2>2. (p + (d + 1)) % c = i
      <3>1. d + 1 \in 0 .. c - 1
        BY <1>1, <1>7, <1>12
      <3>2. (p + (d + 1)) % c = IF (p % c) + (d + 1) < c THEN (p % c) + (d + 1) ELSE (p % c) + (d + 1) - c
        BY <1>1, <3>1, GoOn
      <3>3. QED
        BY <1>2, <2>1, <3>2
    <2>3. Ahead(c, p, i) = d + 1
      BY <1>1, <1>5, <1>7, <1>12, <2>1
    <2>4. g[d + 1] = Shift(g[d], i)
      <3>1. d + 1 \in 0 .. run /\ d + 1 # 0 /\ (d + 1) - 1 = d
        BY <1>12
      <3>2. g[d + 1] = Shift(g[d], (p + (d + 1)) % c)
        BY <1>9, <3>1 DEF States
      <3>3. QED
        BY <2>2, <3>2
    <2>5. d \in Nat /\ d + 1 < Ahead(c, p, v) /\ Looked(e, c, p, g[d], d)
      BY <1>7, <1>12
    <2>6. Looked(e, c, p, Shift(g[d], i), d + 1)
      BY <1>4, <2>3, <2>5, LookedNext
    <2>7. QED
      BY <1>12, <2>4, <2>6
  <1>13. Looked(e, c, p, g[run], run)
    <2>1. \A d \in 0 .. run : d \in T
      <3> HIDE DEF T
      <3> QED
        BY <1>11, <1>12, Induct
    <2>2. QED
      BY <2>1
  <1>14. PICK t, h : t = g[run].table /\ h = g[run].hole
    OBVIOUS
  <1>15. Shape(e, c, p, t, h, run) /\ Kept(e, p, t, h) /\ Near(e, c, p, t, h, run) /\ Stays(e, p, t, h)
    BY <1>13, <1>14 DEF Looked
  <1>16. PICK f : f = [t EXCEPT ![h] = Empty]
    OBVIOUS
  <1>17. Becomes(t, c, h, Empty, f)
    <2>1. Empty \in Entry
      BY DEF Entry
    <2>2. QED
      BY <1>15, <1>16, <2>1, ExceptBecomes DEF Shape
  <1>18. Closed(e, c, p, f)
    <2>1. Sound(f, c)
      BY <1>4, <1>7, <1>15, <1>17, LookedLast
    <2>2. Bag(f) = Bag(e) \ {e[p]}
      BY <1>4, <1>7, <1>15, <1>17, LookedLast, SMTT(30)
    <2>3. \A i \in Used(e) : i > p => \E j \in Used(f) : p <= j /\ j <= i /\ f[j] = e[i]
      BY <1>4, <1>7, <1>15, <1>17, LookedLast, SMTT(30)
    <2>4. QED
      BY <2>1, <2>2, <2>3 DEF Closed
  <1>19. QED
    BY <1>10, <1>14, <1>16, <1>18

-----------------------------------------------------------------------------
(***************************************************************************)
(* Capacities.                                                             *)
(***************************************************************************)

Doubles(n, g) == g = [k \in 0 .. n |-> IF k = 0 THEN Initial ELSE 2 * g[k - 1]]

LEMMA DoublesExist == ASSUME NEW w \in Nat PROVE \E g : Doubles(w, g)
  <1> DEFINE T == {n \in 0 .. w : \E g : Doubles(n, g)}
  <1>1. 0 \in T
    <2>1. PICK g : g = [n \in 0 .. 0 |-> Initial]
      OBVIOUS
    <2>2. Doubles(0, g)
      BY <2>1 DEF Doubles
    <2>3. QED
      BY <2>2
  <1>2. ASSUME NEW n \in 0 .. w, n \in T, n < w PROVE n + 1 \in T
    <2>1. PICK g : Doubles(n, g)
      BY <1>2
    <2>2. PICK t : t = 2 * g[n]
      OBVIOUS
    <2>3. PICK h : h = [k \in 0 .. n + 1 |-> IF k = n + 1 THEN t ELSE g[k]]
      OBVIOUS
    <2>4. ASSUME NEW k \in 0 .. n + 1 PROVE h[k] = IF k = 0 THEN Initial ELSE 2 * h[k - 1]
      <3>1. CASE k = n + 1
        <4>1. k # 0 /\ k - 1 = n /\ h[k] = t /\ h[n] = g[n]
          BY <2>3, <3>1
        <4>2. QED
          BY <2>2, <4>1
      <3>2. CASE k # n + 1
        <4>1. k \in 0 .. n /\ h[k] = g[k]
          BY <2>3, <3>2
        <4>2. k # 0 => h[k - 1] = g[k - 1]
          BY <2>3, <4>1
        <4>3. g[k] = IF k = 0 THEN Initial ELSE 2 * g[k - 1]
          BY <2>1, <4>1 DEF Doubles
        <4>4. QED
          BY <4>1, <4>2, <4>3
      <3>3. QED
        BY <3>1, <3>2
    <2>5. Doubles(n + 1, h)
      BY <2>3, <2>4 DEF Doubles
    <2>6. QED
      BY <1>2, <2>5
  <1>3. \A n \in 0 .. w : n \in T
    <2> HIDE DEF T
    <2> QED
      BY <1>1, <1>2, Induct
  <1>4. QED
    BY <1>3

LEMMA DoubledIs ==
  ASSUME Assumption
  PROVE  \A n \in 0 .. Width : Doubled[n] = IF n = 0 THEN Initial ELSE 2 * Doubled[n - 1]
  <1>1. Width \in Nat
    BY DEF Assumption
  <1>2. Doubled = CHOOSE g : Doubles(Width, g)
    BY DEF Doubled, Doubles
  <1>3. Doubles(Width, Doubled)
    BY <1>1, <1>2, DoublesExist
  <1>4. QED
    BY <1>3 DEF Doubles

LEMMA DoubledType ==
  ASSUME Assumption
  PROVE  /\ \A n \in 0 .. Width : Doubled[n] \in Nat /\ Doubled[n] >= 4 /\ Doubled[n] >= Initial
         /\ \A n, m \in 0 .. Width : n < m => 2 * Doubled[n] <= Doubled[m]
  <1>1. Width \in Nat /\ Initial \in Nat /\ Initial >= 4
    BY DEF Assumption
  <1> DEFINE Grows(m) == /\ Doubled[m] \in Nat /\ Doubled[m] >= Initial
                         /\ \A n \in 0 .. m - 1 : Doubled[n] \in Nat /\ 2 * Doubled[n] <= Doubled[m]
             T == {m \in 0 .. Width : Grows(m)}
  <1>2. 0 \in T
    BY <1>1, DoubledIs
  <1>3. ASSUME NEW m \in 0 .. Width, m \in T, m < Width PROVE m + 1 \in T
    <2>1. m + 1 \in 0 .. Width /\ m + 1 # 0 /\ (m + 1) - 1 = m
      BY <1>1, <1>3
    <2>2. Doubled[m + 1] = 2 * Doubled[m]
      BY <2>1, DoubledIs
    <2>3. Doubled[m] \in Nat /\ Doubled[m] >= Initial
      BY <1>3
    <2>4. ASSUME NEW n \in 0 .. (m + 1) - 1
          PROVE  Doubled[n] \in Nat /\ 2 * Doubled[n] <= Doubled[m + 1]
      <3>1. CASE n = m
        BY <2>2, <2>3, <3>1
      <3>2. CASE n # m
        <4>1. n \in 0 .. m - 1
          BY <3>2
        <4>2. Doubled[n] \in Nat /\ 2 * Doubled[n] <= Doubled[m]
          BY <1>3, <4>1
        <4>3. QED
          BY <2>2, <2>3, <4>2
      <3>3. QED
        BY <3>1, <3>2
    <2>5. Doubled[m + 1] \in Nat /\ Doubled[m + 1] >= Initial
      BY <1>1, <2>2, <2>3
    <2>6. QED
      BY <2>1, <2>4, <2>5
  <1>4. \A m \in 0 .. Width : m \in T
    <2> HIDE DEF T
    <2> QED
      BY <1>1, <1>2, <1>3, Induct
  <1>5. \A m \in 0 .. Width : Grows(m)
    BY <1>4
  <1>6. ASSUME NEW n \in 0 .. Width, NEW m \in 0 .. Width, n < m
        PROVE  2 * Doubled[n] <= Doubled[m]
    <2>1. n \in 0 .. m - 1
      BY <1>6
    <2>2. QED
      BY <1>5, <2>1
  <1>7. \A n \in 0 .. Width : Doubled[n] \in Nat /\ Doubled[n] >= 4 /\ Doubled[n] >= Initial
    BY <1>1, <1>5
  <1>8. QED
    BY <1>6, <1>7

\* A sound table of a capacity the code may choose, that is not too full.
Fit(e, c) ==
  /\ Sound(e, c)
  /\ c <= Maximal /\ \E n \in 0 .. Width : c = Doubled[n]
  /\ Count(e) <= MaxLoad(c)

LEMMA FitIs ==
  ASSUME Assumption, NEW e, NEW c, Fit(e, c)
  PROVE  /\ Sound(e, c) /\ HasRoom(e, c) /\ Capacity(e) = c
         /\ c \in Nat /\ c >= 4 /\ c >= Initial /\ Count(e) \in Nat /\ Count(e) < c
  <1>1. Sound(e, c) /\ Table(e, c) /\ Count(e) <= MaxLoad(c)
    BY DEF Fit, Sound
  <1>2. c \in Nat /\ c >= 4 /\ c >= Initial
    BY DoubledType DEF Fit
  <1>3. Count(e) \in Nat /\ Capacity(e) = c
    BY <1>1, UsedIs, CapacityIs
  <1>4. Count(e) < c
    BY <1>1, <1>2, <1>3 DEF MaxLoad
  <1>5. QED
    BY <1>1, <1>2, <1>3, <1>4, RoomIs

LEMMA ReserveIs ==
  ASSUME Assumption, NEW e, NEW c, Fit(e, c), Count(e) + 1 <= MaxLoad(Maximal)
  PROVE  \E b : /\ Fit(Reserve(e), b) /\ Bag(Reserve(e)) = Bag(e)
                /\ Count(Reserve(e)) = Count(e) /\ Count(e) + 1 <= MaxLoad(b)
  <1>1. /\ Sound(e, c) /\ Capacity(e) = c /\ c \in Nat /\ c >= 4
        /\ Count(e) \in Nat /\ Count(e) < c
    BY FitIs
  <1>2. CASE Count(e) + 1 <= MaxLoad(c)
    BY <1>1, <1>2 DEF Reserve
  <1>3. CASE ~(Count(e) + 1 <= MaxLoad(c))
    <2>1. Reserve(e) = Resize(e, 2 * c)
      BY <1>1, <1>3 DEF Reserve
    <2>2. 2 * c \in Nat /\ Count(e) < 2 * c /\ Count(e) + 1 <= MaxLoad(2 * c)
      BY <1>1 DEF MaxLoad
    <2>3. /\ Sound(Resize(e, 2 * c), 2 * c) /\ Bag(Resize(e, 2 * c)) = Bag(e)
          /\ Count(Resize(e, 2 * c)) = Count(e)
      BY <1>1, <2>2, ResizeIs
    <2>4. PICK n \in 0 .. Width, m \in 0 .. Width : c = Doubled[n] /\ c <= Maximal /\ Maximal = Doubled[m]
      BY DEF Fit, Assumption
    <2>5. Width \in Nat /\ c < Maximal
      BY <1>1, <1>3, <2>4, DoubledType DEF Assumption
    <2>6. n < m
      <3>1. ~(m < n) /\ m # n
        BY <1>1, <2>4, <2>5, DoubledType
      <3>2. QED
        BY <2>5, <3>1
    <2>7. n + 1 \in 0 .. Width /\ n + 1 <= m
      BY <2>5, <2>6
    <2>8. Doubled[n + 1] = 2 * c
      BY <2>4, <2>7, DoubledIs
    <2>9. 2 * c <= Maximal
      BY <2>4, <2>6, DoubledType
    <2>10. Fit(Resize(e, 2 * c), 2 * c)
      <3>1. Count(e) <= MaxLoad(2 * c)
        BY <1>1, <2>2 DEF MaxLoad
      <3>2. QED
        BY <2>3, <2>7, <2>8, <2>9, <3>1 DEF Fit
    <2>11. QED
      BY <2>1, <2>2, <2>3, <2>10
  <1>4. QED
    BY <1>2, <1>3

-----------------------------------------------------------------------------
(***************************************************************************)
(* The operations.                                                         *)
(***************************************************************************)

\* The entries of other keys.
Others(e, k) == {y \in Bag(e) : y.key # k}

\* Table f holds what table e does, but entry x for key k.
Gains(f, e, k, x) == Bag(f) = Others(e, k) \cup {x}

LEMMA PutIs ==
  ASSUME Assumption, NEW e, NEW c, Fit(e, c), Count(e) + 1 <= MaxLoad(c),
         NEW k \in Keys, NEW v \in Vals, NEW x, x = [hash |-> NHash(k), key |-> k, val |-> v],
         NEW f, f = [e EXCEPT ![Find(e, k)] = x]
  PROVE  Fit(f, c) /\ Gains(f, e, k, x)
  <1>1. Sound(e, c) /\ HasRoom(e, c) /\ Table(e, c) /\ c \in Nat
    BY FitIs DEF Sound
  <1>2. x \in Entry /\ x.hash # 0 /\ x.hash = NHash(x.key) /\ x.key = k
    <2>1. PICK w : w = 2 ^ Width
      OBVIOUS
    <2>2. w \in Nat /\ w > 1 /\ NHash(k) \in 1 .. w - 1
      BY <2>1, HashType DEF Assumption
    <2>3. x \in [hash : 1 .. w - 1, key : Keys, val : Vals]
      BY <2>2
    <2>4. QED
      BY <2>1, <2>2, <2>3 DEF Entry
  <1>3. CASE \E i \in Used(e) : e[i].key = k
    <2>1. PICK j \in Used(e) : e[j].key = k
      BY <1>3
    <2>2. Find(e, k) = j /\ j \in 0 .. c - 1
      BY <1>1, <2>1, FindThere, UsedIs
    <2>3. Becomes(e, c, j, x, f)
      BY <1>1, <1>2, <2>2, ExceptBecomes
    <2>4. Sound(f, c)
      BY <1>1, <1>2, <2>1, <2>3, PutOld
    <2>5. Bag(f) = (Bag(e) \ {e[j]}) \cup {x}
      BY <1>1, <1>2, <2>1, <2>3, PutOld, SMTT(30)
    <2>6. Others(e, k) = Bag(e) \ {e[j]}
      BY <1>1, <2>1 DEF Others, Bag, Sound, Distinct
    <2>7. Count(f) <= Count(e)
      <3>1. \A i \in 0 .. c - 1 : f[i].hash # 0 => e[i].hash # 0
        BY <1>1, <2>1, <2>2, <2>3, UsedIs DEF Becomes
      <3>2. Used(f) \subseteq Used(e) /\ IsFiniteSet(Used(e))
        BY <1>1, <2>4, <3>1, UsedIs DEF Sound
      <3>3. QED
        BY <3>2, FS_Subset DEF Count
    <2>8. Count(f) <= MaxLoad(c)
      <3>1. Count(f) \in Nat /\ Count(e) \in Nat /\ MaxLoad(c) \in Int
        BY <1>1, <2>4, UsedIs DEF Sound, MaxLoad
      <3>2. Count(e) <= MaxLoad(c)
        BY DEF Fit
      <3>3. QED
        BY <2>7, <3>1, <3>2
    <2>9. QED
      BY <2>4, <2>5, <2>6, <2>8 DEF Fit, Gains
  <1>4. CASE ~\E i \in Used(e) : e[i].key = k
    <2>1. \A i \in Used(e) : e[i].key # x.key
      BY <1>2, <1>4
    <2>2. PICK j \in 0 .. c - 1 : j = Find(e, k)
      BY <1>1, <1>2, <2>1, FindNone
    <2>3. e[j].hash = 0 /\ \A m \in 0 .. c - 1 : e[m].hash = 0 => Dist(c, x, j) <= Dist(c, x, m)
      BY <1>1, <1>2, <2>1, <2>2, FindNone
    <2>4. Becomes(e, c, j, x, f)
      BY <1>1, <1>2, <2>2, ExceptBecomes
    <2>5. Sound(f, c)
      BY <1>1, <1>2, <2>1, <2>3, <2>4, PutNew
    <2>6. Bag(f) = Bag(e) \cup {x}
      BY <1>1, <1>2, <2>1, <2>3, <2>4, PutNew, SMTT(30)
    <2>7. Others(e, k) = Bag(e)
      BY <1>4 DEF Others, Bag
    <2>8. Count(f) = Count(e) + 1
      <3>1. x \notin Bag(e)
        BY <2>1 DEF Bag
      <3>2. /\ IsFiniteSet(Bag(e)) /\ Cardinality(Bag(e)) = Count(e)
            /\ Cardinality(Bag(f)) = Count(f)
        BY <1>1, <2>5, CountIs DEF Sound
      <3>3. QED
        BY <2>6, <3>1, <3>2, FS_AddElement
    <2>9. QED
      BY <2>5, <2>6, <2>7, <2>8 DEF Fit, Gains
  <1>5. QED
    BY <1>3, <1>4

LEMMA ClosedFit ==
  ASSUME Assumption, NEW e, NEW c, Fit(e, c), NEW p \in Used(e), NEW f, Closed(e, c, p, f)
  PROVE  Fit(f, c) /\ Bag(f) = Others(e, e[p].key)
  <1>1. Sound(e, c) /\ Sound(f, c) /\ Bag(f) = Bag(e) \ {e[p]} /\ c \in Nat
    BY FitIs DEF Closed
  <1>2. Others(e, e[p].key) = Bag(e) \ {e[p]}
    BY <1>1 DEF Others, Bag, Sound, Distinct
  <1>3. /\ IsFiniteSet(Bag(e)) /\ Cardinality(Bag(e)) = Count(e)
        /\ Cardinality(Bag(f)) = Count(f) /\ Count(e) \in Nat /\ Count(f) \in Nat
    BY <1>1, CountIs, UsedIs DEF Sound
  <1>4. Cardinality(Bag(f)) <= Cardinality(Bag(e))
    BY <1>1, <1>3, FS_Subset
  <1>5. Count(f) <= MaxLoad(c)
    <2>1. Count(e) <= MaxLoad(c) /\ MaxLoad(c) \in Int
      BY <1>1 DEF Fit, MaxLoad
    <2>2. QED
      BY <1>3, <1>4, <2>1
  <1>6. QED
    BY <1>1, <1>2, <1>5 DEF Fit

LEMMA ShrunkIs ==
  ASSUME Assumption, NEW e, NEW c, Fit(e, c)
  PROVE  /\ \E b : Fit(Shrunk(e), b)
         /\ Bag(Shrunk(e)) = Bag(e)
         /\ Slots(Shrunk(e)) = Slots(e) => Shrunk(e) = e
  <1>1. /\ Sound(e, c) /\ Capacity(e) = c /\ c \in Nat /\ c >= 4
        /\ Count(e) \in Nat /\ Count(e) < c
    BY FitIs
  <1>2. CASE ~(c > Initial /\ Count(e) < c \div 8)
    BY <1>1, <1>2 DEF Shrunk
  <1>3. CASE c > Initial /\ Count(e) < c \div 8
    <2>1. PICK n \in 0 .. Width : c = Doubled[n] /\ c <= Maximal
      BY DEF Fit
    <2>2. n # 0 /\ n - 1 \in 0 .. Width /\ Initial \in Nat /\ Maximal \in Nat
      BY <1>3, <2>1, DoubledIs, DoubledType DEF Assumption
    <2>3. PICK b \in Nat : b = Doubled[n - 1]
      BY <2>2, DoubledType
    <2>4. c = 2 * b
      BY <2>1, <2>2, <2>3, DoubledIs
    <2>5. c \div 2 = b /\ Count(e) < b /\ b <= Maximal /\ Count(e) <= MaxLoad(b) /\ b # c
      BY <1>1, <1>3, <2>1, <2>2, <2>4 DEF MaxLoad
    <2>6. Shrunk(e) = Resize(e, b)
      BY <1>1, <1>3, <2>5 DEF Shrunk
    <2>7. Sound(Resize(e, b), b) /\ Bag(Resize(e, b)) = Bag(e) /\ Count(Resize(e, b)) = Count(e)
      BY <1>1, <2>5, ResizeIs
    <2>8. Fit(Resize(e, b), b)
      BY <2>2, <2>3, <2>5, <2>7 DEF Fit
    <2>9. Slots(Resize(e, b)) # Slots(e)
      BY <1>1, <2>5, <2>7, CapacityIs DEF Sound, Capacity
    <2>10. QED
      BY <2>6, <2>7, <2>8, <2>9
  <1>4. QED
    BY <1>2, <1>3

LEMMA RemovedIs ==
  ASSUME Assumption, NEW e, NEW c, Fit(e, c), NEW k \in Keys, Get(e, k) # {}
  PROVE  /\ \E b : Fit(Removed(e, k), b)
         /\ Bag(Removed(e, k)) = Others(e, k)
         /\ Slots(Removed(e, k)) = Slots(e) =>
              \E p \in Used(e) : e[p].key = k /\ Closed(e, c, p, Removed(e, k))
  <1>1. Sound(e, c) /\ HasRoom(e, c) /\ Table(e, c)
    BY FitIs DEF Sound
  <1>2. PICK p \in Used(e) : Find(e, k) = p /\ e[p].key = k
    <2>1. Value(e, k) # {}
      BY <1>1, GetIs
    <2>2. PICK y \in Bag(e) : y.key = k
      BY <2>1 DEF Value
    <2>3. PICK p \in Used(e) : y = e[p]
      BY <2>2 DEF Bag
    <2>4. Find(e, k) = p
      BY <1>1, <2>2, <2>3, FindThere
    <2>5. QED
      BY <2>2, <2>3, <2>4
  <1>3. PICK f : f = Close(e, p)
    OBVIOUS
  <1>4. Closed(e, c, p, f)
    BY <1>1, <1>3, CloseIs
  <1>5. Fit(f, c)
    BY <1>4, ClosedFit
  <1>6. Bag(f) = Others(e, k)
    BY <1>2, <1>4, ClosedFit, SMTT(30)
  <1>7. Removed(e, k) = Shrunk(f)
    BY <1>2, <1>3 DEF Removed
  <1>8. (\E b : Fit(Shrunk(f), b)) /\ (Slots(Shrunk(f)) = Slots(f) => Shrunk(f) = f)
    BY <1>5, ShrunkIs
  <1>9. Bag(Shrunk(f)) = Bag(f)
    BY <1>5, ShrunkIs, SMTT(30)
  <1>10. Slots(f) = Slots(e)
    BY <1>1, <1>4, CapacityIs DEF Closed, Sound
  <1>11. QED
    BY <1>2, <1>4, <1>6, <1>7, <1>8, <1>9, <1>10

-----------------------------------------------------------------------------
(***************************************************************************)
(* The invariant.                                                          *)
(***************************************************************************)

TableInv == \E c : Fit(entries, c)

IterInv == /\ seen \subseteq Keys /\ begun \subseteq Keys
           /\ \/ iter = NoIter /\ seen = {}
              \/ iter \in [entry : Nat, key : Keys] /\ iter.key \in seen

IInv == TableInv /\ IterInv

LEMMA InitFit == ASSUME Assumption, Init PROVE IInv
  <1>1. Initial \in Nat /\ Initial >= 4 /\ Width \in Nat
    BY DEF Assumption
  <1>2. Sound(NewTable(Initial), Initial) /\ Count(NewTable(Initial)) = 0
    BY <1>1, NewSound
  <1>3. 0 \in 0 .. Width /\ Initial = Doubled[0] /\ Initial <= Maximal
    <2>1. PICK n \in 0 .. Width : Maximal = Doubled[n]
      BY DEF Assumption
    <2>2. Maximal >= Initial /\ Maximal \in Nat
      BY <2>1, DoubledType
    <2>3. 0 \in 0 .. Width
      BY <1>1
    <2>4. QED
      BY <1>1, <2>2, <2>3, DoubledIs
  <1>4. 0 <= MaxLoad(Initial)
    BY <1>1 DEF MaxLoad
  <1>5. Fit(NewTable(Initial), Initial)
    BY <1>2, <1>3, <1>4 DEF Fit
  <1>6. QED
    BY <1>5 DEF Init, IInv, TableInv, IterInv

\* What a put makes of the table, and what a removal does.
LEMMA PutStep ==
  ASSUME Assumption, TableInv, NEW k \in Keys, NEW v \in Vals, Put(k, v)
  PROVE  /\ TableInv'
         /\ Bag(entries') = Others(entries, k) \cup {[hash |-> NHash(k), key |-> k, val |-> v]}
  <1>1. PICK c : Fit(entries, c)
    BY DEF TableInv
  <1>2. PICK e : e = Reserve(entries)
    OBVIOUS
  <1>3. Count(entries) + 1 <= MaxLoad(Maximal)
    BY DEF Put
  <1>4. PICK b : /\ Fit(e, b) /\ Bag(e) = Bag(entries)
                 /\ Count(e) = Count(entries) /\ Count(entries) + 1 <= MaxLoad(b)
    BY <1>1, <1>2, <1>3, ReserveIs
  <1>5. PICK x : x = [hash |-> NHash(k), key |-> k, val |-> v]
    OBVIOUS
  <1>6. entries' = [e EXCEPT ![Find(e, k)] = x]
    BY <1>2, <1>5 DEF Put
  <1>7. PICK f : f = [e EXCEPT ![Find(e, k)] = x]
    OBVIOUS
  <1>8. Count(e) + 1 <= MaxLoad(b)
    BY <1>4
  <1>9. Fit(f, b)
    BY <1>4, <1>5, <1>7, <1>8, PutIs
  <1>10. Bag(f) = Others(e, k) \cup {x}
    <2>1. Gains(f, e, k, x)
      BY <1>4, <1>5, <1>7, <1>8, PutIs
    <2>2. QED
      BY <2>1 DEF Gains
  <1>11. Others(e, k) = Others(entries, k)
    BY <1>4 DEF Others
  <1>12. entries' = f
    BY <1>6, <1>7
  <1>13. QED
    BY <1>5, <1>9, <1>10, <1>11, <1>12 DEF TableInv

LEMMA RemoveStep ==
  ASSUME Assumption, TableInv, NEW k \in Keys, Get(entries, k) # {},
         entries' = Removed(entries, k)
  PROVE  TableInv' /\ Bag(entries') = Others(entries, k)
  <1>1. PICK c : Fit(entries, c)
    BY DEF TableInv
  <1>2. PICK f : f = Removed(entries, k)
    OBVIOUS
  <1>3. \E b : Fit(f, b)
    BY <1>1, <1>2, RemovedIs
  <1>4. Bag(f) = Others(entries, k)
    BY <1>1, <1>2, RemovedIs, SMTT(30)
  <1>5. entries' = f
    BY <1>2
  <1>6. QED
    BY <1>3, <1>4, <1>5 DEF TableInv

\* Every entry of the table has a key of Keys.
LEMMA StoredType ==
  ASSUME Assumption, TableInv
  PROVE  /\ Used(entries) \subseteq Nat
         /\ \A i \in Used(entries) : entries[i].key \in Keys
  <1>1. PICK c : Fit(entries, c)
    BY DEF TableInv
  <1>2. Table(entries, c)
    BY <1>1, FitIs DEF Sound
  <1>3. /\ Used(entries) \subseteq 0 .. c - 1
        /\ \A i \in 0 .. c - 1 : i \in Used(entries) <=> entries[i].hash # 0
    BY <1>2, UsedIs
  <1>4. \A i \in 0 .. c - 1 : entries[i] \in Entry
    BY <1>2 DEF Table
  <1>5. QED
    BY <1>3, <1>4, EntryType

LEMMA LeastIs == ASSUME NEW S, S \subseteq Nat, S # {} PROVE Least(S) \in S /\ \A j \in S : Least(S) <= j
  BY LeastOf DEF Least

\* Where the iterator goes.
LEMMA ReturnType ==
  ASSUME Assumption, IInv, NEW i \in Used(entries), Return(i)
  PROVE  iter' \in [entry : Nat, key : Keys] /\ iter'.key \in seen' /\ seen' \subseteq Keys
  <1>1. i \in Nat /\ entries[i].key \in Keys
    BY StoredType DEF IInv
  <1>2. QED
    BY <1>1 DEF Return, IInv, IterInv

LEMMA NoIterIs == ASSUME Assumption, NEW t \in [entry : Nat, key : Keys] PROVE t # NoIter
  BY DEF NoIter, Assumption

LEMMA LaterLeast ==
  ASSUME Assumption, IInv, NEW i \in Nat, Later(i) # {}
  PROVE  /\ Least(Later(i)) \in Used(entries) /\ Least(Later(i)) >= i
         /\ \A j \in Used(entries) : j >= i => j >= Least(Later(i))
  <1>1. Used(entries) \subseteq Nat
    BY StoredType DEF IInv
  <1>2. Later(i) \subseteq Nat
    BY <1>1 DEF Later
  <1>3. Least(Later(i)) \in Later(i) /\ \A j \in Later(i) : Least(Later(i)) <= j
    BY <1>2, LeastIs
  <1>4. QED
    BY <1>1, <1>3 DEF Later

LEMMA InvNext == ASSUME Assumption, IInv, [Next]_vars PROVE IInv'
  <1>1. TableInv /\ IterInv
    BY DEF IInv
  <1>2. ASSUME NEW k \in Keys, Remove(k) PROVE IInv'
    <2>1. TableInv'
      BY <1>1, <1>2, RemoveStep DEF Remove
    <2>2. QED
      BY <1>1, <1>2, <2>1 DEF Remove, IInv, IterInv
  <1>3. ASSUME NEW k \in Keys, NEW v \in Vals, Put(k, v) PROVE IInv'
    <2>1. TableInv'
      BY <1>1, <1>3, PutStep
    <2>2. QED
      BY <1>1, <1>3, <2>1 DEF Put, IInv, IterInv
  <1>4. CASE IterBegin
    <2>1. TableInv'
      BY <1>1, <1>4 DEF IterBegin, TableInv
    <2>2. Used(entries) \subseteq Nat /\ Used(entries) # {}
      BY <1>1, <1>4, StoredType DEF IterBegin
    <2>3. Later(0) # {}
      BY <2>2 DEF Later
    <2>4. PICK i \in Used(entries) : i = Least(Later(0))
      BY <2>3, LaterLeast
    <2>5. Return(i)
      BY <1>4, <2>4 DEF IterBegin
    <2>6. begun' \subseteq Keys
      BY <1>1, <1>4, StoredType DEF IterBegin, Stored
    <2>7. QED
      BY <2>1, <2>5, <2>6, ReturnType DEF IInv, IterInv
  <1>5. CASE IterNext
    <2>1. TableInv' /\ begun' \subseteq Keys
      BY <1>1, <1>5 DEF IterNext, TableInv, IterInv
    <2>2. iter \in [entry : Nat, key : Keys]
      BY <1>1, <1>5 DEF IterInv, IterNext
    <2>3. PICK i \in Used(entries) : Return(i)
      <3>1. CASE Replaced
        BY <1>5, <3>1 DEF IterNext, Replaced
      <3>2. CASE ~Replaced
        <4>1. Later(iter.entry + 1) # {} /\ Return(Least(Later(iter.entry + 1)))
          BY <1>5, <3>2 DEF IterNext
        <4>2. iter.entry + 1 \in Nat
          BY <2>2
        <4>3. QED
          BY <4>1, <4>2, LaterLeast
      <3>3. QED
        BY <3>1, <3>2
    <2>4. QED
      BY <2>1, <2>3, ReturnType DEF IInv, IterInv
  <1>6. CASE IterEnd
    BY <1>1, <1>6 DEF IterEnd, IInv, IterInv, TableInv
  <1>7. CASE RemoveCurrent
    <2>1. iter.key \in Keys
      BY <1>1, <1>7 DEF RemoveCurrent, IterInv
    <2>2. TableInv'
      BY <1>1, <1>7, <2>1, RemoveStep DEF RemoveCurrent
    <2>3. QED
      BY <1>1, <1>7, <2>2 DEF RemoveCurrent, IInv, IterInv
  <1>8. CASE UNCHANGED vars
    BY <1>1, <1>8 DEF vars, IInv, IterInv, TableInv
  <1>9. QED
    BY <1>2, <1>3, <1>4, <1>5, <1>6, <1>7, <1>8 DEF Next

\* The table is sound, has a capacity the code may choose, and is never full.
THEOREM MapInductive == ASSUME Assumption PROVE Spec => []IInv
  <1>1. Init => IInv
    BY InitFit
  <1>2. IInv /\ [Next]_vars => IInv'
    BY InvNext
  <1>3. QED
    BY <1>1, <1>2, PTL DEF Spec

\* The table is never full, so that every search ends (map.c:165-174).
THEOREM NeverFull == ASSUME Assumption PROVE Spec => []TypeOK
  <1>1. IInv => TypeOK
    <2>1. SUFFICES ASSUME IInv PROVE TypeOK
      OBVIOUS
    <2>2. PICK c : Fit(entries, c)
      BY <2>1 DEF IInv, TableInv
    <2>3. /\ Sound(entries, c) /\ Capacity(entries) = c
          /\ c \in Nat /\ c >= 4 /\ c >= Initial /\ Count(entries) < c
      BY <2>2, FitIs
    <2>4. c <= Maximal /\ Maximal \in Nat
      BY <2>2, DoubledType DEF Fit, Assumption
    <2>5. c \in 1 .. Maximal /\ entries \in [0 .. c - 1 -> Entry]
      BY <2>3, <2>4 DEF Sound, Table
    <2>6. Initial <= Capacity(entries) /\ Capacity(entries) <= Maximal /\ Count(entries) < Capacity(entries)
      BY <2>3, <2>4 DEF Assumption
    <2>7. QED
      BY <2>1, <2>5, <2>6 DEF TypeOK, IInv, IterInv
  <1>2. QED
    BY <1>1, MapInductive, PTL

\* Every entry is found from its key, wherever growing, shrinking and the moves
\* of a removal have put it (map.c:92 and 179).
THEOREM AllReachable == ASSUME Assumption PROVE Spec => []Reachable
  <1>1. IInv => Reachable
    BY FitIs, FindThere DEF IInv, TableInv, Reachable
  <1>2. QED
    BY <1>1, MapInductive, PTL

\* Both: what the map relies on, for all keys, hashes and capacities.
THEOREM MapStaysSound == ASSUME Assumption PROVE Spec => []MapSound
  <1>1. TypeOK /\ Reachable => MapSound
    BY DEF MapSound
  <1>2. QED
    BY <1>1, NeverFull, AllReachable, PTL

-----------------------------------------------------------------------------
(***************************************************************************)
(* The table is a map.                                                     *)
(***************************************************************************)

LEMMA GetOf ==
  ASSUME Assumption, NEW e, NEW c, Fit(e, c), NEW k \in Keys
  PROVE  Get(e, k) = Value(e, k)
  BY FitIs, GetIs

LEMMA PutMaps ==
  ASSUME Assumption, TableInv, NEW k \in Keys, NEW v \in Vals, Put(k, v)
  PROVE  \A j \in Keys : Get(entries, j)' = IF j = k THEN {v} ELSE Get(entries, j)
  <1>1. PICK x : x = [hash |-> NHash(k), key |-> k, val |-> v]
    OBVIOUS
  <1>2. TableInv' /\ Bag(entries') = Others(entries, k) \cup {x}
    BY <1>1, PutStep
  <1>3. PICK b, c : Fit(entries', b) /\ Fit(entries, c)
    BY <1>2 DEF TableInv
  <1>4. SUFFICES ASSUME NEW j \in Keys
                 PROVE  Get(entries', j) = IF j = k THEN {v} ELSE Get(entries, j)
    OBVIOUS
  <1>5. Get(entries', j) = Value(entries', j) /\ Get(entries, j) = Value(entries, j)
    BY <1>3, GetOf
  <1>6. CASE j = k
    <2>1. {y \in Bag(entries') : y.key = j} = {x}
      BY <1>1, <1>2, <1>6 DEF Others
    <2>2. QED
      BY <1>1, <1>5, <1>6, <2>1 DEF Value
  <1>7. CASE j # k
    <2>1. {y \in Bag(entries') : y.key = j} = {y \in Bag(entries) : y.key = j}
      BY <1>1, <1>2, <1>7 DEF Others
    <2>2. QED
      BY <1>5, <1>7, <2>1 DEF Value
  <1>8. QED
    BY <1>6, <1>7

LEMMA RemoveMaps ==
  ASSUME Assumption, TableInv, NEW k \in Keys, Get(entries, k) # {},
         entries' = Removed(entries, k)
  PROVE  \A j \in Keys : Get(entries, j)' = IF j = k THEN {} ELSE Get(entries, j)
  <1>1. TableInv' /\ Bag(entries') = Others(entries, k)
    BY RemoveStep
  <1>2. PICK b, c : Fit(entries', b) /\ Fit(entries, c)
    BY <1>1 DEF TableInv
  <1>3. SUFFICES ASSUME NEW j \in Keys
                 PROVE  Get(entries', j) = IF j = k THEN {} ELSE Get(entries, j)
    OBVIOUS
  <1>4. Get(entries', j) = Value(entries', j) /\ Get(entries, j) = Value(entries, j)
    BY <1>2, GetOf
  <1>5. CASE j = k
    <2>1. {y \in Bag(entries') : y.key = j} = {}
      BY <1>1, <1>5 DEF Others
    <2>2. QED
      BY <1>4, <1>5, <2>1 DEF Value
  <1>6. CASE j # k
    <2>1. {y \in Bag(entries') : y.key = j} = {y \in Bag(entries) : y.key = j}
      BY <1>1, <1>6 DEF Others
    <2>2. QED
      BY <1>4, <1>6, <2>1 DEF Value
  <1>7. QED
    BY <1>5, <1>6

\* The table implements the map that map.h promises: a put changes the value of
\* one key, a removal forgets one, and nothing else changes any.
THEOREM ImplementsMap == ASSUME Assumption PROVE Spec => IsMap
  <1> DEFINE map == [k \in Keys |-> Get(entries, k)]
  <1>1. Init => Abstract!Init
    <2>1. SUFFICES ASSUME Init PROVE Abstract!Init
      OBVIOUS
    <2>2. TableInv /\ Bag(entries) = {}
      BY <2>1, InitFit, NewSound DEF IInv, Init, Assumption
    <2>3. PICK c : Fit(entries, c)
      BY <2>2 DEF TableInv
    <2>4. \A k \in Keys : Get(entries, k) = {}
      BY <2>2, <2>3, GetOf DEF Value
    <2>5. QED
      BY <2>4 DEF Abstract!Init
  <1>2. IInv /\ [Next]_vars => [Abstract!Next]_map
    <2>1. SUFFICES ASSUME IInv, [Next]_vars PROVE Abstract!Next \/ map' = map
      OBVIOUS
    <2>2. TableInv /\ IterInv
      BY <2>1 DEF IInv
    <2>3. ASSUME NEW k \in Keys, NEW v \in Vals, Put(k, v) PROVE Abstract!Next
      <3>1. map' = [map EXCEPT ![k] = {v}]
        BY <2>2, <2>3, PutMaps
      <3>2. QED
        BY <3>1 DEF Abstract!Next, Abstract!Put
    <2>4. ASSUME NEW k \in Keys, Get(entries, k) # {}, entries' = Removed(entries, k)
          PROVE  Abstract!Next
      <3>1. map' = [map EXCEPT ![k] = {}]
        BY <2>2, <2>4, RemoveMaps
      <3>2. QED
        BY <3>1 DEF Abstract!Next, Abstract!Remove
    <2>5. ASSUME NEW k \in Keys, Remove(k) PROVE Abstract!Next
      BY <2>4, <2>5 DEF Remove
    <2>6. CASE RemoveCurrent
      <3>1. iter.key \in Keys
        BY <2>2, <2>6 DEF RemoveCurrent, IterInv
      <3>2. QED
        BY <2>4, <2>6, <3>1 DEF RemoveCurrent
    <2>7. CASE IterBegin \/ IterNext \/ IterEnd \/ UNCHANGED vars
      <3>1. entries' = entries
        BY <2>7 DEF IterBegin, IterNext, IterEnd, vars
      <3>2. QED
        BY <3>1
    <2>8. QED
      BY <2>1, <2>3, <2>5, <2>6, <2>7 DEF Next
  <1>3. QED
    BY <1>1, <1>2, MapInductive, PTL DEF Spec, IsMap, Abstract!Spec

-----------------------------------------------------------------------------
(***************************************************************************)
(* Iterations.                                                             *)
(***************************************************************************)

\* A removal under an iterator leaves the table its size.
KeepsSize == iter # NoIter => Slots(entries') = Slots(entries)

\* What has not been returned is still there, at the iterator or behind it.
WalkInv ==
  iter # NoIter =>
    /\ seen \subseteq begun /\ Stored(entries) \subseteq begun /\ begun \ seen \subseteq Stored(entries)
    /\ \A i \in Used(entries) : entries[i].key = iter.key => i = iter.entry
    /\ \A i \in Used(entries) : entries[i].key \notin seen => i >= iter.entry

\* The iterator goes on to slot i, and passes nothing it has not returned.
LEMMA WalkOn ==
  ASSUME Assumption, IInv, NEW i \in Used(entries), Return(i), UNCHANGED <<entries, begun>>,
         seen \subseteq begun, Stored(entries) \subseteq begun, begun \ seen \subseteq Stored(entries),
         \A j \in Used(entries) : entries[j].key \notin seen => j >= i
  PROVE  WalkInv'
  <1>1. iter' = [entry |-> i, key |-> entries[i].key] /\ seen' = seen \cup {entries[i].key}
    BY DEF Return
  <1>2. Distinct(entries)
    BY FitIs DEF IInv, TableInv, Sound
  <1>3. entries[i].key \in Stored(entries)
    BY DEF Stored
  <1>4. seen' \subseteq begun' /\ Stored(entries') \subseteq begun' /\ begun' \ seen' \subseteq Stored(entries')
    BY <1>1, <1>3
  <1>5. \A j \in Used(entries') : entries'[j].key = iter'.key => j = iter'.entry
    BY <1>1, <1>2 DEF Distinct
  <1>6. \A j \in Used(entries') : entries'[j].key \notin seen' => j >= iter'.entry
    BY <1>1
  <1>7. QED
    BY <1>4, <1>5, <1>6 DEF WalkInv

\* The entry the iterator has just returned is removed.
LEMMA WalkRemove ==
  ASSUME Assumption, IInv, WalkInv, RemoveCurrent, KeepsSize
  PROVE  WalkInv'
  <1>1. /\ iter # NoIter /\ iter.key \in Keys /\ iter.key \in seen
        /\ Get(entries, iter.key) # {} /\ entries' = Removed(entries, iter.key)
        /\ UNCHANGED <<iter, seen, begun>> /\ Slots(entries') = Slots(entries)
    BY DEF RemoveCurrent, KeepsSize, IInv, IterInv
  <1>2. PICK c : Fit(entries, c)
    BY DEF IInv, TableInv
  <1>3. PICK e, f : e = entries /\ f = entries'
    OBVIOUS
  <1>4. PICK p \in Used(e) : e[p].key = iter.key /\ Closed(e, c, p, f)
    BY <1>1, <1>2, <1>3, RemovedIs
  <1>5. /\ seen \subseteq begun /\ Stored(e) \subseteq begun /\ begun \ seen \subseteq Stored(e)
        /\ p = iter.entry
        /\ \A i \in Used(e) : e[i].key \notin seen => i >= p
    BY <1>1, <1>3, <1>4 DEF WalkInv
  <1>6. Bag(f) = Bag(e) \ {e[p]} /\ Distinct(f)
    BY <1>4 DEF Closed, Sound
  <1>7. Distinct(e) /\ Used(e) \subseteq Nat
    BY <1>2, <1>3, FitIs, StoredType DEF Sound, IInv
  <1>8. \A i \in Used(f) : \E j \in Used(e) : j # p /\ f[i] = e[j]
    BY <1>6 DEF Bag
  <1>9. \A j \in Used(e) : j # p => \E i \in Used(f) : f[i] = e[j]
    <2>1. SUFFICES ASSUME NEW j \in Used(e), j # p PROVE \E i \in Used(f) : f[i] = e[j]
      OBVIOUS
    <2>2. e[j] # e[p]
      BY <1>7, <2>1 DEF Distinct
    <2>3. e[j] \in Bag(f)
      BY <1>6, <2>1, <2>2 DEF Bag
    <2>4. QED
      BY <2>3 DEF Bag
  <1>10. Stored(f) \subseteq begun
    BY <1>5, <1>8 DEF Stored
  <1>11. begun \ seen \subseteq Stored(f)
    <2>1. SUFFICES ASSUME NEW k \in begun \ seen PROVE k \in Stored(f)
      OBVIOUS
    <2>2. PICK j \in Used(e) : e[j].key = k
      BY <1>5, <2>1 DEF Stored
    <2>3. j # p
      BY <1>1, <1>4, <2>1, <2>2
    <2>4. QED
      BY <1>9, <2>2, <2>3 DEF Stored
  <1>12. \A i \in Used(f) : f[i].key # iter.key
    BY <1>4, <1>7, <1>8 DEF Distinct
  <1>13. ASSUME NEW i \in Used(f), f[i].key \notin seen PROVE i >= p
    <2>1. PICK k \in Used(e) : k # p /\ f[i] = e[k]
      BY <1>8
    <2>2. k >= p
      BY <1>5, <1>13, <2>1
    <2>3. k > p /\ k \in Nat /\ p \in Nat
      BY <1>7, <2>1, <2>2
    <2>4. PICK j \in Used(f) : p <= j /\ j <= k /\ f[j] = e[k]
      BY <1>4, <2>3 DEF Closed
    <2>5. j = i
      BY <1>6, <2>1, <2>4 DEF Distinct
    <2>6. QED
      BY <2>4, <2>5
  <1>14. QED
    BY <1>1, <1>3, <1>5, <1>10, <1>11, <1>12, <1>13 DEF WalkInv

LEMMA WalkNext == ASSUME Assumption, IInv, WalkInv, [Next]_vars, [KeepsSize]_vars PROVE WalkInv'
  <1>1. iter # NoIter => iter \in [entry : Nat, key : Keys] /\ iter.key \in seen
    BY DEF IInv, IterInv
  <1>2. Used(entries) \subseteq Nat
    BY StoredType DEF IInv
  <1>3. ASSUME NEW k \in Keys, Remove(k) \/ \E v \in Vals : Put(k, v) PROVE WalkInv'
    BY <1>3 DEF Remove, Put, WalkInv
  <1>4. CASE IterBegin
    <2>1. Later(0) # {}
      BY <1>2, <1>4 DEF IterBegin, Later
    <2>2. PICK i \in Used(entries) : i = Least(Later(0)) /\ \A j \in Used(entries) : j >= i
      BY <1>2, <2>1, LaterLeast
    <2>3. Return(i) /\ UNCHANGED entries /\ begun' = Stored(entries)
      BY <1>4, <2>2 DEF IterBegin
    <2>4. /\ iter' = [entry |-> i, key |-> entries[i].key] /\ seen' = seen \cup {entries[i].key}
          /\ Distinct(entries)
      BY <2>3, FitIs DEF Return, IInv, TableInv, Sound
    <2>5. seen = {}
      BY <1>4, NoIterIs DEF IterBegin, IInv, IterInv
    <2>6. QED
      BY <2>2, <2>3, <2>4, <2>5 DEF WalkInv, Stored, Distinct
  <1>5. CASE IterNext
    <2>1. /\ iter # NoIter /\ UNCHANGED <<entries, begun>>
          /\ IF Replaced THEN Return(iter.entry)
             ELSE Later(iter.entry + 1) # {} /\ Return(Least(Later(iter.entry + 1)))
      BY <1>5 DEF IterNext
    <2>2. /\ seen \subseteq begun /\ Stored(entries) \subseteq begun /\ begun \ seen \subseteq Stored(entries)
          /\ \A j \in Used(entries) : entries[j].key \notin seen => j >= iter.entry
      BY <2>1 DEF WalkInv
    <2>3. CASE Replaced
      <3>1. iter.entry \in Used(entries) /\ Return(iter.entry)
        BY <2>1, <2>3 DEF Replaced
      <3>2. QED
        BY <2>1, <2>2, <3>1, WalkOn
    <2>4. CASE ~Replaced
      <3>1. iter.entry + 1 \in Nat /\ iter.entry \in Nat
        BY <1>1, <2>1
      <3>2. PICK i \in Used(entries) : /\ i = Least(Later(iter.entry + 1))
                                       /\ \A j \in Used(entries) : j >= iter.entry + 1 => j >= i
        BY <2>1, <2>4, <3>1, LaterLeast
      <3>3. ASSUME NEW j \in Used(entries), entries[j].key \notin seen PROVE j >= i
        <4>1. j >= iter.entry /\ j # iter.entry
          BY <1>1, <2>1, <2>2, <2>4, <3>3 DEF Replaced
        <4>2. QED
          BY <1>2, <3>1, <3>2, <4>1
      <3>4. Return(i)
        BY <2>1, <2>4, <3>2
      <3>5. QED
        BY <2>1, <2>2, <3>3, <3>4, WalkOn
    <2>5. QED
      BY <2>3, <2>4
  <1>6. CASE IterEnd
    BY <1>6 DEF IterEnd, WalkInv
  <1>7. CASE RemoveCurrent
    <2>1. CASE KeepsSize
      BY <1>7, <2>1, WalkRemove
    <2>2. CASE UNCHANGED vars
      BY <2>2 DEF vars, WalkInv, Stored, Used, Slots
    <2>3. QED
      BY <2>1, <2>2
  <1>8. CASE UNCHANGED vars
    BY <1>8 DEF vars, WalkInv, Stored, Used, Slots
  <1>9. QED
    BY <1>3, <1>4, <1>5, <1>6, <1>7, <1>8 DEF Next

\* An iteration whose user removes entries it has just received returns every
\* entry of the map, as long as no removal halves the table (map.c:201 and 347).
THEOREM WholeIteration ==
  ASSUME Assumption
  PROVE  Spec /\ [][KeepsSize]_vars => NothingSkipped
  <1>1. Init => WalkInv
    BY DEF Init, WalkInv
  <1>2. IInv /\ WalkInv /\ [Next]_vars /\ [KeepsSize]_vars => WalkInv'
    BY WalkNext
  <1>3. IInv /\ WalkInv => [IterEnd => seen = begun]_vars
    <2>1. SUFFICES ASSUME IInv, WalkInv, IterEnd PROVE seen = begun
      OBVIOUS
    <2>2. /\ iter # NoIter /\ ~Replaced /\ Later(iter.entry + 1) = {}
          /\ iter \in [entry : Nat, key : Keys] /\ iter.key \in seen
      BY <2>1 DEF IterEnd, IInv, IterInv
    <2>3. /\ seen \subseteq begun /\ begun \ seen \subseteq Stored(entries)
          /\ \A i \in Used(entries) : entries[i].key \notin seen => i >= iter.entry
      BY <2>1, <2>2 DEF WalkInv
    <2>4. SUFFICES ASSUME NEW k \in begun \ seen PROVE FALSE
      BY <2>3
    <2>5. PICK i \in Used(entries) : entries[i].key = k
      BY <2>3, <2>4 DEF Stored
    <2>6. i \in Nat /\ i >= iter.entry /\ i # iter.entry
      BY <2>1, <2>2, <2>3, <2>4, <2>5, StoredType DEF Replaced, IInv
    <2>7. i \in Later(iter.entry + 1)
      BY <2>2, <2>5, <2>6 DEF Later
    <2>8. QED
      BY <2>2, <2>7
  <1>4. QED
    BY <1>1, <1>2, <1>3, MapInductive, PTL DEF Spec, NothingSkipped
=============================================================================
