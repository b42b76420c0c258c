-------------------------- MODULE RuleNames_proofs --------------------------
(***************************************************************************)
(* Theorems about the names of the .deps files, for every project in which *)
(* the number of a rule is decided by the scripts the rule records.        *)
(***************************************************************************)
EXTENDS RuleNames, SequenceTheorems, WellFoundedInduction, TLAPS

-----------------------------------------------------------------------------
(***************************************************************************)
(* The order of the nodes is a sequence.                                   *)
(***************************************************************************)

LEMMA Least == ASSUME NEW T, T \subseteq Nat, T # {} PROVE \E m \in T : \A k \in T : m <= k
  <1>1. PICK m \in T : \A k \in T : ~(<<k, m>> \in OpToRel(<, Nat))
    BY NatLessThanWellFounded, WFMin
  <1>2. ASSUME NEW k \in T PROVE ~(k < m)
    BY <1>1 DEF OpToRel
  <1>3. QED
    BY <1>2

LEMMA Induct ==
  ASSUME NEW T, NEW n \in Nat, 0 \in T, \A k \in 0 .. n : k \in T /\ k < n => k + 1 \in T
  PROVE  \A k \in 0 .. n : k \in T
  <1> DEFINE U == (0 .. n) \ T
  <1>1. SUFFICES ASSUME U # {} PROVE FALSE
    OBVIOUS
  <1>2. PICK m \in U : \A k \in U : m <= k
    <2>1. U \subseteq Nat
      OBVIOUS
    <2> HIDE DEF U
    <2>2. QED
      BY <1>1, <2>1, Least
  <1>3. m \in Nat /\ m # 0 /\ m <= n /\ m \notin T
    BY <1>2
  <1>4. m - 1 \in 0 .. n /\ m - 1 < n /\ m - 1 < m /\ (m - 1) + 1 = m
    BY <1>3
  <1>5. m - 1 \in T
    BY <1>2, <1>3, <1>4
  <1>6. QED
    BY <1>3, <1>4, <1>5

Fixed(s, g) == g = [i \in 1 .. Len(s) |-> IF i = 1 THEN s[i] ELSE g[i - 1] \o s[i]]

LEMMA FlattenIs ==
  ASSUME NEW s, Len(s) # 0
  PROVE  FlattenSeq(s) = (CHOOSE g : Fixed(s, g))[Len(s)]
  BY DEF FlattenSeq, Fixed

LEMMA FixedExists == ASSUME NEW S, NEW s \in Seq(Seq(S)) PROVE \E g : Fixed(s, g)
  <1>1. Len(s) \in Nat /\ \A i \in 1 .. Len(s) : s[i] \in Seq(S)
    BY LenProperties, ElementOfSeq
  <1> DEFINE Upto(g, n) == /\ g \in [1 .. n -> Seq(S)]
                           /\ \A i \in 1 .. n : g[i] = IF i = 1 THEN s[i] ELSE g[i - 1] \o s[i]
             T == {n \in 0 .. Len(s) : \E g : Upto(g, n)}
  <1>2. 0 \in T
    <2>1. Upto([i \in 1 .. 0 |-> <<>>], 0)
      OBVIOUS
    <2> HIDE DEF Upto
    <2>2. QED
      BY <1>1, <2>1
  <1>3. ASSUME NEW n \in 0 .. Len(s), n \in T, n < Len(s) PROVE n + 1 \in T
    <2>1. PICK g : Upto(g, n)
      BY <1>3
    <2>2. n + 1 \in 1 .. Len(s) /\ n \in Nat /\ s[n + 1] \in Seq(S)
      BY <1>1, <1>3
    <2>3. PICK e \in Seq(S) : e = IF n + 1 = 1 THEN s[n + 1] ELSE g[n] \o s[n + 1]
      <3>1. n # 0 => g[n] \in Seq(S)
        BY <2>1, <2>2
      <3>2. n # 0 => g[n] \o s[n + 1] \in Seq(S)
        BY <2>2, <3>1, ConcatProperties
      <3>3. CASE n = 0
        BY <2>2, <3>3
      <3>4. CASE n # 0
        BY <2>2, <3>2, <3>4
      <3>5. QED
        BY <3>3, <3>4
    <2>4. PICK h : h = [i \in 1 .. n + 1 |-> IF i = n + 1 THEN e ELSE g[i]]
      OBVIOUS
    <2>5. h \in [1 .. n + 1 -> Seq(S)]
      BY <2>1, <2>2, <2>3, <2>4
    <2>6. ASSUME NEW i \in 1 .. n + 1
          PROVE  h[i] = IF i = 1 THEN s[i] ELSE h[i - 1] \o s[i]
      <3>1. CASE i = n + 1
        <4>1. h[i] = e
          BY <2>4, <3>1
        <4>2. i # 1 => n # 0 /\ i - 1 = n /\ h[i - 1] = g[n]
          BY <2>2, <2>4, <3>1
        <4>3. QED
          BY <2>2, <2>3, <3>1, <4>1, <4>2
      <3>2. CASE i # n + 1
        <4>1. i \in 1 .. n /\ h[i] = g[i]
          BY <2>2, <2>4, <3>2
        <4>2. i # 1 => i - 1 \in 1 .. n /\ i - 1 # n + 1 /\ h[i - 1] = g[i - 1]
          BY <2>2, <2>4, <4>1
        <4>3. QED
          BY <2>1, <4>1, <4>2
      <3>3. QED
        BY <3>1, <3>2
    <2>7. Upto(h, n + 1)
      BY <2>5, <2>6
    <2> HIDE DEF Upto
    <2>8. QED
      BY <2>2, <2>7
  <1> HIDE DEF T
  <1>4. Len(s) \in T
    <2>1. \A n \in 0 .. Len(s) : n \in T
      BY <1>1, <1>2, <1>3, Induct
    <2>2. QED
      BY <1>1, <2>1
  <1>5. PICK g : Upto(g, Len(s))
    BY <1>4 DEF T
  <1>6. QED
    BY <1>5 DEF Fixed

LEMMA FlattenType == ASSUME NEW S, NEW s \in Seq(Seq(S)) PROVE FlattenSeq(s) \in Seq(S)
  <1>1. Len(s) \in Nat /\ \A i \in 1 .. Len(s) : s[i] \in Seq(S)
    BY LenProperties, ElementOfSeq
  <1>2. CASE Len(s) = 0
    BY <1>2, EmptySeq DEF FlattenSeq
  <1>3. CASE Len(s) # 0
    <2>1. PICK f : f = CHOOSE g : Fixed(s, g)
      OBVIOUS
    <2>2. Fixed(s, f)
      BY <2>1, FixedExists
    <2>3. \A i \in 1 .. Len(s) : f[i] = IF i = 1 THEN s[i] ELSE f[i - 1] \o s[i]
      BY <2>2 DEF Fixed
    <2> DEFINE T == {n \in 0 .. Len(s) : n = 0 \/ f[n] \in Seq(S)}
    <2>4. 0 \in T
      BY <1>1
    <2>5. ASSUME NEW n \in 0 .. Len(s), n \in T, n < Len(s) PROVE n + 1 \in T
      <3>1. n + 1 \in 1 .. Len(s) /\ n + 1 \in 0 .. Len(s) /\ s[n + 1] \in Seq(S)
        BY <1>1, <2>5
      <3>2. CASE n = 0
        BY <2>3, <3>1, <3>2
      <3>3. CASE n # 0
        <4>1. f[n] \in Seq(S) /\ n + 1 # 1 /\ (n + 1) - 1 = n
          BY <2>5, <3>3
        <4>2. f[n + 1] = f[n] \o s[n + 1]
          BY <2>3, <3>1, <4>1
        <4>3. QED
          BY <3>1, <4>1, <4>2, ConcatProperties
      <3>4. QED
        BY <3>2, <3>3
    <2> HIDE DEF T
    <2>6. Len(s) \in T
      <3>1. \A n \in 0 .. Len(s) : n \in T
        BY <1>1, <2>4, <2>5, Induct
      <3>2. QED
        BY <1>1, <3>1
    <2>7. f[Len(s)] \in Seq(S)
      BY <1>3, <2>6 DEF T
    <2>8. QED
      BY <1>3, <2>1, <2>7, FlattenIs
  <1>4. QED
    BY <1>2, <1>3

\* What the sums of two rows of sequences have in common, if only the last differ.
LEMMA FlattenLast ==
  ASSUME NEW S, NEW s \in Seq(Seq(S)), NEW t \in Seq(Seq(S)), NEW n \in Nat \ {0},
         Len(s) = n, Len(t) = n, \A i \in 1 .. n - 1 : s[i] = t[i]
  PROVE  \E p \in Seq(S) : FlattenSeq(s) = p \o s[n] /\ FlattenSeq(t) = p \o t[n]
  <1>1. \A i \in 1 .. n : s[i] \in Seq(S) /\ t[i] \in Seq(S)
    BY ElementOfSeq
  <1>2. PICK f : f = CHOOSE g : Fixed(s, g)
    OBVIOUS
  <1>3. PICK h : h = CHOOSE g : Fixed(t, g)
    OBVIOUS
  <1>4. \A i \in 1 .. n : f[i] = IF i = 1 THEN s[i] ELSE f[i - 1] \o s[i]
    <2>1. Fixed(s, f)
      BY <1>2, FixedExists
    <2>2. QED
      BY <2>1 DEF Fixed
  <1>5. \A i \in 1 .. n : h[i] = IF i = 1 THEN t[i] ELSE h[i - 1] \o t[i]
    <2>1. Fixed(t, h)
      BY <1>3, FixedExists
    <2>2. QED
      BY <2>1 DEF Fixed
  <1>6. FlattenSeq(s) = f[n] /\ FlattenSeq(t) = h[n]
    BY <1>2, <1>3, FlattenIs
  <1> DEFINE T == {k \in 0 .. n - 1 : k = 0 \/ (f[k] = h[k] /\ f[k] \in Seq(S))}
  <1>7. 0 \in T
    OBVIOUS
  <1>8. ASSUME NEW k \in 0 .. n - 1, k \in T, k < n - 1 PROVE k + 1 \in T
    <2>1. k + 1 \in 1 .. n - 1 /\ k + 1 \in 1 .. n /\ k + 1 \in 0 .. n - 1
      BY <1>8
    <2>2. s[k + 1] = t[k + 1] /\ s[k + 1] \in Seq(S)
      BY <1>1, <2>1
    <2>3. CASE k = 0
      <3>1. f[k + 1] = s[k + 1] /\ h[k + 1] = t[k + 1]
        BY <1>4, <1>5, <2>1, <2>3
      <3>2. QED
        BY <2>1, <2>2, <3>1
    <2>4. CASE k # 0
      <3>1. f[k] = h[k] /\ f[k] \in Seq(S) /\ k + 1 # 1 /\ (k + 1) - 1 = k
        BY <1>8, <2>4
      <3>2. f[k + 1] = f[k] \o s[k + 1] /\ h[k + 1] = h[k] \o t[k + 1]
        BY <1>4, <1>5, <2>1, <3>1
      <3>3. QED
        BY <2>1, <2>2, <3>1, <3>2, ConcatProperties
    <2>5. QED
      BY <2>3, <2>4
  <1> HIDE DEF T
  <1>9. n - 1 \in T
    <2>1. n - 1 \in Nat /\ \A k \in 0 .. n - 1 : k \in T /\ k < n - 1 => k + 1 \in T
      BY <1>8
    <2>2. \A k \in 0 .. n - 1 : k \in T
      BY <1>7, <2>1, Induct
    <2>3. QED
      BY <2>1, <2>2
  <1>10. CASE n = 1
    <2>1. f[n] = s[n] /\ h[n] = t[n]
      BY <1>4, <1>5, <1>10
    <2>2. <<>> \in Seq(S) /\ <<>> \o s[n] = s[n] /\ <<>> \o t[n] = t[n]
      BY <1>1, ConcatEmptySeq, EmptySeq
    <2>3. QED
      BY <1>6, <2>1, <2>2
  <1>11. CASE n # 1
    <2>1. f[n - 1] = h[n - 1] /\ f[n - 1] \in Seq(S)
      BY <1>9, <1>11 DEF T
    <2>2. f[n] = f[n - 1] \o s[n] /\ h[n] = h[n - 1] \o t[n]
      <3>1. n \in 1 .. n /\ n # 1
        BY <1>11
      <3>2. QED
        BY <1>4, <1>5, <3>1
    <2>3. QED
      BY <1>6, <2>1, <2>2
  <1>12. QED
    BY <1>10, <1>11

Node == [script : Scripts, source : Sources]

Row(ru, op, g) ==
  IF op \/ ~Groups[g].optional
  THEN [i \in DOMAIN ru[g] |-> [script |-> Groups[g].script, source |-> ru[g][i]]]
  ELSE <<>>

LEMMA RowType ==
  ASSUME Assumption, NEW ru \in Texts, NEW op, NEW g \in Group
  PROVE  Row(ru, op, g) \in Seq(Node)
  <1>1. ru[g] \in Groups[g].texts /\ ru[g] \in Seq(Range(ru[g]))
    BY DEF Texts, Assumption
  <1>2. Len(ru[g]) \in Nat /\ DOMAIN ru[g] = 1 .. Len(ru[g])
    BY <1>1, LenProperties
  <1>3. ASSUME NEW i \in DOMAIN ru[g]
        PROVE  [script |-> Groups[g].script, source |-> ru[g][i]] \in Node
    <2>1. Groups[g].script \in Scripts
      BY DEF Scripts
    <2>2. ru[g][i] \in Range(ru[g])
      BY DEF Range
    <2>3. ru[g][i] \in Sources
      BY <1>1, <2>2 DEF Sources
    <2>4. QED
      BY <2>1, <2>3 DEF Node
  <1>4. [i \in DOMAIN ru[g] |-> [script |-> Groups[g].script, source |-> ru[g][i]]] \in Seq(Node)
    BY <1>2, <1>3
  <1>5. <<>> \in Seq(Node)
    BY EmptySeq
  <1>6. QED
    BY <1>4, <1>5 DEF Row

LEMMA RowsType ==
  ASSUME Assumption, NEW ru \in Texts, NEW op
  PROVE  /\ Len(Groups) \in Nat /\ Group = 1 .. Len(Groups)
         /\ [g \in Group |-> Row(ru, op, g)] \in Seq(Seq(Node))
         /\ Len([g \in Group |-> Row(ru, op, g)]) = Len(Groups)
         /\ RegisteredOf(ru, op) = FlattenSeq([g \in Group |-> Row(ru, op, g)])
  <1>1. Len(Groups) \in Nat /\ Group = 1 .. Len(Groups)
    BY LenProperties DEF Assumption, Group
  <1>2. PICK rows : rows = [g \in Group |-> Row(ru, op, g)]
    OBVIOUS
  <1>3. rows \in [1 .. Len(Groups) -> Seq(Node)]
    BY <1>1, <1>2, RowType
  <1>4. rows \in Seq(Seq(Node)) /\ Len(rows) = Len(Groups)
    BY <1>1, <1>3, LenProperties
  <1>5. RegisteredOf(ru, op) = FlattenSeq([g \in Group |-> Row(ru, op, g)])
    BY DEF RegisteredOf, Row
  <1>6. QED
    BY <1>1, <1>2, <1>4, <1>5

LEMMA NodesType ==
  ASSUME Assumption, NEW ru \in Texts, NEW op \in BOOLEAN
  PROVE  /\ RegisteredOf(ru, op) \in Seq(Node)
         /\ Len(RegisteredOf(ru, op)) \in Nat
         /\ DOMAIN RegisteredOf(ru, op) = 1 .. Len(RegisteredOf(ru, op))
         /\ \A i \in DOMAIN RegisteredOf(ru, op) : RegisteredOf(ru, op)[i] \in Node
  <1>1. RegisteredOf(ru, op) \in Seq(Node)
    BY RowsType, FlattenType
  <1>2. QED
    BY <1>1, LenProperties, ElementOfSeq

\* The last include or call may change, and the root: no number is given to another rule.
THEOREM LastMayChange == ASSUME Assumption, OnlyLastChanges PROVE PlacesKept
  <1>1. SUFFICES ASSUME NEW a \in Texts, NEW b \in Texts, NEW op \in BOOLEAN, NEW oq \in BOOLEAN,
                        NEW i \in DOMAIN RegisteredOf(a, op) \cap DOMAIN RegisteredOf(b, oq),
                        NEW m, m = RegisteredOf(a, op)[i], NEW n, n = RegisteredOf(b, oq)[i],
                        m.script = n.script,
                        \A g \in Group : Groups[g].script \in {m.script, Root} => a[g] = b[g]
                 PROVE  m.source = n.source
    BY DEF PlacesKept
  <1>2. PICK z : z = Len(Groups)
    OBVIOUS
  <1>3. PICK s, t : s = [g \in Group |-> Row(a, op, g)] /\ t = [g \in Group |-> Row(b, oq, g)]
    OBVIOUS
  <1>4. /\ s \in Seq(Seq(Node)) /\ t \in Seq(Seq(Node)) /\ Len(s) = z /\ Len(t) = z
        /\ RegisteredOf(a, op) = FlattenSeq(s) /\ RegisteredOf(b, oq) = FlattenSeq(t)
        /\ z \in Nat /\ Group = 1 .. z
    BY <1>2, <1>3, RowsType
  <1>5. \A g \in 1 .. z - 1 : s[g] = t[g]
    <2>1. SUFFICES ASSUME NEW g \in 1 .. z - 1 PROVE s[g] = t[g]
      OBVIOUS
    <2>2. g \in Group /\ g # z
      BY <1>4
    <2>3. a[g] \in Groups[g].texts /\ b[g] \in Groups[g].texts
      BY <2>2 DEF Texts
    <2>4. ~Groups[g].optional /\ a[g] = b[g]
      BY <1>1, <1>2, <2>2, <2>3 DEF OnlyLastChanges
    <2>5. QED
      BY <1>3, <2>2, <2>4 DEF Row
  <1>6. z # 0
    <2>1. SUFFICES ASSUME z = 0 PROVE FALSE
      OBVIOUS
    <2>2. FlattenSeq(s) = s /\ DOMAIN s = {}
      BY <1>3, <1>4, <2>1 DEF FlattenSeq
    <2>3. QED
      BY <1>1, <1>4, <2>2
  <1>7. PICK p \in Seq(Node) : FlattenSeq(s) = p \o s[z] /\ FlattenSeq(t) = p \o t[z]
    <2>1. z \in Nat \ {0}
      BY <1>4, <1>6
    <2>2. QED
      BY <1>4, <1>5, <2>1, FlattenLast
  <1>8. s[z] \in Seq(Node) /\ t[z] \in Seq(Node) /\ z \in Group
    BY <1>4, <1>6, ElementOfSeq
  <1>9. PICK k \in Nat : k = Len(p)
    BY <1>7, LenProperties
  <1>10. CASE i <= k
    <2>1. i \in 1 .. k
      BY <1>1, <1>4, <1>7, <1>8, <1>9, <1>10, ConcatProperties, LenProperties
    <2>2. m = p[i] /\ n = p[i]
      BY <1>1, <1>4, <1>7, <1>8, <1>9, <2>1, ConcatProperties
    <2>3. QED
      BY <2>2
  <1>11. CASE ~(i <= k)
    <2>1. /\ i \in Nat /\ i - k \in 1 .. Len(s[z]) /\ i - k \in 1 .. Len(t[z])
          /\ m = s[z][i - k] /\ n = t[z][i - k]
      <3>1. /\ i \in 1 .. Len(p \o s[z]) /\ m = (p \o s[z])[i]
            /\ i \in 1 .. Len(p \o t[z]) /\ n = (p \o t[z])[i]
        BY <1>1, <1>4, <1>7, NodesType
      <3>2. /\ Len(p \o s[z]) = k + Len(s[z]) /\ Len(p \o t[z]) = k + Len(t[z])
            /\ Len(s[z]) \in Nat /\ Len(t[z]) \in Nat
        BY <1>7, <1>8, <1>9, ConcatProperties, LenProperties
      <3>3. /\ i \in Nat /\ i - k \in 1 .. Len(s[z]) /\ i - k \in 1 .. Len(t[z])
        BY <1>9, <1>11, <3>1, <3>2
      <3>4. m = s[z][i - k]
        BY <1>7, <1>8, <1>9, <1>11, <3>1, <3>2, <3>3, ConcatProperties
      <3>5. n = t[z][i - k]
        BY <1>7, <1>8, <1>9, <1>11, <3>1, <3>2, <3>3, ConcatProperties
      <3>6. QED
        BY <3>3, <3>4, <3>5
    <2>2. s[z] = Row(a, op, z) /\ t[z] = Row(b, oq, z)
      BY <1>3, <1>8
    <2>3. PICK j : j = i - k
      OBVIOUS
    <2>4. s[z] # <<>> /\ t[z] # <<>> /\ j \in DOMAIN s[z] /\ j \in DOMAIN t[z]
      BY <1>8, <2>1, <2>3, EmptySeq, LenProperties
    <2>5. /\ s[z] = [x \in DOMAIN a[z] |-> [script |-> Groups[z].script, source |-> a[z][x]]]
          /\ t[z] = [x \in DOMAIN b[z] |-> [script |-> Groups[z].script, source |-> b[z][x]]]
      BY <2>2, <2>4 DEF Row
    <2>6. m = [script |-> Groups[z].script, source |-> a[z][j]]
          /\ n = [script |-> Groups[z].script, source |-> b[z][j]]
      BY <2>1, <2>3, <2>4, <2>5
    <2>7. a[z] = b[z]
      BY <1>1, <1>8, <2>6
    <2>8. QED
      BY <2>6, <2>7
  <1>12. QED
    <2>1. i \in Nat
      BY <1>1, NodesType
    <2>2. QED
      BY <1>9, <1>10, <1>11

-----------------------------------------------------------------------------
(***************************************************************************)
(* The invariant.                                                          *)
(***************************************************************************)

\* The rules of s and the root are as in the project ru.
SameScripts(ru, s) == \A g \in Group : Groups[g].script \in {s, Root} => ru[g] = rules[g]

\* A record whose scripts are the present ones is of the rule that has its name, in
\* this project or in an earlier one with the same scripts.
PlaceInv ==
  \A d \in deps : ~ScriptLate(d) =>
    \E ru \in Texts : \E op \in BOOLEAN :
      /\ d.name[2] \in DOMAIN RegisteredOf(ru, op)
      /\ RegisteredOf(ru, op)[d.name[2]] = [script |-> d.name[1], source |-> d.source]
      /\ SameScripts(ru, d.name[1])

\* No record is later than what it names; an object is not older than the record.
TimeInv ==
  /\ \A s \in Scripts : script[s] <= clock
  /\ \A s \in Sources : source[s] <= clock
  /\ \A d \in deps :
       /\ \A s \in DOMAIN d.scripts : d.scripts[s] <= clock
       /\ d.at <= source[d.source]
       /\ d.at = source[d.source] => object[d.source] = d.at

Fresh(i) == object[Registered[i].source] = source[Registered[i].source]

\* The rules this invocation has left behind have their objects.
DoneInv ==
  /\ pos \in 0 .. Len(Registered) /\ (pos = 0 <=> step = "idle")
  /\ \A i \in 1 .. pos - 1 : Fresh(i)
  /\ step = "commit" => Fresh(pos)

Types ==
  /\ clock \in Nat
  /\ rules \in Texts /\ option \in BOOLEAN
  /\ script \in [Scripts -> Nat] /\ source \in [Sources -> Nat] /\ object \in [Sources -> Nat]
  /\ \A d \in deps : /\ d.name \in Scripts \X Nat /\ d.source \in Sources /\ d.at \in Nat
                     /\ d.scripts \in [{d.name[1], Root} -> Nat]
  /\ pos \in Nat /\ step \in {"idle", "resolve", "compile", "commit"}
  /\ last \in {"none", "ok", "killed"}

\* The inductive invariant behind ObjectsFresh.
IInv == Types /\ TimeInv /\ PlaceInv /\ DoneInv /\ ObjectsFresh

-----------------------------------------------------------------------------
(***************************************************************************)
(* Rules and their records.                                                *)
(***************************************************************************)

LEMMA RegisteredType ==
  ASSUME Assumption, Types
  PROVE  /\ Len(Registered) \in Nat
         /\ DOMAIN Registered = 1 .. Len(Registered)
         /\ \A i \in 1 .. Len(Registered) : Registered[i] \in Node
  BY NodesType DEF Types, Registered

LEMMA RuleType ==
  ASSUME Assumption, Types, DoneInv, step # "idle"
  PROVE  /\ pos \in 1 .. Len(Registered) /\ Rule \in Node
         /\ Rule.script \in Scripts /\ Rule.source \in Sources /\ Root \in Scripts
  <1>1. pos \in 1 .. Len(Registered)
    BY RegisteredType DEF DoneInv
  <1>2. Rule \in Node
    BY <1>1, RegisteredType DEF Rule
  <1>3. QED
    BY <1>1, <1>2 DEF Node, Scripts

LEMMA RegisteredKept == ASSUME UNCHANGED user PROVE Registered' = Registered
  BY DEF user, Registered, RegisteredOf

\* A record that no script has outdated is of the rule that has the name now.
LEMMA KeptIsOwn ==
  ASSUME Assumption, PlacesKept, Types, DoneInv, PlaceInv, step # "idle",
         NEW d \in Kept, ~ScriptLate(d)
  PROVE  d.source = Rule.source
  <1>1. d \in deps /\ d.name = <<Rule.script, pos>>
    BY DEF Kept, Vfile
  <1>2. d.name[1] = Rule.script /\ d.name[2] = pos
    BY <1>1
  <1>3. PICK ru \in Texts, op \in BOOLEAN :
             /\ pos \in DOMAIN RegisteredOf(ru, op)
             /\ RegisteredOf(ru, op)[pos] = [script |-> Rule.script, source |-> d.source]
             /\ SameScripts(ru, Rule.script)
    BY <1>1, <1>2 DEF PlaceInv
  <1>4. rules \in Texts /\ option \in BOOLEAN /\ pos \in DOMAIN RegisteredOf(rules, option)
    BY RuleType, RegisteredType DEF Types, Registered
  <1>5. Rule = RegisteredOf(rules, option)[pos]
    BY DEF Rule, Registered
  <1>6. PICK m, n : m = RegisteredOf(ru, op)[pos] /\ n = Rule
    OBVIOUS
  <1>7. m.script = n.script /\ m.source = d.source
    BY <1>3, <1>6
  <1>8. \A g \in Group : Groups[g].script \in {m.script, Root} => ru[g] = rules[g]
    BY <1>3, <1>6, <1>7 DEF SameScripts
  <1>9. m.source = n.source
    BY <1>3, <1>4, <1>5, <1>6, <1>7, <1>8 DEF PlacesKept
  <1>10. QED
    BY <1>6, <1>7, <1>9

\* If it is not outdated at all, the object of the rule is of the present source.
LEMMA SkipFresh ==
  ASSUME Assumption, PlacesKept, Types, TimeInv, DoneInv, PlaceInv, step # "idle",
         NEW d \in Kept, ~Outdated(d)
  PROVE  Fresh(pos)
  <1>1. d \in deps /\ d.source = Rule.source /\ Rule.source \in Sources
    BY KeptIsOwn, RuleType DEF Outdated, Kept
  <1>2. d.at \in Nat /\ source[d.source] \in Nat
    BY <1>1 DEF Types
  <1>3. d.at <= source[d.source] /\ ~(source[d.source] > d.at)
    BY <1>1 DEF TimeInv, Outdated, SourceLate
  <1>4. d.at = source[d.source]
    BY <1>2, <1>3
  <1>5. object[d.source] = d.at
    BY <1>1, <1>4 DEF TimeInv
  <1>6. QED
    BY <1>1, <1>4, <1>5 DEF Fresh, Rule

\* If all are outdated the rule is compiled.
LEMMA OutdatedCompiled ==
  ASSUME Assumption, PlacesKept, Types, DoneInv, PlaceInv, step # "idle",
         NEW d \in Kept, Outdated(d)
  PROVE  ToCompile(d)
  BY KeptIsOwn DEF Outdated, ToCompile

-----------------------------------------------------------------------------
(***************************************************************************)
(* Every step.                                                             *)
(***************************************************************************)

LEMMA StepTypes ==
  ASSUME Assumption, Types, DoneInv, [Next]_vars
  PROVE  Types'
  <1> USE DEF Types
  <1>1. ASSUME NEW g \in Group, NEW t \in Groups[g].texts, EditScript(g, t) PROVE Types'
    <2>1. t \in UNION {Groups[h].texts : h \in Group} /\ Groups[g].script \in Scripts
      BY DEF Scripts
    <2>2. rules' \in Texts
      BY <1>1, <2>1 DEF EditScript, Texts
    <2>3. clock' \in Nat /\ script' \in [Scripts -> Nat]
      BY <1>1, <2>1 DEF EditScript
    <2>4. QED
      BY <1>1, <2>2, <2>3 DEF EditScript, Outside, disk, proc
  <1>2. ASSUME NEW s \in Sources, EditSource(s) PROVE Types'
    BY <1>2 DEF EditSource, Outside, disk, proc
  <1>3. CASE SetOption
    BY <1>3 DEF SetOption, Outside, disk, proc
  <1>4. ASSUME NextRule PROVE pos' \in Nat /\ step' \in {"idle", "resolve"} /\ last' \in {"none", "ok", "killed"}
    BY <1>4 DEF NextRule
  <1>5. CASE Begin \/ Skip
    BY <1>4, <1>5 DEF Begin, Skip, user, disk
  <1>6. CASE Resolve
    BY <1>6 DEF Resolve, user, disk
  <1>7. CASE Compile
    <2>1. Rule.source \in Sources
      BY <1>7, RuleType DEF Compile
    <2>2. object' \in [Sources -> Nat]
      BY <1>7, <2>1 DEF Compile
    <2>3. QED
      BY <1>7, <2>2 DEF Compile, user
  <1>8. CASE Commit
    <2>1. Rule.script \in Scripts /\ Rule.source \in Sources /\ Root \in Scripts
      BY <1>8, RuleType DEF Commit
    <2>2. /\ Record.name \in Scripts \X Nat /\ Record.source \in Sources /\ Record.at \in Nat
          /\ Record.scripts \in [{Record.name[1], Root} -> Nat]
      BY <2>1 DEF Record, Vfile, UnitDeps
    <2>3. deps' \subseteq deps \cup {Record}
      BY <1>8 DEF Commit
    <2> HIDE DEF Types
    <2>4. \A d \in deps' : /\ d.name \in Scripts \X Nat /\ d.source \in Sources /\ d.at \in Nat
                           /\ d.scripts \in [{d.name[1], Root} -> Nat]
      BY <2>2, <2>3 DEF Types
    <2>5. QED
      BY <1>4, <1>8, <2>4 DEF Commit, user, Types
  <1>9. CASE Kill
    BY <1>9 DEF Kill, user, disk
  <1>10. CASE UNCHANGED vars
    BY <1>10 DEF vars, user, disk, proc
  <1>11. QED
    BY <1>1, <1>2, <1>3, <1>5, <1>6, <1>7, <1>8, <1>9, <1>10 DEF Next

LEMMA StepTimes ==
  ASSUME Assumption, Types, TimeInv, DoneInv, [Next]_vars
  PROVE  TimeInv'
  <1>1. ASSUME NEW g \in Group, NEW t \in Groups[g].texts, EditScript(g, t) PROVE TimeInv'
    <2>1. /\ clock \in Nat /\ clock' = clock + 1 /\ deps' = deps /\ object' = object
          /\ source' = source /\ script' = [script EXCEPT ![Groups[g].script] = clock']
      BY <1>1 DEF EditScript, Outside, disk, Types
    <2>2. \A d \in deps : \A r \in DOMAIN d.scripts : d.scripts[r] <= clock'
      <3>1. \A d \in deps : \A r \in DOMAIN d.scripts : d.scripts[r] \in Nat /\ d.scripts[r] <= clock
        BY DEF Types, TimeInv
      <3>2. QED
        BY <2>1, <3>1
    <2>3. \A r \in Scripts : script'[r] <= clock'
      BY <2>1 DEF Types, TimeInv
    <2>4. \A r \in Sources : source[r] <= clock'
      BY <2>1 DEF Types, TimeInv
    <2>5. QED
      BY <2>1, <2>2, <2>3, <2>4 DEF TimeInv
  <1>2. ASSUME NEW s \in Sources, EditSource(s) PROVE TimeInv'
    <2>1. /\ clock \in Nat /\ clock' = clock + 1 /\ deps' = deps /\ object' = object
          /\ script' = script /\ source' = [source EXCEPT ![s] = clock']
      BY <1>2 DEF EditSource, Outside, disk, Types
    <2>2. ASSUME NEW d \in deps
          PROVE  /\ d.at <= source'[d.source]
                 /\ d.at = source'[d.source] => object[d.source] = d.at
                 /\ \A r \in DOMAIN d.scripts : d.scripts[r] <= clock'
      <3>1. d.source \in Sources /\ d.at \in Nat /\ source[d.source] \in Nat
        BY DEF Types
      <3>2. d.at <= source[d.source] /\ source[d.source] <= clock
        BY <3>1 DEF TimeInv
      <3>3. \A r \in DOMAIN d.scripts : d.scripts[r] \in Nat /\ d.scripts[r] <= clock
        BY DEF Types, TimeInv
      <3>4. CASE d.source = s
        BY <2>1, <3>1, <3>2, <3>3, <3>4 DEF Types
      <3>5. CASE d.source # s
        BY <2>1, <3>1, <3>2, <3>3, <3>5 DEF Types, TimeInv
      <3>6. QED
        BY <3>4, <3>5
    <2>3. \A r \in Scripts : script[r] <= clock'
      BY <2>1 DEF Types, TimeInv
    <2>4. \A r \in Sources : source'[r] <= clock'
      BY <2>1 DEF Types, TimeInv
    <2>5. QED
      BY <2>1, <2>2, <2>3, <2>4 DEF TimeInv
  <1>3. CASE SetOption
    BY <1>3 DEF SetOption, Outside, disk, TimeInv
  <1>4. CASE Begin \/ Skip \/ Resolve \/ Kill
    BY <1>4 DEF Begin, Skip, Resolve, Kill, user, disk, TimeInv
  <1>5. CASE Compile
    BY <1>5 DEF Compile, user, Types, TimeInv
  <1>6. CASE Commit
    <2>1. Rule.script \in Scripts /\ Rule.source \in Sources /\ Root \in Scripts /\ Fresh(pos)
      BY <1>6, RuleType DEF Commit, DoneInv
    <2>2. /\ \A s \in DOMAIN Record.scripts : Record.scripts[s] <= clock
          /\ Record.at = source[Record.source]
          /\ Record.at <= source[Record.source]
          /\ object[Record.source] = Record.at
      <3>1. Record.source = Rule.source /\ Record.at = source[Rule.source]
        BY DEF Record
      <3>2. source[Rule.source] \in Nat /\ source[Rule.source] <= source[Rule.source]
        BY <2>1 DEF Types
      <3>3. \A s \in DOMAIN Record.scripts : Record.scripts[s] <= clock
        BY <2>1 DEF Record, UnitDeps, TimeInv
      <3>4. QED
        BY <2>1, <3>1, <3>2, <3>3 DEF Fresh, Rule
    <2>3. deps' \subseteq deps \cup {Record} /\ UNCHANGED <<clock, source, script, object>>
      BY <1>6 DEF Commit, user
    <2>4. QED
      BY <2>2, <2>3 DEF TimeInv
  <1>7. CASE UNCHANGED vars
    BY <1>7 DEF vars, user, disk, TimeInv
  <1>8. QED
    BY <1>1, <1>2, <1>3, <1>4, <1>5, <1>6, <1>7 DEF Next

LEMMA PlaceSame ==
  ASSUME PlaceInv, deps' \subseteq deps, UNCHANGED <<rules, script>>
  PROVE  PlaceInv'
  <1>1. ASSUME NEW d \in deps', ~ScriptLate(d)'
        PROVE  (\E ru \in Texts : \E op \in BOOLEAN :
                  /\ d.name[2] \in DOMAIN RegisteredOf(ru, op)
                  /\ RegisteredOf(ru, op)[d.name[2]] = [script |-> d.name[1], source |-> d.source]
                  /\ SameScripts(ru, d.name[1]))'
    <2>1. d \in deps /\ ~ScriptLate(d)
      BY <1>1 DEF ScriptLate
    <2>2. PICK ru \in Texts, op \in BOOLEAN :
               /\ d.name[2] \in DOMAIN RegisteredOf(ru, op)
               /\ RegisteredOf(ru, op)[d.name[2]] = [script |-> d.name[1], source |-> d.source]
               /\ SameScripts(ru, d.name[1])
      BY <2>1 DEF PlaceInv
    <2>3. SameScripts(ru, d.name[1])'
      BY <2>2 DEF SameScripts
    <2>4. QED
      BY <2>2, <2>3 DEF RegisteredOf
  <1>2. QED
    BY <1>1 DEF PlaceInv

LEMMA StepPlaces ==
  ASSUME Assumption, Types, TimeInv, DoneInv, PlaceInv, [Next]_vars
  PROVE  PlaceInv'
  <1>1. ASSUME NEW g \in Group, NEW t \in Groups[g].texts, EditScript(g, t) PROVE PlaceInv'
    <2>1. /\ deps' = deps /\ clock \in Nat /\ clock' = clock + 1
          /\ rules' = [rules EXCEPT ![g] = t]
          /\ script' = [script EXCEPT ![Groups[g].script] = clock']
      BY <1>1 DEF EditScript, Outside, disk, Types
    <2>2. ASSUME NEW d \in deps, ~ScriptLate(d)'
          PROVE  (\E ru \in Texts : \E op \in BOOLEAN :
                    /\ d.name[2] \in DOMAIN RegisteredOf(ru, op)
                    /\ RegisteredOf(ru, op)[d.name[2]] = [script |-> d.name[1], source |-> d.source]
                    /\ SameScripts(ru, d.name[1]))'
      <3>1. DOMAIN d.scripts = {d.name[1], Root} /\ DOMAIN d.scripts \subseteq Scripts
        <4>1. d.name \in Scripts \X Nat /\ d.scripts \in [{d.name[1], Root} -> Nat]
          BY DEF Types
        <4>2. d.name[1] \in Scripts /\ Root \in Scripts
          BY <4>1 DEF Scripts
        <4>3. QED
          BY <4>1, <4>2
      <3>2. \A s \in DOMAIN d.scripts : d.scripts[s] \in Nat /\ d.scripts[s] <= clock /\ ~(script'[s] > d.scripts[s])
        BY <2>2 DEF Types, TimeInv, ScriptLate
      <3>3. Groups[g].script \notin DOMAIN d.scripts
        BY <2>1, <3>1, <3>2 DEF Types
      <3>4. ~ScriptLate(d)
        BY <2>1, <2>2, <3>3 DEF ScriptLate, Types
      <3>5. PICK ru \in Texts, op \in BOOLEAN :
                 /\ d.name[2] \in DOMAIN RegisteredOf(ru, op)
                 /\ RegisteredOf(ru, op)[d.name[2]] = [script |-> d.name[1], source |-> d.source]
                 /\ SameScripts(ru, d.name[1])
        BY <3>4 DEF PlaceInv
      <3>6. SameScripts(ru, d.name[1])'
        BY <2>1, <3>1, <3>3, <3>5 DEF SameScripts, Types, Texts
      <3>7. QED
        BY <3>5, <3>6 DEF RegisteredOf
    <2>3. QED
      BY <2>1, <2>2 DEF PlaceInv
  <1>2. CASE \/ \E s \in Sources : EditSource(s)
             \/ SetOption \/ Begin \/ Skip \/ Resolve \/ Compile \/ Kill \/ UNCHANGED vars
    BY <1>2, PlaceSame DEF EditSource, Outside, SetOption, Begin, Skip, Resolve, Compile, Kill,
                           vars, user, disk
  <1>3. CASE Commit
    <2>1. deps' \subseteq deps \cup {Record} /\ UNCHANGED <<rules, script>>
      BY <1>3 DEF Commit, user
    <2>2. pos \in 1 .. Len(Registered) /\ Rule \in Node /\ rules \in Texts /\ option \in BOOLEAN
      BY <1>3, RuleType DEF Commit, Types
    <2>3. /\ pos \in DOMAIN RegisteredOf(rules, option)
          /\ RegisteredOf(rules, option)[pos] = [script |-> Rule.script, source |-> Rule.source]
      BY <2>2, RegisteredType DEF Registered, Rule, Node
    <2>4. PICK c : c = Record
      OBVIOUS
    <2>5. c.name[1] = Rule.script /\ c.name[2] = pos /\ c.source = Rule.source
      BY <2>4 DEF Record, Vfile
    <2>6. (SameScripts(rules, c.name[1]))'
      BY DEF SameScripts
    <2>7. ASSUME NEW d \in deps', ~ScriptLate(d)'
          PROVE  (\E ru \in Texts : \E op \in BOOLEAN :
                    /\ d.name[2] \in DOMAIN RegisteredOf(ru, op)
                    /\ RegisteredOf(ru, op)[d.name[2]] = [script |-> d.name[1], source |-> d.source]
                    /\ SameScripts(ru, d.name[1]))'
      <3>1. CASE d = c
        <4>1. PICK ru \in Texts, op \in BOOLEAN : ru = rules /\ op = option
          BY <2>2
        <4>2. /\ d.name[2] \in DOMAIN RegisteredOf(ru, op)
              /\ RegisteredOf(ru, op)[d.name[2]] = [script |-> d.name[1], source |-> d.source]
          BY <2>3, <2>5, <3>1, <4>1
        <4>3. SameScripts(ru, d.name[1])'
          BY <2>1, <4>1 DEF SameScripts
        <4>4. QED
          BY <4>2, <4>3 DEF RegisteredOf
      <3>2. CASE d # c
        <4>1. d \in deps /\ ~ScriptLate(d)
          BY <2>1, <2>4, <2>7, <3>2 DEF ScriptLate
        <4>2. PICK ru \in Texts, op \in BOOLEAN :
                   /\ d.name[2] \in DOMAIN RegisteredOf(ru, op)
                   /\ RegisteredOf(ru, op)[d.name[2]] = [script |-> d.name[1], source |-> d.source]
                   /\ SameScripts(ru, d.name[1])
          BY <4>1 DEF PlaceInv
        <4>3. SameScripts(ru, d.name[1])'
          BY <2>1, <4>2 DEF SameScripts
        <4>4. QED
          BY <4>2, <4>3 DEF RegisteredOf
      <3>3. QED
        BY <3>1, <3>2
    <2>8. QED
      BY <2>7 DEF PlaceInv
  <1>4. QED
    BY <1>1, <1>2, <1>3 DEF Next

\* After the rule at pos the next one, or the invocation is finished.
LEMMA Ahead ==
  ASSUME Assumption, Types, ObjectsFresh, pos \in 0 .. Len(Registered),
         \A i \in 1 .. pos : Fresh(i), NextRule, UNCHANGED <<user, object>>
  PROVE  DoneInv' /\ ObjectsFresh'
  <1>1. Registered' = Registered /\ source' = source /\ object' = object
    BY RegisteredKept DEF user
  <1>2. PICK n \in Nat : n = Len(Registered)
    BY RegisteredType
  <1>3. \A i : Fresh(i)' = Fresh(i)
    BY <1>1 DEF Fresh
  <1>4. CASE pos < Len(Registered)
    <2>1. pos' = pos + 1 /\ step' = "resolve" /\ last' = last
      BY <1>4 DEF NextRule
    <2>2. pos' \in 0 .. n /\ pos' # 0 /\ \A i \in 1 .. pos' - 1 : i \in 1 .. pos
      BY <1>2, <1>4, <2>1
    <2>3. DoneInv'
      BY <1>1, <1>2, <1>3, <2>1, <2>2 DEF DoneInv
    <2>4. ObjectsFresh'
      BY <1>1, <2>1 DEF ObjectsFresh
    <2>5. QED
      BY <2>3, <2>4
  <1>5. CASE ~(pos < Len(Registered))
    <2>1. pos' = 0 /\ step' = "idle"
      BY <1>5 DEF NextRule
    <2>2. pos = n
      BY <1>2, <1>5
    <2>3. DoneInv'
      BY <1>1, <1>2, <2>1 DEF DoneInv
    <2>4. \A i \in DOMAIN Registered : Fresh(i)
      BY <1>2, <2>2, RegisteredType
    <2>5. \A r \in Range(Registered) : object[r.source] = source[r.source]
      BY <2>4 DEF Range, Fresh
    <2>6. ObjectsFresh'
      BY <1>1, <2>5 DEF ObjectsFresh
    <2>7. QED
      BY <2>3, <2>6
  <1>6. QED
    BY <1>4, <1>5

LEMMA StepDone ==
  ASSUME Assumption, PlacesKept, IInv, Types', [Next]_vars
  PROVE  DoneInv' /\ ObjectsFresh'
  <1> USE DEF IInv
  <1>1. CASE \/ \E g \in Group : \E t \in Groups[g].texts : EditScript(g, t)
             \/ \E s \in Sources : EditSource(s)
             \/ SetOption
    <2>1. pos' = 0 /\ step' = "idle" /\ last' = "none"
      BY <1>1 DEF EditScript, EditSource, SetOption, Outside, proc, DoneInv
    <2>2. (Len(Registered) \in Nat)'
      BY RegisteredType, PTL
    <2>3. DoneInv'
      BY <2>1, <2>2 DEF DoneInv
    <2>4. QED
      BY <2>1, <2>3 DEF ObjectsFresh
  <1>2. CASE Begin
    <2>1. pos = 0 /\ pos \in 0 .. Len(Registered) /\ \A i \in 1 .. pos : Fresh(i)
      BY <1>2 DEF Begin, DoneInv
    <2>2. QED
      BY <1>2, <2>1, Ahead DEF Begin, disk
  <1>3. CASE Skip
    <2>1. Fresh(pos) /\ pos \in 1 .. Len(Registered) /\ pos \in 0 .. Len(Registered)
      BY <1>3, SkipFresh, RuleType DEF Skip, DoneInv
    <2>2. \A i \in 1 .. pos : i \in 1 .. pos - 1 \/ i = pos
      BY <2>1
    <2>3. \A i \in 1 .. pos : Fresh(i)
      BY <2>1, <2>2 DEF DoneInv
    <2>4. QED
      BY <1>3, <2>1, <2>3, Ahead DEF Skip, disk
  <1>4. CASE Resolve
    <2>1. \A d \in Kept : ToCompile(d)
      BY <1>4, OutdatedCompiled DEF Resolve
    <2>2. step' = "compile" /\ pos' = pos /\ last' = last /\ object' = object /\ step # "idle"
      BY <1>4, <2>1 DEF Resolve, disk
    <2>3. Registered' = Registered /\ source' = source
      BY <1>4, RegisteredKept DEF Resolve, user
    <2>4. \A i : Fresh(i)' = Fresh(i)
      BY <2>2, <2>3 DEF Fresh
    <2>5. DoneInv'
      BY <2>2, <2>3, <2>4 DEF DoneInv
    <2>6. ObjectsFresh'
      BY <2>2, <2>3 DEF ObjectsFresh
    <2>7. QED
      BY <2>5, <2>6
  <1>5. CASE Compile
    <2>1. /\ step # "idle" /\ step' = "commit" /\ pos' = pos /\ last' = last
          /\ object' = [object EXCEPT ![Rule.source] = source[Rule.source]]
      BY <1>5 DEF Compile
    <2>2. Registered' = Registered /\ source' = source
      BY <1>5, RegisteredKept DEF Compile, user
    <2>3. Rule.source \in Sources
      BY <2>1, RuleType
    <2>4. \A i : Fresh(i) => Fresh(i)'
      BY <2>1, <2>2 DEF Fresh, Types
    <2>5. Fresh(pos)'
      BY <2>1, <2>2, <2>3 DEF Fresh, Rule, Types
    <2>6. DoneInv'
      BY <2>1, <2>2, <2>4, <2>5 DEF DoneInv
    <2>7. ObjectsFresh'
      BY <2>1, <2>2, <2>3 DEF ObjectsFresh, Types
    <2>8. QED
      BY <2>6, <2>7
  <1>6. CASE Commit
    <2>1. Fresh(pos) /\ pos \in 1 .. Len(Registered) /\ pos \in 0 .. Len(Registered)
      BY <1>6, RuleType DEF Commit, DoneInv
    <2>2. \A i \in 1 .. pos : i \in 1 .. pos - 1 \/ i = pos
      BY <2>1
    <2>3. \A i \in 1 .. pos : Fresh(i)
      BY <2>1, <2>2 DEF DoneInv
    <2>4. QED
      BY <1>6, <2>1, <2>3, Ahead DEF Commit
  <1>7. CASE Kill
    <2>1. pos' = 0 /\ step' = "idle" /\ last' = "killed"
      BY <1>7 DEF Kill
    <2>2. Len(Registered') \in Nat
      BY <1>7, RegisteredKept, RegisteredType DEF Kill
    <2>3. DoneInv'
      BY <2>1, <2>2 DEF DoneInv
    <2>4. QED
      BY <2>1, <2>3 DEF ObjectsFresh
  <1>8. CASE UNCHANGED vars
    <2>1. Registered' = Registered /\ UNCHANGED <<object, source, pos, step, last>>
      BY <1>8, RegisteredKept DEF vars, user, disk, proc
    <2>2. QED
      BY <2>1 DEF DoneInv, ObjectsFresh, Fresh
  <1>9. QED
    BY <1>1, <1>2, <1>3, <1>4, <1>5, <1>6, <1>7, <1>8 DEF Next

LEMMA InitNames == ASSUME Assumption, Init PROVE IInv
  <1>1. Types
    BY DEF Init, Types
  <1>2. TimeInv
    BY DEF Init, TimeInv
  <1>3. PlaceInv /\ ObjectsFresh
    BY DEF Init, PlaceInv, ObjectsFresh
  <1>4. DoneInv
    BY <1>1, RegisteredType DEF Init, DoneInv
  <1>5. QED
    BY <1>1, <1>2, <1>3, <1>4 DEF IInv

-----------------------------------------------------------------------------
\* Whatever .deps files earlier rules have left, and whatever rules come, go and are
\* killed: a record that no script has outdated is of the rule that has its name now.
THEOREM NamesInductive == ASSUME Assumption, PlacesKept PROVE Spec => []IInv
  <1>1. Init => IInv
    BY InitNames
  <1>2. IInv /\ [Next]_vars => IInv'
    <2> SUFFICES ASSUME IInv, [Next]_vars PROVE IInv'
      OBVIOUS
    <2>1. Types'
      BY StepTypes DEF IInv
    <2>2. TimeInv' /\ PlaceInv'
      BY StepTimes, StepPlaces DEF IInv
    <2>3. DoneInv' /\ ObjectsFresh'
      BY <2>1, StepDone
    <2>4. QED
      BY <2>1, <2>2, <2>3 DEF IInv
  <1>3. QED
    BY <1>1, <1>2, PTL DEF Spec

\* The numbers in the names of .deps files are safe in every project in which the
\* number of a rule is decided by the scripts the rule records: after a successful
\* build every rule has an object of its present source.
THEOREM NumbersSafe == ASSUME Assumption, PlacesKept PROVE Spec => []ObjectsFresh
  BY NamesInductive, PTL DEF IInv
=============================================================================
