------------------------- MODULE BuildGraph_proofs -------------------------
(***************************************************************************)
(* Theorems about the builds of run rules, for every number of rules, every *)
(* build script and every sequence of edits, failures and kills.           *)
(***************************************************************************)
EXTENDS BuildGraphInv, FiniteSetTheorems, SequenceTheorems, TLAPS

-----------------------------------------------------------------------------
(***************************************************************************)
(* The stack of rules being built, and the names a frame has still to do.  *)
(***************************************************************************)

LEMMA Topmost ==
  ASSUME NEW s \in Seq(Frame), s # <<>>
  PROVE  /\ Len(s) \in Nat \ {0} /\ Len(s) \in 1 .. Len(s) /\ s[Len(s)] \in Frame
         /\ \A k \in 1 .. Len(s) : s[k] \in Frame
  BY EmptySeq, LenProperties, ElementOfSeq

LEMMA Push ==
  ASSUME stack \in Seq(Frame), NEW fr \in Frame, stack' = Append(stack, fr)
  PROVE  /\ stack' \in Seq(Frame) /\ stack' # <<>>
         /\ Len(stack) \in Nat /\ Len(stack') = Len(stack) + 1
         /\ \A k \in 1 .. Len(stack) : stack'[k] = stack[k]
         /\ stack'[Len(stack) + 1] = fr /\ Top' = fr
  BY AppendProperties, LenProperties DEF Top

LEMMA Pop ==
  ASSUME stack \in Seq(Frame), stack # <<>>, stack' = SubSeq(stack, 1, Len(stack) - 1)
  PROVE  /\ stack' \in Seq(Frame)
         /\ Len(stack) \in Nat \ {0} /\ Len(stack') = Len(stack) - 1
         /\ \A k \in 1 .. Len(stack') : k \in 1 .. Len(stack) /\ stack'[k] = stack[k] /\ k # Len(stack)
  <1>1. Len(stack) \in Nat \ {0}
    BY Topmost
  <1>2. /\ stack' \in Seq(Frame) /\ Len(stack') = Len(stack) - 1
        /\ \A k \in 1 .. Len(stack) - 1 : stack'[k] = stack[k]
    <2>1. \A k \in 1 .. Len(stack) - 1 : stack[k] \in Frame
      BY <1>1, ElementOfSeq
    <2>2. /\ SubSeq(stack, 1, Len(stack) - 1) \in Seq(Frame)
          /\ Len(SubSeq(stack, 1, Len(stack) - 1)) = IF 1 <= Len(stack) - 1 THEN Len(stack) - 1 - 1 + 1 ELSE 0
          /\ \A k \in 1 .. Len(stack) - 1 - 1 + 1 : SubSeq(stack, 1, Len(stack) - 1)[k] = stack[1 + k - 1]
      BY <1>1, <2>1, SubSeqProperties
    <2>3. Len(stack) - 1 \in Nat /\ Len(stack) - 1 - 1 + 1 = Len(stack) - 1
          /\ \A k \in 1 .. Len(stack) - 1 : 1 + k - 1 = k
      BY <1>1
    <2>4. QED
      BY <2>2, <2>3
  <1>3. QED
    BY <1>1, <1>2

LEMMA Replace ==
  ASSUME stack \in Seq(Frame), stack # <<>>, NEW fr \in Frame, stack' = SetTop(fr)
  PROVE  /\ stack' \in Seq(Frame) /\ stack' # <<>>
         /\ Len(stack) \in Nat \ {0} /\ Len(stack') = Len(stack)
         /\ \A k \in 1 .. Len(stack) : stack'[k] = IF k = Len(stack) THEN fr ELSE stack[k]
         /\ Top' = fr
  <1>1. Len(stack) \in Nat \ {0} /\ Len(stack) \in 1 .. Len(stack)
    BY Topmost
  <1>2. /\ stack' \in Seq(Frame) /\ Len(stack') = Len(stack)
        /\ \A k \in 1 .. Len(stack) : stack'[k] = IF k = Len(stack) THEN fr ELSE stack[k]
    BY <1>1, ExceptSeq DEF SetTop
  <1>3. stack' # <<>>
    BY <1>1, <1>2, EmptySeq
  <1>4. QED
    BY <1>1, <1>2, <1>3 DEF Top

LEMMA RangeTail ==
  ASSUME NEW S, NEW q \in Seq(S), q # <<>>
  PROVE  /\ Head(q) \in S /\ Tail(q) \in Seq(S)
         /\ Range(q) = {Head(q)} \cup Range(Tail(q))
  <1>1. /\ Len(q) \in Nat \ {0} /\ DOMAIN q = 1 .. Len(q) /\ Head(q) = q[1] /\ q[1] \in S
        /\ Tail(q) \in Seq(S) /\ Len(Tail(q)) = Len(q) - 1
        /\ \A i \in 1 .. Len(Tail(q)) : Tail(q)[i] = q[i + 1]
    BY EmptySeq, LenProperties, HeadTailProperties, ElementOfSeq
  <1>2. DOMAIN Tail(q) = 1 .. Len(q) - 1
    BY <1>1, LenProperties
  <1>3. ASSUME NEW x \in Range(q) PROVE x = Head(q) \/ x \in Range(Tail(q))
    <2>1. PICK i \in 1 .. Len(q) : x = q[i]
      BY <1>1 DEF Range
    <2>2. CASE i = 1
      BY <1>1, <2>1, <2>2
    <2>3. CASE i # 1
      <3>1. i - 1 \in 1 .. Len(q) - 1 /\ Tail(q)[i - 1] = q[i]
        BY <1>1, <2>1, <2>3
      <3>2. QED
        BY <1>2, <2>1, <3>1 DEF Range
    <2>4. QED
      BY <2>2, <2>3
  <1>4. Head(q) \in Range(q)
    BY <1>1 DEF Range
  <1>5. ASSUME NEW x \in Range(Tail(q)) PROVE x \in Range(q)
    <2>1. PICK i \in 1 .. Len(q) - 1 : x = Tail(q)[i]
      BY <1>2 DEF Range
    <2>2. i + 1 \in 1 .. Len(q) /\ x = q[i + 1]
      BY <1>1, <2>1
    <2>3. QED
      BY <1>1, <2>2 DEF Range
  <1>6. QED
    BY <1>1, <1>3, <1>4, <1>5

LEMMA RangeAppend ==
  ASSUME NEW S, NEW q \in Seq(S), NEW x \in S
  PROVE  Append(q, x) \in Seq(S) /\ Range(Append(q, x)) = Range(q) \cup {x}
  <1>1. /\ Append(q, x) \in Seq(S) /\ Len(Append(q, x)) = Len(q) + 1 /\ Len(q) \in Nat
        /\ \A i \in 1 .. Len(q) : Append(q, x)[i] = q[i]
        /\ Append(q, x)[Len(q) + 1] = x
        /\ DOMAIN q = 1 .. Len(q) /\ DOMAIN Append(q, x) = 1 .. Len(q) + 1
    BY AppendProperties, LenProperties
  <1>2. 1 .. Len(q) + 1 = (1 .. Len(q)) \cup {Len(q) + 1}
    BY <1>1
  <1>3. QED
    BY <1>1, <1>2 DEF Range

LEMMA RangeEmpty == ASSUME NEW S, NEW q \in Seq(S) PROVE q = <<>> <=> Range(q) = {}
  <1>1. q # <<>> => Range(q) # {}
    <2>1. ASSUME q # <<>> PROVE Head(q) \in Range(q)
      BY <2>1, RangeTail
    <2>2. QED
      BY <2>1
  <1>2. q = <<>> => Range(q) = {}
    BY EmptySeq, LenProperties DEF Range
  <1>3. QED
    BY <1>1, <1>2

-----------------------------------------------------------------------------
(***************************************************************************)
(* What the steps that move a frame do to it.                              *)
(***************************************************************************)

NewFrame(r) == [rule |-> r, left |-> Consumes[shape][r], miss |-> <<>>, got |-> {}]

LEMMA EnterType ==
  ASSUME Types, NEW r \in Rules
  PROVE  /\ NewFrame(r) \in Frame /\ Enter(r) = Append(stack, NewFrame(r))
         /\ NewFrame(r).rule = r /\ NewFrame(r).left = Consumes[shape][r]
         /\ NewFrame(r).miss = <<>> /\ NewFrame(r).got = {}
  <1>1. Consumes[shape][r] \in Seq(Names)
    BY ShapeAssumption DEF Types
  <1>2. <<>> \in Seq(Names)
    BY EmptySeq
  <1>3. QED
    BY <1>1, <1>2 DEF NewFrame, Frame, Enter

LEMMA TopType ==
  ASSUME Types, stack # <<>>
  PROVE  /\ Top \in Frame /\ Top.rule \in Rules /\ Top.left \in Seq(Names)
         /\ Top.miss \in Seq(Names) /\ Top.got \in SUBSET File
         /\ Len(stack) \in 1 .. Len(stack) /\ Top = stack[Len(stack)]
  <1>1. Top \in Frame /\ Len(stack) \in 1 .. Len(stack)
    BY Topmost DEF Top, Types
  <1>2. QED
    BY <1>1 DEF Frame, Top

\* LookInCache moves the next name to got or to miss.
LEMMA LookInCacheFrame ==
  ASSUME Types, LookInCache
  PROVE  \E fr \in Frame, f \in Names :
           /\ stack # <<>> /\ cmd = {} /\ stack' = SetTop(fr)
           /\ f = Head(Top.left) /\ Unbuilt(f) = {}
           /\ Range(Top.left) = {f} \cup Range(fr.left) /\ fr.rule = Top.rule
           /\ \/ cache[f] # {} /\ Range(fr.miss) = Range(Top.miss) /\ fr.got = Top.got \cup {<<"cache", f>>}
              \/ cache[f] = {} /\ Range(fr.miss) = Range(Top.miss) \cup {f} /\ fr.got = Top.got
  <1> DEFINE f == Head(Top.left)
  <1>1. /\ stack # <<>> /\ cmd = {} /\ Top.left # <<>> /\ Unbuilt(f) = {}
        /\ stack' = SetTop(IF cache[f] # {}
              THEN [Top EXCEPT !.left = Tail(@), !.got = @ \cup {<<"cache", f>>}]
              ELSE [Top EXCEPT !.left = Tail(@), !.miss = Append(@, f)])
    BY DEF LookInCache, Resolving
  <1>2. /\ Top \in Frame /\ Top.left \in Seq(Names) /\ Top.miss \in Seq(Names) /\ Top.got \in SUBSET File
    BY <1>1, TopType
  <1>3. /\ f \in Names /\ Tail(Top.left) \in Seq(Names)
        /\ Range(Top.left) = {f} \cup Range(Tail(Top.left))
    BY <1>1, <1>2, RangeTail
  <1>4. CASE cache[f] # {}
    <2> DEFINE fr == [Top EXCEPT !.left = Tail(@), !.got = @ \cup {<<"cache", f>>}]
    <2>1. <<"cache", f>> \in File
      BY <1>3 DEF File
    <2>2. fr \in Frame /\ fr.rule = Top.rule /\ fr.left = Tail(Top.left) /\ fr.miss = Top.miss
          /\ fr.got = Top.got \cup {<<"cache", f>>}
      BY <1>2, <1>3, <2>1 DEF Frame
    <2>3. stack' = SetTop(fr)
      BY <1>1, <1>4
    <2> HIDE DEF fr, f
    <2>4. QED
      BY <1>1, <1>3, <1>4, <2>2, <2>3 DEF f
  <1>5. CASE cache[f] = {}
    <2> DEFINE fr == [Top EXCEPT !.left = Tail(@), !.miss = Append(@, f)]
    <2>1. Append(Top.miss, f) \in Seq(Names) /\ Range(Append(Top.miss, f)) = Range(Top.miss) \cup {f}
      BY <1>2, <1>3, RangeAppend
    <2>2. fr \in Frame /\ fr.rule = Top.rule /\ fr.left = Tail(Top.left) /\ fr.miss = Append(Top.miss, f)
          /\ fr.got = Top.got
      BY <1>2, <1>3, <2>1 DEF Frame
    <2>3. stack' = SetTop(fr)
      BY <1>1, <1>5
    <2> HIDE DEF fr, f
    <2>4. QED
      BY <1>1, <1>3, <1>5, <2>1, <2>2, <2>3 DEF f
  <1>6. QED
    BY <1>4, <1>5

\* LookInSource moves the next name from miss to got, or ends the build.
LEMMA LookInSourceFrame ==
  ASSUME Types, LookInSource
  PROVE  /\ stack # <<>> /\ cmd = {} /\ Top.left = <<>>
         /\ \/ Exit("unresolved")
            \/ \E fr \in Frame, f \in Names :
                 /\ stack' = SetTop(fr) /\ UNCHANGED <<pc, built, cmd, log, result>>
                 /\ src[f] # 0 /\ Range(Top.miss) = {f} \cup Range(fr.miss)
                 /\ fr.rule = Top.rule /\ fr.left = <<>> /\ fr.got = Top.got \cup {<<"src", f>>}
  <1> DEFINE f == Head(Top.miss)
  <1>1. stack # <<>> /\ cmd = {} /\ Top.left = <<>> /\ Top.miss # <<>>
    BY DEF LookInSource, Resolving
  <1>2. /\ Top \in Frame /\ Top.left \in Seq(Names) /\ Top.miss \in Seq(Names) /\ Top.got \in SUBSET File
    BY <1>1, TopType
  <1>3. /\ f \in Names /\ Tail(Top.miss) \in Seq(Names)
        /\ Range(Top.miss) = {f} \cup Range(Tail(Top.miss))
    BY <1>1, <1>2, RangeTail
  <1>4. CASE src[f] # 0
    <2> DEFINE fr == [Top EXCEPT !.miss = Tail(@), !.got = @ \cup {<<"src", f>>}]
    <2>1. <<"src", f>> \in File
      BY <1>3 DEF File
    <2>2. fr \in Frame /\ fr.rule = Top.rule /\ fr.left = Top.left /\ fr.miss = Tail(Top.miss)
          /\ fr.got = Top.got \cup {<<"src", f>>}
      BY <1>2, <1>3, <2>1 DEF Frame
    <2>3. stack' = SetTop(fr) /\ UNCHANGED <<pc, built, cmd, log, result>>
      BY <1>4 DEF LookInSource
    <2> HIDE DEF fr, f
    <2>4. QED
      BY <1>1, <1>3, <1>4, <2>2, <2>3
  <1>5. CASE src[f] = 0
    BY <1>1, <1>5 DEF LookInSource
  <1>6. QED
    BY <1>4, <1>5

-----------------------------------------------------------------------------
(***************************************************************************)
(* Types.                                                                  *)
(***************************************************************************)

LEMMA PresentType ==
  ASSUME Types, NEW F \in SUBSET File
  PROVE  Present(F) \subseteq File \X Nat
  <1>1. \A x \in File : MTime(x) \subseteq Nat
    BY DEF Types, File, MTime, Product
  <1>2. QED
    BY <1>1 DEF Present

LEMMA RuleTypes ==
  ASSUME Types, NEW r \in Rules
  PROVE  /\ Produces[shape][r] \in SUBSET Names /\ Consumes[shape][r] \in Seq(Names)
         /\ Consumed(r) = Range(Consumes[shape][r]) /\ Consumed(r) \subseteq Names
         /\ Args[shape][r] \in {Args[sh][q] : sh \in Shapes, q \in Rules}
         /\ {"cache"} \X Produces[shape][r] \in SUBSET File
  <1>1. Produces[shape][r] \in SUBSET Names /\ Consumes[shape][r] \in Seq(Names)
    BY ShapeAssumption DEF Types
  <1>2. Consumed(r) = Range(Consumes[shape][r])
    BY DEF Consumed, Range
  <1>3. Consumed(r) \subseteq Names
    BY <1>1, <1>2, RangeOfSeq
  <1>4. Args[shape][r] \in {Args[sh][q] : sh \in Shapes, q \in Rules}
    BY DEF Types
  <1>5. QED
    BY <1>1, <1>2, <1>3, <1>4 DEF File

\* The command that runs, and the rule it belongs to.
LEMMA Running ==
  ASSUME Types, CommandInv, NEW c \in cmd
  PROVE  /\ stack # <<>> /\ Top \in Frame /\ Top.rule \in Rules
         /\ c \in Command /\ c.args \in {Args[sh][r] : sh \in Shapes, r \in Rules}
         /\ c.in \in SUBSET (File \X Nat) /\ c.todo \in SUBSET Names
  BY TopType DEF CommandInv, Types, Command

LEMMA TypesExit ==
  ASSUME Types, NEW o \in {"ok", "fail", "cyclic", "unresolved", "killed"}, Exit(o),
         UNCHANGED <<world, cache, deps>>
  PROVE  Types'
  <1>1. <<>> \in Seq(Frame)
    BY EmptySeq
  <1>2. QED
    BY <1>1 DEF Types, Exit, world

LEMMA TypesUser == ASSUME Types, User PROVE Types'
  <1>1. UNCHANGED <<deps, pc, built, stack, cmd, log>> /\ result' = "none"
    BY DEF User, Outside, EditSource, DeleteSource, DeleteProduct, EditProduct, EditScript, SetVariables
  <1>2. clock' \in Nat /\ text' \in Nat /\ shape' \in Shapes /\ src' \in [Names -> Nat]
    <2> clock \in Nat /\ text \in Nat /\ shape \in Shapes /\ src \in [Names -> Nat]
      BY DEF Types
    <2>1. ASSUME NEW f \in Names, EditSource(f) \/ DeleteSource(f)
          PROVE  clock' \in Nat /\ UNCHANGED <<text, shape>> /\ src' \in [Names -> Nat]
      BY <2>1 DEF Tick, EditSource, DeleteSource
    <2>2. ASSUME NEW f \in Names, DeleteProduct(f) \/ EditProduct(f)
          PROVE  clock' \in Nat /\ UNCHANGED <<text, shape, src>>
      BY <2>2 DEF Tick, DeleteProduct, EditProduct, world
    <2>3. ASSUME NEW sh \in Shapes, EditScript(sh) \/ SetVariables(sh)
          PROVE  clock' \in Nat /\ text' \in Nat /\ shape' \in Shapes /\ UNCHANGED src
      BY <2>3 DEF Tick, EditScript, SetVariables
    <2>4. QED
      BY <2>1, <2>2, <2>3 DEF User
  <1>3. cache' \in [Names -> SUBSET Product]
    <2>1. ASSUME NEW f \in Names, EditProduct(f) PROVE cache' \in [Names -> SUBSET Product]
      <3>1. clock' \in Nat
        BY <1>2
      <3>2. \A c \in cache[f] : c \in Product
        BY DEF Types
      <3>3. \A c \in cache[f] : [at |-> clock', by |-> 0, args |-> c.args, in |-> c.in] \in Product
        BY <3>1, <3>2 DEF Product
      <3>4. cache' = [cache EXCEPT ![f] = {[at |-> clock', by |-> 0, args |-> c.args, in |-> c.in] : c \in cache[f]}]
        BY <2>1 DEF EditProduct
      <3>5. {[at |-> clock', by |-> 0, args |-> c.args, in |-> c.in] : c \in cache[f]} \in SUBSET Product
        BY <3>3
      <3>6. QED
        BY <3>4, <3>5 DEF Types
    <2>2. ASSUME NEW f \in Names, DeleteProduct(f) PROVE cache' \in [Names -> SUBSET Product]
      BY <2>2 DEF Types, DeleteProduct
    <2>3. QED
      BY <2>1, <2>2 DEF User, EditSource, DeleteSource, EditScript, SetVariables, Types
  <1>4. QED
    BY <1>1, <1>2, <1>3 DEF Types

LEMMA TypesStep == ASSUME Types, CommandInv, [Next]_vars PROVE Types'
  <1>1. CASE User
    BY <1>1, TypesUser
  <1>2. CASE Begin
    BY <1>2 DEF Types, Begin, world
  <1>3. CASE Setup \/ EndOfPass \/ CommandFails \/ Kill
    <2>1. UNCHANGED <<world, cache, deps>>
      BY <1>3 DEF Setup, EndOfPass, CommandFails, Kill
    <2>2. \/ \E o \in {"ok", "fail", "cyclic", "unresolved", "killed"} : Exit(o)
          \/ pc' \in {"build", "post"} /\ UNCHANGED <<built, stack, cmd, log, result>>
      BY <1>3 DEF Setup, EndOfPass, CommandFails, Kill
    <2>3. QED
      BY <2>1, <2>2, TypesExit DEF Types, world
  <1>4. ASSUME NEW r \in Rules, NextRule(r) \/ BuildProducer(r) PROVE Types'
    <2>1. UNCHANGED <<world, cache, deps>>
      BY <1>4 DEF NextRule, BuildProducer
    <2>2. \/ Exit("cyclic")
          \/ stack' = Enter(r) /\ UNCHANGED <<pc, built, cmd, log, result>>
      BY <1>4 DEF NextRule, BuildProducer
    <2>3. stack' = Enter(r) => stack' \in Seq(Frame)
      BY EnterType, Push DEF Types
    <2>4. QED
      BY <2>1, <2>2, <2>3, TypesExit DEF Types, world
  <1>5. CASE LookInCache
    <2>1. stack' \in Seq(Frame)
      BY <1>5, LookInCacheFrame, Replace DEF Types
    <2>2. QED
      BY <1>5, <2>1 DEF Types, LookInCache, world
  <1>6. CASE LookInSource
    <2>1. UNCHANGED <<world, cache, deps>>
      BY <1>6 DEF LookInSource
    <2>2. \/ Exit("unresolved")
          \/ stack' \in Seq(Frame) /\ UNCHANGED <<pc, built, cmd, log, result>>
      BY <1>6, LookInSourceFrame, Replace DEF Types
    <2>3. QED
      BY <2>1, <2>2, TypesExit DEF Types, world
  <1>7. CASE Skip
    <2>1. stack # <<>> /\ stack' = SubSeq(stack, 1, Len(stack) - 1)
          /\ UNCHANGED <<world, cache, deps, pc, cmd, log, result>> /\ built' = built \cup {Top.rule}
      BY <1>7 DEF Skip, Resolved, Resolving
    <2>2. stack' \in Seq(Frame) /\ built' \subseteq Rules
      BY <2>1, Pop, TopType DEF Types
    <2>3. QED
      BY <2>1, <2>2 DEF Types, world
  <1>8. CASE Exec
    <2> DEFINE c == [args |-> Args[shape][Top.rule], in |-> Present(Top.got),
                     todo |-> Produces[shape][Top.rule]]
    <2>1. stack # <<>> /\ cmd' = {c} /\ log' = log \cup {Top.rule}
          /\ UNCHANGED <<world, cache, deps, pc, built, stack, result>>
      BY <1>8 DEF Exec, Resolved, Resolving
    <2>2. Top.rule \in Rules /\ Present(Top.got) \subseteq File \X Nat
      BY <2>1, TopType, PresentType
    <2>3. c \in Command
      BY <2>2, RuleTypes DEF Command
    <2> HIDE DEF c
    <2>4. Command' = Command
      BY DEF Command
    <2>5. QED
      BY <2>1, <2>2, <2>3 DEF Types, world
  <1>9. ASSUME NEW f \in Names, Write(f) PROVE Types'
    <2>1. PICK c \in cmd :
            /\ clock' = clock + 1
            /\ cache' = [cache EXCEPT ![f] = {[at |-> clock', by |-> Top.rule,
                                               args |-> c.args, in |-> c.in]}]
            /\ cmd' = {[c EXCEPT !.todo = @ \ {f}]}
            /\ UNCHANGED <<text, shape, src, deps, pc, built, stack, log, result>>
      BY <1>9 DEF Write
    <2>2. /\ Top.rule \in Rules /\ c \in Command /\ c.args \in {Args[sh][r] : sh \in Shapes, r \in Rules}
          /\ c.in \in SUBSET (File \X Nat) /\ c.todo \in SUBSET Names
      BY Running
    <2>3. clock' \in Nat
      BY <2>1 DEF Types
    <2>4. [at |-> clock', by |-> Top.rule, args |-> c.args, in |-> c.in] \in Product
      BY <2>2, <2>3 DEF Product
    <2>5. cache' \in [Names -> SUBSET Product]
      BY <2>1, <2>4 DEF Types
    <2>6. cmd' \subseteq Command
      BY <2>1, <2>2 DEF Command
    <2>7. QED
      BY <2>1, <2>3, <2>5, <2>6 DEF Types
  <1>10. CASE Commit
    <2> DEFINE d == [text |-> text, args |-> Args[shape][Top.rule], files |-> Recorded(Top)]
    <2>1. /\ stack' = SubSeq(stack, 1, Len(stack) - 1) /\ built' = built \cup {Top.rule} /\ cmd' = {}
          /\ deps' = [deps EXCEPT ![Top.rule] = {d}] /\ UNCHANGED <<world, cache, pc, log, result>>
          /\ cmd # {}
      BY <1>10 DEF Commit
    <2>2. stack # <<>> /\ Top.rule \in Rules /\ Top.got \in SUBSET File
      BY <2>1, TopType DEF CommandInv
    <2>3. Recorded(Top) \subseteq File \X Nat
      BY <2>2, RuleTypes, PresentType DEF Recorded
    <2>4. d \in Record
      BY <2>2, <2>3, RuleTypes DEF Record, Types
    <2> HIDE DEF d
    <2>5. deps' \in [Rules -> SUBSET Record]
      BY <2>1, <2>2, <2>4 DEF Types
    <2>6. stack' \in Seq(Frame) /\ built' \subseteq Rules
      BY <2>1, <2>2, Pop DEF Types
    <2>7. QED
      BY <2>1, <2>5, <2>6 DEF Types, world
  <1>11. CASE UNCHANGED vars
    BY <1>11 DEF Types, vars
  <1>12. QED
    BY <1>1, <1>2, <1>3, <1>4, <1>5, <1>6, <1>7, <1>8, <1>9, <1>10, <1>11
    DEF Next, Autark, Visit, Resolve, Run

-----------------------------------------------------------------------------
(***************************************************************************)
(* The recursion: CoreInv.                                                 *)
(***************************************************************************)

Calm == PassInv /\ StackInv /\ CommandInv /\ LogInv

\* What is left of a process that has exited.
LEMMA CalmExit == ASSUME NEW o, Exit(o) PROVE Calm'
  <1>1. /\ pc' = "idle" /\ built' = {} /\ stack' = <<>> /\ cmd' = {} /\ log' = {}
    BY DEF Exit
  <1>2. Len(stack') = 0
    BY <1>1, EmptySeq
  <1>3. StackInv'
    BY <1>2 DEF StackInv
  <1>4. QED
    BY <1>1, <1>3 DEF Calm, PassInv, CommandInv, LogInv

\* Between two invocations nothing is built.
LEMMA CalmIdle ==
  ASSUME PassInv, pc = "idle", pc' \in {"idle", "setup"}, UNCHANGED <<built, stack, cmd, log>>,
         result' = "none" \/ pc' = "idle"
  PROVE  Calm'
  <1>1. /\ built' = {} /\ stack' = <<>> /\ cmd' = {} /\ log' = {}
    BY DEF PassInv
  <1>2. Len(stack') = 0
    BY <1>1, EmptySeq
  <1>3. StackInv'
    BY <1>2 DEF StackInv
  <1>4. QED
    BY <1>1, <1>3 DEF Calm, PassInv, CommandInv, LogInv

LEMMA CalmPasses == ASSUME CoreInv, Setup \/ EndOfPass PROVE Calm'
  <1> USE DEF CoreInv
  <1>1. CASE \E o \in {"ok", "fail"} : Exit(o)
    BY <1>1, CalmExit
  <1>2. CASE ~\E o \in {"ok", "fail"} : Exit(o)
    <2>1. /\ pc \in {"setup", "build"} /\ pc' \in {"build", "post"} /\ result' = result
          /\ UNCHANGED <<built, stack, cmd, log>> /\ UNCHANGED world
          /\ pc' = "post" => Waiting = {} /\ pc = "build"
      BY <1>2 DEF Setup, EndOfPass, world
    <2>2. shape' = shape
      BY <2>1 DEF world
    <2>3. pc' = "post" => Rules \ Late[shape] \subseteq built
      BY <2>1 DEF Waiting, Pass
    <2>4. PassInv'
      BY <2>1, <2>2, <2>3 DEF PassInv
    <2>5. StackInv' /\ CommandInv' /\ LogInv'
      BY <2>1, <2>2 DEF StackInv, CommandInv, LogInv, Top
    <2>6. QED
      BY <2>4, <2>5 DEF Calm
  <1>3. QED
    BY <1>1, <1>2

LEMMA CalmEnter ==
  ASSUME CoreInv, NEW r \in Rules, NextRule(r) \/ BuildProducer(r) PROVE Calm'
  <1> USE DEF CoreInv
  <1>1. CASE Exit("cyclic")
    BY <1>1, CalmExit
  <1>2. CASE ~Exit("cyclic")
    <2>1. /\ stack' = Enter(r) /\ UNCHANGED <<shape, pc, built, cmd, log, result>>
          /\ r \notin built /\ r \notin OnStack /\ cmd = {} /\ pc \notin {"idle", "setup"}
      <3>1. CASE NextRule(r)
        <4>1. stack = <<>> /\ r \in Waiting
          BY <3>1 DEF NextRule
        <4>2. OnStack = {}
          BY <4>1, EmptySeq DEF OnStack
        <4>3. cmd = {}
          BY <4>1 DEF CommandInv
        <4>4. QED
          BY <3>1, <4>1, <4>2, <4>3 DEF NextRule, Waiting, world
      <3>2. CASE BuildProducer(r)
        BY <1>2, <3>2 DEF BuildProducer, Resolving, Unbuilt, PassInv, world
      <3>3. QED
        BY <3>1, <3>2
    <2>2. /\ stack' \in Seq(Frame) /\ Len(stack') = Len(stack) + 1 /\ Len(stack) \in Nat
          /\ \A k \in 1 .. Len(stack) : stack'[k] = stack[k]
          /\ stack'[Len(stack) + 1].rule = r
      BY <2>1, EnterType, Push DEF Types
    <2>3. \A k \in 1 .. Len(stack) : stack[k].rule # r
      BY <2>1 DEF OnStack
    <2>4. \A k \in 1 .. Len(stack') : k \in 1 .. Len(stack) \/ k = Len(stack) + 1
      BY <2>2
    <2>5. StackInv'
      BY <2>1, <2>2, <2>3, <2>4 DEF StackInv
    <2>6. PassInv' /\ CommandInv'
      BY <2>1 DEF PassInv, CommandInv
    <2>7. LogInv'
      BY <2>1 DEF LogInv
    <2>8. QED
      BY <2>5, <2>6, <2>7 DEF Calm
  <1>3. QED
    BY <1>1, <1>2

LEMMA CalmLook == ASSUME CoreInv, LookInCache \/ LookInSource PROVE Calm'
  <1> USE DEF CoreInv
  <1>1. CASE Exit("unresolved")
    BY <1>1, CalmExit
  <1>2. CASE ~Exit("unresolved")
    <2>1. /\ stack # <<>> /\ cmd = {} /\ UNCHANGED <<shape, pc, built, cmd, log, result>>
          /\ \E fr \in Frame : stack' = SetTop(fr) /\ fr.rule = Top.rule
      <3>1. CASE LookInCache
        BY <3>1, LookInCacheFrame DEF LookInCache, world
      <3>2. CASE LookInSource
        BY <1>2, <3>2, LookInSourceFrame DEF LookInSource, world
      <3>3. QED
        BY <3>1, <3>2
    <2>2. PICK fr \in Frame : stack' = SetTop(fr) /\ fr.rule = Top.rule
      BY <2>1
    <2>3. /\ Len(stack') = Len(stack) /\ stack' # <<>>
          /\ \A k \in 1 .. Len(stack) : stack'[k] = IF k = Len(stack) THEN fr ELSE stack[k]
      BY <2>1, <2>2, Replace DEF Types
    <2>4. \A k \in 1 .. Len(stack) : stack'[k].rule = stack[k].rule
      BY <2>2, <2>3 DEF Top
    <2>5. StackInv'
      BY <2>1, <2>3, <2>4 DEF StackInv
    <2>6. PassInv' /\ CommandInv' /\ LogInv'
      <3>1. pc \notin {"idle", "setup"}
        BY <2>1 DEF PassInv
      <3>2. \A r \in log : r \in built
        BY <2>1 DEF LogInv
      <3>3. QED
        BY <2>1, <3>1, <3>2 DEF PassInv, CommandInv, LogInv
    <2>7. QED
      BY <2>5, <2>6 DEF Calm
  <1>3. QED
    BY <1>1, <1>2

\* The topmost rule is done: it is built, and leaves the stack.
LEMMA CalmPop ==
  ASSUME CoreInv, stack # <<>>, stack' = SubSeq(stack, 1, Len(stack) - 1), cmd' = {},
         built' = built \cup {Top.rule}, UNCHANGED <<shape, pc, log, result>>
  PROVE  Calm'
  <1> USE DEF CoreInv
  <1>1. /\ Len(stack) \in Nat \ {0} /\ Len(stack') = Len(stack) - 1
        /\ \A k \in 1 .. Len(stack') : /\ k \in 1 .. Len(stack) /\ stack'[k] = stack[k]
                                      /\ k # Len(stack)
    BY Pop DEF Types
  <1>2. Top = stack[Len(stack)] /\ Len(stack) \in 1 .. Len(stack)
    BY <1>1 DEF Top
  <1>3. \A k \in 1 .. Len(stack') : stack[k].rule # Top.rule
    BY <1>1, <1>2 DEF StackInv
  <1>4. StackInv'
    BY <1>1, <1>3 DEF StackInv
  <1>5. PassInv'
    BY DEF PassInv
  <1>6. CommandInv' /\ LogInv'
    BY DEF CommandInv, LogInv
  <1>7. QED
    BY <1>4, <1>5, <1>6 DEF Calm

LEMMA CalmExec == ASSUME CoreInv, Exec PROVE Calm'
  <1> USE DEF CoreInv
  <1>1. /\ stack # <<>> /\ cmd = {} /\ Top.left = <<>> /\ Top.miss = <<>>
        /\ log' = log \cup {Top.rule}
        /\ cmd' = {[args |-> Args[shape][Top.rule], in |-> Present(Top.got),
                    todo |-> Produces[shape][Top.rule]]}
        /\ UNCHANGED <<shape, pc, built, stack, result>>
    BY DEF Exec, Resolved, Resolving, world
  <1>2. StackInv' /\ Top' = Top
    BY <1>1 DEF StackInv, Top
  <1>3. PassInv'
    BY <1>1 DEF PassInv
  <1>4. CommandInv'
    BY <1>1, <1>2 DEF CommandInv
  <1>5. LogInv'
    BY <1>1, <1>2 DEF LogInv
  <1>6. QED
    BY <1>2, <1>3, <1>4, <1>5 DEF Calm

LEMMA CalmWrite == ASSUME CoreInv, NEW f \in Names, Write(f) PROVE Calm'
  <1> USE DEF CoreInv
  <1>1. PICK c \in cmd : cmd' = {[c EXCEPT !.todo = @ \ {f}]}
    BY DEF Write
  <1>2. UNCHANGED <<shape, pc, built, stack, log, result>>
    BY DEF Write
  <1>3. Top' = Top /\ StackInv'
    BY <1>2 DEF StackInv, Top
  <1>4. c \in Command
    BY DEF Types
  <1>5. PassInv'
    BY <1>2 DEF PassInv
  <1>6. CommandInv'
    BY <1>1, <1>2, <1>3, <1>4 DEF CommandInv, Command
  <1>7. LogInv'
    BY <1>1, <1>2, <1>3 DEF LogInv
  <1>8. QED
    BY <1>3, <1>5, <1>6, <1>7 DEF Calm

LEMMA CalmStep == ASSUME CoreInv, [Next]_vars PROVE Calm'
  <1> USE DEF CoreInv
  <1>1. CASE User \/ Begin
    <2>1. /\ pc = "idle" /\ pc' \in {"idle", "setup"} /\ UNCHANGED <<built, stack, cmd, log>>
          /\ result' = "none"
      BY <1>1 DEF User, EditSource, DeleteSource, DeleteProduct, EditProduct, EditScript,
                  SetVariables, Outside, Begin
    <2>2. QED
      BY <2>1, CalmIdle
  <1>2. CASE CommandFails \/ Kill
    BY <1>2, CalmExit DEF CommandFails, Kill
  <1>3. CASE Skip \/ Commit
    <2>1. /\ stack # <<>> /\ stack' = SubSeq(stack, 1, Len(stack) - 1) /\ cmd' = {}
          /\ built' = built \cup {Top.rule} /\ UNCHANGED <<shape, pc, log, result>>
      BY <1>3 DEF Skip, Resolved, Resolving, Commit, CommandInv, world
    <2>2. QED
      BY <2>1, CalmPop
  <1>4. CASE UNCHANGED vars
    BY <1>4 DEF vars, Calm, PassInv, StackInv, CommandInv, LogInv, Top
  <1>5. QED
    BY <1>1, <1>2, <1>3, <1>4, CalmPasses, CalmEnter, CalmLook, CalmExec, CalmWrite
    DEF Next, Autark, Visit, Resolve, Run

LEMMA CoreInit == Init => CoreInv
  <1> SUFFICES ASSUME Init PROVE CoreInv
    OBVIOUS
  <1>1. /\ pc = "idle" /\ built = {} /\ stack = <<>> /\ cmd = {} /\ log = {} /\ result = "none"
        /\ clock = 1 /\ text = 1 /\ shape \in Shapes
    BY DEF Init
  <1>2. Len(stack) = 0 /\ stack \in Seq(Frame)
    BY <1>1, EmptySeq
  <1>3. src \in [Names -> Nat] /\ cache \in [Names -> SUBSET Product] /\ deps \in [Rules -> SUBSET Record]
    BY DEF Init
  <1>4. Types
    BY <1>1, <1>2, <1>3 DEF Types
  <1>5. PassInv /\ StackInv /\ CommandInv /\ LogInv
    BY <1>1, <1>2 DEF PassInv, StackInv, CommandInv, LogInv
  <1>6. QED
    BY <1>4, <1>5 DEF CoreInv

\* For every build script and whatever is edited, fails or is killed: no rule
\* waits for itself on the stack of node_build, no rule that is built is built
\* again, and a running command belongs to the rule on top of the stack.
THEOREM CoreInductive == Spec => []CoreInv
  <1>1. CoreInv /\ [Next]_vars => CoreInv'
    <2> SUFFICES ASSUME CoreInv, [Next]_vars PROVE CoreInv'
      OBVIOUS
    <2>1. Types'
      BY TypesStep DEF CoreInv
    <2>2. QED
      BY <2>1, CalmStep DEF Calm, CoreInv
  <1>2. QED
    BY <1>1, CoreInit, PTL DEF Spec

\* One invocation of autark starts the commands of a rule at most once, by
\* whatever rules and in whatever order node_consumes_resolve leads to it.
THEOREM EveryRuleOnce == Spec => RunsOnce
  <1>1. CoreInv /\ [Next]_vars => [\A r \in log : ~(Exec /\ Top.rule = r)]_vars
    <2> SUFFICES ASSUME CoreInv, NEW r \in log, Exec, Top.rule = r PROVE FALSE
      OBVIOUS
    <2>1. stack # <<>> /\ cmd = {}
      BY DEF Exec, Resolved, Resolving
    <2>2. r \in built
      BY <2>1 DEF CoreInv, LogInv
    <2>3. Top = stack[Len(stack)] /\ Len(stack) \in 1 .. Len(stack)
      BY <2>1, TopType DEF CoreInv
    <2>4. QED
      BY <2>2, <2>3 DEF CoreInv, StackInv
  <1>2. QED
    BY <1>1, CoreInductive, PTL DEF Spec, RunsOnce

-----------------------------------------------------------------------------
(***************************************************************************)
(* What a build leaves behind: for every build script that is              *)
(* Trustworthy, a build that went through is as good as a clean one.       *)
(***************************************************************************)

-----------------------------------------------------------------------------
(***************************************************************************)
(* What an up-to-date rule has made.                                       *)
(***************************************************************************)

\* The files of a place have times, one if its name has one file.
LEMMA Times ==
  ASSUME Types, NEW x \in File
  PROVE  /\ MTime(x) \subseteq Nat
         /\ \A f \in Names : x = <<"src", f>> => MTime(x) = {src[f]} \ {0}
         /\ \A f \in Names : x = <<"cache", f>> => MTime(x) = {c.at : c \in cache[f]}
         /\ NameInv => \A s, t \in MTime(x) : s = t
  <1>1. PICK f \in Names : x = <<"src", f>> \/ x = <<"cache", f>>
    BY DEF File
  <1>2. "src" # "cache"
    OBVIOUS
  <1>3. src[f] \in Nat /\ \A c \in cache[f] : c.at \in Nat
    BY DEF Types, Product
  <1>4. CASE x = <<"src", f>>
    BY <1>2, <1>3, <1>4 DEF MTime
  <1>5. CASE x = <<"cache", f>>
    <2>1. MTime(x) = {c.at : c \in cache[f]}
      BY <1>2, <1>5 DEF MTime
    <2>2. NameInv => \A c, e \in cache[f] : c = e
      BY DEF NameInv
    <2>3. QED
      BY <1>2, <1>3, <1>5, <2>1, <2>2
  <1>6. QED
    BY <1>1, <1>4, <1>5

LEMMA InPresent ==
  ASSUME NEW F, NEW x, NEW t
  PROVE  <<x, t>> \in Present(F) <=> x \in F /\ t \in MTime(x)
  BY DEF Present

LEMMA PairsPresent ==
  ASSUME NEW F, NEW p \in Present(F)
  PROVE  p = <<p[1], p[2]>> /\ p[1] \in F /\ p[2] \in MTime(p[1])
  BY DEF Present

LEMMA Places ==
  ASSUME Types, NEW r \in Rules
  PROVE  /\ Inputs(r) \subseteq File /\ Outputs(r) \subseteq File
         /\ FromClean(r) = Present(Inputs(r))
  <1>1. Consumed(r) \subseteq Names /\ Produces[shape][r] \subseteq Names
    BY RuleTypes
  <1>2. QED
    BY <1>1 DEF Inputs, Outputs, Place, File, FromClean

\* The files of a record that finds nothing outdated are as recorded.
LEMMA UpToDateRecord ==
  ASSUME Types, TimeInv, RecordInv, NEW r \in Rules, UpToDate(r)
  PROVE  \E d \in deps[r] :
           /\ d \in Record /\ text <= d.text /\ d.args = Args[shape][r]
           /\ {p[1] : p \in d.files} = Inputs(r) \cup Outputs(r)
           /\ \A p \in d.files : p = <<p[1], p[2]>> /\ p[1] \in File /\ p[2] \in MTime(p[1])
           /\ \A f \in Produces[shape][r] : \A c \in cache[f] :
                <<<<"cache", f>>, c.at>> \in d.files =>
                  /\ c.by = r /\ c.args = d.args
                  /\ c.in = {p \in d.files : p[1] \in Inputs(r)}
  <1>1. PICK d \in deps[r] : /\ text <= d.text /\ d.args = Args[shape][r]
                             /\ \A p \in d.files : ~FileOutdated(p[1], p[2])
    BY DEF UpToDate
  <1>2. d \in Record
    BY DEF Types
  <1>3. ASSUME NEW p \in d.files
        PROVE  p = <<p[1], p[2]>> /\ p[1] \in File /\ p[2] \in MTime(p[1])
    <2>1. p \in File \X Nat
      BY <1>2 DEF Record
    <2>2. p = <<p[1], p[2]>> /\ p[1] \in File /\ p[2] \in Nat
      BY <2>1
    <2>3. PICK m \in MTime(p[1]) : ~(m > p[2])
      BY <1>1 DEF FileOutdated
    <2>4. m \in Nat
      BY <2>2, Times
    <2>5. p[2] <= m
      BY DEF TimeInv
    <2>6. m = p[2]
      BY <2>2, <2>3, <2>4, <2>5
    <2>7. QED
      BY <2>2, <2>3, <2>6
  <1>4. /\ {p[1] : p \in d.files} = Inputs(r) \cup Outputs(r)
        /\ \A f \in Produces[shape][r] : \A c \in cache[f] :
             <<<<"cache", f>>, c.at>> \in d.files =>
               /\ c.by = r /\ c.args = d.args
               /\ c.in = {p \in d.files : p[1] \in Inputs(r)}
    BY <1>1 DEF RecordInv
  <1>5. QED
    BY <1>1, <1>2, <1>3, <1>4

\* A rule that is up to date has its products, as a clean build makes them.
LEMMA UpToDateClean ==
  ASSUME Types, TimeInv, NameInv, RecordInv, NEW r \in Rules, UpToDate(r),
         NEW f \in Produces[shape][r]
  PROVE  f \in Names /\ cache[f] # {} /\ Clean(r, f)
  <1>1. PICK d \in deps[r] :
           /\ d \in Record /\ text <= d.text /\ d.args = Args[shape][r]
           /\ {p[1] : p \in d.files} = Inputs(r) \cup Outputs(r)
           /\ \A p \in d.files : p = <<p[1], p[2]>> /\ p[1] \in File /\ p[2] \in MTime(p[1])
           /\ \A c \in cache[f] :
                <<<<"cache", f>>, c.at>> \in d.files =>
                  /\ c.by = r /\ c.args = d.args
                  /\ c.in = {p \in d.files : p[1] \in Inputs(r)}
    BY UpToDateRecord
  <1>2. f \in Names /\ <<"cache", f>> \in Outputs(r) /\ <<"cache", f>> \in File
    BY RuleTypes DEF Outputs, File
  <1>3. PICK p \in d.files : p[1] = <<"cache", f>>
    BY <1>1, <1>2
  <1>4. p = <<<<"cache", f>>, p[2]>> /\ p[2] \in MTime(<<"cache", f>>)
    BY <1>1, <1>3
  <1>5. MTime(<<"cache", f>>) = {c.at : c \in cache[f]}
    BY <1>2, Times
  <1>6. PICK c \in cache[f] : c.at = p[2]
    BY <1>4, <1>5
  <1>7. <<<<"cache", f>>, c.at>> \in d.files
    BY <1>4, <1>6
  <1>8. c.by = r /\ c.args = Args[shape][r] /\ c.in = {e \in d.files : e[1] \in Inputs(r)}
    BY <1>1, <1>7
  <1>9. {e \in d.files : e[1] \in Inputs(r)} = Present(Inputs(r))
    <2>1. ASSUME NEW e \in d.files, e[1] \in Inputs(r) PROVE e \in Present(Inputs(r))
      <3>1. e = <<e[1], e[2]>> /\ e[2] \in MTime(e[1])
        BY <1>1
      <3>2. <<e[1], e[2]>> \in Present(Inputs(r))
        BY <2>1, <3>1, InPresent
      <3>3. QED
        BY <3>1, <3>2
    <2>2. ASSUME NEW e \in Present(Inputs(r)) PROVE e \in d.files /\ e[1] \in Inputs(r)
      <3>1. e = <<e[1], e[2]>> /\ e[1] \in Inputs(r) /\ e[2] \in MTime(e[1])
        BY PairsPresent
      <3>2. PICK g \in d.files : g[1] = e[1]
        BY <1>1, <3>1
      <3>3. g = <<e[1], g[2]>> /\ g[2] \in MTime(e[1]) /\ e[1] \in File
        BY <1>1, <3>2
      <3>4. g[2] = e[2]
        BY <3>1, <3>3, Times
      <3>5. QED
        BY <3>1, <3>3, <3>4
    <2>3. QED
      BY <2>1, <2>2
  <1>10. QED
    BY <1>2, <1>6, <1>8, <1>9, Places DEF Clean

-----------------------------------------------------------------------------
(***************************************************************************)
(* What a step may do to the files: they go, or are new, and a script that *)
(* is not newer than before consumes and produces the same.                *)
(***************************************************************************)

SameShape == Consumes[shape'] = Consumes[shape] /\ Produces[shape'] = Produces[shape]

LEMMA Unshaped ==
  ASSUME SameShape
  PROVE  /\ \A f : Producer(f)' = Producer(f)
         /\ \A r : Consumed(r)' = Consumed(r) /\ Inputs(r)' = Inputs(r) /\ Outputs(r)' = Outputs(r)
         /\ \A f : Place(f)' = Place(f)
         /\ \A r : Produces[shape'][r] = Produces[shape][r]
  BY DEF SameShape, Producer, Consumed, Inputs, Outputs, Place

Aged ==
  /\ clock' \in Nat /\ clock <= clock'
  /\ \A f \in Names : src'[f] \in {0, src[f]} \/ (src'[f] = clock' /\ clock < clock')
  /\ \A f \in Names : \A c \in cache'[f] : c \in cache[f] \/ (c.at = clock' /\ clock < clock')
  /\ (text' = text /\ SameShape) \/ (text' = clock' /\ clock < clock')

\* Steps that write no file.
LEMMA AgedSame == ASSUME Types, UNCHANGED <<world, cache>> PROVE Aged
  BY DEF Types, world, Aged, SameShape

LEMMA AgedUser == ASSUME Trustworthy, Types, User PROVE Aged
  <1> /\ clock \in Nat /\ src \in [Names -> Nat] /\ cache \in [Names -> SUBSET Product]
    BY DEF Types
  <1>1. ASSUME NEW f \in Names, EditSource(f) PROVE Aged
    <2>1. clock' = clock + 1 /\ src' = [src EXCEPT ![f] = clock'] /\ UNCHANGED <<text, shape, cache>>
      BY <1>1 DEF EditSource, Tick
    <2>2. QED
      BY <2>1 DEF Aged, SameShape
  <1>2. ASSUME NEW f \in Names, DeleteSource(f) PROVE Aged
    <2>1. src' = [src EXCEPT ![f] = 0] /\ UNCHANGED <<clock, text, shape, cache>>
      BY <1>2 DEF DeleteSource
    <2>2. QED
      BY <2>1 DEF Aged, SameShape
  <1>3. ASSUME NEW f \in Names, DeleteProduct(f) PROVE Aged
    <2>1. cache' = [cache EXCEPT ![f] = {}] /\ UNCHANGED <<clock, text, shape, src>>
      BY <1>3 DEF DeleteProduct, world
    <2>2. QED
      BY <2>1 DEF Aged, SameShape
  <1>4. ASSUME NEW f \in Names, EditProduct(f) PROVE Aged
    <2>1. /\ clock' = clock + 1 /\ UNCHANGED <<text, shape, src>>
          /\ cache' = [cache EXCEPT ![f] = {[at |-> clock', by |-> 0, args |-> c.args, in |-> c.in] : c \in cache[f]}]
      BY <1>4 DEF EditProduct, Tick
    <2>2. \A c \in cache'[f] : c.at = clock'
      BY <2>1
    <2>3. \A g \in Names : g # f => cache'[g] = cache[g]
      BY <2>1
    <2>4. QED
      BY <2>1, <2>2, <2>3 DEF Aged, SameShape
  <1>5. ASSUME NEW sh \in Shapes, EditScript(sh) PROVE Aged
    <2>1. clock' = clock + 1 /\ text' = clock' /\ UNCHANGED <<src, cache>>
      BY <1>5 DEF EditScript, Tick
    <2>2. QED
      BY <2>1 DEF Aged
  <1>6. ASSUME NEW sh \in Shapes, SetVariables(sh) PROVE Aged
    <2>1. <<shape, sh>> \in Variables /\ shape' = sh /\ UNCHANGED <<clock, text, src, cache>>
      BY <1>6 DEF SetVariables
    <2>2. Consumes[shape] = Consumes[sh] /\ Produces[shape] = Produces[sh]
      BY <2>1 DEF Trustworthy
    <2>3. QED
      BY <2>1, <2>2 DEF Aged, SameShape
  <1>7. QED
    BY <1>1, <1>2, <1>3, <1>4, <1>5, <1>6 DEF User

\* Writing is the only step of autark that changes a file.
LEMMA OnlyWrites ==
  ASSUME [Next]_vars, ~User, \A f \in Names : ~Write(f)
  PROVE  UNCHANGED <<world, cache>>
  BY DEF Next, Autark, Visit, Resolve, Run, Begin, Setup, EndOfPass, NextRule, BuildProducer,
         LookInCache, LookInSource, Skip, Exec, Commit, CommandFails, Kill, vars, world

LEMMA AgedStep == ASSUME Trustworthy, Types, [Next]_vars PROVE Aged
  <1>1. ASSUME NEW f \in Names, Write(f) PROVE Aged
    <2>1. PICK c \in cmd :
            /\ clock' = clock + 1
            /\ cache' = [cache EXCEPT ![f] = {[at |-> clock', by |-> Top.rule,
                                               args |-> c.args, in |-> c.in]}]
            /\ UNCHANGED <<text, shape, src>>
      BY <1>1 DEF Write
    <2>2. \A c1 \in cache'[f] : c1.at = clock'
      BY <2>1 DEF Types
    <2>3. \A g \in Names : g # f => cache'[g] = cache[g]
      BY <2>1 DEF Types
    <2>4. QED
      BY <2>1, <2>2, <2>3 DEF Aged, SameShape, Types
  <1>2. QED
    BY <1>1, AgedSame, AgedUser, OnlyWrites

\* The times of a place after such a step.
LEMMA AgedTimes ==
  ASSUME Types, Types', Aged, NEW x \in File, NEW m \in MTime(x)'
  PROVE  m \in Nat /\ (m \in MTime(x) \/ (m = clock' /\ clock < clock'))
  <1>1. PICK f \in Names : x = <<"src", f>> \/ x = <<"cache", f>>
    BY DEF File
  <1>2. CASE x = <<"src", f>>
    <2>1. MTime(x) = {src[f]} \ {0} /\ MTime(x)' = {src'[f]} \ {0}
      BY <1>2 DEF MTime
    <2>2. src'[f] \in Nat
      BY DEF Types
    <2>3. QED
      BY <2>1, <2>2 DEF Aged
  <1>3. CASE x = <<"cache", f>>
    <2>1. MTime(x) = {c.at : c \in cache[f]} /\ MTime(x)' = {c.at : c \in cache'[f]}
      BY <1>3 DEF MTime
    <2>2. \A c \in cache'[f] : c.at \in Nat
      BY DEF Types, Product
    <2>3. QED
      BY <2>1, <2>2 DEF Aged
  <1>4. QED
    BY <1>1, <1>2, <1>3

-----------------------------------------------------------------------------
(***************************************************************************)
(* Times, names and records.                                               *)
(***************************************************************************)

\* Only the end of a rule's commands changes a record.
LEMMA OnlyCommits == ASSUME [Next]_vars, ~Commit PROVE deps' = deps
  BY DEF Next, Autark, Visit, Resolve, Run, Begin, Setup, EndOfPass, NextRule, BuildProducer,
         LookInCache, LookInSource, Skip, Exec, Write, CommandFails, Kill, vars, User, Outside,
         EditSource, DeleteSource, DeleteProduct, EditProduct, EditScript, SetVariables

\* What Commit records.
LEMMA CommitRecord ==
  ASSUME Types, CommandInv, Commit
  PROVE  \E d \in Record :
           /\ stack # <<>> /\ Top.rule \in Rules /\ (\E c \in cmd : c.todo = {})
           /\ deps' = [deps EXCEPT ![Top.rule] = {d}]
           /\ d.text = text /\ d.args = Args[shape][Top.rule]
           /\ d.files = Present(Top.got \cup Outputs(Top.rule))
           /\ Top.got \cup Outputs(Top.rule) \subseteq File
           /\ UNCHANGED <<world, cache>>
  <1> DEFINE d == [text |-> text, args |-> Args[shape][Top.rule], files |-> Recorded(Top)]
  <1>1. /\ deps' = [deps EXCEPT ![Top.rule] = {d}] /\ UNCHANGED <<world, cache>>
        /\ \E c \in cmd : c.todo = {}
    BY DEF Commit
  <1>2. stack # <<>> /\ Top.rule \in Rules /\ Top.got \in SUBSET File
    BY <1>1, TopType DEF CommandInv
  <1>3. Recorded(Top) = Present(Top.got \cup Outputs(Top.rule))
    BY DEF Recorded, Outputs
  <1>4. Top.got \cup Outputs(Top.rule) \in SUBSET File
    BY <1>2, Places
  <1>5. Recorded(Top) \subseteq File \X Nat
    BY <1>3, <1>4, PresentType
  <1>6. d \in Record
    BY <1>2, <1>5, RuleTypes DEF Record, Types
  <1>7. d.text = text /\ d.args = Args[shape][Top.rule] /\ d.files = Recorded(Top)
    OBVIOUS
  <1> HIDE DEF d
  <1>8. QED
    BY <1>1, <1>2, <1>3, <1>4, <1>6, <1>7

LEMMA TimeStep ==
  ASSUME Trustworthy, Types, CommandInv, TimeInv, NameInv, [Next]_vars
  PROVE  TimeInv'
  <1> Types' /\ Aged
    BY TypesStep, AgedStep
  <1> clock \in Nat /\ text \in Nat /\ clock' \in Nat /\ clock <= clock'
    BY DEF Types, Aged
  <1>1. text' <= clock'
    BY DEF TimeInv, Aged
  <1>2. ASSUME NEW f \in Names PROVE src'[f] <= clock' /\ \A c \in cache'[f] : c.at <= clock'
    <2>1. src[f] \in Nat /\ src[f] <= clock /\ \A c \in cache[f] : c.at <= clock /\ c.at \in Nat
      BY DEF TimeInv, Types, Product
    <2>2. QED
      BY <2>1 DEF Aged
  <1>3. ASSUME NEW r \in Rules, NEW d \in deps'[r], d \in deps[r]
        PROVE  /\ d.text <= clock'
               /\ \A p \in d.files : p[2] <= clock' /\ \A m \in MTime(p[1])' : p[2] <= m
    <2>1. d \in Record
      BY <1>3 DEF Types
    <2>2. d.text \in Nat /\ d.text <= clock
      BY <1>3, <2>1 DEF Record, TimeInv
    <2>3. ASSUME NEW p \in d.files
          PROVE  p[2] <= clock' /\ \A m \in MTime(p[1])' : p[2] <= m
      <3>1. p[1] \in File /\ p[2] \in Nat
        BY <2>1 DEF Record
      <3>2. p[2] <= clock /\ \A m \in MTime(p[1]) : p[2] <= m
        BY <1>3 DEF TimeInv
      <3>3. \A m \in MTime(p[1])' : m \in MTime(p[1]) \/ (m = clock' /\ clock < clock')
        BY <3>1, AgedTimes
      <3>4. QED
        BY <3>1, <3>2, <3>3
    <2>4. QED
      BY <2>2, <2>3
  <1>4. ASSUME NEW r \in Rules, NEW d \in deps'[r], d \notin deps[r]
        PROVE  /\ d.text <= clock'
               /\ \A p \in d.files : p[2] <= clock' /\ \A m \in MTime(p[1])' : p[2] <= m
    <2>1. Commit
      BY <1>4, OnlyCommits
    <2>2. PICK e \in Record :
           /\ Top.rule \in Rules /\ deps' = [deps EXCEPT ![Top.rule] = {e}]
           /\ e.text = text /\ e.files = Present(Top.got \cup Outputs(Top.rule))
           /\ Top.got \cup Outputs(Top.rule) \subseteq File
           /\ UNCHANGED <<world, cache>>
      BY <2>1, CommitRecord
    <2>3. d = e
      BY <1>4, <2>2 DEF Types
    <2>4. ASSUME NEW p \in d.files
          PROVE  p[2] <= clock /\ \A m \in MTime(p[1]) : p[2] <= m
      <3>1. p[1] \in File /\ p[2] \in MTime(p[1])
        BY <2>2, <2>3, PairsPresent
      <3>2. p[2] \in Nat /\ \A m \in MTime(p[1]) : m = p[2]
        BY <3>1, Times
      <3>3. PICK f \in Names : p[1] = <<"src", f>> \/ p[1] = <<"cache", f>>
        BY <3>1 DEF File
      <3>4. MTime(p[1]) = {src[f]} \ {0} \/ MTime(p[1]) = {c.at : c \in cache[f]}
        BY <3>1, <3>3, Times
      <3>5. p[2] <= clock
        BY <3>1, <3>4 DEF TimeInv
      <3>6. QED
        BY <3>2, <3>5
    <2>5. \A x : MTime(x)' = MTime(x)
      BY <2>2 DEF MTime, world
    <2>6. clock' = clock /\ text <= clock
      BY <2>2 DEF world, TimeInv
    <2>7. QED
      BY <2>2, <2>3, <2>4, <2>5, <2>6
  <1>5. QED
    BY <1>1, <1>2, <1>3, <1>4 DEF TimeInv

\* node_setup lets no script through with two rules for one product.
LEMMA SetupSound ==
  ASSUME Types, \A f \in Names : ~(Cardinality(Producer(f)) > 1)
  PROVE  Sound(shape)
  <1>1. SUFFICES ASSUME NEW q \in Rules, NEW r \in Rules, q # r,
                        NEW f \in Produces[shape][q] \cap Produces[shape][r]
                 PROVE  FALSE
    BY DEF Sound
  <1>2. f \in Names
    BY RuleTypes
  <1>3. IsFiniteSet(Rules)
    BY NAssumption, FS_Interval DEF Rules
  <1>4. {q, r} \subseteq Producer(f) /\ Producer(f) \subseteq Rules
    BY <1>1 DEF Producer
  <1>5. IsFiniteSet(Producer(f)) /\ Cardinality(Producer(f)) \in Nat
    BY <1>3, <1>4, FS_Subset, FS_CardinalityType
  <1>6. Cardinality({q, r}) <= Cardinality(Producer(f))
    BY <1>4, <1>5, FS_Subset
  <1>7. Cardinality({q, r}) = 2
    <2>1. IsFiniteSet({q}) /\ Cardinality({q}) = 1
      BY FS_Singleton
    <2>2. r \notin {q}
      BY <1>1
    <2>3. Cardinality({q} \cup {r}) = Cardinality({q}) + 1
      BY <2>1, <2>2, FS_AddElement
    <2>4. {q} \cup {r} = {q, r}
      OBVIOUS
    <2>5. QED
      BY <2>1, <2>3, <2>4
  <1>8. QED
    BY <1>2, <1>5, <1>6, <1>7

\* While rules are built the script is the one that was set up.
LEMMA Building ==
  ASSUME [Next]_vars, pc' \in {"build", "post"}, ~Setup
  PROVE  pc \in {"build", "post"} /\ shape' = shape
  BY DEF Next, Autark, Visit, Resolve, Run, Begin, EndOfPass, NextRule, BuildProducer,
         LookInCache, LookInSource, Skip, Exec, Write, Commit, CommandFails, Kill, Exit, vars,
         world, User, Outside, EditSource, DeleteSource, DeleteProduct, EditProduct,
         EditScript, SetVariables

\* The product a command writes.
LEMMA Writing ==
  ASSUME CoreInv, NameInv, NEW f \in Names, Write(f)
  PROVE  /\ stack # <<>> /\ Top.rule \in Rules /\ Top.rule \notin built /\ shape \in Shapes
         /\ f \in Produces[shape][Top.rule] /\ Top.left = <<>> /\ Sound(shape)
         /\ UNCHANGED <<text, shape, src, deps, pc, built, stack, log, result>>
         /\ \E c \in cmd :
              LET e == [at |-> clock', by |-> Top.rule, args |-> c.args, in |-> c.in] IN
              /\ f \in c.todo /\ cache' = [cache EXCEPT ![f] = {e}]
              /\ cmd' = {[c EXCEPT !.todo = @ \ {f}]}
              /\ cache'[f] = {e} /\ \A g \in Names \ {f} : cache'[g] = cache[g]
  <1> USE DEF CoreInv
  <1>1. PICK c \in cmd :
          /\ f \in c.todo
          /\ cache' = [cache EXCEPT ![f] = {[at |-> clock', by |-> Top.rule,
                                             args |-> c.args, in |-> c.in]}]
          /\ cmd' = {[c EXCEPT !.todo = @ \ {f}]}
          /\ UNCHANGED <<text, shape, src, deps, pc, built, stack, log, result>>
    BY DEF Write
  <1>2. stack # <<>> /\ Top.left = <<>> /\ f \in Produces[shape][Top.rule]
    BY <1>1 DEF CommandInv
  <1>3. Top.rule \in Rules /\ Top.rule \notin built
    BY <1>2, TopType DEF StackInv
  <1>4. pc \in {"build", "post"}
    BY <1>2 DEF PassInv, Types
  <1>5. Sound(shape)
    BY <1>4 DEF NameInv
  <1>6. /\ cache'[f] = {[at |-> clock', by |-> Top.rule, args |-> c.args, in |-> c.in]}
        /\ \A g \in Names \ {f} : cache'[g] = cache[g]
    BY <1>1 DEF Types
  <1>7. shape \in Shapes
    BY DEF Types
  <1>8. QED
    BY <1>1, <1>2, <1>3, <1>5, <1>6, <1>7

LEMMA NameStep ==
  ASSUME CoreInv, NameInv, [Next]_vars
  PROVE  NameInv'
  <1> Types
    BY DEF CoreInv
  <1>1. ASSUME NEW f \in Names
        PROVE  /\ \A c, e \in cache'[f] : c = e
               /\ cache'[f] # {} => \E sh \in Shapes : Sound(sh) /\ f \in Made(sh)
    <2>0. \A c, e \in cache[f] : c = e
      BY DEF NameInv
    <2>1. cache[f] # {} => \E sh \in Shapes : Sound(sh) /\ f \in Made(sh)
      BY DEF NameInv
    <2>2. CASE UNCHANGED cache
      BY <2>0, <2>1, <2>2
    <2>3. ASSUME NEW g \in Names, EditProduct(g)
          PROVE  (\A c, e \in cache'[f] : c = e) /\ (cache'[f] # {} => cache[f] # {})
      <3>1. cache' = [cache EXCEPT ![g] = {[at |-> clock', by |-> 0, args |-> c.args, in |-> c.in] : c \in cache[g]}]
        BY <2>3 DEF EditProduct
      <3>2. CASE f = g
        <4>1. cache'[f] = {[at |-> clock', by |-> 0, args |-> c.args, in |-> c.in] : c \in cache[f]}
          BY <3>1, <3>2 DEF Types
        <4>2. QED
          BY <2>0, <4>1
      <3>3. CASE f # g
        BY <2>0, <3>1, <3>3 DEF Types
      <3>4. QED
        BY <3>2, <3>3
    <2>4. ASSUME NEW g \in Names, DeleteProduct(g)
          PROVE  (\A c, e \in cache'[f] : c = e) /\ (cache'[f] # {} => cache[f] # {})
      BY <2>0, <2>4 DEF DeleteProduct, Types
    <2>5. ASSUME NEW g \in Names, Write(g)
          PROVE  /\ \A c, e \in cache'[f] : c = e
                 /\ cache'[f] # {} => \E sh \in Shapes : Sound(sh) /\ f \in Made(sh)
      <3>1. /\ Top.rule \in Rules /\ shape \in Shapes /\ g \in Produces[shape][Top.rule] /\ Sound(shape)
            /\ \E e : cache'[g] = {e} /\ \A h \in Names \ {g} : cache'[h] = cache[h]
        BY <2>5, Writing
      <3>2. g \in Made(shape)
        BY <3>1 DEF Made
      <3>3. QED
        BY <2>0, <2>1, <3>1, <3>2
    <2>6. CASE User
      BY <2>0, <2>1, <2>2, <2>3, <2>4, <2>6
      DEF User, EditSource, DeleteSource, EditScript, SetVariables
    <2>7. QED
      BY <2>2, <2>5, <2>6, OnlyWrites
  <1>2. ASSUME pc' \in {"build", "post"} PROVE Sound(shape)'
    <2>1. CASE Setup
      <3>1. UNCHANGED shape
        BY <2>1 DEF Setup, world
      <3>2. \A f \in Names : ~(Cardinality(Producer(f)) > 1)
        BY <1>2, <2>1 DEF Setup, Exit
      <3>3. QED
        BY <3>1, <3>2, SetupSound DEF Sound
    <2>2. CASE ~Setup
      BY <1>2, <2>2, Building DEF NameInv, Sound
    <2>3. QED
      BY <2>1, <2>2
  <1>3. \A sh : Sound(sh)' <=> Sound(sh)
    BY DEF Sound
  <1>4. \A sh : Made(sh)' = Made(sh)
    BY DEF Made
  <1>5. QED
    BY <1>1, <1>2, <1>3, <1>4 DEF NameInv

\* The topmost frame, when all its names are resolved.
LEMMA ResolvedFrame ==
  ASSUME CoreInv, FramesInv, stack # <<>>, Top.left = <<>>, Top.miss = <<>>
  PROVE  /\ Top.rule \in Rules /\ Top.got = Inputs(Top.rule)
         /\ \A f \in Consumed(Top.rule) : Producer(f) \subseteq built
         /\ \A x \in Top.got : MTime(x) # {}
  <1>1. FrameInv(Top) /\ Top.rule \in Rules /\ Range(Top.left) = {} /\ Range(Top.miss) = {}
    BY TopType, RangeEmpty DEF CoreInv, FramesInv
  <1>2. Inputs(Top.rule) \subseteq Top.got
    BY <1>1 DEF FrameInv, Inputs
  <1>3. QED
    BY <1>1, <1>2 DEF FrameInv

LEMMA RecordStep ==
  ASSUME Trustworthy, CoreInv, TimeInv, NameInv, RecordInv, FramesInv, WrittenInv, [Next]_vars
  PROVE  RecordInv'
  <1> Types /\ Types' /\ Aged
    BY TypesStep, AgedStep DEF CoreInv
  <1> clock \in Nat /\ text \in Nat /\ clock' \in Nat /\ clock <= clock'
    BY DEF Types, Aged
  <1>1. ASSUME NEW r \in Rules, NEW d \in deps'[r], text' <= d.text, d \in deps[r]
        PROVE  /\ {p[1] : p \in d.files} = Inputs(r)' \cup Outputs(r)'
               /\ \A p, e \in d.files : p[1] = e[1] => p = e
               /\ \A f \in Produces[shape'][r] : \A c \in cache'[f] :
                    <<<<"cache", f>>, c.at>> \in d.files =>
                      /\ c.by = r /\ c.args = d.args
                      /\ c.in = {p \in d.files : p[1] \in Inputs(r)'}
    <2>1. d \in Record /\ d.text \in Nat /\ d.text <= clock
      BY <1>1 DEF Types, Record, TimeInv
    <2>2. text' = text /\ SameShape
      BY <1>1, <2>1 DEF Aged
    <2>3. Inputs(r)' = Inputs(r) /\ Outputs(r)' = Outputs(r) /\ Produces[shape'][r] = Produces[shape][r]
      BY <2>2, Unshaped
    <2>4. /\ {p[1] : p \in d.files} = Inputs(r) \cup Outputs(r)
          /\ \A p, e \in d.files : p[1] = e[1] => p = e
          /\ \A f \in Produces[shape][r] : \A c \in cache[f] :
               <<<<"cache", f>>, c.at>> \in d.files =>
                 /\ c.by = r /\ c.args = d.args
                 /\ c.in = {p \in d.files : p[1] \in Inputs(r)}
      BY <1>1, <2>2 DEF RecordInv
    <2>5. ASSUME NEW f \in Produces[shape][r], NEW c \in cache'[f],
                 <<<<"cache", f>>, c.at>> \in d.files
          PROVE  c \in cache[f]
      <3>1. c.at <= clock
        BY <1>1, <2>5 DEF TimeInv
      <3>2. f \in Names /\ c.at \in Nat
        BY RuleTypes DEF Types, Product
      <3>3. QED
        BY <3>1, <3>2 DEF Aged
    <2>6. QED
      BY <2>3, <2>4, <2>5
  <1>2. ASSUME NEW r \in Rules, NEW d \in deps'[r], d \notin deps[r]
        PROVE  /\ {p[1] : p \in d.files} = Inputs(r)' \cup Outputs(r)'
               /\ \A p, e \in d.files : p[1] = e[1] => p = e
               /\ \A f \in Produces[shape'][r] : \A c \in cache'[f] :
                    <<<<"cache", f>>, c.at>> \in d.files =>
                      /\ c.by = r /\ c.args = d.args
                      /\ c.in = {p \in d.files : p[1] \in Inputs(r)'}
    <2>1. Commit
      BY <1>2, OnlyCommits
    <2>2. PICK e \in Record :
           /\ stack # <<>> /\ Top.rule \in Rules /\ (\E c \in cmd : c.todo = {})
           /\ deps' = [deps EXCEPT ![Top.rule] = {e}]
           /\ e.args = Args[shape][Top.rule] /\ e.files = Present(Top.got \cup Outputs(Top.rule))
           /\ Top.got \cup Outputs(Top.rule) \subseteq File
           /\ UNCHANGED <<world, cache>>
      BY <2>1, CommitRecord DEF CoreInv
    <2>3. d = e /\ r = Top.rule
      BY <1>2, <2>2 DEF Types
    <2>4. PICK c0 \in cmd : c0.todo = {}
      BY <2>2
    <2>5. Top.left = <<>> /\ Top.miss = <<>> /\ c0.args = Args[shape][r]
      BY <2>3, <2>4 DEF CoreInv, CommandInv
    <2>6. Top.got = Inputs(r) /\ \A x \in Top.got : MTime(x) # {}
      BY <2>2, <2>3, <2>5, ResolvedFrame
    <2>7. /\ c0.in = Present(Inputs(r))
          /\ \A f \in Produces[shape][r] :
               cache[f] # {} /\ \A c \in cache[f] : c.by = r /\ c.args = c0.args /\ c.in = c0.in
      BY <2>3, <2>4, <2>6 DEF WrittenInv
    <2>8. ASSUME NEW x \in Inputs(r) \cup Outputs(r) PROVE MTime(x) # {}
      <3>1. CASE x \in Inputs(r)
        BY <2>6, <3>1
      <3>2. CASE x \in Outputs(r)
        <4>1. PICK f \in Produces[shape][r] : x = <<"cache", f>>
          BY <3>2 DEF Outputs
        <4>2. MTime(x) = {c.at : c \in cache[f]}
          BY <4>1, RuleTypes, Places, Times, <3>2
        <4>3. QED
          BY <2>7, <4>1, <4>2
      <3>3. QED
        BY <3>1, <3>2
    <2>9. d.files = Present(Inputs(r) \cup Outputs(r))
      BY <2>2, <2>3, <2>6
    <2>10. {p[1] : p \in d.files} = Inputs(r) \cup Outputs(r)
      <3>1. \A p \in d.files : p[1] \in Inputs(r) \cup Outputs(r)
        BY <2>9, PairsPresent
      <3>2. ASSUME NEW x \in Inputs(r) \cup Outputs(r) PROVE \E p \in d.files : p[1] = x
        <4>1. PICK t \in MTime(x) : TRUE
          BY <2>8
        <4>2. <<x, t>> \in d.files
          BY <2>9, <4>1, InPresent
        <4>3. QED
          BY <4>2
      <3>3. QED
        BY <3>1, <3>2
    <2>11. ASSUME NEW p \in d.files, NEW g \in d.files, p[1] = g[1] PROVE p = g
      <3>1. /\ p = <<p[1], p[2]>> /\ p[1] \in File /\ p[2] \in MTime(p[1])
            /\ g = <<g[1], g[2]>> /\ g[2] \in MTime(g[1])
        BY <2>9, PairsPresent, Places
      <3>2. p[2] = g[2]
        BY <2>11, <3>1, Times
      <3>3. QED
        BY <2>11, <3>1, <3>2
    <2>12. {p \in d.files : p[1] \in Inputs(r)} = Present(Inputs(r))
      <3>1. ASSUME NEW p \in d.files, p[1] \in Inputs(r) PROVE p \in Present(Inputs(r))
        <4>1. p = <<p[1], p[2]>> /\ p[2] \in MTime(p[1])
          BY <2>9, PairsPresent
        <4>2. <<p[1], p[2]>> \in Present(Inputs(r))
          BY <3>1, <4>1, InPresent
        <4>3. QED
          BY <4>1, <4>2
      <3>2. ASSUME NEW p \in Present(Inputs(r)) PROVE p \in d.files /\ p[1] \in Inputs(r)
        <4>1. p = <<p[1], p[2]>> /\ p[1] \in Inputs(r) /\ p[2] \in MTime(p[1])
          BY PairsPresent
        <4>2. <<p[1], p[2]>> \in d.files
          BY <2>9, <4>1, InPresent
        <4>3. QED
          BY <4>1, <4>2
      <3>3. QED
        BY <3>1, <3>2
    <2>13. SameShape /\ cache' = cache
      BY <2>2 DEF world, SameShape
    <2>14. Inputs(r)' = Inputs(r) /\ Outputs(r)' = Outputs(r) /\ Produces[shape'][r] = Produces[shape][r]
      BY <2>13, Unshaped
    <2>15. d.args = c0.args
      BY <2>2, <2>3, <2>5
    <2>16. QED
      BY <2>7, <2>10, <2>11, <2>12, <2>13, <2>14, <2>15
  <1>3. QED
    BY <1>1, <1>2 DEF RecordInv

-----------------------------------------------------------------------------
(***************************************************************************)
(* What a rule has resolved.                                               *)
(***************************************************************************)

\* A frame that stays where it is, while files are only written and rules are
\* only built.
LEMMA FrameKept ==
  ASSUME FramesInv, SameShape, built \subseteq built',
         \A x \in File : MTime(x) # {} => MTime(x)' # {},
         stack \in Seq(Frame), NEW k \in 1 .. Len(stack), NEW j, stack'[j] = stack[k]
  PROVE  FrameInv(stack[j])'
  <1>1. PICK fr : fr = stack[k]
    OBVIOUS
  <1>2. FrameInv(fr) /\ fr \in Frame
    BY <1>1, ElementOfSeq, LenProperties DEF FramesInv
  <1>3. /\ Consumed(fr.rule)' = Consumed(fr.rule) /\ Inputs(fr.rule)' = Inputs(fr.rule)
        /\ \A f : Producer(f)' = Producer(f) /\ Place(f)' = Place(f)
    BY Unshaped DEF SameShape, Consumed, Inputs, Place, Producer
  <1>4. \A x \in fr.got : MTime(x)' # {}
    BY <1>2 DEF FrameInv, Frame
  <1>5. stack'[j] = fr
    BY <1>1
  <1>6. FrameInv(fr)'
    BY <1>2, <1>3, <1>4 DEF FrameInv
  <1>7. QED
    BY <1>5, <1>6 DEF FrameInv

LEMMA NoFrames == ASSUME stack' = <<>> PROVE FramesInv'
  <1>1. Len(stack') = 0
    BY EmptySeq
  <1>2. QED
    BY <1>1 DEF FramesInv

\* The rules below the topmost one.
LEMMA FramesSame ==
  ASSUME Types, FramesInv, UNCHANGED <<world, cache>>, built \subseteq built',
         NEW n \in Nat, n <= Len(stack), \A k \in 1 .. n : stack'[k] = stack[k]
  PROVE  \A k \in 1 .. n : FrameInv(stack[k])'
  <1>1. SameShape /\ \A x : MTime(x)' = MTime(x)
    BY DEF world, SameShape, MTime
  <1>2. stack \in Seq(Frame) /\ Len(stack) \in Nat
    BY LenProperties DEF Types
  <1>3. ASSUME NEW k \in 1 .. n PROVE FrameInv(stack[k])'
    BY <1>1, <1>2, FrameKept
  <1>4. QED
    BY <1>3

\* The topmost frame is new, the others stay.
LEMMA FramesTop ==
  ASSUME NEW fr, NEW n \in Nat, Len(stack') = n + 1, stack'[n + 1] = fr, FrameInv(fr)',
         \A k \in 1 .. n : FrameInv(stack[k])'
  PROVE  FramesInv'
  <1>1. FrameInv(stack[n + 1])'
    BY DEF FrameInv
  <1>2. ASSUME NEW k \in 1 .. n + 1 PROVE FrameInv(stack[k])'
    <2>1. CASE k = n + 1
      BY <1>1, <2>1
    <2>2. CASE k # n + 1
      <3>1. k \in 1 .. n
        BY <2>2
      <3>2. QED
        BY <3>1
    <2>3. QED
      BY <2>1, <2>2
  <1>3. QED
    BY <1>2 DEF FramesInv

LEMMA FramesEnter ==
  ASSUME Types, FramesInv, NEW r \in Rules, stack' = Enter(r), UNCHANGED <<world, cache, built>>
  PROVE  FramesInv'
  <1>1. PICK fr \in Frame : /\ stack' = Append(stack, fr) /\ fr.rule = r /\ fr.miss = <<>>
                            /\ fr.left = Consumes[shape][r] /\ fr.got = {}
    BY EnterType
  <1>2. /\ Len(stack) \in Nat /\ Len(stack') = Len(stack) + 1 /\ stack'[Len(stack) + 1] = fr
        /\ \A k \in 1 .. Len(stack) : stack'[k] = stack[k]
    BY <1>1, Push DEF Types
  <1>3. \A k \in 1 .. Len(stack) : FrameInv(stack[k])'
    BY <1>2, FramesSame
  <1>4. /\ Range(fr.left) = Consumed(r) /\ Range(fr.miss) = {}
    <2>1. <<>> \in Seq(Names)
      BY EmptySeq
    <2>2. Range(<<>>) = {}
      BY <2>1, RangeEmpty
    <2>3. QED
      BY <1>1, <2>2, RuleTypes
  <1>5. Consumed(r)' = Consumed(r)
    BY DEF Consumed, world
  <1>6. FrameInv(fr)'
    BY <1>1, <1>4, <1>5 DEF FrameInv
  <1>7. QED
    BY <1>2, <1>3, <1>6, FramesTop

\* A frame that moves on is sound if it is so in the present state.
LEMMA FramesMove ==
  ASSUME Types, FramesInv, stack # <<>>, UNCHANGED <<world, cache, built>>,
         NEW fr \in Frame, stack' = SetTop(fr), FrameInv(fr)
  PROVE  FramesInv'
  <1>1. PICK n \in Nat : n + 1 = Len(stack)
    <2>1. Len(stack) - 1 \in Nat /\ (Len(stack) - 1) + 1 = Len(stack)
      BY Topmost DEF Types
    <2>2. QED
      BY <2>1
  <1>2. /\ Len(stack') = n + 1 /\ stack'[n + 1] = fr
        /\ \A k \in 1 .. n : stack'[k] = stack[k]
    <2>1. /\ Len(stack) \in Nat \ {0} /\ Len(stack') = Len(stack)
          /\ \A k \in 1 .. Len(stack) : stack'[k] = IF k = Len(stack) THEN fr ELSE stack[k]
      BY Replace DEF Types
    <2>2. \A k \in 1 .. n : k \in 1 .. Len(stack) /\ k # Len(stack)
      BY <1>1
    <2>3. n + 1 \in 1 .. Len(stack)
      BY <1>1
    <2>4. QED
      BY <1>1, <2>1, <2>2, <2>3
  <1>3. \A k \in 1 .. n : FrameInv(stack[k])'
    BY <1>1, <1>2, FramesSame
  <1>4. FrameInv(fr)'
    BY DEF FrameInv, Consumed, Producer, Place, Inputs, MTime, world
  <1>5. QED
    BY <1>2, <1>3, <1>4, FramesTop

\* Where LookInCache finds a name, or does not, is where its producer puts it.
LEMMA Lookup ==
  ASSUME Trustworthy, CoreInv, TimeInv, NameInv, RecordInv, BuiltInv, stack # <<>>,
         NEW f \in Consumed(Top.rule), Unbuilt(f) = {}
  PROVE  Producer(f) \subseteq built /\ (cache[f] # {} <=> Producer(f) # {})
  <1> Types
    BY DEF CoreInv
  <1>1. Top.rule \in Rules /\ f \in Names /\ shape \in Shapes
    BY TopType, RuleTypes DEF Types
  <1>2. pc \in {"build", "post"}
    BY DEF CoreInv, PassInv, Types
  <1>3. Producer(f) \subseteq built
    <2>1. ASSUME NEW q \in Producer(f) PROVE q \notin Late[shape]
      <3>1. PICK k \in DOMAIN Consumes[shape][Top.rule] : f = Consumes[shape][Top.rule][k]
        BY DEF Consumed
      <3>2. q \in Rules /\ f \in Produces[shape][q]
        BY DEF Producer
      <3>3. QED
        BY <1>1, <3>1, <3>2 DEF Trustworthy
    <2>2. QED
      BY <2>1 DEF Unbuilt
  <1>4. ASSUME cache[f] # {} PROVE Producer(f) # {}
    <2>1. PICK sh \in Shapes : Sound(sh) /\ f \in Made(sh)
      BY <1>1, <1>4 DEF NameInv
    <2>2. PICK k \in DOMAIN Consumes[shape][Top.rule] : f = Consumes[shape][Top.rule][k]
      BY DEF Consumed
    <2>3. Sound(shape)
      BY <1>2 DEF NameInv
    <2>4. f \in Made(shape)
      BY <1>1, <2>1, <2>2, <2>3 DEF Trustworthy
    <2>5. QED
      BY <2>4 DEF Made, Producer
  <1>5. ASSUME Producer(f) # {} PROVE cache[f] # {}
    <2>1. PICK r \in Producer(f) : TRUE
      BY <1>5
    <2>2. r \in Rules /\ f \in Produces[shape][r] /\ UpToDate(r)
      BY <1>3, <2>1 DEF Producer, BuiltInv
    <2>3. QED
      BY <2>2, UpToDateClean
  <1>6. QED
    BY <1>3, <1>4, <1>5

LEMMA FramesLookInCache ==
  ASSUME Trustworthy, CoreInv, TimeInv, NameInv, RecordInv, BuiltInv, FramesInv, LookInCache
  PROVE  FramesInv'
  <1> Types
    BY DEF CoreInv
  <1>1. PICK fr \in Frame, f \in Names :
          /\ stack # <<>> /\ stack' = SetTop(fr) /\ Unbuilt(f) = {}
          /\ Range(Top.left) = {f} \cup Range(fr.left) /\ fr.rule = Top.rule
          /\ \/ cache[f] # {} /\ Range(fr.miss) = Range(Top.miss) /\ fr.got = Top.got \cup {<<"cache", f>>}
             \/ cache[f] = {} /\ Range(fr.miss) = Range(Top.miss) \cup {f} /\ fr.got = Top.got
    BY LookInCacheFrame
  <1>2. FrameInv(Top)
    BY <1>1, TopType DEF FramesInv
  <1>3. f \in Consumed(Top.rule)
    BY <1>1, <1>2 DEF FrameInv
  <1>4. Producer(f) \subseteq built /\ (cache[f] # {} <=> Producer(f) # {})
    BY <1>1, <1>3, Lookup
  <1>5. UNCHANGED <<world, cache, built>>
    BY DEF LookInCache
  <1>6. CASE cache[f] # {} /\ Range(fr.miss) = Range(Top.miss) /\ fr.got = Top.got \cup {<<"cache", f>>}
    <2>1. Place(f) = <<"cache", f>>
      BY <1>4, <1>6 DEF Place
    <2>2. <<"cache", f>> \in Inputs(fr.rule)
      BY <1>1, <1>3, <2>1 DEF Inputs
    <2>3. MTime(<<"cache", f>>) # {}
      BY <1>6 DEF MTime
    <2>4. FrameInv(fr)
      BY <1>1, <1>2, <1>4, <1>6, <2>1, <2>2, <2>3 DEF FrameInv
    <2>5. QED
      BY <1>1, <1>5, <2>4, FramesMove
  <1>7. CASE cache[f] = {} /\ Range(fr.miss) = Range(Top.miss) \cup {f} /\ fr.got = Top.got
    <2>1. FrameInv(fr)
      BY <1>1, <1>2, <1>3, <1>4, <1>7 DEF FrameInv
    <2>2. QED
      BY <1>1, <1>5, <2>1, FramesMove
  <1>8. QED
    BY <1>1, <1>6, <1>7

LEMMA FramesLookInSource ==
  ASSUME CoreInv, FramesInv, LookInSource
  PROVE  FramesInv'
  <1> Types
    BY DEF CoreInv
  <1>1. CASE Exit("unresolved")
    BY <1>1, NoFrames DEF Exit
  <1>2. CASE ~Exit("unresolved")
    <2>1. PICK fr \in Frame, f \in Names :
            /\ stack # <<>> /\ Top.left = <<>> /\ stack' = SetTop(fr) /\ built' = built
            /\ src[f] # 0 /\ Range(Top.miss) = {f} \cup Range(fr.miss)
            /\ fr.rule = Top.rule /\ fr.left = <<>> /\ fr.got = Top.got \cup {<<"src", f>>}
      BY <1>2, LookInSourceFrame
    <2>2. FrameInv(Top)
      BY <2>1, TopType DEF FramesInv
    <2>3. f \in Consumed(Top.rule) /\ Producer(f) = {}
      BY <2>1, <2>2 DEF FrameInv
    <2>4. Place(f) = <<"src", f>>
      BY <2>3 DEF Place
    <2>5. <<"src", f>> \in Inputs(fr.rule)
      BY <2>1, <2>3, <2>4 DEF Inputs
    <2>6. MTime(<<"src", f>>) # {}
      BY <2>1 DEF MTime
    <2>7. FrameInv(fr)
      BY <2>1, <2>2, <2>4, <2>5, <2>6 DEF FrameInv
    <2>8. UNCHANGED <<world, cache, built>>
      BY <2>1 DEF LookInSource
    <2>9. QED
      BY <2>1, <2>7, <2>8, FramesMove
  <1>3. QED
    BY <1>1, <1>2

\* The topmost rule is done, and the rules below it wait for one rule less.
LEMMA FramesPop ==
  ASSUME CoreInv, FramesInv, Skip \/ Commit
  PROVE  FramesInv'
  <1> Types
    BY DEF CoreInv
  <1>1. /\ stack # <<>> /\ stack' = SubSeq(stack, 1, Len(stack) - 1)
        /\ built \subseteq built' /\ UNCHANGED <<world, cache>>
    BY DEF Skip, Resolved, Resolving, Commit, CoreInv, CommandInv
  <1>2. /\ Len(stack) \in Nat \ {0} /\ Len(stack') = Len(stack) - 1
        /\ \A k \in 1 .. Len(stack') : stack'[k] = stack[k]
    BY <1>1, Pop DEF Types
  <1>3. Len(stack') \in Nat /\ Len(stack') <= Len(stack)
    BY <1>2
  <1>4. PICK n \in Nat : n = Len(stack')
    BY <1>3
  <1>5. \A k \in 1 .. n : FrameInv(stack[k])'
    BY <1>1, <1>2, <1>3, <1>4, FramesSame
  <1>6. QED
    BY <1>4, <1>5 DEF FramesInv

\* What a command writes was found by nobody yet.
LEMMA FramesWrite ==
  ASSUME CoreInv, NameInv, FramesInv, NEW f \in Names, Write(f)
  PROVE  FramesInv'
  <1> Types
    BY DEF CoreInv
  <1>1. /\ UNCHANGED <<shape, src, built, stack>>
        /\ \E e : cache'[f] = {e} /\ \A g \in Names \ {f} : cache'[g] = cache[g]
    BY Writing
  <1>2. ASSUME NEW x \in File, MTime(x) # {} PROVE MTime(x)' # {}
    <2>1. PICK g \in Names : x = <<"src", g>> \/ x = <<"cache", g>>
      BY DEF File
    <2>2. CASE x = <<"src", g>>
      BY <1>1, <1>2, <2>2 DEF MTime
    <2>3. CASE x = <<"cache", g>>
      <3>1. MTime(x) = {c.at : c \in cache[g]} /\ MTime(x)' = {c.at : c \in cache'[g]}
        BY <2>3 DEF MTime
      <3>2. cache[g] # {}
        BY <1>2, <3>1
      <3>3. PICK c \in cache'[g] : TRUE
        BY <1>1, <3>2
      <3>4. c.at \in {e.at : e \in cache'[g]}
        BY <3>3
      <3>5. QED
        BY <3>1, <3>4
    <2>4. QED
      BY <2>1, <2>2, <2>3
  <1>3. SameShape /\ built \subseteq built' /\ stack \in Seq(Frame)
    BY <1>1 DEF SameShape, Types
  <1>4. ASSUME NEW k \in 1 .. Len(stack) PROVE FrameInv(stack[k])'
    BY <1>1, <1>2, <1>3, FrameKept
  <1>5. QED
    BY <1>1, <1>4 DEF FramesInv

LEMMA FramesStep ==
  ASSUME Trustworthy, CoreInv, TimeInv, NameInv, RecordInv, BuiltInv, FramesInv, [Next]_vars
  PROVE  FramesInv'
  <1> Types
    BY DEF CoreInv
  <1>1. CASE stack' = <<>>
    BY <1>1, NoFrames
  <1>2. CASE UNCHANGED <<world, cache, built, stack>>
    <2>1. Len(stack) \in Nat
      BY LenProperties DEF Types
    <2>2. PICK n \in Nat : n = Len(stack)
      BY <2>1
    <2>3. \A k \in 1 .. n : FrameInv(stack[k])'
      BY <1>2, <2>2, FramesSame
    <2>4. QED
      BY <1>2, <2>2, <2>3 DEF FramesInv
  <1>3. ASSUME NEW r \in Rules, NextRule(r) \/ BuildProducer(r), stack' # <<>> PROVE FramesInv'
    BY <1>3, FramesEnter DEF NextRule, BuildProducer, Exit
  <1>4. CASE User
    BY <1>1, <1>4 DEF CoreInv, PassInv, User, Outside, EditSource, DeleteSource, DeleteProduct,
                      EditProduct, EditScript, SetVariables
  <1>5. CASE Begin \/ Setup \/ EndOfPass \/ Exec \/ CommandFails \/ Kill \/ UNCHANGED vars
    BY <1>1, <1>2, <1>5 DEF Begin, Setup, EndOfPass, Exec, CommandFails, Kill, Exit, vars, world
  <1>6. QED
    BY <1>1, <1>3, <1>4, <1>5, FramesLookInCache, FramesLookInSource, FramesPop, FramesWrite
    DEF Next, Autark, Visit, Resolve, Run

-----------------------------------------------------------------------------
(***************************************************************************)
(* What a command has read and written, and what is built.                 *)
(***************************************************************************)

\* No rule that is built, and none that is being resolved, has found the
\* product a command is writing.
LEMMA Unfound ==
  ASSUME CoreInv, NameInv, FramesInv, NEW f \in Names, Write(f)
  PROVE  \A q \in built \cup {Top.rule} :
           (\A g \in Consumed(q) : Producer(g) \subseteq built) =>
             /\ <<"cache", f>> \notin Inputs(q)
             /\ q # Top.rule => <<"cache", f>> \notin Outputs(q)
  <1>1. /\ Top.rule \in Rules /\ Top.rule \notin built /\ f \in Produces[shape][Top.rule]
        /\ Sound(shape)
    BY Writing
  <1>2. Top.rule \in Producer(f)
    BY <1>1 DEF Producer
  <1>3. ASSUME NEW q \in built \cup {Top.rule}, \A g \in Consumed(q) : Producer(g) \subseteq built
        PROVE  <<"cache", f>> \notin Inputs(q)
    BY <1>1, <1>2, <1>3 DEF Inputs, Place
  <1>4. ASSUME NEW q \in built, q # Top.rule
        PROVE  <<"cache", f>> \notin Outputs(q)
    <2>1. q \in Rules
      BY DEF CoreInv, Types
    <2>2. f \notin Produces[shape][q]
      BY <1>1, <1>4, <2>1 DEF Sound
    <2>3. QED
      BY <2>2 DEF Outputs
  <1>5. QED
    BY <1>3, <1>4

\* Writing f leaves all other places alone.
LEMMA Untouched ==
  ASSUME CoreInv, NameInv, NEW f \in Names, Write(f), NEW x \in File, x # <<"cache", f>>
  PROVE  MTime(x)' = MTime(x)
  <1>1. UNCHANGED src /\ \A g \in Names \ {f} : cache'[g] = cache[g]
    BY Writing
  <1>2. PICK g \in Names : x = <<"src", g>> \/ x = <<"cache", g>>
    BY DEF File
  <1>3. CASE x = <<"src", g>>
    BY <1>1, <1>3 DEF MTime
  <1>4. CASE x = <<"cache", g>>
    <2>1. cache'[g] = cache[g]
      BY <1>1, <1>4
    <2>2. MTime(x) = {c.at : c \in cache[g]} /\ MTime(x)' = {c.at : c \in cache'[g]}
      BY <1>4 DEF MTime
    <2>3. QED
      BY <2>1, <2>2
  <1>5. QED
    BY <1>2, <1>3, <1>4

LEMMA WrittenStep ==
  ASSUME CoreInv, NameInv, FramesInv, WrittenInv, [Next]_vars
  PROVE  WrittenInv'
  <1> Types
    BY DEF CoreInv
  <1>1. CASE cmd' = {}
    BY <1>1 DEF WrittenInv
  <1>2. CASE UNCHANGED vars
    BY <1>2 DEF vars, WrittenInv, Present, MTime, Top
  <1>3. CASE Exec
    <2>1. /\ cmd' = {[args |-> Args[shape][Top.rule], in |-> Present(Top.got),
                      todo |-> Produces[shape][Top.rule]]}
          /\ UNCHANGED <<shape, src, cache, stack>>
      BY <1>3 DEF Exec, world
    <2>2. Present(Top.got)' = Present(Top.got) /\ Top' = Top
      BY <2>1 DEF Present, MTime, Top
    <2>3. QED
      BY <2>1, <2>2 DEF WrittenInv
  <1>4. ASSUME NEW f \in Names, Write(f) PROVE WrittenInv'
    <2>1. /\ stack # <<>> /\ Top.rule \in Rules /\ Top.left = <<>> /\ f \in Produces[shape][Top.rule]
          /\ UNCHANGED <<shape, src, stack>>
      BY <1>4, Writing
    <2>2. PICK c \in cmd :
            LET e == [at |-> clock', by |-> Top.rule, args |-> c.args, in |-> c.in] IN
            /\ cmd' = {[c EXCEPT !.todo = @ \ {f}]}
            /\ cache'[f] = {e} /\ \A g \in Names \ {f} : cache'[g] = cache[g]
      BY <1>4, Writing
    <2>3. c \in Command
      BY DEF Types
    <2>4. PICK n : n = [c EXCEPT !.todo = @ \ {f}]
      OBVIOUS
    <2>5. cmd' = {n} /\ n.args = c.args /\ n.in = c.in /\ n.todo = c.todo \ {f}
      BY <2>2, <2>3, <2>4 DEF Command
    <2>6. Top' = Top /\ Top.miss = <<>>
      BY <2>1 DEF Top, CoreInv, CommandInv
    <2>7. /\ Top.got = Inputs(Top.rule)
          /\ \A g \in Consumed(Top.rule) : Producer(g) \subseteq built
      BY <2>1, <2>6, ResolvedFrame
    <2>8. <<"cache", f>> \notin Top.got /\ Top.got \subseteq File
      BY <1>4, <2>1, <2>7, Unfound, Places
    <2>9. \A x \in Top.got : MTime(x)' = MTime(x)
      BY <1>4, <2>8, Untouched
    <2>10. Present(Top.got)' = Present(Top.got)
      BY <2>6, <2>9 DEF Present
    <2>11. n.in = Present(Top.got)
      BY <2>5 DEF WrittenInv
    <2>12. ASSUME NEW g \in Produces[shape][Top.rule] \ n.todo
           PROVE  /\ cache'[g] # {}
                  /\ \A e \in cache'[g] : e.by = Top.rule /\ e.args = n.args /\ e.in = n.in
      <3>1. CASE g = f
        <4>1. cache'[f] = {[at |-> clock', by |-> Top.rule, args |-> c.args, in |-> c.in]}
          BY <2>2
        <4>2. \A e \in cache'[f] : e.by = Top.rule /\ e.args = c.args /\ e.in = c.in
          BY <4>1
        <4>3. QED
          BY <2>5, <3>1, <4>1, <4>2
      <3>2. CASE g # f
        <4>1. g \in Produces[shape][Top.rule] \ c.todo /\ g \in Names \ {f}
          BY <2>1, <2>5, <3>2, RuleTypes
        <4>2. cache[g] # {} /\ \A e \in cache[g] : e.by = Top.rule /\ e.args = c.args /\ e.in = c.in
          BY <4>1 DEF WrittenInv
        <4>3. cache'[g] = cache[g]
          BY <2>2, <4>1
        <4>4. QED
          BY <2>5, <4>2, <4>3
      <3>3. QED
        BY <3>1, <3>2
    <2>13. QED
      BY <2>1, <2>5, <2>6, <2>10, <2>11, <2>12 DEF WrittenInv
  <1>5. CASE User \/ Begin
    <2>1. cmd = {} /\ cmd' = cmd
      BY <1>5 DEF CoreInv, PassInv, Begin, User, Outside, EditSource, DeleteSource,
                  DeleteProduct, EditProduct, EditScript, SetVariables
    <2>2. QED
      BY <1>1, <2>1
  <1>6. CASE Setup \/ EndOfPass \/ \E r \in Rules : NextRule(r)
    <2>1. cmd' = {}
      BY <1>6 DEF CoreInv, PassInv, CommandInv, Setup, EndOfPass, NextRule, Exit
    <2>2. QED
      BY <1>1, <2>1
  <1>7. CASE Resolve \/ Skip \/ Commit \/ CommandFails \/ Kill
    <2>1. cmd' = {}
      BY <1>7 DEF Resolve, BuildProducer, LookInCache, LookInSource, Skip, Resolved, Resolving,
                  Commit, CommandFails, Kill, Exit
    <2>2. QED
      BY <1>1, <2>1
  <1>8. QED
    BY <1>2, <1>3, <1>4, <1>5, <1>6, <1>7 DEF Next, Autark, Visit, Run

\* A rule stays up to date as long as nothing it names changes.
LEMMA StaysUpToDate ==
  ASSUME RecordInv, NEW r \in Rules, UpToDate(r),
         UNCHANGED <<text, shape>>, deps'[r] = deps[r],
         \A x \in Inputs(r) \cup Outputs(r) : MTime(x)' = MTime(x)
  PROVE  UpToDate(r)'
  <1>1. PICK d \in deps[r] : /\ text <= d.text /\ d.args = Args[shape][r]
                             /\ \A p \in d.files : ~FileOutdated(p[1], p[2])
    BY DEF UpToDate
  <1>2. \A p \in d.files : p[1] \in Inputs(r) \cup Outputs(r)
    BY <1>1 DEF RecordInv
  <1>3. \A p \in d.files : MTime(p[1])' = MTime(p[1])
    BY <1>2
  <1>4. \A p \in d.files : ~FileOutdated(p[1], p[2])'
    BY <1>1, <1>3 DEF FileOutdated
  <1>5. QED
    BY <1>1, <1>4 DEF UpToDate

\* Nothing of what Commit has just recorded is outdated.
LEMMA CommitUpToDate ==
  ASSUME CoreInv, NameInv, Commit
  PROVE  \E r \in Rules : /\ r = Top.rule /\ UpToDate(r)'
                          /\ \A q \in Rules : q # r => deps'[q] = deps[q]
  <1> Types
    BY DEF CoreInv
  <1>1. PICK d \in Record :
          /\ Top.rule \in Rules /\ deps' = [deps EXCEPT ![Top.rule] = {d}]
          /\ d.text = text /\ d.args = Args[shape][Top.rule]
          /\ d.files = Present(Top.got \cup Outputs(Top.rule))
          /\ Top.got \cup Outputs(Top.rule) \subseteq File
          /\ UNCHANGED <<world, cache>>
    BY CommitRecord DEF CoreInv
  <1>2. PICK r : r = Top.rule
    OBVIOUS
  <1>3. d \in deps'[r] /\ \A q \in Rules : q # r => deps'[q] = deps[q]
    BY <1>1, <1>2 DEF Types
  <1>4. text' <= d.text /\ d.args = Args[shape'][r]
    BY <1>1, <1>2 DEF world, Types
  <1>5. ASSUME NEW p \in d.files PROVE ~FileOutdated(p[1], p[2])'
    <2>1. p[1] \in File /\ p[2] \in MTime(p[1])
      BY <1>1, PairsPresent
    <2>2. p[2] \in Nat /\ ~(p[2] > p[2])
      BY <2>1, Times
    <2>3. MTime(p[1])' = MTime(p[1])
      BY <1>1 DEF MTime, world
    <2>4. QED
      BY <2>1, <2>2, <2>3 DEF FileOutdated
  <1>6. UpToDate(r)'
    BY <1>3, <1>4, <1>5 DEF UpToDate
  <1>7. QED
    BY <1>1, <1>2, <1>3, <1>6

LEMMA BuiltStep ==
  ASSUME CoreInv, NameInv, RecordInv, FramesInv, BuiltInv, [Next]_vars
  PROVE  BuiltInv'
  <1> Types
    BY DEF CoreInv
  <1>0. built \subseteq Rules
    BY DEF Types
  <1>1. CASE built' = {}
    BY <1>1 DEF BuiltInv
  \* Nothing is built in this step, and no place that a rule names changes.
  <1>2. ASSUME UNCHANGED <<text, shape, deps, built>>,
               \A r \in built : \A x \in Inputs(r) \cup Outputs(r) : MTime(x)' = MTime(x)
        PROVE  BuiltInv'
    <2>1. ASSUME NEW r \in built' PROVE UpToDate(r)' /\ \A f \in Consumed(r)' : Producer(f)' \subseteq built'
      <3>1. r \in built /\ r \in Rules /\ UpToDate(r) /\ \A f \in Consumed(r) : Producer(f) \subseteq built
        BY <1>0, <1>2 DEF BuiltInv
      <3>2. UpToDate(r)'
        BY <1>2, <3>1, StaysUpToDate
      <3>3. QED
        BY <1>2, <3>1, <3>2 DEF Consumed, Producer
    <2>2. QED
      BY <2>1 DEF BuiltInv
  <1>3. CASE UNCHANGED <<world, cache, deps, built>>
    <2>1. \A x : MTime(x)' = MTime(x)
      BY <1>3 DEF MTime, world
    <2>2. QED
      BY <1>2, <1>3, <2>1 DEF world
  <1>4. ASSUME NEW f \in Names, Write(f) PROVE BuiltInv'
    <2>1. UNCHANGED <<text, shape, deps, built>> /\ Top.rule \notin built
      BY <1>4, Writing
    <2>2. ASSUME NEW r \in built, NEW x \in Inputs(r) \cup Outputs(r) PROVE MTime(x)' = MTime(x)
      <3>1. x # <<"cache", f>>
        BY <1>4, <2>1, Unfound DEF BuiltInv
      <3>2. x \in File
        BY <1>0, Places
      <3>3. QED
        BY <1>4, <3>1, <3>2, Untouched
    <2>3. QED
      BY <1>2, <2>1, <2>2
  \* One more rule is built: it is up to date, and what it needs is built.
  <1>5. ASSUME NEW r \in Rules, r = Top.rule, UpToDate(r)', built' = built \cup {r},
               UNCHANGED <<world, cache>>, \A q \in Rules : q # r => deps'[q] = deps[q],
               \A f \in Consumed(r) : Producer(f) \subseteq built
        PROVE  BuiltInv'
    <2>1. ASSUME NEW q \in built' PROVE UpToDate(q)' /\ \A f \in Consumed(q)' : Producer(f)' \subseteq built'
      <3>1. q \in Rules /\ \A f \in Consumed(q) : Producer(f) \subseteq built
        BY <1>0, <1>5 DEF BuiltInv
      <3>2. UpToDate(q)'
        <4>1. CASE q = r
          BY <1>5, <4>1 DEF UpToDate, FileOutdated, MTime
        <4>2. CASE q # r
          <5>1. UpToDate(q) /\ deps'[q] = deps[q] /\ UNCHANGED <<text, shape>>
            BY <1>0, <1>5, <4>2 DEF BuiltInv, world
          <5>2. \A x : MTime(x)' = MTime(x)
            BY <1>5 DEF MTime, world
          <5>3. QED
            BY <3>1, <5>1, <5>2, StaysUpToDate
        <4>3. QED
          BY <4>1, <4>2
      <3>3. QED
        BY <1>5, <3>1, <3>2 DEF Consumed, Producer, world
    <2>2. QED
      BY <2>1 DEF BuiltInv
  <1>6. CASE Skip
    <2>1. /\ stack # <<>> /\ Top.left = <<>> /\ Top.miss = <<>> /\ UpToDate(Top.rule)
          /\ built' = built \cup {Top.rule} /\ UNCHANGED <<world, cache, deps>>
      BY <1>6 DEF Skip, Resolved, Resolving
    <2>2. Top.rule \in Rules /\ \A f \in Consumed(Top.rule) : Producer(f) \subseteq built
      BY <2>1, ResolvedFrame
    <2>3. PICK r : r = Top.rule
      OBVIOUS
    <2>4. \A x : MTime(x)' = MTime(x)
      BY <2>1 DEF MTime, world
    <2>5. UpToDate(r)'
      BY <2>1, <2>2, <2>3, <2>4, StaysUpToDate DEF world
    <2>6. QED
      BY <1>5, <2>1, <2>2, <2>3, <2>5
  <1>7. CASE Commit
    <2>1. built' = built \cup {Top.rule} /\ cmd # {} /\ UNCHANGED <<world, cache>>
      BY <1>7 DEF Commit
    <2>2. stack # <<>> /\ Top.left = <<>> /\ Top.miss = <<>>
      BY <2>1 DEF CoreInv, CommandInv
    <2>3. \A f \in Consumed(Top.rule) : Producer(f) \subseteq built
      BY <2>2, ResolvedFrame
    <2>4. QED
      BY <1>5, <1>7, <2>1, <2>3, CommitUpToDate
  <1>8. CASE User \/ Begin
    <2>1. built' = {}
      BY <1>8 DEF CoreInv, PassInv, Begin, User, Outside, EditSource, DeleteSource,
                  DeleteProduct, EditProduct, EditScript, SetVariables
    <2>2. QED
      BY <1>1, <2>1
  <1>9. CASE Visit \/ Resolve \/ CommandFails \/ Kill
    BY <1>1, <1>3, <1>9 DEF Visit, Setup, EndOfPass, NextRule, Resolve, BuildProducer,
                            LookInCache, LookInSource, CommandFails, Kill, Exit
  <1>10. CASE Exec \/ UNCHANGED vars
    BY <1>3, <1>10 DEF Exec, vars, world
  <1>11. QED
    BY <1>4, <1>6, <1>7, <1>8, <1>9, <1>10 DEF Next, Autark, Run

\* "ok" is reported when both passes have built all their rules.
LEMMA OkStep ==
  ASSUME CoreInv, RecordInv, BuiltInv, OkInv, [Next]_vars
  PROVE  OkInv'
  <1>1. CASE EndOfPass /\ result' = "ok"
    <2>1. pc = "post" /\ Waiting = {} /\ UNCHANGED <<world, cache, deps>>
      BY <1>1 DEF EndOfPass, CoreInv, PassInv, Types
    <2>2. Rules \subseteq built
      BY <2>1 DEF Waiting, Pass, CoreInv, PassInv
    <2>3. \A x : MTime(x)' = MTime(x)
      BY <2>1 DEF MTime, world
    <2>4. \A r \in Rules : UpToDate(r)'
      BY <2>1, <2>2, <2>3, StaysUpToDate DEF BuiltInv, world
    <2>5. QED
      BY <2>4 DEF OkInv
  <1>2. CASE UNCHANGED vars
    BY <1>2 DEF vars, OkInv, UpToDate, FileOutdated, MTime
  <1>3. CASE result' # "ok"
    BY <1>3 DEF OkInv
  <1>4. CASE ~EndOfPass /\ ~UNCHANGED vars
    <2>1. result' # "ok"
      BY <1>4 DEF CoreInv, PassInv, CommandInv, Next, Autark, Visit, Resolve, Run, Begin, Setup, NextRule, BuildProducer,
         LookInCache, LookInSource, Skip, Exec, Write, Commit, CommandFails, Kill, Exit,
         User, Outside, EditSource, DeleteSource, DeleteProduct, EditProduct,
         EditScript, SetVariables, Resolved, Resolving
    <2>2. QED
      BY <1>3, <2>1
  <1>5. QED
    BY <1>1, <1>2, <1>3, <1>4

-----------------------------------------------------------------------------
(***************************************************************************)
(* The theorems.                                                           *)
(***************************************************************************)

LEMMA FreshInit == Init => FreshInv
  <1> SUFFICES ASSUME Init PROVE FreshInv
    OBVIOUS
  <1>1. /\ clock = 1 /\ text = 1 /\ cmd = {} /\ built = {} /\ result = "none" /\ pc = "idle"
        /\ \A f \in Names : src[f] \in {0, 1} /\ cache[f] = {}
        /\ \A r \in Rules : deps[r] = {}
    BY DEF Init
  <1>2. Len(stack) = 0
    BY EmptySeq DEF Init
  <1>3. TimeInv
    BY <1>1 DEF TimeInv
  <1>4. NameInv /\ RecordInv
    BY <1>1 DEF NameInv, RecordInv
  <1>5. FramesInv /\ WrittenInv /\ BuiltInv /\ OkInv
    BY <1>1, <1>2 DEF FramesInv, WrittenInv, BuiltInv, OkInv
  <1>6. QED
    BY <1>3, <1>4, <1>5 DEF FreshInv

\* For a Trustworthy build script, and whatever is edited, deleted, fails or is
\* killed: every .deps file that finds nothing outdated vouches for products
\* made from what is there now, and a rule that is built has such a .deps file.
THEOREM FreshInductive == ASSUME Trustworthy PROVE Spec => [](CoreInv /\ FreshInv)
  <1>1. CoreInv /\ FreshInv /\ [Next]_vars => FreshInv'
    <2> SUFFICES ASSUME CoreInv, FreshInv, [Next]_vars PROVE FreshInv'
      OBVIOUS
    <2>1. /\ TimeInv /\ NameInv /\ RecordInv /\ FramesInv /\ WrittenInv /\ BuiltInv /\ OkInv
          /\ Types /\ CommandInv
      BY DEF FreshInv, CoreInv
    <2>2. TimeInv'
      BY <2>1, TimeStep
    <2>3. NameInv'
      BY <2>1, NameStep
    <2>4. RecordInv'
      BY <2>1, RecordStep
    <2>5. FramesInv'
      BY <2>1, FramesStep
    <2>6. WrittenInv'
      BY <2>1, WrittenStep
    <2>7. BuiltInv'
      BY <2>1, BuiltStep
    <2>8. OkInv'
      BY <2>1, OkStep
    <2>9. QED
      BY <2>2, <2>3, <2>4, <2>5, <2>6, <2>7, <2>8 DEF FreshInv
  <1>2. QED
    BY <1>1, CoreInductive, FreshInit, PTL DEF Spec

LEMMA OkIsClean == CoreInv /\ FreshInv => SameAsClean
  <1> SUFFICES ASSUME CoreInv, FreshInv, result = "ok",
                      NEW f \in Names, NEW r \in Producer(f)
               PROVE  Clean(r, f)
    BY DEF SameAsClean, stale
  <1>1. r \in Rules /\ f \in Produces[shape][r]
    BY DEF Producer
  <1>2. UpToDate(r)
    BY <1>1 DEF FreshInv, OkInv
  <1>3. QED
    BY <1>1, <1>2, UpToDateClean DEF CoreInv, FreshInv

\* A build that reports success leaves every product as a build from an empty
\* cache would make it, whatever the rules of the script skipped.
THEOREM BuildIsClean == ASSUME Trustworthy PROVE Spec => []SameAsClean
  BY FreshInductive, OkIsClean, PTL

\* And the next build has nothing to do, for any rule that is not forced.
THEOREM BuildIsStable == ASSUME Trustworthy PROVE Spec => []NothingToDo
  <1>1. FreshInv => NothingToDo
    BY DEF FreshInv, OkInv, NothingToDo
  <1>2. QED
    BY <1>1, FreshInductive, PTL

\* The commands of a rule run when every product they read has been built in
\* this invocation and is made from the present inputs of its own rule, however
\* deep the recursion of node_build went.
THEOREM BuildInOrder == ASSUME Trustworthy PROVE Spec => []InputsReady
  <1>1. CoreInv /\ FreshInv => InputsReady
    <2> SUFFICES ASSUME CoreInv, FreshInv, cmd # {}, NEW f \in Consumed(Top.rule), NEW r \in Producer(f)
                 PROVE  r \in built /\ Clean(r, f)
      BY DEF InputsReady
    <2>1. stack # <<>> /\ Top.left = <<>> /\ Top.miss = <<>>
      BY DEF CoreInv, CommandInv
    <2>2. r \in built
      BY <2>1, ResolvedFrame DEF FreshInv
    <2>3. r \in Rules /\ f \in Produces[shape][r] /\ UpToDate(r)
      BY <2>2 DEF Producer, FreshInv, BuiltInv
    <2>4. QED
      BY <2>2, <2>3, UpToDateClean DEF CoreInv, FreshInv
  <1>2. QED
    BY <1>1, FreshInductive, PTL

-----------------------------------------------------------------------------
(***************************************************************************)
(* What rules need each other: WayInv and Verdict.                         *)
(***************************************************************************)

LEMMA NeedsKept == ASSUME UNCHANGED shape PROVE \A S : Needs(S)' = Needs(S)
  BY DEF Needs, Consumed, Producer

LEMMA CycleKept == ASSUME UNCHANGED shape PROVE Cycle' = Cycle
  BY DEF Cycle, Needs, Consumed, Producer

LEMMA ChainLinks ==
  ASSUME UNCHANGED shape,
         \A k \in 1 .. Len(stack') - 1 : stack'[k + 1].rule \in Needs({stack'[k].rule})
  PROVE  ChainInv'
  <1>1. ASSUME NEW k \in 1 .. Len(stack') - 1
        PROVE  (stack[k + 1].rule \in Needs({stack[k].rule}))'
    <2>1. PICK p, q : p = stack'[k].rule /\ q = stack'[k + 1].rule
      OBVIOUS
    <2>2. q \in Needs({p})
      BY <2>1
    <2>3. (q \in Needs({p}))'
      BY <2>2, NeedsKept
    <2>4. QED
      BY <2>1, <2>3 DEF Needs
  <1>2. QED
    BY <1>1 DEF ChainInv

\* The rules of the n lowest frames stay.
LEMMA ChainBelow ==
  ASSUME ChainInv, Len(stack) \in Nat, UNCHANGED shape, NEW n \in Nat, n <= Len(stack), Len(stack') = n,
         \A k \in 1 .. n : stack'[k].rule = stack[k].rule
  PROVE  ChainInv'
  <1>1. ASSUME NEW k \in 1 .. n - 1 PROVE stack'[k + 1].rule \in Needs({stack'[k].rule})
    <2>1. k \in 1 .. Len(stack) - 1 /\ k \in 1 .. n /\ k + 1 \in 1 .. n
      OBVIOUS
    <2>2. stack[k + 1].rule \in Needs({stack[k].rule})
      BY <2>1 DEF ChainInv
    <2>3. stack'[k + 1].rule = stack[k + 1].rule /\ stack'[k].rule = stack[k].rule
      BY <2>1
    <2>4. QED
      BY <2>2, <2>3
  <1>2. QED
    BY <1>1, ChainLinks

LEMMA ChainEmpty == ASSUME stack' = <<>> PROVE ChainInv'
  <1>1. Len(stack') = 0
    BY EmptySeq
  <1>2. QED
    BY <1>1 DEF ChainInv

LEMMA TopNeeds ==
  ASSUME Types, FramesInv, stack # <<>>, Top.left # <<>>,
         NEW r \in Rules, r \in Unbuilt(Head(Top.left))
  PROVE  r \in Needs({Top.rule}) /\ r \in Rules \ Late[shape]
  <1>1. Head(Top.left) \in Consumed(Top.rule)
    BY TopType, RangeTail DEF FramesInv, FrameInv
  <1>2. QED
    BY <1>1 DEF Unbuilt, Needs

LEMMA ChainEnter ==
  ASSUME CoreInv, FramesInv, ChainInv, NEW r \in Rules, NextRule(r) \/ BuildProducer(r)
  PROVE  ChainInv'
  <1> USE DEF CoreInv
  <1>1. CASE stack' = <<>>
    BY <1>1, ChainEmpty
  <1>2. CASE stack' # <<>>
    <2>1. stack' = Enter(r) /\ UNCHANGED shape
      BY <1>2 DEF NextRule, BuildProducer, Exit, world
    <2>2. /\ Len(stack') = Len(stack) + 1 /\ Len(stack) \in Nat
          /\ \A k \in 1 .. Len(stack) : stack'[k] = stack[k]
          /\ stack'[Len(stack) + 1].rule = r
      BY <2>1, EnterType, Push DEF Types
    <2>3. stack # <<>> => r \in Needs({Top.rule})
      BY TopNeeds DEF NextRule, BuildProducer
    <2>4. ASSUME NEW k \in 1 .. Len(stack') - 1 PROVE stack'[k + 1].rule \in Needs({stack'[k].rule})
      <3>1. CASE k = Len(stack)
        <4>1. stack # <<>>
          BY <2>2, <3>1, EmptySeq
        <4>2. stack'[k] = Top /\ stack'[k + 1].rule = r
          BY <2>2, <3>1 DEF Top
        <4>3. QED
          BY <2>3, <4>1, <4>2
      <3>2. CASE k # Len(stack)
        <4>1. k \in 1 .. Len(stack) - 1 /\ k \in 1 .. Len(stack) /\ k + 1 \in 1 .. Len(stack)
          BY <2>2, <3>2
        <4>2. QED
          BY <2>2, <4>1 DEF ChainInv
      <3>3. QED
        BY <3>1, <3>2
    <2>5. QED
      BY <2>1, <2>4, ChainLinks
  <1>3. QED
    BY <1>1, <1>2

LEMMA ChainStep ==
  ASSUME CoreInv, FramesInv, ChainInv, [Next]_vars
  PROVE  ChainInv'
  <1> USE DEF CoreInv
  <1>1. stack \in Seq(Frame) /\ Len(stack) \in Nat
    BY LenProperties DEF Types
  <1>2. CASE User \/ Begin \/ CommandFails \/ Kill
    <2>1. stack' = <<>>
      BY <1>2 DEF User, EditSource, DeleteSource, DeleteProduct, EditProduct, EditScript,
                  SetVariables, Outside, Begin, CommandFails, Kill, Exit, PassInv
    <2>2. QED
      BY <2>1, ChainEmpty
  <1>3. CASE stack' = stack /\ UNCHANGED shape
    BY <1>1, <1>3, ChainBelow
  <1>4. CASE Setup \/ EndOfPass
    <2>1. stack' = <<>> \/ (stack' = stack /\ UNCHANGED shape)
      BY <1>4 DEF Setup, EndOfPass, Exit, world
    <2>2. QED
      BY <1>3, <2>1, ChainEmpty
  <1>5. CASE LookInCache \/ LookInSource
    <2>1. \/ stack' = <<>>
          \/ /\ stack # <<>> /\ UNCHANGED shape
             /\ \E fr \in Frame : stack' = SetTop(fr) /\ fr.rule = Top.rule
      <3>1. CASE LookInCache
        BY <3>1, LookInCacheFrame DEF LookInCache, world
      <3>2. CASE LookInSource
        BY <3>2, LookInSourceFrame DEF LookInSource, Exit, world
      <3>3. QED
        BY <1>5, <3>1, <3>2
    <2>2. CASE stack' # <<>>
      <3>1. PICK fr \in Frame : stack' = SetTop(fr) /\ fr.rule = Top.rule
        BY <2>1, <2>2
      <3>2. /\ Len(stack') = Len(stack)
            /\ \A k \in 1 .. Len(stack) : stack'[k] = IF k = Len(stack) THEN fr ELSE stack[k]
        BY <1>1, <2>1, <2>2, <3>1, Replace
      <3>3. \A k \in 1 .. Len(stack) : stack'[k].rule = stack[k].rule
        BY <3>1, <3>2 DEF Top
      <3>4. QED
        BY <1>1, <2>1, <2>2, <3>2, <3>3, ChainBelow
    <2>3. QED
      BY <2>2, ChainEmpty
  <1>6. CASE Skip \/ Commit
    <2>1. stack # <<>> /\ stack' = SubSeq(stack, 1, Len(stack) - 1) /\ UNCHANGED shape
      BY <1>6 DEF Skip, Resolved, Resolving, Commit, CommandInv, world
    <2>2. PICK n \in Nat : n + 1 = Len(stack)
      <3>1. Len(stack) - 1 \in Nat /\ (Len(stack) - 1) + 1 = Len(stack)
        BY <1>1, <2>1, Topmost
      <3>2. QED
        BY <3>1
    <2>3. /\ Len(stack') = n /\ n <= Len(stack)
          /\ \A k \in 1 .. n : stack'[k] = stack[k]
      BY <1>1, <2>1, <2>2, Pop
    <2>4. QED
      BY <1>1, <2>1, <2>3, ChainBelow
  <1>7. CASE Exec \/ \E f \in Names : Write(f)
    <2>1. stack' = stack /\ UNCHANGED shape
      BY <1>7 DEF Exec, Write, world
    <2>2. QED
      BY <1>3, <2>1
  <1>8. CASE UNCHANGED vars
    BY <1>3, <1>8 DEF vars
  <1>9. QED
    BY <1>2, <1>4, <1>5, <1>6, <1>7, <1>8, ChainEnter DEF Next, Autark, Visit, Resolve, Run

LEMMA NeedsBuilt ==
  ASSUME NEW r, \A f \in Consumed(r) : Producer(f) \subseteq built
  PROVE  Needs({r}) \subseteq built
  BY DEF Needs

\* One more rule is built, after those it needs.
LEMMA OrderPop ==
  ASSUME OrderInv, UNCHANGED shape, NEW t \in Rules, t \notin built, built' = built \cup {t},
         \A f \in Consumed(t) : Producer(f) \subseteq built,
         \A r \in built : \A f \in Consumed(r) : Producer(f) \subseteq built
  PROVE  OrderInv'
  <1>1. ASSUME NEW S, S \subseteq built \cup {t}, S # {}
        PROVE  \E r \in S : Needs({r}) \cap S = {}
    <2>1. CASE S \cap built = {}
      <3>1. t \in S /\ S \subseteq {t}
        BY <1>1, <2>1
      <3>2. Needs({t}) \subseteq built
        BY NeedsBuilt
      <3>3. QED
        BY <3>1, <3>2
    <2>2. CASE S \cap built # {}
      <3>1. PICK r \in S \cap built : Needs({r}) \cap (S \cap built) = {}
        BY <2>2 DEF OrderInv
      <3>2. Needs({r}) \subseteq built
        BY <3>1, NeedsBuilt
      <3>3. QED
        BY <3>1, <3>2
    <2>3. QED
      BY <2>1, <2>2
  <1>2. ASSUME NEW S \in SUBSET built', S # {}
        PROVE  (\E r \in S : Needs({r}) \cap S = {})'
    <2>1. PICK r \in S : Needs({r}) \cap S = {}
      BY <1>1, <1>2
    <2>2. (Needs({r}) \cap S = {})'
      BY <2>1, NeedsKept
    <2>3. QED
      BY <2>2
  <1>3. QED
    BY <1>2 DEF OrderInv

LEMMA OrderSame == ASSUME OrderInv, built' = built, UNCHANGED shape PROVE OrderInv'
  <1>1. ASSUME NEW S \in SUBSET built, S # {}
        PROVE  (\E r \in S : Needs({r}) \cap S = {})'
    <2>1. PICK r \in S : Needs({r}) \cap S = {}
      BY <1>1 DEF OrderInv
    <2>2. (Needs({r}) \cap S = {})'
      BY <2>1, NeedsKept
    <2>3. QED
      BY <2>2
  <1>2. QED
    BY <1>1 DEF OrderInv

LEMMA OrderStep ==
  ASSUME CoreInv, FramesInv, BuiltInv, OrderInv, [Next]_vars
  PROVE  OrderInv'
  <1> USE DEF CoreInv
  <1>1. CASE built' = {}
    BY <1>1 DEF OrderInv
  <1>2. CASE built' = built /\ UNCHANGED shape
    BY <1>2, OrderSame
  <1>3. CASE User \/ Begin \/ CommandFails \/ Kill
    <2>1. built' = {}
      BY <1>3 DEF User, EditSource, DeleteSource, DeleteProduct, EditProduct, EditScript,
                  SetVariables, Outside, Begin, CommandFails, Kill, Exit, PassInv
    <2>2. QED
      BY <1>1, <2>1
  <1>4. CASE Visit \/ Resolve
    <2>1. built' = {} \/ (built' = built /\ UNCHANGED shape)
      BY <1>4 DEF Visit, Setup, EndOfPass, NextRule, Resolve, BuildProducer, LookInCache,
                  LookInSource, Exit, world
    <2>2. QED
      BY <1>1, <1>2, <2>1
  <1>5. CASE Skip \/ Commit
    <2>1. /\ stack # <<>> /\ Top.left = <<>> /\ Top.miss = <<>>
          /\ built' = built \cup {Top.rule} /\ UNCHANGED shape
      BY <1>5 DEF Skip, Resolved, Resolving, Commit, CommandInv, world
    <2>2. Top.rule \in Rules /\ Top.rule \notin built
      BY <2>1, TopType DEF StackInv
    <2>3. \A f \in Consumed(Top.rule) : Producer(f) \subseteq built
      BY <2>1, ResolvedFrame
    <2>4. PICK t \in Rules : t = Top.rule
      BY <2>2
    <2>5. QED
      BY <2>1, <2>2, <2>3, <2>4, OrderPop DEF BuiltInv
  <1>6. CASE Exec \/ (\E f \in Names : Write(f)) \/ UNCHANGED vars
    <2>1. built' = built /\ UNCHANGED shape
      BY <1>6 DEF Exec, Write, world, vars
    <2>2. QED
      BY <1>2, <2>1
  <1>7. QED
    BY <1>3, <1>4, <1>5, <1>6 DEF Next, Autark, Run

-----------------------------------------------------------------------------
\* The rules from the one that is needed again up to the topmost are a cycle.
LEMMA CycleOnStack ==
  ASSUME Types, FramesInv, ChainInv, stack # <<>>, Top.left # <<>>,
         NEW r \in OnStack, r \in Unbuilt(Head(Top.left))
  PROVE  Cycle
  <1>1. PICK n \in Nat : n = Len(stack) /\ n \in 1 .. n
    BY Topmost DEF Types
  <1>2. \A k \in 1 .. n : stack[k].rule \in Rules
    BY <1>1, Topmost DEF Types, Frame
  <1>3. PICK j \in 1 .. n : stack[j].rule = r
    BY <1>1 DEF OnStack
  <1>4. r \in Rules
    BY <1>2, <1>3
  <1>5. r \in Needs({Top.rule}) /\ r \in Rules \ Late[shape]
    BY <1>4, TopNeeds
  <1> DEFINE S == {stack[k].rule : k \in j .. n}
  <1>6. r \in S
    BY <1>3
  <1>7. ASSUME NEW k \in j .. n PROVE stack[k].rule \in Rules \ Late[shape]
    <2>1. CASE k = j
      BY <1>3, <1>5, <2>1
    <2>2. CASE k # j
      <3>1. PICK i \in 1 .. n - 1 : k = i + 1
        <4>1. k - 1 \in 1 .. n - 1 /\ k = (k - 1) + 1
          BY <1>1, <1>3, <2>2
        <4>2. QED
          BY <4>1
      <3>2. stack[k].rule \in Needs({stack[i].rule})
        BY <1>1, <3>1 DEF ChainInv
      <3>3. QED
        BY <3>2 DEF Needs
    <2>3. QED
      BY <2>1, <2>2
  <1>8. ASSUME NEW k \in j .. n PROVE Needs({stack[k].rule}) \cap S # {}
    <2>1. CASE k = n
      BY <1>1, <1>5, <1>6, <2>1 DEF Top
    <2>2. CASE k # n
      <3>1. k \in 1 .. n - 1 /\ k + 1 \in j .. n
        BY <1>1, <1>3, <2>2
      <3>2. stack[k + 1].rule \in Needs({stack[k].rule})
        BY <1>1, <3>1 DEF ChainInv
      <3>3. stack[k + 1].rule \in S
        BY <3>1
      <3>4. QED
        BY <3>2, <3>3
    <2>3. QED
      BY <2>1, <2>2
  <1>9. S \in SUBSET (Rules \ Late[shape])
    BY <1>7
  <1>10. \A p \in S : Needs({p}) \cap S # {}
    BY <1>8
  <1> HIDE DEF S
  <1>11. QED
    BY <1>6, <1>9, <1>10 DEF Cycle

\* What a rule that is up to date consumes and no rule makes is a source file.
LEMMA UpToDateSource ==
  ASSUME Types, TimeInv, RecordInv, NEW r \in Rules, UpToDate(r),
         NEW f \in Consumed(r), Producer(f) = {}
  PROVE  src[f] # 0
  <1>1. PICK d \in deps[r] :
           /\ {p[1] : p \in d.files} = Inputs(r) \cup Outputs(r)
           /\ \A p \in d.files : p = <<p[1], p[2]>> /\ p[1] \in File /\ p[2] \in MTime(p[1])
    BY UpToDateRecord
  <1>2. Place(f) \in Inputs(r) /\ Place(f) = <<"src", f>>
    BY DEF Inputs, Place
  <1>3. PICK p \in d.files : p[1] = <<"src", f>>
    BY <1>1, <1>2
  <1>4. p[2] \in MTime(<<"src", f>>)
    BY <1>1, <1>3
  <1>5. MTime(<<"src", f>>) = {src[f]} \ {0}
    BY DEF MTime
  <1>6. QED
    BY <1>4, <1>5

LEMMA VerdictStep ==
  ASSUME CoreInv, FreshInv, WayInv, Verdict, [Next]_vars
  PROVE  Verdict'
  <1> USE DEF CoreInv, FreshInv, WayInv
  <1>1. CASE result' \notin {"cyclic", "unresolved", "ok"}
    BY <1>1 DEF Verdict
  <1>2. CASE UNCHANGED vars
    BY <1>2, CycleKept DEF Verdict, vars, Consumed, Producer
  <1>3. CASE \E r \in Rules : BuildProducer(r) /\ result' # result
    <2>1. PICK r \in Rules : BuildProducer(r) /\ result' # result
      BY <1>3
    <2>2. /\ stack # <<>> /\ Top.left # <<>> /\ r \in Unbuilt(Head(Top.left))
          /\ r \in OnStack /\ result' = "cyclic" /\ UNCHANGED shape
      BY <2>1 DEF BuildProducer, Resolving, Exit, world
    <2>3. Cycle'
      BY <2>2, CycleOnStack, CycleKept
    <2>4. QED
      BY <2>2, <2>3 DEF Verdict
  <1>4. CASE LookInSource /\ result' # result
    <2>1. /\ stack # <<>> /\ Top.left = <<>> /\ Top.miss # <<>> /\ src[Head(Top.miss)] = 0
          /\ result' = "unresolved" /\ UNCHANGED <<shape, src>>
      BY <1>4 DEF LookInSource, Resolving, Exit, world
    <2>2. PICK f : f = Head(Top.miss)
      OBVIOUS
    <2>3. Top.rule \in Rules /\ f \in Consumed(Top.rule) /\ Producer(f) = {}
      <3>1. Top.rule \in Rules /\ Top.miss \in Seq(Names) /\ FrameInv(Top)
        BY <2>1, TopType DEF FramesInv
      <3>2. f \in Range(Top.miss)
        BY <2>1, <2>2, <3>1, RangeTail
      <3>3. QED
        BY <3>1, <3>2 DEF FrameInv
    <2>4. PICK r \in Rules : f \in Consumed(r)
      BY <2>3
    <2>5. (f \in Consumed(r) /\ Producer(f) \ Late[shape] = {} /\ src[f] = 0)'
      BY <2>1, <2>2, <2>3, <2>4 DEF Consumed, Producer
    <2>6. QED
      BY <2>1, <2>5 DEF Verdict
  <1>5. CASE EndOfPass /\ result' = "ok"
    <2>1. pc = "post" /\ Waiting = {} /\ UNCHANGED <<shape, src>>
      BY <1>5 DEF EndOfPass, PassInv, Types, world
    <2>2. Rules \subseteq built
      BY <2>1 DEF Waiting, Pass, PassInv
    <2>3. ~Cycle
      BY <2>2 DEF Cycle, OrderInv
    <2>4. \A r \in Rules : \A f \in Consumed(r) : Producer(f) = {} => src[f] # 0
      BY <2>2, UpToDateSource DEF BuiltInv
    <2>5. ~Cycle'
      BY <2>1, <2>3, CycleKept
    <2>6. (\A r \in Rules : \A f \in Consumed(r) : Producer(f) = {} => src[f] # 0)'
      BY <2>1, <2>4 DEF Consumed, Producer
    <2>7. QED
      BY <1>5, <2>5, <2>6 DEF Verdict
  <1>6. \/ result' \notin {"cyclic", "unresolved", "ok"}
        \/ UNCHANGED vars
        \/ \E r \in Rules : BuildProducer(r) /\ result' # result
        \/ LookInSource /\ result' # result
        \/ EndOfPass /\ result' = "ok"
    <2>1. CASE User \/ Begin \/ CommandFails \/ Kill \/ Setup
      BY <2>1 DEF User, Outside, EditSource, DeleteSource, DeleteProduct, EditProduct,
                  EditScript, SetVariables, Begin, CommandFails, Kill, Setup, Exit, PassInv
    <2>2. CASE EndOfPass
      BY <2>2 DEF EndOfPass, Exit, PassInv
    <2>3. CASE (\E r \in Rules : NextRule(r)) \/ Resolve
      BY <2>3 DEF NextRule, Resolve, BuildProducer, LookInCache, LookInSource, Resolving, PassInv
    <2>4. CASE Run
      BY <2>4 DEF Run, Skip, Exec, Write, Commit, Resolved, Resolving, PassInv
    <2>5. QED
      BY <2>1, <2>2, <2>3, <2>4 DEF Next, Autark, Visit
  <1>7. QED
    BY <1>1, <1>2, <1>3, <1>4, <1>5, <1>6

LEMMA WayInit == Init => WayInv /\ Verdict
  <1> SUFFICES ASSUME Init PROVE WayInv /\ Verdict
    OBVIOUS
  <1>1. built = {} /\ Len(stack) = 0 /\ result = "none"
    BY EmptySeq DEF Init
  <1>2. QED
    BY <1>1 DEF WayInv, ChainInv, OrderInv, Verdict

\* Whatever the build script needs, however deep, and whatever happened before:
\* a rule being built always waits for a rule it needs, and no rules that need
\* each other are ever all built.
THEOREM WayInductive == ASSUME Trustworthy PROVE Spec => [](WayInv /\ Verdict)
  <1>1. CoreInv /\ FreshInv /\ WayInv /\ Verdict /\ [Next]_vars => WayInv' /\ Verdict'
    BY ChainStep, OrderStep, VerdictStep DEF FreshInv, WayInv
  <1>2. QED
    BY <1>1, WayInit, FreshInductive, PTL DEF Spec

\* A build that reports cyclic dependencies has rules that need each other, one
\* that misses a file misses one that no rule makes, and one that goes through
\* had neither: what node_build answers is true of the script as a whole,
\* although it only looks at the rules it has entered.
THEOREM BuildVerdict == ASSUME Trustworthy PROVE Spec => []Verdict
  BY WayInductive, PTL

-----------------------------------------------------------------------------
(***************************************************************************)
(* The bound of the clock: a process writes every product at most once.    *)
(***************************************************************************)

LEMMA Finite ==
  ASSUME NEW S \in SUBSET Names
  PROVE  /\ IsFiniteSet(S) /\ Cardinality(S) \in Nat
         /\ \A T \in SUBSET S : IsFiniteSet(T) /\ Cardinality(T) \in Nat /\ Cardinality(T) <= Cardinality(S)
  <1>1. IsFiniteSet(S)
    BY NamesAssumption, FS_Subset
  <1>2. QED
    BY <1>1, FS_Subset, FS_CardinalityType

\* A step that writes nothing leaves no more to write.
LEMMA RoomKept ==
  ASSUME Types, RoomInv, UNCHANGED <<clock, text>>, pc' \in {"build", "post"},
         pc \in {"build", "post"}, Unwritten' \subseteq Unwritten
  PROVE  RoomInv'
  <1>1. /\ Cardinality(Unwritten) \in Nat /\ Cardinality(Unwritten') \in Nat
        /\ Cardinality(Unwritten') <= Cardinality(Unwritten)
    <2>1. Unwritten \in SUBSET Names
      BY DEF Unwritten
    <2>2. QED
      BY <2>1, Finite
  <1>2. clock \in Nat /\ MaxClock \in Nat
    BY NamesAssumption DEF Types
  <1>3. clock + Cardinality(Unwritten') <= MaxClock
    BY <1>1, <1>2 DEF RoomInv
  <1>4. QED
    BY <1>3 DEF RoomInv

LEMMA RoomIdle ==
  ASSUME Types, RoomInv, UNCHANGED <<clock, text>>, pc' = "idle"
  PROVE  RoomInv'
  BY DEF RoomInv

LEMMA RoomWrite ==
  ASSUME CoreInv, NameInv, RoomInv, NEW f \in Names, Write(f)
  PROVE  RoomInv'
  <1> Types
    BY DEF CoreInv
  <1>1. /\ stack # <<>> /\ Top.rule \in Rules /\ Top.rule \notin built
        /\ f \in Produces[shape][Top.rule] /\ Sound(shape)
        /\ UNCHANGED <<text, shape, pc, built, stack>>
    BY Writing
  <1>2. PICK c \in cmd : f \in c.todo /\ cmd' = {[c EXCEPT !.todo = @ \ {f}]} /\ clock' = clock + 1
    BY DEF Write
  <1>3. PICK n : cmd' = {n} /\ n.todo = c.todo \ {f}
    <2>1. c \in Command
      BY DEF Types
    <2>2. [c EXCEPT !.todo = @ \ {f}].todo = c.todo \ {f}
      BY <2>1 DEF Command
    <2>3. QED
      BY <1>2, <2>2
  <1>4. pc \in {"build", "post"}
    BY <1>1 DEF CoreInv, PassInv, Types
  <1>5. f \in Unwritten
    BY <1>1, <1>2 DEF Unwritten, Producer
  <1>6. Unwritten' \subseteq Unwritten \ {f}
    <2>1. ASSUME NEW g \in Unwritten' PROVE g \in Unwritten \ {f}
      <3>1. PICK r \in Rules : /\ g \in Names /\ g \in Produces[shape][r] /\ r \notin built
                               /\ r = Top.rule => g \in n.todo
        BY <1>1, <1>3 DEF Unwritten, Producer, Top
      <3>2. g \in Unwritten
        BY <1>2, <1>3, <3>1 DEF Unwritten, Producer
      <3>3. g # f
        BY <1>1, <1>3, <3>1 DEF Sound
      <3>4. QED
        BY <3>2, <3>3
    <2>2. QED
      BY <2>1
  <1>7. clock' + Cardinality(Unwritten') <= MaxClock
    <2>1. Unwritten \in SUBSET Names
      BY DEF Unwritten
    <2>2. IsFiniteSet(Unwritten) /\ Cardinality(Unwritten) \in Nat
      BY <2>1, Finite
    <2>3. Cardinality(Unwritten \ {f}) = Cardinality(Unwritten) - 1
      BY <1>5, <2>2, FS_RemoveElement
    <2>4. Unwritten \ {f} \in SUBSET Names
      BY <2>1
    <2>5. /\ Cardinality(Unwritten') \in Nat /\ Cardinality(Unwritten \ {f}) \in Nat
          /\ Cardinality(Unwritten') <= Cardinality(Unwritten \ {f})
      BY <1>6, <2>4, Finite
    <2>6. clock + Cardinality(Unwritten) <= MaxClock /\ clock \in Nat /\ MaxClock \in Nat
      BY <1>4, NamesAssumption DEF RoomInv, Types
    <2>7. QED
      BY <1>2, <2>2, <2>3, <2>5, <2>6
  <1>8. clock' <= MaxClock
    <2>1. Unwritten' \in SUBSET Names
      BY DEF Unwritten
    <2>2. Cardinality(Unwritten') \in Nat
      BY <2>1, Finite
    <2>3. clock' \in Nat /\ MaxClock \in Nat
      BY <1>2, NamesAssumption DEF Types
    <2>4. QED
      BY <1>7, <2>2, <2>3
  <1>9. QED
    BY <1>1, <1>4, <1>7, <1>8 DEF RoomInv

LEMMA RoomStep ==
  ASSUME CoreInv, NameInv, RoomInv, [Next]_vars
  PROVE  RoomInv'
  <1> Types
    BY DEF CoreInv
  <1>1. CASE User
    <2>1. pc' = "idle" /\ clock \in Nat /\ text \in Nat /\ MaxClock \in Nat /\ clock <= MaxClock
          /\ 1 <= text
      BY <1>1, NamesAssumption DEF User, Outside, EditSource, DeleteSource, DeleteProduct,
               EditProduct, EditScript, SetVariables, Types, RoomInv
    <2>2. /\ clock' = clock \/ (clock < MaxClock /\ clock' = clock + 1)
          /\ text' = text \/ (text' = clock' /\ clock' = clock + 1)
      BY <1>1 DEF User, Tick, EditSource, DeleteSource, DeleteProduct, EditProduct, EditScript,
                  SetVariables, world
    <2>3. clock' <= MaxClock /\ 1 <= text'
      BY <2>1, <2>2
    <2>4. QED
      BY <2>1, <2>3 DEF RoomInv
  <1>2. CASE Begin
    BY <1>2 DEF Begin, RoomInv, world, Producer
  <1>3. CASE Setup
    <2>1. CASE pc' = "idle"
      BY <1>3, <2>1, RoomIdle DEF Setup, world
    <2>2. CASE pc' # "idle"
      <3>1. pc = "setup" /\ pc' = "build" /\ UNCHANGED <<clock, text, shape>>
        BY <1>3, <2>2 DEF Setup, Exit, world
      <3>2. PICK S \in SUBSET Names : S = {f \in Names : Producer(f) # {}}
        OBVIOUS
      <3>3. Unwritten' \subseteq S
        BY <3>1, <3>2 DEF Unwritten, Producer
      <3>4. /\ Cardinality(S) \in Nat /\ Cardinality(Unwritten') \in Nat
            /\ Cardinality(Unwritten') <= Cardinality(S)
        BY <3>3, Finite
      <3>5. clock + Cardinality(S) <= MaxClock /\ clock \in Nat /\ MaxClock \in Nat
        BY <3>1, <3>2, NamesAssumption DEF RoomInv, Types
      <3>6. clock' + Cardinality(Unwritten') <= MaxClock
        BY <3>1, <3>4, <3>5
      <3>7. QED
        BY <3>1, <3>6 DEF RoomInv
    <2>3. QED
      BY <2>1, <2>2
  <1>4. CASE UNCHANGED vars
    BY <1>4 DEF vars, RoomInv, Unwritten, Producer, Top
  <1>5. CASE pc' = "idle" /\ UNCHANGED world
    BY <1>5, RoomIdle DEF world
  \* No command runs, or one is started.
  <1>6. CASE /\ pc \in {"build", "post"} /\ pc' \in {"build", "post"} /\ cmd = {}
             /\ UNCHANGED world /\ built \subseteq built'
    <2>1. Unwritten' \subseteq Unwritten
      BY <1>6 DEF Unwritten, Producer, world
    <2>2. QED
      BY <1>6, <2>1, RoomKept DEF world
  <1>7. CASE Commit
    <2>1. /\ cmd # {} /\ cmd' = {} /\ built' = built \cup {Top.rule}
          /\ UNCHANGED <<clock, text, shape, pc>>
      BY <1>7 DEF Commit, world
    <2>2. pc \in {"build", "post"}
      BY <2>1 DEF CoreInv, PassInv, Types
    <2>3. Unwritten' \subseteq Unwritten
      BY <2>1 DEF Unwritten, Producer
    <2>4. QED
      BY <2>1, <2>2, <2>3, RoomKept
  <1>8. EndOfPass \/ (\E r \in Rules : NextRule(r)) \/ Resolve \/ Skip \/ Exec \/ CommandFails \/ Kill =>
          \/ pc' = "idle" /\ UNCHANGED world
          \/ /\ pc \in {"build", "post"} /\ pc' \in {"build", "post"} /\ cmd = {}
             /\ UNCHANGED world /\ built \subseteq built'
    <2> USE DEF CoreInv, PassInv, CommandInv, Exit, Types
    <2>1. EndOfPass \/ (\E r \in Rules : NextRule(r)) =>
          \/ pc' = "idle" /\ UNCHANGED world
          \/ /\ pc \in {"build", "post"} /\ pc' \in {"build", "post"} /\ cmd = {}
             /\ UNCHANGED world /\ built \subseteq built'
      BY DEF EndOfPass, NextRule
    <2>2. Resolve =>
          \/ pc' = "idle" /\ UNCHANGED world
          \/ /\ pc \in {"build", "post"} /\ pc' \in {"build", "post"} /\ cmd = {}
             /\ UNCHANGED world /\ built \subseteq built'
      BY DEF Resolve, BuildProducer, LookInCache, LookInSource, Resolving
    <2>3. Skip \/ Exec \/ CommandFails \/ Kill =>
          \/ pc' = "idle" /\ UNCHANGED world
          \/ /\ pc \in {"build", "post"} /\ pc' \in {"build", "post"} /\ cmd = {}
             /\ UNCHANGED world /\ built \subseteq built'
      BY DEF Skip, Exec, CommandFails, Kill, Resolved, Resolving
    <2>4. QED
      BY <2>1, <2>2, <2>3
  <1>9. QED
    BY <1>1, <1>2, <1>3, <1>4, <1>5, <1>6, <1>7, <1>8, RoomWrite DEF Next, Autark, Visit, Run

\* The whole inductive invariant, with the types: in every build no file gets a
\* later time than the model has room for, and no rule is twice on the stack.
THEOREM BuildInductive == ASSUME Trustworthy PROVE Spec => []IInv
  <1>1. Init => RoomInv
    BY NamesAssumption DEF Init, RoomInv
  <1>2. CoreInv /\ FreshInv /\ RoomInv /\ [Next]_vars => RoomInv'
    BY RoomStep DEF FreshInv
  <1>3. CoreInv /\ FreshInv /\ RoomInv => TypeOK
    <2> SUFFICES ASSUME CoreInv, FreshInv, RoomInv PROVE TypeOK
      OBVIOUS
    <2>1. Types
      BY DEF CoreInv
    <2>2. clock \in 1 .. MaxClock /\ text \in 1 .. clock
      BY <2>1, NamesAssumption DEF Types, RoomInv, FreshInv, TimeInv
    <2>3. src \in [Names -> 0 .. clock]
      BY <2>1 DEF Types, FreshInv, TimeInv
    <2>4. \A j, k \in DOMAIN stack : stack[j].rule = stack[k].rule => j = k
      <3>1. DOMAIN stack = 1 .. Len(stack)
        BY <2>1, LenProperties DEF Types
      <3>2. QED
        BY <3>1 DEF CoreInv, StackInv
    <2>5. QED
      BY <2>1, <2>2, <2>3, <2>4 DEF Types, TypeOK
  <1>4. QED
    BY <1>1, <1>2, <1>3, FreshInductive, WayInductive, PTL DEF Spec, IInv

-----------------------------------------------------------------------------
(***************************************************************************)
(* The refinement of Rebuild.                                              *)
(***************************************************************************)

LEMMA PromiseInit == Init => Promise!Init
  BY DEF Init, Promise!Init, stale

LEMMA StaleKept == ASSUME UNCHANGED <<shape, src, cache>> PROVE stale' = stale
  BY DEF stale, Producer, Clean, FromClean, Consumed, Present, MTime

\* An exit that is not a success gives up, and leaves its products.
LEMMA PromiseGiveUp ==
  ASSUME PassInv, pc # "idle", NEW o \in {"fail", "cyclic", "unresolved", "killed"}, Exit(o),
         UNCHANGED <<world, cache>>
  PROVE  Promise!GiveUp
  <1>1. stale' = stale /\ stale \in SUBSET Names
    BY StaleKept DEF world, stale
  <1>2. pc' = "idle" /\ result' = o
    BY DEF Exit
  <1>3. CASE o = "killed"
    BY <1>1, <1>2, <1>3 DEF Promise!GiveUp
  <1>4. CASE o # "killed"
    BY <1>1, <1>2, <1>4 DEF Promise!GiveUp
  <1>5. QED
    BY <1>3, <1>4

LEMMA PromiseStep ==
  ASSUME CoreInv, FreshInv, [Next]_vars
  PROVE  [Promise!Next]_(Promise!vars)
  <1> stale' \in SUBSET Names
    BY DEF stale
  <1>1. CASE User
    <2>1. pc = "idle" /\ pc' = "idle" /\ result' = "none"
      BY <1>1 DEF User, Outside, EditSource, DeleteSource, DeleteProduct, EditProduct,
                  EditScript, SetVariables
    <2>2. Promise!Change
      BY <2>1 DEF Promise!Change
    <2>3. QED
      BY <2>2 DEF Promise!Next
  <1>2. CASE Begin
    <2>1. pc = "idle" /\ pc' = "setup" /\ result' = "none" /\ UNCHANGED <<shape, src, cache>>
      BY <1>2 DEF Begin, world
    <2>2. Promise!Start
      BY <2>1, StaleKept DEF Promise!Start
    <2>3. QED
      BY <2>2 DEF Promise!Next
  <1>3. CASE UNCHANGED vars
    <2>1. UNCHANGED <<shape, src, cache, pc, result>>
      BY <1>3 DEF vars
    <2>2. QED
      BY <2>1, StaleKept DEF Promise!vars
  <1>4. CASE EndOfPass /\ result' = "ok"
    <2>1. pc # "idle" /\ pc' = "idle" /\ UNCHANGED <<world, cache>>
      BY <1>4 DEF EndOfPass, Exit, CoreInv, PassInv
    <2>2. OkInv'
      BY <1>4, OkStep DEF FreshInv
    <2>3. ASSUME NEW f \in Names, NEW r \in Producer(f) PROVE Clean(r, f)
      <3>1. r \in Rules /\ f \in Produces[shape][r]
        BY DEF Producer
      <3>2. deps' = deps /\ \A x : MTime(x)' = MTime(x)
        BY <1>4, <2>1 DEF EndOfPass, MTime, world
      <3>3. UpToDate(r)
        BY <1>4, <2>1, <2>2, <3>1, <3>2 DEF OkInv, UpToDate, FileOutdated, world
      <3>4. QED
        BY <3>1, <3>3, UpToDateClean DEF CoreInv, FreshInv
    <2>4. stale = {}
      BY <2>3 DEF stale
    <2>5. stale' = stale
      BY <2>1, StaleKept DEF world
    <2>6. Promise!Succeed
      BY <1>4, <2>1, <2>4, <2>5 DEF Promise!Succeed
    <2>7. QED
      BY <2>6 DEF Promise!Next
  <1>5. CASE \E o \in {"fail", "cyclic", "unresolved", "killed"} : Exit(o) /\ pc # "idle" /\ UNCHANGED <<world, cache>>
    BY <1>5, PromiseGiveUp DEF CoreInv, Promise!Next
  <1>6. CASE pc # "idle" /\ pc' # "idle" /\ result' = result
    <2>1. Promise!Work
      BY <1>6 DEF Promise!Work
    <2>2. QED
      BY <2>1 DEF Promise!Next
  <1>7. Setup \/ EndOfPass \/ CommandFails \/ Kill =>
           \/ pc # "idle" /\ pc' # "idle" /\ result' = result
           \/ EndOfPass /\ result' = "ok"
           \/ \E o \in {"fail", "cyclic", "unresolved", "killed"} : Exit(o) /\ pc # "idle" /\ UNCHANGED <<world, cache>>
    BY DEF Setup, EndOfPass, CommandFails, Kill, CoreInv, PassInv, Exit
  <1>8. (\E r \in Rules : NextRule(r) \/ BuildProducer(r)) \/ LookInCache \/ LookInSource =>
           \/ pc # "idle" /\ pc' # "idle" /\ result' = result
           \/ \E o \in {"fail", "cyclic", "unresolved", "killed"} : Exit(o) /\ pc # "idle" /\ UNCHANGED <<world, cache>>
    BY DEF NextRule, BuildProducer, LookInCache, LookInSource, Resolving, CoreInv, PassInv
  <1>9. Run => pc # "idle" /\ pc' # "idle" /\ result' = result
    BY DEF Run, Skip, Exec, Write, Commit, Resolved, Resolving, CoreInv, PassInv
  <1>10. QED
    BY <1>1, <1>2, <1>3, <1>4, <1>5, <1>6, <1>7, <1>8, <1>9 DEF Next, Autark, Visit, Resolve

\* The run rules of a script together keep the promise of an incremental rule:
\* every step of a build is a step, or a stutter, of Rebuild.
THEOREM BuildKeepsPromise == ASSUME Trustworthy PROVE Spec => KeepsPromise
  <1>1. CoreInv /\ FreshInv /\ [Next]_vars => [Promise!Next]_(Promise!vars)
    BY PromiseStep
  <1>2. QED
    BY FreshInductive, PromiseInit, <1>1, PTL DEF Spec, KeepsPromise, Promise!Spec
=============================================================================
