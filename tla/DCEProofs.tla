----------------------------- MODULE DCEProofs -----------------------------
(***************************************************************************)
(* Proofs about the dead code passes, for every set of functions.          *)
(***************************************************************************)
EXTENDS DCE, SharedLemmas

-----------------------------------------------------------------------------
(* The elements of a sequence.                                             *)

LEMMA ElemsType ==
    ASSUME NEW S, NEW s \in Seq(S)
    PROVE  Elems(s) \subseteq S
  BY ElementOfSeq DEF Elems

LEMMA ElemsEmpty == Elems(<< >>) = {} /\ Distinct(<< >>)
  BY DEF Elems, Distinct

LEMMA ElemsAppend ==
    ASSUME NEW S, NEW s \in Seq(S), NEW x \in S
    PROVE  /\ Append(s, x) \in Seq(S)
           /\ Elems(Append(s, x)) = Elems(s) \cup {x}
           /\ Distinct(s) /\ x \notin Elems(s) => Distinct(Append(s, x))
<1> DEFINE n == Len(s)
           t == Append(s, x)
<1>1. /\ n \in Nat /\ t \in Seq(S) /\ Len(t) = n + 1
      /\ \A k \in 1..n : t[k] = s[k]
      /\ t[n + 1] = x
  BY AppendProperties, LenProperties
<1>2. \A k \in 1..(n + 1) : k \in 1..n \/ k = n + 1
  BY <1>1
<1> HIDE DEF t
<1>3. Elems(t) = Elems(s) \cup {x}
  <2>1. Elems(t) \subseteq Elems(s) \cup {x}
    BY <1>1, <1>2 DEF Elems
  <2>2. Elems(s) \subseteq Elems(t) /\ x \in Elems(t)
    BY <1>1 DEF Elems
  <2> QED
    BY <2>1, <2>2
<1>4. ASSUME Distinct(s), x \notin Elems(s) PROVE Distinct(t)
  <2> SUFFICES ASSUME NEW j \in 1..(n + 1), NEW k \in 1..(n + 1), t[j] = t[k]
               PROVE  j = k
    BY <1>1 DEF Distinct
  <2>1. \A i \in 1..n : t[i] # x
    BY <1>1, <1>4 DEF Elems
  <2>2. CASE j \in 1..n /\ k \in 1..n
    BY <1>1, <1>4, <2>2 DEF Distinct
  <2>3. CASE j = n + 1 \/ k = n + 1
    BY <1>1, <1>2, <2>1, <2>3
  <2> QED
    BY <1>2, <2>2, <2>3
<1> QED
  BY <1>1, <1>3, <1>4 DEF t

LEMMA ElemsTail ==
    ASSUME NEW S, NEW s \in Seq(S), s # << >>
    PROVE  /\ Head(s) \in S /\ Tail(s) \in Seq(S)
           /\ Elems(s) = Elems(Tail(s)) \cup {Head(s)}
           /\ Distinct(s) => Distinct(Tail(s)) /\ Head(s) \notin Elems(Tail(s))
<1> DEFINE n == Len(s)
           t == Tail(s)
           h == Head(s)
<1>1. /\ n \in Nat /\ n > 0 /\ t \in Seq(S) /\ Len(t) = n - 1
      /\ \A k \in 1..(n - 1) : t[k] = s[k + 1]
      /\ h = s[1] /\ h \in S
  BY HeadTailProperties, EmptySeq, LenProperties, ElementOfSeq
<1>2. \A k \in 1..n : k = 1 \/ (k - 1 \in 1..(n - 1) /\ k - 1 + 1 = k)
  BY <1>1
<1>3. \A k \in 1..(n - 1) : k + 1 \in 1..n /\ k + 1 # 1
  BY <1>1
<1> HIDE DEF t, n, h
<1>4. Elems(s) \subseteq Elems(t) \cup {h}
  <2> SUFFICES ASSUME NEW k \in 1..n PROVE s[k] \in Elems(t) \cup {h}
    BY DEF Elems, n
  <2>1. CASE k = 1
    BY <1>1, <2>1
  <2>2. CASE k - 1 \in 1..(n - 1) /\ k - 1 + 1 = k
    <3>1. t[k - 1] = s[k]
      BY <1>1, <2>2
    <3> QED
      BY <1>1, <2>2, <3>1 DEF Elems
  <2> QED
    BY <1>2, <2>1, <2>2
<1>5. Elems(t) \subseteq Elems(s) /\ h \in Elems(s)
  BY <1>1, <1>3 DEF Elems, n
<1>6. ASSUME Distinct(s) PROVE Distinct(t) /\ h \notin Elems(t)
  <2>1. \A j, k \in 1..n : s[j] = s[k] => j = k
    BY <1>6 DEF Distinct, n
  <2>2. Distinct(t)
    <3> SUFFICES ASSUME NEW j \in 1..(n - 1), NEW k \in 1..(n - 1), t[j] = t[k]
                 PROVE  j = k
      BY <1>1 DEF Distinct
    <3>1. s[j + 1] = s[k + 1]
      BY <1>1
    <3>2. j + 1 = k + 1
      BY <1>3, <2>1, <3>1
    <3> QED
      BY <1>1, <3>2
  <2>3. h \notin Elems(t)
    <3> SUFFICES ASSUME NEW k \in 1..(n - 1), t[k] = h PROVE FALSE
      BY <1>1 DEF Elems
    <3>1. s[k + 1] = s[1] /\ 1 \in 1..n
      BY <1>1
    <3> QED
      BY <1>3, <2>1, <3>1
  <2> QED
    BY <2>2, <2>3
<1> QED
  BY <1>1, <1>4, <1>5, <1>6 DEF t, h

LEMMA ElemsFront ==
    ASSUME NEW S, NEW s \in Seq(S), s # << >>
    PROVE  /\ s[Len(s)] \in S /\ SubSeq(s, 1, Len(s) - 1) \in Seq(S)
           /\ Elems(s) = Elems(SubSeq(s, 1, Len(s) - 1)) \cup {s[Len(s)]}
           /\ Distinct(s) => /\ Distinct(SubSeq(s, 1, Len(s) - 1))
                             /\ s[Len(s)] \notin Elems(SubSeq(s, 1, Len(s) - 1))
<1> DEFINE n == Len(s)
           t == SubSeq(s, 1, n - 1)
           l == s[n]
<1>1. n \in Nat /\ n > 0 /\ l \in S
  BY EmptySeq, LenProperties, ElementOfSeq
<1>2. /\ t \in Seq(S) /\ Len(t) = n - 1
      /\ \A k \in 1..(n - 1) : t[k] = s[k]
  BY <1>1, FrontProperties
<1>3. \A k \in 1..n : k = n \/ k \in 1..(n - 1)
  BY <1>1
<1>4. \A k \in 1..(n - 1) : k \in 1..n /\ k # n
  BY <1>1
<1>5. n \in 1..n
  BY <1>1
<1> HIDE DEF t, n
<1>6. Elems(s) = Elems(t) \cup {l}
  <2>1. Elems(s) \subseteq Elems(t) \cup {l}
    BY <1>2, <1>3 DEF Elems, n
  <2>2. Elems(t) \subseteq Elems(s) /\ l \in Elems(s)
    BY <1>2, <1>4, <1>5 DEF Elems, n
  <2> QED
    BY <2>1, <2>2
<1>7. ASSUME Distinct(s) PROVE Distinct(t) /\ l \notin Elems(t)
  <2>1. \A j, k \in 1..n : s[j] = s[k] => j = k
    BY <1>7 DEF Distinct, n
  <2>2. Distinct(t)
    BY <1>2, <1>4, <2>1 DEF Distinct
  <2>3. l \notin Elems(t)
    BY <1>2, <1>4, <1>5, <2>1 DEF Elems
  <2> QED
    BY <2>2, <2>3
<1> QED
  BY <1>1, <1>2, <1>6, <1>7 DEF t, n

LEMMA ElemsExcept ==
    ASSUME NEW S, NEW s \in Seq(S), NEW i \in 1..Len(s), NEW v \in S
    PROVE  /\ [s EXCEPT ![i] = v] \in Seq(S)
           /\ Len([s EXCEPT ![i] = v]) = Len(s)
           /\ \A k \in 1..Len(s) : [s EXCEPT ![i] = v][k] = IF k = i THEN v ELSE s[k]
           /\ Elems([s EXCEPT ![i] = v]) \subseteq Elems(s) \cup {v}
           /\ \A y \in Elems(s) : y # s[i] => y \in Elems([s EXCEPT ![i] = v])
<1> DEFINE t == [s EXCEPT ![i] = v]
<1>1. /\ t \in Seq(S) /\ Len(t) = Len(s)
      /\ \A k \in 1..Len(s) : t[k] = IF k = i THEN v ELSE s[k]
  BY ExceptSeq
<1> HIDE DEF t
<1>2. Elems(t) \subseteq Elems(s) \cup {v}
  BY <1>1 DEF Elems
<1>3. \A y \in Elems(s) : y # s[i] => y \in Elems(t)
  BY <1>1 DEF Elems
<1> QED
  BY <1>1, <1>2, <1>3 DEF t

-----------------------------------------------------------------------------
(* The inductive invariant.                                                *)

LEMMA FunctionFacts ==
    ASSUME function \in Function
    PROVE  /\ function.code \in Seq(Inst) /\ Distinct(function.code)
           /\ Code \subseteq Inst
           /\ function.operand \in [Code -> Seq(Code \cup {Value})]
           /\ function.effects \subseteq Code
<1>1. IsFunction(function)
  BY FunctionAssumption
<1>2. Code \subseteq Inst
  BY <1>1, ElemsType DEF IsFunction, Code
<1> QED
  BY <1>1, <1>2 DEF IsFunction, Code

\* What the passes keep, but for what is being deleted.
Kept == present \ {deleting}

\* The instruction being deleted is used no more, by itself included; the others
\* have the operands they had.
UsersKept ==
    /\ \A u \in present : u # deleting => operand[u] = function.operand[u]
    /\ \A u \in present : Elems(operand[u]) \cap Inst \subseteq Kept
    /\ function.effects \subseteq Kept

ListsKept ==
    /\ Elems(WorkList) \subseteq Kept /\ Distinct(WorkList)
    /\ Elems(left) \subseteq Kept /\ Distinct(left)
    /\ pass = "die" => deleting = None /\ WorkList = << >>

Nulled == deleting # None => \A k \in 1..(next - 1) : operand[deleting][k] = Null

\* Nothing dead is overlooked: it is ahead in the sweep or waits in the worklist.
DeadIsListed ==
    pass = "dce" /\ ~counted =>
        \A x \in Kept : TriviallyDead(x, operand) => x \in Elems(WorkList) \cup Elems(left)

OnlyUnwanted ==
    \A S \in SUBSET Code : Absorbs(S) => Code \ Kept \subseteq S

Reported == MadeChange <=> Erased # {}

IInv == TypeOK /\ UsersKept /\ ListsKept /\ Nulled /\ DeadIsListed /\ OnlyUnwanted /\ Reported

LEMMA InitInv == Init => IInv
<1> SUFFICES ASSUME Init PROVE IInv
  OBVIOUS
<1>1. /\ function \in Function
      /\ function.code \in Seq(Inst) /\ Distinct(function.code)
      /\ Code \subseteq Inst
      /\ function.operand \in [Code -> Seq(Code \cup {Value})]
      /\ function.effects \subseteq Code
  BY FunctionFacts DEF Init
<1>2. present = Code /\ left = function.code /\ WorkList = << >> /\ deleting = None
      /\ operand = function.operand /\ MadeChange = FALSE /\ next = 0
  BY DEF Init, Code
<1>3. Kept = Code
  BY <1>1, <1>2, InstAssumption DEF Kept
<1>4. \A u \in Code : operand[u] \in Seq(Code \cup {Value}) /\ operand[u] \in Seq(Code \cup {Value, Null})
  BY <1>1, <1>2
<1>5. TypeOK
  <2>1. operand \in [Code -> Seq(Code \cup {Value, Null})]
    BY <1>1, <1>2, <1>4
  <2>2. WorkList \in Seq(Inst)
    BY <1>2, EmptySeq
  <2>3. pass \in {"die", "dce"} /\ counted \in BOOLEAN
    BY DEF Init
  <2> QED
    BY <1>1, <1>2, <2>1, <2>2, <2>3 DEF TypeOK
<1>6. UsersKept
  <2>1. \A u \in Code : Elems(operand[u]) \cap Inst \subseteq Code
    BY <1>4, ElemsType, InstAssumption
  <2> QED
    BY <1>1, <1>2, <1>3, <2>1 DEF UsersKept
<1>7. ListsKept
  BY <1>1, <1>2, <1>3, ElemsEmpty DEF ListsKept, Code
<1>8. DeadIsListed
  BY <1>2, <1>3 DEF DeadIsListed, Code
<1> QED
  BY <1>2, <1>3, <1>5, <1>6, <1>7, <1>8 DEF IInv, Nulled, OnlyUnwanted, Reported, Erased

\* What can be deleted now is among what repeated deletion deletes.
LEMMA DeadIsUnwanted ==
    ASSUME IInv, deleting = None, NEW x \in present, TriviallyDead(x, operand),
           NEW S \in SUBSET Code, Absorbs(S)
    PROVE  x \in S
<1>1. Kept = present /\ present \subseteq Code
  BY FunctionFacts, InstAssumption DEF Kept, IInv, TypeOK
<1>2. \A u \in Code \ S : u \in present /\ operand[u] = function.operand[u]
  BY <1>1, InstAssumption, FunctionFacts DEF IInv, OnlyUnwanted, UsersKept, TypeOK
<1>3. \A u \in Code \ S : x \notin Elems(function.operand[u])
  BY <1>2 DEF TriviallyDead, UseEmpty
<1> QED
  BY <1>1, <1>3 DEF Absorbs, TriviallyDead

\* DCEInstruction deletes I, or lets it be.
LEMMA Starts ==
    ASSUME IInv, deleting = None, NEW I \in present, TriviallyDead(I, operand),
           deleting' = I, next' = 1,
           UNCHANGED << fixed, operand, present, MadeChange >>
    PROVE  UsersKept' /\ Nulled' /\ OnlyUnwanted' /\ Reported' /\ Kept' = Kept \ {I}
<1>1. Kept = present /\ Kept' = Kept \ {I}
  BY FunctionFacts, InstAssumption DEF Kept, IInv, TypeOK
<1>2. UsersKept'
  <2>1. \A u \in present : Elems(operand[u]) \cap Inst \subseteq Kept \ {I}
    BY DEF IInv, UsersKept, TriviallyDead, UseEmpty
  <2>2. \A u \in present : operand[u] = function.operand[u]
    BY FunctionFacts, InstAssumption DEF IInv, UsersKept, TypeOK
  <2>3. function.effects \subseteq Kept \ {I}
    BY DEF IInv, UsersKept, TriviallyDead
  <2> QED
    BY <1>1, <2>1, <2>2, <2>3 DEF UsersKept, fixed
<1>3. Nulled'
  BY DEF Nulled
<1>4. OnlyUnwanted'
  <2>1. \A S \in SUBSET Code : Absorbs(S) => I \in S
    BY DeadIsUnwanted
  <2>2. \A S \in SUBSET Code : Absorbs(S) => Code \ (Kept \ {I}) \subseteq S
    BY <2>1 DEF IInv, OnlyUnwanted
  <2> QED
    BY <1>1, <2>2 DEF OnlyUnwanted, Absorbs, Code, fixed
<1>5. Reported'
  BY DEF IInv, Reported, Erased, Code, fixed
<1> QED
  BY <1>1, <1>2, <1>3, <1>4, <1>5

\* Dropping the head of the sweep, or the last entry of the worklist, when it
\* is not dead or is what gets deleted.
LEMMA StillListed ==
    ASSUME IInv, deleting = None, NEW I \in present, NEW rest,
           rest \cup {I} = Elems(WorkList) \cup Elems(left),
           pass = "dce" /\ ~counted => deleting' = I \/ ~TriviallyDead(I, operand) \/ I \in rest,
           rest \subseteq Elems(WorkList') \cup Elems(left'),
           deleting' \in {None, I},
           UNCHANGED << fixed, operand, present >>
    PROVE  DeadIsListed'
<1>1. Kept = present /\ Kept' = present \ {deleting'}
  BY FunctionFacts, InstAssumption DEF Kept, IInv, TypeOK
<1>2. SUFFICES ASSUME pass = "dce", ~counted, NEW x \in Kept', TriviallyDead(x, operand)
               PROVE  x \in Elems(WorkList') \cup Elems(left')
  BY DEF DeadIsListed, TriviallyDead, UseEmpty, fixed
<1>3. x \in rest \cup {I}
  BY <1>1, <1>2 DEF IInv, DeadIsListed
<1>4. x = I => x \in rest
  BY <1>1, <1>2
<1> QED
  BY <1>3, <1>4

LEMMA DieStep == IInv /\ die_visit => IInv'
<1> SUFFICES ASSUME IInv, die_visit PROVE IInv'
  OBVIOUS
<1> DEFINE I == Head(left)
<1>1. /\ left' = Tail(left) /\ UNCHANGED << fixed, operand, WorkList, deleting, next >>
      /\ pass = "die" /\ left # << >> /\ deleting = None /\ WorkList = << >>
  BY DEF die_visit, IInv, ListsKept
<1>2. /\ left' \in Seq(Inst) /\ I \in Inst
      /\ Elems(left) = Elems(left') \cup {I}
      /\ Distinct(left') /\ I \notin Elems(left')
  BY <1>1, ElemsTail DEF IInv, TypeOK, ListsKept
<1>3. /\ Code' = Code /\ Kept = present /\ I \in present
  BY <1>1, <1>2, FunctionFacts, InstAssumption DEF Kept, IInv, TypeOK, ListsKept, Code, fixed
<1>4. DeadIsListed' /\ Nulled'
  BY <1>1 DEF DeadIsListed, Nulled, fixed
<1>5. CASE present' = present /\ MadeChange' = MadeChange
  <2>1. Kept' = Kept
    BY <1>1, <1>5 DEF Kept
  <2>2. TypeOK'
    BY <1>1, <1>2, <1>3, <1>5 DEF TypeOK, IInv, fixed
  <2>3. UsersKept'
    BY <1>1, <1>5, <2>1 DEF UsersKept, IInv, fixed
  <2>4. ListsKept'
    BY <1>1, <1>2, <2>1 DEF ListsKept, IInv, fixed
  <2>5. OnlyUnwanted'
    BY <1>1, <1>3, <2>1 DEF OnlyUnwanted, Absorbs, IInv, fixed
  <2>6. Reported'
    BY <1>3, <1>5 DEF Reported, Erased, IInv
  <2> QED
    BY <1>4, <2>2, <2>3, <2>4, <2>5, <2>6 DEF IInv
<1>6. CASE TriviallyDead(I, operand) /\ present' = present \ {I} /\ MadeChange' = TRUE
  <2>1. Kept' = present'
    BY <1>1, <1>3, <1>6, FunctionFacts, InstAssumption DEF Kept, IInv, TypeOK
  <2>2. TypeOK'
    BY <1>1, <1>2, <1>3, <1>6 DEF TypeOK, IInv, fixed
  <2>3. UsersKept'
    <3>1. \A u \in present' : operand'[u] = function'.operand[u]
      BY <1>1, <1>6, <1>3 DEF UsersKept, IInv, fixed, Kept
    <3>2. \A u \in present' : Elems(operand'[u]) \cap Inst \subseteq Kept'
      BY <1>1, <1>3, <1>6, <2>1 DEF UsersKept, IInv, TriviallyDead, UseEmpty
    <3>3. function'.effects \subseteq Kept'
      BY <1>1, <1>3, <1>6, <2>1 DEF UsersKept, IInv, TriviallyDead, fixed
    <3> QED
      BY <3>1, <3>2, <3>3 DEF UsersKept
  <2>4. ListsKept'
    BY <1>1, <1>2, <1>3, <1>6, <2>1, ElemsEmpty DEF ListsKept, IInv, fixed
  <2>5. OnlyUnwanted'
    <3>1. \A S \in SUBSET Code : Absorbs(S) => I \in S
      BY <1>1, <1>3, <1>6, DeadIsUnwanted
    <3>2. \A S \in SUBSET Code : Absorbs(S) => Code \ Kept' \subseteq S
      BY <1>3, <1>6, <2>1, <3>1 DEF OnlyUnwanted, IInv
    <3> QED
      BY <1>1, <1>3, <3>2 DEF OnlyUnwanted, Absorbs, fixed
  <2>6. Reported'
    BY <1>3, <1>6, FunctionFacts DEF Reported, Erased, IInv, TypeOK
  <2> QED
    BY <1>4, <2>2, <2>3, <2>4, <2>5, <2>6 DEF IInv
<1> QED
  BY <1>5, <1>6 DEF die_visit

\* A call of DCEInstruction on an instruction taken off one of the lists.
LEMMA CallStep ==
    ASSUME IInv, deleting = None, pass = "dce", NEW I \in present, DCEInstruction(I),
           WorkList' \in Seq(Inst), left' \in Seq(Inst),
           Distinct(WorkList'), Distinct(left'),
           I \notin Elems(WorkList'), I \notin Elems(left'),
           Elems(WorkList) \cup Elems(left) = Elems(WorkList') \cup Elems(left') \cup {I},
           UNCHANGED << fixed, operand, present >>
    PROVE  IInv'
<1>1. /\ Code' = Code /\ Kept = present /\ None \notin present
  BY FunctionFacts, InstAssumption DEF Kept, IInv, TypeOK, Code, fixed
<1> DEFINE rest == Elems(WorkList') \cup Elems(left')
<1>2. rest \subseteq Kept /\ rest \subseteq Kept \ {I}
  BY DEF IInv, ListsKept
<1>3. CASE TriviallyDead(I, operand) /\ deleting' = I /\ next' = 1 /\ UNCHANGED MadeChange
  <2>1. UsersKept' /\ Nulled' /\ OnlyUnwanted' /\ Reported' /\ Kept' = Kept \ {I}
    BY <1>3, Starts
  <2>2. ListsKept'
    BY <1>2, <2>1 DEF ListsKept, fixed
  <2>3. DeadIsListed'
    BY <1>3, StillListed
  <2>4. TypeOK'
    <3>1. Len(operand[I]) \in Nat
      BY <1>1, LenProperties DEF IInv, TypeOK
    <3>2. 1 \in 1..(Len(operand[I]) + 1)
      BY <3>1
    <3> QED
      BY <1>1, <1>3, <3>2 DEF TypeOK, IInv, fixed
  <2> QED
    BY <2>1, <2>2, <2>3, <2>4 DEF IInv
<1>4. CASE /\ ~TriviallyDead(I, operand) \/ FALSE \in ShouldExecute
           /\ UNCHANGED << deleting, next, MadeChange >>
  <2>1. Kept' = Kept
    BY <1>4 DEF Kept
  <2>2. UsersKept' /\ Nulled'
    BY <1>4, <2>1 DEF UsersKept, Nulled, IInv, fixed
  <2>3. OnlyUnwanted' /\ Reported'
    BY <1>1, <1>4, <2>1 DEF OnlyUnwanted, Absorbs, Reported, Erased, IInv, fixed
  <2>4. ListsKept'
    BY <1>2, <2>1 DEF ListsKept, fixed
  <2>5. DeadIsListed'
    <3>1. ~counted => ~TriviallyDead(I, operand)
      BY <1>4 DEF ShouldExecute
    <3> QED
      BY <1>4, <3>1, StillListed
  <2>6. TypeOK'
    BY <1>1, <1>4 DEF TypeOK, IInv, fixed
  <2> QED
    BY <2>2, <2>3, <2>4, <2>5, <2>6 DEF IInv
<1> QED
  BY <1>3, <1>4 DEF DCEInstruction

LEMMA VisitStep == IInv /\ dce_visit => IInv'
<1> SUFFICES ASSUME IInv, dce_visit PROVE IInv'
  OBVIOUS
<1> DEFINE I == Head(left)
<1>1. /\ pass = "dce" /\ deleting = None /\ left # << >> /\ I \notin Elems(WorkList)
      /\ DCEInstruction(I) /\ left' = Tail(left)
      /\ UNCHANGED << fixed, operand, present, WorkList >>
  BY DEF dce_visit, Sweeping
<1>2. /\ left' \in Seq(Inst) /\ I \in Inst
      /\ Elems(left) = Elems(left') \cup {I}
      /\ Distinct(left') /\ I \notin Elems(left')
  BY <1>1, ElemsTail DEF IInv, TypeOK, ListsKept
<1>3. I \in present
  BY <1>2 DEF IInv, ListsKept, Kept
<1>4. WorkList' \in Seq(Inst) /\ Distinct(WorkList')
  BY <1>1 DEF IInv, TypeOK, ListsKept
<1>5. Elems(WorkList) \cup Elems(left) = Elems(WorkList') \cup Elems(left') \cup {I}
  BY <1>1, <1>2
<1> HIDE DEF I
<1> QED
  BY <1>1, <1>2, <1>3, <1>4, <1>5, CallStep

LEMMA PopStep == IInv /\ dce_pop => IInv'
<1> SUFFICES ASSUME IInv, dce_pop PROVE IInv'
  OBVIOUS
<1> DEFINE I == WorkList[Len(WorkList)]
<1>1. /\ pass = "dce" /\ deleting = None /\ WorkList # << >> /\ left = << >>
      /\ DCEInstruction(I) /\ WorkList' = SubSeq(WorkList, 1, Len(WorkList) - 1)
      /\ UNCHANGED << fixed, operand, present, left >>
  BY DEF dce_pop, Draining
<1>2. /\ WorkList' \in Seq(Inst) /\ I \in Inst
      /\ Elems(WorkList) = Elems(WorkList') \cup {I}
      /\ Distinct(WorkList') /\ I \notin Elems(WorkList')
  BY <1>1, ElemsFront DEF IInv, TypeOK, ListsKept
<1>3. I \in present
  BY <1>2 DEF IInv, ListsKept, Kept
<1>4. left' \in Seq(Inst) /\ Distinct(left') /\ I \notin Elems(left')
  BY <1>1, EmptySeq, ElemsEmpty
<1>5. Elems(WorkList) \cup Elems(left) = Elems(WorkList') \cup Elems(left') \cup {I}
  BY <1>1, <1>2, ElemsEmpty
<1> HIDE DEF I
<1> QED
  BY <1>1, <1>2, <1>3, <1>4, <1>5, CallStep

LEMMA SkipStep == IInv /\ dce_skip => IInv'
<1> SUFFICES ASSUME IInv, dce_skip PROVE IInv'
  OBVIOUS
<1> DEFINE I == Head(left)
<1>1. /\ pass = "dce" /\ deleting = None /\ left # << >> /\ I \in Elems(WorkList)
      /\ left' = Tail(left)
      /\ UNCHANGED << fixed, operand, present, WorkList, deleting, next, MadeChange >>
  BY DEF dce_skip, Sweeping
<1>2. /\ left' \in Seq(Inst) /\ I \in Inst
      /\ Elems(left) = Elems(left') \cup {I}
      /\ Distinct(left')
  BY <1>1, ElemsTail DEF IInv, TypeOK, ListsKept
<1>3. Kept' = Kept /\ Code' = Code
  BY <1>1 DEF Kept, Code, fixed
<1>4. Elems(WorkList') \cup Elems(left') = Elems(WorkList) \cup Elems(left)
  BY <1>1, <1>2
<1>5. TypeOK'
  BY <1>1, <1>2, <1>3 DEF TypeOK, IInv, fixed
<1>6. UsersKept' /\ Nulled'
  BY <1>1, <1>3 DEF UsersKept, Nulled, IInv, fixed
<1>7. OnlyUnwanted' /\ Reported'
  BY <1>1, <1>3 DEF OnlyUnwanted, Absorbs, Reported, Erased, IInv, fixed
<1>8. ListsKept'
  BY <1>1, <1>2, <1>3 DEF ListsKept, IInv, fixed
<1>9. DeadIsListed'
  BY <1>1, <1>3, <1>4 DEF DeadIsListed, TriviallyDead, UseEmpty, IInv, fixed
<1> QED
  BY <1>5, <1>6, <1>7, <1>8, <1>9 DEF IInv

LEMMA OperandStep == IInv /\ dce_operand => IInv'
<1> SUFFICES ASSUME IInv, dce_operand PROVE IInv'
  OBVIOUS
<1> DEFINE d == deleting
           ops == operand[d]
           OpV == ops[next]
           new == [ops EXCEPT ![next] = Null]
           nulled == [operand EXCEPT ![d] = new]
           S == Code \cup {Value, Null}
<1>1. /\ d # None /\ next <= Len(ops) /\ operand' = nulled /\ next' = next + 1
      /\ WorkList' = IF OpV \in Inst /\ OpV # d /\ TriviallyDead(OpV, nulled)
                     THEN Inserted(WorkList, OpV) ELSE WorkList
      /\ UNCHANGED << fixed, present, left, deleting, MadeChange >>
  BY DEF dce_operand
<1>2. /\ d \in present /\ present \subseteq Code /\ operand \in [Code -> Seq(S)] /\ next \in Nat
      /\ next \in 1..(Len(ops) + 1)
  BY <1>1 DEF IInv, TypeOK
<1>3. Code' = Code /\ Kept' = Kept /\ Code \subseteq Inst
  BY <1>1, <1>2, FunctionFacts DEF Code, Kept, fixed, IInv, TypeOK
<1>4. ops \in Seq(S) /\ Len(ops) \in Nat /\ next \in 1..Len(ops) /\ Null \in S
  BY <1>1, <1>2, LenProperties
<1> HIDE DEF S, ops
<1>5. /\ new \in Seq(S) /\ Len(new) = Len(ops)
      /\ \A k \in 1..Len(ops) : new[k] = IF k = next THEN Null ELSE ops[k]
      /\ Elems(new) \subseteq Elems(ops) \cup {Null}
      /\ \A y \in Elems(ops) : y # OpV => y \in Elems(new)
  <2>1. ops \in Seq(S)
    BY <1>4
  <2>2. next \in 1..Len(ops)
    BY <1>4
  <2>3. Null \in S
    BY <1>4
  <2>4. /\ [ops EXCEPT ![next] = Null] \in Seq(S)
        /\ Len([ops EXCEPT ![next] = Null]) = Len(ops)
        /\ \A k \in 1..Len(ops) : [ops EXCEPT ![next] = Null][k] = IF k = next THEN Null ELSE ops[k]
        /\ Elems([ops EXCEPT ![next] = Null]) \subseteq Elems(ops) \cup {Null}
        /\ \A y \in Elems(ops) : y # ops[next] => y \in Elems([ops EXCEPT ![next] = Null])
    BY <2>1, <2>2, <2>3, ElemsExcept
  <2> QED
    BY <2>4
<1>6. operand'[d] = new /\ \A u \in Code : u # d => operand'[u] = operand[u]
  <2> HIDE DEF new
  <2> QED BY <1>1, <1>2
<1>7. OpV \in Elems(ops)
  BY <1>4 DEF Elems
<1> HIDE DEF new, nulled, OpV
<1>8. TypeOK'
  <2>1. operand' \in [Code -> Seq(S)]
    BY <1>1, <1>2, <1>5 DEF nulled
  <2>2. next' \in Nat /\ next' \in 1..(Len(operand'[d]) + 1)
    BY <1>1, <1>2, <1>4, <1>5, <1>6
  <2>3. WorkList' \in Seq(Inst)
    BY <1>1, ElemsAppend DEF IInv, TypeOK, Inserted
  <2> QED
    BY <1>1, <1>3, <2>1, <2>2, <2>3 DEF TypeOK, IInv, fixed, S
<1>9. UsersKept'
  <2>1. \A u \in present : u # d => operand'[u] = function.operand[u]
    BY <1>2, <1>6 DEF IInv, UsersKept
  <2>2. \A u \in present : Elems(operand'[u]) \cap Inst \subseteq Kept
    <3>1. Elems(ops) \cap Inst \subseteq Kept
      BY <1>2 DEF IInv, UsersKept, ops
    <3>2. Elems(new) \cap Inst \subseteq Kept
      BY <1>5, <3>1, InstAssumption
    <3> QED
      BY <1>2, <1>6, <3>2 DEF IInv, UsersKept
  <2> QED
    BY <1>1, <1>3, <2>1, <2>2 DEF UsersKept, IInv, fixed
<1>10. ListsKept'
  <2>1. OpV \in Inst => OpV \in Kept
    BY <1>2, <1>7 DEF IInv, UsersKept, ops
  <2>2. Elems(WorkList') \subseteq Kept /\ Distinct(WorkList')
    BY <1>1, <2>1, ElemsAppend DEF IInv, TypeOK, ListsKept, Inserted
  <2> QED
    BY <1>1, <1>3, <2>2 DEF ListsKept, IInv, fixed
<1>11. Nulled'
  <2> SUFFICES ASSUME NEW k \in 1..(next' - 1) PROVE operand'[d][k] = Null
    BY <1>1 DEF Nulled
  <2>1. k \in 1..Len(ops) /\ (k = next \/ k \in 1..(next - 1))
    BY <1>1, <1>2, <1>4
  <2>2. k \in 1..(next - 1) => ops[k] = Null
    BY <1>1 DEF IInv, Nulled, ops
  <2> QED
    BY <1>5, <1>6, <2>1, <2>2
<1>12. DeadIsListed'
  <2> SUFFICES ASSUME pass = "dce", ~counted, NEW x \in Kept, TriviallyDead(x, operand)'
               PROVE  x \in Elems(WorkList') \cup Elems(left)
    BY <1>1, <1>3 DEF DeadIsListed, TriviallyDead, UseEmpty, fixed
  <2>1. x \notin function.effects /\ \A u \in present : x \notin Elems(operand'[u])
    BY <1>1 DEF TriviallyDead, UseEmpty, fixed
  <2>2. x \in Inst /\ x # d
    BY <1>2, <1>3 DEF Kept
  <2>3. Elems(WorkList) \subseteq Elems(WorkList')
    BY <1>1, ElemsAppend DEF IInv, TypeOK, Inserted
  <2>4. CASE TriviallyDead(x, operand)
    BY <2>3, <2>4 DEF IInv, DeadIsListed
  <2>5. CASE ~TriviallyDead(x, operand)
    <3>1. PICK u \in present : x \in Elems(operand[u])
      BY <2>1, <2>5 DEF TriviallyDead, UseEmpty
    <3>2. u = d
      BY <1>2, <1>6, <2>1, <3>1
    <3>3. x = OpV
      BY <1>2, <1>5, <1>6, <2>1, <3>1, <3>2 DEF ops
    <3>4. TriviallyDead(OpV, nulled)
      BY <1>1, <2>1, <3>3 DEF TriviallyDead, UseEmpty
    <3>5. WorkList' = Inserted(WorkList, x)
      BY <1>1, <2>2, <3>3, <3>4
    <3>6. x \in Elems(WorkList')
      BY <2>2, <3>5, ElemsAppend DEF IInv, TypeOK, Inserted
    <3> QED
      BY <3>6
  <2> QED
    BY <2>4, <2>5
<1>13. OnlyUnwanted' /\ Reported'
  BY <1>1, <1>3 DEF OnlyUnwanted, Absorbs, Reported, Erased, IInv, fixed
<1> QED
  BY <1>8, <1>9, <1>10, <1>11, <1>12, <1>13 DEF IInv

LEMMA EraseStep == IInv /\ dce_erase => IInv'
<1> SUFFICES ASSUME IInv, dce_erase PROVE IInv'
  OBVIOUS
<1> DEFINE d == deleting
<1>1. /\ d # None /\ next > Len(operand[d]) /\ present' = present \ {d}
      /\ deleting' = None /\ MadeChange' = TRUE
      /\ UNCHANGED << fixed, operand, left, WorkList, next >>
  BY DEF dce_erase
<1>2. d \in present /\ present \subseteq Code /\ next \in 1..(Len(operand[d]) + 1)
  BY <1>1 DEF IInv, TypeOK
<1>3. Code' = Code /\ Code \subseteq Inst /\ None \notin Code
  BY <1>1, FunctionFacts, InstAssumption DEF Code, fixed, IInv, TypeOK
<1>4. Kept' = Kept /\ Kept = present'
  BY <1>1, <1>2, <1>3 DEF Kept
<1>5. \A k \in 1..Len(operand[d]) : operand[d][k] = Null
  <2>1. Len(operand[d]) \in Nat
    BY <1>2, LenProperties DEF IInv, TypeOK
  <2>2. \A k \in 1..Len(operand[d]) : k \in 1..(next - 1)
    BY <1>1, <1>2, <2>1
  <2> QED
    BY <1>1, <2>2 DEF IInv, Nulled
<1>6. TypeOK'
  BY <1>1, <1>2, <1>3 DEF TypeOK, IInv, fixed
<1>7. UsersKept'
  BY <1>1, <1>4 DEF UsersKept, IInv, fixed, Kept
<1>8. ListsKept'
  BY <1>1, <1>4 DEF ListsKept, IInv, fixed
<1>9. Nulled'
  BY <1>1 DEF Nulled
<1>10. DeadIsListed'
  <2> SUFFICES ASSUME pass = "dce", ~counted, NEW x \in Kept, TriviallyDead(x, operand)'
               PROVE  x \in Elems(WorkList) \cup Elems(left)
    BY <1>1, <1>4 DEF DeadIsListed, TriviallyDead, UseEmpty, fixed
  <2>1. x \notin Elems(operand[d])
    BY <1>2, <1>3, <1>5, InstAssumption DEF Elems, Kept
  <2>2. TriviallyDead(x, operand)
    BY <1>1, <2>1 DEF TriviallyDead, UseEmpty, fixed
  <2> QED
    BY <2>2 DEF IInv, DeadIsListed
<1>11. OnlyUnwanted'
  BY <1>1, <1>3, <1>4 DEF OnlyUnwanted, Absorbs, IInv, fixed
<1>12. Reported'
  BY <1>1, <1>2, <1>3 DEF Reported, Erased
<1> QED
  BY <1>6, <1>7, <1>8, <1>9, <1>10, <1>11, <1>12 DEF IInv

LEMMA StutterStep == IInv /\ UNCHANGED vars => IInv'
<1> SUFFICES ASSUME IInv, UNCHANGED vars PROVE IInv'
  OBVIOUS
<1>1. Kept' = Kept /\ Code' = Code
  BY DEF vars, Kept, Code
<1>2. TypeOK'
  BY <1>1 DEF IInv, TypeOK, vars
<1>3. UsersKept' /\ Nulled'
  BY <1>1 DEF IInv, UsersKept, Nulled, vars
<1>4. ListsKept'
  BY <1>1 DEF IInv, ListsKept, vars
<1>5. DeadIsListed'
  BY <1>1 DEF IInv, DeadIsListed, TriviallyDead, UseEmpty, vars
<1>6. OnlyUnwanted' /\ Reported'
  BY <1>1 DEF IInv, OnlyUnwanted, Absorbs, Reported, Erased, vars
<1> QED
  BY <1>2, <1>3, <1>4, <1>5, <1>6 DEF IInv

LEMMA NextInv == IInv /\ [Next]_vars => IInv'
  BY DieStep, VisitStep, SkipStep, PopStep, OperandStep, EraseStep, StutterStep DEF Next, Run

LEMMA InvHolds == Spec => []IInv
  BY InitInv, NextInv, PTL DEF Spec

-----------------------------------------------------------------------------
(* The theorems.                                                           *)

\* The passes keep their variables in their types.
THEOREM TypeCorrect == Spec => []TypeOK
<1>1. IInv => TypeOK
  BY DEF IInv
<1> QED
  BY <1>1, InvHolds, PTL

\* No pointer in the worklist, in the iteration or among the operands is to a
\* deleted instruction, for any function.
THEOREM NoDanglingPointer == Spec => []NothingDangles
<1>1. IInv => NothingDangles
  BY DEF IInv, NothingDangles, UsersKept, ListsKept, Kept
<1> QED
  BY <1>1, InvHolds, PTL

\* Neither pass ever deletes an instruction that an effect depends on.
THEOREM EffectsKeepTheirOperands == Spec => []NeededKept
<1>1. IInv => NeededKept
  <2> SUFFICES ASSUME IInv PROVE NeededKept
    OBVIOUS
  <2>1. present \subseteq Code /\ Code \subseteq Inst
    BY FunctionFacts DEF IInv, TypeOK
  <2>2. Kept \in SUBSET Code /\ Kept \subseteq present
    BY <2>1 DEF Kept
  <2>3. Supports(Kept)
    BY <2>1 DEF Supports, IInv, UsersKept, Kept
  <2> QED
    BY <2>2, <2>3 DEF NeededKept, Needed
<1> QED
  BY <1>1, InvHolds, PTL

\* -dce deletes exactly what repeated deletion of unused instructions deletes:
\* the order of the blocks, of the operands and of the worklist does not matter.
THEOREM ResultIsExact == Spec => []OrderIndependent
<1>1. IInv => OrderIndependent
  <2> SUFFICES ASSUME IInv PROVE OrderIndependent
    OBVIOUS
  <2>1. present \subseteq Code /\ Code \subseteq Inst /\ None \notin Inst
    BY FunctionFacts, InstAssumption DEF IInv, TypeOK
  <2>2. Erased \subseteq Unwanted
    BY <2>1 DEF IInv, OnlyUnwanted, Erased, Unwanted, Kept
  <2>3. ASSUME Finished, pass = "dce", ~counted PROVE Unwanted \subseteq Erased
    <3>1. Kept = present
      BY <2>1, <2>3 DEF Finished, Kept
    <3>2. \A x \in present : ~TriviallyDead(x, operand)
      BY <2>3, <3>1, ElemsEmpty DEF IInv, DeadIsListed, Finished
    <3>3. \A u \in present : operand[u] = function.operand[u]
      BY <2>1, <2>3 DEF IInv, UsersKept, Finished
    <3>4. Absorbs(Erased)
      BY <2>1, <3>2, <3>3 DEF Absorbs, Erased, TriviallyDead, UseEmpty
    <3>5. Erased \in SUBSET Code
      BY DEF Erased
    <3> QED
      BY <3>4, <3>5 DEF Unwanted
  <2> QED
    BY <2>2, <2>3 DEF OrderIndependent
<1> QED
  BY <1>1, InvHolds, PTL

\* The passes report a change exactly when they made one.
THEOREM AnswerIsTrue == Spec => []ChangeReported
<1>1. IInv => ChangeReported
  BY DEF IInv, ChangeReported, Reported
<1> QED
  BY <1>1, InvHolds, PTL
=============================================================================
