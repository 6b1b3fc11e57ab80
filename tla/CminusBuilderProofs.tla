------------------------ MODULE CminusBuilderProofs ------------------------
(***************************************************************************)
(* Proofs about CminusBuilder, for every set of programs.                  *)
(***************************************************************************)
EXTENDS CminusBuilder, SharedLemmas, FiniteSetTheorems

-----------------------------------------------------------------------------
(* The stack of handlers.                                                  *)

LEMMA TopAndPopped ==
    ASSUME stack \in Seq(Frame), stack # << >>
    PROVE  /\ Len(stack) \in Nat /\ Len(stack) > 0
           /\ Top \in Frame
           /\ Popped \in Seq(Frame)
           /\ Len(Popped) = Len(stack) - 1
           /\ \A k \in 1..(Len(stack) - 1) : Popped[k] = stack[k]
<1>1. Len(stack) \in Nat /\ Len(stack) > 0
  BY EmptySeq, LenProperties
<1>2. Top \in Frame
  BY <1>1, ElementOfSeq DEF Top
<1>3. /\ Popped \in Seq(Frame)
      /\ Len(Popped) = Len(stack) - 1
      /\ \A k \in 1..(Len(stack) - 1) : Popped[k] = stack[k]
  BY <1>1, FrontProperties DEF Popped
<1> QED
  BY <1>1, <1>2, <1>3

\* The innermost handler moves on.
LEMMA Replaced ==
    ASSUME stack \in Seq(Frame), stack # << >>, NEW f \in Frame
    PROVE  /\ Append(Popped, f) \in Seq(Frame)
           /\ Len(Append(Popped, f)) = Len(stack)
           /\ \A k \in 1..(Len(stack) - 1) : Append(Popped, f)[k] = stack[k]
           /\ Append(Popped, f)[Len(stack)] = f
<1> DEFINE n == Len(stack)
           p == Popped
<1>1. /\ n \in Nat /\ n > 0
      /\ p \in Seq(Frame) /\ Len(p) = n - 1
      /\ \A k \in 1..(n - 1) : p[k] = stack[k]
  BY TopAndPopped
<1> HIDE DEF n, p
<1>2. /\ Append(p, f) \in Seq(Frame)
      /\ Len(Append(p, f)) = Len(p) + 1
      /\ \A k \in 1..Len(p) : Append(p, f)[k] = p[k]
      /\ Append(p, f)[Len(p) + 1] = f
  BY <1>1, AppendProperties
<1>3. Len(p) + 1 = n
  BY <1>1
<1> QED
  BY <1>1, <1>2, <1>3 DEF n, p

LEMMA HandlerType == ASSUME NEW s \in Stmt PROVE Handler(s) \in Frame
<1>1. s.subscripts \in Nat
  BY StmtAssumption DEF IsStmt
<1> QED
  BY <1>1 DEF Handler, Frame

\* The innermost handler moves on and calls accept on a child.
LEMMA Called ==
    ASSUME stack \in Seq(Frame), stack # << >>, NEW f \in Frame, NEW s \in Stmt
    PROVE  /\ Call(f, s) \in Seq(Frame)
           /\ Len(Call(f, s)) = Len(stack) + 1
           /\ \A k \in 1..(Len(stack) - 1) : Call(f, s)[k] = stack[k]
           /\ Call(f, s)[Len(stack)] = f
           /\ Call(f, s)[Len(stack) + 1] = Handler(s)
<1> DEFINE n == Len(stack)
           r == Append(Popped, f)
           h == Handler(s)
<1>1. /\ n \in Nat /\ n > 0
      /\ r \in Seq(Frame) /\ Len(r) = n
      /\ \A k \in 1..(n - 1) : r[k] = stack[k]
      /\ r[n] = f
      /\ h \in Frame
  BY TopAndPopped, Replaced, HandlerType
<1> HIDE DEF n, r, h
<1>2. /\ Append(r, h) \in Seq(Frame)
      /\ Len(Append(r, h)) = n + 1
      /\ \A k \in 1..n : Append(r, h)[k] = r[k]
      /\ Append(r, h)[n + 1] = h
  BY <1>1, AppendProperties
<1>3. \A k \in 1..(n - 1) : Append(r, h)[k] = stack[k]
  BY <1>1, <1>2
<1>4. Append(r, h)[n] = f
  BY <1>1, <1>2
<1> QED
  BY <1>2, <1>3, <1>4 DEF n, r, h, Call

-----------------------------------------------------------------------------
(* Basic blocks.                                                           *)

Code == Seq(Item)

LEMMA Emitted ==
    ASSUME NEW c \in Seq(Code), NEW b \in 1..Len(c), NEW i \in Item
    PROVE  /\ Emit(c, b, i) \in Seq(Code)
           /\ Len(Emit(c, b, i)) = Len(c)
           /\ \A k \in 1..Len(c) : k # b => Emit(c, b, i)[k] = c[k]
           /\ Emit(c, b, i)[b] = Append(c[b], i)
<1> DEFINE new == Append(c[b], i)
<1>1. new \in Code
  BY ElementOfSeq, AppendProperties DEF Code
<1> HIDE DEF new
<1>2. /\ [c EXCEPT ![b] = new] \in Seq(Code)
      /\ Len([c EXCEPT ![b] = new]) = Len(c)
      /\ \A k \in 1..Len(c) : [c EXCEPT ![b] = new][k] = IF k = b THEN new ELSE c[k]
  BY <1>1, ExceptSeq
<1> QED
  BY <1>2 DEF Emit, new

LEMMA Created ==
    ASSUME NEW c \in Seq(Code), NEW code \in Code
    PROVE  /\ Append(c, code) \in Seq(Code)
           /\ Len(Append(c, code)) = Len(c) + 1
           /\ \A k \in 1..Len(c) : Append(c, code)[k] = c[k]
           /\ Append(c, code)[Len(c) + 1] = code
  BY AppendProperties

LEMMA EmptyCode == << >> \in Code
  BY EmptySeq DEF Code

\* Emitting into an open block keeps it open, or ends it.
LEMMA OpenBlock ==
    ASSUME NEW code \in Code, ~HasTerminator(code), NEW i \in Item
    PROVE  /\ IsTerminator(i) => WellFormed(Append(code, i))
           /\ ~IsTerminator(i) => ~HasTerminator(Append(code, i))
<1> DEFINE n == Len(code)
           d == Append(code, i)
<1>1. /\ n \in Nat /\ d # << >> /\ Len(d) = n + 1
      /\ \A k \in 1..n : d[k] = code[k]
      /\ d[n + 1] = i
  BY AppendProperties, LenProperties DEF Code
<1>2. \A k \in 1..n : ~IsTerminator(code[k])
  BY DEF HasTerminator
<1> HIDE DEF n, d
<1>3. \A k \in 1..n : ~IsTerminator(d[k])
  BY <1>1, <1>2
<1>4. n + 1 - 1 = n /\ \A k \in 1..(n + 1) : k \in 1..n \/ k = n + 1
  BY <1>1
<1>5. ASSUME IsTerminator(i) PROVE WellFormed(d)
  <2>1. \A k \in 1..(Len(d) - 1) : ~IsTerminator(d[k])
    BY <1>1, <1>3, <1>4
  <2> QED
    BY <1>1, <1>5, <2>1 DEF WellFormed
<1>6. ASSUME ~IsTerminator(i) PROVE ~HasTerminator(d)
  BY <1>1, <1>3, <1>4, <1>6 DEF HasTerminator
<1> QED
  BY <1>5, <1>6 DEF d

LEMMA EmptyIsOpen == ~HasTerminator(<< >>)
  BY DEF HasTerminator

LEMMA WellFormedTerminates ==
    ASSUME NEW code \in Code, WellFormed(code) PROVE HasTerminator(code)
<1>1. Len(code) \in 1..Len(code)
  BY EmptySeq, LenProperties DEF WellFormed, Code
<1> QED
  BY <1>1 DEF WellFormed, HasTerminator
LEMMA EmitType ==
    ASSUME NEW c \in Seq(Code), NEW b, NEW i \in Item
    PROVE  Emit(c, b, i) \in Seq(Code) /\ Len(Emit(c, b, i)) = Len(c)
<1>1. CASE b \in 1..Len(c)
  BY <1>1, Emitted
<1>2. CASE b \notin 1..Len(c)
  <2>1. DOMAIN c = 1..Len(c)
    BY LenProperties
  <2>2. Emit(c, b, i) = c
    BY <1>2, <2>1 DEF Emit
  <2> QED
    BY <2>2
<1> QED
  BY <1>1, <1>2

\* Op is a long set of names, and these facts are what is used of it.
LEMMA OpTypes ==
    /\ "effect" \in Op /\ "alloca" \in Op /\ "store" \in Op /\ "stray_store" \in Op
    /\ "neg_idx_except" \in Op /\ "br" \in Op /\ "condbr" \in Op /\ "check" \in Op /\ "ret" \in Op
    /\ Arity("effect") = 0 /\ Arity("alloca") = 0 /\ Arity("store") = 0 /\ Arity("stray_store") = 0
    /\ Arity("neg_idx_except") = 0 /\ Arity("ret") = 0
    /\ Arity("br") = 1 /\ Arity("condbr") = 2 /\ Arity("check") = 2
  BY DEF Op, Arity

LEMMA ItemTypes ==
    /\ Ret \in Item /\ Alloca \in Item
    /\ \A tag \in Tag : Effect(tag) \in Item /\ StoreResult(tag) \in Item /\ CallExcept(tag) \in Item
    /\ \A tag \in Tag : StrayStore(tag) \in Item /\ ResultStore(tag) \in Item
    /\ \A tag \in Tag, b \in Nat : Br(tag, b) \in Item
    /\ \A tag \in Tag, b \in Nat, c \in Nat : CondBr(tag, b, c) \in Item /\ CheckBr(tag, b, c) \in Item
<1>1. << >> \in Seq(Nat) /\ (\A b \in Nat : << b >> \in Seq(Nat))
      /\ (\A b \in Nat, c \in Nat : << b, c >> \in Seq(Nat))
      /\ Len(<< >>) = 0 /\ (\A b \in Nat : Len(<< b >>) = 1)
      /\ (\A b \in Nat, c \in Nat : Len(<< b, c >>) = 2)
  OBVIOUS
<1>2. Ret \in Item /\ Alloca \in Item
  BY <1>1, OpTypes DEF Ret, Alloca, Item
<1>3. \A tag \in Tag : Effect(tag) \in Item /\ StoreResult(tag) \in Item /\ CallExcept(tag) \in Item
  BY <1>1, OpTypes DEF Effect, StoreResult, CallExcept, Item
<1>4. \A tag \in Tag : StrayStore(tag) \in Item
  BY <1>1, OpTypes DEF StrayStore, Item
<1>5. \A tag \in Tag, b \in Nat : Br(tag, b) \in Item
  BY <1>1, OpTypes DEF Br, Item
<1>6. \A tag \in Tag, b \in Nat, c \in Nat : CondBr(tag, b, c) \in Item /\ CheckBr(tag, b, c) \in Item
  BY <1>1, OpTypes DEF CondBr, CheckBr, Item
<1>7. \A tag \in Tag : ResultStore(tag) \in Item
  BY <1>3, <1>4 DEF ResultStore
<1> QED
  BY <1>2, <1>3, <1>4, <1>5, <1>6, <1>7

LEMMA Terminators ==
    /\ IsTerminator(Ret) /\ ~IsTerminator(Alloca)
    /\ \A tag : ~IsTerminator(Effect(tag)) /\ ~IsTerminator(StoreResult(tag)) /\ ~IsTerminator(CallExcept(tag))
    /\ \A tag : ~IsTerminator(StrayStore(tag)) /\ ~IsTerminator(ResultStore(tag))
    /\ \A tag, b : IsTerminator(Br(tag, b))
    /\ \A tag, b, c : IsTerminator(CondBr(tag, b, c)) /\ IsTerminator(CheckBr(tag, b, c))
  BY DEF IsTerminator, Ret, Alloca, Effect, StoreResult, StrayStore, ResultStore, CallExcept, Br, CondBr, CheckBr

-----------------------------------------------------------------------------
(* Scopes.                                                                 *)

LEMMA ScopeMapIs ==
    ASSUME NEW m PROVE m \in ScopeMap <=> \E N \in SUBSET Name : m \in [N -> Binding]
  BY DEF ScopeMap

LEMMA PushedType ==
    ASSUME NEW s \in Seq(ScopeMap), Len(s) > 0, NEW n \in Name, NEW b \in Binding
    PROVE  /\ Pushed(s, n, b) \in Seq(ScopeMap)
           /\ Len(Pushed(s, n, b)) = Len(s)
           /\ \A k \in 1..(Len(s) - 1) : Pushed(s, n, b)[k] = s[k]
           /\ \A m \in DOMAIN Pushed(s, n, b)[Len(s)] :
                 Pushed(s, n, b)[Len(s)][m] = b \/ (m \in DOMAIN s[Len(s)] /\ Pushed(s, n, b)[Len(s)][m] = s[Len(s)][m])
<1> DEFINE d == Len(s)
           top == s[d]
           new == [m \in DOMAIN top \cup {n} |-> IF m = n THEN b ELSE top[m]]
<1>1. d \in Nat /\ d \in 1..d /\ top \in ScopeMap
  BY LenProperties, ElementOfSeq
<1>2. PICK N \in SUBSET Name : top \in [N -> Binding]
  BY <1>1, ScopeMapIs
<1>3. new \in [N \cup {n} -> Binding] /\ N \cup {n} \in SUBSET Name
  BY <1>2
<1>4. new \in ScopeMap
  BY <1>3, ScopeMapIs
<1>5. \A m \in DOMAIN new : new[m] = b \/ (m \in DOMAIN top /\ new[m] = top[m])
  OBVIOUS
<1> HIDE DEF new, top, d
<1>6. /\ [s EXCEPT ![d] = new] \in Seq(ScopeMap)
      /\ Len([s EXCEPT ![d] = new]) = Len(s)
      /\ \A k \in 1..Len(s) : [s EXCEPT ![d] = new][k] = IF k = d THEN new ELSE s[k]
  BY <1>1, <1>4, ExceptSeq DEF d
<1>7. Pushed(s, n, b) = s \/ Pushed(s, n, b) = [s EXCEPT ![d] = new]
  BY DEF Pushed, Innermost, new, top, d
<1>8. CASE Pushed(s, n, b) = s
  BY <1>8
<1>9. CASE Pushed(s, n, b) = [s EXCEPT ![d] = new]
  <2>1. \A k \in 1..(d - 1) : k \in 1..d /\ k # d
    BY <1>1
  <2>2. [s EXCEPT ![d] = new][d] = new
    BY <1>1, <1>6 DEF d
  <2>3. \A k \in 1..(d - 1) : [s EXCEPT ![d] = new][k] = s[k]
    BY <1>6, <2>1 DEF d
  <2> QED
    BY <1>5, <1>6, <1>9, <2>2, <2>3 DEF d, top
<1> QED
  BY <1>7, <1>8, <1>9

LEMMA PushedAllType ==
    ASSUME NEW s \in Seq(ScopeMap), Len(s) > 0, NEW names \in Seq(Name), NEW b \in Binding
    PROVE  /\ PushedAll(s, names, b) \in Seq(ScopeMap)
           /\ Len(PushedAll(s, names, b)) = Len(s)
           /\ \A k \in 1..(Len(s) - 1) : PushedAll(s, names, b)[k] = s[k]
           /\ s[Len(s)] = << >> => \A i \in DOMAIN names :
                 /\ names[i] \in DOMAIN PushedAll(s, names, b)[Len(s)]
                 /\ PushedAll(s, names, b)[Len(s)][names[i]] = b
<1> DEFINE d == Len(s)
           top == s[d]
           declared == DOMAIN top \cup { names[i] : i \in DOMAIN names }
           new == [m \in declared |-> IF m \in DOMAIN top THEN top[m] ELSE b]
<1>1. d \in Nat /\ d \in 1..d /\ top \in ScopeMap
  BY LenProperties, ElementOfSeq
<1>2. PICK N \in SUBSET Name : top \in [N -> Binding]
  BY <1>1, ScopeMapIs
<1>3. \A i \in DOMAIN names : names[i] \in Name
  BY LenProperties, ElementOfSeq
<1>4. declared \in SUBSET Name /\ DOMAIN top = N
  BY <1>2, <1>3
<1>5. new \in [declared -> Binding]
  BY <1>2, <1>4
<1>6. new \in ScopeMap
  BY <1>4, <1>5, ScopeMapIs
<1>7. top = << >> => \A i \in DOMAIN names : names[i] \in DOMAIN new /\ new[names[i]] = b
  OBVIOUS
<1>8. PushedAll(s, names, b) = [s EXCEPT ![d] = new]
  BY DEF PushedAll, Innermost
<1> HIDE DEF new, top, d
<1>9. /\ [s EXCEPT ![d] = new] \in Seq(ScopeMap)
      /\ Len([s EXCEPT ![d] = new]) = Len(s)
      /\ \A k \in 1..Len(s) : [s EXCEPT ![d] = new][k] = IF k = d THEN new ELSE s[k]
  BY <1>1, <1>6, ExceptSeq DEF d
<1>10. \A k \in 1..(d - 1) : k \in 1..d /\ k # d
  BY <1>1
<1>11. [s EXCEPT ![d] = new][d] = new
  BY <1>1, <1>9 DEF d
<1>12. \A k \in 1..(d - 1) : [s EXCEPT ![d] = new][k] = s[k]
  BY <1>9, <1>10 DEF d
<1> QED
  BY <1>7, <1>8, <1>9, <1>11, <1>12 DEF d, top

LEMMA EnteredType ==
    ASSUME NEW s \in Seq(ScopeMap)
    PROVE  /\ Entered(s) \in Seq(ScopeMap)
           /\ Len(Entered(s)) = Len(s) + 1
           /\ \A k \in 1..Len(s) : Entered(s)[k] = s[k]
           /\ Entered(s)[Len(s) + 1] = << >>
<1>1. << >> \in [{} -> Binding] /\ {} \in SUBSET Name
  OBVIOUS
<1>2. << >> \in ScopeMap
  BY <1>1, ScopeMapIs
<1> QED
  BY <1>2, AppendProperties DEF Entered

LEMMA ExitedType ==
    ASSUME NEW s \in Seq(ScopeMap), Len(s) > 0
    PROVE  /\ Exited(s) \in Seq(ScopeMap)
           /\ Len(Exited(s)) = Len(s) - 1
           /\ \A k \in 1..(Len(s) - 1) : Exited(s)[k] = s[k]
  BY FrontProperties DEF Exited

-----------------------------------------------------------------------------
(* The compound statements in progress.                                    *)

InScopeOf(t) == { k \in DOMAIN t : t[k].pc = "list" }

LEMMA InScopeFinite ==
    ASSUME NEW t \in Seq(Frame)
    PROVE  /\ IsFiniteSet(InScopeOf(t))
           /\ Cardinality(InScopeOf(t)) \in Nat
           /\ InScopeOf(t) = { k \in 1..Len(t) : t[k].pc = "list" }
<1>1. Len(t) \in Nat /\ DOMAIN t = 1..Len(t)
  BY LenProperties
<1>2. IsFiniteSet(1..Len(t))
  BY <1>1, FS_Interval
<1>3. InScopeOf(t) = { k \in 1..Len(t) : t[k].pc = "list" }
  BY <1>1 DEF InScopeOf
<1>4. IsFiniteSet(InScopeOf(t))
  BY <1>2, <1>3, FS_Subset
<1> QED
  BY <1>3, <1>4, FS_CardinalityType

\* A handler that moves on, or calls another one, opens and closes no scope.
LEMMA SameScopes ==
    ASSUME NEW t \in Seq(Frame), NEW u \in Seq(Frame), Len(t) > 0,
           \A k \in 1..(Len(t) - 1) : u[k] = t[k],
           u[Len(t)].pc = "list" <=> t[Len(t)].pc = "list",
           Len(u) = Len(t) \/ (Len(u) = Len(t) + 1 /\ u[Len(t) + 1].pc # "list")
    PROVE  InScopeOf(u) = InScopeOf(t)
<1> DEFINE n == Len(t)
           m == Len(u)
<1>1. n \in Nat /\ m \in Nat /\ n > 0
  BY LenProperties
<1>2. InScopeOf(t) = { k \in 1..n : t[k].pc = "list" } /\ InScopeOf(u) = { k \in 1..m : u[k].pc = "list" }
  BY InScopeFinite
<1>3. /\ \A k \in 1..(n - 1) : u[k] = t[k]
      /\ u[n].pc = "list" <=> t[n].pc = "list"
      /\ m = n \/ (m = n + 1 /\ u[n + 1].pc # "list")
  OBVIOUS
<1> HIDE DEF n, m
<1>4. \A k \in 1..n : u[k].pc = "list" <=> t[k].pc = "list"
  <2>1. \A k \in 1..n : k \in 1..(n - 1) \/ k = n
    BY <1>1
  <2> QED
    BY <1>3, <2>1
<1>5. CASE m = n
  BY <1>2, <1>4, <1>5
<1>6. CASE m = n + 1 /\ u[n + 1].pc # "list"
  <2>1. \A k : k \in 1..(n + 1) <=> k \in 1..n \/ k = n + 1
    BY <1>1
  <2>2. \A k : (k \in 1..(n + 1) /\ u[k].pc = "list") <=> (k \in 1..n /\ t[k].pc = "list")
    BY <1>4, <1>6, <2>1
  <2> QED
    BY <1>2, <1>6, <2>2
<1> QED
  BY <1>3, <1>5, <1>6

\* The innermost handler returns.
LEMMA FewerScopes ==
    ASSUME NEW t \in Seq(Frame), NEW u \in Seq(Frame), Len(t) > 0,
           \A k \in 1..(Len(t) - 1) : u[k] = t[k],
           Len(u) = Len(t) - 1
    PROVE  /\ t[Len(t)].pc # "list" => InScopeOf(u) = InScopeOf(t)
           /\ t[Len(t)].pc = "list" =>
                 Cardinality(InScopeOf(u)) = Cardinality(InScopeOf(t)) - 1
<1> DEFINE n == Len(t)
           m == Len(u)
<1>1. n \in Nat /\ n > 0 /\ m = n - 1 /\ n \in 1..n
  BY LenProperties
<1>2. InScopeOf(t) = { k \in 1..n : t[k].pc = "list" } /\ InScopeOf(u) = { k \in 1..m : u[k].pc = "list" }
  BY InScopeFinite
<1>3. \A k \in 1..m : u[k] = t[k]
  BY <1>1
<1> HIDE DEF n, m
<1>4. \A k : k \in 1..m <=> k \in 1..n /\ k # n
  BY <1>1
<1>5. InScopeOf(u) = InScopeOf(t) \ {n}
  BY <1>2, <1>3, <1>4
<1>6. CASE t[n].pc # "list"
  <2>1. n \notin InScopeOf(t)
    BY <1>2, <1>6
  <2> QED
    BY <1>5, <1>6, <2>1 DEF n
<1>7. CASE t[n].pc = "list"
  <2>1. n \in InScopeOf(t)
    BY <1>1, <1>2, <1>7
  <2>2. IsFiniteSet(InScopeOf(t))
    BY InScopeFinite
  <2>3. Cardinality(InScopeOf(t) \ {n}) = Cardinality(InScopeOf(t)) - 1
    BY <2>1, <2>2, FS_RemoveElement
  <2> QED
    BY <1>5, <1>7, <2>3 DEF n
<1> QED
  BY <1>6, <1>7

\* A compound statement opens its scope.
LEMMA OneMoreScope ==
    ASSUME NEW t \in Seq(Frame), NEW u \in Seq(Frame), Len(t) > 0,
           \A k \in 1..(Len(t) - 1) : u[k] = t[k],
           Len(u) = Len(t), u[Len(t)].pc = "list", t[Len(t)].pc # "list"
    PROVE  Cardinality(InScopeOf(u)) = Cardinality(InScopeOf(t)) + 1
<1> DEFINE n == Len(t)
<1>1. n \in Nat /\ n > 0 /\ Len(u) = n /\ n \in 1..n
  BY LenProperties
<1>2. InScopeOf(t) = { k \in 1..n : t[k].pc = "list" } /\ InScopeOf(u) = { k \in 1..n : u[k].pc = "list" }
  BY <1>1, InScopeFinite
<1>3. /\ \A k \in 1..(n - 1) : u[k] = t[k]
      /\ u[n].pc = "list" /\ t[n].pc # "list"
  OBVIOUS
<1> HIDE DEF n
<1>4. \A k \in 1..n : k \in 1..(n - 1) \/ k = n
  BY <1>1
<1>5. InScopeOf(u) = InScopeOf(t) \cup {n}
  BY <1>1, <1>2, <1>3, <1>4
<1>6. n \notin InScopeOf(t)
  BY <1>2, <1>3
<1>7. IsFiniteSet(InScopeOf(t))
  BY InScopeFinite
<1> QED
  BY <1>5, <1>6, <1>7, FS_AddElement

-----------------------------------------------------------------------------
(* The inductive invariant.                                                *)

PlainInv ==
    /\ todo \in Seq(Decl)
    /\ phase \in {"decls", "body", "crashed"}
    /\ is_returned \in BOOLEAN
    /\ is_returned_record \in BOOLEAN
    /\ return_alloca \in {"null", "own", "other"}

\* The builder's state.
EmitInv ==
    /\ blocks \in Seq(Code)
    /\ placed \subseteq 1..Len(blocks)
    /\ insert \in 0..Len(blocks)
    /\ curr_block \in 0..Len(blocks)
    /\ phase = "body" => Len(blocks) >= 2
    /\ CurrBlockIsInsertionPoint

StackInv ==
    /\ stack \in Seq(Frame)
    /\ phase = "decls" => stack = << >>

\* The number of open scopes outside every compound statement.
Outside == IF phase = "decls" THEN 1 ELSE 2

\* The compound statements in progress down to the k-th handler, and the scope
\* the k-th opened.
Enclosing(t, k) == { j \in InScopeOf(t) : j <= k }
ScopeOf(t, k) == 2 + Cardinality(Enclosing(t, k))

BindsLocals(m, s) ==
    \A i \in DOMAIN s.locals : s.locals[i] \in DOMAIN m /\ m[s.locals[i]] = "local"

Globals(m) == \A n \in DOMAIN m : m[n] \in {"function", "global"}

ScopeInv ==
    /\ inner \in Seq(ScopeMap)
    /\ Len(inner) = Outside + Cardinality(InScopeOf(stack))
    /\ \A k \in InScopeOf(stack) : BindsLocals(inner[ScopeOf(stack, k)], stack[k].node)
    /\ Globals(inner[1])

IInv == PlainInv /\ EmitInv /\ StackInv /\ ScopeInv

\* A piece of code between two accept calls fills blocks and opens some, and
\* leaves the builder and curr_block at the same inserted one.
LEMMA EmitKept ==
    ASSUME EmitInv, phase = "body", phase' = "body",
           blocks' \in Seq(Code), Len(blocks') >= Len(blocks),
           NEW opened \in SUBSET (1..Len(blocks')), placed' = placed \cup opened,
           insert' = curr_block', insert' \in placed'
    PROVE  EmitInv'
<1> DEFINE n == Len(blocks)
           m == Len(blocks')
<1>1. n \in Nat /\ m \in Nat /\ n >= 2 /\ m >= n
  BY LenProperties DEF EmitInv
<1>2. placed \subseteq 1..n /\ opened \subseteq 1..m
  BY DEF EmitInv
<1> HIDE DEF n, m
<1>3. placed' \subseteq 1..m
  BY <1>1, <1>2
<1>4. insert' \in 0..m /\ curr_block' \in 0..m /\ m >= 2
  BY <1>1, <1>3
<1> QED
  BY <1>3, <1>4 DEF m, EmitInv, CurrBlockIsInsertionPoint

\* The same when only an existing block is filled.
LEMMA EmitStays ==
    ASSUME EmitInv, phase = "body", phase' = "body",
           blocks' \in Seq(Code), Len(blocks') = Len(blocks),
           UNCHANGED << placed, insert, curr_block >>
    PROVE  EmitInv'
  BY DEF EmitInv, CurrBlockIsInsertionPoint

\* The place of a scope in the scope stack.
LEMMA ScopePlace ==
    ASSUME NEW t \in Seq(Frame), NEW k \in InScopeOf(t)
    PROVE  /\ ScopeOf(t, k) \in Nat
           /\ 3 <= ScopeOf(t, k) /\ ScopeOf(t, k) <= 2 + Cardinality(InScopeOf(t))
           /\ k = Len(t) => ScopeOf(t, k) = 2 + Cardinality(InScopeOf(t))
           /\ k # Len(t) /\ Len(t) \in InScopeOf(t) => ScopeOf(t, k) <= 1 + Cardinality(InScopeOf(t))
<1> DEFINE I == InScopeOf(t)
           E == Enclosing(t, k)
           c == Cardinality(I)
           d == Cardinality(E)
<1>1. IsFiniteSet(I) /\ I \subseteq 1..Len(t) /\ Len(t) \in Nat
  BY InScopeFinite, LenProperties
<1>2. E \subseteq I /\ k \in E
  BY <1>1 DEF Enclosing
<1>3. IsFiniteSet(E) /\ d <= c /\ c \in Nat /\ d \in Nat
  BY <1>1, <1>2, FS_Subset, FS_CardinalityType
<1>4. {k} \subseteq E /\ Cardinality({k}) = 1
  BY <1>2, FS_Singleton
<1>5. d >= 1
  BY <1>3, <1>4, FS_Subset
<1>6. k = Len(t) => E = I
  BY <1>1 DEF Enclosing
<1>7. ASSUME k # Len(t), Len(t) \in I PROVE d <= c - 1
  <2>1. E \subseteq I \ {Len(t)}
    BY <1>1, <1>2, <1>7 DEF Enclosing
  <2>2. IsFiniteSet(I \ {Len(t)}) /\ Cardinality(I \ {Len(t)}) = c - 1
    BY <1>1, <1>7, FS_RemoveElement
  <2> QED
    BY <2>1, <2>2, FS_Subset
<1> HIDE DEF I, E, c, d
<1>8. ScopeOf(t, k) = 2 + d
  BY DEF ScopeOf, d, E
<1>9. k = Len(t) => d = c
  BY <1>6 DEF c, d
<1> QED
  BY <1>3, <1>5, <1>7, <1>8, <1>9 DEF c, I

\* Handlers that keep their statements and their scopes keep ScopeInv.
LEMMA SameInScope ==
    ASSUME ScopeInv, StackInv, phase = "body", phase' # "decls", inner' = inner,
           stack' \in Seq(Frame), InScopeOf(stack') = InScopeOf(stack),
           \A k \in InScopeOf(stack) : stack'[k].node = stack[k].node
    PROVE  StackInv' /\ ScopeInv'
<1>1. \A k : Enclosing(stack', k) = Enclosing(stack, k)
  BY DEF Enclosing
<1>2. \A k : ScopeOf(stack', k) = ScopeOf(stack, k)
  BY <1>1 DEF ScopeOf
<1>3. \A k \in InScopeOf(stack') : BindsLocals(inner'[ScopeOf(stack', k)], stack'[k].node)
  BY <1>2 DEF ScopeInv
<1>4. Outside' = Outside
  BY DEF Outside
<1>5. Len(inner') = Outside' + Cardinality(InScopeOf(stack'))
  BY <1>4 DEF ScopeInv
<1> QED
  BY <1>3, <1>5 DEF ScopeInv, StackInv

\* The innermost handler moves on, or calls accept on a child.
LEMMA HandlerMoves ==
    ASSUME ScopeInv, StackInv, stack # << >>, phase = "body", phase' = "body", inner' = inner,
           NEW f \in Frame, f.node = Top.node, f.pc = "list" <=> Top.pc = "list",
           stack' = Append(Popped, f) \/ \E s \in Stmt : stack' = Call(f, s)
    PROVE  StackInv' /\ ScopeInv'
<1>0. stack \in Seq(Frame) /\ Len(stack) \in Nat /\ Len(stack) > 0
  BY TopAndPopped DEF StackInv
<1>1. /\ stack' \in Seq(Frame)
      /\ Len(stack') = Len(stack) \/ (Len(stack') = Len(stack) + 1 /\ stack'[Len(stack) + 1].pc # "list")
      /\ \A k \in 1..(Len(stack) - 1) : stack'[k] = stack[k]
      /\ stack'[Len(stack)] = f
  <2>1. CASE stack' = Append(Popped, f)
    BY <1>0, <2>1, Replaced
  <2>2. CASE \E s \in Stmt : stack' = Call(f, s)
    <3>1. PICK s \in Stmt : stack' = Call(f, s)
      BY <2>2
    <3>2. /\ stack' \in Seq(Frame)
          /\ Len(stack') = Len(stack) + 1
          /\ \A k \in 1..(Len(stack) - 1) : stack'[k] = stack[k]
          /\ stack'[Len(stack)] = f
          /\ stack'[Len(stack) + 1] = Handler(s)
      BY <1>0, <3>1, Called
    <3>3. Handler(s).pc # "list"
      BY DEF Handler
    <3> QED
      BY <3>2, <3>3
  <2> QED
    BY <2>1, <2>2
<1>2. InScopeOf(stack') = InScopeOf(stack)
  <2>1. stack'[Len(stack)].pc = "list" <=> stack[Len(stack)].pc = "list"
    BY <1>1 DEF Top
  <2> QED
    BY <1>0, <1>1, <2>1, SameScopes
<1>3. \A k \in InScopeOf(stack) : stack'[k].node = stack[k].node
  <2>1. \A k \in InScopeOf(stack) : k \in 1..Len(stack)
    BY <1>0, InScopeFinite
  <2>2. \A k \in 1..Len(stack) : k \in 1..(Len(stack) - 1) \/ k = Len(stack)
    BY <1>0
  <2>3. stack'[Len(stack)].node = stack[Len(stack)].node
    BY <1>1 DEF Top
  <2> QED
    BY <1>1, <2>1, <2>2, <2>3
<1> QED
  BY <1>1, <1>2, <1>3, SameInScope

\* A handler that opened no scope returns.
LEMMA HandlerReturns ==
    ASSUME ScopeInv, StackInv, stack # << >>, phase = "body", phase' = "body", inner' = inner,
           Top.pc # "list", stack' = Popped
    PROVE  StackInv' /\ ScopeInv'
<1>0. stack \in Seq(Frame) /\ Len(stack) \in Nat /\ Len(stack) > 0
  BY TopAndPopped DEF StackInv
<1>1. /\ stack' \in Seq(Frame)
      /\ Len(stack') = Len(stack) - 1
      /\ \A k \in 1..(Len(stack) - 1) : stack'[k] = stack[k]
  BY <1>0, TopAndPopped
<1>2. InScopeOf(stack') = InScopeOf(stack)
  BY <1>0, <1>1, FewerScopes DEF Top
<1>3. \A k \in InScopeOf(stack) : stack'[k].node = stack[k].node
  <2>1. \A k \in InScopeOf(stack') : k \in 1..Len(stack')
    BY <1>1, InScopeFinite
  <2> QED
    BY <1>1, <1>2, <2>1
<1> QED
  BY <1>1, <1>2, <1>3, SameInScope

\* A compound statement opens a scope with its locals.
LEMMA HandlerEnters ==
    ASSUME ScopeInv, StackInv, stack # << >>, phase = "body", phase' = "body",
           Top.pc # "list", NEW f \in Frame, f.node = Top.node, f.pc = "list",
           stack' = Append(Popped, f), f.node.locals \in Seq(Name),
           inner' = PushedAll(Entered(inner), f.node.locals, "local")
    PROVE  StackInv' /\ ScopeInv'
<1> DEFINE n == Len(stack)
           d == Len(inner)
           e == Entered(inner)
<1>0. stack \in Seq(Frame) /\ n \in Nat /\ n > 0
  BY TopAndPopped DEF StackInv
<1>1. /\ stack' \in Seq(Frame)
      /\ Len(stack') = n
      /\ \A k \in 1..(n - 1) : stack'[k] = stack[k]
      /\ stack'[n] = f
  BY <1>0, Replaced
<1>2. Cardinality(InScopeOf(stack')) = Cardinality(InScopeOf(stack)) + 1
  BY <1>0, <1>1, OneMoreScope DEF Top
<1>3. /\ d = 2 + Cardinality(InScopeOf(stack)) /\ d \in Nat /\ d >= 2
      /\ Cardinality(InScopeOf(stack)) \in Nat
  <2>1. Cardinality(InScopeOf(stack)) \in Nat
    BY <1>0, InScopeFinite
  <2>2. d = 2 + Cardinality(InScopeOf(stack))
    BY DEF ScopeInv, Outside
  <2> HIDE DEF d
  <2> QED
    BY <2>1, <2>2
<1>4. /\ e \in Seq(ScopeMap) /\ Len(e) = d + 1
      /\ \A k \in 1..d : e[k] = inner[k]
      /\ e[d + 1] = << >>
  BY EnteredType DEF ScopeInv
<1>5. /\ inner' \in Seq(ScopeMap) /\ Len(inner') = d + 1
      /\ \A k \in 1..d : inner'[k] = inner[k]
      /\ BindsLocals(inner'[d + 1], f.node)
  <2>1. "local" \in Binding /\ Len(e) > 0
    BY <1>3, <1>4 DEF Binding
  <2>0. inner' = PushedAll(e, f.node.locals, "local") /\ e \in Seq(ScopeMap)
    BY <1>4
  <2>2. /\ inner' \in Seq(ScopeMap)
        /\ Len(inner') = Len(e)
        /\ \A k \in 1..(Len(e) - 1) : inner'[k] = e[k]
        /\ e[Len(e)] = << >> => \A i \in DOMAIN f.node.locals :
                 /\ f.node.locals[i] \in DOMAIN inner'[Len(e)]
                 /\ inner'[Len(e)][f.node.locals[i]] = "local"
    <3> HIDE DEF e
    <3> QED
      BY <2>0, <2>1, PushedAllType
  <2>3. d + 1 - 1 = d /\ Len(e) - 1 = d /\ Len(e) = d + 1
    BY <1>3, <1>4
  <2> HIDE DEF d, e
  <2>4. \A k \in 1..d : inner'[k] = inner[k]
    BY <1>4, <2>2, <2>3
  <2>5. BindsLocals(inner'[d + 1], f.node)
    BY <1>4, <2>2, <2>3 DEF BindsLocals
  <2> QED
    BY <2>2, <2>3, <2>4, <2>5
<1> HIDE DEF n, d, e
<1>6. Globals(inner'[1])
  BY <1>3, <1>5 DEF ScopeInv
<1>7. Len(inner') = Outside' + Cardinality(InScopeOf(stack'))
  BY <1>2, <1>3, <1>5 DEF Outside
<1>8. ASSUME NEW k \in InScopeOf(stack')
      PROVE  BindsLocals(inner'[ScopeOf(stack', k)], stack'[k].node)
  <2>1. k \in 1..n /\ stack'[k].pc = "list"
    BY <1>1, InScopeFinite
  <2>2. CASE k = n
    <3>1. ScopeOf(stack', k) = d + 1
      <4>1. k = Len(stack')
        BY <1>1, <2>2
      <4>2. ScopeOf(stack', k) = 2 + Cardinality(InScopeOf(stack'))
        BY <1>1, <4>1, ScopePlace
      <4> QED
        BY <1>2, <1>3, <4>2
    <3> QED
      BY <1>1, <1>5, <2>2, <3>1
  <2>3. CASE k # n
    <3>1. k \in 1..(n - 1) /\ stack'[k] = stack[k] /\ k \in 1..n
      BY <1>0, <1>1, <2>1, <2>3
    <3>2. k \in InScopeOf(stack)
      BY <1>0, <2>1, <3>1, InScopeFinite DEF n
    <3>3. \A j : (j \in InScopeOf(stack') /\ j <= k) <=> (j \in InScopeOf(stack) /\ j <= k)
      <4>1. InScopeOf(stack') = { j \in 1..n : stack'[j].pc = "list" }
        BY <1>1, InScopeFinite
      <4>2. InScopeOf(stack) = { j \in 1..n : stack[j].pc = "list" }
        BY <1>0, InScopeFinite DEF n
      <4>3. \A j \in 1..n : j <= k => j \in 1..(n - 1)
        BY <1>0, <3>1
      <4> QED
        BY <1>1, <4>1, <4>2, <4>3
    <3>4. ScopeOf(stack', k) = ScopeOf(stack, k)
      <4>1. Enclosing(stack', k) = Enclosing(stack, k)
        BY <3>3 DEF Enclosing
      <4> QED
        BY <4>1 DEF ScopeOf
    <3>5. ScopeOf(stack, k) \in 1..d
      BY <1>0, <1>3, <3>2, ScopePlace
    <3>6. BindsLocals(inner[ScopeOf(stack, k)], stack[k].node)
      BY <3>2 DEF ScopeInv
    <3> QED
      BY <1>5, <3>1, <3>4, <3>5, <3>6
  <2> QED
    BY <2>2, <2>3
<1> QED
  BY <1>1, <1>5, <1>6, <1>7, <1>8 DEF StackInv, ScopeInv

\* A compound statement closes its scope and returns.
LEMMA HandlerExits ==
    ASSUME ScopeInv, StackInv, stack # << >>, phase = "body", phase' = "body",
           Top.pc = "list", stack' = Popped, inner' = Exited(inner)
    PROVE  StackInv' /\ ScopeInv'
<1> DEFINE n == Len(stack)
           d == Len(inner)
<1>0. stack \in Seq(Frame) /\ n \in Nat /\ n > 0
  BY TopAndPopped DEF StackInv
<1>1. /\ stack' \in Seq(Frame)
      /\ Len(stack') = n - 1
      /\ \A k \in 1..(n - 1) : stack'[k] = stack[k]
  BY <1>0, TopAndPopped
<1>2. Cardinality(InScopeOf(stack')) = Cardinality(InScopeOf(stack)) - 1
  BY <1>0, <1>1, FewerScopes DEF Top
<1>3. n \in InScopeOf(stack)
  <2>1. n \in 1..n
    BY <1>0
  <2> QED
    BY <1>0, <2>1, InScopeFinite DEF Top
<1>4. /\ d = 2 + Cardinality(InScopeOf(stack)) /\ d \in Nat /\ d >= 3
      /\ Cardinality(InScopeOf(stack)) \in Nat
  <2>1. Cardinality(InScopeOf(stack)) \in Nat
    BY <1>0, InScopeFinite
  <2>2. d = 2 + Cardinality(InScopeOf(stack))
    BY DEF ScopeInv, Outside
  <2>3. ScopeOf(stack, n) \in Nat /\ 3 <= ScopeOf(stack, n) /\ ScopeOf(stack, n) <= 2 + Cardinality(InScopeOf(stack))
    BY <1>0, <1>3, ScopePlace
  <2> HIDE DEF d
  <2> QED
    BY <2>1, <2>2, <2>3
<1>5. /\ inner' \in Seq(ScopeMap) /\ Len(inner') = d - 1
      /\ \A k \in 1..(d - 1) : inner'[k] = inner[k]
  <2>1. inner \in Seq(ScopeMap) /\ Len(inner) > 0
    BY <1>4 DEF ScopeInv
  <2> QED
    BY <2>1, ExitedType
<1> HIDE DEF n, d
<1>6. Globals(inner'[1])
  BY <1>4, <1>5 DEF ScopeInv
<1>7. Len(inner') = Outside' + Cardinality(InScopeOf(stack'))
  BY <1>2, <1>4, <1>5 DEF Outside
<1>8. ASSUME NEW k \in InScopeOf(stack')
      PROVE  BindsLocals(inner'[ScopeOf(stack', k)], stack'[k].node)
  <2>1. k \in 1..(n - 1) /\ stack'[k].pc = "list"
    BY <1>1, InScopeFinite
  <2>2. k \in 1..n /\ k # n /\ stack'[k] = stack[k]
    BY <1>0, <1>1, <2>1
  <2>3. k \in InScopeOf(stack)
    BY <1>0, <2>1, <2>2, InScopeFinite DEF n
  <2>4. \A j : (j \in InScopeOf(stack') /\ j <= k) <=> (j \in InScopeOf(stack) /\ j <= k)
    <3>1. InScopeOf(stack') = { j \in 1..(n - 1) : stack'[j].pc = "list" }
      BY <1>1, InScopeFinite
    <3>2. InScopeOf(stack) = { j \in 1..n : stack[j].pc = "list" }
      BY <1>0, InScopeFinite DEF n
    <3>3. \A j \in 1..n : j <= k => j \in 1..(n - 1)
      BY <1>0, <2>1
    <3>4. \A j \in 1..(n - 1) : j \in 1..n
      BY <1>0
    <3> QED
      BY <1>1, <3>1, <3>2, <3>3, <3>4
  <2>5. ScopeOf(stack', k) = ScopeOf(stack, k)
    <3>1. Enclosing(stack', k) = Enclosing(stack, k)
      BY <2>4 DEF Enclosing
    <3> QED
      BY <3>1 DEF ScopeOf
  <2>6. ScopeOf(stack, k) \in 1..(d - 1)
    <3>1. /\ ScopeOf(stack, k) \in Nat /\ 3 <= ScopeOf(stack, k)
          /\ ScopeOf(stack, k) <= 1 + Cardinality(InScopeOf(stack))
      BY <1>0, <1>3, <2>2, <2>3, ScopePlace DEF n
    <3> QED
      BY <1>4, <3>1
  <2>7. BindsLocals(inner[ScopeOf(stack, k)], stack[k].node)
    BY <2>3 DEF ScopeInv
  <2> QED
    BY <1>5, <2>2, <2>5, <2>6, <2>7
<1> QED
  BY <1>1, <1>5, <1>6, <1>7, <1>8 DEF StackInv, ScopeInv

-----------------------------------------------------------------------------
(* Every action keeps the invariant.                                       *)

\* The handler that is about to move, and the insertion point.
LEMMA AtWork ==
    ASSUME IInv, phase = "body", stack # << >>
    PROVE  /\ stack \in Seq(Frame) /\ Top \in Frame /\ Top.node \in Stmt /\ IsStmt(Top.node)
           /\ Top.node.tag \in Tag
           /\ blocks \in Seq(Code) /\ Len(blocks) \in Nat /\ Len(blocks) >= 2
           /\ insert \in 1..Len(blocks) /\ insert = curr_block /\ insert \in placed
           /\ NewBlock \in Nat
<1>1. stack \in Seq(Frame) /\ Top \in Frame
  BY TopAndPopped DEF IInv, StackInv
<1>2. Top.node \in Stmt
  BY <1>1 DEF Frame
<1>3. IsStmt(Top.node)
  BY <1>2, StmtAssumption
<1>4. Top.node.tag \in Tag
  BY <1>3 DEF IsStmt
<1>5. /\ blocks \in Seq(Code) /\ Len(blocks) >= 2
      /\ insert = curr_block /\ insert \in placed /\ placed \subseteq 1..Len(blocks)
  BY DEF IInv, EmitInv, CurrBlockIsInsertionPoint
<1>6. Len(blocks) \in Nat
  BY <1>5, LenProperties
<1>7. NewBlock \in Nat
  BY <1>6 DEF NewBlock
<1> QED
  BY <1>1, <1>2, <1>3, <1>4, <1>5, <1>6, <1>7

\* A new block, after some emission.
LEMMA OneMoreBlock ==
    ASSUME NEW c \in Seq(Code), Len(c) = Len(blocks), Len(blocks) \in Nat
    PROVE  /\ Append(c, << >>) \in Seq(Code)
           /\ Len(Append(c, << >>)) = Len(blocks) + 1
           /\ Len(Append(c, << >>)) >= Len(blocks)
           /\ NewBlock \in 1..Len(Append(c, << >>))
<1>1. /\ Append(c, << >>) \in Seq(Code)
      /\ Len(Append(c, << >>)) = Len(blocks) + 1
  BY EmptyCode, Created
<1> QED
  BY <1>1 DEF NewBlock

\* The builder moves to a new block.
LEMMA MovesToNew ==
    ASSUME EmitInv, phase = "body", phase' = "body", NEW c \in Seq(Code), Len(c) = Len(blocks),
           blocks' = Append(c, << >>), placed' = placed \cup {NewBlock}, MoveTo(NewBlock)
    PROVE  EmitInv'
<1>1. Len(blocks) \in Nat
  BY LenProperties DEF EmitInv
<1>2. /\ blocks' \in Seq(Code)
      /\ Len(blocks') >= Len(blocks)
      /\ NewBlock \in 1..Len(blocks')
  BY <1>1, OneMoreBlock
<1>3. insert' = NewBlock /\ curr_block' = NewBlock
  BY DEF MoveTo
<1>4. {NewBlock} \in SUBSET (1..Len(blocks'))
  BY <1>2
<1>5. insert' \in placed' /\ insert' = curr_block'
  BY <1>3
<1> QED
  BY <1>2, <1>4, <1>5, EmitKept

LEMMA InitInv == Init => IInv
<1> SUFFICES ASSUME Init PROVE IInv
  OBVIOUS
<1>1. PlainInv
  BY ProgramAssumption DEF Init, PlainInv
<1>2. EmitInv
  <2>1. << >> \in Seq(Code) /\ Len(<< >>) = 0
    BY EmptySeq
  <2> QED
    BY <2>1 DEF Init, EmitInv, CurrBlockIsInsertionPoint
<1>3. StackInv
  BY EmptySeq DEF Init, StackInv
<1>4. ScopeInv
  <2> DEFINE g == [n \in Runtime |-> "function"]
  <2>1. g \in [Runtime -> Binding] /\ Runtime \in SUBSET Name
    BY RuntimeAssumption DEF Binding
  <2>2. g \in ScopeMap
    BY <2>1, ScopeMapIs
  <2>3. Globals(g)
    BY DEF Globals
  <2>4. inner = << g >>
    BY DEF Init
  <2> HIDE DEF g
  <2>5. inner \in Seq(ScopeMap) /\ Len(inner) = 1 /\ inner[1] = g
    BY <2>2, <2>4
  <2>6. InScopeOf(stack) = {}
    BY DEF Init, InScopeOf
  <2>7. Cardinality(InScopeOf(stack)) = 0
    BY <2>6, FS_EmptySet
  <2>8. Outside = 1
    BY DEF Init, Outside
  <2> QED
    BY <2>3, <2>5, <2>6, <2>7, <2>8 DEF ScopeInv
<1> QED
  BY <1>1, <1>2, <1>3, <1>4 DEF IInv

\* The next declaration.
LEMMA NextDeclaration ==
    ASSUME IInv, todo # << >>
    PROVE  /\ Head(todo) \in Decl /\ IsDecl(Head(todo))
           /\ Tail(todo) \in Seq(Decl)
<1>1. todo \in Seq(Decl)
  BY DEF IInv, PlainInv
<1>2. Head(todo) \in Decl /\ Tail(todo) \in Seq(Decl)
  BY <1>1, HeadTailProperties
<1> QED
  BY <1>2, ProgramAssumption

\* Between functions the global scope is the only one.
LEMMA OnlyGlobal ==
    ASSUME IInv, stack = << >>
    PROVE  /\ InScopeOf(stack) = {} /\ Cardinality(InScopeOf(stack)) = 0
           /\ inner \in Seq(ScopeMap) /\ Len(inner) = Outside /\ Len(inner) > 0 /\ Len(inner) \in Nat
<1>1. InScopeOf(stack) = {}
  BY DEF InScopeOf
<1>2. Cardinality(InScopeOf(stack)) = 0
  BY <1>1, FS_EmptySet
<1>3. inner \in Seq(ScopeMap) /\ Len(inner) = Outside + 0
  BY <1>2 DEF IInv, ScopeInv
<1>4. Outside \in {1, 2}
  BY DEF Outside
<1> QED
  BY <1>1, <1>2, <1>3, <1>4

LEMMA GlobalPushed ==
    ASSUME IInv, stack = << >>, phase = "decls", NEW n \in Name, NEW b \in {"function", "global"}
    PROVE  /\ Pushed(inner, n, b) \in Seq(ScopeMap)
           /\ Len(Pushed(inner, n, b)) = 1
           /\ Globals(Pushed(inner, n, b)[1])
<1> DEFINE p == Pushed(inner, n, b)
<1>1. inner \in Seq(ScopeMap) /\ Len(inner) = 1
  BY OnlyGlobal DEF Outside
<1>2. b \in Binding
  BY DEF Binding
<1>3. /\ p \in Seq(ScopeMap)
      /\ Len(p) = 1
      /\ \A m \in DOMAIN p[1] : p[1][m] = b \/ (m \in DOMAIN inner[1] /\ p[1][m] = inner[1][m])
  <2> HIDE DEF p
  <2>1. Len(inner) > 0
    BY <1>1
  <2> QED
    BY <1>1, <1>2, <2>1, PushedType DEF p
<1> HIDE DEF p
<1>4. Globals(inner[1])
  BY DEF IInv, ScopeInv
<1>5. Globals(p[1])
  BY <1>3, <1>4 DEF Globals
<1> QED
  BY <1>3, <1>5 DEF p

LEMMA VarDeclarationKeeps == ASSUME IInv, visit_var_declaration PROVE IInv'
<1>1. phase = "decls" /\ phase' = "decls" /\ stack = << >> /\ stack' = << >> /\ todo # << >>
  BY DEF visit_var_declaration, IInv, StackInv
<1>2. Head(todo).id \in Name /\ Tail(todo) \in Seq(Decl)
  BY <1>1, NextDeclaration DEF IsDecl
<1>3. PlainInv'
  BY <1>2 DEF visit_var_declaration, flags, IInv, PlainInv
<1>4. EmitInv'
  BY DEF visit_var_declaration, emitting, IInv, EmitInv, CurrBlockIsInsertionPoint
<1>5. StackInv'
  BY <1>1, EmptySeq DEF StackInv
<1>6. ScopeInv'
  <2>1. inner' = Pushed(inner, Head(todo).id, "global")
    BY DEF visit_var_declaration
  <2>2. /\ inner' \in Seq(ScopeMap)
        /\ Len(inner') = 1
        /\ Globals(inner'[1])
    BY <1>1, <1>2, <2>1, GlobalPushed
  <2>3. InScopeOf(stack') = {} /\ Cardinality(InScopeOf(stack')) = 0
    BY <1>1, OnlyGlobal
  <2>4. Outside' = 1
    BY <1>1 DEF Outside
  <2> QED
    BY <2>2, <2>3, <2>4 DEF ScopeInv
<1> QED
  BY <1>3, <1>4, <1>5, <1>6 DEF IInv

LEMMA FunctionBeginKeeps == ASSUME IInv, fun_declaration_begin PROVE IInv'
<1> DEFINE fun == Head(todo)
<1>1. phase = "decls" /\ phase' = "body" /\ stack = << >> /\ todo # << >> /\ fun.kind = "fun"
  BY DEF fun_declaration_begin, IInv, StackInv
<1>2. /\ fun.id \in Name /\ fun.params \in Seq(Name)
      /\ fun.body \in Stmt /\ fun.body.kind = "compound"
      /\ Tail(todo) \in Seq(Decl)
  BY <1>1, NextDeclaration DEF IsDecl
<1>3. PlainInv'
  BY <1>2 DEF fun_declaration_begin, flags, IInv, PlainInv
<1>4. EmitInv'
  <2> DEFINE first == IF fun.params # << >> \/ ~fun.void THEN << Alloca >> ELSE << >>
  <2>1. first \in Code
    BY ItemTypes, EmptyCode DEF Code
  <2>2. /\ blocks' = << << >>, first >>
        /\ placed' = {2} /\ insert' = 2 /\ curr_block' = 2
    BY DEF fun_declaration_begin, MoveTo, entrybb
  <2> HIDE DEF first
  <2>3. << << >>, first >> \in Seq(Code) /\ Len(<< << >>, first >>) = 2
    BY <2>1, EmptyCode
  <2> QED
    BY <2>2, <2>3 DEF EmitInv, CurrBlockIsInsertionPoint
<1>5. /\ StackInv'
      /\ InScopeOf(stack') = {}
  <2>1. stack' = << Handler(fun.body) >>
    BY DEF fun_declaration_begin
  <2>2. Handler(fun.body) \in Frame
    BY <1>2, HandlerType
  <2>3. Handler(fun.body).pc # "list"
    BY DEF Handler
  <2> DEFINE h == Handler(fun.body)
  <2> HIDE DEF h
  <2>4. stack' = << h >> /\ h \in Frame /\ h.pc # "list"
    BY <2>1, <2>2, <2>3 DEF h
  <2>5. stack' \in Seq(Frame) /\ DOMAIN stack' = {1} /\ stack'[1] = h
    BY <2>4
  <2> QED
    BY <1>1, <2>4, <2>5 DEF StackInv, InScopeOf
<1>6. ScopeInv'
  <2> DEFINE p == Pushed(inner, fun.id, "function")
             e == Entered(p)
  <2>1. /\ p \in Seq(ScopeMap)
        /\ Len(p) = 1
        /\ Globals(p[1])
    BY <1>1, <1>2, GlobalPushed
  <2>2. inner' = PushedAll(e, fun.params, "param")
    BY DEF fun_declaration_begin
  <2> HIDE DEF p
  <2>3. e \in Seq(ScopeMap) /\ Len(e) = 2 /\ e[1] = p[1]
    <3>1. /\ Entered(p) \in Seq(ScopeMap)
          /\ Len(Entered(p)) = Len(p) + 1
          /\ \A k \in 1..Len(p) : Entered(p)[k] = p[k]
      BY <2>1, EnteredType
    <3>2. 1 \in 1..Len(p)
      BY <2>1
    <3> QED
      BY <2>1, <3>1, <3>2
  <2> HIDE DEF e
  <2>4. "param" \in Binding /\ Len(e) > 0
    BY <2>3 DEF Binding
  <2> DEFINE names == fun.params
             all == PushedAll(e, names, "param")
  <2>5. names \in Seq(Name) /\ inner' = all
    BY <1>2, <2>2
  <2> HIDE DEF names
  <2>6. /\ all \in Seq(ScopeMap)
        /\ Len(all) = Len(e)
        /\ \A k \in 1..(Len(e) - 1) : all[k] = e[k]
    BY <2>3, <2>4, <2>5, PushedAllType
  <2>9. 1 \in 1..(Len(e) - 1)
    BY <2>3
  <2>10. inner' \in Seq(ScopeMap) /\ Len(inner') = 2 /\ inner'[1] = p[1]
    <3> HIDE DEF all
    <3> QED BY <2>3, <2>5, <2>6, <2>9
  <2>7. Cardinality(InScopeOf(stack')) = 0
    BY <1>5, FS_EmptySet
  <2>8. Outside' = 2
    BY <1>1 DEF Outside
  <2> QED
    BY <1>5, <2>1, <2>10, <2>7, <2>8 DEF ScopeInv
<1> QED
  BY <1>3, <1>4, <1>5, <1>6 DEF IInv

LEMMA FunctionEndKeeps == ASSUME IInv, fun_declaration_end PROVE IInv'
<1>1. phase = "body" /\ phase' = "decls" /\ stack = << >> /\ stack' = << >>
  BY DEF fun_declaration_end
<1>2. PlainInv'
  BY <1>1 DEF fun_declaration_end, flags, IInv, PlainInv
<1>3. EmitInv'
  <2>1. /\ blocks \in Seq(Code) /\ Len(blocks) \in Nat /\ Len(blocks) >= 2
        /\ placed \subseteq 1..Len(blocks) /\ curr_block \in 0..Len(blocks)
    BY <1>1, LenProperties DEF IInv, EmitInv
  <2>2. blocks' \in Seq(Code) /\ Len(blocks') = Len(blocks)
    <3>1. blocks' = Emit(blocks, return_block, Ret) /\ Ret \in Item
      BY ItemTypes DEF fun_declaration_end
    <3> QED
      BY <2>1, <3>1, EmitType
  <2>3. placed' = placed \cup {1} /\ insert' = 1 /\ curr_block' = curr_block
    BY DEF fun_declaration_end, return_block
  <2>4. placed' \subseteq 1..Len(blocks') /\ insert' \in 0..Len(blocks') /\ curr_block' \in 0..Len(blocks')
    BY <2>1, <2>2, <2>3
  <2> QED
    BY <1>1, <2>2, <2>4 DEF EmitInv, CurrBlockIsInsertionPoint
<1>4. StackInv'
  BY <1>1, EmptySeq DEF StackInv
<1>5. ScopeInv'
  <2>1. inner \in Seq(ScopeMap) /\ Len(inner) = 2 /\ Globals(inner[1])
    BY <1>1, OnlyGlobal DEF Outside, IInv, ScopeInv
  <2>2. inner' = Exited(inner)
    BY DEF fun_declaration_end
  <2>3. /\ inner' \in Seq(ScopeMap) /\ Len(inner') = 1
        /\ inner'[1] = inner[1]
    <3>0. Len(inner) > 0
      BY <2>1
    <3>1. /\ Exited(inner) \in Seq(ScopeMap)
          /\ Len(Exited(inner)) = Len(inner) - 1
          /\ \A k \in 1..(Len(inner) - 1) : Exited(inner)[k] = inner[k]
      BY <2>1, <3>0, ExitedType
    <3>2. 1 \in 1..(Len(inner) - 1)
      BY <2>1
    <3>3. Exited(inner)[1] = inner[1]
      BY <3>1, <3>2
    <3>4. Len(Exited(inner)) = 1
      BY <2>1, <3>1
    <3> DEFINE e == Exited(inner)
    <3>5. inner' = e
      BY <2>2
    <3> HIDE DEF e
    <3> QED
      BY <3>1, <3>3, <3>4, <3>5 DEF e
  <2>4. InScopeOf(stack') = {} /\ Cardinality(InScopeOf(stack')) = 0
    BY <1>1, OnlyGlobal
  <2>5. Outside' = 1
    BY <1>1 DEF Outside
  <2> QED
    BY <2>1, <2>3, <2>4, <2>5 DEF ScopeInv
<1> QED
  BY <1>2, <1>3, <1>4, <1>5 DEF IInv

LEMMA CompoundEnterKeeps == ASSUME IInv, compound_stmt_enter PROVE IInv'
<1> DEFINE f == [Top EXCEPT !.pc = "list"]
<1>1. /\ phase = "body" /\ phase' = "body" /\ stack # << >>
      /\ Top.node.kind = "compound" /\ Top.pc = "start"
  BY DEF compound_stmt_enter, At
<1>2. PlainInv'
  BY DEF compound_stmt_enter, IInv, PlainInv
<1>3. EmitInv'
  <2>1. blocks \in Seq(Code) /\ Alloca \in Item
    BY <1>1, AtWork, ItemTypes
  <2>2. blocks' \in Seq(Code) /\ Len(blocks') = Len(blocks)
    BY <2>1, EmitType DEF compound_stmt_enter
  <2>3. UNCHANGED << placed, insert, curr_block >>
    BY DEF compound_stmt_enter
  <2> QED
    BY <1>1, <2>2, <2>3, EmitStays DEF IInv
<1>4. StackInv' /\ ScopeInv'
  <2>1. Top \in Frame /\ Top.node.locals \in Seq(Name)
    BY <1>1, AtWork DEF IsStmt
  <2>2. f \in Frame /\ f.node = Top.node /\ f.pc = "list"
    BY <2>1 DEF Frame
  <2>3. /\ stack' = Append(Popped, f)
        /\ inner' = PushedAll(Entered(inner), Top.node.locals, "local")
    BY DEF compound_stmt_enter
  <2> HIDE DEF f
  <2>4. f.node.locals \in Seq(Name) /\ inner' = PushedAll(Entered(inner), f.node.locals, "local")
    BY <2>1, <2>2, <2>3
  <2> QED
    BY <1>1, <2>2, <2>3, <2>4, HandlerEnters DEF IInv
<1> QED
  BY <1>2, <1>3, <1>4 DEF IInv

LEMMA CompoundNextKeeps == ASSUME IInv, compound_stmt_next PROVE IInv'
<1> DEFINE f == [Top EXCEPT !.next = @ + 1]
           s == Top.node.list[Top.next]
<1>1. /\ phase = "body" /\ phase' = "body" /\ stack # << >>
      /\ Top.node.kind = "compound" /\ Top.pc = "list" /\ Top.next <= Len(Top.node.list)
  BY DEF compound_stmt_next, At
<1>2. PlainInv'
  BY DEF compound_stmt_next, flags, IInv, PlainInv
<1>3. EmitInv'
  BY <1>1 DEF compound_stmt_next, emitting, IInv, EmitInv, CurrBlockIsInsertionPoint
<1>4. StackInv' /\ ScopeInv'
  <2>1. Top \in Frame /\ Top.node.list \in Seq(Stmt)
    BY <1>1, AtWork DEF IsStmt
  <2>2. f \in Frame /\ f.node = Top.node /\ f.pc = Top.pc
    BY <2>1 DEF Frame
  <2>3. s \in Stmt
    <3>1. Top.next \in Nat /\ Top.next # 0
      BY <2>1 DEF Frame
    <3> QED
      BY <1>1, <2>1, <3>1
  <2>4. stack' = Call(f, s) /\ inner' = inner
    BY DEF compound_stmt_next
  <2> HIDE DEF f
  <2> QED
    BY <1>1, <2>2, <2>3, <2>4, HandlerMoves DEF IInv
<1> QED
  BY <1>2, <1>3, <1>4 DEF IInv

LEMMA CompoundExitKeeps == ASSUME IInv, compound_stmt_exit PROVE IInv'
<1>1. /\ phase = "body" /\ phase' = "body" /\ stack # << >> /\ Top.pc = "list"
      /\ stack' = Popped /\ inner' = Exited(inner)
  BY DEF compound_stmt_exit, At
<1>2. PlainInv'
  BY DEF compound_stmt_exit, IInv, PlainInv
<1>3. EmitInv'
  BY <1>1 DEF compound_stmt_exit, emitting, IInv, EmitInv, CurrBlockIsInsertionPoint
<1>4. StackInv' /\ ScopeInv'
  BY <1>1, HandlerExits DEF IInv
<1> QED
  BY <1>2, <1>3, <1>4 DEF IInv

LEMMA SubscriptKeeps == ASSUME IInv, visit_var_subscript PROVE IInv'
<1> DEFINE f == [Top EXCEPT !.left = @ - 1]
<1>1. /\ phase = "body" /\ phase' = "body" /\ stack # << >>
      /\ Top.pc = "eval" /\ Top.left > 0
  BY DEF visit_var_subscript
<1>2. PlainInv'
  BY DEF visit_var_subscript, flags, IInv, PlainInv
<1>3. EmitInv'
  <2> DEFINE neg == NewBlock
             ok == NewBlock + 1
             tag == Top.node.tag
             c == Emit(blocks, insert, CheckBr(tag, neg, ok))
             two == << << CallExcept(tag), Br(tag, ok) >>, << >> >>
  <2>1. blocks \in Seq(Code) /\ Len(blocks) \in Nat /\ tag \in Tag /\ neg \in Nat /\ ok \in Nat
    BY <1>1, AtWork
  <2>2. blocks' = c \o two /\ placed' = placed \cup {neg, ok} /\ insert' = ok /\ curr_block' = ok
    BY DEF visit_var_subscript, MoveTo
  <2>3. c \in Seq(Code) /\ Len(c) = Len(blocks)
    <3>1. CheckBr(tag, neg, ok) \in Item
      BY <2>1, ItemTypes
    <3> QED
      BY <2>1, <3>1, EmitType
  <2>4. two \in Seq(Code) /\ Len(two) = 2
    <3>1. CallExcept(tag) \in Item /\ Br(tag, ok) \in Item
      BY <2>1, ItemTypes
    <3>2. << CallExcept(tag), Br(tag, ok) >> \in Code
      BY <3>1 DEF Code
    <3> QED
      BY <3>2, EmptyCode
  <2>5. neg = Len(blocks) + 1 /\ ok = Len(blocks) + 2
    BY <2>1 DEF NewBlock
  <2> HIDE DEF c, two, neg, ok
  <2>6. blocks' \in Seq(Code) /\ Len(blocks') = Len(blocks) + 2
    <3>1. c \o two \in Seq(Code) /\ Len(c \o two) = Len(c) + Len(two)
      BY <2>3, <2>4, ConcatProperties
    <3>2. Len(c \o two) = Len(blocks) + 2
      BY <2>3, <2>4, <3>1
    <3> QED
      BY <2>2, <3>1, <3>2
  <2>7. Len(blocks') >= Len(blocks) /\ {neg, ok} \in SUBSET (1..Len(blocks'))
    BY <2>1, <2>5, <2>6
  <2>8. insert' \in placed' /\ insert' = curr_block'
    BY <2>2
  <2> QED
    BY <1>1, <2>2, <2>6, <2>7, <2>8, EmitKept DEF IInv
<1>4. StackInv' /\ ScopeInv'
  <2>1. Top \in Frame
    BY <1>1, AtWork
  <2>2. f \in Frame /\ f.node = Top.node /\ f.pc = Top.pc
    <3>1. Top.left - 1 \in Nat
      BY <1>1, <2>1 DEF Frame
    <3> QED
      BY <2>1, <3>1 DEF Frame
  <2>3. stack' = Append(Popped, f) /\ inner' = inner
    BY DEF visit_var_subscript
  <2> HIDE DEF f
  <2> QED
    BY <1>1, <2>2, <2>3, HandlerMoves DEF IInv
<1> QED
  BY <1>2, <1>3, <1>4 DEF IInv

\* A handler that only fills the current block and returns.
LEMMA ExpressionKeeps == ASSUME IInv, visit_expresion_stmt PROVE IInv'
<1>1. /\ phase = "body" /\ phase' = "body" /\ stack # << >> /\ Top.pc # "list"
      /\ stack' = Popped /\ inner' = inner
      /\ UNCHANGED << placed, insert, curr_block >>
  BY DEF visit_expresion_stmt, Evaluated, At
<1>2. PlainInv'
  BY DEF visit_expresion_stmt, flags, IInv, PlainInv
<1>3. EmitInv'
  <2>1. blocks \in Seq(Code) /\ Effect(Top.node.tag) \in Item
    BY <1>1, AtWork, ItemTypes
  <2>2. blocks' \in Seq(Code) /\ Len(blocks') = Len(blocks)
    BY <2>1, EmitType DEF visit_expresion_stmt
  <2> QED
    BY <1>1, <2>2, EmitStays DEF IInv
<1>4. StackInv' /\ ScopeInv'
  BY <1>1, HandlerReturns DEF IInv
<1> QED
  BY <1>2, <1>3, <1>4 DEF IInv

LEMMA ReturnKeeps == ASSUME IInv, visit_return_stmt PROVE IInv'
<1>1. /\ phase = "body" /\ phase' = "body" /\ stack # << >> /\ Top.pc # "list"
      /\ stack' = Popped /\ inner' = inner
      /\ UNCHANGED << placed, insert, curr_block >>
  BY DEF visit_return_stmt, Evaluated, At
<1>2. PlainInv'
  BY DEF visit_return_stmt, IInv, PlainInv
<1>3. EmitInv'
  <2> DEFINE tag == Top.node.tag
             stored == IF Top.node.value THEN Emit(blocks, insert, ResultStore(tag)) ELSE blocks
  <2>1. /\ blocks \in Seq(Code)
        /\ ResultStore(tag) \in Item /\ Br(tag, return_block) \in Item
    BY <1>1, AtWork, ItemTypes DEF return_block
  <2>2. stored \in Seq(Code) /\ Len(stored) = Len(blocks)
    <3>1. /\ Emit(blocks, insert, ResultStore(tag)) \in Seq(Code)
          /\ Len(Emit(blocks, insert, ResultStore(tag))) = Len(blocks)
      BY <2>1, EmitType
    <3> QED
      BY <2>1, <3>1
  <2>3. blocks' = Emit(stored, insert, Br(tag, return_block))
    BY DEF visit_return_stmt
  <2> HIDE DEF stored
  <2>4. blocks' \in Seq(Code) /\ Len(blocks') = Len(blocks)
    BY <2>1, <2>2, <2>3, EmitType
  <2> QED
    BY <1>1, <2>4, EmitStays DEF IInv
<1>4. StackInv' /\ ScopeInv'
  BY <1>1, HandlerReturns DEF IInv
<1> QED
  BY <1>2, <1>3, <1>4 DEF IInv

LEMMA EmptyKeeps == ASSUME IInv, visit_empty_stmt PROVE IInv'
<1>1. phase = "body" /\ phase' = "crashed" /\ stack' = stack /\ inner' = inner
  BY DEF visit_empty_stmt, At
<1>2. PlainInv'
  BY DEF visit_empty_stmt, flags, IInv, PlainInv
<1>3. EmitInv'
  BY <1>1 DEF visit_empty_stmt, emitting, IInv, EmitInv, CurrBlockIsInsertionPoint
<1>4. stack' \in Seq(Frame) /\ InScopeOf(stack') = InScopeOf(stack)
      /\ \A k \in InScopeOf(stack) : stack'[k].node = stack[k].node
  BY <1>1 DEF IInv, StackInv
<1>5. StackInv' /\ ScopeInv'
  BY <1>1, <1>4, SameInScope DEF IInv
<1> QED
  BY <1>2, <1>3, <1>5 DEF IInv

LEMMA ReturnNullKeeps == ASSUME IInv, return_stmt_null PROVE IInv'
<1>1. phase = "body" /\ phase' = "crashed" /\ stack' = stack /\ inner' = inner
  BY DEF return_stmt_null, Evaluated, At
<1>2. PlainInv'
  BY DEF return_stmt_null, flags, IInv, PlainInv
<1>3. EmitInv'
  BY <1>1 DEF return_stmt_null, emitting, IInv, EmitInv, CurrBlockIsInsertionPoint
<1>4. stack' \in Seq(Frame) /\ InScopeOf(stack') = InScopeOf(stack)
      /\ \A k \in InScopeOf(stack) : stack'[k].node = stack[k].node
  BY <1>1 DEF IInv, StackInv
<1>5. StackInv' /\ ScopeInv'
  BY <1>1, <1>4, SameInScope DEF IInv
<1> QED
  BY <1>2, <1>3, <1>5 DEF IInv

LEMMA SelectionThenKeeps == ASSUME IInv, selection_stmt_then PROVE IInv'
<1> DEFINE f == [Top EXCEPT !.pc = "then", !.orig_block = curr_block, !.trueBB = NewBlock]
           s == Top.node.then
<1>1. /\ phase = "body" /\ phase' = "body" /\ stack # << >>
      /\ Top.node.kind = "if" /\ Top.pc = "eval"
  BY DEF selection_stmt_then, Evaluated, At
<1>2. PlainInv'
  BY DEF selection_stmt_then, flags, IInv, PlainInv
<1>3. EmitInv'
  <2>1. blocks \in Seq(Code)
    BY <1>1, AtWork
  <2>2. /\ blocks' = Append(blocks, << >>)
        /\ placed' = placed \cup {NewBlock} /\ MoveTo(NewBlock)
    BY DEF selection_stmt_then
  <2> QED
    BY <1>1, <2>1, <2>2, MovesToNew DEF IInv
<1>4. StackInv' /\ ScopeInv'
  <2>1. Top \in Frame /\ s \in Stmt /\ curr_block \in Nat /\ NewBlock \in Nat
    BY <1>1, AtWork DEF IsStmt
  <2>2. f \in Frame /\ f.node = Top.node /\ f.pc = "then"
    BY <2>1 DEF Frame
  <2>3. stack' = Call(f, s) /\ inner' = inner
    BY DEF selection_stmt_then
  <2> HIDE DEF f
  <2> QED
    BY <1>1, <2>1, <2>2, <2>3, HandlerMoves DEF IInv
<1> QED
  BY <1>2, <1>3, <1>4 DEF IInv

LEMMA SelectionElseKeeps == ASSUME IInv, selection_stmt_else PROVE IInv'
<1> DEFINE f == [Top EXCEPT !.pc = "else", !.falseBB = NewBlock,
                            !.trueBB_location = curr_block,
                            !.trueBB_returned = is_returned_record]
           s == Top.node.else
<1>1. /\ phase = "body" /\ phase' = "body" /\ stack # << >>
      /\ Top.node.kind = "if" /\ Top.pc = "then" /\ Top.node.else # NoStmt
  BY DEF selection_stmt_else, At
<1>2. PlainInv'
  BY DEF selection_stmt_else, flags, IInv, PlainInv
<1>3. EmitInv'
  <2>1. blocks \in Seq(Code)
    BY <1>1, AtWork
  <2>2. /\ blocks' = Append(blocks, << >>)
        /\ placed' = placed \cup {NewBlock} /\ MoveTo(NewBlock)
    BY DEF selection_stmt_else
  <2> QED
    BY <1>1, <2>1, <2>2, MovesToNew DEF IInv
<1>4. StackInv' /\ ScopeInv'
  <2>1. Top \in Frame /\ s \in Stmt /\ curr_block \in Nat /\ NewBlock \in Nat
    BY <1>1, AtWork DEF IsStmt
  <2>2. is_returned_record \in BOOLEAN
    BY DEF IInv, PlainInv
  <2>3. f \in Frame /\ f.node = Top.node /\ f.pc = "else"
    BY <2>1, <2>2 DEF Frame
  <2>4. stack' = Call(f, s) /\ inner' = inner
    BY DEF selection_stmt_else
  <2> HIDE DEF f
  <2> QED
    BY <1>1, <2>1, <2>3, <2>4, HandlerMoves DEF IInv
<1> QED
  BY <1>2, <1>3, <1>4 DEF IInv

LEMMA SelectionEndKeeps == ASSUME IInv, selection_stmt_end PROVE IInv'
<1>1. /\ phase = "body" /\ phase' = "body" /\ stack # << >> /\ Top.pc # "list"
      /\ stack' = Popped /\ inner' = inner
  BY DEF selection_stmt_end, At
<1>2. PlainInv'
  BY DEF selection_stmt_end, IInv, PlainInv
<1>3. EmitInv'
  <2> DEFINE endBB == NewBlock
             hasElse == Top.pc = "else"
             trueBB_location == IF hasElse THEN Top.trueBB_location ELSE curr_block
             trueBB_returned == IF hasElse THEN Top.trueBB_returned ELSE is_returned_record
             falseBB == IF hasElse THEN Top.falseBB ELSE endBB
             tag == Top.node.tag
             c1 == Emit(blocks, Top.orig_block, CondBr(tag, Top.trueBB, falseBB))
             c2 == IF trueBB_returned THEN c1 ELSE Emit(c1, trueBB_location, Br(tag, endBB))
             c3 == IF ~hasElse \/ is_returned_record THEN c2 ELSE Emit(c2, curr_block, Br(tag, endBB))
  <2>1. /\ blocks \in Seq(Code) /\ tag \in Tag /\ endBB \in Nat /\ Top \in Frame
        /\ Top.trueBB \in Nat /\ falseBB \in Nat
    BY <1>1, AtWork DEF Frame
  <2>2. CondBr(tag, Top.trueBB, falseBB) \in Item /\ Br(tag, endBB) \in Item
    BY <2>1, ItemTypes
  <2>3. /\ blocks' = Append(c3, << >>)
        /\ placed' = placed \cup {NewBlock} /\ MoveTo(NewBlock)
    BY DEF selection_stmt_end
  <2>4. c1 \in Seq(Code) /\ Len(c1) = Len(blocks)
    BY <2>1, <2>2, EmitType
  <2> HIDE DEF c1
  <2>5. c2 \in Seq(Code) /\ Len(c2) = Len(blocks)
    <3>1. /\ Emit(c1, trueBB_location, Br(tag, endBB)) \in Seq(Code)
          /\ Len(Emit(c1, trueBB_location, Br(tag, endBB))) = Len(c1)
      BY <2>2, <2>4, EmitType
    <3> QED
      BY <2>4, <3>1
  <2> HIDE DEF c2
  <2>6. c3 \in Seq(Code) /\ Len(c3) = Len(blocks)
    <3>1. /\ Emit(c2, curr_block, Br(tag, endBB)) \in Seq(Code)
          /\ Len(Emit(c2, curr_block, Br(tag, endBB))) = Len(c2)
      BY <2>2, <2>5, EmitType
    <3> QED
      BY <2>5, <3>1
  <2> HIDE DEF c3
  <2> QED
    BY <1>1, <2>3, <2>6, MovesToNew DEF IInv
<1>4. StackInv' /\ ScopeInv'
  BY <1>1, HandlerReturns DEF IInv
<1> QED
  BY <1>2, <1>3, <1>4 DEF IInv

LEMMA IterationStartKeeps == ASSUME IInv, iteration_stmt_start PROVE IInv'
<1> DEFINE f == [Top EXCEPT !.pc = "eval", !.orig_block = NewBlock]
<1>1. /\ phase = "body" /\ phase' = "body" /\ stack # << >>
      /\ Top.node.kind = "while" /\ Top.pc = "start"
  BY DEF iteration_stmt_start, At
<1>2. PlainInv'
  BY DEF iteration_stmt_start, flags, IInv, PlainInv
<1>3. EmitInv'
  <2> DEFINE c == Emit(blocks, insert, Br(Top.node.tag, NewBlock))
  <2>1. /\ blocks' = Append(c, << >>)
        /\ placed' = placed \cup {NewBlock} /\ MoveTo(NewBlock)
    BY DEF iteration_stmt_start
  <2>2. c \in Seq(Code) /\ Len(c) = Len(blocks)
    <3>1. blocks \in Seq(Code) /\ Br(Top.node.tag, NewBlock) \in Item
      BY <1>1, AtWork, ItemTypes
    <3> QED
      BY <3>1, EmitType
  <2> HIDE DEF c
  <2> QED
    BY <1>1, <2>1, <2>2, MovesToNew DEF IInv
<1>4. StackInv' /\ ScopeInv'
  <2>1. Top \in Frame /\ NewBlock \in Nat
    BY <1>1, AtWork
  <2>2. f \in Frame /\ f.node = Top.node /\ f.pc = "eval"
    BY <2>1 DEF Frame
  <2>3. stack' = Append(Popped, f) /\ inner' = inner
    BY DEF iteration_stmt_start
  <2> HIDE DEF f
  <2> QED
    BY <1>1, <2>2, <2>3, HandlerMoves DEF IInv
<1> QED
  BY <1>2, <1>3, <1>4 DEF IInv

LEMMA IterationBodyKeeps == ASSUME IInv, iteration_stmt_body PROVE IInv'
<1> DEFINE f == [Top EXCEPT !.pc = "body", !.trueBB = NewBlock]
           s == Top.node.body
<1>1. /\ phase = "body" /\ phase' = "body" /\ stack # << >>
      /\ Top.node.kind = "while" /\ Top.pc = "eval"
  BY DEF iteration_stmt_body, Evaluated, At
<1>2. PlainInv'
  BY DEF iteration_stmt_body, flags, IInv, PlainInv
<1>3. EmitInv'
  <2>1. blocks \in Seq(Code)
    BY <1>1, AtWork
  <2>2. /\ blocks' = Append(blocks, << >>)
        /\ placed' = placed \cup {NewBlock} /\ MoveTo(NewBlock)
    BY DEF iteration_stmt_body
  <2> QED
    BY <1>1, <2>1, <2>2, MovesToNew DEF IInv
<1>4. StackInv' /\ ScopeInv'
  <2>1. Top \in Frame /\ s \in Stmt /\ NewBlock \in Nat
    BY <1>1, AtWork DEF IsStmt
  <2>2. f \in Frame /\ f.node = Top.node /\ f.pc = "body"
    BY <2>1 DEF Frame
  <2>3. stack' = Call(f, s) /\ inner' = inner
    BY DEF iteration_stmt_body
  <2> HIDE DEF f
  <2> QED
    BY <1>1, <2>1, <2>2, <2>3, HandlerMoves DEF IInv
<1> QED
  BY <1>2, <1>3, <1>4 DEF IInv

LEMMA IterationEndKeeps == ASSUME IInv, iteration_stmt_end PROVE IInv'
<1>1. /\ phase = "body" /\ phase' = "body" /\ stack # << >> /\ Top.pc # "list"
      /\ stack' = Popped /\ inner' = inner
  BY DEF iteration_stmt_end, At
<1>2. PlainInv'
  BY DEF iteration_stmt_end, IInv, PlainInv
<1>3. EmitInv'
  <2> DEFINE endBB == NewBlock
             tag == Top.node.tag
             c1 == IF is_returned_record THEN blocks ELSE Emit(blocks, insert, Br(tag, Top.orig_block))
             c2 == Emit(c1, Top.orig_block, CondBr(tag, Top.trueBB, endBB))
  <2>1. /\ blocks \in Seq(Code) /\ tag \in Tag /\ endBB \in Nat
        /\ Top.trueBB \in Nat /\ Top.orig_block \in Nat
    BY <1>1, AtWork DEF Frame
  <2>2. CondBr(tag, Top.trueBB, endBB) \in Item /\ Br(tag, Top.orig_block) \in Item
    BY <2>1, ItemTypes
  <2>3. /\ blocks' = Append(c2, << >>)
        /\ placed' = placed \cup {NewBlock} /\ MoveTo(NewBlock)
    BY DEF iteration_stmt_end
  <2>4. c1 \in Seq(Code) /\ Len(c1) = Len(blocks)
    <3>1. /\ Emit(blocks, insert, Br(tag, Top.orig_block)) \in Seq(Code)
          /\ Len(Emit(blocks, insert, Br(tag, Top.orig_block))) = Len(blocks)
      BY <2>1, <2>2, EmitType
    <3> QED
      BY <2>1, <3>1
  <2> HIDE DEF c1
  <2>5. c2 \in Seq(Code) /\ Len(c2) = Len(blocks)
    BY <2>2, <2>4, EmitType
  <2> HIDE DEF c2
  <2> QED
    BY <1>1, <2>3, <2>5, MovesToNew DEF IInv
<1>4. StackInv' /\ ScopeInv'
  BY <1>1, HandlerReturns DEF IInv
<1> QED
  BY <1>2, <1>3, <1>4 DEF IInv

LEMMA StutterKeeps == ASSUME IInv, UNCHANGED vars PROVE IInv'
<1>1. PlainInv'
  BY DEF vars, IInv, PlainInv
<1>2. EmitInv'
  BY DEF vars, IInv, EmitInv, CurrBlockIsInsertionPoint
<1>3. StackInv'
  BY DEF vars, IInv, StackInv
<1>4. ScopeInv'
  BY DEF vars, IInv, ScopeInv, Outside
<1> QED
  BY <1>1, <1>2, <1>3, <1>4 DEF IInv

\* IInv is inductive.
LEMMA Invariance == Spec => []IInv
<1>1. IInv /\ [Next]_vars => IInv'
  <2> SUFFICES ASSUME IInv, [Next]_vars PROVE IInv'
    OBVIOUS
  <2>1. CASE visit_var_declaration
    BY <2>1, VarDeclarationKeeps
  <2>2. CASE fun_declaration_begin
    BY <2>2, FunctionBeginKeeps
  <2>3. CASE fun_declaration_end
    BY <2>3, FunctionEndKeeps
  <2>4. CASE compound_stmt_enter
    BY <2>4, CompoundEnterKeeps
  <2>5. CASE compound_stmt_next
    BY <2>5, CompoundNextKeeps
  <2>6. CASE compound_stmt_exit
    BY <2>6, CompoundExitKeeps
  <2>7. CASE visit_var_subscript
    BY <2>7, SubscriptKeeps
  <2>8. CASE visit_expresion_stmt
    BY <2>8, ExpressionKeeps
  <2>9. CASE visit_empty_stmt
    BY <2>9, EmptyKeeps
  <2>10. CASE selection_stmt_then
    BY <2>10, SelectionThenKeeps
  <2>11. CASE selection_stmt_else
    BY <2>11, SelectionElseKeeps
  <2>12. CASE selection_stmt_end
    BY <2>12, SelectionEndKeeps
  <2>13. CASE iteration_stmt_start
    BY <2>13, IterationStartKeeps
  <2>14. CASE iteration_stmt_body
    BY <2>14, IterationBodyKeeps
  <2>15. CASE iteration_stmt_end
    BY <2>15, IterationEndKeeps
  <2>16. CASE visit_return_stmt
    BY <2>16, ReturnKeeps
  <2>17. CASE return_stmt_null
    BY <2>17, ReturnNullKeeps
  <2>18. CASE UNCHANGED vars
    BY <2>18, StutterKeeps
  <2> QED
    BY <2>1, <2>2, <2>3, <2>4, <2>5, <2>6, <2>7, <2>8, <2>9, <2>10, <2>11, <2>12,
       <2>13, <2>14, <2>15, <2>16, <2>17, <2>18 DEF Next, Walk, Stopped
<1> QED
  BY <1>1, InitInv, PTL DEF Spec

\* The visitor keeps its types, for every set of programs.
THEOREM TypeCorrect == Spec => []TypeOK
<1>1. IInv => TypeOK
  BY DEF IInv, PlainInv, EmitInv, StackInv, ScopeInv, TypeOK, Code
<1> QED
  BY <1>1, Invariance, PTL

\* Between two pieces of code curr_block is where the builder inserts: the
\* back-patching of if and while may rely on the global, for every program.
THEOREM CurrBlockFollowsBuilder == Spec => []CurrBlockIsInsertionPoint
<1>1. IInv => CurrBlockIsInsertionPoint
  BY DEF IInv, EmitInv
<1> QED
  BY <1>1, Invariance, PTL

\* A name bound by the innermost map is found there (Scope::find).
LEMMA FindInnermost ==
    ASSUME NEW s, NEW n, Len(s) \in Nat, Len(s) > 0, n \in DOMAIN s[Len(s)]
    PROVE  Find(s, n) = s[Len(s)][n]
<1> DEFINE top == Len(s)
<1>1. top \in 1..top /\ top \in Nat
  OBVIOUS
<1> HIDE DEF top
<1>2. \A i \in 1..top : StopsAt(s, top, n, i) => i = top
  BY <1>1 DEF StopsAt, top
<1>3. StopsAt(s, top, n, top)
  BY <1>1 DEF StopsAt, top
<1>4. (CHOOSE i \in 1..top : StopsAt(s, top, n, i)) = top
  BY <1>1, <1>2, <1>3
<1> QED
  BY <1>1, <1>3, <1>4 DEF Find, FindFrom, top

\* The scope stack mirrors the nesting of the handlers in every program: each
\* way out of a compound statement, the break after a return included, exits
\* exactly the scope that was entered.
THEOREM ScopesAreBalanced == Spec => []ScopesMirrorNesting
<1>1. IInv => ScopesMirrorNesting
  <2> SUFFICES ASSUME IInv PROVE ScopesMirrorNesting
    OBVIOUS
  <2>0. InScope = InScopeOf(stack)
    BY DEF InScope, InScopeOf
  <2>1. Len(inner) = 1 + (IF phase = "decls" THEN 0 ELSE 1) + Cardinality(InScope)
    <3>1. Outside = 1 + (IF phase = "decls" THEN 0 ELSE 1)
      BY DEF Outside
    <3> QED
      BY <2>0, <3>1 DEF IInv, ScopeInv
  <2>2. ASSUME stack # << >>, Top.pc = "list", NEW i \in DOMAIN Top.node.locals
        PROVE  Find(inner, Top.node.locals[i]) = "local"
    <3> DEFINE n == Len(stack)
    <3>1. stack \in Seq(Frame) /\ n \in Nat /\ n > 0
      BY <2>2, TopAndPopped DEF IInv, StackInv
    <3>2. phase # "decls"
      BY <2>2 DEF IInv, StackInv
    <3>3. n \in InScopeOf(stack)
      <4>1. n \in 1..n
        BY <3>1
      <4> QED
        BY <2>2, <3>1, <4>1, InScopeFinite DEF Top
    <3>4. /\ ScopeOf(stack, n) \in Nat /\ 3 <= ScopeOf(stack, n)
          /\ ScopeOf(stack, n) = 2 + Cardinality(InScopeOf(stack))
      BY <3>1, <3>3, ScopePlace
    <3>5. Len(inner) = 2 + Cardinality(InScopeOf(stack))
      BY <3>2 DEF IInv, ScopeInv, Outside
    <3>6. Len(inner) = ScopeOf(stack, n) /\ Len(inner) \in Nat /\ Len(inner) > 0
      BY <3>4, <3>5
    <3>7. BindsLocals(inner[Len(inner)], Top.node)
      BY <3>3, <3>6 DEF IInv, ScopeInv, Top
    <3>8. /\ Top.node.locals[i] \in DOMAIN inner[Len(inner)]
          /\ inner[Len(inner)][Top.node.locals[i]] = "local"
      BY <2>2, <3>7 DEF BindsLocals
    <3> QED
      BY <3>6, <3>8, FindInnermost
  <2>3. \A n \in DOMAIN inner[1] : inner[1][n] \in {"function", "global"}
    BY DEF IInv, ScopeInv, Globals
  <2> QED
    BY <2>1, <2>2, <2>3 DEF ScopesMirrorNesting
<1> QED
  BY <1>1, Invariance, PTL
=============================================================================
