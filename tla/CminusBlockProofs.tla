------------------------- MODULE CminusBlockProofs -------------------------
(***************************************************************************)
(* Proofs about the basic blocks CminusBuilder emits: where their branches *)
(* lead, for every set of programs, and, for the programs of class         *)
(* WellBehaved, that each block gets exactly one terminator, at its end,   *)
(* and that the return value goes to the function's own slot.              *)
(***************************************************************************)
EXTENDS CminusBuilderProofs

-----------------------------------------------------------------------------
(* Where branches lead.                                                    *)

ToInside(i, P) == \A k \in 1..Len(i.to) : i.to[k] \in P
Inside(code, P) == \A i \in 1..Len(code) : ToInside(code[i], P)
AllInside(c, P) == \A b \in 1..Len(c) : Inside(c[b], P)

\* The blocks a handler keeps to branch to them later.
FrameInside(f, P) ==
    /\ f.pc \in {"then", "else", "body"} => f.trueBB \in P
    /\ f.pc = "else" => f.falseBB \in P
    /\ f.node.kind = "while" /\ f.pc \in {"eval", "body"} => f.orig_block \in P

FramesInside(t, P) == \A k \in 1..Len(t) : FrameInside(t[k], P)

LEMMA ItemsInside ==
    ASSUME NEW P
    PROVE  /\ ToInside(Ret, P) /\ ToInside(Alloca, P)
           /\ \A tag : ToInside(Effect(tag), P) /\ ToInside(StoreResult(tag), P) /\ ToInside(CallExcept(tag), P)
           /\ \A tag : ToInside(ResultStore(tag), P)
           /\ \A tag, b : b \in P => ToInside(Br(tag, b), P)
           /\ \A tag, b, c : b \in P /\ c \in P => ToInside(CondBr(tag, b, c), P) /\ ToInside(CheckBr(tag, b, c), P)
<1>1. \A i : i.to = << >> => ToInside(i, P)
  BY DEF ToInside
<1>2. \A i, b : i.to = << b >> /\ b \in P => ToInside(i, P)
  BY DEF ToInside
<1>3. \A i, b, c : i.to = << b, c >> /\ b \in P /\ c \in P => ToInside(i, P)
  <2> SUFFICES ASSUME NEW i, NEW b \in P, NEW c \in P, i.to = << b, c >>, NEW k \in 1..2
               PROVE  i.to[k] \in P
    BY DEF ToInside
  <2>1. k = 1 \/ k = 2
    OBVIOUS
  <2> QED
    BY <2>1
<1>4. Ret.to = << >> /\ Alloca.to = << >>
  BY DEF Ret, Alloca
<1>5. \A tag : Effect(tag).to = << >> /\ StoreResult(tag).to = << >> /\ CallExcept(tag).to = << >>
  BY DEF Effect, StoreResult, CallExcept
<1>6. \A tag, b : Br(tag, b).to = << b >>
  BY DEF Br
<1>7. \A tag, b, c : CondBr(tag, b, c).to = << b, c >> /\ CheckBr(tag, b, c).to = << b, c >>
  BY DEF CondBr, CheckBr
<1>8. ToInside(Ret, P) /\ ToInside(Alloca, P)
  BY <1>1, <1>4
<1>9. \A tag : ToInside(Effect(tag), P) /\ ToInside(StoreResult(tag), P) /\ ToInside(CallExcept(tag), P)
  BY <1>1, <1>5
<1>10. \A tag, b : b \in P => ToInside(Br(tag, b), P)
  BY <1>2, <1>6
<1>11. \A tag, b, c : b \in P /\ c \in P => ToInside(CondBr(tag, b, c), P) /\ ToInside(CheckBr(tag, b, c), P)
  BY <1>3, <1>7
<1>12. \A tag : ResultStore(tag).to = << >>
  BY DEF ResultStore, StoreResult, StrayStore
<1>13. \A tag : ToInside(ResultStore(tag), P)
  BY <1>1, <1>12
<1> QED
  BY <1>8, <1>9, <1>10, <1>11, <1>13

LEMMA InsideMore ==
    ASSUME NEW c, NEW P, NEW Q, P \subseteq Q, AllInside(c, P) PROVE AllInside(c, Q)
  BY DEF AllInside, Inside, ToInside

LEMMA AppendInside ==
    ASSUME NEW code \in Code, NEW i \in Item, NEW P, Inside(code, P), ToInside(i, P)
    PROVE  Inside(Append(code, i), P)
<1> DEFINE d == Append(code, i)
<1>1. /\ Len(code) \in Nat /\ Len(d) = Len(code) + 1
      /\ \A k \in 1..Len(code) : d[k] = code[k]
      /\ d[Len(code) + 1] = i
  BY AppendProperties, LenProperties DEF Code
<1> HIDE DEF d
<1>2. \A k \in 1..Len(d) : k \in 1..Len(code) \/ k = Len(code) + 1
  BY <1>1
<1>3. \A k \in 1..Len(d) : ToInside(d[k], P)
  BY <1>1, <1>2 DEF Inside
<1> QED
  BY <1>3 DEF Inside, d

LEMMA EmitInside ==
    ASSUME NEW c \in Seq(Code), NEW b, NEW i \in Item, NEW P, AllInside(c, P), ToInside(i, P)
    PROVE  AllInside(Emit(c, b, i), P)
<1>1. CASE b \in 1..Len(c)
  <2>1. c[b] \in Code /\ Inside(c[b], P)
    BY <1>1, ElementOfSeq DEF AllInside
  <2>2. Inside(Append(c[b], i), P)
    BY <2>1, AppendInside
  <2>3. /\ Len(Emit(c, b, i)) = Len(c)
        /\ \A k \in 1..Len(c) : k # b => Emit(c, b, i)[k] = c[k]
        /\ Emit(c, b, i)[b] = Append(c[b], i)
    BY <1>1, Emitted
  <2> DEFINE e == Emit(c, b, i)
             d == Append(c[b], i)
  <2> HIDE DEF e, d
  <2>4. Len(e) = Len(c) /\ (\A k \in 1..Len(c) : e[k] = IF k = b THEN d ELSE c[k]) /\ Inside(d, P)
    BY <2>2, <2>3 DEF e, d
  <2>5. AllInside(e, P)
    BY <2>4 DEF AllInside
  <2> QED
    BY <2>5 DEF e
<1>2. CASE b \notin 1..Len(c)
  <2>1. DOMAIN c = 1..Len(c)
    BY LenProperties
  <2>2. Emit(c, b, i) = c
    BY <1>2, <2>1 DEF Emit
  <2> QED
    BY <2>2
<1> QED
  BY <1>1, <1>2

LEMMA NewInside ==
    ASSUME NEW c \in Seq(Code), NEW P, AllInside(c, P)
    PROVE  AllInside(Append(c, << >>), P)
<1> DEFINE d == Append(c, << >>)
<1>1. /\ Len(c) \in Nat /\ Len(d) = Len(c) + 1
      /\ \A k \in 1..Len(c) : d[k] = c[k]
      /\ d[Len(c) + 1] = << >>
  BY EmptyCode, Created, LenProperties
<1>2. Inside(<< >>, P)
  BY DEF Inside
<1> HIDE DEF d
<1>3. \A k \in 1..Len(d) : k \in 1..Len(c) \/ k = Len(c) + 1
  BY <1>1
<1>4. \A k \in 1..Len(d) : Inside(d[k], P)
  BY <1>1, <1>2, <1>3 DEF AllInside
<1> QED
  BY <1>4 DEF AllInside, d

\* Two blocks more.
LEMMA TwoMore ==
    ASSUME NEW c \in Seq(Code), NEW d \in Code, NEW e \in Code
    PROVE  LET g == c \o << d, e >>
           IN  /\ g \in Seq(Code) /\ Len(g) = Len(c) + 2
               /\ \A k \in 1..Len(c) : g[k] = c[k]
               /\ g[Len(c) + 1] = d /\ g[Len(c) + 2] = e
<1> DEFINE two == << d, e >>
           n == Len(c)
<1>1. two \in Seq(Code) /\ Len(two) = 2 /\ two[1] = d /\ two[2] = e
  OBVIOUS
<1>2. n \in Nat
  BY LenProperties
<1> DEFINE g == c \o two
<1> HIDE DEF two
<1>3. /\ g \in Seq(Code)
      /\ Len(g) = n + Len(two)
      /\ \A i \in 1..(n + Len(two)) : g[i] = IF i <= n THEN c[i] ELSE two[i - n]
  BY <1>1, ConcatProperties
<1> HIDE DEF g, n
<1>4. g \in Seq(Code) /\ Len(g) = n + 2
      /\ \A i \in 1..(n + 2) : g[i] = IF i <= n THEN c[i] ELSE two[i - n]
  BY <1>1, <1>3
<1>5. \A k \in 1..n : k \in 1..(n + 2) /\ k <= n
  BY <1>2
<1>6. n + 1 - n = 1 /\ n + 2 - n = 2 /\ n + 1 \in 1..(n + 2) /\ n + 2 \in 1..(n + 2) /\ ~(n + 1 <= n) /\ ~(n + 2 <= n)
  BY <1>2
<1>7. g[n + 1] = d /\ g[n + 2] = e
  <2>1. g[n + 1] = two[n + 1 - n]
    BY <1>2, <1>4, <1>6
  <2>2. g[n + 2] = two[n + 2 - n]
    BY <1>2, <1>4, <1>6
  <2>3. two[n + 1 - n] = two[1] /\ two[n + 2 - n] = two[2]
    BY <1>6
  <2> QED
    BY <1>1, <2>1, <2>2, <2>3
<1>8. \A k \in 1..n : g[k] = c[k]
  BY <1>4, <1>5
<1> QED
  BY <1>4, <1>7, <1>8 DEF g, n, two

LEMMA HandlerInside == \A s, P : FrameInside(Handler(s), P)
  BY DEF Handler, FrameInside

\* The innermost handler moves on, calls another or returns.
LEMMA FramesMove ==
    ASSUME stack \in Seq(Frame), stack # << >>, NEW P, NEW Q, P \subseteq Q, FramesInside(stack, P),
           NEW f \in Frame, FrameInside(f, Q), stack' = Append(Popped, f)
    PROVE  FramesInside(stack', Q)
<1>1. /\ Len(stack) \in Nat /\ Len(stack) > 0 /\ Len(stack') = Len(stack)
      /\ \A k \in 1..(Len(stack) - 1) : stack'[k] = stack[k]
      /\ stack'[Len(stack)] = f
  BY TopAndPopped, Replaced
<1>2. \A k \in 1..Len(stack) : k \in 1..(Len(stack) - 1) \/ k = Len(stack)
  BY <1>1
<1> QED
  BY <1>1, <1>2 DEF FramesInside, FrameInside

LEMMA FramesCall ==
    ASSUME stack \in Seq(Frame), stack # << >>, NEW P, NEW Q, P \subseteq Q, FramesInside(stack, P),
           NEW f \in Frame, FrameInside(f, Q), NEW s \in Stmt, stack' = Call(f, s)
    PROVE  FramesInside(stack', Q)
<1>1. /\ Len(stack) \in Nat /\ Len(stack) > 0 /\ Len(stack') = Len(stack) + 1
      /\ \A k \in 1..(Len(stack) - 1) : stack'[k] = stack[k]
      /\ stack'[Len(stack)] = f /\ stack'[Len(stack) + 1] = Handler(s)
  BY TopAndPopped, Called
<1>2. \A k \in 1..(Len(stack) + 1) : k \in 1..(Len(stack) - 1) \/ k = Len(stack) \/ k = Len(stack) + 1
  BY <1>1
<1>3. FrameInside(Handler(s), Q)
  BY HandlerInside
<1>4. \A k \in 1..(Len(stack) - 1) : FrameInside(stack[k], Q)
  BY <1>1 DEF FramesInside, FrameInside
<1> QED
  BY <1>1, <1>2, <1>3, <1>4 DEF FramesInside

LEMMA FramesReturn ==
    ASSUME stack \in Seq(Frame), stack # << >>, NEW P, NEW Q, P \subseteq Q, FramesInside(stack, P),
           stack' = Popped
    PROVE  FramesInside(stack', Q)
<1>1. /\ Len(stack) \in Nat /\ Len(stack) > 0 /\ Len(stack') = Len(stack) - 1
      /\ \A k \in 1..(Len(stack) - 1) : stack'[k] = stack[k]
  BY TopAndPopped
<1>2. \A k \in 1..(Len(stack) - 1) : k \in 1..Len(stack)
  BY <1>1
<1> QED
  BY <1>1, <1>2 DEF FramesInside, FrameInside

\* The blocks a branch may lead to while the function is being built.
Targets(P) == (P \cup {return_block}) \ {entrybb}

TargetInv ==
    /\ phase = "body" => AllInside(blocks, Targets(placed)) /\ FramesInside(stack, placed \ {entrybb})
    /\ BranchesStayInside

\* A step inside a function.
LEMMA TargetsKept ==
    ASSUME phase' = "body", AllInside(blocks', Targets(placed')), FramesInside(stack', placed' \ {entrybb})
    PROVE  TargetInv'
  BY DEF TargetInv, BranchesStayInside

\* The handler about to move, and what it may branch to.
LEMMA BranchesAtWork ==
    ASSUME IInv, TargetInv, phase = "body", stack # << >>
    PROVE  /\ AllInside(blocks, Targets(placed)) /\ FramesInside(stack, placed \ {entrybb})
           /\ FrameInside(Top, placed \ {entrybb})
           /\ NewBlock \in placed \cup {NewBlock} /\ NewBlock # entrybb /\ NewBlock + 1 # entrybb
           /\ return_block \in Targets(placed)
           /\ \A P : Targets(placed) \subseteq Targets(placed \cup P)
           /\ \A P : placed \ {entrybb} \subseteq (placed \cup P) \ {entrybb}
           /\ \A P : (P \ {entrybb}) \subseteq Targets(P)
<1>1. AllInside(blocks, Targets(placed)) /\ FramesInside(stack, placed \ {entrybb})
  BY DEF TargetInv
<1>2. Len(stack) \in 1..Len(stack)
  BY TopAndPopped DEF IInv, StackInv
<1>3. FrameInside(Top, placed \ {entrybb})
  BY <1>1, <1>2 DEF FramesInside, Top
<1>4. NewBlock # entrybb /\ NewBlock + 1 # entrybb
  BY AtWork DEF NewBlock, entrybb
<1> QED
  BY <1>1, <1>3, <1>4 DEF Targets, return_block, entrybb

LEMMA FunctionBeginTargets == ASSUME IInv, TargetInv, fun_declaration_begin PROVE TargetInv'
<1> DEFINE fun == Head(todo)
           first == IF fun.params # << >> \/ ~fun.void THEN << Alloca >> ELSE << >>
           P == Targets(placed')
<1>1. /\ phase' = "body" /\ blocks' = << << >>, first >>
      /\ stack' = << Handler(fun.body) >>
  BY DEF fun_declaration_begin
<1>2. Inside(<< >>, P) /\ Inside(<< Alloca >>, P)
  BY ItemsInside DEF Inside
<1>3. Inside(first, P)
  BY <1>2
<1> HIDE DEF first, P
<1>4. AllInside(<< << >>, first >>, P)
  <2>1. \A b \in 1..2 : b = 1 \/ b = 2
    OBVIOUS
  <2> QED
    BY <1>2, <1>3, <2>1 DEF AllInside
<1>5. FramesInside(stack', placed' \ {entrybb})
  BY <1>1, HandlerInside DEF FramesInside
<1> QED
  BY <1>1, <1>4, <1>5, TargetsKept DEF P

LEMMA FunctionEndTargets == ASSUME IInv, TargetInv, fun_declaration_end PROVE TargetInv'
<1>1. /\ phase = "body" /\ phase' = "decls" /\ placed' = placed \cup {return_block}
      /\ blocks' = Emit(blocks, return_block, Ret)
  BY DEF fun_declaration_end
<1>2. blocks \in Seq(Code) /\ placed \subseteq 1..Len(blocks) /\ Len(blocks) \in Nat /\ Len(blocks) >= 2
  BY <1>1, LenProperties DEF IInv, EmitInv
<1>3. AllInside(blocks', Targets(placed)) /\ Len(blocks') = Len(blocks)
  BY <1>1, <1>2, EmitInside, EmitType, ItemsInside, ItemTypes DEF TargetInv
<1>4. Targets(placed) = placed' \ {entrybb}
  BY <1>1 DEF Targets
<1>5. placed' \subseteq 1..Len(blocks')
  BY <1>1, <1>2, <1>3 DEF return_block
<1>6. BranchesStayInside'
  BY <1>3, <1>4, <1>5 DEF BranchesStayInside, AllInside, Inside, ToInside
<1> QED
  BY <1>1, <1>6 DEF TargetInv

LEMMA CompoundTargets ==
    ASSUME IInv, TargetInv, compound_stmt_enter \/ compound_stmt_next \/ compound_stmt_exit
    PROVE  TargetInv'
<1>1. /\ phase = "body" /\ phase' = "body" /\ stack # << >> /\ placed' = placed
      /\ Top.node.kind = "compound"
  BY DEF compound_stmt_enter, compound_stmt_next, compound_stmt_exit, At, emitting
<1>2. /\ stack \in Seq(Frame) /\ Top \in Frame /\ IsStmt(Top.node) /\ blocks \in Seq(Code)
  BY <1>1, AtWork
<1>3. AllInside(blocks', Targets(placed'))
  <2>1. blocks' = blocks \/ blocks' = Emit(blocks, insert, Alloca)
    BY DEF compound_stmt_enter, compound_stmt_next, compound_stmt_exit, emitting
  <2> QED
    BY <1>1, <1>2, <2>1, BranchesAtWork, EmitInside, ItemsInside, ItemTypes
<1>4. FramesInside(stack', placed' \ {entrybb})
  <2>1. FramesInside(stack, placed' \ {entrybb})
    BY <1>1, BranchesAtWork
  <2>2. CASE compound_stmt_enter
    <3> DEFINE f == [Top EXCEPT !.pc = "list"]
    <3>1. f \in Frame /\ f.node = Top.node /\ f.pc = "list"
      BY <1>2 DEF Frame
    <3>2. stack' = Append(Popped, f)
      BY <2>2 DEF compound_stmt_enter
    <3> HIDE DEF f
    <3>3. FrameInside(f, placed' \ {entrybb})
      BY <1>1, <3>1 DEF FrameInside
    <3> QED
      BY <1>1, <1>2, <2>1, <3>1, <3>2, <3>3, FramesMove
  <2>3. CASE compound_stmt_next
    <3> DEFINE f == [Top EXCEPT !.next = @ + 1]
               s == Top.node.list[Top.next]
    <3>0. Top \in Frame /\ Top.pc = "list"
      BY <1>2, <2>3 DEF compound_stmt_next, At
    <3>1. f \in Frame /\ f.node = Top.node /\ f.pc = "list"
      BY <3>0 DEF Frame
    <3>2. stack' = Call(f, s)
      BY <2>3 DEF compound_stmt_next
    <3>3. s \in Stmt
      <4>1. Top.next \in Nat /\ Top.next # 0 /\ Top.next <= Len(Top.node.list) /\ Top.node.list \in Seq(Stmt)
        BY <1>1, <1>2, <2>3 DEF Frame, compound_stmt_next, IsStmt
      <4> QED
        BY <4>1
    <3> HIDE DEF f, s
    <3>4. FrameInside(f, placed' \ {entrybb})
      BY <1>1, <3>1 DEF FrameInside
    <3> QED
      BY <1>1, <1>2, <2>1, <3>1, <3>2, <3>3, <3>4, FramesCall
  <2>4. CASE compound_stmt_exit
    BY <1>1, <1>2, <2>1, <2>4, FramesReturn DEF compound_stmt_exit
  <2> QED
    BY <2>2, <2>3, <2>4
<1> QED
  BY <1>1, <1>3, <1>4, TargetsKept

LEMMA SubscriptTargets == ASSUME IInv, TargetInv, visit_var_subscript PROVE TargetInv'
<1> DEFINE neg == NewBlock
           ok == NewBlock + 1
           tag == Top.node.tag
           P == Targets(placed')
           c == Emit(blocks, insert, CheckBr(tag, neg, ok))
           two == << << CallExcept(tag), Br(tag, ok) >>, << >> >>
           f == [Top EXCEPT !.left = @ - 1]
<1>1. /\ phase = "body" /\ phase' = "body" /\ stack # << >> /\ placed' = placed \cup {neg, ok}
      /\ blocks' = c \o two /\ stack' = Append(Popped, f)
      /\ Top.pc = "eval" /\ Top.left > 0
  BY DEF visit_var_subscript
<1>2. /\ stack \in Seq(Frame) /\ Top \in Frame /\ blocks \in Seq(Code) /\ tag \in Tag
      /\ neg \in Nat /\ ok \in Nat
  BY <1>1, AtWork
<1>3. neg \in P /\ ok \in P /\ AllInside(blocks, P)
  <2>1. AllInside(blocks, Targets(placed)) /\ Targets(placed) \subseteq P
    BY <1>1, BranchesAtWork
  <2>2. neg # entrybb /\ ok # entrybb
    BY <1>1, BranchesAtWork
  <2>3. AllInside(blocks, P)
    BY <2>1, InsideMore
  <2> QED
    BY <1>1, <2>2, <2>3 DEF Targets
<1> HIDE DEF P
<1>4. /\ CheckBr(tag, neg, ok) \in Item /\ CallExcept(tag) \in Item /\ Br(tag, ok) \in Item
      /\ ToInside(CheckBr(tag, neg, ok), P) /\ ToInside(CallExcept(tag), P) /\ ToInside(Br(tag, ok), P)
  BY <1>2, <1>3, ItemTypes, ItemsInside
<1>5. c \in Seq(Code) /\ AllInside(c, P)
  BY <1>2, <1>3, <1>4, EmitType, EmitInside
<1>6. Inside(<< CallExcept(tag), Br(tag, ok) >>, P) /\ Inside(<< >>, P)
  <2> DEFINE i == CallExcept(tag)
             j == Br(tag, ok)
  <2>1. ToInside(i, P) /\ ToInside(j, P)
    BY <1>4
  <2> HIDE DEF i, j
  <2>2. \A k \in 1..2 : k = 1 \/ k = 2
    OBVIOUS
  <2>3. Inside(<< i, j >>, P)
    BY <2>1, <2>2 DEF Inside
  <2> QED
    BY <2>3 DEF Inside, i, j
<1>7. AllInside(c \o two, P)
  <2> DEFINE d == << CallExcept(tag), Br(tag, ok) >>
             g == c \o << d, << >> >>
  <2>1. d \in Code /\ Inside(d, P)
    BY <1>4, <1>6 DEF Code
  <2> HIDE DEF c, d
  <2>2. /\ Len(c) \in Nat /\ Len(g) = Len(c) + 2
        /\ \A k \in 1..Len(c) : g[k] = c[k]
        /\ g[Len(c) + 1] = d /\ g[Len(c) + 2] = << >>
    BY <1>5, <2>1, EmptyCode, TwoMore, LenProperties
  <2> HIDE DEF g
  <2>3. \A k \in 1..Len(g) : k \in 1..Len(c) \/ k = Len(c) + 1 \/ k = Len(c) + 2
    BY <2>2
  <2>4. \A k \in 1..Len(g) : Inside(g[k], P)
    BY <1>5, <1>6, <2>1, <2>2, <2>3 DEF AllInside
  <2> QED
    BY <2>4 DEF AllInside, g, d
<1>8. FramesInside(stack', placed' \ {entrybb})
  <2>1. f \in Frame /\ f.pc = "eval" /\ f.node = Top.node /\ f.orig_block = Top.orig_block
    <3>1. Top \in Frame /\ Top.left > 0 /\ Top.pc = "eval"
      BY <1>1, <1>2
    <3>2. Top.left - 1 \in Nat
      BY <3>1 DEF Frame
    <3> QED
      BY <3>1, <3>2 DEF Frame
  <2> HIDE DEF f
  <2>2. FrameInside(f, placed' \ {entrybb})
    <3>1. FrameInside(Top, placed \ {entrybb}) /\ placed \ {entrybb} \subseteq placed' \ {entrybb}
      BY <1>1, BranchesAtWork
    <3> QED
      BY <1>1, <2>1, <3>1 DEF FrameInside
  <2>3. FramesInside(stack, placed \ {entrybb}) /\ placed \ {entrybb} \subseteq placed' \ {entrybb}
    BY <1>1, BranchesAtWork
  <2> QED
    BY <1>1, <1>2, <2>1, <2>2, <2>3, FramesMove
<1> QED
  BY <1>1, <1>7, <1>8, TargetsKept DEF P

\* A handler that fills the current block and returns.
LEMMA LeafTargets ==
    ASSUME IInv, TargetInv, visit_expresion_stmt \/ visit_return_stmt PROVE TargetInv'
<1>1. /\ phase = "body" /\ phase' = "body" /\ stack # << >> /\ placed' = placed /\ stack' = Popped
  BY DEF visit_expresion_stmt, visit_return_stmt, Evaluated, At
<1>2. /\ stack \in Seq(Frame) /\ blocks \in Seq(Code) /\ Top.node.tag \in Tag
  BY <1>1, AtWork
<1> DEFINE tag == Top.node.tag
           P == Targets(placed)
<1>3. AllInside(blocks, P) /\ return_block \in P /\ FramesInside(stack, placed \ {entrybb})
  BY <1>1, BranchesAtWork
<1> HIDE DEF P
<1>4. AllInside(blocks', P)
  <2>1. CASE visit_expresion_stmt
    <3>1. blocks' = Emit(blocks, insert, Effect(tag))
      BY <2>1 DEF visit_expresion_stmt
    <3>2. Effect(tag) \in Item /\ ToInside(Effect(tag), P)
      BY <1>2, ItemTypes, ItemsInside
    <3> QED
      BY <1>2, <1>3, <3>1, <3>2, EmitInside
  <2>2. CASE visit_return_stmt
    <3> DEFINE stored == IF Top.node.value THEN Emit(blocks, insert, ResultStore(tag)) ELSE blocks
    <3>1. blocks' = Emit(stored, insert, Br(tag, return_block))
      BY <2>2 DEF visit_return_stmt
    <3>2. /\ ResultStore(tag) \in Item /\ ToInside(ResultStore(tag), P)
          /\ Br(tag, return_block) \in Item /\ ToInside(Br(tag, return_block), P)
      BY <1>2, <1>3, ItemTypes, ItemsInside DEF return_block
    <3>3. stored \in Seq(Code) /\ AllInside(stored, P)
      <4>1. /\ Emit(blocks, insert, ResultStore(tag)) \in Seq(Code)
            /\ AllInside(Emit(blocks, insert, ResultStore(tag)), P)
        BY <1>2, <1>3, <3>2, EmitType, EmitInside
      <4> QED
        BY <1>2, <1>3, <4>1
    <3> HIDE DEF stored
    <3> QED
      BY <3>1, <3>2, <3>3, EmitInside
  <2> QED
    BY <2>1, <2>2
<1>5. FramesInside(stack', placed' \ {entrybb})
  BY <1>1, <1>2, <1>3, FramesReturn
<1> QED
  BY <1>1, <1>4, <1>5, TargetsKept DEF P

\* A block is opened, and the handler that opened it goes on or returns.
LEMMA OpenTargets ==
    ASSUME IInv, phase' = "body", placed' = placed \cup {NewBlock}, NEW c \in Seq(Code),
           AllInside(c, Targets(placed')), blocks' = Append(c, << >>),
           FramesInside(stack', placed' \ {entrybb})
    PROVE  TargetInv'
<1>1. AllInside(blocks', Targets(placed'))
  BY NewInside
<1> QED
  BY <1>1, TargetsKept

\* What may be branched to once there is a new block.
LEMMA WithNewBlock ==
    ASSUME IInv, TargetInv, phase = "body", stack # << >>, placed' = placed \cup {NewBlock}
    PROVE  /\ AllInside(blocks, Targets(placed')) /\ FramesInside(stack, placed \ {entrybb})
           /\ placed \ {entrybb} \subseteq placed' \ {entrybb}
           /\ FrameInside(Top, placed' \ {entrybb})
           /\ NewBlock \in placed' \ {entrybb}
           /\ placed' \ {entrybb} \subseteq Targets(placed')
<1>1. /\ AllInside(blocks, Targets(placed)) /\ Targets(placed) \subseteq Targets(placed')
      /\ FramesInside(stack, placed \ {entrybb})
      /\ placed \ {entrybb} \subseteq placed' \ {entrybb}
      /\ FrameInside(Top, placed \ {entrybb})
      /\ NewBlock # entrybb
      /\ placed' \ {entrybb} \subseteq Targets(placed')
  BY BranchesAtWork
<1>2. AllInside(blocks, Targets(placed'))
  BY <1>1, InsideMore
<1>3. FrameInside(Top, placed' \ {entrybb})
  BY <1>1 DEF FrameInside
<1> QED
  BY <1>1, <1>2, <1>3

LEMMA SelectionThenTargets == ASSUME IInv, TargetInv, selection_stmt_then PROVE TargetInv'
<1> DEFINE f == [Top EXCEPT !.pc = "then", !.orig_block = curr_block, !.trueBB = NewBlock]
           s == Top.node.then
<1>1. /\ phase = "body" /\ phase' = "body" /\ stack # << >>
      /\ Top.node.kind = "if" /\ Top.pc = "eval" /\ placed' = placed \cup {NewBlock}
      /\ blocks' = Append(blocks, << >>)
      /\ stack' = Call(f, s)
  BY DEF selection_stmt_then, Evaluated, At
<1>2. Top \in Frame /\ s \in Stmt /\ curr_block \in Nat /\ NewBlock \in Nat
  BY <1>1, AtWork DEF IsStmt
<1>3. f \in Frame /\ f.node = Top.node /\ f.pc = "then" /\ f.trueBB = NewBlock
  BY <1>2 DEF Frame
<1> HIDE DEF f, s
<1>4. FrameInside(f, placed' \ {entrybb})
  BY <1>1, <1>3, WithNewBlock DEF FrameInside
<1>5. FramesInside(stack', placed' \ {entrybb})
  BY <1>1, <1>2, <1>3, <1>4, AtWork, WithNewBlock, FramesCall
<1> QED
  BY <1>1, <1>5, AtWork, WithNewBlock, OpenTargets

LEMMA SelectionElseTargets == ASSUME IInv, TargetInv, selection_stmt_else PROVE TargetInv'
<1> DEFINE f == [Top EXCEPT !.pc = "else", !.falseBB = NewBlock,
                            !.trueBB_location = curr_block,
                            !.trueBB_returned = is_returned_record]
           s == Top.node.else
<1>1. /\ phase = "body" /\ phase' = "body" /\ stack # << >>
      /\ Top.node.kind = "if" /\ Top.pc = "then" /\ Top.node.else # NoStmt
      /\ placed' = placed \cup {NewBlock} /\ blocks' = Append(blocks, << >>)
      /\ stack' = Call(f, s)
  BY DEF selection_stmt_else, At
<1>2. /\ Top \in Frame /\ s \in Stmt /\ curr_block \in Nat /\ NewBlock \in Nat
      /\ is_returned_record \in BOOLEAN
  BY <1>1, AtWork DEF IsStmt, IInv, PlainInv
<1>3. /\ f \in Frame /\ f.node = Top.node /\ f.pc = "else"
      /\ f.trueBB = Top.trueBB /\ f.falseBB = NewBlock
  BY <1>2 DEF Frame
<1> HIDE DEF f, s
<1>4. FrameInside(f, placed' \ {entrybb})
  BY <1>1, <1>3, WithNewBlock DEF FrameInside
<1>5. FramesInside(stack', placed' \ {entrybb})
  BY <1>1, <1>2, <1>3, <1>4, AtWork, WithNewBlock, FramesCall
<1> QED
  BY <1>1, <1>5, AtWork, WithNewBlock, OpenTargets

LEMMA SelectionEndTargets == ASSUME IInv, TargetInv, selection_stmt_end PROVE TargetInv'
<1> DEFINE endBB == NewBlock
           hasElse == Top.pc = "else"
           trueBB_location == IF hasElse THEN Top.trueBB_location ELSE curr_block
           trueBB_returned == IF hasElse THEN Top.trueBB_returned ELSE is_returned_record
           falseBB == IF hasElse THEN Top.falseBB ELSE endBB
           tag == Top.node.tag
           P == Targets(placed')
           c1 == Emit(blocks, Top.orig_block, CondBr(tag, Top.trueBB, falseBB))
           c2 == IF trueBB_returned THEN c1 ELSE Emit(c1, trueBB_location, Br(tag, endBB))
           c3 == IF ~hasElse \/ is_returned_record THEN c2 ELSE Emit(c2, curr_block, Br(tag, endBB))
<1>1. /\ phase = "body" /\ phase' = "body" /\ stack # << >> /\ Top.pc \in {"then", "else"}
      /\ placed' = placed \cup {NewBlock} /\ blocks' = Append(c3, << >>) /\ stack' = Popped
  BY DEF selection_stmt_end, At
<1>2. /\ blocks \in Seq(Code) /\ tag \in Tag /\ endBB \in Nat /\ Top \in Frame /\ stack \in Seq(Frame)
      /\ Top.trueBB \in Nat /\ falseBB \in Nat
  BY <1>1, AtWork DEF Frame
<1>3. AllInside(blocks, P) /\ endBB \in P /\ Top.trueBB \in P /\ falseBB \in P
  BY <1>1, WithNewBlock DEF FrameInside
<1> HIDE DEF P, falseBB
<1>4. /\ CondBr(tag, Top.trueBB, falseBB) \in Item /\ ToInside(CondBr(tag, Top.trueBB, falseBB), P)
      /\ Br(tag, endBB) \in Item /\ ToInside(Br(tag, endBB), P)
  BY <1>2, <1>3, ItemTypes, ItemsInside
<1>5. c1 \in Seq(Code) /\ AllInside(c1, P)
  BY <1>2, <1>3, <1>4, EmitType, EmitInside
<1> HIDE DEF c1
<1>6. c2 \in Seq(Code) /\ AllInside(c2, P)
  <2>1. /\ Emit(c1, trueBB_location, Br(tag, endBB)) \in Seq(Code)
        /\ AllInside(Emit(c1, trueBB_location, Br(tag, endBB)), P)
    BY <1>4, <1>5, EmitType, EmitInside
  <2> QED
    BY <1>5, <2>1
<1> HIDE DEF c2
<1>7. c3 \in Seq(Code) /\ AllInside(c3, P)
  <2>1. /\ Emit(c2, curr_block, Br(tag, endBB)) \in Seq(Code)
        /\ AllInside(Emit(c2, curr_block, Br(tag, endBB)), P)
    BY <1>4, <1>6, EmitType, EmitInside
  <2> QED
    BY <1>6, <2>1
<1> HIDE DEF c3
<1>8. FramesInside(stack', placed' \ {entrybb})
  BY <1>1, <1>2, WithNewBlock, FramesReturn
<1> QED
  BY <1>1, <1>7, <1>8, OpenTargets DEF P

LEMMA IterationStartTargets == ASSUME IInv, TargetInv, iteration_stmt_start PROVE TargetInv'
<1> DEFINE f == [Top EXCEPT !.pc = "eval", !.orig_block = NewBlock]
           tag == Top.node.tag
           c == Emit(blocks, insert, Br(tag, NewBlock))
           P == Targets(placed')
<1>1. /\ phase = "body" /\ phase' = "body" /\ stack # << >>
      /\ Top.node.kind = "while" /\ placed' = placed \cup {NewBlock}
      /\ blocks' = Append(c, << >>) /\ stack' = Append(Popped, f)
  BY DEF iteration_stmt_start, At
<1>2. Top \in Frame /\ NewBlock \in Nat /\ tag \in Tag /\ blocks \in Seq(Code) /\ stack \in Seq(Frame)
  BY <1>1, AtWork
<1>3. f \in Frame /\ f.node = Top.node /\ f.pc = "eval" /\ f.orig_block = NewBlock
  BY <1>2 DEF Frame
<1> HIDE DEF f
<1>4. FrameInside(f, placed' \ {entrybb})
  BY <1>1, <1>3, WithNewBlock DEF FrameInside
<1>5. FramesInside(stack', placed' \ {entrybb})
  BY <1>1, <1>2, <1>3, <1>4, WithNewBlock, FramesMove
<1>6. AllInside(blocks, P) /\ NewBlock \in P
  BY <1>1, WithNewBlock
<1> HIDE DEF P
<1>7. Br(tag, NewBlock) \in Item /\ ToInside(Br(tag, NewBlock), P)
  BY <1>2, <1>6, ItemTypes, ItemsInside
<1>8. c \in Seq(Code) /\ AllInside(c, P)
  BY <1>2, <1>6, <1>7, EmitType, EmitInside
<1> HIDE DEF c
<1> QED
  BY <1>1, <1>5, <1>8, OpenTargets DEF P

LEMMA IterationBodyTargets == ASSUME IInv, TargetInv, iteration_stmt_body PROVE TargetInv'
<1> DEFINE f == [Top EXCEPT !.pc = "body", !.trueBB = NewBlock]
           s == Top.node.body
<1>1. /\ phase = "body" /\ phase' = "body" /\ stack # << >>
      /\ Top.node.kind = "while" /\ Top.pc = "eval" /\ placed' = placed \cup {NewBlock}
      /\ blocks' = Append(blocks, << >>) /\ stack' = Call(f, s)
  BY DEF iteration_stmt_body, Evaluated, At
<1>2. Top \in Frame /\ s \in Stmt /\ NewBlock \in Nat
  BY <1>1, AtWork DEF IsStmt
<1>3. /\ f \in Frame /\ f.node = Top.node /\ f.pc = "body" /\ f.trueBB = NewBlock
      /\ f.orig_block = Top.orig_block
  BY <1>2 DEF Frame
<1> HIDE DEF f, s
<1>4. FrameInside(f, placed' \ {entrybb})
  BY <1>1, <1>3, WithNewBlock DEF FrameInside
<1>5. FramesInside(stack', placed' \ {entrybb})
  BY <1>1, <1>2, <1>3, <1>4, AtWork, WithNewBlock, FramesCall
<1> QED
  BY <1>1, <1>5, AtWork, WithNewBlock, OpenTargets

LEMMA IterationEndTargets == ASSUME IInv, TargetInv, iteration_stmt_end PROVE TargetInv'
<1> DEFINE endBB == NewBlock
           tag == Top.node.tag
           P == Targets(placed')
           c1 == IF is_returned_record THEN blocks ELSE Emit(blocks, insert, Br(tag, Top.orig_block))
           c2 == Emit(c1, Top.orig_block, CondBr(tag, Top.trueBB, endBB))
<1>1. /\ phase = "body" /\ phase' = "body" /\ stack # << >> /\ Top.pc = "body" /\ Top.node.kind = "while"
      /\ placed' = placed \cup {NewBlock} /\ blocks' = Append(c2, << >>) /\ stack' = Popped
  BY DEF iteration_stmt_end, At
<1>2. /\ blocks \in Seq(Code) /\ tag \in Tag /\ endBB \in Nat /\ stack \in Seq(Frame)
      /\ Top.trueBB \in Nat /\ Top.orig_block \in Nat
  BY <1>1, AtWork DEF Frame
<1>3. AllInside(blocks, P) /\ endBB \in P /\ Top.trueBB \in P /\ Top.orig_block \in P
  BY <1>1, WithNewBlock DEF FrameInside
<1> HIDE DEF P
<1>4. /\ CondBr(tag, Top.trueBB, endBB) \in Item /\ ToInside(CondBr(tag, Top.trueBB, endBB), P)
      /\ Br(tag, Top.orig_block) \in Item /\ ToInside(Br(tag, Top.orig_block), P)
  BY <1>2, <1>3, ItemTypes, ItemsInside
<1>5. c1 \in Seq(Code) /\ AllInside(c1, P)
  <2>1. /\ Emit(blocks, insert, Br(tag, Top.orig_block)) \in Seq(Code)
        /\ AllInside(Emit(blocks, insert, Br(tag, Top.orig_block)), P)
    BY <1>2, <1>3, <1>4, EmitType, EmitInside
  <2> QED
    BY <1>2, <1>3, <2>1
<1> HIDE DEF c1
<1>6. c2 \in Seq(Code) /\ AllInside(c2, P)
  BY <1>4, <1>5, EmitType, EmitInside
<1> HIDE DEF c2
<1>7. FramesInside(stack', placed' \ {entrybb})
  BY <1>1, <1>2, WithNewBlock, FramesReturn
<1> QED
  BY <1>1, <1>6, <1>7, OpenTargets DEF P

\* Declarations, crashes and stutters emit nothing.
LEMMA ElsewhereTargets ==
    ASSUME TargetInv, visit_var_declaration \/ visit_empty_stmt \/ return_stmt_null \/ UNCHANGED vars
    PROVE  TargetInv'
<1>1. blocks' = blocks /\ placed' = placed
  BY DEF visit_var_declaration, visit_empty_stmt, return_stmt_null, vars, emitting
<1>2. \/ phase' # "body" /\ (phase' = "decls" => phase = "decls")
      \/ phase' = phase /\ stack' = stack
  BY DEF visit_var_declaration, visit_empty_stmt, return_stmt_null, vars, At
<1> QED
  BY <1>1, <1>2 DEF TargetInv, BranchesStayInside

LEMMA TargetInvariance == Spec => []TargetInv
<1>1. Init => TargetInv
  BY DEF Init, TargetInv, BranchesStayInside
<1>2. IInv /\ TargetInv /\ [Next]_vars => TargetInv'
  <2> SUFFICES ASSUME IInv, TargetInv, [Next]_vars PROVE TargetInv'
    OBVIOUS
  <2> QED
    BY FunctionBeginTargets, FunctionEndTargets, CompoundTargets, SubscriptTargets, LeafTargets,
       SelectionThenTargets, SelectionElseTargets, SelectionEndTargets, IterationStartTargets,
       IterationBodyTargets, IterationEndTargets, ElsewhereTargets DEF Next, Walk, Stopped
<1> QED
  BY <1>1, <1>2, Invariance, PTL DEF Spec

\* Every branch of a finished function leads to a block that was inserted into
\* it and never back to its entry, for every set of programs.
THEOREM BranchesLeadInside == Spec => []BranchesStayInside
<1>1. TargetInv => BranchesStayInside
  BY DEF TargetInv
<1> QED
  BY <1>1, TargetInvariance, PTL

-----------------------------------------------------------------------------
(* One terminator per block.  A handler that will put a branch at the end of *)
(* a block later owes it; the other blocks are finished, except the current *)
(* one, which the flags tell about.                                         *)

\* The blocks that handler f has still to end.
Debts(f) ==
    (IF f.pc \in {"then", "else", "body"} THEN {f.orig_block} ELSE {})
    \cup (IF f.pc = "else" /\ ~f.trueBB_returned THEN {f.trueBB_location} ELSE {})

Distinct(f) == f.pc = "else" /\ ~f.trueBB_returned => f.orig_block # f.trueBB_location

OwedInv ==
    phase = "body" =>
    /\ return_block \notin placed /\ blocks[return_block] = << >>
    /\ \A b \in placed : \/ WellFormed(blocks[b])
                         \/ /\ ~HasTerminator(blocks[b])
                            /\ b = curr_block \/ \E k \in 1..Len(stack) : b \in Debts(stack[k])
    /\ \A k \in 1..Len(stack) : \A b \in Debts(stack[k]) :
          b \in placed /\ b # curr_block /\ ~HasTerminator(blocks[b])
    /\ \A j, k \in 1..Len(stack) : j # k => Debts(stack[j]) \cap Debts(stack[k]) = {}
    /\ \A k \in 1..Len(stack) : Distinct(stack[k])

\* How far a handler may have come, by the kind of its node.
FrameOK(f) ==
    LET s == f.node IN
    \/ s.kind = "compound" /\ f.pc = "start" /\ f.next = 1
    \/ /\ s.kind = "compound" /\ f.pc = "list" /\ f.next <= Len(s.list) + 1
       /\ \A i \in 1..(f.next - 2) : s.list[i].kind # "return"
    \/ s.kind = "if" /\ f.pc \in {"eval", "then", "else"}
    \/ s.kind = "while" /\ f.pc \in {"start", "eval", "body"} /\ f.left = 0
    \/ s.kind \in {"expr", "return"} /\ f.pc = "eval"

\* Handler f has called accept on s.
Calls(f, s) ==
    \/ f.pc = "list" /\ f.next > 1 /\ s = f.node.list[f.next - 1]
    \/ f.pc = "then" /\ s = f.node.then
    \/ f.pc = "else" /\ s = f.node.else
    \/ f.pc = "body" /\ s = f.node.body

CallInv ==
    /\ \A k \in 1..Len(stack) : FrameOK(stack[k])
    /\ \A k \in 1..(Len(stack) - 1) : Calls(stack[k], stack[k + 1].node)
    /\ stack # << >> => stack[1].node.kind = "compound" /\ Returns(stack[1].node)

\* The current block has its terminator.
Ended == HasTerminator(blocks[curr_block])

LastReturned(f) == f.next > 1 /\ f.node.list[f.next - 1].kind = "return"

FlagInv ==
    phase = "body" =>
    IF stack = << >> THEN is_returned_record /\ Ended
    ELSE /\ Top.pc \in {"start", "eval"} => ~Ended
         /\ Top.pc = "list" => (is_returned <=> Ended) /\ (is_returned <=> LastReturned(Top))
         /\ Top.pc \in {"then", "else", "body"} => (is_returned_record <=> Ended)
         /\ Top.node.kind = "expr" => ~is_returned
         /\ Top.node.kind = "while" /\ Top.pc = "eval" => Top.orig_block = curr_block

\* Between two functions the last one is finished.
EndedInv == phase = "decls" => \A b \in placed : WellFormed(blocks[b])

BlockInv == OwedInv /\ CallInv /\ FlagInv /\ EndedInv

-----------------------------------------------------------------------------
(* The stack and the debts.                                                *)

\* The handlers below the innermost one stay as they are; that one owes D
\* afterwards, or has returned, and a handler it calls owes nothing yet.
Becomes(D) ==
    /\ stack' \in Seq(Frame)
    /\ Len(stack') \in (Len(stack) - 1)..(Len(stack) + 1)
    /\ \A k \in 1..(Len(stack) - 1) : stack'[k] = stack[k]
    /\ Len(stack') >= Len(stack) => Debts(stack'[Len(stack)]) = D /\ Distinct(stack'[Len(stack)])
    /\ Len(stack') < Len(stack) => D = {}
    /\ Len(stack') > Len(stack) => Debts(stack'[Len(stack) + 1]) = {} /\ Distinct(stack'[Len(stack) + 1])

LEMMA HandlerOwesNothing == \A s : Debts(Handler(s)) = {} /\ Distinct(Handler(s))
  BY DEF Handler, Debts, Distinct

LEMMA MovesOn ==
    ASSUME stack \in Seq(Frame), stack # << >>, NEW f \in Frame, Distinct(f), stack' = Append(Popped, f)
    PROVE  Becomes(Debts(f))
<1>1. Len(stack) \in Nat /\ Len(stack) > 0
  BY TopAndPopped
<1>2. /\ stack' \in Seq(Frame) /\ Len(stack') = Len(stack)
      /\ \A k \in 1..(Len(stack) - 1) : stack'[k] = stack[k]
      /\ stack'[Len(stack)] = f
  BY Replaced
<1> QED
  BY <1>1, <1>2 DEF Becomes

LEMMA CallsOn ==
    ASSUME stack \in Seq(Frame), stack # << >>, NEW f \in Frame, Distinct(f), NEW s \in Stmt, stack' = Call(f, s)
    PROVE  Becomes(Debts(f))
<1>1. Len(stack) \in Nat /\ Len(stack) > 0
  BY TopAndPopped
<1>2. /\ stack' \in Seq(Frame) /\ Len(stack') = Len(stack) + 1
      /\ \A k \in 1..(Len(stack) - 1) : stack'[k] = stack[k]
      /\ stack'[Len(stack)] = f /\ stack'[Len(stack) + 1] = Handler(s)
  BY Called
<1> QED
  BY <1>1, <1>2, HandlerOwesNothing DEF Becomes

LEMMA ReturnsFrom ==
    ASSUME stack \in Seq(Frame), stack # << >>, stack' = Popped
    PROVE  Becomes({})
  BY TopAndPopped DEF Becomes

\* What keeps OwedInv.
LEMMA OwedStep ==
    ASSUME stack \in Seq(Frame), OwedInv, phase = "body", stack # << >>,
           NEW D, Becomes(D),
           placed \subseteq placed', curr_block' = curr_block \/ curr_block' \notin placed,
           return_block \notin placed', blocks'[return_block] = blocks[return_block],
           \A b \in placed : blocks'[b] = blocks[b] \/ b = curr_block \/ b \in Debts(Top),
           \A b \in placed' :
              \/ WellFormed(blocks'[b])
              \/ ~HasTerminator(blocks'[b]) /\ (b = curr_block' \/ b \in D)
              \/ b \in placed /\ b # curr_block /\ b \notin Debts(Top),
           \A b \in D : /\ b \in placed' /\ b # curr_block' /\ ~HasTerminator(blocks'[b])
                        /\ b \notin placed \/ b = curr_block \/ b \in Debts(Top)
    PROVE  OwedInv'
<1> DEFINE n == Len(stack)
           m == Len(stack')
           u == stack'
<1>1. /\ n \in Nat /\ n > 0 /\ m \in Nat /\ m \in (n - 1)..(n + 1)
      /\ \A k \in 1..(n - 1) : u[k] = stack[k]
      /\ m >= n => Debts(u[n]) = D /\ Distinct(u[n])
      /\ m < n => D = {}
      /\ m > n => Debts(u[n + 1]) = {} /\ Distinct(u[n + 1])
  BY TopAndPopped, LenProperties DEF Becomes
<1>2. /\ return_block \notin placed /\ blocks[return_block] = << >>
      /\ \A b \in placed : \/ WellFormed(blocks[b])
                           \/ /\ ~HasTerminator(blocks[b])
                              /\ b = curr_block \/ \E k \in 1..n : b \in Debts(stack[k])
      /\ \A k \in 1..n : \A b \in Debts(stack[k]) :
            b \in placed /\ b # curr_block /\ ~HasTerminator(blocks[b])
      /\ \A j, k \in 1..n : j # k => Debts(stack[j]) \cap Debts(stack[k]) = {}
      /\ \A k \in 1..n : Distinct(stack[k])
  BY DEF OwedInv
<1>3. Top = stack[n]
  BY DEF Top
<1> HIDE DEF n, m, u
<1>4. /\ \A k \in 1..m : k \in 1..(n - 1) \/ (k = n /\ m >= n) \/ (k = n + 1 /\ m > n)
      /\ \A k \in 1..n : k \in 1..(n - 1) \/ k = n
      /\ \A k \in 1..(n - 1) : k \in 1..n /\ k \in 1..m /\ k # n
      /\ m >= n => n \in 1..m
      /\ n \in 1..n
  BY <1>1
<1>5. \A k \in 1..m : \/ k \in 1..(n - 1) /\ Debts(u[k]) = Debts(stack[k]) /\ Distinct(u[k])
                      \/ k = n /\ Debts(u[k]) = D /\ Distinct(u[k])
                      \/ Debts(u[k]) = {} /\ Distinct(u[k])
  BY <1>1, <1>2, <1>4
<1>6. \A k \in 1..(n - 1) : \A b \in Debts(stack[k]) :
         b \in placed /\ b # curr_block /\ b \notin Debts(Top) /\ ~HasTerminator(blocks[b])
  BY <1>2, <1>3, <1>4
<1>7. \A b \in placed' : \/ WellFormed(blocks'[b])
                         \/ /\ ~HasTerminator(blocks'[b])
                            /\ b = curr_block' \/ \E k \in 1..m : b \in Debts(u[k])
  <2> SUFFICES ASSUME NEW b \in placed', ~WellFormed(blocks'[b])
               PROVE  /\ ~HasTerminator(blocks'[b])
                      /\ b = curr_block' \/ \E k \in 1..m : b \in Debts(u[k])
    OBVIOUS
  <2>1. CASE ~HasTerminator(blocks'[b]) /\ (b = curr_block' \/ b \in D)
    <3>1. CASE b \in D
      <4>1. m >= n
        BY <1>1, <3>1
      <4> QED
        BY <1>1, <1>4, <2>1, <3>1, <4>1
    <3> QED
      BY <2>1, <3>1
  <2>2. CASE b \in placed /\ b # curr_block /\ b \notin Debts(Top)
    <3>1. blocks'[b] = blocks[b]
      BY <2>2
    <3>2. ~HasTerminator(blocks[b]) /\ \E k \in 1..n : b \in Debts(stack[k])
      BY <1>2, <2>2, <3>1
    <3>3. PICK k \in 1..n : b \in Debts(stack[k])
      BY <3>2
    <3>4. k \in 1..(n - 1)
      BY <1>3, <1>4, <2>2, <3>3
    <3>5. k \in 1..m /\ b \in Debts(u[k])
      BY <1>1, <1>4, <3>3, <3>4
    <3> QED
      BY <3>1, <3>2, <3>5
  <2> QED
    BY <2>1, <2>2
<1>8. \A k \in 1..m : \A b \in Debts(u[k]) : b \in placed' /\ b # curr_block' /\ ~HasTerminator(blocks'[b])
  <2> SUFFICES ASSUME NEW k \in 1..m, NEW b \in Debts(u[k])
               PROVE  b \in placed' /\ b # curr_block' /\ ~HasTerminator(blocks'[b])
    OBVIOUS
  <2>1. CASE k \in 1..(n - 1)
    <3>1. b \in Debts(stack[k])
      BY <1>1, <2>1
    <3>2. b \in placed /\ b # curr_block /\ b \notin Debts(Top) /\ ~HasTerminator(blocks[b])
      BY <1>6, <2>1, <3>1
    <3> QED
      BY <3>2
  <2>2. CASE b \in D
    BY <2>2
  <2> QED
    BY <1>5, <2>1, <2>2
<1>9. \A j, k \in 1..m : j # k => Debts(u[j]) \cap Debts(u[k]) = {}
  <2>1. \A k \in 1..(n - 1) : Debts(stack[k]) \cap D = {}
    BY <1>6
  <2>2. \A j, k \in 1..(n - 1) : j # k => Debts(stack[j]) \cap Debts(stack[k]) = {}
    BY <1>2, <1>4
  <2> QED
    BY <1>5, <2>1, <2>2
<1>10. \A k \in 1..m : Distinct(u[k])
  BY <1>5
<1>11. return_block \notin placed' /\ blocks'[return_block] = << >>
  BY <1>2
<1> QED
  BY <1>7, <1>8, <1>9, <1>10, <1>11 DEF OwedInv, m, u

\* The same when only the current block is filled.
LEMMA OwedStays ==
    ASSUME stack \in Seq(Frame), OwedInv, phase = "body", stack # << >>, NEW D, Becomes(D),
           D = {}, Debts(Top) = {},
           UNCHANGED << placed, curr_block >>, curr_block \in placed,
           \A b \in 1..Len(blocks) : b # curr_block => blocks'[b] = blocks[b],
           placed \subseteq 1..Len(blocks), 1 \in 1..Len(blocks),
           WellFormed(blocks'[curr_block]) \/ ~HasTerminator(blocks'[curr_block])
    PROVE  OwedInv'
<1>1. return_block \notin placed
  BY DEF OwedInv
<1>2. blocks'[return_block] = blocks[return_block]
  BY <1>1 DEF return_block
<1>3. \A b \in placed : blocks'[b] = blocks[b] \/ b = curr_block
  OBVIOUS
<1> QED
  BY <1>1, <1>2, <1>3, OwedStep

\* The same when c, the blocks there are, is followed by a new current block.
LEMMA OwedOpens ==
    ASSUME IInv, OwedInv, phase = "body", stack # << >>, NEW D, Becomes(D),
           NEW c \in Seq(Code), Len(c) = Len(blocks), blocks' = Append(c, << >>),
           placed' = placed \cup {NewBlock}, curr_block' = NewBlock,
           c[return_block] = blocks[return_block],
           \A b \in placed : c[b] = blocks[b] \/ b = curr_block \/ b \in Debts(Top),
           \A b \in placed : b = curr_block \/ b \in Debts(Top) =>
               WellFormed(c[b]) \/ (b \in D /\ ~HasTerminator(c[b])),
           \A b \in D : b \in placed /\ ~HasTerminator(c[b]) /\ (b = curr_block \/ b \in Debts(Top))
    PROVE  OwedInv' /\ ~Ended'
<1>1. /\ stack \in Seq(Frame) /\ Len(blocks) \in Nat /\ Len(blocks) >= 2
      /\ placed \subseteq 1..Len(blocks)
  BY AtWork DEF IInv, EmitInv
<1>2. NewBlock = Len(blocks) + 1 /\ NewBlock \notin placed
  BY <1>1 DEF NewBlock
<1>3. /\ \A b \in 1..Len(blocks) : blocks'[b] = c[b]
      /\ blocks'[NewBlock] = << >>
  BY <1>2, EmptyCode, Created
<1>4. \A b \in placed : blocks'[b] = c[b]
  BY <1>1, <1>3
<1>5. return_block \notin placed' /\ blocks'[return_block] = blocks[return_block]
  <2>1. return_block \notin placed
    BY DEF OwedInv
  <2>2. return_block # NewBlock /\ return_block \in 1..Len(blocks)
    BY <1>1, <1>2 DEF return_block
  <2> QED
    BY <1>3, <2>1, <2>2
<1>6. ~HasTerminator(blocks'[NewBlock])
  BY <1>3, EmptyIsOpen
<1>7. \A b \in placed' : b \in placed \/ b = NewBlock
  OBVIOUS
<1>8. OwedInv'
  BY <1>1, <1>2, <1>4, <1>5, <1>6, <1>7, OwedStep
<1> QED
  BY <1>6, <1>8 DEF Ended
\* Emitting into a block that is still open touches no other, and ends it or
\* leaves it open.
LEMMA EmitOpen ==
    ASSUME NEW c \in Seq(Code), NEW b \in 1..Len(c), NEW i \in Item, ~HasTerminator(c[b])
    PROVE  /\ Emit(c, b, i) \in Seq(Code) /\ Len(Emit(c, b, i)) = Len(c)
           /\ \A k \in 1..Len(c) : k # b => Emit(c, b, i)[k] = c[k]
           /\ IsTerminator(i) => WellFormed(Emit(c, b, i)[b])
           /\ ~IsTerminator(i) => ~HasTerminator(Emit(c, b, i)[b])
<1>1. c[b] \in Code
  BY ElementOfSeq
<1>2. /\ IsTerminator(i) => WellFormed(Append(c[b], i))
      /\ ~IsTerminator(i) => ~HasTerminator(Append(c[b], i))
  BY <1>1, OpenBlock
<1> QED
  BY <1>2, Emitted

-----------------------------------------------------------------------------
(* Handlers and the statements they call accept on.                        *)

LEMMA HandlerOK ==
    ASSUME WellBehaved(Stmt, Decl), NEW s \in Stmt
    PROVE  /\ FrameOK(Handler(s)) /\ Handler(s).node = s
           /\ Handler(s).pc \in {"start", "eval"}
           /\ Handler(s).pc = "eval" => s.kind # "while"
<1>1. s.kind \in Kind /\ s.kind # "empty" /\ (s.kind = "while" => s.subscripts = 0)
  BY StmtAssumption DEF IsStmt, WellBehaved, Behaved, NoEmpty, PlainConditions
<1> QED
  BY <1>1 DEF Handler, FrameOK, Kind

LEMMA CallsMove ==
    ASSUME stack \in Seq(Frame), stack # << >>, CallInv,
           NEW f \in Frame, f.node = Top.node, FrameOK(f), stack' = Append(Popped, f)
    PROVE  CallInv' /\ stack' # << >> /\ Top' = f
<1> DEFINE n == Len(stack)
           u == stack'
<1>1. /\ n \in Nat /\ n > 0 /\ Len(u) = n
      /\ \A k \in 1..(n - 1) : u[k] = stack[k]
      /\ u[n] = f
  BY TopAndPopped, Replaced
<1>2. u # << >>
  BY <1>1
<1>3. Top' = f
  BY <1>1 DEF Top
<1>4. /\ \A k \in 1..n : FrameOK(stack[k])
      /\ \A k \in 1..(n - 1) : Calls(stack[k], stack[k + 1].node)
      /\ stack[1].node.kind = "compound" /\ Returns(stack[1].node)
  BY DEF CallInv
<1>5. stack[n].node = f.node
  BY DEF Top
<1> HIDE DEF n, u
<1>6. \A k \in 1..n : k \in 1..(n - 1) \/ k = n
  BY <1>1
<1>7. \A k \in 1..(n - 1) : k + 1 \in 1..n
  BY <1>1
<1>8. \A k \in 1..n : u[k].node = stack[k].node
  BY <1>1, <1>5, <1>6
<1>9. \A k \in 1..n : FrameOK(u[k])
  BY <1>1, <1>4, <1>6
<1>10. \A k \in 1..(n - 1) : Calls(u[k], u[k + 1].node)
  BY <1>1, <1>4, <1>7, <1>8
<1>11. u[1].node = stack[1].node
  BY <1>1, <1>8
<1>12. CallInv'
  BY <1>1, <1>4, <1>9, <1>10, <1>11 DEF CallInv, u
<1> QED
  BY <1>2, <1>3, <1>12 DEF u

LEMMA CallsCall ==
    ASSUME stack \in Seq(Frame), stack # << >>, CallInv, WellBehaved(Stmt, Decl),
           NEW f \in Frame, f.node = Top.node, FrameOK(f),
           NEW s \in Stmt, Calls(f, s), stack' = Call(f, s)
    PROVE  CallInv' /\ stack' # << >> /\ Top' = Handler(s)
<1> DEFINE n == Len(stack)
           u == stack'
<1>1. /\ n \in Nat /\ n > 0 /\ Len(u) = n + 1
      /\ \A k \in 1..(n - 1) : u[k] = stack[k]
      /\ u[n] = f /\ u[n + 1] = Handler(s)
  BY TopAndPopped, Called
<1>2. u # << >>
  BY <1>1
<1>3. Top' = Handler(s)
  BY <1>1 DEF Top
<1>4. /\ \A k \in 1..n : FrameOK(stack[k])
      /\ \A k \in 1..(n - 1) : Calls(stack[k], stack[k + 1].node)
      /\ stack[1].node.kind = "compound" /\ Returns(stack[1].node)
  BY DEF CallInv
<1>5. stack[n].node = f.node
  BY DEF Top
<1>6. FrameOK(Handler(s)) /\ Handler(s).node = s
  BY HandlerOK
<1> HIDE DEF n, u
<1>7. /\ \A k \in 1..(n + 1) : k \in 1..(n - 1) \/ k = n \/ k = n + 1
      /\ \A k \in 1..(n + 1 - 1) : k \in 1..(n - 1) \/ k = n
      /\ \A k \in 1..n : k \in 1..(n - 1) \/ k = n
      /\ \A k \in 1..(n - 1) : k + 1 \in 1..n /\ k \in 1..n
  BY <1>1
<1>8. \A k \in 1..n : u[k].node = stack[k].node
  BY <1>1, <1>5, <1>7
<1>9. \A k \in 1..(n + 1) : FrameOK(u[k])
  BY <1>1, <1>4, <1>6, <1>7
<1>10. \A k \in 1..(n - 1) : Calls(u[k], u[k + 1].node)
  BY <1>1, <1>4, <1>7, <1>8
<1>11. Calls(u[n], u[n + 1].node)
  BY <1>1, <1>6
<1>12. u[1].node = stack[1].node
  BY <1>1, <1>8
<1>13. CallInv'
  BY <1>1, <1>4, <1>7, <1>9, <1>10, <1>11, <1>12 DEF CallInv, u
<1> QED
  BY <1>2, <1>3, <1>13 DEF u

\* The innermost handler returns to the one that called it, or from the body of
\* the function.
LEMMA CallsReturn ==
    ASSUME stack \in Seq(Frame), stack # << >>, CallInv, stack' = Popped
    PROVE  /\ CallInv'
           /\ \/ stack' = << >> /\ Top.node.kind = "compound" /\ Returns(Top.node)
              \/ stack' # << >> /\ Top' \in Frame /\ FrameOK(Top') /\ Calls(Top', Top.node)
<1> DEFINE n == Len(stack)
           u == stack'
<1>1. /\ n \in Nat /\ n > 0 /\ Len(u) = n - 1 /\ u \in Seq(Frame)
      /\ \A k \in 1..(n - 1) : u[k] = stack[k]
  BY TopAndPopped
<1>2. Top' = u[Len(u)] /\ Top = stack[n]
  BY DEF Top
<1>3. /\ \A k \in 1..n : FrameOK(stack[k])
      /\ \A k \in 1..(n - 1) : Calls(stack[k], stack[k + 1].node)
      /\ stack[1].node.kind = "compound" /\ Returns(stack[1].node)
  BY DEF CallInv
<1>4. u = << >> <=> n = 1
  BY <1>1, EmptySeq
<1>5. n # 1 => u[n - 1] \in Frame
  BY <1>1, ElementOfSeq
<1> HIDE DEF n, u
<1>6. /\ \A k \in 1..(n - 1) : k \in 1..n
      /\ \A k \in 1..(n - 1 - 1) : k \in 1..(n - 1) /\ k + 1 \in 1..(n - 1)
      /\ n # 1 => n - 1 \in 1..(n - 1) /\ n - 1 + 1 = n /\ 1 \in 1..(n - 1)
  BY <1>1
<1>7. CallInv'
  <2>1. \A k \in 1..(n - 1) : FrameOK(u[k])
    BY <1>1, <1>3, <1>6
  <2>2. \A k \in 1..(n - 1 - 1) : Calls(u[k], u[k + 1].node)
    BY <1>1, <1>3, <1>6
  <2>3. u # << >> => u[1].node.kind = "compound" /\ Returns(u[1].node)
    BY <1>1, <1>3, <1>4, <1>6
  <2> QED
    BY <1>1, <2>1, <2>2, <2>3 DEF CallInv, u
<1>8. CASE n = 1
  BY <1>2, <1>3, <1>4, <1>7, <1>8 DEF u
<1>9. CASE n # 1
  <2>1. Top' = stack[n - 1] /\ Top' \in Frame
    BY <1>1, <1>2, <1>5, <1>6, <1>9
  <2>2. FrameOK(Top') /\ Calls(Top', Top.node)
    BY <1>2, <1>3, <1>6, <1>9, <2>1
  <2> QED
    BY <1>4, <1>7, <1>9, <2>1, <2>2 DEF u
<1> QED
  BY <1>8, <1>9

\* Branches and loop bodies being in braces or returns, every other statement
\* returns to a compound statement.
LEMMA BackToList ==
    ASSUME stack \in Seq(Frame), stack # << >>, CallInv, WellBehaved(Stmt, Decl),
           Top.node \in Stmt, Top.node.kind \notin {"compound", "return"}, stack' = Popped
    PROVE  CallInv' /\ stack' # << >> /\ Top'.pc = "list" /\ Top'.node.kind = "compound" /\ ~LastReturned(Top')
<1> DEFINE f == Top'
           s == Top.node
<1>1. CallInv' /\ stack' # << >> /\ f \in Frame /\ FrameOK(f) /\ Calls(f, s)
  BY CallsReturn
<1>2. s \in Stmt /\ s # NoStmt
  BY StmtAssumption
<1>3. f.node \in Stmt
  BY <1>1 DEF Frame
<1> HIDE DEF f
<1>4. f.pc \in {"then", "else"} => f.node.kind = "if"
  BY <1>1 DEF FrameOK
<1>5. f.pc = "body" => f.node.kind = "while"
  BY <1>1 DEF FrameOK
<1>6. f.pc = "list" => f.node.kind = "compound"
  BY <1>1 DEF FrameOK
<1>7. f.pc = "list"
  BY <1>1, <1>2, <1>3, <1>4, <1>5 DEF Calls, WellBehaved, Behaved, Braced
<1>8. ~LastReturned(f)
  BY <1>1, <1>7 DEF Calls, LastReturned
<1> QED
  BY <1>1, <1>6, <1>7, <1>8 DEF f

-----------------------------------------------------------------------------
(* Every action keeps BlockInv, and the blocks that are finished.          *)

KeepsFinished == \A b \in 1..Len(blocks) : HasTerminator(blocks[b]) => blocks'[b] = blocks[b]

\* The flags when accept has been called on s in a block that is open.
LEMMA FlagsCalled ==
    ASSUME WellBehaved(Stmt, Decl), NEW s \in Stmt, stack' # << >>, Top' = Handler(s),
           ~Ended', s.kind = "expr" => ~is_returned'
    PROVE  FlagInv'
<1>1. Top'.node = s /\ Top'.pc \in {"start", "eval"} /\ (Top'.pc = "eval" => s.kind # "while")
  BY HandlerOK
<1> QED
  BY <1>1 DEF FlagInv

\* The flags when a statement is over and the block after it is open.
LEMMA FlagsBack ==
    ASSUME stack' # << >>, Top'.pc = "list", Top'.node.kind = "compound", ~LastReturned(Top'), ~Ended', ~is_returned'
    PROVE  FlagInv'
  BY DEF FlagInv, LastReturned
\* The handler at work, the current block and the blocks it owes.
LEMMA OwingAtWork ==
    ASSUME IInv, BlockInv, phase = "body", stack # << >>
    PROVE  /\ OwedInv /\ CallInv /\ FlagInv /\ FrameOK(Top)
           /\ curr_block = insert /\ curr_block \in placed /\ curr_block \in 1..Len(blocks)
           /\ placed \subseteq 1..Len(blocks)
           /\ return_block \notin placed /\ return_block \in 1..Len(blocks)
           /\ Top.pc \in {"start", "eval"} => ~Ended
           /\ \A b \in Debts(Top) : b \in placed /\ b # curr_block /\ ~HasTerminator(blocks[b])
           /\ Distinct(Top)
<1>1. /\ insert = curr_block /\ insert \in placed /\ placed \subseteq 1..Len(blocks)
      /\ Len(blocks) \in Nat /\ Len(blocks) >= 2
  BY AtWork DEF IInv, EmitInv
<1>2. OwedInv /\ CallInv /\ FlagInv
  BY DEF BlockInv
<1>3. Len(stack) \in 1..Len(stack)
  BY TopAndPopped DEF IInv, StackInv
<1>4. FrameOK(Top)
  BY <1>2, <1>3 DEF CallInv, Top
<1>5. return_block \notin placed /\ return_block \in 1..Len(blocks)
  BY <1>1, <1>2 DEF OwedInv, return_block
<1>6. Top.pc \in {"start", "eval"} => ~Ended
  BY <1>2 DEF FlagInv
<1>7. /\ \A b \in Debts(Top) : b \in placed /\ b # curr_block /\ ~HasTerminator(blocks[b])
      /\ Distinct(Top)
  BY <1>2, <1>3 DEF OwedInv, Top
<1> QED
  BY <1>1, <1>2, <1>4, <1>5, <1>6, <1>7

\* No block is touched.
LEMMA OwedSame ==
    ASSUME IInv, BlockInv, phase = "body", stack # << >>, Becomes({}), Debts(Top) = {},
           UNCHANGED << placed, curr_block, blocks >>
    PROVE  OwedInv' /\ KeepsFinished /\ (Ended' <=> Ended)
<1>1. stack \in Seq(Frame)
  BY AtWork
<1>2. /\ OwedInv /\ curr_block \in placed /\ placed \subseteq 1..Len(blocks)
      /\ 1 \in 1..Len(blocks)
  BY OwingAtWork DEF return_block
<1>3. WellFormed(blocks'[curr_block]) \/ ~HasTerminator(blocks'[curr_block])
  BY <1>2 DEF OwedInv
<1>4. OwedInv'
  BY <1>1, <1>2, <1>3, OwedStays
<1> QED
  BY <1>4 DEF KeepsFinished, Ended

\* The current block, open so far, gets c[curr_block] and then instruction i.
LEMMA OwedFills ==
    ASSUME IInv, BlockInv, phase = "body", stack # << >>, Becomes({}), Debts(Top) = {},
           UNCHANGED << placed, curr_block >>, ~Ended,
           NEW c \in Seq(Code), Len(c) = Len(blocks), ~HasTerminator(c[curr_block]),
           \A b \in 1..Len(blocks) : b # curr_block => c[b] = blocks[b],
           NEW i \in Item, blocks' = Emit(c, insert, i)
    PROVE  OwedInv' /\ KeepsFinished /\ (Ended' <=> IsTerminator(i))
<1>1. stack \in Seq(Frame)
  BY AtWork
<1>2. /\ OwedInv /\ curr_block \in placed /\ placed \subseteq 1..Len(blocks)
      /\ curr_block = insert /\ curr_block \in 1..Len(blocks)
      /\ 1 \in 1..Len(blocks)
  BY OwingAtWork DEF return_block
<1>3. /\ blocks' \in Seq(Code) /\ Len(blocks') = Len(blocks)
      /\ \A b \in 1..Len(blocks) : b # curr_block => blocks'[b] = c[b]
      /\ IsTerminator(i) => WellFormed(blocks'[curr_block])
      /\ ~IsTerminator(i) => ~HasTerminator(blocks'[curr_block])
  BY <1>2, EmitOpen
<1>4. OwedInv'
  BY <1>1, <1>2, <1>3, OwedStays
<1>5. KeepsFinished
  BY <1>2, <1>3 DEF KeepsFinished, Ended
<1>6. Ended' <=> IsTerminator(i)
  <2>1. blocks'[curr_block] \in Code
    BY <1>2, <1>3, ElementOfSeq
  <2>2. WellFormed(blocks'[curr_block]) => HasTerminator(blocks'[curr_block])
    BY <2>1, WellFormedTerminates
  <2> QED
    BY <1>3, <2>2 DEF Ended
<1> QED
  BY <1>4, <1>5, <1>6

\* A step inside a function that kept the parts of BlockInv.
LEMMA StillBuilding ==
    ASSUME phase' = "body", OwedInv', CallInv', FlagInv' PROVE BlockInv'
  BY DEF BlockInv, EndedInv

LEMMA CompoundEnterBlocks ==
    ASSUME IInv, BlockInv, WellBehaved(Stmt, Decl), compound_stmt_enter
    PROVE  BlockInv' /\ KeepsFinished
<1> DEFINE f == [Top EXCEPT !.pc = "list"]
<1>1. /\ phase = "body" /\ phase' = "body" /\ stack # << >> /\ Top.node.kind = "compound" /\ Top.pc = "start"
      /\ UNCHANGED << placed, curr_block >> /\ is_returned' = FALSE
      /\ stack' = Append(Popped, f)
      /\ blocks' = blocks \/ blocks' = Emit(blocks, insert, Alloca)
  BY DEF compound_stmt_enter, At
<1>2. stack \in Seq(Frame) /\ Top \in Frame /\ blocks \in Seq(Code)
  BY <1>1, AtWork
<1>3. /\ f \in Frame /\ f.node = Top.node /\ f.pc = "list" /\ f.next = Top.next
  BY <1>2 DEF Frame
<1>4. CallInv /\ FrameOK(Top) /\ ~Ended
  BY <1>1, OwingAtWork
<1> HIDE DEF f
<1>5. f.next = 1
  BY <1>1, <1>3, <1>4 DEF FrameOK
<1>6. FrameOK(f)
  <2>1. f.node.list \in Seq(Stmt)
    BY <1>1, <1>3, AtWork DEF IsStmt
  <2>2. Len(f.node.list) \in Nat
    BY <2>1, LenProperties
  <2>3. f.next <= Len(f.node.list) + 1 /\ 1..(f.next - 2) = {}
    BY <1>5, <2>2
  <2> QED
    BY <1>1, <1>3, <2>3 DEF FrameOK
<1>7. CallInv' /\ stack' # << >> /\ Top' = f
  BY <1>1, <1>2, <1>3, <1>4, <1>6, CallsMove
<1>8. Debts(f) = {} /\ Distinct(f) /\ Debts(Top) = {}
  BY <1>1, <1>3 DEF Debts, Distinct
<1>9. Becomes({})
  BY <1>1, <1>2, <1>3, <1>8, MovesOn
<1>10. OwedInv' /\ KeepsFinished /\ ~Ended'
  <2>1. CASE blocks' = blocks
    BY <1>1, <1>4, <1>8, <1>9, <2>1, OwedSame
  <2>2. CASE blocks' = Emit(blocks, insert, Alloca)
    <3>1. Alloca \in Item /\ ~IsTerminator(Alloca) /\ ~HasTerminator(blocks[curr_block])
      BY <1>4, ItemTypes, Terminators DEF Ended
    <3> QED
      BY <1>1, <1>2, <1>4, <1>8, <1>9, <2>2, <3>1, OwedFills
  <2> QED
    BY <1>1, <2>1, <2>2
<1>11. FlagInv'
  BY <1>1, <1>3, <1>5, <1>7, <1>10 DEF FlagInv, LastReturned
<1> QED
  BY <1>1, <1>7, <1>10, <1>11, StillBuilding

LEMMA CompoundNextBlocks ==
    ASSUME IInv, BlockInv, WellBehaved(Stmt, Decl), compound_stmt_next
    PROVE  BlockInv' /\ KeepsFinished
<1> DEFINE f == [Top EXCEPT !.next = @ + 1]
           s == Top.node.list[Top.next]
<1>1. /\ phase = "body" /\ phase' = "body" /\ stack # << >> /\ Top.node.kind = "compound" /\ Top.pc = "list"
      /\ UNCHANGED << placed, curr_block, blocks, is_returned >> /\ ~is_returned
      /\ Top.next <= Len(Top.node.list)
      /\ stack' = Call(f, s)
  BY DEF compound_stmt_next, At, emitting, flags
<1>2. stack \in Seq(Frame) /\ Top \in Frame /\ Top.node.list \in Seq(Stmt)
  BY <1>1, AtWork DEF IsStmt
<1>3. /\ f \in Frame /\ f.node = Top.node /\ f.pc = "list" /\ f.next = Top.next + 1
      /\ Top.next \in Nat /\ Top.next > 0
  <2>1. Top \in Frame /\ Top.pc = "list"
    BY <1>1, <1>2
  <2> QED
    BY <2>1 DEF Frame
<1>4. s \in Stmt /\ Len(Top.node.list) \in Nat
  BY <1>1, <1>2, <1>3, LenProperties
<1>5. CallInv /\ FrameOK(Top) /\ FlagInv
  BY <1>1, OwingAtWork
<1>6. ~Ended /\ ~LastReturned(Top)
  BY <1>1, <1>5 DEF FlagInv
<1> DEFINE n == Top.next
<1>7. /\ f.next > 1 /\ f.next - 1 = n /\ f.next <= Len(f.node.list) + 1
      /\ \A i \in 1..(f.next - 2) : i \in 1..(n - 2) \/ (i = n - 1 /\ n > 1)
  <2> HIDE DEF f
  <2> QED
    BY <1>1, <1>3, <1>4
<1>8. \A i \in 1..(n - 2) : Top.node.list[i].kind # "return"
  BY <1>1, <1>5 DEF FrameOK
<1> HIDE DEF f, s
<1>9. FrameOK(f)
  <2>1. \A i \in 1..(f.next - 2) : f.node.list[i].kind # "return"
    BY <1>3, <1>6, <1>7, <1>8 DEF LastReturned
  <2> QED
    BY <1>1, <1>3, <1>7, <2>1 DEF FrameOK
<1>10. Calls(f, s)
  BY <1>3, <1>7 DEF Calls, s
<1>11. CallInv' /\ stack' # << >> /\ Top' = Handler(s)
  BY <1>1, <1>2, <1>3, <1>4, <1>5, <1>9, <1>10, CallsCall
<1>12. Debts(f) = {} /\ Distinct(f) /\ Debts(Top) = {}
  BY <1>1, <1>3 DEF Debts, Distinct
<1>13. Becomes({})
  BY <1>1, <1>2, <1>3, <1>4, <1>12, CallsOn
<1>14. OwedInv' /\ KeepsFinished /\ ~Ended'
  BY <1>1, <1>6, <1>12, <1>13, OwedSame
<1>15. FlagInv'
  BY <1>1, <1>4, <1>11, <1>14, FlagsCalled
<1> QED
  BY <1>1, <1>11, <1>14, <1>15, StillBuilding
\* A body left by a return, or at the end of a list with none, hands on the flag
\* its caller looks at.
LEMMA CompoundExitBlocks ==
    ASSUME IInv, BlockInv, WellBehaved(Stmt, Decl), compound_stmt_exit
    PROVE  BlockInv' /\ KeepsFinished
<1> DEFINE s == Top.node
           n == Len(Top.node.list)
<1>1. /\ phase = "body" /\ phase' = "body" /\ stack # << >> /\ s.kind = "compound" /\ Top.pc = "list"
      /\ UNCHANGED << placed, curr_block, blocks >>
      /\ is_returned \/ Top.next > n
      /\ is_returned_record' = is_returned /\ is_returned' = FALSE
      /\ stack' = Popped
  BY DEF compound_stmt_exit, At, emitting
<1>2. stack \in Seq(Frame) /\ Top \in Frame /\ s \in Stmt /\ s.list \in Seq(Stmt)
  BY <1>1, AtWork DEF IsStmt
<1>3. Top.next \in Nat /\ Top.next > 0 /\ n \in Nat
  BY <1>2, LenProperties DEF Frame
<1>4. CallInv /\ FrameOK(Top) /\ FlagInv
  BY <1>1, OwingAtWork
<1>5. (is_returned <=> Ended) /\ (is_returned <=> LastReturned(Top))
  BY <1>1, <1>4 DEF FlagInv
<1>6. Top.next <= n + 1 /\ \A i \in 1..(Top.next - 2) : s.list[i].kind # "return"
  BY <1>1, <1>4 DEF FrameOK
<1>7. is_returned <=> Returns(s)
  <2>1. ASSUME is_returned PROVE Returns(s)
    <3>1. Top.next > 1 /\ s.list[Top.next - 1].kind = "return"
      BY <1>5, <2>1 DEF LastReturned
    <3>2. Top.next - 1 \in 1..n
      <4> HIDE DEF n
      <4> QED
        BY <1>3, <1>6, <3>1
    <3> QED
      BY <3>1, <3>2 DEF Returns
  <2>2. ASSUME ~is_returned, Returns(s) PROVE FALSE
    <3>1. PICK i \in 1..n : s.list[i].kind = "return"
      BY <2>2 DEF Returns
    <3>2. Top.next = n + 1 /\ Top.next - 1 = n
      <4>1. Top.next > n
        BY <1>1, <2>2
      <4> HIDE DEF n
      <4> QED
        BY <1>3, <1>6, <4>1
    <3>3. i = n \/ i \in 1..(Top.next - 2)
      BY <1>3, <3>2
    <3>4. i = n
      BY <1>6, <3>1, <3>3
    <3>5. LastReturned(Top)
      BY <1>3, <3>1, <3>2, <3>4 DEF LastReturned
    <3> QED
      BY <1>5, <2>2, <3>5
  <2> QED
    BY <2>1, <2>2
<1>8. CallInv' /\ \/ stack' = << >> /\ Returns(s)
                  \/ stack' # << >> /\ Top' \in Frame /\ FrameOK(Top') /\ Calls(Top', s)
  BY <1>1, <1>2, <1>4, CallsReturn
<1>9. Debts(Top) = {}
  BY <1>1 DEF Debts
<1>10. Becomes({})
  BY <1>1, <1>2, ReturnsFrom
<1>11. OwedInv' /\ KeepsFinished /\ (Ended' <=> is_returned)
  BY <1>1, <1>5, <1>9, <1>10, OwedSame
<1>12. FlagInv'
  <2>1. CASE stack' = << >>
    <3>1. is_returned_record' /\ Ended'
      BY <1>1, <1>7, <1>8, <1>11, <2>1
    <3> QED
      BY <2>1, <3>1 DEF FlagInv
  <2>2. CASE stack' # << >>
    <3> DEFINE f == Top'
    <3>1. f \in Frame /\ FrameOK(f) /\ Calls(f, s) /\ f.node \in Stmt
      BY <1>8, <2>2 DEF Frame
    <3> HIDE DEF f
    <3>2. CASE f.pc = "list"
      <4>1. f.node.kind = "compound" /\ f.next > 1 /\ s = f.node.list[f.next - 1]
        BY <3>1, <3>2 DEF FrameOK, Calls
      <4>2. f.next \in Nat /\ f.next <= Len(f.node.list) + 1
        BY <3>1, <3>2 DEF FrameOK, Frame
      <4>3. Len(f.node.list) \in Nat
        BY <3>1, <4>1, StmtAssumption, LenProperties DEF IsStmt
      <4>4. f.next - 1 \in 1..Len(f.node.list)
        BY <4>1, <4>2, <4>3
      <4>5. ~Returns(s)
        <5>1. NestedBlocksFallThrough(Stmt)
          BY DEF WellBehaved, Behaved
        <5> QED
          BY <1>1, <3>1, <4>1, <4>4, <5>1 DEF NestedBlocksFallThrough
      <4>6. ~Ended' /\ ~is_returned'
        BY <1>1, <1>7, <1>11, <4>5
      <4>7. ~LastReturned(f)
        BY <1>1, <4>1 DEF LastReturned
      <4> QED
        BY <2>2, <3>2, <4>1, <4>6, <4>7, FlagsBack DEF f
    <3>3. CASE f.pc # "list"
      <4>1. f.pc \in {"then", "else", "body"}
        BY <3>1, <3>3 DEF Calls
      <4>2. f.node.kind # "expr"
        BY <3>1, <4>1 DEF FrameOK
      <4> QED
        BY <1>1, <1>11, <2>2, <4>1, <4>2 DEF FlagInv, f
    <3> QED
      BY <3>2, <3>3
  <2> QED
    BY <2>1, <2>2
<1> QED
  BY <1>1, <1>8, <1>11, <1>12, StillBuilding

LEMMA ExpressionBlocks ==
    ASSUME IInv, BlockInv, WellBehaved(Stmt, Decl), visit_expresion_stmt
    PROVE  BlockInv' /\ KeepsFinished
<1> DEFINE i == Effect(Top.node.tag)
<1>1. /\ phase = "body" /\ phase' = "body" /\ stack # << >> /\ Top.node.kind = "expr" /\ Top.pc = "eval"
      /\ UNCHANGED << placed, curr_block, is_returned >>
      /\ blocks' = Emit(blocks, insert, i) /\ stack' = Popped
  BY DEF visit_expresion_stmt, Evaluated, At, flags
<1>2. stack \in Seq(Frame) /\ Top.node \in Stmt /\ blocks \in Seq(Code) /\ Top.node.tag \in Tag
  BY <1>1, AtWork
<1>3. i \in Item /\ ~IsTerminator(i)
  BY <1>2, ItemTypes, Terminators
<1> HIDE DEF i
<1>4. CallInv /\ ~Ended /\ ~is_returned
  BY <1>1, OwingAtWork DEF FlagInv
<1>5. CallInv' /\ stack' # << >> /\ Top'.pc = "list" /\ Top'.node.kind = "compound" /\ ~LastReturned(Top')
  BY <1>1, <1>2, <1>4, BackToList
<1>6. Debts(Top) = {}
  BY <1>1 DEF Debts
<1>7. Becomes({})
  BY <1>1, <1>2, ReturnsFrom
<1>8. ~HasTerminator(blocks[curr_block])
  BY <1>4 DEF Ended
<1>9. OwedInv' /\ KeepsFinished /\ ~Ended'
  BY <1>1, <1>2, <1>3, <1>4, <1>6, <1>7, <1>8, OwedFills
<1>10. FlagInv'
  BY <1>1, <1>4, <1>5, <1>9, FlagsBack
<1> QED
  BY <1>1, <1>5, <1>9, <1>10, StillBuilding

LEMMA ReturnBlocks ==
    ASSUME IInv, BlockInv, WellBehaved(Stmt, Decl), visit_return_stmt
    PROVE  BlockInv' /\ KeepsFinished
<1> DEFINE s == Top.node
           i == Br(Top.node.tag, return_block)
           j == ResultStore(Top.node.tag)
           c == IF s.value THEN Emit(blocks, insert, j) ELSE blocks
<1>1. /\ phase = "body" /\ phase' = "body" /\ stack # << >> /\ s.kind = "return" /\ Top.pc = "eval"
      /\ UNCHANGED << placed, curr_block >>
      /\ is_returned' = TRUE /\ is_returned_record' = TRUE
      /\ blocks' = Emit(c, insert, i) /\ stack' = Popped
  BY DEF visit_return_stmt, Evaluated, At
<1>2. stack \in Seq(Frame) /\ s \in Stmt /\ blocks \in Seq(Code) /\ s.tag \in Tag
  BY <1>1, AtWork
<1>3. i \in Item /\ IsTerminator(i) /\ j \in Item /\ ~IsTerminator(j)
  BY <1>2, ItemTypes, Terminators DEF return_block
<1> HIDE DEF i, j
<1>4. CallInv /\ ~Ended /\ curr_block = insert /\ curr_block \in 1..Len(blocks)
  BY <1>1, OwingAtWork
<1>5. ~HasTerminator(blocks[curr_block])
  BY <1>4 DEF Ended
<1>6. /\ c \in Seq(Code) /\ Len(c) = Len(blocks) /\ ~HasTerminator(c[curr_block])
      /\ \A b \in 1..Len(blocks) : b # curr_block => c[b] = blocks[b]
  <2> DEFINE e == Emit(blocks, insert, j)
  <2>1. /\ e \in Seq(Code) /\ Len(e) = Len(blocks) /\ ~HasTerminator(e[curr_block])
        /\ \A b \in 1..Len(blocks) : b # curr_block => e[b] = blocks[b]
    BY <1>2, <1>3, <1>4, <1>5, EmitOpen
  <2> HIDE DEF e
  <2>2. c = e \/ c = blocks
    BY DEF e
  <2> QED
    BY <1>2, <1>5, <2>1, <2>2
<1> HIDE DEF c
<1>7. CallInv' /\ \/ stack' = << >> /\ s.kind = "compound"
                  \/ stack' # << >> /\ Top' \in Frame /\ FrameOK(Top') /\ Calls(Top', s)
  BY <1>1, <1>2, <1>4, CallsReturn
<1>8. Debts(Top) = {}
  BY <1>1 DEF Debts
<1>9. Becomes({})
  BY <1>1, <1>2, ReturnsFrom
<1>10. OwedInv' /\ KeepsFinished /\ Ended'
  BY <1>1, <1>3, <1>4, <1>6, <1>8, <1>9, OwedFills
<1>11. FlagInv'
  <2> DEFINE f == Top'
  <2>1. stack' # << >> /\ FrameOK(f) /\ Calls(f, s)
    BY <1>1, <1>7
  <2> HIDE DEF f
  <2>2. f.pc \in {"list", "then", "else", "body"}
    BY <2>1 DEF Calls
  <2>3. f.node.kind # "expr"
    BY <2>1, <2>2 DEF FrameOK
  <2>4. f.pc = "list" => LastReturned(f)
    BY <1>1, <2>1 DEF Calls, LastReturned
  <2>5. f.pc \notin {"start", "eval"}
    BY <2>2
  <2> QED
    BY <1>1, <1>10, <2>1, <2>3, <2>4, <2>5 DEF FlagInv, f
<1> QED
  BY <1>1, <1>7, <1>10, <1>11, StillBuilding
\* c is what the blocks are when those of S have been ended.
Ends(c, S) ==
    /\ c \in Seq(Code) /\ Len(c) = Len(blocks)
    /\ \A b \in 1..Len(blocks) : IF b \in S THEN WellFormed(c[b]) ELSE c[b] = blocks[b]

LEMMA EndsNone == ASSUME blocks \in Seq(Code) PROVE Ends(blocks, {})
  BY DEF Ends

LEMMA EndsMore ==
    ASSUME NEW c, NEW S, Ends(c, S), NEW b \in 1..Len(blocks), b \notin S, ~HasTerminator(blocks[b]),
           NEW i \in Item, IsTerminator(i)
    PROVE  Ends(Emit(c, b, i), S \cup {b})
<1>1. /\ c \in Seq(Code) /\ Len(c) = Len(blocks) /\ ~HasTerminator(c[b])
      /\ \A k \in 1..Len(blocks) : IF k \in S THEN WellFormed(c[k]) ELSE c[k] = blocks[k]
  BY DEF Ends
<1> DEFINE e == Emit(c, b, i)
<1>2. /\ e \in Seq(Code) /\ Len(e) = Len(blocks) /\ WellFormed(e[b])
      /\ \A k \in 1..Len(blocks) : k # b => e[k] = c[k]
  BY <1>1, EmitOpen
<1> HIDE DEF e
<1>3. \A k \in 1..Len(blocks) : IF k \in S \cup {b} THEN WellFormed(e[k]) ELSE e[k] = blocks[k]
  <2> SUFFICES ASSUME NEW k \in 1..Len(blocks)
               PROVE  IF k \in S \cup {b} THEN WellFormed(e[k]) ELSE e[k] = blocks[k]
    OBVIOUS
  <2>1. CASE k = b
    BY <1>2, <2>1
  <2>2. CASE k # b
    BY <1>1, <1>2, <2>2
  <2> QED
    BY <2>1, <2>2
<1> QED
  BY <1>2, <1>3 DEF Ends, e

\* A handler ends the blocks of S, opens a new one and owes D afterwards.
LEMMA EndsAndOpens ==
    ASSUME IInv, BlockInv, phase = "body", stack # << >>, NEW D, Becomes(D),
           NEW c, NEW S, Ends(c, S), blocks' = Append(c, << >>),
           placed' = placed \cup {NewBlock}, curr_block' = NewBlock,
           S \subseteq Debts(Top) \cup {curr_block}, D \subseteq Debts(Top) \cup {curr_block},
           S \cap D = {}, curr_block \in S \cup D => ~Ended, Ended \/ curr_block \in S \cup D,
           Debts(Top) \subseteq S \cup D
    PROVE  OwedInv' /\ ~Ended' /\ KeepsFinished
<1>1. /\ OwedInv /\ curr_block \in placed /\ placed \subseteq 1..Len(blocks)
      /\ return_block \notin placed /\ return_block \in 1..Len(blocks)
      /\ \A b \in Debts(Top) : b \in placed /\ b # curr_block /\ ~HasTerminator(blocks[b])
  BY OwingAtWork
<1>2. /\ c \in Seq(Code) /\ Len(c) = Len(blocks)
      /\ \A b \in 1..Len(blocks) : IF b \in S THEN WellFormed(c[b]) ELSE c[b] = blocks[b]
  BY DEF Ends
<1>3. \A b \in S \cup D : b \in placed /\ ~HasTerminator(blocks[b])
  BY <1>1 DEF Ended
<1>4. c[return_block] = blocks[return_block]
  BY <1>1, <1>2, <1>3
<1>5. \A b \in placed : c[b] = blocks[b] \/ b = curr_block \/ b \in Debts(Top)
  BY <1>1, <1>2
<1>6. \A b \in placed : b = curr_block \/ b \in Debts(Top) =>
         WellFormed(c[b]) \/ (b \in D /\ ~HasTerminator(c[b]))
  <2> SUFFICES ASSUME NEW b \in placed, b = curr_block \/ b \in Debts(Top)
               PROVE  WellFormed(c[b]) \/ (b \in D /\ ~HasTerminator(c[b]))
    OBVIOUS
  <2>0. b \in 1..Len(blocks)
    BY <1>1
  <2>1. CASE b \in S
    BY <1>2, <2>0, <2>1
  <2>2. CASE b \in D
    BY <1>2, <1>3, <2>0, <2>2
  <2>3. CASE b \notin S \cup D
    <3>1. b = curr_block /\ Ended
      BY <2>3
    <3>2. WellFormed(blocks[b])
      BY <1>1, <3>1 DEF OwedInv, Ended
    <3> QED
      BY <1>2, <2>0, <2>3, <3>2
  <2> QED
    BY <2>1, <2>2, <2>3
<1>7. \A b \in D : b \in placed /\ ~HasTerminator(c[b]) /\ (b = curr_block \/ b \in Debts(Top))
  <2> SUFFICES ASSUME NEW b \in D PROVE b \in placed /\ ~HasTerminator(c[b]) /\ (b = curr_block \/ b \in Debts(Top))
    OBVIOUS
  <2>1. b \in placed /\ ~HasTerminator(blocks[b]) /\ b \notin S
    BY <1>3
  <2>2. c[b] = blocks[b]
    BY <1>1, <1>2, <2>1
  <2> QED
    BY <2>1, <2>2
<1>8. OwedInv' /\ ~Ended'
  BY <1>1, <1>2, <1>4, <1>5, <1>6, <1>7, OwedOpens
<1>9. KeepsFinished
  <2>1. \A b \in 1..Len(blocks) : blocks'[b] = c[b]
    BY <1>2, EmptyCode, Created
  <2> QED
    BY <1>2, <1>3, <2>1 DEF KeepsFinished
<1> QED
  BY <1>8, <1>9

LEMMA SelectionThenBlocks ==
    ASSUME IInv, BlockInv, WellBehaved(Stmt, Decl), selection_stmt_then
    PROVE  BlockInv' /\ KeepsFinished
<1> DEFINE f == [Top EXCEPT !.pc = "then", !.orig_block = curr_block, !.trueBB = NewBlock]
           s == Top.node.then
<1>1. /\ phase = "body" /\ phase' = "body" /\ stack # << >>
      /\ Top.node.kind = "if" /\ Top.pc = "eval"
      /\ placed' = placed \cup {NewBlock} /\ curr_block' = NewBlock
      /\ blocks' = Append(blocks, << >>)
      /\ stack' = Call(f, s)
  BY DEF selection_stmt_then, Evaluated, At, MoveTo
<1>2. stack \in Seq(Frame) /\ Top \in Frame /\ Top.node \in Stmt /\ blocks \in Seq(Code)
  BY <1>1, AtWork
<1>3. s \in Stmt /\ s.kind \in {"compound", "return"}
  BY <1>1, <1>2, AtWork DEF IsStmt, WellBehaved, Behaved, Braced
<1>4. f \in Frame /\ f.node = Top.node /\ f.pc = "then" /\ f.orig_block = curr_block
  <2>1. Top \in Frame /\ curr_block \in Nat /\ NewBlock \in Nat
    BY <1>1, AtWork
  <2> QED
    BY <2>1 DEF Frame
<1> HIDE DEF f
<1>5. CallInv /\ ~Ended
  BY <1>1, OwingAtWork
<1>6. FrameOK(f) /\ Calls(f, s)
  BY <1>1, <1>4 DEF FrameOK, Calls
<1> HIDE DEF s
<1>7. CallInv' /\ stack' # << >> /\ Top' = Handler(s)
  BY <1>1, <1>2, <1>3, <1>4, <1>5, <1>6, CallsCall
<1>8. Debts(f) = {curr_block} /\ Distinct(f) /\ Debts(Top) = {}
  BY <1>1, <1>4 DEF Debts, Distinct
<1>9. Becomes({curr_block})
  BY <1>1, <1>2, <1>3, <1>4, <1>8, CallsOn
<1>10. OwedInv' /\ ~Ended' /\ KeepsFinished
  BY <1>1, <1>2, <1>5, <1>8, <1>9, EndsNone, EndsAndOpens
<1>11. FlagInv'
  BY <1>3, <1>7, <1>10, FlagsCalled
<1> QED
  BY <1>1, <1>7, <1>10, <1>11, StillBuilding

LEMMA SelectionElseBlocks ==
    ASSUME IInv, BlockInv, WellBehaved(Stmt, Decl), selection_stmt_else
    PROVE  BlockInv' /\ KeepsFinished
<1> DEFINE f == [Top EXCEPT !.pc = "else", !.falseBB = NewBlock,
                            !.trueBB_location = curr_block,
                            !.trueBB_returned = is_returned_record]
           s == Top.node.else
           D == {Top.orig_block} \cup (IF is_returned_record THEN {} ELSE {curr_block})
<1>1. /\ phase = "body" /\ phase' = "body" /\ stack # << >>
      /\ Top.node.kind = "if" /\ Top.pc = "then" /\ Top.node.else # NoStmt
      /\ placed' = placed \cup {NewBlock} /\ curr_block' = NewBlock
      /\ blocks' = Append(blocks, << >>)
      /\ stack' = Call(f, s)
  BY DEF selection_stmt_else, At, MoveTo
<1>2. stack \in Seq(Frame) /\ Top \in Frame /\ Top.node \in Stmt /\ blocks \in Seq(Code)
  BY <1>1, AtWork
<1>3. s \in Stmt /\ s.kind \in {"compound", "return"}
  BY <1>1, <1>2, AtWork DEF IsStmt, WellBehaved, Behaved, Braced
<1>4. /\ f \in Frame /\ f.node = Top.node /\ f.pc = "else" /\ f.orig_block = Top.orig_block
      /\ f.trueBB_location = curr_block /\ f.trueBB_returned = is_returned_record
  <2>1. Top \in Frame /\ curr_block \in Nat /\ NewBlock \in Nat /\ is_returned_record \in BOOLEAN
    BY <1>1, AtWork DEF IInv, PlainInv
  <2> QED
    BY <2>1 DEF Frame
<1> HIDE DEF f
<1>5. CallInv /\ (is_returned_record <=> Ended)
  BY <1>1, OwingAtWork DEF FlagInv
<1>6. FrameOK(f) /\ Calls(f, s)
  BY <1>1, <1>4 DEF FrameOK, Calls
<1> HIDE DEF s
<1>7. CallInv' /\ stack' # << >> /\ Top' = Handler(s)
  BY <1>1, <1>2, <1>3, <1>4, <1>5, <1>6, CallsCall
<1>8. Debts(Top) = {Top.orig_block}
  BY <1>1 DEF Debts
<1>9. Top.orig_block # curr_block
  BY <1>1, <1>8, OwingAtWork
<1>10. Debts(f) = D /\ Distinct(f)
  BY <1>4, <1>9 DEF Debts, Distinct
<1> HIDE DEF D
<1>11. Becomes(D)
  BY <1>1, <1>2, <1>3, <1>4, <1>10, CallsOn
<1>12. /\ D \subseteq Debts(Top) \cup {curr_block} /\ Debts(Top) \subseteq D
       /\ curr_block \in D => ~Ended
       /\ Ended \/ curr_block \in D
  BY <1>5, <1>8, <1>9 DEF D
<1>13. OwedInv' /\ ~Ended' /\ KeepsFinished
  BY <1>1, <1>2, <1>11, <1>12, EndsNone, EndsAndOpens
<1>14. FlagInv'
  BY <1>3, <1>7, <1>13, FlagsCalled
<1> QED
  BY <1>1, <1>7, <1>13, <1>14, StillBuilding
LEMMA SelectionEndBlocks ==
    ASSUME IInv, BlockInv, WellBehaved(Stmt, Decl), selection_stmt_end
    PROVE  BlockInv' /\ KeepsFinished
<1> DEFINE endBB == NewBlock
           hasElse == Top.pc = "else"
           trueBB_location == IF hasElse THEN Top.trueBB_location ELSE curr_block
           trueBB_returned == IF hasElse THEN Top.trueBB_returned ELSE is_returned_record
           falseBB == IF hasElse THEN Top.falseBB ELSE endBB
           tag == Top.node.tag
           i == CondBr(tag, Top.trueBB, falseBB)
           j == Br(tag, endBB)
           c1 == Emit(blocks, Top.orig_block, i)
           c2 == IF trueBB_returned THEN c1 ELSE Emit(c1, trueBB_location, j)
           c3 == IF ~hasElse \/ is_returned_record THEN c2 ELSE Emit(c2, curr_block, j)
           S1 == {Top.orig_block}
           S2 == IF trueBB_returned THEN S1 ELSE S1 \cup {trueBB_location}
           S3 == IF ~hasElse \/ is_returned_record THEN S2 ELSE S2 \cup {curr_block}
<1>1. /\ phase = "body" /\ phase' = "body" /\ stack # << >> /\ Top.node.kind = "if"
      /\ Top.pc \in {"then", "else"}
      /\ placed' = placed \cup {NewBlock} /\ curr_block' = NewBlock
      /\ blocks' = Append(c3, << >>) /\ is_returned' = FALSE /\ stack' = Popped
  BY DEF selection_stmt_end, At, MoveTo
<1>2. /\ stack \in Seq(Frame) /\ Top.node \in Stmt /\ blocks \in Seq(Code) /\ tag \in Tag /\ endBB \in Nat
      /\ Top.trueBB \in Nat /\ Top.falseBB \in Nat
  BY <1>1, AtWork DEF Frame
<1>3. i \in Item /\ IsTerminator(i) /\ j \in Item /\ IsTerminator(j)
  <2>1. falseBB \in Nat
    BY <1>2
  <2> QED
    BY <1>2, <2>1, ItemTypes, Terminators
<1> HIDE DEF i, j
<1>4. /\ CallInv /\ (is_returned_record <=> Ended)
      /\ curr_block \in 1..Len(blocks) /\ placed \subseteq 1..Len(blocks)
      /\ \A b \in Debts(Top) : b \in placed /\ b # curr_block /\ ~HasTerminator(blocks[b])
      /\ Distinct(Top)
  BY <1>1, OwingAtWork DEF FlagInv
<1>5. /\ Top.orig_block \in Debts(Top)
      /\ hasElse /\ ~trueBB_returned => trueBB_location \in Debts(Top) /\ trueBB_location # Top.orig_block
      /\ ~hasElse => trueBB_location = curr_block /\ trueBB_returned = is_returned_record
  BY <1>1, <1>4 DEF Debts, Distinct
<1>6. Debts(Top) = IF hasElse /\ ~trueBB_returned THEN {Top.orig_block, trueBB_location} ELSE {Top.orig_block}
  BY <1>1 DEF Debts
<1> HIDE DEF hasElse, trueBB_location, trueBB_returned
<1>7. Ends(c1, S1)
  <2>1. Top.orig_block \in 1..Len(blocks) /\ ~HasTerminator(blocks[Top.orig_block])
    BY <1>4, <1>5
  <2>2. Ends(c1, {} \cup S1)
    BY <1>2, <1>3, <2>1, EndsNone, EndsMore
  <2> QED
    BY <2>2
<1> HIDE DEF c1
<1>8. Ends(c2, S2)
  <2>1. CASE trueBB_returned
    BY <1>7, <2>1
  <2>2. CASE ~trueBB_returned
    <3>1. /\ trueBB_location \in 1..Len(blocks) /\ ~HasTerminator(blocks[trueBB_location])
          /\ trueBB_location \notin S1
      <4>1. CASE hasElse
        BY <1>4, <1>5, <2>2, <4>1
      <4>2. CASE ~hasElse
        <5>1. trueBB_location = curr_block /\ ~Ended /\ Top.orig_block # curr_block
          BY <1>4, <1>5, <2>2, <4>2
        <5> QED
          BY <1>4, <5>1 DEF Ended
      <4> QED
        BY <4>1, <4>2
    <3>2. Ends(Emit(c1, trueBB_location, j), S1 \cup {trueBB_location})
      <4> HIDE DEF S1
      <4> QED
        BY <1>3, <1>7, <3>1, EndsMore
    <3> QED
      BY <2>2, <3>2
  <2> QED
    BY <2>1, <2>2
<1> HIDE DEF c2
<1>9. Ends(c3, S3)
  <2>1. CASE ~hasElse \/ is_returned_record
    BY <1>8, <2>1
  <2>2. CASE ~(~hasElse \/ is_returned_record)
    <3>1. ~HasTerminator(blocks[curr_block]) /\ curr_block \notin S2
      BY <1>4, <1>5, <2>2 DEF Ended
    <3>2. Ends(Emit(c2, curr_block, j), S2 \cup {curr_block})
      <4> HIDE DEF S2
      <4> QED
        BY <1>3, <1>4, <1>8, <3>1, EndsMore
    <3> QED
      BY <2>2, <3>2
  <2> QED
    BY <2>1, <2>2
<1> HIDE DEF c3
<1>10. /\ S3 \subseteq Debts(Top) \cup {curr_block} /\ Debts(Top) \subseteq S3
       /\ curr_block \in S3 => ~Ended
       /\ Ended \/ curr_block \in S3
  <2>1. CASE hasElse
    BY <1>4, <1>5, <1>6, <2>1
  <2>2. CASE ~hasElse
    BY <1>4, <1>5, <1>6, <2>2
  <2> QED
    BY <2>1, <2>2
<1> HIDE DEF S3
<1>11. Becomes({})
  BY <1>1, <1>2, ReturnsFrom
<1>12. OwedInv' /\ ~Ended' /\ KeepsFinished
  BY <1>1, <1>9, <1>10, <1>11, EndsAndOpens
<1>13. CallInv' /\ stack' # << >> /\ Top'.pc = "list" /\ Top'.node.kind = "compound" /\ ~LastReturned(Top')
  BY <1>1, <1>2, <1>4, BackToList
<1>14. FlagInv'
  BY <1>1, <1>12, <1>13, FlagsBack
<1> QED
  BY <1>1, <1>12, <1>13, <1>14, StillBuilding

LEMMA IterationStartBlocks ==
    ASSUME IInv, BlockInv, WellBehaved(Stmt, Decl), iteration_stmt_start
    PROVE  BlockInv' /\ KeepsFinished
<1> DEFINE f == [Top EXCEPT !.pc = "eval", !.orig_block = NewBlock]
           i == Br(Top.node.tag, NewBlock)
           c == Emit(blocks, curr_block, i)
<1>1. /\ phase = "body" /\ phase' = "body" /\ stack # << >>
      /\ Top.node.kind = "while" /\ Top.pc = "start"
      /\ placed' = placed \cup {NewBlock} /\ curr_block' = NewBlock
      /\ blocks' = Append(Emit(blocks, insert, i), << >>) /\ stack' = Append(Popped, f)
  BY DEF iteration_stmt_start, At, MoveTo
<1>2. /\ stack \in Seq(Frame) /\ Top \in Frame /\ blocks \in Seq(Code) /\ Top.node.tag \in Tag
      /\ NewBlock \in Nat /\ insert = curr_block
  BY <1>1, AtWork
<1>3. f \in Frame /\ f.node = Top.node /\ f.pc = "eval" /\ f.orig_block = NewBlock /\ f.left = Top.left
  <2>1. Top \in Frame /\ NewBlock \in Nat
    BY <1>2
  <2> QED
    BY <2>1 DEF Frame
<1> HIDE DEF f
<1>4. i \in Item /\ IsTerminator(i)
  BY <1>2, ItemTypes, Terminators
<1> HIDE DEF i
<1>5. CallInv /\ FrameOK(Top) /\ ~Ended /\ curr_block \in 1..Len(blocks)
  BY <1>1, OwingAtWork
<1>6. FrameOK(f)
  BY <1>1, <1>3, <1>5 DEF FrameOK
<1>7. CallInv' /\ stack' # << >> /\ Top' = f
  BY <1>1, <1>2, <1>3, <1>5, <1>6, CallsMove
<1>8. Debts(f) = {} /\ Distinct(f) /\ Debts(Top) = {}
  BY <1>1, <1>3 DEF Debts, Distinct
<1>9. Becomes({})
  BY <1>1, <1>2, <1>3, <1>8, MovesOn
<1>10. Ends(c, {curr_block})
  <2>1. Ends(c, {} \cup {curr_block})
    BY <1>2, <1>4, <1>5, EndsNone, EndsMore DEF Ended
  <2> QED
    BY <2>1
<1>11. blocks' = Append(c, << >>)
  BY <1>1, <1>2
<1> HIDE DEF c
<1>12. OwedInv' /\ ~Ended' /\ KeepsFinished
  BY <1>1, <1>5, <1>8, <1>9, <1>10, <1>11, EndsAndOpens
<1>13. FlagInv'
  BY <1>1, <1>3, <1>7, <1>12 DEF FlagInv
<1> QED
  BY <1>1, <1>7, <1>12, <1>13, StillBuilding

LEMMA IterationBodyBlocks ==
    ASSUME IInv, BlockInv, WellBehaved(Stmt, Decl), iteration_stmt_body
    PROVE  BlockInv' /\ KeepsFinished
<1> DEFINE f == [Top EXCEPT !.pc = "body", !.trueBB = NewBlock]
           s == Top.node.body
<1>1. /\ phase = "body" /\ phase' = "body" /\ stack # << >>
      /\ Top.node.kind = "while" /\ Top.pc = "eval"
      /\ placed' = placed \cup {NewBlock} /\ curr_block' = NewBlock
      /\ blocks' = Append(blocks, << >>)
      /\ stack' = Call(f, s)
  BY DEF iteration_stmt_body, Evaluated, At, MoveTo
<1>2. stack \in Seq(Frame) /\ Top \in Frame /\ Top.node \in Stmt /\ blocks \in Seq(Code)
  BY <1>1, AtWork
<1>3. s \in Stmt /\ s.kind \in {"compound", "return"}
  BY <1>1, <1>2, AtWork DEF IsStmt, WellBehaved, Behaved, Braced
<1>4. CallInv /\ FrameOK(Top) /\ ~Ended /\ Top.orig_block = curr_block
  BY <1>1, OwingAtWork DEF FlagInv
<1>5. f \in Frame /\ f.node = Top.node /\ f.pc = "body" /\ f.orig_block = Top.orig_block /\ f.left = Top.left
  <2>1. Top \in Frame /\ NewBlock \in Nat
    BY <1>1, AtWork
  <2> QED
    BY <2>1 DEF Frame
<1> HIDE DEF f
<1>6. FrameOK(f) /\ Calls(f, s)
  BY <1>1, <1>4, <1>5 DEF FrameOK, Calls
<1> HIDE DEF s
<1>7. CallInv' /\ stack' # << >> /\ Top' = Handler(s)
  BY <1>1, <1>2, <1>3, <1>4, <1>5, <1>6, CallsCall
<1>8. Debts(f) = {curr_block} /\ Distinct(f) /\ Debts(Top) = {}
  BY <1>1, <1>4, <1>5 DEF Debts, Distinct
<1>9. Becomes({curr_block})
  BY <1>1, <1>2, <1>3, <1>5, <1>8, CallsOn
<1>10. OwedInv' /\ ~Ended' /\ KeepsFinished
  BY <1>1, <1>2, <1>4, <1>8, <1>9, EndsNone, EndsAndOpens
<1>11. FlagInv'
  BY <1>3, <1>7, <1>10, FlagsCalled
<1> QED
  BY <1>1, <1>7, <1>10, <1>11, StillBuilding

LEMMA IterationEndBlocks ==
    ASSUME IInv, BlockInv, WellBehaved(Stmt, Decl), iteration_stmt_end
    PROVE  BlockInv' /\ KeepsFinished
<1> DEFINE endBB == NewBlock
           tag == Top.node.tag
           i == Br(tag, Top.orig_block)
           j == CondBr(tag, Top.trueBB, endBB)
           c1 == IF is_returned_record THEN blocks ELSE Emit(blocks, curr_block, i)
           c2 == Emit(c1, Top.orig_block, j)
           S1 == IF is_returned_record THEN {} ELSE {curr_block}
           S2 == S1 \cup {Top.orig_block}
<1>1. /\ phase = "body" /\ phase' = "body" /\ stack # << >> /\ Top.node.kind = "while" /\ Top.pc = "body"
      /\ placed' = placed \cup {NewBlock} /\ curr_block' = NewBlock /\ is_returned' = FALSE
      /\ blocks' = Append(Emit(IF is_returned_record THEN blocks ELSE Emit(blocks, insert, i), Top.orig_block, j), << >>)
      /\ stack' = Popped
  BY DEF iteration_stmt_end, At, MoveTo
<1>2. /\ stack \in Seq(Frame) /\ Top.node \in Stmt /\ blocks \in Seq(Code) /\ tag \in Tag /\ endBB \in Nat
      /\ Top.trueBB \in Nat /\ Top.orig_block \in Nat /\ insert = curr_block
  BY <1>1, AtWork DEF Frame
<1>3. i \in Item /\ IsTerminator(i) /\ j \in Item /\ IsTerminator(j)
  BY <1>2, ItemTypes, Terminators
<1>4. /\ CallInv /\ (is_returned_record <=> Ended)
      /\ curr_block \in 1..Len(blocks) /\ placed \subseteq 1..Len(blocks)
      /\ \A b \in Debts(Top) : b \in placed /\ b # curr_block /\ ~HasTerminator(blocks[b])
  BY <1>1, OwingAtWork DEF FlagInv
<1>5. Debts(Top) = {Top.orig_block}
  BY <1>1 DEF Debts
<1>6. blocks' = Append(c2, << >>)
  BY <1>1, <1>2
<1> HIDE DEF i, j
<1>7. Ends(c1, S1)
  <2>1. CASE is_returned_record
    BY <1>2, <2>1, EndsNone
  <2>2. CASE ~is_returned_record
    <3>1. Ends(Emit(blocks, curr_block, i), {} \cup {curr_block})
      BY <1>2, <1>3, <1>4, <2>2, EndsNone, EndsMore DEF Ended
    <3> QED
      BY <2>2, <3>1
  <2> QED
    BY <2>1, <2>2
<1> HIDE DEF c1
<1>8. Ends(c2, S2)
  <2>1. Top.orig_block \in 1..Len(blocks) /\ Top.orig_block \notin S1 /\ ~HasTerminator(blocks[Top.orig_block])
    BY <1>4, <1>5
  <2> HIDE DEF S1
  <2> QED
    BY <1>3, <1>7, <2>1, EndsMore
<1> HIDE DEF c2
<1>9. /\ S2 \subseteq Debts(Top) \cup {curr_block} /\ Debts(Top) \subseteq S2
      /\ curr_block \in S2 => ~Ended
      /\ Ended \/ curr_block \in S2
  BY <1>4, <1>5
<1> HIDE DEF S2
<1>10. Becomes({})
  BY <1>1, <1>2, ReturnsFrom
<1>11. OwedInv' /\ ~Ended' /\ KeepsFinished
  BY <1>1, <1>6, <1>8, <1>9, <1>10, EndsAndOpens
<1>12. CallInv' /\ stack' # << >> /\ Top'.pc = "list" /\ Top'.node.kind = "compound" /\ ~LastReturned(Top')
  BY <1>1, <1>2, <1>4, BackToList
<1>13. FlagInv'
  BY <1>1, <1>11, <1>12, FlagsBack
<1> QED
  BY <1>1, <1>11, <1>12, <1>13, StillBuilding
LEMMA SubscriptBlocks ==
    ASSUME IInv, BlockInv, WellBehaved(Stmt, Decl), visit_var_subscript
    PROVE  BlockInv' /\ KeepsFinished
<1> DEFINE neg == NewBlock
           ok == NewBlock + 1
           tag == Top.node.tag
           L == Len(blocks)
           i == CheckBr(tag, neg, ok)
           c == Emit(blocks, curr_block, i)
           d == << CallExcept(tag), Br(tag, ok) >>
           f == [Top EXCEPT !.left = @ - 1]
<1>1. /\ phase = "body" /\ phase' = "body" /\ stack # << >> /\ placed' = placed \cup {neg, ok}
      /\ blocks' = Emit(blocks, insert, i) \o << d, << >> >> /\ stack' = Append(Popped, f)
      /\ curr_block' = ok /\ is_returned' = is_returned
      /\ Top.pc = "eval" /\ Top.left > 0
  BY DEF visit_var_subscript, MoveTo, flags
<1>2. /\ stack \in Seq(Frame) /\ Top \in Frame /\ blocks \in Seq(Code) /\ tag \in Tag
      /\ neg \in Nat /\ ok \in Nat /\ insert = curr_block /\ L \in Nat /\ L >= 2
      /\ neg = L + 1 /\ ok = L + 2
  BY <1>1, AtWork DEF NewBlock
<1>3. /\ f \in Frame /\ f.node = Top.node /\ f.pc = "eval"
  <2>1. Top \in Frame /\ Top.left > 0 /\ Top.pc = "eval"
    BY <1>1, <1>2
  <2>2. Top.left - 1 \in Nat
    BY <2>1 DEF Frame
  <2> QED
    BY <2>1, <2>2 DEF Frame
<1>4. /\ CallInv /\ FrameOK(Top) /\ FlagInv /\ OwedInv /\ ~Ended
      /\ curr_block \in 1..L /\ curr_block \in placed /\ placed \subseteq 1..L
      /\ return_block \notin placed /\ return_block \in 1..L
  BY <1>1, OwingAtWork
<1>5. Top.node.kind \in {"if", "expr", "return"} /\ (Top.node.kind = "expr" => ~is_returned)
  <2>1. Top.node.kind = "while" => Top.left = 0
    BY <1>4 DEF FrameOK
  <2>2. Top.node.kind \in {"if", "expr", "return", "while"}
    BY <1>1, <1>4 DEF FrameOK
  <2>3. Top.node.kind = "expr" => ~is_returned
    BY <1>1, <1>4 DEF FlagInv
  <2>4. Top.left # 0
    BY <1>1
  <2> QED
    BY <2>1, <2>2, <2>3, <2>4
<1> HIDE DEF f
<1>6. FrameOK(f)
  BY <1>3, <1>5 DEF FrameOK
<1>7. CallInv' /\ stack' # << >> /\ Top' = f
  BY <1>1, <1>2, <1>3, <1>4, <1>6, CallsMove
<1>8. Debts(f) = {} /\ Distinct(f) /\ Debts(Top) = {}
  BY <1>1, <1>3 DEF Debts, Distinct
<1>9. Becomes({})
  BY <1>1, <1>2, <1>3, <1>8, MovesOn
<1>10. /\ CallExcept(tag) \in Item /\ Br(tag, ok) \in Item /\ i \in Item
       /\ IsTerminator(i) /\ IsTerminator(Br(tag, ok)) /\ ~IsTerminator(CallExcept(tag))
  BY <1>2, ItemTypes, Terminators
<1>11. d \in Code /\ WellFormed(d)
  <2> DEFINE x == CallExcept(tag)
             y == Br(tag, ok)
  <2>1. x \in Item /\ y \in Item /\ IsTerminator(y) /\ ~IsTerminator(x)
    BY <1>10
  <2> HIDE DEF x, y
  <2>2. << x, y >> \in Code /\ Len(<< x, y >>) = 2 /\ << x, y >> # << >>
    BY <2>1 DEF Code
  <2>3. << x, y >>[2] = y /\ << x, y >>[1] = x
    OBVIOUS
  <2>4. \A k \in 1..(2 - 1) : k = 1
    OBVIOUS
  <2>5. WellFormed(<< x, y >>)
    BY <2>1, <2>2, <2>3, <2>4 DEF WellFormed
  <2> QED
    BY <2>2, <2>5 DEF x, y
<1> HIDE DEF d, i
<1>12. Ends(c, {curr_block})
  <2>1. Ends(c, {} \cup {curr_block})
    BY <1>2, <1>4, <1>10, EndsNone, EndsMore DEF Ended
  <2> QED
    BY <2>1
<1>13. blocks' = c \o << d, << >> >>
  BY <1>1, <1>2
<1> HIDE DEF c
<1>14. /\ c \in Seq(Code) /\ Len(c) = L
       /\ \A b \in 1..L : IF b = curr_block THEN WellFormed(c[b]) ELSE c[b] = blocks[b]
  BY <1>12 DEF Ends
<1>15. /\ \A b \in 1..L : blocks'[b] = c[b]
       /\ blocks'[neg] = d /\ blocks'[ok] = << >>
  BY <1>2, <1>11, <1>13, <1>14, EmptyCode, TwoMore
<1>16. neg \notin 1..L /\ ok \notin 1..L /\ neg # ok
  <2> HIDE DEF L, neg, ok
  <2> QED
    BY <1>2
<1>17. ~HasTerminator(blocks'[ok]) /\ WellFormed(blocks'[neg]) /\ WellFormed(blocks'[curr_block])
  BY <1>4, <1>11, <1>14, <1>15, EmptyIsOpen
<1> HIDE DEF L, neg, ok
<1>18. return_block \notin placed' /\ blocks'[return_block] = blocks[return_block]
  BY <1>1, <1>4, <1>14, <1>15, <1>16
<1>19. \A b \in placed : blocks'[b] = blocks[b] \/ b = curr_block
  BY <1>4, <1>14, <1>15
<1>20. OwedInv'
  <2>1. curr_block' \notin placed /\ placed \subseteq placed'
    BY <1>1, <1>4, <1>16
  <2>2. \A b \in placed' :
           \/ WellFormed(blocks'[b])
           \/ ~HasTerminator(blocks'[b]) /\ b = curr_block'
           \/ b \in placed /\ b # curr_block /\ b \notin Debts(Top)
    <3>1. \A b \in placed' : b = neg \/ b = ok \/ b = curr_block \/ (b \in placed /\ b # curr_block)
      BY <1>1
    <3> QED
      BY <1>1, <1>8, <1>17, <3>1
  <2> QED
    BY <1>1, <1>2, <1>4, <1>9, <1>18, <1>19, <2>1, <2>2, OwedStep
<1>21. KeepsFinished
  BY <1>4, <1>14, <1>15 DEF KeepsFinished, Ended, L
<1>22. FlagInv'
  <2>1. ~Ended'
    BY <1>1, <1>17 DEF Ended
  <2> QED
    BY <1>1, <1>3, <1>5, <1>7, <2>1 DEF FlagInv
<1> QED
  BY <1>1, <1>7, <1>20, <1>21, <1>22, StillBuilding

\* A function starts with its entry block open and its body to visit.
LEMMA FunctionBeginBlocks ==
    ASSUME IInv, WellBehaved(Stmt, Decl), fun_declaration_begin PROVE BlockInv'
<1> DEFINE fun == Head(todo)
           first == IF fun.params # << >> \/ ~fun.void THEN << Alloca >> ELSE << >>
           s == fun.body
<1>1. /\ phase' = "body" /\ todo # << >> /\ fun.kind = "fun" /\ placed' = {entrybb} /\ curr_block' = entrybb
      /\ blocks' = << << >>, first >> /\ stack' = << Handler(s) >>
  BY DEF fun_declaration_begin, MoveTo
<1>2. s \in Stmt /\ s.kind = "compound" /\ Returns(s)
  <2>1. fun \in Decl /\ IsDecl(fun)
    BY <1>1, NextDeclaration
  <2>2. Returns(s)
    BY <1>1, <2>1 DEF WellBehaved, Behaved, BodiesReturn
  <2> QED
    BY <1>1, <2>1, <2>2 DEF IsDecl
<1>3. ~HasTerminator(first)
  <2>1. ~IsTerminator(Alloca)
    BY Terminators
  <2>2. ~HasTerminator(<< Alloca >>)
    BY <2>1 DEF HasTerminator
  <2> QED
    BY <2>2, EmptyIsOpen
<1> HIDE DEF first, s
<1>4. FrameOK(Handler(s)) /\ Handler(s).node = s /\ Handler(s).pc \in {"start", "eval"}
  BY <1>2, HandlerOK
<1> DEFINE h == Handler(s)
<1>5. Debts(h) = {} /\ Distinct(h)
  BY HandlerOwesNothing
<1> HIDE DEF h
<1>6. /\ Len(stack') = 1 /\ stack'[1] = h /\ Top' = h /\ stack' # << >>
      /\ \A k \in 1..1 : k = 1
      /\ 1..(1 - 1) = {}
  BY <1>1 DEF h, Top
<1>7. ~Ended'
  BY <1>1, <1>3 DEF Ended, entrybb
<1>8. OwedInv'
  <2>1. return_block \notin placed' /\ blocks'[return_block] = << >>
    BY <1>1 DEF return_block, entrybb
  <2>2. \A b \in placed' : ~HasTerminator(blocks'[b]) /\ b = curr_block'
    BY <1>1, <1>7 DEF Ended
  <2>3. /\ \A k \in 1..Len(stack') : Debts(stack'[k]) = {} /\ Distinct(stack'[k])
        /\ \A j, k \in 1..Len(stack') : j = k
    BY <1>5, <1>6
  <2> QED
    BY <2>1, <2>2, <2>3 DEF OwedInv
<1>9. CallInv'
  <2>1. \A k \in 1..Len(stack') : FrameOK(stack'[k])
    BY <1>4, <1>6 DEF h
  <2>2. 1..(Len(stack') - 1) = {}
    BY <1>6
  <2>3. stack'[1].node.kind = "compound" /\ Returns(stack'[1].node)
    BY <1>2, <1>4, <1>6 DEF h
  <2> QED
    BY <2>1, <2>2, <2>3 DEF CallInv
<1>10. FlagInv'
  <2>1. h.node.kind = "compound" /\ h.pc \in {"start", "eval"}
    BY <1>2, <1>4 DEF h
  <2> QED
    BY <1>1, <1>6, <1>7, <2>1 DEF FlagInv
<1> QED
  BY <1>1, <1>8, <1>9, <1>10, StillBuilding

\* When the body has returned no debt is left, and return_block gets its ret.
LEMMA FunctionEndBlocks ==
    ASSUME IInv, BlockInv, fun_declaration_end PROVE BlockInv'
<1>1. /\ phase = "body" /\ phase' = "decls" /\ stack = << >> /\ stack' = << >>
      /\ placed' = placed \cup {return_block}
      /\ blocks' = Emit(blocks, return_block, Ret)
  BY DEF fun_declaration_end
<1>2. blocks \in Seq(Code) /\ placed \subseteq 1..Len(blocks) /\ Len(blocks) \in Nat /\ Len(blocks) >= 2
  BY <1>1, LenProperties DEF IInv, EmitInv
<1>3. /\ return_block \notin placed /\ blocks[return_block] = << >>
      /\ \A b \in placed : WellFormed(blocks[b]) \/ (~HasTerminator(blocks[b]) /\ b = curr_block)
  <2>1. Len(stack) = 0
    BY <1>1
  <2>2. 1..Len(stack) = {}
    BY <2>1
  <2> QED
    BY <1>1, <2>2 DEF BlockInv, OwedInv
<1>4. HasTerminator(blocks[curr_block])
  BY <1>1 DEF BlockInv, FlagInv, Ended
<1>5. return_block \in 1..Len(blocks)
  BY <1>2 DEF return_block
<1>6. /\ \A b \in 1..Len(blocks) : b # return_block => blocks'[b] = blocks[b]
      /\ WellFormed(blocks'[return_block])
  BY <1>1, <1>2, <1>3, <1>5, EmptyIsOpen, ItemTypes, Terminators, EmitOpen
<1>7. \A b \in placed' : WellFormed(blocks'[b])
  BY <1>1, <1>2, <1>3, <1>4, <1>6
<1>8. CallInv'
  <2>1. 1..Len(stack') = {} /\ 1..(Len(stack') - 1) = {}
    BY <1>1
  <2> QED
    BY <1>1, <2>1 DEF CallInv
<1> QED
  BY <1>1, <1>7, <1>8 DEF BlockInv, OwedInv, FlagInv, EndedInv
\* A global variable emits nothing, and there is no lone semicolon.
LEMMA VarDeclarationBlocks ==
    ASSUME BlockInv, visit_var_declaration PROVE BlockInv' /\ phase' # "body"
<1>1. phase = "decls" /\ phase' = "decls" /\ UNCHANGED << stack, blocks, placed >>
  BY DEF visit_var_declaration, emitting
<1>2. CallInv'
  BY <1>1 DEF BlockInv, CallInv
<1> QED
  BY <1>1, <1>2 DEF BlockInv, OwedInv, FlagInv, EndedInv

LEMMA NoEmptyStatement ==
    ASSUME IInv, WellBehaved(Stmt, Decl), visit_empty_stmt PROVE FALSE
<1>1. phase = "body" /\ stack # << >> /\ Top.node.kind = "empty"
  BY DEF visit_empty_stmt, At
<1>2. Top.node \in Stmt
  BY <1>1, AtWork
<1> QED
  BY <1>1, <1>2 DEF WellBehaved, Behaved, NoEmpty

LEMMA CrashBlocks ==
    ASSUME BlockInv, return_stmt_null PROVE BlockInv' /\ phase' # "body"
<1>1. phase' = "crashed" /\ stack' = stack
  BY DEF return_stmt_null
<1>2. CallInv'
  BY <1>1 DEF BlockInv, CallInv
<1> QED
  BY <1>1, <1>2 DEF BlockInv, OwedInv, FlagInv, EndedInv

LEMMA StutterBlocks ==
    ASSUME BlockInv, UNCHANGED vars PROVE BlockInv' /\ KeepsFinished
<1>1. UNCHANGED << phase, stack, blocks, placed, curr_block, is_returned, is_returned_record >>
  BY DEF vars
<1>2. OwedInv'
  BY <1>1 DEF BlockInv, OwedInv
<1>3. CallInv'
  BY <1>1 DEF BlockInv, CallInv
<1>4. FlagInv'
  BY <1>1 DEF BlockInv, FlagInv, Top, Ended
<1>5. EndedInv'
  BY <1>1 DEF BlockInv, EndedInv
<1> QED
  BY <1>1, <1>2, <1>3, <1>4, <1>5 DEF BlockInv, KeepsFinished

LEMMA StepBlocks ==
    ASSUME IInv, BlockInv, WellBehaved(Stmt, Decl), [Next]_vars
    PROVE  BlockInv' /\ (phase = "body" /\ phase' = "body" => KeepsFinished)
<1>1. CASE fun_declaration_begin
  <2>1. phase = "decls"
    BY <1>1 DEF fun_declaration_begin
  <2> QED
    BY <1>1, <2>1, FunctionBeginBlocks
<1>2. CASE fun_declaration_end
  <2>1. phase' = "decls"
    BY <1>2 DEF fun_declaration_end
  <2> QED
    BY <1>2, <2>1, FunctionEndBlocks
<1> QED
  BY <1>1, <1>2, CompoundEnterBlocks, CompoundNextBlocks, CompoundExitBlocks, SubscriptBlocks,
     ExpressionBlocks, ReturnBlocks, SelectionThenBlocks, SelectionElseBlocks, SelectionEndBlocks,
     IterationStartBlocks, IterationBodyBlocks, IterationEndBlocks,
     VarDeclarationBlocks, NoEmptyStatement, CrashBlocks, StutterBlocks DEF Next, Walk, Stopped

LEMMA BlockInvariance ==
    ASSUME WellBehaved(Stmt, Decl) PROVE Spec => []BlockInv
<1>1. Init => BlockInv
  <2> SUFFICES ASSUME Init PROVE BlockInv
    OBVIOUS
  <2>1. phase = "decls" /\ stack = << >> /\ placed = {}
    BY DEF Init
  <2>2. 1..Len(stack) = {} /\ 1..(Len(stack) - 1) = {}
    BY <2>1
  <2>3. CallInv
    BY <2>1, <2>2 DEF CallInv
  <2> QED
    BY <2>1, <2>3 DEF BlockInv, OwedInv, FlagInv, EndedInv
<1>2. IInv /\ BlockInv /\ [Next]_vars => BlockInv'
  BY StepBlocks
<1> QED
  BY <1>1, <1>2, Invariance, PTL DEF Spec

-----------------------------------------------------------------------------
(* Where a return value is stored.  The global return_alloca is the slot of  *)
(* the function being built, or nothing that is being visited returns a      *)
(* value; so no store goes astray.                                          *)

Nodes(t) == { t[k].node : k \in 1..Len(t) }

ResultInv ==
    phase = "body" => \/ return_alloca = "own"
                      \/ \E S \in SUBSET Stmt : ReturnsNothing(S) /\ Nodes(stack) \subseteq S

AllOwn(c) == \A b \in 1..Len(c) : OwnStores(c[b])

StoreInv == ResultInv /\ AllOwn(blocks)

LEMMA ItemsOwn ==
    /\ Ret.op # "stray_store" /\ Alloca.op # "stray_store"
    /\ \A tag : /\ Effect(tag).op # "stray_store" /\ StoreResult(tag).op # "stray_store"
                /\ CallExcept(tag).op # "stray_store"
    /\ \A tag, b : Br(tag, b).op # "stray_store"
    /\ \A tag, b, c : CondBr(tag, b, c).op # "stray_store" /\ CheckBr(tag, b, c).op # "stray_store"
  BY DEF Ret, Alloca, Effect, StoreResult, CallExcept, Br, CondBr, CheckBr

LEMMA EmptyOwn == OwnStores(<< >>)
  BY DEF OwnStores

LEMMA AppendOwn ==
    ASSUME NEW code \in Code, OwnStores(code), NEW i \in Item, i.op # "stray_store"
    PROVE  OwnStores(Append(code, i))
<1> DEFINE d == Append(code, i)
           n == Len(code)
<1>1. n \in Nat /\ Len(d) = n + 1 /\ (\A k \in 1..n : d[k] = code[k]) /\ d[n + 1] = i
  BY AppendProperties, LenProperties DEF Code
<1>2. \A k \in 1..n : code[k].op # "stray_store"
  BY DEF OwnStores
<1> HIDE DEF d, n
<1>3. \A k \in 1..Len(d) : k \in 1..n \/ k = n + 1
  BY <1>1
<1>4. \A k \in 1..Len(d) : d[k].op # "stray_store"
  BY <1>1, <1>2, <1>3
<1> QED
  BY <1>4 DEF OwnStores, d

LEMMA EmitOwn ==
    ASSUME NEW c \in Seq(Code), AllOwn(c), NEW b, NEW i \in Item, i.op # "stray_store"
    PROVE  Emit(c, b, i) \in Seq(Code) /\ AllOwn(Emit(c, b, i))
<1> DEFINE e == Emit(c, b, i)
<1>1. e \in Seq(Code) /\ Len(e) = Len(c)
  BY EmitType
<1>2. CASE b \in 1..Len(c)
  <2> DEFINE d == Append(c[b], i)
  <2>1. OwnStores(d)
    BY <1>2, AppendOwn, ElementOfSeq DEF AllOwn
  <2>2. \A k \in 1..Len(c) : e[k] = IF k = b THEN d ELSE c[k]
    BY <1>2, Emitted
  <2> HIDE DEF d, e
  <2> QED
    BY <1>1, <2>1, <2>2 DEF AllOwn, e
<1>3. CASE b \notin 1..Len(c)
  <2>1. e = c
    BY <1>3, LenProperties DEF Emit
  <2> QED
    BY <1>1, <2>1
<1> QED
  BY <1>2, <1>3

LEMMA NewOwn ==
    ASSUME NEW c \in Seq(Code), AllOwn(c) PROVE AllOwn(Append(c, << >>))
<1> DEFINE d == Append(c, << >>)
           n == Len(c)
<1>1. n \in Nat /\ Len(d) = n + 1 /\ (\A k \in 1..n : d[k] = c[k]) /\ d[n + 1] = << >>
  BY EmptyCode, Created, LenProperties
<1>2. \A k \in 1..n : OwnStores(c[k])
  BY DEF AllOwn
<1> HIDE DEF d, n
<1>3. \A k \in 1..Len(d) : k \in 1..n \/ k = n + 1
  BY <1>1
<1>4. \A k \in 1..Len(d) : OwnStores(d[k])
  BY <1>1, <1>2, <1>3, EmptyOwn
<1> QED
  BY <1>4 DEF AllOwn, d

\* The innermost handler returns, or is replaced by f, which may call s.
LEMMA NodesBelow ==
    ASSUME stack \in Seq(Frame), stack # << >>, NEW f, NEW s
    PROVE  /\ Nodes(Popped) \subseteq Nodes(stack)
           /\ Top.node \in Nodes(stack)
           /\ Nodes(Append(Popped, f)) \subseteq Nodes(stack) \cup {f.node}
           /\ Nodes(Call(f, s)) \subseteq Nodes(stack) \cup {f.node, s}
<1> DEFINE T == Frame \cup {f, Handler(s)}
           n == Len(stack) - 1
           p == Popped
           q == Append(p, f)
           r == Append(q, Handler(s))
<1>1. /\ p \in Seq(Frame) /\ Len(p) = n /\ n \in Nat /\ Len(stack) = n + 1
      /\ \A k \in 1..n : p[k] = stack[k]
  BY TopAndPopped
<1>2. Top.node \in Nodes(stack)
  BY <1>1 DEF Top, Nodes
<1>3. p \in Seq(T)
  <2>1. p \in [1..n -> T]
    <3> HIDE DEF p, n
    <3> QED BY <1>1, ElementOfSeq, LenProperties
  <2> HIDE DEF T, p, n
  <2> QED BY <1>1, <2>1, TableIsSeq
<1>4. f \in T /\ Handler(s) \in T
  OBVIOUS
<1> HIDE DEF T, p
<1>5. /\ q \in Seq(T) /\ Len(q) = Len(p) + 1 /\ q[Len(p) + 1] = f
      /\ \A k \in 1..Len(p) : q[k] = p[k]
  BY <1>3, <1>4, AppendProperties
<1> HIDE DEF q
<1>6. /\ Len(r) = Len(q) + 1 /\ r[Len(q) + 1] = Handler(s)
      /\ \A k \in 1..Len(q) : r[k] = q[k]
  BY <1>4, <1>5, AppendProperties
<1> HIDE DEF r, n
<1>7. /\ Len(q) = n + 1 /\ q[n + 1] = f /\ Len(r) = n + 2 /\ r[n + 2] = Handler(s) /\ r[n + 1] = f
      /\ \A k \in 1..n : q[k] = stack[k] /\ r[k] = stack[k]
  BY <1>1, <1>5, <1>6
<1>8. /\ \A k \in 1..n : k \in 1..(n + 1)
      /\ \A k \in 1..(n + 1) : k \in 1..n \/ k = n + 1
      /\ \A k \in 1..(n + 2) : k \in 1..n \/ k = n + 1 \/ k = n + 2
  BY <1>1
<1>9. Handler(s).node = s
  BY DEF Handler
<1>10. Nodes(p) \subseteq Nodes(stack)
  BY <1>1, <1>8 DEF Nodes
<1>11. Nodes(q) \subseteq Nodes(stack) \cup {f.node}
  BY <1>1, <1>7, <1>8 DEF Nodes
<1>12. Nodes(r) \subseteq Nodes(stack) \cup {f.node, s}
  BY <1>1, <1>7, <1>8, <1>9 DEF Nodes
<1> QED
  BY <1>2, <1>10, <1>11, <1>12 DEF p, q, r, Call

\* The statements a handler may call accept on.
Children(s) ==
    CASE s.kind = "compound" -> { s.list[i] : i \in 1..Len(s.list) }
      [] s.kind = "if" -> {s.then} \cup ({s.else} \ {NoStmt})
      [] s.kind = "while" -> {s.body}
      [] OTHER -> {}

\* A handler's step leaves return_alloca alone and stays among the statements.
LEMMA ResultKept ==
    ASSUME IInv, ResultInv, phase = "body", stack # << >>, return_alloca' = return_alloca,
           Nodes(stack') \subseteq Nodes(stack) \cup Children(Top.node)
    PROVE  ResultInv'
<1>1. CASE return_alloca = "own"
  BY <1>1 DEF ResultInv
<1>2. CASE return_alloca # "own"
  <2>1. PICK S \in SUBSET Stmt : ReturnsNothing(S) /\ Nodes(stack) \subseteq S
    BY <1>2 DEF ResultInv
  <2>2. Top.node \in S
    BY <2>1, AtWork, NodesBelow
  <2>3. Children(Top.node) \subseteq S
    BY <2>1, <2>2 DEF Children, ReturnsNothing
  <2>4. Nodes(stack') \subseteq S
    BY <2>1, <2>3
  <2> QED
    BY <2>1, <2>4 DEF ResultInv
<1> QED
  BY <1>1, <1>2

LEMMA CompoundStores ==
    ASSUME IInv, StoreInv, compound_stmt_enter \/ compound_stmt_next \/ compound_stmt_exit
    PROVE  StoreInv'
<1>1. /\ phase = "body" /\ stack # << >> /\ Top.node.kind = "compound" /\ return_alloca' = return_alloca
      /\ blocks' = blocks \/ blocks' = Emit(blocks, insert, Alloca)
  BY DEF compound_stmt_enter, compound_stmt_next, compound_stmt_exit, At, emitting
<1>2. /\ stack \in Seq(Frame) /\ Top \in Frame /\ blocks \in Seq(Code)
  BY <1>1, AtWork
<1>3. AllOwn(blocks')
  BY <1>1, <1>2, ItemTypes, ItemsOwn, EmitOwn DEF StoreInv
<1>4. Nodes(stack') \subseteq Nodes(stack) \cup Children(Top.node)
  <2>1. CASE compound_stmt_enter
    <3> DEFINE f == [Top EXCEPT !.pc = "list"]
    <3>1. stack' = Append(Popped, f) /\ f.node = Top.node
      BY <1>2, <2>1 DEF compound_stmt_enter, Frame
    <3> HIDE DEF f
    <3> QED
      BY <1>1, <1>2, <3>1, NodesBelow
  <2>2. CASE compound_stmt_next
    <3> DEFINE f == [Top EXCEPT !.next = @ + 1]
               s == Top.node.list[Top.next]
    <3>1. stack' = Call(f, s) /\ f.node = Top.node
      BY <1>2, <2>2 DEF compound_stmt_next, Frame
    <3>2. s \in Children(Top.node)
      <4>1. Top.next \in 1..Len(Top.node.list)
        <5>1. Top.next \in Nat \ {0} /\ Top.next <= Len(Top.node.list)
          BY <1>2, <2>2 DEF compound_stmt_next, Frame
        <5>2. Top.node.list \in Seq(Stmt)
          BY <1>1, AtWork DEF IsStmt
        <5>3. Len(Top.node.list) \in Nat
          BY <5>2, LenProperties
        <5> QED
          BY <5>1, <5>3
      <4> QED
        BY <1>1, <4>1 DEF Children
    <3> HIDE DEF f, s
    <3> QED
      BY <1>1, <1>2, <3>1, <3>2, NodesBelow
  <2>3. CASE compound_stmt_exit
    BY <1>1, <1>2, <2>3, NodesBelow DEF compound_stmt_exit
  <2> QED
    BY <2>1, <2>2, <2>3
<1> QED
  BY <1>1, <1>3, <1>4, ResultKept DEF StoreInv

LEMMA SubscriptStores == ASSUME IInv, StoreInv, visit_var_subscript PROVE StoreInv'
<1> DEFINE tag == Top.node.tag
           ok == NewBlock + 1
           c == Emit(blocks, insert, CheckBr(tag, NewBlock, ok))
           i == CallExcept(tag)
           j == Br(tag, ok)
           f == [Top EXCEPT !.left = @ - 1]
<1>1. /\ phase = "body" /\ stack # << >> /\ return_alloca' = return_alloca
      /\ blocks' = c \o << << i, j >>, << >> >> /\ stack' = Append(Popped, f)
  BY DEF visit_var_subscript
<1>2. /\ stack \in Seq(Frame) /\ Top \in Frame /\ blocks \in Seq(Code) /\ tag \in Tag
      /\ NewBlock \in Nat /\ ok \in Nat
  BY <1>1, AtWork
<1>3. f.node = Top.node
  BY <1>2 DEF Frame
<1>4. c \in Seq(Code) /\ AllOwn(c)
  BY <1>2, ItemTypes, ItemsOwn, EmitOwn DEF StoreInv
<1>5. i \in Item /\ j \in Item /\ i.op # "stray_store" /\ j.op # "stray_store"
  BY <1>2, ItemTypes, ItemsOwn
<1> HIDE DEF c, i, j, f
<1> DEFINE d == << i, j >>
           g == c \o << d, << >> >>
<1>6. d \in Code /\ OwnStores(d)
  <2>1. \A k \in 1..2 : k = 1 \/ k = 2
    OBVIOUS
  <2> QED
    BY <1>5, <2>1 DEF Code, OwnStores
<1> HIDE DEF d
<1>7. /\ Len(c) \in Nat /\ Len(g) = Len(c) + 2
      /\ \A k \in 1..Len(c) : g[k] = c[k]
      /\ g[Len(c) + 1] = d /\ g[Len(c) + 2] = << >>
  BY <1>4, <1>6, EmptyCode, TwoMore, LenProperties
<1>8. blocks' = g
  BY <1>1 DEF d
<1> HIDE DEF g
<1>9. \A k \in 1..Len(g) : k \in 1..Len(c) \/ k = Len(c) + 1 \/ k = Len(c) + 2
  BY <1>7
<1>10. AllOwn(g)
  BY <1>4, <1>6, <1>7, <1>9, EmptyOwn DEF AllOwn
<1>11. Nodes(stack') \subseteq Nodes(stack) \cup Children(Top.node)
  BY <1>1, <1>2, <1>3, NodesBelow
<1> QED
  BY <1>1, <1>8, <1>10, <1>11, ResultKept DEF StoreInv

\* A value is returned only where there is a slot for it.
LEMMA ReturnHasSlot ==
    ASSUME IInv, ResultInv, phase = "body", stack # << >>, Top.node.kind = "return", Top.node.value
    PROVE  return_alloca = "own"
<1> SUFFICES ASSUME return_alloca # "own" PROVE FALSE
  OBVIOUS
<1>1. PICK S \in SUBSET Stmt : ReturnsNothing(S) /\ Nodes(stack) \subseteq S
  BY DEF ResultInv
<1>2. Top.node \in S
  BY <1>1, AtWork, NodesBelow
<1> QED
  BY <1>1, <1>2 DEF ReturnsNothing

LEMMA NoNullStore == ASSUME IInv, StoreInv, return_stmt_null PROVE FALSE
  BY ReturnHasSlot DEF StoreInv, return_stmt_null, Evaluated, At

\* A handler that fills the current block and returns.
LEMMA LeafStores ==
    ASSUME IInv, StoreInv, visit_expresion_stmt \/ visit_return_stmt PROVE StoreInv'
<1> DEFINE tag == Top.node.tag
<1>1. /\ phase = "body" /\ stack # << >> /\ stack' = Popped /\ return_alloca' = return_alloca
  BY DEF visit_expresion_stmt, visit_return_stmt, Evaluated, At
<1>2. stack \in Seq(Frame) /\ blocks \in Seq(Code) /\ tag \in Tag
  BY <1>1, AtWork
<1>3. AllOwn(blocks')
  <2>1. CASE visit_expresion_stmt
    BY <1>2, <2>1, ItemTypes, ItemsOwn, EmitOwn DEF StoreInv, visit_expresion_stmt
  <2>2. CASE visit_return_stmt
    <3> DEFINE c == IF Top.node.value THEN Emit(blocks, insert, ResultStore(tag)) ELSE blocks
               i == Br(tag, return_block)
    <3>1. blocks' = Emit(c, insert, i) /\ Top.node.kind = "return"
      BY <2>2 DEF visit_return_stmt, Evaluated, At
    <3>2. c \in Seq(Code) /\ AllOwn(c)
      <4>1. CASE Top.node.value
        <5>1. ResultStore(tag) = StoreResult(tag)
          BY <1>1, <3>1, <4>1, ReturnHasSlot DEF StoreInv, ResultStore
        <5> QED
          BY <1>2, <4>1, <5>1, ItemTypes, ItemsOwn, EmitOwn DEF StoreInv
      <4>2. CASE ~Top.node.value
        BY <1>2, <4>2 DEF StoreInv
      <4> QED
        BY <4>1, <4>2
    <3>3. i \in Item /\ i.op # "stray_store"
      BY <1>2, ItemTypes, ItemsOwn DEF return_block
    <3> HIDE DEF c, i
    <3> QED
      BY <3>1, <3>2, <3>3, EmitOwn
  <2> QED
    BY <2>1, <2>2
<1>4. Nodes(stack') \subseteq Nodes(stack) \cup Children(Top.node)
  BY <1>1, <1>2, NodesBelow
<1> QED
  BY <1>1, <1>3, <1>4, ResultKept DEF StoreInv

\* A handler that opens blocks: in between it ends others with branches.
LEMMA SelectionStores ==
    ASSUME IInv, StoreInv, selection_stmt_then \/ selection_stmt_else \/ selection_stmt_end
    PROVE  StoreInv'
<1>1. /\ phase = "body" /\ stack # << >> /\ Top.node.kind = "if" /\ return_alloca' = return_alloca
  BY DEF selection_stmt_then, selection_stmt_else, selection_stmt_end, Evaluated, At
<1>2. stack \in Seq(Frame) /\ Top \in Frame /\ blocks \in Seq(Code) /\ Top.node.tag \in Tag /\ NewBlock \in Nat
  BY <1>1, AtWork
<1>3. CASE selection_stmt_then
  <2> DEFINE f == [Top EXCEPT !.pc = "then", !.orig_block = curr_block, !.trueBB = NewBlock]
  <2>1. stack' = Call(f, Top.node.then) /\ blocks' = Append(blocks, << >>)
    BY <1>3 DEF selection_stmt_then
  <2>2. f.node = Top.node
    BY <1>2 DEF Frame
  <2> HIDE DEF f
  <2>3. Nodes(stack') \subseteq Nodes(stack) \cup Children(Top.node)
    <3>1. Top.node.then \in Children(Top.node)
      BY <1>1 DEF Children
    <3> QED
      BY <1>1, <1>2, <2>1, <2>2, <3>1, NodesBelow
  <2> QED
    BY <1>1, <1>2, <2>1, <2>3, NewOwn, ResultKept DEF StoreInv
<1>4. CASE selection_stmt_else
  <2> DEFINE f == [Top EXCEPT !.pc = "else", !.falseBB = NewBlock, !.trueBB_location = curr_block,
                              !.trueBB_returned = is_returned_record]
  <2>1. /\ stack' = Call(f, Top.node.else) /\ blocks' = Append(blocks, << >>)
        /\ Top.node.else # NoStmt
    BY <1>4 DEF selection_stmt_else
  <2>2. f.node = Top.node
    BY <1>2 DEF Frame
  <2> HIDE DEF f
  <2>3. Nodes(stack') \subseteq Nodes(stack) \cup Children(Top.node)
    <3>1. Top.node.else \in Children(Top.node)
      BY <1>1, <2>1 DEF Children
    <3> QED
      BY <1>1, <1>2, <2>1, <2>2, <3>1, NodesBelow
  <2> QED
    BY <1>1, <1>2, <2>1, <2>3, NewOwn, ResultKept DEF StoreInv
<1>5. CASE selection_stmt_end
  <2> DEFINE endBB == NewBlock
             hasElse == Top.pc = "else"
             trueBB_location == IF hasElse THEN Top.trueBB_location ELSE curr_block
             trueBB_returned == IF hasElse THEN Top.trueBB_returned ELSE is_returned_record
             falseBB == IF hasElse THEN Top.falseBB ELSE endBB
             tag == Top.node.tag
             i == CondBr(tag, Top.trueBB, falseBB)
             j == Br(tag, endBB)
             c1 == Emit(blocks, Top.orig_block, i)
             c2 == IF trueBB_returned THEN c1 ELSE Emit(c1, trueBB_location, j)
             c3 == IF ~hasElse \/ is_returned_record THEN c2 ELSE Emit(c2, curr_block, j)
  <2>1. blocks' = Append(c3, << >>) /\ stack' = Popped
    BY <1>5 DEF selection_stmt_end
  <2>2. falseBB \in Nat /\ Top.trueBB \in Nat
    BY <1>2 DEF Frame
  <2>3. i \in Item /\ j \in Item /\ i.op # "stray_store" /\ j.op # "stray_store"
    BY <1>2, <2>2, ItemTypes, ItemsOwn
  <2> HIDE DEF i, j
  <2>4. c1 \in Seq(Code) /\ AllOwn(c1)
    BY <1>2, <2>3, EmitOwn DEF StoreInv
  <2> HIDE DEF c1
  <2>5. c2 \in Seq(Code) /\ AllOwn(c2)
    <3>1. Emit(c1, trueBB_location, j) \in Seq(Code) /\ AllOwn(Emit(c1, trueBB_location, j))
      BY <2>3, <2>4, EmitOwn
    <3> QED
      BY <2>4, <3>1
  <2> HIDE DEF c2
  <2>6. c3 \in Seq(Code) /\ AllOwn(c3)
    <3>1. Emit(c2, curr_block, j) \in Seq(Code) /\ AllOwn(Emit(c2, curr_block, j))
      BY <2>3, <2>5, EmitOwn
    <3> QED
      BY <2>5, <3>1
  <2> HIDE DEF c3
  <2>7. Nodes(stack') \subseteq Nodes(stack) \cup Children(Top.node)
    BY <1>1, <1>2, <2>1, NodesBelow
  <2> QED
    BY <1>1, <2>1, <2>6, <2>7, NewOwn, ResultKept DEF StoreInv
<1> QED
  BY <1>3, <1>4, <1>5

LEMMA IterationStores ==
    ASSUME IInv, StoreInv, iteration_stmt_start \/ iteration_stmt_body \/ iteration_stmt_end
    PROVE  StoreInv'
<1> DEFINE tag == Top.node.tag
<1>1. /\ phase = "body" /\ stack # << >> /\ Top.node.kind = "while" /\ return_alloca' = return_alloca
  BY DEF iteration_stmt_start, iteration_stmt_body, iteration_stmt_end, Evaluated, At
<1>2. /\ stack \in Seq(Frame) /\ Top \in Frame /\ blocks \in Seq(Code) /\ tag \in Tag
      /\ NewBlock \in Nat /\ Top.trueBB \in Nat /\ Top.orig_block \in Nat
  BY <1>1, AtWork DEF Frame
<1>3. CASE iteration_stmt_start
  <2> DEFINE f == [Top EXCEPT !.pc = "eval", !.orig_block = NewBlock]
             c == Emit(blocks, insert, Br(tag, NewBlock))
  <2>1. stack' = Append(Popped, f) /\ blocks' = Append(c, << >>)
    BY <1>3 DEF iteration_stmt_start
  <2>2. f.node = Top.node
    BY <1>2 DEF Frame
  <2> HIDE DEF f
  <2>3. c \in Seq(Code) /\ AllOwn(c)
    BY <1>2, ItemTypes, ItemsOwn, EmitOwn DEF StoreInv
  <2> HIDE DEF c
  <2>4. Nodes(stack') \subseteq Nodes(stack) \cup Children(Top.node)
    BY <1>1, <1>2, <2>1, <2>2, NodesBelow
  <2> QED
    BY <1>1, <2>1, <2>3, <2>4, NewOwn, ResultKept DEF StoreInv
<1>4. CASE iteration_stmt_body
  <2> DEFINE f == [Top EXCEPT !.pc = "body", !.trueBB = NewBlock]
  <2>1. stack' = Call(f, Top.node.body) /\ blocks' = Append(blocks, << >>)
    BY <1>4 DEF iteration_stmt_body
  <2>2. f.node = Top.node
    BY <1>2 DEF Frame
  <2> HIDE DEF f
  <2>3. Nodes(stack') \subseteq Nodes(stack) \cup Children(Top.node)
    <3>1. Top.node.body \in Children(Top.node)
      BY <1>1 DEF Children
    <3> QED
      BY <1>1, <1>2, <2>1, <2>2, <3>1, NodesBelow
  <2> QED
    BY <1>1, <1>2, <2>1, <2>3, NewOwn, ResultKept DEF StoreInv
<1>5. CASE iteration_stmt_end
  <2> DEFINE i == Br(tag, Top.orig_block)
             j == CondBr(tag, Top.trueBB, NewBlock)
             c1 == IF is_returned_record THEN blocks ELSE Emit(blocks, insert, i)
             c2 == Emit(c1, Top.orig_block, j)
  <2>1. blocks' = Append(c2, << >>) /\ stack' = Popped
    BY <1>5 DEF iteration_stmt_end
  <2>2. i \in Item /\ j \in Item /\ i.op # "stray_store" /\ j.op # "stray_store"
    BY <1>2, ItemTypes, ItemsOwn
  <2> HIDE DEF i, j
  <2>3. c1 \in Seq(Code) /\ AllOwn(c1)
    <3>1. Emit(blocks, insert, i) \in Seq(Code) /\ AllOwn(Emit(blocks, insert, i))
      BY <1>2, <2>2, EmitOwn DEF StoreInv
    <3> QED
      BY <1>2, <3>1 DEF StoreInv
  <2> HIDE DEF c1
  <2>4. c2 \in Seq(Code) /\ AllOwn(c2)
    BY <2>2, <2>3, EmitOwn
  <2> HIDE DEF c2
  <2>5. Nodes(stack') \subseteq Nodes(stack) \cup Children(Top.node)
    BY <1>1, <1>2, <2>1, NodesBelow
  <2> QED
    BY <1>1, <2>1, <2>4, <2>5, NewOwn, ResultKept DEF StoreInv
<1> QED
  BY <1>3, <1>4, <1>5

\* A function with a result has its slot before its body is visited.
LEMMA FunctionBeginStores ==
    ASSUME IInv, WellBehaved(Stmt, Decl), fun_declaration_begin PROVE StoreInv'
<1> DEFINE fun == Head(todo)
           first == IF fun.params # << >> \/ ~fun.void THEN << Alloca >> ELSE << >>
           s == fun.body
<1>1. /\ todo # << >> /\ fun.kind = "fun" /\ blocks' = << << >>, first >> /\ stack' = << Handler(s) >>
      /\ ~fun.void => return_alloca' = "own"
  BY DEF fun_declaration_begin
<1>2. OwnStores(first)
  <2>1. OwnStores(<< Alloca >>)
    BY ItemsOwn DEF OwnStores
  <2> QED
    BY <2>1, EmptyOwn
<1> HIDE DEF first
<1>3. AllOwn(blocks')
  <2>1. \A b \in 1..2 : b = 1 \/ b = 2
    OBVIOUS
  <2> QED
    BY <1>1, <1>2, <2>1, EmptyOwn DEF AllOwn
<1>4. Nodes(stack') = {s}
  <2>1. Handler(s).node = s
    BY DEF Handler
  <2>2. \A k \in 1..1 : k = 1
    OBVIOUS
  <2> QED
    BY <1>1, <2>1, <2>2 DEF Nodes
<1>5. fun \in Decl
  BY <1>1, NextDeclaration
<1>6. CASE fun.void
  <2>1. PICK voids \in SUBSET Stmt : ResultsFit(voids, Decl)
    BY DEF WellBehaved, Behaved
  <2>2. ReturnsNothing(voids) /\ s \in voids
    BY <1>1, <1>5, <1>6, <2>1 DEF ResultsFit
  <2> QED
    BY <1>3, <1>4, <2>2 DEF StoreInv, ResultInv
<1>7. CASE ~fun.void
  BY <1>1, <1>3, <1>7 DEF StoreInv, ResultInv
<1> QED
  BY <1>6, <1>7

LEMMA ElsewhereStores ==
    ASSUME IInv, StoreInv,
           fun_declaration_end \/ visit_var_declaration \/ visit_empty_stmt \/ UNCHANGED vars
    PROVE  StoreInv'
<1>1. CASE fun_declaration_end
  <2>1. phase = "body" /\ phase' = "decls" /\ blocks' = Emit(blocks, return_block, Ret)
    BY <1>1 DEF fun_declaration_end
  <2>2. blocks \in Seq(Code)
    BY DEF IInv, EmitInv
  <2> QED
    BY <2>1, <2>2, ItemTypes, ItemsOwn, EmitOwn DEF StoreInv, ResultInv
<1>2. CASE visit_var_declaration
  BY <1>2 DEF visit_var_declaration, emitting, StoreInv, ResultInv
<1>3. CASE visit_empty_stmt
  BY <1>3 DEF visit_empty_stmt, emitting, StoreInv, ResultInv
<1>4. CASE UNCHANGED vars
  BY <1>4 DEF vars, StoreInv, ResultInv
<1> QED
  BY <1>1, <1>2, <1>3, <1>4

LEMMA StoreInvariance ==
    ASSUME WellBehaved(Stmt, Decl) PROVE Spec => []StoreInv
<1>1. Init => StoreInv
  BY EmptySeq DEF Init, StoreInv, ResultInv, AllOwn
<1>2. IInv /\ StoreInv /\ [Next]_vars => StoreInv'
  <2> SUFFICES ASSUME IInv, StoreInv, [Next]_vars PROVE StoreInv'
    OBVIOUS
  <2> QED
    BY FunctionBeginStores, CompoundStores, SubscriptStores, LeafStores, SelectionStores, IterationStores,
       NoNullStore, ElsewhereStores DEF Next, Walk, Stopped
<1> QED
  BY <1>1, <1>2, Invariance, PTL DEF Spec

\* In a finished function of a well-behaved program every basic block ends with
\* its only terminator and every store goes to a slot of that function, so the
\* module passes LLVM's verifier.
THEOREM FinishedFunctionsVerify ==
    ASSUME WellBehaved(Stmt, Decl) PROVE Spec => []FunctionsVerify
<1>1. IInv /\ BlockInv /\ StoreInv => FunctionsVerify
  BY DEF IInv, EmitInv, BlockInv, EndedInv, StoreInv, AllOwn, FunctionsVerify
<1> QED
  BY <1>1, Invariance, BlockInvariance, StoreInvariance, PTL

\* When a branch or a loop body of a well-behaved program has been visited,
\* is_returned_record says whether the current block has its terminator.
THEOREM RecordIsAccurate ==
    ASSUME WellBehaved(Stmt, Decl) PROVE Spec => []RecordTellsReturn
<1>1. BlockInv => RecordTellsReturn
  BY DEF BlockInv, FlagInv, RecordTellsReturn, Resumed, Ended
<1> QED
  BY <1>1, BlockInvariance, PTL

\* Nothing is emitted into a block that has its terminator, in a well-behaved
\* program: no statement after a return and no late back-patch.
THEOREM FinishedBlocksStay ==
    ASSUME WellBehaved(Stmt, Decl) PROVE Spec => NothingAfterTerminator
<1> DEFINE Kept == phase = "body" /\ phase' = "body" =>
                     \A b \in 1..Len(blocks) : HasTerminator(blocks[b]) => blocks'[b] = blocks[b]
<1>1. IInv /\ BlockInv /\ [Next]_vars => [Kept]_vars
  BY StepBlocks DEF KeepsFinished
<1>2. Spec => [][Kept]_vars
  <2> HIDE DEF Kept
  <2> QED
    BY <1>1, Invariance, BlockInvariance, PTL DEF Spec
<1> QED
  BY <1>2 DEF NothingAfterTerminator
=============================================================================
