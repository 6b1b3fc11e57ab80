----------------------------- MODULE ADCEProofs -----------------------------
(***************************************************************************)
(* Proofs about aggressive dead code elimination, for every set of         *)
(* functions.                                                              *)
(***************************************************************************)
EXTENDS ADCE, SharedLemmas, FiniteSetTheorems

-----------------------------------------------------------------------------
(* The last element of a stack.                                            *)

LEMMA LastAndFront ==
    ASSUME NEW S, NEW s \in Seq(S), s # << >>
    PROVE  /\ Last(s) \in S /\ Front(s) \in Seq(S) /\ Len(Front(s)) = Len(s) - 1
           /\ Len(s) \in Nat \ {0}
           /\ \A i \in 1..(Len(s) - 1) : Front(s)[i] = s[i]
<1>1. Len(s) > 0 /\ Len(s) \in Nat
  BY EmptySeq, LenProperties
<1>2. s[Len(s)] \in S
  BY <1>1, ElementOfSeq
<1> QED
  BY <1>1, <1>2, FrontProperties DEF Last, Front

-----------------------------------------------------------------------------
(* The functions.                                                          *)

LEMMA FunctionFacts ==
    ASSUME function \in Function
    PROVE  /\ function.n \in Nat \ {0}
           /\ function.succ \in [Block -> Seq(Block)]
           /\ \A b \in Block : Targets(function.succ, b) \subseteq Block
           /\ function.uses \in [Everything -> SUBSET Everything]
           /\ function.effect \cup function.phi \subseteq Everything
           /\ \A i \in Everything : i[1] \in Block
           /\ \A b \in Block : Terminator(b) \in Everything /\ IsTerminator(Terminator(b))
           /\ \A i \in Everything : IsTerminator(i) => i = Terminator(i[1])
           /\ \A b \in Block : Terminator(b)[1] = b
           /\ \A b \in Block : function.term[b] = "br" => function.succ[b] # << >>
           /\ \A b \in Block : function.term[b] = "ret" => function.succ[b] = << >>
           /\ function.debug \cap function.phi = {}
           /\ 1 \in Block /\ \A b \in Block : 1 \notin Targets(function.succ, b)
           /\ \A b \in Block : UnconditionalBranch(b) => function.uses[Terminator(b)] = {}
<1> DEFINE f == function
           ends == { << b, 0 >> : b \in 1..f.n }
<1>1. /\ f.n \in Nat \ {0}
      /\ f.succ \in [1..f.n -> Seq(1..f.n)]
      /\ f.inst \subseteq (1..f.n) \X (Nat \ {0})
      /\ f.uses \in [f.inst \cup ends -> SUBSET f.inst]
      /\ f.effect \cup f.phi \subseteq f.inst /\ f.debug \cap f.phi = {}
      /\ \A b \in 1..f.n : f.term[b] = "br" =>
            f.succ[b] # << >> /\ (Len(f.succ[b]) = 1 => f.uses[<< b, 0 >>] = {})
      /\ \A b \in 1..f.n : f.term[b] = "ret" => f.succ[b] = << >>
      /\ \A b \in 1..f.n : \A k \in 1..Len(f.succ[b]) : f.succ[b][k] # 1
  BY FunctionAssumption
<1>2. Everything = f.inst \cup ends
  BY DEF Everything, Terminator, Block
<1>3. \A b \in Block : Targets(f.succ, b) \subseteq Block
  <2> SUFFICES ASSUME NEW b \in Block, NEW k \in 1..Len(f.succ[b]) PROVE f.succ[b][k] \in Block
    BY DEF Targets
  <2>1. f.succ[b] \in Seq(Block)
    BY <1>1 DEF Block
  <2> QED
    BY <2>1, ElementOfSeq
<1>4. f.uses \in [Everything -> SUBSET Everything]
  BY <1>1, <1>2
<1>5. \A i \in Everything : i[1] \in Block
  BY <1>1, <1>2 DEF Block
<1>6. \A i \in Everything : IsTerminator(i) => i = Terminator(i[1])
  <2> SUFFICES ASSUME NEW i \in Everything, i[2] = 0 PROVE i = << i[1], 0 >>
    BY DEF IsTerminator, Terminator
  <2>1. i \notin f.inst
    BY <1>1
  <2> QED
    BY <1>2, <2>1
<1>7. \A b \in Block : /\ Terminator(b) \in Everything /\ IsTerminator(Terminator(b))
                       /\ Terminator(b)[1] = b
  BY DEF Everything, Terminator, IsTerminator
<1>8. \A b \in Block : UnconditionalBranch(b) => f.uses[Terminator(b)] = {}
  BY <1>1 DEF UnconditionalBranch, Terminator, Block
<1>9. 1 \in Block /\ \A b \in Block : 1 \notin Targets(f.succ, b)
  BY <1>1 DEF Block, Targets
<1> QED
  BY <1>1, <1>2, <1>3, <1>4, <1>5, <1>6, <1>7, <1>8, <1>9 DEF Block
-----------------------------------------------------------------------------
(* Marking.                                                                *)

\* A state of the marks that makes sense.
IsMarks(s) ==
    /\ DOMAIN s = {"live", "block", "cf", "phis", "Worklist", "NewLiveBlocks", "BlocksWithDeadTerminators", "AliveScopes"}
    /\ s = [f \in DOMAIN s |-> s[f]]
    /\ s.live \subseteq Everything /\ s.Worklist \subseteq s.live
    /\ s.block \cup s.cf \cup s.phis \cup s.NewLiveBlocks \subseteq Block
    /\ s.BlocksWithDeadTerminators \subseteq Block

\* Marking makes live what it is given, and what it makes live it queues.
LEMMA Marking ==
    ASSUME function \in Function, NEW s, IsMarks(s), NEW I, I \subseteq Everything
    PROVE  LET r == markLive(s, I)
           IN  /\ IsMarks(r)
               /\ s.live \cup I \subseteq r.live
               /\ r.live \ r.Worklist \subseteq s.live \ s.Worklist
               /\ r.BlocksWithDeadTerminators \subseteq s.BlocksWithDeadTerminators
               /\ \A i \in r.live \ s.live : IsTerminator(i) \/ i \in I
               /\ \A b \in r.BlocksWithDeadTerminators : Terminator(b) \in r.live => Terminator(b) \in s.live
<1> DEFINE new == I \ s.live
           branches == { i \in new : IsTerminator(i) /\ ~UnconditionalBranch(i[1]) }
           reached == { i[1] : i \in new } \cup UNION { Targets(function.succ, i[1]) : i \in branches }
           blocks == reached \ s.block
           all == new \cup ({ Terminator(b) : b \in { b \in blocks : UnconditionalBranch(b) } } \ s.live)
           r == markLive(s, I)
<1>1. new \subseteq Everything /\ branches \subseteq new
  OBVIOUS
<1>2. reached \subseteq Block
  <2> HIDE DEF new, branches
  <2>1. \A i \in new : i[1] \in Block
    BY <1>1, FunctionFacts
  <2>2. \A i \in branches : Targets(function.succ, i[1]) \subseteq Block
    BY <1>1, <2>1, FunctionFacts
  <2> QED
    BY <2>1, <2>2
<1>3. blocks \subseteq Block
  BY <1>2
<1>4. all \subseteq Everything /\ new \subseteq all
  <2> HIDE DEF new, reached
  <2> QED BY <1>1, <1>3, FunctionFacts DEF blocks
<1>5. r = [s EXCEPT !.live = @ \cup all,
                  !.Worklist = @ \cup all,
                  !.block = @ \cup blocks,
                  !.cf = @ \cup blocks,
                  !.NewLiveBlocks = @ \cup (blocks \ s.cf),
                  !.BlocksWithDeadTerminators = @ \ { i[1] : i \in { i \in all : IsTerminator(i) } },
                  !.AliveScopes = @ \cup UNION { Scopes(i) : i \in all }]
  BY DEF markLive
<1>6. /\ r.live = s.live \cup all
      /\ r.Worklist = s.Worklist \cup all
      /\ r.block = s.block \cup blocks
      /\ r.cf = s.cf \cup blocks
      /\ r.NewLiveBlocks = s.NewLiveBlocks \cup (blocks \ s.cf)
      /\ r.phis = s.phis
      /\ r.BlocksWithDeadTerminators = s.BlocksWithDeadTerminators \ { i[1] : i \in { i \in all : IsTerminator(i) } }
      /\ DOMAIN r = DOMAIN s /\ r = [f \in DOMAIN r |-> r[f]]
  <2> HIDE DEF all, blocks, r
  <2> QED BY <1>5 DEF IsMarks
<1>11. \A i \in all : IsTerminator(i) \/ i \in I
  <2> HIDE DEF reached
  <2> QED BY <1>3, FunctionFacts
<1>12. \A b \in Block : Terminator(b) \in all => b \in { i[1] : i \in { i \in all : IsTerminator(i) } }
  <2> HIDE DEF all
  <2> QED BY FunctionFacts
<1> HIDE DEF all, blocks, r, reached, branches
<1>13. \A i \in r.live \ s.live : IsTerminator(i) \/ i \in I
  BY <1>6, <1>11
<1>14. \A b \in r.BlocksWithDeadTerminators : Terminator(b) \in r.live => Terminator(b) \in s.live
  <2> SUFFICES ASSUME NEW b \in r.BlocksWithDeadTerminators PROVE Terminator(b) \notin all
    BY <1>6
  <2> QED
    BY <1>6, <1>12 DEF IsMarks
<1>7. new \subseteq all /\ I \subseteq s.live \cup new
  BY <1>4
<1>8. IsMarks(r)
  <2>1. r.live \subseteq Everything /\ r.Worklist \subseteq r.live
    BY <1>4, <1>6 DEF IsMarks
  <2>2. r.block \cup r.cf \cup r.phis \cup r.NewLiveBlocks \subseteq Block
    BY <1>3, <1>6 DEF IsMarks
  <2>3. r.BlocksWithDeadTerminators \subseteq Block
    BY <1>6 DEF IsMarks
  <2> QED
    BY <1>6, <2>1, <2>2, <2>3 DEF IsMarks
<1>9. s.live \cup I \subseteq r.live
  BY <1>6, <1>7
<1>10. r.live \ r.Worklist \subseteq s.live \ s.Worklist
  BY <1>6
<1> QED
  BY <1>6, <1>8, <1>9, <1>10, <1>13, <1>14 DEF r
-----------------------------------------------------------------------------
(* The inductive invariant, in parts that name the values they are about.  *)

\* An edge that is left is one of the function's.
GraphOK(g) ==
    /\ g \in [Block -> Seq(Block)]
    /\ \A b \in Block : Targets(g, b) \subseteq Targets(function.succ, b)

\* The searches stay inside the function and number no block beyond it.
SearchOK(p, st, ah, vis, po) ==
    /\ st \in Seq(Block) /\ vis \subseteq Block
    /\ po \in [Block -> 0..function.n]
    /\ p = "back edges" => ah \in Seq(Seq(Block)) /\ Len(ah) = Len(st)

\* Only branches can be dead, and those that are have not been touched.
BranchesOK(p, s, g) ==
    /\ p \in {"back edges", "entry"} =>
          \A b \in Block : function.term[b] # "br" => Terminator(b) \in s.live
    /\ p \in {"roots", "back edges", "entry", "mark"} => g = function.succ
    /\ \A b \in s.BlocksWithDeadTerminators :
          function.term[b] = "br" /\ g[b] = function.succ[b] /\ Terminator(b) \notin s.live

\* What has been taken from the worklist has its operands marked, or was
\* replaced by a branch without a condition.
Followed(s, g) ==
    \A i \in s.live \ s.Worklist :
        (IsTerminator(i) /\ g[i[1]] # function.succ[i[1]]) \/ function.uses[i] \subseteq s.live

\* What is live without a wanted effect of its own has a live user, and not a branch
\* that was replaced.
Wanted(s, g) ==
    \A i \in s.live \ (function.effect \ function.profile) :
        IsTerminator(i) \/ \E j \in s.live :
            i \in function.uses[j] /\ ~(IsTerminator(j) /\ g[j[1]] # function.succ[j[1]])

\* Before branches are removed there is nothing left to follow; instructions
\* are removed at the end.
PhasesOK(p, s, pres) ==
    /\ p \in {"roots", "back edges", "entry", "mark", "dead regions", "number", "rewire", "done"}
    /\ p \in {"dead regions", "number", "rewire", "done"} => s.Worklist = {}
    /\ p # "done" => pres = Everything
    /\ p = "done" => s.live \subseteq pres /\ pres \ function.debug \subseteq s.live

IInv ==
    /\ function \in Function
    /\ IsMarks(m)
    /\ GraphOK(succ)
    /\ SearchOK(pc, stack, ahead, Visited, PostOrder)
    /\ BranchesOK(pc, m, succ)
    /\ Followed(m, succ)
    /\ Wanted(m, succ)
    /\ PhasesOK(pc, m, present)

\* Every step keeps the function, so the parts can be shown of the new values.
LEMMA Carry ==
    ASSUME function' = function, function \in Function,
           IsMarks(m'), GraphOK(succ'),
           SearchOK(pc', stack', ahead', Visited', PostOrder'),
           BranchesOK(pc', m', succ'), Followed(m', succ'), Wanted(m', succ'),
           PhasesOK(pc', m', present')
    PROVE  IInv'
<1>1. IsMarks(m)'
  BY DEF IsMarks, Everything, Block, Terminator
<1>2. GraphOK(succ)'
  BY DEF GraphOK, Block
<1>3. SearchOK(pc, stack, ahead, Visited, PostOrder)'
  BY DEF SearchOK, Block
<1>4. BranchesOK(pc, m, succ)'
  BY DEF BranchesOK, Block, Terminator
<1>5. Followed(m, succ)'
  BY DEF Followed, IsTerminator
<1>6. PhasesOK(pc, m, present)'
  BY DEF PhasesOK, Everything, Block, Terminator
<1>7. Wanted(m, succ)'
  BY DEF Wanted, IsTerminator
<1> QED
  BY <1>1, <1>2, <1>3, <1>4, <1>5, <1>6, <1>7 DEF IInv

LEMMA InvInit == Init => IInv
<1> SUFFICES ASSUME Init PROVE IInv
  OBVIOUS
<1>1. /\ function \in Function /\ pc = "roots" /\ stack = << >> /\ Visited = {}
      /\ PostOrder = [b \in Block |-> 0]
      /\ succ = function.succ /\ present = Everything
  BY DEF Init
<1>2. m = NothingMarked
  BY DEF Init
<1>3. IsMarks(m)
  <2> DEFINE s == NothingMarked
  <2>1. DOMAIN s = {"live", "block", "cf", "phis", "Worklist", "NewLiveBlocks", "BlocksWithDeadTerminators", "AliveScopes"}
    BY DEF NothingMarked
  <2>2. s = [f \in DOMAIN s |-> s[f]]
    BY DEF NothingMarked
  <2>3. /\ s.live = {} /\ s.Worklist = {} /\ s.block = {} /\ s.cf = {} /\ s.phis = {}
        /\ s.NewLiveBlocks = {} /\ s.BlocksWithDeadTerminators = {}
    BY DEF NothingMarked
  <2> HIDE DEF s
  <2>4. IsMarks(s)
    BY <2>1, <2>2, <2>3 DEF IsMarks
  <2> QED
    BY <1>2, <2>4 DEF s
<1>4. m.live = {} /\ m.BlocksWithDeadTerminators = {}
  BY <1>2 DEF NothingMarked
<1>5. GraphOK(succ)
  BY <1>1, FunctionFacts DEF GraphOK
<1>6. SearchOK(pc, stack, ahead, Visited, PostOrder)
  <2>1. 0 \in 0..function.n
    BY <1>1, FunctionFacts
  <2>2. << >> \in Seq(Block)
    BY EmptySeq
  <2> QED
    BY <1>1, <2>1, <2>2 DEF SearchOK
<1>7. BranchesOK(pc, m, succ) /\ Followed(m, succ) /\ Wanted(m, succ) /\ PhasesOK(pc, m, present)
  BY <1>1, <1>4 DEF BranchesOK, Followed, Wanted, PhasesOK
<1> QED
  BY <1>1, <1>3, <1>5, <1>6, <1>7 DEF IInv
-----------------------------------------------------------------------------
(* Every step keeps the invariant.                                         *)

\* What more there is to say of the marks than that they make sense.
MarksOK(p, s, g) == BranchesOK(p, s, g) /\ Followed(s, g) /\ Wanted(s, g)

\* Marking keeps them, from marks s where perhaps some of what was queued is not
\* any more, when its operands are among I.
LEMMA MarkMore ==
    ASSUME IInv, pc \in {"roots", "back edges", "entry", "mark"},
           NEW s, IsMarks(s), s.live = m.live,
           s.BlocksWithDeadTerminators = m.BlocksWithDeadTerminators,
           NEW I, I \subseteq Everything,
           \A i \in m.live \ s.Worklist : i \in m.Worklist => function.uses[i] \subseteq I,
           \A i \in I : \/ IsTerminator(i) \/ i \in function.effect \ function.profile
                        \/ \E j \in m.live : i \in function.uses[j]
    PROVE  LET r == markLive(s, I)
           IN  IsMarks(r) /\ MarksOK(pc, r, succ) /\ I \subseteq r.live
<1> DEFINE r == markLive(s, I)
<1>1. /\ IsMarks(r)
      /\ s.live \cup I \subseteq r.live
      /\ r.live \ r.Worklist \subseteq s.live \ s.Worklist
      /\ r.BlocksWithDeadTerminators \subseteq s.BlocksWithDeadTerminators
      /\ \A i \in r.live \ s.live : IsTerminator(i) \/ i \in I
      /\ \A b \in r.BlocksWithDeadTerminators : Terminator(b) \in r.live => Terminator(b) \in s.live
  BY Marking DEF IInv
<1> HIDE DEF r
<1>2. succ = function.succ
  BY DEF IInv, BranchesOK
<1>3. Followed(r, succ)
  BY <1>1 DEF IInv, Followed
<1>4. BranchesOK(pc, r, succ)
  BY <1>1 DEF IInv, BranchesOK
<1>5. Wanted(r, succ)
  BY <1>1, <1>2 DEF IInv, Wanted
<1> QED
  BY <1>1, <1>3, <1>4, <1>5 DEF r, MarksOK

LEMMA InvRoots == IInv /\ initialize_roots => IInv'
<1> SUFFICES ASSUME IInv, initialize_roots PROVE IInv'
  OBVIOUS
<1> DEFINE I == { i \in Everything : isAlwaysLive(i) }
<1>1. /\ pc = "roots" /\ pc' = (IF RemoveControlFlowFlag THEN "back edges" ELSE "mark")
      /\ m' = markLive(m, I)
      /\ stack' = << 1 >> /\ ahead' = << function.succ[1] >> /\ Visited' = {1}
      /\ UNCHANGED << function, RemoveControlFlowFlag, succ, present, PostOrder >>
  BY DEF initialize_roots, code
<1>2. 1 \in Block /\ function.succ[1] \in Seq(Block)
  BY FunctionFacts DEF IInv, Block
<1>3. IsMarks(m') /\ MarksOK(pc, m', succ) /\ I \subseteq m'.live
  <2>1. /\ I \subseteq Everything
        /\ \A i \in I : IsTerminator(i) \/ i \in function.effect \ function.profile
    BY DEF isAlwaysLive
  <2> HIDE DEF I
  <2> QED BY <1>1, <2>1, MarkMore DEF IInv
<1>4. ASSUME RemoveControlFlowFlag, NEW b \in Block, function.term[b] # "br"
      PROVE  Terminator(b) \in m'.live
  <2>1. Terminator(b) \in Everything /\ IsTerminator(Terminator(b)) /\ Terminator(b)[1] = b
    BY FunctionFacts DEF IInv
  <2>2. isAlwaysLive(Terminator(b))
    BY <1>4, <2>1 DEF isAlwaysLive
  <2> QED
    BY <1>3, <2>1, <2>2
<1>5. SearchOK(pc', stack', ahead', Visited', PostOrder')
  <2>1. /\ << 1 >> \in Seq(Block) /\ << function.succ[1] >> \in Seq(Seq(Block))
        /\ Len(<< 1 >>) = 1 /\ Len(<< function.succ[1] >>) = 1
    BY <1>2
  <2>2. Len(ahead') = Len(stack')
    BY <1>1, <2>1
  <2> QED
    BY <1>1, <1>2, <2>1, <2>2 DEF IInv, SearchOK
<1>6. BranchesOK(pc', m', succ')
  <2> HIDE DEF I
  <2> QED BY <1>1, <1>3, <1>4 DEF MarksOK, BranchesOK
<1>7. Followed(m', succ') /\ Wanted(m', succ')
  BY <1>1, <1>3 DEF MarksOK
<1>8. PhasesOK(pc', m', present')
  BY <1>1 DEF IInv, PhasesOK
<1> QED
  BY <1>1, <1>3, <1>5, <1>6, <1>7, <1>8, Carry DEF IInv

\* The search for back edges.
LEMMA InvLoops == IInv /\ initialize_loops => IInv'
<1> SUFFICES ASSUME IInv, initialize_loops PROVE IInv'
  OBVIOUS
<1> DEFINE top == Len(stack)
           to == Head(ahead[top])
<1>1. /\ pc = "back edges" /\ stack # << >>
      /\ UNCHANGED << function, RemoveControlFlowFlag, succ, present, pc, PostOrder >>
  BY DEF initialize_loops, code
<1>2. /\ stack \in Seq(Block) /\ ahead \in Seq(Seq(Block)) /\ Len(ahead) = top
      /\ Visited \subseteq Block /\ PostOrder \in [Block -> 0..function.n]
  BY <1>1 DEF IInv, SearchOK
<1>3. top \in Nat \ {0} /\ ahead # << >>
  BY <1>1, <1>2, LastAndFront, EmptySeq
<1>4. ahead[top] \in Seq(Block)
  BY <1>2, <1>3, ElementOfSeq
<1>5. PhasesOK(pc', m', present')
  BY <1>1 DEF IInv, PhasesOK
<1>6. IsMarks(m') /\ MarksOK(pc', m', succ')
  <2>1. CASE m' = m
    BY <1>1, <2>1 DEF IInv, MarksOK
  <2>2. CASE m' # m
    <3>1. /\ ahead[top] # << >>
          /\ m' = BackEdgesMarked(to, ToSet(stack) \cup {to})
      BY <2>2 DEF initialize_loops
    <3>2. to \in Block
      BY <1>4, <3>1, HeadTailProperties
    <3>3. m' = markLive(m, {Terminator(to)})
      BY <2>2, <3>1 DEF BackEdgesMarked
    <3>4. {Terminator(to)} \subseteq Everything /\ IsTerminator(Terminator(to))
      BY <3>2, FunctionFacts DEF IInv
    <3>5. IsMarks(m') /\ MarksOK(pc, m', succ)
      BY <1>1, <3>3, <3>4, MarkMore DEF IInv
    <3> QED
      BY <1>1, <3>5
  <2> QED
    BY <2>1, <2>2
<1>7. SearchOK(pc', stack', ahead', Visited', PostOrder')
  <2>1. CASE ahead[top] = << >>
    <3>1. stack' = Front(stack) /\ ahead' = Front(ahead) /\ Visited' = Visited
      BY <2>1 DEF initialize_loops
    <3>2. Front(stack) \in Seq(Block) /\ Len(Front(stack)) = top - 1
      BY <1>1, <1>2, LastAndFront
    <3>3. Front(ahead) \in Seq(Seq(Block)) /\ Len(Front(ahead)) = top - 1
      BY <1>2, <1>3, LastAndFront
    <3> QED
      BY <1>1, <1>2, <3>1, <3>2, <3>3 DEF SearchOK
  <2>2. CASE ahead[top] # << >>
    <3> DEFINE rest == [ahead EXCEPT ![top] = Tail(@)]
    <3>1. to \in Block /\ Tail(ahead[top]) \in Seq(Block)
      BY <1>4, <2>2, HeadTailProperties
    <3>2. rest \in Seq(Seq(Block)) /\ Len(rest) = top
      BY <1>2, <1>3, <3>1, ExceptSeq
    <3> HIDE DEF rest
    <3>3. CASE to \in Visited
      <4>1. ahead' = rest /\ stack' = stack /\ Visited' = Visited
        BY <2>2, <3>3 DEF initialize_loops, rest
      <4> QED
        BY <1>1, <1>2, <3>2, <4>1 DEF SearchOK
    <3>4. CASE to \notin Visited
      <4>1. /\ stack' = Append(stack, to) /\ Visited' = Visited \cup {to}
            /\ ahead' = Append(rest, function.succ[to])
        BY <2>2, <3>4 DEF initialize_loops, rest
      <4>2. function.succ[to] \in Seq(Block)
        BY <3>1, FunctionFacts DEF IInv
      <4>3. stack' \in Seq(Block) /\ Len(stack') = top + 1
        BY <1>2, <3>1, <4>1, AppendProperties
      <4>4. ahead' \in Seq(Seq(Block)) /\ Len(ahead') = top + 1
        BY <3>2, <4>1, <4>2, AppendProperties
      <4> QED
        BY <1>1, <1>2, <3>1, <4>1, <4>3, <4>4 DEF SearchOK
    <3> QED
      BY <3>3, <3>4
  <2> QED
    BY <2>1, <2>2
<1> QED
  BY <1>1, <1>5, <1>6, <1>7, Carry DEF IInv, MarksOK

LEMMA InvEndless == IInv /\ initialize_endless => IInv'
<1> SUFFICES ASSUME IInv, initialize_endless PROVE IInv'
  OBVIOUS
<1> DEFINE B == { b \in Block : \E c \in RootChildren : function.term[c] # "ret" /\ c \in PDT[b] }
           I == { Terminator(b) : b \in B }
<1>1. /\ pc = "back edges" /\ pc' = "entry" /\ m' = markLive(m, I)
      /\ UNCHANGED << function, RemoveControlFlowFlag, succ, present, stack, ahead, Visited, PostOrder >>
  BY DEF initialize_endless, code, search
<1>2. I \subseteq Everything /\ \A i \in I : IsTerminator(i)
  <2>1. B \subseteq Block
    OBVIOUS
  <2> HIDE DEF B
  <2> QED BY <2>1, FunctionFacts DEF IInv
<1> HIDE DEF I
<1>3. IsMarks(m') /\ MarksOK(pc, m', succ)
  BY <1>1, <1>2, MarkMore DEF IInv
<1>4. MarksOK(pc', m', succ')
  BY <1>1, <1>3 DEF MarksOK, BranchesOK
<1>5. SearchOK(pc', stack', ahead', Visited', PostOrder')
  BY <1>1 DEF IInv, SearchOK
<1>6. PhasesOK(pc', m', present')
  BY <1>1 DEF IInv, PhasesOK
<1> QED
  BY <1>1, <1>3, <1>4, <1>5, <1>6, Carry DEF IInv, MarksOK

LEMMA InvEntry == IInv /\ initialize_entry => IInv'
<1> SUFFICES ASSUME IInv, initialize_entry PROVE IInv'
  OBVIOUS
<1> DEFINE entered == [m EXCEPT !.block = @ \cup {1}]
           s == IF UnconditionalBranch(1) THEN markLive(entered, {Terminator(1)}) ELSE entered
           dead == { b \in Block : Terminator(b) \notin s.live }
<1>1. /\ pc = "entry" /\ pc' = "mark"
      /\ m' = [s EXCEPT !.BlocksWithDeadTerminators = dead]
      /\ UNCHANGED << function, RemoveControlFlowFlag, succ, present, stack, ahead, Visited, PostOrder >>
  BY DEF initialize_entry, code, search
<1>2. 1 \in Block /\ Terminator(1) \in Everything
  BY FunctionFacts DEF IInv, Block
<1>3. /\ entered.live = m.live /\ entered.Worklist = m.Worklist
      /\ entered.block = m.block \cup {1} /\ entered.cf = m.cf /\ entered.phis = m.phis
      /\ entered.NewLiveBlocks = m.NewLiveBlocks
      /\ entered.BlocksWithDeadTerminators = m.BlocksWithDeadTerminators
      /\ DOMAIN entered = DOMAIN m /\ entered = [f \in DOMAIN entered |-> entered[f]]
  BY DEF IInv, IsMarks
<1>4. IsMarks(entered)
  <2> HIDE DEF entered
  <2>1. /\ entered.live \subseteq Everything /\ entered.Worklist \subseteq entered.live
        /\ entered.BlocksWithDeadTerminators \subseteq Block
    BY <1>3 DEF IInv, IsMarks
  <2>2. entered.block \cup entered.cf \cup entered.phis \cup entered.NewLiveBlocks \subseteq Block
    BY <1>2, <1>3 DEF IInv, IsMarks
  <2> QED
    BY <1>3, <2>1, <2>2 DEF IInv, IsMarks
<1>5. IsMarks(s) /\ MarksOK(pc, s, succ)
  <2> HIDE DEF entered
  <2>1. CASE UnconditionalBranch(1)
    <3>1. IsTerminator(Terminator(1))
      BY <1>2, FunctionFacts DEF IInv
    <3>2. LET r == markLive(entered, {Terminator(1)}) IN IsMarks(r) /\ MarksOK(pc, r, succ)
      BY <1>1, <1>2, <1>3, <1>4, <3>1, MarkMore DEF IInv
    <3> QED
      BY <2>1, <3>2
  <2>2. CASE ~UnconditionalBranch(1)
    <3>1. BranchesOK(pc, entered, succ) /\ Followed(entered, succ) /\ Wanted(entered, succ)
      BY <1>3 DEF IInv, BranchesOK, Followed, Wanted
    <3> QED
      BY <1>4, <2>2, <3>1 DEF MarksOK
  <2> QED
    BY <2>1, <2>2
<1>6. /\ m'.live = s.live /\ m'.Worklist = s.Worklist
      /\ m'.block = s.block /\ m'.cf = s.cf /\ m'.phis = s.phis
      /\ m'.NewLiveBlocks = s.NewLiveBlocks
      /\ m'.BlocksWithDeadTerminators = dead
      /\ DOMAIN m' = DOMAIN s /\ m' = [f \in DOMAIN m' |-> m'[f]]
  <2> HIDE DEF s, dead
  <2> QED BY <1>1, <1>5 DEF IsMarks
<1>7. dead \subseteq Block
  OBVIOUS
<1>8. IsMarks(m')
  <2> HIDE DEF s, dead
  <2> QED BY <1>5, <1>6, <1>7 DEF IsMarks
<1>9. BranchesOK(pc', m', succ')
  <2>1. succ' = function.succ /\ \A b \in Block : function.term[b] # "br" => Terminator(b) \in s.live
    <3> HIDE DEF s
    <3> QED BY <1>1, <1>5 DEF MarksOK, BranchesOK
  <2>2. \A b \in dead : function.term[b] = "br" /\ Terminator(b) \notin s.live
    <3> HIDE DEF s
    <3> QED BY <2>1
  <2> HIDE DEF s, dead
  <2> QED BY <1>1, <1>6, <2>1, <2>2 DEF BranchesOK
<1>10. Followed(m', succ') /\ Wanted(m', succ')
  <2> HIDE DEF s, dead
  <2> QED BY <1>1, <1>5, <1>6 DEF MarksOK, Followed, Wanted
<1>11. SearchOK(pc', stack', ahead', Visited', PostOrder')
  BY <1>1 DEF IInv, SearchOK
<1>12. PhasesOK(pc', m', present')
  BY <1>1 DEF IInv, PhasesOK
<1> QED
  BY <1>1, <1>8, <1>9, <1>10, <1>11, <1>12, Carry DEF IInv

LEMMA InvMark == IInv /\ markLiveInstructions => IInv'
<1> SUFFICES ASSUME IInv, markLiveInstructions PROVE IInv'
  OBVIOUS
<1>1. /\ pc = "mark"
      /\ UNCHANGED << function, RemoveControlFlowFlag, succ, present, stack, ahead, Visited, PostOrder, pc >>
  BY DEF markLiveInstructions, code, search
<1>2. PICK i \in m.Worklist :
          LET s == markLive([m EXCEPT !.Worklist = @ \ {i}], function.uses[i])
          IN  m' = IF i \in function.phi THEN markPhiLive(s, i[1]) ELSE s
  BY DEF markLiveInstructions
<1> DEFINE popped == [m EXCEPT !.Worklist = @ \ {i}]
           s == markLive(popped, function.uses[i])
<1>3. i \in Everything /\ function.uses[i] \subseteq Everything /\ i[1] \in Block
  <2>1. i \in Everything
    BY <1>2 DEF IInv, IsMarks
  <2>2. function.uses \in [Everything -> SUBSET Everything] /\ i[1] \in Block
    BY <2>1, FunctionFacts DEF IInv
  <2> QED
    BY <2>1, <2>2
<1>4. /\ popped.live = m.live /\ popped.Worklist = m.Worklist \ {i}
      /\ popped.block = m.block /\ popped.cf = m.cf /\ popped.phis = m.phis
      /\ popped.NewLiveBlocks = m.NewLiveBlocks
      /\ popped.BlocksWithDeadTerminators = m.BlocksWithDeadTerminators
      /\ DOMAIN popped = DOMAIN m /\ popped = [f \in DOMAIN popped |-> popped[f]]
  BY DEF IInv, IsMarks
<1>5. IsMarks(popped)
  <2> HIDE DEF popped
  <2> QED BY <1>4 DEF IInv, IsMarks
<1>6. IsMarks(s) /\ MarksOK(pc, s, succ)
  <2> HIDE DEF popped
  <2>1. i \in m.live
    BY <1>2 DEF IInv, IsMarks
  <2>2. \A j \in m.live \ popped.Worklist : j \in m.Worklist => j = i
    BY <1>4
  <2> QED
    BY <1>1, <1>3, <1>4, <1>5, <2>1, <2>2, MarkMore DEF IInv
<1> HIDE DEF s, popped
<1>7. /\ IsMarks(m') /\ m'.live = s.live /\ m'.Worklist = s.Worklist
      /\ m'.BlocksWithDeadTerminators = s.BlocksWithDeadTerminators
  <2>1. CASE m' = s
    BY <1>6, <2>1
  <2>2. CASE m' # s
    <3> DEFINE new == Preds(function.succ, i[1]) \ s.cf
    <3>1. m' = [s EXCEPT !.phis = @ \cup {i[1]}, !.cf = @ \cup new, !.NewLiveBlocks = @ \cup new]
      BY <1>2, <2>2 DEF markPhiLive, s, popped
    <3>2. new \subseteq Block
      <4>1. DOMAIN function.succ = Block
        BY FunctionFacts DEF IInv
      <4> QED
        BY <4>1 DEF Preds
    <3> HIDE DEF new
    <3>3. /\ m'.live = s.live /\ m'.Worklist = s.Worklist
          /\ m'.block = s.block /\ m'.cf = s.cf \cup new /\ m'.phis = s.phis \cup {i[1]}
          /\ m'.NewLiveBlocks = s.NewLiveBlocks \cup new
          /\ m'.BlocksWithDeadTerminators = s.BlocksWithDeadTerminators
          /\ DOMAIN m' = DOMAIN s /\ m' = [f \in DOMAIN m' |-> m'[f]]
      BY <1>6, <3>1 DEF IsMarks
    <3> QED
      BY <1>3, <1>6, <3>2, <3>3 DEF IsMarks
  <2> QED
    BY <2>1, <2>2
<1>8. Followed(m', succ') /\ Wanted(m', succ')
  BY <1>1, <1>6, <1>7 DEF MarksOK, Followed, Wanted
<1>9. BranchesOK(pc', m', succ')
  BY <1>1, <1>6, <1>7 DEF MarksOK, BranchesOK
<1>10. SearchOK(pc', stack', ahead', Visited', PostOrder')
  BY <1>1 DEF IInv, SearchOK
<1>11. PhasesOK(pc', m', present')
  BY <1>1 DEF IInv, PhasesOK
<1> QED
  BY <1>1, <1>7, <1>8, <1>9, <1>10, <1>11, Carry DEF IInv

LEMMA InvControl == IInv /\ markLiveBranchesFromControlDependences => IInv'
<1> SUFFICES ASSUME IInv, markLiveBranchesFromControlDependences PROVE IInv'
  OBVIOUS
<1> DEFINE dead == m.BlocksWithDeadTerminators
           taken == [m EXCEPT !.NewLiveBlocks = {}]
           I == { Terminator(b) : b \in ReverseIDF(m.NewLiveBlocks, dead) }
           s == markLive(taken, I)
<1>1. /\ pc = "mark" /\ m.Worklist = {}
      /\ m' = (IF dead = {} THEN m ELSE s)
      /\ pc' = IF dead # {} /\ s.Worklist # {} THEN "mark" ELSE "dead regions"
      /\ UNCHANGED << function, RemoveControlFlowFlag, succ, present, stack, ahead, Visited, PostOrder >>
  BY DEF markLiveBranchesFromControlDependences, code, search
<1>2. /\ taken.live = m.live /\ taken.Worklist = m.Worklist
      /\ taken.block = m.block /\ taken.cf = m.cf /\ taken.phis = m.phis
      /\ taken.NewLiveBlocks = {}
      /\ taken.BlocksWithDeadTerminators = m.BlocksWithDeadTerminators
      /\ DOMAIN taken = DOMAIN m /\ taken = [f \in DOMAIN taken |-> taken[f]]
  BY DEF IInv, IsMarks
<1>3. IsMarks(taken)
  <2> HIDE DEF taken
  <2> QED BY <1>2 DEF IInv, IsMarks
<1>4. I \subseteq Everything /\ \A i \in I : IsTerminator(i)
  <2>1. ReverseIDF(m.NewLiveBlocks, dead) \subseteq dead
    BY DEF ReverseIDF
  <2>2. dead \subseteq Block
    BY DEF IInv, IsMarks
  <2> QED
    BY <2>1, <2>2, FunctionFacts DEF IInv
<1>5. IsMarks(s) /\ MarksOK(pc, s, succ)
  <2> HIDE DEF taken, I
  <2> QED BY <1>1, <1>2, <1>3, <1>4, MarkMore DEF IInv
<1> HIDE DEF s
<1>6. IsMarks(m') /\ MarksOK(pc, m', succ)
  <2>1. CASE m' = m
    BY <2>1 DEF IInv, MarksOK
  <2>2. CASE m' = s
    BY <1>5, <2>2
  <2> QED
    BY <1>1, <2>1, <2>2
<1>7. MarksOK(pc', m', succ')
  BY <1>1, <1>6 DEF MarksOK, BranchesOK
<1>8. SearchOK(pc', stack', ahead', Visited', PostOrder')
  BY <1>1 DEF IInv, SearchOK
<1>9. PhasesOK(pc', m', present')
  BY <1>1 DEF IInv, PhasesOK
<1> QED
  BY <1>1, <1>6, <1>7, <1>8, <1>9, Carry DEF IInv, MarksOK

-----------------------------------------------------------------------------
(* Removal.                                                                *)

LEMMA InvNumbering == IInv /\ computeReversePostOrder => IInv'
<1> SUFFICES ASSUME IInv, computeReversePostOrder PROVE IInv'
  OBVIOUS
<1>1. /\ pc = "dead regions" /\ pc' = "number"
      /\ stack' = << >> /\ Visited' = {}
      /\ UNCHANGED << function, succ, present, m, PostOrder >>
  BY DEF computeReversePostOrder, code
<1>2. SearchOK(pc', stack', ahead', Visited', PostOrder')
  BY <1>1, EmptySeq DEF IInv, SearchOK
<1>3. BranchesOK(pc', m', succ') /\ PhasesOK(pc', m', present')
  BY <1>1 DEF IInv, BranchesOK, PhasesOK
<1> QED
  BY <1>1, <1>2, <1>3, Carry DEF IInv

LEMMA InvNumberNext == IInv /\ number_next => IInv'
<1> SUFFICES ASSUME IInv, number_next PROVE IInv'
  OBVIOUS
<1> DEFINE seen == Visited \cup ToSet(stack)
           b == Last(stack)
           fresh == Preds(succ, b) \ seen
           ends == EndsOf(succ) \ seen
           first == CHOOSE e \in ends : \A d \in ends : e <= d
<1>1. pc = "number" /\ UNCHANGED << function, succ, present, m, pc, ahead >>
  BY DEF number_next, code
<1>2. /\ stack \in Seq(Block) /\ Visited \subseteq Block /\ PostOrder \in [Block -> 0..function.n]
      /\ DOMAIN succ = Block
  BY DEF IInv, SearchOK, GraphOK
<1>3. stack' \in Seq(Block) /\ Visited' \subseteq Block /\ PostOrder' \in [Block -> 0..function.n]
  <2>1. CASE stack = << >>
    <3>1. ends # {} /\ stack' = << first >> /\ Visited' = Visited /\ PostOrder' = PostOrder
      BY <2>1 DEF number_next
    <3>2. ends \subseteq Block /\ Block \subseteq Nat
      BY <1>2 DEF EndsOf, Block
    <3> HIDE DEF ends
    <3>3. \E e \in ends : \A d \in ends : e <= d
      BY <3>1, <3>2, LeastOf
    <3>4. first \in ends
      BY <3>3
    <3> HIDE DEF first
    <3> QED
      BY <1>2, <3>1, <3>2, <3>4
  <2>2. CASE stack # << >> /\ fresh # {}
    <3>1. Visited' = Visited /\ PostOrder' = PostOrder /\ \E p \in fresh : stack' = Append(stack, p)
      BY <2>2 DEF number_next
    <3>2. fresh \subseteq Block
      BY <1>2 DEF Preds
    <3> HIDE DEF fresh
    <3> QED
      BY <1>2, <3>1, <3>2, AppendProperties
  <2>3. CASE stack # << >> /\ fresh = {}
    <3>1. /\ stack' = Front(stack) /\ Visited' = Visited \cup {b}
          /\ PostOrder' = [PostOrder EXCEPT ![b] = Numbered]
      BY <2>3 DEF number_next
    <3>2. b \in Block /\ Front(stack) \in Seq(Block)
      BY <1>2, <2>3, LastAndFront
    <3>3. Numbered \in 0..function.n
      <4>1. function.n \in Nat \ {0}
        BY FunctionFacts DEF IInv
      <4>2. IsFiniteSet(Block) /\ Cardinality(Block) = function.n
        BY <4>1, FS_Interval DEF Block
      <4>3. /\ IsFiniteSet(Visited) /\ Cardinality(Visited) \in Nat
            /\ Cardinality(Visited) <= Cardinality(Block)
        BY <1>2, <4>2, FS_Subset, FS_CardinalityType
      <4> QED
        BY <4>1, <4>2, <4>3 DEF Numbered
    <3> HIDE DEF b
    <3> QED
      BY <1>2, <3>1, <3>2, <3>3
  <2> QED
    BY <2>1, <2>2, <2>3
<1>4. SearchOK(pc', stack', ahead', Visited', PostOrder')
  BY <1>1, <1>3 DEF SearchOK
<1>5. BranchesOK(pc', m', succ') /\ PhasesOK(pc', m', present')
  BY <1>1 DEF IInv
<1> QED
  BY <1>1, <1>4, <1>5, Carry DEF IInv

LEMMA InvNumberEnd == IInv /\ number_end => IInv'
<1> SUFFICES ASSUME IInv, number_end PROVE IInv'
  OBVIOUS
<1>1. /\ pc = "number" /\ pc' = "rewire"
      /\ UNCHANGED << function, succ, present, m, stack, ahead, Visited, PostOrder >>
  BY DEF number_end, code, search
<1>2. SearchOK(pc', stack', ahead', Visited', PostOrder')
  BY <1>1 DEF IInv, SearchOK
<1>3. BranchesOK(pc', m', succ') /\ PhasesOK(pc', m', present')
  BY <1>1 DEF IInv, BranchesOK, PhasesOK
<1> QED
  BY <1>1, <1>2, <1>3, Carry DEF IInv

\* The successor that a dead branch is given is one that it had, and none of
\* them has a larger number.
LEMMA PreferredIsSuccessor ==
    ASSUME IInv, NEW b \in Block, succ[b] # << >>
    PROVE  /\ PreferredSucc(b) \in Targets(succ, b)
           /\ \A t \in Targets(succ, b) : PostOrder[t] <= PostOrder[PreferredSucc(b)]
<1> DEFINE targets == Targets(succ, b)
           ranks == { PostOrder[t] : t \in targets }
           best == { k \in 1..Len(succ[b]) : \A t \in Targets(succ, b) : PostOrder[t] <= PostOrder[succ[b][k]] }
           k0 == CHOOSE k \in best : \A h \in best : k <= h
<1>1. /\ succ[b] \in Seq(Block) /\ Len(succ[b]) \in Nat \ {0}
      /\ \A k \in 1..Len(succ[b]) : succ[b][k] \in Block
  <2>1. succ[b] \in Seq(Block)
    BY DEF IInv, GraphOK
  <2>2. Len(succ[b]) \in Nat /\ Len(succ[b]) # 0
    BY <2>1, EmptySeq, LenProperties
  <2> QED
    BY <2>1, <2>2, ElementOfSeq
<1>2. targets \subseteq Block /\ targets # {}
  <2>1. targets \subseteq Block
    BY FunctionFacts DEF IInv, GraphOK
  <2>2. succ[b][1] \in targets
    BY <1>1 DEF Targets
  <2> QED
    BY <2>1, <2>2
<1>3. function.n \in Nat /\ PostOrder \in [Block -> 0..function.n]
  BY FunctionFacts DEF IInv, SearchOK
<1>4. ranks \subseteq 0..function.n /\ ranks # {}
  <2> HIDE DEF targets
  <2> QED BY <1>2, <1>3
<1>5. PICK x \in ranks : \A y \in ranks : y <= x
  <2> HIDE DEF ranks
  <2> QED BY <1>3, <1>4, GreatestOf
<1>6. PICK k \in 1..Len(succ[b]) : x = PostOrder[succ[b][k]]
  BY <1>5 DEF Targets
<1>7. k \in best
  BY <1>5, <1>6
<1>8. best \subseteq Nat
  BY <1>1
<1>9. k0 \in best
  <2> HIDE DEF best
  <2>1. \E j \in best : \A h \in best : j <= h
    BY <1>7, <1>8, LeastOf
  <2> QED
    BY <2>1
<1>10. /\ k0 \in 1..Len(succ[b])
       /\ \A t \in Targets(succ, b) : PostOrder[t] <= PostOrder[succ[b][k0]]
  <2> HIDE DEF k0
  <2> QED BY <1>9
<1>11. PreferredSucc(b) = succ[b][k0]
  BY DEF PreferredSucc
<1> HIDE DEF k0
<1> QED
  BY <1>10, <1>11 DEF Targets

LEMMA InvRegions == IInv /\ updateDeadRegions => IInv'
<1> SUFFICES ASSUME IInv, updateDeadRegions PROVE IInv'
  OBVIOUS
<1>1. /\ pc \in {"rewire", "dead regions"}
      /\ UNCHANGED << function, RemoveControlFlowFlag, present, stack, ahead, Visited, PostOrder, pc >>
  BY DEF updateDeadRegions, search
<1>2. PICK b \in m.BlocksWithDeadTerminators :
          /\ succ' = IF UnconditionalBranch(b) THEN succ ELSE [succ EXCEPT ![b] = << PreferredSucc(b) >>]
          /\ m' = [m EXCEPT !.live = @ \cup {Terminator(b)},
                            !.BlocksWithDeadTerminators = @ \ {b},
                            !.AliveScopes = IF UnconditionalBranch(b) THEN @ ELSE @ \cup Scopes(Terminator(b))]
  BY DEF updateDeadRegions
<1>3. /\ b \in Block /\ function.term[b] = "br" /\ succ[b] = function.succ[b]
      /\ succ[b] # << >> /\ Terminator(b) \in Everything
      /\ IsTerminator(Terminator(b)) /\ Terminator(b)[1] = b
  BY <1>2, FunctionFacts DEF IInv, IsMarks, BranchesOK
<1>4. /\ m'.live = m.live \cup {Terminator(b)} /\ m'.Worklist = m.Worklist
      /\ m'.block = m.block /\ m'.cf = m.cf /\ m'.phis = m.phis
      /\ m'.NewLiveBlocks = m.NewLiveBlocks
      /\ m'.BlocksWithDeadTerminators = m.BlocksWithDeadTerminators \ {b}
      /\ DOMAIN m' = DOMAIN m /\ m' = [f \in DOMAIN m' |-> m'[f]]
  BY <1>2 DEF IInv, IsMarks
<1>5. IsMarks(m')
  BY <1>3, <1>4 DEF IInv, IsMarks
<1>6. m.Worklist = {}
  BY <1>1 DEF IInv, PhasesOK
<1>7. PhasesOK(pc', m', present')
  BY <1>1, <1>4 DEF IInv, PhasesOK
<1>8. SearchOK(pc', stack', ahead', Visited', PostOrder')
  BY <1>1 DEF IInv, SearchOK
<1>9. succ \in [Block -> Seq(Block)]
  BY DEF IInv, GraphOK
<1>11. Terminator(b) \notin m.live
  BY <1>2 DEF IInv, BranchesOK
<1>10. GraphOK(succ') /\ MarksOK(pc', m', succ')
  <2>1. CASE UnconditionalBranch(b)
    <3>1. succ' = succ /\ function.uses[Terminator(b)] = {}
      BY <1>2, <1>3, <2>1, FunctionFacts DEF IInv
    <3>2. Followed(m', succ')
      BY <1>4, <1>6, <3>1 DEF IInv, Followed
    <3>3. Wanted(m', succ')
      BY <1>3, <1>4, <3>1 DEF IInv, Wanted
    <3>4. BranchesOK(pc', m', succ')
      <4> SUFFICES ASSUME NEW c \in m.BlocksWithDeadTerminators, c # b
                   PROVE  /\ function.term[c] = "br" /\ succ'[c] = function.succ[c]
                          /\ Terminator(c) \notin m'.live
        BY <1>1, <1>4 DEF BranchesOK
      <4>1. c \in Block /\ Terminator(c) \notin m.live
        BY DEF IInv, IsMarks, BranchesOK
      <4>2. Terminator(c) # Terminator(b)
        BY <1>3, <4>1, FunctionFacts DEF IInv
      <4> QED
        BY <1>4, <3>1, <4>1, <4>2 DEF IInv, BranchesOK
    <3> QED
      BY <3>1, <3>2, <3>3, <3>4 DEF IInv, MarksOK
  <2>2. CASE ~UnconditionalBranch(b)
    <3> DEFINE x == PreferredSucc(b)
    <3>1. x \in Targets(succ, b)
      BY <1>3, PreferredIsSuccessor
    <3> HIDE DEF x
    <3>2. succ' = [succ EXCEPT ![b] = << x >>]
      BY <1>2, <2>2 DEF x
    <3>3. x \in Block /\ << x >> \in Seq(Block) /\ Len(<< x >>) = 1
      <4>1. x \in Block
        BY <1>3, <3>1, FunctionFacts DEF IInv, GraphOK
      <4> QED
        BY <4>1
    <3>4. succ'[b] = << x >> /\ \A c \in Block \ {b} : succ'[c] = succ[c]
      BY <1>3, <1>9, <3>2
    <3>5. succ' \in [Block -> Seq(Block)]
      BY <1>9, <3>2, <3>3
    <3>6. \A c \in Block : Targets(succ', c) \subseteq Targets(function.succ, c)
      <4> SUFFICES ASSUME NEW c \in Block PROVE Targets(succ', c) \subseteq Targets(function.succ, c)
        OBVIOUS
      <4>1. CASE c = b
        <5>1. Targets(succ', b) = {x}
          BY <3>3, <3>4 DEF Targets
        <5> QED
          BY <3>1, <4>1, <5>1 DEF IInv, GraphOK
      <4>2. CASE c # b
        <5>1. Targets(succ', c) = Targets(succ, c)
          BY <3>4, <4>2 DEF Targets
        <5> QED
          BY <5>1 DEF IInv, GraphOK
      <4> QED
        BY <4>1, <4>2
    <3>7. Len(function.succ[b]) # 1
      BY <1>3, <2>2 DEF UnconditionalBranch
    <3>8. succ'[b] # function.succ[b]
      BY <3>3, <3>4, <3>7
    <3>9. Followed(m', succ')
      <4> SUFFICES ASSUME NEW i \in m.live \cup {Terminator(b)},
                          ~(IsTerminator(i) /\ succ'[i[1]] # function.succ[i[1]])
                   PROVE  function.uses[i] \subseteq m'.live
        BY <1>4, <1>6 DEF Followed
      <4>1. i \in Everything /\ i[1] \in Block
        BY <1>3, FunctionFacts DEF IInv, IsMarks
      <4>2. i # Terminator(b)
        BY <1>3, <3>8
      <4>3. ~(IsTerminator(i) /\ succ[i[1]] # function.succ[i[1]])
        <5>1. CASE i[1] = b
          BY <1>3, <5>1
        <5>2. CASE i[1] # b
          BY <3>4, <4>1, <5>2
        <5> QED
          BY <5>1, <5>2
      <4>4. i \in m.live \ m.Worklist
        BY <1>6, <4>2
      <4> QED
        BY <1>4, <4>3, <4>4 DEF IInv, Followed
    <3>10. BranchesOK(pc', m', succ')
      <4> SUFFICES ASSUME NEW c \in m.BlocksWithDeadTerminators, c # b
                   PROVE  /\ function.term[c] = "br" /\ succ'[c] = function.succ[c]
                          /\ Terminator(c) \notin m'.live
        BY <1>1, <1>4 DEF BranchesOK
      <4>1. c \in Block /\ Terminator(c) \notin m.live
        BY DEF IInv, IsMarks, BranchesOK
      <4>2. Terminator(c) # Terminator(b)
        BY <1>3, <4>1, FunctionFacts DEF IInv
      <4>3. function.term[c] = "br" /\ succ[c] = function.succ[c]
        BY DEF IInv, BranchesOK
      <4>4. succ'[c] = succ[c]
        BY <3>4, <4>1
      <4> QED
        BY <1>4, <4>1, <4>2, <4>3, <4>4
    <3>11. Wanted(m', succ')
      <4> SUFFICES ASSUME NEW i \in m.live \ (function.effect \ function.profile), ~IsTerminator(i)
                   PROVE  \E j \in m'.live :
                            i \in function.uses[j] /\ ~(IsTerminator(j) /\ succ'[j[1]] # function.succ[j[1]])
        BY <1>3, <1>4 DEF Wanted
      <4>1. PICK j \in m.live :
                   i \in function.uses[j] /\ ~(IsTerminator(j) /\ succ[j[1]] # function.succ[j[1]])
        BY DEF IInv, Wanted
      <4>2. j \in Everything /\ j[1] \in Block
        BY FunctionFacts DEF IInv, IsMarks
      <4>3. IsTerminator(j) => j[1] # b
        BY <1>11, <4>2, FunctionFacts DEF IInv
      <4>4. IsTerminator(j) => succ'[j[1]] = succ[j[1]]
        BY <3>4, <4>2, <4>3
      <4> QED
        BY <1>4, <4>1, <4>4
    <3> QED
      BY <3>5, <3>6, <3>9, <3>10, <3>11 DEF GraphOK, MarksOK
  <2> QED
    BY <2>1, <2>2
<1> QED
  BY <1>1, <1>5, <1>7, <1>8, <1>10, Carry DEF IInv, MarksOK

LEMMA InvRemove == IInv /\ removeDeadInstructions => IInv'
<1> SUFFICES ASSUME IInv, removeDeadInstructions PROVE IInv'
  OBVIOUS
<1> DEFINE dead == { i \in present : i \notin m.live /\ ~(i \in function.debug /\ function.scope[i] \in m.AliveScopes) }
<1>1. /\ pc \in {"rewire", "dead regions"} /\ pc' = "done"
      /\ present' = present \ dead
      /\ UNCHANGED << function, RemoveControlFlowFlag, m, stack, ahead, Visited, PostOrder, succ >>
  BY DEF removeDeadInstructions, search
<1>2. m.live \subseteq present /\ m.Worklist = {}
  BY <1>1 DEF IInv, PhasesOK, IsMarks
<1>3. PhasesOK(pc', m', present')
  BY <1>1, <1>2 DEF PhasesOK
<1>4. BranchesOK(pc', m', succ') /\ SearchOK(pc', stack', ahead', Visited', PostOrder')
  BY <1>1 DEF IInv, BranchesOK, SearchOK
<1> QED
  BY <1>1, <1>3, <1>4, Carry DEF IInv

LEMMA InvStep == IInv /\ [Next]_vars => IInv'
<1> SUFFICES ASSUME IInv, [Next]_vars PROVE IInv'
  OBVIOUS
<1>1. CASE UNCHANGED vars
  <2>1. /\ UNCHANGED << function, m, succ, pc, stack, ahead, Visited, PostOrder, present >>
    BY <1>1 DEF vars
  <2> QED
    BY <2>1, Carry DEF IInv
<1>2. CASE Done
  BY <1>1, <1>2 DEF Done
<1> QED
  BY <1>1, <1>2, InvRoots, InvLoops, InvEndless, InvEntry, InvMark, InvControl, InvNumbering,
     InvNumberNext, InvNumberEnd, InvRegions, InvRemove DEF Next

LEMMA InvHolds == Spec => []IInv
  BY InvInit, InvStep, PTL DEF Spec

-----------------------------------------------------------------------------
(* The results.                                                            *)

\* What is marked lies in the function, what is queued is live, and a branch
\* that was rewritten goes to a block it went to before.
THEOREM TypeCorrect == Spec => []AdceTypeOK
<1>1. IInv => AdceTypeOK
  BY DEF IInv, IsMarks, GraphOK, AdceTypeOK
<1> QED
  BY <1>1, InvHolds, PTL

\* After removeDeadInstructions nothing that is left uses an instruction that
\* is gone, for every set of functions.
THEOREM NothingLeftUsesTheDead == Spec => []OperandsRemain
<1>1. IInv => OperandsRemain
  <2> SUFFICES ASSUME IInv, pc = "done", NEW i \in present \ function.debug,
                      ~(IsTerminator(i) /\ Rewired(i[1]))
               PROVE  function.uses[i] \subseteq present
    BY DEF OperandsRemain
  <2>1. m.Worklist = {} /\ m.live \subseteq present /\ i \in m.live
    BY DEF IInv, PhasesOK
  <2>2. function.uses[i] \subseteq m.live
    BY <2>1 DEF IInv, Followed, Rewired
  <2> QED
    BY <2>1, <2>2
<1> QED
  BY <1>1, InvHolds, PTL

\* What is left without a wanted effect of its own is used by something that is left:
\* the pass removes all that it may, for every set of functions.
THEOREM NothingDeadIsLeft == Spec => []KeptForAReason
<1>1. IInv => KeptForAReason
  <2> SUFFICES ASSUME IInv, pc = "done", NEW i \in present \ ((function.effect \ function.profile) \cup function.debug),
                      ~IsTerminator(i)
               PROVE  \E j \in present :
                        i \in function.uses[j] /\ ~(IsTerminator(j) /\ Rewired(j[1]))
    BY DEF KeptForAReason
  <2>1. m.live \subseteq present /\ i \in m.live
    BY DEF IInv, PhasesOK
  <2>2. PICK j \in m.live :
               i \in function.uses[j] /\ ~(IsTerminator(j) /\ succ[j[1]] # function.succ[j[1]])
    BY <2>1 DEF IInv, Wanted
  <2> QED
    BY <2>1, <2>2 DEF Rewired
<1> QED
  BY <1>1, InvHolds, PTL

-----------------------------------------------------------------------------
(* Reachability.  The recursive function of Reach exists because there is   *)
(* no least bound up to which it would not.                                 *)

Iterates(n, F, e, f) == f = [d \in 0..n |-> IF d = 0 THEN e ELSE F[f[d - 1]]]

LEMMA IterateExists ==
    ASSUME NEW T, NEW n \in Nat, NEW F \in [T -> T], NEW e \in T
    PROVE  \E f : Iterates(n, F, e, f) /\ \A d \in 0..n : f[d] \in T
<1> DEFINE Good(k, f) == f \in [0..k -> T] /\ \A d \in 0..k : f[d] = IF d = 0 THEN e ELSE F[f[d - 1]]
           bad == { k \in 0..n : ~\E f : Good(k, f) }
<1>1. bad = {}
  <2> SUFFICES ASSUME bad # {} PROVE FALSE
    OBVIOUS
  <2>1. bad \subseteq Nat
    OBVIOUS
  <2>2. PICK k \in bad : \A x \in bad : k <= x
    <3> HIDE DEF bad
    <3> QED BY <2>1, LeastOf
  <2>3. k # 0
    <3>1. Good(0, [d \in 0..0 |-> e])
      OBVIOUS
    <3> HIDE DEF Good
    <3> QED BY <2>2, <3>1
  <2>4. k - 1 \in 0..n /\ k - 1 \notin bad
    <3>1. k \in 0..n
      OBVIOUS
    <3>2. k - 1 \in 0..n /\ ~(k <= k - 1)
      BY <2>3, <3>1
    <3> HIDE DEF bad
    <3> QED BY <2>2, <3>2
  <2>5. PICK f : Good(k - 1, f)
    <3> HIDE DEF Good
    <3> QED BY <2>4
  <2> DEFINE g == [d \in 0..k |-> IF d = k THEN F[f[k - 1]] ELSE f[d]]
  <2>6. k \in 1..n
    BY <2>3
  <2>7. F[f[k - 1]] \in T
    <3>1. f[k - 1] \in T
      BY <2>5, <2>6
    <3> QED
      BY <3>1
  <2>8. g \in [0..k -> T]
    <3>1. \A d \in 0..k : d # k => d \in 0..(k - 1)
      BY <2>6
    <3> QED BY <2>5, <2>7, <3>1
  <2>9. ASSUME NEW d \in 0..k PROVE g[d] = IF d = 0 THEN e ELSE F[g[d - 1]]
    <3>1. CASE d = k
      <4>1. d # 0 /\ k - 1 \in 0..k /\ k - 1 # k
        BY <2>6, <3>1
      <4> QED BY <3>1, <4>1
    <3>2. CASE d # k
      <4>1. d \in 0..(k - 1) /\ (d # 0 => d - 1 \in 0..k /\ d - 1 # k)
        BY <2>6, <3>2
      <4>2. g[d] = f[d] /\ (d # 0 => g[d - 1] = f[d - 1])
        BY <3>2, <4>1
      <4>3. f[d] = IF d = 0 THEN e ELSE F[f[d - 1]]
        BY <2>5, <4>1
      <4> HIDE DEF g
      <4> QED BY <4>2, <4>3
    <3> QED BY <3>1, <3>2
  <2>10. Good(k, g)
    <3> HIDE DEF g
    <3> QED BY <2>8, <2>9
  <2> HIDE DEF Good, g
  <2> QED
    BY <2>2, <2>10
<1>2. n \in 0..n /\ n \notin bad
  <2> HIDE DEF bad
  <2> QED BY <1>1
<1>3. PICK f : Good(n, f)
  <2> HIDE DEF Good
  <2> QED BY <1>2
<1>4. Iterates(n, F, e, f)
  BY <1>3 DEF Iterates
<1>5. \A d \in 0..n : f[d] \in T
  BY <1>3
<1> HIDE DEF Good
<1> QED
  BY <1>4, <1>5

\* What holds at 0 and is passed on holds up to n.
LEMMA UpTo ==
    ASSUME NEW n \in Nat, NEW P, 0 \in P, \A d \in 1..n : d - 1 \in P => d \in P
    PROVE  \A d \in 0..n : d \in P
<1> DEFINE bad == { d \in 0..n : d \notin P }
<1>1. bad = {}
  <2> SUFFICES ASSUME bad # {} PROVE FALSE
    OBVIOUS
  <2>1. bad \subseteq Nat
    OBVIOUS
  <2>2. PICK d \in bad : \A x \in bad : d <= x
    <3> HIDE DEF bad
    <3> QED BY <2>1, LeastOf
  <2>3. d \in 1..n /\ d \notin P
    OBVIOUS
  <2>4. d - 1 \in 0..n /\ ~(d <= d - 1)
    BY <2>3
  <2>5. d - 1 \in P
    BY <2>2, <2>4
  <2> QED
    BY <2>3, <2>5
<1> QED
  BY <1>1

\* The blocks of X and those an edge from them leads to; and the blocks found
\* after so many steps.
Wider(g, without, X) == X \cup ((UNION { Targets(g, b) : b \in X }) \ without)

Layers(g, B, without, f) ==
    f = [d \in 0..Len(g) |-> IF d = 0 THEN B \ without
                             ELSE Wider(g, without, f[d - 1])]

Layering(n, g, B, without, f) ==
    /\ Reach(g, B, without) = f[n]
    /\ f[0] = B \ without
    /\ \A d \in 1..n : f[d] = Wider(g, without, f[d - 1])

LEMMA LayersOf ==
    ASSUME NEW n \in Nat, NEW g \in [1..n -> Seq(1..n)], NEW B \in SUBSET (1..n), NEW without
    PROVE  \E f : Layering(n, g, B, without, f)
<1> DEFINE T == SUBSET (1..n)
           F == [X \in T |-> Wider(g, without, X)]
           R == CHOOSE f : Layers(g, B, without, f)
<1>1. Len(g) = n
  BY TableIsSeq
<1>2. \A b \in 1..n : Targets(g, b) \subseteq 1..n
  <2> SUFFICES ASSUME NEW b \in 1..n, NEW k \in 1..Len(g[b]) PROVE g[b][k] \in 1..n
    BY DEF Targets
  <2>1. g[b] \in Seq(1..n)
    OBVIOUS
  <2> QED
    BY <2>1, ElementOfSeq
<1>3. F \in [T -> T]
  BY <1>2 DEF Wider
<1>4. B \ without \in T
  OBVIOUS
<1>5. PICK f : Iterates(n, F, B \ without, f) /\ \A d \in 0..n : f[d] \in T
  <2> HIDE DEF F, T
  <2> QED BY <1>3, <1>4, IterateExists
<1>6. Layers(g, B, without, f)
  <2>1. \A d \in 0..n : d # 0 =>
            F[f[d - 1]] = Wider(g, without, f[d - 1])
    <3> SUFFICES ASSUME NEW d \in 0..n, d # 0
                 PROVE  F[f[d - 1]] = Wider(g, without, f[d - 1])
      OBVIOUS
    <3>1. d - 1 \in 0..n
      OBVIOUS
    <3>2. f[d - 1] \in T
      BY <1>5, <3>1
    <3> QED BY <3>2
  <2> HIDE DEF F
  <2> QED BY <1>1, <1>5, <2>1 DEF Layers, Iterates
<1>7. Layers(g, B, without, R)
  BY <1>6
<1>8. Reach(g, B, without) = R[n]
  BY <1>1 DEF Reach, Layers, Wider
<1> HIDE DEF R
<1>9. R[0] = B \ without /\ \A d \in 1..n : R[d] = Wider(g, without, R[d - 1])
  <2>1. R = [d \in 0..n |-> IF d = 0 THEN B \ without ELSE Wider(g, without, R[d - 1])]
    BY <1>1, <1>7 DEF Layers
  <2>2. \A d \in 0..n : R[d] = IF d = 0 THEN B \ without ELSE Wider(g, without, R[d - 1])
    BY <2>1
  <2>3. 0 \in 0..n /\ \A d \in 1..n : d \in 0..n /\ d # 0
    OBVIOUS
  <2> QED BY <2>2, <2>3
<1> QED
  BY <1>8, <1>9 DEF Layering

\* Reach is closed ...
LEMMA ReachClosed ==
    ASSUME NEW n \in Nat, NEW g \in [1..n -> Seq(1..n)], NEW B \in SUBSET (1..n), NEW without
    PROVE  LET R == Reach(g, B, without)
           IN  /\ R \subseteq 1..n /\ B \ without \subseteq R
               /\ \A b \in R : Targets(g, b) \ without \subseteq R
<1>1. PICK f : Layering(n, g, B, without, f)
  BY LayersOf
<1>0. /\ Reach(g, B, without) = f[n]
      /\ f[0] = B \ without
      /\ \A d \in 1..n : f[d] = Wider(g, without, f[d - 1])
  BY <1>1 DEF Layering
<1> DEFINE Closed(X) == (UNION { Targets(g, b) : b \in X }) \ without \subseteq X
           Q(d) == /\ f[d] \subseteq 1..n /\ B \ without \subseteq f[d]
                   /\ Closed(f[d]) \/ Cardinality(f[d]) >= d
           P == { d \in 0..n : Q(d) }
<1>2. \A b \in 1..n : Targets(g, b) \subseteq 1..n
  <2> SUFFICES ASSUME NEW b \in 1..n, NEW k \in 1..Len(g[b]) PROVE g[b][k] \in 1..n
    BY DEF Targets
  <2>1. g[b] \in Seq(1..n)
    OBVIOUS
  <2> QED
    BY <2>1, ElementOfSeq
<1>3. IsFiniteSet(1..n) /\ Cardinality(1..n) = n
  BY FS_Interval
<1>4. \A X \in SUBSET (1..n) : /\ IsFiniteSet(X) /\ Cardinality(X) \in Nat
                              /\ \A Y \in SUBSET X : Y # X => Cardinality(Y) \in Nat /\ Cardinality(Y) < Cardinality(X)
  <2> SUFFICES ASSUME NEW X \in SUBSET (1..n)
               PROVE  /\ IsFiniteSet(X) /\ Cardinality(X) \in Nat
                      /\ \A Y \in SUBSET X : Y # X => Cardinality(Y) \in Nat /\ Cardinality(Y) < Cardinality(X)
    OBVIOUS
  <2>1. IsFiniteSet(X) /\ Cardinality(X) \in Nat
    BY <1>3, FS_Subset, FS_CardinalityType
  <2> SUFFICES ASSUME NEW Y \in SUBSET X, Y # X
               PROVE  Cardinality(Y) \in Nat /\ Cardinality(Y) < Cardinality(X)
    BY <2>1
  <2>2. /\ IsFiniteSet(Y) /\ Cardinality(Y) <= Cardinality(X)
        /\ Cardinality(Y) = Cardinality(X) => Y = X
    BY <2>1, FS_Subset
  <2>3. Cardinality(Y) \in Nat
    BY <2>2, FS_CardinalityType
  <2> QED
    BY <2>1, <2>2, <2>3
<1>5. 0 \in P
  <2>1. f[0] \in SUBSET (1..n) /\ B \ without \subseteq f[0]
    BY <1>0
  <2>2. Cardinality(f[0]) >= 0
    BY <1>4, <2>1
  <2> HIDE DEF Closed
  <2> QED
    BY <2>1, <2>2
<1>6. ASSUME NEW d \in 1..n, d - 1 \in P PROVE d \in P
  <2>1. d - 1 \in 0..n /\ d \in 0..n
    OBVIOUS
  <2>2. /\ f[d - 1] \subseteq 1..n /\ B \ without \subseteq f[d - 1]
        /\ Closed(f[d - 1]) \/ Cardinality(f[d - 1]) >= d - 1
    <3> HIDE DEF Closed
    <3> QED BY <1>6
  <2>3. f[d] = f[d - 1] \cup ((UNION { Targets(g, b) : b \in f[d - 1] }) \ without)
    BY <1>0 DEF Wider
  <2>4. f[d] \subseteq 1..n /\ f[d - 1] \subseteq f[d]
    BY <1>2, <2>2, <2>3
  <2>5. CASE f[d] = f[d - 1]
    <3>1. Closed(f[d])
      BY <2>3, <2>5
    <3> HIDE DEF Closed
    <3> QED BY <2>1, <2>2, <2>4, <3>1
  <2>6. CASE f[d] # f[d - 1]
    <3>1. ~Closed(f[d - 1])
      BY <2>3, <2>6
    <3>2. /\ Cardinality(f[d]) \in Nat /\ Cardinality(f[d - 1]) \in Nat
          /\ Cardinality(f[d - 1]) < Cardinality(f[d])
      BY <1>4, <2>4, <2>6
    <3>3. Cardinality(f[d]) >= d
      <4> HIDE DEF Closed
      <4> QED BY <2>2, <3>1, <3>2
    <3> HIDE DEF Closed
    <3> QED BY <2>1, <2>2, <2>4, <3>3
  <2> QED
    BY <2>5, <2>6
<1>7. Q(n)
  <2>1. \A d \in 0..n : d \in P
    <3> HIDE DEF P
    <3> QED BY <1>5, <1>6, UpTo
  <2>2. n \in 0..n
    OBVIOUS
  <2> HIDE DEF Q
  <2> QED BY <2>1, <2>2
<1>8. Closed(f[n])
  <2>1. CASE Cardinality(f[n]) >= n
    <3>1. f[n] \in SUBSET (1..n)
      <4> HIDE DEF Closed
      <4> QED BY <1>7
    <3>2. f[n] = 1..n
      <4> HIDE DEF Q, Closed
      <4>1. f[n] # 1..n => Cardinality(f[n]) \in Nat /\ Cardinality(f[n]) < n
        BY <1>3, <1>4, <3>1
      <4> QED BY <2>1, <4>1
    <3> QED BY <1>2, <3>2
  <2> HIDE DEF Closed
  <2> QED BY <1>7, <2>1
<1>9. \A b \in f[n] : Targets(g, b) \ without \subseteq f[n]
  BY <1>8
<1> HIDE DEF Closed
<1> QED
  BY <1>0, <1>7, <1>9

\* ... and the least such set.
LEMMA ReachLeast ==
    ASSUME NEW n \in Nat, NEW g \in [1..n -> Seq(1..n)], NEW B \in SUBSET (1..n), NEW without,
           NEW C, B \ without \subseteq C, \A b \in C : Targets(g, b) \ without \subseteq C
    PROVE  Reach(g, B, without) \subseteq C
<1>1. PICK f : Layering(n, g, B, without, f)
  BY LayersOf
<1>0. /\ Reach(g, B, without) = f[n]
      /\ f[0] = B \ without
      /\ \A d \in 1..n : f[d] = Wider(g, without, f[d - 1])
  BY <1>1 DEF Layering
<1> DEFINE P == { d \in 0..n : f[d] \subseteq C }
<1>2. 0 \in P
  BY <1>0
<1>3. ASSUME NEW d \in 1..n, d - 1 \in P PROVE d \in P
  <2>1. d - 1 \in 0..n /\ f[d - 1] \subseteq C
    BY <1>3
  <2>2. f[d] = f[d - 1] \cup ((UNION { Targets(g, b) : b \in f[d - 1] }) \ without)
    BY <1>0 DEF Wider
  <2>3. f[d] \subseteq C
    BY <2>1, <2>2
  <2> QED BY <2>3
<1>4. \A d \in 0..n : d \in P
  <2> HIDE DEF P
  <2> QED BY <1>2, <1>3, UpTo
<1> QED
  BY <1>0, <1>4

-----------------------------------------------------------------------------
(* Post-dominators.                                                        *)

Leaves(b) == Reach(function.succ, {b}, {}) \cap EndsOf(function.succ) # {}

\* Every way from b to a root comes by a.
OnEveryWay(roots, a, b) == a = b \/ Reach(function.succ, {b}, {a}) \cap roots = {}

LEMMA ReachIn ==
    ASSUME function \in Function, NEW g \in [Block -> Seq(Block)], NEW b \in Block, NEW without
    PROVE  LET R == Reach(g, {b}, without)
           IN  /\ R \subseteq Block /\ {b} \ without \subseteq R
               /\ \A x \in R : Targets(g, x) \ without \subseteq R
<1>1. function.n \in Nat /\ g \in [1..function.n -> Seq(1..function.n)] /\ {b} \in SUBSET (1..function.n)
  BY FunctionFacts DEF Block
<1> QED
  BY <1>1, ReachClosed DEF Block

LEMMA ReachInside ==
    ASSUME function \in Function, NEW g \in [Block -> Seq(Block)], NEW b \in Block, NEW without,
           NEW C, {b} \ without \subseteq C, \A x \in C : Targets(g, x) \ without \subseteq C
    PROVE  Reach(g, {b}, without) \subseteq C
<1>1. function.n \in Nat /\ g \in [1..function.n -> Seq(1..function.n)] /\ {b} \in SUBSET (1..function.n)
  BY FunctionFacts DEF Block
<1> QED
  BY <1>1, ReachLeast DEF Block

LEMMA ReachFrom ==
    ASSUME function \in Function, NEW b \in Block, NEW without
    PROVE  LET R == Reach(function.succ, {b}, without)
           IN  /\ R \subseteq Block /\ {b} \ without \subseteq R
               /\ \A x \in R : Targets(function.succ, x) \ without \subseteq R
<1>1. function.succ \in [Block -> Seq(Block)]
  BY FunctionFacts
<1> QED
  BY <1>1, ReachIn

LEMMA ReachOnly ==
    ASSUME function \in Function, NEW b \in Block, NEW without,
           NEW C, {b} \ without \subseteq C, \A x \in C : Targets(function.succ, x) \ without \subseteq C
    PROVE  Reach(function.succ, {b}, without) \subseteq C
<1>1. function.succ \in [Block -> Seq(Block)]
  BY FunctionFacts
<1> QED
  BY <1>1, ReachInside

LEMMA RootsMet ==
    ASSUME function \in Function, NEW roots \in Roots, NEW b \in Block
    PROVE  Reach(function.succ, {b}, {}) \cap roots # {}
<1> DEFINE From(x) == Reach(function.succ, {x}, {})
           endless == { x \in Block : From(x) \cap EndsOf(function.succ) = {} }
<1> HIDE DEF From
<1>1. PICK R \in SUBSET endless : roots = EndsOf(function.succ) \cup R /\ \A x \in endless : From(x) \cap R # {}
  BY DEF Roots, From
<1>2. From(b) \cap roots # {}
  BY <1>1
<1> QED
  BY <1>2 DEF From

LEMMA OnEveryWayTrans ==
    ASSUME function \in Function, NEW roots \in Roots, NEW a \in Block, NEW b \in Block, NEW c \in Block,
           OnEveryWay(roots, a, b), OnEveryWay(roots, b, c)
    PROVE  OnEveryWay(roots, a, c)
<1>1. CASE a = b \/ b = c \/ a = c
  BY <1>1 DEF OnEveryWay
<1>2. CASE a # b /\ b # c /\ a # c
  <2> DEFINE P == Reach(function.succ, {b}, {a})
             Q == Reach(function.succ, {c}, {b})
             C == P \cup Q
  <2>1. P \cap roots = {} /\ Q \cap roots = {}
    BY <1>2 DEF OnEveryWay
  <2>2. b \in P /\ \A x \in P : Targets(function.succ, x) \ {a} \subseteq P
    BY <1>2, ReachFrom
  <2>3. c \in Q /\ \A x \in Q : Targets(function.succ, x) \ {b} \subseteq Q
    BY <1>2, ReachFrom
  <2> HIDE DEF P, Q
  <2>4. \A x \in C : Targets(function.succ, x) \ {a} \subseteq C
    BY <2>2, <2>3
  <2>5. {c} \ {a} \subseteq C
    BY <2>3
  <2> HIDE DEF C
  <2>6. Reach(function.succ, {c}, {a}) \subseteq C
    BY <2>4, <2>5, ReachOnly
  <2> QED
    BY <2>1, <2>6 DEF OnEveryWay, C
<1> QED
  BY <1>1, <1>2

LEMMA OnEveryWayAntisym ==
    ASSUME function \in Function, NEW roots \in Roots, NEW a \in Block, NEW b \in Block,
           OnEveryWay(roots, a, b), OnEveryWay(roots, b, a)
    PROVE  a = b
<1> SUFFICES ASSUME a # b PROVE FALSE
  OBVIOUS
<1> DEFINE P == Reach(function.succ, {b}, {a})
           Q == Reach(function.succ, {a}, {b})
           C == P \cup Q
<1>1. P \cap roots = {} /\ Q \cap roots = {}
  BY DEF OnEveryWay
<1>2. b \in P /\ \A x \in P : Targets(function.succ, x) \ {a} \subseteq P
  BY ReachFrom
<1>3. a \in Q /\ \A x \in Q : Targets(function.succ, x) \ {b} \subseteq Q
  BY ReachFrom
<1> HIDE DEF P, Q
<1>4. \A x \in C : Targets(function.succ, x) \ {} \subseteq C
  BY <1>2, <1>3
<1>5. {b} \ {} \subseteq C
  BY <1>2
<1> HIDE DEF C
<1>6. Reach(function.succ, {b}, {}) \subseteq C
  BY <1>4, <1>5, ReachOnly
<1>7. Reach(function.succ, {b}, {}) \cap roots # {}
  BY RootsMet
<1> QED
  BY <1>1, <1>6, <1>7 DEF C

\* What lies on every way from b can be reached from b.
LEMMA OnTheWay ==
    ASSUME function \in Function, NEW roots \in Roots, NEW a \in Block, NEW b \in Block,
           OnEveryWay(roots, a, b)
    PROVE  a \in Reach(function.succ, {b}, {})
<1> DEFINE F == Reach(function.succ, {b}, {})
           P == Reach(function.succ, {b}, {a})
           C == F \cap P
<1> SUFFICES ASSUME a \notin F PROVE FALSE
  OBVIOUS
<1>1. b \in F /\ \A x \in F : Targets(function.succ, x) \subseteq F
  BY ReachFrom
<1>2. a # b
  BY <1>1
<1>3. P \cap roots = {}
  BY <1>2 DEF OnEveryWay
<1>4. b \in P /\ \A x \in P : Targets(function.succ, x) \ {a} \subseteq P
  BY <1>2, ReachFrom
<1>7. F \cap roots # {}
  BY RootsMet
<1> SUFFICES F \subseteq C
  BY <1>3, <1>7
<1>8. a \notin F
  OBVIOUS
<1> HIDE DEF P
<1>5. {b} \ {} \subseteq C /\ \A x \in C : Targets(function.succ, x) \ {} \subseteq C
  <2> HIDE DEF F
  <2> QED BY <1>1, <1>4, <1>8
<1> HIDE DEF C
<1> QED
  BY <1>5, ReachOnly

\* A block that no path leaves lies below a child of the root that is no return.
LEMMA EndlessBelowRoot ==
    ASSUME function \in Function, NEW roots \in Roots, PDT = PostDominators(roots),
           NEW b \in Block, ~Leaves(b)
    PROVE  \E c \in RootChildren : function.term[c] # "ret" /\ c \in PDT[b]
<1> DEFINE Above(x) == { a \in Block : OnEveryWay(roots, a, x) }
           sizes == { Cardinality(Above(a)) : a \in Above(b) }
<1>1. \A x \in Block : PDT[x] = Above(x) \cup {Exit} /\ x \in Above(x)
  BY DEF PostDominators, OnEveryWay
<1>2. IsFiniteSet(Block)
  BY FunctionFacts, FS_Interval DEF Block
<1>3. \A x \in Block : IsFiniteSet(Above(x)) /\ Cardinality(Above(x)) \in Nat
  <2> SUFFICES ASSUME NEW x \in Block PROVE IsFiniteSet(Above(x)) /\ Cardinality(Above(x)) \in Nat
    OBVIOUS
  <2>1. Above(x) \in SUBSET Block
    OBVIOUS
  <2> HIDE DEF Above
  <2> QED BY <1>2, <2>1, FS_Subset, FS_CardinalityType
<1>4. Above(b) \subseteq Block
  OBVIOUS
<1>5. PICK c \in Above(b) : \A a \in Above(b) : Cardinality(Above(c)) <= Cardinality(Above(a))
  <2> HIDE DEF Above
  <2>1. sizes \subseteq Nat /\ sizes # {}
    BY <1>1, <1>3, <1>4
  <2>2. PICK k \in sizes : \A j \in sizes : k <= j
    <3> HIDE DEF sizes
    <3> QED BY <2>1, LeastOf
  <2> QED BY <2>2
<1>6. c \in Block /\ OnEveryWay(roots, c, b)
  OBVIOUS
<1>7. ASSUME NEW a \in Above(c) PROVE a = c
  <2> SUFFICES ASSUME a # c PROVE FALSE
    OBVIOUS
  <2>1. a \in Block /\ OnEveryWay(roots, a, c)
    BY <1>7
  <2>2. a \in Above(b)
    BY <1>6, <2>1, OnEveryWayTrans
  <2>3. Above(a) \subseteq Above(c)
    BY <1>6, <2>1, OnEveryWayTrans
  <2>4. c \notin Above(a)
    BY <1>6, <2>1, OnEveryWayAntisym
  <2> HIDE DEF Above
  <2>5. /\ Cardinality(Above(a)) <= Cardinality(Above(c))
        /\ Cardinality(Above(a)) = Cardinality(Above(c)) => Above(a) = Above(c)
    BY <1>3, <1>6, <2>3, FS_Subset
  <2>6. Cardinality(Above(c)) <= Cardinality(Above(a))
    BY <1>5, <2>2
  <2>7. Cardinality(Above(a)) = Cardinality(Above(c))
    BY <1>3, <1>6, <2>1, <2>5, <2>6
  <2> QED
    BY <1>1, <1>6, <2>4, <2>5, <2>7
<1>8. PDT[c] = {c, Exit} /\ c \in PDT[b]
  <2> HIDE DEF Above
  <2> QED BY <1>1, <1>5, <1>6, <1>7
<1>9. c \in RootChildren
  BY <1>6, <1>8 DEF RootChildren
<1>10. c \in Reach(function.succ, {b}, {})
  BY <1>6, OnTheWay
<1>11. function.succ[c] # << >>
  <2>1. c \notin EndsOf(function.succ)
    BY <1>10 DEF Leaves
  <2>2. DOMAIN function.succ = Block
    BY FunctionFacts
  <2> QED
    BY <1>6, <2>1, <2>2 DEF EndsOf
<1>12. function.term[c] # "ret"
  BY <1>6, <1>11, FunctionFacts
<1> QED
  BY <1>8, <1>9, <1>12

-----------------------------------------------------------------------------
(* Numbering.                                                              *)

\* What has been numbered can go on to what has a larger number, up to a return.
Ranked(g, vis, po) ==
    \A b \in vis : g[b] = << >> \/ \E t \in Targets(g, b) \cap vis : po[b] < po[t]

\* The search: the stack is a way to a return, and what has been numbered can go
\* on to the stack or to what has a larger number; what leads there is seen.
NumberingOK(g, st, vis, po) ==
    /\ \A i, j \in 1..Len(st) : st[i] = st[j] => i = j
    /\ \A i \in 1..Len(st) : st[i] \notin vis
    /\ st # << >> => g[st[1]] = << >>
    /\ \A i \in 1..(Len(st) - 1) : st[i] \in Targets(g, st[i + 1])
    /\ \A b \in vis :
          /\ po[b] < Cardinality(vis)
          /\ g[b] = << >> \/ \E t \in Targets(g, b) : t \in ToSet(st) \/ (t \in vis /\ po[b] < po[t])
          /\ Preds(g, b) \subseteq vis \cup ToSet(st)

\* After it: the numbered blocks are those that a return can be reached from,
\* and still can when branches are removed.
NumbersOK(g, vis, po) ==
    /\ EndsOf(g) = EndsOf(function.succ)
    /\ EndsOf(function.succ) \subseteq vis
    /\ \A b \in vis : Preds(function.succ, b) \subseteq vis
    /\ Ranked(g, vis, po)

Before == {"roots", "back edges", "entry", "mark", "dead regions"}

PathsOK(p, s, st, vis, po, g) ==
    /\ p \in Before => po = [b \in Block |-> 0]
    /\ p \in {"number", "rewire"} => \A b \in Block \ vis : po[b] = 0
    /\ p \in Before \cup {"number"} => g = function.succ
    /\ p = "number" => NumberingOK(g, st, vis, po)
    /\ p = "rewire" => NumbersOK(g, vis, po)
    /\ p = "done" => g = function.succ \/ NumbersOK(g, vis, po)
    /\ p = "entry" => \A b \in Block : Leaves(b) \/ Terminator(b) \in s.live
    /\ \A b \in s.BlocksWithDeadTerminators : Leaves(b)

PathInv ==
    /\ \E roots \in Roots : PDT = PostDominators(roots)
    /\ PathsOK(pc, m, stack, Visited, PostOrder, succ)

LEMMA CarryPaths ==
    ASSUME PathInv, UNCHANGED << function, PDT >>, PathsOK(pc', m', stack', Visited', PostOrder', succ')
    PROVE  PathInv'
<1>1. PathsOK(pc, m, stack, Visited, PostOrder, succ)'
  BY DEF PathsOK, NumbersOK, Leaves, Block, Terminator
<1>2. (\E roots \in Roots : PDT = PostDominators(roots))'
  <2>1. Roots' = Roots
    BY DEF Roots, Block
  <2>2. \A roots : PostDominators(roots)' = PostDominators(roots)
    BY DEF PostDominators, Block
  <2> QED BY <2>1, <2>2 DEF PathInv
<1> QED
  BY <1>1, <1>2 DEF PathInv

LEMMA PathsInit == Init => PathInv
<1> SUFFICES ASSUME Init PROVE PathInv
  OBVIOUS
<1>1. m.BlocksWithDeadTerminators = {}
  BY DEF Init, NothingMarked
<1>2. PathsOK(pc, m, stack, Visited, PostOrder, succ)
  BY <1>1 DEF Init, PathsOK, Before
<1> QED
  BY <1>2 DEF Init, PathInv

\* Marking takes from the dead branches and adds to what is live.
LEMMA MarkShrinks ==
    ASSUME NEW s, NEW I,
           {"live", "block", "cf", "Worklist", "NewLiveBlocks", "BlocksWithDeadTerminators", "AliveScopes"} \subseteq DOMAIN s
    PROVE  LET r == markLive(s, I)
           IN  /\ r.BlocksWithDeadTerminators \subseteq s.BlocksWithDeadTerminators
               /\ s.live \cup I \subseteq r.live
  BY DEF markLive

\* The steps before branches are removed, save the two that say which may be.
LEMMA PathsBefore ==
    ASSUME PathInv, pc \in Before, pc' \in Before \ {"entry"},
           UNCHANGED << function, PDT, PostOrder, succ >>,
           m'.BlocksWithDeadTerminators \subseteq m.BlocksWithDeadTerminators
    PROVE  PathInv'
<1>1. PathsOK(pc', m', stack', Visited', PostOrder', succ')
  BY DEF PathInv, PathsOK, Before
<1> QED
  BY <1>1, CarryPaths

LEMMA PathsRoots == IInv /\ PathInv /\ initialize_roots => PathInv'
<1> SUFFICES ASSUME IInv, PathInv, initialize_roots PROVE PathInv'
  OBVIOUS
<1>1. /\ pc = "roots" /\ pc' \in {"back edges", "mark"}
      /\ \E I : m' = markLive(m, I)
      /\ UNCHANGED << function, PDT, PostOrder, succ >>
  BY DEF initialize_roots, code
<1>2. m'.BlocksWithDeadTerminators \subseteq m.BlocksWithDeadTerminators
  BY <1>1, MarkShrinks DEF IInv, IsMarks
<1> QED
  BY <1>1, <1>2, PathsBefore DEF Before

LEMMA PathsLoops == IInv /\ PathInv /\ initialize_loops => PathInv'
<1> SUFFICES ASSUME IInv, PathInv, initialize_loops PROVE PathInv'
  OBVIOUS
<1>1. /\ pc = "back edges" /\ pc' = pc
      /\ m' = m \/ \E I : m' = markLive(m, I)
      /\ UNCHANGED << function, PDT, PostOrder, succ >>
  BY DEF initialize_loops, code, BackEdgesMarked
<1>2. m'.BlocksWithDeadTerminators \subseteq m.BlocksWithDeadTerminators
  BY <1>1, MarkShrinks DEF IInv, IsMarks
<1> QED
  BY <1>1, <1>2, PathsBefore DEF Before

LEMMA PathsEndless == IInv /\ PathInv /\ initialize_endless => PathInv'
<1> SUFFICES ASSUME IInv, PathInv, initialize_endless PROVE PathInv'
  OBVIOUS
<1> DEFINE I == { Terminator(b) : b \in { b \in Block :
                    \E c \in RootChildren : function.term[c] # "ret" /\ c \in PDT[b] } }
<1>1. /\ pc = "back edges" /\ pc' = "entry" /\ m' = markLive(m, I)
      /\ UNCHANGED << function, PDT, PostOrder, succ >>
  BY DEF initialize_endless, code, search
<1>2. ASSUME NEW b \in Block, ~Leaves(b) PROVE Terminator(b) \in I
  BY <1>2, EndlessBelowRoot DEF IInv, PathInv
<1> HIDE DEF I
<1>3. m'.BlocksWithDeadTerminators \subseteq m.BlocksWithDeadTerminators /\ I \subseteq m'.live
  BY <1>1, MarkShrinks DEF IInv, IsMarks
<1>4. PathsOK(pc', m', stack', Visited', PostOrder', succ')
  BY <1>1, <1>2, <1>3 DEF PathInv, PathsOK, Before
<1> QED
  BY <1>1, <1>4, CarryPaths

LEMMA PathsEntry == IInv /\ PathInv /\ initialize_entry => PathInv'
<1> SUFFICES ASSUME IInv, PathInv, initialize_entry PROVE PathInv'
  OBVIOUS
<1> DEFINE entered == [m EXCEPT !.block = @ \cup {1}]
           s == IF UnconditionalBranch(1) THEN markLive(entered, {Terminator(1)}) ELSE entered
           dead == { b \in Block : Terminator(b) \notin s.live }
<1>1. /\ pc = "entry" /\ pc' = "mark"
      /\ m' = [s EXCEPT !.BlocksWithDeadTerminators = dead]
      /\ UNCHANGED << function, PDT, PostOrder, succ >>
  BY DEF initialize_entry, code, search
<1>2. entered.live = m.live /\ DOMAIN entered = DOMAIN m
  BY DEF IInv, IsMarks
<1>3. m.live \subseteq s.live /\ "BlocksWithDeadTerminators" \in DOMAIN s
  <2>1. "BlocksWithDeadTerminators" \in DOMAIN markLive(entered, {Terminator(1)})
    <3> HIDE DEF entered
    <3> QED BY <1>2 DEF IInv, IsMarks, markLive
  <2> HIDE DEF entered
  <2> QED BY <1>2, <2>1, MarkShrinks DEF IInv, IsMarks
<1>4. m'.BlocksWithDeadTerminators = dead
  <2> HIDE DEF s, dead
  <2> QED BY <1>1, <1>3
<1>5. \A b \in dead : Leaves(b)
  <2> HIDE DEF s
  <2> QED BY <1>1, <1>3 DEF PathInv, PathsOK
<1> HIDE DEF dead, s
<1>6. PathsOK(pc', m', stack', Visited', PostOrder', succ')
  BY <1>1, <1>4, <1>5 DEF PathInv, PathsOK, Before
<1> QED
  BY <1>1, <1>6, CarryPaths

LEMMA PathsMark == IInv /\ PathInv /\ markLiveInstructions => PathInv'
<1> SUFFICES ASSUME IInv, PathInv, markLiveInstructions PROVE PathInv'
  OBVIOUS
<1>1. /\ pc = "mark" /\ UNCHANGED << function, PDT, PostOrder, succ, pc >>
  BY DEF markLiveInstructions, code, search
<1>2. PICK i \in m.Worklist :
          LET s == markLive([m EXCEPT !.Worklist = @ \ {i}], function.uses[i])
          IN  m' = IF i \in function.phi THEN markPhiLive(s, i[1]) ELSE s
  BY DEF markLiveInstructions
<1> DEFINE popped == [m EXCEPT !.Worklist = @ \ {i}]
           s == markLive(popped, function.uses[i])
<1>3. DOMAIN popped = DOMAIN m /\ popped.BlocksWithDeadTerminators = m.BlocksWithDeadTerminators
  BY DEF IInv, IsMarks
<1>4. s.BlocksWithDeadTerminators \subseteq m.BlocksWithDeadTerminators
  <2> HIDE DEF popped
  <2> QED BY <1>3, MarkShrinks DEF IInv, IsMarks
<1>5. m'.BlocksWithDeadTerminators = s.BlocksWithDeadTerminators
  <2> HIDE DEF s
  <2>1. markPhiLive(s, i[1]).BlocksWithDeadTerminators = s.BlocksWithDeadTerminators
    BY DEF markPhiLive
  <2> QED BY <1>2, <2>1 DEF s
<1> HIDE DEF s
<1> QED
  BY <1>1, <1>4, <1>5, PathsBefore DEF Before

LEMMA PathsControl == IInv /\ PathInv /\ markLiveBranchesFromControlDependences => PathInv'
<1> SUFFICES ASSUME IInv, PathInv, markLiveBranchesFromControlDependences PROVE PathInv'
  OBVIOUS
<1> DEFINE taken == [m EXCEPT !.NewLiveBlocks = {}]
<1>1. /\ pc = "mark" /\ pc' \in {"mark", "dead regions"}
      /\ m' = m \/ \E I : m' = markLive(taken, I)
      /\ UNCHANGED << function, PDT, PostOrder, succ >>
  BY DEF markLiveBranchesFromControlDependences, code, search
<1>2. DOMAIN taken = DOMAIN m /\ taken.BlocksWithDeadTerminators = m.BlocksWithDeadTerminators
  BY DEF IInv, IsMarks
<1>3. m'.BlocksWithDeadTerminators \subseteq m.BlocksWithDeadTerminators
  <2> HIDE DEF taken
  <2> QED BY <1>1, <1>2, MarkShrinks DEF IInv, IsMarks
<1> QED
  BY <1>1, <1>3, PathsBefore DEF Before

LEMMA PathsNumbering == IInv /\ PathInv /\ computeReversePostOrder => PathInv'
<1> SUFFICES ASSUME IInv, PathInv, computeReversePostOrder PROVE PathInv'
  OBVIOUS
<1>1. /\ pc = "dead regions" /\ pc' = "number"
      /\ stack' = << >> /\ Visited' = {}
      /\ UNCHANGED << function, PDT, succ, m, PostOrder >>
  BY DEF computeReversePostOrder, code
<1>2. NumberingOK(succ', stack', Visited', PostOrder')
  <2>1. Len(<< >>) = 0
    BY EmptySeq
  <2>2. 1..0 = {} /\ 1..(0 - 1) = {}
    OBVIOUS
  <2> QED
    BY <1>1, <2>1, <2>2 DEF NumberingOK
<1>3. PathsOK(pc', m', stack', Visited', PostOrder', succ')
  BY <1>1, <1>2 DEF PathInv, PathsOK, Before
<1> QED
  BY <1>1, <1>3, CarryPaths

\* Three things can happen in the search.  A tree begins at the next return.
LEMMA NumberTree ==
    ASSUME NEW g, NEW st, st = << >>, NEW vis, NEW po, NumberingOK(g, st, vis, po),
           NEW e, g[e] = << >>, e \notin vis
    PROVE  NumberingOK(g, << e >>, vis, po)
<1>1. Len(<< e >>) = 1 /\ << e >>[1] = e /\ << e >> # << >>
  OBVIOUS
<1>2. 1..1 = {1} /\ 1..(1 - 1) = {}
  OBVIOUS
<1>3. ToSet(st) = {}
  BY DEF ToSet
<1> DEFINE new == << e >>
<1>4. Len(new) = 1 /\ new[1] = e
  BY <1>1
<1> HIDE DEF new
<1>5. NumberingOK(g, new, vis, po)
  BY <1>2, <1>3, <1>4 DEF NumberingOK
<1> QED
  BY <1>5 DEF new

\* It goes on to a block from which the last one can be come to.
LEMMA NumberDown ==
    ASSUME NEW S, NEW g, NEW st \in Seq(S), st # << >>, NEW vis, NEW po, NumberingOK(g, st, vis, po),
           NEW x \in S, x \notin vis, x \notin ToSet(st), Last(st) \in Targets(g, x)
    PROVE  NumberingOK(g, Append(st, x), vis, po)
<1> DEFINE new == Append(st, x)
           n == Len(st)
<1>1. /\ n \in Nat \ {0} /\ new \in Seq(S) /\ Len(new) = n + 1
      /\ \A i \in 1..n : new[i] = st[i]
      /\ new[n + 1] = x
  BY EmptySeq, AppendProperties
<1>2. \A i \in 1..n : st[i] \in ToSet(st)
  BY DEF ToSet
<1>3. ToSet(new) = ToSet(st) \cup {x}
  <2>1. DOMAIN new = 1..(n + 1) /\ DOMAIN st = 1..n
    BY <1>1
  <2> HIDE DEF new, n
  <2> QED BY <1>1, <2>1 DEF ToSet
<1>4. Last(st) = st[n]
  BY DEF Last
<1>5. new # << >>
  BY <1>1, EmptySeq
<1> HIDE DEF new, n
<1>6. \A i, j \in 1..(n + 1) : new[i] = new[j] => i = j
  <2>1. \A i \in 1..n : new[i] \in ToSet(st)
    BY <1>1, <1>2
  <2>2. \A i, j \in 1..n : new[i] = new[j] => i = j
    BY <1>1 DEF NumberingOK, n
  <2> QED BY <1>1, <2>1, <2>2
<1>7. \A i \in 1..(n + 1) : new[i] \notin vis
  <2>1. \A i \in 1..n : new[i] \notin vis
    BY <1>1 DEF NumberingOK, n
  <2> QED BY <1>1, <2>1
<1>8. g[new[1]] = << >>
  BY <1>1 DEF NumberingOK
<1>9. \A i \in 1..n : new[i] \in Targets(g, new[i + 1])
  <2>1. \A i \in 1..(n - 1) : new[i] \in Targets(g, new[i + 1])
    BY <1>1 DEF NumberingOK, n
  <2>2. new[n] \in Targets(g, new[n + 1])
    BY <1>1, <1>4
  <2> QED BY <1>1, <2>1, <2>2
<1>10. n + 1 - 1 = n
  BY <1>1
<1>11. NumberingOK(g, new, vis, po)
  BY <1>1, <1>3, <1>6, <1>7, <1>8, <1>9, <1>10 DEF NumberingOK
<1> QED
  BY <1>11 DEF new

\* It leaves the last one, which gets the next number.
LEMMA NumberUp ==
    ASSUME NEW S, IsFiniteSet(S), NEW g, NEW st \in Seq(S), st # << >>, NEW vis \in SUBSET S,
           NEW po \in [S -> Nat], NumberingOK(g, st, vis, po),
           Preds(g, Last(st)) \subseteq vis \cup ToSet(st)
    PROVE  NumberingOK(g, Front(st), vis \cup {Last(st)}, [po EXCEPT ![Last(st)] = Cardinality(vis)])
<1> DEFINE b == Last(st)
           new == Front(st)
           n == Len(st)
           more == vis \cup {b}
           numbers == [po EXCEPT ![b] = Cardinality(vis)]
<1>1. /\ b \in S /\ new \in Seq(S) /\ Len(new) = n - 1 /\ n \in Nat \ {0}
      /\ \A i \in 1..(n - 1) : new[i] = st[i]
      /\ b = st[n]
  BY LastAndFront DEF Last
<1>2. b \notin vis
  BY <1>1 DEF NumberingOK
<1>3. /\ Cardinality(vis) \in Nat /\ Cardinality(more) = Cardinality(vis) + 1
  <2>1. IsFiniteSet(vis)
    BY FS_Subset
  <2> HIDE DEF b
  <2> QED BY <1>2, <2>1, FS_AddElement, FS_CardinalityType
<1>4. numbers[b] = Cardinality(vis) /\ \A x \in vis : numbers[x] = po[x] /\ po[x] \in Nat
  BY <1>1, <1>2
<1>5. ToSet(st) = ToSet(new) \cup {b}
  <2>1. DOMAIN new = 1..(n - 1) /\ DOMAIN st = 1..n
    BY <1>1
  <2> HIDE DEF new, n, b
  <2>2. ToSet(new) = { st[i] : i \in 1..(n - 1) } /\ ToSet(st) = { st[i] : i \in 1..n }
    BY <1>1, <2>1 DEF ToSet
  <2>3. \A i : i \in 1..n <=> i \in 1..(n - 1) \/ i = n
    BY <1>1
  <2> QED BY <1>1, <2>2, <2>3
<1>6. \A i \in 1..(n - 1) : i \in 1..n /\ new[i] # b
  BY <1>1 DEF NumberingOK
<1> HIDE DEF b, new, n, more, numbers
<1>7. \A i, j \in 1..(n - 1) : new[i] = new[j] => i = j
  <2>1. \A i, j \in 1..n : st[i] = st[j] => i = j
    BY DEF NumberingOK, n
  <2> QED BY <1>1, <1>6, <2>1
<1>8. \A i \in 1..(n - 1) : new[i] \notin more
  BY <1>1, <1>6 DEF NumberingOK, n, more
<1>9. new # << >> => g[new[1]] = << >>
  <2>1. new # << >> => n - 1 \in Nat \ {0}
    BY <1>1, EmptySeq
  <2> QED BY <1>1, <2>1 DEF NumberingOK
<1>10. \A i \in 1..(n - 1 - 1) : new[i] \in Targets(g, new[i + 1])
  <2>1. \A i \in 1..(n - 1) : st[i] \in Targets(g, st[i + 1])
    BY DEF NumberingOK, n
  <2>2. \A i \in 1..(n - 1 - 1) : i \in 1..(n - 1) /\ i + 1 \in 1..(n - 1)
    BY <1>1
  <2> QED BY <1>1, <2>1, <2>2
<1>11. ASSUME NEW x \in more
       PROVE  /\ numbers[x] < Cardinality(more)
              /\ g[x] = << >> \/ \E t \in Targets(g, x) : t \in ToSet(new) \/ (t \in more /\ numbers[x] < numbers[t])
              /\ Preds(g, x) \subseteq more \cup ToSet(new)
  <2>1. CASE x = b
    <3>1. numbers[x] < Cardinality(more)
      BY <1>3, <1>4, <2>1
    <3>2. Preds(g, x) \subseteq more \cup ToSet(new)
      BY <1>5, <2>1 DEF b, more
    <3>3. CASE n = 1
      BY <1>1, <2>1, <3>1, <3>2, <3>3 DEF NumberingOK
    <3>4. CASE n # 1
      <4>1. n - 1 \in 1..(n - 1) /\ n - 1 + 1 = n
        BY <1>1, <3>4
      <4>2. new[n - 1] \in Targets(g, b)
        BY <1>1, <4>1 DEF NumberingOK, n
      <4>3. new[n - 1] \in ToSet(new)
        <5>1. DOMAIN new = 1..(n - 1)
          BY <1>1
        <5> QED BY <4>1, <5>1 DEF ToSet
      <4> QED
        BY <2>1, <3>1, <3>2, <4>2, <4>3
    <3> QED
      BY <3>3, <3>4
  <2>2. CASE x # b
    <3>1. x \in vis
      BY <2>2 DEF more
    <3>2. /\ po[x] < Cardinality(vis)
          /\ g[x] = << >> \/ \E t \in Targets(g, x) : t \in ToSet(st) \/ (t \in vis /\ po[x] < po[t])
          /\ Preds(g, x) \subseteq vis \cup ToSet(st)
      BY <3>1 DEF NumberingOK
    <3>3. numbers[x] < Cardinality(more)
      BY <1>3, <1>4, <3>1, <3>2
    <3>4. Preds(g, x) \subseteq more \cup ToSet(new)
      BY <1>5, <3>2 DEF more
    <3>5. g[x] = << >> \/ \E t \in Targets(g, x) : t \in ToSet(new) \/ (t \in more /\ numbers[x] < numbers[t])
      <4> SUFFICES ASSUME g[x] # << >>
                   PROVE  \E t \in Targets(g, x) : t \in ToSet(new) \/ (t \in more /\ numbers[x] < numbers[t])
        OBVIOUS
      <4>1. PICK t \in Targets(g, x) : t \in ToSet(st) \/ (t \in vis /\ po[x] < po[t])
        BY <3>2
      <4>2. CASE t \in vis /\ po[x] < po[t]
        BY <1>4, <3>1, <4>2 DEF more
      <4>3. CASE t = b
        BY <1>4, <3>1, <3>2, <4>3 DEF more
      <4>4. CASE t \in ToSet(new)
        BY <4>4
      <4> QED
        BY <1>5, <4>1, <4>2, <4>3, <4>4
    <3> QED
      BY <3>3, <3>4, <3>5
  <2> QED
    BY <2>1, <2>2
<1>12. NumberingOK(g, new, more, numbers)
  BY <1>1, <1>7, <1>8, <1>9, <1>10, <1>11 DEF NumberingOK
<1> QED
  BY <1>12 DEF new, more, numbers, b

LEMMA PathsNumberNext == IInv /\ PathInv /\ number_next => PathInv'
<1> SUFFICES ASSUME IInv, PathInv, number_next PROVE PathInv'
  OBVIOUS
<1> DEFINE seen == Visited \cup ToSet(stack)
           b == Last(stack)
           fresh == Preds(succ, b) \ seen
           ends == EndsOf(succ) \ seen
           first == CHOOSE e \in ends : \A d \in ends : e <= d
<1>1. pc = "number" /\ UNCHANGED << function, PDT, succ, m, pc >>
  BY DEF number_next, code
<1>2. /\ stack \in Seq(Block) /\ Visited \subseteq Block /\ PostOrder \in [Block -> 0..function.n]
      /\ DOMAIN succ = Block /\ function.n \in Nat
  BY FunctionFacts DEF IInv, SearchOK, GraphOK
<1>3. NumberingOK(succ, stack, Visited, PostOrder) /\ \A x \in Block \ Visited : PostOrder[x] = 0
  BY <1>1 DEF PathInv, PathsOK
<1>4. NumberingOK(succ, stack', Visited', PostOrder') /\ \A x \in Block \ Visited' : PostOrder'[x] = 0
  <2>1. CASE stack = << >>
    <3>1. ends # {} /\ stack' = << first >> /\ Visited' = Visited /\ PostOrder' = PostOrder
      BY <2>1 DEF number_next
    <3>2. ends \subseteq Nat
      BY <1>2 DEF EndsOf, Block
    <3>3. first \in ends
      <4> HIDE DEF ends
      <4>1. \E e \in ends : \A d \in ends : e <= d
        BY <3>1, <3>2, LeastOf
      <4> QED BY <4>1
    <3> HIDE DEF first
    <3>4. succ[first] = << >> /\ first \notin Visited
      BY <3>3 DEF EndsOf
    <3> QED
      BY <1>3, <2>1, <3>1, <3>4, NumberTree
  <2>2. CASE stack # << >> /\ fresh # {}
    <3>1. Visited' = Visited /\ PostOrder' = PostOrder /\ \E p \in fresh : stack' = Append(stack, p)
      BY <2>2 DEF number_next
    <3>2. PICK p \in fresh : stack' = Append(stack, p)
      BY <3>1
    <3>3. p \in Block /\ p \notin Visited /\ p \notin ToSet(stack) /\ b \in Targets(succ, p)
      BY <1>2 DEF Preds
    <3> QED
      BY <1>2, <1>3, <2>2, <3>1, <3>2, <3>3, NumberDown
  <2>3. CASE stack # << >> /\ fresh = {}
    <3>1. /\ stack' = Front(stack) /\ Visited' = Visited \cup {b}
          /\ PostOrder' = [PostOrder EXCEPT ![b] = Cardinality(Visited)]
      BY <2>3 DEF number_next, Numbered
    <3>2. IsFiniteSet(Block) /\ PostOrder \in [Block -> Nat]
      BY <1>2, FS_Interval DEF Block
    <3>3. Preds(succ, b) \subseteq Visited \cup ToSet(stack)
      BY <2>3
    <3>4. NumberingOK(succ, stack', Visited', PostOrder')
      BY <1>2, <1>3, <2>3, <3>1, <3>2, <3>3, NumberUp
    <3>5. \A x \in Block \ Visited' : PostOrder'[x] = 0
      BY <1>2, <1>3, <3>1
    <3> QED
      BY <3>4, <3>5
  <2> QED
    BY <2>1, <2>2, <2>3
<1>5. PathsOK(pc', m', stack', Visited', PostOrder', succ')
  BY <1>1, <1>4 DEF PathInv, PathsOK, Before
<1> QED
  BY <1>1, <1>5, CarryPaths

LEMMA PathsNumberEnd == IInv /\ PathInv /\ number_end => PathInv'
<1> SUFFICES ASSUME IInv, PathInv, number_end PROVE PathInv'
  OBVIOUS
<1>1. /\ pc = "number" /\ pc' = "rewire" /\ stack = << >> /\ EndsOf(succ) \subseteq Visited
      /\ UNCHANGED << function, PDT, succ, m, stack, Visited, PostOrder >>
  BY DEF number_end, code, search
<1>2. succ = function.succ /\ NumberingOK(succ, stack, Visited, PostOrder)
  BY <1>1 DEF PathInv, PathsOK
<1>3. ToSet(stack) = {}
  BY <1>1 DEF ToSet
<1>4. NumbersOK(succ, Visited, PostOrder)
  BY <1>1, <1>2, <1>3 DEF NumberingOK, NumbersOK, Ranked
<1>5. PathsOK(pc', m', stack', Visited', PostOrder', succ')
  BY <1>1, <1>4 DEF PathInv, PathsOK, Before
<1> QED
  BY <1>1, <1>5, CarryPaths

\* A dead branch in a numbered block goes to what has a larger number.
LEMMA PreferredIsLarger ==
    ASSUME IInv, PathInv, pc = "rewire", NEW b \in Visited, succ[b] # << >>
    PROVE  PreferredSucc(b) \in Targets(succ, b) \cap Visited /\ PostOrder[b] < PostOrder[PreferredSucc(b)]
<1>1. Visited \subseteq Block /\ PostOrder \in [Block -> 0..function.n] /\ function.n \in Nat
  BY FunctionFacts DEF IInv, SearchOK
<1>2. PICK t \in Targets(succ, b) \cap Visited : PostOrder[b] < PostOrder[t]
  BY DEF PathInv, PathsOK, NumbersOK, Ranked
<1>3. /\ PreferredSucc(b) \in Targets(succ, b)
      /\ PostOrder[t] <= PostOrder[PreferredSucc(b)]
  BY <1>1, <1>2, PreferredIsSuccessor
<1>4. PreferredSucc(b) \in Block
  BY <1>1, <1>3, FunctionFacts DEF IInv, GraphOK
<1>5. PostOrder[b] < PostOrder[PreferredSucc(b)] /\ PostOrder[PreferredSucc(b)] # 0
  BY <1>1, <1>2, <1>3, <1>4
<1>6. PreferredSucc(b) \in Visited
  BY <1>4, <1>5 DEF PathInv, PathsOK
<1> QED
  BY <1>3, <1>5, <1>6

LEMMA PathsRegions == IInv /\ PathInv /\ updateDeadRegions => PathInv'
<1> SUFFICES ASSUME IInv, PathInv, updateDeadRegions PROVE PathInv'
  OBVIOUS
<1>1. /\ pc = "rewire" \/ (pc = "dead regions" /\ DeadBranches = {})
      /\ UNCHANGED << function, PDT, stack, Visited, PostOrder, pc >>
  BY DEF updateDeadRegions, search
<1>2. PICK b \in m.BlocksWithDeadTerminators :
          /\ succ' = IF UnconditionalBranch(b) THEN succ ELSE [succ EXCEPT ![b] = << PreferredSucc(b) >>]
          /\ m' = [m EXCEPT !.live = @ \cup {Terminator(b)},
                            !.BlocksWithDeadTerminators = @ \ {b},
                            !.AliveScopes = IF UnconditionalBranch(b) THEN @ ELSE @ \cup Scopes(Terminator(b))]
  BY DEF updateDeadRegions
<1>3. m'.BlocksWithDeadTerminators \subseteq m.BlocksWithDeadTerminators
  BY <1>2 DEF IInv, IsMarks
<1>4. CASE UnconditionalBranch(b)
  <2>1. PathsOK(pc', m', stack', Visited', PostOrder', succ')
    BY <1>1, <1>2, <1>3, <1>4 DEF PathInv, PathsOK, Before
  <2> QED
    BY <1>1, <2>1, CarryPaths
<1>5. CASE ~UnconditionalBranch(b)
  <2> DEFINE x == PreferredSucc(b)
  <2>1. pc = "rewire"
    BY <1>1, <1>5 DEF DeadBranches
  <2>2. b \in Block /\ succ[b] # << >> /\ succ \in [Block -> Seq(Block)] /\ Visited \subseteq Block
    BY <1>2, FunctionFacts DEF IInv, IsMarks, BranchesOK, GraphOK, SearchOK
  <2>3. b \in Visited => x \in Visited /\ PostOrder[b] < PostOrder[x]
    BY <2>1, <2>2, PreferredIsLarger
  <2>4. succ' = [succ EXCEPT ![b] = << x >>]
    BY <1>2, <1>5
  <2> HIDE DEF x
  <2>5. succ'[b] = << x >> /\ DOMAIN succ' = Block /\ \A c \in Block \ {b} : succ'[c] = succ[c]
    BY <2>2, <2>4
  <2>6. Len(<< x >>) = 1 /\ << x >>[1] = x /\ << x >> # << >>
    OBVIOUS
  <2>7. Targets(succ', b) = {x} /\ \A c \in Block \ {b} : Targets(succ', c) = Targets(succ, c)
    BY <2>5, <2>6 DEF Targets
  <2>8. EndsOf(succ') = EndsOf(succ)
    BY <2>2, <2>5, <2>6 DEF EndsOf
  <2>9. NumbersOK(succ, Visited, PostOrder)
    BY <2>1 DEF PathInv, PathsOK
  <2>10. Ranked(succ', Visited, PostOrder)
    <3> SUFFICES ASSUME NEW c \in Visited
                 PROVE  succ'[c] = << >> \/ \E t \in Targets(succ', c) \cap Visited : PostOrder[c] < PostOrder[t]
      BY DEF Ranked
    <3>1. CASE c = b
      BY <2>3, <2>7, <3>1
    <3>2. CASE c # b
      BY <2>2, <2>5, <2>7, <2>9, <3>2 DEF NumbersOK, Ranked
    <3> QED
      BY <3>1, <3>2
  <2>11. NumbersOK(succ', Visited, PostOrder)
    BY <2>8, <2>9, <2>10 DEF NumbersOK
  <2>12. PathsOK(pc', m', stack', Visited', PostOrder', succ')
    BY <1>1, <1>3, <2>1, <2>11 DEF PathInv, PathsOK, Before
  <2> QED
    BY <1>1, <2>12, CarryPaths
<1> QED
  BY <1>4, <1>5

LEMMA PathsRemove == IInv /\ PathInv /\ removeDeadInstructions => PathInv'
<1> SUFFICES ASSUME IInv, PathInv, removeDeadInstructions PROVE PathInv'
  OBVIOUS
<1>1. /\ pc \in {"rewire", "dead regions"} /\ pc' = "done"
      /\ UNCHANGED << function, PDT, m, stack, Visited, PostOrder, succ >>
  BY DEF removeDeadInstructions, search
<1>2. PathsOK(pc', m', stack', Visited', PostOrder', succ')
  BY <1>1 DEF PathInv, PathsOK, Before
<1> QED
  BY <1>1, <1>2, CarryPaths

LEMMA PathsStep == IInv /\ PathInv /\ [Next]_vars => PathInv'
<1> SUFFICES ASSUME IInv, PathInv, [Next]_vars PROVE PathInv'
  OBVIOUS
<1>1. CASE UNCHANGED vars
  <2>1. UNCHANGED << function, PDT, m, succ, pc, stack, Visited, PostOrder >>
    BY <1>1 DEF vars
  <2>2. PathsOK(pc', m', stack', Visited', PostOrder', succ')
    BY <2>1 DEF PathInv
  <2> QED
    BY <2>1, <2>2, CarryPaths
<1>2. CASE Done
  BY <1>1, <1>2 DEF Done
<1> QED
  BY <1>1, <1>2, PathsRoots, PathsLoops, PathsEndless, PathsEntry, PathsMark, PathsControl, PathsNumbering,
     PathsNumberNext, PathsNumberEnd, PathsRegions, PathsRemove DEF Next

LEMMA PathsHold == Spec => [](IInv /\ PathInv)
<1>1. Init => IInv /\ PathInv
  BY InvInit, PathsInit
<1>2. IInv /\ PathInv /\ [Next]_vars => (IInv /\ PathInv)'
  BY InvStep, PathsStep
<1> QED
  BY <1>1, <1>2, PTL DEF Spec

\* A block that a return can be reached from has been numbered.
LEMMA LeavesNumbered ==
    ASSUME IInv, NumbersOK(succ, Visited, PostOrder), NEW b \in Block, Leaves(b)
    PROVE  b \in Visited
<1> SUFFICES ASSUME b \notin Visited PROVE FALSE
  OBVIOUS
<1> DEFINE C == Block \ Visited
<1>1. /\ function.succ \in [Block -> Seq(Block)]
      /\ \A x \in Block : Targets(function.succ, x) \subseteq Block
  BY FunctionFacts DEF IInv
<1>2. \A x \in C : Targets(function.succ, x) \ {} \subseteq C
  BY <1>1 DEF NumbersOK, Preds
<1>3. {b} \ {} \subseteq C
  OBVIOUS
<1> HIDE DEF C
<1>4. Reach(function.succ, {b}, {}) \subseteq C
  BY <1>2, <1>3, ReachOnly DEF IInv
<1> QED
  BY <1>4 DEF Leaves, NumbersOK, C

\* A numbered block still reaches a return.
LEMMA NumberedReturns ==
    ASSUME IInv, NumbersOK(succ, Visited, PostOrder), NEW b \in Visited
    PROVE  Reach(succ, {b}, {}) \cap EndsOf(succ) # {}
<1> DEFINE bad == { x \in Visited : Reach(succ, {x}, {}) \cap EndsOf(succ) = {} }
           ranks == { PostOrder[x] : x \in bad }
<1> SUFFICES ASSUME bad # {} PROVE FALSE
  OBVIOUS
<1>1. /\ Visited \subseteq Block /\ PostOrder \in [Block -> 0..function.n] /\ function.n \in Nat
      /\ succ \in [Block -> Seq(Block)] /\ function \in Function
  BY FunctionFacts DEF IInv, SearchOK, GraphOK
<1>2. PICK x \in bad : \A y \in bad : PostOrder[y] <= PostOrder[x]
  <2>1. ranks \subseteq 0..function.n /\ ranks # {}
    BY <1>1
  <2>2. PICK r \in ranks : \A s \in ranks : s <= r
    <3> HIDE DEF ranks
    <3> QED BY <1>1, <2>1, GreatestOf
  <2> QED BY <2>2
<1>3. x \in Visited /\ x \in Block /\ Reach(succ, {x}, {}) \cap EndsOf(succ) = {}
  BY <1>1
<1>4. x \in Reach(succ, {x}, {}) /\ \A y \in Reach(succ, {x}, {}) : Targets(succ, y) \ {} \subseteq Reach(succ, {x}, {})
  BY <1>1, <1>3, ReachIn
<1>5. succ[x] # << >>
  BY <1>1, <1>3, <1>4 DEF EndsOf
<1>6. PICK t \in Targets(succ, x) \cap Visited : PostOrder[x] < PostOrder[t]
  BY <1>3, <1>5 DEF NumbersOK, Ranked
<1>7. t \notin bad
  <2> HIDE DEF bad
  <2>1. PostOrder[x] \in Int /\ PostOrder[t] \in Int
    BY <1>1, <1>3, <1>6
  <2> QED BY <1>2, <1>6, <2>1
<1>8. Reach(succ, {t}, {}) \cap EndsOf(succ) # {}
  BY <1>6, <1>7
<1> DEFINE C == Reach(succ, {x}, {})
<1>9. {t} \ {} \subseteq C /\ \A y \in C : Targets(succ, y) \ {} \subseteq C
  BY <1>4, <1>6
<1> HIDE DEF C
<1>10. Reach(succ, {t}, {}) \subseteq C
  BY <1>1, <1>6, <1>9, ReachInside
<1> QED
  BY <1>3, <1>8, <1>10 DEF C

\* The assertion of updateDeadRegions (ADCE.cpp:629) holds: the successor that a
\* dead branch is given has a number, for every set of functions.
THEOREM DeadBranchesHaveSafeSuccessors == Spec => []SafeSuccessor
<1>1. IInv /\ PathInv => SafeSuccessor
  <2> SUFFICES ASSUME IInv, PathInv, pc = "rewire", NEW b \in DeadBranches
               PROVE  PostOrder[PreferredSucc(b)] > 0
    BY DEF SafeSuccessor
  <2>1. b \in m.BlocksWithDeadTerminators
    BY DEF DeadBranches
  <2>2. b \in Block /\ Leaves(b) /\ succ[b] # << >> /\ NumbersOK(succ, Visited, PostOrder)
    BY <2>1, FunctionFacts DEF IInv, IsMarks, BranchesOK, PathInv, PathsOK
  <2>3. b \in Visited
    BY <2>2, LeavesNumbered
  <2>4. /\ PreferredSucc(b) \in Targets(succ, b) \cap Visited
        /\ PostOrder[b] < PostOrder[PreferredSucc(b)]
    BY <2>2, <2>3, PreferredIsLarger
  <2>5. PostOrder \in [Block -> 0..function.n] /\ Visited \subseteq Block /\ function.n \in Nat
    BY FunctionFacts DEF IInv, SearchOK
  <2>6. PostOrder[b] \in Nat /\ PostOrder[PreferredSucc(b)] \in Nat
    BY <2>2, <2>4, <2>5
  <2> QED
    BY <2>4, <2>6
<1> QED
  BY <1>1, PathsHold, PTL

\* Whatever branches are removed, the blocks from which a return can be reached
\* are those from which one could be before, for every set of functions.
THEOREM RemovalKeepsReturns == Spec => []StillReturns
<1>1. IInv /\ PathInv => StillReturns
  <2> DEFINE Returning(g) == { b \in DOMAIN g : Reach(g, {b}, {}) \cap EndsOf(g) # {} }
  <2> SUFFICES ASSUME IInv, PathInv, pc = "done" PROVE Returning(function.succ) = Returning(succ)
    BY DEF StillReturns
  <2>1. CASE succ = function.succ
    BY <2>1
  <2>2. CASE NumbersOK(succ, Visited, PostOrder)
    <3>1. /\ succ \in [Block -> Seq(Block)] /\ function.succ \in [Block -> Seq(Block)]
          /\ EndsOf(succ) = EndsOf(function.succ) /\ function \in Function
          /\ DOMAIN succ = Block /\ DOMAIN function.succ = Block
      BY <2>2, FunctionFacts DEF IInv, GraphOK, NumbersOK
    <3>2. ASSUME NEW b \in Block, Reach(function.succ, {b}, {}) \cap EndsOf(function.succ) # {}
          PROVE  Reach(succ, {b}, {}) \cap EndsOf(succ) # {}
      <4>1. b \in Visited
        BY <2>2, <3>2, LeavesNumbered DEF Leaves
      <4> QED
        BY <2>2, <4>1, NumberedReturns
    <3>3. ASSUME NEW b \in Block, Reach(succ, {b}, {}) \cap EndsOf(succ) # {}
          PROVE  Reach(function.succ, {b}, {}) \cap EndsOf(function.succ) # {}
      <4> DEFINE C == Reach(function.succ, {b}, {})
      <4>1. {b} \ {} \subseteq C /\ C \subseteq Block /\ \A x \in C : Targets(function.succ, x) \ {} \subseteq C
        BY <3>1, ReachFrom
      <4> HIDE DEF C
      <4>2. \A x \in C : Targets(succ, x) \ {} \subseteq C
        BY <4>1 DEF IInv, GraphOK
      <4>3. Reach(succ, {b}, {}) \subseteq C
        BY <3>1, <4>1, <4>2, ReachInside
      <4> QED
        BY <3>1, <3>3, <4>3 DEF C
    <3> QED
      BY <3>1, <3>2, <3>3
  <2> QED
    BY <2>1, <2>2 DEF PathInv, PathsOK
<1> QED
  BY <1>1, PathsHold, PTL

-----------------------------------------------------------------------------
(* Why the steps stay the same. *)

\* Blocks outside of those that live form no circle.
Circles(blk, F, ord) ==
    \A u \in F : u \in blk \/ \A t \in Targets(function.succ, u) : t \in F /\ ord[t] < ord[u]

\* The search for back edges: what it has left forms no circle, save through a
\* block that lives.
BackEdgesOK(st, ah, vis, blk) ==
    LET F == vis \ ToSet(st)
    IN  /\ 1 \in vis /\ ToSet(st) \subseteq vis
        /\ \A i, j \in 1..Len(st) : st[i] = st[j] => i = j
        /\ \A u \in F : Targets(function.succ, u) \subseteq vis
        /\ \A k \in 1..Len(st) : Targets(function.succ, st[k]) \subseteq vis \cup ToSet(ah[k])
        /\ \A k \in 1..Len(st) : \A j \in 1..k : st[j] \in Targets(function.succ, st[k]) => st[k] \in blk
        /\ \E ord \in [Block -> 0..function.n] :
              (\A u \in F : ord[u] < Cardinality(F)) /\ Circles(blk, F, ord)

NoCircle(blk) ==
    \E ord \in [Block -> 0..function.n] : \A u \in Reach(function.succ, {1}, {}) :
        u \in blk \/ \A t \in Targets(function.succ, u) : ord[t] < ord[u]

\* The branch of b is dead, or was.
Gone(s, g, b) == b \in s.BlocksWithDeadTerminators \/ g[b] # function.succ[b]

Marks == {"roots", "back edges", "entry", "mark"}

\* What is live has its block live, a live phi the predecessors of its block; a
\* live block depends on no branch that is dead.
BlocksOK(p, s, g, W) ==
    /\ s.block \subseteq s.cf \cup {1}
    /\ \A i \in s.live : i[1] \in s.block \/ (IsTerminator(i) /\ p \notin Marks)
    /\ \A b \in s.phis : Preds(function.succ, b) \subseteq s.cf
    /\ \A i \in s.live \cap function.phi : i \in W \/ Preds(function.succ, i[1]) \subseteq s.cf
    /\ p \in Marks \ {"mark"} => s.cf \subseteq s.NewLiveBlocks
    /\ \A b \in s.cf : \/ p \in Marks /\ b \in s.NewLiveBlocks
                       \/ \A c \in Controls(b) : ~Gone(s, g, c)
    /\ RemoveControlFlowFlag /\ p \notin {"roots", "back edges", "entry"} =>
          \A b \in Block : b \in s.block \/ Gone(s, g, b) \/ (UnconditionalBranch(b) /\ Leaves(b))
    /\ \A b \in Block : Gone(s, g, b) => RemoveControlFlowFlag /\ Leaves(b)
    /\ p \in {"back edges", "entry"} => RemoveControlFlowFlag
    /\ p = "done" => s.BlocksWithDeadTerminators = {}

StepInv ==
    /\ BlocksOK(pc, m, succ, m.Worklist)
    /\ pc = "back edges" => BackEdgesOK(stack, ahead, Visited, m.block)
    /\ RemoveControlFlowFlag /\ pc \notin {"roots", "back edges"} => NoCircle(m.block)

LEMMA CarrySteps ==
    ASSUME StepInv, UNCHANGED << function, PDT, RemoveControlFlowFlag >>,
           BlocksOK(pc', m', succ', m'.Worklist),
           pc' = "back edges" => BackEdgesOK(stack', ahead', Visited', m'.block),
           RemoveControlFlowFlag /\ pc' \notin {"roots", "back edges"} => NoCircle(m'.block)
    PROVE  StepInv'
<1>1. BlocksOK(pc, m, succ, m.Worklist)'
  BY DEF BlocksOK, Gone, Leaves, Block, Controls, UnconditionalBranch, IsTerminator, Marks
<1>2. (pc = "back edges" => BackEdgesOK(stack, ahead, Visited, m.block))'
  BY DEF BackEdgesOK, Circles, Block
<1>3. (RemoveControlFlowFlag /\ pc \notin {"roots", "back edges"} => NoCircle(m.block))'
  BY DEF NoCircle, Block
<1> QED
  BY <1>1, <1>2, <1>3 DEF StepInv

LEMMA StepsInit == Init => StepInv
<1> SUFFICES ASSUME Init PROVE StepInv
  OBVIOUS
<1>1. /\ m.live = {} /\ m.block = {} /\ m.cf = {} /\ m.phis = {} /\ m.BlocksWithDeadTerminators = {}
      /\ m.Worklist = {} /\ m.NewLiveBlocks = {}
  BY DEF Init, NothingMarked
<1>2. pc = "roots" /\ succ = function.succ
  BY DEF Init
<1>3. BlocksOK(pc, m, succ, m.Worklist)
  BY <1>1, <1>2 DEF BlocksOK, Gone
<1> QED
  BY <1>2, <1>3 DEF StepInv

\* What is marked has its block marked, and what is new is queued.
LEMMA MarkBlocks ==
    ASSUME function \in Function, NEW s, IsMarks(s), NEW I, I \subseteq Everything
    PROVE  LET r == markLive(s, I)
           IN  /\ s.live \cup I \subseteq r.live /\ s.block \subseteq r.block /\ s.cf \subseteq r.cf
               /\ s.NewLiveBlocks \subseteq r.NewLiveBlocks /\ r.phis = s.phis
               /\ s.Worklist \subseteq r.Worklist /\ r.live \ s.live \subseteq r.Worklist
               /\ r.block \ s.block \subseteq r.cf /\ r.cf \ s.cf \subseteq r.NewLiveBlocks
               /\ \A i \in r.live \ s.live : i[1] \in r.block
               /\ r.BlocksWithDeadTerminators \subseteq s.BlocksWithDeadTerminators
               /\ s.BlocksWithDeadTerminators \ r.BlocksWithDeadTerminators \subseteq r.block
               /\ r.Worklist = {} => r.NewLiveBlocks = s.NewLiveBlocks /\ r.cf = s.cf
<1> DEFINE new == I \ s.live
           branches == { i \in new : IsTerminator(i) /\ ~UnconditionalBranch(i[1]) }
           reached == { i[1] : i \in new } \cup UNION { Targets(function.succ, i[1]) : i \in branches }
           blocks == reached \ s.block
           all == new \cup ({ Terminator(b) : b \in { b \in blocks : UnconditionalBranch(b) } } \ s.live)
           r == markLive(s, I)
<1>5. r = [s EXCEPT !.live = @ \cup all,
                  !.Worklist = @ \cup all,
                  !.block = @ \cup blocks,
                  !.cf = @ \cup blocks,
                  !.NewLiveBlocks = @ \cup (blocks \ s.cf),
                  !.BlocksWithDeadTerminators = @ \ { i[1] : i \in { i \in all : IsTerminator(i) } },
                  !.AliveScopes = @ \cup UNION { Scopes(i) : i \in all }]
  BY DEF markLive
<1>6. /\ r.live = s.live \cup all
      /\ r.Worklist = s.Worklist \cup all
      /\ r.block = s.block \cup blocks
      /\ r.cf = s.cf \cup blocks
      /\ r.NewLiveBlocks = s.NewLiveBlocks \cup (blocks \ s.cf)
      /\ r.phis = s.phis
      /\ r.BlocksWithDeadTerminators = s.BlocksWithDeadTerminators \ { i[1] : i \in { i \in all : IsTerminator(i) } }
  <2> HIDE DEF all, blocks, r
  <2> QED BY <1>5 DEF IsMarks
<1>7. new \subseteq all /\ s.live \cup I \subseteq s.live \cup all
  OBVIOUS
<1>8. \A i \in all : i[1] \in s.block \cup blocks
  <2>1. \A i \in new : i[1] \in reached
    OBVIOUS
  <2>2. \A i \in all : i \in new \/ \E b \in blocks : i = Terminator(b)
    <3> HIDE DEF new, blocks
    <3> QED OBVIOUS
  <2>3. \A b : Terminator(b)[1] = b
    BY DEF Terminator
  <2> HIDE DEF reached, new, all
  <2> QED BY <2>1, <2>2, <2>3
<1>9. all = {} => blocks = {}
  <2>1. all = {} => new = {}
    BY <1>7
  <2> QED BY <2>1
<1> HIDE DEF all, blocks, r, new
<1>10. s.BlocksWithDeadTerminators \ r.BlocksWithDeadTerminators \subseteq r.block
  BY <1>6, <1>8
<1>11. \A i \in r.live \ s.live : i[1] \in r.block
  BY <1>6, <1>8
<1>12. r.Worklist = {} => r.NewLiveBlocks = s.NewLiveBlocks /\ r.cf = s.cf
  BY <1>6, <1>9
<1> QED
  BY <1>6, <1>7, <1>10, <1>11, <1>12 DEF r

\* Marking keeps what is said of the blocks, when what it makes live is followed.
LEMMA MarkKeepsBlocks ==
    ASSUME function \in Function, NEW p \in Marks, NEW s, IsMarks(s), NEW W, BlocksOK(p, s, succ, W),
           NEW I, I \subseteq Everything, NEW V, W \subseteq V, markLive(s, I).live \ s.live \subseteq V
    PROVE  BlocksOK(p, markLive(s, I), succ, V) /\ s.block \subseteq markLive(s, I).block
<1> DEFINE r == markLive(s, I)
<1>1. /\ s.live \cup I \subseteq r.live /\ s.block \subseteq r.block /\ s.cf \subseteq r.cf
      /\ s.NewLiveBlocks \subseteq r.NewLiveBlocks /\ r.phis = s.phis
      /\ s.Worklist \subseteq r.Worklist /\ r.live \ s.live \subseteq r.Worklist
      /\ r.block \ s.block \subseteq r.cf /\ r.cf \ s.cf \subseteq r.NewLiveBlocks
      /\ \A i \in r.live \ s.live : i[1] \in r.block
      /\ r.BlocksWithDeadTerminators \subseteq s.BlocksWithDeadTerminators
      /\ s.BlocksWithDeadTerminators \ r.BlocksWithDeadTerminators \subseteq r.block
  BY MarkBlocks
<1>2. r.live \ s.live \subseteq V
  OBVIOUS
<1> HIDE DEF r
<1>3. \A c : Gone(r, succ, c) => Gone(s, succ, c)
  BY <1>1 DEF Gone
<1>4. \A i \in r.live : i[1] \in r.block
  BY <1>1 DEF BlocksOK
<1>5. \A i \in r.live \cap function.phi : i \in V \/ Preds(function.succ, i[1]) \subseteq r.cf
  BY <1>1, <1>2 DEF BlocksOK
<1>6. \A b \in r.cf : \/ p \in Marks /\ b \in r.NewLiveBlocks
                      \/ \A c \in Controls(b) : ~Gone(r, succ, c)
  BY <1>1, <1>3 DEF BlocksOK
<1>7. RemoveControlFlowFlag /\ p \notin {"roots", "back edges", "entry"} =>
          \A b \in Block : b \in r.block \/ Gone(r, succ, b) \/ (UnconditionalBranch(b) /\ Leaves(b))
  BY <1>1 DEF BlocksOK, Gone
<1>8. \A b \in Block : Gone(r, succ, b) => RemoveControlFlowFlag /\ Leaves(b)
  BY <1>3 DEF BlocksOK
<1>9. BlocksOK(p, r, succ, V)
  <2>1. r.block \subseteq r.cf \cup {1}
    BY <1>1 DEF BlocksOK
  <2>2. \A b \in r.phis : Preds(function.succ, b) \subseteq r.cf
    BY <1>1 DEF BlocksOK
  <2>3. p \in Marks \ {"mark"} => r.cf \subseteq r.NewLiveBlocks
    BY <1>1 DEF BlocksOK
  <2>4. p # "done" /\ (p \in {"back edges", "entry"} => RemoveControlFlowFlag)
    BY DEF BlocksOK, Marks
  <2> QED
    BY <1>4, <1>5, <1>6, <1>7, <1>8, <2>1, <2>2, <2>3, <2>4 DEF BlocksOK
<1> QED
  BY <1>1, <1>9 DEF r

LEMMA StepsRoots == IInv /\ StepInv /\ initialize_roots => StepInv'
<1> SUFFICES ASSUME IInv, StepInv, initialize_roots PROVE StepInv'
  OBVIOUS
<1> DEFINE I == { i \in Everything : isAlwaysLive(i) }
<1>1. /\ pc = "roots" /\ pc' = (IF RemoveControlFlowFlag THEN "back edges" ELSE "mark")
      /\ m' = markLive(m, I)
      /\ stack' = << 1 >> /\ ahead' = << function.succ[1] >> /\ Visited' = {1}
      /\ UNCHANGED << function, PDT, succ, RemoveControlFlowFlag >>
  BY DEF initialize_roots, code
<1>2. I \subseteq Everything
  OBVIOUS
<1> HIDE DEF I
<1>3. BlocksOK(pc, m', succ, m'.Worklist)
  <2>1. m.Worklist \subseteq m'.Worklist /\ m'.live \ m.live \subseteq m'.Worklist
    BY <1>1, <1>2, MarkBlocks DEF IInv
  <2> QED
    BY <1>1, <1>2, <2>1, MarkKeepsBlocks DEF IInv, StepInv, Marks
<1>4. BlocksOK(pc', m', succ', m'.Worklist)
  BY <1>1, <1>3 DEF BlocksOK, Marks
<1>5. ASSUME pc' = "back edges" PROVE BackEdgesOK(stack', ahead', Visited', m'.block)
  <2> DEFINE st == << 1 >>
             ah == << function.succ[1] >>
             ord0 == [b \in Block |-> 0]
  <2>1. Len(st) = 1 /\ st[1] = 1 /\ ah[1] = function.succ[1] /\ ToSet(st) = {1} /\ 1..1 = {1}
    <3>1. DOMAIN << 1 >> = {1}
      OBVIOUS
    <3> QED BY <3>1 DEF ToSet
  <2>2. function.succ[1] \in Seq(Block) /\ 1 \notin Targets(function.succ, 1) /\ function.n \in Nat
    BY FunctionFacts DEF IInv
  <2>3. Targets(function.succ, 1) = ToSet(function.succ[1])
    <3>1. DOMAIN function.succ[1] = 1..Len(function.succ[1])
      BY <2>2
    <3> QED BY <3>1 DEF Targets, ToSet
  <2>4. ord0 \in [Block -> 0..function.n]
    BY <2>2
  <2> HIDE DEF st, ah, ord0
  <2>5. BackEdgesOK(st, ah, {1}, m'.block)
    <3>1. {1} \ ToSet(st) = {}
      BY <2>1
    <3>2. \E ord \in [Block -> 0..function.n] :
              (\A u \in {} : ord[u] < Cardinality({})) /\ Circles(m'.block, {}, ord)
      BY <2>4 DEF Circles
    <3>3. \A k \in 1..Len(st) : st[k] = 1 /\ k = 1
      BY <2>1
    <3> QED
      BY <2>1, <2>2, <2>3, <3>1, <3>2, <3>3 DEF BackEdgesOK
  <2> QED
    BY <1>1, <2>5 DEF st, ah
<1> QED
  BY <1>1, <1>4, <1>5, CarrySteps

LEMMA StepsEndless == IInv /\ StepInv /\ initialize_endless => StepInv'
<1> SUFFICES ASSUME IInv, StepInv, initialize_endless PROVE StepInv'
  OBVIOUS
<1> DEFINE B == { b \in Block : \E c \in RootChildren : function.term[c] # "ret" /\ c \in PDT[b] }
           I == { Terminator(b) : b \in B }
<1>1. /\ pc = "back edges" /\ stack = << >> /\ pc' = "entry" /\ m' = markLive(m, I)
      /\ UNCHANGED << function, PDT, succ, RemoveControlFlowFlag >>
  BY DEF initialize_endless, code, search
<1>2. I \subseteq Everything
  <2>1. B \subseteq Block
    OBVIOUS
  <2> HIDE DEF B
  <2> QED BY <2>1, FunctionFacts DEF IInv
<1> HIDE DEF I
<1>3. BlocksOK(pc, m', succ, m'.Worklist) /\ m.block \subseteq m'.block
  <2>1. m.Worklist \subseteq m'.Worklist /\ m'.live \ m.live \subseteq m'.Worklist
    BY <1>1, <1>2, MarkBlocks DEF IInv
  <2> QED
    BY <1>1, <1>2, <2>1, MarkKeepsBlocks DEF IInv, StepInv, Marks
<1>4. BlocksOK(pc', m', succ', m'.Worklist)
  BY <1>1, <1>3 DEF BlocksOK, Marks
<1>5. NoCircle(m'.block)
  <2>1. ToSet(stack) = {}
    <3>1. stack = << >>
      BY <1>1
    <3> QED BY <3>1 DEF ToSet
  <2>2. Visited \ ToSet(stack) = Visited
    BY <2>1
  <2>3. /\ 1 \in Visited /\ \A u \in Visited : Targets(function.succ, u) \ {} \subseteq Visited
        /\ \E ord \in [Block -> 0..function.n] : Circles(m.block, Visited, ord)
    <3>1. BackEdgesOK(stack, ahead, Visited, m.block)
      BY <1>1 DEF StepInv
    <3> QED BY <2>2, <3>1 DEF BackEdgesOK
  <2>4. 1 \in Block /\ function \in Function
    BY FunctionFacts DEF IInv
  <2>5. {1} \ {} \subseteq Visited
    BY <2>3
  <2>6. Reach(function.succ, {1}, {}) \subseteq Visited
    BY <2>3, <2>4, <2>5, ReachOnly
  <2> QED
    BY <1>3, <2>3, <2>6 DEF NoCircle, Circles
<1> QED
  BY <1>1, <1>4, <1>5, CarrySteps

\* What a sequence holds.
LEMMA HeldBy ==
    ASSUME NEW S, NEW s \in Seq(S)
    PROVE  /\ DOMAIN s = 1..Len(s) /\ ToSet(s) = { s[i] : i \in 1..Len(s) } /\ Len(s) \in Nat
           /\ ToSet(s) \subseteq S
<1>1. DOMAIN s = 1..Len(s) /\ Len(s) \in Nat
  BY LenProperties
<1>2. ToSet(s) = { s[i] : i \in 1..Len(s) }
  BY <1>1 DEF ToSet
<1>3. \A i \in 1..Len(s) : s[i] \in S
  BY <1>1, ElementOfSeq
<1> QED
  BY <1>1, <1>2, <1>3

\* The search for back edges leaves a block.
LEMMA BackPop ==
    ASSUME function \in Function, NEW st \in Seq(Block), st # << >>,
           NEW ah \in Seq(Seq(Block)), Len(ah) = Len(st), ah[Len(st)] = << >>,
           NEW vis, vis \subseteq Block, NEW blk, BackEdgesOK(st, ah, vis, blk)
    PROVE  BackEdgesOK(Front(st), Front(ah), vis, blk)
<1> DEFINE top == Len(st)
           b == st[top]
           F == vis \ ToSet(st)
           fr == Front(st)
           G == vis \ ToSet(fr)
<1>1. /\ top \in Nat \ {0} /\ ah # << >>
      /\ fr \in Seq(Block) /\ Len(fr) = top - 1 /\ \A i \in 1..(top - 1) : fr[i] = st[i]
  BY LastAndFront, EmptySeq
<1>2. /\ Front(ah) \in Seq(Seq(Block)) /\ Len(Front(ah)) = top - 1
      /\ \A i \in 1..(top - 1) : Front(ah)[i] = ah[i]
  BY <1>1, LastAndFront
<1>3. /\ 1 \in vis /\ ToSet(st) \subseteq vis
      /\ \A i, j \in 1..top : st[i] = st[j] => i = j
      /\ \A u \in F : Targets(function.succ, u) \subseteq vis
      /\ \A k \in 1..top : Targets(function.succ, st[k]) \subseteq vis \cup ToSet(ah[k])
      /\ \A k \in 1..top : \A j \in 1..k : st[j] \in Targets(function.succ, st[k]) => st[k] \in blk
  BY DEF BackEdgesOK
<1>4. PICK ord \in [Block -> 0..function.n] :
          (\A u \in F : ord[u] < Cardinality(F)) /\ Circles(blk, F, ord)
  BY DEF BackEdgesOK
<1>5. ToSet(st) = { st[i] : i \in 1..top } /\ ToSet(fr) = { st[i] : i \in 1..(top - 1) }
  <2>1. ToSet(st) = { st[i] : i \in 1..top }
    BY HeldBy
  <2>2. ToSet(fr) = { fr[i] : i \in 1..(top - 1) }
    BY <1>1, HeldBy
  <2> QED BY <1>1, <2>1, <2>2
<1>6. ah[top] = << >> /\ ToSet(ah[top]) = {}
  <2>1. DOMAIN << >> = {}
    OBVIOUS
  <2> QED BY <2>1 DEF ToSet
<1> HIDE DEF fr
<1>7. b \in ToSet(st) /\ b \notin ToSet(fr) /\ ToSet(st) = ToSet(fr) \cup {b}
  <2>1. top \in Nat \ {0}
    BY <1>1
  <2> HIDE DEF top
  <2>2. top \in 1..top /\ \A i \in 1..top : i # top => i \in 1..(top - 1)
    BY <2>1
  <2>3. \A i \in 1..(top - 1) : i \in 1..top /\ i # top
    BY <2>1
  <2>4. b \in ToSet(st)
    BY <1>5, <2>2
  <2>5. b \notin ToSet(fr)
    BY <1>3, <1>5, <2>2, <2>3
  <2>6. ToSet(st) \subseteq ToSet(fr) \cup {b}
    BY <1>5, <2>2
  <2>7. ToSet(fr) \subseteq ToSet(st)
    BY <1>5, <2>3
  <2> QED BY <2>4, <2>5, <2>6, <2>7
<1>8. G = F \cup {b} /\ b \notin F /\ b \in Block
  BY <1>3, <1>7
<1>9. IsFiniteSet(F) /\ Cardinality(G) = Cardinality(F) + 1 /\ Cardinality(F) \in 0..function.n
  <2>1. IsFiniteSet(Block) /\ Cardinality(Block) = function.n /\ function.n \in Nat
    <3>1. function.n \in Nat
      BY FunctionFacts
    <3>2. 1 \in Int /\ function.n \in Int /\ (IF 1 > function.n THEN 0 ELSE function.n - 1 + 1) = function.n
      BY <3>1
    <3>3. IsFiniteSet(1..function.n) /\ Cardinality(1..function.n) = function.n
      BY <3>2, FS_Interval
    <3> QED BY <3>1, <3>3 DEF Block
  <2>2. F \subseteq Block
    OBVIOUS
  <2>3. IsFiniteSet(F) /\ Cardinality(F) <= Cardinality(Block)
    BY <2>1, <2>2, FS_Subset
  <2>4. Cardinality(F) \in Nat
    BY <2>3, FS_CardinalityType
  <2>5. Cardinality(F \cup {b}) = Cardinality(F) + 1
    BY <1>8, <2>3, FS_AddElement
  <2>6. Cardinality(F) \in 0..function.n
    BY <2>1, <2>3, <2>4
  <2>7. G = F \cup {b}
    BY <1>8
  <2> HIDE DEF F, G
  <2> QED
    BY <2>3, <2>5, <2>6, <2>7
<1>10. \A u \in G : Targets(function.succ, u) \subseteq vis
  <2>1. Targets(function.succ, b) \subseteq vis
    <3>1. top \in 1..top
      BY <1>1
    <3> QED BY <1>3, <1>6, <3>1
  <2> QED BY <1>3, <1>8, <2>1
<1> DEFINE new == [ord EXCEPT ![b] = Cardinality(F)]
<1>11. new \in [Block -> 0..function.n] /\ new[b] = Cardinality(F) /\ \A u \in F : new[u] = ord[u]
  BY <1>4, <1>8, <1>9
<1> HIDE DEF new, F, G
<1>12. \A u \in G : new[u] < Cardinality(G)
  <2>1. \A u \in F : u \in Block /\ ord[u] \in 0..function.n
    BY <1>4 DEF F
  <2> QED
    BY <1>4, <1>8, <1>9, <1>11, <2>1
<1>13. Circles(blk, G, new)
  <2> SUFFICES ASSUME NEW u \in G, u \notin blk, NEW t \in Targets(function.succ, u)
               PROVE  t \in G /\ new[t] < new[u]
    BY DEF Circles
  <2>1. CASE u \in F
    BY <1>4, <1>8, <1>11, <2>1 DEF Circles
  <2>2. CASE u = b
    <3>1. t \in vis
      BY <1>10
    <3>2. t \notin ToSet(st)
      BY <1>1, <1>3, <1>5, <2>2
    <3>3. t \in F
      BY <3>1, <3>2 DEF F
    <3> QED
      BY <1>4, <1>8, <1>11, <2>2, <3>3
  <2> QED
    BY <1>8, <2>1, <2>2
<1>14. \A i \in 1..(top - 1) : i \in 1..top
  BY <1>1
<1>15. BackEdgesOK(fr, Front(ah), vis, blk)
  <2>1. ToSet(fr) \subseteq vis
    BY <1>3, <1>7
  <2>2. \A k \in 1..Len(fr) : \A j \in 1..k : j \in 1..Len(fr)
    BY <1>1
  <2>3. \A i, j \in 1..Len(fr) : fr[i] = fr[j] => i = j
    BY <1>1, <1>3, <1>14
  <2>4. \A k \in 1..Len(fr) : Targets(function.succ, fr[k]) \subseteq vis \cup ToSet(Front(ah)[k])
    BY <1>1, <1>2, <1>3, <1>14
  <2>5. \A k \in 1..Len(fr) : \A j \in 1..k : fr[j] \in Targets(function.succ, fr[k]) => fr[k] \in blk
    BY <1>1, <1>3, <1>14, <2>2
  <2> QED
    BY <1>3, <1>10, <1>11, <1>12, <1>13, <2>1, <2>3, <2>4, <2>5 DEF BackEdgesOK, G
<1> QED
  BY <1>15 DEF fr

\* It takes the next edge: what is left of the list is what was, without its head.
LEMMA TailHolds ==
    ASSUME NEW S, NEW s \in Seq(S), s # << >>
    PROVE  Head(s) \in S /\ Tail(s) \in Seq(S) /\ ToSet(s) \subseteq {Head(s)} \cup ToSet(Tail(s))
<1>1. /\ Head(s) \in S /\ Tail(s) \in Seq(S) /\ Len(Tail(s)) = Len(s) - 1
      /\ \A i \in 1..Len(Tail(s)) : Tail(s)[i] = s[i + 1]
  BY HeadTailProperties
<1>2. Head(s) = s[1]
  OBVIOUS
<1>3. ToSet(s) = { s[i] : i \in 1..Len(s) } /\ Len(s) \in Nat
  BY HeldBy
<1>4. ToSet(Tail(s)) = { Tail(s)[i] : i \in 1..Len(Tail(s)) }
  BY <1>1, HeldBy
<1>5. \A i \in 1..Len(s) : i = 1 \/ (i - 1 \in 1..Len(Tail(s)) /\ Tail(s)[i - 1] = s[i])
  <2> SUFFICES ASSUME NEW i \in 1..Len(s), i # 1
               PROVE  i - 1 \in 1..Len(Tail(s)) /\ Tail(s)[i - 1] = s[i]
    OBVIOUS
  <2>1. i - 1 \in 1..Len(Tail(s)) /\ (i - 1) + 1 = i
    BY <1>1, <1>3
  <2> QED BY <1>1, <2>1
<1> QED
  BY <1>1, <1>2, <1>3, <1>4, <1>5

\* It passes an edge to a block that has been seen.
LEMMA BackSkip ==
    ASSUME function \in Function, NEW st \in Seq(Block), st # << >>,
           NEW ah \in Seq(Seq(Block)), Len(ah) = Len(st), ah[Len(st)] # << >>,
           NEW vis, vis \subseteq Block, Head(ah[Len(st)]) \in vis, NEW blk, BackEdgesOK(st, ah, vis, blk)
    PROVE  BackEdgesOK(st, [ah EXCEPT ![Len(st)] = Tail(@)], vis, blk)
<1> DEFINE top == Len(st)
           rest == [ah EXCEPT ![top] = Tail(ah[top])]
<1>1. top \in Nat \ {0} /\ top \in 1..top
  BY LastAndFront
<1>2. ah[top] \in Seq(Block)
  BY <1>1, ElementOfSeq
<1>3. Tail(ah[top]) \in Seq(Block) /\ ToSet(ah[top]) \subseteq {Head(ah[top])} \cup ToSet(Tail(ah[top]))
  BY <1>2, TailHolds
<1>4. \A k \in 1..top : rest[k] = IF k = top THEN Tail(ah[top]) ELSE ah[k]
  BY <1>1, <1>3, ExceptSeq
<1> HIDE DEF rest
<1>5. ASSUME NEW k \in 1..top
      PROVE  Targets(function.succ, st[k]) \subseteq vis \cup ToSet(rest[k])
  <2>1. Targets(function.succ, st[k]) \subseteq vis \cup ToSet(ah[k])
    BY DEF BackEdgesOK
  <2> QED
    BY <1>3, <1>4, <2>1
<1>6. BackEdgesOK(st, rest, vis, blk)
  BY <1>5 DEF BackEdgesOK
<1> QED
  BY <1>6 DEF rest

\* It goes on to a block it has not seen; if that has an edge back, it lives.
LEMMA BackPush ==
    ASSUME function \in Function, NEW st \in Seq(Block), st # << >>,
           NEW ah \in Seq(Seq(Block)), Len(ah) = Len(st), ah[Len(st)] # << >>,
           NEW vis, vis \subseteq Block, NEW to, to = Head(ah[Len(st)]), to \notin vis,
           NEW blk, BackEdgesOK(st, ah, vis, blk),
           NEW more, blk \subseteq more,
           Targets(function.succ, to) \cap (ToSet(st) \cup {to}) # {} => to \in more
    PROVE  BackEdgesOK(Append(st, to), Append([ah EXCEPT ![Len(st)] = Tail(@)], function.succ[to]), vis \cup {to}, more)
<1> DEFINE top == Len(st)
           rest == [ah EXCEPT ![top] = Tail(ah[top])]
           on == Append(st, to)
           left == Append(rest, function.succ[to])
           seen == vis \cup {to}
           F == vis \ ToSet(st)
<1>1. top \in Nat \ {0} /\ top \in 1..top
  BY LastAndFront
<1>2. ah[top] \in Seq(Block)
  BY <1>1, ElementOfSeq
<1>3. /\ to \in Block /\ Tail(ah[top]) \in Seq(Block)
      /\ ToSet(ah[top]) \subseteq {to} \cup ToSet(Tail(ah[top]))
  BY <1>2, TailHolds
<1>4. /\ \A k \in 1..top : rest[k] = IF k = top THEN Tail(ah[top]) ELSE ah[k]
      /\ rest \in Seq(Seq(Block)) /\ Len(rest) = top
  BY <1>1, <1>3, ExceptSeq
<1>5. function.succ[to] \in Seq(Block)
  BY <1>3, FunctionFacts
<1> HIDE DEF rest
<1>6. Len(on) = top + 1 /\ on[top + 1] = to /\ \A i \in 1..top : on[i] = st[i]
  BY <1>3, AppendProperties
<1>7. Len(left) = top + 1 /\ left[top + 1] = function.succ[to] /\ \A i \in 1..top : left[i] = rest[i]
  BY <1>4, <1>5, AppendProperties
<1>8. on \in Seq(Block)
  BY <1>3, AppendProperties
<1>9. ToSet(st) = { st[i] : i \in 1..top } /\ ToSet(on) = { on[i] : i \in 1..(top + 1) }
  <2>1. ToSet(st) = { st[i] : i \in 1..top }
    BY HeldBy
  <2> HIDE DEF on
  <2>2. ToSet(on) = { on[i] : i \in 1..(top + 1) }
    BY <1>6, <1>8, HeldBy
  <2> QED BY <2>1, <2>2
<1> HIDE DEF on, left, top
<1>10. \A i \in 1..(top + 1) : i = top + 1 \/ (i \in 1..top /\ i # top + 1)
  BY <1>1
<1>11. \A i \in 1..top : i \in 1..(top + 1) /\ i # top + 1 /\ top + 1 \in 1..(top + 1)
  BY <1>1
<1>12. ToSet(on) = ToSet(st) \cup {to}
  BY <1>1, <1>6, <1>9, <1>10, <1>11
<1>13. /\ 1 \in vis /\ ToSet(st) \subseteq vis
       /\ \A i, j \in 1..top : st[i] = st[j] => i = j
       /\ \A u \in F : Targets(function.succ, u) \subseteq vis
       /\ \A k \in 1..top : Targets(function.succ, st[k]) \subseteq vis \cup ToSet(ah[k])
       /\ \A k \in 1..top : \A j \in 1..k : st[j] \in Targets(function.succ, st[k]) => st[k] \in blk
  BY DEF BackEdgesOK, top
<1>14. seen \ ToSet(on) = F
  BY <1>12, <1>13
<1>15. \A i, j \in 1..(top + 1) : on[i] = on[j] => i = j
  <2>1. \A i \in 1..top : st[i] # to
    BY <1>9, <1>13
  <2> QED
    BY <1>6, <1>10, <1>13, <2>1
<1>16. \A k \in 1..(top + 1) : Targets(function.succ, on[k]) \subseteq seen \cup ToSet(left[k])
  <2>1. Targets(function.succ, to) = ToSet(function.succ[to])
    BY <1>5, HeldBy DEF Targets
  <2>2. ASSUME NEW k \in 1..top PROVE Targets(function.succ, st[k]) \subseteq seen \cup ToSet(rest[k])
    <3>1. Targets(function.succ, st[k]) \subseteq vis \cup ToSet(ah[k])
      BY <1>13
    <3> QED
      BY <1>3, <1>4, <3>1
  <2> QED
    BY <1>6, <1>7, <1>10, <2>1, <2>2
<1>17. \A k \in 1..(top + 1) : \A j \in 1..k : on[j] \in Targets(function.succ, on[k]) => on[k] \in more
  <2> SUFFICES ASSUME NEW k \in 1..(top + 1), NEW j \in 1..k, on[j] \in Targets(function.succ, on[k])
               PROVE  on[k] \in more
    OBVIOUS
  <2>1. CASE k = top + 1
    <3>1. on[j] \in ToSet(st) \cup {to}
      BY <1>9, <1>12, <2>1
    <3> QED
      BY <1>6, <2>1, <3>1
  <2>2. CASE k \in 1..top
    <3>1. j \in 1..top
      BY <1>1, <2>2
    <3> QED
      BY <1>6, <1>13, <2>2, <3>1
  <2> QED
    BY <1>10, <2>1, <2>2
<1>18. \E ord \in [Block -> 0..function.n] : (\A u \in F : ord[u] < Cardinality(F)) /\ Circles(more, F, ord)
  <2>1. PICK ord \in [Block -> 0..function.n] : (\A u \in F : ord[u] < Cardinality(F)) /\ Circles(blk, F, ord)
    BY DEF BackEdgesOK
  <2>2. Circles(more, F, ord)
    BY <2>1 DEF Circles
  <2> QED
    BY <2>1, <2>2
<1>19. BackEdgesOK(on, left, seen, more)
  <2>1. 1 \in seen /\ ToSet(on) \subseteq seen
    BY <1>12, <1>13
  <2>2. \A u \in F : Targets(function.succ, u) \subseteq seen
    BY <1>13
  <2> HIDE DEF seen, F
  <2> QED
    BY <1>6, <1>14, <1>15, <1>16, <1>17, <1>18, <2>1, <2>2 DEF BackEdgesOK
<1> QED
  BY <1>19 DEF on, left, rest, top

LEMMA StepsLoops == IInv /\ StepInv /\ initialize_loops => StepInv'
<1> SUFFICES ASSUME IInv, StepInv, initialize_loops PROVE StepInv'
  OBVIOUS
<1> DEFINE top == Len(stack)
           to == Head(ahead[top])
<1>1. /\ pc = "back edges" /\ stack # << >>
      /\ UNCHANGED << function, PDT, RemoveControlFlowFlag, succ, present, pc, PostOrder >>
  BY DEF initialize_loops, code
<1>2. /\ stack \in Seq(Block) /\ ahead \in Seq(Seq(Block)) /\ Len(ahead) = top
      /\ Visited \subseteq Block
  BY <1>1 DEF IInv, SearchOK
<1>3. BackEdgesOK(stack, ahead, Visited, m.block) /\ BlocksOK(pc, m, succ, m.Worklist)
  BY <1>1 DEF StepInv
<1>4. BlocksOK(pc', m', succ', m'.Worklist) /\ m.block \subseteq m'.block
  <2>1. CASE m' = m
    BY <1>1, <1>3, <2>1
  <2>2. CASE m' # m
    <3>1. /\ ahead[top] # << >>
          /\ m' = BackEdgesMarked(to, ToSet(stack) \cup {to})
      BY <2>2 DEF initialize_loops
    <3>2. to \in Block
      <4>1. ahead[top] \in Seq(Block)
        <5>1. top \in Nat \ {0}
          BY <1>1, <1>2, LastAndFront
        <5>2. top \in 1..Len(ahead)
          BY <1>2, <5>1
        <5> QED BY <1>2, <5>2, ElementOfSeq
      <4> QED BY <3>1, <4>1, HeadTailProperties
    <3>3. m' = markLive(m, {Terminator(to)})
      BY <2>2, <3>1 DEF BackEdgesMarked
    <3>4. {Terminator(to)} \subseteq Everything
      BY <3>2, FunctionFacts DEF IInv
    <3>5. m.Worklist \subseteq m'.Worklist /\ m'.live \ m.live \subseteq m'.Worklist
      BY <3>3, <3>4, MarkBlocks DEF IInv
    <3> QED
      BY <1>1, <1>3, <3>3, <3>4, <3>5, MarkKeepsBlocks DEF IInv, Marks
  <2> QED
    BY <2>1, <2>2
<1>5. BackEdgesOK(stack', ahead', Visited', m'.block)
  <2>1. CASE ahead[top] = << >>
    <3>1. stack' = Front(stack) /\ ahead' = Front(ahead) /\ Visited' = Visited /\ m' = m
      BY <2>1 DEF initialize_loops
    <3> QED
      BY <1>1, <1>2, <1>3, <2>1, <3>1, BackPop DEF IInv
  <2>2. CASE ahead[top] # << >> /\ to \in Visited
    <3>1. stack' = stack /\ ahead' = [ahead EXCEPT ![top] = Tail(@)] /\ Visited' = Visited /\ m' = m
      BY <2>2 DEF initialize_loops
    <3>2. BackEdgesOK(stack, [ahead EXCEPT ![top] = Tail(@)], Visited, m.block)
      BY <1>1, <1>2, <1>3, <2>2, BackSkip DEF IInv
    <3> QED
      BY <3>1, <3>2
  <2>3. CASE ahead[top] # << >> /\ to \notin Visited
    <3>1. /\ stack' = Append(stack, to) /\ Visited' = Visited \cup {to}
          /\ ahead' = Append([ahead EXCEPT ![top] = Tail(@)], function.succ[to])
          /\ m' = BackEdgesMarked(to, ToSet(stack) \cup {to})
      BY <2>3 DEF initialize_loops
    <3>2. to \in Block
      <4>1. ahead[top] \in Seq(Block)
        <5>1. top \in Nat \ {0}
          BY <1>1, <1>2, LastAndFront
        <5>2. top \in 1..Len(ahead)
          BY <1>2, <5>1
        <5> QED BY <1>2, <5>2, ElementOfSeq
      <4> QED BY <2>3, <4>1, HeadTailProperties
    <3>3. Targets(function.succ, to) \cap (ToSet(stack) \cup {to}) # {} => to \in m'.block
      <4> SUFFICES ASSUME Targets(function.succ, to) \cap (ToSet(stack) \cup {to}) # {} PROVE to \in m'.block
        OBVIOUS
      <4>1. m' = markLive(m, {Terminator(to)})
        BY <3>1 DEF BackEdgesMarked
      <4>2. {Terminator(to)} \subseteq Everything /\ Terminator(to)[1] = to
        BY <3>2, FunctionFacts DEF IInv
      <4>3. Terminator(to) \in m'.live
        BY <4>1, <4>2, MarkBlocks DEF IInv
      <4>4. \A i \in m'.live : i[1] \in m'.block
        BY <1>1, <1>4 DEF BlocksOK, Marks
      <4> QED
        BY <4>2, <4>3, <4>4
    <3>4. BackEdgesOK(Append(stack, to), Append([ahead EXCEPT ![top] = Tail(@)], function.succ[to]), Visited \cup {to}, m'.block)
      BY <1>1, <1>2, <1>3, <1>4, <2>3, <3>3, BackPush DEF IInv
    <3> QED
      BY <3>1, <3>4
  <2> QED
    BY <2>1, <2>2, <2>3
<1> QED
  BY <1>1, <1>4, <1>5, CarrySteps

\* Marking keeps what is said of circles.
LEMMA NoCircleMore ==
    ASSUME NEW blk, NoCircle(blk), NEW more, blk \subseteq more
    PROVE  NoCircle(more)
  BY DEF NoCircle

LEMMA StepsEntry == IInv /\ PathInv /\ StepInv /\ initialize_entry => StepInv'
<1> SUFFICES ASSUME IInv, PathInv, StepInv, initialize_entry PROVE StepInv'
  OBVIOUS
<1> DEFINE entered == [m EXCEPT !.block = @ \cup {1}]
           s == IF UnconditionalBranch(1) THEN markLive(entered, {Terminator(1)}) ELSE entered
           dead == { b \in Block : Terminator(b) \notin s.live }
<1>1. /\ pc = "entry" /\ pc' = "mark"
      /\ m' = [s EXCEPT !.BlocksWithDeadTerminators = dead]
      /\ UNCHANGED << function, PDT, RemoveControlFlowFlag, succ >>
  BY DEF initialize_entry, code, search
<1>2. 1 \in Block /\ Terminator(1) \in Everything
  BY FunctionFacts DEF IInv
<1>3. /\ entered.live = m.live /\ entered.Worklist = m.Worklist
      /\ entered.block = m.block \cup {1} /\ entered.cf = m.cf /\ entered.phis = m.phis
      /\ entered.NewLiveBlocks = m.NewLiveBlocks
      /\ entered.BlocksWithDeadTerminators = m.BlocksWithDeadTerminators
      /\ DOMAIN entered = DOMAIN m /\ entered = [f \in DOMAIN entered |-> entered[f]]
  BY DEF IInv, IsMarks
<1>4. IsMarks(entered)
  <2> HIDE DEF entered
  <2>1. /\ entered.live \subseteq Everything /\ entered.Worklist \subseteq entered.live
        /\ entered.BlocksWithDeadTerminators \subseteq Block
    BY <1>3 DEF IInv, IsMarks
  <2>2. entered.block \cup entered.cf \cup entered.phis \cup entered.NewLiveBlocks \subseteq Block
    BY <1>2, <1>3 DEF IInv, IsMarks
  <2> QED
    BY <1>3, <2>1, <2>2 DEF IInv, IsMarks
<1>5. BlocksOK("entry", m, succ, m.Worklist)
  BY <1>1 DEF StepInv
<1> HIDE DEF entered
<1>6. BlocksOK("entry", entered, succ, entered.Worklist)
  BY <1>3, <1>5 DEF BlocksOK, Gone
<1>7. /\ IsMarks(s) /\ BlocksOK("entry", s, succ, s.Worklist)
      /\ entered.block \subseteq s.block /\ entered.live \subseteq s.live
  <2>1. CASE UnconditionalBranch(1)
    <3> DEFINE r == markLive(entered, {Terminator(1)})
    <3>1. entered.Worklist \subseteq r.Worklist /\ r.live \ entered.live \subseteq r.Worklist
      BY <1>2, <1>4, MarkBlocks DEF IInv
    <3>2. IsMarks(r) /\ entered.live \subseteq r.live
      BY <1>2, <1>4, Marking DEF IInv
    <3>3. BlocksOK("entry", r, succ, r.Worklist) /\ entered.block \subseteq r.block
      <4>1. "entry" \in Marks /\ {Terminator(1)} \subseteq Everything /\ function \in Function
        BY <1>2 DEF IInv, Marks
      <4> QED
        BY <1>4, <1>6, <3>1, <4>1, MarkKeepsBlocks
    <3> QED
      BY <2>1, <3>2, <3>3
  <2>2. CASE ~UnconditionalBranch(1)
    BY <1>4, <1>6, <2>2
  <2> QED
    BY <2>1, <2>2
<1>8. \A b \in Block : Terminator(b) \in s.live \/ (b \in dead /\ Leaves(b))
  <2>1. \A b \in Block : Leaves(b) \/ Terminator(b) \in m.live
    BY <1>1 DEF PathInv, PathsOK
  <2> HIDE DEF s
  <2> QED BY <1>3, <1>7, <2>1
<1>9. \A b \in dead : Terminator(b) \notin s.live /\ b \in Block
  OBVIOUS
<1> HIDE DEF s, dead
<1>10. /\ m'.live = s.live /\ m'.Worklist = s.Worklist
       /\ m'.block = s.block /\ m'.cf = s.cf /\ m'.phis = s.phis
       /\ m'.NewLiveBlocks = s.NewLiveBlocks
       /\ m'.BlocksWithDeadTerminators = dead
  BY <1>1, <1>7 DEF IsMarks
<1>11. succ = function.succ
  BY <1>1 DEF IInv, BranchesOK
<1>12. \A b : Gone(m', succ', b) => b \in dead
  BY <1>1, <1>10, <1>11 DEF Gone
<1>13. BlocksOK(pc', m', succ', m'.Worklist)
  <2>1. \A b \in m'.cf : b \in m'.NewLiveBlocks
    BY <1>7, <1>10 DEF BlocksOK, Marks
  <2>2. \A b \in Block : b \in m'.block \/ Gone(m', succ', b)
    <3> SUFFICES ASSUME NEW b \in Block, Terminator(b) \in s.live PROVE b \in s.block
      BY <1>8, <1>10 DEF Gone
    <3>1. Terminator(b)[1] = b
      BY FunctionFacts DEF IInv
    <3> QED
      BY <1>7, <3>1 DEF BlocksOK, Marks
  <2>3. \A b \in Block : Gone(m', succ', b) => RemoveControlFlowFlag /\ Leaves(b)
    BY <1>7, <1>8, <1>9, <1>12 DEF BlocksOK
  <2>4. \A i \in m'.live : i[1] \in m'.block
    BY <1>7, <1>10 DEF BlocksOK, Marks
  <2>5. /\ m'.block \subseteq m'.cf \cup {1}
        /\ \A b \in m'.phis : Preds(function.succ, b) \subseteq m'.cf
        /\ \A i \in m'.live \cap function.phi : i \in m'.Worklist \/ Preds(function.succ, i[1]) \subseteq m'.cf
    BY <1>7, <1>10 DEF BlocksOK
  <2> QED
    BY <1>1, <2>1, <2>2, <2>3, <2>4, <2>5 DEF BlocksOK, Marks
<1>14. NoCircle(m'.block)
  <2>1. RemoveControlFlowFlag
    BY <1>5 DEF BlocksOK
  <2>2. NoCircle(m.block)
    BY <1>1, <2>1 DEF StepInv
  <2> QED
    BY <1>3, <1>7, <1>10, <2>2, NoCircleMore
<1> QED
  BY <1>1, <1>13, <1>14, CarrySteps

LEMMA StepsMark == IInv /\ StepInv /\ markLiveInstructions => StepInv'
<1> SUFFICES ASSUME IInv, StepInv, markLiveInstructions PROVE StepInv'
  OBVIOUS
<1>1. /\ pc = "mark"
      /\ UNCHANGED << function, PDT, RemoveControlFlowFlag, succ, pc >>
  BY DEF markLiveInstructions, code, search
<1>2. PICK i \in m.Worklist :
          LET s == markLive([m EXCEPT !.Worklist = @ \ {i}], function.uses[i])
          IN  m' = IF i \in function.phi THEN markPhiLive(s, i[1]) ELSE s
  BY DEF markLiveInstructions
<1> DEFINE popped == [m EXCEPT !.Worklist = @ \ {i}]
           s == markLive(popped, function.uses[i])
           V == s.Worklist \cup {i}
<1>3. i \in Everything /\ function.uses[i] \subseteq Everything /\ i[1] \in Block
  <2>1. i \in Everything
    BY <1>2 DEF IInv, IsMarks
  <2>2. function.uses \in [Everything -> SUBSET Everything] /\ i[1] \in Block
    BY <2>1, FunctionFacts DEF IInv
  <2> QED
    BY <2>1, <2>2
<1>4. /\ popped.live = m.live /\ popped.Worklist = m.Worklist \ {i}
      /\ popped.block = m.block /\ popped.cf = m.cf /\ popped.phis = m.phis
      /\ popped.NewLiveBlocks = m.NewLiveBlocks
      /\ popped.BlocksWithDeadTerminators = m.BlocksWithDeadTerminators
      /\ DOMAIN popped = DOMAIN m /\ popped = [f \in DOMAIN popped |-> popped[f]]
  BY DEF IInv, IsMarks
<1> HIDE DEF popped
<1>5. IsMarks(popped)
  BY <1>4 DEF IInv, IsMarks
<1>6. IsMarks(s)
  BY <1>3, <1>5, Marking DEF IInv
<1>7. BlocksOK("mark", popped, succ, m.Worklist)
  BY <1>1, <1>4 DEF StepInv, BlocksOK, Gone
<1>8. popped.Worklist \subseteq s.Worklist /\ s.live \ popped.live \subseteq s.Worklist
  BY <1>3, <1>5, MarkBlocks DEF IInv
<1>9. BlocksOK("mark", s, succ, V) /\ popped.block \subseteq s.block
  <2>1. m.Worklist \subseteq V /\ s.live \ popped.live \subseteq V
    BY <1>4, <1>8
  <2> HIDE DEF V
  <2> QED
    BY <1>3, <1>5, <1>7, <2>1, MarkKeepsBlocks DEF IInv, Marks
<1>10. m' = IF i \in function.phi THEN markPhiLive(s, i[1]) ELSE s
  BY <1>2 DEF popped
<1> HIDE DEF s
<1>11. BlocksOK("mark", m', succ, m'.Worklist) /\ m'.block = s.block
  <2>1. CASE i \notin function.phi
    BY <1>9, <1>10, <2>1 DEF BlocksOK
  <2>2. CASE i \in function.phi /\ i[1] \in s.phis
    <3>1. m' = s
      BY <1>10, <2>2 DEF markPhiLive
    <3>2. Preds(function.succ, i[1]) \subseteq s.cf
      BY <1>9, <2>2 DEF BlocksOK
    <3> QED
      BY <1>9, <3>1, <3>2 DEF BlocksOK
  <2>3. CASE i \in function.phi /\ i[1] \notin s.phis
    <3> DEFINE new == Preds(function.succ, i[1]) \ s.cf
    <3>1. m' = [s EXCEPT !.phis = @ \cup {i[1]}, !.cf = @ \cup new, !.NewLiveBlocks = @ \cup new]
      BY <1>10, <2>3 DEF markPhiLive
    <3>2. Preds(function.succ, i[1]) \subseteq s.cf \cup new
      OBVIOUS
    <3> HIDE DEF new
    <3>3. /\ m'.live = s.live /\ m'.Worklist = s.Worklist
          /\ m'.block = s.block /\ m'.cf = s.cf \cup new /\ m'.phis = s.phis \cup {i[1]}
          /\ m'.NewLiveBlocks = s.NewLiveBlocks \cup new
          /\ m'.BlocksWithDeadTerminators = s.BlocksWithDeadTerminators
      BY <1>6, <3>1 DEF IsMarks
    <3>4. \A c : Gone(m', succ, c) <=> Gone(s, succ, c)
      BY <3>3 DEF Gone
    <3>5. /\ m'.block \subseteq m'.cf \cup {1}
          /\ \A j \in m'.live : j[1] \in m'.block \/ (IsTerminator(j) /\ "mark" \notin Marks)
          /\ \A b \in m'.phis : Preds(function.succ, b) \subseteq m'.cf
      BY <1>9, <3>2, <3>3 DEF BlocksOK
    <3>6. \A j \in m'.live \cap function.phi : j \in m'.Worklist \/ Preds(function.succ, j[1]) \subseteq m'.cf
      BY <1>9, <3>2, <3>3 DEF BlocksOK
    <3>7. \A b \in m'.cf : \/ "mark" \in Marks /\ b \in m'.NewLiveBlocks
                           \/ \A c \in Controls(b) : ~Gone(m', succ, c)
      BY <1>9, <3>3, <3>4 DEF BlocksOK, Marks
    <3>8. /\ RemoveControlFlowFlag => \A b \in Block : b \in m'.block \/ Gone(m', succ, b) \/ (UnconditionalBranch(b) /\ Leaves(b))
          /\ \A b \in Block : Gone(m', succ, b) => RemoveControlFlowFlag /\ Leaves(b)
      BY <1>9, <3>3, <3>4 DEF BlocksOK
    <3> QED
      BY <3>3, <3>5, <3>6, <3>7, <3>8 DEF BlocksOK
  <2> QED
    BY <2>1, <2>2, <2>3
<1>12. RemoveControlFlowFlag => NoCircle(m'.block)
  BY <1>1, <1>4, <1>9, <1>11, NoCircleMore DEF StepInv
<1> QED
  BY <1>1, <1>11, <1>12, CarrySteps

\* What the blocks of B depend on directly is in the frontier.
LEMMA FrontierHolds ==
    ASSUME function \in Function, NEW B \in SUBSET Block, NEW dead \in SUBSET Block
    PROVE  dead \cap UNION { Controls(b) : b \in B } \subseteq ReverseIDF(B, dead)
<1> DEFINE n == Cardinality(dead)
           T == SUBSET Block
           Step(X) == X \cup (dead \cap UNION { Controls(b) : b \in X })
           F == [X \in T |-> Step(X)]
           Is(f) == f = [d \in 0..n |-> IF d = 0 THEN B ELSE Step(f[d - 1])]
           R == CHOOSE f : Is(f)
<1>1. n \in Nat
  <2>1. function.n \in Nat
    BY FunctionFacts
  <2>2. IsFiniteSet(1..function.n)
    BY <2>1, FS_Interval
  <2> QED
    BY <2>2, FS_Subset, FS_CardinalityType DEF Block
<1>2. F \in [T -> T]
  OBVIOUS
<1> HIDE DEF n
<1>3. PICK f : Iterates(n, F, B, f) /\ \A d \in 0..n : f[d] \in T
  <2> HIDE DEF F, T
  <2>1. B \in T
    BY DEF T
  <2> QED BY <1>1, <1>2, <2>1, IterateExists
<1>4. Is(f)
  <2>1. \A d \in 0..n : d # 0 => F[f[d - 1]] = Step(f[d - 1])
    <3> SUFFICES ASSUME NEW d \in 0..n, d # 0 PROVE F[f[d - 1]] = Step(f[d - 1])
      OBVIOUS
    <3>1. d - 1 \in 0..n
      BY <1>1
    <3> QED BY <1>3, <3>1
  <2> HIDE DEF F, Step
  <2> QED BY <1>3, <2>1 DEF Iterates
<1>5. Is(R)
  BY <1>4
<1>6. ReverseIDF(B, dead) = dead \cap UNION { Controls(b) : b \in R[n] }
  BY DEF ReverseIDF, n
<1> HIDE DEF R
<1>7. R[0] = B /\ \A d \in 1..n : R[d] = Step(R[d - 1])
  <2>1. \A d \in 0..n : R[d] = IF d = 0 THEN B ELSE Step(R[d - 1])
    BY <1>5
  <2>2. 0 \in 0..n /\ \A d \in 1..n : d \in 0..n /\ d # 0
    BY <1>1
  <2> QED BY <2>1, <2>2
<1>8. B \subseteq R[n]
  <2> DEFINE P == { d \in 0..n : B \subseteq R[d] }
  <2>1. 0 \in P
    BY <1>1, <1>7
  <2>2. \A d \in 1..n : d - 1 \in P => d \in P
    <3> SUFFICES ASSUME NEW d \in 1..n, d - 1 \in P PROVE d \in 0..n /\ B \subseteq R[d]
      OBVIOUS
    <3>1. R[d - 1] \subseteq R[d]
      BY <1>7
    <3> QED BY <1>1, <3>1
  <2>3. n \in 0..n
    BY <1>1
  <2>4. \A d \in 0..n : d \in P
    <3> HIDE DEF P
    <3> QED BY <1>1, <2>1, <2>2, UpTo
  <2> QED BY <2>3, <2>4
<1> QED
  BY <1>6, <1>8

LEMMA StepsControl == IInv /\ IInv' /\ StepInv /\ markLiveBranchesFromControlDependences => StepInv'
<1> SUFFICES ASSUME IInv, IInv', StepInv, markLiveBranchesFromControlDependences PROVE StepInv'
  OBVIOUS
<1> DEFINE dead == m.BlocksWithDeadTerminators
           taken == [m EXCEPT !.NewLiveBlocks = {}]
           J == ReverseIDF(m.NewLiveBlocks, dead)
           I == { Terminator(b) : b \in J }
           s == markLive(taken, I)
<1>1. /\ pc = "mark" /\ m.Worklist = {}
      /\ m' = (IF dead = {} THEN m ELSE s)
      /\ pc' = IF dead # {} /\ s.Worklist # {} THEN "mark" ELSE "dead regions"
      /\ UNCHANGED << function, PDT, RemoveControlFlowFlag, succ >>
  BY DEF markLiveBranchesFromControlDependences, code, search
<1>2. /\ taken.live = m.live /\ taken.Worklist = m.Worklist
      /\ taken.block = m.block /\ taken.cf = m.cf /\ taken.phis = m.phis
      /\ taken.NewLiveBlocks = {}
      /\ taken.BlocksWithDeadTerminators = m.BlocksWithDeadTerminators
      /\ DOMAIN taken = DOMAIN m /\ taken = [f \in DOMAIN taken |-> taken[f]]
  BY DEF IInv, IsMarks
<1> HIDE DEF taken
<1>3. IsMarks(taken)
  BY <1>2 DEF IInv, IsMarks
<1>4. dead \subseteq Block /\ m.NewLiveBlocks \subseteq Block /\ succ = function.succ
  BY <1>1 DEF IInv, IsMarks, BranchesOK
<1>5. J \subseteq dead /\ dead \cap UNION { Controls(b) : b \in m.NewLiveBlocks } \subseteq J
  <2>1. J \subseteq dead
    BY DEF ReverseIDF
  <2> HIDE DEF dead, J
  <2>2. dead \cap UNION { Controls(b) : b \in m.NewLiveBlocks } \subseteq ReverseIDF(m.NewLiveBlocks, dead)
    BY <1>4, FrontierHolds DEF IInv
  <2> QED BY <2>1, <2>2 DEF J
<1>6. I \subseteq Everything
  <2> HIDE DEF J, dead
  <2> QED BY <1>4, <1>5, FunctionFacts DEF IInv
<1> HIDE DEF J, dead
<1>7. BlocksOK("mark", m, succ, m.Worklist)
  BY <1>1 DEF StepInv
<1>8. CASE dead = {}
  <2>1. m' = m /\ pc' = "dead regions"
    BY <1>1, <1>8
  <2>2. \A c : ~Gone(m, succ, c)
    BY <1>4, <1>8 DEF Gone, dead
  <2>3. BlocksOK(pc', m', succ', m'.Worklist)
    BY <1>1, <1>7, <2>1, <2>2 DEF BlocksOK, Marks
  <2> QED
    BY <1>1, <2>1, <2>3, CarrySteps DEF StepInv
<1>9. CASE dead # {}
  <2> DEFINE r == markLive(taken, I)
  <2>1. m' = r /\ pc' = IF r.Worklist # {} THEN "mark" ELSE "dead regions"
    BY <1>1, <1>9
  <2> HIDE DEF I
  <2>2. /\ m.live \cup I \subseteq r.live /\ m.block \subseteq r.block /\ m.cf \subseteq r.cf
        /\ r.phis = m.phis
        /\ r.live \ m.live \subseteq r.Worklist
        /\ r.block \ m.block \subseteq r.cf /\ r.cf \ m.cf \subseteq r.NewLiveBlocks
        /\ \A i \in r.live \ m.live : i[1] \in r.block
        /\ r.BlocksWithDeadTerminators \subseteq dead
        /\ dead \ r.BlocksWithDeadTerminators \subseteq r.block
        /\ r.Worklist = {} => r.cf = m.cf
    BY <1>2, <1>3, <1>6, MarkBlocks DEF IInv, dead
  <2> HIDE DEF r
  <2>3. \A b \in r.BlocksWithDeadTerminators : Terminator(b) \notin r.live
    <3>1. BranchesOK(pc, m, succ)' /\ (\A b : Terminator(b)' = Terminator(b))
      BY DEF IInv, Terminator
    <3> QED
      BY <2>1, <3>1 DEF BranchesOK
  <2>4. \A c : Gone(r, succ, c) => c \in dead /\ c \notin J
    <3> SUFFICES ASSUME NEW c, c \in r.BlocksWithDeadTerminators, c \in J PROVE FALSE
      BY <1>4, <2>2 DEF Gone
    <3>1. Terminator(c) \in r.live
      BY <2>2 DEF I
    <3> QED
      BY <2>3, <3>1
  <2>5. ASSUME NEW b \in m.cf, NEW c \in Controls(b), Gone(r, succ, c) PROVE FALSE
    <3>1. c \in dead /\ c \notin J
      BY <2>4, <2>5
    <3>2. CASE b \in m.NewLiveBlocks
      BY <1>5, <3>1, <3>2
    <3>3. CASE b \notin m.NewLiveBlocks
      <4>1. ~Gone(m, succ, c)
        BY <1>7, <3>3 DEF BlocksOK
      <4> QED
        BY <3>1, <4>1 DEF Gone, dead
    <3> QED
      BY <3>2, <3>3
  <2>6. \A b \in r.cf : (pc' \in Marks /\ b \in r.NewLiveBlocks) \/ \A c \in Controls(b) : ~Gone(r, succ, c)
    <3> SUFFICES ASSUME NEW b \in r.cf PROVE (pc' \in Marks /\ b \in r.NewLiveBlocks) \/ b \in m.cf
      BY <2>5
    <3> QED
      BY <2>1, <2>2 DEF Marks
  <2>7. /\ r.block \subseteq r.cf \cup {1}
        /\ \A i \in r.live : i[1] \in r.block
        /\ \A b \in r.phis : Preds(function.succ, b) \subseteq r.cf
    BY <1>7, <2>2 DEF BlocksOK, Marks
  <2>8. \A i \in r.live \cap function.phi : i \in r.Worklist \/ Preds(function.succ, i[1]) \subseteq r.cf
    BY <1>1, <1>7, <2>2 DEF BlocksOK
  <2>9. /\ RemoveControlFlowFlag => \A b \in Block : b \in r.block \/ Gone(r, succ, b) \/ (UnconditionalBranch(b) /\ Leaves(b))
        /\ \A b \in Block : Gone(r, succ, b) => RemoveControlFlowFlag /\ Leaves(b)
    <3>1. \A b : Gone(r, succ, b) => Gone(m, succ, b)
      BY <2>4 DEF Gone, dead
    <3>2. \A b : Gone(m, succ, b) => Gone(r, succ, b) \/ b \in r.block
      BY <1>4, <2>2 DEF Gone, dead
    <3> QED
      BY <1>7, <2>2, <3>1, <3>2 DEF BlocksOK
  <2>10. pc' \notin {"back edges", "entry", "roots", "done"}
    BY <2>1
  <2>11. BlocksOK(pc', r, succ, r.Worklist)
    BY <2>6, <2>7, <2>8, <2>9, <2>10 DEF BlocksOK, Marks
  <2>12. RemoveControlFlowFlag => NoCircle(r.block)
    BY <1>1, <2>2, NoCircleMore DEF StepInv
  <2> QED
    BY <1>1, <2>1, <2>10, <2>11, <2>12, CarrySteps
<1> QED
  BY <1>8, <1>9

LEMMA StepsNumbering ==
    IInv /\ StepInv /\ (computeReversePostOrder \/ number_next \/ number_end) => StepInv'
<1> SUFFICES ASSUME IInv, StepInv, computeReversePostOrder \/ number_next \/ number_end PROVE StepInv'
  OBVIOUS
<1>1. /\ pc \in {"dead regions", "number"} /\ pc' \in {"number", "rewire"}
      /\ UNCHANGED << function, PDT, RemoveControlFlowFlag, succ, m >>
  BY DEF computeReversePostOrder, number_next, number_end, code
<1>2. BlocksOK(pc', m', succ', m'.Worklist)
  BY <1>1 DEF StepInv, BlocksOK, Marks
<1> QED
  BY <1>1, <1>2, CarrySteps DEF StepInv

LEMMA StepsRegions == IInv /\ StepInv /\ updateDeadRegions => StepInv'
<1> SUFFICES ASSUME IInv, StepInv, updateDeadRegions PROVE StepInv'
  OBVIOUS
<1>1. /\ pc \in {"rewire", "dead regions"}
      /\ UNCHANGED << function, PDT, RemoveControlFlowFlag, pc >>
  BY DEF updateDeadRegions, search
<1>2. PICK b \in m.BlocksWithDeadTerminators :
          /\ succ' = IF UnconditionalBranch(b) THEN succ ELSE [succ EXCEPT ![b] = << PreferredSucc(b) >>]
          /\ m' = [m EXCEPT !.live = @ \cup {Terminator(b)},
                            !.BlocksWithDeadTerminators = @ \ {b},
                            !.AliveScopes = IF UnconditionalBranch(b) THEN @ ELSE @ \cup Scopes(Terminator(b))]
  BY DEF updateDeadRegions
<1>3. /\ m'.live = m.live \cup {Terminator(b)} /\ m'.Worklist = m.Worklist
      /\ m'.block = m.block /\ m'.cf = m.cf /\ m'.phis = m.phis
      /\ m'.NewLiveBlocks = m.NewLiveBlocks
      /\ m'.BlocksWithDeadTerminators = m.BlocksWithDeadTerminators \ {b}
  BY <1>2 DEF IInv, IsMarks
<1>4. b \in Block /\ succ[b] = function.succ[b] /\ function.term[b] = "br" /\ succ \in [Block -> Seq(Block)]
  BY <1>2 DEF IInv, IsMarks, BranchesOK, GraphOK
<1>5. BlocksOK(pc, m, succ, m.Worklist)
  BY DEF StepInv
<1>6. \A c \in Block : c # b => succ'[c] = succ[c]
  BY <1>2, <1>4
<1>7. UnconditionalBranch(b) \/ succ'[b] # function.succ[b]
  <2> SUFFICES ASSUME ~UnconditionalBranch(b) PROVE succ'[b] # function.succ[b]
    OBVIOUS
  <2>1. Len(function.succ[b]) # 1
    BY <1>4 DEF UnconditionalBranch
  <2>2. succ'[b] = << PreferredSucc(b) >>
    BY <1>2, <1>4
  <2> QED
    BY <2>1, <2>2
<1>8. \A c \in Block : Gone(m', succ', c) => Gone(m, succ, c)
  BY <1>2, <1>3, <1>6 DEF Gone
<1>9. \A c \in Block : Gone(m, succ, c) => Gone(m', succ', c) \/ (UnconditionalBranch(c) /\ Leaves(c))
  <2>1. Leaves(b)
    BY <1>2, <1>4, <1>5 DEF BlocksOK, Gone
  <2> QED
    BY <1>3, <1>6, <1>7, <2>1 DEF Gone
<1>10. \A c : Controls(c) \subseteq Block
  BY DEF Controls
<1>11. \A i \in m'.live : i[1] \in m'.block \/ IsTerminator(i)
  BY <1>3, <1>4, <1>5, FunctionFacts DEF BlocksOK, IInv
<1>12. \A i \in m'.live \cap function.phi : i \in m'.Worklist \/ Preds(function.succ, i[1]) \subseteq m'.cf
  <2>1. Terminator(b) \notin function.phi
    <3>1. function.phi \subseteq function.inst /\ Terminator(b)[2] = 0
      BY FunctionAssumption DEF IInv, Terminator
    <3>2. function.inst \subseteq Block \X (Nat \ {0})
      BY FunctionAssumption DEF IInv, Block
    <3> QED
      BY <3>1, <3>2
  <2> QED
    BY <1>3, <1>5, <2>1 DEF BlocksOK
<1>13. BlocksOK(pc', m', succ', m'.Worklist)
  <2>1. /\ m'.block \subseteq m'.cf \cup {1}
        /\ \A c \in m'.phis : Preds(function.succ, c) \subseteq m'.cf
    BY <1>3, <1>5 DEF BlocksOK
  <2>2. \A c \in m'.cf : \A e \in Controls(c) : ~Gone(m', succ', e)
    BY <1>1, <1>3, <1>5, <1>8, <1>10 DEF BlocksOK, Marks
  <2>3. RemoveControlFlowFlag => \A c \in Block : c \in m'.block \/ Gone(m', succ', c) \/ (UnconditionalBranch(c) /\ Leaves(c))
    BY <1>1, <1>3, <1>5, <1>9 DEF BlocksOK
  <2>4. \A c \in Block : Gone(m', succ', c) => RemoveControlFlowFlag /\ Leaves(c)
    BY <1>5, <1>8 DEF BlocksOK
  <2>5. pc' \notin Marks /\ pc' # "done"
    BY <1>1 DEF Marks
  <2> QED
    BY <1>11, <1>12, <2>1, <2>2, <2>3, <2>4, <2>5 DEF BlocksOK, Marks
<1>14. RemoveControlFlowFlag => NoCircle(m'.block)
  BY <1>1, <1>3 DEF StepInv
<1> QED
  BY <1>1, <1>13, <1>14, CarrySteps

LEMMA StepsRemove == IInv /\ StepInv /\ removeDeadInstructions => StepInv'
<1> SUFFICES ASSUME IInv, StepInv, removeDeadInstructions PROVE StepInv'
  OBVIOUS
<1>1. /\ pc \in {"rewire", "dead regions"} /\ pc' = "done" /\ m.BlocksWithDeadTerminators = {}
      /\ UNCHANGED << function, PDT, RemoveControlFlowFlag, succ, m >>
  BY DEF removeDeadInstructions, search
<1>2. BlocksOK(pc', m', succ', m'.Worklist)
  BY <1>1 DEF StepInv, BlocksOK, Marks
<1> QED
  BY <1>1, <1>2, CarrySteps DEF StepInv

LEMMA StepsStep == IInv /\ IInv' /\ PathInv /\ StepInv /\ [Next]_vars => StepInv'
<1> SUFFICES ASSUME IInv, IInv', PathInv, StepInv, [Next]_vars PROVE StepInv'
  OBVIOUS
<1>1. CASE UNCHANGED vars
  BY <1>1, CarrySteps DEF StepInv, vars
<1>2. CASE Done
  BY <1>2, CarrySteps DEF StepInv, vars, Done
<1> QED
  BY <1>1, <1>2, StepsRoots, StepsLoops, StepsEndless, StepsEntry, StepsMark, StepsControl,
     StepsNumbering, StepsRegions, StepsRemove DEF Next

LEMMA StepsHold == Spec => [](IInv /\ PathInv /\ StepInv)
<1>1. IInv /\ PathInv /\ StepInv /\ [Next]_vars => (IInv /\ PathInv /\ StepInv)'
  BY InvStep, PathsStep, StepsStep
<1>2. Init => IInv /\ PathInv /\ StepInv
  BY InvInit, PathsInit, StepsInit
<1> QED
  BY <1>1, <1>2, PTL DEF Spec

-----------------------------------------------------------------------------
(* The graph that is left.                                                 *)

\* What is on every way from b, and is not b, is on every way from a successor.
LEMMA OnWayOfTarget ==
    ASSUME function \in Function, NEW roots, NEW a \in Block, NEW b \in Block, OnEveryWay(roots, a, b), a # b,
           NEW t \in Targets(function.succ, b)
    PROVE  OnEveryWay(roots, a, t)
<1> SUFFICES ASSUME a # t PROVE OnEveryWay(roots, a, t)
  BY DEF OnEveryWay
<1> DEFINE P == Reach(function.succ, {b}, {a})
<1>1. P \cap roots = {}
  BY DEF OnEveryWay
<1>2. b \in P /\ \A x \in P : Targets(function.succ, x) \ {a} \subseteq P
  BY ReachFrom
<1> HIDE DEF P
<1>3. t \in Block
  BY FunctionFacts
<1>4. {t} \ {a} \subseteq P
  BY <1>2
<1>5. Reach(function.succ, {t}, {a}) \subseteq P
  BY <1>2, <1>3, <1>4, ReachOnly
<1> QED
  BY <1>1, <1>5 DEF OnEveryWay

\* The other way round.
LEMMA OnWayOfAll ==
    ASSUME function \in Function, NEW roots, NEW a \in Block, NEW b \in Block, b \notin roots,
           \A t \in Targets(function.succ, b) : OnEveryWay(roots, a, t)
    PROVE  OnEveryWay(roots, a, b)
<1> SUFFICES ASSUME a # b PROVE Reach(function.succ, {b}, {a}) \cap roots = {}
  BY DEF OnEveryWay
<1> DEFINE From(t) == Reach(function.succ, {t}, {a})
           T == Targets(function.succ, b) \ {a}
           C == {b} \cup UNION { From(t) : t \in T }
<1>1. T \subseteq Block
  BY FunctionFacts
<1>2. \A t \in T : From(t) \cap roots = {}
  BY DEF OnEveryWay
<1>3. \A t \in T : t \in From(t) /\ \A x \in From(t) : Targets(function.succ, x) \ {a} \subseteq From(t)
  <2> SUFFICES ASSUME NEW t \in T
               PROVE  t \in From(t) /\ \A x \in From(t) : Targets(function.succ, x) \ {a} \subseteq From(t)
    OBVIOUS
  <2>1. t \in Block /\ t # a
    BY <1>1
  <2> QED
    BY <2>1, ReachFrom
<1> HIDE DEF From
<1>4. {b} \ {a} \subseteq C /\ \A x \in C : Targets(function.succ, x) \ {a} \subseteq C
  BY <1>3
<1>5. C \cap roots = {}
  BY <1>2
<1> HIDE DEF C
<1>6. Reach(function.succ, {b}, {a}) \subseteq C
  BY <1>4, ReachOnly
<1> QED
  BY <1>5, <1>6

\* Nothing leads back to the entry.
LEMMA EntryOnNoWay ==
    ASSUME function \in Function, NEW roots \in Roots, NEW b \in Block, b # 1
    PROVE  ~OnEveryWay(roots, 1, b)
<1> SUFFICES ASSUME OnEveryWay(roots, 1, b) PROVE FALSE
  OBVIOUS
<1> DEFINE C == Block \ {1}
<1>1. {b} \ {} \subseteq C /\ \A x \in C : Targets(function.succ, x) \ {} \subseteq C
  BY FunctionFacts
<1>2. 1 \in Block
  BY FunctionFacts
<1> HIDE DEF C
<1>3. Reach(function.succ, {b}, {}) \subseteq C
  BY <1>1, ReachOnly
<1>4. 1 \in Reach(function.succ, {b}, {})
  BY <1>2, OnTheWay
<1> QED
  BY <1>3, <1>4 DEF C

\* Where control may be told to come; the blocks control can come to; the block
\* has a phi that is kept.
Alive == m.cf \cup {1}
Reached == Reach(function.succ, {1}, {})
Asked(x) == \E i \in function.phi \cap present : i[1] = x

\* What is left when the pass is done.
Settled(ord) ==
    /\ function \in Function /\ Alive \subseteq Block
    /\ succ \in [Block -> Seq(Block)]
    /\ \A b \in Block : Targets(succ, b) \subseteq Targets(function.succ, b)
    /\ \A b \in Block : Visible(b) => b \in Alive
    /\ \A b \in Block : ~Leaves(b) => b \in Alive /\ ~Rewired(b)
    /\ \A x \in Block : Asked(x) => Preds(function.succ, x) \subseteq Alive
    /\ \A b \in Block : ~Visible(b) =>
          Targets(succ, b) # {} /\ (Rewired(b) \/ \E t : Targets(function.succ, b) = {t})
    /\ \A b \in Block : Rewired(b) => \A k \in m.cf : b \notin Controls(k)
    /\ ord \in [Block -> 0..function.n]
    /\ \A b \in Reached : b \in Alive \/ \A t \in Targets(function.succ, b) : ord[t] < ord[b]

LEMMA DoneSettled ==
    ASSUME IInv, PathInv, StepInv, pc = "done", RemoveControlFlowFlag
    PROVE  \E ord : Settled(ord)
<1>1. /\ function \in Function /\ succ \in [Block -> Seq(Block)]
      /\ \A b \in Block : Targets(succ, b) \subseteq Targets(function.succ, b)
  BY DEF IInv, GraphOK
<1>2. BlocksOK("done", m, succ, m.Worklist) /\ m.Worklist = {} /\ m.live \subseteq present /\ present \ function.debug \subseteq m.live
  BY DEF StepInv, IInv, PhasesOK
<1>3. /\ m.BlocksWithDeadTerminators = {}
      /\ m.block \subseteq Alive
      /\ \A i \in m.live : i[1] \in m.block \/ IsTerminator(i)
      /\ \A i \in m.live \cap function.phi : Preds(function.succ, i[1]) \subseteq m.cf
      /\ \A b \in m.cf : \A c \in Controls(b) : ~Gone(m, succ, c)
      /\ \A b \in Block : b \in m.block \/ Gone(m, succ, b) \/ (UnconditionalBranch(b) /\ Leaves(b))
      /\ \A b \in Block : Gone(m, succ, b) => Leaves(b)
  BY <1>2 DEF BlocksOK, Marks, Alive
<1>4. \A b : Gone(m, succ, b) <=> Rewired(b)
  BY <1>3 DEF Gone, Rewired
<1>5. Alive \subseteq Block
  BY FunctionFacts DEF IInv, IsMarks, Alive
<1>6. ASSUME NEW b \in Block, Visible(b) PROVE b \in Alive
  <2>1. CASE \E i \in present \ function.debug : i[1] = b /\ ~IsTerminator(i)
    BY <1>2, <1>3, <2>1
  <2>2. CASE ~Rewired(b) /\ ~UnconditionalBranch(b)
    BY <1>3, <1>4, <2>2
  <2> QED
    BY <1>6, <2>1, <2>2 DEF Visible
<1>7. ASSUME NEW b \in Block, ~Leaves(b) PROVE b \in Alive /\ ~Rewired(b)
  BY <1>3, <1>4, <1>7
<1>8. ASSUME NEW x \in Block, Asked(x) PROVE Preds(function.succ, x) \subseteq Alive
  <2>1. PICK i \in function.phi \cap present : i[1] = x
    BY <1>8 DEF Asked
  <2>2. i \notin function.debug
    BY <2>1, FunctionFacts DEF IInv
  <2>3. i \in m.live
    BY <1>2, <2>2
  <2> QED
    BY <1>3, <2>1, <2>3 DEF Alive
<1>9. \A b \in Block : /\ succ[b] = << >> <=> function.succ[b] = << >>
                       /\ succ[b] # << >> => Targets(succ, b) # {}
  <2>1. succ = function.succ \/ EndsOf(succ) = EndsOf(function.succ)
    BY DEF PathInv, PathsOK, NumbersOK
  <2>2. DOMAIN succ = Block /\ DOMAIN function.succ = Block
    BY <1>1, FunctionFacts
  <2>3. \A b \in Block : succ[b] = << >> <=> function.succ[b] = << >>
    BY <2>1, <2>2 DEF EndsOf
  <2>4. \A b \in Block : succ[b] # << >> => Targets(succ, b) # {}
    <3> SUFFICES ASSUME NEW b \in Block, succ[b] # << >> PROVE Targets(succ, b) # {}
      OBVIOUS
    <3>1. succ[b] \in Seq(Block)
      BY <1>1
    <3>2. Len(succ[b]) \in Nat \ {0}
      BY <3>1, LastAndFront
    <3>3. succ[b][1] \in Targets(succ, b)
      BY <3>2 DEF Targets
    <3> QED BY <3>3
  <2> QED
    BY <2>3, <2>4
<1>10. ASSUME NEW b \in Block, ~Visible(b)
       PROVE  Targets(succ, b) # {} /\ (Rewired(b) \/ \E t : Targets(function.succ, b) = {t})
  <2>1. Rewired(b) \/ UnconditionalBranch(b)
    BY <1>10 DEF Visible
  <2>2. UnconditionalBranch(b) => function.succ[b] # << >> /\ \E t : Targets(function.succ, b) = {t}
    <3> SUFFICES ASSUME Len(function.succ[b]) = 1
                 PROVE  function.succ[b] # << >> /\ \E t : Targets(function.succ, b) = {t}
      BY DEF UnconditionalBranch
    <3>1. Targets(function.succ, b) = {function.succ[b][1]}
      <4>1. 1..1 = {1}
        OBVIOUS
      <4> QED BY <4>1 DEF Targets
    <3>2. Len(<< >>) # 1
      OBVIOUS
    <3>3. function.succ[b] # << >>
      BY <3>2
    <3> QED BY <3>1, <3>3
  <2>3. succ[b] # << >>
    BY <1>9, <2>1, <2>2 DEF Rewired
  <2> QED
    BY <1>9, <2>1, <2>2, <2>3
<1>11. \A b \in Block : Rewired(b) => \A k \in m.cf : b \notin Controls(k)
  BY <1>3, <1>4
<1>12. PICK ord \in [Block -> 0..function.n] : \A b \in Reached :
          b \in m.block \/ \A t \in Targets(function.succ, b) : ord[t] < ord[b]
  BY DEF StepInv, NoCircle, Reached
<1>13. \A b \in Reached : b \in Alive \/ \A t \in Targets(function.succ, b) : ord[t] < ord[b]
  BY <1>3, <1>12
<1> QED
  BY <1>1, <1>5, <1>6, <1>7, <1>8, <1>10, <1>11, <1>12, <1>13 DEF Settled

\* The nearest block on every way from b where control may be told to come.
Nearest(roots, b, v) ==
    /\ v \in Alive /\ OnEveryWay(roots, v, b)
    /\ \A w \in Alive : OnEveryWay(roots, w, b) => OnEveryWay(roots, w, v)

LEMMA NearestOfAlive ==
    ASSUME NEW roots, NEW b \in Alive
    PROVE  Nearest(roots, b, b)
  BY DEF Nearest, OnEveryWay

LEMMA NearestIsOne ==
    ASSUME NEW ord, Settled(ord), NEW roots \in Roots, NEW b \in Block,
           NEW v, Nearest(roots, b, v), NEW w, Nearest(roots, b, w)
    PROVE  v = w
<1>1. v \in Block /\ w \in Block /\ function \in Function
  BY DEF Nearest, Settled
<1>2. OnEveryWay(roots, w, v) /\ OnEveryWay(roots, v, w)
  BY DEF Nearest
<1> QED
  BY <1>1, <1>2, OnEveryWayAntisym

\* A root is a place where control may be told to come.
LEMMA RootsAlive ==
    ASSUME NEW ord, Settled(ord), NEW roots \in Roots, NEW b \in roots
    PROVE  b \in Alive
<1> DEFINE From(x) == Reach(function.succ, {x}, {})
           endless == { x \in Block : From(x) \cap EndsOf(function.succ) = {} }
<1>1. b \in EndsOf(function.succ) \/ b \in endless
  BY DEF Roots
<1>2. CASE b \in endless
  BY <1>2 DEF Settled, Leaves
<1>3. CASE b \in EndsOf(function.succ)
  <2>1. b \in Block /\ function.succ[b] = << >>
    BY <1>3, FunctionFacts DEF EndsOf, Settled
  <2>2. Targets(function.succ, b) = {}
    <3>1. 1..Len(<< >>) = {}
      OBVIOUS
    <3> QED BY <2>1, <3>1 DEF Targets
  <2> QED
    BY <2>1, <2>2 DEF Settled
<1> QED
  BY <1>1, <1>2, <1>3

\* From a block where control is not told to have come, control comes to the
\* same place whatever the branch decides.
LEMMA TargetsMeet ==
    ASSUME NEW ord, Settled(ord), NEW roots \in Roots, PDT = PostDominators(roots),
           NEW b \in Block, ~Visible(b),
           NEW t \in Targets(function.succ, b), NEW v, Nearest(roots, t, v),
           NEW u \in Targets(function.succ, b), NEW w, Nearest(roots, u, w)
    PROVE  v = w
<1>0. function \in Function /\ t \in Block /\ u \in Block /\ t # 1 /\ u # 1 /\ Alive \subseteq Block
  BY FunctionFacts DEF Settled
<1>1. CASE \E x : Targets(function.succ, b) = {x}
  <2>1. t = u
    BY <1>1
  <2> QED
    BY <1>0, <2>1, NearestIsOne
<1>2. CASE Rewired(b)
  <2>1. \A x \in Block : PDT[x] = {x, Exit} \cup { a \in Block : Reach(function.succ, {x}, {a}) \cap roots = {} }
    BY DEF PostDominators
  <2>2. ASSUME NEW x \in Targets(function.succ, b), NEW k, Nearest(roots, x, k),
               NEW y \in Targets(function.succ, b)
        PROVE  OnEveryWay(roots, k, y)
    <3>1. x \in Block /\ x # 1 /\ y \in Block
      BY <1>0, FunctionFacts
    <3>2. k \in Block /\ OnEveryWay(roots, k, x)
      BY <1>0, <2>2 DEF Nearest
    <3>3. k # 1
      BY <1>0, <3>1, <3>2, EntryOnNoWay
    <3>4. k \in m.cf
      BY <2>2, <3>3 DEF Nearest, Alive
    <3>5. b \notin Controls(k)
      BY <1>2, <3>4 DEF Settled
    <3>6. k \in PDT[x]
      BY <2>1, <3>1, <3>2 DEF OnEveryWay
    <3>7. k # b /\ k \in PDT[b]
      BY <3>5, <3>6 DEF Controls
    <3>8. OnEveryWay(roots, k, b)
      <4>1. k # Exit
        BY <3>2 DEF Block, Exit
      <4> QED
        BY <2>1, <3>7, <4>1 DEF OnEveryWay
    <3> QED
      BY <1>0, <3>2, <3>7, <3>8, OnWayOfTarget
  <2>3. OnEveryWay(roots, v, u) /\ OnEveryWay(roots, w, t)
    BY <2>2
  <2>4. v \in Alive /\ w \in Alive
    BY DEF Nearest
  <2>5. OnEveryWay(roots, v, w) /\ OnEveryWay(roots, w, v)
    BY <2>3, <2>4 DEF Nearest
  <2> QED
    BY <1>0, <2>4, <2>5, OnEveryWayAntisym
<1> QED
  BY <1>1, <1>2 DEF Settled

LEMMA ReachedClosed ==
    ASSUME function \in Function
    PROVE  /\ 1 \in Reached /\ Reached \subseteq Block
           /\ \A b \in Reached : Targets(function.succ, b) \subseteq Reached
<1>1. 1 \in Block
  BY FunctionFacts
<1> QED
  BY <1>1, ReachFrom DEF Reached

\* Every block has a nearest one, and if it is another there is no phi there to
\* ask where control comes from.
LEMMA NearestExists ==
    ASSUME NEW ord, Settled(ord), NEW roots \in Roots, PDT = PostDominators(roots)
    PROVE  \A b \in Reached : \E v : Nearest(roots, b, v) /\ (b \in Alive \/ ~Asked(v))
<1> DEFINE Good(b) == \E v : Nearest(roots, b, v) /\ (b \in Alive \/ ~Asked(v))
           bad == { b \in Reached : ~Good(b) }
           numbers == { ord[b] : b \in bad }
<1> SUFFICES ASSUME bad # {} PROVE FALSE
  OBVIOUS
<1>0. /\ function \in Function /\ function.n \in Nat /\ Alive \subseteq Block
      /\ Reached \subseteq Block /\ \A b \in Reached : Targets(function.succ, b) \subseteq Reached
  BY FunctionFacts, ReachedClosed DEF Settled
<1>1. \A b \in Reached : ord[b] \in Nat
  BY <1>0 DEF Settled
<1>2. numbers \subseteq Nat /\ numbers # {}
  BY <1>1
<1>3. PICK b \in bad : \A c \in bad : ord[b] <= ord[c]
  <2> HIDE DEF bad
  <2>1. PICK x \in numbers : \A y \in numbers : x <= y
    <3> HIDE DEF numbers
    <3> QED BY <1>2, LeastOf
  <2> QED BY <2>1
<1>4. b \in Reached /\ b \in Block /\ ~Good(b)
  BY <1>0
<1>5. b \notin Alive
  BY <1>4, NearestOfAlive
<1>6. /\ ~Visible(b) /\ b \notin roots
      /\ \A t \in Targets(function.succ, b) : t \in Reached /\ ord[t] < ord[b]
  BY <1>0, <1>4, <1>5, RootsAlive DEF Settled
<1>7. \A t \in Targets(function.succ, b) : Good(t)
  BY <1>1, <1>3, <1>4, <1>6
<1> HIDE DEF bad
<1>8. PICK t \in Targets(function.succ, b) : TRUE
  BY <1>4, <1>6 DEF Settled
<1>9. PICK v : Nearest(roots, t, v) /\ (t \in Alive \/ ~Asked(v))
  BY <1>7
<1>10. v \in Alive /\ v \in Block /\ v # b
  BY <1>0, <1>5, <1>9 DEF Nearest
<1>11. OnEveryWay(roots, v, b)
  <2>1. ASSUME NEW u \in Targets(function.succ, b) PROVE OnEveryWay(roots, v, u)
    <3>1. PICK w : Nearest(roots, u, w)
      BY <1>7
    <3>2. v = w
      BY <1>4, <1>6, <1>9, <3>1, TargetsMeet
    <3> QED
      BY <3>1, <3>2 DEF Nearest
  <2> QED
    BY <1>0, <1>4, <1>6, <1>10, <2>1, OnWayOfAll
<1>12. ASSUME NEW w \in Alive, OnEveryWay(roots, w, b) PROVE OnEveryWay(roots, w, v)
  <2>1. w # b /\ w \in Block
    BY <1>0, <1>5
  <2>2. OnEveryWay(roots, w, t)
    BY <1>0, <1>4, <1>12, <2>1, OnWayOfTarget
  <2> QED
    BY <1>9, <2>2 DEF Nearest
<1>13. ~Asked(v)
  <2> SUFFICES ASSUME Asked(v), t \in Alive PROVE FALSE
    BY <1>9
  <2>1. v = t
    BY <1>0, <1>6, <1>9, NearestOfAlive, NearestIsOne
  <2>2. b \in Preds(function.succ, v)
    <3>1. DOMAIN function.succ = Block
      BY <1>0, FunctionFacts
    <3> QED BY <1>4, <2>1, <3>1 DEF Preds
  <2> QED
    BY <1>5, <1>10, <2>2 DEF Settled
<1>14. Nearest(roots, b, v)
  BY <1>10, <1>11, <1>12 DEF Nearest
<1> QED
  BY <1>4, <1>13, <1>14

\* What is on every way from b leaves if b does, and the other way round.
LEMMA LeavesBy ==
    ASSUME function \in Function, NEW roots \in Roots, NEW a \in Block, NEW b \in Block, OnEveryWay(roots, a, b)
    PROVE  Leaves(a) <=> Leaves(b)
<1> DEFINE From(x) == Reach(function.succ, {x}, {})
           P == Reach(function.succ, {b}, {a})
           ends == EndsOf(function.succ)
<1>0. ends \subseteq roots
  BY DEF Roots
<1>1. CASE a = b
  BY <1>1
<1>2. CASE a # b
  <2>1. P \cap roots = {}
    BY <1>2 DEF OnEveryWay
  <2>2. b \in P /\ \A x \in P : Targets(function.succ, x) \ {a} \subseteq P
    BY <1>2, ReachFrom
  <2>3. a \in From(a) /\ \A x \in From(a) : Targets(function.succ, x) \ {} \subseteq From(a)
    BY ReachFrom
  <2>4. \A x \in From(b) : Targets(function.succ, x) \ {} \subseteq From(b)
    BY ReachFrom
  <2>5. a \in From(b)
    BY OnTheWay
  <2> HIDE DEF From, P, ends
  <2>6. From(a) \subseteq From(b)
    <3> DEFINE C == From(b)
    <3>1. {a} \ {} \subseteq C /\ \A x \in C : Targets(function.succ, x) \ {} \subseteq C
      BY <2>4, <2>5
    <3> HIDE DEF C
    <3>2. From(a) \subseteq C
      BY <3>1, ReachOnly DEF From
    <3> QED BY <3>2 DEF C
  <2>7. From(b) \subseteq P \cup From(a)
    <3> DEFINE C == P \cup From(a)
    <3>1. {b} \ {} \subseteq C /\ \A x \in C : Targets(function.succ, x) \ {} \subseteq C
      BY <2>2, <2>3
    <3> HIDE DEF C
    <3>2. From(b) \subseteq C
      BY <3>1, ReachOnly DEF From
    <3> QED BY <3>2 DEF C
  <2>8. From(a) \cap ends = {} <=> From(b) \cap ends = {}
    BY <1>0, <2>1, <2>6, <2>7
  <2> QED
    BY <2>8 DEF Leaves, From, ends
<1> QED
  BY <1>1, <1>2

\* A block that is no root is not on every way from its successors.
LEMMA NotBackToItself ==
    ASSUME function \in Function, NEW roots \in Roots, NEW b \in Block, b \notin roots
    PROVE  \E t \in Targets(function.succ, b) : ~OnEveryWay(roots, b, t)
<1> SUFFICES ASSUME \A t \in Targets(function.succ, b) : OnEveryWay(roots, b, t) PROVE FALSE
  OBVIOUS
<1> DEFINE From(t) == Reach(function.succ, {t}, {b})
           T == Targets(function.succ, b) \ {b}
           C == {b} \cup UNION { From(t) : t \in T }
<1>1. T \subseteq Block
  BY FunctionFacts
<1>2. \A t \in T : From(t) \cap roots = {}
  BY DEF OnEveryWay
<1>3. \A t \in T : t \in From(t) /\ \A x \in From(t) : Targets(function.succ, x) \ {b} \subseteq From(t)
  <2> SUFFICES ASSUME NEW t \in T
               PROVE  t \in From(t) /\ \A x \in From(t) : Targets(function.succ, x) \ {b} \subseteq From(t)
    OBVIOUS
  <2>1. t \in Block /\ t # b
    BY <1>1
  <2> QED
    BY <2>1, ReachFrom
<1> HIDE DEF From
<1>4. {b} \ {} \subseteq C /\ \A x \in C : Targets(function.succ, x) \ {} \subseteq C
  BY <1>3
<1>5. C \cap roots = {}
  BY <1>2
<1> HIDE DEF C
<1>6. Reach(function.succ, {b}, {}) \subseteq C
  BY <1>4, ReachOnly
<1> QED
  BY <1>5, <1>6, RootsMet

\* One of the successors of a block that leaves does, if it has any.
LEMMA LeavesOver ==
    ASSUME function \in Function, NEW b \in Block, Leaves(b), Targets(function.succ, b) # {}
    PROVE  \E t \in Targets(function.succ, b) : Leaves(t)
<1> SUFFICES ASSUME \A t \in Targets(function.succ, b) : ~Leaves(t) PROVE FALSE
  OBVIOUS
<1> DEFINE From(t) == Reach(function.succ, {t}, {})
           T == Targets(function.succ, b)
           C == {b} \cup UNION { From(t) : t \in T }
           ends == EndsOf(function.succ)
<1>1. \A t \in T : t \in From(t) /\ \A x \in From(t) : Targets(function.succ, x) \ {} \subseteq From(t)
  BY FunctionFacts, ReachFrom
<1>2. \A t \in T : From(t) \cap ends = {}
  BY DEF Leaves
<1>3. b \notin ends
  <2>1. b \in ends => T = {}
    <3>1. 1..Len(<< >>) = {}
      OBVIOUS
    <3> QED BY <3>1 DEF EndsOf, Targets
  <2> QED BY <2>1
<1>4. From(b) \cap ends # {}
  BY DEF Leaves
<1> HIDE DEF From, ends
<1>5. {b} \ {} \subseteq C /\ \A x \in C : Targets(function.succ, x) \ {} \subseteq C
  BY <1>1
<1>6. C \cap ends = {}
  BY <1>2, <1>3
<1> HIDE DEF C
<1>7. From(b) \subseteq C
  BY <1>5, ReachOnly DEF From
<1> QED
  BY <1>4, <1>6, <1>7

\* The nearest block of each.
NearestTable(roots, N) ==
    \A b \in Reached : Nearest(roots, b, N[b]) /\ (b \in Alive \/ ~Asked(N[b]))

LEMMA TableExists ==
    ASSUME NEW ord, Settled(ord), NEW roots \in Roots, PDT = PostDominators(roots)
    PROVE  \E N : NearestTable(roots, N)
<1> DEFINE N == [b \in Reached |-> CHOOSE v : Nearest(roots, b, v) /\ (b \in Alive \/ ~Asked(v))]
<1>1. NearestTable(roots, N)
  BY NearestExists DEF NearestTable
<1> QED
  BY <1>1

\* How many blocks are on every way from it; what a step goes down to.
Depth(roots, N, b) == Cardinality({ a \in Block : OnEveryWay(roots, a, N[b]) })

Lower(roots, N, ord, t, b) ==
    \/ Depth(roots, N, t) < Depth(roots, N, b)
    \/ Depth(roots, N, t) = Depth(roots, N, b) /\ ord[t] < ord[b]

LEMMA NearestOver ==
    ASSUME NEW ord, Settled(ord), NEW roots \in Roots, PDT = PostDominators(roots),
           NEW N, NearestTable(roots, N), NEW b \in Reached, ~Visible(b)
    PROVE  /\ b \in Alive => N[b] = b
           /\ \A t \in Targets(function.succ, b) : t \in Reached
           /\ \A t, u \in Targets(function.succ, b) : N[t] = N[u]
           /\ b \notin Alive => \A t \in Targets(function.succ, b) : N[t] = N[b]
<1>0. /\ function \in Function /\ Alive \subseteq Block /\ Reached \subseteq Block /\ b \in Block
      /\ \A x \in Reached : Targets(function.succ, x) \subseteq Reached
  BY ReachedClosed DEF Settled
<1>1. \A x \in Reached : Nearest(roots, x, N[x]) /\ N[x] \in Block
  BY <1>0 DEF NearestTable, Nearest
<1>2. \A x \in Alive \cap Reached : N[x] = x
  BY <1>0, <1>1, NearestOfAlive, NearestIsOne
<1>3. \A t, u \in Targets(function.succ, b) : N[t] = N[u]
  BY <1>0, <1>1, TargetsMeet
<1>4. ASSUME b \notin Alive, NEW t \in Targets(function.succ, b) PROVE N[t] = N[b]
  <2>1. t \in Reached
    BY <1>0
  <2>2. Nearest(roots, b, N[b]) /\ Nearest(roots, t, N[t]) /\ N[b] \in Block /\ N[t] \in Block
    BY <1>1, <2>1
  <2>3. N[b] # b
    BY <1>4, <2>2 DEF Nearest
  <2>4. OnEveryWay(roots, N[b], N[t])
    <3>1. OnEveryWay(roots, N[b], t)
      BY <1>0, <2>2, <2>3, OnWayOfTarget DEF Nearest
    <3> QED
      BY <2>2, <3>1 DEF Nearest
  <2>5. OnEveryWay(roots, N[t], N[b])
    <3>1. \A u \in Targets(function.succ, b) : OnEveryWay(roots, N[t], u)
      <4> SUFFICES ASSUME NEW u \in Targets(function.succ, b) PROVE OnEveryWay(roots, N[t], u)
        OBVIOUS
      <4>1. u \in Reached /\ N[u] = N[t]
        BY <1>0, <1>3
      <4> QED
        BY <1>1, <4>1 DEF Nearest
    <3>2. b \notin roots
      BY <1>4, RootsAlive
    <3>3. OnEveryWay(roots, N[t], b)
      BY <1>0, <2>2, <3>1, <3>2, OnWayOfAll
    <3> QED
      BY <2>2, <3>3 DEF Nearest
  <2> QED
    BY <1>0, <2>2, <2>4, <2>5, OnEveryWayAntisym
<1> QED
  BY <1>0, <1>2, <1>3, <1>4

\* A part of the blocks that is not all of a set of blocks is smaller.
LEMMA SmallerPart ==
    ASSUME function \in Function, NEW S \in SUBSET Block
    PROVE  /\ Cardinality(S) \in 0..function.n
           /\ \A T \in SUBSET S : T # S => Cardinality(T) < Cardinality(S)
<1>1. function.n \in Nat
  BY FunctionFacts
<1>2. IsFiniteSet(1..function.n) /\ Cardinality(1..function.n) = function.n
  <2>1. 1 \in Int /\ function.n \in Int /\ (IF 1 > function.n THEN 0 ELSE function.n - 1 + 1) = function.n
    BY <1>1
  <2> QED BY <2>1, FS_Interval
<1>3. IsFiniteSet(S) /\ Cardinality(S) <= function.n
  BY <1>2, FS_Subset DEF Block
<1>4. Cardinality(S) \in Nat
  BY <1>3, FS_CardinalityType
<1>5. ASSUME NEW T \in SUBSET S, T # S PROVE Cardinality(T) < Cardinality(S)
  <2>1. /\ IsFiniteSet(T) /\ Cardinality(T) <= Cardinality(S)
        /\ Cardinality(T) = Cardinality(S) => T = S
    BY <1>3, FS_Subset
  <2>2. Cardinality(T) \in Nat
    BY <2>1, FS_CardinalityType
  <2> QED
    BY <1>4, <1>5, <2>1, <2>2
<1> QED
  BY <1>1, <1>3, <1>4, <1>5

\* Where control may be told to have come, the next such block has fewer blocks
\* on every way.
LEMMA DepthFalls ==
    ASSUME NEW ord, Settled(ord), NEW roots \in Roots, PDT = PostDominators(roots),
           NEW N, NearestTable(roots, N), NEW b \in Reached, ~Visible(b), Leaves(b), b \in Alive,
           NEW t \in Targets(function.succ, b)
    PROVE  Depth(roots, N, t) < Depth(roots, N, b)
<1> DEFINE Above(x) == { a \in Block : OnEveryWay(roots, a, x) }
           u == N[t]
<1>0. /\ function \in Function /\ Alive \subseteq Block /\ Reached \subseteq Block /\ b \in Block
      /\ t \in Reached /\ N[b] = b /\ \A x \in Targets(function.succ, b) : x \in Reached /\ N[x] = u
  <2>1. /\ function \in Function /\ Alive \subseteq Block /\ Reached \subseteq Block
    BY ReachedClosed DEF Settled
  <2>2. /\ N[b] = b /\ \A x \in Targets(function.succ, b) : x \in Reached
        /\ \A x, y \in Targets(function.succ, b) : N[x] = N[y]
    BY NearestOver
  <2> QED BY <2>1, <2>2
<1>1. \A x \in Targets(function.succ, b) : OnEveryWay(roots, u, x)
  BY <1>0 DEF NearestTable, Nearest
<1>2. u \in Block
  BY <1>0 DEF NearestTable, Nearest
<1>3. b \notin roots
  <2>1. Targets(function.succ, b) # {}
    OBVIOUS
  <2>2. b \notin EndsOf(function.succ)
    <3>1. 1..Len(<< >>) = {}
      OBVIOUS
    <3>2. b \in EndsOf(function.succ) => Targets(function.succ, b) = {}
      BY <3>1 DEF EndsOf, Targets
    <3> QED BY <2>1, <3>2
  <2>3. Reach(function.succ, {b}, {}) \cap EndsOf(function.succ) # {}
    BY DEF Leaves
  <2> QED
    BY <2>2, <2>3 DEF Roots
<1>4. OnEveryWay(roots, u, b)
  BY <1>0, <1>1, <1>2, <1>3, OnWayOfAll
<1>5. u # b
  BY <1>0, <1>1, <1>3, NotBackToItself
<1>6. Above(u) \subseteq Above(b)
  BY <1>0, <1>2, <1>4, OnEveryWayTrans
<1>7. b \in Above(b) /\ b \notin Above(u)
  <2>1. b \in Above(b)
    BY <1>0 DEF OnEveryWay
  <2>2. b \notin Above(u)
    BY <1>0, <1>2, <1>4, <1>5, OnEveryWayAntisym
  <2> QED BY <2>1, <2>2
<1>8. Above(b) \in SUBSET Block /\ Above(u) \in SUBSET Above(b) /\ Above(u) # Above(b)
  BY <1>6, <1>7
<1> HIDE DEF Above
<1>9. Cardinality(Above(u)) < Cardinality(Above(b))
  BY <1>0, <1>8, SmallerPart
<1> QED
  BY <1>0, <1>9 DEF Depth, Above

LEMMA StepsDown ==
    ASSUME NEW ord, Settled(ord), NEW roots \in Roots, PDT = PostDominators(roots),
           NEW N, NearestTable(roots, N), NEW b \in Reached, ~Visible(b), Leaves(b),
           NEW t \in Targets(function.succ, b)
    PROVE  t \in Reached /\ Leaves(t) /\ Lower(roots, N, ord, t, b)
<1>0. /\ function \in Function /\ Alive \subseteq Block /\ Reached \subseteq Block /\ b \in Block
      /\ t \in Reached /\ \A x \in Targets(function.succ, b) : x \in Reached /\ N[x] = N[t]
      /\ b \notin Alive => N[t] = N[b]
  <2>1. /\ function \in Function /\ Alive \subseteq Block /\ Reached \subseteq Block
    BY ReachedClosed DEF Settled
  <2>2. /\ \A x \in Targets(function.succ, b) : x \in Reached
        /\ \A x, y \in Targets(function.succ, b) : N[x] = N[y]
        /\ b \notin Alive => \A x \in Targets(function.succ, b) : N[x] = N[b]
    BY NearestOver
  <2> QED BY <2>1, <2>2
<1>1. \A x \in Reached : N[x] \in Block /\ (Leaves(N[x]) <=> Leaves(x))
  <2> SUFFICES ASSUME NEW x \in Reached PROVE N[x] \in Block /\ (Leaves(N[x]) <=> Leaves(x))
    OBVIOUS
  <2>1. N[x] \in Block /\ OnEveryWay(roots, N[x], x) /\ x \in Block
    BY <1>0 DEF NearestTable, Nearest
  <2> QED
    BY <1>0, <2>1, LeavesBy
<1>2. Leaves(t)
  <2>1. PICK x \in Targets(function.succ, b) : Leaves(x)
    BY <1>0, LeavesOver
  <2> QED
    BY <1>0, <1>1, <2>1
<1>3. Lower(roots, N, ord, t, b)
  <2>1. CASE b \in Alive
    BY <2>1, DepthFalls DEF Lower
  <2>2. CASE b \notin Alive
    <3>1. Depth(roots, N, t) = Depth(roots, N, b)
      BY <1>0, <2>2 DEF Depth
    <3>2. ord[t] < ord[b]
      BY <2>2 DEF Settled
    <3> QED
      BY <3>1, <3>2 DEF Lower
  <2> QED
    BY <2>1, <2>2
<1> QED
  BY <1>0, <1>2, <1>3

\* The blocks control goes through without being seen, from b on.
Silent(b) == Reach(function.succ, {b}, { x \in Block : Visible(x) })

\* Their number falls with every step.
LEMMA SilentFalls ==
    ASSUME NEW ord, Settled(ord), NEW roots \in Roots, PDT = PostDominators(roots),
           NEW N, NearestTable(roots, N), NEW b \in Reached, ~Visible(b), Leaves(b),
           NEW t \in Targets(function.succ, b)
    PROVE  Cardinality(Silent(t)) < Cardinality(Silent(b)) /\ Silent(t) \subseteq Silent(b)
<1> DEFINE V == { x \in Block : Visible(x) }
           C == { y \in Reached : ~Visible(y) /\ Leaves(y) /\ Lower(roots, N, ord, y, b) }
           S == Silent(b)
<1>0. /\ function \in Function /\ Reached \subseteq Block /\ b \in Block /\ t \in Block
      /\ function.n \in Nat /\ ord \in [Block -> 0..function.n]
  BY ReachedClosed, FunctionFacts DEF Settled
<1>1. t \in Reached /\ Leaves(t) /\ Lower(roots, N, ord, t, b)
  BY StepsDown
<1>2. \A x \in Block : Depth(roots, N, x) \in Nat /\ ord[x] \in Nat
  <2> SUFFICES ASSUME NEW x \in Block PROVE Depth(roots, N, x) \in Nat /\ ord[x] \in Nat
    OBVIOUS
  <2>1. { a \in Block : OnEveryWay(roots, a, N[x]) } \in SUBSET Block
    OBVIOUS
  <2>2. Depth(roots, N, x) \in 0..function.n
    BY <1>0, <2>1, SmallerPart DEF Depth
  <2> QED BY <1>0, <2>2
<1>3. {t} \ V \subseteq C
  BY <1>0, <1>1
<1>4. \A y \in C : Targets(function.succ, y) \ V \subseteq C
  <2> SUFFICES ASSUME NEW y \in C, NEW z \in Targets(function.succ, y), z \notin V PROVE z \in C
    OBVIOUS
  <2>1. z \in Reached /\ Leaves(z) /\ Lower(roots, N, ord, z, y)
    BY StepsDown
  <2>2. Lower(roots, N, ord, z, b)
    <3>1. y \in Block /\ z \in Block /\ b \in Block /\ Lower(roots, N, ord, y, b)
      BY <1>0, <2>1
    <3> QED
      BY <1>2, <2>1, <3>1 DEF Lower
  <2> QED
    BY <1>0, <2>1, <2>2
<1> HIDE DEF C
<1>5. Silent(t) \subseteq C
  BY <1>0, <1>3, <1>4, ReachOnly DEF Silent
<1>6. b \notin C
  BY <1>0, <1>2 DEF C, Lower
<1>7. b \in S /\ S \subseteq Block /\ \A x \in S : Targets(function.succ, x) \ V \subseteq S
  BY <1>0, ReachFrom DEF Silent
<1> HIDE DEF S
<1>8. {t} \ V \subseteq S
  BY <1>7
<1>9. Silent(t) \subseteq S
  BY <1>0, <1>7, <1>8, ReachOnly DEF Silent
<1>10. Cardinality(Silent(t)) < Cardinality(S)
  <2>1. S \in SUBSET Block /\ Silent(t) \in SUBSET S /\ Silent(t) # S
    BY <1>5, <1>6, <1>7, <1>9
  <2> QED
    BY <1>0, <2>1, SmallerPart
<1> QED
  BY <1>9, <1>10 DEF S

\* What SameSteps is told of an edge from p to x: the edge if a phi asks.
LabelOf(p, x) == IF Asked(x) THEN << p, x >> ELSE << x >>

\* What is told of the edges over which control comes from b to be seen.
EndLabels(b) ==
    UNION { { LabelOf(p, x) : x \in { x \in Targets(function.succ, p) : Visible(x) } } : p \in Silent(b) }

LEMMA LabelsOver ==
    ASSUME function \in Function, NEW b \in Block, ~Visible(b)
    PROVE  /\ \A t \in Targets(function.succ, b) :
                 IF Visible(t) THEN LabelOf(b, t) \in EndLabels(b) ELSE EndLabels(t) \subseteq EndLabels(b)
           /\ \A y \in EndLabels(b) : \E t \in Targets(function.succ, b) :
                 IF Visible(t) THEN y = LabelOf(b, t) ELSE y \in EndLabels(t)
<1> DEFINE V == { x \in Block : Visible(x) }
           T == Targets(function.succ, b)
           C == {b} \cup UNION { Silent(t) : t \in T \ V }
<1>0. T \subseteq Block /\ \A x \in Block : Targets(function.succ, x) \subseteq Block
  BY FunctionFacts
<1>1. b \in Silent(b) /\ Silent(b) \subseteq Block /\ \A x \in Silent(b) : Targets(function.succ, x) \ V \subseteq Silent(b)
  BY ReachFrom DEF Silent
<1>2. \A t \in T \ V : t \in Silent(t) /\ Silent(t) \subseteq Block /\ \A x \in Silent(t) : Targets(function.succ, x) \ V \subseteq Silent(t)
  BY <1>0, ReachFrom DEF Silent
<1>3. ASSUME NEW t \in T, ~Visible(t) PROVE Silent(t) \subseteq Silent(b)
  <2> DEFINE S == Silent(b)
  <2>1. t \in Block /\ {t} \ V \subseteq S /\ \A x \in S : Targets(function.succ, x) \ V \subseteq S
    BY <1>0, <1>1
  <2> HIDE DEF S
  <2>2. Silent(t) \subseteq S
    BY <2>1, ReachOnly DEF Silent
  <2> QED BY <2>2 DEF S
<1>4. Silent(b) \subseteq C
  <2>1. {b} \ V \subseteq C /\ \A x \in C : Targets(function.succ, x) \ V \subseteq C
    BY <1>2
  <2> HIDE DEF C
  <2> QED
    BY <2>1, ReachOnly DEF Silent
<1>5. ASSUME NEW t \in T
      PROVE  IF Visible(t) THEN LabelOf(b, t) \in EndLabels(b) ELSE EndLabels(t) \subseteq EndLabels(b)
  BY <1>1, <1>3 DEF EndLabels
<1>6. ASSUME NEW y \in EndLabels(b)
      PROVE  \E t \in T : IF Visible(t) THEN y = LabelOf(b, t) ELSE y \in EndLabels(t)
  <2>1. PICK p \in Silent(b) : \E x \in Targets(function.succ, p) : Visible(x) /\ y = LabelOf(p, x)
    BY DEF EndLabels
  <2>2. PICK x \in Targets(function.succ, p) : Visible(x) /\ y = LabelOf(p, x)
    BY <2>1
  <2>3. CASE p = b
    BY <2>2, <2>3
  <2>4. CASE p # b
    <3>1. PICK t \in T \ V : p \in Silent(t)
      BY <1>4, <2>4
    <3>2. ~Visible(t)
      BY <1>0, <3>1
    <3>3. y \in EndLabels(t)
      BY <2>2, <3>1 DEF EndLabels
    <3> QED
      BY <3>1, <3>2, <3>3
  <2> QED
    BY <2>3, <2>4
<1> QED
  BY <1>5, <1>6

\* Some block that has least of a number.
LEMMA LeastBy ==
    ASSUME NEW S, S # {}, NEW h, \A x \in S : h[x] \in Nat
    PROVE  \E x \in S : \A y \in S : h[x] <= h[y]
<1> DEFINE numbers == { h[x] : x \in S }
<1>1. numbers \subseteq Nat /\ numbers # {}
  OBVIOUS
<1> HIDE DEF numbers
<1>2. PICK k \in numbers : \A j \in numbers : k <= j
  BY <1>1, LeastOf
<1> QED
  BY <1>2 DEF numbers

\* From a block where control is not told to have come, what is told is told of
\* the nearest that is, or from there.
LEMMA LabelsFromNearest ==
    ASSUME NEW ord, Settled(ord), NEW roots \in Roots, PDT = PostDominators(roots),
           NEW N, NearestTable(roots, N)
    PROVE  \A b \in Reached : b \notin Alive =>
               EndLabels(b) \subseteq (IF Visible(N[b]) THEN { << N[b] >> } ELSE EndLabels(N[b]))
<1> DEFINE Of(b) == IF Visible(N[b]) THEN { << N[b] >> } ELSE EndLabels(N[b])
           bad == { b \in Reached : b \notin Alive /\ ~(EndLabels(b) \subseteq Of(b)) }
<1>0. /\ function \in Function /\ Alive \subseteq Block /\ Reached \subseteq Block
      /\ \A x \in Reached : Targets(function.succ, x) \subseteq Reached
      /\ function.n \in Nat /\ ord \in [Block -> 0..function.n]
  BY ReachedClosed, FunctionFacts DEF Settled
<1>1. bad = {}
  <2> SUFFICES ASSUME bad # {} PROVE FALSE
    OBVIOUS
  <2>1. \A x \in bad : ord[x] \in Nat
    BY <1>0
  <2>2. PICK b \in bad : \A x \in bad : ord[b] <= ord[x]
    <3> HIDE DEF bad
    <3> QED BY <2>1, LeastBy
  <2>3. b \in Reached /\ b \notin Alive /\ b \in Block /\ ~Visible(b)
    BY <1>0 DEF Settled
  <2>4. PICK y \in EndLabels(b) : y \notin Of(b)
    OBVIOUS
  <2>5. PICK t \in Targets(function.succ, b) : IF Visible(t) THEN y = LabelOf(b, t) ELSE y \in EndLabels(t)
    BY <1>0, <2>3, LabelsOver
  <2>6. t \in Reached /\ t \in Block /\ N[t] = N[b] /\ ord[t] < ord[b] /\ ~Asked(N[b])
    <3>1. t \in Reached /\ t \in Block /\ ord[t] < ord[b] /\ ~Asked(N[b])
      BY <1>0, <2>3 DEF Settled, NearestTable
    <3>2. N[t] = N[b]
      BY <2>3, NearestOver
    <3> QED BY <3>1, <3>2
  <2>7. t \in Alive => N[t] = t
    <3>1. Nearest(roots, t, N[t])
      BY <2>6 DEF NearestTable
    <3> QED
      BY <2>6, <3>1, NearestOfAlive, NearestIsOne
  <2>8. CASE Visible(t)
    <3>1. t = N[b]
      BY <2>6, <2>7, <2>8 DEF Settled
    <3>2. y = << N[b] >>
      BY <2>5, <2>6, <2>8, <3>1 DEF LabelOf
    <3> QED
      BY <2>4, <2>8, <3>1, <3>2
  <2>9. CASE ~Visible(t) /\ t \in Alive
    <3>1. t = N[b] /\ y \in EndLabels(t)
      BY <2>5, <2>6, <2>7, <2>9
    <3> QED
      BY <2>4, <2>9, <3>1
  <2>10. CASE ~Visible(t) /\ t \notin Alive
    <3>1. ~(ord[b] <= ord[t])
      BY <1>0, <2>3, <2>6
    <3>2. t \notin bad
      BY <2>2, <3>1
    <3>3. EndLabels(t) \subseteq Of(t)
      BY <2>6, <2>10, <3>2
    <3>4. Of(t) = Of(b)
      BY <2>6
    <3> QED
      BY <2>4, <2>5, <2>10, <3>3, <3>4
  <2> QED
    BY <2>8, <2>9, <2>10
<1> QED
  BY <1>1

LEMMA OneLabelAlive ==
    ASSUME NEW ord, Settled(ord), NEW roots \in Roots, PDT = PostDominators(roots),
           NEW N, NearestTable(roots, N)
    PROVE  \A b \in Reached : b \in Alive /\ ~Visible(b) /\ Leaves(b) => \A y, z \in EndLabels(b) : y = z
<1> DEFINE bad == { b \in Reached : b \in Alive /\ ~Visible(b) /\ Leaves(b) /\ \E y, z \in EndLabels(b) : y # z }
           h == [x \in Block |-> Depth(roots, N, x)]
<1>0. /\ function \in Function /\ Alive \subseteq Block /\ Reached \subseteq Block
      /\ \A x \in Reached : Targets(function.succ, x) \subseteq Reached
      /\ \A x \in Block : Targets(succ, x) \subseteq Targets(function.succ, x)
  BY ReachedClosed DEF Settled
<1>1. bad = {}
  <2> SUFFICES ASSUME bad # {} PROVE FALSE
    OBVIOUS
  <2>1. \A x \in bad : h[x] \in Nat
    <3> SUFFICES ASSUME NEW x \in bad PROVE h[x] \in Nat
      OBVIOUS
    <3>1. x \in Block /\ { a \in Block : OnEveryWay(roots, a, N[x]) } \in SUBSET Block
      BY <1>0
    <3>2. Depth(roots, N, x) \in 0..function.n
      BY <1>0, <3>1, SmallerPart DEF Depth
    <3>3. function.n \in Nat
      BY <1>0, FunctionFacts
    <3> QED BY <3>1, <3>2, <3>3
  <2>2. PICK b \in bad : \A x \in bad : h[b] <= h[x]
    <3> HIDE DEF bad, h
    <3> QED BY <2>1, LeastBy
  <2>3. b \in Reached /\ b \in Alive /\ b \in Block /\ ~Visible(b) /\ Leaves(b) /\ \E y, z \in EndLabels(b) : y # z
    BY <1>0
  <2>4. PICK t \in Targets(function.succ, b) : TRUE
    BY <1>0, <2>3 DEF Settled
  <2> DEFINE u == N[t]
  <2>5. /\ t \in Reached /\ Leaves(t) /\ t \in Block
        /\ \A x \in Targets(function.succ, b) : x \in Reached /\ N[x] = u
    <3>1. \A x \in Targets(function.succ, b) : x \in Reached /\ N[x] = u
      BY <2>3, NearestOver
    <3>2. Leaves(t)
      BY <2>3, StepsDown
    <3> QED BY <1>0, <3>1, <3>2
  <2>6. u \in Alive /\ u \in Block /\ OnEveryWay(roots, u, t)
    BY <1>0, <2>5 DEF NearestTable, Nearest
  <2>7. u \in Reached
    <3> DEFINE C == Reached
    <3>1. {t} \ {} \subseteq C /\ \A x \in C : Targets(function.succ, x) \ {} \subseteq C
      BY <1>0, <2>5
    <3> HIDE DEF C
    <3>2. Reach(function.succ, {t}, {}) \subseteq C
      BY <1>0, <2>5, <3>1, ReachOnly
    <3>3. u \in Reach(function.succ, {t}, {})
      BY <1>0, <2>5, <2>6, OnTheWay
    <3> QED BY <3>2, <3>3 DEF C
  <2>8. Leaves(u)
    BY <1>0, <2>5, <2>6, LeavesBy
  <2>9. \A x \in Reached \cap Alive : N[x] = x
    <3> SUFFICES ASSUME NEW x \in Reached, x \in Alive PROVE N[x] = x
      OBVIOUS
    <3>1. Nearest(roots, x, N[x]) /\ x \in Block
      BY <1>0 DEF NearestTable
    <3> QED
      BY <3>1, NearestOfAlive, NearestIsOne
  <2>10. u \notin bad
    <3>1. Depth(roots, N, t) < Depth(roots, N, b)
      BY <2>3, DepthFalls
    <3>2. Depth(roots, N, u) = Depth(roots, N, t)
      BY <2>6, <2>7, <2>9 DEF Depth
    <3>3. h[u] < h[b] /\ h[b] \in Nat
      BY <2>1, <2>3, <2>6, <3>1, <3>2
    <3> HIDE DEF h
    <3>4. u \in bad => h[b] <= h[u] /\ h[u] \in Nat
      BY <2>1, <2>2
    <3> QED
      BY <3>3, <3>4
  <2>11. ASSUME NEW y \in EndLabels(b)
         PROVE  IF Visible(u) THEN y = LabelOf(b, u) ELSE y \in EndLabels(u)
    <3>1. PICK x \in Targets(function.succ, b) : IF Visible(x) THEN y = LabelOf(b, x) ELSE y \in EndLabels(x)
      BY <1>0, <2>3, LabelsOver
    <3>2. x \in Reached /\ N[x] = u /\ x \in Block
      BY <1>0, <2>5
    <3>3. x \in Alive => x = u
      BY <2>9, <3>2
    <3>4. CASE Visible(x)
      <4>1. x = u
        BY <3>2, <3>3, <3>4 DEF Settled
      <4> QED
        BY <3>1, <3>4, <4>1
    <3>5. CASE ~Visible(x) /\ x \in Alive
      BY <3>1, <3>3, <3>5
    <3>6. CASE ~Visible(x) /\ x \notin Alive
      <4>1. EndLabels(x) \subseteq IF Visible(u) THEN { << u >> } ELSE EndLabels(u)
        BY <3>2, <3>6, LabelsFromNearest
      <4>2. ~Asked(u)
        BY <3>2, <3>6 DEF NearestTable
      <4> QED
        BY <3>1, <3>6, <4>1, <4>2 DEF LabelOf
    <3> QED
      BY <3>4, <3>5, <3>6
  <2> HIDE DEF u
  <2>12. CASE Visible(u)
    BY <2>3, <2>11, <2>12
  <2>13. CASE ~Visible(u)
    <3>1. \A y, z \in EndLabels(u) : y = z
      BY <2>6, <2>7, <2>8, <2>10, <2>13
    <3> QED
      BY <2>3, <2>11, <2>13, <3>1
  <2> QED
    BY <2>12, <2>13
<1> QED
  BY <1>1

\* From a block that leaves, control is seen next at one place only.
LEMMA OneLabel ==
    ASSUME NEW ord, Settled(ord), NEW roots \in Roots, PDT = PostDominators(roots),
           NEW N, NearestTable(roots, N), NEW b \in Reached, ~Visible(b), Leaves(b)
    PROVE  \A y, z \in EndLabels(b) : y = z
<1>1. CASE b \in Alive
  BY <1>1, OneLabelAlive
<1>2. CASE b \notin Alive
  <2> DEFINE u == N[b]
  <2>0. /\ function \in Function /\ Alive \subseteq Block /\ Reached \subseteq Block /\ b \in Block
        /\ \A x \in Reached : Targets(function.succ, x) \subseteq Reached
    BY ReachedClosed DEF Settled
  <2>1. u \in Alive /\ u \in Block /\ OnEveryWay(roots, u, b)
    BY <2>0 DEF NearestTable, Nearest
  <2>2. u \in Reached
    <3> DEFINE C == Reached
    <3>1. {b} \ {} \subseteq C /\ \A x \in C : Targets(function.succ, x) \ {} \subseteq C
      BY <2>0
    <3> HIDE DEF C
    <3>2. Reach(function.succ, {b}, {}) \subseteq C
      BY <2>0, <3>1, ReachOnly
    <3>3. u \in Reach(function.succ, {b}, {})
      BY <2>0, <2>1, OnTheWay
    <3> QED BY <3>2, <3>3 DEF C
  <2>3. Leaves(u)
    BY <2>0, <2>1, LeavesBy
  <2>4. EndLabels(b) \subseteq IF Visible(u) THEN { << u >> } ELSE EndLabels(u)
    BY <1>2, LabelsFromNearest
  <2>5. ~Visible(u) => \A y, z \in EndLabels(u) : y = z
    BY <2>1, <2>2, <2>3, OneLabelAlive
  <2> HIDE DEF u
  <2> QED
    BY <2>4, <2>5
<1> QED
  BY <1>1, <1>2

LEMMA SomeLabel ==
    ASSUME NEW ord, Settled(ord), NEW roots \in Roots, PDT = PostDominators(roots),
           NEW N, NearestTable(roots, N)
    PROVE  \A b \in Reached : ~Visible(b) /\ Leaves(b) => EndLabels(b) # {}
<1> DEFINE bad == { b \in Reached : ~Visible(b) /\ Leaves(b) /\ EndLabels(b) = {} }
           h == [x \in Block |-> Cardinality(Silent(x))]
<1>0. /\ function \in Function /\ Reached \subseteq Block
      /\ \A x \in Block : Targets(succ, x) \subseteq Targets(function.succ, x)
  BY ReachedClosed DEF Settled
<1>1. \A x \in Block : h[x] \in Nat
  <2> SUFFICES ASSUME NEW x \in Block PROVE h[x] \in Nat
    OBVIOUS
  <2>1. Silent(x) \in SUBSET Block
    BY <1>0, ReachFrom DEF Silent
  <2>2. Cardinality(Silent(x)) \in 0..function.n /\ function.n \in Nat
    BY <1>0, <2>1, SmallerPart, FunctionFacts
  <2> QED BY <2>2
<1>2. bad = {}
  <2> SUFFICES ASSUME bad # {} PROVE FALSE
    OBVIOUS
  <2>1. bad \subseteq Block
    BY <1>0
  <2>2. PICK b \in bad : \A x \in bad : h[b] <= h[x]
    <3> HIDE DEF bad, h
    <3> QED BY <1>1, <2>1, LeastBy
  <2>3. b \in Reached /\ b \in Block /\ ~Visible(b) /\ Leaves(b) /\ EndLabels(b) = {}
    BY <1>0
  <2>4. PICK t \in Targets(function.succ, b) : TRUE
    BY <1>0, <2>3 DEF Settled
  <2>5. ~Visible(t) /\ EndLabels(t) = {}
    <3>1. IF Visible(t) THEN LabelOf(b, t) \in EndLabels(b) ELSE EndLabels(t) \subseteq EndLabels(b)
      BY <1>0, <2>3, LabelsOver
    <3> QED
      BY <2>3, <3>1
  <2>6. t \in Reached /\ Leaves(t)
    BY <2>3, StepsDown
  <2>7. Cardinality(Silent(t)) < Cardinality(Silent(b))
    BY <2>3, SilentFalls
  <2>8. h[t] < h[b] /\ h[t] \in Nat /\ h[b] \in Nat
    BY <1>0, <1>1, <2>3, <2>6, <2>7
  <2>9. t \in bad
    BY <2>5, <2>6
  <2> HIDE DEF bad, h
  <2> QED
    BY <2>2, <2>8, <2>9
<1> QED
  BY <1>2

-----------------------------------------------------------------------------
(* Arrivals.                                                               *)

EdgesOver(g, e) == IF Visible(e[2]) THEN {e} ELSE { << e[2], t >> : t \in Targets(g, e[2]) }

ToldOf(e) == IF ~Visible(e[2]) THEN << "silent" >> ELSE IF Asked(e[2]) THEN e ELSE << e[2] >>

Passing(g, a, b, f) ==
    f = [d \in 0..(Len(g) + 1) |->
            IF d = 0 THEN { << a, b >> } ELSE UNION { EdgesOver(g, e) : e \in f[d - 1] }]

Passes(g, a, b, n, f) ==
    /\ Arrivals(g, a, b) = { ToldOf(e) : e \in f[n + 1] }
    /\ f[0] = { << a, b >> }
    /\ \A d \in 1..(n + 1) : f[d] = UNION { EdgesOver(g, e) : e \in f[d - 1] }

LEMMA ArrivalsOf ==
    ASSUME function \in Function, NEW g \in [Block -> Seq(Block)], NEW a, NEW b \in Block
    PROVE  \E f : Passes(g, a, b, function.n, f)
<1> DEFINE n == function.n
           E == ({a} \cup Block) \X Block
           T == SUBSET E
           F == [X \in T |-> UNION { EdgesOver(g, e) : e \in X }]
           R == CHOOSE f : Passing(g, a, b, f)
<1>1. n \in Nat /\ Len(g) = n
  <2>1. n \in Nat /\ g \in [1..n -> Seq(Block)]
    BY FunctionFacts DEF Block
  <2> QED BY <2>1, TableIsSeq
<1>2. \A x \in Block : Targets(g, x) \subseteq Block
  <2> SUFFICES ASSUME NEW x \in Block, NEW k \in 1..Len(g[x]) PROVE g[x][k] \in Block
    BY DEF Targets
  <2>1. g[x] \in Seq(Block)
    OBVIOUS
  <2> QED
    BY <2>1, ElementOfSeq
<1>3. \A e \in E : EdgesOver(g, e) \subseteq E
  <2> SUFFICES ASSUME NEW e \in E PROVE EdgesOver(g, e) \subseteq E
    OBVIOUS
  <2>1. e[2] \in Block
    OBVIOUS
  <2>2. \A t \in Targets(g, e[2]) : << e[2], t >> \in E
    BY <1>2, <2>1
  <2> HIDE DEF E
  <2> QED BY <2>2 DEF EdgesOver
<1>4. F \in [T -> T]
  <2> HIDE DEF E
  <2> QED BY <1>3
<1>5. { << a, b >> } \in T /\ n + 1 \in Nat
  BY <1>1
<1>6. PICK f : Iterates(n + 1, F, { << a, b >> }, f) /\ \A d \in 0..(n + 1) : f[d] \in T
  <2> HIDE DEF F, T, n
  <2> QED BY <1>4, <1>5, IterateExists
<1>7. Passing(g, a, b, f)
  <2>1. \A d \in 0..(n + 1) : d # 0 => F[f[d - 1]] = UNION { EdgesOver(g, e) : e \in f[d - 1] }
    <3> SUFFICES ASSUME NEW d \in 0..(n + 1), d # 0
                 PROVE  F[f[d - 1]] = UNION { EdgesOver(g, e) : e \in f[d - 1] }
      OBVIOUS
    <3>1. d - 1 \in 0..(n + 1)
      BY <1>1
    <3>2. f[d - 1] \in T
      BY <1>6, <3>1
    <3> HIDE DEF T
    <3> QED BY <3>2
  <2> HIDE DEF F, n
  <2> QED BY <1>1, <1>6, <2>1 DEF Passing, Iterates
<1>8. Passing(g, a, b, R)
  BY <1>7
<1>9. Arrivals(g, a, b) = { ToldOf(e) : e \in R[n + 1] }
  BY <1>1 DEF Arrivals, Passing, ToldOf, EdgesOver, Asked
<1> HIDE DEF R
<1>10. R[0] = { << a, b >> } /\ \A d \in 1..(n + 1) : R[d] = UNION { EdgesOver(g, e) : e \in R[d - 1] }
  <2>1. \A d \in 0..(n + 1) : R[d] = IF d = 0 THEN { << a, b >> } ELSE UNION { EdgesOver(g, e) : e \in R[d - 1] }
    BY <1>1, <1>8 DEF Passing
  <2>2. 0 \in 0..(n + 1) /\ \A d \in 1..(n + 1) : d \in 0..(n + 1) /\ d # 0
    BY <1>1
  <2> QED BY <2>1, <2>2
<1> QED
  BY <1>9, <1>10 DEF Passes

\* Where control stays among blocks whose branches are what they were.
Untouched(Z) ==
    \A y \in Z : Targets(succ, y) = Targets(function.succ, y) /\ Targets(succ, y) \subseteq Z

LEMMA ArrivalsAgree ==
    ASSUME function \in Function, succ \in [Block -> Seq(Block)],
           NEW Z \in SUBSET Block, Untouched(Z), NEW a, NEW b \in Z
    PROVE  Arrivals(succ, a, b) = Arrivals(function.succ, a, b)
<1> DEFINE g == succ
           h == function.succ
<1>g. g \in [Block -> Seq(Block)] /\ h \in [Block -> Seq(Block)]
  BY FunctionFacts
<1>u. \A y \in Z : Targets(g, y) = Targets(h, y) /\ Targets(g, y) \subseteq Z
  BY DEF Untouched
<1> HIDE DEF g, h
<1> DEFINE n == function.n
<1>0. n \in Nat /\ b \in Block
  BY FunctionFacts
<1>1. PICK f : Passes(g, a, b, n, f)
  BY <1>0, <1>g, ArrivalsOf
<1>2. PICK k : Passes(h, a, b, n, k)
  BY <1>0, <1>g, ArrivalsOf
<1> HIDE DEF n
<1> DEFINE P == { d \in 0..(n + 1) : f[d] = k[d] /\ \A e \in f[d] : e[2] \in Z }
<1>3. 0 \in P
  <2>1. f[0] = { << a, b >> } /\ k[0] = { << a, b >> }
    BY <1>1, <1>2 DEF Passes
  <2>2. << a, b >>[2] \in Z
    OBVIOUS
  <2>3. \A e \in f[0] : e[2] \in Z
    BY <2>1, <2>2
  <2>4. 0 \in 0..(n + 1)
    BY <1>0
  <2> QED
    BY <2>1, <2>3, <2>4
<1>4. ASSUME NEW d \in 1..(n + 1), d - 1 \in P PROVE d \in P
  <2>1. /\ f[d] = UNION { EdgesOver(g, e) : e \in f[d - 1] }
        /\ k[d] = UNION { EdgesOver(h, e) : e \in f[d - 1] }
    BY <1>1, <1>2, <1>4 DEF Passes
  <2>2. \A e \in f[d - 1] : EdgesOver(g, e) = EdgesOver(h, e) /\ \A x \in EdgesOver(g, e) : x[2] \in Z
    <3> SUFFICES ASSUME NEW e \in f[d - 1]
                 PROVE  EdgesOver(g, e) = EdgesOver(h, e) /\ \A x \in EdgesOver(g, e) : x[2] \in Z
      OBVIOUS
    <3>1. e[2] \in Z
      BY <1>4
    <3>2. Targets(g, e[2]) = Targets(h, e[2]) /\ Targets(g, e[2]) \subseteq Z
      BY <1>u, <3>1
    <3>3. CASE Visible(e[2])
      <4>1. EdgesOver(g, e) = {e} /\ EdgesOver(h, e) = {e}
        BY <3>3 DEF EdgesOver
      <4> QED BY <3>1, <4>1
    <3>4. CASE ~Visible(e[2])
      <4>1. /\ EdgesOver(g, e) = { << e[2], t >> : t \in Targets(g, e[2]) }
            /\ EdgesOver(h, e) = { << e[2], t >> : t \in Targets(g, e[2]) }
        BY <3>2, <3>4 DEF EdgesOver
      <4>2. \A t \in Targets(g, e[2]) : << e[2], t >>[2] \in Z
        BY <3>2
      <4> QED BY <4>1, <4>2
    <3> QED BY <3>3, <3>4
  <2>3. f[d - 1] = k[d - 1]
    BY <1>4
  <2>4. f[d] = k[d]
    BY <2>1, <2>2, <2>3
  <2>5. \A e \in f[d] : e[2] \in Z
    BY <2>1, <2>2
  <2>6. d \in 0..(n + 1)
    BY <1>0
  <2> QED
    BY <2>4, <2>5, <2>6
<1>5. \A d \in 0..(n + 1) : d \in P
  <2>1. n + 1 \in Nat
    BY <1>0
  <2> HIDE DEF P
  <2> QED BY <1>3, <1>4, <2>1, UpTo
<1>6. f[n + 1] = k[n + 1]
  <2>1. n + 1 \in 0..(n + 1)
    BY <1>0
  <2> QED BY <1>5, <2>1
<1> QED
  BY <1>1, <1>2, <1>6 DEF Passes, g, h

\* Where every step goes down and keeps what will be told, that is told.
GoesDown(g, Z, rank, A) ==
    \A y \in Z : Visible(y) \/
        /\ Targets(g, y) # {}
        /\ \A t \in Targets(g, y) :
              t \in Z /\ rank[t] < rank[y] /\ A[y] = IF Visible(t) THEN LabelOf(y, t) ELSE A[t]

LEMMA ArrivalsTold ==
    ASSUME function \in Function, NEW g \in [Block -> Seq(Block)], NEW a, NEW Z, Z \subseteq Block, NEW b \in Z,
           NEW rank \in [Block -> 0..function.n], NEW A, GoesDown(g, Z, rank, A)
    PROVE  Arrivals(g, a, b) = { IF Visible(b) THEN LabelOf(a, b) ELSE A[b] }
<1> DEFINE n == function.n
           Label(e) == IF Visible(e[2]) THEN LabelOf(e[1], e[2]) ELSE A[e[2]]
           told == IF Visible(b) THEN LabelOf(a, b) ELSE A[b]
<1>0. n \in Nat /\ b \in Block /\ \A x \in Z : rank[x] \in 0..n
  BY FunctionFacts
<1>1. PICK f : Passes(g, a, b, n, f)
  BY <1>0, ArrivalsOf
<1> HIDE DEF n
<1> DEFINE Good(d, e) == /\ e[2] \in Z /\ e = << e[1], e[2] >> /\ Label(e) = told
                         /\ Visible(e[2]) \/ rank[e[2]] <= n - d
           P == { d \in 0..(n + 1) : f[d] # {} /\ \A e \in f[d] : Good(d, e) }
<1>2. 0 \in P
  <2>1. f[0] = { << a, b >> }
    BY <1>1 DEF Passes
  <2>2. Good(0, << a, b >>)
    <3>1. << a, b >>[1] = a /\ << a, b >>[2] = b
      OBVIOUS
    <3>2. rank[b] <= n - 0
      BY <1>0
    <3>3. Label(<< a, b >>) = told
      BY <3>1
    <3> HIDE DEF Label, told
    <3> QED BY <3>1, <3>2, <3>3
  <2>3. 0 \in 0..(n + 1)
    BY <1>0
  <2> HIDE DEF Good
  <2>4. f[0] # {} /\ \A e \in f[0] : Good(0, e)
    BY <2>1, <2>2
  <2> QED
    BY <2>3, <2>4
<1>3. ASSUME NEW d \in 1..(n + 1), d - 1 \in P PROVE d \in P
  <2>1. f[d] = UNION { EdgesOver(g, e) : e \in f[d - 1] }
    BY <1>1 DEF Passes
  <2>2. ASSUME NEW e \in f[d - 1]
        PROVE  EdgesOver(g, e) # {} /\ \A x \in EdgesOver(g, e) : Good(d, x)
    <3>1. Good(d - 1, e)
      BY <1>3
    <3>2. CASE Visible(e[2])
      <4>1. EdgesOver(g, e) = {e}
        BY <3>2 DEF EdgesOver
      <4> QED
        BY <3>1, <3>2, <4>1
    <3>3. CASE ~Visible(e[2])
      <4>1. EdgesOver(g, e) = { << e[2], t >> : t \in Targets(g, e[2]) } /\ Targets(g, e[2]) # {}
        BY <3>1, <3>3 DEF EdgesOver, GoesDown
      <4>2. ASSUME NEW t \in Targets(g, e[2]) PROVE Good(d, << e[2], t >>)
        <5>1. t \in Z /\ rank[t] < rank[e[2]] /\ A[e[2]] = IF Visible(t) THEN LabelOf(e[2], t) ELSE A[t]
          BY <3>1, <3>3 DEF GoesDown
        <5>2. Label(<< e[2], t >>) = told
          BY <3>1, <3>3, <5>1
        <5>3. rank[t] <= n - d
          <6>1. rank[e[2]] <= n - (d - 1) /\ rank[e[2]] \in 0..n /\ rank[t] \in 0..n
            BY <1>0, <3>1, <3>3, <5>1
          <6> QED BY <1>0, <5>1, <6>1
        <5> QED
          BY <5>1, <5>2, <5>3
      <4> HIDE DEF Good
      <4>3. EdgesOver(g, e) # {}
        BY <4>1
      <4>4. \A x \in EdgesOver(g, e) : Good(d, x)
        BY <4>1, <4>2
      <4> QED
        BY <4>3, <4>4
    <3> QED
      BY <3>2, <3>3
  <2>3. d \in 0..(n + 1) /\ f[d - 1] # {}
    BY <1>0, <1>3
  <2> HIDE DEF Good
  <2>4. f[d] # {}
    BY <2>1, <2>2, <2>3
  <2>5. \A x \in f[d] : Good(d, x)
    BY <2>1, <2>2
  <2> QED
    BY <2>3, <2>4, <2>5
<1>4. \A d \in 0..(n + 1) : d \in P
  <2>1. n + 1 \in Nat
    BY <1>0
  <2> HIDE DEF P
  <2> QED BY <1>2, <1>3, <2>1, UpTo
<1>5. f[n + 1] # {} /\ \A e \in f[n + 1] : Good(n + 1, e)
  <2>1. n + 1 \in 0..(n + 1)
    BY <1>0
  <2> QED BY <1>4, <2>1
<1>6. ASSUME NEW e \in f[n + 1] PROVE ToldOf(e) = told
  <2>1. Good(n + 1, e)
    BY <1>5
  <2>2. Visible(e[2])
    <3>1. rank[e[2]] \in 0..n
      BY <1>0, <2>1
    <3>2. ~(rank[e[2]] <= n - (n + 1))
      BY <1>0, <3>1
    <3> QED BY <2>1, <3>2
  <2>3. e = << e[1], e[2] >> /\ LabelOf(e[1], e[2]) = told
    BY <2>1, <2>2
  <2> HIDE DEF told
  <2> QED
    BY <2>2, <2>3 DEF ToldOf, LabelOf
<1>7. Arrivals(g, a, b) = { ToldOf(e) : e \in f[n + 1] }
  BY <1>1 DEF Passes
<1> HIDE DEF told
<1>8. Arrivals(g, a, b) = { told }
  BY <1>5, <1>6, <1>7
<1> QED
  BY <1>8 DEF told

\* In both graphs control comes to the same place.
LEMMA SameArrivals ==
    ASSUME NEW ord, Settled(ord), NEW roots \in Roots, PDT = PostDominators(roots),
           NEW a, NEW b \in Reached
    PROVE  Arrivals(succ, a, b) = Arrivals(function.succ, a, b)
<1>0. /\ function \in Function /\ Reached \subseteq Block
      /\ succ \in [Block -> Seq(Block)] /\ function.succ \in [Block -> Seq(Block)]
      /\ \A x \in Reached : Targets(function.succ, x) \subseteq Reached
      /\ \A x \in Block : Targets(succ, x) \subseteq Targets(function.succ, x)
  BY ReachedClosed, FunctionFacts DEF Settled
<1>1. CASE Visible(b) \/ Leaves(b)
  <2> DEFINE Z == { x \in Reached : Visible(x) \/ Leaves(x) }
             rank == [x \in Block |-> Cardinality(Silent(x))]
             A == [x \in Block |-> CHOOSE y : y \in EndLabels(x)]
  <2>1. PICK N : NearestTable(roots, N)
    BY TableExists
  <2>2. rank \in [Block -> 0..function.n]
    <3> SUFFICES ASSUME NEW x \in Block PROVE Cardinality(Silent(x)) \in 0..function.n
      OBVIOUS
    <3>1. Silent(x) \in SUBSET Block
      BY <1>0, ReachFrom DEF Silent
    <3> QED BY <1>0, <3>1, SmallerPart
  <2>3. ASSUME NEW y \in Z, ~Visible(y)
        PROVE  /\ Targets(succ, y) # {}
               /\ \A t \in Targets(function.succ, y) :
                     t \in Z /\ rank[t] < rank[y] /\ A[y] = IF Visible(t) THEN LabelOf(y, t) ELSE A[t]
    <3>1. y \in Reached /\ y \in Block /\ Leaves(y)
      BY <1>0, <2>3
    <3>2. Targets(succ, y) # {}
      BY <2>3, <3>1 DEF Settled
    <3>3. ASSUME NEW t \in Targets(function.succ, y)
          PROVE  t \in Z /\ rank[t] < rank[y] /\ A[y] = IF Visible(t) THEN LabelOf(y, t) ELSE A[t]
      <4>1. t \in Reached /\ Leaves(t) /\ t \in Block
        BY <1>0, <2>1, <2>3, <3>1, StepsDown
      <4>2. Cardinality(Silent(t)) < Cardinality(Silent(y))
        BY <2>1, <2>3, <3>1, SilentFalls
      <4>3. EndLabels(y) # {} /\ \A u, w \in EndLabels(y) : u = w
        BY <2>1, <2>3, <3>1, SomeLabel, OneLabel
      <4>4. ~Visible(t) => EndLabels(t) # {}
        BY <2>1, <4>1, SomeLabel
      <4>5. IF Visible(t) THEN LabelOf(y, t) \in EndLabels(y) ELSE EndLabels(t) \subseteq EndLabels(y)
        BY <1>0, <2>3, <3>1, LabelsOver
      <4>6. A[y] \in EndLabels(y) /\ (~Visible(t) => A[t] \in EndLabels(t))
        BY <3>1, <4>1, <4>3, <4>4
      <4>7. A[y] = IF Visible(t) THEN LabelOf(y, t) ELSE A[t]
        <5> HIDE DEF A
        <5> QED BY <4>3, <4>5, <4>6
      <4>8. rank[t] < rank[y]
        BY <3>1, <4>1, <4>2
      <4> QED
        BY <4>1, <4>7, <4>8
    <3> QED
      BY <3>2, <3>3
  <2>4. Z \subseteq Block /\ b \in Z
    BY <1>0, <1>1
  <2>5. \A x \in Z : Targets(succ, x) \subseteq Targets(function.succ, x)
    BY <1>0, <2>4
  <2> HIDE DEF Z, rank, A
  <2>6. \A y \in Z : ~Visible(y) => Targets(function.succ, y) # {}
    BY <2>3, <2>5
  <2>7. GoesDown(succ, Z, rank, A)
    BY <2>3, <2>5 DEF GoesDown
  <2>8. GoesDown(function.succ, Z, rank, A)
    BY <2>3, <2>6 DEF GoesDown
  <2>9. Arrivals(succ, a, b) = { IF Visible(b) THEN LabelOf(a, b) ELSE A[b] }
    BY <1>0, <2>2, <2>4, <2>7, ArrivalsTold
  <2>10. Arrivals(function.succ, a, b) = { IF Visible(b) THEN LabelOf(a, b) ELSE A[b] }
    BY <1>0, <2>2, <2>4, <2>8, ArrivalsTold
  <2> QED
    BY <2>9, <2>10
<1>2. CASE ~Leaves(b)
  <2> DEFINE Z == { x \in Block : ~Leaves(x) }
  <2>1. ASSUME NEW y \in Z PROVE Targets(succ, y) = Targets(function.succ, y) /\ Targets(succ, y) \subseteq Z
    <3>1. y \in Block /\ succ[y] = function.succ[y]
      BY DEF Settled, Rewired
    <3>2. Targets(succ, y) = Targets(function.succ, y)
      BY <3>1 DEF Targets
    <3>3. ASSUME NEW t \in Targets(function.succ, y) PROVE t \in Block /\ ~Leaves(t)
      <4> DEFINE C == Reach(function.succ, {y}, {})
      <4>1. t \in Block
        BY <1>0, <3>1, FunctionFacts
      <4>2. {t} \ {} \subseteq C /\ \A x \in C : Targets(function.succ, x) \ {} \subseteq C
        BY <1>0, <3>1, ReachFrom
      <4>3. C \cap EndsOf(function.succ) = {}
        BY DEF Leaves
      <4> HIDE DEF C
      <4>4. Reach(function.succ, {t}, {}) \subseteq C
        BY <1>0, <4>1, <4>2, ReachOnly
      <4> QED
        BY <4>1, <4>3, <4>4 DEF Leaves
    <3> QED
      BY <3>2, <3>3
  <2>2. Z \in SUBSET Block /\ b \in Z
    BY <1>0, <1>2
  <2> HIDE DEF Z
  <2>3. Untouched(Z)
    BY <2>1 DEF Untouched
  <2> QED
    BY <1>0, <2>2, <2>3, ArrivalsAgree
<1> QED
  BY <1>1, <1>2

\* What is left of a function takes the steps it took before, for every set of
\* functions: control goes on to the same places, and a phi is entered over the
\* same edge.
THEOREM TheStepsStayTheSame == Spec => []SameSteps
<1>1. ASSUME IInv, PathInv, StepInv, pc = "done", RemoveControlFlowFlag
      PROVE  /\ Arrivals(succ, 0, 1) = Arrivals(function.succ, 0, 1)
             /\ \A b \in Reach(succ, {1}, {}) : Visible(b) =>
                   \A t \in Targets(succ, b) : Arrivals(succ, b, t) = Arrivals(function.succ, b, t)
  <2>1. PICK ord : Settled(ord)
    BY <1>1, DoneSettled
  <2>2. PICK roots \in Roots : PDT = PostDominators(roots)
    BY <1>1 DEF PathInv
  <2>3. \A a : \A b \in Reached : Arrivals(succ, a, b) = Arrivals(function.succ, a, b)
    BY <2>1, <2>2, SameArrivals
  <2>4. /\ function \in Function /\ succ \in [Block -> Seq(Block)]
        /\ \A b \in Block : Targets(succ, b) \subseteq Targets(function.succ, b)
    BY <2>1 DEF Settled
  <2>5. /\ 1 \in Reached /\ 1 \in Block /\ Reached \subseteq Block
        /\ \A b \in Reached : Targets(succ, b) \subseteq Reached
    BY <2>4, ReachedClosed
  <2>6. Reach(succ, {1}, {}) \subseteq Reached
    <3>1. {1} \ {} \subseteq Reached /\ \A b \in Reached : Targets(succ, b) \ {} \subseteq Reached
      BY <2>5
    <3> DEFINE C == Reached
    <3> HIDE DEF C
    <3>2. {1} \ {} \subseteq C /\ \A b \in C : Targets(succ, b) \ {} \subseteq C
      BY <3>1 DEF C
    <3>3. Reach(succ, {1}, {}) \subseteq C
      BY <2>4, <2>5, <3>2, ReachInside
    <3> QED BY <3>3 DEF C
  <2> QED
    BY <2>3, <2>5, <2>6
<1>2. ASSUME IInv, StepInv, pc = "done", ~RemoveControlFlowFlag PROVE succ = function.succ
  <2>1. function \in Function /\ succ \in [Block -> Seq(Block)] /\ function.succ \in [Block -> Seq(Block)]
    BY <1>2, FunctionFacts DEF IInv, GraphOK
  <2>2. \A b \in Block : ~Gone(m, succ, b)
    BY <1>2 DEF StepInv, BlocksOK
  <2>3. \A b \in Block : succ[b] = function.succ[b]
    BY <1>2, <2>1, <2>2 DEF Gone
  <2> QED
    BY <2>1, <2>3
<1>3. IInv /\ PathInv /\ StepInv => SameSteps
  BY <1>1, <1>2 DEF SameSteps
<1> QED
  BY <1>3, StepsHold, PTL
=============================================================================
