-------------------------------- MODULE ADCE --------------------------------
(***************************************************************************)
(* Aggressive dead code elimination (lab3-2/working/ADCE.cpp): everything  *)
(* is dead until it is shown to be needed, branches too.                   *)
(*                                                                         *)
(* Blocks are 1..n in the order of the function, 1 is the entry.  An       *)
(* instruction is << block, k >>, the terminator k = 0.  A terminator      *)
(* that is neither a branch nor a return is "unreachable"; a switch is a   *)
(* branch with more successors.  A container that the code goes through    *)
(* in the order of pointers, or to a result that its order does not        *)
(* change, is a set from which any element may be taken next.              *)
(***************************************************************************)
EXTENDS Integers, Sequences, FiniteSets, SequencesExt

CONSTANTS
    Function,   \* the functions considered
    NoScope     \* no debug location

\* What LLVM's verifier grants: an operand is an instruction, a branch has a
\* target, an unconditional one has no condition, a return has no target, and
\* nothing branches to the entry.
ASSUME FunctionAssumption ==
    \A f \in Function :
        LET blocks == 1..f.n
            ends == { << b, 0 >> : b \in blocks }
        IN  /\ f.n \in Nat \ {0}
            /\ f.succ \in [blocks -> Seq(blocks)]
            /\ f.inst \subseteq blocks \X (Nat \ {0})
            /\ f.uses \in [f.inst \cup ends -> SUBSET f.inst]
            /\ f.effect \cup f.phi \subseteq f.inst /\ f.debug \cap f.phi = {}
            /\ \A b \in blocks : f.term[b] = "br" =>
                  f.succ[b] # << >> /\ (Len(f.succ[b]) = 1 => f.uses[<< b, 0 >>] = {})
            /\ \A b \in blocks : f.term[b] = "ret" => f.succ[b] = << >>
            /\ \A b \in blocks : \A k \in 1..Len(f.succ[b]) : f.succ[b][k] # 1

VARIABLES
    function,   \* as it was: n, term, succ, inst, uses, phi, effect, profile, debug, scope, parent
    RemoveControlFlowFlag,  \* the option -adce-remove-control-flow
    PDT,        \* post-dominators of each block; Exit is the root of the tree
    pc,
    m,          \* what is marked: BlockInfo, InstInfo and the four collections
    stack,      \* a depth-first search: the blocks on the way
    ahead,      \* and the successors each of them has still to try
    Visited,
    PostOrder,
    succ,       \* the flow graph now
    present,    \* the instructions now
    Changed     \* what removeDeadInstructions returned

vars == << function, RemoveControlFlowFlag, PDT, pc, m, stack, ahead, Visited, PostOrder, succ, present, Changed >>

Exit == 0
Block == 1..function.n
Terminator(b) == << b, 0 >>
IsTerminator(i) == i[2] = 0
Targets(g, b) == { g[b][k] : k \in 1..Len(g[b]) }
Preds(g, b) == { a \in DOMAIN g : b \in Targets(g, a) }
EndsOf(g) == { b \in DOMAIN g : g[b] = << >> }
UnconditionalBranch(b) == function.term[b] = "br" /\ Len(function.succ[b]) = 1
Everything == function.inst \cup { Terminator(b) : b \in Block }

\* The blocks that can be reached from those of B without going through some.
Reach(g, B, without) ==
    LET found[d \in 0..Len(g)] ==
            IF d = 0 THEN B \ without
            ELSE found[d - 1] \cup ((UNION { Targets(g, b) : b \in found[d - 1] }) \ without)
    IN  found[Len(g)]

\* The post-dominator tree has the blocks without successors as roots, and one
\* block of each place that no path leaves; which one is not said.
Roots ==
    LET From(b) == Reach(function.succ, {b}, {})
        endless == { b \in Block : From(b) \cap EndsOf(function.succ) = {} }
    IN  { EndsOf(function.succ) \cup R : R \in { R \in SUBSET endless :
            /\ \A b \in endless : From(b) \cap R # {}
            /\ \A r \in R : From(r) \cap R = {r} } }

PostDominators(roots) ==
    [b \in Block |-> {b, Exit} \cup { x \in Block : Reach(function.succ, {b}, {x}) \cap roots = {} }]

-----------------------------------------------------------------------------
(* Marking.                                                                *)

NothingMarked ==
    [live |-> {}, block |-> {}, cf |-> {}, phis |-> {},
     Worklist |-> {}, NewLiveBlocks |-> {}, BlocksWithDeadTerminators |-> {}, AliveScopes |-> {}]

\* A debug location's scope with those around it.
Scopes(i) ==
    LET chain[d \in 0..Cardinality(DOMAIN function.parent)] ==
            IF d = 0 THEN { function.scope[i] }
            ELSE chain[d - 1] \cup { function.parent[x] : x \in chain[d - 1] }
    IN  IF function.scope[i] = NoScope THEN {} ELSE chain[Cardinality(DOMAIN function.parent)] \ {NoScope}

\* Slip: an unconditional branch is queued but not marked.
SlipQueuedOnly(s, I) ==
    LET new == I \ s.live
    IN  [s EXCEPT !.live = @ \cup { i \in new : ~(IsTerminator(i) /\ UnconditionalBranch(i[1])) },
                  !.Worklist = @ \cup new, !.block = @ \cup { i[1] : i \in new }]

\* markLive for each instruction of I: with it its block, the targets of a
\* conditional branch, and the unconditional branches of blocks that come alive.
markLive(s, I) ==
    LET new == I \ s.live
        reached == { i[1] : i \in new }
                   \cup UNION { Targets(function.succ, i[1]) :
                                i \in { i \in new : IsTerminator(i) /\ ~UnconditionalBranch(i[1]) } }
        blocks == reached \ s.block
        all == new \cup ({ Terminator(b) : b \in { b \in blocks : UnconditionalBranch(b) } } \ s.live)
    IN  [s EXCEPT !.live = @ \cup all,
                  !.Worklist = @ \cup all,
                  !.block = @ \cup blocks,
                  !.cf = @ \cup blocks,
                  !.NewLiveBlocks = @ \cup (blocks \ s.cf),
                  !.BlocksWithDeadTerminators = @ \ { i[1] : i \in { i \in all : IsTerminator(i) } },
                  !.AliveScopes = @ \cup UNION { Scopes(i) : i \in all }]

\* Slip: profiling of a constant is kept like any other call.
SlipProfilingLive(i) ==
    \/ i \in function.effect
    \/ IsTerminator(i) /\ (RemoveControlFlowFlag => function.term[i[1]] # "br")

\* Value profiling of a constant has an effect that nobody wants.
isAlwaysLive(i) ==
    \/ i \in function.effect \ function.profile
    \/ IsTerminator(i) /\ (RemoveControlFlowFlag => function.term[i[1]] # "br")

Init ==
    /\ function \in Function /\ RemoveControlFlowFlag \in BOOLEAN
    /\ \E roots \in Roots : PDT = PostDominators(roots)
    /\ pc = "roots"
    /\ m = NothingMarked
    /\ stack = << >> /\ ahead = << >> /\ Visited = {}
    /\ PostOrder = [b \in Block |-> 0]
    /\ succ = function.succ /\ present = Everything /\ Changed = FALSE

code == << function, RemoveControlFlowFlag, PDT, succ, present, Changed >>
search == << stack, ahead, Visited, PostOrder >>

initialize_roots ==
    /\ pc = "roots" /\ pc' = IF RemoveControlFlowFlag THEN "back edges" ELSE "mark"
    /\ m' = markLive(m, { i \in Everything : isAlwaysLive(i) })
    /\ stack' = << 1 >> /\ ahead' = << function.succ[1] >> /\ Visited' = {1}
    /\ UNCHANGED << code, PostOrder >>

\* The search comes to block b: an edge to a block on its way is a back edge,
\* and the branch it belongs to stays.
BackEdgesMarked(b, way) ==
    IF Targets(function.succ, b) \cap way # {} THEN markLive(m, {Terminator(b)}) ELSE m

\* depth_first_ext over the flow graph, one edge at a time.
initialize_loops ==
    /\ pc = "back edges" /\ stack # << >>
    /\ LET top == Len(stack)
           to == Head(ahead[top])
       IN  IF ahead[top] = << >>
           THEN /\ stack' = Front(stack) /\ ahead' = Front(ahead)
                /\ UNCHANGED << m, Visited >>
           ELSE IF to \in Visited
           THEN /\ ahead' = [ahead EXCEPT ![top] = Tail(@)]
                /\ UNCHANGED << m, stack, Visited >>
           ELSE /\ stack' = Append(stack, to) /\ Visited' = Visited \cup {to}
                /\ ahead' = Append([ahead EXCEPT ![top] = Tail(@)], function.succ[to])
                /\ m' = BackEdgesMarked(to, ToSet(stack) \cup {to})
    /\ UNCHANGED << code, pc, PostOrder >>

\* The children of the root of the post-dominator tree; but for returns, their
\* whole subtrees keep their branches.
RootChildren == { b \in Block : PDT[b] = {b, Exit} }

\* Slip: places that no path leaves are not looked for.
SlipEndlessForgotten ==
    /\ pc = "back edges" /\ stack = << >> /\ pc' = "entry"
    /\ UNCHANGED << code, search, m >>

initialize_endless ==
    /\ pc = "back edges" /\ stack = << >> /\ pc' = "entry"
    /\ m' = markLive(m, { Terminator(b) : b \in { b \in Block :
                \E c \in RootChildren : function.term[c] # "ret" /\ c \in PDT[b] } })
    /\ UNCHANGED << code, search >>

initialize_entry ==
    /\ pc = "entry" /\ pc' = "mark"
    /\ LET entered == [m EXCEPT !.block = @ \cup {1}]
           s == IF UnconditionalBranch(1) THEN markLive(entered, {Terminator(1)}) ELSE entered
       IN  m' = [s EXCEPT !.BlocksWithDeadTerminators = { b \in Block : Terminator(b) \notin s.live }]
    /\ UNCHANGED << code, search >>

-----------------------------------------------------------------------------
(* markLiveInstructions.                                                   *)

\* Slip: a phi is an instruction like any other.
SlipPhiIsPlain(s, b) == [s EXCEPT !.phis = @ \cup {b}]

\* The predecessors of a block with a live phi are live as far as control goes.
markPhiLive(s, b) ==
    LET new == Preds(function.succ, b) \ s.cf
    IN  IF b \in s.phis THEN s
        ELSE [s EXCEPT !.phis = @ \cup {b}, !.cf = @ \cup new, !.NewLiveBlocks = @ \cup new]

\* Slip: the condition of a branch is not an operand.
SlipNoCondition ==
    /\ pc = "mark"
    /\ \E i \in m.Worklist :
          m' = IF IsTerminator(i) THEN [m EXCEPT !.Worklist = @ \ {i}]
               ELSE markLive([m EXCEPT !.Worklist = @ \ {i}], function.uses[i])
    /\ UNCHANGED << code, search, pc >>

\* Slip: back() instead of pop_back_val().
SlipNotPopped ==
    /\ pc = "mark"
    /\ \E i \in m.Worklist : m' = markLive(m, function.uses[i])
    /\ UNCHANGED << code, search, pc >>

markLiveInstructions ==
    /\ pc = "mark"
    /\ \E i \in m.Worklist :
          LET s == markLive([m EXCEPT !.Worklist = @ \ {i}], function.uses[i])
          IN  m' = IF i \in function.phi THEN markPhiLive(s, i[1]) ELSE s
    /\ UNCHANGED << code, search, pc >>

\* The blocks on whose branch it depends whether b is reached: the dominance
\* frontier of b in the reverse flow graph.
Controls(b) ==
    { c \in Block : /\ \E t \in Targets(function.succ, c) : b \in PDT[t]
                    /\ b = c \/ b \notin PDT[c] }

\* ReverseIDFCalculator: the frontier of B, then that of what was found, through
\* blocks of dead only.
ReverseIDF(B, dead) ==
    LET found[d \in 0..Cardinality(dead)] ==
            IF d = 0 THEN B ELSE found[d - 1] \cup (dead \cap UNION { Controls(b) : b \in found[d - 1] })
    IN  dead \cap UNION { Controls(b) : b \in found[Cardinality(dead)] }

markLiveBranchesFromControlDependences ==
    /\ pc = "mark" /\ m.Worklist = {}
    /\ LET dead == m.BlocksWithDeadTerminators
           s == markLive([m EXCEPT !.NewLiveBlocks = {}],
                         { Terminator(b) : b \in ReverseIDF(m.NewLiveBlocks, dead) })
       IN  /\ m' = IF dead = {} THEN m ELSE s
           /\ pc' = IF dead # {} /\ s.Worklist # {} THEN "mark" ELSE "dead regions"
    /\ UNCHANGED << code, search >>

-----------------------------------------------------------------------------
(* removeDeadInstructions: first the branches, then everything else.       *)

DeadBranches == { b \in m.BlocksWithDeadTerminators : ~UnconditionalBranch(b) }

\* computeReversePostOrder: from each block without successors, in order, back
\* over the edges; the order of the predecessors of a block is nobody's.
Numbered == Cardinality(Visited)

computeReversePostOrder ==
    /\ pc = "dead regions" /\ DeadBranches # {}
    /\ stack' = << >> /\ ahead' = << >> /\ Visited' = {} /\ pc' = "number"
    /\ UNCHANGED << code, m, PostOrder >>

\* Here Visited are the blocks that have been numbered.
number_next ==
    /\ pc = "number"
    /\ LET seen == Visited \cup ToSet(stack)
           b == Last(stack)
           fresh == Preds(succ, b) \ seen
           ends == EndsOf(succ) \ seen
       IN  IF stack = << >>
           THEN /\ ends # {}
                /\ stack' = << CHOOSE e \in ends : \A d \in ends : e <= d >>
                /\ UNCHANGED << Visited, PostOrder >>
           ELSE IF fresh # {}
           THEN /\ \E p \in fresh : stack' = Append(stack, p)
                /\ UNCHANGED << Visited, PostOrder >>
           ELSE /\ stack' = Front(stack) /\ Visited' = Visited \cup {b}
                /\ PostOrder' = [PostOrder EXCEPT ![b] = Numbered]
    /\ UNCHANGED << code, m, pc, ahead >>

number_end ==
    /\ pc = "number" /\ stack = << >> /\ EndsOf(succ) \subseteq Visited /\ pc' = "rewire"
    /\ UNCHANGED << code, m, search >>

\* Slip: the comparison the other way round.
SlipFarthestSucc(b) ==
    LET targets == Targets(succ, b)
    IN  CHOOSE t \in targets : \A u \in targets : PostOrder[t] <= PostOrder[u]

\* The first of the successors closest to the end of the function.
PreferredSucc(b) ==
    LET best == { k \in 1..Len(succ[b]) : \A t \in Targets(succ, b) : PostOrder[t] <= PostOrder[succ[b][k]] }
    IN  succ[b][CHOOSE k \in best : \A h \in best : k <= h]

\* updateDeadRegions for one block: a dead unconditional branch is kept, any
\* other is replaced by one (makeUnconditional).
updateDeadRegions ==
    /\ pc = "rewire" \/ (pc = "dead regions" /\ DeadBranches = {})
    /\ \E b \in m.BlocksWithDeadTerminators :
          /\ succ' = IF UnconditionalBranch(b) THEN succ ELSE [succ EXCEPT ![b] = << PreferredSucc(b) >>]
          /\ m' = [m EXCEPT !.live = @ \cup {Terminator(b)},
                            !.BlocksWithDeadTerminators = @ \ {b},
                            !.AliveScopes = IF UnconditionalBranch(b) THEN @ ELSE @ \cup Scopes(Terminator(b))]
    /\ UNCHANGED << function, RemoveControlFlowFlag, PDT, present, Changed, search, pc >>

\* What is not live goes, save a debug intrinsic in a scope that is alive.
removeDeadInstructions ==
    /\ pc \in {"rewire", "dead regions"} /\ m.BlocksWithDeadTerminators = {}
    /\ LET dead == { i \in present : i \notin m.live /\ ~(i \in function.debug /\ function.scope[i] \in m.AliveScopes) }
       IN  present' = present \ dead /\ Changed' = (dead # {})
    /\ pc' = "done"
    /\ UNCHANGED << function, RemoveControlFlowFlag, PDT, m, search, succ >>

Done == pc = "done" /\ UNCHANGED vars

Next ==
    \/ initialize_roots \/ initialize_loops \/ initialize_endless \/ initialize_entry
    \/ markLiveInstructions \/ markLiveBranchesFromControlDependences
    \/ computeReversePostOrder \/ number_next \/ number_end
    \/ updateDeadRegions \/ removeDeadInstructions \/ Done

Spec == Init /\ [][Next]_vars /\ WF_vars(Next)
-----------------------------------------------------------------------------
(* What the pass must achieve.                                             *)

AdceTypeOK ==
    /\ m.live \subseteq Everything /\ m.Worklist \subseteq m.live
    /\ m.block \cup m.cf \cup m.phis \cup m.NewLiveBlocks \subseteq Block
    /\ m.BlocksWithDeadTerminators \subseteq Block
    /\ \A b \in Block : Targets(succ, b) \subseteq Targets(function.succ, b)

Rewired(b) == succ[b] # function.succ[b]

\* A block where one can tell that control has come: something in it is left to
\* do or to decide, or the function ends.
Visible(b) ==
    \/ \E i \in present \ function.debug : i[1] = b /\ ~IsTerminator(i)
    \/ ~Rewired(b) /\ ~UnconditionalBranch(b)

\* Where control comes to next after an edge into b: a visible block, with the
\* edge it comes over when a phi is there to ask.
Arrivals(g, a, b) ==
    LET Edges(e) == IF Visible(e[2]) THEN {e} ELSE { << e[2], t >> : t \in Targets(g, e[2]) }
        found[d \in 0..(Len(g) + 1)] ==
            IF d = 0 THEN { << a, b >> } ELSE UNION { Edges(e) : e \in found[d - 1] }
        HasPhi(x) == \E i \in function.phi \cap present : i[1] = x
    IN  { IF ~Visible(e[2]) THEN << "silent" >> ELSE IF HasPhi(e[2]) THEN e ELSE << e[2] >> :
          e \in found[Len(g) + 1] }

\* The code that is left behaves as before: from every place where it can tell
\* that control has come, control goes to the same place next, whatever the
\* branches decided that were removed, and a phi left there is entered over the
\* same edge.
SameSteps ==
    pc = "done" =>
        /\ Arrivals(succ, 0, 1) = Arrivals(function.succ, 0, 1)
        /\ \A b \in Reach(succ, {1}, {}) : Visible(b) =>
              \A t \in Targets(succ, b) : Arrivals(succ, b, t) = Arrivals(function.succ, b, t)

\* Nothing that is left uses what is gone (hazard: instructions are collected,
\* stripped and deleted in three loops).
OperandsRemain ==
    pc = "done" => \A i \in present \ function.debug :
        (IsTerminator(i) /\ Rewired(i[1])) \/ function.uses[i] \subseteq present

\* The opposite: nothing is left that nothing left uses, which is what the pass
\* is for, but effects that somebody wants: profiling of a constant is no reason
\* to stay, and neither is being a phi.
KeptForAReason ==
    pc = "done" => \A i \in present \ ((function.effect \ function.profile) \cup function.debug) :
        IsTerminator(i) \/ \E j \in present :
            i \in function.uses[j] /\ ~(IsTerminator(j) /\ Rewired(j[1]))

\* The assertion of updateDeadRegions (ADCE.cpp:629), "Failed to find safe
\* successor for dead branch".
SafeSuccessor ==
    pc = "rewire" => \A b \in DeadBranches : PostOrder[PreferredSucc(b)] > 0

\* "which insures a path to the exit for each live edge" (ADCE.cpp:620): what
\* could reach a return still can, and no removed branch closes a circle.
StillReturns ==
    LET Returning(g) == { b \in DOMAIN g : Reach(g, {b}, {}) \cap EndsOf(g) # {} }
    IN  pc = "done" => Returning(function.succ) = Returning(succ)

\* The do-while loop of markLiveInstructions and the searches end.
Terminates == <>(pc = "done")
=============================================================================
