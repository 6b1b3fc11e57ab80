-------------------------------- MODULE DCE --------------------------------
(***************************************************************************)
(* The passes -die and -dce (lab3-2/working/DCE.cpp): deletion of the      *)
(* instructions that have no effect and whose result nobody uses.          *)
(*                                                                         *)
(* Of an instruction only its operands matter, and whether it has side     *)
(* effects (a terminator has one).  Operands that are not instructions are *)
(* all alike.  An operand may come later in the function than its user, or *)
(* be the user itself: blocks are laid out in any order, phi nodes close   *)
(* loops, and in unreachable blocks anything goes.                         *)
(***************************************************************************)
EXTENDS Integers, Sequences

CONSTANTS
    Inst,       \* instructions
    None,       \* no instruction
    Value,      \* an operand that is not an instruction
    Null,       \* an operand that has been nulled
    Function    \* the functions considered

Elems(s) == { s[k] : k \in 1..Len(s) }
Distinct(s) == \A j, k \in 1..Len(s) : s[j] = s[k] => j = k

IsFunction(f) ==
    /\ f.code \in Seq(Inst) /\ Distinct(f.code)
    /\ f.operand \in [Elems(f.code) -> Seq(Elems(f.code) \cup {Value})]
    /\ f.effects \subseteq Elems(f.code)

ASSUME InstAssumption == None \notin Inst /\ Value \notin Inst /\ Null \notin Inst /\ Null # Value

ASSUME FunctionAssumption == \A f \in Function : IsFunction(f)

VARIABLES
    function,   \* the function as it was
    pass,       \* "die" or "dce"
    counted,    \* whether -debug-counter limits the deletions
    operand,    \* the operands now
    present,    \* the instructions still in the function
    left,       \* the iteration over the function: instructions still ahead
    WorkList,   \* a SmallSetVector
    deleting,   \* the instruction DCEInstruction is deleting, or None
    next,       \* the operand its loop comes to
    MadeChange

vars == << function, pass, counted, operand, present, left, WorkList, deleting, next, MadeChange >>
fixed == << function, pass, counted >>
-----------------------------------------------------------------------------
UseEmpty(x, ops) == \A u \in present : x \notin Elems(ops[u])

\* Slip: side effects are not looked at.
UnusedOnly(x, ops) == UseEmpty(x, ops)

\* isInstructionTriviallyDead
TriviallyDead(x, ops) == x \notin function.effects /\ UseEmpty(x, ops)

\* DebugCounter::shouldExecute: always true unless -debug-counter is given.
ShouldExecute == IF counted THEN BOOLEAN ELSE {TRUE}

Inserted(list, x) == IF x \in Elems(list) THEN list ELSE Append(list, x)

Init ==
    /\ function \in Function
    /\ pass \in {"die", "dce"}
    /\ counted \in BOOLEAN
    /\ operand = function.operand
    /\ present = Elems(function.code)
    /\ left = function.code
    /\ WorkList = << >>
    /\ deleting = None
    /\ next = 0
    /\ MadeChange = FALSE

\* DeadInstElimination: one sweep, and no second look at anything.
die_visit ==
    /\ pass = "die" /\ left # << >>
    /\ LET I == Head(left) IN
       \/ /\ TriviallyDead(I, operand) /\ TRUE \in ShouldExecute
          /\ present' = present \ {I}
          /\ MadeChange' = TRUE
       \/ /\ ~TriviallyDead(I, operand) \/ FALSE \in ShouldExecute
          /\ UNCHANGED << present, MadeChange >>
    /\ left' = Tail(left)
    /\ UNCHANGED << fixed, operand, WorkList, deleting, next >>

\* Slip: MadeChange holds the last answer instead of whether any was true.
DCEInstructionLastAnswer(I) ==
    \/ /\ TriviallyDead(I, operand) /\ TRUE \in ShouldExecute
       /\ deleting' = I /\ next' = 1
       /\ UNCHANGED MadeChange
    \/ /\ ~TriviallyDead(I, operand) \/ FALSE \in ShouldExecute
       /\ MadeChange' = FALSE
       /\ UNCHANGED << deleting, next >>

\* A call of DCEInstruction: it deletes I (dce_operand, dce_erase) or answers false.
DCEInstruction(I) ==
    \/ /\ TriviallyDead(I, operand) /\ TRUE \in ShouldExecute
       /\ deleting' = I /\ next' = 1
       /\ UNCHANGED MadeChange
    \/ /\ ~TriviallyDead(I, operand) \/ FALSE \in ShouldExecute
       /\ UNCHANGED << deleting, next, MadeChange >>

Sweeping == pass = "dce" /\ deleting = None /\ left # << >>

\* Slip: the sweep visits an instruction that waits in the worklist.
SweepVisitsAll ==
    /\ Sweeping
    /\ DCEInstruction(Head(left))
    /\ left' = Tail(left)
    /\ UNCHANGED << fixed, operand, present, WorkList >>

dce_visit ==
    /\ Sweeping /\ Head(left) \notin Elems(WorkList)
    /\ DCEInstruction(Head(left))
    /\ left' = Tail(left)
    /\ UNCHANGED << fixed, operand, present, WorkList >>

dce_skip ==
    /\ Sweeping /\ Head(left) \in Elems(WorkList)
    /\ left' = Tail(left)
    /\ UNCHANGED << fixed, operand, present, WorkList, deleting, next, MadeChange >>

Draining == pass = "dce" /\ deleting = None /\ left = << >> /\ WorkList # << >>

\* Slip: the last entry is read but stays in the worklist.
DrainWithoutPop ==
    /\ Draining
    /\ DCEInstruction(WorkList[Len(WorkList)])
    /\ UNCHANGED << fixed, operand, present, left, WorkList >>

dce_pop ==
    /\ Draining
    /\ DCEInstruction(WorkList[Len(WorkList)])
    /\ WorkList' = SubSeq(WorkList, 1, Len(WorkList) - 1)
    /\ UNCHANGED << fixed, operand, present, left >>

\* Slip: an operand that became dead is not queued.
OperandNotQueued ==
    /\ deleting # None /\ next <= Len(operand[deleting])
    /\ operand' = [operand EXCEPT ![deleting] = [@ EXCEPT ![next] = Null]]
    /\ next' = next + 1
    /\ UNCHANGED << fixed, present, left, WorkList, deleting, MadeChange >>

\* One turn of the loop over the operands.
dce_operand ==
    /\ deleting # None /\ next <= Len(operand[deleting])
    /\ LET OpV == operand[deleting][next]
           nulled == [operand EXCEPT ![deleting] = [@ EXCEPT ![next] = Null]]
       IN  /\ operand' = nulled
           /\ WorkList' = IF OpV \in Inst /\ OpV # deleting /\ TriviallyDead(OpV, nulled)
                          THEN Inserted(WorkList, OpV) ELSE WorkList
    /\ next' = next + 1
    /\ UNCHANGED << fixed, present, left, deleting, MadeChange >>

dce_erase ==
    /\ deleting # None /\ next > Len(operand[deleting])
    /\ present' = present \ {deleting}
    /\ deleting' = None
    /\ MadeChange' = TRUE
    /\ UNCHANGED << fixed, operand, left, WorkList, next >>

Finished == deleting = None /\ left = << >> /\ WorkList = << >>

Run == die_visit \/ dce_visit \/ dce_skip \/ dce_pop \/ dce_operand \/ dce_erase

Next == Run \/ (Finished /\ UNCHANGED vars)

Spec == Init /\ [][Next]_vars

\* The pass runs on one thread until it returns.
FairSpec == Spec /\ WF_vars(Run)
-----------------------------------------------------------------------------
Code == Elems(function.code)
Erased == Code \ present

\* The passes' variables keep their types; what is being deleted is still there,
\* and the loop over its operands stays within them.
TypeOK ==
    /\ function \in Function
    /\ pass \in {"die", "dce"} /\ counted \in BOOLEAN /\ MadeChange \in BOOLEAN
    /\ present \subseteq Code
    /\ operand \in [Code -> Seq(Code \cup {Value, Null})]
    /\ left \in Seq(Inst) /\ WorkList \in Seq(Inst)
    /\ next \in Nat
    /\ deleting # None => deleting \in present /\ next \in 1..(Len(operand[deleting]) + 1)

\* Every pointer the passes keep is to an instruction that still exists: the
\* worklist and the iterator over the function outlive deletions, the one after
\* the other, and the operands of what remains were never deleted.  The first
\* sweep skips what waits in the worklist for this reason.
NothingDangles ==
    /\ Elems(WorkList) \subseteq present /\ Elems(left) \subseteq present
    /\ \A u \in present : Elems(operand[u]) \cap Inst \subseteq present

\* What has an effect, and whatever such an instruction needs, directly or not.
Supports(S) ==
    /\ function.effects \subseteq S
    /\ \A u \in S : Elems(function.operand[u]) \cap Inst \subseteq S
Needed == { x \in Code : \A S \in SUBSET Code : Supports(S) => x \in S }

\* Neither pass deletes an instruction that something with an effect needs,
\* through however many others and whatever is in the worklist.
NeededKept == Needed \subseteq present

\* The instructions that go when the unused ones go, again and again.
Absorbs(S) ==
    \A x \in Code \ function.effects :
        (\A u \in Code \ S : x \notin Elems(function.operand[u])) => x \in S
Unwanted == { x \in Code : \A S \in SUBSET Code : Absorbs(S) => x \in S }

\* Neither pass deletes more than repeated deletion of unused instructions would;
\* -dce, when nothing limits it, deletes exactly as much: one sweep and the
\* worklist leave nothing behind, in whatever order they meet the instructions.
OrderIndependent ==
    /\ Erased \subseteq Unwanted
    /\ Finished /\ pass = "dce" /\ ~counted => Erased = Unwanted

\* The answer tells whether the function changed; PreservedAnalyses depends on it.
ChangeReported == deleting = None => (MadeChange <=> Erased # {})

\* The passes return, cycles among the operands or not.
Terminates == <>Finished
=============================================================================
