----------------------------- MODULE MCRegAlloc -----------------------------
(***************************************************************************)
(* A target of two wide registers, A and B, with parts A0, A1 and B0, and  *)
(* small functions for RegAllocFast: every sequence of a few instructions  *)
(* from a list, as long as it is code the allocator may be given: a        *)
(* register is read only when it has a value, a physical register only     *)
(* once after it is set, and the kill and dead flags it comes with are     *)
(* right.  The result is judged by AllocMeaning.                           *)
(***************************************************************************)
EXTENDS RegAllocCorrect

CONSTANT Class      \* which functions: "sound", or "tied" or "full", where version 10 fails

MCUnitsOf == [A |-> << << "a", 1 >>, << "a", 2 >> >>, A0 |-> << << "a", 1 >> >>,
              A1 |-> << << "a", 2 >> >>, B |-> << << "b", 1 >>, << "b", 2 >> >>, B0 |-> << << "b", 1 >> >>]
MCAlias == [A |-> << "A0", "A1" >>, A0 |-> << "A" >>, A1 |-> << "A" >>,
            B |-> << "B0" >>, B0 |-> << "B" >>]
MCLowPart == [A |-> "A0", B |-> "B0", A0 |-> NoReg, A1 |-> NoReg, B0 |-> NoReg]
MCOrder == [v |-> << "A", "B" >>, w |-> << "A", "B" >>, n |-> << "A0", "A1" >>]

-----------------------------------------------------------------------------
Killed(o) == [o EXCEPT !.ends = TRUE]
Undef(o) == [o EXCEPT !.undef = TRUE]
Low(o) == [o EXCEPT !.sub = 1]
Early(o) == [o EXCEPT !.early = TRUE]
Implicit(o) == [o EXCEPT !.implicit = TRUE]
Tied(o, k) == [o EXCEPT !.tied = k]
Op(ops) == Instr(1, "op", ops, NoReg)
Copy(d, s) == Instr(1, "copy", << Def(d), Use(s) >>, NoReg)
Asm(ops) == Instr(1, "asm", ops, NoReg)
Call(ops) == Instr(1, "call", ops, NoReg)
Term(ops) == Instr(1, "term", ops, NoReg)
Dbg(v) == Instr(1, "dbg", << Use(v) >>, NoReg)

Plain == { Op(<< Def("v") >>), Op(<< Def("w") >>), Op(<< Use("v") >>), Op(<< Use("w") >>),
           Op(<< Def("w"), Use("v") >>), Op(<< Use("v"), Use("w") >>) }
Setup == { Op(<< Def("v") >>), Op(<< Def("w") >>), Op(<< Def("w"), Use("v") >>) }
Some == { Op(<< Def("v") >>), Op(<< Use("v") >>), Op(<< Def("w"), Use("v") >>), Op(<< Def("w") >>), Op(<< Use("w") >>) }
Flags == { Op(<< Killed(Use("v")) >>), Op(<< Killed(Def("v")) >>), Op(<< Killed(Use("v")), Use("v") >>) }
Copies == { Copy("w", "v"), Copy("v", "A"), Copy("A", "v") }
Physical == { Op(<< Def("A") >>), Op(<< Use("A") >>), Op(<< Use("A0") >>), Op(<< Def("A0") >>),
              Call(<< Implicit(Use("A")), Implicit(Def("A")) >>), Call(<< >>), Op(<< Def("B") >>), Op(<< Def("A"), Use("v") >>) }
Narrow == { Op(<< Def("n") >>), Op(<< Use("n") >>), Op(<< Def("n"), Use("v") >>) }
Parts == { Op(<< Low(Def("v")) >>), Op(<< Low(Undef(Def("v"))) >>), Op(<< Low(Use("v")) >>) }
Odd == { Op(<< Tied(Def("v"), 2), Tied(Use("v"), 1) >>),
         Op(<< Tied(Def("v"), 2), Tied(Use("v"), 1), Implicit(Def("A")) >>),
         Asm(<< Early(Def("w")), Use("v") >>), Op(<< Undef(Use("v")), Use("w") >>),
         Asm(<< Tied(Def("v"), 2), Tied(Use("v"), 1), Use("w") >>),
         Op(<< Def("A"), Def("v") >>), Op(<< Def("v"), Def("A") >>), Dbg("v") }
End == { Term(<< >>), Term(<< Use("v") >>) }

-----------------------------------------------------------------------------
(* Code in the making: what has a value, which physical registers wait to  *)
(* be read.                                                                *)

Blank(defined, liveins) ==
    [code |-> << >>, defined |-> defined \cup UNION { Units(p) : p \in liveins }, waiting |-> liveins]

PhysUses(i) == { o.reg : o \in { o \in Elements(i.ops) : o.reg \in PReg /\ ~o.def } }
PhysDefs(i) == { o.reg : o \in { o \in Elements(i.ops) : o.reg \in PReg /\ o.def } }
Clear(waiting, P) == { q \in waiting : \A p \in P : ~Overlap(p, q) }
Wanted(i) == Read(i) \cup UNION { Whole(o.reg) \ AllTokens(o) :
                o \in { o \in Elements(i.ops) : o.reg \in VReg /\ o.def /\ o.sub # 0 /\ ~o.undef } }

May(c, i) ==
    /\ i.op # "dbg" => Wanted(i) \subseteq c.defined
    /\ i.op = "call" => Clear(c.waiting, PhysUses(i)) = {}
    /\ c.code # << >> => Last(c.code).op # "term"

\* The instruction with a value taken from the registers that hold none any more.
Add(c, i) ==
    LET waiting == Clear(c.waiting, PhysUses(i) \cup PhysDefs(i)) \cup PhysDefs(i)
        gone == UNION { Units(p) : p \in c.waiting \cup PhysUses(i) } \ UNION { Units(p) : p \in waiting }
    IN  [code |-> Append(c.code, [i EXCEPT !.id = Len(c.code) + 1]),
         defined |-> ((c.defined \ Overwritten(i)) \cup Given(i)) \ gone,
         waiting |-> waiting]

\* All code of up to n instructions from S, after one of starts.
Codes(starts, S, n) ==
    LET code[k \in 0..n] ==
            IF k = 0 THEN starts
            ELSE code[k - 1] \cup { Add(p[1], p[2]) : p \in { p \in code[k - 1] \X S :
                                        Len(p[1].code) = k - 1 /\ May(p[1], p[2]) } }
    IN  code[n]

\* The flags the code comes with are right.
FlagsHold(f) ==
    \A b \in 1..Len(f.blocks) : \A j \in 1..Len(f.blocks[b]) :
        LET later == LiveBefore(f.blocks[b], j + 1, LiveOut(f)[b])
            i == f.blocks[b][j]
        IN  \A o \in Elements(i.ops) :
                o.ends => AllTokens(o) \cap (IF o.def THEN later ELSE later \ Overwritten(i)) = {}

One(S, n, liveins) ==
    { [blocks |-> << c.code >>, succ |-> << {} >>, liveins |-> << liveins >>] :
        c \in Codes({Blank({}, Elements(liveins))}, S, n) }

Virtual(c) == { t \in c.defined : t \notin Unit }

\* Two blocks of code in some order of layout: the second, the first, and where it goes on.
Pairs(S, n, T, m) ==
    UNION { LET y == Codes({Blank(Virtual(x), {})}, T, m)
            IN  { [blocks |-> << x.code, c.code >>, succ |-> << {2}, {} >>, liveins |-> << << >>, << >> >>] : c \in y }
                \cup { [blocks |-> << x.code, c.code >>, succ |-> << {2}, {2} >>, liveins |-> << << >>, << >> >>] :
                        c \in { c \in y : Virtual(x) \subseteq c.defined } }
                \cup { [blocks |-> << << >>, c.code, x.code >>, succ |-> << {3}, {}, {2} >>,
                        liveins |-> << << >>, << >>, << >> >>] : c \in y }
            : x \in Codes({Blank({}, {})}, S, n) }

\* The flows that LLVM's dominance asks for: what a block reads has a value.
Sorted(S) == IF Cardinality(S) > 0 THEN S ELSE {}

\* Straight-line code, and code of two blocks: around physical registers and
\* copies, around constrained operands, and across blocks.
Single == One(Plain \cup Copies \cup Physical, 3, << >>) \cup One(Plain \cup Physical, 2, << "A" >>)
          \cup One(Some \cup Flags \cup Parts \cup Odd \cup Narrow, 3, << >>)
Double == Pairs(Setup, 2, Some \cup Odd \cup Parts \cup End, 2)

\* An instruction that sets a virtual register before a physical one.
MixedDefs(i) ==
    \E k \in 1..Len(i.ops), h \in 1..Len(i.ops) :
        k < h /\ i.ops[k].def /\ i.ops[k].reg \in VReg /\ i.ops[h].def /\ i.ops[h].reg \in PReg

\* The last block sets a register that an earlier one reads first as a through operand.
ThroughFirst(f) ==
    LET last == f.blocks[Len(f.blocks)]
    IN  \E b \in 1..(Len(f.blocks) - 1) :
           /\ Len(f.blocks) = 3 /\ f.blocks[b] # << >> /\ HasThroughOperands(f.blocks[b][1])
           /\ \E v \in Through(f.blocks[b][1]) : \E j \in 1..Len(last) : \E o \in Elements(last[j].ops) : o.def /\ o.reg = v

Eight == Sorted({ f \in Single \cup Double : FlagsHold(f) /\
                  \A b \in 1..Len(f.blocks) : \A i \in Elements(f.blocks[b]) : ~MixedDefs(i) })
Ten == Sorted({ f \in Single \cup Double : FlagsHold(f) /\ ~ThroughFirst(f) })
TiedFirst == Sorted({ f \in Double : FlagsHold(f) /\ ThroughFirst(f) })

\* Every register may wait to be read while a virtual one is given one.
ReadB == Op(<< Use("B") >>)
Full == { f \in One({ Op(<< Def("v") >>), Op(<< Use("v") >>), Op(<< Def("B") >>), Copy("v", "A"), ReadB }, 5, << "A" >>) :
            FlagsHold(f) /\ \E i \in Elements(f.blocks[1]) : i.ops = ReadB.ops }

MCFunctions == [x \in {8, 10} |-> CASE Class = "tied" -> IF x = 10 THEN TiedFirst ELSE {}
                                    [] Class = "full" -> IF x = 10 THEN Full ELSE {}
                                    [] OTHER -> IF x = 8 THEN Eight ELSE Ten]

\* What the theorem about NeverStuck asks of the input.
ASSUME WaitAssumption == \A x \in {8, 10} : \A f \in Functions[x] : PhysicalsWait(f)
=============================================================================
