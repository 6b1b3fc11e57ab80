----------------------------- MODULE MachineCode -----------------------------
(***************************************************************************)
(* The machine code a register allocator rewrites, as LLVM offers it to    *)
(* lab4/working/RegAllocFast*.cpp: registers made of units, instructions,  *)
(* operands, and the questions MachineRegisterInfo answers.                *)
(*                                                                         *)
(* A function is a sequence of blocks, a block a sequence of instructions. *)
(* An instruction has an id (its place in the block it came from, 0 when   *)
(* the allocator put it there) and operands.  The bit that LLVM shares     *)
(* between isKill of a use and isDead of a def is "ends".                  *)
(***************************************************************************)
EXTENDS Integers, Sequences, FiniteSets

CONSTANTS
    VReg,       \* virtual registers
    PReg,       \* physical registers
    NoReg,      \* register number 0
    UnitsOf,    \* the register units of a physical register, low one first
    Alias,      \* the other registers that share a unit with one, in iterator order
    LowPart,    \* TRI->getSubReg for the one subregister index there is, NoReg for none
    Order       \* the allocation order of the class of a virtual register

Reg == VReg \cup PReg
Elements(seq) == { seq[i] : i \in 1..Len(seq) }
Units(p) == Elements(UnitsOf[p])
Overlap(p, q) == Units(p) \cap Units(q) # {}
IsSuper(p, q) == p # q /\ Units(p) \subseteq Units(q)     \* q is a superregister of p

ASSUME RegistersAssumption ==
    /\ VReg \cap PReg = {} /\ NoReg \notin VReg \cup PReg /\ IsFiniteSet(VReg)
    /\ {"disabled", "free", "reserved"} \cap (VReg \cup PReg) = {}
    /\ Alias \in [PReg -> Seq(PReg)] /\ DOMAIN UnitsOf = PReg
    /\ \A p, q \in PReg : q \in Elements(Alias[p]) <=> p # q /\ Overlap(p, q)
    /\ Order \in [VReg -> Seq(PReg)]
    /\ \A v \in VReg : Order[v] # << >>
    /\ LowPart \in [PReg -> PReg \cup {NoReg}]

ASSUME UnitsAssumption == \A p \in PReg : Units(p) # {}

-----------------------------------------------------------------------------
Operand(reg, def) ==
    [reg |-> reg, def |-> def, sub |-> 0, ends |-> FALSE, undef |-> FALSE,
     early |-> FALSE, tied |-> 0, implicit |-> FALSE]
Use(reg) == Operand(reg, FALSE)
Def(reg) == Operand(reg, TRUE)

\* slot is the virtual register whose stack slot a store or a load names.
Instr(id, op, ops, slot) == [id |-> id, op |-> op, ops |-> ops, slot |-> slot]
Inserted(op, operand, v) == Instr(0, op, << operand >>, v)

\* Operands that LLVM can build (only a virtual register has a subregister
\* index), and the opcodes that the allocators tell apart.
Operands ==
    { o \in [reg : Reg \cup {NoReg}, def : BOOLEAN, sub : Nat, ends : BOOLEAN, undef : BOOLEAN,
             early : BOOLEAN, tied : Nat, implicit : BOOLEAN] : o.reg \in PReg => o.sub = 0 }
Opcodes == {"op", "copy", "asm", "call", "term", "dbg", "store", "load", "erased"}
Instrs == [id : Nat, op : Opcodes, ops : Seq(Operands), slot : VReg \cup {NoReg}]

IsVirtual(o) == o.reg \in VReg
IsPhysical(o) == o.reg \in PReg

\* MachineInstr::readsVirtualRegister
ReadsVirtual(i, v) ==
    \/ \E o \in Elements(i.ops) : o.reg = v /\ ~o.def /\ ~o.undef
    \/ /\ \E o \in Elements(i.ops) : o.reg = v /\ o.def /\ o.sub # 0 /\ ~o.undef
       /\ ~\E o \in Elements(i.ops) : o.reg = v /\ o.def /\ (o.sub = 0 \/ o.undef)

\* MCInstrDesc: inline assembly has neither constraints nor defs there.
DescribedTies(i) == { k \in 1..Len(i.ops) : i.op # "asm" /\ ~i.ops[k].def /\ i.ops[k].tied # 0 }
NumDefs(i) == IF i.op = "asm" THEN 0
              ELSE Cardinality({ k \in 1..Len(i.ops) : i.ops[k].def /\ ~i.ops[k].implicit })
IsFullCopy(i) == i.op = "copy" /\ i.ops[1].sub = 0 /\ i.ops[2].sub = 0

-----------------------------------------------------------------------------
\* Where an instruction stands; one past the end when it is not there.
Position(block, id) ==
    IF \E j \in 1..Len(block) : block[j].id = id
    THEN CHOOSE j \in 1..Len(block) : block[j].id = id
    ELSE Len(block) + 1

InsertBefore(block, id, new) ==
    LET p == Position(block, id)
    IN  SubSeq(block, 1, p - 1) \o new \o SubSeq(block, p, Len(block))

FirstTerminator(block) ==
    IF \E j \in 1..Len(block) : block[j].op = "term"
    THEN (CHOOSE j \in 1..Len(block) : /\ block[j].op = "term"
                                       /\ \A h \in 1..(j - 1) : block[h].op # "term")
    ELSE Len(block) + 1

\* MachineRegisterInfo's use lists: the operands that still name register r.
OperandAt(fn, ref) == fn[ref[1]][ref[2]].ops[ref[3]]
RefsTo(fn, r) ==
    { ref \in UNION { UNION { {b} \X {i} \X (1..Len(fn[b][i].ops)) : i \in 1..Len(fn[b]) }
                      : b \in 1..Len(fn) } :
        fn[ref[1]][ref[2]].op # "dbg" /\ OperandAt(fn, ref).reg = r }
UsesOf(fn, r) == { ref \in RefsTo(fn, r) : ~OperandAt(fn, ref).def }
DefsOf(fn, r) == { ref \in RefsTo(fn, r) : OperandAt(fn, ref).def }
InstrsOf(refs) == { << ref[1], ref[2] >> : ref \in refs }
InstrAt(fn, at) == fn[at[1]][at[2]]
=============================================================================
