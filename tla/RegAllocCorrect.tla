-------------------------- MODULE RegAllocCorrect --------------------------
(***************************************************************************)
(* What RegAllocFast must achieve, in either version: the properties of    *)
(* its tables, and those of the code it leaves, as AllocMeaning reads it.  *)
(***************************************************************************)
EXTENDS RegAllocFast, AllocMeaning

\* Types.  A rewritten operand names a physical register whole: setPhysReg has
\* resolved the subregister index of the virtual one.
RegTypeOK ==
    /\ ra.mbb \in 0..Len(ra.fn) /\ ra.mi \in Nat /\ opnum \in Nat
    /\ ra.regState \in [PReg -> {"disabled", "free", "reserved"} \cup VReg]
    /\ \A v \in VReg : ra.live[v].phys \in PReg \cup {NoReg}
    /\ ra.slots \cup ra.across \cup ra.dbg \cup ra.virtDead \subseteq VReg
    /\ ra.fn \in Seq(Seq(Instrs))

\* LiveVirtRegs and PhysRegState are the two directions of one map while a
\* block is allocated: what dumpState asserts at the end of allocateInstruction
\* and what every switch on a register's state relies on.
MapsAgree ==
    pc \notin {"block", "done"} =>
        \A v \in VReg, p \in PReg : ra.live[v].phys = p <=> ra.regState[p] = v

\* A register unit has one owner: of two registers that overlap, one is
\* disabled.  The alias loops of definePhysReg and usePhysReg must keep it, or
\* a value is overwritten through the other register's name.
UnitsHaveOneOwner ==
    \A p \in PReg, q \in PReg :
        p # q /\ Overlap(p, q) => "disabled" \in {ra.regState[p], ra.regState[q]}

\* The llvm_unreachable cases of usePhysReg: a physical register that holds a
\* value until its use is never given to a virtual register in between, except
\* when no register was left, which allocVirtReg reports.
NeverStuck == ra.stuck => ra.errors

\* What the allocator may expect of physical registers in its input, and does
\* not check: what an instruction reads was set in the same block, or came in
\* live, and nothing has touched it since.
Touches(i, w) ==
    i.op # "dbg" /\ \E o \in Elements(i.ops) : IsPhysical(o) /\ (o.def \/ ~o.undef) /\ Overlap(o.reg, w)

\* Operand k gives its register a value that waits to be read.
Begins(i, k) ==
    LET o == i.ops[k]
    IN  /\ i.op # "dbg" /\ IsPhysical(o) /\ o.def /\ ~o.ends /\ ~(o.early /\ o.implicit)
        /\ \A h \in 1..Len(i.ops) \ {k} :
              IsPhysical(i.ops[h]) /\ (i.ops[h].def \/ (o.early /\ ~i.ops[h].undef)) =>
                  ~Overlap(i.ops[h].reg, o.reg)

\* Register w has a value that waits before instruction j of a block's code.
Waiting(liveins, code, j, w) ==
    \/ /\ w \in Elements(liveins)
       /\ \A p \in Elements(liveins) : p # w => ~Overlap(p, w)
       /\ \A h \in 1..(j - 1) : ~Touches(code[h], w)
    \/ \E d \in 1..(j - 1) :
          /\ \E k \in 1..Len(code[d].ops) : Begins(code[d], k) /\ code[d].ops[k].reg = w
          /\ \A h \in (d + 1)..(j - 1) : ~Touches(code[h], w)

PhysicalsWait(f) ==
    \A b \in 1..Len(f.blocks) : \A j \in 1..Len(f.blocks[b]) :
        \A o \in Elements(f.blocks[b][j].ops) :
           /\ IsVirtual(o) /\ o.early => ~o.undef
           /\ f.blocks[b][j].op # "dbg" /\ IsPhysical(o) /\ ~o.def /\ ~o.undef =>
                 \A u \in Units(o.reg) :
                    \E w \in PReg : u \in Units(w) /\ Waiting(f.liveins[b], f.blocks[b], j, w)

\* Version 10 takes bonuses off impossible costs: it may take a register that
\* waits when it is the hint of a copy, unless no register is hinted ...
NoHints ==
    version = 8 \/ \A b \in 1..Len(input.blocks) : \A i \in Elements(input.blocks[b]) : i.op # "copy"

\* ... or allocVirtReg, when the operand in hand calls it, finds a register
\* whose cost is less than an impossible one with the bonus taken off.
Room(s, v) ==
    \E i \in 1..Len(Order[v]) : calcSpillCost(s, Order[v][i]) < spillImpossible - spillPrefBonus

Taken(i, o) ==
    \/ pc = "tied uses" /\ ((~o.def /\ o.tied # 0) \/ PartialRedef(i, o))
    \/ pc = "early clobbers" /\ o.early
    \/ pc = "uses" /\ ~o.def /\ (o.undef => version = 8)
    \/ pc = "defs" /\ o.def /\ ~o.early

RoomLeft ==
    pc \in {"tied uses", "early clobbers", "uses", "defs"} /\ opnum <= ra.opEnd =>
        LET o == Ops(ra)[opnum]
        IN  IsVirtual(o) /\ Taken(MI(ra), o) /\ ra.live[o.reg].phys = NoReg => Room(ra, o.reg)

\* After the last block no operand names a virtual register, not even that of
\* an undef use or a debug value.
NoVirtualLeft ==
    pc = "done" => \A b \in 1..Len(ra.fn) : \A i \in Elements(ra.fn[b]) :
                       \A o \in Elements(i.ops) : ~IsVirtual(o)

\* The code computes what it computed before: each use reads a register that
\* holds the value last given to what the operand named, through every copy,
\* store, reload, kill flag and erased instruction on the way; tied operands
\* share a register, an early clobber shares none.
ValuesReachUses ==
    pc = "done" /\ ~ra.errors =>
        \A b \in 1..Len(ra.fn) : UsesFindTheirValues(input, b, ra.fn[b])

\* What a later block reads is in its stack slot when a block ends: the comment
\* of mayLiveOut (RegAllocFast.new.cpp:265), "Returns false if VirtReg is known
\* to not live out of the current block".
LiveOutStored ==
    pc = "done" /\ ~ra.errors =>
        \A b \in 1..Len(ra.fn) : LiveOutIsStored(input, b, ra.fn[b])

=============================================================================
