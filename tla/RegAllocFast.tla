---------------------------- MODULE RegAllocFast ----------------------------
(***************************************************************************)
(* The fast register allocator of lab4, in both versions the repository    *)
(* keeps: RegAllocFast.cpp (LLVM 8, version 8 here) and                    *)
(* RegAllocFast.new.cpp (LLVM 10, version 10).  Blocks are allocated in    *)
(* layout order, instruction by instruction, operand by operand: an action *)
(* is one operand of one scan, or what the code does between two scans.    *)
(*                                                                         *)
(* ra holds the allocator's members and the locals of allocateInstruction. *)
(* A method that changes them is an operator from one value of ra to the   *)
(* next.  A loop over aliases or over live registers is written as what it *)
(* has done in the end: its stores go to different slots and commute.      *)
(***************************************************************************)
EXTENDS MachineCode, SequencesExt

CONSTANTS
    Functions,      \* what each version may be given: [blocks, succ, liveins]
    UnsignedMax,    \* the largest unsigned, ~0u
    UseLimit        \* Limit of mayLiveOut and mayLiveIn, 8 in the code

VARIABLES
    version,    \* 8 or 10
    input,      \* the function as it came
    pc,         \* the scan the allocator is in
    opnum,      \* the operand it has come to
    ra

vars == << version, input, pc, opnum, ra >>

spillClean == 50
spillDirty == 100
spillPrefBonus == 20
spillImpossible == UnsignedMax

ASSUME CostAssumption == UnsignedMax \in Nat /\ UnsignedMax > 4 * spillDirty /\ UseLimit \in Nat

\* Blocks are numbered from their first instruction on; a debug value names one register;
\* physical registers are live in.
ASSUME CodeAssumption ==
    \A x \in {8, 10} : \A f \in Functions[x] :
       /\ f.blocks \in Seq(Seq(Instrs))
       /\ \A b \in 1..Len(f.blocks) : f.liveins[b] \in Seq(PReg)
       /\ \A b \in 1..Len(f.blocks) : \A j \in 1..Len(f.blocks[b]) :
             f.blocks[b][j].id = j /\ (f.blocks[b][j].op = "dbg" => Len(f.blocks[b][j].ops) = 1)

NotLive == [phys |-> NoReg, lastUse |-> 0, lastOpNum |-> 0, dirty |-> FALSE]

Start(fn) ==
    [fn |-> fn, mbb |-> 0, mi |-> 0,
     regState |-> [p \in PReg |-> "disabled"], live |-> [v \in VReg |-> NotLive],
     used |-> {}, slots |-> {}, across |-> {}, dbg |-> {},
     virtDead |-> {}, coalesced |-> {},
     copyDst |-> NoReg, copySrc |-> NoReg, sameSub |-> TRUE,
     earlyClobbers |-> FALSE, partialDefs |-> {}, opEnd |-> 0,
     errors |-> FALSE, stuck |-> FALSE]

Init ==
    /\ version \in {8, 10}
    /\ input \in Functions[version]
    /\ pc = "block" /\ opnum = 1
    /\ ra = Start(input.blocks)

-----------------------------------------------------------------------------
Block(s) == s.fn[s.mbb]
MI(s) == Block(s)[Position(Block(s), s.mi)]
Ops(s) == MI(s).ops
Succ(s) == input.succ[s.mbb]
Pred(s) == { b \in 1..Len(s.fn) : s.mbb \in input.succ[b] }

\* A function on 1..n as the sequence it is.
MapSeq(f) == SubSeq(f, 1, Len(f))

SetOps(s, ops) == [s EXCEPT !.fn[s.mbb][Position(Block(s), s.mi)].ops = ops]
SetOp(s, k, o) == SetOps(s, [Ops(s) EXCEPT ![k] = o])
SetEnds(s, k, flag) == SetOp(s, k, [Ops(s)[k] EXCEPT !.ends = flag])
AddImplicit(s, o) == SetOps(s, Append(Ops(s), [o EXCEPT !.implicit = TRUE]))
AddKilled(s, p) == AddImplicit(s, [Use(p) EXCEPT !.ends = TRUE])
Insert(s, code) == [s EXCEPT !.fn[s.mbb] = InsertBefore(@, s.mi, code)]

markRegUsedInInstr(s, p) == [s EXCEPT !.used = @ \cup Units(p)]
isRegUsedInInstr(s, p) == Units(p) \cap s.used # {}
Allocated(s, P) == { s.regState[p] : p \in P } \cap VReg

-----------------------------------------------------------------------------
(* Spilling and killing.                                                   *)

\* Slip: the store always kills the register.
SlipStoreKills(s, V) ==
    LET code == [i \in 1..Cardinality(V) |->
                    Inserted("store", [Use(s.live[SetToSeq(V)[i]].phys) EXCEPT !.ends = TRUE], SetToSeq(V)[i])]
    IN  [Insert(s, MapSeq(code)) EXCEPT !.slots = @ \cup V]

\* spill, for the registers of V that are dirty: a store before MI, and for
\* each debug value a new one that names the slot.
spill(s, V) ==
    LET Store(v) == << Inserted("store", [Use(s.live[v].phys) EXCEPT
                                            !.ends = s.live[v].lastUse # s.mi], v) >>
                    \o (IF v \in s.dbg THEN << Inserted("dbg", Use(NoReg), v) >> ELSE << >>)
        code == [i \in 1..Cardinality(V) |-> Store(SetToSeq(V)[i])]
    IN  [Insert(s, FlattenSeq(code)) EXCEPT !.slots = @ \cup V, !.dbg = @ \ V]

\* The last use of a register of V becomes its kill.
KillFlag(s, V, i, k) ==
    \E v \in V :
       /\ i.id # 0 /\ s.live[v].lastUse = i.id /\ s.live[v].lastOpNum = k
       /\ ~i.ops[k].def /\ i.ops[k].tied = 0
       /\ i.ops[k].reg = s.live[v].phys

addKillFlag(s, V) ==
    LET Flagged(i) == MapSeq([k \in 1..Len(i.ops) |->
                                [i.ops[k] EXCEPT !.ends = @ \/ KillFlag(s, V, i, k)]])
    IN  [s EXCEPT !.fn[s.mbb] = MapSeq([j \in 1..Len(@) |-> [Block(s)[j] EXCEPT !.ops = Flagged(Block(s)[j])]])]

\* Slip: the register of a killed one is not given back.
SlipKillKeepsState(s, V) ==
    [addKillFlag(s, V) EXCEPT
        !.live = [v \in VReg |-> IF v \in V THEN [s.live[v] EXCEPT !.phys = NoReg] ELSE s.live[v]]]

killVirtReg(s, V) ==
    [addKillFlag(s, V) EXCEPT
        !.regState = [p \in PReg |-> IF \E v \in V : s.live[v].phys = p THEN "free"
                                     ELSE s.regState[p]],
        !.live = [v \in VReg |-> IF v \in V THEN [s.live[v] EXCEPT !.phys = NoReg]
                                 ELSE s.live[v]]]

spillVirtReg(s, V) ==
    LET dirty == { v \in V : s.live[v].dirty }
        spilled == [v \in VReg |->
                      IF v \notin dirty THEN s.live[v]
                      ELSE [s.live[v] EXCEPT !.dirty = FALSE,
                                             !.lastUse = IF @ # s.mi THEN 0 ELSE @]]
    IN  killVirtReg([spill(s, dirty) EXCEPT !.live = spilled], V)

\* Is v named outside the current block, or too often in it to look?
SeenElsewhere(s, refs) ==
    \/ \E at \in InstrsOf(refs) : at[1] # s.mbb
    \/ Cardinality(InstrsOf(refs)) >= UseLimit

AcrossOut(s, v) == \/ v \in s.across
                   \/ s.mbb \in Succ(s)
                   \/ SeenElsewhere(s, RefsTo(s.fn, v))
mayLiveOut(s, v) == AcrossOut(s, v) /\ Succ(s) # {}

\* Slip: what was found out is not recorded.
SlipNotRecorded(s, v) == s

mayLiveIn(s, v) ==
    IF SeenElsewhere(s, DefsOf(s.fn, v)) THEN [s EXCEPT !.across = @ \cup {v}] ELSE s

\* LiveVirtRegs is cleared; what was not spilled is forgotten.
spillAll(s, onlyLiveOut) ==
    LET mapped == { v \in VReg : s.live[v].phys # NoReg }
        asked == { v \in mapped : AcrossOut(s, v) }
        V == IF onlyLiveOut THEN { v \in mapped : mayLiveOut(s, v) } ELSE mapped
    IN  [spillVirtReg(s, V) EXCEPT !.live = [v \in VReg |-> NotLive],
                                   !.across = IF onlyLiveOut THEN @ \cup asked ELSE @]

-----------------------------------------------------------------------------
(* Physical registers.                                                     *)

\* The aliases of p as a loop over them passes: up to and with the first
\* superregister that is not disabled.
SuperAt(s, p) == { j \in 1..Len(Alias[p]) :
                     s.regState[Alias[p][j]] # "disabled" /\ IsSuper(p, Alias[p][j]) }
Passed(s, p) ==
    { Alias[p][j] : j \in { j \in 1..Len(Alias[p]) :
                               /\ s.regState[Alias[p][j]] # "disabled"
                               /\ \A h \in SuperAt(s, p) : j <= h \/ \E g \in SuperAt(s, p) : g < h } }

\* Registers in P are disabled, p gets a new state.
Cleared(s, P, p, new) ==
    [s EXCEPT !.regState = [q \in PReg |-> IF q = p THEN new
                                           ELSE IF q \in P THEN "disabled" ELSE s.regState[q]]]

usePhysReg(s, k) ==
    LET p == Ops(s)[k].reg
        m == markRegUsedInInstr(s, p)
        supers == { q \in Passed(s, p) : IsSuper(p, q) }
    IN  IF Ops(s)[k].undef THEN s
        ELSE IF s.regState[p] \in {"reserved", "free"} THEN SetEnds(Cleared(m, {}, p, "free"), k, TRUE)
        ELSE IF Allocated(s, Passed(s, p) \cup {p}) # {} THEN [m EXCEPT !.stuck = TRUE]
        ELSE IF supers # {}
             THEN LET q == CHOOSE q \in supers : TRUE
                  IN  AddKilled(Cleared(m, Passed(s, p), q, "free"), q)
        ELSE SetEnds(Cleared(m, Passed(s, p), p, "free"), k, TRUE)

\* Slip: aliases are not looked at.
SlipNoAliases(s, p, new) ==
    Cleared(spillVirtReg(markRegUsedInInstr(s, p), Allocated(s, {p})), {p}, p, new)

definePhysReg(s, p, new) ==
    LET hit == IF s.regState[p] = "disabled" THEN Passed(s, p) ELSE {p}
    IN  Cleared(spillVirtReg(markRegUsedInInstr(s, p), Allocated(s, hit)), hit, p, new)

\* Slip: a register that waits for its use can be bought.
SlipReservedIsCheap(s, q) ==
    CASE s.regState[q] = "disabled" -> 0
      [] s.regState[q] \in {"free", "reserved"} -> 1
      [] OTHER -> IF s.live[s.regState[q]].dirty THEN spillDirty ELSE spillClean

\* The cost of one register that is not disabled, apart from its aliases.
CostOf(s, q) ==
    CASE s.regState[q] = "disabled" -> 0
      [] s.regState[q] = "free" -> 1
      [] s.regState[q] = "reserved" -> spillImpossible
      [] OTHER -> IF s.live[s.regState[q]].dirty THEN spillDirty ELSE spillClean

calcSpillCost(s, p) ==
    LET paid(c) == c * Cardinality({ j \in 1..Len(Alias[p]) : CostOf(s, Alias[p][j]) = c })
    IN  IF isRegUsedInInstr(s, p) THEN spillImpossible
        ELSE IF s.regState[p] = "free" THEN 0
        ELSE IF s.regState[p] # "disabled" THEN CostOf(s, p)
        ELSE IF \E q \in Elements(Alias[p]) : s.regState[q] = "reserved" THEN spillImpossible
        ELSE paid(1) + paid(spillClean) + paid(spillDirty)

assignVirtToPhysReg(s, v, p) ==
    [s EXCEPT !.live[v].phys = p, !.regState[p] = v]

\* Make room in p if it costs anything, then assign.
Take(s, v, p) ==
    assignVirtToPhysReg(IF calcSpillCost(s, p) > 0 THEN definePhysReg(s, p, "free") ELSE s, v, p)

-----------------------------------------------------------------------------
(* Choosing a register.                                                    *)

Usable(v, hint) == hint \in Elements(Order[v])      \* physical, allocatable, of the class

First(S) == CHOOSE i \in S : \A j \in S : i <= j

\* The first register of least cost; when every cost is impossible there is none,
\* and the first register of all is taken in spite of it, with an error.
TakeCheapest(s, v, cost) ==
    LET order == Order[v]
        possible == { i \in 1..Len(order) : cost[i] < spillImpossible }
        best == First({ i \in possible : \A j \in possible : cost[i] <= cost[j] })
    IN  IF possible = {}
        THEN [assignVirtToPhysReg(definePhysReg(s, order[1], "free"), v, order[1])
                EXCEPT !.errors = TRUE]
        ELSE Take(s, v, order[best])

Costs(s, v) == [i \in 1..Len(Order[v]) |-> calcSpillCost(s, Order[v][i])]

allocVirtReg8(s, v, hint) ==
    LET order == Order[v]
        idle == { i \in 1..Len(order) :
                    s.regState[order[i]] = "free" /\ ~isRegUsedInInstr(s, order[i]) }
    IN  IF Usable(v, hint) /\ calcSpillCost(s, hint) < spillDirty THEN Take(s, v, hint)
        ELSE IF idle # {} THEN assignVirtToPhysReg(s, v, order[First(idle)])
        ELSE TakeCheapest(s, v, Costs(s, v))

\* Follow copies back from r, at most four of them, to a physical register.
traceCopyChain(s, r) ==
    LET Source(q) ==
            LET at == InstrsOf(DefsOf(s.fn, q))
            IN  IF Cardinality(at) = 1 /\ \A i \in at : IsFullCopy(InstrAt(s.fn, i))
                THEN InstrAt(s.fn, CHOOSE i \in at : TRUE).ops[2].reg ELSE NoReg
        chain[n \in 0..3] ==
            IF n = 0 THEN r
            ELSE IF chain[n - 1] \in VReg THEN Source(chain[n - 1]) ELSE chain[n - 1]
    IN  IF chain[3] \in PReg THEN chain[3] ELSE NoReg

\* Functions here have at most three definitions of a register, the limit of the code.
traceCopies(s, v) ==
    LET copies == { i \in InstrsOf(DefsOf(s.fn, v)) : IsFullCopy(InstrAt(s.fn, i)) }
        found == { traceCopyChain(s, InstrAt(s.fn, i).ops[2].reg) : i \in copies } \ {NoReg}
    IN  IF found = {} THEN NoReg ELSE CHOOSE p \in found : TRUE

allocVirtReg10(s, v, hint) ==
    LET traced == traceCopies(s, v)
        hint0 == IF Usable(v, hint) THEN hint ELSE NoReg
        hint1 == IF Usable(v, traced) /\ ~isRegUsedInInstr(s, traced) THEN traced ELSE NoReg
        Cheap(h) == h # NoReg /\ calcSpillCost(s, h) < spillDirty
        idle == { i \in 1..Len(Order[v]) : calcSpillCost(s, Order[v][i]) = 0 }
        preferred == [i \in 1..Len(Order[v]) |->
            IF Order[v][i] \in {hint0, hint1}
            THEN (calcSpillCost(s, Order[v][i]) - spillPrefBonus) % (UnsignedMax + 1)
            ELSE calcSpillCost(s, Order[v][i])]
    IN  IF Cheap(hint0) THEN Take(s, v, hint0)
        ELSE IF Cheap(hint1) THEN Take(s, v, hint1)
        ELSE IF idle # {} THEN assignVirtToPhysReg(s, v, Order[v][First(idle)])
        ELSE TakeCheapest(s, v, preferred)

allocVirtReg(s, v, hint) ==
    IF version = 8 THEN allocVirtReg8(s, v, hint) ELSE allocVirtReg10(s, v, hint)

-----------------------------------------------------------------------------
(* Uses and definitions of virtual registers.                              *)

\* The operand is the only one left that names v, and v never had a slot.
isLastUseOfLocalReg(s, v) == v \notin s.slots /\ Cardinality(RefsTo(s.fn, v)) = 1

reload(s, v) == [Insert(s, << Inserted("load", Def(s.live[v].phys), v) >>) EXCEPT !.slots = @ \cup {v}]

\* v was last named by operand k of MI.
Named(s, v, k, dirty) ==
    [markRegUsedInInstr(s, s.live[v].phys) EXCEPT
        !.live[v] = [phys |-> s.live[v].phys, lastUse |-> s.mi, lastOpNum |-> k, dirty |-> dirty]]

reloadVirtReg(s, k, v, hint) ==
    Named(IF s.live[v].phys # NoReg
          THEN SetEnds(s, k, s.live[v].dirty /\ isLastUseOfLocalReg(s, v))
          ELSE reload(allocVirtReg(s, v, hint), v),
          v, k, s.live[v].dirty)

\* Without a hint, the target of the copy that is the only use of v.
CopyHint(s, v, hint) ==
    LET uses == UsesOf(s.fn, v)
        user == InstrAt(s.fn, CHOOSE at \in InstrsOf(uses) : TRUE)
    IN  IF hint \notin PReg /\ Cardinality(uses) = 1 /\ user.op = "copy" THEN user.ops[1].reg ELSE hint

defineVirtReg(s, k, v, hint) ==
    LET l == s.live[v]
        killed == l.lastUse # 0 /\ (l.lastUse # s.mi \/ ~Ops(s)[l.lastOpNum].def)
    IN  Named(IF l.phys = NoReg THEN allocVirtReg(s, v, CopyHint(s, v, hint))
              ELSE IF killed THEN addKillFlag(s, {v}) ELSE s,
              v, k, TRUE)

\* Slip: the subregister index stays.
SlipIndexStays(s, k, p) == SetOp(s, k, [Ops(s)[k] EXCEPT !.reg = p])

setPhysReg(s, k, p) ==
    LET o == Ops(s)[k]
        low == SetOp(s, k, [o EXCEPT !.reg = LowPart[p], !.sub = 0])
    IN  IF o.sub = 0 THEN SetOp(s, k, [o EXCEPT !.reg = p])
        ELSE IF ~o.def /\ o.ends THEN AddKilled(low, p)
        ELSE IF o.def /\ o.undef THEN AddImplicit(low, Def(p))
        ELSE low

-----------------------------------------------------------------------------
(* allocateInstruction.                                                    *)

\* One operand of a scan; after the last one the next scan begins.
Scan(scan, next, handled) ==
    /\ pc = scan
    /\ IF opnum <= ra.opEnd
       THEN ra' = handled /\ opnum' = opnum + 1 /\ pc' = pc
       ELSE opnum' = 1 /\ pc' = next /\ UNCHANGED ra
    /\ UNCHANGED << version, input >>

\* What the code does between two scans.
Between(scan, next, s) ==
    /\ pc = scan /\ pc' = next /\ opnum' = 1 /\ ra' = s
    /\ UNCHANGED << version, input >>

allocateInstruction ==
    LET i == MI(ra)
        copy == i.op = "copy"
    IN  /\ ra.mbb # 0 /\ ra.mi <= Len(input.blocks[ra.mbb]) /\ i.op # "dbg"
        /\ Between("instruction", "first scan",
             [ra EXCEPT !.used = {}, !.earlyClobbers = FALSE, !.partialDefs = {},
                        !.opEnd = Len(i.ops),
                        !.copyDst = IF copy THEN i.ops[1].reg ELSE NoReg,
                        !.copySrc = IF copy THEN i.ops[2].reg ELSE NoReg,
                        !.sameSub = copy => i.ops[1].sub = i.ops[2].sub])

\* Physical uses and early clobbers.
FirstScanOperand(k) ==
    LET o == Ops(ra)[k] IN
    IF ~IsPhysical(o) THEN ra
    ELSE IF ~o.def THEN usePhysReg(ra, k)
    ELSE IF o.early THEN definePhysReg(ra, o.reg, IF o.implicit \/ o.ends THEN "free" ELSE "reserved")
    ELSE ra

FirstScan == Scan("first scan", "through?", FirstScanOperand(opnum))

PartialRedef(i, o) == IsVirtual(o) /\ o.def /\ o.sub # 0 /\ ReadsVirtual(i, o.reg)

\* Operands that must have the same register when read and when written.
HasThroughOperands(i) ==
    LET PhysDefs == { o \in Elements(i.ops) : IsPhysical(o) /\ o.def /\ ~o.early }
        Ties == { k \in DescribedTies(i) : IsVirtual(i.ops[k]) }
    IN  \/ i.op = "asm"
        \/ \E o \in Elements(i.ops) : (o.early /\ o.def) \/ PartialRedef(i, o)
        \/ Ties # {} /\ (PhysDefs # {} \/ NumDefs(i) > 1)

Through(i) ==
    { o.reg : o \in { o \in Elements(i.ops) :
        IsVirtual(o) /\ (o.early \/ (~o.def /\ o.tied # 0) \/ (o.sub # 0 /\ ReadsVirtual(i, o.reg))) } }

\* Through registers that a physical definition overwrites are spilled.
HandleCollisions ==
    LET defs == { o.reg : o \in { o \in Elements(Ops(ra)) : IsPhysical(o) /\ o.def } }
        hit == { q \in PReg : /\ ra.regState[q] \in Through(MI(ra))
                              /\ \E p \in defs : Overlap(p, q) }
    IN  Between("through?", IF HasThroughOperands(MI(ra)) THEN "tied uses" ELSE "uses",
                IF HasThroughOperands(MI(ra))
                THEN [spillVirtReg(ra, Allocated(ra, hit)) EXCEPT
                        !.used = @ \cup UNION { Units(p) : p \in defs \cup hit },
                        !.copyDst = NoReg, !.earlyClobbers = TRUE]
                ELSE ra)

TiedOperand(k) ==
    LET o == Ops(ra)[k]
        tied == ~o.def /\ o.tied # 0
        InRegister(t) == IF tied THEN setPhysReg(t, k, t.live[o.reg].phys)
                         ELSE [t EXCEPT !.partialDefs = @ \cup {t.live[o.reg].phys}]
    IN  IF IsVirtual(o) /\ (tied \/ PartialRedef(MI(ra), o))
        THEN InRegister(reloadVirtReg(ra, k, o.reg, NoReg)) ELSE ra

TiedUses == Scan("tied uses", "early clobbers", TiedOperand(opnum))

\* A definition gets its register; a dead one is killed after the instruction.
Rewritten(t, k, v) ==
    [setPhysReg(t, k, t.live[v].phys) EXCEPT
        !.virtDead = IF Ops(t)[k].ends THEN @ \cup {v} ELSE @]

DefinedOperand(s, k, hint) ==
    Rewritten(defineVirtReg(s, k, Ops(s)[k].reg, hint), k, Ops(s)[k].reg)

EarlyClobberOperand(k) ==
    LET o == Ops(ra)[k]
    IN  IF IsVirtual(o) /\ o.early THEN DefinedOperand(ra, k, NoReg) ELSE ra

EarlyClobbers == Scan("early clobbers", "restore", EarlyClobberOperand(opnum))

RestoreUsed ==
    LET seen == { o.reg : o \in { o \in Elements(Ops(ra)) : IsPhysical(o) /\ (~o.def \/ o.early) } }
    IN  Between("restore", "uses",
                [ra EXCEPT !.used = UNION { Units(p) : p \in seen \cup ra.partialDefs }])

\* Second scan: a use is in a register, reloaded if need be, and is rewritten.
Loaded(t, k, v) ==
    LET p == t.live[v].phys
        u == [setPhysReg(t, k, p) EXCEPT !.copySrc = IF @ \in {v, p} THEN p ELSE NoReg]
    IN  IF Ops(t)[k].ends THEN killVirtReg(u, {v}) ELSE u

UseOperand(k) ==
    LET o == Ops(ra)[k]
        s == IF version = 8 THEN ra ELSE mayLiveIn(ra, o.reg)
    IN  IF ~IsVirtual(o) \/ o.def \/ (version = 10 /\ o.undef) THEN ra
        ELSE Loaded(reloadVirtReg(s, k, o.reg, ra.copyDst), k, o.reg)

Uses == Scan("uses", "undef uses", UseOperand(opnum))

\* Version 10 gives an undef use any register; only those are left.
\* Slip: only what has a register is rewritten.
SlipUndefLeft(s, o) ==
    IF IsVirtual(o) /\ ~o.def /\ s.live[o.reg].phys # NoReg
    THEN [o EXCEPT !.reg = s.live[o.reg].phys, !.sub = 0] ELSE o

allocVirtRegUndef(s, o) ==
    LET p == IF s.live[o.reg].phys # NoReg THEN s.live[o.reg].phys ELSE Order[o.reg][1]
    IN  IF ~IsVirtual(o) \/ o.def THEN o
        ELSE [o EXCEPT !.reg = IF o.sub = 0 THEN p ELSE LowPart[p], !.sub = 0]

UndefUses ==
    Between("undef uses", "before defs",
            SetOps(ra, MapSeq([k \in 1..Len(Ops(ra)) |-> allocVirtRegUndef(ra, Ops(ra)[k])])))

BeforeDefs ==
    LET kept == { o.reg : o \in { o \in Elements(Ops(ra)) : IsPhysical(o) /\ (o.def \/ o.tied # 0) } }
        s == [ra EXCEPT !.opEnd = Len(Ops(ra)),
                        !.used = IF ra.earlyClobbers THEN UNION { Units(p) : p \in kept } ELSE {}]
    IN  Between("before defs", IF version = 8 THEN "defs" ELSE "physical defs",
                IF MI(ra).op = "call" THEN spillAll(s, FALSE) ELSE s)

PhysDefOperand(k) ==
    LET o == Ops(ra)[k]
    IN  IF IsPhysical(o) /\ o.def /\ ~o.early
        THEN definePhysReg(ra, o.reg, IF o.ends THEN "free" ELSE "reserved") ELSE ra

PhysicalDefs == Scan("physical defs", "defs", PhysDefOperand(opnum))

VirtDefOperand(k) ==
    LET o == Ops(ra)[k]
        Coalescing(t) == LET p == t.live[o.reg].phys
                         IN  [t EXCEPT !.copyDst = IF ~o.ends /\ @ \in {o.reg, p} THEN p ELSE NoReg]
    IN  IF IsVirtual(o) /\ o.def /\ ~o.early THEN Coalescing(DefinedOperand(ra, k, ra.copySrc)) ELSE ra

\* Version 8 takes physical and virtual definitions in the order of the operands.
DefOperand(k) == IF version = 8 /\ IsPhysical(Ops(ra)[k]) THEN PhysDefOperand(k) ELSE VirtDefOperand(k)

Definitions == Scan("defs", "finish", DefOperand(opnum))

FinishInstruction ==
    LET s == killVirtReg(ra, { v \in VReg : v \in ra.virtDead /\ ra.live[v].phys # NoReg })
        identity == /\ ra.copyDst # NoReg /\ ra.copyDst = ra.copySrc /\ ra.sameSub
    IN  Between("finish", "instruction",
                [s EXCEPT !.virtDead = {}, !.mi = @ + 1,
                          !.coalesced = IF identity THEN @ \cup {ra.mi} ELSE @])

-----------------------------------------------------------------------------
(* Debug values, blocks and functions.                                     *)

handleDebugValue ==
    LET i == MI(ra)
        v == i.ops[1].reg
        p == ra.live[v].phys
        s == IF ~IsVirtual(i.ops[1]) THEN ra
             ELSE IF p # NoReg THEN [setPhysReg(ra, 1, p) EXCEPT !.dbg = @ \cup {v}]
             ELSE IF v \in ra.slots
                  THEN [ra EXCEPT !.fn[ra.mbb][Position(Block(ra), ra.mi)] =
                          Instr(ra.mi, "dbg", << Use(NoReg) >>, v)]
             ELSE [SetOp(ra, 1, [i.ops[1] EXCEPT !.reg = NoReg]) EXCEPT !.dbg = @ \cup {v}]
    IN  /\ ra.mbb # 0 /\ ra.mi <= Len(input.blocks[ra.mbb]) /\ i.op = "dbg"
        /\ Between("instruction", "instruction", [s EXCEPT !.mi = @ + 1])

BeginBlock ==
    /\ ra.mbb < Len(ra.fn)
    /\ Between("block", "live-ins",
               [ra EXCEPT !.mbb = @ + 1, !.mi = 1, !.regState = [p \in PReg |-> "disabled"],
                          !.virtDead = {}, !.coalesced = {}])

LiveIn ==
    LET liveins == input.liveins[ra.mbb] IN
    /\ pc = "live-ins"
    /\ IF opnum <= Len(liveins)
       THEN ra' = definePhysReg(ra, liveins[opnum], "reserved") /\ opnum' = opnum + 1 /\ pc' = pc
       ELSE pc' = "instruction" /\ opnum' = 1 /\ UNCHANGED ra
    /\ UNCHANGED << version, input >>

\* An erased copy is kept as an empty place.
Erased(i) == [i EXCEPT !.op = "erased", !.ops = << >>]

EndBlock ==
    LET code == Block(ra)
        first == FirstTerminator(code)
        s == spillAll([ra EXCEPT !.mi = IF first <= Len(code) THEN code[first].id ELSE @],
                      version = 10)
    IN  /\ ra.mbb # 0 /\ ra.mi > Len(input.blocks[ra.mbb])
        /\ Between("instruction", "block",
              [s EXCEPT !.fn[ra.mbb] =
                  [j \in 1..Len(Block(s)) |-> IF Block(s)[j].id \in ra.coalesced
                                              THEN Erased(Block(s)[j]) ELSE Block(s)[j]]])

runOnMachineFunction ==
    /\ ra.mbb = Len(ra.fn)
    /\ Between("block", "done", [ra EXCEPT !.slots = {}, !.dbg = {}])

Done == pc = "done" /\ UNCHANGED vars

Next ==
    \/ BeginBlock \/ LiveIn \/ handleDebugValue \/ allocateInstruction
    \/ FirstScan \/ HandleCollisions \/ TiedUses \/ EarlyClobbers \/ RestoreUsed
    \/ Uses \/ UndefUses \/ BeforeDefs \/ PhysicalDefs \/ Definitions \/ FinishInstruction
    \/ EndBlock \/ runOnMachineFunction \/ Done

Spec == Init /\ [][Next]_vars
=============================================================================
