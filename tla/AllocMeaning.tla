---------------------------- MODULE AllocMeaning ----------------------------
(***************************************************************************)
(* What allocated code means, independent of how it was allocated.  A      *)
(* place (a register unit, or a half of a stack slot) holds tokens: the    *)
(* registers of the original code whose current value is there.  A token   *)
(* << r, i >> is the i-th part of virtual register r, a unit stands for    *)
(* itself.  The code that came out is run over these places, next to the   *)
(* instructions that came in; a use must find all its tokens.              *)
(***************************************************************************)
EXTENDS MachineCode, SequencesExt

Width(v) == Len(UnitsOf[Order[v][1]])

\* The tokens of an operand of the original code, part by part.
Tokens(o) ==
    IF o.reg \in PReg THEN UnitsOf[o.reg]
    ELSE IF o.sub # 0 THEN << << o.reg, 1 >> >>
    ELSE [i \in 1..Width(o.reg) |-> << o.reg, i >>]

AllTokens(o) == IF o.reg = NoReg THEN {} ELSE Elements(Tokens(o))
Whole(v) == Elements([i \in 1..Width(v) |-> << v, i >>])

\* What an original instruction reads, and what it gives a new value or none.
Read(i) == UNION { AllTokens(o) : o \in { o \in Elements(i.ops) : ~o.def /\ ~o.undef } }
Overwritten(i) == UNION { IF o.undef /\ o.reg \in VReg THEN Whole(o.reg) ELSE AllTokens(o) :
                          o \in { o \in Elements(i.ops) : o.def } }
Given(i) == UNION { AllTokens(o) : o \in { o \in Elements(i.ops) : o.def /\ ~o.ends } }

\* Tokens that may be read later: backwards through a block, from those live at its end.
LiveBefore(code, at, end) ==
    LET live[j \in 1..(Len(code) + 1)] ==
            IF j > Len(code) THEN end
            ELSE IF code[j].op = "dbg" THEN live[j + 1]
            ELSE Read(code[j]) \cup (live[j + 1] \ Overwritten(code[j]))
    IN  live[at]

\* Tokens live at the end of each block of a function.
LiveOut(f) ==
    LET n == Len(f.blocks)
        out[d \in 0..n] ==
            [b \in 1..n |->
                IF d = 0 THEN {}
                ELSE UNION { LiveBefore(f.blocks[c], 1, out[d - 1][c]) : c \in f.succ[b] }]
    IN  out[n]

-----------------------------------------------------------------------------
Unit == UNION { Units(p) : p \in PReg }

\* regs and slots: what each place holds; ok: every use so far found its value.
Machine(liveins, incoming) ==
    [regs |-> [u \in Unit |-> IF \E p \in liveins : u \in Units(p) THEN {u} ELSE {}],
     slots |-> [v \in VReg |-> [i \in 1..Width(v) |-> {<< v, i >>} \cap incoming]],
     ok |-> TRUE, callOk |-> TRUE]

Forget(m, tokens) ==
    [m EXCEPT !.regs = [u \in Unit |-> m.regs[u] \ tokens],
              !.slots = [v \in VReg |-> [i \in 1..Width(v) |-> m.slots[v][i] \ tokens]]]

\* Wherever the source's part is, the target's is now too.
Copied(m, dst, src) ==
    LET Grow(held) == held \cup { dst[i] : i \in { i \in 1..Len(dst) : src[i] \in held } }
    IN  [m EXCEPT !.regs = [u \in Unit |-> Grow(m.regs[u])],
                  !.slots = [v \in VReg |-> [i \in 1..Width(v) |-> Grow(m.slots[v][i])]]]

Found(m, tokens, p) ==
    Len(tokens) = Len(UnitsOf[p]) /\ \A i \in 1..Len(tokens) : tokens[i] \in m.regs[UnitsOf[p][i]]

\* The operands whose registers an early clobber k must not share.
Others(o, k) ==
    { h \in 1..Len(o.ops) : /\ o.ops[h].reg \notin {NoReg, o.ops[k].reg} /\ ~o.ops[h].undef
                            /\ ~o.ops[h].def \/ o.ops[h].early }

\* The registers of an allocated instruction suit its operands.
Suits(m, i, o) ==
    \A k \in 1..Len(o.ops) :
        LET in == o.ops[k]
            out == i.ops[k]
        IN  in.reg # NoReg =>
              /\ out.reg \in PReg /\ (in.reg \in PReg => out.reg = in.reg)
              /\ ~in.def /\ ~in.undef => Found(m, Tokens(in), out.reg)
              /\ ~in.def /\ in.tied # 0 => out.reg = i.ops[in.tied].reg
              /\ in.early => \A h \in Others(o, k) : ~Overlap(out.reg, i.ops[h].reg)

\* What unit u holds after instruction i (o before allocation) ran on m.
After(m, i, o, u) ==
    LET writes == { k \in 1..Len(o.ops) : i.ops[k].def /\ i.ops[k].reg \in PReg /\ u \in Units(i.ops[k].reg) }
        k == CHOOSE k \in writes : TRUE
        part == CHOOSE j \in 1..Len(UnitsOf[i.ops[k].reg]) : UnitsOf[i.ops[k].reg][j] = u
        clobbered == \/ i.op = "call"
                     \/ \E x \in Elements(i.ops) :
                            x.reg \in PReg /\ u \in Units(x.reg) /\ (x.def \/ x.ends)
    IN  IF Cardinality(writes) = 1 /\ ~i.ops[k].ends THEN {Tokens(o.ops[k])[part]}
        ELSE IF writes # {} \/ clobbered THEN {} ELSE m.regs[u]

\* One instruction i of the result; o is the one it was, if it was one.
Executed(m, i, o, later) ==
    LET gone == Forget(m, Overwritten(o))
        ran == [gone EXCEPT !.regs = [u \in Unit |-> After(gone, i, o, u)],
                            !.ok = @ /\ Suits(m, i, o),
                            !.callOk = @ /\ (o.op = "call" =>
                                \A t \in later \ (Overwritten(o) \cup Unit) :
                                    t \in m.slots[t[1]][t[2]])]
        kept == Cardinality(Overwritten(o)) > 0 /\ o.op = "copy" /\ Len(Tokens(o.ops[1])) = Len(Tokens(o.ops[2]))
        p == i.ops[1].reg
    IN  CASE i.op = "dbg" -> m
          [] i.op = "store" ->
                [m EXCEPT !.slots[i.slot] = [j \in 1..Width(i.slot) |-> m.regs[UnitsOf[p][j]]],
                          !.regs = [u \in Unit |-> IF i.ops[1].ends /\ u \in Units(p) THEN {} ELSE m.regs[u]]]
          [] i.op = "load" ->
                [m EXCEPT !.regs = [u \in Unit |->
                    IF u \in Units(p) THEN m.slots[i.slot][CHOOSE j \in 1..Len(UnitsOf[p]) : UnitsOf[p][j] = u]
                    ELSE m.regs[u]]]
          [] i.op = "erased" -> Copied(gone, Tokens(o.ops[1]), Tokens(o.ops[2]))
          [] kept -> Copied(ran, Tokens(o.ops[1]), Tokens(o.ops[2]))
          [] OTHER -> ran

\* A whole block, from what its predecessors left in the slots.
Run(f, b, code) ==
    LET out == LiveOut(f)
        incoming == LiveBefore(f.blocks[b], 1, out[b])
        Step(m, i) ==
            LET o == IF i.id = 0 THEN i ELSE f.blocks[b][i.id]
            IN  Executed(m, i, o, IF i.id = 0 THEN {} ELSE LiveBefore(f.blocks[b], i.id + 1, out[b]))
    IN  FoldLeft(Step, Machine(Elements(f.liveins[b]), incoming), code)

\* Every use of a block's code finds the value that was last given to what it names.
UsesFindTheirValues(f, b, code) == Run(f, b, code).ok

\* At a call, what is needed afterwards is in its stack slot.
CallsFindSlots(f, b, code) == Run(f, b, code).callOk

\* What a later block needs is in its slot when the block ends.
LiveOutIsStored(f, b, code) ==
    \A t \in LiveOut(f)[b] \ Unit : t \in Run(f, b, code).slots[t[1]][t[2]]
=============================================================================
