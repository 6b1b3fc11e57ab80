----------------------------- MODULE ExprMeaning -----------------------------
(***************************************************************************)
(* What C-minus expressions mean (lab3-1/docs/cminus.md, rules 14 to 29),  *)
(* read off the parser's tree, and what the emitted instructions do when   *)
(* they run.  Integers have Width bits.                                    *)
(***************************************************************************)
EXTENDS CminusExpr

CONSTANTS
    Width,      \* of an int, 32 in the code
    Memory,     \* the contents of the variables: cell -> integer
    PointsTo    \* the cell that an array or an array parameter begins at

Half == 2 ^ (Width - 1)
Wrap(n) == ((n + Half) % (2 * Half)) - Half
Unsigned(n) == n % (2 * Half)
Truth(b) == IF b THEN 1 ELSE 0

Compare(op, a, b) ==
    CASE op \in {"<=", "sle"} -> Truth(a <= b) [] op \in {"<", "slt"} -> Truth(a < b)
      [] op \in {">", "sgt"} -> Truth(a > b) [] op \in {">=", "sge"} -> Truth(a >= b)
      [] op \in {"==", "eq"} -> Truth(a = b) [] op \in {"!=", "ne"} -> Truth(a # b)

\* A computation: the memory, what functions were called with what, whether a
\* negative index has ended it, and whether the language says what it does.
Begin(mem) == [mem |-> mem, calls |-> << >>, ended |-> FALSE, undefined |-> FALSE]

\* What a called function returns is anybody's choice; let it tell how many
\* calls came before.
Answer(c) == 1 + Len(c.calls)

Call(c, id, args) == [c EXCEPT !.calls = Append(@, << id, args >>)]
At(cell, n) == << cell[1], cell[2] + n >>

-----------------------------------------------------------------------------
(* The source.                                                             *)

RECURSIVE Mean(_, _)        \* [c: the computation afterwards, val: the value]

M(c, val) == [c |-> c, val |-> val]

\* The cell that a var names.
Address(n, c) ==
    LET i == Mean(Kid(n, 2), c)
        cell == At(PointsTo[Kid(n, 0).name], i.val)
    IN  IF Kids(n) = 1 THEN M(c, << Kid(n, 0).name, 0 >>)
        ELSE IF i.c.ended \/ i.c.undefined THEN i
        ELSE IF i.val < 0 THEN M([i.c EXCEPT !.ended = TRUE], 0)
        ELSE M([i.c EXCEPT !.undefined = cell \notin DOMAIN c.mem], cell)

Arith(op, a, b, c) ==
    CASE op = "+" -> M(c, Wrap(a + b)) [] op = "-" -> M(c, Wrap(a - b)) [] op = "*" -> M(c, Wrap(a * b))
      [] op = "/" -> IF b = 0 \/ a < 0 \/ b < 0 THEN M([c EXCEPT !.undefined = TRUE], 0) ELSE M(c, a \div b)
      [] OTHER -> M(c, Compare(op, a, b))

MeanBinary(n, c) ==
    LET l == Mean(Kid(n, 0), c)
        r == Mean(Kid(n, 2), l.c)
    IN  IF l.c.ended \/ l.c.undefined THEN l
        ELSE IF r.c.ended \/ r.c.undefined THEN r
        ELSE Arith(Op(n), l.val, r.val, r.c)

MeanVar(n, c) ==
    LET a == Address(n, c)
    IN  IF Kids(n) = 1 /\ Kid(n, 0).name \in DOMAIN PointsTo THEN M(c, PointsTo[Kid(n, 0).name])
        ELSE IF a.c.ended \/ a.c.undefined THEN a
        ELSE M(a.c, a.c.mem[a.val])

MeanAssign(n, c) ==
    LET a == Address(Kid(n, 0), c)
        r == Mean(Kid(n, 2), a.c)
    IN  IF a.c.ended \/ a.c.undefined THEN a
        ELSE IF r.c.ended \/ r.c.undefined THEN r
        ELSE M([r.c EXCEPT !.mem[a.val] = r.val], r.val)

MeanCall(n, c) ==
    LET list == Kid(Kid(n, 2), 0)
        args == IF list.name # "arg-list" THEN << >>
                ELSE IF Kids(list) = 1 THEN << Kid(list, 0) >>
                ELSE << Kid(Kid(list, 0), 0), Kid(list, 2) >>
        first == Mean(args[1], c)
        second == Mean(args[2], first.c)
        values == CASE Len(args) = 0 -> << >> [] Len(args) = 1 -> << first.val >>
                    [] OTHER -> << first.val, second.val >>
        after == CASE Len(args) = 0 -> c [] Len(args) = 1 -> first.c [] OTHER -> second.c
    IN  IF Len(args) > 0 /\ (first.c.ended \/ first.c.undefined) THEN first
        ELSE IF after.ended \/ after.undefined THEN M(after, 0)
        ELSE M(Call(after, Kid(n, 0).name, values), Answer(after))

Mean(n, c) ==
    CASE n.name = "expression" /\ Kids(n) = 3 -> MeanAssign(n, c)
      [] n.name \in {"simple-expression", "additive-expression", "term"} /\ Kids(n) = 3 -> MeanBinary(n, c)
      [] n.name = "factor" /\ Kids(n) = 3 -> Mean(Kid(n, 1), c)
      [] n.name = "var" -> MeanVar(n, c)
      [] n.name = "call" -> MeanCall(n, c)
      [] n.name \in DOMAIN Stoi -> M(c, Stoi[n.name])
      [] OTHER -> Mean(Kid(n, 0), c)

\* What a list of statements does: the computation, and which way it branched.
MeansAll(list, mem) ==
    LET Do(r, item) ==
            LET v == Mean(item.tree, r.c)
            IN  IF r.c.ended \/ r.c.undefined THEN r
                ELSE IF v.c.ended \/ v.c.undefined THEN [r EXCEPT !.c = v.c]
                ELSE CASE item.use = "condition" -> [c |-> v.c, ways |-> Append(r.ways, v.val # 0)]
                       [] item.use = "return" -> [r EXCEPT !.c = [v.c EXCEPT !.mem[<< "return_alloca", 0 >>] = v.val]]
                       [] OTHER -> [r EXCEPT !.c = v.c]
    IN  FoldLeft(Do, [c |-> Begin(mem), ways |-> << >>], list)

-----------------------------------------------------------------------------
(* The code.                                                               *)

ValueOf(m, o) ==
    CASE o.is = "const" -> o.n [] o.is = "temp" -> m.temps[o.n]
      [] OTHER -> IF o.n \in DOMAIN PointsTo THEN PointsTo[o.n] ELSE << o.n, 0 >>

Execute(m, i) ==
    LET V(k) == ValueOf(m, i.operands[k])
        Gives(val) == [m EXCEPT !.temps = Append(@, val)]
        Loads == i.operands[1].type = "i32**" \/ V(1) \in DOMAIN m.c.mem
    IN  IF m.c.ended \/ m.c.undefined THEN m
        ELSE CASE i.op = "load" /\ Loads -> Gives(IF i.operands[1].type = "i32**" THEN V(1) ELSE m.c.mem[V(1)])
               [] i.op = "load" /\ ~Loads -> [m EXCEPT !.c.undefined = TRUE]
               [] i.op = "store" -> IF V(2) \in DOMAIN m.c.mem
                                    THEN [Gives(0) EXCEPT !.c.mem[V(2)] = V(1)]
                                    ELSE [m EXCEPT !.c.undefined = TRUE]
               [] i.op = "gep" -> Gives(At(V(1), V(Len(i.operands))))
               [] i.op = "zext" -> Gives(V(1))
               [] i.op = "check" -> IF V(1) = 1 THEN [m EXCEPT !.c.ended = TRUE] ELSE Gives(0)
               [] i.op = "br" -> [Gives(0) EXCEPT !.ways = Append(@, V(1) # 0)]
               [] i.op = "add" -> Gives(Wrap(V(1) + V(2)))
               [] i.op = "sub" -> Gives(Wrap(V(1) - V(2)))
               [] i.op = "mul" -> Gives(Wrap(V(1) * V(2)))
               [] i.op = "udiv" -> IF V(2) = 0 THEN [m EXCEPT !.c.undefined = TRUE]
                                   ELSE Gives(Wrap(Unsigned(V(1)) \div Unsigned(V(2))))
               [] i.op = "call" -> [Gives(Answer(m.c)) EXCEPT
                                      !.c = Call(m.c, i.operands[1].n, [k \in 1..(Len(i.operands) - 1) |-> V(k + 1)])]
               [] OTHER -> Gives(Compare(i.op, V(1), V(2)))

Runs(code, mem) == FoldLeft(Execute, [c |-> Begin(mem), ways |-> << >>, temps |-> << >>], code)

-----------------------------------------------------------------------------
(* Properties.                                                             *)

\* The operand types that LLVM asks of an instruction.
Typed(i) ==
    LET T == [k \in 1..Len(i.operands) |-> i.operands[k].type]
    IN  CASE i.op \in {"add", "sub", "mul", "udiv", "sle", "slt", "sgt", "sge", "eq", "ne"} -> T = << "i32", "i32" >>
          [] i.op = "load" -> << T, i.type >> \in { << << "i32*" >>, "i32" >>, << << "i32**" >>, "i32*" >> }
          [] i.op = "store" -> T = << "i32", "i32*" >>
          [] i.op = "gep" -> T \in { << "i32*", "i32" >>, << "[i32]*", "i32", "i32" >> }
          [] i.op \in {"zext", "br"} -> T = << "i1" >>
          [] i.op = "check" -> T = << "i1", "void()" >>
          [] OTHER -> (T[1] \in {"i32()", "void()"} /\ \A k \in 2..Len(T) : T[k] \in {"i32", "i32*"})

\* Types: every emitted instruction has the operand types that the IRBuilder's
\* assertions ask for, and names only results that come before it.
ExprTypeOK ==
    /\ at \in 1..(Len(source) + 1) /\ s.curr_op \in {"LOAD", "STORE"}
    /\ \A k \in 1..Len(s.code) :
          /\ Typed(s.code[k])
          /\ \A j \in 1..Len(s.code[k].operands) :
                s.code[k].operands[j].is = "temp" => s.code[k].operands[j].n < k

\* The code does what the source says: the same calls with the same arguments
\* in the same order, the same branches, the same contents of every variable
\* and array element, and an end at the same negative index, although the
\* visitors pass values and the kind of access through two global variables.
\* When it has ended only the calls can be seen.
ComputesTheSource ==
    at > Len(source) =>
        \A mem \in Memory :
            LET means == MeansAll(source, mem)
                runs == Runs(s.code, mem)
            IN  ~means.c.undefined =>
                  /\ runs.c.calls = means.c.calls /\ runs.ways = means.ways
                  /\ runs.c.ended = means.c.ended
                  /\ ~means.c.ended => runs.c.mem = means.c.mem
=============================================================================
