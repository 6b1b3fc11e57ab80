----------------------------- MODULE CminusExpr -----------------------------
(***************************************************************************)
(* Expressions: from the parser's tree over the nodes of syntax_tree.cpp   *)
(* to the instructions that the expression visitors of                     *)
(* cminus_builder.cpp emit, with the two global variables through which    *)
(* the visitors talk, expression and curr_op.                              *)
(*                                                                         *)
(* A tree is [name, children] as bison builds it.  The visitors call each  *)
(* other through accept; each is an operator from one state of the         *)
(* visitor to the next.  The blocks that a subscript check opens are       *)
(* CminusBuilder's; here the check is one instruction.                     *)
(***************************************************************************)
EXTENDS Integers, Sequences, SequencesExt

CONSTANTS
    Source,     \* lists of [use, tree]: expression statements, conditions, returns
    TypeOf,     \* what scope.find returns for a name: its LLVM type
    Stoi,       \* the value of a number as it is written
    NoNode,     \* a null child
    NoValue     \* a null Value*

VARIABLES
    source,
    at,         \* the next of source
    s           \* the visitor: curr_op, expression, and the code so far

exprVars == << source, at, s >>

-----------------------------------------------------------------------------
(* transform_node_iter.                                                    *)

Kids(n) == Len(n.children)
Kid(n, k) == n.children[k + 1]      \* children[k] of the code
Op(n) == Kid(Kid(n, 1), 0).name

RECURSIVE ArgList(_)

\* Slip: a queue where the code has a stack.
SlipQueue(list) ==
    IF Kids(list) = 3 THEN << Kid(list, 2) >> \o ArgList(Kid(list, 0)) ELSE << Kid(list, 0) >>

\* arg-list is recursive to the left: the last argument is met first.
ArgList(list) ==
    IF Kids(list) = 3 THEN Append(ArgList(Kid(list, 0)), Kid(list, 2)) ELSE << Kid(list, 0) >>

RECURSIVE transform(_)

transform_expression(n) ==
    IF Kids(n) = 1 THEN transform(Kid(n, 0))
    ELSE [kind |-> "assign", var |-> transform(Kid(n, 0)), expression |-> transform(Kid(n, 2))]

transform_var(n) ==
    [kind |-> "var", id |-> Kid(n, 0).name,
     expression |-> IF Kids(n) = 4 THEN transform(Kid(n, 2)) ELSE NoNode]

transform_simple(n) ==
    [kind |-> "simple", l |-> transform(Kid(n, 0)),
     r |-> IF Kids(n) = 3 THEN transform(Kid(n, 2)) ELSE NoNode,
     op |-> IF Kids(n) = 3 THEN Op(n) ELSE "none"]

\* additive-expression and term: the left operand is there when there is an operator.
transform_chain(n) ==
    [kind |-> n.name, op |-> IF Kids(n) = 3 THEN Op(n) ELSE "none",
     left |-> IF Kids(n) = 3 THEN transform(Kid(n, 0)) ELSE NoNode,
     right |-> transform(IF Kids(n) = 3 THEN Kid(n, 2) ELSE Kid(n, 0))]

transform_factor(n) ==
    LET inner == Kid(n, IF Kids(n) = 3 THEN 1 ELSE 0)
    IN  IF inner.name \in {"expression", "var", "call"} THEN transform(inner)
        ELSE [kind |-> "num", value |-> Stoi[inner.name]]

transform_call(n) ==
    LET args == Kid(Kid(n, 2), 0)
    IN  [kind |-> "call", id |-> Kid(n, 0).name,
         args |-> IF args.name # "arg-list" THEN << >>
                  ELSE [k \in 1..Len(ArgList(args)) |-> transform(ArgList(args)[k])]]

transform(n) ==
    CASE n.name = "expression" -> transform_expression(n)
      [] n.name = "var" -> transform_var(n)
      [] n.name = "simple-expression" -> transform_simple(n)
      [] n.name \in {"additive-expression", "term"} -> transform_chain(n)
      [] n.name = "factor" -> transform_factor(n)
      [] n.name = "call" -> transform_call(n)

-----------------------------------------------------------------------------
(* What the visitors emit.                                                 *)

Const(n) == [type |-> "i32", is |-> "const", n |-> n]
Temp(k, type) == [type |-> type, is |-> "temp", n |-> k]
Find(id) == [type |-> TypeOf[id], is |-> "name", n |-> id]

\* An instruction, without making it the current expression.
Insert(v, op, operands, type) ==
    [v EXCEPT !.code = Append(@, [op |-> op, operands |-> operands, type |-> type])]
Result(v) == Temp(Len(v.code), v.code[Len(v.code)].type)

Emit(v, op, operands, type) ==
    LET w == Insert(v, op, operands, type) IN [w EXCEPT !.expression = Result(w)]

\* An i1 is cast to i32; expression itself is not changed.
Widened(v) == IF v.expression.type = "i1" THEN Insert(v, "zext", << v.expression >>, "i32") ELSE v
WideValue(v) == IF v.expression.type = "i1" THEN Result(Widened(v)) ELSE v.expression

\* The index in v.expression has been widened and is checked.
Checked(v) ==
    LET w == Insert(Widened(v), "slt", << v.expression, Const(0) >>, "i1")
    IN  Insert(w, "check", << Result(w), Find("neg_idx_except") >>, "void")

\* The address of an element: through the pointer that an array parameter is,
\* or in the array itself.
Element(v, id, index) ==
    LET pointer == Insert(v, "load", << Find(id) >>, "i32*")
    IN  IF TypeOf[id] = "i32**" THEN Insert(pointer, "gep", << Result(pointer), index >>, "i32*")
        ELSE Insert(v, "gep", << Find(id), Const(0), index >>, "i32*")

-----------------------------------------------------------------------------
(* The visitors.                                                           *)

RECURSIVE Visit(_, _)

Reading(v) == [v EXCEPT !.curr_op = "LOAD"]

visit_num(v, e) == [v EXCEPT !.expression = Const(e.value)]

load_var(v, e) ==
    LET i == Visit(Reading(v), e.expression)
        index == IF TypeOf[e.id] = "i32**" THEN WideValue(i) ELSE i.expression
        element == Element(Checked(i), e.id, index)
    IN  CASE e.expression # NoNode -> Emit(element, "load", << Result(element) >>, "i32")
          [] e.expression = NoNode /\ TypeOf[e.id] = "i32*" -> Emit(v, "load", << Find(e.id) >>, "i32")
          [] e.expression = NoNode /\ TypeOf[e.id] = "i32**" -> Emit(v, "load", << Find(e.id) >>, "i32*")
          [] OTHER -> Emit(v, "gep", << Find(e.id), Const(0), Const(0) >>, "i32*")

\* Slip: the value to store is read after the index has been visited.
SlipValueAfterIndex(v, e) ==
    LET i == Visit(Reading(v), e.expression)
        element == Element(Checked(i), e.id, WideValue(i))
    IN  IF e.expression = NoNode
        THEN [Insert(Widened(v), "store", << WideValue(v), Find(e.id) >>, "void") EXCEPT !.expression = WideValue(v)]
        ELSE [Insert(element, "store", << i.expression, Result(element) >>, "void") EXCEPT !.expression = WideValue(i)]

\* What is to be stored is in expression; afterwards the value stored is there,
\* or, for an array, the index.
store_var(v, e) ==
    LET i == Visit(Reading(v), e.expression)
        element == Element(Checked(i), e.id, WideValue(i))
    IN  IF e.expression = NoNode
        THEN [Insert(Widened(v), "store", << WideValue(v), Find(e.id) >>, "void")
                EXCEPT !.expression = WideValue(v)]
        ELSE [Insert(element, "store", << v.expression, Result(element) >>, "void")
                EXCEPT !.expression = WideValue(i)]

visit_var(v, e) == IF v.curr_op = "LOAD" THEN load_var(v, e) ELSE store_var(v, e)

visit_assign(v, e) ==
    LET value == Visit(Reading(v), e.expression)
    IN  Visit([value EXCEPT !.curr_op = "STORE"], e.var)

Instruction(op) ==
    CASE op = "<=" -> "sle" [] op = "<" -> "slt" [] op = ">" -> "sgt" [] op = ">=" -> "sge"
      [] op = "==" -> "eq" [] op = "!=" -> "ne"
      [] op = "+" -> "add" [] op = "-" -> "sub" [] op = "*" -> "mul" [] op = "/" -> "udiv"

\* Both operands, the left one first, each beginning with LOAD.
Binary(v, left, right, op, type) ==
    LET l == Visit(Reading(v), left)
        r == Visit(Reading(l), right)
    IN  Emit(r, Instruction(op), << l.expression, r.expression >>, type)

visit_simple(v, e) ==
    IF e.r = NoNode THEN Visit(Reading(v), e.l) ELSE Binary(v, e.l, e.r, e.op, "i1")

visit_additive(v, e) ==
    IF e.left = NoNode THEN Visit(Reading(v), e.right) ELSE Binary(v, e.left, e.right, e.op, "i32")

visit_term(v, e) ==
    IF e.left = NoNode THEN Visit(Reading(v), e.right) ELSE Binary(v, e.left, e.right, e.op, "i32")

\* The arguments in order, each from what the one before left.  Functions are
\* defined before they are called (lab3-1/README.md), so find succeeds.
visit_call(v, e) ==
    LET Arg(w, arg) == LET x == Visit(w.v, arg)
                       IN  [v |-> x, values |-> Append(w.values, x.expression)]
        done == FoldLeft(Arg, [v |-> v, values |-> << >>], e.args)
    IN  Emit(done.v, "call", << Find(e.id) >> \o done.values,
             IF TypeOf[e.id] = "void()" THEN "void" ELSE "i32")

Visit(v, e) ==
    CASE e.kind = "num" -> visit_num(v, e)
      [] e.kind = "var" -> visit_var(v, e)
      [] e.kind = "assign" -> visit_assign(v, e)
      [] e.kind = "simple" -> visit_simple(v, e)
      [] e.kind = "additive-expression" -> visit_additive(v, e)
      [] e.kind = "term" -> visit_term(v, e)
      [] e.kind = "call" -> visit_call(v, e)

-----------------------------------------------------------------------------
(* The statements that have an expression.                                 *)

Init == /\ source \in Source /\ at = 1
        /\ s = [curr_op |-> "LOAD", expression |-> NoValue, code |-> << >>]

Next1(use) == /\ at <= Len(source) /\ source[at].use = use /\ at' = at + 1
              /\ UNCHANGED source

visit_expresion_stmt ==
    /\ Next1("statement")
    /\ s' = Visit(s, transform(source[at].tree))

\* Slip: an i1 is compared with the zero of i32 as well.
SlipAlwaysCompared ==
    /\ Next1("condition")
    /\ LET v == Visit(Reading(s), transform(source[at].tree))
           w == Insert(v, "ne", << v.expression, Const(0) >>, "i1")
       IN  s' = Insert(w, "br", << Result(w) >>, "void")

\* Conditions of if and while: an i32 is compared with zero.
visit_condition ==
    /\ Next1("condition")
    /\ LET v == Visit(Reading(s), transform(source[at].tree))
           w == Insert(v, "ne", << v.expression, Const(0) >>, "i1")
       IN  s' = IF v.expression.type = "i32" THEN Insert(w, "br", << Result(w) >>, "void")
                ELSE Insert(v, "br", << v.expression >>, "void")

visit_return_stmt ==
    /\ Next1("return")
    /\ LET v == Visit(Reading(s), transform(source[at].tree))
       IN  s' = Insert(Widened(v), "store", << WideValue(v), Find("return_alloca") >>, "void")

Done == at > Len(source) /\ UNCHANGED exprVars

Next == visit_expresion_stmt \/ visit_condition \/ visit_return_stmt \/ Done

Spec == Init /\ [][Next]_exprVars
=============================================================================
