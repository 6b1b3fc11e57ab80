------------------------------- MODULE MCExpr -------------------------------
(***************************************************************************)
(* Bounded sets of expressions, built as the grammar of                    *)
(* syntax_analyzer.y builds their trees, and the class of those on which   *)
(* the code and docs/cminus.md agree (the others are listed in README.md). *)
(***************************************************************************)
EXTENDS ExprMeaning, FiniteSets, TLC

Tree(name, children) == [name |-> name, children |-> children]
Leaf(name) == Tree(name, << >>)
Factor(n) == Tree("factor", << n >>)
Paren(e) == Tree("factor", << Leaf("("), e, Leaf(")") >>)
Var(id) == Tree("var", << Leaf(id) >>)
Sub(id, e) == Tree("var", << Leaf(id), Leaf("["), e, Leaf("]") >>)
Term(f) == Tree("term", << f >>)
Mul(t, op, f) == Tree("term", << t, Tree("mulop", << Leaf(op) >>), f >>)
Sum(t) == Tree("additive-expression", << t >>)
Add(a, op, t) == Tree("additive-expression", << a, Tree("addop", << Leaf(op) >>), t >>)
Rel(a, op, b) == Tree("expression",
    << Tree("simple-expression", << a, Tree("relop", << Leaf(op) >>), b >>) >>)
Exp(a) == Tree("expression", << Tree("simple-expression", << a >>) >>)
Assign(v, e) == Tree("expression", << v, Leaf("="), e >>)
Call0(id) == Tree("call", << Leaf(id), Leaf("("), Tree("args", << Leaf("empty") >>), Leaf(")") >>)
One(e) == Tree("arg-list", << e >>)
CallWith(id, list) == Tree("call", << Leaf(id), Leaf("("), Tree("args", << list >>), Leaf(")") >>)
Call1(id, e) == CallWith(id, One(e))
Call2(id, e, f) == CallWith(id, Tree("arg-list", << One(e), Leaf(","), f >>))
Of(f) == Exp(Sum(Term(f)))

-----------------------------------------------------------------------------
(* The class.                                                              *)

\* The expression in any number of parentheses.
RECURSIVE Bare(_)
Bare(n) ==
    IF n.name \in {"expression", "simple-expression", "additive-expression", "term"} /\ Kids(n) = 1
    THEN Bare(Kid(n, 0))
    ELSE IF n.name = "factor" THEN (IF Kids(n) = 3 THEN Bare(Kid(n, 1)) ELSE Kid(n, 0)) ELSE n

Relational(n) == Bare(n).name = "simple-expression"
AssignsElement(n) == Bare(n).name = "expression" /\ Kids(Kid(Bare(n), 0)) = 4

\* Its value may be used, and used as an int.
Operand(n) == ~Relational(n) /\ ~AssignsElement(n)

RECURSIVE Nodes(_)
Nodes(n) == {n} \cup UNION { Nodes(n.children[k]) : k \in 1..Len(n.children) }
Written(n) == { Kid(Kid(x, 0), 0).name : x \in { x \in Nodes(n) : x.name = "expression" /\ Kids(x) = 3 } }
Read(n) == { Kid(x, 0).name : x \in { x \in Nodes(n) : x.name = "var" } }
Calls(n) == \E x \in Nodes(n) : x.name = "call"
May(n) == Calls(n) \/ \E x \in Nodes(n) : x.name = "/" \/ (x.name = "var" /\ Kids(x) = 4)

\* It cannot be told which of index and value is evaluated first.
Independent(index, value) ==
    /\ Written(index) \cap (Written(value) \cup Read(value)) = {}
    /\ Written(value) \cap (Written(index) \cup Read(index)) = {}
    /\ Bare(index).name \in DOMAIN Stoi \/ ~May(value)

Agrees(x) ==
    CASE x.name = "var" /\ Kids(x) = 4 -> Operand(Kid(x, 2))
      [] x.name = "expression" /\ Kids(x) = 3 ->
            IF Kids(Kid(x, 0)) = 1 THEN ~AssignsElement(Kid(x, 2))
            ELSE Operand(Kid(x, 2)) /\ Independent(Kid(Kid(x, 0), 2), Kid(x, 2))
      [] x.name \in {"simple-expression", "additive-expression", "term"} /\ Kids(x) = 3 ->
            Operand(Kid(x, 0)) /\ Operand(Kid(x, 2))
      [] x.name = "arg-list" -> Operand(Kid(x, Kids(x) - 1))
      [] OTHER -> TRUE

Agreed(n) == \A x \in Nodes(n) : Agrees(x)

-----------------------------------------------------------------------------
(* The expressions.                                                        *)

Atoms == { Factor(Leaf("1")), Factor(Leaf("2")), Factor(Var("x")) }
Input == Factor(Call0("input"))
Minus(f, g) == Add(Sum(Term(f)), "-", Term(g))
X == Factor(Var("x"))

Inner == { Of(f) : f \in { X, Factor(Leaf("2")), Input } }
         \cup { Exp(Minus(X, Factor(Leaf("2")))), Assign(Var("x"), Of(Factor(Leaf("1")))),
                Rel(Sum(Term(X)), "<", Sum(Term(Factor(Leaf("1"))))) }

Arrays == { Factor(Var("a")), Factor(Var("p")) }
Factors ==
    Atoms \cup {Input}
    \cup { Factor(Sub(id, e)) : id \in {"a", "p"}, e \in Inner }
    \cup { Paren(e) : e \in Inner \cup { Assign(Sub("a", Of(X)), Of(Factor(Leaf("1")))) } }
    \cup { Factor(Call2("f", e, g)) : e \in Inner, g \in Inner }
    \cup { Factor(Call1("h", Of(array))) : array \in Arrays }

Few == Atoms \cup { Input, Factor(Sub("a", Of(X))), Paren(Assign(Var("x"), Of(Input))) }

Sums == { Sum(Term(f)) : f \in Factors }
        \cup { Add(Sum(Term(f)), op, Term(g)) : f \in Factors, op \in {"+", "-"}, g \in Few }
        \cup { Add(Sum(Term(f)), "-", Term(g)) : f \in Few, g \in Factors }
        \cup { Sum(Mul(Term(f), op, g)) : f \in Few, op \in {"*", "/"}, g \in Factors }
        \cup { Add(Minus(f, g), op, Mul(Term(f), "/", g)) : f \in Few, op \in {"+", "-"}, g \in Few }

Relations == { Rel(Sum(Term(f)), op, b) : f \in Few, op \in {"<=", "<", ">", ">=", "==", "!="},
                                          b \in { Minus(g, h) : g \in Few, h \in Few } }

Values == { e \in { Exp(a) : a \in Sums } \cup Relations : Agreed(e) }
Elements == { Assign(Sub(id, i), e) : id \in {"a", "p"}, i \in Inner,
              e \in { Of(f) : f \in Factors } \cup { Assign(Var("x"), Of(X)) } }
Stores == { e \in { Assign(Var("x"), e) : e \in Values } \cup Elements : Agreed(e) }

Item(use, e) == [use |-> use, tree |-> e]
Before == { Item("statement", e) : e \in { Of(Factor(Call1("output", Of(X)))), Assign(Var("x"), Of(Input)),
                                           Assign(Sub("a", Of(Factor(Leaf("1")))), Of(X)) } }

Sources ==
    { << Item("statement", e) >> : e \in Stores }
    \cup { << b, Item(use, Exp(a)) >> : b \in Before, use \in {"condition", "return"}, a \in { Sum(Term(f)) : f \in Factors } }
    \cup { << Item(use, e) >> : use \in {"condition", "return"}, e \in Relations }
    \cup { << b, Item("statement", e), c >> : b \in Before, c \in Before,
             e \in { e \in Elements : Kid(Kid(e, 0), 2) = Of(X) } }

Sorted(S) == IF Cardinality(S) > 0 THEN S ELSE {}
AgreedItem(i) == Agreed(i.tree) /\ (i.use = "statement" \/ ~AssignsElement(i.tree))
MCSource == Sorted({ list \in Sources : \A k \in 1..Len(list) : AgreedItem(list[k]) })

MCTypeOf ==
    "x" :> "i32*" @@ "a" :> "[i32]*" @@ "p" :> "i32**" @@ "return_alloca" :> "i32*"
    @@ "input" :> "i32()" @@ "f" :> "i32()" @@ "h" :> "i32()" @@ "output" :> "void()" @@ "neg_idx_except" :> "void()"
MCStoi == "1" :> 1 @@ "2" :> 2
MCPointsTo == "a" :> << "a", 0 >> @@ "p" :> << "a", 0 >>
MCMemory == { << "x", 0 >> :> x @@ << "a", 0 >> :> 3 @@ << "a", 1 >> :> -1 @@ << "a", 2 >> :> 7
              @@ << "return_alloca", 0 >> :> 0 : x \in {-8, -1, 0, 1, 2} }
=============================================================================
