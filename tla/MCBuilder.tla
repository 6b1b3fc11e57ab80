----------------------------- MODULE MCBuilder -----------------------------
(***************************************************************************)
(* Bounded sets of C-minus programs for CminusBuilder: every statement up  *)
(* to a number of nodes, built from a choice of leaves, in programs of two *)
(* functions, so that what the first function leaves in the visitor's      *)
(* global variables meets the second.                                      *)
(***************************************************************************)
EXTENDS CminusBuilder

CONSTANTS
    Size,   \* bound on the nodes of a function body
    Class   \* which programs: "any", "run", "unbraced", ...

Expr(tag, n) == [kind |-> "expr", tag |-> tag, subscripts |-> n]
Empty == [kind |-> "empty", tag |-> "e", subscripts |-> 0]
Return(v, n) == [kind |-> "return", tag |-> "r", subscripts |-> n, value |-> v]
Compound(locals, list) ==
    [kind |-> "compound", tag |-> "b", subscripts |-> 0, locals |-> locals, list |-> list]
If(n, s, t) == [kind |-> "if", tag |-> "c", subscripts |-> n, then |-> s, else |-> t]
While(n, s) == [kind |-> "while", tag |-> "w", subscripts |-> n, body |-> s]

MCName == {"input", "output", "neg_idx_except", "x", "f", "g"}
MCTag == {"d", "e", "r", "b", "c", "w"}

Block(s) == s.kind \in {"compound", "return"}

\* The shape the class asks of one node.
Keep(s) ==
    \/ Class = "any"
    \/ /\ Class \in {"run", "ends_in_if", "subscript_in_loop"}
       /\ s.kind = "if" => Block(s.then) /\ (s.else = NoStmt \/ Block(s.else))
       /\ s.kind = "while" => Block(s.body)
       /\ s.kind = "compound" =>
             \A i \in 1..Len(s.list) : s.list[i].kind = "compound" => ~Returns(s.list[i])
    \/ /\ Class = "unbraced"
       /\ s.kind = "compound" => \A i \in 1..Len(s.list) : s.list[i].kind # "compound"

Leaves == { Expr("e", 1), Return(TRUE, 0) }
          \cup (IF Class = "any" THEN {Empty, Return(FALSE, 0)} ELSE {})
          \cup (IF Class = "run" THEN {Expr("d", 0), Return(TRUE, 1)} ELSE {})
Locals == IF Class = "any" THEN { << >>, << "x", "f" >> } ELSE { << >> }
Conds == IF Class = "any" THEN {0, 1} ELSE {1}
Loops == IF Class \in {"any", "subscript_in_loop"} THEN {0, 1} ELSE {0}

\* Lists of statements with n nodes in all; of[i] are the statements with i nodes.
Lists(of, n) ==
    LET lists[k \in 0..n] ==
            IF k = 0 THEN { << >> }
            ELSE UNION { { << s >> \o rest : s \in of[i], rest \in lists[k - i] } : i \in 1..k }
    IN  lists[n]

\* The statements with n nodes, given those with fewer.
Grown(of, n) ==
    (IF n = 1 THEN Leaves ELSE {})
    \cup { Compound(l, list) : l \in Locals, list \in Lists(of, n - 1) }
    \cup { If(c, s, NoStmt) : c \in Conds, s \in IF n > 1 THEN of[n - 1] ELSE {} }
    \cup UNION { { If(c, s, t) : c \in Conds, s \in of[k], t \in of[n - 1 - k] } : k \in 1..(n - 2) }
    \cup { While(c, s) : c \in Loops, s \in IF n > 1 THEN of[n - 1] ELSE {} }

Sized[n \in 0..Size] ==
    IF n = 0 THEN << >>
    ELSE LET of == Sized[n - 1]
         IN  Append(of, { s \in Grown(of, n) : Keep(s) })

\* Counting a set makes TLC sort it, and membership in a sorted set is fast.
Sorted(S) == IF Cardinality(S) > 0 THEN S ELSE {}

\* Bodies of void functions; in class "any" one returns a value all the same.
VoidBodies == { Compound(<< >>, << Return(FALSE, 0) >>), Compound(<< >>, << Expr("e", 1) >>) }
              \cup (IF Class = "any" THEN { Compound(<< >>, << Return(TRUE, 0) >>) } ELSE {})
VoidParts == VoidBodies \cup UNION { { s.list[i] : i \in 1..Len(s.list) } : s \in VoidBodies }

IntStatements == LET of == Sized[Size] IN UNION { of[i] : i \in 1..Size }
Statements == Sorted({ s : s \in VoidParts \cup IntStatements })

Fun(id, params, void, body) ==
    [kind |-> "fun", id |-> id, params |-> params, void |-> void, body |-> body]

\* Every path of the function returns; class "run" asks for a plain return.
RECURSIVE AlwaysReturns(_)
AlwaysReturns(s) ==
    \/ s.kind = "return"
    \/ s.kind = "compound" /\ \E i \in 1..Len(s.list) : AlwaysReturns(s.list[i])
    \/ /\ s.kind = "if" /\ s.else # NoStmt
       /\ AlwaysReturns(s.then) /\ AlwaysReturns(s.else)

Body(s) ==
    /\ s.kind = "compound"
    /\ CASE Class = "any" -> TRUE
         [] Class = "ends_in_if" -> AlwaysReturns(s)
         [] OTHER -> Returns(s)

GlobalVar == [kind |-> "var", id |-> "x"]
VoidFun == { Fun("f", << >>, TRUE, s) : s \in { s \in VoidBodies : Body(s) } }
IntFun == { Fun("g", << "x", "f" >>, FALSE, s) : s \in { s \in IntStatements : Body(s) } }
Shortest == Fun("g", << >>, FALSE, Compound(<< >>, << Return(TRUE, 0) >>))

Declarations == Sorted(VoidFun \cup IntFun \cup { GlobalVar, Shortest })
Programs == { << d >> : d \in IntFun }
            \cup { << GlobalVar, d, e >> : d \in VoidFun, e \in IntFun }
            \cup { << Shortest, d >> : d \in VoidFun }

(* The values the configurations give the constants of CminusBuilder; TLC   *)
(* computes each of the sets above once.                                    *)
MCStmt == Statements
MCDecl == Declarations
MCProgram == Programs

\* The class that the theorems are about.
ASSUME BehavedAssumption == Class = "run" => Behaved(Stmt, Decl, VoidParts)
=============================================================================
