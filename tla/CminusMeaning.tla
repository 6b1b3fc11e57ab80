--------------------------- MODULE CminusMeaning ---------------------------
(***************************************************************************)
(* What running a C-minus function means, read off its syntax tree and     *)
(* independent of any basic block: a list of things still to do, first     *)
(* first.  A statement at the head is taken apart (Unfolded) until the     *)
(* head is something an observer sees:                                     *)
(*   "index"   a subscript is checked; a negative one ends the program     *)
(*   "effect"  an expression statement has its effect                      *)
(*   "test"    the condition of an if or a while is tested                 *)
(*   "result"  the value of a return is set                                *)
(*   "leave"   the function returns                                        *)
(*   "abort"   the program ends at a negative subscript                    *)
(***************************************************************************)
EXTENDS Integers, Sequences

CONSTANT NoStmt

Doing == {"stmt", "index", "effect", "test", "result", "leave", "abort"}

Do(what, s) == [do |-> what, stmt |-> s]

Visible(cont) == cont # << >> /\ Head(cont).do # "stmt"

Indices(s) == [i \in 1..s.subscripts |-> Do("index", s)]

Statements(list) == [i \in 1..Len(list) |-> Do("stmt", list[i])]

\* The head, a statement, replaced by its parts.
Unfolded(cont) ==
    LET s == Head(cont).stmt IN
    CASE s.kind = "expr" -> Indices(s) \o << Do("effect", s) >> \o Tail(cont)
      [] s.kind = "empty" -> Tail(cont)
      [] s.kind = "compound" -> Statements(s.list) \o Tail(cont)
      [] s.kind \in {"if", "while"} -> Indices(s) \o << Do("test", s) >> \o Tail(cont)
      [] s.kind = "return" -> Indices(s)
                              \o (IF s.value THEN << Do("result", s) >> ELSE << >>)
                              \o << Do("leave", s) >>

\* What follows a test.
Tested(cont, holds) ==
    LET s == Head(cont).stmt IN
    IF s.kind = "while"
    THEN IF holds THEN << Do("stmt", s.body), Do("stmt", s) >> \o Tail(cont) ELSE Tail(cont)
    ELSE IF holds THEN << Do("stmt", s.then) >> \o Tail(cont)
         ELSE IF s.else = NoStmt THEN Tail(cont) ELSE << Do("stmt", s.else) >> \o Tail(cont)

\* What follows a subscript check.
Checked(cont, negative) ==
    IF negative THEN << Do("abort", Head(cont).stmt) >> ELSE Tail(cont)

\* What follows anything else that is seen.
Rest(cont) == Tail(cont)
=============================================================================
