------------------------------ MODULE Bindings ------------------------------
(***************************************************************************)
(* What block-structured scoping promises, with no chain of maps to walk:  *)
(* every open scope carries the whole table a lookup in it answers from.   *)
(* Opening a scope copies the table of the enclosing one, a declaration    *)
(* changes only the table of the scope it is made in, and closing a scope  *)
(* brings back the enclosing table, untouched.                             *)
(***************************************************************************)
EXTENDS Integers, Sequences

CONSTANTS Name, Value, NoValue, Predeclared, MaxDepth

VARIABLES
    visible,    \* visible[k][n]: what n means in the k-th open scope
    declared,   \* declared[k]: the names declared in the k-th open scope itself
    reply       \* what the last operation was asked and answered

Depth == Len(visible)

Init ==
    /\ declared = << Predeclared >>
    /\ \E v \in [Name -> Value \cup {NoValue}] :
          /\ \A n \in Name : v[n] = NoValue <=> n \notin Predeclared
          /\ visible = << v >>
    /\ reply = << >>

Open ==
    /\ Depth < MaxDepth
    /\ visible' = Append(visible, visible[Depth])
    /\ declared' = Append(declared, {})
    /\ reply' = << >>

Close ==
    /\ Depth > 1
    /\ visible' = SubSeq(visible, 1, Depth - 1)
    /\ declared' = SubSeq(declared, 1, Depth - 1)
    /\ reply' = << >>

\* The first declaration of a name in a scope wins.
Declare(n, v) ==
    /\ n \notin declared[Depth]
    /\ visible' = [visible EXCEPT ![Depth] = [@ EXCEPT ![n] = v]]
    /\ declared' = [declared EXCEPT ![Depth] = @ \cup {n}]
    /\ reply' = << n, v, TRUE >>

Redeclare(n, v) ==
    /\ n \in declared[Depth]
    /\ reply' = << n, v, FALSE >>
    /\ UNCHANGED << visible, declared >>

Lookup(n) ==
    /\ reply' = << n, visible[Depth][n] >>
    /\ UNCHANGED << visible, declared >>

Next ==
    \/ Open
    \/ Close
    \/ \E n \in Name, v \in Value : Declare(n, v) \/ Redeclare(n, v)
    \/ \E n \in Name : Lookup(n)

Spec == Init /\ [][Next]_<<visible, declared, reply>>
=============================================================================
