------------------------------ MODULE ScopeOps ------------------------------
(***************************************************************************)
(* The operations of class Scope (lab3-1/include/cminus_builder.hpp) as    *)
(* functions of its one field, inner: a vector of maps from names to       *)
(* llvm::Value*, outermost scope first.                                    *)
(***************************************************************************)
EXTENDS Integers, Sequences

CONSTANTS
    Name,       \* identifiers of the compiled program
    Value,      \* what a name can stand for (an llvm::Value)
    NoValue     \* nullptr, the answer for an undeclared name

ASSUME NoValueAssumption == NoValue \notin Value

\* A map binds some of the names.
ScopeMap == UNION { [N -> Value] : N \in SUBSET Name }

Innermost(inner) == inner[Len(inner)]

Entered(inner) == Append(inner, << >>)

Exited(inner) == SubSeq(inner, 1, Len(inner) - 1)

InGlobal(inner) == Len(inner) = 1

\* What push returns.
PushSucceeds(inner, name) == name \notin DOMAIN Innermost(inner)

\* std::map::insert leaves an existing entry alone.
Pushed(inner, name, val) ==
    IF PushSucceeds(inner, name)
    THEN [inner EXCEPT ![Len(inner)] =
             [n \in DOMAIN Innermost(inner) \cup {name} |->
                 IF n = name THEN val ELSE Innermost(inner)[n]]]
    ELSE inner

\* Slip: the search runs forward, from the global scope.
StopsAtOutermost(inner, top, name, i) ==
    /\ i \in 1..top
    /\ name \in DOMAIN inner[i]
    /\ \A j \in 1..(i - 1) : name \notin DOMAIN inner[j]

\* The reverse iteration of find, started at the map at position top, stops here.
StopsAt(inner, top, name, i) ==
    /\ i \in 1..top
    /\ name \in DOMAIN inner[i]
    /\ \A j \in (i + 1)..top : name \notin DOMAIN inner[j]

FindFrom(inner, top, name) ==
    IF \E i \in 1..top : StopsAt(inner, top, name, i)
    THEN inner[CHOOSE i \in 1..top : StopsAt(inner, top, name, i)][name]
    ELSE NoValue

Find(inner, name) == FindFrom(inner, Len(inner), name)
=============================================================================
