------------------------------- MODULE MCDCE -------------------------------
(***************************************************************************)
(* Every function of Size instructions and a terminator, with at most two  *)
(* operands each, in every order and with every cycle among them; the      *)
(* terminator uses at most one instruction, and the second may have an     *)
(* effect of its own.                                                      *)
(***************************************************************************)
EXTENDS DCE, FiniteSets

CONSTANT Size

Last == Size + 1

MCInst == 1..Last

Sorted(S) == IF Cardinality(S) > 0 THEN S ELSE {}

Operands == { << >>, << Value >> } \cup { << x >> : x \in 1..Size }
            \cup { << x, y >> : x \in 1..Size, y \in 1..Size }

Functions ==
    Sorted({ [code |-> [k \in 1..Last |-> k], effects |-> e,
              operand |-> [k \in 1..Last |-> IF k = Last THEN t ELSE ops[k]]] :
             e \in { {Last}, {2, Last} },
             t \in { << >> } \cup { << x >> : x \in 1..Size },
             ops \in [1..Size -> Operands] })

MCFunction == Functions
=============================================================================
