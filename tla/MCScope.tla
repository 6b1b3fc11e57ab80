------------------------------ MODULE MCScope ------------------------------
(* Two names, one of them predeclared, two values, nesting up to three.    *)
EXTENDS Scope

CONSTANTS n1, v1, v2

MCName == {n1, "output"}
MCValue == {v1, v2}
MCPredeclared == {"output"}
=============================================================================
