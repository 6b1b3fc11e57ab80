------------------------------- MODULE MCADCE -------------------------------
(***************************************************************************)
(* Small functions for ADCE: every reachable flow graph of four blocks     *)
(* with one call in it, and graphs of three blocks, unreachable ones and   *)
(* endless ones too, with values, a phi and a debug intrinsic.             *)
(***************************************************************************)
EXTENDS ADCE

\* A function of flow graph g; uses tells what the instructions there are use.
Fn(g, ends, uses, phi, effect, debug) ==
    LET n == Len(g)
        all == DOMAIN uses \cup { << b, 0 >> : b \in 1..n }
    IN  [n |-> n, succ |-> g, inst |-> { i \in DOMAIN uses : i[2] # 0 },
         term |-> [b \in 1..n |-> IF g[b] # << >> THEN "br" ELSE ends],
         uses |-> [i \in all |-> IF i \in DOMAIN uses /\ (i[2] # 0 \/ Len(g[i[1]]) # 1) THEN uses[i] ELSE {}],
         phi |-> phi, effect |-> effect, profile |-> {}, debug |-> debug,
         scope |-> [i \in all |-> IF i \in debug THEN "inner" ELSE IF i[2] = 0 THEN NoScope ELSE "block"],
         parent |-> [block |-> "inner", inner |-> NoScope]]

Graphs(n, targets) ==
    { g \in [1..n -> targets] : Reach(g, {1}, {}) = 1..n /\ \E b \in 1..n : g[b] = << >> }

Four == { << >>, << 2 >>, << 3 >>, << 4 >>, << 2, 3 >>, << 2, 4 >>, << 3, 4 >>, << 2, 3, 4 >> }
Three == { << >>, << 2 >>, << 3 >>, << 2, 3 >>, << 3, 2 >>, << 2, 2 >> }

\* A call in some block, and conditions from outside.
Calls == { Fn(g, "ret", [i \in c |-> {}], {}, c, {}) : g \in Graphs(4, Four), c \in { {<< 2, 1 >>}, {<< 3, 1 >>}, {<< 4, 1 >>}, {} } }

\* A phi in block 4 that the return there gives back.
Joins == { Fn(g, "ret", << 4, 1 >> :> {} @@ << 4, 0 >> :> {<< 4, 1 >>}, {<< 4, 1 >>}, {}, {}) :
           g \in { g \in Graphs(4, Four) : g[4] = << >> } }

\* A value in the entry that the branches of the other blocks use, a phi in
\* block 3 that is perhaps called with, and a debug intrinsic.
Values ==
    { Fn(g, ends, << 1, 1 >> :> {} @@ << 3, 1 >> :> {<< 1, 1 >>} @@ << 3, 2 >> :> {<< 3, 1 >>}
                  @@ << 2, 1 >> :> {<< 1, 1 >>} @@ << 2, 0 >> :> {<< 1, 1 >>},
         {<< 3, 1 >>}, e, {<< 2, 1 >>}) :
      g \in [1..3 -> Three], ends \in {"ret", "unreachable"}, e \in { {}, {<< 3, 2 >>} } }

\* The same, with calls that only profile a constant.
Profiled == { [f EXCEPT !.profile = f.effect] : f \in { f \in Values : f.effect # {} /\ f.succ[1] # << >> } }

MCFunction == Profiled \cup Calls \cup Joins \cup Values
=============================================================================
