------------------------------- MODULE Scope -------------------------------
(***************************************************************************)
(* Class Scope as its one client drives it: the CminusBuilder constructor  *)
(* opens the global scope and pushes the runtime functions; then every     *)
(* exit is paired with an earlier enter.                                   *)
(***************************************************************************)
EXTENDS ScopeOps

CONSTANTS
    Predeclared,    \* input, output, neg_idx_except
    MaxDepth        \* bound on nesting, for model checking

ASSUME ScopeAssumption == Predeclared \subseteq Name /\ MaxDepth \in Nat

VARIABLES
    inner,
    reply       \* the arguments and the result of the last push or find

vars == <<inner, reply>>

Reply == {<< >>} \cup (Name \X (Value \cup {NoValue})) \cup (Name \X Value \X BOOLEAN)

\* inner is a stack of maps with the global scope always at the bottom: find and
\* push index inner[inner.size() - 1] without a check, so the vector never
\* becomes empty.
TypeOK ==
    /\ inner \in Seq(ScopeMap)
    /\ Len(inner) > 0
    /\ reply \in Reply

Init ==
    /\ \E global \in [Predeclared -> Value] : inner = << global >>
    /\ reply = << >>

enter ==
    /\ Len(inner) < MaxDepth
    /\ inner' = Entered(inner)
    /\ reply' = << >>

\* Slip: an exit that no enter goes with.
ExitUnpaired == inner' = Exited(inner) /\ reply' = << >>

exit ==
    /\ ~InGlobal(inner)
    /\ inner' = Exited(inner)
    /\ reply' = << >>

push(name, val) ==
    /\ inner' = Pushed(inner, name, val)
    /\ reply' = << name, val, PushSucceeds(inner, name) >>

find(name) ==
    /\ reply' = << name, Find(inner, name) >>
    /\ UNCHANGED inner

Next ==
    \/ enter
    \/ exit
    \/ \E name \in Name, val \in Value : push(name, val)
    \/ \E name \in Name : find(name)

Spec == Init /\ [][Next]_vars

-----------------------------------------------------------------------------
\* The state of Bindings that a vector of maps stands for.
Tables(s) == [k \in 1..Len(s) |-> [n \in Name |-> FindFrom(s, k, n)]]
Domains(s) == [k \in 1..Len(s) |-> DOMAIN s[k]]

Promise == INSTANCE Bindings WITH
    visible <- Tables(inner), declared <- Domains(inner)

\* The chain of maps searched from the innermost outwards implements block
\* structure: a declaration is what find answers from then on, it shadows and
\* never disturbs an outer one, a second declaration in one scope is refused
\* and ignored, and exit restores every outer meaning (Scope::find, push and
\* exit of cminus_builder.hpp).
ImplementsBindings == Promise!Spec
=============================================================================
