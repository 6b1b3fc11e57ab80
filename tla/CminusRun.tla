----------------------------- MODULE CminusRun -----------------------------
(***************************************************************************)
(* The last function CminusBuilder emitted is run block by block, next to  *)
(* what its source means (module CminusMeaning).  The outcomes of tests    *)
(* and subscript checks are the machine's to choose; the source follows.   *)
(***************************************************************************)
EXTENDS CminusBuilder

M == INSTANCE CminusMeaning

VARIABLES
    source,     \* the body of the function being built or run
    cont,       \* what the source has still to do
    at,         \* the instruction the machine executes next: block and position
    running     \* "no", "yes", "done"

runvars == << source, cont, at, running >>

\* What an observer sees of an instruction; the others are silent.
Seen == [effect |-> "effect", store |-> "result", check |-> "index", condbr |-> "test",
         neg_idx_except |-> "abort", ret |-> "leave"]

RunInit ==
    /\ Init
    /\ source = NoStmt /\ cont = << >> /\ at = [block |-> 0, pos |-> 0] /\ running = "no"

\* A step of the compiler.
Build ==
    /\ running = "no" /\ Walk
    /\ source' = IF phase = "decls" /\ phase' = "body" THEN Head(todo).body ELSE source
    /\ UNCHANGED << cont, at, running >>

Start ==
    /\ running = "no" /\ phase = "decls" /\ todo = << >> /\ source # NoStmt
    /\ running' = "yes"
    /\ cont' = << M!Do("stmt", source) >>
    /\ at' = [block |-> entrybb, pos |-> 1]
    /\ UNCHANGED << vars, source >>

Defined == at.pos <= Len(blocks[at.block])
Instruction == blocks[at.block][at.pos]

\* The source comes to something visible first; then the machine catches up.
Ready == running = "yes" /\ M!Visible(cont)

Unfold ==
    /\ running = "yes" /\ ~M!Visible(cont) /\ cont # << >>
    /\ cont' = M!Unfolded(cont)
    /\ UNCHANGED << vars, source, at, running >>

GoTo(b) == at' = [block |-> b, pos |-> 1]
GoOn == at' = [at EXCEPT !.pos = @ + 1]

Silent ==
    /\ Ready /\ Defined /\ Instruction.op \in {"alloca", "br"}
    /\ IF Instruction.op = "br" THEN GoTo(Instruction.to[1]) ELSE GoOn
    /\ UNCHANGED << vars, source, cont, running >>

Executing(op) == Ready /\ Defined /\ Instruction.op = op

\* The machine and the source are about to do the same thing.
Together ==
    /\ Defined /\ Instruction.op \in DOMAIN Seen
    /\ Head(cont).do = Seen[Instruction.op]
    /\ Instruction.op # "ret" => Head(cont).stmt.tag = Instruction.tag

Plain ==
    /\ (Executing("effect") \/ Executing("store")) /\ Together
    /\ GoOn /\ cont' = M!Rest(cont)
    /\ UNCHANGED << vars, source, running >>

Check ==
    /\ Executing("check") /\ Together
    /\ \E negative \in BOOLEAN :
          /\ GoTo(Instruction.to[IF negative THEN 1 ELSE 2])
          /\ cont' = M!Checked(cont, negative)
    /\ UNCHANGED << vars, source, running >>

Test ==
    /\ Executing("condbr") /\ Together
    /\ \E holds \in BOOLEAN :
          /\ GoTo(Instruction.to[IF holds THEN 1 ELSE 2])
          /\ cont' = M!Tested(cont, holds)
    /\ UNCHANGED << vars, source, running >>

\* neg_idx_except ends the process (lab3-1/src/io/io.c); ret ends the call.
Finish ==
    /\ (Executing("neg_idx_except") \/ Executing("ret")) /\ Together
    /\ running' = "done"
    /\ UNCHANGED << vars, source, cont, at >>

RunNext ==
    \/ Build \/ Start \/ Unfold \/ Silent \/ Plain \/ Check \/ Test \/ Finish
    \/ running = "done" /\ UNCHANGED << vars, runvars >>

RunSpec == RunInit /\ [][RunNext]_<< vars, runvars >> /\ WF_<< vars, runvars >>(RunNext)

-----------------------------------------------------------------------------
\* The source has statements of the program to do, and the machine is in a block
\* that was inserted into the function, at one of its instructions or just past
\* the last one, wherever the branches have led it.
RunTypeOK ==
    /\ running \in {"no", "yes", "done"}
    /\ source \in Stmt \cup {NoStmt}
    /\ cont \in Seq([do : M!Doing, stmt : Stmt])
    /\ running # "no" => at.block \in placed /\ at.pos \in 1..(Len(blocks[at.block]) + 1)

\* The code emitted for a function does what its source says, in the order the
\* source says it, whatever the tests and the subscripts come to: at every
\* visible step both are about to do the same thing, the machine never runs off
\* the end of a block, and a return or a negative subscript ends both.
DoesWhatTheSourceSays ==
    Ready => Together \/ (Defined /\ Instruction.op \in {"alloca", "br"})

\* The machine does not branch for ever without doing anything the source does:
\* it comes to a visible instruction or ends again and again.
NoSilentLoop == []<>(running # "yes" \/ (Ready /\ Together))
=============================================================================
