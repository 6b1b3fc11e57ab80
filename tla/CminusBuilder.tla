--------------------------- MODULE CminusBuilder ---------------------------
(***************************************************************************)
(* The control part of class CminusBuilder (lab3-1), the visitor that      *)
(* walks a C-minus syntax tree and emits LLVM IR.                          *)
(*                                                                         *)
(* A handler that calls accept() on a child stops there until the child's  *)
(* handler returns, and the children communicate with it only through the  *)
(* file's global variables (curr_block, is_returned, is_returned_record)   *)
(* and the builder's insertion point.  Each handler is therefore cut at    *)
(* its accept() calls: one action per piece, with the handlers in progress *)
(* on an explicit stack.                                                   *)
(*                                                                         *)
(* Of an expression only its array subscripts matter here: each one ends   *)
(* the current block with a check and goes on in a new one.  Of a basic    *)
(* block only its effects and its terminators are kept, in order.          *)
(***************************************************************************)
EXTENDS Integers, Sequences, FiniteSets

CONSTANTS
    Stmt,       \* statements of the programs considered, closed under children
    Decl,       \* their global declarations
    Program,    \* the programs considered, sequences of declarations
    Name,       \* identifiers
    Tag,        \* labels that tell statements and conditions apart
    NoTag,
    NoStmt      \* nullptr, the else part an if does not have

Kind == {"expr", "empty", "compound", "if", "while", "return"}

\* What scope.push associates with a name.
Binding == {"function", "global", "param", "local"}

INSTANCE ScopeOps WITH Value <- Binding, NoValue <- "nullptr"

\* The node classes of syntax_tree.hpp; subscripts counts the array accesses
\* of the node's expression.
IsStmt(s) ==
    /\ s.kind \in Kind
    /\ s.subscripts \in Nat
    /\ s.tag \in Tag
    /\ s.kind = "compound" => /\ s.locals \in Seq(Name)
                              /\ s.list \in Seq(Stmt)
    /\ s.kind = "if" => /\ s.then \in Stmt
                        /\ s.else \in Stmt \cup {NoStmt}
    /\ s.kind = "while" => s.body \in Stmt
    /\ s.kind = "return" => s.value \in BOOLEAN

IsDecl(d) ==
    /\ d.kind \in {"var", "fun"}
    /\ d.id \in Name
    /\ d.kind = "fun" => /\ d.void \in BOOLEAN
                         /\ d.params \in Seq(Name)
                         /\ d.body \in Stmt
                         /\ d.body.kind = "compound"

ASSUME StmtAssumption == NoStmt \notin Stmt /\ \A s \in Stmt : IsStmt(s)

ASSUME ProgramAssumption ==
    Program \subseteq Seq(Decl) /\ \A d \in Decl : IsDecl(d)

\* The functions the constructor declares.
Runtime == {"input", "output", "neg_idx_except"}

ASSUME RuntimeAssumption == Runtime \subseteq Name

-----------------------------------------------------------------------------
VARIABLES
    todo,               \* declarations syntax_program has still to visit
    phase,              \* "decls" between declarations, "body" in a function, "crashed"
    stack,              \* handlers in progress, innermost last
    inner,              \* the scope stack
    blocks,             \* blocks[b]: what has been emitted into basic block b
    placed,             \* the basic blocks that have been inserted into curr_func
    insert,             \* where the IRBuilder inserts
    curr_block,
    is_returned,
    is_returned_record,
    return_alloca       \* "null", or a slot of curr_func ("own") or of an earlier one ("other")

vars == << todo, phase, stack, inner, blocks, placed, insert, curr_block,
           is_returned, is_returned_record, return_alloca >>

emitting == << blocks, placed, insert, curr_block >>
flags == << is_returned, is_returned_record >>

(* Basic blocks and instructions.                                          *)

\* Slip: return_block is never created for the function.
NullReturnBlock == 0

return_block == 1       \* created detached, inserted last
entrybb == 2

Effect(tag) == [op |-> "effect", tag |-> tag, to |-> << >>]
Alloca == [op |-> "alloca", tag |-> NoTag, to |-> << >>]
StoreResult(tag) == [op |-> "store", tag |-> tag, to |-> << >>]
StrayStore(tag) == [op |-> "stray_store", tag |-> tag, to |-> << >>]
CallExcept(tag) == [op |-> "neg_idx_except", tag |-> tag, to |-> << >>]
Br(tag, b) == [op |-> "br", tag |-> tag, to |-> << b >>]
\* Slip: the two targets swapped.
CondBrSwapped(tag, t, f) == [op |-> "condbr", tag |-> tag, to |-> << f, t >>]

CondBr(tag, t, f) == [op |-> "condbr", tag |-> tag, to |-> << t, f >>]
CheckBr(tag, neg, ok) == [op |-> "check", tag |-> tag, to |-> << neg, ok >>]
Ret == [op |-> "ret", tag |-> NoTag, to |-> << >>]

Op == {"effect", "alloca", "store", "stray_store", "neg_idx_except", "br", "condbr", "check", "ret"}

\* How many blocks an instruction names.
Arity(op) == IF op = "br" THEN 1 ELSE IF op \in {"condbr", "check"} THEN 2 ELSE 0

Item == { i \in [op : Op, tag : Tag \cup {NoTag}, to : Seq(Nat)] : Len(i.to) = Arity(i.op) }

\* The store of a return value, wherever return_alloca points: fun_declaration
\* does not touch it for a void function, and the visitor does not look.
ResultStore(tag) == IF return_alloca = "own" THEN StoreResult(tag) ELSE StrayStore(tag)

IsTerminator(i) == i.op \in {"br", "condbr", "check", "ret"}

Emit(code, b, i) == [code EXCEPT ![b] = Append(@, i)]

NewBlock == Len(blocks) + 1

(* Handlers in progress.                                                   *)

Top == stack[Len(stack)]

Popped == SubSeq(stack, 1, Len(stack) - 1)

\* pc "eval": visiting the expression, left subscripts to go.
\* A loop keeps startBB in orig_block and bodyBB in trueBB.
Handler(s) ==
    [node |-> s,
     pc |-> IF s.kind \in {"expr", "if", "return"} THEN "eval" ELSE "start",
     left |-> s.subscripts,
     next |-> 1,
     orig_block |-> 0, trueBB |-> 0, falseBB |-> 0,
     trueBB_location |-> 0, trueBB_returned |-> FALSE]

\* The innermost handler moves on to frame f and calls accept on child.
Call(f, child) == Append(Append(Popped, f), Handler(child))

At(kind, pc) ==
    /\ phase = "body"
    /\ stack # << >>
    /\ Top.node.kind = kind
    /\ Top.pc = pc

\* The expression of the innermost handler has been visited.
Evaluated(kind) == At(kind, "eval") /\ Top.left = 0

\* Slip: SetInsertPoint without keeping curr_block up to date.
MoveBuilderOnly(b) == insert' = b /\ UNCHANGED curr_block

MoveTo(b) == insert' = b /\ curr_block' = b

\* Several pushes in a row: the first of equal names wins.
PushedAll(s, names, binding) ==
    LET top == Innermost(s)
        declared == DOMAIN top \cup { names[i] : i \in DOMAIN names }
    IN  [s EXCEPT ![Len(s)] =
            [n \in declared |-> IF n \in DOMAIN top THEN top[n] ELSE binding]]

-----------------------------------------------------------------------------
Init ==
    /\ todo \in Program
    /\ phase = "decls"
    /\ stack = << >>
    /\ inner = << [n \in Runtime |-> "function"] >>
    /\ blocks = << >>
    /\ placed = {}
    /\ insert = 0
    /\ curr_block = 0
    /\ is_returned = FALSE
    /\ is_returned_record = FALSE
    /\ return_alloca = "null"

visit_var_declaration ==
    /\ phase = "decls" /\ todo # << >> /\ Head(todo).kind = "var"
    /\ inner' = Pushed(inner, Head(todo).id, "global")
    /\ todo' = Tail(todo)
    /\ UNCHANGED << phase, stack, emitting, flags, return_alloca >>

fun_declaration_begin ==
    /\ phase = "decls" /\ todo # << >> /\ Head(todo).kind = "fun"
    /\ LET fun == Head(todo) IN
       /\ return_alloca' = IF ~fun.void THEN "own"
                           ELSE IF return_alloca = "null" THEN "null" ELSE "other"
       /\ inner' = PushedAll(Entered(Pushed(inner, fun.id, "function")), fun.params, "param")
       /\ blocks' = << << >>, IF fun.params # << >> \/ ~fun.void THEN << Alloca >> ELSE << >> >>
       /\ placed' = {entrybb}
       /\ stack' = << Handler(fun.body) >>
    /\ MoveTo(entrybb)
    /\ phase' = "body"
    /\ todo' = Tail(todo)
    /\ UNCHANGED flags

\* Slip: return_block is filled in but never inserted into the function.
FunctionEndDetached ==
    /\ phase = "body" /\ stack = << >>
    /\ blocks' = Emit(blocks, return_block, Ret)
    /\ insert' = return_block
    /\ inner' = Exited(inner)
    /\ phase' = "decls"
    /\ UNCHANGED << todo, return_alloca, stack, placed, curr_block, flags >>

fun_declaration_end ==
    /\ phase = "body" /\ stack = << >>
    /\ placed' = placed \cup {return_block}
    /\ blocks' = Emit(blocks, return_block, Ret)
    /\ insert' = return_block
    /\ inner' = Exited(inner)
    /\ phase' = "decls"
    /\ UNCHANGED << todo, return_alloca, stack, curr_block, flags >>

compound_stmt_enter ==
    /\ At("compound", "start")
    /\ inner' = PushedAll(Entered(inner), Top.node.locals, "local")
    /\ blocks' = IF Top.node.locals = << >> THEN blocks
                 ELSE Emit(blocks, insert, Alloca)
    /\ is_returned' = FALSE
    /\ stack' = Append(Popped, [Top EXCEPT !.pc = "list"])
    /\ UNCHANGED << todo, return_alloca, phase, placed, insert, curr_block, is_returned_record >>

\* Slip: no break after a return.
CompoundGoesOn ==
    /\ At("compound", "list") /\ Top.next <= Len(Top.node.list)
    /\ stack' = Call([Top EXCEPT !.next = @ + 1], Top.node.list[Top.next])
    /\ UNCHANGED << todo, return_alloca, phase, inner, emitting, flags >>

compound_stmt_next ==
    /\ At("compound", "list")
    /\ ~is_returned /\ Top.next <= Len(Top.node.list)
    /\ stack' = Call([Top EXCEPT !.next = @ + 1], Top.node.list[Top.next])
    /\ UNCHANGED << todo, return_alloca, phase, inner, emitting, flags >>

\* Slip: a return inside skips scope.exit.
CompoundLeavesScopeOpen ==
    /\ At("compound", "list")
    /\ is_returned \/ Top.next > Len(Top.node.list)
    /\ is_returned_record' = is_returned
    /\ is_returned' = FALSE
    /\ inner' = IF is_returned THEN inner ELSE Exited(inner)
    /\ stack' = Popped
    /\ UNCHANGED << todo, return_alloca, phase, emitting >>

\* Slip: is_returned is reset but not recorded.
CompoundForgetsReturn ==
    /\ At("compound", "list")
    /\ is_returned \/ Top.next > Len(Top.node.list)
    /\ is_returned' = FALSE
    /\ inner' = Exited(inner)
    /\ stack' = Popped
    /\ UNCHANGED << todo, return_alloca, phase, emitting, is_returned_record >>

compound_stmt_exit ==
    /\ At("compound", "list")
    /\ is_returned \/ Top.next > Len(Top.node.list)
    /\ is_returned_record' = is_returned
    /\ is_returned' = FALSE
    /\ inner' = Exited(inner)
    /\ stack' = Popped
    /\ UNCHANGED << todo, return_alloca, phase, emitting >>

\* Slip: the block behind the check is created without its function.
SubscriptDetached ==
    /\ phase = "body" /\ stack # << >>
    /\ Top.pc = "eval" /\ Top.left > 0
    /\ LET arrnegBB == NewBlock
           arrokBB == NewBlock + 1
           tag == Top.node.tag
           checked == Emit(blocks, insert, CheckBr(tag, arrnegBB, arrokBB))
       IN  /\ blocks' = checked \o << << CallExcept(tag), Br(tag, arrokBB) >>, << >> >>
           /\ placed' = placed \cup {arrnegBB}
           /\ MoveTo(arrokBB)
    /\ stack' = Append(Popped, [Top EXCEPT !.left = @ - 1])
    /\ UNCHANGED << todo, return_alloca, phase, inner, flags >>

\* The array case of visit(syntax_var), the same for LOAD and STORE.
visit_var_subscript ==
    /\ phase = "body" /\ stack # << >>
    /\ Top.pc = "eval" /\ Top.left > 0
    /\ LET arrnegBB == NewBlock
           arrokBB == NewBlock + 1
           tag == Top.node.tag
           checked == Emit(blocks, insert, CheckBr(tag, arrnegBB, arrokBB))
       IN  /\ blocks' = checked \o << << CallExcept(tag), Br(tag, arrokBB) >>, << >> >>
           /\ placed' = placed \cup {arrnegBB, arrokBB}
           /\ MoveTo(arrokBB)
    /\ stack' = Append(Popped, [Top EXCEPT !.left = @ - 1])
    /\ UNCHANGED << todo, return_alloca, phase, inner, flags >>

visit_expresion_stmt ==
    /\ Evaluated("expr")
    /\ blocks' = Emit(blocks, insert, Effect(Top.node.tag))
    /\ stack' = Popped
    /\ UNCHANGED << todo, return_alloca, phase, inner, placed, insert, curr_block, flags >>

\* node.expression is null in the statement ";": the accept call on it crashes.
visit_empty_stmt ==
    /\ At("empty", "start")
    /\ phase' = "crashed"
    /\ UNCHANGED << todo, return_alloca, stack, inner, emitting, flags >>

selection_stmt_then ==
    /\ Evaluated("if")
    /\ LET trueBB == NewBlock IN
       /\ blocks' = Append(blocks, << >>)
       /\ placed' = placed \cup {trueBB}
       /\ MoveTo(trueBB)
       /\ stack' = Call([Top EXCEPT !.pc = "then", !.orig_block = curr_block,
                                    !.trueBB = trueBB],
                        Top.node.then)
    /\ UNCHANGED << todo, return_alloca, phase, inner, flags >>

selection_stmt_else ==
    /\ At("if", "then") /\ Top.node.else # NoStmt
    /\ LET falseBB == NewBlock IN
       /\ blocks' = Append(blocks, << >>)
       /\ placed' = placed \cup {falseBB}
       /\ MoveTo(falseBB)
       /\ stack' = Call([Top EXCEPT !.pc = "else", !.falseBB = falseBB,
                                    !.trueBB_location = curr_block,
                                    !.trueBB_returned = is_returned_record],
                        Top.node.else)
    /\ UNCHANGED << todo, return_alloca, phase, inner, flags >>

\* The branches are filled in last, in the order of the code: the conditional
\* one, then the one that ends the if part, then the one that ends the else part.
selection_stmt_end ==
    /\ \/ At("if", "then") /\ Top.node.else = NoStmt
       \/ At("if", "else")
    /\ LET endBB == NewBlock
           hasElse == Top.pc = "else"
           trueBB_location == IF hasElse THEN Top.trueBB_location ELSE curr_block
           trueBB_returned == IF hasElse THEN Top.trueBB_returned ELSE is_returned_record
           falseBB == IF hasElse THEN Top.falseBB ELSE endBB
           tag == Top.node.tag
           c1 == Emit(blocks, Top.orig_block, CondBr(tag, Top.trueBB, falseBB))
           c2 == IF trueBB_returned THEN c1 ELSE Emit(c1, trueBB_location, Br(tag, endBB))
           c3 == IF ~hasElse \/ is_returned_record THEN c2 ELSE Emit(c2, curr_block, Br(tag, endBB))
       IN  /\ blocks' = Append(c3, << >>)
           /\ placed' = placed \cup {endBB}
           /\ MoveTo(endBB)
    /\ is_returned' = FALSE
    /\ stack' = Popped
    /\ UNCHANGED << todo, return_alloca, phase, inner, is_returned_record >>

iteration_stmt_start ==
    /\ At("while", "start")
    /\ LET startBB == NewBlock IN
       /\ blocks' = Append(Emit(blocks, insert, Br(Top.node.tag, startBB)), << >>)
       /\ placed' = placed \cup {startBB}
       /\ MoveTo(startBB)
       /\ stack' = Append(Popped, [Top EXCEPT !.pc = "eval", !.orig_block = startBB])
    /\ UNCHANGED << todo, return_alloca, phase, inner, flags >>

iteration_stmt_body ==
    /\ Evaluated("while")
    /\ LET bodyBB == NewBlock IN
       /\ blocks' = Append(blocks, << >>)
       /\ placed' = placed \cup {bodyBB}
       /\ MoveTo(bodyBB)
       /\ stack' = Call([Top EXCEPT !.pc = "body", !.trueBB = bodyBB], Top.node.body)
    /\ UNCHANGED << todo, return_alloca, phase, inner, flags >>

\* Slip: the body jumps back to itself instead of to the condition.
LoopBackToBody ==
    /\ At("while", "body")
    /\ LET endBB == NewBlock
           tag == Top.node.tag
           c1 == IF is_returned_record THEN blocks ELSE Emit(blocks, insert, Br(tag, Top.trueBB))
       IN  /\ blocks' = Append(Emit(c1, Top.orig_block, CondBr(tag, Top.trueBB, endBB)), << >>)
           /\ placed' = placed \cup {endBB}
           /\ MoveTo(endBB)
    /\ is_returned' = FALSE
    /\ stack' = Popped
    /\ UNCHANGED << todo, return_alloca, phase, inner, is_returned_record >>

\* The jump back goes to wherever the body left the builder; the conditional
\* branch is put at startBB whether or not the condition ended there.
iteration_stmt_end ==
    /\ At("while", "body")
    /\ LET endBB == NewBlock
           tag == Top.node.tag
           c1 == IF is_returned_record THEN blocks ELSE Emit(blocks, insert, Br(tag, Top.orig_block))
       IN  /\ blocks' = Append(Emit(c1, Top.orig_block, CondBr(tag, Top.trueBB, endBB)), << >>)
           /\ placed' = placed \cup {endBB}
           /\ MoveTo(endBB)
    /\ is_returned' = FALSE
    /\ stack' = Popped
    /\ UNCHANGED << todo, return_alloca, phase, inner, is_returned_record >>

\* A store to nullptr is undefined: an LLVM with assertions stops here, another
\* goes on with a store that has no address (visit_return_stmt).
return_stmt_null ==
    /\ Evaluated("return") /\ Top.node.value /\ return_alloca = "null"
    /\ phase' = "crashed"
    /\ UNCHANGED << todo, return_alloca, stack, inner, emitting, flags >>

visit_return_stmt ==
    /\ Evaluated("return")
    /\ LET tag == Top.node.tag
           stored == IF Top.node.value THEN Emit(blocks, insert, ResultStore(tag)) ELSE blocks
       IN  blocks' = Emit(stored, insert, Br(tag, return_block))
    /\ is_returned' = TRUE
    /\ is_returned_record' = TRUE
    /\ stack' = Popped
    /\ UNCHANGED << todo, return_alloca, phase, inner, placed, insert, curr_block >>

\* The walk is over, or the process is gone.
Stopped ==
    /\ phase = "crashed" \/ (phase = "decls" /\ todo = << >>)
    /\ UNCHANGED vars

Walk ==
    \/ visit_var_declaration \/ fun_declaration_begin \/ fun_declaration_end
    \/ compound_stmt_enter \/ compound_stmt_next \/ compound_stmt_exit
    \/ visit_var_subscript \/ visit_expresion_stmt \/ visit_empty_stmt
    \/ selection_stmt_then \/ selection_stmt_else \/ selection_stmt_end
    \/ iteration_stmt_start \/ iteration_stmt_body \/ iteration_stmt_end
    \/ visit_return_stmt \/ return_stmt_null

Next == Walk \/ Stopped

Spec == Init /\ [][Next]_vars

-----------------------------------------------------------------------------
Frame == [node : Stmt, pc : {"start", "eval", "list", "then", "else", "body"},
          left : Nat, next : Nat \ {0}, orig_block : Nat, trueBB : Nat, falseBB : Nat,
          trueBB_location : Nat, trueBB_returned : BOOLEAN]

\* Every handler keeps the visitor's variables in their types, and the builder
\* never points outside the blocks created so far.
TypeOK ==
    /\ todo \in Seq(Decl)
    /\ phase \in {"decls", "body", "crashed"}
    /\ stack \in Seq(Frame)
    /\ inner \in Seq(ScopeMap)
    /\ blocks \in Seq(Seq(Item))
    /\ placed \subseteq 1..Len(blocks)
    /\ insert \in 0..Len(blocks)
    /\ curr_block \in 0..Len(blocks)
    /\ is_returned \in BOOLEAN
    /\ is_returned_record \in BOOLEAN
    /\ return_alloca \in {"null", "own", "other"}

\* Between two pieces of code the global curr_block is where the builder
\* inserts, however many blocks the subscripts, branches and loops in between
\* have opened: back-patching in visit(syntax_selection_stmt) relies on it.
CurrBlockIsInsertionPoint ==
    phase = "body" => insert = curr_block /\ insert \in placed

InScope == { k \in DOMAIN stack : stack[k].pc = "list" }

\* The scope stack mirrors the nesting of the handlers, on every way out of a
\* compound statement, the break after a return included: one scope for the
\* globals, one for the function, one per compound statement being visited, a
\* local shadowing every outer meaning of its name; and the global scope never
\* learns a parameter or a local.
ScopesMirrorNesting ==
    /\ Len(inner) = 1 + (IF phase = "decls" THEN 0 ELSE 1) + Cardinality(InScope)
    /\ stack # << >> /\ Top.pc = "list" =>
          \A i \in DOMAIN Top.node.locals : Find(inner, Top.node.locals[i]) = "local"
    /\ \A n \in DOMAIN inner[1] : inner[1][n] \in {"function", "global"}

HasTerminator(code) == \E i \in 1..Len(code) : IsTerminator(code[i])

\* What LLVM's verifier asks of a basic block.
WellFormed(code) ==
    /\ code # << >> /\ IsTerminator(code[Len(code)])
    /\ \A i \in 1..(Len(code) - 1) : ~IsTerminator(code[i])

\* No store has an address in another function, or none.
OwnStores(code) == \A i \in 1..Len(code) : code[i].op # "stray_store"

\* When a function is finished, every basic block in it ends with its only
\* terminator and stores only to the function's own slots: what "cminusc
\* -analyze" verifies of the module, what the two flags is_returned and
\* is_returned_record are there to achieve, and what return_alloca, which keeps
\* the slot of an earlier function, can break.
FunctionsVerify ==
    phase = "decls" => \A b \in placed : WellFormed(blocks[b]) /\ OwnStores(blocks[b])

\* Branches stay inside the function: they lead to blocks that were inserted
\* into it, never back to the entry block.
BranchesStayInside ==
    phase = "decls" =>
        \A b \in placed : \A i \in 1..Len(blocks[b]) :
            \A k \in 1..Len(blocks[b][i].to) :
                blocks[b][i].to[k] \in placed \ {entrybb}

\* A block that has its terminator is never touched again while the function is
\* being built: no statement after a return, no second branch, no late
\* back-patch into a finished block.
NothingAfterTerminator ==
    [][phase = "body" /\ phase' = "body" =>
          \A b \in 1..Len(blocks) : HasTerminator(blocks[b]) => blocks'[b] = blocks[b]]_vars

\* A handler resumes in stack after the statement it called accept on.
Resumed == IF stack = << >> THEN phase = "body" ELSE Top.pc \in {"then", "else", "body"}

\* When a branch or a loop body has been visited, is_returned_record says
\* whether it left the current block terminated.  This is all that decides
\* whether a branch to the end block is added.
RecordTellsReturn ==
    phase = "body" /\ Resumed => (is_returned_record <=> HasTerminator(blocks[curr_block]))

-----------------------------------------------------------------------------
(* Classes of programs: what statements and declarations may look like.     *)

\* No statement is a lone semicolon.
NoEmpty(stmts) == \A s \in stmts : s.kind # "empty"

\* A branch or a loop body is in braces, or is a return.
Braced(stmts) ==
    \A s \in stmts :
        /\ s.kind = "if" => /\ s.then.kind \in {"compound", "return"}
                            /\ s.else # NoStmt => s.else.kind \in {"compound", "return"}
        /\ s.kind = "while" => s.body.kind \in {"compound", "return"}

\* A loop condition has no subscript.
PlainConditions(stmts) == \A s \in stmts : s.kind = "while" => s.subscripts = 0

Returns(s) == \E i \in 1..Len(s.list) : s.list[i].kind = "return"

\* No block nested directly in another returns.
NestedBlocksFallThrough(stmts) ==
    \A s \in stmts : s.kind = "compound" =>
        \A i \in 1..Len(s.list) : s.list[i].kind = "compound" => ~Returns(s.list[i])

\* Every function body has a return among its own statements.
BodiesReturn(decls) == \A d \in decls : d.kind = "fun" => Returns(d.body)

\* No statement of these returns a value, at any depth.
ReturnsNothing(stmts) ==
    \A s \in stmts :
        /\ s.kind = "return" => ~s.value
        /\ s.kind = "compound" => \A i \in 1..Len(s.list) : s.list[i] \in stmts
        /\ s.kind = "if" => s.then \in stmts /\ s.else \in stmts \cup {NoStmt}
        /\ s.kind = "while" => s.body \in stmts

\* A return in a void function has no value; voids is what void functions are made of.
ResultsFit(voids, decls) ==
    /\ ReturnsNothing(voids)
    /\ \A d \in decls : d.kind = "fun" /\ d.void => d.body \in voids

\* The class, given the statements of the void functions.
Behaved(stmts, decls, voids) ==
    /\ NoEmpty(stmts) /\ Braced(stmts) /\ PlainConditions(stmts)
    /\ NestedBlocksFallThrough(stmts) /\ BodiesReturn(decls)
    /\ voids \subseteq stmts /\ ResultsFit(voids, decls)

WellBehaved(stmts, decls) == \E voids \in SUBSET stmts : Behaved(stmts, decls, voids)
=============================================================================
