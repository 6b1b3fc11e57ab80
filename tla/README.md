# Verification of the C-minus compiler and its LLVM passes

This directory holds TLA+ models of the compiler in this repository, the TLC
configurations that check them, and proofs checked by TLAPS. Paths are relative
to the root of the repository. `PROJECT.json` lists the components, the runs,
the mutations that show each property can fail, the source lines every
definition stands for, the divergences found, the hazards and the theorems.

To check a module: `tlc -config MCScope.cfg MCScope.tla`; to check a proof:
`tlapm ScopeProofs.tla`.

## 1. The system

The repository is a course compiler in four labs. A source file passes through
flex, bison, a C tree, a C++ tree and the visitor `CminusBuilder`, which emits
LLVM IR; labs 3-2 and 4 are annotated LLVM passes that such IR goes through.
Everything is sequential. What is hard is not interleaving but *protocol*:
handlers that talk to each other through global variables, blocks that are
filled in long after they were left, worklists that outlive what they point to,
tables that must agree with one another at every step.

    text -> lexer -> parser -> C tree -> C++ tree -> CminusBuilder -> IR
                                                       |  Scope        |
                                                                   DCE, ADCE
                                                                       |
                                                                  RegAllocFast

| Component | State | Operations | What is hard | What makes it correct |
|---|---|---|---|---|
| Scope (`lab3-1/include/cminus_builder.hpp:14-52`) | a vector of maps | `enter exit push find in_global` | order of the search, first declaration wins, pairing of enter and exit | lookup is that of block structure |
| CminusBuilder, control (`lab3-1/src/cminusc/cminus_builder.cpp`) | builder's insertion point, basic blocks, globals `curr_block`, `is_returned`, `is_returned_record`, `return_block`, `return_alloca`, the scopes | one `visit` per node class, recursive | globals read after `accept`, late back-patching, `break` after a return | functions verify; the code does what the source says; scopes are balanced |
| CminusBuilder, expressions (same file) | globals `expression`, `curr_op` | `visit` of var, assign, simple, additive, term, call | the globals are overwritten by nested visits; i1 against i32 | operands and types of the emitted instructions |
| DCE and DIE (`lab3-2/working/DCE.cpp`) | function, worklist, iterator, `MadeChange` | sweep, worklist, `DCEInstruction` | deletion while iterating, pointers in the worklist, operand cycles | nothing dangles, exactly the dead code goes, the answer is right |
| ADCE (`lab3-2/working/ADCE.cpp`) | what is marked: instructions, blocks, phis; worklist; numbering of blocks | mark, control dependence, remove, rewire | optimistic marking; dead branches rewired to the successor nearest the exit | the code left takes the same visible steps; nothing left uses what is gone; paths to the exit remain |
| RegAllocFast (`lab4/working/RegAllocFast.cpp`, `.new.cpp`) | virtual register map, physical register states, spill slots, what lives across blocks | allocate, reload, spill, kill, several scans per instruction | aliases, early clobbers, tied operands, kill flags, use lists that allocation rewrites | every use reads the value last given to what it named; what a later block needs is stored |
| Lexer (`lab1_lexical_analyzer/lexical_analyzer.l`) | line and column | a rule per token | comments, positions across lines | positions and token boundaries |
| Parser (`lab2_syntax_analyzer/syntax_analyzer.y`) | global tree `gt` | `syntax`, `syntax_main` | what an error leaves behind | each run starts afresh |
| C tree (`syntax_tree/SyntaxTree.c`) | nodes with 1000 children slots | `newSyntaxTreeNode`, `SyntaxTreeNode_AddChild`, `deleteSyntaxTreeNode` | the fixed array | children in order |
| C++ tree (`lab3-1/src/syntax_tree_cpp/syntax_tree.cpp`) | stacks of nodes under construction | flattening of left-recursive lists | null children | same statements, same order |
| Driver (`lab3-1/src/cminusc/main.cpp`) | options | `main` | which outputs a set of options asks for | the outputs asked for are written, verified when `-analyze` asks |
| Runtime (`lab3-1/src/io/io.c`) | none | `input output neg_idx_except` | the caller goes on after `neg_idx_except` in the IR | `neg_idx_except` does not return |
| Listing (`common/common.c`) | caller's arrays | `getAllTestcase` | unbounded count | stays within the caller's arrays |
| Teaching material (`lab3-0`, `treegraph`, `calc_test`, `lab3-1/deps/analyzer`) | none of the compiler's | generators for fixed programs, a notebook, a calculator, generated code | nothing | not modelled |

How they interact: the visitor calls `scope.*` and the `IRBuilder` directly; its
handlers call each other through `accept`, a plain recursive call that passes
results in file-level globals. The passes share nothing but the IR.

## 2. Modules

| Module | Stands for |
|---|---|
| `ScopeOps` | the five operations of `Scope` as functions of its vector |
| `Scope` | `Scope` driven by any sequence of paired enter/exit, push and find |
| `Bindings` | the abstract specification: block-structured lookup tables |
| `CminusBuilder` | the control part of the visitor, one action per piece of a handler between `accept` calls |
| `CminusMeaning` | what a C-minus function means, read off its tree: a list of things still to do |
| `CminusRun` | the emitted blocks executed next to that meaning |
| `CminusExpr` | expressions: from the parser's tree over the C++ tree to the emitted instructions |
| `ExprMeaning` | what an expression means (`lab3-1/docs/cminus.md`), a machine for the instructions, and the comparison |
| `DCE` | both passes of `DCE.cpp` |
| `ADCE` | the pass of `ADCE.cpp` |
| `MachineCode` | registers, operands, instructions and use lists, as LLVM offers them to the allocators |
| `RegAllocFast` | both allocators of lab4; the variable `version` says which (8 or 10) |
| `AllocMeaning` | what allocated code means: which value is in which register unit or slot |
| `RegAllocCorrect` | what the allocators must achieve, from the two above |
| `ScopeProofs`, `CminusBuilderProofs`, `CminusBlockProofs`, `CminusRunProofs`, `DCEProofs`, `ADCEProofs`, `RegAllocProofs` | the proofs, by component; of the builder first what does not depend on the blocks' contents, then what does, then what the blocks do when they run |
| `SharedLemmas` | facts about sequences and about least and greatest numbers that the proofs share |
| `MCScope`, `MCBuilder`, `MCRun`, `MCExpr`, `MCDCE`, `MCADCE`, `MCRegAlloc` | bounded inputs for TLC |

Operators marked *Slip* in a module are ways the code could be wrong (a dropped
guard, a missing reset). Nothing uses them; `PROJECT.json` says which property
each one breaks.

### Scope and Bindings

`inner` is the vector of maps, outermost first. `reply` records the arguments
and the answer of the last `push` or `find`, so that the refinement compares
what a client sees, not only the tables. `Bindings` keeps, for each open scope,
the whole table that a lookup there answers from: opening a scope copies the
table, declaring changes one entry of the last table, closing drops it. The
mapping in `Scope` gives it `Tables(inner)`, the answer of the code's reverse
search from every depth, and `Domains(inner)`. `MaxDepth` bounds nesting for TLC
only: the theorem holds for any value.

### CminusBuilder

The C++ call stack of handlers is the variable `stack`. A frame keeps the node,
how far its handler has come (`pc`), how many subscripts of its expression are
left, the position in a statement list, and the C++ locals that are alive across
`accept` (`orig_block`, `trueBB`, `falseBB`, `trueBB_location`,
`trueBB_returned`). An action is a piece of a handler from one `accept` to the
next, with everything it does: emission, new blocks, the builder's insertion
point, the globals, the scopes. A block is inserted into the function when it is
created (`placed`), with one exception: `return_block` is created detached and
inserted last.

Abstracted: a block is the sequence of its effects (`effect`, `store`, `alloca`,
`neg_idx_except`) and terminators, in order; loads, arithmetic and names are left
out. Of an expression only the number of its subscripts is kept, since each one
splits the current block; where in the expression they come does not matter to
blocks. `label_cnt` only makes names unique. A name is bound to what kind of thing
it is (function, global, parameter, local). Values, types and calls are the
business of `CminusExpr`.

A lone `;` has a null `expression` in the tree; the visitor calls a member of it.
The outcome is undefined; what a build does is stop with a segmentation fault,
which is the phase `"crashed"`.

`return_alloca` is the slot a return stores its value to. `visit(syntax_fun_declaration)`
sets it for a function that is not void only (lines 132-134), and a return with a value
does not look whether it is the current one (line 346). So in a void function it is
`"null"` or the slot of an earlier function (`"other"`), and `ResultStore` emits a store
with no address, or with one of another function (`stray_store`). Of the first the outcome
is undefined: an LLVM with assertions stops the compiler (`return_stmt_null`), another
goes on with an invalid store.

Programs are constants: `Program` is any set of sequences of declarations over a
set `Stmt` of statements closed under children. `WellBehaved` (at the end of the
module) names the class for which the emitted functions are right: no lone `;`,
branches and loop bodies in braces or a plain return, no subscript in a loop
condition, no block nested directly in another that returns, a return among the
statements of every body, no return with a value in a void function. For the last the
class asks for a set `voids` of statements that is closed under children, has the bodies
of the void functions and no return with a value; `MCBuilder` gives it, TLC checks it.

### CminusMeaning and CminusRun

`CminusMeaning` takes a statement apart without blocks or branches. `CminusRun`
builds the program with `CminusBuilder!Walk`, then executes the blocks of the
last function: the machine chooses the outcome of every test and check, the
source follows, and both must be about to do the same visible thing. It is the
property that `FunctionsVerify` is not: swapped branch targets verify.

### DCE

A function is its instructions in layout order, their operands and the set with
side effects; any operand relation is allowed, forward references and cycles
included. `die_visit` is the whole body of the single sweep. `-dce` is cut finer,
at each instruction and each operand, because the interesting states lie between
nulling an operand and erasing its user. `isInstructionTriviallyDead`, the use
lists and `SmallSetVector` are LLVM's and modelled from how `DCE.cpp` uses them.
The debug counter may refuse any deletion, in any order: more than the command
line option can make it do, and all of it covered. `-die` is a pass over one basic block
and answers for each; here the sweep goes over all of them and answers once.

### CminusExpr and ExprMeaning

A tree `[name, children]` as bison builds it goes through `transform_*`, the cases
of `transform_node_iter`, and then through the visitors, operators from one state
of the visitor to the next. That state is `curr_op`, `expression` and the code
emitted. What `accept` returns to is the enclosing operator; what the visitors
leave for each other is in the two globals only, as in the code. `source` is a
list of expression statements, conditions and returns, one action per kind. The
blocks of a subscript check belong to the control part; here the check is one
instruction that may end the program.

`ExprMeaning` gives a tree its meaning without reference to instructions, and runs
the instructions on the same memories. They must make the same calls in the same
order, branch the same way and leave the same contents. Integers are `Width` bits
wide in two's complement. What the language leaves open (an index past the end, a
division by zero) ends the comparison, and so does a division with a negative operand.

The class `Agreed` of `MCExpr` is where code and `lab3-1/docs/cminus.md` agree. Outside it:

* A comparison used as an operand of `+ - * /` or of another comparison, as the
  value stored to an array element (lines 484, 494), or as an argument is passed on as
  an i1 where LLVM asks for an i32 (line 137 of the document gives it the value 0 or 1). As
  an index it is widened for the element but compared as an i1 (line 397), and for
  a local array the GEP takes the i1 (line 425).
* The value of an assignment to an element is the index (lines 484, 494), not the
  value assigned (document, line 130).
* In an assignment to an element the right side is evaluated before the index
  (line 512); the document says the address comes first. It shows when one
  changes what the other reads, or both have effects.
* `/` is `udiv` (line 604): with a negative operand the quotient is another.

`neg_idx_except` is looked up by name like a variable (line 407), but no program can
declare that name: identifiers consist of letters
(`lab1_lexical_analyzer/lexical_analyzer.l:67-68`).

An inner `STORE` in `curr_op` does not leak to the next variable: every visitor of an operand sets `LOAD` again, also
those of simple, additive and term that lie between an argument and its variable;
`ComputesTheSource` depends on it.

### ADCE

Blocks are numbers in layout order, an instruction is a block and a position. `m`
holds the marks and the four containers. Where the code goes through a container in
the order of pointers, or to a result that the order does not change, it is a set
from which any element may come next: more orders than the code has. The chain of
`markLive` calls that one mark sets off is one operator; the searches (back edges,
reverse post-order) and the worklist are one step per edge, per block and per
element. Post-dominators and the reverse dominance frontier are LLVM's and given by
their definitions; of a place that no path leaves, LLVM takes some block as a root,
here any. `RemoveControlFlowFlag` is the option; `-adce-remove-loops` keeps its default.
A phi keeps its operands when all its edges but one are gone.
Two details are simplified. `"br"` is a branch or a switch, and one with one successor is
unconditional here, while line 214 asks for a `BranchInst`: a switch with one successor
is treated like a dead branch there, and replaced by the same jump. And of a debug location
only the scope and its parents are kept, not the chain of inlined-at locations (lines
470-472): the functions of the model have no code inlined into them.

`SameSteps` is the heart: between two visible places (an instruction that is left, a
decision, an end) the rewritten code goes where the old code could only go, whatever
the removed branches decide, and enters a block with a phi over the same edge.

`removeDeadInstructions` answers whether its last loop deleted anything. Branches
rewired before it are deleted too (line 706) and not counted: a function in which
only branches go (an `if` with empty sides) is reported as unchanged, with all
analyses preserved, although the comment at line 180 says *return if any instruction
was removed*. `Changed` models the answer; no property is stated of it.

### Allocators

`ra` holds the members of `RegAllocFast` and the locals of `allocateInstruction`; a
method is an operator from one value of `ra` to the next, an action is one operand of
one scan, or the code between two scans. The two versions share the module where
they share the code; `version` chooses elsewhere. A loop over aliases or live
registers is written by its outcome: its stores go to different slots and commute.
The code inserted by a spill or reload is part of the function, with its kill flags,
because later passes look for them. An erased copy stays as an empty place.

`AllocMeaning` runs each block of the result next to the block it came from. A unit
or a half of a slot holds the set of original registers whose current value it has;
a use must find all of its own, a store, load or copy moves them, a kill flag or a
call destroys them. This is independent of how registers were chosen.

Of several copies to a register `traceCopies` follows the first in the list of definitions;
the model follows some one of them, the same each time.

Left out: register masks (a call's clobbers are what `AllocMeaning` forgets at it),
bundles, unallocatable registers, renamable flags. Debug values are rewritten as in
the code, and nothing is claimed of the slot a debug value names.

What the instances leave out, because the code is wrong or different there:

* `ThroughFirst` (version 10): the finding `tied_first`.
* `MixedDefs` (version 8): an instruction that sets a virtual register in an operand
  before a physical one. Version 8 takes them in operand order and the physical one
  takes away what was just given; version 10 has a scan of its own for physical
  definitions, and is given these instructions.
* Code in which every register waits to be read while a hinted one is allocated
  (version 10): the finding `hint_bonus`.
* An instruction that redefines a register in part and sets another virtual one in an
  earlier operand (both versions). The register is reloaded for it, but `UsedInInstr` is
  cleared before the definitions are allocated (line 1142; `RegAllocFast.cpp:1028`), so
  the other definition may take it; the old value is spilled and the redefinition gets
  a new register without a reload: the part it does not set is lost, which the comment at
  line 973 (*mark PartialDefs as used to avoid reallocation*) means to prevent.
* With a block that loops to itself `mayLiveOut` answers true before it looks at uses
  (line 274); the model keeps it, no instance depends on it. A debug value's use does
  not count (`reg_nodbg_instructions`).

## 3. Runs

| Run | Shows | Bounds and why they are enough |
|---|---|---|
| `scope` | `TypeOK`, `ImplementsBindings` | two names (one predeclared), two values, depth three: shadowing over a scope that does not bind the name, redeclaration, return of the outer value. Proved without bounds. |
| `builder_any` | what holds for *every* program: `TypeOK`, `CurrBlockIsInsertionPoint`, `ScopesMirrorNesting`, `BranchesStayInside` | all bodies of up to four nodes with every combination of subscripts, locals, returns and empty statements, alone and after a void function and a global of the same name; void functions that return a value, first and after a function with a slot. Four nodes are an if with both sides in a block, or a loop in a branch. |
| `run` | for class `WellBehaved`: `FunctionsVerify`, `RecordTellsReturn`, `NothingAfterTerminator` of the builder; `DoesWhatTheSourceSays`, `NoSilentLoop` of its code | up to five nodes, two kinds of effects, all outcomes of tests and checks, unbounded repetition of loops (their states recur). Five nodes are a return in a branch next to another statement, a loop in a branch, both flags handed from one function to the next. |
| `expr` | `ExprTypeOK`, `ComputesTheSource` for class `Agreed` | 4-bit integers (every overflow occurs), two literals, a variable, an array and a pointer to it, functions of none to two arguments; a factor inside each kind of expression, two deep, and up to three statements, over five memories. |
| `dce` | `TypeOK`, `NothingDangles`, `NeededKept`, `OrderIndependent`, `ChangeReported`, `Terminates` | three instructions with up to two operands and a terminator: a chain, a cycle, a repeated operand, a use in each direction. The safety properties are proved without bounds. |
| `adce` | `AdceTypeOK`, `SameSteps`, `OperandsRemain`, `KeptForAReason`, `SafeSuccessor`, `StillReturns`, `Terminates` | all reachable flow graphs of four blocks (diamonds, loops, a loop with two exits) with a call or a phi; all graphs of three, unreachable and endless blocks included, with a chain of values, a phi, a call that may only profile, a debug intrinsic; every order of the containers; both values of the option. |
| `regalloc` | `RegTypeOK`, `MapsAgree`, `UnitsHaveOneOwner`, `NeverStuck`, `NoVirtualLeft`, `ValuesReachUses`, `LiveOutStored` for both versions | two wide registers, one with two parts, so that three values compete for them; all sequences of three instructions from three lists, all pairs of blocks of two in both layouts and with a loop. `UseLimit` is 3, so that giving up the search occurs; `UnsignedMax` is 65535, larger than any sum of costs. A function has at most three definitions of a register (`traceCopies`), and a block one terminator. |

The other runs end in a violation, and each stands for an entry under `findings`:

* `unbraced`: a branch or loop body without braces leaves `is_returned_record` as
  an earlier return set it, perhaps in the function before; the jump to the end
  block is missing. `RecordTellsReturn` is the assumption that breaks.
* `ends_in_if`: after an if that returns on both sides the visitor goes on in an
  empty end block that nothing terminates.
* `subscript_in_loop`: the conditional branch of a loop is put at `startBB`
  although a subscript in the condition has moved on to another block.
* `tied_first`: in version 10 a register whose first use is a tied operand or a partial
  redefinition in a block laid out before its definition is not stored where it is
  defined: `handleThroughOperands` rewrites that use without `mayLiveIn`, so
  `mayLiveOut` finds no use elsewhere.
* `hint_bonus`: in version 10 A and B both wait to be read, and the first definition of
  a register that is later copied from A asks for a register. No register is left, but
  the bonus of the hint (line 727) makes A's impossible cost a little less than
  `spillImpossible`; A is taken, no error is reported, and the instruction that reads A
  comes to `llvm_unreachable`. Version 8 reports the error.

In `unbraced` the function before, whose return the record still tells of, is a valid
one: `void f() { return; }`.

Three more things are excluded by `WellBehaved` and have no run of their own. The
lone `;`, an expression statement without its expression (`lab3-1/docs/cminus.md:99`),
makes the visitor follow a null pointer (line 200): the phase `"crashed"`. And a block
nested directly in another block that returns (`{ { return; } x = 1; }`, excluded by
`NestedBlocksFallThrough`) resets `is_returned` (line 191), so the enclosing list goes
on and emits behind the jump. A void function that returns a value is refused by no part of
the compiler and its store goes astray; the language says that such a function
returns no value (`lab3-1/docs/cminus.md:71`) and the assignment that every return fits
the function's type (`lab3-1/README.md:43`), so it is not listed as a finding.

*Fairness.* The compiler and the passes run on one thread that nothing preempts
for ever and no action waits for anything outside; weak fairness of the whole
step relation says no more than that the program keeps running. It is used only
by `Terminates` (of `DCE` and `ADCE`) and `NoSilentLoop`; the other modules state none.
That the visitor's walk ends is no property: it is a recursion over a finite tree. Deadlock is checked in every run: the end of a
walk is a named stuttering step.

## 4. Proofs

All theorems hold for every value of the constants, under the named assumptions
of the modules (`NoValueAssumption`, `ScopeAssumption`, `StmtAssumption`,
`ProgramAssumption`, `RuntimeAssumption`, `InstAssumption`, `FunctionAssumption`,
`RegistersAssumption`, `UnitsAssumption`, `CostAssumption`, `CodeAssumption`): that the trees are trees of the grammar's
node classes, the operands of a function are its instructions or something else, the
alias list of a register names the registers that overlap it, a register class is not
empty and a function's virtual registers are finitely many, a register has at most one
low part and at least one unit, the code to be allocated consists of LLVM's instructions (only a virtual
register has a subregister index, a debug value names one register), is numbered from the
first of each block on and has physical registers live in, an unsigned number holds more than four times the cost of a store, and the special values
are distinct. TLC evaluates each assumption in a run.

**Scope** (`ScopeProofs`). `TypeCorrect`: the vector is never empty.
`ScopeImplementsBindings`: every step of `Scope` is a step of `Bindings` or a
stutter. The argument is four lemmas about the search: it stops at one place
(`FindAt`), it reads only the maps below its start (`FindCongruence`), it goes on
outwards past a map that lacks the name (`FindOutwards`); from these, how
`Tables` changes under each operation (`EnterOpens`, `ExitCloses`,
`PushDeclares`). The invariant needed is only the type.

**CminusBuilder** (`CminusBuilderProofs`). `TypeCorrect`,
`CurrBlockFollowsBuilder` and `ScopesAreBalanced`, for *every* set of programs.
None of the three is inductive. The inductive invariant `IInv` joins four parts:
`PlainInv` (types of the flags and of the work left), `EmitInv` (inside a function
`return_block` and `entrybb` exist, and the builder inserts at `curr_block`, an
inserted block), `StackInv` (no handler is in progress between functions) and
`ScopeInv` (the depth of the scope stack is one for the globals, one for the
function and one per compound statement in progress; for each of those, at its own
place in the scope stack, all its locals are bound; the global map holds only
functions and globals). The last part is what makes the argument go through when
an inner block closes and its parent's scope is the innermost again. There is one
lemma per action, and under it one step per part.

**The blocks CminusBuilder emits** (`CminusBlockProofs`). `BranchesLeadInside`, for
*every* set of programs: `TargetInv` says that inside a function every branch emitted
so far, and every block number a handler in progress keeps to branch to later, is a
block already inserted (or `return_block`, which `fun_declaration_end` inserts), and
not the entry block.

`FinishedFunctionsVerify` (each block of a finished function ends with its only
terminator, and stores go to the function's own slots), `RecordIsAccurate`
and `FinishedBlocksStay`, for every set of programs that satisfies `WellBehaved`. The hypothesis is a formula about the two
constants `Stmt` and `Decl`; the runs that expect a violation show that the code fails
without it, and `MCBuilder`'s `BehavedAssumption` has TLC evaluate it for the programs
of run `run`. The three hold together or not at all, because the flags decide which
branches are emitted and the branches emitted are what the flags describe. Their
invariant `BlockInv` says which blocks each handler in progress still *owes* a
terminator (`Debts`: the block before an if, the end of its first side unless that
returned, the start of a loop) and joins three parts: `OwedInv` (the blocks owed are
inserted, open, distinct, owed once and not the current one; all others but the current
one are finished; `return_block` is empty and not yet inserted), `CallInv` (each handler
was called on the child that its caller is waiting for, and in a list of statements
nothing before the last one visited was a return) and `FlagInv` (in a list
`is_returned` holds exactly when the last statement visited was a return, and exactly
when the current block has its terminator; after a branch or a loop body
`is_returned_record` does; between two statements the block is open). `CallInv` is where
the braces of `WellBehaved` are used: a statement other than a block or a return comes
back to a list, where `is_returned_record`, which it may have left stale, is written
before it is read again. That stores stay in the function is an invariant of its own,
`StoreInv`: a handler in progress in a void function is on a statement of `voids`, in any
other `return_alloca` is its own (`ResultInv`), hence no block has a stray store
(`AllOwn`).

**What the emitted code does** (`CminusRunProofs`). `RunTypeCorrect`, for every set of
programs, says that the machine never leaves the blocks inserted into the function and the
source never the statements of the program. Its invariant `MachineInv` rests on
`TargetInv`, on the number of targets of each instruction (`Arity`) and on every item of
the source's list being `Apt`, with a statement of the kind that its way of unfolding
needs. `CodeDoesWhatTheSourceSays` is for every set that satisfies `WellBehaved`:
run next to the meaning of its source, the code of a finished function does the same
visible things in the same order, whatever tests and subscripts come to. It is a proof
that the compiler is correct, and its invariant relates two things built at different
times, so it needs something the program does not keep: a *label* for each position of
each block, what the source has still to do when the machine comes there. `Labelled` and
`Fits` say, instruction by instruction, how the labels of neighbouring positions and of
the target of a branch must agree with the source. `Leads` says that the source comes
from one thing to do to another without anything visible; it is membership in every set
closed under one silent step, so that it needs no recursion, and `LeadsSame` states that
there is only one way. The invariants say that labels exist. While a function is being
built (`Fit`), each handler in progress promises a label to the blocks it owes a
terminator, and `Now` is the label of the insertion point: what is left of the list of
statements, then what the callers have left. When it is finished (`Finished`), the label
of its entry is its whole body. While it runs (`Following`), the source and the machine
are on the same way (`Meets`). There is one lemma per action of the builder and one per
step of the machine; they rest on `BlockInv`, `TargetInv` and `IInv`, which carry over
because a run of the code is a run of the builder (`RunsTheBuilder`). Labels are chosen
by a quantifier over functions on positions, which TLC cannot enumerate, so run `run`
checks the two properties and not this invariant. The programs that violate
`WellBehaved` are those of the runs that expect a violation.

**DCE** (`DCEProofs`). `TypeCorrect`, `NoDanglingPointer`, `EffectsKeepTheirOperands`,
`ResultIsExact` (for any function and any order, `-dce` deletes exactly the least
fixpoint of unused instructions, nothing more at any moment) and `AnswerIsTrue`.
Call what is present and not being deleted *kept*. The inductive invariant says:
kept instructions have the operands they began with, nothing present uses what is
not kept, and effects are kept (`UsersKept`); worklist and iterator hold kept
instructions, without repetition (`ListsKept`); the operands the deletion in
progress has passed are null (`Nulled`); every kept instruction that is trivially
dead is still ahead in the sweep or waits in the worklist (`DeadIsListed`, the
part that makes the result complete); whatever is not kept is unwanted
(`OnlyUnwanted`); and `MadeChange` records the deletions (`Reported`).

**ADCE** (`ADCEProofs`). `TypeCorrect`, `NothingLeftUsesTheDead` and
`NothingDeadIsLeft`: the pass removes only what nothing left uses and leaves only what
something needs (profiling of a constant is not a need), for every function, order of
the containers and value of the option.
`Marking` says what one chain of `markLive` calls may change, and every step that marks
is shown from it. The inductive invariant says: the marks lie in the function and what
is queued is live (`IsMarks`); edges are only lost (`GraphOK`); numbers stay within the
blocks (`SearchOK`); the blocks kept for rewiring end in an untouched conditional branch
that is dead (`BranchesOK`); what is live and no longer queued has live operands
(`Followed`), and what is live without a wanted effect has a live user (`Wanted`), where a
branch that was replaced by a jump counts as having no operands; nothing is queued once
branches are removed (`PhasesOK`). The exception for replaced branches is what makes
the two properties survive `updateDeadRegions`, which marks the new jump live.

`DeadBranchesHaveSafeSuccessors` and `RemovalKeepsReturns` are about the flow graph: the
assertion of `updateDeadRegions` never fails, and rewiring neither cuts a block off from
the ends of the function nor gives one a way there. Their invariant is `PathInv`. Until
branches are removed, a block whose branch is dead leaves (`Leaves`): some path of it ends.
This is where the trees of post-dominators come in: if a block does not leave, one of the
roots is on every way from it (`EndlessBelowRoot`), and the subtrees of such roots keep
their branches. While the search runs (`NumberingOK`), its stack is a path back from an
end, and each numbered block is an end, or has a successor that is numbered higher or still
on the stack; when it has ended (`NumbersOK`, `Ranked`), what is numbered is closed under
predecessors. So a block that leaves is numbered, the successor with the highest number has
a higher one than the block, and to keep only that edge preserves the ranks; along the ranks
every numbered block comes to an end. What `Reach` finds is the least set closed under
edges (`ReachClosed`, `ReachLeast`): it is computed in as many rounds as there are blocks,
and the number of rounds without a new block is bounded in `Layers`, which needs an
induction over numbers only.

`TheStepsStayTheSame` proves `SameSteps` for every function. The invariant `StepInv` says
what a dead branch may not do. A live block depends on no branch that is dead or gone,
and a block with a live phi has its predecessors among the blocks so treated
(`BlocksOK`); the search for back edges leaves no circle outside the live blocks, of
blocks that can be reached (`BackEdgesOK`, while its stack grows and shrinks, then
`NoCircle`). `Settled` is what remains of it at the end. The argument from there is about
graphs. Every block has a *nearest* live block on every way from it (`NearestExists`);
the successors of a block that is not seen share theirs, because a branch that is gone
decides about no live block (`TargetsMeet`). A step through unseen blocks either moves
the nearest block closer to the end or, between two dead blocks, descends along the
order without circles (`StepsDown`), so the unseen blocks still ahead get fewer
(`SilentFalls`), control arrives, and it arrives at one place only (`SomeLabel`,
`OneLabel`). The new graph has some of the same edges and never none, so it arrives at
that place too (`ArrivalsTold`); a phi is asked for its edge only where the predecessors
are live, hence where that edge is the same. A block from which no end is reached keeps its
branch, and so does all that follows it (`ArrivalsAgree`). Two of the assumptions on `Function` are needed here
only: nothing branches to the entry, and a debug intrinsic is no phi. LLVM's verifier
refuses the first, and the second is so by the classes of LLVM's instructions.

**RegAllocFast** (`RegAllocProofs`). `TablesAgree` and `OverlapsExclude`, for both
versions and every set of registers, aliases and functions. Neither is inductive: a
register can be given away only if what overlaps it is free. The invariant `IInv` joins
the types of the two maps (`IsAllocator`), their agreement inside a block (`Agree`), that
registers which overlap are not both in use (`OneOwner`), and that between blocks nothing
is held. The argument needs two facts that the code relies on without saying so: a loop
over aliases that stops at the first superregister in use has seen all that is in use,
because what else overlaps the register overlaps that superregister too
(`PassedFacts`); and a register whose cost is zero is free, or all that overlaps it is
disabled (`CostFacts`). The bonus of a hint, which can wrap, only chooses: room is made by
the true cost (`TakeSound`). There is one lemma per method (`DefinePhysReg`, `SpillVirtReg`, `TakeSound`,
`AllocVirtReg8`, ...) and per action only that it leaves the tables sound.

`TypeCorrect` and `NothingVirtualRemains` are about the code, for every function. What a
method does to a block is always the same (`Grown`): instructions are added that name no
virtual register, and every other instruction becomes a later form of itself (`Later`):
its operands keep their kind and are rewritten to physical registers or to none, and
physical operands may follow them. So an instruction is found again by its number
(`Once`) after any stores and loads were put around it. `Moves` says this of `ra`, is
transitive, and each method has a lemma for it (`SpillMoves`, `UsePhysMoves`,
`ReloadGot`, ...); those that choose a register also show that it is one (`Got`), and
those that rewrite an operand that it is not virtual afterwards (`Gives`). The invariant
`CodeInv` adds where the allocator is: blocks before the current one are settled and
those after it untouched (`BlocksInv`), in the current one what stands before `mi` is
settled (`BlockInv`), and in the current instruction each scan has left what it must
(`LeftIn`): after the early clobbers none is virtual, after the uses only definitions
are, after the definitions nothing. The delicate places are those where a scan skips an
operand because another scan is to take it: an early clobber when there are no
through-operands, an undef use in version 10, and the operands that a scan adds and no
scan visits. `CodeInv` is inductive only together with `IInv`, which says that
what a rewritten operand takes from `LiveVirtRegs` is a physical register.

`WaitingIsRespected` proves `NeverStuck`: an instruction that reads a physical register
never finds a virtual one in it, and `usePhysReg` and the like never come to their
unreachable cases. It has two hypotheses. `PhysicalsWait(input)` is what compilers emit:
each physical register that an instruction reads was set before it, or came into the
block, and nothing touched it or what overlaps it since; `WaitAssumption` of
`MCRegAlloc` has TLC evaluate it for every function of every instance. The other is
`NoHints \/ RoomLeft`: in version 8 nothing; in version 10 no copies, or, when the
operand in hand is given a register, one whose cost is below an impossible one with the
bonus taken off. It excludes the finding `hint_bonus` and nothing else: no state of run
`regalloc` violates it, and on the instances of `hint_bonus` `NeverStuck` fails only where it
does. `WaitingIsRespectedUnhinted` is the same theorem with a hypothesis on the input
only. The invariant has two parts more than the ones above. `SourceInv` says how the
operands in progress descend from those the instruction came with, scan by scan, so
that what is waited for can be read off the original code. `WaitInv` says that a
register which waits is reserved under its own name, or an error was reported (`Calm`),
that during the first scan nothing stands in the way of what is still to be read
(`NoneInTheWay`), and that without hints no hint is offered (`NoneHinted`). Each method
has a lemma that it leaves reserved what was reserved and gives away nothing that
overlaps it (`Spares`, `StillReserved`); in `allocVirtReg` of version 10 that is
`RoomSpares`: what is taken is cheaper than any reserved register, because room is left.

**Only model-checked.** Liveness (`Terminates`, `NoSilentLoop`): the prover does not
treat fairness. `ComputesTheSource` and `ExprTypeOK` speak of `CminusExpr`, which is
recursive over trees, which the prover cannot take up. `ValuesReachUses` and
`LiveOutStored` relate two executions of a whole block, before and after, by a fold over
its instructions; the allocator goes back to set kill flags on operands of instructions
long past and empties copies afterwards, so that no prefix of a block has its final
meaning while the allocator is in it. They hold for the functions a compiler produces (a
class given by `MCRegAlloc`), not for any code.

## 5. Not modelled, and why

The lexer (the automaton is flex's, its actions add to line and column), the grammar
(bison's; `MCExpr` builds the trees of its expression rules), the C tree (an append
to a fixed array), the transformation of declarations and statements (the builder's
model starts from their trees), the driver (options, then a straight line of LLVM
calls) and the test listing (directory input). Their hazards are listed. Left out
for good: IR names and `label_cnt`, printing of trees, pass registration and
statistics, generated code and teaching material, LLVM itself (dominators, use lists
and registers are given by their definitions).

## 6. Plan

Done: `Scope`/`Bindings`, `CminusBuilder`/`CminusRun`, `DCE`, `CminusExpr`, `ADCE`,
`RegAllocFast`; proofs of the first and third, of the builder's safety properties and that the code it
emits does what its source says, of ADCE's exactness, its removal of branches and that
the code it leaves takes the same steps, of the allocators' tables, that no virtual
register is left and that a register which waits to be read is not given away. What is
left:

* the composition of `CminusExpr` with `CminusBuilder` (the blocks between two
  instructions of an expression);
* `SyntaxTree` for statements, the parser's lifetime over several inputs.

Runs stay below two minutes each, so the bounds grow only where a new case
appears; runs that answer one question at two bounds are merged.
