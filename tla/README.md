# exolang: a verification of the compiler

exolang is a small compiler. `exo` parses a program into a syntax tree
(`src/exo/ast`), walks the tree once and lowers it to an LLVM module
(`src/exo/jit/codegen.cpp`), lets LLVM verify, optimise and run or emit the
module (`src/exo/jit/jit.cpp`). This directory holds TLA+ modules that model
parts of it, TLC configurations that check them on small instances, and
theorems about them that TLAPS proves. Paths below are relative to the
repository's `src/`.

## 1. The system

| part | state it keeps | operations | how it can go wrong |
|---|---|---|---|
| `Stack`, `Frame` (`exo/jit/stack.cpp`, `frame.cpp`) | frames with an insert, a break and a condition block, a parent and a symbol table | `Push`, `Pop`, `Join`, `Block`, `Break`, `Continue`; `Get`, `Set`, `isRef` | jump targets are copied at `Push` and fall back at lookup; lookup and rebinding follow the parent chain |
| `Codegen`, statements | the stack, the builder's insert point, the module's blocks | one `visit()` per statement, recursive through `accept()` | pushes and pops are paired by hand, across nested visits; the insert point and the top frame's block are two copies of one thing; a jump in a nested statement changes what the enclosing handler may still append |
| `Codegen`, expressions and calls | `currentResult`, `generateInMem` | one `visit()` per operator, `invokeFunction`, `invokeMethod` | whether a value or its address is wanted is a member variable that callees overwrite |
| `Codegen`, classes | `properties`, `methods`, struct types | `DeclClass`, `getPropPos`, `new`, `delete` | tables are copied from the parent and must agree with the struct layout |
| module loading (`Tree::Parse`, `StmtUse`, `StmtImport`) | current directory, `imports`, include paths | `Parse`, `use`, `import` | recursion of modules, the current directory after an exception |
| `Target`, `JIT` | target machine, module | `createModule`, verification, `Execute`, `Emit` | order of operations, ownership of the module |
| driver, `Init`, signal handlers | exit code | `main`, `Startup`, `Shutdown`, handlers | a signal or a failure at any step; the exit status is all that a caller sees |
| lexer, parser (`lexer.qx`, `parser.y`) | generated automata | tokens, reductions | see below |
| syntax tree nodes, errors | plain data | constructors, `accept` | none of their own |

Components call each other synchronously; there is one thread. What is
asynchronous is a signal. The hard behaviour of this program is not
concurrency but *protocol*: `Codegen` is one object with much mutable state, a
recursion of nearly fifty handlers works on it, and each handler relies on
what the handlers nested in it left behind. A test exercises one program; the
models here range over all programs up to a size, and the theorems over all
programs.

`PROJECT.json` lists the components, every hazard found at its line, the runs
and the source lines behind each definition.

## 2. The modules

| module | content |
|---|---|
| `Frames` | the operations of `Stack` and `Frame`, as operators on a sequence of frames |
| `Codegen` | the statement visitors as a state machine over that stack |
| `CodegenProps` | type invariant, safety invariants and action properties of `Codegen` |
| `LexicalScopes` | what lexical scoping promises, without symbol tables |
| `CodegenScopes` | `Codegen` as a refinement of `LexicalScopes` |
| `Expressions` | the expression visitors as a state machine over `generateInMem` and the type of `currentResult` |
| `ExpressionsProps` | type invariant, safety invariants and an action property of `Expressions` |
| `Objects` | what a class declaration promises: the fields, their types and the methods that follow from what is written, without positions and tables |
| `Classes` | `DeclClass` and the uses of classes as a state machine over struct types and tables |
| `ClassesProps` | invariants of `Classes`, and its refinement of `Objects` |
| `Loader` | the files `use` and `import` look for, and their nested visits |
| `Driver` | the process: `Loader` composed with `main`, `Target`, `JIT`, exceptions and signals |
| `DriverProps` | invariants and the liveness property of `Driver` |
| `MC_Codegen`, `MC_Expressions`, `MC_Classes`, `MC_Driver` | instances for TLC |
| `FramesProofs` | lemmas about the operators of `Frames` |
| `CodegenProofs` | the inductive invariant, and how each kind of step keeps its parts |
| `CodegenInvariant` | one lemma per action, and the theorems about the scope stack |
| `CodegenTargets` | theorems about where jumps lead and into which function code goes |
| `CodegenTerminators` | theorems about the blocks that result: what `llvm::verifyModule` accepts |
| `ExpressionsProofs` | theorems about types, values and instructions of `Expressions` |
| `ClassesProofs` | theorems about layouts and uses of `Classes`, and that it implements `Objects` |
| `DriverProofs` | the inductive invariants of `Driver`, and its theorems |

### How `Codegen` corresponds to the code

*Recursion.* `visits` holds one activation for every `visit()` that waits for a
nested `accept()`. A handler is cut at those calls and nowhere else: `OpenFor`
runs `visit( StmtFor& )` up to its first declaration, `ForCondition` from the
last declaration to `stmt.scope->accept()`, `CloseFor` from there to the end.
An activation keeps the handler's locals that are still needed (`exit`, `cond`,
`loop`, `alt`) and, as a ghost, the depth of the stack at its start (`base`).
`Simple` is a handler without nested visits, `Nest` a call, `Leave` a return.

*Programs.* The tree is not an input. Which statement comes next is chosen when
it is visited, so the behaviours are the visits of all trees within the bounds.
The constants `BareJumps`, `StrayJumps`, `Shadowing` and `Statements` select
the programs under study; they are conjuncts of the actions (`MayBreak`,
`Bracketed`, `Declare`) and model the author of the program, not the compiler.

*State.* `frames` is `Codegen::stack`, `cursor` the `IRBuilder`'s insert point,
`owner` and `code` the blocks of the LLVM module: which function a block is in
and the sequence of its terminators. A sequence, because LLVM does not stop
anyone from appending a second one; the verifier complains later. Instructions
that are not terminators are left out. `storage` counts allocas and arguments,
so that two declarations never have the same storage. `result` is what the
last variable read found.

*Expressions* may read one variable and are otherwise abstract; so are conditions
and the update of a `for`, which cannot change any of this state.

*Failure.* An exception ends the compilation: `status` becomes `"failed"`. The
failing actions are those the statement visitors can take: an unknown name, a
reference to a value without an address, a jump where the stack has no frame
below, a `use` of a module that is missing or has errors.

*Assumed of LLVM and the compiler* (external in the map): `getTerminator`, `getParent`,
`BasicBlock::Create` and the `Create*` calls of the builder, as used. The
lookups of `Frame` compare an iterator with another table's `end()`; that both
are null is so in the standard libraries the project builds with.

*Not in it.* `Stack::Del` and `Frame::Del` have no caller. `DeclMod` does nothing.
`DeclFunProto`, `StmtImport` and `DeclClass` do not touch the stack (the methods
of a class are `DeclFun`s).

### How `Expressions` corresponds to the code

The second view of the same recursion. `Codegen` follows blocks and frames and leaves
expressions out; `Expressions` follows what an expression results in and leaves
blocks out. Neither reads the other's state: no expression visitor touches the
stack's frames or a block, and no statement depends on a result's type, but
for the condition, the return and the declarations, which are in both.

*State.* `generateInMem` is the member of that name; `result` is the LLVM type of
`currentResult`, as a base type at the end of some pointers; `symbols` says how each
name came into scope, and so what `Stack::Get` returns (`Slot`); `emitted` holds, of
each instruction the last step generated, the type of its operand and the one LLVM
requires. An activation in `visits` keeps the handler's locals (`mem` is `inMem`, `held` is
`lhs` or `variable`).

*Programs.* What the author may write at a place is its `wants`: a type, and whether
its address is asked for. What the handler needs there is `needs`; the two differ
only where a number is given for a reference or an object, the mistakes the handlers look
for. `RefUses` restricts what is done with references, `Destructors` and `ConstructorArgs`
exclude the two other findings.

*Abstracted.* The numbers of all widths and `null` are one type, and so their mismatches are
not seen. Objects are one class: a cast between classes changes nothing. The lookups
of functions, classes, properties and methods succeed, or `Unresolved` ends
the compilation. A name is declared once, and a function's end is left to `Codegen`.

### How `Classes` corresponds to the code

The third view of the recursion: `visits` holds the `DeclClass` visits and, above each, the
visit of the member whose initializer or body is being generated. `OpenClass` runs `visit(
DeclClass& )` to its first property, `DeclProperty` one turn of the property loop
without initializer, `OpenInitializer` and `CloseInitializer` one with, `OpenMethod` from
there (or from the end of the properties, with `setBody`) to `method->accept( this )`,
`CloseMethod` the rest of the turn, `CloseClass` the end.

*State.* `types` is what `getTypeByName()` finds; `properties` and `methods` are the members of
that name, with positions counted from 1. LLVM renames the second struct type and the second
function of a name, so that lookups go on finding the first: `functions` counts them, and
a method's `function` says which was found. `text` is what the author wrote; it makes a
class that is declared again, by a module that two others use, say the same again.
`compiled` records what a use was bound to when it was compiled.

*Programs.* A class may be declared in a method of another and extend any class there
is, itself included. With `EarlyUses = FALSE` the author uses a class being declared
only in its methods, and there all of its properties but only those methods that the
class has declared already. With `TRUE` the model has the code's whole behaviour, and
`UsesUpToDate` fails: see section 3.

*Abstracted.* The values of defaults; names that `EXO_METHOD` maps to the same string; a class that
is declared again with another text.

### How `Loader` and `Driver` correspond to the code

`Loader` is a second composition partner of the code generator: of each file only its `use` and
`import` statements are known. `loading` is the recursion of `visit( StmtUse& )`,
`cwd` the process's current directory, which `visit( Tree& )` changes and which an
exception leaves where it was. The file system is not an input: `disk` holds what was found of the
files looked for, and a file looked for again is as it was. A `use` searches the current directory and
then the include paths, an `import` the library paths and then the current directory;
a path that is not absolute means a directory below the current one at that time. `MaxDepth` is
the depth the stack has room for. In the code it is some ten thousands; what matters is
that it is more than there are modules.

`Driver` composes it with the rest of the process. `pc` is where `main()` is, one action per phase:
`Startup`, `MakeTarget` (`Target::Target`), `Parse` (`Tree::Parse`), `Generate` to `Generated` (`visit( Tree& )`),
`Verify` (`JIT::JIT`), then `Emit` (to the `Place` that the name of the output stands for), or `Execute`, `LoadLibrary` and `Run` (`JIT::Execute`), and
`Exit`. `Fails` is an exception of any phase; `Catch` stands for all catch clauses, which
differ in what they log. `Emission` keeps the order in which the options are asked for.
A bare file name has an empty `parent_path()`, to which the current directory cannot
change: `exo file.exo` fails where `exo ./file.exo` runs (`BareName`).

*Signals* may arrive at any step. SIGTERM and SIGINT kill before the handlers are registered; then the
handler collects garbage and returns, and nothing has changed (`Asked`), although it is
to "initialize shutdown" (`exo/signals/signals.h:37`). A fault (`Segfault`) throws; whether the frames on the
way can be unwound from an instruction that is no call is up to the build, so both are
possible. SIGSEGV stays blocked, as the handler never returned. A stack that has overflowed has no room
for the handler (`Overflow`).

*Fairness* is weak fairness of `Main`: the operating system goes on running the one thread. A
program's `Return` is not part of it, since nothing makes a program end, nor is
any signal.

## 3. What is checked

The first six runs use `MC_Codegen`, the next four `MC_Expressions`, then `MC_Classes` and `MC_Driver`. Deadlock is checked everywhere: a compilation that has
ended stutters (`Finished`, `Failed`, `Ended`), and no handler may get stuck before that.

| run | question | bounds |
|---|---|---|
| `any_program` | every kind of statement in any nesting, jumps anywhere: `TypeOK`, `FrameBalance`, `CursorSync`, `JumpTargets`, `EmitsInOwnFunction` | 7 blocks, 5 nested visits |
| `careful_program` | jumps in loops, and in braces under `while` and `for`: `SingleTerminator`, `NoOrphanBlock`, `ModuleVerifies` | 8 blocks, 5 visits |
| `scoping` | no name declared while visible: `RefinesScopes` | 2 names, 3 declarations, 6 blocks, 5 visits |
| `bare_jump` | finding: a jump as the whole body of a `while` | 4 blocks |
| `stray_jump` | finding: a jump outside every loop | 4 blocks |
| `shadowing` | finding: a name declared again in an inner scope | 1 name, 2 declarations |
| `expressions` | every expression at every place, outside the three findings below: `TypeOK`, `ValueAsAsked`, `InstructionsTyped`, `MistakesRejected` | 3 types, references to numbers, 1 name, 3 nested visits |
| `bare_delete` | finding: `delete` of an object without destructor | as `expressions` |
| `constructor_arguments` | finding: `new` with arguments | as `expressions` |
| `reference_uses` | finding: what is done with references | as `expressions` |
| `classes` | classes in any nesting, each declared up to twice: `TypeOK`, `LayoutAgrees`, `ParentWithin`, `SlotsWithin`, `UsesUpToDate`, `Creatable`, `RefinesObjects` | 2 classes, 2 properties, 2 types, constructor and destructor, 3 members in all, 1 use, 4 nested visits |
| `driver` | every command line, file system, failure and signal: `TypeOK`, `ExitStatus`, `OutputInStartDirectory`, `UsesResolveAlike`, `OnlyRecursionExhausts`, `RunsWithImports`, `Terminates` | 2 modules, 2 libraries, 3 directories that are searched, 2 uses or imports a file, depth 4 |

Why the bounds are enough. A handler's only knowledge of the others is the top
two or three frames and its own locals. With seven blocks, one of them the tree's entry, a
`while` holds a `do` and a `switch` a `while`; the eighth of `careful_program` lets a `for` (five blocks)
hold a scope or a branch, for which `any_program` has no room: its properties are proved of programs of any size. With five
visits there are four statements inside one another, so that a jump crosses two scopes
to its loop and a function is declared in a loop in a scope. The frame
discipline does not depend on the bounds at all: it is proved.
A visitor of an expression depends on the flag it is called with and on what the one
nested in it left: with three visits a statement holds an operator that holds another, in any
order of operands and arguments, and the flag goes on to the statements that follow, without
bound. A variable's handler knows its name only by how it was declared, so that one
name of any kind stands for all; the run passes with two names as well (1.4 million states).

A class knows of the others only its parent's tables, of which it takes a copy: two classes are a parent
and a child, or a class in another's method, and three members let a child hide one member
and add another. Classes, properties and types are interchangeable (symmetry). A search
of three places has a first, a last and one between, one of them relative; with two modules each may be
in any of them and use itself, the other, or both, and depth 4 is more than two modules fill
without a cycle.

What the properties say:

* `FrameBalance`: the stack is as deep as the waiting handlers say, whatever they
  are nested in; it is empty after the tree.
* `CursorSync`: wherever a statement or the rest of a handler begins, the builder
  appends to `stack->Block()`. Each handler asks the one for a terminator and writes to
  the other.
* `JumpTargets`: the targets inherited by the top frame are those of the innermost
  loop or switch. The exception is a function: its frame has the block of its
  declaration as break target and *keeps the continue target of a loop around it*.
* `EmitsInOwnFunction`: no instruction of one function goes into another.
* `SingleTerminator`, `NoOrphanBlock`, `ModuleVerifies`: what `llvm::verifyModule`
  (jit.cpp) would otherwise find out after the fact.
* `RefinesScopes`: the parent-chained tables give every read the declaration that
  lexical scoping gives it. The abstract specification knows no tables: a scope is
  a copy of the view around it.
* `ValueAsAsked`: a handler that asked for a value has one of the type written there, and not
  the address of one, whatever was visited between: the flag is a single member that
  few handlers restore, and a return relies on what the statement before it left.
* `InstructionsTyped`: only pointers are loaded from, what is stored fits, calls, operators and
  returns get what they are declared with. LLVM asserts this in debug builds and
  has undefined behaviour in others.
* `MistakesRejected`: of all the exceptions about types, exactly the ones that are due
  (`tests/fail-ref1.exo`, `fail-ref2.exo`).
* `LayoutAgrees`: the positions of a class and the elements of its struct are one to one, and
  its slots have no gap, whatever was inherited, hidden, overridden or declared again. A wrong
  position is a `getelementptr` to another field.
* `ParentWithin`: what the parent has is at the same position in the child, and of the same type unless the
  child itself declares it with another (`Retyped`); the struct of a child that does not do so begins with the
  parent's, type for type. `invokeFunction` relies on it: it casts the pointer and nothing else (codegen.cpp:1439).
  A child that does, as those of `tests/object-hierarchy3.exo`, replaces the element (codegen.cpp:176): its struct is not
  the parent's with more at the end, and the cast is then wrong, which nothing in the code prevents.
* `SlotsWithin`: a method of the parent keeps its slot in the child, overridden or not.
* `UsesUpToDate`: a use compiled earlier is still right when all classes are complete. It
  needs `EarlyUses = FALSE`: a method is entered in the table only after it was
  generated, so a `new` of the class in a method written before `__construct` calls no constructor, and
  a method cannot call itself, or calls its parent's.
* `Creatable`: which classes `new` can create: not those with methods only, unless
  they extend a class or are extended (`properties.at()`, codegen.cpp:852).
* `RefinesObjects`: what a class has follows from what is written. `Objects` goes through the members of a
  declaration one by one, adds each to its own class over what was inherited, with the type it has there, and
  allows no other change: no member is lost, taken for another class's or added twice, when the class is declared
  again neither. `Said` and `Done` tie a step to the text: the members written, and how many were come to.
* `ExitStatus`: 0 means that help or the version was asked for, or that the program ran to its end and
  returned a multiple of 256; so an emission, even a successful one, never ends with 0.
* `OutputInStartDirectory`: the current directory is the input file's during generation and the first one
  again when something is written, which is where a name that is not absolute starts from.
* `UsesResolveAlike`: one name is one file throughout a compilation, although a module may be
  used from any other and files are searched for again at every use.
* `OnlyRecursionExhausts`: only a module that uses itself, directly or not, exhausts the stack.
* `RunsWithImports`: a program runs with all that is written in it. Of the input file and of every file that was used,
  through however many others, each `use` was resolved and each `import` is a library that is loaded, and no library is
  loaded that no file asks for. A nested visit ends in the middle of another file, so a statement that it skips, or an
  import that it forgets, is missed only when the program runs.
* `Terminates`: exo always gets to running the program or to its end, and ends after the
  program has returned.

### Findings

1. `while( ... ) break;` - the end of `visit( StmtWhile& )` branches back without asking
   whether the body ended the block, unlike its siblings (`codegen.cpp:1306`).
2. A `break` or `continue` outside a loop is not rejected: `Stack::Break` and `Continue`
   fall back on the frame below, so the check of `codegen.cpp:896` never fails in a scope.
3. Declaring a name in an inner scope replaces the outer variable's storage for good
   (`frame.cpp:75-84`).
4. `delete $o; return 1;` returns an address if the class of `$o` has no destructor
   (`codegen.cpp:808`).
5. `new Foo( 1 )` results in `1` (`codegen.cpp:866`).
6. Reading a parameter passed by reference loads twice, and `+=` and `&` of a declared reference
   work on the pointer (`codegen.cpp:439`).

## 4. What is proved

Every safety property that a passing run checks is also a theorem, for every value of the
constants, but one: `RefinesScopes`. TLC says that a formula holds of a small instance, and found out
cheaply which strengthenings are invariant; TLAPS says that it holds of every program.

| theorem | states | of which programs |
|---|---|---|
| `CodegenInvariant!TypeCorrect`, `StackBalanced`, `InsertPoint` | `TypeOK`, `FrameBalance`, `CursorSync` | all |
| `CodegenTargets!JumpsLeadRight`, `OwnFunction` | `JumpTargets`, `EmitsInOwnFunction` | all |
| `CodegenTerminators!OneTerminator`, `NoneOrphaned`, `Verified` | `SingleTerminator`, `NoOrphanBlock`, `ModuleVerifies` | `CarefulJumps` |
| `ExpressionsProofs!TypeCorrect` | `TypeOK` | all |
| `ExpressionsProofs!ValuesAreAsAsked`, `InstructionsAreTyped`, `MistakesAreRejected` | `ValueAsAsked`, `InstructionsTyped`, `MistakesRejected` | `Careful` |
| `ClassesProofs!TypeCorrect`, `CreatableClasses` | `TypeOK`, `Creatable` | all |
| `ClassesProofs!LayoutsAgree`, `ParentsWithin`, `ObjectsRefined` | `LayoutAgrees`, `ParentWithin`, `RefinesObjects` | all |
| `ClassesProofs!SlotsStayWithin`, `UsesStayUpToDate` | `SlotsWithin`, `UsesUpToDate` | `EarlyUses = FALSE` |
| `DriverProofs!TypeCorrect`, `ExitStatusTold`, `OutputPlaced`, `ImportsLoaded`, `OneFilePerName`, `OnlyRecursion` | `TypeOK`, `ExitStatus`, `OutputInStartDirectory`, `RunsWithImports`, `UsesResolveAlike`, `OnlyRecursionExhausts` | all |

*Assumptions.* On the constants only what the modules that declare them assume, and TLC evaluates
in every run: `CodegenAssumption`, `ExpressionsAssumption`, `ClassesAssumption` (the constants have
their types, numbers and objects are among the types, the constructor and destructor are methods),
`LoaderAssumption` (the paths are sequences, the directories exo is started in and of the input file
are absolute) and `DriverAssumption`. Three groups of theorems are about some programs only, by a hypothesis
that is a condition on the author, and the same the passing runs have; without it, each property fails:

* `CarefulJumps`: no `break` or `continue` outside what it jumps out of (finding 2), and none that is the
  whole body of a `while` (finding 1) or of a `for` (whose update block would be left without code).
* `Careful`: what is deleted has a destructor (finding 4), constructors have no arguments where their object is
  used (finding 5), references are to numbers and used as `SoundUses` says (finding 6).
* `EarlyUses = FALSE`, of `SlotsStayWithin` and `UsesStayUpToDate` only: what is used of a class that is being
  declared is there already, and such a class is not extended. A class in a method of another that extends that
  one does not get the methods that come later, which `SlotsWithin` says it has; for `UsesUpToDate` see
  section 3. The other theorems about classes hold with `TRUE` too, where the run checks them with `FALSE`.

### The scope stack (`CodegenProofs`, `CodegenInvariant`)

None of the three properties is inductive. A handler that pops two
frames restores the balance only if the two on top are its own: `Discipline`
therefore says of the waiting handlers that each started from the depth the one
around it had reached (`Balanced`), that the outermost is the tree and no other is
(`TreeFirst`, `Nested`), that a function's frame was pushed with the block of
its declaration as break target (`FunReturns`: this is why `SetInsertPoint( stack->Pop() )`
at the end of a function leads back to the declaration), and that a handler's saved
blocks exist (`LocalsSet`). `IInv` is `TypeOK`, `Discipline` and `CursorSync`.
`CodegenProofs` shows once how a simple statement, a call and a return keep
`Discipline` (`SimpleStep`, `NestStep`, `LeaveStep`); `CodegenInvariant` then has a lemma per
action. `FramesProofs` has what is needed of `Push`, `Pop`, `Join` and `Set`.

### Jump targets and functions (`CodegenTargets`)

`JumpTargets` compares the top frame with a loop that may be any number of visits below, so
that no step can be seen to keep it. `Chain` is the one link of it that a handler makes: between the frame it found on top of the
stack and the one it leaves there, the break and continue targets are either its own blocks or inherited
(`Inherits`), and the insert block is of the same function, as are the blocks it will go back to, none of which is
an entry (`Within`). `TInv` is `IInv` and the chain. From the links the theorem follows for a chain of any length.
That would be an induction over the visits, which the provers cannot do with an operator as a
parameter: `Carried` looks instead at the highest link where the claim fails, and there is none above it.
Steps keep links by three lemmas: a handler in another phase (`AdvanceChained`), one that pushes (`OpenOnTop`, `OpenChained`) and one that returns, on whose frames the ones below are as they
were (`LeaveChained`, `ChainsKept`). `OwnFunction` is an action property: each step's emissions are in the function of the
current block, which the chain says is that of the innermost function visited.

### Terminators (`CodegenTerminators`)

`SingleTerminator` and `NoOrphanBlock` are two halves of one account. `Awaits` names the
blocks a waiting handler will go on at; `Tidy` says that every block without code, but the current one,
is awaited by exactly one handler, and that no handler awaits a block with code; so a handler that sets the
insert point to its exit finds it empty, and no block is forgotten when the last handler has returned. `Open`
says where the current block has no terminator yet: before a nested statement, and at the end of a
`while` or `for` - which is where the hypothesis is needed. `Stays` says that branches stay in their function. A step's effect on
blocks is one of few (`Emit`: it ends some blocks that were not ended), and each action is shown to be one.

### Expressions (`ExpressionsProofs`)

`Typing` holds of every program: what each waiting handler wants and gives (`Formed`), that an expression stands
where it fits (`Under`), and that there is a value where one is used. `Values` is the invariant of careful programs:
`generateInMem` is what the handler on top asked for, and false between statements (`Flag`); each handler's
`inMem` is what the one around it asked for (`Asked`), so that restoring it restores what that one relies on; the result is of the
type wanted (`Suits`), and so is the operand a handler keeps over its second `accept()` (`Kept`).
`InstructionsTyped` is part of the invariant too, since it is about the last step only. An assignment
to a reference is the reason why `Assigned` is wider than `IsPlace`.

### Classes (`ClassesProofs`)

The tables of a class that is declared again are overwritten by its parent's and filled once more; in between
they agree with nothing that is in the state. `GInv` therefore says that there *are* histories: for each class,
what had been laid out after each of its members (`History`, one `Grow` per member, from what its parent had in
the end). A finished class has the last layout of its history, one that is declared the first time what was laid out
up to now, and one that is declared again `Replays` it: its table has what the layout at this
member has, and every position that is computed is the position that it had (`ReplayedPosition`). `Extends` (a layout is at
the start of every later one) and `Keeps` (and its types stay but where a member says otherwise) give `ParentWithin`; `Whole` (positions are one to one with elements) gives
`LayoutAgrees`, with `SlotsNumbered`, that slots have no gap, which needs no history; `Bound` says that what a
use was bound to is also in the last layout. Where something may be used early, methods and uses are not followed
(`Slots`, `LateUses`): a class may then be extended with only a part of its methods. Its properties are all there
before its first method is visited, so that they are followed in every program (`Settled`). The existential is
unrolled in each lemma and the new histories are given as a witness: `Longer` when the author writes another
member, the same otherwise. `TInv` is what needs no history and holds of every program: types, one visit
per class, where each visit is in its class's text, and which classes have a table of properties (`Created`).

The refinement: `Init => Abstract!Init`, and every step is a step of `Objects` or changes none of its variables
(`StepRefines`). The field at a position is the visit's if it got that far, or else the struct's (`Shape`, `Showing`):
in a class that is declared again, positions are there before the elements are. `Staging` says how far each declaration
is and `OnlyAt` that a step concerns one class; a member that is come to is the next of the text (`ComesTo`), the first time because the author
writes it then (`SaysIt`).

### The process (`DriverProofs`)

`IInv` is `Control` and `UsesResolved`. `Control` says what each phase of
`main` has established for the next: the current directory is the input file's only
while the tree is visited (`Directories`), nothing that emits runs and the reverse
(`Emitted`, `Phases`), and on the way out `retval` is the program's result or the 1 that
it was set to otherwise (`Retval`); an exception or a signal may leave at any step, so
each part must hold at every one. That two uses of a name have the same file is not
inductive: a step knows only the file that it resolves. `UsesResolved` says that each
use is of the first of `HomePlaces` that is on the disk - the places seen from the input file's
directory, which is where `cwd` is whenever one is resolved - and `Learn` never changes what is
known of the disk (`LearnGrows`), so it stays the first (`ResolvedStays`). `FirstIsOne` then
gives the theorem: of two resolutions, either is before the other or they are one.

`FInv` adds to it what is known of the files and the visits of them: every file visited is one that a use
was resolved to and that is on the disk with so many statements (`Visited`). `OnlyRecursion` is a pigeonhole over names: a stack of
different modules is no longer than there are modules, since a name is one file; so a stack that is full
visits some file twice.

`WInv` adds `Whole`, for `ImportsLoaded`. `RunsWithImports` is about the end and no step makes it true at once. `Covers` says
of each visit that the statements before its place had their effect (`Handled`); `Pending`, that a file that was used is complete or is
being visited; `Justified`, that each import is asked for by a file. A statement that is passed
keeps them (`PassedCovers`, `PassedPending`), a visit that ends has covered its whole file
(`FinishedComplete`), and when the last has ended no file is pending. A module may be on the stack twice; the visit that ends first
makes it complete.

### Model-checked only

* `RefinesScopes`, of programs that declare no visible name again. The simulation needs an invariant that
  relates the tables of every frame to the view at the start of its scope, the planned next proof.
* `Terminates`: liveness under fairness is out of the prover's reach, as is `ENABLED`; so are the deadlock checks.
* The six findings: a theorem says nothing of a property that fails. `StrayJumpRejected` is only stated to be refuted.

Also out of reach, here and later: induction over data, and so what a recursive definition computes for every
input; anything in a module that uses a `RECURSIVE` operator.

## 5. Not modelled

The lexer and the parser are generated from tables; their automata are not the
program's own logic. Node classes and exception classes are data. LLVM itself, the garbage
collector and the file system are external. In particular: the values of property
defaults (a default that is not a constant belongs to the function it was computed in, and
`new` in another one makes a module that LLVM refuses), the optimisation passes, and what a collection
in a signal handler does to an allocation it interrupts (in the model the handler of SIGTERM changes nothing, so that
`Terminates` says nothing of it). A program that itself calls `exit()` ends the process with a status of its own; in the
model a program returns, goes on, or is ended by a signal.

## 6. Plan

1. The step simulation of `LexicalScopes` by `CodegenScopes` for programs without shadowing: while no visible name is
   declared again, each frame's table maps the names it holds to the storage that the view of its scope has.
2. Which of the storages visible in a function belong to it (`frame.cpp:47`): an invariant of `Codegen` that needs the
   function of each storage.
3. The reference flag of a name that is declared again in the same frame (`frame.cpp:71`), as a composition
   of `Frames` and `Expressions`.
