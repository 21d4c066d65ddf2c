------------------------------- MODULE Codegen -------------------------------
(***************************************************************************)
(* The statement visitors of exo::jit::Codegen (src/exo/jit/codegen.cpp):  *)
(* how a syntax tree is lowered to basic blocks, and how the scope stack,  *)
(* the builder's insert point and the symbol tables move while it is.      *)
(*                                                                         *)
(* The visitor recurses: a visit() of a statement calls accept() on the    *)
(* statements nested in it.  `visits' is that recursion, one activation    *)
(* for every visit() that is waiting for a nested accept().  Each handler  *)
(* is cut at those calls and nowhere else: one action runs it from its     *)
(* start to the first nested accept(), the next from there to the next.    *)
(* The tree is not given in advance.  Which statement comes next is chosen *)
(* when it is visited, so the behaviours are the visits of every tree that *)
(* fits the bounds.  Expressions are abstract, except that they may read a *)
(* variable.                                                               *)
(*                                                                         *)
(* A visit's activation keeps the locals the handler still needs, and the  *)
(* depth the scope stack had at its start (`base', a ghost).               *)
(***************************************************************************)
EXTENDS Frames

CONSTANTS
  Statements,   \* the kinds of statement programs are made of
  BareJumps,    \* the handlers whose body may be a jump on its own, without { }
  StrayJumps,   \* may break and continue be written outside a loop?
  Shadowing,    \* may a name be declared while an outer one is visible?
  MaxBlocks,    \* bound: basic blocks of the module
  MaxVisits,    \* bound: nested visits
  MaxStorage    \* bound: variables and arguments

Loops == {"while", "do", "for"}
Jumps == {"break", "continue", "return"}
Nests == Loops \cup {"if", "scope", "label", "switch", "fun", "use"}
Kinds == Nests \cup Jumps \cup {"var", "expr"}

ASSUME CodegenAssumption ==
  /\ Statements \subseteq Kinds
  /\ BareJumps \subseteq Nests
  /\ StrayJumps \in BOOLEAN /\ Shadowing \in BOOLEAN
  /\ MaxBlocks \in Nat /\ MaxVisits \in Nat /\ MaxStorage \in Nat
  /\ "none" \notin Names

VARIABLES
  status,   \* "running"; "done" after the tree's visit; "failed" by an exception
  visits,   \* the activations, the innermost last
  frames,   \* Codegen::stack
  cursor,   \* the block the IRBuilder appends to
  owner,    \* owner[b] is the function of block b, named by its entry block
  code,     \* code[b] is the sequence of terminators appended to block b, each
            \* the set of blocks it may branch to; a return is {}
  storage,  \* the number of variables and arguments given storage so far
  result    \* the symbol the last expression that read a variable found

vars == <<status, visits, frames, cursor, owner, code, storage, result>>

NoName == "none"    \* an expression that reads no variable

Return == {}

\* The activations over the first n blocks.
Activation(n) ==
  [kind : Nests \cup {"tree"}, at : {"decls", "list", "body", "after"}, base : Nat,
   exit : 0 .. n, cond : 0 .. n, loop : 0 .. n, alt : 0 .. n]

\* The activation of a handler that starts, with the blocks it will go back to.
Visiting(kind, at, exit, cond, loop, alt) ==
  [kind |-> kind, at |-> at, base |-> Len(frames),
   exit |-> exit, cond |-> cond, loop |-> loop, alt |-> alt]

\* The activation of a handler that has no block to go back to.
Waiting(kind, at) == Visiting(kind, at, NoBlock, NoBlock, NoBlock, NoBlock)

-----------------------------------------------------------------------------
(* Helpers.                                                                *)

\* The block's getTerminator() is not null.
Ended(block) == code[block] # <<>>

\* The k-th block a handler creates, and the blocks and code with k more, which
\* all go into the function of the current block.
New(k)       == Len(owner) + k
AddBlocks(k) == owner' = owner \o [i \in 1 .. k |-> owner[Block(frames)]]
Blank(k)     == code \o [i \in 1 .. k |-> <<>>]

Terminate(c, block, targets) == [c EXCEPT ![block] = Append(@, targets)]

\* A handler that branched on without asking for the terminator.
FallAlways(target) == Terminate(code, cursor, {target})

\* "if( stack->Block()->getTerminator() == nullptr ) builder.CreateBr( target )"
Fall(target) == IF Ended(Block(frames)) THEN code
                ELSE Terminate(code, cursor, {target})

\* The visits after the statement just visited returned to the handler on top.
Returned(v) == IF Top(v).at = "body" THEN [v EXCEPT ![Len(v)].at = "after"] ELSE v

\* A handler that visits its statement list (StmtList) goes on with the next
\* statement only while the current block has no terminator.
Accepts ==
  /\ visits # <<>>
  /\ \/ Top(visits).at = "body"
     \/ Top(visits).at = "list" /\ ~ Ended(Block(frames))

\* A statement of this kind comes next, and its handler creates k blocks.
Visit(kind, k) ==
  /\ status = "running"
  /\ kind \in Statements
  /\ Accepts
  /\ Len(owner) + k <= MaxBlocks

\* The handler of this kind is on top of the recursion.
At(kind, at) ==
  /\ status = "running"
  /\ visits # <<>>
  /\ Top(visits).kind = kind
  /\ Top(visits).at = at

\* The statement's handler returns without having nested visits.
Simple == visits' = Returned(visits)

\* The handler waits for a nested accept().
Nest(activation) ==
  /\ Len(visits) < MaxVisits
  /\ visits' = Append(visits, activation)

\* The handler on top returns.
Leave == visits' = Returned(Rest(visits))

\* A handler that went on where Pop says, not where it joins.
LeaveToPopped(fs, exit) ==
  /\ frames' = Join(fs, exit)
  /\ cursor' = PopBlock(frames)
  /\ Leave

\* The last lines of most handlers: drop the frames the handler pushed and go
\* on at its exit block.
LeaveTo(fs, exit) ==
  /\ frames' = Join(fs, exit)
  /\ cursor' = exit
  /\ Leave

Throw == /\ status' = "failed"
         /\ UNCHANGED <<visits, frames, cursor, owner, code, storage, result>>

\* The innermost visit of one of these kinds, 0 if there is none.
Innermost(kinds) ==
  LET is == {i \in DOMAIN visits : visits[i].kind \in kinds}
  IN  IF is = {} THEN 0 ELSE CHOOSE i \in is : \A j \in is : j <= i

\* The handler waiting for what comes next; a used module's statements are
\* visited in place of the `use'.
Host == visits[Innermost((Nests \ {"use"}) \cup {"tree"})]

\* The jumps of the programs under study: see BareJumps and StrayJumps.  A
\* function's body starts afresh: a loop around its declaration is not its own.
Encloses(kinds) ==
  LET i == Innermost(kinds \cup {"fun"})
  IN  i # 0 /\ visits[i].kind \in kinds
Bracketed   == Host.at = "body" => Host.kind \in BareJumps
MayBreak    == Bracketed /\ (StrayJumps \/ Encloses(Loops \cup {"switch"}))
MayContinue == Bracketed /\ (StrayJumps \/ Encloses(Loops))

-----------------------------------------------------------------------------
(* The tree: visit( Tree& ).                                               *)

OpenTree ==
  /\ status = "running"
  /\ visits = <<>>
  /\ visits' = <<Waiting("tree", "list")>>
  /\ owner' = <<1>>
  /\ code' = << <<>> >>
  /\ frames' = Push(frames, 1, NoBlock, NoBlock)
  /\ cursor' = 1
  /\ UNCHANGED <<status, storage, result>>

\* An end of function that trusted every path to have returned.
ReturningNever(block, at) == code

\* A block that does not end in a return gets one: after the last statement of
\* the tree and of a function.
Returning(block, at) ==
  IF Ended(block) /\ Top(code[block]) = Return THEN code
  ELSE Terminate(code, at, Return)

\* The tree's statements are visited, or cut short by a return.
CloseTree ==
  /\ At("tree", "list")
  /\ LET block == PopBlock(frames)
     IN  /\ cursor' = block
         /\ code' = Returning(block, block)
  /\ frames' = Pop(frames)
  /\ visits' = <<>>
  /\ status' = "done"
  /\ UNCHANGED <<owner, storage, result>>

-----------------------------------------------------------------------------
(* Functions: visit( DeclFun& ).                                           *)

\* The function's frame is left for the block the declaration stands in.
OpenFun ==
  /\ Visit("fun", 1)
  /\ Nest(Waiting("fun", "decls"))
  /\ owner' = Append(owner, New(1))
  /\ code' = Blank(1)
  /\ frames' = Push(frames, New(1), Block(frames), NoBlock)
  /\ cursor' = New(1)
  /\ UNCHANGED <<status, storage, result>>

\* Declaring a name gives it new storage; an argument passed by reference is
\* its own storage.
Declare(n, isRef) ==
  /\ storage < MaxStorage
  /\ Shadowing \/ ~ Visible(frames, n)
  /\ storage' = storage + 1
  /\ frames' = Set(frames, n, storage + 1, isRef)

FunArgument(n, isRef) ==
  /\ At("fun", "decls")
  /\ Declare(n, isRef)
  /\ UNCHANGED <<status, visits, cursor, owner, code, result>>

FunBody ==
  /\ At("fun", "decls")
  /\ visits' = [visits EXCEPT ![Len(visits)].at = "list"]
  /\ UNCHANGED <<status, frames, cursor, owner, code, storage, result>>

\* A declaration that did not restore the insert point.
CloseFunStaying ==
  /\ At("fun", "list")
  /\ code' = Returning(Block(frames), cursor)
  /\ frames' = Pop(frames)
  /\ Leave
  /\ UNCHANGED <<status, cursor, owner, storage, result>>

CloseFun ==
  /\ At("fun", "list")
  /\ code' = Returning(Block(frames), cursor)
  /\ cursor' = PopBlock(frames)
  /\ frames' = Pop(frames)
  /\ Leave
  /\ UNCHANGED <<status, owner, storage, result>>

-----------------------------------------------------------------------------
(* Variables: visit( DeclVar& ), visit( ExprVar& ), visit( StmtExpr& ).    *)

\* What comes next is a variable declaration: a statement, or one of the list
\* a for loop starts with.
AtDeclaration ==
  /\ status = "running"
  /\ "var" \in Statements
  /\ Accepts \/ At("for", "decls")

Reads(n) == n # NoName => Visible(frames, n)
Found(n) == IF n = NoName THEN result ELSE SymbolOf(frames, n)

\* The initializer is evaluated before the name is bound, so that it may read
\* an outer variable of the same name.  A reference is only made to a value
\* that is a pointer.
DeclVar(n, isRef, init, isPointer) ==
  /\ AtDeclaration
  /\ Reads(init)
  /\ isRef /\ init # NoName => isPointer
  /\ Declare(n, isRef)
  /\ result' = Found(init)
  /\ Simple
  /\ UNCHANGED <<status, cursor, owner, code>>

\* UnknownVar from the initializer, or InvalidOp.
DeclVarThrows(isRef, init, isPointer) ==
  /\ AtDeclaration
  /\ \/ ~ Reads(init)
     \/ isRef /\ init # NoName /\ ~ isPointer
  /\ Throw

StmtExpr(n) ==
  /\ Visit("expr", 0)
  /\ Reads(n)
  /\ result' = Found(n)
  /\ Simple
  /\ UNCHANGED <<status, frames, cursor, owner, code, storage>>

StmtExprThrows(n) ==
  /\ Visit("expr", 0)
  /\ ~ Reads(n)
  /\ Throw

-----------------------------------------------------------------------------
(* Jumps: visit( StmtBreak& ), visit( StmtCont& ), visit( StmtReturn& ).   *)

EndBlock(targets) ==
  /\ code' = Terminate(code, cursor, targets)
  /\ Simple
  /\ UNCHANGED <<status, frames, cursor, owner, storage, result>>

StmtBreak ==
  /\ Visit("break", 0) /\ MayBreak
  /\ CanJump(frames)
  /\ EndBlock({Break(frames)})

StmtCont ==
  /\ Visit("continue", 0) /\ MayContinue
  /\ CanJump(frames)
  /\ EndBlock({Continue(frames)})

\* "Can not lookup exit block." and "Can not lookup condition block."
JumpThrows ==
  /\ \/ Visit("break", 0) /\ MayBreak
     \/ Visit("continue", 0) /\ MayContinue
  /\ ~ CanJump(frames)
  /\ Throw

StmtReturn ==
  /\ Visit("return", 0) /\ Bracketed
  /\ EndBlock(Return)

-----------------------------------------------------------------------------
(* Compound statements.  Each opens with a branch out of the current block *)
(* and a frame for the block its body starts in, and closes by joining the *)
(* frame it started from with its exit block.                              *)

StartAt(block) == /\ cursor' = block
                  /\ UNCHANGED <<status, storage, result>>

\* visit( StmtScope& ) and visit( StmtLabel& )
OpenRegion(kind, at) ==
  /\ Visit(kind, 2)
  /\ Nest(Visiting(kind, at, New(2), NoBlock, NoBlock, NoBlock))
  /\ AddBlocks(2)
  /\ code' = Terminate(Blank(2), cursor, {New(1)})
  /\ frames' = Push(frames, New(1), NoBlock, NoBlock)
  /\ StartAt(New(1))

CloseRegion(kind, at) ==
  /\ At(kind, at)
  /\ code' = Fall(Top(visits).exit)
  /\ LeaveTo(Pop(frames), Top(visits).exit)
  /\ UNCHANGED <<status, owner, storage, result>>

OpenScope  == OpenRegion("scope", "list")
CloseScope == CloseRegion("scope", "list")
OpenLabel  == OpenRegion("label", "body")
CloseLabel == CloseRegion("label", "after")

\* visit( StmtIf& )
OpenIf(hasElse) ==
  LET onTrue == New(1)
      cont   == New(2)
      onFalse == IF hasElse THEN New(3) ELSE NoBlock
      k == IF hasElse THEN 3 ELSE 2
  IN  /\ Visit("if", k)
      /\ Nest(Visiting("if", "body", cont, NoBlock, NoBlock, onFalse))
      /\ AddBlocks(k)
      /\ code' = Terminate(Blank(k), cursor, {onTrue, IF hasElse THEN onFalse ELSE cont})
      /\ frames' = Push(frames, onTrue, NoBlock, NoBlock)
      /\ StartAt(onTrue)

ElseBranch ==
  LET onFalse == Top(visits).alt
  IN  /\ At("if", "after") /\ onFalse # NoBlock
      /\ code' = Fall(Top(visits).exit)
      /\ frames' = Push(Pop(frames), onFalse, NoBlock, NoBlock)
      /\ visits' = [visits EXCEPT ![Len(visits)].at = "body", ![Len(visits)].alt = NoBlock]
      /\ StartAt(onFalse)
      /\ UNCHANGED owner

\* An if that was closed without its else branch.
CloseIfEarly ==
  /\ At("if", "after")
  /\ code' = Fall(Top(visits).exit)
  /\ LeaveTo(Pop(frames), Top(visits).exit)
  /\ UNCHANGED <<status, owner, storage, result>>

CloseIf ==
  /\ At("if", "after") /\ Top(visits).alt = NoBlock
  /\ code' = Fall(Top(visits).exit)
  /\ LeaveTo(Pop(frames), Top(visits).exit)
  /\ UNCHANGED <<status, owner, storage, result>>

\* visit( StmtSwitch& ): only the default case is visited; the switch has no
\* other arm.
OpenSwitch ==
  LET begin == New(1)
      exit  == New(2)
      onDefault == New(3)
  IN  /\ Visit("switch", 3)
      /\ Nest(Visiting("switch", "body", exit, NoBlock, NoBlock, NoBlock))
      /\ AddBlocks(3)
      /\ code' = Terminate(Terminate(Blank(3), cursor, {begin}), begin, {onDefault})
      /\ frames' = Push(Push(frames, begin, exit, NoBlock), onDefault, NoBlock, NoBlock)
      /\ StartAt(onDefault)

CloseSwitch ==
  /\ At("switch", "after")
  /\ code' = Fall(Top(visits).exit)
  /\ LeaveTo(Pop(Pop(frames)), Top(visits).exit)
  /\ UNCHANGED <<status, owner, storage, result>>

\* A switch without a default case nests no visit at all.
SwitchNoDefault ==
  LET begin == New(1)
      exit  == New(2)
  IN  /\ Visit("switch", 2)
      /\ AddBlocks(2)
      /\ code' = Terminate(Terminate(Blank(2), cursor, {begin}), begin, {exit})
      /\ frames' = Join(Pop(Push(frames, begin, exit, NoBlock)), exit)
      /\ Simple
      /\ StartAt(exit)

\* visit( StmtWhile& ): the loop's end branches back whatever the body did.
OpenWhile ==
  LET cond == New(1)
      loop == New(2)
      exit == New(3)
  IN  /\ Visit("while", 3)
      /\ Nest(Visiting("while", "body", exit, cond, NoBlock, NoBlock))
      /\ AddBlocks(3)
      /\ code' = Terminate(Terminate(Blank(3), cursor, {cond}), cond, {loop, exit})
      /\ frames' = Push(Push(frames, cond, NoBlock, NoBlock), loop, exit, cond)
      /\ StartAt(loop)

CloseWhile ==
  /\ At("while", "after")
  /\ code' = Terminate(code, cursor, {Top(visits).cond})
  /\ LeaveTo(Pop(Pop(frames)), Top(visits).exit)
  /\ UNCHANGED <<status, owner, storage, result>>

\* visit( StmtDo& ): the condition gets a frame of its own on top of the loop's.
OpenDo ==
  LET loop == New(1)
      cond == New(2)
      exit == New(3)
  IN  /\ Visit("do", 3)
      /\ Nest(Visiting("do", "body", exit, cond, loop, NoBlock))
      /\ AddBlocks(3)
      /\ code' = Terminate(Blank(3), cursor, {loop})
      /\ frames' = Push(frames, loop, exit, cond)
      /\ StartAt(loop)

\* A do that forgot the frame of its condition.
CloseDoOnePop ==
  LET v == Top(visits)
  IN  /\ At("do", "after")
      /\ code' = Terminate(Fall(v.cond), v.cond, {v.loop, v.exit})
      /\ LeaveTo(Pop(Push(frames, v.cond, NoBlock, NoBlock)), v.exit)
      /\ UNCHANGED <<status, owner, storage, result>>

CloseDo ==
  LET v == Top(visits)
  IN  /\ At("do", "after")
      /\ code' = Terminate(Fall(v.cond), v.cond, {v.loop, v.exit})
      /\ LeaveTo(Pop(Pop(Push(frames, v.cond, NoBlock, NoBlock))), v.exit)
      /\ UNCHANGED <<status, owner, storage, result>>

\* visit( StmtFor& ): the variables of the list are declared in a frame around
\* those of the condition and of the body.
OpenFor ==
  LET init == New(1)
      exit == New(5)
  IN  /\ Visit("for", 5)
      /\ Nest(Visiting("for", "decls", exit, New(2), New(3), New(4)))
      /\ AddBlocks(5)
      /\ code' = Terminate(Blank(5), cursor, {init})
      /\ frames' = Push(frames, init, exit, New(4))
      /\ StartAt(init)

ForCondition ==
  LET v == Top(visits)
  IN  /\ At("for", "decls")
      /\ code' = Terminate(Terminate(code, cursor, {v.cond}), v.cond, {v.loop, v.exit})
      /\ frames' = Push(Push(frames, v.cond, NoBlock, NoBlock), v.loop, NoBlock, NoBlock)
      /\ visits' = [visits EXCEPT ![Len(visits)].at = "body"]
      /\ StartAt(v.loop)
      /\ UNCHANGED owner

\* The update block is generated only when the body falls through to it.
CloseFor ==
  LET v == Top(visits)
      update == IF Ended(Block(frames)) THEN code
                ELSE Terminate(Fall(v.alt), v.alt, {v.cond})
  IN  /\ At("for", "after")
      /\ code' = update
      /\ LeaveTo(Pop(Pop(Pop(frames))), v.exit)
      /\ UNCHANGED <<status, owner, storage, result>>

\* visit( StmtUse& ): the module's statements are visited where the `use' is,
\* in the same frame.
OpenUse ==
  /\ Visit("use", 0)
  /\ Nest(Waiting("use", "list"))
  /\ UNCHANGED <<status, frames, cursor, owner, code, storage, result>>

CloseUse ==
  /\ At("use", "list")
  /\ Leave
  /\ UNCHANGED <<status, frames, cursor, owner, code, storage, result>>

\* UnknownModule, or an error of the used file's lexer or parser.
UseThrows == Visit("use", 0) /\ Throw

-----------------------------------------------------------------------------

Init ==
  /\ status = "running"
  /\ visits = <<>>
  /\ frames = <<>>
  /\ cursor = NoBlock
  /\ owner = <<>>
  /\ code = <<>>
  /\ storage = 0
  /\ result = NoSymbol

Simples ==
  \/ \E n \in Names, isRef, isPointer \in BOOLEAN, init \in Names \cup {NoName} :
       DeclVar(n, isRef, init, isPointer)
  \/ \E n \in Names \cup {NoName} : StmtExpr(n)
  \/ StmtBreak \/ StmtCont \/ StmtReturn
  \/ SwitchNoDefault

Opens ==
  \/ OpenTree \/ OpenFun \/ OpenScope \/ OpenLabel \/ OpenSwitch
  \/ OpenWhile \/ OpenDo \/ OpenFor \/ OpenUse
  \/ \E hasElse \in BOOLEAN : OpenIf(hasElse)

Continues ==
  \/ \E n \in Names, isRef \in BOOLEAN : FunArgument(n, isRef)
  \/ FunBody \/ ElseBranch \/ ForCondition

Closes ==
  \/ CloseTree \/ CloseFun \/ CloseScope \/ CloseLabel \/ CloseSwitch
  \/ CloseWhile \/ CloseDo \/ CloseFor \/ CloseUse \/ CloseIf

Throws ==
  \/ \E isRef, isPointer \in BOOLEAN, init \in Names \cup {NoName} :
       DeclVarThrows(isRef, init, isPointer)
  \/ \E n \in Names \cup {NoName} : StmtExprThrows(n)
  \/ JumpThrows \/ UseThrows

\* The visit of the tree is over: nothing more happens.
Finished == status # "running" /\ UNCHANGED vars

Next == Simples \/ Opens \/ Continues \/ Closes \/ Throws \/ Finished

Spec == Init /\ [][Next]_vars
=============================================================================
