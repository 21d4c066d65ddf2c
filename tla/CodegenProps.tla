---------------------------- MODULE CodegenProps ----------------------------
(***************************************************************************)
(* What the code generator's statement visitors must keep true.            *)
(***************************************************************************)
EXTENDS Codegen

Blocks == 1 .. Len(owner)

\* Types of the generator's state: every block a frame, a handler or a branch
\* names is one that was created.
TypeOK ==
  /\ status \in {"running", "done", "failed"}
  /\ visits \in Seq(Activation(Len(owner)))
  /\ frames \in Seq(Frame(Len(owner)))
  /\ cursor \in Blocks \cup {NoBlock}
  /\ owner \in Seq(Blocks)
  /\ code \in Seq(Seq(SUBSET Blocks))
  /\ Len(code) = Len(owner)
  /\ storage \in Nat
  /\ result \in Symbol

-----------------------------------------------------------------------------
(* The scope stack and the insert point.                                   *)

\* The frames a handler has on the stack while it waits for a nested visit.
Held(v) == CASE v.kind \in {"while", "switch"} -> 2
             [] v.kind = "use" -> 0
             [] v.kind = "for" /\ v.at # "decls" -> 3
             [] OTHER -> 1

\* A stack of this depth is what the waiting handlers v have pushed, each on top
\* of what it found there.
Balanced(v, depth) ==
  IF v = <<>> THEN depth = 0
  ELSE /\ v[1].base = 0
       /\ \A i \in 1 .. Len(v) - 1 : v[i + 1].base = v[i].base + Held(v[i])
       /\ depth = v[Len(v)].base + Held(v[Len(v)])

\* Every visit leaves the scope stack as deep as it found it, so that the Pop
\* of an enclosing handler takes the frame that handler pushed and never meets
\* an empty stack (stack.cpp:56), and the stack is empty after the tree.
FrameBalance ==
  /\ status = "running" => Balanced(visits, Len(frames))
  /\ status = "done" => frames = <<>>

\* Handlers ask the stack's block for a terminator and append to the builder's:
\* wherever the next statement or the rest of a handler starts, both are the
\* same block (Stack::Block() and IRBuilder's insert point, codegen.cpp).
CursorSync ==
  status = "running" /\ visits # <<>> => cursor = Block(frames)

\* The blocks `break' and `continue' would branch to are the exit of the
\* innermost loop or switch and the continue target of the innermost loop,
\* however many scopes, branches and labels lie between: the frames on top
\* have taken them over (stack.cpp:30-35).  A function's frame has instead the
\* block the declaration stands in, and no other loop's exit.
JumpTargets ==
  status = "running" /\ visits # <<>> =>
    LET b == Innermost(Loops \cup {"switch", "fun"})
        c == Innermost(Loops)
    IN  /\ Top(frames).breakBlock =
             IF b = 0 THEN NoBlock
             ELSE IF visits[b].kind = "fun" THEN frames[visits[b].base].insertBlock
             ELSE visits[b].exit
        /\ Top(frames).conditionBlock =
             IF c = 0 THEN NoBlock
             ELSE IF visits[c].kind = "for" THEN visits[c].alt
             ELSE visits[c].cond

\* The function whose declaration, or the tree whose visit, is under way.
CurrentFunction ==
  owner[frames[visits[Innermost({"fun", "tree"})].base + 1].insertBlock]

\* While a function is generated, no instruction goes into another one, the
\* function around its declaration included (the insert point is restored
\* from the popped frame, codegen.cpp:310).
EmitsInOwnFunction ==
  [][visits # <<>> => \A b \in Blocks :
       code'[b] # code[b] => owner[b] = CurrentFunction]_vars

-----------------------------------------------------------------------------
(* The module that results: what llvm::verifyModule asks of it (jit.cpp).  *)

\* "flow might have been altered by i.e. a break" (codegen.cpp:983): no second
\* terminator follows the first one of a block.
SingleTerminator == \A b \in Blocks : Len(code[b]) <= 1

\* A block without a terminator is one that some handler on the way still
\* generates into or joins: none is created and then forgotten.
NoOrphanBlock ==
  status = "running" =>
    \A b \in Blocks : ~ Ended(b) =>
      \/ \E i \in DOMAIN frames : frames[i].insertBlock = b
      \/ \E i \in DOMAIN visits :
           b \in {visits[i].exit, visits[i].cond, visits[i].loop, visits[i].alt}

\* When the tree's visit is over every block ends in exactly one terminator, and
\* branches stay in their function and never go back to its entry block.
ModuleVerifies ==
  status = "done" =>
    \A b \in Blocks :
      /\ Len(code[b]) = 1
      /\ \A t \in code[b][1] : owner[t] = owner[b] /\ owner[t] # t

-----------------------------------------------------------------------------
(* Jumps outside a loop.                                                   *)

\* exceptions.h promises InvalidBreak and InvalidCont for a break or continue
\* that is not in a loop: one that is lowered stands in a loop (or, for break, a
\* switch) of its own function.
StrayJumpRejected ==
  [][/\ StmtBreak => Encloses(Loops \cup {"switch"})
     /\ StmtCont => Encloses(Loops)]_vars
=============================================================================
