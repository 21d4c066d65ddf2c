------------------------------- MODULE Frames -------------------------------
(***************************************************************************)
(* The scope stack of the code generator, exo::jit::Stack, and the frames  *)
(* it is made of, exo::jit::Frame (src/exo/jit/stack.cpp and frame.cpp).   *)
(*                                                                         *)
(* A stack is the sequence of its frames, the top frame last.  A frame's   *)
(* parent is the frame below it: Push takes frames.top() as the parent and *)
(* nothing ever changes it.  A frame holds the basic block that code is    *)
(* appended to, the blocks `break' and `continue' branch to, and a symbol  *)
(* table, which is modelled as a total function on Names: a name without   *)
(* an entry is bound to NoSymbol.  The lookups compare the iterator a       *)
(* parent's table returned with the end() of their own table (frame.cpp:52,*)
(* 77 and 110).  That tells whether the parent holds the name because the   *)
(* tables are std::unordered_maps: the end of each is the null iterator in  *)
(* libstdc++ and libc++ alike.                                              *)
(*                                                                         *)
(* The module has no state: Codegen keeps a stack in its variable `frames' *)
(* and applies these operators to it.                                      *)
(***************************************************************************)
EXTENDS Naturals, Sequences

CONSTANT Names      \* the names a program may declare

NoBlock   == 0      \* a null llvm::BasicBlock*; blocks are numbered from 1
NoStorage == 0      \* no storage; allocas and arguments are numbered from 1

NoSymbol  == [value |-> NoStorage, isRef |-> FALSE]
NoSymbols == [n \in Names |-> NoSymbol]

Symbol == [value : Nat, isRef : BOOLEAN]

\* The frames over the first n blocks.
Frame(n) == [insertBlock : 1 .. n, breakBlock : 0 .. n, conditionBlock : 0 .. n,
             symbols : [Names -> Symbol]]

Top(s)  == s[Len(s)]
Rest(s) == SubSeq(s, 1, Len(s) - 1)

-----------------------------------------------------------------------------
(* Blocks.                                                                 *)

\* What Push would do if a frame did not take over its parent's blocks.
PushForgetful(s, insert, break, condition) ==
  Append(s, [insertBlock |-> insert, breakBlock |-> break,
             conditionBlock |-> condition, symbols |-> NoSymbols])

\* A null break or condition block is taken over from the frame below.
Push(s, insert, break, condition) ==
  LET inherit(given, above) == IF given = NoBlock /\ s # <<>> THEN above ELSE given
  IN  Append(s, [insertBlock    |-> insert,
                 breakBlock     |-> inherit(break, Top(s).breakBlock),
                 conditionBlock |-> inherit(condition, Top(s).conditionBlock),
                 symbols        |-> NoSymbols])

\* Pop throws on an empty stack; Codegen never gets there (FrameBalance).
Pop(s) == Rest(s)

\* The block Pop returns, the place its caller goes on generating at: the
\* popped frame's break block if it has one, else the block of the frame
\* below, else the popped frame's own.
PopBlock(s) ==
  IF Top(s).breakBlock # NoBlock THEN Top(s).breakBlock
  ELSE Top(IF Len(s) > 1 THEN Rest(s) ELSE s).insertBlock

Join(s, block) == [s EXCEPT ![Len(s)].insertBlock = block]

Block(s) == Top(s).insertBlock

\* Break() and Continue() throw unless two frames are on the stack.
CanJump(s) == Len(s) > 1

\* A Break that did not fall back on the frame below.
BreakTop(s) == Top(s).breakBlock

Break(s) == IF Top(s).breakBlock # NoBlock THEN Top(s).breakBlock
            ELSE Block(Rest(s))

Continue(s) == IF Top(s).conditionBlock # NoBlock THEN Top(s).conditionBlock
               ELSE Block(Rest(s))

-----------------------------------------------------------------------------
(* Symbols.                                                                *)

Holds(frame, n) == frame.symbols[n] # NoSymbol

\* Get and isRef throw UnknownVar for a name no frame of the chain holds.
Visible(s, n) == \E i \in DOMAIN s : Holds(s[i], n)

\* What Get and isRef find for n: the entry of the nearest frame holding it.
SymbolOf(s, n) ==
  s[CHOOSE i \in DOMAIN s : /\ Holds(s[i], n)
                            /\ \A j \in i + 1 .. Len(s) : ~ Holds(s[j], n)].symbols[n]

\* A Set that entered every name into the outermost frame.
SetGlobal(s, n, value, isRef) ==
  [s EXCEPT ![1].symbols[n] = [value |-> value, isRef |-> isRef]]

\* An entry of the top frame gets the new value and keeps its flag.  Otherwise
\* the entries of that name in every frame below get the value too, each
\* keeping its flag, and the name is then inserted into the top frame.
Set(s, n, value, isRef) ==
  LET rebound(frame) == IF Holds(frame, n)
                        THEN [frame EXCEPT !.symbols[n].value = value]
                        ELSE frame
  IN  IF Holds(Top(s), n)
      THEN [s EXCEPT ![Len(s)] = rebound(@)]
      ELSE [i \in DOMAIN s |->
              IF i < Len(s) THEN rebound(s[i])
              ELSE [s[i] EXCEPT !.symbols[n] = [value |-> value, isRef |-> isRef]]]
=============================================================================
