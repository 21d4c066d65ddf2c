-------------------------- MODULE CodegenInvariant --------------------------
(***************************************************************************)
(* Every action of Codegen keeps the inductive invariant of CodegenProofs, *)
(* and what follows from it: the theorems about the scope stack.           *)
(***************************************************************************)
EXTENDS CodegenProofs

-----------------------------------------------------------------------------
(* The pieces handlers are made of.                                        *)

\* The blocks a handler creates are blocks of the module after it.
LEMMA NewType ==
  ASSUME IInv, status = "running", visits # <<>>, NEW k \in Nat, NEW i \in 1 .. k
  PROVE  New(i) \in 1 .. Len(owner) + k /\ New(i) # NoBlock
BY Ready DEF New, NoBlock

\* The handler of a statement that comes next runs below another one.
LEMMA Visited ==
  ASSUME NEW kind, NEW k, Visit(kind, k)
  PROVE  status = "running" /\ visits # <<>>
BY DEF Visit, Accepts

LEMMA FallType ==
  ASSUME NEW n \in Nat, code \in Code(n), NEW target \in 1 .. n
  PROVE  Fall(target) \in Code(n) /\ Len(Fall(target)) = Len(code)
BY TerminateType DEF Fall

LEMMA ReturningType ==
  ASSUME NEW n \in Nat, code \in Code(n), NEW block, NEW at
  PROVE  Returning(block, at) \in Code(n) /\ Len(Returning(block, at)) = Len(code)
BY TerminateType DEF Returning, Return

\* The block of a stack is that of its last frame.
LEMMA BlockAt ==
  ASSUME NEW s
  PROVE  Block(s) = s[Len(s)].insertBlock
BY DEF Block, Top

\* The stack t is s with k more frames on top, the last one for this block.
Onto(t, s, k, block, n) ==
  /\ t \in Seq(Frame(n))
  /\ Len(t) = Len(s) + k
  /\ \A i \in 1 .. Len(s) : t[i] = s[i]
  /\ Block(t) = block

LEMMA PushOnto ==
  ASSUME NEW n \in Nat, NEW s \in Seq(Frame(n)), NEW insert \in 1 .. n,
         NEW break \in 0 .. n, NEW condition \in 0 .. n
  PROVE  Onto(Push(s, insert, break, condition), s, 1, insert, n)
<1>1. /\ Push(s, insert, break, condition) \in Seq(Frame(n))
      /\ Len(Push(s, insert, break, condition)) = Len(s) + 1
      /\ \A i \in 1 .. Len(s) : Push(s, insert, break, condition)[i] = s[i]
      /\ Push(s, insert, break, condition)[Len(s) + 1].insertBlock = insert
  BY PushProperties
<1>2. QED
  BY <1>1, BlockAt DEF Onto

\* Two frames are pushed, as by while and switch.
LEMMA PushTwice ==
  ASSUME NEW n \in Nat, NEW s \in Seq(Frame(n)),
         NEW i1 \in 1 .. n, NEW b1 \in 0 .. n, NEW c1 \in 0 .. n,
         NEW i2 \in 1 .. n, NEW b2 \in 0 .. n, NEW c2 \in 0 .. n
  PROVE  Onto(Push(Push(s, i1, b1, c1), i2, b2, c2), s, 2, i2, n)
<1> DEFINE r == Push(s, i1, b1, c1)
           t == Push(r, i2, b2, c2)
<1>1. Onto(r, s, 1, i1, n)
  BY PushOnto
<1> HIDE DEF r
<1>2. r \in Seq(Frame(n)) /\ Len(r) = Len(s) + 1 /\ \A i \in 1 .. Len(s) : r[i] = s[i]
  BY <1>1 DEF Onto
<1>3. Onto(t, r, 1, i2, n)
  BY <1>2, PushOnto
<1> HIDE DEF t
<1>4. /\ t \in Seq(Frame(n)) /\ Len(t) = Len(r) + 1
      /\ \A i \in 1 .. Len(r) : t[i] = r[i]
      /\ Block(t) = i2
  BY <1>3 DEF Onto
<1>5. Len(s) \in Nat
  BY LenProperties
<1>6. Len(t) = Len(s) + 2 /\ \A i \in 1 .. Len(s) : t[i] = s[i]
  BY <1>2, <1>4, <1>5
<1>7. QED
  BY <1>4, <1>6 DEF r, t, Onto

\* Two frames are popped.
LEMMA PopTwice ==
  ASSUME NEW S, NEW s \in Seq(S), Len(s) >= 2
  PROVE  /\ Pop(Pop(s)) \in Seq(S)
         /\ Len(Pop(Pop(s))) = Len(s) - 2
         /\ \A i \in 1 .. Len(s) - 2 : Pop(Pop(s))[i] = s[i]
<1> DEFINE r == Pop(s)
<1>1. Len(s) \in Nat /\ s # <<>>
  BY LenProperties, EmptySeq
<1>2. r \in Seq(S) /\ Len(r) = Len(s) - 1 /\ \A i \in 1 .. Len(s) - 1 : r[i] = s[i]
  BY <1>1, PopProperties
<1> HIDE DEF r
<1>3. r # <<>>
  BY <1>1, <1>2, EmptySeq
<1>4. /\ Pop(r) \in Seq(S) /\ Len(Pop(r)) = Len(r) - 1
      /\ \A i \in 1 .. Len(r) - 1 : Pop(r)[i] = r[i]
  BY <1>2, <1>3, PopProperties
<1>5. Len(Pop(r)) = Len(s) - 2 /\ \A i \in 1 .. Len(s) - 2 : Pop(r)[i] = s[i]
  BY <1>1, <1>2, <1>4
<1>6. QED
  BY <1>4, <1>5 DEF r

\* A handler goes on to its next phase; b is its activation then.
LEMMA AdvanceStep ==
  ASSUME IInv, status = "running", visits # <<>>,
         code' \in Code(Len(owner)), Len(code') = Len(owner),
         NEW b \in Activation(Len(owner)),
         b.kind = Top(visits).kind, b.base = Top(visits).base, HasLocals(b),
         visits' = [visits EXCEPT ![Len(visits)] = b],
         frames' \in Seq(Frame(Len(owner))),
         Len(frames') = b.base + Held(b),
         \A i \in 1 .. b.base : frames'[i].breakBlock = frames[i].breakBlock,
         \A i \in 1 .. b.base : frames'[i].insertBlock = frames[i].insertBlock,
         b.kind = "fun" =>
           frames'[b.base + 1].breakBlock = frames[b.base + 1].breakBlock,
         cursor' = Block(frames'),
         UNCHANGED <<status, owner>>, storage' \in Nat, result' \in Symbol
  PROVE  IInv'
<1> DEFINE n == Len(owner)
<1>1. /\ n \in Nat /\ frames \in Seq(Frame(n)) /\ visits \in Seq(Activation(n))
      /\ Discipline(visits, frames) /\ owner \in Seq(1 .. n)
  BY Ready
<1>2. b.base \in Nat
  BY DEF Activation
<1>3. \A i \in 1 .. b.base - 1 : frames'[i].insertBlock = frames[i].insertBlock
  BY <1>2
<1>4. b.kind = "fun" => b.base \in 1 .. b.base
  <2>1. b.kind = "fun" => Top(visits).kind # "tree"
    OBVIOUS
  <2>2. Top(visits).kind # "tree" => Top(visits).base >= 1
    <3>1. Len(visits) \in Nat /\ Len(visits) >= 1
      BY <1>1, ActivationAt
    <3>2. /\ Len(visits) > 1 => Top(visits).base >= 1
          /\ Top(visits).kind = "tree" <=> Len(visits) = 1
      BY <1>1, DisciplineAt
    <3>3. Len(visits) # 1 => Len(visits) > 1
      BY <3>1, AboveOne
    <3>4. QED
      BY <3>2, <3>3, Zenon
  <2>3. QED
    BY <2>1, <2>2, <1>2
<1> HIDE DEF n
<1>5. /\ visits' \in Seq(Activation(n)) /\ visits' # <<>>
      /\ Discipline(visits', frames')
  BY <1>1, <1>3, <1>4, AdvanceVisit, ZenonT(60) DEF n
<1>6. owner' \in Seq(1 .. n) /\ Len(owner') = n /\ status' = "running"
  BY <1>1 DEF n
<1>7. code' \in Code(n) /\ Len(code') = n /\ frames' \in Seq(Frame(n))
  BY DEF n
<1>8. QED
  BY <1>1, <1>5, <1>6, <1>7, RunningStep

\* A handler that returns started above the tree's frame.
LEMMA BaseType ==
  ASSUME IInv, status = "running", visits # <<>>, Top(visits).kind # "tree"
  PROVE  Top(visits).base \in Nat /\ Top(visits).base >= 1
<1>1. Top(visits).base \in Nat
  BY Ready DEF Activation
<1>2. Len(visits) \in Nat /\ Len(visits) >= 1
  BY Ready, ActivationAt
<1>3. /\ Len(visits) > 1 => Top(visits).base >= 1
      /\ Top(visits).kind = "tree" <=> Len(visits) = 1
  BY Ready, DisciplineAt
<1>4. Len(visits) # 1 => Len(visits) > 1
  BY <1>2, AboveOne
<1>5. QED
  BY <1>1, <1>3, <1>4, Zenon

\* A handler drops its frames and joins the frame it started from with its exit.
LEMMA LeaveToStep ==
  ASSUME IInv, status = "running", visits # <<>>,
         Top(visits).kind \notin {"tree", "fun", "use"},
         code' \in Code(Len(owner)), Len(code') = Len(owner),
         NEW fs \in Seq(Frame(Len(owner))), Len(fs) = Top(visits).base,
         \A i \in 1 .. Len(fs) : fs[i] = frames[i],
         LeaveTo(fs, Top(visits).exit),
         UNCHANGED <<status, owner, storage, result>>
  PROVE  IInv'
<1> DEFINE exit == Top(visits).exit
           n == Len(owner)
<1>1. n \in Nat /\ exit \in 1 .. n
  BY Ready DEF HasLocals, Activation, NoBlock
<1>2. Top(visits).base \in Nat /\ Top(visits).base >= 1
  BY BaseType
<1>3. fs # <<>>
  BY <1>2, EmptySeq
<1>4. frames' = Join(fs, exit) /\ cursor' = exit /\ Leave
  BY DEF LeaveTo
<1> HIDE DEF exit, n
<1>5. /\ Join(fs, exit) \in Seq(Frame(n)) /\ Len(Join(fs, exit)) = Len(fs)
      /\ \A i \in 1 .. Len(fs) - 1 : Join(fs, exit)[i] = fs[i]
      /\ Join(fs, exit)[Len(fs)].insertBlock = exit
      /\ Join(fs, exit)[Len(fs)].breakBlock = fs[Len(fs)].breakBlock
  BY <1>1, <1>3, JoinProperties DEF n
<1>6. frames' \in Seq(Frame(n)) /\ Len(frames') = Top(visits).base
  BY <1>4, <1>5
<1>7. \A i \in 1 .. Len(frames') : frames'[i].breakBlock = frames[i].breakBlock
  <2> TAKE i \in 1 .. Len(frames')
  <2>1. CASE i = Len(fs)
    BY <2>1, <1>4, <1>5
  <2>2. CASE i # Len(fs)
    <3>1. i \in 1 .. Len(fs) - 1 /\ i \in 1 .. Len(fs)
      BY <2>2, <1>2, <1>6
    <3>2. QED
      BY <3>1, <1>4, <1>5
  <2>3. QED
    BY <2>1, <2>2
<1>8. \A i \in 1 .. Len(frames') - 1 : frames'[i].insertBlock = frames[i].insertBlock
  <2> TAKE i \in 1 .. Len(frames') - 1
  <2>1. i \in 1 .. Len(fs) - 1 /\ i \in 1 .. Len(fs)
    BY <1>2, <1>6
  <2>2. QED
    BY <2>1, <1>4, <1>5
<1>9. cursor' = Block(frames')
  BY <1>4, <1>5, BlockAt
<1>10. QED
  BY <1>4, <1>6, <1>7, <1>8, <1>9, LeaveStep DEF n

-----------------------------------------------------------------------------
(* Handlers that open: the part of a handler before its first nested visit. *)

\* A handler that creates k blocks and pushes one or two frames.
LEMMA OpenStep ==
  ASSUME IInv, NEW k \in Nat, NEW n \in Nat, n = Len(owner) + k, NEW kind,
         Visit(kind, k), AddBlocks(k),
         code' \in Code(n), Len(code') = n,
         NEW a \in Activation(n),
         a.kind \notin {"tree", "fun"}, a.base = Len(frames), HasLocals(a),
         visits' = Append(visits, a),
         NEW block,
         Onto(frames', frames, Held(a), block, n),
         StartAt(block)
  PROVE  IInv'
<1>1. status = "running" /\ visits # <<>>
  BY Visited
<1>2. owner' \in Seq(1 .. n) /\ Len(owner') = n
  BY <1>1, NewBlocks
<1>3. /\ frames' \in Seq(Frame(n)) /\ Len(frames') = Len(frames) + Held(a)
      /\ \A i \in 1 .. Len(frames) : frames'[i] = frames[i]
      /\ cursor' = Block(frames')
  BY DEF Onto, StartAt
<1>4. QED
  BY <1>1, <1>2, <1>3, NestStep DEF StartAt

\* The blocks of a handler and its code after a branch out of the current block.
LEMMA Branched ==
  ASSUME IInv, NEW k \in Nat, NEW kind, Visit(kind, k),
         NEW targets \in SUBSET (1 .. Len(owner) + k)
  PROVE  /\ \A i \in 1 .. k : New(i) \in 1 .. Len(owner) + k /\ New(i) # NoBlock
         /\ Len(owner) + k \in Nat
         /\ Terminate(Blank(k), cursor, targets) \in Code(Len(owner) + k)
         /\ Len(Terminate(Blank(k), cursor, targets)) = Len(owner) + k
<1>1. status = "running" /\ visits # <<>>
  BY Visited
<1>2. /\ Blank(k) \in Code(Len(owner) + k) /\ Len(Blank(k)) = Len(owner) + k
      /\ Len(owner) + k \in Nat
  BY <1>1, NewBlocks
<1>3. \A i \in 1 .. k : New(i) \in 1 .. Len(owner) + k /\ New(i) # NoBlock
  BY <1>1, NewType
<1>4. QED
  BY <1>2, <1>3, TerminateType

\* The activation of a handler that starts, with the blocks it remembers.
LEMMA VisitingType ==
  ASSUME NEW n \in Nat, Len(frames) \in Nat,
         NEW kind \in Nests, NEW at \in {"decls", "list", "body"},
         NEW exit \in 0 .. n, NEW cond \in 0 .. n, NEW loop \in 0 .. n, NEW alt \in 0 .. n
  PROVE  /\ Visiting(kind, at, exit, cond, loop, alt) \in Activation(n)
         /\ Visiting(kind, at, exit, cond, loop, alt).base = Len(frames)
BY DEF Visiting, Activation

LEMMA OpenRegionStep ==
  ASSUME IInv, NEW kind \in {"scope", "label"}, NEW at \in {"list", "body"},
         OpenRegion(kind, at)
  PROVE  IInv'
<1> DEFINE n == Len(owner) + 2
           a == Visiting(kind, at, New(2), NoBlock, NoBlock, NoBlock)
<1>1. Visit(kind, 2)
  BY DEF OpenRegion
<1>2. n \in Nat /\ \A i \in 1 .. 2 : New(i) \in 1 .. n /\ New(i) # NoBlock
  BY <1>1, Branched
<1>3. code' \in Code(n) /\ Len(code') = n
  <2>1. {New(1)} \in SUBSET (1 .. n) /\ code' = Terminate(Blank(2), cursor, {New(1)})
    BY <1>2 DEF OpenRegion
  <2>2. QED
    BY <1>1, <2>1, Branched
<1>4. Len(frames) \in Nat /\ frames \in Seq(Frame(n))
  BY <1>1, Visited, Ready, NewBlocks
<1>5. /\ a \in Activation(n) /\ a.kind \notin {"tree", "fun"} /\ a.base = Len(frames)
      /\ HasLocals(a) /\ Held(a) = 1
  <2>1. /\ New(2) \in 0 .. n /\ NoBlock \in 0 .. n
        /\ NoBlock \in 0 .. n /\ NoBlock \in 0 .. n
    BY <1>2, <1>4 DEF NoBlock
  <2>2. kind \in Nests /\ at \in {"decls", "list", "body"}
    BY DEF Nests, Loops
  <2>3. a \in Activation(n) /\ a.base = Len(frames)
    BY <2>1, <2>2, <1>2, <1>4, VisitingType
  <2>4. a.kind \notin {"tree", "fun"} /\ HasLocals(a) /\ Held(a) = 1
    BY <1>2, <1>4 DEF Visiting, HasLocals, Held, Loops
  <2>5. QED
    BY <2>3, <2>4
<1> HIDE DEF a, n
<1>6. Onto(frames', frames, 1, New(1), n)
  <2>1. NoBlock \in 0 .. n /\ New(1) \in 1 .. n
    BY <1>2 DEF NoBlock
  <2>2. frames' = Push(frames, New(1), NoBlock, NoBlock)
    BY DEF OpenRegion
  <2>3. QED
    BY <1>2, <1>4, <2>1, <2>2, PushOnto
<1>7. AddBlocks(2) /\ StartAt(New(1)) /\ visits' = Append(visits, a)
  BY DEF OpenRegion, Nest, a
<1>8. QED
  BY <1>1, <1>2, <1>3, <1>5, <1>6, <1>7, OpenStep DEF n

LEMMA OpenIfStep ==
  ASSUME IInv, NEW hasElse \in BOOLEAN, OpenIf(hasElse)
  PROVE  IInv'
<1> DEFINE k == IF hasElse THEN 3 ELSE 2
           n == Len(owner) + k
           onFalse == IF hasElse THEN New(3) ELSE NoBlock
           targets == {New(1), IF hasElse THEN onFalse ELSE New(2)}
           a == Visiting("if", "body", New(2), NoBlock, NoBlock, onFalse)
<1>1. Visit("if", k) /\ k \in Nat
  BY DEF OpenIf
<1>2. n \in Nat /\ \A i \in 1 .. k : New(i) \in 1 .. n /\ New(i) # NoBlock
  BY <1>1, Branched
<1>3. /\ New(1) \in 1 .. n /\ New(2) \in 1 .. n /\ New(2) # NoBlock
      /\ onFalse \in 0 .. n /\ targets \in SUBSET (1 .. n)
  BY <1>2 DEF NoBlock
<1>4. code' \in Code(n) /\ Len(code') = n
  <2>1. code' = Terminate(Blank(k), cursor, targets)
    BY DEF OpenIf
  <2>2. QED
    BY <1>1, <1>3, <2>1, Branched
<1>5. Len(frames) \in Nat /\ frames \in Seq(Frame(n))
  BY <1>1, Visited, Ready, NewBlocks
<1>6. /\ a \in Activation(n) /\ a.kind \notin {"tree", "fun"} /\ a.base = Len(frames)
      /\ HasLocals(a) /\ Held(a) = 1
  <2>1. /\ New(2) \in 0 .. n /\ NoBlock \in 0 .. n
        /\ NoBlock \in 0 .. n /\ onFalse \in 0 .. n
    BY <1>2, <1>3, <1>5 DEF NoBlock
  <2>2. "if" \in Nests /\ "body" \in {"decls", "list", "body"}
    BY DEF Nests, Loops
  <2>3. a \in Activation(n) /\ a.base = Len(frames)
    BY <2>1, <2>2, <1>2, <1>3, <1>5, VisitingType, ZenonT(60)
  <2>4. a.kind \notin {"tree", "fun"} /\ HasLocals(a) /\ Held(a) = 1
    BY <1>2, <1>3, <1>5 DEF Visiting, HasLocals, Held, Loops
  <2>5. QED
    BY <2>3, <2>4
<1>7. /\ AddBlocks(k) /\ StartAt(New(1)) /\ visits' = Append(visits, a)
      /\ frames' = Push(frames, New(1), NoBlock, NoBlock)
  BY DEF OpenIf, Nest
<1> HIDE DEF a, k, targets, onFalse
<1>8. Onto(frames', frames, 1, New(1), n)
  <2>1. NoBlock \in 0 .. n
    BY <1>2 DEF NoBlock
  <2> HIDE DEF n
  <2>2. QED
    BY <1>2, <1>3, <1>5, <1>7, <2>1, PushOnto
<1>9. QED
  BY <1>1, <1>2, <1>4, <1>6, <1>7, <1>8, OpenStep

LEMMA OpenSwitchStep ==
  ASSUME IInv, OpenSwitch
  PROVE  IInv'
<1> DEFINE n == Len(owner) + 3
           a == Visiting("switch", "body", New(2), NoBlock, NoBlock, NoBlock)
<1>1. Visit("switch", 3)
  BY DEF OpenSwitch
<1>2. n \in Nat /\ \A i \in 1 .. 3 : New(i) \in 1 .. n /\ New(i) # NoBlock
  BY <1>1, Branched
<1>3. code' \in Code(n) /\ Len(code') = n
  <2> DEFINE c == Terminate(Blank(3), cursor, {New(1)})
  <2>1. {New(1)} \in SUBSET (1 .. n) /\ {New(3)} \in SUBSET (1 .. n)
    BY <1>2
  <2>2. c \in Code(n) /\ Len(c) = n
    BY <1>1, <2>1, Branched
  <2>3. code' = Terminate(c, New(1), {New(3)})
    BY DEF OpenSwitch
  <2> HIDE DEF c
  <2>4. QED
    BY <1>2, <2>1, <2>2, <2>3, TerminateType
<1>4. Len(frames) \in Nat /\ frames \in Seq(Frame(n))
  BY <1>1, Visited, Ready, NewBlocks
<1>5. /\ a \in Activation(n) /\ a.kind \notin {"tree", "fun"} /\ a.base = Len(frames)
      /\ HasLocals(a) /\ Held(a) = 2
  <2>1. /\ New(2) \in 0 .. n /\ NoBlock \in 0 .. n
        /\ NoBlock \in 0 .. n /\ NoBlock \in 0 .. n
    BY <1>2, <1>4 DEF NoBlock
  <2>2. "switch" \in Nests /\ "body" \in {"decls", "list", "body"}
    BY DEF Nests, Loops
  <2>3. a \in Activation(n) /\ a.base = Len(frames)
    BY <2>1, <2>2, <1>2, <1>4, VisitingType
  <2>4. a.kind \notin {"tree", "fun"} /\ HasLocals(a) /\ Held(a) = 2
    BY <1>2, <1>4 DEF Visiting, HasLocals, Held, Loops
  <2>5. QED
    BY <2>3, <2>4
<1> HIDE DEF a, n
<1>6. Onto(frames', frames, 2, New(3), n)
  <2>1. /\ NoBlock \in 0 .. n /\ New(1) \in 1 .. n /\ New(3) \in 1 .. n
        /\ New(2) \in 0 .. n
    BY <1>2 DEF NoBlock
  <2>2. frames' = Push(Push(frames, New(1), New(2), NoBlock), New(3), NoBlock, NoBlock)
    BY DEF OpenSwitch
  <2>3. QED
    BY <1>2, <1>4, <2>1, <2>2, PushTwice
<1>7. AddBlocks(3) /\ StartAt(New(3)) /\ visits' = Append(visits, a)
  BY DEF OpenSwitch, Nest, a
<1>8. QED
  BY <1>1, <1>2, <1>3, <1>5, <1>6, <1>7, OpenStep DEF n

LEMMA OpenWhileStep ==
  ASSUME IInv, OpenWhile
  PROVE  IInv'
<1> DEFINE n == Len(owner) + 3
           a == Visiting("while", "body", New(3), New(1), NoBlock, NoBlock)
<1>1. Visit("while", 3)
  BY DEF OpenWhile
<1>2. n \in Nat /\ \A i \in 1 .. 3 : New(i) \in 1 .. n /\ New(i) # NoBlock
  BY <1>1, Branched
<1>3. code' \in Code(n) /\ Len(code') = n
  <2> DEFINE c == Terminate(Blank(3), cursor, {New(1)})
  <2>1. {New(1)} \in SUBSET (1 .. n) /\ {New(2), New(3)} \in SUBSET (1 .. n)
    BY <1>2
  <2>2. c \in Code(n) /\ Len(c) = n
    BY <1>1, <2>1, Branched
  <2>3. code' = Terminate(c, New(1), {New(2), New(3)})
    BY DEF OpenWhile
  <2> HIDE DEF c
  <2>4. QED
    BY <1>2, <2>1, <2>2, <2>3, TerminateType
<1>4. Len(frames) \in Nat /\ frames \in Seq(Frame(n))
  BY <1>1, Visited, Ready, NewBlocks
<1>5. /\ a \in Activation(n) /\ a.kind \notin {"tree", "fun"} /\ a.base = Len(frames)
      /\ HasLocals(a) /\ Held(a) = 2
  <2>1. /\ New(3) \in 0 .. n /\ New(1) \in 0 .. n
        /\ NoBlock \in 0 .. n /\ NoBlock \in 0 .. n
    BY <1>2, <1>4 DEF NoBlock
  <2>2. "while" \in Nests /\ "body" \in {"decls", "list", "body"}
    BY DEF Nests, Loops
  <2>3. a \in Activation(n) /\ a.base = Len(frames)
    BY <2>1, <2>2, <1>2, <1>4, VisitingType, ZenonT(60)
  <2>4. a.kind \notin {"tree", "fun"} /\ HasLocals(a) /\ Held(a) = 2
    BY <1>2, <1>4 DEF Visiting, HasLocals, Held, Loops
  <2>5. QED
    BY <2>3, <2>4
<1> HIDE DEF a, n
<1>6. Onto(frames', frames, 2, New(2), n)
  <2>1. /\ NoBlock \in 0 .. n /\ New(1) \in 1 .. n /\ New(2) \in 1 .. n
        /\ New(3) \in 0 .. n /\ New(1) \in 0 .. n
    BY <1>2 DEF NoBlock
  <2>2. frames' = Push(Push(frames, New(1), NoBlock, NoBlock), New(2), New(3), New(1))
    BY DEF OpenWhile
  <2>3. QED
    BY <1>2, <1>4, <2>1, <2>2, PushTwice
<1>7. AddBlocks(3) /\ StartAt(New(2)) /\ visits' = Append(visits, a)
  BY DEF OpenWhile, Nest, a
<1>8. QED
  BY <1>1, <1>2, <1>3, <1>5, <1>6, <1>7, OpenStep DEF n

LEMMA OpenDoStep ==
  ASSUME IInv, OpenDo
  PROVE  IInv'
<1> DEFINE n == Len(owner) + 3
           a == Visiting("do", "body", New(3), New(2), New(1), NoBlock)
<1>1. Visit("do", 3)
  BY DEF OpenDo
<1>2. n \in Nat /\ \A i \in 1 .. 3 : New(i) \in 1 .. n /\ New(i) # NoBlock
  BY <1>1, Branched
<1>3. code' \in Code(n) /\ Len(code') = n
  <2>1. {New(1)} \in SUBSET (1 .. n) /\ code' = Terminate(Blank(3), cursor, {New(1)})
    BY <1>2 DEF OpenDo
  <2>2. QED
    BY <1>1, <2>1, Branched
<1>4. Len(frames) \in Nat /\ frames \in Seq(Frame(n))
  BY <1>1, Visited, Ready, NewBlocks
<1>5. /\ a \in Activation(n) /\ a.kind \notin {"tree", "fun"} /\ a.base = Len(frames)
      /\ HasLocals(a) /\ Held(a) = 1
  <2>1. /\ New(3) \in 0 .. n /\ New(2) \in 0 .. n
        /\ New(1) \in 0 .. n /\ NoBlock \in 0 .. n
    BY <1>2, <1>4 DEF NoBlock
  <2>2. "do" \in Nests /\ "body" \in {"decls", "list", "body"}
    BY DEF Nests, Loops
  <2>3. a \in Activation(n) /\ a.base = Len(frames)
    BY ONLY <1>2, <1>4, <2>1, <2>2 DEF Visiting, Activation
  <2>4. a.kind \notin {"tree", "fun"} /\ HasLocals(a) /\ Held(a) = 1
    BY <1>2, <1>4 DEF Visiting, HasLocals, Held, Loops
  <2>5. QED
    BY <2>3, <2>4
<1> HIDE DEF a, n
<1>6. Onto(frames', frames, 1, New(1), n)
  <2>1. New(1) \in 1 .. n /\ New(3) \in 0 .. n /\ New(2) \in 0 .. n
    BY <1>2 DEF NoBlock
  <2>2. frames' = Push(frames, New(1), New(3), New(2))
    BY DEF OpenDo
  <2>3. QED
    BY <1>2, <1>4, <2>1, <2>2, PushOnto
<1>7. AddBlocks(3) /\ StartAt(New(1)) /\ visits' = Append(visits, a)
  BY DEF OpenDo, Nest, a
<1>8. QED
  BY <1>1, <1>2, <1>3, <1>5, <1>6, <1>7, OpenStep DEF n

LEMMA OpenForStep ==
  ASSUME IInv, OpenFor
  PROVE  IInv'
<1> DEFINE n == Len(owner) + 5
           a == Visiting("for", "decls", New(5), New(2), New(3), New(4))
<1>1. Visit("for", 5)
  BY DEF OpenFor
<1>2. n \in Nat /\ \A i \in 1 .. 5 : New(i) \in 1 .. n /\ New(i) # NoBlock
  BY <1>1, Branched
<1>3. code' \in Code(n) /\ Len(code') = n
  <2>1. {New(1)} \in SUBSET (1 .. n) /\ code' = Terminate(Blank(5), cursor, {New(1)})
    BY <1>2 DEF OpenFor
  <2>2. QED
    BY <1>1, <2>1, Branched
<1>4. Len(frames) \in Nat /\ frames \in Seq(Frame(n))
  BY <1>1, Visited, Ready, NewBlocks
<1>5. /\ a \in Activation(n) /\ a.kind \notin {"tree", "fun"} /\ a.base = Len(frames)
      /\ HasLocals(a) /\ Held(a) = 1
  <2>1. /\ New(5) \in 0 .. n /\ New(2) \in 0 .. n
        /\ New(3) \in 0 .. n /\ New(4) \in 0 .. n
    BY <1>2, <1>4 DEF NoBlock
  <2>2. "for" \in Nests /\ "decls" \in {"decls", "list", "body"}
    BY DEF Nests, Loops
  <2>3. a \in Activation(n) /\ a.base = Len(frames)
    BY ONLY <1>2, <1>4, <2>1, <2>2 DEF Visiting, Activation
  <2>4. a.kind \notin {"tree", "fun"} /\ HasLocals(a) /\ Held(a) = 1
    BY <1>2, <1>4 DEF Visiting, HasLocals, Held, Loops
  <2>5. QED
    BY <2>3, <2>4
<1> HIDE DEF a, n
<1>6. Onto(frames', frames, 1, New(1), n)
  <2>1. New(1) \in 1 .. n /\ New(5) \in 0 .. n /\ New(4) \in 0 .. n
    BY <1>2 DEF NoBlock
  <2>2. frames' = Push(frames, New(1), New(5), New(4))
    BY DEF OpenFor
  <2>3. QED
    BY <1>2, <1>4, <2>1, <2>2, PushOnto
<1>7. AddBlocks(5) /\ StartAt(New(1)) /\ visits' = Append(visits, a)
  BY DEF OpenFor, Nest, a
<1>8. QED
  BY <1>1, <1>2, <1>3, <1>5, <1>6, <1>7, OpenStep DEF n

\* A use nests visits but creates no block and pushes no frame.
LEMMA OpenUseStep ==
  ASSUME IInv, OpenUse
  PROVE  IInv'
<1> DEFINE a == Waiting("use", "list")
<1>1. status = "running" /\ visits # <<>>
  BY Visited DEF OpenUse
<1>2. /\ Len(owner) \in Nat /\ owner \in Seq(1 .. Len(owner))
      /\ code \in Code(Len(owner)) /\ Len(code) = Len(owner)
      /\ frames \in Seq(Frame(Len(owner))) /\ Len(frames) \in Nat
      /\ cursor = Block(frames)
  BY <1>1, Ready
<1>3. /\ a \in Activation(Len(owner)) /\ a.kind \notin {"tree", "fun"}
      /\ a.base = Len(frames) /\ HasLocals(a) /\ Held(a) = 0
  BY <1>2 DEF Waiting, Visiting, Activation, HasLocals, Held, Nests, Loops, NoBlock
<1>4. /\ visits' = Append(visits, a)
      /\ UNCHANGED <<status, frames, cursor, owner, code, storage, result>>
  BY DEF OpenUse, Nest
<1> HIDE DEF a
<1> DEFINE n == Len(owner) + 0
<1>5. n = Len(owner) /\ Len(frames') = Len(frames) + Held(a)
  BY <1>2, <1>3, <1>4
<1>6. Block(frames') = Block(frames)
  BY <1>4
<1> HIDE DEF n
<1>7. /\ owner' \in Seq(1 .. n) /\ Len(owner') = n
      /\ code' \in Code(n) /\ Len(code') = n /\ frames' \in Seq(Frame(n))
      /\ a \in Activation(n)
  BY <1>2, <1>3, <1>4, <1>5
<1>8. \A i \in 1 .. Len(frames) : frames'[i] = frames[i]
  BY <1>4
<1>9. cursor' = Block(frames') /\ UNCHANGED <<status, storage, result>>
  BY <1>2, <1>4, <1>6
<1>10. a.kind # "fun" /\ a.kind # "tree" /\ a.base = Len(frames) /\ HasLocals(a)
  BY <1>3
<1>11. visits' = Append(visits, a)
  BY <1>4
<1>12. QED
  BY ONLY IInv, <1>1, <1>5, <1>7, <1>8, <1>9, <1>10, <1>11, 0 \in Nat, NestStep DEF n

\* A function's frame returns to the block the declaration stands in.
LEMMA OpenFunStep ==
  ASSUME IInv, OpenFun
  PROVE  IInv'
<1> DEFINE n == Len(owner) + 1
           a == Waiting("fun", "decls")
<1>1. Visit("fun", 1) /\ status = "running" /\ visits # <<>>
  BY Visited DEF OpenFun
<1>2. n \in Nat /\ New(1) \in 1 .. n
  <2>1. Len(owner) \in Nat
    BY <1>1, Ready
  <2>2. QED
    BY <2>1 DEF New
<1>3. code' \in Code(n) /\ Len(code') = n
  BY <1>1, NewBlocks DEF OpenFun
<1>4. /\ Len(frames) \in Nat /\ frames \in Seq(Frame(n))
      /\ Block(frames) \in 1 .. n /\ Block(frames) # NoBlock
  BY <1>1, Ready, NewBlocks DEF NoBlock
<1>5. /\ a \in Activation(n) /\ a.kind = "fun" /\ a.base = Len(frames)
      /\ HasLocals(a) /\ Held(a) = 1
  BY <1>2, <1>4 DEF Waiting, Visiting, Activation, HasLocals, Held, Nests, Loops, NoBlock
<1>6. owner' \in Seq(1 .. n) /\ Len(owner') = n
  <2>1. owner \in Seq(1 .. Len(owner)) /\ Len(owner) \in Nat
    BY <1>1, Ready
  <2>2. owner \in Seq(1 .. n)
    BY <2>1
  <2>3. owner' = Append(owner, New(1))
    BY DEF OpenFun
  <2> HIDE DEF n
  <2>4. QED
    BY <1>2, <2>2, <2>3, AppendProperties DEF n
<1>7. /\ visits' = Append(visits, a)
      /\ frames' = Push(frames, New(1), Block(frames), NoBlock)
      /\ cursor' = New(1)
      /\ UNCHANGED <<status, storage, result>>
  BY DEF OpenFun, Nest
<1> HIDE DEF a, n
<1>8. /\ Push(frames, New(1), Block(frames), NoBlock) \in Seq(Frame(n))
      /\ Len(Push(frames, New(1), Block(frames), NoBlock)) = Len(frames) + 1
      /\ \A i \in 1 .. Len(frames) :
           Push(frames, New(1), Block(frames), NoBlock)[i] = frames[i]
      /\ Push(frames, New(1), Block(frames), NoBlock)[Len(frames) + 1].insertBlock = New(1)
      /\ Block(frames) # NoBlock =>
           Push(frames, New(1), Block(frames), NoBlock)[Len(frames) + 1].breakBlock
             = Block(frames)
  <2>1. NoBlock \in 0 .. n /\ Block(frames) \in 0 .. n
    BY <1>2, <1>4 DEF NoBlock
  <2>2. QED
    BY <1>2, <1>4, <2>1, PushProperties
<1>9. Block(frames') = New(1) /\ Block(frames) = frames[Len(frames)].insertBlock
  BY <1>7, <1>8, BlockAt
<1>10. frames'[Len(frames) + 1].breakBlock = frames[Len(frames)].insertBlock
  BY <1>4, <1>7, <1>8, <1>9
<1>11. QED
  BY <1>1, <1>3, <1>5, <1>6, <1>7, <1>8, <1>9, <1>10, NestStep DEF n

\* The tree's visit starts on an empty stack.
LEMMA OpenTreeStep ==
  ASSUME IInv, OpenTree
  PROVE  IInv'
<1> DEFINE a == Waiting("tree", "list")
<1>1. frames = <<>>
  <2>1. Len(frames) = 0
    BY DEF OpenTree, IInv, Discipline, Balanced
  <2>2. QED
    BY <2>1, EmptySeq DEF IInv, TypeOK
<1>2. a \in Activation(1) /\ a.base = 0 /\ a.kind = "tree" /\ HasLocals(a) /\ Held(a) = 1
  BY <1>1 DEF Waiting, Visiting, Activation, HasLocals, Held, NoBlock, Loops
<1>3. /\ visits' = <<a>> /\ owner' = <<1>> /\ code' = << <<>> >> /\ cursor' = 1
      /\ frames' = Push(<<>>, 1, NoBlock, NoBlock)
      /\ status' = "running" /\ UNCHANGED <<storage, result>>
  BY <1>1 DEF OpenTree
<1> HIDE DEF a
<1>4. Onto(frames', <<>>, 1, 1, 1)
  <2>1. 1 \in Nat /\ <<>> \in Seq(Frame(1)) /\ 1 \in 1 .. 1 /\ NoBlock \in 0 .. 1
    BY EmptySeq DEF NoBlock
  <2>2. QED
    BY <1>3, <2>1, PushOnto
<1>5. frames' \in Seq(Frame(1)) /\ Len(frames') = 1 /\ cursor' = Block(frames')
  BY <1>3, <1>4 DEF Onto
<1>6. /\ visits' \in Seq(Activation(1)) /\ visits' # <<>>
      /\ Len(visits') = 1 /\ DOMAIN visits' = 1 .. 1 /\ visits'[1] = a
  BY <1>2, <1>3
<1>7. Discipline(visits', frames')
  <2>1. Balanced(visits', Len(frames'))
    BY <1>2, <1>5, <1>6 DEF Balanced
  <2>2. TreeFirst(visits') /\ Nested(visits') /\ LocalsSet(visits')
    BY <1>2, <1>6 DEF TreeFirst, Nested, LocalsSet
  <2>3. FunReturns(visits', frames')
    BY <1>2, <1>6 DEF FunReturns
  <2>4. QED
    BY <2>1, <2>2, <2>3 DEF Discipline
<1>8. owner' \in Seq(1 .. 1) /\ Len(owner') = 1 /\ code' \in Code(1) /\ Len(code') = 1
  BY <1>3 DEF Code
<1>9. storage' \in Nat /\ result' \in Symbol
  BY <1>3 DEF IInv, TypeOK
<1>10. QED
  BY <1>3, <1>5, <1>6, <1>7, <1>8, <1>9, RunningStep

-----------------------------------------------------------------------------
(* Handlers that close.                                                    *)

\* The state in which the handler of this kind is on top.
LEMMA AtTop ==
  ASSUME IInv, NEW kind, NEW at, At(kind, at)
  PROVE  /\ status = "running" /\ visits # <<>>
         /\ Top(visits).kind = kind /\ Top(visits).at = at
         /\ Len(owner) \in Nat
         /\ code \in Code(Len(owner)) /\ Len(code) = Len(owner)
         /\ frames \in Seq(Frame(Len(owner)))
         /\ Top(visits).base \in Nat
         /\ Top(visits).exit \in 0 .. Len(owner) /\ Top(visits).cond \in 0 .. Len(owner)
         /\ Top(visits).loop \in 0 .. Len(owner) /\ Top(visits).alt \in 0 .. Len(owner)
         /\ HasLocals(Top(visits))
         /\ Len(frames) = Top(visits).base + Held(Top(visits))
<1>1. /\ status = "running" /\ visits # <<>>
      /\ Top(visits).kind = kind /\ Top(visits).at = at
  BY DEF At
<1>2. Top(visits) \in Activation(Len(owner))
  BY <1>1, Ready
<1>3. /\ Top(visits).base \in Nat
      /\ Top(visits).exit \in 0 .. Len(owner) /\ Top(visits).cond \in 0 .. Len(owner)
      /\ Top(visits).loop \in 0 .. Len(owner) /\ Top(visits).alt \in 0 .. Len(owner)
  BY <1>2 DEF Activation
<1>4. QED
  BY <1>1, <1>3, Ready

\* One frame is dropped: scope, label, if, do.
LEMMA CloseOne ==
  ASSUME IInv, NEW kind, kind \notin {"tree", "fun", "use"}, NEW at, At(kind, at),
         Held(Top(visits)) = 1,
         code' \in Code(Len(owner)), Len(code') = Len(owner),
         LeaveTo(Pop(frames), Top(visits).exit),
         UNCHANGED <<status, owner, storage, result>>
  PROVE  IInv'
<1>1. /\ frames \in Seq(Frame(Len(owner))) /\ Top(visits).base \in Nat
      /\ Len(frames) = Top(visits).base + 1
  BY AtTop
<1>2. frames # <<>> /\ Len(frames) - 1 = Top(visits).base
  BY <1>1, EmptySeq
<1>3. /\ Pop(frames) \in Seq(Frame(Len(owner)))
      /\ Len(Pop(frames)) = Len(frames) - 1
      /\ \A i \in 1 .. Len(frames) - 1 : Pop(frames)[i] = frames[i]
  BY <1>1, <1>2, PopProperties
<1>4. QED
  BY <1>2, <1>3, AtTop, LeaveToStep

LEMMA CloseRegionStep ==
  ASSUME IInv, NEW kind \in {"scope", "label"}, NEW at, CloseRegion(kind, at)
  PROVE  IInv'
<1>1. At(kind, at) /\ code' = Fall(Top(visits).exit)
      /\ LeaveTo(Pop(frames), Top(visits).exit)
      /\ UNCHANGED <<status, owner, storage, result>>
  BY DEF CloseRegion
<1>2. Held(Top(visits)) = 1 /\ Top(visits).exit # NoBlock
  BY <1>1, AtTop DEF Held, HasLocals
<1>3. Top(visits).exit \in 1 .. Len(owner)
  BY <1>1, <1>2, AtTop DEF NoBlock
<1>4. code' \in Code(Len(owner)) /\ Len(code') = Len(owner)
  BY <1>1, <1>3, AtTop, FallType
<1>5. QED
  BY <1>1, <1>2, <1>4, CloseOne

LEMMA CloseIfStep ==
  ASSUME IInv, CloseIf
  PROVE  IInv'
<1>1. At("if", "after") /\ code' = Fall(Top(visits).exit)
      /\ LeaveTo(Pop(frames), Top(visits).exit)
      /\ UNCHANGED <<status, owner, storage, result>>
  BY DEF CloseIf
<1>2. Held(Top(visits)) = 1 /\ Top(visits).exit # NoBlock
  BY <1>1, AtTop DEF Held, HasLocals
<1>3. Top(visits).exit \in 1 .. Len(owner)
  BY <1>1, <1>2, AtTop DEF NoBlock
<1>4. code' \in Code(Len(owner)) /\ Len(code') = Len(owner)
  BY <1>1, <1>3, AtTop, FallType
<1>5. QED
  BY <1>1, <1>2, <1>4, CloseOne

\* Two frames are dropped: switch, while.
LEMMA CloseTwo ==
  ASSUME IInv, NEW kind, kind \notin {"tree", "fun", "use"}, NEW at, At(kind, at),
         Held(Top(visits)) = 2,
         code' \in Code(Len(owner)), Len(code') = Len(owner),
         LeaveTo(Pop(Pop(frames)), Top(visits).exit),
         UNCHANGED <<status, owner, storage, result>>
  PROVE  IInv'
<1>1. /\ frames \in Seq(Frame(Len(owner))) /\ Top(visits).base \in Nat
      /\ Len(frames) = Top(visits).base + 2
  BY AtTop
<1>2. Len(frames) >= 2 /\ Len(frames) - 2 = Top(visits).base
  BY <1>1
<1>3. /\ Pop(Pop(frames)) \in Seq(Frame(Len(owner)))
      /\ Len(Pop(Pop(frames))) = Len(frames) - 2
      /\ \A i \in 1 .. Len(frames) - 2 : Pop(Pop(frames))[i] = frames[i]
  BY <1>1, <1>2, PopTwice
<1>4. QED
  BY <1>2, <1>3, AtTop, LeaveToStep

LEMMA CloseSwitchStep ==
  ASSUME IInv, CloseSwitch
  PROVE  IInv'
<1>1. At("switch", "after") /\ code' = Fall(Top(visits).exit)
      /\ LeaveTo(Pop(Pop(frames)), Top(visits).exit)
      /\ UNCHANGED <<status, owner, storage, result>>
  BY DEF CloseSwitch
<1>2. Held(Top(visits)) = 2 /\ Top(visits).exit # NoBlock
  BY <1>1, AtTop DEF Held, HasLocals
<1>3. Top(visits).exit \in 1 .. Len(owner)
  BY <1>1, <1>2, AtTop DEF NoBlock
<1>4. code' \in Code(Len(owner)) /\ Len(code') = Len(owner)
  BY <1>1, <1>3, AtTop, FallType
<1>5. QED
  BY <1>1, <1>2, <1>4, CloseTwo

LEMMA CloseWhileStep ==
  ASSUME IInv, CloseWhile
  PROVE  IInv'
<1>1. At("while", "after") /\ code' = Terminate(code, cursor, {Top(visits).cond})
      /\ LeaveTo(Pop(Pop(frames)), Top(visits).exit)
      /\ UNCHANGED <<status, owner, storage, result>>
  BY DEF CloseWhile
<1>2. Held(Top(visits)) = 2 /\ Top(visits).cond # NoBlock
  BY <1>1, AtTop DEF Held, HasLocals, Loops
<1>3. {Top(visits).cond} \in SUBSET (1 .. Len(owner))
  BY <1>1, <1>2, AtTop DEF NoBlock
<1>4. code' \in Code(Len(owner)) /\ Len(code') = Len(owner)
  BY <1>1, <1>3, AtTop, TerminateType
<1>5. QED
  BY <1>1, <1>2, <1>4, CloseTwo

\* A do pushes a frame for its condition and drops it with its own.
LEMMA CloseDoStep ==
  ASSUME IInv, CloseDo
  PROVE  IInv'
<1> DEFINE v == Top(visits)
           n == Len(owner)
           s == Push(frames, v.cond, NoBlock, NoBlock)
<1>1. At("do", "after") /\ code' = Terminate(Fall(v.cond), v.cond, {v.loop, v.exit})
      /\ LeaveTo(Pop(Pop(s)), v.exit)
      /\ UNCHANGED <<status, owner, storage, result>>
  BY DEF CloseDo
<1>2. Held(v) = 1 /\ v.cond # NoBlock /\ v.loop # NoBlock /\ v.exit # NoBlock
  BY <1>1, AtTop DEF Held, HasLocals, Loops
<1>3. v.cond \in 1 .. n /\ {v.loop, v.exit} \in SUBSET (1 .. n) /\ NoBlock \in 0 .. n
  BY <1>1, <1>2, AtTop DEF NoBlock
<1>4. code' \in Code(n) /\ Len(code') = n
  <2>1. Fall(v.cond) \in Code(n) /\ Len(Fall(v.cond)) = n
    BY <1>1, <1>3, AtTop, FallType
  <2>2. QED
    BY <1>1, <1>3, <2>1, AtTop, TerminateType
<1>5. /\ n \in Nat /\ frames \in Seq(Frame(n)) /\ v.base \in Nat
      /\ Len(frames) = v.base + 1
  BY <1>1, <1>2, AtTop
<1> HIDE DEF s, v, n
<1>6. /\ s \in Seq(Frame(n)) /\ Len(s) = Len(frames) + 1
      /\ \A i \in 1 .. Len(frames) : s[i] = frames[i]
  <2>1. Onto(s, frames, 1, v.cond, n)
    BY <1>3, <1>5, PushOnto DEF s
  <2>2. QED
    BY <2>1 DEF Onto
<1>7. Len(s) >= 2 /\ Len(s) - 2 = v.base /\ \A i \in 1 .. v.base : i \in 1 .. Len(frames)
  BY <1>5, <1>6
<1>8. /\ Pop(Pop(s)) \in Seq(Frame(n)) /\ Len(Pop(Pop(s))) = Len(s) - 2
      /\ \A i \in 1 .. Len(s) - 2 : Pop(Pop(s))[i] = s[i]
  BY <1>6, <1>7, PopTwice
<1>9. Len(Pop(Pop(s))) = v.base /\ \A i \in 1 .. v.base : Pop(Pop(s))[i] = frames[i]
  BY <1>6, <1>7, <1>8
<1>10. status = "running" /\ visits # <<>> /\ v.kind = "do"
  BY <1>1, AtTop DEF v
<1>11. QED
  BY <1>1, <1>4, <1>8, <1>9, <1>10, LeaveToStep DEF n, v

\* A for drops the frames of its body, of its condition and of its variables.
LEMMA CloseForStep ==
  ASSUME IInv, CloseFor
  PROVE  IInv'
<1> DEFINE v == Top(visits)
           n == Len(owner)
           s == Pop(frames)
<1>1. At("for", "after")
      /\ code' = (IF Ended(Block(frames)) THEN code
                  ELSE Terminate(Fall(v.alt), v.alt, {v.cond}))
      /\ LeaveTo(Pop(Pop(s)), v.exit)
      /\ UNCHANGED <<status, owner, storage, result>>
  BY DEF CloseFor
<1>2. Held(v) = 3 /\ v.cond # NoBlock /\ v.alt # NoBlock
  BY <1>1, AtTop DEF Held, HasLocals, Loops
<1>3. v.alt \in 1 .. n /\ {v.cond} \in SUBSET (1 .. n)
  BY <1>1, <1>2, AtTop DEF NoBlock
<1>4. code' \in Code(n) /\ Len(code') = n
  <2>1. Fall(v.alt) \in Code(n) /\ Len(Fall(v.alt)) = n
    BY <1>1, <1>3, AtTop, FallType
  <2>2. Terminate(Fall(v.alt), v.alt, {v.cond}) \in Code(n)
        /\ Len(Terminate(Fall(v.alt), v.alt, {v.cond})) = n
    BY <1>1, <1>3, <2>1, AtTop, TerminateType
  <2>3. code \in Code(n) /\ Len(code) = n
    BY <1>1, AtTop
  <2>4. QED
    BY <1>1, <2>2, <2>3
<1>5. /\ n \in Nat /\ frames \in Seq(Frame(n)) /\ v.base \in Nat
      /\ Len(frames) = v.base + 3
  BY <1>1, <1>2, AtTop
<1>6. frames # <<>>
  BY <1>5, EmptySeq
<1>7. /\ s \in Seq(Frame(n)) /\ Len(s) = Len(frames) - 1
      /\ \A i \in 1 .. Len(frames) - 1 : s[i] = frames[i]
  BY <1>5, <1>6, PopProperties
<1> HIDE DEF s, v, n
<1>8. Len(s) >= 2 /\ Len(s) - 2 = v.base /\ \A i \in 1 .. v.base : i \in 1 .. Len(frames) - 1
  BY <1>5, <1>7
<1>9. /\ Pop(Pop(s)) \in Seq(Frame(n)) /\ Len(Pop(Pop(s))) = Len(s) - 2
      /\ \A i \in 1 .. Len(s) - 2 : Pop(Pop(s))[i] = s[i]
  BY <1>7, <1>8, PopTwice
<1>10. Len(Pop(Pop(s))) = v.base /\ \A i \in 1 .. v.base : Pop(Pop(s))[i] = frames[i]
  BY <1>7, <1>8, <1>9
<1>11. status = "running" /\ visits # <<>> /\ v.kind = "for"
  BY <1>1, AtTop DEF v
<1>12. QED
  BY <1>1, <1>4, <1>9, <1>10, <1>11, LeaveToStep DEF n, v

LEMMA CloseUseStep ==
  ASSUME IInv, CloseUse
  PROVE  IInv'
<1>1. /\ At("use", "list") /\ Leave
      /\ UNCHANGED <<status, frames, cursor, owner, code, storage, result>>
  BY DEF CloseUse
<1>2. /\ status = "running" /\ visits # <<>> /\ Top(visits).kind = "use"
      /\ Held(Top(visits)) = 0
  BY <1>1, AtTop DEF Held
<1>3. Len(frames) = Top(visits).base
  BY <1>1, <1>2, AtTop
<1>4. cursor' = Block(frames')
  BY <1>1, <1>2, Ready
<1>5. QED
  BY <1>1, <1>2, <1>3, <1>4, AtTop, LeaveStep

\* The insert point goes back to the block the declaration stands in.
LEMMA CloseFunStep ==
  ASSUME IInv, CloseFun
  PROVE  IInv'
<1> DEFINE b == Top(visits).base
           n == Len(owner)
<1>1. /\ At("fun", "list") /\ Leave
      /\ code' = Returning(Block(frames), cursor)
      /\ cursor' = PopBlock(frames)
      /\ frames' = Pop(frames)
      /\ UNCHANGED <<status, owner, storage, result>>
  BY DEF CloseFun
<1>2. /\ status = "running" /\ visits # <<>> /\ Top(visits).kind = "fun"
      /\ n \in Nat /\ frames \in Seq(Frame(n)) /\ b \in Nat
      /\ code \in Code(n) /\ Len(code) = n
  BY <1>1, AtTop
<1>3. Held(Top(visits)) = 1
  BY <1>2 DEF Held
<1>4. Len(frames) = b + 1
  BY <1>1, <1>3, AtTop
<1>5. b >= 1
  BY <1>2, BaseType
<1>6. frames[b + 1].breakBlock = frames[b].insertBlock
  <2>1. Discipline(visits, frames) /\ visits \in Seq(Activation(n))
    BY <1>2, Ready
  <2>2. Len(visits) \in DOMAIN visits /\ Top(visits) = visits[Len(visits)]
    BY <1>2, <2>1, ActivationAt DEF Top
  <2>3. QED
    BY <1>2, <2>1, <2>2 DEF Discipline, FunReturns
<1> HIDE DEF b, n
<1>7. frames[b].insertBlock # NoBlock
  <2>1. frames[b] \in Frame(n)
    BY <1>2, <1>4, <1>5, ElementOfSeq
  <2>2. QED
    BY <1>2, <2>1 DEF Frame, NoBlock
<1>8. PopBlock(frames) = frames[b].insertBlock
  BY <1>4, <1>6, <1>7 DEF PopBlock, Top
<1>9. frames # <<>> /\ Len(frames) - 1 = b
  BY <1>2, <1>4, EmptySeq
<1>10. /\ Pop(frames) \in Seq(Frame(n)) /\ Len(Pop(frames)) = b
       /\ \A i \in 1 .. b : Pop(frames)[i] = frames[i]
  BY <1>2, <1>9, PopProperties
<1>11. cursor' = Block(frames')
  <2>1. Pop(frames)[b] = frames[b]
    BY <1>2, <1>5, <1>10
  <2>2. Block(Pop(frames)) = Pop(frames)[b].insertBlock
    BY <1>10, BlockAt
  <2>3. QED
    BY <1>1, <1>8, <2>1, <2>2
<1>12. code' \in Code(n) /\ Len(code') = n
  BY <1>1, <1>2, ReturningType
<1>13. /\ Len(frames') = b
       /\ \A i \in 1 .. b : frames'[i].breakBlock = frames[i].breakBlock
       /\ \A i \in 1 .. b - 1 : frames'[i].insertBlock = frames[i].insertBlock
  BY <1>1, <1>2, <1>10
<1>14. frames' \in Seq(Frame(n)) /\ Top(visits).kind # "tree"
  BY <1>1, <1>2, <1>10
<1>15. QED
  BY <1>1, <1>2, <1>11, <1>12, <1>13, <1>14, LeaveStep DEF b, n

\* The last frame is dropped.
LEMMA CloseTreeStep ==
  ASSUME IInv, CloseTree
  PROVE  IInv'
<1> DEFINE n == Len(owner)
<1>1. /\ At("tree", "list")
      /\ cursor' = PopBlock(frames)
      /\ code' = Returning(PopBlock(frames), PopBlock(frames))
      /\ frames' = Pop(frames)
      /\ visits' = <<>>
      /\ status' = "done"
      /\ UNCHANGED <<owner, storage, result>>
  BY DEF CloseTree
<1>2. /\ status = "running" /\ visits # <<>> /\ Top(visits).kind = "tree"
      /\ n \in Nat /\ frames \in Seq(Frame(n))
      /\ code \in Code(n) /\ Len(code) = n
  BY <1>1, AtTop
<1>3. Held(Top(visits)) = 1
  BY <1>2 DEF Held
<1>4. Top(visits).base = 0
  <2>1. Discipline(visits, frames) /\ visits \in Seq(Activation(n))
    BY <1>2, Ready
  <2>2. Len(visits) = 1
    BY <1>2, <2>1, DisciplineAt
  <2>3. QED
    BY <1>2, <2>1, <2>2 DEF Discipline, Balanced, Top
<1>5. Len(frames) = 1
  BY <1>1, <1>3, <1>4, AtTop
<1>6. frames # <<>>
  BY <1>5, EmptySeq
<1>7. Pop(frames) = <<>>
  <2>1. Pop(frames) \in Seq(Frame(n)) /\ Len(Pop(frames)) = 0
    BY <1>2, <1>5, <1>6, PopProperties
  <2>2. QED
    BY <2>1, EmptySeq
<1>8. PopBlock(frames) \in 1 .. n
  <2>1. Top(frames) \in Frame(n)
    BY <1>2, Ready
  <2>2. PopBlock(frames) = IF Top(frames).breakBlock # NoBlock
                           THEN Top(frames).breakBlock ELSE Top(frames).insertBlock
    BY <1>5 DEF PopBlock
  <2>3. QED
    BY <1>2, <2>1, <2>2 DEF Frame, NoBlock
<1>9. code' \in Code(n) /\ Len(code') = n
  BY <1>1, <1>2, ReturningType
<1> HIDE DEF n
<1>10. TypeOK'
  <2>1. visits' \in Seq(Activation(n)) /\ frames' \in Seq(Frame(n))
    BY <1>1, <1>7, EmptySeq
  <2>2. owner \in Seq(1 .. n) /\ storage \in Nat /\ result \in Symbol
    BY DEF IInv, TypeOK, Blocks, n
  <2>3. QED
    BY <1>1, <1>8, <1>9, <2>1, <2>2 DEF TypeOK, Blocks, Code, n
<1>11. QED
  BY <1>1, <1>7, <1>10 DEF IInv, CursorSync

-----------------------------------------------------------------------------
(* Statements without nested visits.                                       *)

\* A statement that creates no block and leaves the blocks of the frames alone.
LEMMA StayStep ==
  ASSUME IInv, status = "running", visits # <<>>,
         code' \in Code(Len(owner)), Len(code') = Len(owner),
         Simple,
         frames' \in Seq(Frame(Len(owner))), Len(frames') = Len(frames),
         \A i \in 1 .. Len(frames) : SameBlocks(frames'[i], frames[i]),
         UNCHANGED <<status, cursor, owner>>, storage' \in Nat, result' \in Symbol
  PROVE  IInv'
<1> DEFINE n == Len(owner)
<1>1. /\ n \in Nat /\ frames \in Seq(Frame(n)) /\ visits \in Seq(Activation(n))
      /\ owner \in Seq(1 .. n) /\ Discipline(visits, frames)
      /\ Len(frames) \in Nat /\ Len(frames) >= 1 /\ cursor = Block(frames)
  BY Ready
<1>2. /\ \A i \in 1 .. Len(frames) : frames'[i].breakBlock = frames[i].breakBlock
      /\ \A i \in 1 .. Len(frames) - 1 : frames'[i].insertBlock = frames[i].insertBlock
      /\ frames'[Len(frames)].insertBlock = frames[Len(frames)].insertBlock
  BY <1>1 DEF SameBlocks
<1>3. cursor' = Block(frames')
  <2>1. Block(frames') = frames'[Len(frames)].insertBlock
        /\ Block(frames) = frames[Len(frames)].insertBlock
    BY BlockAt
  <2>2. QED
    BY <1>1, <1>2, <2>1
<1> HIDE DEF n
<1>4. /\ visits' \in Seq(Activation(n)) /\ visits' # <<>>
      /\ Discipline(visits', frames')
  BY <1>1, <1>2, ReturnedVisit DEF n, Simple
<1>5. /\ owner' \in Seq(1 .. n) /\ Len(owner') = n /\ status' = "running"
      /\ code' \in Code(n) /\ Len(code') = n /\ frames' \in Seq(Frame(n))
  BY <1>1 DEF n
<1>6. QED
  BY <1>1, <1>3, <1>4, <1>5, RunningStep

\* A jump appends a terminator and leaves the stack alone.
LEMMA EndBlockStep ==
  ASSUME IInv, status = "running", visits # <<>>,
         NEW targets \in SUBSET (1 .. Len(owner)), EndBlock(targets)
  PROVE  IInv'
<1>1. /\ code' = Terminate(code, cursor, targets) /\ Simple
      /\ UNCHANGED <<status, frames, cursor, owner, storage, result>>
  BY DEF EndBlock
<1>2. code' \in Code(Len(owner)) /\ Len(code') = Len(owner)
  BY <1>1, Ready, TerminateType
<1>3. frames' \in Seq(Frame(Len(owner))) /\ Len(frames') = Len(frames)
  BY <1>1, Ready
<1>4. \A i \in 1 .. Len(frames) : SameBlocks(frames'[i], frames[i])
  BY <1>1 DEF SameBlocks
<1>5. storage' \in Nat /\ result' \in Symbol
  BY <1>1 DEF IInv, TypeOK
<1>6. QED
  BY <1>1, <1>2, <1>3, <1>4, <1>5, StayStep

\* break and continue branch to a block there is: one the top frame has, or
\* the block of the frame below.
LEMMA JumpType ==
  ASSUME IInv, status = "running", visits # <<>>, CanJump(frames)
  PROVE  /\ {Break(frames)} \in SUBSET (1 .. Len(owner))
         /\ {Continue(frames)} \in SUBSET (1 .. Len(owner))
<1> DEFINE n == Len(owner)
<1>1. /\ n \in Nat /\ frames \in Seq(Frame(n)) /\ Top(frames) \in Frame(n)
      /\ Len(frames) \in Nat /\ frames # <<>>
  BY Ready
<1>2. Len(frames) > 1
  BY DEF CanJump
<1>3. Block(Rest(frames)) = frames[Len(frames) - 1].insertBlock
  <2>1. Len(Pop(frames)) = Len(frames) - 1
        /\ \A i \in 1 .. Len(frames) - 1 : Pop(frames)[i] = frames[i]
    BY <1>1, PopProperties
  <2>2. Rest(frames) = Pop(frames) /\ Len(frames) - 1 \in 1 .. Len(frames) - 1
    BY <1>1, <1>2 DEF Pop
  <2>3. QED
    BY <2>1, <2>2, BlockAt
<1>4. frames[Len(frames) - 1] \in Frame(n)
  BY <1>1, <1>2, ElementOfSeq
<1> HIDE DEF n
<1>5. Break(frames) \in 1 .. n /\ Continue(frames) \in 1 .. n
  BY <1>1, <1>3, <1>4 DEF Break, Continue, Frame, NoBlock
<1>6. QED
  BY <1>5 DEF n

LEMMA JumpStep ==
  ASSUME IInv, StmtBreak \/ StmtCont \/ StmtReturn
  PROVE  IInv'
<1>1. status = "running" /\ visits # <<>>
  BY Visited DEF StmtBreak, StmtCont, StmtReturn
<1>2. CASE StmtBreak
  BY <1>1, <1>2, JumpType, EndBlockStep DEF StmtBreak
<1>3. CASE StmtCont
  BY <1>1, <1>3, JumpType, EndBlockStep DEF StmtCont
<1>4. CASE StmtReturn
  <2>1. Return \in SUBSET (1 .. Len(owner))
    BY DEF Return
  <2>2. QED
    BY <1>1, <1>4, <2>1, EndBlockStep DEF StmtReturn
<1>5. QED
  BY <1>2, <1>3, <1>4

\* What an expression finds is a symbol.
LEMMA FoundType ==
  ASSUME IInv, status = "running", visits # <<>>,
         NEW name \in Names \cup {NoName}, Reads(name)
  PROVE  Found(name) \in Symbol
<1>1. CASE name = NoName
  BY <1>1 DEF Found, IInv, TypeOK
<1>2. CASE name # NoName
  <2>1. Visible(frames, name) /\ name \in Names
    BY <1>2 DEF Reads
  <2>2. QED
    BY <1>2, <2>1, Ready, SymbolOfType DEF Found
<1>3. QED
  BY <1>1, <1>2

LEMMA StmtExprStep ==
  ASSUME IInv, NEW name \in Names \cup {NoName}, StmtExpr(name)
  PROVE  IInv'
<1>1. /\ Reads(name) /\ result' = Found(name) /\ Simple
      /\ UNCHANGED <<status, frames, cursor, owner, code, storage>>
  BY DEF StmtExpr
<1>2. status = "running" /\ visits # <<>>
  BY Visited DEF StmtExpr
<1>3. result' \in Symbol /\ storage' \in Nat
  BY <1>1, <1>2, FoundType DEF IInv, TypeOK
<1>4. /\ frames' \in Seq(Frame(Len(owner))) /\ Len(frames') = Len(frames)
      /\ code' \in Code(Len(owner)) /\ Len(code') = Len(owner)
  BY <1>1, <1>2, Ready
<1>5. \A i \in 1 .. Len(frames) : SameBlocks(frames'[i], frames[i])
  BY <1>1 DEF SameBlocks
<1>6. QED
  BY <1>1, <1>2, <1>3, <1>4, <1>5, StayStep

\* A declaration changes symbols only.
LEMMA DeclareType ==
  ASSUME IInv, status = "running", visits # <<>>,
         NEW name \in Names, NEW isRef \in BOOLEAN, Declare(name, isRef)
  PROVE  /\ frames' \in Seq(Frame(Len(owner))) /\ Len(frames') = Len(frames)
         /\ \A i \in 1 .. Len(frames) : SameBlocks(frames'[i], frames[i])
         /\ storage' \in Nat
<1>1. frames' = Set(frames, name, storage + 1, isRef) /\ storage' = storage + 1
  BY DEF Declare
<1>2. storage + 1 \in Nat
  BY DEF IInv, TypeOK
<1>3. Len(owner) \in Nat /\ frames \in Seq(Frame(Len(owner))) /\ frames # <<>>
  BY Ready
<1>4. QED
  BY ONLY <1>1, <1>2, <1>3, name \in Names, isRef \in BOOLEAN, SetProperties

LEMMA DeclVarStep ==
  ASSUME IInv, NEW name \in Names, NEW isRef \in BOOLEAN, NEW isPointer \in BOOLEAN,
         NEW init \in Names \cup {NoName}, DeclVar(name, isRef, init, isPointer)
  PROVE  IInv'
<1>1. /\ Reads(init) /\ Declare(name, isRef) /\ result' = Found(init) /\ Simple
      /\ UNCHANGED <<status, cursor, owner, code>>
  BY DEF DeclVar
<1>2. status = "running" /\ visits # <<>>
  BY DEF DeclVar, AtDeclaration, Accepts, At
<1>3. result' \in Symbol
  BY <1>1, <1>2, FoundType
<1>4. /\ frames' \in Seq(Frame(Len(owner))) /\ Len(frames') = Len(frames)
      /\ \A i \in 1 .. Len(frames) : SameBlocks(frames'[i], frames[i])
      /\ storage' \in Nat
  BY <1>1, <1>2, DeclareType
<1>5. code' \in Code(Len(owner)) /\ Len(code') = Len(owner)
  BY <1>1, <1>2, Ready
<1>6. QED
  BY <1>1, <1>2, <1>3, <1>4, <1>5, StayStep

\* A switch without a default pushes its frame and drops it at once.
LEMMA SwitchNoDefaultStep ==
  ASSUME IInv, SwitchNoDefault
  PROVE  IInv'
<1> DEFINE n == Len(owner) + 2
           s == Push(frames, New(1), New(2), NoBlock)
<1>1. /\ Visit("switch", 2) /\ AddBlocks(2) /\ Simple
      /\ code' = Terminate(Terminate(Blank(2), cursor, {New(1)}), New(1), {New(2)})
      /\ frames' = Join(Pop(s), New(2))
      /\ cursor' = New(2) /\ UNCHANGED <<status, storage, result>>
  BY DEF SwitchNoDefault, StartAt
<1>2. status = "running" /\ visits # <<>>
  BY <1>1, Visited
<1>3. n \in Nat /\ \A i \in 1 .. 2 : New(i) \in 1 .. n /\ New(i) # NoBlock
  BY <1>1, Branched
<1>4. code' \in Code(n) /\ Len(code') = n
  <2> DEFINE c == Terminate(Blank(2), cursor, {New(1)})
  <2>1. {New(1)} \in SUBSET (1 .. n) /\ {New(2)} \in SUBSET (1 .. n)
    BY <1>3
  <2>2. c \in Code(n) /\ Len(c) = n
    BY <1>1, <2>1, Branched
  <2>3. code' = Terminate(c, New(1), {New(2)})
    BY <1>1
  <2> HIDE DEF c
  <2>4. QED
    BY <1>3, <2>1, <2>2, <2>3, TerminateType
<1>5. /\ frames \in Seq(Frame(n)) /\ Len(frames) \in Nat /\ Len(frames) >= 1
      /\ owner' \in Seq(1 .. n) /\ Len(owner') = n
  BY <1>1, <1>2, Ready, NewBlocks
<1> HIDE DEF s, n
<1>6. /\ s \in Seq(Frame(n)) /\ Len(s) = Len(frames) + 1
      /\ \A i \in 1 .. Len(frames) : s[i] = frames[i]
  <2>1. New(1) \in 1 .. n /\ New(2) \in 0 .. n /\ NoBlock \in 0 .. n
    BY <1>3 DEF NoBlock
  <2>2. Onto(s, frames, 1, New(1), n)
    BY <1>3, <1>5, <2>1, PushOnto DEF s
  <2>3. QED
    BY <2>2 DEF Onto
<1>7. s # <<>> /\ Len(s) - 1 = Len(frames)
  BY <1>5, <1>6, EmptySeq
<1> DEFINE r == Pop(s)
<1>8. /\ r \in Seq(Frame(n)) /\ Len(r) = Len(frames)
      /\ \A i \in 1 .. Len(frames) : r[i] = frames[i]
  BY <1>6, <1>7, PopProperties
<1> HIDE DEF r
<1>9. r # <<>> /\ New(2) \in 1 .. n /\ frames' = Join(r, New(2))
  BY <1>1, <1>3, <1>5, <1>8, EmptySeq DEF r
<1>10. /\ Join(r, New(2)) \in Seq(Frame(n)) /\ Len(Join(r, New(2))) = Len(r)
       /\ \A i \in 1 .. Len(r) - 1 : Join(r, New(2))[i] = r[i]
       /\ Join(r, New(2))[Len(r)].insertBlock = New(2)
       /\ Join(r, New(2))[Len(r)].breakBlock = r[Len(r)].breakBlock
  BY <1>3, <1>8, <1>9, JoinProperties
<1>11. frames' \in Seq(Frame(n)) /\ Len(frames') = Len(frames)
  BY <1>8, <1>9, <1>10
<1>12. \A i \in 1 .. Len(frames) : frames'[i].breakBlock = frames[i].breakBlock
  <2> TAKE i \in 1 .. Len(frames)
  <2>1. CASE i = Len(frames)
    BY <2>1, <1>8, <1>9, <1>10
  <2>2. CASE i # Len(frames)
    <3>1. i \in 1 .. Len(r) - 1
      BY <2>2, <1>5, <1>8
    <3>2. QED
      BY <3>1, <1>8, <1>9, <1>10
  <2>3. QED
    BY <2>1, <2>2
<1>13. \A i \in 1 .. Len(frames) - 1 : frames'[i].insertBlock = frames[i].insertBlock
  <2> TAKE i \in 1 .. Len(frames) - 1
  <2>1. i \in 1 .. Len(r) - 1 /\ i \in 1 .. Len(frames)
    BY <1>5, <1>8
  <2>2. QED
    BY <2>1, <1>8, <1>9, <1>10
<1>14. cursor' = Block(frames')
  <2>1. Block(Join(r, New(2))) = Join(r, New(2))[Len(Join(r, New(2)))].insertBlock
    BY BlockAt
  <2>2. QED
    BY <1>1, <1>9, <1>10, <2>1
<1>15. storage' \in Nat /\ result' \in Symbol
  BY <1>1 DEF IInv, TypeOK
<1>16. QED
  BY <1>1, <1>2, <1>4, <1>5, <1>11, <1>12, <1>13, <1>14, <1>15, SimpleStep DEF n

-----------------------------------------------------------------------------
(* Handlers that go on to their next nested visit.                         *)

LEMMA FunArgumentStep ==
  ASSUME IInv, NEW name \in Names, NEW isRef \in BOOLEAN, FunArgument(name, isRef)
  PROVE  IInv'
<1> DEFINE n == Len(owner)
           b == Top(visits)
<1>1. /\ At("fun", "decls") /\ Declare(name, isRef)
      /\ UNCHANGED <<status, visits, cursor, owner, code, result>>
  BY DEF FunArgument
<1>2. /\ status = "running" /\ visits # <<>> /\ b.kind = "fun" /\ b.base \in Nat
      /\ Held(b) = 1
  BY <1>1, AtTop DEF Held
<1>3. /\ frames' \in Seq(Frame(n)) /\ Len(frames') = Len(frames)
      /\ \A i \in 1 .. Len(frames) : SameBlocks(frames'[i], frames[i])
      /\ storage' \in Nat
  BY <1>1, <1>2, DeclareType
<1>4. /\ b \in Activation(n) /\ HasLocals(b) /\ Len(frames) = b.base + 1
      /\ code \in Code(n) /\ Len(code) = n /\ cursor = Block(frames)
  BY <1>2, Ready
<1>5. visits' = [visits EXCEPT ![Len(visits)] = b]
  <2>1. visits \in Seq(Activation(n)) /\ b = visits[Len(visits)]
    BY <1>2, Ready DEF Top
  <2>2. QED
    BY <1>1, <2>1
<1>6. /\ \A i \in 1 .. b.base : i \in 1 .. Len(frames)
      /\ b.base + 1 \in 1 .. Len(frames)
  BY <1>2, <1>4
<1> HIDE DEF b, n
<1>7. /\ \A i \in 1 .. b.base : frames'[i].breakBlock = frames[i].breakBlock
      /\ \A i \in 1 .. b.base : frames'[i].insertBlock = frames[i].insertBlock
      /\ frames'[b.base + 1].breakBlock = frames[b.base + 1].breakBlock
      /\ frames'[b.base + 1].insertBlock = frames[b.base + 1].insertBlock
  BY <1>3, <1>6 DEF SameBlocks
<1>8. cursor' = Block(frames')
  <2>1. Block(frames') = frames'[b.base + 1].insertBlock
        /\ Block(frames) = frames[b.base + 1].insertBlock
    BY <1>3, <1>4, BlockAt
  <2>2. QED
    BY <1>1, <1>4, <1>7, <2>1
<1>9. /\ code' \in Code(n) /\ Len(code') = n /\ Len(frames') = b.base + Held(b)
      /\ result' \in Symbol /\ UNCHANGED <<status, owner>>
  BY <1>1, <1>2, <1>3, <1>4 DEF IInv, TypeOK
<1>10. b.kind = Top(visits).kind /\ b.base = Top(visits).base
  BY DEF b
<1>11. QED
  BY <1>2, <1>3, <1>4, <1>5, <1>7, <1>8, <1>9, <1>10, AdvanceStep DEF n

LEMMA FunBodyStep ==
  ASSUME IInv, FunBody
  PROVE  IInv'
<1> DEFINE n == Len(owner)
           b == [Top(visits) EXCEPT !.at = "list"]
<1>1. /\ At("fun", "decls")
      /\ visits' = [visits EXCEPT ![Len(visits)].at = "list"]
      /\ UNCHANGED <<status, frames, cursor, owner, code, storage, result>>
  BY DEF FunBody
<1>2. status = "running" /\ visits # <<>> /\ Top(visits).kind = "fun"
  BY <1>1, AtTop
<1>3. Top(visits) \in Activation(n) /\ HasLocals(Top(visits)) /\ Held(Top(visits)) = 1
  BY <1>2, Ready DEF Held
<1>4. /\ b \in Activation(n) /\ HasLocals(b) /\ Held(b) = 1
      /\ b.kind = Top(visits).kind /\ b.base = Top(visits).base
  BY <1>2, <1>3 DEF Activation, HasLocals, Held
<1>5. visits' = [visits EXCEPT ![Len(visits)] = b]
  BY <1>1 DEF Top
<1>6. /\ frames' \in Seq(Frame(n)) /\ Len(frames') = b.base + Held(b)
      /\ code' \in Code(n) /\ Len(code') = n /\ cursor' = Block(frames')
  <2>1. /\ frames \in Seq(Frame(n)) /\ Len(frames) = Top(visits).base + Held(Top(visits))
        /\ code \in Code(n) /\ Len(code) = n /\ cursor = Block(frames)
    BY <1>2, Ready
  <2> HIDE DEF b
  <2>2. QED
    BY <1>1, <1>3, <1>4, <2>1
<1>7. /\ storage' \in Nat /\ result' \in Symbol /\ UNCHANGED <<status, owner>>
      /\ frames' = frames
  BY <1>1 DEF IInv, TypeOK
<1> HIDE DEF b, n
<1>8. QED
  BY <1>2, <1>4, <1>5, <1>6, <1>7, AdvanceStep DEF n

\* The frame of the then branch makes way for that of the else branch.
LEMMA ElseBranchStep ==
  ASSUME IInv, ElseBranch
  PROVE  IInv'
<1> DEFINE n == Len(owner)
           v == Top(visits)
           b == [v EXCEPT !.at = "body", !.alt = NoBlock]
           s == Pop(frames)
<1>1. /\ At("if", "after") /\ v.alt # NoBlock
      /\ code' = Fall(v.exit)
      /\ frames' = Push(s, v.alt, NoBlock, NoBlock)
      /\ visits' = [visits EXCEPT ![Len(visits)].at = "body", ![Len(visits)].alt = NoBlock]
      /\ cursor' = v.alt
      /\ UNCHANGED <<status, owner, storage, result>>
  BY DEF ElseBranch, StartAt
<1>2. /\ status = "running" /\ visits # <<>> /\ v.kind = "if"
      /\ n \in Nat /\ frames \in Seq(Frame(n)) /\ v.base \in Nat
      /\ Held(v) = 1 /\ v.exit # NoBlock
  BY <1>1, AtTop DEF Held, HasLocals
<1>3. /\ Len(frames) = v.base + 1 /\ v.alt \in 1 .. n /\ v.exit \in 1 .. n
      /\ NoBlock \in 0 .. n
  BY <1>1, <1>2, AtTop DEF NoBlock
<1>4. code' \in Code(n) /\ Len(code') = n
  BY <1>1, <1>3, AtTop, FallType
<1>5. v \in Activation(n) /\ HasLocals(v)
  BY <1>2, Ready
<1>6. visits' = [visits EXCEPT ![Len(visits)] = b]
  <2>1. visits \in Seq(Activation(n)) /\ Len(visits) \in DOMAIN visits
    BY <1>2, Ready, ActivationAt
  <2>2. QED
    BY <1>1, <2>1 DEF Top
<1> HIDE DEF v, n, s
<1>7. /\ b \in Activation(n) /\ HasLocals(b) /\ Held(b) = 1
      /\ b.kind = v.kind /\ b.base = v.base
  BY <1>2, <1>3, <1>5 DEF Activation, HasLocals, Held, Loops
<1>8. frames # <<>> /\ Len(frames) - 1 = v.base
  BY <1>2, <1>3, EmptySeq
<1>9. s \in Seq(Frame(n)) /\ Len(s) = v.base /\ \A i \in 1 .. v.base : s[i] = frames[i]
  BY <1>2, <1>8, PopProperties DEF s
<1>10. Onto(frames', s, 1, v.alt, n)
  BY <1>1, <1>2, <1>3, <1>9, PushOnto
<1> HIDE DEF b
<1>11. /\ frames' \in Seq(Frame(n)) /\ Len(frames') = b.base + Held(b)
       /\ \A i \in 1 .. b.base : frames'[i] = frames[i]
       /\ cursor' = Block(frames')
  BY <1>1, <1>7, <1>9, <1>10 DEF Onto
<1>12. storage' \in Nat /\ result' \in Symbol
  BY <1>1 DEF IInv, TypeOK
<1>13. b.kind # "fun"
  BY <1>2, <1>7
<1>14. QED
  BY <1>1, <1>2, <1>4, <1>6, <1>7, <1>11, <1>12, <1>13, AdvanceStep DEF n, v

\* The frames of the condition and of the body go on top of the variables'.
LEMMA ForConditionStep ==
  ASSUME IInv, ForCondition
  PROVE  IInv'
<1> DEFINE n == Len(owner)
           v == Top(visits)
           b == [v EXCEPT !.at = "body"]
<1>1. /\ At("for", "decls")
      /\ code' = Terminate(Terminate(code, cursor, {v.cond}), v.cond, {v.loop, v.exit})
      /\ frames' = Push(Push(frames, v.cond, NoBlock, NoBlock), v.loop, NoBlock, NoBlock)
      /\ visits' = [visits EXCEPT ![Len(visits)].at = "body"]
      /\ cursor' = v.loop
      /\ UNCHANGED <<status, owner, storage, result>>
  BY DEF ForCondition, StartAt
<1>2. /\ status = "running" /\ visits # <<>> /\ v.kind = "for" /\ v.at = "decls"
      /\ n \in Nat /\ frames \in Seq(Frame(n)) /\ v.base \in Nat
      /\ Held(v) = 1 /\ v.exit # NoBlock /\ v.cond # NoBlock /\ v.loop # NoBlock
  BY <1>1, AtTop DEF Held, HasLocals, Loops
<1>3. /\ Len(frames) = v.base + 1 /\ v.cond \in 1 .. n /\ v.loop \in 1 .. n
      /\ v.exit \in 1 .. n /\ NoBlock \in 0 .. n
  BY <1>1, <1>2, AtTop DEF NoBlock
<1>4. code' \in Code(n) /\ Len(code') = n
  <2> DEFINE c == Terminate(code, cursor, {v.cond})
  <2>1. {v.cond} \in SUBSET (1 .. n) /\ {v.loop, v.exit} \in SUBSET (1 .. n)
    BY <1>3
  <2>2. c \in Code(n) /\ Len(c) = n
    BY <1>1, <2>1, AtTop, TerminateType
  <2>3. code' = Terminate(c, v.cond, {v.loop, v.exit})
    BY <1>1
  <2> HIDE DEF c
  <2>4. QED
    BY <1>2, <2>1, <2>2, <2>3, TerminateType
<1>5. v \in Activation(n) /\ HasLocals(v)
  BY <1>2, Ready
<1>6. visits' = [visits EXCEPT ![Len(visits)] = b]
  BY <1>1 DEF Top
<1> HIDE DEF v, n
<1>7. /\ b \in Activation(n) /\ HasLocals(b) /\ Held(b) = 3
      /\ b.kind = v.kind /\ b.base = v.base
  BY <1>2, <1>3, <1>5 DEF Activation, HasLocals, Held, Loops
<1>8. Onto(frames', frames, 2, v.loop, n)
  BY <1>1, <1>2, <1>3, PushTwice
<1> HIDE DEF b
<1>9. /\ frames' \in Seq(Frame(n)) /\ Len(frames') = Len(frames) + 2
      /\ \A i \in 1 .. Len(frames) : frames'[i] = frames[i]
      /\ cursor' = Block(frames')
  BY <1>1, <1>8 DEF Onto
<1>10. Len(frames') = b.base + Held(b) /\ \A i \in 1 .. b.base : frames'[i] = frames[i]
  BY <1>2, <1>3, <1>7, <1>9
<1>11. storage' \in Nat /\ result' \in Symbol
  BY <1>1 DEF IInv, TypeOK
<1>12. b.kind # "fun"
  BY <1>2, <1>7
<1>13. QED
  BY <1>1, <1>2, <1>4, <1>6, <1>7, <1>9, <1>10, <1>11, <1>12, AdvanceStep DEF n, v

-----------------------------------------------------------------------------
(* The theorems.                                                           *)

LEMMA ThrowStep ==
  ASSUME IInv, Throw
  PROVE  IInv'
BY DEF Throw, IInv, TypeOK, CursorSync, Blocks

LEMMA StutterStep ==
  ASSUME IInv, UNCHANGED vars
  PROVE  IInv'
<1>1. UNCHANGED <<status, visits, frames, cursor, owner, code, storage, result>>
  BY DEF vars
<1>2. QED
  BY <1>1 DEF IInv, TypeOK, CursorSync, Blocks

\* The generator starts with no frame, no block and no visit under way.
LEMMA InitIInv ==
  ASSUME Init
  PROVE  IInv
<1>1. /\ status = "running" /\ visits = <<>> /\ frames = <<>> /\ cursor = NoBlock
      /\ owner = <<>> /\ code = <<>> /\ storage = 0 /\ result = NoSymbol
  BY DEF Init
<1>2. /\ Len(owner) = 0
      /\ visits \in Seq(Activation(Len(owner))) /\ frames \in Seq(Frame(Len(owner)))
      /\ owner \in Seq(1 .. Len(owner)) /\ code \in Seq(Seq(SUBSET (1 .. Len(owner))))
      /\ Len(code) = Len(owner)
  BY <1>1, EmptySeq
<1>3. result \in Symbol
  BY <1>1 DEF NoSymbol, NoStorage, Symbol
<1>4. TypeOK
  BY <1>1, <1>2, <1>3 DEF TypeOK, Blocks
<1>5. Discipline(visits, frames)
  BY <1>1, EmptySeq DEF Discipline, Balanced, TreeFirst, Nested, FunReturns, LocalsSet
<1>6. QED
  BY <1>1, <1>4, <1>5 DEF IInv, CursorSync

\* No action of the generator breaks the discipline of the stack.
LEMMA NextIInv ==
  ASSUME IInv, [Next]_vars
  PROVE  IInv'
<1>1. CASE Simples
  <2>1. CASE \E n \in Names, isRef, isPointer \in BOOLEAN, init \in Names \cup {NoName} :
               DeclVar(n, isRef, init, isPointer)
    BY <2>1, DeclVarStep
  <2>2. CASE \E n \in Names \cup {NoName} : StmtExpr(n)
    BY <2>2, StmtExprStep
  <2>3. CASE StmtBreak \/ StmtCont \/ StmtReturn
    BY <2>3, JumpStep
  <2>4. CASE SwitchNoDefault
    BY <2>4, SwitchNoDefaultStep
  <2>5. QED
    BY <1>1, <2>1, <2>2, <2>3, <2>4 DEF Simples
<1>2. CASE Opens
  <2>1. CASE OpenScope \/ OpenLabel
    BY <2>1, OpenRegionStep DEF OpenScope, OpenLabel
  <2>2. QED
    BY <1>2, <2>1, OpenTreeStep, OpenFunStep, OpenSwitchStep, OpenWhileStep,
       OpenDoStep, OpenForStep, OpenUseStep, OpenIfStep DEF Opens
<1>3. CASE Continues
  BY <1>3, FunArgumentStep, FunBodyStep, ElseBranchStep, ForConditionStep DEF Continues
<1>4. CASE Closes
  <2>1. CASE CloseScope \/ CloseLabel
    BY <2>1, CloseRegionStep DEF CloseScope, CloseLabel
  <2>2. QED
    BY <1>4, <2>1, CloseTreeStep, CloseFunStep, CloseSwitchStep, CloseWhileStep,
       CloseDoStep, CloseForStep, CloseUseStep, CloseIfStep DEF Closes
<1>5. CASE Throws
  <2>1. Throw
    BY <1>5 DEF Throws, DeclVarThrows, StmtExprThrows, JumpThrows, UseThrows
  <2>2. QED
    BY <2>1, ThrowStep
<1>6. CASE Finished
  BY <1>6, StutterStep DEF Finished
<1>7. CASE UNCHANGED vars
  BY <1>7, StutterStep
<1>8. QED
  BY <1>1, <1>2, <1>3, <1>4, <1>5, <1>6, <1>7 DEF Next

\* The discipline of the scope stack holds at every step of every visit.
THEOREM Invariance == Spec => []IInv
<1>1. Init => IInv
  BY InitIInv
<1>2. IInv /\ [Next]_vars => IInv'
  BY NextIInv
<1>3. QED
  BY <1>1, <1>2, PTL DEF Spec

\* Every block a frame, a waiting handler, a terminator or the builder names is
\* one that was created, whatever is visited (TypeOK).
THEOREM TypeCorrect == Spec => []TypeOK
<1>1. IInv => TypeOK
  BY DEF IInv
<1>2. QED
  BY <1>1, Invariance, PTL

\* Every handler leaves the scope stack as deep as it found it, and nothing is
\* left on it when the tree's visit is over: no Pop meets an empty stack
\* (stack.cpp:56).
THEOREM StackBalanced == Spec => []FrameBalance
<1>1. IInv => FrameBalance
  BY DEF IInv, FrameBalance, Discipline
<1>2. QED
  BY <1>1, Invariance, PTL

\* Wherever a statement or the rest of a handler starts, the builder appends to
\* the block of the frame on top: the block a handler asks for its terminator is
\* the one it appends to.
THEOREM InsertPoint == Spec => []CursorSync
<1>1. IInv => CursorSync
  BY DEF IInv
<1>2. QED
  BY <1>1, Invariance, PTL
=============================================================================
