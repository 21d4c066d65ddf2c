--------------------------- MODULE CodegenTargets ---------------------------
(***************************************************************************)
(* Where break and continue lead, and into which function code goes, for   *)
(* every program and every bound: theorems about the blocks the frames and *)
(* the waiting handlers name.                                              *)
(***************************************************************************)
EXTENDS CodegenInvariant

-----------------------------------------------------------------------------
(* The inductive invariant.                                                *)

Breakables == Loops \cup {"switch"}

\* The blocks a waiting handler will go back to.
Locals(a) == {a.exit, a.cond, a.loop, a.alt} \ {NoBlock}

\* The chain of inheritance that Push makes, one link from the frame a handler
\* found on top of the stack to the one it leaves on top.  Where break and
\* continue lead:
Inherits(a, top, below) ==
  /\ a.kind = "tree" => /\ top.breakBlock = NoBlock
                        /\ top.conditionBlock = NoBlock
  /\ a.kind \in Breakables => top.breakBlock = a.exit
  /\ a.kind \notin Breakables \cup {"fun", "tree"} => top.breakBlock = below.breakBlock
  /\ a.kind = "for" => top.conditionBlock = a.alt
  /\ a.kind \in {"while", "do"} => top.conditionBlock = a.cond
  /\ a.kind \notin Loops \cup {"tree"} => top.conditionBlock = below.conditionBlock

\* The function the blocks belong to, whose owners o are; none is its entry.
Within(a, top, below, o) ==
  a.kind \notin {"fun", "tree"} =>
    /\ o[top.insertBlock] = o[below.insertBlock]
    /\ \A b \in Locals(a) : o[b] = o[below.insertBlock] /\ o[b] # b

Chain(a, f, o) ==
  LET below == f[a.base]
      top   == f[a.base + Held(a)]
  IN  Inherits(a, top, below) /\ Within(a, top, below, o)

Chains(v, f, o) == \A i \in DOMAIN v : Chain(v[i], f, o)

Chained == status = "running" => Chains(visits, frames, owner)

-----------------------------------------------------------------------------
(* The chain under the operations of the stack.                            *)

SameJumps(e, f) ==
  /\ e.breakBlock = f.breakBlock
  /\ e.conditionBlock = f.conditionBlock

\* The same handler, perhaps in another phase.
SameVisit(a, b) ==
  /\ a.kind = b.kind /\ a.base = b.base /\ Held(a) = Held(b)
  /\ a.exit = b.exit /\ a.cond = b.cond /\ a.loop = b.loop /\ a.alt = b.alt

\* The first d frames of g, under the owners p, are what those of f were.
Alike(g, p, f, o, d) ==
  \A j \in 1 .. d : SameJumps(g[j], f[j]) /\ p[g[j].insertBlock] = o[f[j].insertBlock]

\* Join keeps the blocks that break and continue lead to.
LEMMA JoinKeeps ==
  ASSUME NEW n \in Nat, NEW s \in Seq(Frame(n)), s # <<>>, NEW block \in 1 .. n
  PROVE  \A i \in 1 .. Len(s) : SameJumps(Join(s, block)[i], s[i])
<1>1. Len(s) \in 1 .. Len(s) /\ s[Len(s)] \in Frame(n)
  OBVIOUS
<1>2. Join(s, block)[Len(s)].conditionBlock = s[Len(s)].conditionBlock
  <2> DEFINE f == [s[Len(s)] EXCEPT !.insertBlock = block]
  <2>1. f \in Frame(n) /\ f.conditionBlock = s[Len(s)].conditionBlock
    BY <1>1 DEF Frame
  <2>2. Join(s, block) = [s EXCEPT ![Len(s)] = f]
    BY DEF Join
  <2> HIDE DEF f
  <2>3. QED
    BY <1>1, <2>1, <2>2, ExceptSeq
<1>3. /\ \A i \in 1 .. Len(s) - 1 : Join(s, block)[i] = s[i]
      /\ Join(s, block)[Len(s)].breakBlock = s[Len(s)].breakBlock
  BY JoinProperties
<1>4. \A i \in 1 .. Len(s) : i \in 1 .. Len(s) - 1 \/ i = Len(s)
  BY <1>1
<1>5. QED
  BY <1>2, <1>3, <1>4 DEF SameJumps

\* A link stays when the two frames it is between do.
LEMMA ChainKept ==
  ASSUME NEW n \in Nat, NEW a \in Activation(n), NEW b, SameVisit(b, a),
         NEW f, NEW o, NEW g, NEW p, NEW d,
         a.kind # "tree" => a.base \in 1 .. d,
         a.base + Held(a) \in 1 .. d,
         Alike(g, p, f, o, d),
         \A c \in 1 .. n : p[c] = o[c],
         Chain(a, f, o)
  PROVE  Chain(b, g, p)
<1>1. /\ SameJumps(g[a.base + Held(a)], f[a.base + Held(a)])
      /\ p[g[a.base + Held(a)].insertBlock] = o[f[a.base + Held(a)].insertBlock]
      /\ a.kind # "tree" =>
           /\ SameJumps(g[a.base], f[a.base])
           /\ p[g[a.base].insertBlock] = o[f[a.base].insertBlock]
  BY DEF Alike
<1>2. Locals(a) \subseteq 1 .. n /\ Locals(b) = Locals(a)
  BY DEF Locals, Activation, SameVisit, NoBlock
<1>3. \A c \in Locals(a) : p[c] = o[c]
  BY <1>2
<1>4. QED
  BY <1>1, <1>2, <1>3 DEF Chain, Inherits, Within, SameVisit, SameJumps

\* So do the links of the first m handlers, whose frames are the first d.
LEMMA ChainsKept ==
  ASSUME NEW n \in Nat, NEW v \in Seq(Activation(n)), NEW f,
         TreeFirst(v), Nested(v), NEW o, Chains(v, f, o),
         NEW m \in 0 .. Len(v), NEW w, \A i \in 1 .. m : SameVisit(w[i], v[i]),
         NEW g, NEW p, NEW d \in Nat,
         \A i \in 1 .. m : v[i].base + Held(v[i]) <= d,
         Alike(g, p, f, o, d),
         \A c \in 1 .. n : p[c] = o[c]
  PROVE  \A i \in 1 .. m : Chain(w[i], g, p)
<1> TAKE i \in 1 .. m
<1>1. DOMAIN v = 1 .. Len(v) /\ Len(v) \in Nat /\ i \in 1 .. Len(v)
  BY ActivationAt
<1> DEFINE a == v[i]
<1>2. /\ a \in Activation(n) /\ a.base \in Nat /\ Held(a) \in 0 .. 3
      /\ a.kind # "use" => Held(a) >= 1
  BY <1>1, ActivationAt
<1>3. a.kind # "tree" => a.base >= 1
  BY <1>1 DEF TreeFirst, Nested
<1>4. a.base + Held(a) <= d /\ SameVisit(w[i], a) /\ Chain(a, f, o)
  BY <1>1 DEF Chains
<1> HIDE DEF a
<1>5. /\ a.kind # "tree" => a.base \in 1 .. d
      /\ a.base + Held(a) \in 1 .. d
  BY <1>2, <1>3, <1>4
<1>6. QED
  BY <1>2, <1>4, <1>5, ChainKept

LEMMA SameVisitItself == \A a : SameVisit(a, a)
BY DEF SameVisit

\* Going on after a nested statement is no change to the handlers.
LEMMA ReturnedSame ==
  ASSUME NEW n \in Nat, NEW v \in Seq(Activation(n)), v # <<>>
  PROVE  /\ Len(Returned(v)) = Len(v)
         /\ \A i \in 1 .. Len(v) : SameVisit(Returned(v)[i], v[i])
<1> DEFINE k == Len(v)
           b == [v[k] EXCEPT !.at = "after"]
<1>1. k \in 1 .. Len(v) /\ v[k] \in Activation(n) /\ DOMAIN v = 1 .. Len(v)
  BY ActivationAt
<1>2. CASE v[k].at = "body"
  <2>1. SameVisit(b, v[k]) /\ b \in Activation(n)
    BY <1>1, <1>2 DEF SameVisit, Held, Activation
  <2>2. Returned(v) = [v EXCEPT ![k] = b]
    BY <1>2 DEF Returned, Top
  <2> HIDE DEF b, k
  <2>3. /\ Len(Returned(v)) = Len(v) /\ Returned(v)[k] = b
        /\ \A i \in 1 .. Len(v) : i # k => Returned(v)[i] = v[i]
    BY <1>1, <2>1, <2>2, ExceptSeq
  <2>4. QED
    BY <2>1, <2>3, SameVisitItself
<1>3. CASE v[k].at # "body"
  BY <1>3, SameVisitItself DEF Returned, Top
<1>4. QED
  BY <1>2, <1>3

LEMMA BeforeLast == \A k \in Nat : \A i \in 1 .. k : i # k => i \in 1 .. k - 1 /\ k \in 1 .. k
OBVIOUS

LEMMA OneLess ==
  \A k \in Nat : k >= 1 /\ k # 1 => k - 1 \in 0 .. k /\ k - 1 \in Nat /\ k - 1 >= 1
OBVIOUS

\* The frames of every handler are on the stack, and those of all but the last
\* below where the last one started.
LEMMA Depths ==
  ASSUME NEW n \in Nat, NEW v \in Seq(Activation(n)), NEW f \in Seq(Frame(n)),
         v # <<>>, Discipline(v, f)
  PROVE  /\ \A i \in 1 .. Len(v) : v[i].base + Held(v[i]) <= Len(f)
         /\ \A i \in 1 .. Len(v) - 1 : v[i].base + Held(v[i]) <= Top(v).base
<1>1. Len(v) \in Nat /\ Len(v) >= 1 /\ DOMAIN v = 1 .. Len(v)
  BY ActivationAt
<1>2. Top(v) = v[Len(v)] /\ Len(f) = Top(v).base + Held(Top(v))
  BY DisciplineAt
<1>3. \A i \in 1 .. Len(v) : v[i].base \in Nat /\ Held(v[i]) \in 0 .. 3
  BY ActivationAt
<1>4. ASSUME NEW i \in 1 .. Len(v) - 1
      PROVE  v[i].base + Held(v[i]) <= Top(v).base
  <2>1. i \in 1 .. Len(v) /\ Len(v) \in 1 .. Len(v) /\ i < Len(v)
    BY <1>1
  <2>2. QED
    BY <2>1, <1>1, <1>2 DEF Discipline, Nested
<1>5. ASSUME NEW i \in 1 .. Len(v)
      PROVE  v[i].base + Held(v[i]) <= Len(f)
  <2>1. CASE i = Len(v)
    BY <2>1, <1>2, <1>3, <1>1
  <2>2. CASE i # Len(v)
    <3>1. i \in 1 .. Len(v) - 1 /\ Len(v) \in 1 .. Len(v)
      BY <2>2, <1>1, BeforeLast
    <3>2. v[i].base + Held(v[i]) <= Top(v).base
      BY <3>1, <1>4
    <3>3. Top(v).base \in Nat /\ Held(Top(v)) \in 0 .. 3
      BY <3>1, <1>2, <1>3
    <3>4. QED
      BY <3>2, <3>3, <1>2, <1>3, SMTT(40)
  <2>3. QED
    BY <2>1, <2>2
<1>6. QED
  BY <1>4, <1>5

-----------------------------------------------------------------------------
(* Steps of the generator, by what they do to the visits.                  *)

OwnersKept == \A c \in 1 .. Len(owner) : owner'[c] = owner[c]

\* The handlers are the same ones, and so are their frames.
LEMMA StayChained ==
  ASSUME IInv, status = "running", visits # <<>>, Chains(visits, frames, owner),
         Len(visits') = Len(visits), DOMAIN visits' = 1 .. Len(visits'),
         \A i \in 1 .. Len(visits) : SameVisit(visits'[i], visits[i]),
         Alike(frames', owner', frames, owner, Len(frames)), OwnersKept
  PROVE  Chains(visits', frames', owner')
<1>1. /\ Len(owner) \in Nat /\ visits \in Seq(Activation(Len(owner)))
      /\ frames \in Seq(Frame(Len(owner))) /\ Len(frames) \in Nat
      /\ Discipline(visits, frames)
  BY Ready
<1>2. \A i \in 1 .. Len(visits) : visits[i].base + Held(visits[i]) <= Len(frames)
  BY <1>1, Depths
<1>3. TreeFirst(visits) /\ Nested(visits) /\ Len(visits) \in 0 .. Len(visits)
  BY <1>1, ActivationAt DEF Discipline
<1>4. \A i \in 1 .. Len(visits) : Chain(visits'[i], frames', owner')
  BY <1>1, <1>2, <1>3, ChainsKept DEF OwnersKept
<1>5. QED
  BY <1>4 DEF Chains

\* A handler nests a visit.
LEMMA NestChained ==
  ASSUME IInv, status = "running", visits # <<>>, Chains(visits, frames, owner),
         NEW a, visits' = Append(visits, a),
         Alike(frames', owner', frames, owner, Len(frames)), OwnersKept,
         Chain(a, frames', owner')
  PROVE  Chains(visits', frames', owner')
<1> DEFINE k == Len(visits)
<1>1. /\ Len(owner) \in Nat /\ visits \in Seq(Activation(Len(owner)))
      /\ frames \in Seq(Frame(Len(owner))) /\ Len(frames) \in Nat
      /\ Discipline(visits, frames)
  BY Ready
<1>2. \A i \in 1 .. k : visits[i].base + Held(visits[i]) <= Len(frames)
  BY <1>1, Depths
<1>3. TreeFirst(visits) /\ Nested(visits) /\ k \in 0 .. k /\ k \in Nat
  BY <1>1, ActivationAt DEF Discipline
<1>4. /\ \A i \in 1 .. k : visits'[i] = visits[i]
      /\ visits'[k + 1] = a /\ DOMAIN visits' = 1 .. k + 1
  BY <1>1
<1>5. \A i \in 1 .. k : SameVisit(visits'[i], visits[i])
  BY <1>4, SameVisitItself
<1>6. \A i \in 1 .. k : Chain(visits'[i], frames', owner')
  BY <1>1, <1>2, <1>3, <1>5, ChainsKept DEF OwnersKept
<1> HIDE DEF k
<1>7. \A i \in 1 .. k + 1 : i \in 1 .. k \/ i = k + 1
  BY <1>3
<1>8. QED
  BY <1>4, <1>6, <1>7 DEF Chains

\* A handler goes on to its next phase.
LEMMA AdvanceChained ==
  ASSUME IInv, status = "running", visits # <<>>, Chains(visits, frames, owner),
         NEW b, visits' = [visits EXCEPT ![Len(visits)] = b],
         Alike(frames', owner', frames, owner, Top(visits).base), OwnersKept,
         Chain(b, frames', owner')
  PROVE  Chains(visits', frames', owner')
<1> DEFINE k == Len(visits) - 1
           d == Top(visits).base
<1>1. /\ Len(owner) \in Nat /\ visits \in Seq(Activation(Len(owner)))
      /\ frames \in Seq(Frame(Len(owner))) /\ Len(frames) \in Nat
      /\ Discipline(visits, frames) /\ Top(visits) \in Activation(Len(owner))
  BY Ready
<1>2. \A i \in 1 .. k : visits[i].base + Held(visits[i]) <= d
  BY <1>1, Depths
<1>3. Len(visits) = k + 1 /\ k \in Nat /\ k \in 0 .. Len(visits)
  BY <1>1, ActivationAt
<1>4. d \in Nat
  BY <1>1 DEF Activation
<1> HIDE DEF k
<1>5. /\ \A i \in 1 .. k : visits'[i] = visits[i]
      /\ visits'[k + 1] = b /\ DOMAIN visits' = 1 .. k + 1
  <2>1. DOMAIN visits = 1 .. k + 1 /\ \A i \in 1 .. k : i # k + 1 /\ i \in 1 .. k + 1
    BY <1>1, <1>3, ActivationAt
  <2>2. visits' = [visits EXCEPT ![k + 1] = b] /\ k + 1 \in 1 .. k + 1
    BY <1>3
  <2> QED
    BY <2>1, <2>2
<1>6. \A i \in 1 .. k : SameVisit(visits'[i], visits[i])
  BY <1>5, SameVisitItself
<1> HIDE DEF d
<1>7. \A i \in 1 .. k : Chain(visits'[i], frames', owner')
  <2>1. k \in 0 .. Len(visits) /\ TreeFirst(visits) /\ Nested(visits)
    BY <1>1, <1>3 DEF Discipline
  <2>2. /\ Alike(frames', owner', frames, owner, d)
        /\ \A c \in 1 .. Len(owner) : owner'[c] = owner[c]
    BY DEF OwnersKept, d
  <2>3. Len(owner) \in Nat /\ visits \in Seq(Activation(Len(owner)))
    BY <1>1
  <2>4. QED
    BY ONLY <2>1, <2>2, <2>3, <1>2, <1>4, <1>6, Chains(visits, frames, owner), ChainsKept
<1>8. \A i \in 1 .. k + 1 : i \in 1 .. k \/ i = k + 1
  BY <1>3
<1>9. QED
  BY <1>5, <1>7, <1>8 DEF Chains

\* A handler returns.
LEMMA LeaveChained ==
  ASSUME IInv, status = "running", visits # <<>>, Chains(visits, frames, owner),
         Top(visits).kind # "tree", Leave,
         Alike(frames', owner', frames, owner, Top(visits).base), OwnersKept
  PROVE  Chains(visits', frames', owner')
<1> DEFINE k == Len(visits) - 1
           d == Top(visits).base
           w == Rest(visits)
<1>1. /\ Len(owner) \in Nat /\ visits \in Seq(Activation(Len(owner)))
      /\ frames \in Seq(Frame(Len(owner))) /\ Len(frames) \in Nat
      /\ Discipline(visits, frames) /\ Top(visits) \in Activation(Len(owner))
  BY Ready
<1>2. \A i \in 1 .. k : visits[i].base + Held(visits[i]) <= d
  BY <1>1, Depths
<1>3. /\ TreeFirst(visits) /\ Nested(visits) /\ k \in 0 .. Len(visits) /\ k \in Nat
      /\ k >= 1
  <2>1. Len(visits) \in Nat /\ Len(visits) >= 1
    BY <1>1, ActivationAt
  <2>2. Len(visits) # 1
    BY <1>1, DisciplineAt
  <2>3. TreeFirst(visits) /\ Nested(visits)
    BY <1>1 DEF Discipline
  <2>4. QED
    BY <2>1, <2>2, <2>3, OneLess
<1>4. d \in Nat
  BY <1>1 DEF Activation
<1>5. w \in Seq(Activation(Len(owner))) /\ Len(w) = k /\ \A i \in 1 .. k : w[i] = visits[i]
  BY <1>1, PopProperties DEF Pop
<1> HIDE DEF w, k
<1>6. w # <<>>
  BY <1>3, <1>5, EmptySeq
<1>7. Len(Returned(w)) = k /\ \A i \in 1 .. k : SameVisit(Returned(w)[i], visits[i])
  BY <1>1, <1>5, <1>6, ReturnedSame
<1>8. visits' = Returned(w)
  BY DEF Leave, w
<1>9. DOMAIN visits' = 1 .. k
  <2>1. DOMAIN w = 1 .. k
    BY <1>5, LenProperties
  <2>2. QED
    BY <1>8, <2>1 DEF Returned
<1>10. \A i \in 1 .. k : Chain(visits'[i], frames', owner')
  BY <1>1, <1>2, <1>3, <1>4, <1>7, <1>8, ChainsKept, SMTT(40) DEF OwnersKept
<1>11. QED
  BY <1>9, <1>10 DEF Chains

\* New blocks belong to the function of the current block, and are not its entry.
LEMMA NewOwners ==
  ASSUME IInv, status = "running", visits # <<>>, NEW k \in Nat, AddBlocks(k)
  PROVE  /\ OwnersKept
         /\ \A i \in 1 .. k : /\ owner'[New(i)] = owner[Block(frames)]
                              /\ owner'[New(i)] # New(i)
<1> DEFINE new == [i \in 1 .. k |-> owner[Block(frames)]]
<1>1. owner \in Seq(1 .. Len(owner)) /\ Block(frames) \in 1 .. Len(owner) /\ Len(owner) \in Nat
  BY Ready
<1>2. owner[Block(frames)] \in 1 .. Len(owner)
  BY <1>1, ElementOfSeq
<1>3. /\ new \in Seq(1 .. Len(owner)) /\ Len(new) = k
      /\ \A i \in 1 .. k : new[i] = owner[Block(frames)]
  BY <1>2, IsASeq
<1>4. owner' = owner \o new
  BY DEF AddBlocks
<1> HIDE DEF new
<1>5. /\ \A i \in 1 .. Len(owner) : owner'[i] = owner[i]
      /\ \A i \in 1 .. k : owner'[Len(owner) + i] = new[i]
  BY <1>1, <1>3, <1>4, ConcatProperties, SMTT(40)
<1>6. \A i \in 1 .. k : owner'[New(i)] = owner[Block(frames)]
  BY <1>3, <1>5 DEF New
<1>7. \A i \in 1 .. k : owner[Block(frames)] # New(i)
  BY <1>1, <1>2 DEF New
<1>8. QED
  BY <1>5, <1>6, <1>7 DEF OwnersKept

\* Frames whose blocks are left alone are alike.
LEMMA AlikeFrames ==
  ASSUME IInv, status = "running", visits # <<>>, OwnersKept, NEW d \in 0 .. Len(frames),
         \A i \in 1 .. d : SameBlocks(frames'[i], frames[i])
  PROVE  Alike(frames', owner', frames, owner, d)
<1> SUFFICES ASSUME NEW j \in 1 .. d
             PROVE  /\ SameJumps(frames'[j], frames[j])
                    /\ owner'[frames'[j].insertBlock] = owner[frames[j].insertBlock]
  BY DEF Alike
<1>1. frames \in Seq(Frame(Len(owner))) /\ Len(frames) \in Nat
  BY Ready
<1>2. frames[j] \in Frame(Len(owner))
  BY <1>1, ElementOfSeq
<1>3. frames[j].insertBlock \in 1 .. Len(owner)
  BY <1>2 DEF Frame
<1>4. QED
  BY <1>3 DEF SameBlocks, SameJumps, OwnersKept

LEMMA SameBlocksItself == \A f : SameBlocks(f, f)
BY DEF SameBlocks

\* A handler that creates k blocks, keeps some of them to go back to, and pushes
\* frames over what it found.
LEMMA OpenChained ==
  ASSUME IInv, Chains(visits, frames, owner), NEW k \in Nat, NEW kind,
         Visit(kind, k), AddBlocks(k),
         NEW a, a.kind \notin {"tree", "fun"}, a.base = Len(frames), Nest(a),
         Locals(a) \subseteq {New(i) : i \in 1 .. k},
         \A i \in 1 .. Len(frames) : frames'[i] = frames[i],
         NEW top, top = frames'[Len(frames) + Held(a)],
         top.insertBlock \in {New(i) : i \in 1 .. k},
         Inherits(a, top, frames[Len(frames)])
  PROVE  Chains(visits', frames', owner')
<1>1. status = "running" /\ visits # <<>>
  BY Visited
<1>2. /\ OwnersKept
      /\ \A i \in 1 .. k : /\ owner'[New(i)] = owner[Block(frames)]
                           /\ owner'[New(i)] # New(i)
  BY <1>1, NewOwners
<1>3. /\ Len(frames) \in 0 .. Len(frames) /\ Len(frames) \in 1 .. Len(frames)
      /\ Block(frames) \in 1 .. Len(owner)
      /\ Block(frames) = frames[Len(frames)].insertBlock
  BY <1>1, Ready, BlockAt, SMTT(40)
<1>4. Alike(frames', owner', frames, owner, Len(frames))
  BY <1>1, <1>2, <1>3, AlikeFrames, SameBlocksItself
<1>5. owner'[Block(frames)] = owner[Block(frames)]
  BY <1>2, <1>3 DEF OwnersKept
<1>6. Within(a, top, frames[Len(frames)], owner')
  BY <1>2, <1>3, <1>5 DEF Within
<1>7. Chain(a, frames', owner')
  BY <1>3, <1>6 DEF Chain
<1>8. visits' = Append(visits, a)
  BY DEF Nest
<1>9. QED
  BY <1>1, <1>2, <1>4, <1>7, <1>8, NestChained

-----------------------------------------------------------------------------
(* Frames on top of a stack.                                              *)

\* The top frame after one Push, and after two, on a stack that is not empty.
OnTop(t, s, k, insert, break, condition) ==
  LET top == t[Len(s) + k]
      below == s[Len(s)]
  IN  /\ \A i \in 1 .. Len(s) : t[i] = s[i]
      /\ top.insertBlock = insert
      /\ top.breakBlock = IF break = NoBlock THEN below.breakBlock ELSE break
      /\ top.conditionBlock = IF condition = NoBlock THEN below.conditionBlock
                              ELSE condition

LEMMA PushedOnce ==
  ASSUME NEW n \in Nat, NEW s \in Seq(Frame(n)), s # <<>>, NEW insert \in 1 .. n,
         NEW break \in 0 .. n, NEW condition \in 0 .. n
  PROVE  /\ Push(s, insert, break, condition) \in Seq(Frame(n))
         /\ Len(Push(s, insert, break, condition)) = Len(s) + 1
         /\ OnTop(Push(s, insert, break, condition), s, 1, insert, break, condition)
<1> DEFINE t == Push(s, insert, break, condition)
           f == [insertBlock    |-> insert,
                 breakBlock     |-> IF break = NoBlock /\ s # <<>> THEN Top(s).breakBlock
                                    ELSE break,
                 conditionBlock |-> IF condition = NoBlock /\ s # <<>>
                                    THEN Top(s).conditionBlock ELSE condition,
                 symbols        |-> NoSymbols]
<1>1. t[Len(s) + 1] = f
  <2>1. t = Append(s, f)
    BY DEF Push
  <2> HIDE DEF f, t
  <2>2. QED
    BY <2>1, AppendProperties, LenProperties
<1>2. /\ t \in Seq(Frame(n)) /\ Len(t) = Len(s) + 1
      /\ \A i \in 1 .. Len(s) : t[i] = s[i]
  BY PushProperties, ZenonT(60)
<1> HIDE DEF t
<1>3. OnTop(t, s, 1, insert, break, condition)
  BY <1>1, <1>2, s # <<>> DEF OnTop, Top
<1>4. QED
  BY <1>2, <1>3 DEF t

LEMMA PushedTwice ==
  ASSUME NEW n \in Nat, NEW s \in Seq(Frame(n)), s # <<>>,
         NEW i1 \in 1 .. n, NEW b1 \in 0 .. n, NEW i2 \in 1 .. n,
         NEW b2 \in 0 .. n, NEW c2 \in 0 .. n
  PROVE  OnTop(Push(Push(s, i1, b1, NoBlock), i2, b2, c2), s, 2, i2,
               IF b2 = NoBlock THEN b1 ELSE b2, c2)
<1> DEFINE r == Push(s, i1, b1, NoBlock)
           t == Push(r, i2, b2, c2)
<1>1. r \in Seq(Frame(n)) /\ Len(r) = Len(s) + 1 /\ OnTop(r, s, 1, i1, b1, NoBlock)
  BY PushedOnce DEF NoBlock
<1> HIDE DEF r
<1>2. r # <<>> /\ Len(s) \in Nat
  BY <1>1, EmptySeq, LenProperties
<1>3. OnTop(t, r, 1, i2, b2, c2)
  BY <1>1, <1>2, PushedOnce
<1> HIDE DEF t
<1>4. /\ Len(r) + 1 = Len(s) + 2 /\ \A i \in 1 .. Len(s) : i \in 1 .. Len(r)
  BY <1>1, <1>2
<1>5. /\ r[Len(r)].breakBlock = IF b1 = NoBlock THEN s[Len(s)].breakBlock ELSE b1
      /\ r[Len(r)].conditionBlock = s[Len(s)].conditionBlock
      /\ \A i \in 1 .. Len(s) : r[i] = s[i]
  BY <1>1 DEF OnTop
<1>6. OnTop(t, s, 2, i2, IF b2 = NoBlock THEN b1 ELSE b2, c2)
  BY <1>3, <1>4, <1>5 DEF OnTop
<1>7. QED
  BY <1>6 DEF t, r

-----------------------------------------------------------------------------
(* Handlers that open.                                                     *)

\* A handler that opens keeps the chain if the frame it leaves on top has the
\* targets of its kind.
LEMMA OpenOnTop ==
  ASSUME IInv, Chains(visits, frames, owner), NEW k \in Nat, NEW kind,
         Visit(kind, k), AddBlocks(k),
         NEW a, a.kind \notin {"tree", "fun"}, a.base = Len(frames), Nest(a),
         Locals(a) \subseteq {New(i) : i \in 1 .. k},
         NEW j \in 1 .. k, NEW break, NEW condition,
         OnTop(frames', frames, Held(a), New(j), break, condition),
         a.kind \in Breakables => break = a.exit /\ break # NoBlock,
         a.kind \notin Breakables => break = NoBlock,
         a.kind = "for" => condition = a.alt /\ condition # NoBlock,
         a.kind \in {"while", "do"} => condition = a.cond /\ condition # NoBlock,
         a.kind \notin Loops => condition = NoBlock
  PROVE  Chains(visits', frames', owner')
<1> DEFINE top == frames'[Len(frames) + Held(a)]
           below == frames[Len(frames)]
<1>1. /\ \A i \in 1 .. Len(frames) : frames'[i] = frames[i]
      /\ top.insertBlock = New(j)
      /\ top.breakBlock = IF break = NoBlock THEN below.breakBlock ELSE break
      /\ top.conditionBlock = IF condition = NoBlock THEN below.conditionBlock
                              ELSE condition
  BY DEF OnTop
<1> HIDE DEF top, below
<1>2. Inherits(a, top, below)
  BY <1>1 DEF Inherits, Breakables, Loops
<1>3. top.insertBlock \in {New(i) : i \in 1 .. k}
  BY <1>1
<1>4. QED
  BY <1>1, <1>2, <1>3, OpenChained DEF top, below

\* The stack and the blocks a handler that opens works with.
LEMMA OpenReady ==
  ASSUME IInv, NEW k \in Nat, NEW kind, Visit(kind, k), NEW n, n = Len(owner) + k
  PROVE  /\ n \in Nat /\ frames \in Seq(Frame(n)) /\ frames # <<>>
         /\ \A i \in 1 .. k : New(i) \in 1 .. n /\ New(i) \in 0 .. n /\ New(i) # NoBlock
         /\ NoBlock \in 0 .. n
<1>1. status = "running" /\ visits # <<>>
  BY Visited
<1>2. n \in Nat /\ frames \in Seq(Frame(n)) /\ frames # <<>>
  BY <1>1, Ready, NewBlocks
<1>3. \A i \in 1 .. k : New(i) \in 1 .. n /\ New(i) # NoBlock
  BY Branched
<1>4. QED
  BY <1>2, <1>3 DEF NoBlock

LEMMA RegionChained ==
  ASSUME IInv, Chains(visits, frames, owner),
         NEW kind \in {"scope", "label"}, NEW at, OpenRegion(kind, at)
  PROVE  Chains(visits', frames', owner')
<1> DEFINE a == Visiting(kind, at, New(2), NoBlock, NoBlock, NoBlock)
           n == Len(owner) + 2
<1>1. /\ Visit(kind, 2) /\ AddBlocks(2) /\ Nest(a)
      /\ frames' = Push(frames, New(1), NoBlock, NoBlock)
  BY DEF OpenRegion
<1>2. /\ n \in Nat /\ frames \in Seq(Frame(n)) /\ frames # <<>>
      /\ \A i \in 1 .. 2 : New(i) \in 1 .. n /\ New(i) # NoBlock
      /\ NoBlock \in 0 .. n
  BY <1>1, OpenReady
<1>3. a.kind = kind /\ a.base = Len(frames) /\ Held(a) = 1 /\ Locals(a) = {New(2)}
  BY <1>2 DEF Visiting, Held, Locals
<1> HIDE DEF a, n
<1>4. OnTop(frames', frames, 1, New(1), NoBlock, NoBlock)
  BY <1>1, <1>2, PushedOnce
<1>5. /\ Locals(a) \subseteq {New(i) : i \in 1 .. 2}
      /\ a.kind \notin Loops /\ a.kind \notin Breakables /\ a.kind \notin {"tree", "fun"}
  BY <1>3 DEF Loops, Breakables
<1>6. QED
  BY <1>1, <1>3, <1>4, <1>5, OpenOnTop DEF Loops

LEMMA IfChained ==
  ASSUME IInv, Chains(visits, frames, owner), NEW hasElse \in BOOLEAN, OpenIf(hasElse)
  PROVE  Chains(visits', frames', owner')
<1> DEFINE onFalse == IF hasElse THEN New(3) ELSE NoBlock
           k == IF hasElse THEN 3 ELSE 2
           a == Visiting("if", "body", New(2), NoBlock, NoBlock, onFalse)
           n == Len(owner) + k
<1>1. /\ Visit("if", k) /\ AddBlocks(k) /\ Nest(a)
      /\ frames' = Push(frames, New(1), NoBlock, NoBlock)
  BY DEF OpenIf
<1>2. k \in Nat /\ 1 \in 1 .. k /\ 2 \in 1 .. k /\ (hasElse => 3 \in 1 .. k)
  OBVIOUS
<1> HIDE DEF n
<1>3. /\ n \in Nat /\ frames \in Seq(Frame(n)) /\ frames # <<>>
      /\ \A i \in 1 .. k : New(i) \in 1 .. n /\ New(i) # NoBlock
      /\ NoBlock \in 0 .. n
  <2> HIDE DEF k
  <2>1. QED
    BY <1>1, <1>2, OpenReady DEF n
<1>4. /\ a.kind = "if" /\ a.base = Len(frames) /\ Held(a) = 1
      /\ Locals(a) \subseteq {New(2), New(3)} /\ (~ hasElse => Locals(a) \subseteq {New(2)})
  BY DEF Visiting, Held, Locals
<1> HIDE DEF a, onFalse
<1>5. OnTop(frames', frames, 1, New(1), NoBlock, NoBlock)
  <2> HIDE DEF k
  <2>1. QED
    BY <1>1, <1>2, <1>3, PushedOnce
<1>6. Locals(a) \subseteq {New(i) : i \in 1 .. k}
  BY <1>2, <1>4
<1>7. a.kind \notin Loops /\ a.kind \notin Breakables /\ a.kind \notin {"tree", "fun"}
  BY <1>4 DEF Loops, Breakables
<1> HIDE DEF k
<1>8. QED
  BY <1>1, <1>2, <1>4, <1>5, <1>6, <1>7, OpenOnTop DEF Loops

LEMMA SwitchChained ==
  ASSUME IInv, Chains(visits, frames, owner), OpenSwitch
  PROVE  Chains(visits', frames', owner')
<1> DEFINE a == Visiting("switch", "body", New(2), NoBlock, NoBlock, NoBlock)
           n == Len(owner) + 3
<1>1. /\ Visit("switch", 3) /\ AddBlocks(3) /\ Nest(a)
      /\ frames' = Push(Push(frames, New(1), New(2), NoBlock), New(3), NoBlock, NoBlock)
  BY DEF OpenSwitch
<1>2. /\ n \in Nat /\ frames \in Seq(Frame(n)) /\ frames # <<>>
      /\ \A i \in 1 .. 3 : New(i) \in 1 .. n /\ New(i) \in 0 .. n /\ New(i) # NoBlock
      /\ NoBlock \in 0 .. n
  BY <1>1, OpenReady
<1>3. /\ a.kind = "switch" /\ a.base = Len(frames) /\ Held(a) = 2
      /\ Locals(a) = {New(2)} /\ a.exit = New(2)
  BY <1>2 DEF Visiting, Held, Locals
<1> HIDE DEF a, n
<1>4. OnTop(frames', frames, 2, New(3), New(2), NoBlock)
  BY <1>1, <1>2, PushedTwice
<1>5. /\ Locals(a) \subseteq {New(i) : i \in 1 .. 3}
      /\ a.kind \notin Loops /\ a.kind \notin {"tree", "fun"}
      /\ a.kind \in Breakables
  BY <1>3 DEF Loops, Breakables
<1>6. QED
  BY <1>1, <1>2, <1>3, <1>4, <1>5, OpenOnTop DEF Loops

LEMMA WhileChained ==
  ASSUME IInv, Chains(visits, frames, owner), OpenWhile
  PROVE  Chains(visits', frames', owner')
<1> DEFINE a == Visiting("while", "body", New(3), New(1), NoBlock, NoBlock)
           n == Len(owner) + 3
<1>1. /\ Visit("while", 3) /\ AddBlocks(3) /\ Nest(a)
      /\ frames' = Push(Push(frames, New(1), NoBlock, NoBlock), New(2), New(3), New(1))
  BY DEF OpenWhile
<1>2. /\ n \in Nat /\ frames \in Seq(Frame(n)) /\ frames # <<>>
      /\ \A i \in 1 .. 3 : New(i) \in 1 .. n /\ New(i) \in 0 .. n /\ New(i) # NoBlock
      /\ NoBlock \in 0 .. n
  BY <1>1, OpenReady
<1>3. /\ a.kind = "while" /\ a.base = Len(frames) /\ Held(a) = 2
      /\ Locals(a) = {New(3), New(1)} /\ a.exit = New(3) /\ a.cond = New(1)
  BY <1>2 DEF Visiting, Held, Locals
<1> HIDE DEF a, n
<1>4. OnTop(frames', frames, 2, New(2), New(3), New(1))
  BY <1>1, <1>2, PushedTwice
<1>5. /\ Locals(a) \subseteq {New(i) : i \in 1 .. 3}
      /\ a.kind \in Loops /\ a.kind \notin {"tree", "fun"} /\ a.kind \in Breakables
  BY <1>3 DEF Loops, Breakables
<1>6. QED
  BY <1>1, <1>2, <1>3, <1>4, <1>5, OpenOnTop DEF Loops

LEMMA DoChained ==
  ASSUME IInv, Chains(visits, frames, owner), OpenDo
  PROVE  Chains(visits', frames', owner')
<1> DEFINE a == Visiting("do", "body", New(3), New(2), New(1), NoBlock)
           n == Len(owner) + 3
<1>1. /\ Visit("do", 3) /\ AddBlocks(3) /\ Nest(a)
      /\ frames' = Push(frames, New(1), New(3), New(2))
  BY DEF OpenDo
<1>2. /\ n \in Nat /\ frames \in Seq(Frame(n)) /\ frames # <<>>
      /\ \A i \in 1 .. 3 : New(i) \in 1 .. n /\ New(i) \in 0 .. n /\ New(i) # NoBlock
      /\ NoBlock \in 0 .. n
  BY <1>1, OpenReady
<1>3. /\ a.kind = "do" /\ a.base = Len(frames) /\ Held(a) = 1
      /\ Locals(a) = {New(3), New(2), New(1)} /\ a.exit = New(3) /\ a.cond = New(2)
  BY <1>2 DEF Visiting, Held, Locals
<1> HIDE DEF a, n
<1>4. OnTop(frames', frames, 1, New(1), New(3), New(2))
  BY <1>1, <1>2, PushedOnce
<1>5. /\ Locals(a) \subseteq {New(i) : i \in 1 .. 3}
      /\ a.kind \in Loops /\ a.kind \notin {"tree", "fun"} /\ a.kind \in Breakables
  BY <1>3 DEF Loops, Breakables
<1>6. QED
  BY <1>1, <1>2, <1>3, <1>4, <1>5, OpenOnTop DEF Loops

LEMMA ForChained ==
  ASSUME IInv, Chains(visits, frames, owner), OpenFor
  PROVE  Chains(visits', frames', owner')
<1> DEFINE a == Visiting("for", "decls", New(5), New(2), New(3), New(4))
           n == Len(owner) + 5
<1>1. /\ Visit("for", 5) /\ AddBlocks(5) /\ Nest(a)
      /\ frames' = Push(frames, New(1), New(5), New(4))
  BY DEF OpenFor
<1>2. /\ n \in Nat /\ frames \in Seq(Frame(n)) /\ frames # <<>>
      /\ \A i \in 1 .. 5 : New(i) \in 1 .. n /\ New(i) \in 0 .. n /\ New(i) # NoBlock
      /\ NoBlock \in 0 .. n
  BY <1>1, OpenReady
<1>3. /\ a.kind = "for" /\ a.base = Len(frames) /\ Held(a) = 1
      /\ Locals(a) = {New(5), New(2), New(3), New(4)} /\ a.exit = New(5) /\ a.alt = New(4)
  BY <1>2 DEF Visiting, Held, Locals
<1> HIDE DEF a, n
<1>4. OnTop(frames', frames, 1, New(1), New(5), New(4))
  BY <1>1, <1>2, PushedOnce
<1>5. /\ Locals(a) \subseteq {New(i) : i \in 1 .. 5}
      /\ a.kind \in Loops /\ a.kind \notin {"tree", "fun"} /\ a.kind \in Breakables
  BY <1>3 DEF Loops, Breakables
<1>6. QED
  BY <1>1, <1>2, <1>3, <1>4, <1>5, OpenOnTop, SMTT(40) DEF Loops

\* A use leaves on top the frame it found there.
LEMMA UseChained ==
  ASSUME IInv, Chains(visits, frames, owner), OpenUse
  PROVE  Chains(visits', frames', owner')
<1> DEFINE a == Waiting("use", "list")
<1>1. /\ status = "running" /\ visits # <<>> /\ visits' = Append(visits, a)
      /\ UNCHANGED <<frames, owner>>
  BY Visited DEF OpenUse, Nest
<1>2. /\ a.kind = "use" /\ a.base = Len(frames) /\ Held(a) = 0 /\ Locals(a) = {}
  BY DEF Waiting, Visiting, Held, Locals, NoBlock
<1> HIDE DEF a
<1>3. Len(frames) \in Nat /\ Len(frames) \in 0 .. Len(frames) /\ Len(frames) + 0 = Len(frames)
  BY <1>1, Ready
<1>4. OwnersKept
  BY <1>1 DEF OwnersKept
<1>5. Alike(frames', owner', frames, owner, Len(frames))
  BY <1>1, <1>3, <1>4, AlikeFrames, SameBlocksItself
<1>6. Chain(a, frames', owner')
  BY <1>2, <1>3 DEF Chain, Inherits, Within, Breakables, Loops
<1>7. QED
  BY <1>1, <1>4, <1>5, <1>6, NestChained

\* Inside a function, continue leads where it did around it, and break to the
\* block around it (FunReturns).
LEMMA FunChained ==
  ASSUME IInv, Chains(visits, frames, owner), OpenFun
  PROVE  Chains(visits', frames', owner')
<1> DEFINE a == Waiting("fun", "decls")
           n == Len(owner) + 1
<1>1. /\ Visit("fun", 1) /\ visits' = Append(visits, a)
      /\ owner' = Append(owner, New(1))
      /\ frames' = Push(frames, New(1), Block(frames), NoBlock)
  BY DEF OpenFun, Nest
<1>2. status = "running" /\ visits # <<>>
  BY <1>1, Visited
<1>3. /\ n \in Nat /\ frames \in Seq(Frame(n)) /\ frames # <<>>
      /\ \A i \in 1 .. 1 : New(i) \in 1 .. n
      /\ NoBlock \in 0 .. n /\ Block(frames) \in 0 .. n
  <2>1. Block(frames) \in 1 .. Len(owner) /\ Len(owner) \in Nat
    BY <1>2, Ready
  <2>2. Block(frames) \in 0 .. n
    BY <2>1
  <2> HIDE DEF n
  <2>3. QED
    BY <1>1, <2>2, OpenReady DEF n
<1>4. a.kind = "fun" /\ a.base = Len(frames) /\ Held(a) = 1
  BY DEF Waiting, Visiting, Held
<1> HIDE DEF a, n
<1>5. OnTop(frames', frames, 1, New(1), Block(frames), NoBlock)
  BY <1>1, <1>3, PushedOnce
<1>6. OwnersKept
  <2>1. owner \in Seq(1 .. Len(owner))
    BY <1>2, Ready
  <2>2. QED
    BY <1>1, <2>1, AppendProperties DEF OwnersKept
<1>7. Len(frames) \in Nat /\ Len(frames) >= 1
  BY <1>2, Ready
<1>8. \A i \in 1 .. Len(frames) : frames'[i] = frames[i]
  BY <1>5 DEF OnTop
<1>9. Alike(frames', owner', frames, owner, Len(frames))
  BY <1>2, <1>6, <1>7, <1>8, AlikeFrames, SameBlocksItself
<1>10. frames'[Len(frames) + 1].conditionBlock = frames[Len(frames)].conditionBlock
  BY <1>5 DEF OnTop
<1>11. Chain(a, frames', owner')
  BY <1>4, <1>7, <1>8, <1>10 DEF Chain, Inherits, Within, Breakables, Loops
<1>12. QED
  BY <1>1, <1>2, <1>6, <1>9, <1>11, NestChained

\* The tree's frame has nowhere to break or continue to.
LEMMA TreeChained ==
  ASSUME OpenTree, frames = <<>>
  PROVE  Chains(visits', frames', owner')
<1> DEFINE a == Waiting("tree", "list")
<1>1. visits' = <<a>> /\ frames' = Push(frames, 1, NoBlock, NoBlock)
  BY DEF OpenTree
<1>2. a.kind = "tree" /\ a.base = 0 /\ Held(a) = 1
  BY DEF Waiting, Visiting, Held
<1>3. DOMAIN visits' = 1 .. 1 /\ visits'[1] = a
  BY <1>1
<1>4. frames'[1].breakBlock = NoBlock /\ frames'[1].conditionBlock = NoBlock
  BY <1>1 DEF Push, NoBlock
<1> HIDE DEF a
<1>5. Chain(a, frames', owner')
  BY <1>2, <1>4 DEF Chain, Inherits, Within, Breakables, Loops
<1>6. QED
  BY <1>3, <1>5 DEF Chains

-----------------------------------------------------------------------------
(* Statements without nested visits.                                       *)

\* A statement that leaves the blocks of the frames alone.
LEMMA SimpleChained ==
  ASSUME IInv, status = "running", visits # <<>>, Chains(visits, frames, owner),
         Simple, UNCHANGED owner,
         \A i \in 1 .. Len(frames) : SameBlocks(frames'[i], frames[i])
  PROVE  Chains(visits', frames', owner')
<1>1. visits \in Seq(Activation(Len(owner))) /\ Len(owner) \in Nat /\ Len(frames) \in Nat
  BY Ready
<1>2. /\ Len(visits') = Len(visits)
      /\ \A i \in 1 .. Len(visits) : SameVisit(visits'[i], visits[i])
  BY <1>1, ReturnedSame DEF Simple
<1>3. DOMAIN visits' = 1 .. Len(visits')
  <2>1. DOMAIN visits = 1 .. Len(visits)
    BY <1>1, LenProperties
  <2>2. QED
    BY <1>2, <2>1 DEF Simple, Returned
<1>4. OwnersKept
  BY DEF OwnersKept
<1>5. Alike(frames', owner', frames, owner, Len(frames))
  BY <1>1, <1>4, AlikeFrames
<1>6. QED
  BY <1>2, <1>3, <1>4, <1>5, StayChained

LEMMA SimplesChained ==
  ASSUME IInv, Chains(visits, frames, owner), Simples, ~ SwitchNoDefault
  PROVE  Chains(visits', frames', owner')
<1>1. CASE \E n \in Names, isRef, isPointer \in BOOLEAN, init \in Names \cup {NoName} :
             DeclVar(n, isRef, init, isPointer)
  <2> PICK n \in Names, isRef \in BOOLEAN, isPointer \in BOOLEAN,
           init \in Names \cup {NoName} : DeclVar(n, isRef, init, isPointer)
    BY <1>1
  <2>1. status = "running" /\ visits # <<>> /\ Declare(n, isRef) /\ Simple /\ UNCHANGED owner
    BY DEF DeclVar, AtDeclaration, Accepts, At
  <2>2. \A i \in 1 .. Len(frames) : SameBlocks(frames'[i], frames[i])
    BY <2>1, DeclareType
  <2>3. QED
    BY <2>1, <2>2, SimpleChained
<1>2. CASE \E n \in Names \cup {NoName} : StmtExpr(n)
  <2>1. status = "running" /\ visits # <<>> /\ Simple /\ UNCHANGED <<owner, frames>>
    BY <1>2, Visited DEF StmtExpr
  <2>2. QED
    BY <2>1, SimpleChained, SameBlocksItself
<1>3. CASE StmtBreak \/ StmtCont \/ StmtReturn
  <2>1. status = "running" /\ visits # <<>> /\ Simple /\ UNCHANGED <<owner, frames>>
    BY <1>3, Visited DEF StmtBreak, StmtCont, StmtReturn, EndBlock
  <2>2. QED
    BY <2>1, SimpleChained, SameBlocksItself
<1>4. QED
  BY <1>1, <1>2, <1>3 DEF Simples

\* A switch without a default joins the frame it found with a new block.
LEMMA SwitchNoDefaultChained ==
  ASSUME IInv, Chains(visits, frames, owner), SwitchNoDefault
  PROVE  Chains(visits', frames', owner')
<1> DEFINE n == Len(owner) + 2
           s == Push(frames, New(1), New(2), NoBlock)
           r == Pop(s)
<1>1. /\ Visit("switch", 2) /\ AddBlocks(2) /\ Simple
      /\ frames' = Join(r, New(2))
  BY DEF SwitchNoDefault
<1>2. status = "running" /\ visits # <<>>
  BY <1>1, Visited
<1>3. /\ n \in Nat /\ frames \in Seq(Frame(n)) /\ frames # <<>>
      /\ \A i \in 1 .. 2 : New(i) \in 1 .. n /\ New(i) \in 0 .. n
      /\ NoBlock \in 0 .. n
  BY <1>1, OpenReady
<1>4. /\ Len(frames) \in Nat /\ Len(frames) >= 1
      /\ Block(frames) = frames[Len(frames)].insertBlock
      /\ visits \in Seq(Activation(Len(owner))) /\ Len(owner) \in Nat
      /\ frames \in Seq(Frame(Len(owner)))
  BY <1>2, Ready, BlockAt
<1> HIDE DEF n, s, r
<1>5. /\ s \in Seq(Frame(n)) /\ Len(s) = Len(frames) + 1
      /\ \A i \in 1 .. Len(frames) : s[i] = frames[i]
  <2>1. /\ s \in Seq(Frame(n)) /\ Len(s) = Len(frames) + 1
        /\ OnTop(s, frames, 1, New(1), New(2), NoBlock)
    <3>1. New(1) \in 1 .. n /\ New(2) \in 0 .. n
      BY <1>3
    <3>2. QED
      BY <1>3, <3>1, PushedOnce DEF s
  <2>2. QED
    BY <2>1 DEF OnTop
<1>6. s # <<>> /\ Len(s) - 1 = Len(frames)
  BY <1>4, <1>5, EmptySeq
<1>7. /\ r \in Seq(Frame(n)) /\ Len(r) = Len(frames)
      /\ \A i \in 1 .. Len(frames) : r[i] = frames[i]
  BY <1>5, <1>6, PopProperties DEF r
<1>8. r # <<>>
  BY <1>4, <1>7, EmptySeq
<1>9. /\ \A i \in 1 .. Len(frames) : SameJumps(frames'[i], frames[i])
      /\ \A i \in 1 .. Len(frames) - 1 : frames'[i] = frames[i]
      /\ frames'[Len(frames)].insertBlock = New(2)
  <2>1. \A i \in 1 .. Len(r) : SameJumps(frames'[i], r[i])
    BY <1>1, <1>3, <1>7, <1>8, JoinKeeps
  <2>2. /\ \A i \in 1 .. Len(r) - 1 : frames'[i] = r[i]
        /\ frames'[Len(r)].insertBlock = New(2)
    BY <1>1, <1>3, <1>7, <1>8, JoinProperties
  <2>3. \A i \in 1 .. Len(frames) - 1 : i \in 1 .. Len(frames)
    BY <1>4
  <2>4. QED
    BY <2>1, <2>2, <2>3, <1>7
<1>10. OwnersKept /\ owner'[New(2)] = owner[Block(frames)]
  BY <1>1, <1>2, NewOwners
<1>11. Alike(frames', owner', frames, owner, Len(frames))
  <2> SUFFICES ASSUME NEW j \in 1 .. Len(frames)
               PROVE  owner'[frames'[j].insertBlock] = owner[frames[j].insertBlock]
    BY <1>9 DEF Alike
  <2>1. CASE j = Len(frames)
    BY <2>1, <1>4, <1>9, <1>10
  <2>2. CASE j # Len(frames)
    <3>1. frames'[j] = frames[j]
      BY <2>2, <1>4, <1>9, BeforeLast
    <3>2. frames[j].insertBlock \in 1 .. Len(owner)
      <4>1. frames[j] \in Frame(Len(owner))
        BY <1>4, ElementOfSeq
      <4>2. QED
        BY <4>1 DEF Frame
    <3>3. QED
      BY <3>1, <3>2, <1>10 DEF OwnersKept
  <2>3. QED
    BY <2>1, <2>2
<1>12. /\ Len(visits') = Len(visits)
       /\ \A i \in 1 .. Len(visits) : SameVisit(visits'[i], visits[i])
  BY <1>1, <1>2, <1>4, ReturnedSame DEF Simple
<1>13. DOMAIN visits' = 1 .. Len(visits')
  <2>1. DOMAIN visits = 1 .. Len(visits)
    BY <1>4, LenProperties
  <2>2. QED
    BY <1>1, <1>12, <2>1 DEF Simple, Returned
<1>14. QED
  BY <1>2, <1>10, <1>11, <1>12, <1>13, StayChained

-----------------------------------------------------------------------------
(* Handlers that go on to their next nested visit.                         *)

\* An argument or the end of the arguments: the function's frame is the same.
LEMMA FunGoesOn ==
  ASSUME IInv, Chains(visits, frames, owner),
         FunBody \/ \E name \in Names, isRef \in BOOLEAN : FunArgument(name, isRef)
  PROVE  Chains(visits', frames', owner')
<1>1. status = "running" /\ visits # <<>> /\ Top(visits).kind = "fun" /\ UNCHANGED owner
  BY AtTop DEF FunBody, FunArgument
<1>2. \A i \in 1 .. Len(frames) : SameBlocks(frames'[i], frames[i])
  <2>1. CASE FunBody
    BY <2>1, SameBlocksItself DEF FunBody
  <2>2. CASE \E name \in Names, isRef \in BOOLEAN : FunArgument(name, isRef)
    BY <2>2, <1>1, DeclareType DEF FunArgument
  <2>3. QED
    BY <2>1, <2>2
<1>3. /\ visits \in Seq(Activation(Len(owner))) /\ Len(owner) \in Nat
      /\ Len(frames) \in Nat /\ Len(visits) \in 1 .. Len(visits)
      /\ DOMAIN visits = 1 .. Len(visits)
      /\ Top(visits) = visits[Len(visits)] /\ Top(visits) \in Activation(Len(owner))
  BY <1>1, Ready, ActivationAt DEF Top
<1>4. /\ Len(visits') = Len(visits) /\ DOMAIN visits' = 1 .. Len(visits')
      /\ \A i \in 1 .. Len(visits) : SameVisit(visits'[i], visits[i])
  <2>1. CASE visits' = visits
    BY <2>1, <1>3, SameVisitItself
  <2>2. CASE visits' = [visits EXCEPT ![Len(visits)].at = "list"]
    <3> DEFINE b == [visits[Len(visits)] EXCEPT !.at = "list"]
    <3>1. b \in Activation(Len(owner)) /\ SameVisit(b, visits[Len(visits)])
      BY <1>1, <1>3 DEF Activation, SameVisit, Held
    <3>2. visits' = [visits EXCEPT ![Len(visits)] = b]
      BY <2>2
    <3> HIDE DEF b
    <3>3. QED
      BY <1>3, <3>1, <3>2, ExceptSeq, SameVisitItself
  <2>3. QED
    BY <2>1, <2>2 DEF FunBody, FunArgument
<1>5. OwnersKept
  BY <1>1 DEF OwnersKept
<1>6. Alike(frames', owner', frames, owner, Len(frames))
  BY <1>1, <1>2, <1>3, <1>5, AlikeFrames
<1>7. QED
  BY <1>1, <1>4, <1>5, <1>6, StayChained

\* What the handler on top says of its frames, and where they are.
LEMMA TopChain ==
  ASSUME IInv, NEW kind, kind # "tree", NEW at, At(kind, at), Chains(visits, frames, owner)
  PROVE  LET v     == Top(visits)
             below == frames[v.base]
             top   == frames[Len(frames)]
         IN  /\ Inherits(v, top, below) /\ Within(v, top, below, owner)
             /\ v.base \in 1 .. Len(frames)
             /\ Block(frames) = top.insertBlock
             /\ below.insertBlock \in 1 .. Len(owner)
<1>1. /\ status = "running" /\ visits # <<>> /\ Top(visits).kind = kind
      /\ Len(frames) = Top(visits).base + Held(Top(visits))
      /\ Top(visits).base \in Nat /\ Len(owner) \in Nat
      /\ frames \in Seq(Frame(Len(owner)))
  BY AtTop
<1>2. Top(visits).base >= 1
  BY <1>1, BaseType
<1>3. /\ visits \in Seq(Activation(Len(owner))) /\ Len(visits) \in DOMAIN visits
      /\ Top(visits) = visits[Len(visits)] /\ Top(visits) \in Activation(Len(owner))
      /\ Len(frames) \in Nat
  BY <1>1, Ready, ActivationAt DEF Top
<1>4. Held(Top(visits)) \in 0 .. 3
  BY <1>1, <1>3, HeldType
<1>5. Top(visits).base \in 1 .. Len(frames)
  BY <1>1, <1>2, <1>3, <1>4
<1>6. Chain(Top(visits), frames, owner)
  BY <1>3 DEF Chains
<1>7. frames[Top(visits).base] \in Frame(Len(owner))
  BY <1>1, <1>5, ElementOfSeq
<1>8. frames[Top(visits).base].insertBlock \in 1 .. Len(owner)
  BY <1>7 DEF Frame
<1>9. QED
  BY <1>1, <1>5, <1>6, <1>8, BlockAt DEF Chain

\* The else branch takes over what the then branch did.
LEMMA ElseChained ==
  ASSUME IInv, Chains(visits, frames, owner), ElseBranch
  PROVE  Chains(visits', frames', owner')
<1> DEFINE n == Len(owner)
           v == Top(visits)
           b == [v EXCEPT !.at = "body", !.alt = NoBlock]
           s == Pop(frames)
           below == frames[v.base]
<1>1. /\ At("if", "after") /\ v.alt # NoBlock
      /\ frames' = Push(s, v.alt, NoBlock, NoBlock)
      /\ visits' = [visits EXCEPT ![Len(visits)].at = "body", ![Len(visits)].alt = NoBlock]
      /\ UNCHANGED owner
  BY DEF ElseBranch
<1>2. /\ status = "running" /\ visits # <<>> /\ v.kind = "if"
      /\ n \in Nat /\ frames \in Seq(Frame(n)) /\ v.base \in Nat /\ Held(v) = 1
  BY <1>1, AtTop DEF Held
<1>3. Len(frames) = v.base + 1 /\ v.alt \in 1 .. n /\ NoBlock \in 0 .. n
  BY <1>1, <1>2, AtTop DEF NoBlock
<1>4. /\ Within(v, frames[Len(frames)], below, owner) /\ v.base \in 1 .. Len(frames)
  BY <1>1, TopChain
<1>5. v \in Activation(n) /\ visits \in Seq(Activation(n))
      /\ Len(visits) \in DOMAIN visits
  BY <1>2, Ready, ActivationAt
<1>6. visits' = [visits EXCEPT ![Len(visits)] = b]
  BY <1>1, <1>5 DEF Top
<1>7. /\ b.kind = "if" /\ b.base = v.base /\ Held(b) = 1 /\ Locals(b) \subseteq Locals(v)
      /\ v.alt \in Locals(v)
  BY <1>1, <1>2, <1>5 DEF Activation, Held, Locals, NoBlock
<1> HIDE DEF n, v, b, s, below
<1>8. frames # <<>> /\ Len(frames) - 1 = v.base
  BY <1>2, <1>3, EmptySeq
<1>9. s \in Seq(Frame(n)) /\ Len(s) = v.base /\ \A i \in 1 .. v.base : s[i] = frames[i]
  BY <1>2, <1>8, PopProperties DEF s
<1>10. v.base \in 1 .. v.base /\ s # <<>>
  BY <1>2, <1>4, <1>9, EmptySeq
<1>11. OnTop(frames', s, 1, v.alt, NoBlock, NoBlock)
  BY <1>1, <1>2, <1>3, <1>9, <1>10, PushedOnce
<1>12. /\ \A i \in 1 .. v.base : frames'[i] = frames[i]
       /\ frames'[v.base + 1].insertBlock = v.alt
       /\ frames'[v.base + 1].breakBlock = below.breakBlock
       /\ frames'[v.base + 1].conditionBlock = below.conditionBlock
       /\ frames'[v.base] = below
  BY <1>9, <1>10, <1>11 DEF OnTop, below
<1>13. /\ owner[v.alt] = owner[below.insertBlock]
       /\ \A c \in Locals(v) : owner[c] = owner[below.insertBlock] /\ owner[c] # c
  BY <1>2, <1>4, <1>7 DEF Within
<1>14. Chain(b, frames', owner')
  BY <1>1, <1>7, <1>12, <1>13 DEF Chain, Inherits, Within, Breakables, Loops
<1>15. OwnersKept
  BY <1>1 DEF OwnersKept
<1>16. Alike(frames', owner', frames, owner, v.base)
  <2>1. v.base \in 0 .. Len(frames)
    BY <1>2, <1>3
  <2>2. QED
    BY <2>1, <1>2, <1>12, <1>15, AlikeFrames, SameBlocksItself
<1>17. QED
  BY <1>2, <1>6, <1>14, <1>15, <1>16, AdvanceChained DEF v

\* A for's body takes over the targets from the frame of its variables.
LEMMA ForConditionChained ==
  ASSUME IInv, Chains(visits, frames, owner), ForCondition
  PROVE  Chains(visits', frames', owner')
<1> DEFINE n == Len(owner)
           v == Top(visits)
           b == [v EXCEPT !.at = "body"]
           below == frames[v.base]
           top == frames[Len(frames)]
<1>1. /\ At("for", "decls")
      /\ frames' = Push(Push(frames, v.cond, NoBlock, NoBlock), v.loop, NoBlock, NoBlock)
      /\ visits' = [visits EXCEPT ![Len(visits)].at = "body"]
      /\ UNCHANGED owner
  BY DEF ForCondition, StartAt
<1>2. /\ status = "running" /\ visits # <<>> /\ v.kind = "for" /\ v.at = "decls"
      /\ n \in Nat /\ frames \in Seq(Frame(n)) /\ v.base \in Nat
      /\ Held(v) = 1 /\ v.cond # NoBlock /\ v.loop # NoBlock
  BY <1>1, AtTop DEF Held, HasLocals, Loops
<1>3. /\ Len(frames) = v.base + 1 /\ v.cond \in 1 .. n /\ v.loop \in 1 .. n
      /\ NoBlock \in 0 .. n
  BY <1>1, <1>2, AtTop DEF NoBlock
<1>4. /\ Inherits(v, top, below) /\ Within(v, top, below, owner)
      /\ v.base \in 1 .. Len(frames)
  BY <1>1, TopChain
<1>5. v \in Activation(n) /\ visits \in Seq(Activation(n))
      /\ Len(visits) \in DOMAIN visits
  BY <1>2, Ready, ActivationAt
<1>6. visits' = [visits EXCEPT ![Len(visits)] = b]
  BY <1>1, <1>5 DEF Top
<1>7. /\ b.kind = "for" /\ b.base = v.base /\ Held(b) = 3 /\ Locals(b) = Locals(v)
      /\ b.exit = v.exit /\ b.alt = v.alt /\ v.loop \in Locals(v)
  BY <1>2, <1>5 DEF Activation, Held, Locals
<1> HIDE DEF n, v, b, below, top
<1>8. frames # <<>> /\ Len(frames) + 2 = v.base + 3
  BY <1>2, <1>3, EmptySeq
<1>9. OnTop(frames', frames, 2, v.loop, NoBlock, NoBlock)
  <2>1. OnTop(Push(Push(frames, v.cond, NoBlock, NoBlock), v.loop, NoBlock, NoBlock),
              frames, 2, v.loop, IF NoBlock = NoBlock THEN NoBlock ELSE NoBlock, NoBlock)
    BY <1>2, <1>3, <1>8, PushedTwice
  <2>2. QED
    BY <2>1, <1>1
<1>10. /\ \A i \in 1 .. Len(frames) : frames'[i] = frames[i]
       /\ frames'[v.base + 3].insertBlock = v.loop
       /\ frames'[v.base + 3].breakBlock = top.breakBlock
       /\ frames'[v.base + 3].conditionBlock = top.conditionBlock
       /\ frames'[v.base] = below
  BY <1>4, <1>8, <1>9 DEF OnTop, top, below
<1>11. /\ owner[v.loop] = owner[below.insertBlock]
       /\ \A c \in Locals(v) : owner[c] = owner[below.insertBlock] /\ owner[c] # c
  BY <1>2, <1>4, <1>7 DEF Within
<1>12. top.breakBlock = v.exit /\ top.conditionBlock = v.alt
  BY <1>2, <1>4 DEF Inherits, Breakables, Loops
<1>13. Chain(b, frames', owner')
  BY <1>1, <1>7, <1>10, <1>11, <1>12 DEF Chain, Inherits, Within, Breakables, Loops
<1>14. OwnersKept
  BY <1>1 DEF OwnersKept
<1>15. Alike(frames', owner', frames, owner, v.base)
  <2>1. v.base \in 0 .. Len(frames) /\ \A i \in 1 .. v.base : i \in 1 .. Len(frames)
    BY <1>2, <1>3
  <2>2. QED
    BY <2>1, <1>2, <1>10, <1>14, AlikeFrames, SameBlocksItself
<1>16. QED
  BY <1>2, <1>6, <1>13, <1>14, <1>15, AdvanceChained DEF v

-----------------------------------------------------------------------------
(* Handlers that close.                                                    *)

\* A handler that drops its frames and joins the one it started from: its exit
\* is a block of the same function.
LEMMA LeaveToChained ==
  ASSUME IInv, Chains(visits, frames, owner),
         NEW kind, kind \notin {"tree", "fun", "use"}, NEW at, At(kind, at),
         NEW fs \in Seq(Frame(Len(owner))), Len(fs) = Top(visits).base,
         \A i \in 1 .. Len(fs) : fs[i] = frames[i],
         LeaveTo(fs, Top(visits).exit), UNCHANGED owner
  PROVE  Chains(visits', frames', owner')
<1> DEFINE v == Top(visits)
           n == Len(owner)
           below == frames[v.base]
<1>1. /\ status = "running" /\ visits # <<>> /\ v.kind = kind
      /\ n \in Nat /\ v.base \in Nat /\ v.exit \in 0 .. n /\ v.exit # NoBlock
  BY AtTop DEF HasLocals
<1>2. /\ Within(v, frames[Len(frames)], below, owner) /\ v.base \in 1 .. Len(frames)
      /\ below.insertBlock \in 1 .. n
  BY TopChain
<1>3. v.exit \in 1 .. n /\ v.exit \in Locals(v)
  BY <1>1 DEF NoBlock, Locals
<1>4. frames' = Join(fs, v.exit) /\ Leave
  BY DEF LeaveTo
<1>5. owner[v.exit] = owner[below.insertBlock]
  BY <1>1, <1>2, <1>3 DEF Within
<1>6. Len(fs) \in Nat /\ Len(fs) >= 1
  BY <1>1, <1>2
<1>7. fs # <<>>
  BY <1>6, EmptySeq
<1> HIDE DEF v, n
<1>8. /\ \A i \in 1 .. Len(fs) : SameJumps(frames'[i], fs[i])
      /\ \A i \in 1 .. Len(fs) - 1 : frames'[i] = fs[i]
      /\ frames'[Len(fs)].insertBlock = v.exit
  BY <1>1, <1>3, <1>4, <1>7, JoinKeeps, JoinProperties, ZenonT(60) DEF n
<1>9. OwnersKept
  BY DEF OwnersKept
<1>10. Alike(frames', owner', frames, owner, Len(fs))
  <2> SUFFICES ASSUME NEW j \in 1 .. Len(fs)
               PROVE  owner[frames'[j].insertBlock] = owner[frames[j].insertBlock]
    BY <1>8 DEF Alike
  <2>1. CASE j = Len(fs)
    BY <2>1, <1>5, <1>8 DEF v
  <2>2. CASE j # Len(fs)
    BY <2>2, <1>6, <1>8, BeforeLast
  <2>3. QED
    BY <2>1, <2>2
<1>11. QED
  BY <1>1, <1>4, <1>9, <1>10, LeaveChained DEF v

\* The frames that are left when k of them are popped.
LEMMA PopOnce ==
  ASSUME NEW S, NEW s \in Seq(S), Len(s) >= 1
  PROVE  /\ Pop(s) \in Seq(S) /\ Len(Pop(s)) = Len(s) - 1
         /\ \A i \in 1 .. Len(s) - 1 : Pop(s)[i] = s[i]
<1>1. s # <<>>
  BY EmptySeq
<1>2. QED
  BY <1>1, PopProperties

LEMMA CloseChained ==
  ASSUME IInv, Chains(visits, frames, owner),
         CloseScope \/ CloseLabel \/ CloseIf \/ CloseSwitch \/ CloseWhile
  PROVE  Chains(visits', frames', owner')
<1>1. frames \in Seq(Frame(Len(owner)))
  BY AtTop DEF CloseScope, CloseLabel, CloseRegion, CloseIf, CloseSwitch, CloseWhile
<1>2. ASSUME NEW kind \in {"scope", "label", "if"}, NEW at, At(kind, at),
             LeaveTo(Pop(frames), Top(visits).exit), UNCHANGED owner
      PROVE  Chains(visits', frames', owner')
  <2>1. Top(visits).base \in Nat /\ Len(frames) = Top(visits).base + 1
    BY <1>2, AtTop DEF Held
  <2>2. Len(frames) >= 1 /\ Len(frames) - 1 = Top(visits).base
    BY <2>1
  <2>3. /\ Pop(frames) \in Seq(Frame(Len(owner))) /\ Len(Pop(frames)) = Top(visits).base
        /\ \A i \in 1 .. Len(Pop(frames)) : Pop(frames)[i] = frames[i]
    BY <1>1, <2>2, PopOnce
  <2>4. QED
    BY <1>2, <2>3, LeaveToChained
<1>3. ASSUME NEW kind \in {"switch", "while"}, NEW at, At(kind, at),
             LeaveTo(Pop(Pop(frames)), Top(visits).exit), UNCHANGED owner
      PROVE  Chains(visits', frames', owner')
  <2>1. Top(visits).base \in Nat /\ Len(frames) = Top(visits).base + 2
    BY <1>3, AtTop DEF Held
  <2>2. Len(frames) >= 2 /\ Len(frames) - 2 = Top(visits).base
    BY <2>1
  <2>3. /\ Pop(Pop(frames)) \in Seq(Frame(Len(owner)))
        /\ Len(Pop(Pop(frames))) = Top(visits).base
        /\ \A i \in 1 .. Len(Pop(Pop(frames))) : Pop(Pop(frames))[i] = frames[i]
    BY <1>1, <2>2, PopTwice
  <2>4. QED
    BY <1>3, <2>3, LeaveToChained
<1>4. CASE CloseScope
  BY <1>2, <1>4 DEF CloseScope, CloseRegion
<1>5. CASE CloseLabel
  BY <1>2, <1>5 DEF CloseLabel, CloseRegion
<1>6. CASE CloseIf
  BY <1>2, <1>6 DEF CloseIf
<1>7. CASE CloseSwitch
  BY <1>3, <1>7 DEF CloseSwitch
<1>8. CASE CloseWhile
  BY <1>3, <1>8 DEF CloseWhile
<1>9. QED
  BY <1>4, <1>5, <1>6, <1>7, <1>8

LEMMA CloseDoChained ==
  ASSUME IInv, Chains(visits, frames, owner), CloseDo
  PROVE  Chains(visits', frames', owner')
<1> DEFINE v == Top(visits)
           n == Len(owner)
           s == Push(frames, v.cond, NoBlock, NoBlock)
<1>1. At("do", "after") /\ LeaveTo(Pop(Pop(s)), v.exit) /\ UNCHANGED owner
  BY DEF CloseDo
<1>2. /\ n \in Nat /\ frames \in Seq(Frame(n)) /\ v.base \in Nat
      /\ Len(frames) = v.base + 1 /\ v.cond \in 1 .. n /\ NoBlock \in 0 .. n
  <2>1. Held(v) = 1 /\ v.cond # NoBlock
    BY <1>1, AtTop DEF Held, HasLocals, Loops
  <2>2. QED
    BY <1>1, <2>1, AtTop DEF NoBlock
<1>3. /\ s \in Seq(Frame(n)) /\ Len(s) = Len(frames) + 1
      /\ \A i \in 1 .. Len(frames) : s[i] = frames[i]
  <2>1. Onto(s, frames, 1, v.cond, n)
    BY <1>2, PushOnto
  <2>2. QED
    BY <2>1 DEF Onto
<1> HIDE DEF s, v, n
<1>4. Len(s) >= 2 /\ Len(s) - 2 = v.base /\ \A i \in 1 .. v.base : i \in 1 .. Len(frames)
  BY <1>2, <1>3
<1>5. /\ Pop(Pop(s)) \in Seq(Frame(n)) /\ Len(Pop(Pop(s))) = Len(s) - 2
      /\ \A i \in 1 .. Len(s) - 2 : Pop(Pop(s))[i] = s[i]
  BY <1>3, <1>4, PopTwice
<1>6. /\ Len(Pop(Pop(s))) = v.base
      /\ \A i \in 1 .. Len(Pop(Pop(s))) : Pop(Pop(s))[i] = frames[i]
  BY <1>3, <1>4, <1>5
<1>7. QED
  BY <1>1, <1>5, <1>6, LeaveToChained DEF n, v

LEMMA CloseForChained ==
  ASSUME IInv, Chains(visits, frames, owner), CloseFor
  PROVE  Chains(visits', frames', owner')
<1> DEFINE v == Top(visits)
           n == Len(owner)
           s == Pop(frames)
<1>1. At("for", "after") /\ LeaveTo(Pop(Pop(s)), v.exit) /\ UNCHANGED owner
  BY DEF CloseFor
<1>2. /\ frames \in Seq(Frame(n)) /\ v.base \in Nat /\ Len(frames) = v.base + 3
  BY <1>1, AtTop DEF Held
<1>3. Len(frames) >= 1
  BY <1>2
<1>4. /\ s \in Seq(Frame(n)) /\ Len(s) = Len(frames) - 1
      /\ \A i \in 1 .. Len(frames) - 1 : s[i] = frames[i]
  BY <1>2, <1>3, PopOnce
<1> HIDE DEF s, v, n
<1>5. Len(s) >= 2 /\ Len(s) - 2 = v.base /\ \A i \in 1 .. v.base : i \in 1 .. Len(frames) - 1
  BY <1>2, <1>4
<1>6. /\ Pop(Pop(s)) \in Seq(Frame(n)) /\ Len(Pop(Pop(s))) = Len(s) - 2
      /\ \A i \in 1 .. Len(s) - 2 : Pop(Pop(s))[i] = s[i]
  BY <1>4, <1>5, PopTwice
<1>7. /\ Len(Pop(Pop(s))) = v.base
      /\ \A i \in 1 .. Len(Pop(Pop(s))) : Pop(Pop(s))[i] = frames[i]
  BY <1>4, <1>5, <1>6
<1>8. QED
  BY <1>1, <1>6, <1>7, LeaveToChained DEF n, v

\* A use drops no frame; a function drops its own and leaves those around it.
LEMMA ReturnChained ==
  ASSUME IInv, Chains(visits, frames, owner), CloseUse \/ CloseFun
  PROVE  Chains(visits', frames', owner')
<1> DEFINE d == Top(visits).base
<1>1. /\ status = "running" /\ visits # <<>> /\ Top(visits).kind # "tree"
      /\ Leave /\ UNCHANGED owner
      /\ d \in Nat /\ Len(frames) = d + Held(Top(visits))
      /\ frames \in Seq(Frame(Len(owner)))
  BY AtTop DEF CloseUse, CloseFun
<1>2. OwnersKept
  BY <1>1 DEF OwnersKept
<1>3. d \in 0 .. Len(frames) /\ \A i \in 1 .. d : frames'[i] = frames[i]
  <2>1. CASE CloseUse
    <3>1. Held(Top(visits)) = 0 /\ UNCHANGED frames
      BY <2>1, AtTop DEF CloseUse, Held
    <3>2. QED
      BY <3>1, <1>1
  <2>2. CASE CloseFun
    <3>1. Held(Top(visits)) = 1 /\ frames' = Pop(frames)
      BY <2>2, AtTop DEF CloseFun, Held
    <3>2. Len(frames) >= 1 /\ Len(frames) - 1 = d
      BY <3>1, <1>1
    <3>3. \A i \in 1 .. Len(frames) - 1 : Pop(frames)[i] = frames[i]
      BY <3>2, <1>1, PopOnce
    <3>4. QED
      BY <3>1, <3>2, <3>3, <1>1
  <2>3. QED
    BY <2>1, <2>2
<1> HIDE DEF d
<1>4. Alike(frames', owner', frames, owner, d)
  BY <1>1, <1>2, <1>3, AlikeFrames, SameBlocksItself
<1>5. QED
  BY <1>1, <1>2, <1>4, LeaveChained DEF d

-----------------------------------------------------------------------------
(* The chain is kept.                                                      *)

TInv == IInv /\ Chained

LEMMA NextChained ==
  ASSUME TInv, [Next]_vars
  PROVE  TInv'
<1>1. IInv'
  BY NextIInv DEF TInv
<1>2. IInv /\ (status = "running" => Chains(visits, frames, owner))
  BY DEF TInv, Chained
<1> SUFFICES ASSUME status' = "running" PROVE Chains(visits', frames', owner')
  BY <1>1 DEF TInv, Chained
<1>3. CASE Simples
  <2>1. status = "running"
    BY <1>3 DEF Simples, DeclVar, AtDeclaration, At, StmtExpr, Visit, StmtBreak, StmtCont,
       StmtReturn, SwitchNoDefault
  <2>2. QED
    BY <1>2, <1>3, <2>1, SimplesChained, SwitchNoDefaultChained
<1>4. CASE Opens
  <2>1. CASE OpenTree
    <3>1. frames = <<>>
      <4>1. Len(frames) = 0
        BY <2>1, <1>2 DEF OpenTree, IInv, Discipline, Balanced
      <4>2. QED
        BY <4>1, <1>2, EmptySeq DEF IInv, TypeOK
    <3>2. QED
      BY <2>1, <3>1, TreeChained
  <2>2. CASE OpenScope \/ OpenLabel
    <3>1. status = "running"
      BY <2>2 DEF OpenScope, OpenLabel, OpenRegion, Visit
    <3>2. QED
      BY <2>2, <3>1, <1>2, RegionChained DEF OpenScope, OpenLabel
  <2>3. CASE OpenFun \/ OpenSwitch \/ OpenWhile \/ OpenDo \/ OpenFor \/ OpenUse
             \/ \E hasElse \in BOOLEAN : OpenIf(hasElse)
    <3>1. status = "running"
      BY <2>3 DEF OpenFun, OpenSwitch, OpenWhile, OpenDo, OpenFor, OpenUse, OpenIf, Visit
    <3>2. QED
      BY <2>3, <3>1, <1>2, FunChained, SwitchChained, WhileChained, DoChained, ForChained,
         UseChained, IfChained
  <2>4. QED
    BY <1>4, <2>1, <2>2, <2>3 DEF Opens
<1>5. CASE Continues
  <2>1. status = "running"
    BY <1>5 DEF Continues, FunArgument, FunBody, ElseBranch, ForCondition, At
  <2>2. QED
    BY <1>2, <1>5, <2>1, FunGoesOn, ElseChained, ForConditionChained DEF Continues
<1>6. CASE Closes
  <2>1. status = "running"
    BY <1>6 DEF Closes, CloseTree, CloseFun, CloseScope, CloseLabel, CloseRegion, CloseSwitch,
       CloseWhile, CloseDo, CloseFor, CloseUse, CloseIf, At
  <2>2. ~ CloseTree
    BY DEF CloseTree
  <2>3. QED
    BY <1>2, <1>6, <2>1, <2>2, CloseChained, CloseDoChained, CloseForChained, ReturnChained
       DEF Closes
<1>7. CASE Throws
  BY <1>7 DEF Throws, DeclVarThrows, StmtExprThrows, JumpThrows, UseThrows, Throw
<1>8. CASE Finished \/ UNCHANGED vars
  BY <1>2, <1>8 DEF Finished, vars
<1>9. QED
  BY <1>3, <1>4, <1>5, <1>6, <1>7, <1>8 DEF Next

-----------------------------------------------------------------------------
(* From the innermost visit of a kind to the top of the stack.             *)

\* A set of indices that is not empty has a first one.
LEMMA FirstIndex ==
  ASSUME NEW T \in SUBSET Nat, T # {}
  PROVE  \E i \in T : \A j \in T : i <= j
<1>1. PICK x \in T : \A y \in T : ~ (<<y, x>> \in OpToRel(<, Nat))
  BY NatLessThanWellFounded, WFMin
<1>2. \A y \in T : ~ (y < x)
  BY <1>1 DEF OpToRel
<1>3. QED
  BY <1>2

\* What every element takes over from the one before is the first one's.
LEMMA Carried ==
  ASSUME NEW k \in Nat, NEW m \in 1 .. k, NEW g,
         \A i \in m + 1 .. k : g[i] = g[i - 1]
  PROVE  g[k] = g[m]
<1> DEFINE T == {i \in m .. k : g[i] # g[m]}
<1>1. SUFFICES T = {}
  <2>1. k \in m .. k
    OBVIOUS
  <2>2. QED
    BY <2>1
<1>2. SUFFICES ASSUME T # {} PROVE FALSE
  OBVIOUS
<1>3. T \in SUBSET Nat
  OBVIOUS
<1>4. PICK i \in T : \A j \in T : i <= j
  BY <1>2, <1>3, FirstIndex
<1>5. i \in m + 1 .. k /\ i - 1 \in m .. k /\ ~ (i <= i - 1)
  OBVIOUS
<1>6. i - 1 \notin T
  BY <1>4, <1>5
<1>7. g[i - 1] = g[m]
  BY <1>5, <1>6
<1>8. QED
  BY <1>5, <1>7

\* Innermost finds the last visit of these kinds.
LEMMA InnermostIs ==
  ASSUME NEW n \in Nat, visits \in Seq(Activation(n)), NEW kinds
  PROVE  \/ /\ Innermost(kinds) = 0
            /\ \A j \in DOMAIN visits : visits[j].kind \notin kinds
         \/ /\ Innermost(kinds) \in DOMAIN visits
            /\ visits[Innermost(kinds)].kind \in kinds
            /\ \A j \in DOMAIN visits : j > Innermost(kinds) => visits[j].kind \notin kinds
<1> DEFINE T == {i \in DOMAIN visits : visits[i].kind \in kinds}
<1>1. DOMAIN visits = 1 .. Len(visits) /\ Len(visits) \in Nat
  BY LenProperties
<1>2. CASE T = {}
  BY <1>2 DEF Innermost
<1>3. CASE T # {}
  <2>1. T \in SUBSET (1 .. Len(visits))
    BY <1>1
  <2>2. \E i \in T : \A j \in T : j <= i
    BY <1>1, <1>3, <2>1, LastIndex
  <2>3. Innermost(kinds) = CHOOSE i \in T : \A j \in T : j <= i
    BY <1>3 DEF Innermost
  <2>4. Innermost(kinds) \in T /\ \A j \in T : j <= Innermost(kinds)
    BY <2>2, <2>3
  <2>5. \A j \in T : ~ (j > Innermost(kinds))
    BY <2>1, <2>4, <1>1
  <2>6. QED
    BY <2>4, <2>5
<1>4. QED
  BY <1>2, <1>3

\* The frame a handler leaves on top of the stack.
TopOf(v, f, i) == f[v[i].base + Held(v[i])]

\* The links of the chain, from visit to visit.
LEMMA Links ==
  ASSUME TInv, status = "running", visits # <<>>
  PROVE  /\ Len(visits) \in Nat /\ Len(visits) >= 1 /\ DOMAIN visits = 1 .. Len(visits)
         /\ TopOf(visits, frames, Len(visits)) = frames[Len(frames)]
         /\ visits[1].kind = "tree"
         /\ \A i \in 1 .. Len(visits) :
              Chain(visits[i], frames, owner) /\ visits[i] \in Activation(Len(owner))
         /\ \A i \in 2 .. Len(visits) :
              /\ visits[i].kind # "tree"
              /\ frames[visits[i].base] = TopOf(visits, frames, i - 1)
<1>1. /\ visits \in Seq(Activation(Len(owner))) /\ Len(owner) \in Nat
      /\ Discipline(visits, frames) /\ frames \in Seq(Frame(Len(owner)))
      /\ Len(frames) = Top(visits).base + Held(Top(visits))
  BY Ready DEF TInv
<1>2. /\ Len(visits) \in Nat /\ Len(visits) >= 1 /\ DOMAIN visits = 1 .. Len(visits)
      /\ \A i \in 1 .. Len(visits) : visits[i] \in Activation(Len(owner))
  BY <1>1, ActivationAt
<1>3. TopOf(visits, frames, Len(visits)) = frames[Len(frames)]
  BY <1>1 DEF TopOf, Top
<1>4. visits[1].kind = "tree" /\ \A i \in 2 .. Len(visits) : visits[i].kind # "tree"
  BY <1>1, <1>2 DEF Discipline, TreeFirst
<1>5. \A i \in 1 .. Len(visits) : Chain(visits[i], frames, owner)
  BY <1>2 DEF TInv, Chained, Chains
<1>6. \A i \in 1 .. Len(visits) - 1 :
        visits[i + 1].base = visits[i].base + Held(visits[i])
  BY <1>1 DEF Discipline, Balanced
<1>7. ASSUME NEW i \in 2 .. Len(visits)
      PROVE  frames[visits[i].base] = TopOf(visits, frames, i - 1)
  <2>1. i - 1 \in 1 .. Len(visits) - 1 /\ (i - 1) + 1 = i
    BY <1>2
  <2>2. visits[i].base = visits[i - 1].base + Held(visits[i - 1])
    BY <2>1, <1>6
  <2>3. QED
    BY <2>2 DEF TopOf
<1>8. QED
  BY <1>2, <1>3, <1>4, <1>5, <1>7

\* Where a break leads is decided by the innermost loop, switch or function, and
\* where a continue leads by the innermost loop.
LEMMA TargetsAre ==
  ASSUME TInv, status = "running", visits # <<>>
  PROVE  JumpTargets
<1> DEFINE k == Len(visits)
           g == [i \in 1 .. k |-> TopOf(visits, frames, i).breakBlock]
           h == [i \in 1 .. k |-> TopOf(visits, frames, i).conditionBlock]
           b == Innermost(Loops \cup {"switch", "fun"})
           c == Innermost(Loops)
<1>1. /\ k \in Nat /\ k >= 1 /\ DOMAIN visits = 1 .. k
      /\ TopOf(visits, frames, k) = frames[Len(frames)]
      /\ visits[1].kind = "tree"
      /\ \A i \in 1 .. k : Chain(visits[i], frames, owner)
      /\ \A i \in 2 .. k : /\ visits[i].kind # "tree"
                           /\ frames[visits[i].base] = TopOf(visits, frames, i - 1)
  BY Links
<1>2. /\ visits \in Seq(Activation(Len(owner))) /\ Len(owner) \in Nat
      /\ Discipline(visits, frames) /\ Top(frames) = frames[Len(frames)]
  BY Ready DEF TInv
<1>3. \A i \in 1 .. k :
        Inherits(visits[i], TopOf(visits, frames, i), frames[visits[i].base])
  BY <1>1 DEF Chain, TopOf
<1>4. k \in 1 .. k /\ 1 \in 1 .. k
  BY <1>1
<1>5. g[k] = Top(frames).breakBlock /\ h[k] = Top(frames).conditionBlock
  BY <1>1, <1>2, <1>4
<1>6. g[1] = NoBlock /\ h[1] = NoBlock
  BY <1>1, <1>3, <1>4 DEF Inherits
<1>7. ASSUME NEW i \in 2 .. k, visits[i].kind \notin Loops \cup {"switch", "fun"}
      PROVE  g[i] = g[i - 1]
  <2>1. i \in 1 .. k /\ i - 1 \in 1 .. k
    BY <1>1
  <2>2. TopOf(visits, frames, i).breakBlock = frames[visits[i].base].breakBlock
    BY <2>1, <1>1, <1>3, <1>7 DEF Inherits, Breakables
  <2>3. QED
    BY <2>1, <2>2, <1>1
<1>8. ASSUME NEW i \in 2 .. k, visits[i].kind \notin Loops
      PROVE  h[i] = h[i - 1]
  <2>1. i \in 1 .. k /\ i - 1 \in 1 .. k
    BY <1>1
  <2>2. TopOf(visits, frames, i).conditionBlock = frames[visits[i].base].conditionBlock
    BY <2>1, <1>1, <1>3, <1>8 DEF Inherits
  <2>3. QED
    BY <2>1, <2>2, <1>1
<1>9. \/ b = 0 /\ \A j \in 1 .. k : visits[j].kind \notin Loops \cup {"switch", "fun"}
      \/ /\ b \in 1 .. k /\ visits[b].kind \in Loops \cup {"switch", "fun"}
         /\ \A j \in 1 .. k : j > b => visits[j].kind \notin Loops \cup {"switch", "fun"}
  BY <1>1, <1>2, InnermostIs
<1>10. \/ c = 0 /\ \A j \in 1 .. k : visits[j].kind \notin Loops
       \/ /\ c \in 1 .. k /\ visits[c].kind \in Loops
          /\ \A j \in 1 .. k : j > c => visits[j].kind \notin Loops
  BY <1>1, <1>2, InnermostIs
<1>11. \A i \in 1 .. k : visits[i].kind = "fun" =>
         TopOf(visits, frames, i).breakBlock = frames[visits[i].base].insertBlock
  BY <1>1, <1>2 DEF Discipline, FunReturns, TopOf, Held
<1> HIDE DEF g, h, b, c, k
<1>12. Top(frames).breakBlock =
         IF b = 0 THEN NoBlock
         ELSE IF visits[b].kind = "fun" THEN frames[visits[b].base].insertBlock
         ELSE visits[b].exit
  <2>1. CASE b = 0
    <3>1. \A i \in 1 + 1 .. k : g[i] = g[i - 1]
      <4> TAKE i \in 1 + 1 .. k
      <4>1. i \in 2 .. k /\ i \in 1 .. k /\ b \notin 1 .. k
        BY <2>1, <1>1
      <4>2. QED
        BY <4>1, <1>7, <1>9
    <3>2. g[k] = g[1]
      BY <3>1, <1>1, <1>4, Carried
    <3>3. QED
      BY <2>1, <3>2, <1>5, <1>6
  <2>2. CASE b # 0
    <3>1. /\ b \in 1 .. k /\ visits[b].kind \in Loops \cup {"switch", "fun"}
          /\ \A j \in 1 .. k : j > b => visits[j].kind \notin Loops \cup {"switch", "fun"}
      BY <2>2, <1>9
    <3>2. \A i \in b + 1 .. k : g[i] = g[i - 1]
      <4> TAKE i \in b + 1 .. k
      <4>1. i \in 2 .. k /\ i \in 1 .. k /\ i > b
        BY <3>1, <1>1
      <4>2. QED
        BY <4>1, <3>1, <1>7
    <3>3. g[k] = g[b]
      BY <3>1, <3>2, <1>1, Carried
    <3>4. g[b] = TopOf(visits, frames, b).breakBlock
      BY <3>1 DEF g, k
    <3>5. visits[b].kind # "fun" => TopOf(visits, frames, b).breakBlock = visits[b].exit
      BY <3>1, <1>3 DEF Inherits, Breakables
    <3>6. QED
      BY <2>2, <3>1, <3>3, <3>4, <3>5, <1>5, <1>11
  <2>3. QED
    BY <2>1, <2>2
<1>13. Top(frames).conditionBlock =
         IF c = 0 THEN NoBlock
         ELSE IF visits[c].kind = "for" THEN visits[c].alt
         ELSE visits[c].cond
  <2>1. CASE c = 0
    <3>1. \A i \in 1 + 1 .. k : h[i] = h[i - 1]
      <4> TAKE i \in 1 + 1 .. k
      <4>1. i \in 2 .. k /\ i \in 1 .. k /\ c \notin 1 .. k
        BY <2>1, <1>1
      <4>2. QED
        BY <4>1, <1>8, <1>10
    <3>2. h[k] = h[1]
      BY <3>1, <1>1, <1>4, Carried
    <3>3. QED
      BY <2>1, <3>2, <1>5, <1>6
  <2>2. CASE c # 0
    <3>1. /\ c \in 1 .. k /\ visits[c].kind \in Loops
          /\ \A j \in 1 .. k : j > c => visits[j].kind \notin Loops
      BY <2>2, <1>10
    <3>2. \A i \in c + 1 .. k : h[i] = h[i - 1]
      <4> TAKE i \in c + 1 .. k
      <4>1. i \in 2 .. k /\ i \in 1 .. k /\ i > c
        BY <3>1, <1>1
      <4>2. QED
        BY <4>1, <3>1, <1>8
    <3>3. h[k] = h[c]
      BY <3>1, <3>2, <1>1, Carried
    <3>4. h[c] = TopOf(visits, frames, c).conditionBlock
      BY <3>1 DEF h, k
    <3>5. TopOf(visits, frames, c).conditionBlock =
            IF visits[c].kind = "for" THEN visits[c].alt ELSE visits[c].cond
      BY <3>1, <1>3 DEF Inherits, Loops
    <3>6. QED
      BY <2>2, <3>3, <3>4, <3>5, <1>5
  <2>3. QED
    BY <2>1, <2>2
<1>14. QED
  BY <1>12, <1>13 DEF JumpTargets, b, c

-----------------------------------------------------------------------------
(* The function code goes into.                                            *)

\* The block of the frame on top is one of the function that is under way.
LEMMA BlockInFunction ==
  ASSUME TInv, status = "running", visits # <<>>
  PROVE  owner[Block(frames)] = CurrentFunction
<1> DEFINE k == Len(visits)
           g == [i \in 1 .. k |-> owner[TopOf(visits, frames, i).insertBlock]]
           m == Innermost({"fun", "tree"})
<1>1. /\ k \in Nat /\ k >= 1 /\ DOMAIN visits = 1 .. k
      /\ TopOf(visits, frames, k) = frames[Len(frames)]
      /\ visits[1].kind = "tree"
      /\ \A i \in 1 .. k : Chain(visits[i], frames, owner)
      /\ \A i \in 2 .. k : /\ visits[i].kind # "tree"
                           /\ frames[visits[i].base] = TopOf(visits, frames, i - 1)
  BY Links
<1>2. visits \in Seq(Activation(Len(owner))) /\ Len(owner) \in Nat
  BY Ready DEF TInv
<1>3. k \in 1 .. k /\ 1 \in 1 .. k
  BY <1>1
<1>4. g[k] = owner[Block(frames)]
  BY <1>1, <1>3, BlockAt
<1>5. /\ m \in 1 .. k /\ visits[m].kind \in {"fun", "tree"}
      /\ \A j \in 1 .. k : j > m => visits[j].kind \notin {"fun", "tree"}
  <2>1. visits[1].kind \in {"fun", "tree"} /\ 1 \in DOMAIN visits
    BY <1>1, <1>3
  <2> HIDE DEF m
  <2>2. \/ /\ m = 0 /\ \A j \in DOMAIN visits : visits[j].kind \notin {"fun", "tree"}
        \/ /\ m \in DOMAIN visits /\ visits[m].kind \in {"fun", "tree"}
           /\ \A j \in DOMAIN visits : j > m => visits[j].kind \notin {"fun", "tree"}
    BY <1>2, InnermostIs DEF m
  <2>3. QED
    BY <2>1, <2>2, <1>1
<1> HIDE DEF m
<1>6. \A i \in m + 1 .. k : g[i] = g[i - 1]
  <2> TAKE i \in m + 1 .. k
  <2>1. i \in 2 .. k /\ i \in 1 .. k /\ i - 1 \in 1 .. k /\ i > m
    BY <1>1, <1>5
  <2>2. visits[i].kind \notin {"fun", "tree"}
    BY <2>1, <1>5
  <2>3. Within(visits[i], TopOf(visits, frames, i), frames[visits[i].base], owner)
    BY <2>1, <1>1 DEF Chain, TopOf
  <2>4. owner[TopOf(visits, frames, i).insertBlock]
          = owner[TopOf(visits, frames, i - 1).insertBlock]
    BY <2>1, <2>2, <2>3, <1>1 DEF Within
  <2>5. QED
    BY <2>1, <2>4
<1>7. g[m] = owner[frames[visits[m].base + 1].insertBlock]
  BY <1>5 DEF TopOf, Held
<1> HIDE DEF g, k
<1>8. g[k] = g[m]
  <2>1. k \in Nat /\ m \in 1 .. k
    BY <1>1, <1>5
  <2>2. QED
    BY <2>1, <1>6, Carried, ZenonT(60)
<1>9. QED
  BY <1>4, <1>7, <1>8 DEF CurrentFunction, m

\* Code only goes to blocks of the function of the current block.
EmitsHere == \A b \in Blocks : code'[b] # code[b] => owner[b] = owner[Block(frames)]

\* A block that is not terminated keeps its code.
LEMMA TerminateOthers ==
  ASSUME NEW n \in Nat, NEW c \in Code(n), NEW b, NEW targets,
         NEW d \in 1 .. Len(c), d # b
  PROVE  Terminate(c, b, targets)[d] = c[d]
BY LenProperties DEF Terminate, Code

\* A handler that opens branches out of the current block, and perhaps out of a
\* block of its own.
LEMMA OpenEmits ==
  ASSUME IInv, NEW kind, NEW k \in Nat, Visit(kind, k),
         NEW targets \in SUBSET (1 .. Len(owner) + k), NEW j \in 1 .. k, NEW others,
         \/ code' = Terminate(Blank(k), cursor, targets)
         \/ code' = Terminate(Terminate(Blank(k), cursor, targets), New(j), others)
  PROVE  EmitsHere
<1>1. status = "running" /\ visits # <<>>
  BY Visited
<1>2. /\ Len(owner) \in Nat /\ code \in Code(Len(owner)) /\ Len(code) = Len(owner)
      /\ cursor = Block(frames)
  BY <1>1, Ready
<1>3. Blank(k) \in Code(Len(owner) + k) /\ Len(Blank(k)) = Len(owner) + k
  BY <1>1, NewBlocks
<1> DEFINE n == Len(owner) + k
           c == Terminate(Blank(k), cursor, targets)
<1>4. c \in Code(n) /\ Len(c) = n /\ n \in Nat
  BY Branched
<1>5. \A b \in 1 .. Len(owner) : Blank(k)[b] = code[b]
  <2> DEFINE new == [i \in 1 .. k |-> <<>>]
  <2>1. <<>> \in Seq(SUBSET (1 .. n))
    BY EmptySeq
  <2>2. new \in Seq({<<>>})
    BY IsASeq
  <2>3. code \in Seq(Seq(SUBSET (1 .. Len(owner)))) /\ Blank(k) = code \o new
    BY <1>2 DEF Code, Blank
  <2> HIDE DEF new
  <2>4. code \in Seq(Seq(SUBSET (1 .. Len(owner))) \cup {<<>>})
        /\ new \in Seq(Seq(SUBSET (1 .. Len(owner))) \cup {<<>>})
    BY <2>2, <2>3
  <2>5. \A i \in 1 .. Len(code) : (code \o new)[i] = code[i]
    BY ONLY <2>4, ConcatProperties
  <2>6. QED
    BY <2>3, <2>5, <1>2
<1> HIDE DEF c, n
<1>6. SUFFICES ASSUME NEW b \in 1 .. Len(owner), b # cursor PROVE code'[b] = code[b]
  BY <1>2 DEF EmitsHere, Blocks
<1>7. b \in 1 .. n /\ b # New(j)
  BY <1>2 DEF n, New
<1>8. c[b] = code[b]
  BY <1>3, <1>4, <1>5, <1>6, <1>7, TerminateOthers DEF c, n
<1>9. Terminate(c, New(j), others)[b] = c[b]
  BY <1>4, <1>7, TerminateOthers
<1>10. QED
  BY <1>8, <1>9 DEF c

\* A branch out of the current block, if any.
LEMMA FallEmits ==
  ASSUME IInv, status = "running", visits # <<>>, NEW target,
         NEW b \in 1 .. Len(owner), b # cursor
  PROVE  Fall(target)[b] = code[b] /\ Terminate(code, cursor, target)[b] = code[b]
<1>1. /\ Len(owner) \in Nat /\ code \in Code(Len(owner)) /\ Len(code) = Len(owner)
  BY Ready
<1>2. Terminate(code, cursor, target)[b] = code[b]
      /\ Terminate(code, cursor, {target})[b] = code[b]
  BY <1>1, TerminateOthers
<1>3. QED
  BY <1>2 DEF Fall

LEMMA OpensEmit ==
  ASSUME IInv, visits # <<>>, Opens \/ SwitchNoDefault
  PROVE  EmitsHere
<1>1. CASE OpenScope \/ OpenLabel
  <2>1. PICK kind : Visit(kind, 2) /\ code' = Terminate(Blank(2), cursor, {New(1)})
    BY <1>1 DEF OpenScope, OpenLabel, OpenRegion
  <2>2. {New(1)} \in SUBSET (1 .. Len(owner) + 2)
    BY <2>1, OpenReady
  <2>3. 2 \in Nat /\ 1 \in 1 .. 2
    OBVIOUS
  <2> DEFINE k == 2
  <2> HIDE DEF k
  <2>4. QED
    BY <2>1, <2>2, <2>3, OpenEmits DEF k
<1>2. CASE \E hasElse \in BOOLEAN : OpenIf(hasElse)
  <2>1. PICK hasElse \in BOOLEAN : OpenIf(hasElse)
    BY <1>2
  <2> DEFINE k == IF hasElse THEN 3 ELSE 2
             targets == {New(1), IF hasElse THEN New(3) ELSE New(2)}
  <2>2. Visit("if", k) /\ code' = Terminate(Blank(k), cursor, targets)
    BY <2>1 DEF OpenIf
  <2>3. k \in Nat /\ 1 \in 1 .. k /\ 2 \in 1 .. k /\ (hasElse => 3 \in 1 .. k)
    OBVIOUS
  <2>4. targets \in SUBSET (1 .. Len(owner) + k)
    <3> HIDE DEF k
    <3>1. \A i \in 1 .. k : New(i) \in 1 .. Len(owner) + k
      BY <2>2, <2>3, OpenReady
    <3>2. QED
      BY <2>3, <3>1
  <2> HIDE DEF k, targets
  <2>5. QED
    BY <2>2, <2>3, <2>4, OpenEmits
<1>3. CASE OpenSwitch
  <2>1. Visit("switch", 3)
        /\ code' = Terminate(Terminate(Blank(3), cursor, {New(1)}), New(1), {New(3)})
    BY <1>3 DEF OpenSwitch
  <2>2. {New(1)} \in SUBSET (1 .. Len(owner) + 3)
    BY <2>1, OpenReady
  <2>3. QED
    BY <2>1, <2>2, OpenEmits
<1>4. CASE SwitchNoDefault
  <2>1. Visit("switch", 2)
        /\ code' = Terminate(Terminate(Blank(2), cursor, {New(1)}), New(1), {New(2)})
    BY <1>4 DEF SwitchNoDefault
  <2>2. {New(1)} \in SUBSET (1 .. Len(owner) + 2)
    BY <2>1, OpenReady
  <2>3. QED
    BY <2>1, <2>2, OpenEmits
<1>5. CASE OpenWhile
  <2>1. Visit("while", 3)
        /\ code' = Terminate(Terminate(Blank(3), cursor, {New(1)}), New(1), {New(2), New(3)})
    BY <1>5 DEF OpenWhile
  <2>2. {New(1)} \in SUBSET (1 .. Len(owner) + 3)
    BY <2>1, OpenReady
  <2>3. QED
    BY <2>1, <2>2, OpenEmits
<1>6. CASE OpenDo
  <2>1. Visit("do", 3) /\ code' = Terminate(Blank(3), cursor, {New(1)})
    BY <1>6 DEF OpenDo
  <2>2. {New(1)} \in SUBSET (1 .. Len(owner) + 3)
    BY <2>1, OpenReady
  <2>3. QED
    BY <2>1, <2>2, OpenEmits, SMTT(40)
<1>7. CASE OpenFor
  <2>1. Visit("for", 5) /\ code' = Terminate(Blank(5), cursor, {New(1)})
    BY <1>7 DEF OpenFor
  <2>2. {New(1)} \in SUBSET (1 .. Len(owner) + 5)
    BY <2>1, OpenReady
  <2>3. 5 \in Nat /\ 1 \in 1 .. 5
    OBVIOUS
  <2> DEFINE k == 5
  <2> HIDE DEF k
  <2>4. QED
    BY <2>1, <2>2, <2>3, OpenEmits DEF k
<1>8. CASE OpenFun
  <2>1. status = "running" /\ code' = code \o [i \in 1 .. 1 |-> <<>>]
    BY <1>8, Visited DEF OpenFun, Blank
  <2>2. code \in Seq(Seq(SUBSET (1 .. Len(owner)))) /\ Len(code) = Len(owner)
    BY <2>1, Ready DEF Code
  <2> DEFINE new == [i \in 1 .. 1 |-> <<>>]
  <2>3. new \in Seq(Seq(SUBSET (1 .. Len(owner))))
    <3>1. <<>> \in Seq(SUBSET (1 .. Len(owner)))
      BY EmptySeq
    <3>2. QED
      BY <3>1, IsASeq
  <2> HIDE DEF new
  <2>4. \A i \in 1 .. Len(code) : (code \o new)[i] = code[i]
    BY <2>2, <2>3, ConcatProperties
  <2>5. QED
    BY <2>1, <2>2, <2>4 DEF EmitsHere, Blocks, new
<1>9. CASE OpenUse
  BY <1>9 DEF OpenUse, EmitsHere
<1>10. QED
  BY <1>1, <1>2, <1>3, <1>4, <1>5, <1>6, <1>7, <1>8, <1>9 DEF Opens, OpenTree

\* The blocks a handler on top goes back to are in the function of the current
\* block, and so is what it emits there.
LEMMA LocalEmits ==
  ASSUME TInv, NEW kind, kind \notin {"tree", "fun"}, NEW at, At(kind, at),
         NEW block \in Locals(Top(visits)),
         \A b \in Blocks : b # cursor /\ b # block => code'[b] = code[b]
  PROVE  EmitsHere
<1> DEFINE v == Top(visits)
           below == frames[v.base]
           top == frames[Len(frames)]
<1>1. IInv /\ Chains(visits, frames, owner) /\ v.kind = kind
  BY DEF TInv, Chained, At
<1>2. Within(v, top, below, owner) /\ Block(frames) = top.insertBlock
  BY <1>1, TopChain
<1>3. owner[block] = owner[Block(frames)]
  BY <1>1, <1>2 DEF Within
<1>4. cursor = Block(frames)
  BY <1>1, Ready DEF At
<1>5. QED
  BY <1>3, <1>4 DEF EmitsHere

\* What comes next is emitted to the current block.
LEMMA CursorEmits ==
  ASSUME IInv, status = "running", visits # <<>>,
         \A b \in Blocks : b # cursor => code'[b] = code[b]
  PROVE  EmitsHere
BY Ready DEF EmitsHere

LEMMA SimplesEmit ==
  ASSUME IInv, visits # <<>>, Simples
  PROVE  EmitsHere
<1>1. CASE SwitchNoDefault
  BY <1>1, OpensEmit
<1>2. CASE StmtBreak \/ StmtCont \/ StmtReturn
  <2>1. PICK targets : status = "running" /\ code' = Terminate(code, cursor, targets)
    BY <1>2 DEF StmtBreak, StmtCont, StmtReturn, EndBlock, Visit
  <2>2. \A b \in Blocks : b # cursor => code'[b] = code[b]
    BY <2>1, FallEmits DEF Blocks
  <2>3. QED
    BY <2>1, <2>2, CursorEmits
<1>3. QED
  BY <1>1, <1>2 DEF Simples, DeclVar, StmtExpr, EmitsHere

LEMMA ContinuesEmit ==
  ASSUME TInv, Continues
  PROVE  EmitsHere
<1>1. IInv
  BY DEF TInv
<1>2. CASE ElseBranch
  <2>1. status = "running" /\ visits # <<>> /\ code' = Fall(Top(visits).exit)
    BY <1>2 DEF ElseBranch, At
  <2>2. \A b \in Blocks : b # cursor => code'[b] = code[b]
    BY <1>1, <2>1, FallEmits DEF Blocks
  <2>3. QED
    BY <1>1, <2>1, <2>2, CursorEmits
<1>3. CASE ForCondition
  <2> DEFINE v == Top(visits)
             c == Terminate(code, cursor, {v.cond})
  <2>1. /\ At("for", "decls")
        /\ code' = Terminate(c, v.cond, {v.loop, v.exit})
    BY <1>3 DEF ForCondition
  <2>2. /\ status = "running" /\ visits # <<>> /\ Len(owner) \in Nat
        /\ code \in Code(Len(owner)) /\ Len(code) = Len(owner)
        /\ v.cond \in 0 .. Len(owner) /\ v.cond # NoBlock
    BY <1>1, <2>1, AtTop DEF HasLocals, Loops
  <2>3. v.cond \in Locals(v) /\ {v.cond} \in SUBSET (1 .. Len(owner))
    BY <2>2 DEF Locals, NoBlock
  <2>4. c \in Code(Len(owner)) /\ Len(c) = Len(owner)
    BY <2>2, <2>3, TerminateType
  <2> HIDE DEF c, v
  <2>5. \A b \in Blocks : b # cursor /\ b # v.cond => code'[b] = code[b]
    <3> SUFFICES ASSUME NEW b \in 1 .. Len(owner), b # cursor, b # v.cond
                 PROVE  code'[b] = code[b]
      BY DEF Blocks
    <3>1. c[b] = code[b]
      BY <1>1, <2>2, FallEmits DEF c
    <3>2. code'[b] = c[b]
      BY <2>1, <2>2, <2>4, TerminateOthers
    <3>3. QED
      BY <3>1, <3>2
  <2>6. QED
    BY <2>1, <2>3, <2>5, LocalEmits DEF v
<1>4. QED
  BY <1>2, <1>3 DEF Continues, FunArgument, FunBody, EmitsHere

\* A handler that may branch from the current block to a block of its own, and
\* on from there.
LEMMA JoinEmits ==
  ASSUME TInv, NEW kind, kind \notin {"tree", "fun"}, NEW at, At(kind, at),
         NEW block \in Locals(Top(visits)), NEW targets,
         code' = Terminate(Fall(block), block, targets)
  PROVE  EmitsHere
<1>1. IInv
  BY DEF TInv
<1>2. /\ status = "running" /\ visits # <<>> /\ Len(owner) \in Nat
      /\ code \in Code(Len(owner)) /\ Len(code) = Len(owner)
      /\ Top(visits).exit \in 0 .. Len(owner) /\ Top(visits).cond \in 0 .. Len(owner)
      /\ Top(visits).loop \in 0 .. Len(owner) /\ Top(visits).alt \in 0 .. Len(owner)
  BY <1>1, AtTop
<1>3. block \in 1 .. Len(owner)
  BY <1>2 DEF Locals, NoBlock
<1>4. Fall(block) \in Code(Len(owner)) /\ Len(Fall(block)) = Len(owner)
  BY <1>2, <1>3, FallType
<1>5. \A b \in Blocks : b # cursor /\ b # block => code'[b] = code[b]
  <2> SUFFICES ASSUME NEW b \in 1 .. Len(owner), b # cursor, b # block
               PROVE  code'[b] = code[b]
    BY DEF Blocks
  <2>1. Fall(block)[b] = code[b]
    BY <1>1, <1>2, FallEmits
  <2>2. code'[b] = Fall(block)[b]
    BY <1>4, TerminateOthers
  <2>3. QED
    BY <2>1, <2>2
<1>6. QED
  BY <1>5, LocalEmits

LEMMA ClosesEmit ==
  ASSUME TInv, Closes
  PROVE  EmitsHere
<1>1. IInv
  BY DEF TInv
<1>2. CASE CloseScope \/ CloseLabel \/ CloseIf \/ CloseSwitch
  <2>1. status = "running" /\ visits # <<>> /\ code' = Fall(Top(visits).exit)
    BY <1>2 DEF CloseScope, CloseLabel, CloseRegion, CloseIf, CloseSwitch, At
  <2>2. \A b \in Blocks : b # cursor => code'[b] = code[b]
    BY <1>1, <2>1, FallEmits DEF Blocks
  <2>3. QED
    BY <1>1, <2>1, <2>2, CursorEmits
<1>3. CASE CloseWhile
  <2>1. status = "running" /\ visits # <<>>
        /\ code' = Terminate(code, cursor, {Top(visits).cond})
    BY <1>3 DEF CloseWhile, At
  <2>2. \A b \in Blocks : b # cursor => code'[b] = code[b]
    BY <1>1, <2>1, FallEmits DEF Blocks
  <2>3. QED
    BY <1>1, <2>1, <2>2, CursorEmits
<1>4. CASE CloseFun
  <2>1. status = "running" /\ visits # <<>> /\ code' = Returning(Block(frames), cursor)
    BY <1>4 DEF CloseFun, At
  <2>2. code' = code \/ code' = Terminate(code, cursor, Return)
    BY <2>1 DEF Returning
  <2>3. \A b \in Blocks : b # cursor => code'[b] = code[b]
    BY <1>1, <2>1, <2>2, FallEmits DEF Blocks
  <2>4. QED
    BY <1>1, <2>1, <2>3, CursorEmits
<1>5. CASE CloseTree
  <2> DEFINE block == PopBlock(frames)
  <2>1. /\ At("tree", "list") /\ status = "running" /\ visits # <<>>
        /\ code' = Returning(block, block)
    BY <1>5 DEF CloseTree, At
  <2>2. /\ visits \in Seq(Activation(Len(owner))) /\ Discipline(visits, frames)
        /\ frames \in Seq(Frame(Len(owner))) /\ Top(visits).kind = "tree"
        /\ cursor = Block(frames)
    BY <1>1, <2>1, Ready DEF At
  <2>3. Len(visits) = 1 /\ Top(visits) = visits[Len(visits)] /\ Len(visits) \in DOMAIN visits
    BY <2>1, <2>2, DisciplineAt, ActivationAt
  <2>4. visits[1].base = 0 /\ Held(visits[1]) = 1 /\ visits[1].kind = "tree"
    BY <2>2, <2>3, SMTT(40) DEF Discipline, Balanced, Held
  <2>5. frames[1].breakBlock = NoBlock
    BY <2>1, <2>3, <2>4 DEF TInv, Chained, Chains, Chain, Inherits
  <2>6. Len(frames) = 1
    BY <1>1, <2>1, <2>3, <2>4, Ready
  <2>7. block = Block(frames)
    <3>1. ~ (Len(frames) > 1)
      BY <2>6
    <3>2. frames[Len(frames)].breakBlock = NoBlock
      BY <2>5, <2>6
    <3>3. QED
      BY <3>1, <3>2 DEF PopBlock, Block, Top
  <2> HIDE DEF block
  <2>8. code' = code \/ code' = Terminate(code, cursor, Return)
    BY <2>1, <2>2, <2>7 DEF Returning
  <2>9. \A b \in Blocks : b # cursor => code'[b] = code[b]
    BY <1>1, <2>1, <2>8, FallEmits DEF Blocks
  <2>10. QED
    BY <1>1, <2>1, <2>9, CursorEmits
<1>6. CASE CloseDo
  <2>1. At("do", "after")
        /\ code' = Terminate(Fall(Top(visits).cond), Top(visits).cond,
                             {Top(visits).loop, Top(visits).exit})
    BY <1>6 DEF CloseDo
  <2>2. Top(visits).cond \in Locals(Top(visits))
    BY <1>1, <2>1, AtTop DEF HasLocals, Loops, Locals
  <2>3. QED
    BY <2>1, <2>2, JoinEmits
<1>7. CASE CloseFor
  <2>1. /\ At("for", "after")
        /\ \/ code' = code
           \/ code' = Terminate(Fall(Top(visits).alt), Top(visits).alt, {Top(visits).cond})
    BY <1>7 DEF CloseFor
  <2>2. Top(visits).alt \in Locals(Top(visits))
    BY <1>1, <2>1, AtTop DEF HasLocals, Loops, Locals
  <2>3. CASE code' = code
    BY <2>3 DEF EmitsHere
  <2>4. CASE code' # code
    BY <2>1, <2>2, <2>4, JoinEmits
  <2>5. QED
    BY <2>3, <2>4
<1>8. QED
  BY <1>2, <1>3, <1>4, <1>5, <1>6, <1>7 DEF Closes, CloseUse, EmitsHere

\* Whatever the step, code goes to the function of the current block, and none
\* is emitted once the visit is over.
LEMMA NextEmits ==
  ASSUME TInv, visits # <<>>, [Next]_vars
  PROVE  EmitsHere /\ (status # "running" => code' = code)
<1>1. IInv
  BY DEF TInv
<1>2. CASE Simples
  <2>1. status = "running"
    BY <1>2 DEF Simples, DeclVar, AtDeclaration, StmtExpr, StmtBreak, StmtCont, StmtReturn,
       SwitchNoDefault, Visit
  <2>2. QED
    BY <1>1, <1>2, <2>1, SimplesEmit
<1>3. CASE Opens
  <2>1. status = "running"
    BY <1>3 DEF Opens, OpenTree, OpenScope, OpenLabel, OpenRegion, OpenFun, OpenSwitch,
       OpenWhile, OpenDo, OpenFor, OpenUse, OpenIf, Visit
  <2>2. QED
    BY <1>1, <1>3, <2>1, OpensEmit
<1>4. CASE Continues
  <2>1. status = "running"
    BY <1>4 DEF Continues, FunArgument, FunBody, ElseBranch, ForCondition, At
  <2>2. QED
    BY <1>4, <2>1, ContinuesEmit
<1>5. CASE Closes
  <2>1. status = "running"
    BY <1>5 DEF Closes, CloseTree, CloseFun, CloseScope, CloseLabel, CloseRegion, CloseSwitch,
       CloseWhile, CloseDo, CloseFor, CloseUse, CloseIf, At
  <2>2. QED
    BY <1>5, <2>1, ClosesEmit
<1>6. CASE Throws \/ Finished \/ UNCHANGED vars
  <2>1. code' = code
    BY <1>6 DEF Throws, DeclVarThrows, StmtExprThrows, JumpThrows, UseThrows, Throw,
       Finished, vars
  <2>2. QED
    BY <2>1 DEF EmitsHere
<1>7. QED
  BY <1>2, <1>3, <1>4, <1>5, <1>6 DEF Next

-----------------------------------------------------------------------------
(* The theorems.                                                           *)

\* The chain of the waiting handlers, and what the stack and the visits keep
\* without it, hold in every state.
THEOREM ChainInvariance == Spec => []TInv
<1>1. Init => TInv
  <2> SUFFICES ASSUME Init PROVE TInv
    OBVIOUS
  <2>1. DOMAIN visits = {}
    BY DEF Init
  <2>2. QED
    BY <2>1, InitIInv DEF TInv, Chained, Chains
<1>2. TInv /\ [Next]_vars => TInv'
  BY NextChained
<1>3. QED
  BY <1>1, <1>2, PTL DEF Spec

\* Wherever a break or a continue may come next, the frame on top of the scope
\* stack names the exit of the innermost loop or switch and the continue target
\* of the innermost loop (stack.cpp:30-35), whatever lies between: JumpTargets,
\* for every program and every depth.
THEOREM JumpsLeadRight == Spec => []JumpTargets
<1>1. TInv => JumpTargets
  <2>1. ASSUME TInv, status = "running", visits # <<>>
        PROVE  JumpTargets
    BY <2>1, TargetsAre
  <2>2. QED
    BY <2>1 DEF JumpTargets
<1>2. QED
  BY <1>1, ChainInvariance, PTL

\* A step of the generator never emits into a function other than the one whose
\* declaration is under way (codegen.cpp:310): EmitsInOwnFunction, for every
\* program and every depth.
THEOREM OwnFunction == Spec => EmitsInOwnFunction
<1> DEFINE Own == visits # <<>> => \A b \in Blocks :
                    code'[b] # code[b] => owner[b] = CurrentFunction
<1>1. TInv /\ [Next]_vars => [Own]_vars
  <2> SUFFICES ASSUME TInv, [Next]_vars, visits # <<>>, NEW b \in Blocks,
                      code'[b] # code[b]
               PROVE  owner[b] = CurrentFunction
    OBVIOUS
  <2>1. EmitsHere /\ status = "running"
    BY NextEmits
  <2>2. owner[b] = owner[Block(frames)]
    BY <2>1 DEF EmitsHere
  <2>3. QED
    BY <2>1, <2>2, BlockInFunction
<1>2. QED
  BY <1>1, ChainInvariance, PTL DEF Spec, EmitsInOwnFunction
=============================================================================
