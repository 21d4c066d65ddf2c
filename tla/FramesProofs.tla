---------------------------- MODULE FramesProofs ----------------------------
(***************************************************************************)
(* What the operations of the scope stack return, for every stack.         *)
(***************************************************************************)
EXTENDS Frames, SequenceTheorems, WellFoundedInduction, TLAPS

\* Two frames that differ at most in their symbols.
SameBlocks(e, f) ==
  /\ e.insertBlock = f.insertBlock
  /\ e.breakBlock = f.breakBlock
  /\ e.conditionBlock = f.conditionBlock

\* Frames over some blocks are frames over more.
LEMMA FramesWiden ==
  ASSUME NEW m \in Nat, NEW n \in Nat, m <= n, NEW s \in Seq(Frame(m))
  PROVE  s \in Seq(Frame(n))
<1>1. Frame(m) \subseteq Frame(n)
  BY DEF Frame
<1>2. QED
  BY <1>1

LEMMA NoSymbolsType == NoSymbols \in [Names -> Symbol]
BY DEF NoSymbols, NoSymbol, NoStorage, Symbol

\* Push (stack.cpp:24) leaves the frames below alone and puts one on top, for
\* the given block, with the break block it is given or, for a null one, the
\* one of the frame below.
LEMMA PushProperties ==
  ASSUME NEW n \in Nat, NEW s \in Seq(Frame(n)), NEW insert \in 1 .. n,
         NEW break \in 0 .. n, NEW condition \in 0 .. n
  PROVE  /\ Push(s, insert, break, condition) \in Seq(Frame(n))
         /\ Len(Push(s, insert, break, condition)) = Len(s) + 1
         /\ \A i \in 1 .. Len(s) : Push(s, insert, break, condition)[i] = s[i]
         /\ Push(s, insert, break, condition)[Len(s) + 1].insertBlock = insert
         /\ break # NoBlock =>
              Push(s, insert, break, condition)[Len(s) + 1].breakBlock = break
<1> DEFINE inherit(given, above) == IF given = NoBlock /\ s # <<>> THEN above ELSE given
           f == [insertBlock    |-> insert,
                 breakBlock     |-> inherit(break, Top(s).breakBlock),
                 conditionBlock |-> inherit(condition, Top(s).conditionBlock),
                 symbols        |-> NoSymbols]
<1>1. s # <<>> => Top(s) \in Frame(n)
  BY DEF Top
<1>2. s # <<>> => Top(s).breakBlock \in 0 .. n /\ Top(s).conditionBlock \in 0 .. n
  BY <1>1 DEF Frame
<1>3. inherit(break, Top(s).breakBlock) \in 0 .. n
  BY <1>2
<1>4. inherit(condition, Top(s).conditionBlock) \in 0 .. n
  BY <1>2
<1>5. f \in Frame(n)
  BY <1>3, <1>4, NoSymbolsType DEF Frame
<1>6. f.insertBlock = insert /\ (break # NoBlock => f.breakBlock = break)
  OBVIOUS
<1>7. Push(s, insert, break, condition) = Append(s, f)
  BY DEF Push
<1> HIDE DEF f
<1>8. QED
  BY <1>5, <1>6, <1>7, AppendProperties

\* Pop (stack.cpp:52) leaves the frames below the top.
LEMMA PopProperties ==
  ASSUME NEW S, NEW s \in Seq(S), s # <<>>
  PROVE  /\ Pop(s) \in Seq(S)
         /\ Len(Pop(s)) = Len(s) - 1
         /\ \A i \in 1 .. Len(s) - 1 : Pop(s)[i] = s[i]
<1>1. Len(s) \in Nat /\ Len(s) >= 1
  BY EmptySeq
<1> DEFINE m == Len(s) - 1
<1> HIDE DEF m
<1>2. m \in Nat /\ m + 1 = Len(s) /\ \A i \in 1 .. m : i \in 1 .. Len(s)
  BY <1>1 DEF m
<1>3. /\ SubSeq(s, 1, Len(s) - 1) \in Seq(S)
      /\ Len(SubSeq(s, 1, Len(s) - 1)) = Len(s) - 1
      /\ \A i \in 1 .. Len(s) - 1 : SubSeq(s, 1, Len(s) - 1)[i] = s[i]
  <2>1. SubSeq(s, 1, m) = [i \in 1 .. m |-> s[i]]
    BY <1>2, <1>1, SubSeqProperties
  <2>2. \A i \in 1 .. m : s[i] \in S
    BY <1>2, ElementOfSeq
  <2>3. [i \in 1 .. m |-> s[i]] \in Seq(S) /\ Len([i \in 1 .. m |-> s[i]]) = m
    BY <1>2, <2>2, IsASeq
  <2>4. QED
    BY <2>1, <2>3 DEF m
<1>4. QED
  BY <1>3 DEF Pop, Rest

\* Join (stack.cpp:77) gives the top frame a new block and changes no more.
LEMMA JoinProperties ==
  ASSUME NEW n \in Nat, NEW s \in Seq(Frame(n)), s # <<>>, NEW block \in 1 .. n
  PROVE  /\ Join(s, block) \in Seq(Frame(n))
         /\ Len(Join(s, block)) = Len(s)
         /\ \A i \in 1 .. Len(s) - 1 : Join(s, block)[i] = s[i]
         /\ Join(s, block)[Len(s)].insertBlock = block
         /\ Join(s, block)[Len(s)].breakBlock = s[Len(s)].breakBlock
<1>1. Len(s) \in 1 .. Len(s) /\ s[Len(s)] \in Frame(n)
  OBVIOUS
<1> DEFINE f == [s[Len(s)] EXCEPT !.insertBlock = block]
<1>2. f \in Frame(n) /\ f.insertBlock = block /\ f.breakBlock = s[Len(s)].breakBlock
  BY <1>1 DEF Frame
<1>3. Join(s, block) = [s EXCEPT ![Len(s)] = f]
  BY DEF Join
<1> HIDE DEF f
<1>4. QED
  BY <1>1, <1>2, <1>3, ExceptSeq

\* Set (frame.cpp:63) changes symbols only, whatever the name was bound to.
LEMMA SetProperties ==
  ASSUME NEW n \in Nat, NEW s \in Seq(Frame(n)), s # <<>>,
         NEW name \in Names, NEW value \in Nat, NEW isRef \in BOOLEAN
  PROVE  /\ Set(s, name, value, isRef) \in Seq(Frame(n))
         /\ Len(Set(s, name, value, isRef)) = Len(s)
         /\ \A i \in 1 .. Len(s) : SameBlocks(Set(s, name, value, isRef)[i], s[i])
<1> DEFINE rebound(f) == IF Holds(f, name) THEN [f EXCEPT !.symbols[name].value = value] ELSE f
           inserted(f) == [f EXCEPT !.symbols[name] = [value |-> value, isRef |-> isRef]]
<1>1. ASSUME NEW f \in Frame(n)
      PROVE  rebound(f) \in Frame(n) /\ SameBlocks(rebound(f), f)
  BY DEF Frame, Symbol, SameBlocks
<1>2. ASSUME NEW f \in Frame(n)
      PROVE  inserted(f) \in Frame(n) /\ SameBlocks(inserted(f), f)
  BY DEF Frame, Symbol, SameBlocks
<1>3. Len(s) \in 1 .. Len(s) /\ \A i \in 1 .. Len(s) : s[i] \in Frame(n) /\ SameBlocks(s[i], s[i])
  BY DEF SameBlocks
<1>4. CASE Holds(Top(s), name)
  <2>1. Set(s, name, value, isRef) = [s EXCEPT ![Len(s)] = rebound(s[Len(s)])]
    BY <1>3, <1>4 DEF Set, Top
  <2>2. QED
    BY <2>1, <1>1, <1>3, ExceptSeq, SMTT(40)
<1>5. CASE ~ Holds(Top(s), name)
  <2> DEFINE g(i) == IF i < Len(s) THEN rebound(s[i]) ELSE inserted(s[i])
  <2>1. Set(s, name, value, isRef) = [i \in 1 .. Len(s) |-> g(i)]
    BY <1>5 DEF Set
  <2>2. \A i \in 1 .. Len(s) : g(i) \in Frame(n) /\ SameBlocks(g(i), s[i])
    BY <1>1, <1>2, <1>3
  <2> HIDE DEF g
  <2>3. QED
    BY <2>1, <2>2
<1>6. QED
  BY <1>4, <1>5

\* A set of indices that is not empty has a last one.
LEMMA LastIndex ==
  ASSUME NEW k \in Nat, NEW T \in SUBSET (1 .. k), T # {}
  PROVE  \E i \in T : \A j \in T : j <= i
<1> DEFINE U == {d \in Nat : k - d \in T}
<1>1. PICK t \in T : TRUE
  OBVIOUS
<1>2. \A j \in T : j \in 1 .. k
  OBVIOUS
<1>3. \A j \in T : k - j \in U
  BY <1>2
<1>4. U \subseteq Nat /\ U # {}
  BY <1>1, <1>3
<1>5. PICK x \in U : \A y \in U : ~ (<<y, x>> \in OpToRel(<, Nat))
  BY <1>4, NatLessThanWellFounded, WFMin
<1>6. \A y \in U : ~ (y < x)
  BY <1>4, <1>5 DEF OpToRel
<1>7. x \in Nat /\ k - x \in T
  BY <1>5
<1> HIDE DEF U
<1>8. \A j \in T : j <= k - x
  <2> TAKE j \in T
  <2>1. ~ (k - j < x)
    BY <1>3, <1>6
  <2>2. QED
    BY <2>1, <1>2, <1>7
<1>9. QED
  BY <1>7, <1>8

\* Get (frame.cpp:36) finds a symbol for every name some frame holds: that of
\* the nearest one.
LEMMA SymbolOfType ==
  ASSUME NEW n \in Nat, NEW s \in Seq(Frame(n)), NEW name \in Names, Visible(s, name)
  PROVE  SymbolOf(s, name) \in Symbol
<1> DEFINE T == {i \in DOMAIN s : Holds(s[i], name)}
<1>1. DOMAIN s = 1 .. Len(s) /\ Len(s) \in Nat
  BY LenProperties
<1>2. T \in SUBSET (1 .. Len(s)) /\ T # {}
  BY <1>1 DEF Visible
<1>3. PICK i \in T : \A j \in T : j <= i
  BY <1>1, <1>2, LastIndex
<1>4. \A j \in i + 1 .. Len(s) : ~ Holds(s[j], name)
  BY <1>1, <1>2, <1>3
<1>5. \E c \in DOMAIN s : /\ Holds(s[c], name)
                          /\ \A j \in c + 1 .. Len(s) : ~ Holds(s[j], name)
  BY <1>3, <1>4
<1> DEFINE c == CHOOSE c \in DOMAIN s : /\ Holds(s[c], name)
                                        /\ \A j \in c + 1 .. Len(s) : ~ Holds(s[j], name)
<1>6. c \in 1 .. Len(s)
  BY <1>1, <1>5
<1>7. SymbolOf(s, name) = s[c].symbols[name]
  BY DEF SymbolOf
<1> HIDE DEF c
<1>8. s[c] \in Frame(n)
  BY <1>6, ElementOfSeq
<1>9. QED
  BY <1>7, <1>8 DEF Frame
=============================================================================
