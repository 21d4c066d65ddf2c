---------------------------- MODULE CodegenProofs ----------------------------
(***************************************************************************)
(* The discipline of the scope stack, for every program and every bound:   *)
(* every handler leaves the stack as it found it, the insert point is the  *)
(* block of the frame on top, and every block named exists.                *)
(***************************************************************************)
EXTENDS CodegenProps, FramesProofs

-----------------------------------------------------------------------------
(* The inductive invariant.                                                *)

\* The tree's visit is the outermost and the only one of its kind.
TreeFirst(v) == \A i \in DOMAIN v : v[i].kind = "tree" <=> i = 1

\* Balanced, seen from any two visits: an inner one starts above all the frames
\* of an outer one, and above the tree's.
Nested(v) ==
  /\ \A j \in DOMAIN v : j # 1 => v[j].base >= 1
  /\ \A i, j \in DOMAIN v : i < j => v[i].base + Held(v[i]) <= v[j].base

\* A function's frame returns to the block of the frame around it: that is
\* where PopBlock sends the insert point when the function is closed.
FunReturns(v, f) ==
  \A i \in DOMAIN v : v[i].kind = "fun" =>
    f[v[i].base + 1].breakBlock = f[v[i].base].insertBlock

\* The blocks a handler will still push or join have been created.
HasLocals(a) ==
  /\ a.kind \notin {"tree", "fun", "use"} => a.exit # NoBlock
  /\ a.kind \in Loops => a.cond # NoBlock
  /\ a.kind = "for" => a.loop # NoBlock /\ a.alt # NoBlock
  /\ a.kind = "do" => a.loop # NoBlock

LocalsSet(v) == \A i \in DOMAIN v : HasLocals(v[i])

\* The handlers v and the scope stack f belong together.
Discipline(v, f) ==
  /\ Balanced(v, Len(f))
  /\ TreeFirst(v)
  /\ Nested(v)
  /\ FunReturns(v, f)
  /\ LocalsSet(v)

IInv ==
  /\ TypeOK
  /\ status = "running" => Discipline(visits, frames)
  /\ CursorSync
  /\ status = "done" => frames = <<>>

-----------------------------------------------------------------------------
(* Handlers entering, advancing and leaving, for any visits and stack.     *)

LEMMA AboveOne == \A k \in Nat : k >= 1 /\ k # 1 => k > 1
OBVIOUS

LEMMA HeldType ==
  ASSUME NEW n \in Nat, NEW a \in Activation(n)
  PROVE  Held(a) \in 0 .. 3 /\ (a.kind # "use" => Held(a) >= 1)
BY DEF Activation, Held

LEMMA ActivationsWiden ==
  ASSUME NEW m \in Nat, NEW n \in Nat, m <= n, NEW v \in Seq(Activation(m))
  PROVE  v \in Seq(Activation(n))
<1>1. Activation(m) \subseteq Activation(n)
  BY DEF Activation
<1>2. QED
  BY <1>1

\* Every waiting handler is well typed and holds a natural number of frames.
LEMMA ActivationAt ==
  ASSUME NEW n \in Nat, NEW v \in Seq(Activation(n))
  PROVE  /\ Len(v) \in Nat
         /\ DOMAIN v = 1 .. Len(v)
         /\ v # <<>> => Len(v) >= 1
         /\ \A i \in 1 .. Len(v) :
              /\ v[i] \in Activation(n)
              /\ v[i].base \in Nat
              /\ Held(v[i]) \in 0 .. 3
              /\ v[i].kind # "use" => Held(v[i]) >= 1
<1>1. Len(v) \in Nat /\ DOMAIN v = 1 .. Len(v)
  BY LenProperties
<1>2. v # <<>> => Len(v) >= 1
  BY EmptySeq
<1>3. ASSUME NEW i \in 1 .. Len(v)
      PROVE  v[i] \in Activation(n)
  BY ElementOfSeq
<1>4. ASSUME NEW a \in Activation(n)
      PROVE  a.base \in Nat
  BY DEF Activation
<1>5. QED
  BY <1>1, <1>2, <1>3, <1>4, HeldType

\* What one handler's part of the discipline asks of the rest.
LEMMA DisciplineAt ==
  ASSUME NEW n \in Nat, NEW v \in Seq(Activation(n)), NEW f \in Seq(Frame(n)),
         v # <<>>, Discipline(v, f)
  PROVE  /\ Top(v) = v[Len(v)]
         /\ Len(f) \in Nat
         /\ Len(f) = Top(v).base + Held(Top(v))
         /\ Len(f) >= 1
         /\ Len(v) > 1 => Top(v).base >= 1
         /\ Top(v).kind = "tree" <=> Len(v) = 1
<1> DEFINE k == Len(v)
           t == v[k]
<1>1. k \in Nat /\ k >= 1 /\ k \in DOMAIN v
  BY ActivationAt
<1>2. Held(t) \in 0 .. 3 /\ t.base \in Nat /\ (t.kind # "use" => Held(t) >= 1)
  BY <1>1, ActivationAt
<1>3. Len(f) = t.base + Held(t)
  BY DEF Discipline, Balanced
<1>4. t.kind = "tree" <=> k = 1
  BY <1>1 DEF Discipline, TreeFirst
<1>5. k # 1 => t.base >= 1
  BY <1>1 DEF Discipline, Nested
<1>6. Top(v) = t
  BY DEF Top
<1> HIDE DEF k, t
<1>7. Len(f) >= 1
  <2>1. CASE k = 1
    BY <2>1, <1>2, <1>3, <1>4
  <2>2. CASE k # 1
    BY <2>2, <1>2, <1>3, <1>5
  <2>3. QED
    BY <2>1, <2>2
<1>8. QED
  BY <1>1, <1>2, <1>3, <1>4, <1>5, <1>6, <1>7, LenProperties DEF k, t

\* A handler that nests a visit: its activation goes on top, with the frames it
\* has pushed on top of the stack it found.
LEMMA NestVisit ==
  ASSUME NEW n \in Nat, NEW v \in Seq(Activation(n)), NEW f \in Seq(Frame(n)),
         v # <<>>, Discipline(v, f),
         NEW a \in Activation(n), a.kind # "tree", a.base = Len(f),
         HasLocals(a),
         NEW g \in Seq(Frame(n)), Len(g) = Len(f) + Held(a),
         \A i \in 1 .. Len(f) : g[i] = f[i],
         a.kind = "fun" => g[Len(f) + 1].breakBlock = f[Len(f)].insertBlock
  PROVE  /\ Append(v, a) \in Seq(Activation(n))
         /\ Append(v, a) # <<>>
         /\ Discipline(Append(v, a), g)
<1> DEFINE w == Append(v, a)
           k == Len(v)
           d == Len(f)
<1>1. k \in Nat /\ k >= 1 /\ d >= 1 /\ d \in Nat
  BY ActivationAt, DisciplineAt
<1>2. /\ w \in Seq(Activation(n)) /\ Len(w) = k + 1 /\ w[k + 1] = a
      /\ \A i \in 1 .. k : w[i] = v[i]
  BY AppendProperties
<1>3. w # <<>> /\ w[1] = v[1]
  BY <1>1, <1>2, EmptySeq
<1>4. \A i \in 1 .. k : v[i].base \in Nat /\ Held(v[i]) \in 0 .. 3
  BY ActivationAt
<1>5. DOMAIN v = 1 .. k /\ DOMAIN w = 1 .. k + 1
  BY <1>2, LenProperties
<1>6. v[k].base + Held(v[k]) = Len(f)
  BY DEF Discipline, Balanced
<1>7. \A i \in 1 .. k : v[i].base + Held(v[i]) <= Len(f)
  <2> TAKE i \in 1 .. k
  <2>1. CASE i = k
    BY <2>1, <1>6, <1>1
  <2>2. CASE i < k
    <3>1. v[i].base + Held(v[i]) <= v[k].base
      BY <2>2, <1>5, <1>1 DEF Discipline, Nested
    <3>2. QED
      BY <3>1, <1>6, <1>4, <1>1, SMTT(40)
  <2>3. QED
    BY <2>1, <2>2, <1>1
<1>8. Balanced(w, Len(g))
  <2>1. w[1].base = 0
    BY <1>3 DEF Discipline, Balanced
  <2>2. \A i \in 1 .. k : w[i + 1].base = w[i].base + Held(w[i])
    <3> TAKE i \in 1 .. k
    <3>1. CASE i = k
      BY <3>1, <1>1, <1>2, <1>6
    <3>2. CASE i < k
      BY <3>2, <1>1, <1>2 DEF Discipline, Balanced
    <3>3. QED
      BY <3>1, <3>2, <1>1
  <2>3. Len(w) - 1 = k
    BY <1>1, <1>2
  <2>4. Len(g) = w[Len(w)].base + Held(w[Len(w)])
    BY <1>2
  <2> HIDE DEF w, k
  <2>5. QED
    BY <2>1, <2>2, <2>3, <2>4, <1>3 DEF Balanced
<1>9. TreeFirst(w)
  BY <1>1, <1>2, <1>5 DEF Discipline, TreeFirst
<1>10. Nested(w)
  <2>1. \A j \in 1 .. k + 1 : j # 1 => w[j].base >= 1
    BY <1>1, <1>2, <1>5 DEF Discipline, Nested
  <2>2. ASSUME NEW i \in 1 .. k + 1, NEW j \in 1 .. k + 1, i < j
        PROVE  w[i].base + Held(w[i]) <= w[j].base
    <3>1. CASE j = k + 1
      BY <2>2, <3>1, <1>1, <1>2, <1>7
    <3>2. CASE j < k + 1
      <4>1. i \in 1 .. k /\ j \in 1 .. k
        BY <2>2, <3>2, <1>1
      <4>2. v[i].base + Held(v[i]) <= v[j].base
        BY <4>1, <2>2, <1>5 DEF Discipline, Nested
      <4>3. QED
        BY <4>1, <4>2, <1>2
    <3>3. QED
      BY <3>1, <3>2, <1>1
  <2>3. QED
    BY <2>1, <2>2, <1>5 DEF Nested
<1>11. FunReturns(w, g)
  <2>1. ASSUME NEW i \in 1 .. k, v[i].kind = "fun"
        PROVE  g[v[i].base + 1].breakBlock = g[v[i].base].insertBlock
    <3>1. Held(v[i]) = 1
      BY <2>1 DEF Held
    <3>2. i # 1
      BY <2>1, <1>5 DEF Discipline, TreeFirst
    <3>3. v[i].base >= 1
      BY <3>2, <1>5 DEF Discipline, Nested
    <3>4. v[i].base \in 1 .. Len(f) /\ v[i].base + 1 \in 1 .. Len(f)
      BY <3>1, <3>3, <1>1, <1>4, <1>7
    <3>5. QED
      BY <2>1, <3>4, <1>5 DEF Discipline, FunReturns
  <2>2. a.kind = "fun" => g[Len(f) + 1].breakBlock = g[Len(f)].insertBlock
    BY <1>1
  <2>3. ASSUME NEW i \in 1 .. k + 1, w[i].kind = "fun"
        PROVE  g[w[i].base + 1].breakBlock = g[w[i].base].insertBlock
    <3>1. CASE i = k + 1
      BY <2>2, <2>3, <3>1, <1>2
    <3>2. CASE i # k + 1
      BY <2>1, <2>3, <3>2, <1>1, <1>2
    <3>3. QED
      BY <3>1, <3>2
  <2> HIDE DEF w, k
  <2>4. QED
    BY <2>3, <1>5 DEF FunReturns
<1>12. LocalsSet(w)
  <2>1. \A i \in 1 .. k + 1 : i = k + 1 \/ i \in 1 .. k
    BY <1>1
  <2>2. QED
    BY <2>1, <1>2, <1>5 DEF Discipline, LocalsSet
<1>13. QED
  BY <1>1, <1>2, <1>8, <1>9, <1>10, <1>11, <1>12 DEF Discipline

\* A handler that goes on to its next nested visit, with b for its activation:
\* it may change its own frames, and join the block of the frame below them.
LEMMA AdvanceVisit ==
  ASSUME NEW n \in Nat, NEW v \in Seq(Activation(n)), NEW f \in Seq(Frame(n)),
         v # <<>>, Discipline(v, f),
         NEW b \in Activation(n), b.kind = Top(v).kind, b.base = Top(v).base,
         HasLocals(b),
         NEW g \in Seq(Frame(n)), Len(g) = b.base + Held(b),
         \A i \in 1 .. b.base : g[i].breakBlock = f[i].breakBlock,
         \A i \in 1 .. b.base - 1 : g[i].insertBlock = f[i].insertBlock,
         b.kind = "fun" => /\ g[b.base].insertBlock = f[b.base].insertBlock
                           /\ g[b.base + 1].breakBlock = f[b.base + 1].breakBlock
  PROVE  /\ [v EXCEPT ![Len(v)] = b] \in Seq(Activation(n))
         /\ [v EXCEPT ![Len(v)] = b] # <<>>
         /\ Discipline([v EXCEPT ![Len(v)] = b], g)
<1> DEFINE w == [v EXCEPT ![Len(v)] = b]
           k == Len(v)
<1>1. k \in Nat /\ k >= 1 /\ DOMAIN v = 1 .. k /\ k \in 1 .. k
  BY ActivationAt
<1>2. /\ w \in Seq(Activation(n)) /\ Len(w) = k /\ w[k] = b
      /\ \A i \in 1 .. k : i # k => w[i] = v[i]
  BY <1>1, ExceptSeq
<1>3. w # <<>> /\ DOMAIN w = 1 .. k
  BY <1>1, <1>2, EmptySeq, LenProperties
<1>4. \A i \in 1 .. k : v[i].base \in Nat /\ Held(v[i]) \in 0 .. 3
  BY ActivationAt
<1>5. b.kind = v[k].kind /\ b.base = v[k].base
  BY DEF Top
<1>6. \A i \in 1 .. k : w[i].kind = v[i].kind /\ w[i].base = v[i].base
  BY <1>2, <1>5
<1>7. \A i \in 1 .. k : i < k => v[i].base + Held(v[i]) <= b.base
  BY <1>1, <1>5 DEF Discipline, Nested
<1>8. Balanced(w, Len(g))
  <2>1. w[1].base = 0
    <3>1. v[1].base = 0 /\ 1 \in 1 .. k
      BY <1>1 DEF Discipline, Balanced
    <3>2. QED
      BY <3>1, <1>6
  <2>2. \A i \in 1 .. k - 1 : w[i + 1].base = w[i].base + Held(w[i])
    <3> TAKE i \in 1 .. k - 1
    <3>1. i \in 1 .. k /\ i + 1 \in 1 .. k /\ i # k
      BY <1>1
    <3>2. v[i + 1].base = v[i].base + Held(v[i])
      BY DEF Discipline, Balanced
    <3>3. QED
      BY <3>1, <3>2, <1>2, <1>6
  <2>3. Len(g) = w[Len(w)].base + Held(w[Len(w)])
    BY <1>2
  <2> HIDE DEF w, k
  <2>4. QED
    BY <2>1, <2>2, <2>3, <1>2, <1>3 DEF Balanced
<1>9. TreeFirst(w)
  BY <1>1, <1>3, <1>6 DEF Discipline, TreeFirst
<1>10. Nested(w)
  <2>1. \A j \in 1 .. k : j # 1 => w[j].base >= 1
    BY <1>1, <1>6 DEF Discipline, Nested
  <2>2. ASSUME NEW i \in 1 .. k, NEW j \in 1 .. k, i < j
        PROVE  w[i].base + Held(w[i]) <= w[j].base
    <3>1. i # k
      BY <2>2, <1>1
    <3>2. v[i].base + Held(v[i]) <= v[j].base
      BY <2>2, <1>1 DEF Discipline, Nested
    <3>3. QED
      BY <3>1, <3>2, <1>2, <1>6
  <2> HIDE DEF w, k
  <2>3. QED
    BY <2>1, <2>2, <1>3 DEF Nested
<1>11. FunReturns(w, g)
  <2>1. ASSUME NEW i \in 1 .. k, w[i].kind = "fun"
        PROVE  g[w[i].base + 1].breakBlock = g[w[i].base].insertBlock
    <3>1. f[v[i].base + 1].breakBlock = f[v[i].base].insertBlock
      BY <2>1, <1>1, <1>6 DEF Discipline, FunReturns
    <3>2. i # 1 /\ v[i].base >= 1
      BY <2>1, <1>1, <1>6 DEF Discipline, TreeFirst, Nested
    <3>3. CASE i = k
      BY <3>1, <3>2, <3>3, <2>1, <1>2, <1>4, <1>5
    <3>4. CASE i # k
      <4>1. Held(v[i]) = 1
        BY <2>1, <1>6 DEF Held
      <4>2. v[i].base + 1 <= b.base
        <5> HIDE DEF k
        <5>1. i < k
          BY <3>4, <1>1
        <5>2. v[i].base + Held(v[i]) <= b.base
          BY <5>1, <1>7
        <5>3. QED
          BY <5>2, <4>1
      <4>3. v[i].base + 1 \in 1 .. b.base /\ v[i].base \in 1 .. b.base - 1
        BY <4>2, <3>2, <1>4, <1>5, <1>1
      <4>4. QED
        BY <4>3, <3>1, <1>6
    <3>5. QED
      BY <3>3, <3>4
  <2> HIDE DEF w, k
  <2>2. QED
    BY <2>1, <1>3 DEF FunReturns
<1>12. LocalsSet(w)
  BY <1>1, <1>2, <1>3 DEF Discipline, LocalsSet
<1>13. QED
  BY <1>2, <1>3, <1>8, <1>9, <1>10, <1>11, <1>12 DEF Discipline

\* A handler that returns: its frames are gone, and the block of the frame it
\* started from may be another one.
LEMMA DropVisit ==
  ASSUME NEW n \in Nat, NEW v \in Seq(Activation(n)), NEW f \in Seq(Frame(n)),
         v # <<>>, Discipline(v, f), Top(v).kind # "tree",
         NEW g \in Seq(Frame(n)), Len(g) = Top(v).base,
         \A i \in 1 .. Len(g) : g[i].breakBlock = f[i].breakBlock,
         \A i \in 1 .. Len(g) - 1 : g[i].insertBlock = f[i].insertBlock
  PROVE  /\ Rest(v) \in Seq(Activation(n))
         /\ Rest(v) # <<>>
         /\ Discipline(Rest(v), g)
<1> DEFINE w == Rest(v)
           k == Len(v) - 1
<1>1. k \in Nat /\ k >= 1 /\ DOMAIN v = 1 .. k + 1 /\ Len(v) = k + 1
  <2>1. Len(v) \in Nat /\ Len(v) >= 1 /\ DOMAIN v = 1 .. Len(v)
    BY ActivationAt
  <2>2. Len(v) # 1
    BY DisciplineAt
  <2>3. QED
    BY <2>1, <2>2
<1>2. w \in Seq(Activation(n)) /\ Len(w) = k /\ \A i \in 1 .. k : w[i] = v[i]
  BY PopProperties DEF Pop
<1> HIDE DEF k
<1>3. w # <<>> /\ DOMAIN w = 1 .. k
  BY <1>1, <1>2, EmptySeq, LenProperties
<1>4. \A i \in 1 .. k : v[i].base \in Nat /\ Held(v[i]) \in 0 .. 3
  <2>1. \A i \in 1 .. k + 1 : v[i].base \in Nat /\ Held(v[i]) \in 0 .. 3
    BY <1>1, ActivationAt
  <2>2. QED
    BY <2>1, <1>1
<1>5. v[k + 1].base = Len(g) /\ Len(g) \in Nat
  BY <1>1, LenProperties DEF Top
<1>6. \A i \in 1 .. k : v[i].base + Held(v[i]) <= Len(g)
  <2> TAKE i \in 1 .. k
  <2>1. i \in 1 .. k + 1 /\ k + 1 \in 1 .. k + 1 /\ i < k + 1
    BY <1>1
  <2>2. v[i].base + Held(v[i]) <= v[k + 1].base
    BY <2>1, <1>1 DEF Discipline, Nested
  <2>3. QED
    BY <2>2, <1>5
<1>7. Balanced(w, Len(g))
  <2>1. w[1].base = 0
    BY <1>1, <1>2 DEF Discipline, Balanced
  <2>2. \A i \in 1 .. k : v[i + 1].base = v[i].base + Held(v[i])
    BY <1>1 DEF Discipline, Balanced
  <2>3. \A i \in 1 .. k - 1 : w[i + 1].base = w[i].base + Held(w[i])
    BY <2>2, <1>1, <1>2
  <2>4. Len(g) = w[k].base + Held(w[k])
    BY <2>2, <1>1, <1>2, <1>5
  <2> HIDE DEF w
  <2>5. QED
    BY <2>1, <2>3, <2>4, <1>2, <1>3 DEF Balanced
<1>8. TreeFirst(w)
  BY <1>1, <1>2, <1>3 DEF Discipline, TreeFirst
<1>9. Nested(w)
  <2>1. /\ \A j \in 1 .. k + 1 : j # 1 => v[j].base >= 1
        /\ \A i, j \in 1 .. k + 1 : i < j => v[i].base + Held(v[i]) <= v[j].base
    BY <1>1 DEF Discipline, Nested
  <2>2. \A i \in 1 .. k : i \in 1 .. k + 1
    BY <1>1
  <2> HIDE DEF w
  <2>3. QED
    BY <2>1, <2>2, <1>2, <1>3 DEF Nested
<1>10. FunReturns(w, g)
  <2>1. ASSUME NEW i \in 1 .. k, w[i].kind = "fun"
        PROVE  g[w[i].base + 1].breakBlock = g[w[i].base].insertBlock
    <3>1. w[i] = v[i] /\ i \in DOMAIN v
      BY <1>1, <1>2
    <3>2. f[v[i].base + 1].breakBlock = f[v[i].base].insertBlock
      BY <2>1, <3>1 DEF Discipline, FunReturns
    <3>3. i # 1 /\ v[i].base >= 1
      BY <2>1, <3>1 DEF Discipline, TreeFirst, Nested
    <3>4. Held(v[i]) = 1
      BY <2>1, <3>1 DEF Held
    <3>5. v[i].base + 1 \in 1 .. Len(g) /\ v[i].base \in 1 .. Len(g) - 1
      BY <3>3, <3>4, <1>4, <1>5, <1>6
    <3>6. QED
      BY <3>1, <3>2, <3>5
  <2> HIDE DEF w
  <2>2. QED
    BY <2>1, <1>3 DEF FunReturns
<1>11. LocalsSet(w)
  BY <1>1, <1>2, <1>3 DEF Discipline, LocalsSet
<1>12. QED
  BY <1>2, <1>3, <1>7, <1>8, <1>9, <1>10, <1>11 DEF Discipline

\* The statement visited returns to its handler, which keeps its frames.
LEMMA ReturnedVisit ==
  ASSUME NEW n \in Nat, NEW v \in Seq(Activation(n)), NEW f \in Seq(Frame(n)),
         v # <<>>, Discipline(v, f),
         NEW g \in Seq(Frame(n)), Len(g) = Len(f),
         \A i \in 1 .. Len(f) : g[i].breakBlock = f[i].breakBlock,
         \A i \in 1 .. Len(f) - 1 : g[i].insertBlock = f[i].insertBlock
  PROVE  /\ Returned(v) \in Seq(Activation(n))
         /\ Returned(v) # <<>>
         /\ Discipline(Returned(v), g)
<1> DEFINE t == Top(v)
           b == IF t.at = "body" THEN [t EXCEPT !.at = "after"] ELSE t
<1>1. t \in Activation(n) /\ t = v[Len(v)] /\ HasLocals(t)
  BY ActivationAt DEF Top, Discipline, LocalsSet
<1>2. Returned(v) = [v EXCEPT ![Len(v)] = b]
  <2>1. CASE t.at = "body"
    BY <2>1, <1>1 DEF Returned
  <2>2. CASE t.at # "body"
    <3>1. Returned(v) = v
      BY <2>2 DEF Returned
    <3>2. [v EXCEPT ![Len(v)] = v[Len(v)]] = v
      BY ActivationAt
    <3>3. QED
      BY <3>1, <3>2, <2>2, <1>1
  <2>3. QED
    BY <2>1, <2>2
<1>3. /\ b \in Activation(n)
      /\ b.kind = t.kind /\ b.base = t.base /\ HasLocals(b)
      /\ Held(b) = Held(t)
  BY <1>1 DEF Activation, HasLocals, Held
<1>4. t.base \in Nat /\ Held(t) \in 0 .. 3 /\ (t.kind = "fun" => Held(t) = 1)
  BY <1>1, HeldType DEF Activation, Held
<1>5. Len(f) = t.base + Held(t) /\ Len(f) >= 1 /\ (Len(v) # 1 => t.base >= 1)
      /\ (t.kind = "tree" <=> Len(v) = 1)
  <2>1. Len(v) \in Nat /\ Len(v) >= 1
    BY ActivationAt
  <2>2. /\ Len(f) = Top(v).base + Held(Top(v))
        /\ Len(f) >= 1
        /\ Len(v) > 1 => Top(v).base >= 1
        /\ Top(v).kind = "tree" <=> Len(v) = 1
    BY DisciplineAt
  <2>3. Len(v) # 1 => Len(v) > 1
    BY <2>1, AboveOne
  <2>4. QED
    BY <2>2, <2>3, Zenon
<1> HIDE DEF t, b
<1>6. /\ \A i \in 1 .. b.base : i \in 1 .. Len(f)
      /\ \A i \in 1 .. b.base - 1 : i \in 1 .. Len(f) - 1
  BY <1>3, <1>4, <1>5
<1>7. b.kind = "fun" => b.base \in 1 .. Len(f) - 1 /\ b.base + 1 \in 1 .. Len(f)
  BY <1>3, <1>4, <1>5
<1>8. b.kind = "fun" => /\ g[b.base].insertBlock = f[b.base].insertBlock
                        /\ g[b.base + 1].breakBlock = f[b.base + 1].breakBlock
  BY <1>7
<1>9. Len(g) = b.base + Held(b)
  BY <1>3, <1>5
<1>10. b.kind = Top(v).kind /\ b.base = Top(v).base
  BY <1>3 DEF t
<1>11. /\ \A i \in 1 .. b.base : g[i].breakBlock = f[i].breakBlock
       /\ \A i \in 1 .. b.base - 1 : g[i].insertBlock = f[i].insertBlock
  BY <1>6
<1>12. b \in Activation(n) /\ HasLocals(b)
  BY <1>3
<1>13. /\ [v EXCEPT ![Len(v)] = b] \in Seq(Activation(n))
       /\ [v EXCEPT ![Len(v)] = b] # <<>>
       /\ Discipline([v EXCEPT ![Len(v)] = b], g)
  BY <1>8, <1>9, <1>10, <1>11, <1>12, AdvanceVisit
<1>14. QED
  BY <1>2, <1>13

-----------------------------------------------------------------------------
(* Blocks and code.                                                        *)

Code(n) == Seq(Seq(SUBSET (1 .. n)))

\* A terminator goes to the end of a block, and changes no more.
LEMMA TerminateType ==
  ASSUME NEW n \in Nat, NEW c \in Code(n), NEW b, NEW targets \in SUBSET (1 .. n)
  PROVE  Terminate(c, b, targets) \in Code(n) /\ Len(Terminate(c, b, targets)) = Len(c)
<1>1. CASE b \in 1 .. Len(c)
  <2>1. c[b] \in Seq(SUBSET (1 .. n))
    BY <1>1 DEF Code
  <2>2. Append(c[b], targets) \in Seq(SUBSET (1 .. n))
    BY <2>1, AppendProperties
  <2>3. Terminate(c, b, targets) = [c EXCEPT ![b] = Append(c[b], targets)]
    BY DEF Terminate
  <2>4. QED
    BY <1>1, <2>2, <2>3, ExceptSeq DEF Code
<1>2. CASE b \notin 1 .. Len(c)
  <2>1. Terminate(c, b, targets) = c
    BY <1>2, LenProperties DEF Terminate, Code
  <2>2. QED
    BY <2>1
<1>3. QED
  BY <1>1, <1>2

\* The state while a handler runs: there is a frame, its block is the one the
\* builder appends to, and it exists.
LEMMA Ready ==
  ASSUME IInv, status = "running", visits # <<>>
  PROVE  /\ Len(owner) \in Nat
         /\ visits \in Seq(Activation(Len(owner)))
         /\ frames \in Seq(Frame(Len(owner)))
         /\ code \in Code(Len(owner)) /\ Len(code) = Len(owner)
         /\ owner \in Seq(1 .. Len(owner))
         /\ Discipline(visits, frames)
         /\ frames # <<>> /\ Len(frames) \in Nat /\ Len(frames) >= 1
         /\ Top(frames) = frames[Len(frames)] /\ Top(frames) \in Frame(Len(owner))
         /\ Block(frames) \in 1 .. Len(owner)
         /\ cursor = Block(frames)
         /\ Top(visits) \in Activation(Len(owner))
         /\ HasLocals(Top(visits))
         /\ Len(frames) = Top(visits).base + Held(Top(visits))
<1>1. /\ Len(owner) \in Nat
      /\ visits \in Seq(Activation(Len(owner)))
      /\ frames \in Seq(Frame(Len(owner)))
      /\ code \in Code(Len(owner)) /\ Len(code) = Len(owner)
      /\ owner \in Seq(1 .. Len(owner))
  BY LenProperties DEF IInv, TypeOK, Code, Blocks
<1>2. Discipline(visits, frames) /\ cursor = Block(frames)
  BY DEF IInv, CursorSync
<1>3. /\ Len(frames) \in Nat /\ Len(frames) >= 1
      /\ Len(frames) = Top(visits).base + Held(Top(visits))
  BY <1>1, <1>2, DisciplineAt
<1>4. frames # <<>>
  BY <1>3, EmptySeq
<1>5. Top(frames) = frames[Len(frames)] /\ Top(frames) \in Frame(Len(owner))
  BY <1>1, <1>3, ElementOfSeq DEF Top
<1>6. Block(frames) \in 1 .. Len(owner)
  BY <1>5 DEF Block, Frame
<1>7. Top(visits) = visits[Len(visits)] /\ Len(visits) \in DOMAIN visits
      /\ Top(visits) \in Activation(Len(owner))
  BY <1>1, ActivationAt DEF Top
<1>8. HasLocals(Top(visits))
  BY <1>2, <1>7 DEF Discipline, LocalsSet
<1>9. QED
  BY <1>1, <1>2, <1>3, <1>4, <1>5, <1>6, <1>7, <1>8

\* New blocks come without code; they belong to a function there is.
LEMMA NewBlocks ==
  ASSUME IInv, status = "running", visits # <<>>, NEW k \in Nat
  PROVE  /\ Len(owner) + k \in Nat /\ Len(owner) <= Len(owner) + k
         /\ AddBlocks(k) => owner' \in Seq(1 .. Len(owner) + k)
                            /\ Len(owner') = Len(owner) + k
         /\ Blank(k) \in Code(Len(owner) + k) /\ Len(Blank(k)) = Len(owner) + k
         /\ frames \in Seq(Frame(Len(owner) + k))
         /\ visits \in Seq(Activation(Len(owner) + k))
         /\ cursor \in 1 .. Len(owner) + k
<1> DEFINE m == Len(owner)
           n == m + k
<1>1. m \in Nat /\ n \in Nat /\ m <= n /\ \A b \in 1 .. m : b \in 1 .. n
  BY Ready
<1> HIDE DEF m, n
<1>2. frames \in Seq(Frame(n)) /\ visits \in Seq(Activation(n))
  BY <1>1, Ready, FramesWiden, ActivationsWiden DEF m
<1>3. cursor \in 1 .. n
  BY <1>1, Ready DEF m
<1>4. ASSUME AddBlocks(k)
      PROVE  owner' \in Seq(1 .. n) /\ Len(owner') = n
  <2> DEFINE new == [i \in 1 .. k |-> owner[Block(frames)]]
  <2>1. owner \in Seq(1 .. m) /\ Block(frames) \in 1 .. m
    BY Ready DEF m
  <2>2. owner[Block(frames)] \in 1 .. m
    BY <2>1, ElementOfSeq DEF m
  <2>3. owner \in Seq(1 .. n)
    BY <2>1, <1>1
  <2>4. new \in Seq(1 .. n) /\ Len(new) = k
    BY <2>2, <1>1, IsASeq
  <2>5. owner' = owner \o new
    BY <1>4 DEF AddBlocks
  <2> HIDE DEF new
  <2>6. QED
    BY <2>3, <2>4, <2>5, ConcatProperties DEF m, n
<1>5. Blank(k) \in Code(n) /\ Len(Blank(k)) = n
  <2> DEFINE new == [i \in 1 .. k |-> <<>>]
  <2>1. code \in Code(m) /\ Len(code) = m
    BY Ready DEF m
  <2>2. code \in Code(n)
    <3>1. SUBSET (1 .. m) \subseteq SUBSET (1 .. n)
      BY <1>1
    <3>2. Seq(SUBSET (1 .. m)) \subseteq Seq(SUBSET (1 .. n))
      BY <3>1, SeqMonotonic
    <3>3. QED
      BY <2>1, <3>2, SeqMonotonic DEF Code
  <2>3. <<>> \in Seq(SUBSET (1 .. n))
    BY EmptySeq
  <2>4. new \in Code(n) /\ Len(new) = k
    BY <2>3, IsASeq DEF Code
  <2>5. Blank(k) = code \o new
    BY DEF Blank
  <2> HIDE DEF new
  <2>6. code \o new \in Code(n) /\ Len(code \o new) = Len(code) + Len(new)
    BY <2>2, <2>4, ConcatProperties DEF Code
  <2>7. QED
    BY <2>1, <2>4, <2>5, <2>6 DEF n
<1>6. QED
  BY <1>1, <1>2, <1>3, <1>4, <1>5 DEF m, n

-----------------------------------------------------------------------------
(* Steps of the generator, by what they do to the visits.                  *)

\* Any step of a handler that goes on keeps the invariant, if the visits and the
\* stack it leaves are disciplined and the builder is at the top frame's block.
LEMMA RunningStep ==
  ASSUME IInv, status' = "running", visits' # <<>>,
         NEW n \in Nat,
         owner' \in Seq(1 .. n), Len(owner') = n,
         code' \in Code(n), Len(code') = n,
         visits' \in Seq(Activation(n)),
         frames' \in Seq(Frame(n)),
         Discipline(visits', frames'),
         cursor' = Block(frames'),
         storage' \in Nat, result' \in Symbol
  PROVE  IInv'
<1>1. Len(frames') \in Nat /\ Len(frames') >= 1
  BY DisciplineAt
<1>2. Top(frames') \in Frame(n)
  BY <1>1, ElementOfSeq DEF Top
<1>3. cursor' \in 1 .. n
  BY <1>2 DEF Block, Frame
<1>4. TypeOK'
  BY <1>3 DEF TypeOK, Code, Blocks
<1>5. QED
  BY <1>4 DEF IInv, CursorSync

\* A handler nests a visit.
LEMMA NestStep ==
  ASSUME IInv, status = "running", visits # <<>>, NEW k \in Nat,
         owner' \in Seq(1 .. Len(owner) + k), Len(owner') = Len(owner) + k,
         code' \in Code(Len(owner) + k), Len(code') = Len(owner) + k,
         NEW a \in Activation(Len(owner) + k),
         a.kind # "tree", a.base = Len(frames), HasLocals(a),
         visits' = Append(visits, a),
         frames' \in Seq(Frame(Len(owner) + k)),
         Len(frames') = Len(frames) + Held(a),
         \A i \in 1 .. Len(frames) : frames'[i] = frames[i],
         a.kind = "fun" => frames'[Len(frames) + 1].breakBlock
                             = frames[Len(frames)].insertBlock,
         cursor' = Block(frames'),
         UNCHANGED <<status, storage, result>>
  PROVE  IInv'
<1> DEFINE n == Len(owner) + k
<1>1. /\ n \in Nat /\ frames \in Seq(Frame(n)) /\ visits \in Seq(Activation(n))
  BY NewBlocks
<1>2. Discipline(visits, frames)
  BY Ready
<1> HIDE DEF n
<1>3. /\ visits' \in Seq(Activation(n)) /\ visits' # <<>>
      /\ Discipline(visits', frames')
  BY <1>1, <1>2, NestVisit DEF n
<1>4. storage' \in Nat /\ result' \in Symbol /\ status' = "running"
  BY DEF IInv, TypeOK
<1>5. QED
  BY <1>1, <1>3, <1>4, RunningStep DEF n

\* A statement without nested visits returns to the handler on top.
LEMMA SimpleStep ==
  ASSUME IInv, status = "running", visits # <<>>, NEW k \in Nat,
         owner' \in Seq(1 .. Len(owner) + k), Len(owner') = Len(owner) + k,
         code' \in Code(Len(owner) + k), Len(code') = Len(owner) + k,
         Simple,
         frames' \in Seq(Frame(Len(owner) + k)),
         Len(frames') = Len(frames),
         \A i \in 1 .. Len(frames) : frames'[i].breakBlock = frames[i].breakBlock,
         \A i \in 1 .. Len(frames) - 1 : frames'[i].insertBlock = frames[i].insertBlock,
         cursor' = Block(frames'),
         status' = status, storage' \in Nat, result' \in Symbol
  PROVE  IInv'
<1> DEFINE n == Len(owner) + k
<1>1. /\ n \in Nat /\ frames \in Seq(Frame(n)) /\ visits \in Seq(Activation(n))
  BY NewBlocks
<1>2. Discipline(visits, frames)
  BY Ready
<1> HIDE DEF n
<1>3. /\ visits' \in Seq(Activation(n)) /\ visits' # <<>>
      /\ Discipline(visits', frames')
  BY <1>1, <1>2, ReturnedVisit DEF n, Simple
<1>4. QED
  BY <1>1, <1>3, RunningStep DEF n

\* The handler on top returns: its frames are popped, and the frame below may
\* have been joined with another block.
LEMMA LeaveStep ==
  ASSUME IInv, status = "running", visits # <<>>, Top(visits).kind # "tree",
         code' \in Code(Len(owner)), Len(code') = Len(owner),
         Leave,
         frames' \in Seq(Frame(Len(owner))),
         Len(frames') = Top(visits).base,
         \A i \in 1 .. Len(frames') : frames'[i].breakBlock = frames[i].breakBlock,
         \A i \in 1 .. Len(frames') - 1 : frames'[i].insertBlock = frames[i].insertBlock,
         cursor' = Block(frames'),
         UNCHANGED <<status, owner, storage, result>>
  PROVE  IInv'
<1> DEFINE n == Len(owner)
           w == Rest(visits)
<1>1. /\ n \in Nat /\ frames \in Seq(Frame(n)) /\ visits \in Seq(Activation(n))
      /\ Discipline(visits, frames) /\ owner \in Seq(1 .. n)
  BY Ready
<1> HIDE DEF n
<1>2. w \in Seq(Activation(n)) /\ w # <<>> /\ Discipline(w, frames')
  BY <1>1, DropVisit DEF n
<1>3. /\ Returned(w) \in Seq(Activation(n)) /\ Returned(w) # <<>>
      /\ Discipline(Returned(w), frames')
  <2> HIDE DEF w
  <2>1. QED
    BY <1>1, <1>2, ReturnedVisit DEF n
<1>4. visits' = Returned(w)
  BY DEF Leave
<1>5. storage' \in Nat /\ result' \in Symbol /\ status' = "running"
  BY DEF IInv, TypeOK
<1>6. owner' \in Seq(1 .. n) /\ Len(owner') = n
  BY <1>1 DEF n
<1>7. code' \in Code(n) /\ Len(code') = n /\ frames' \in Seq(Frame(n))
  BY DEF n
<1>8. QED
  BY <1>1, <1>3, <1>4, <1>5, <1>6, <1>7, RunningStep
=============================================================================
