-------------------------- MODULE CodegenTerminators --------------------------
(***************************************************************************)
(* The module that results is the one llvm::verifyModule accepts: theorems *)
(* about the terminators of blocks, for every program that does not put a  *)
(* jump where the generator does not expect one.                           *)
(***************************************************************************)
EXTENDS CodegenTargets

\* No jump outside what it jumps out of, and none that is the whole body of a
\* while or for.
CarefulJumps == BareJumps \cap {"while", "for"} = {} /\ ~ StrayJumps

-----------------------------------------------------------------------------
(* The inductive invariant.                                                *)

\* The blocks still without code that a waiting handler will go on at: a
\* function's is the one its declaration stands in.
Awaits(a, f) ==
  CASE a.kind \in {"scope", "label", "switch", "while"} -> {a.exit}
    [] a.kind = "if" -> {a.exit, a.alt} \ {NoBlock}
    [] a.kind = "do" -> {a.exit, a.cond}
    [] a.kind = "for" -> {a.exit, a.alt} \cup IF a.at = "decls" THEN {a.cond, a.loop} ELSE {}
    [] a.kind = "fun" -> {f[a.base + 1].breakBlock}
    [] OTHER -> {}

\* They are different blocks.
Apart(a) ==
  /\ a.cond # NoBlock => a.cond # a.exit
  /\ a.alt # NoBlock => a.alt \notin {a.exit, a.cond, a.loop}
  /\ a.loop # NoBlock => a.loop \notin {a.exit, a.cond}

\* Every block without code but the current one is awaited by one handler, and
\* every other block has one terminator.
Tidy(v, f, current, c) ==
  /\ \A i \in DOMAIN v : current \notin Awaits(v[i], f) /\ Apart(v[i])
  /\ \A i, j \in DOMAIN v : i # j => Awaits(v[i], f) \cap Awaits(v[j], f) = {}
  /\ \A b \in DOMAIN c : b # current =>
       (c[b] = <<>> <=> \E i \in DOMAIN v : b \in Awaits(v[i], f))

\* Who waits is visiting a statement.
Waits(v) ==
  /\ \A i \in DOMAIN v : i # Len(v) => v[i].at \in {"body", "list"}
  /\ \A i \in DOMAIN v : v[i].kind = "use" => v[i].at = "list"

\* Where a terminator of the current block would be in the way there is none,
\* or it is the return that the end of a function looks for.
Open ==
  /\ Top(visits).at \in {"body", "decls"} => ~ Ended(cursor)
  /\ Top(visits).kind \in {"while", "for"} /\ Top(visits).at = "after" => ~ Ended(cursor)
  /\ Host.kind \in {"while", "for"} /\ Host.at = "body" => ~ Ended(cursor)
  /\ Host.kind \in {"tree", "fun"} /\ Ended(cursor) => code[cursor] = <<Return>>

\* Branches stay in their function and do not go back to its entry.
Stays(c, o) ==
  \A b \in DOMAIN c : \A i \in DOMAIN c[b] : \A t \in c[b][i] : o[t] = o[b] /\ o[t] # t

VInv ==
  /\ TInv
  /\ SingleTerminator
  /\ Stays(code, owner)
  /\ status = "running" => Tidy(visits, frames, cursor, code) /\ Waits(visits)
  /\ status = "running" /\ visits # <<>> => Open
  /\ status = "done" => \A b \in Blocks : ~ (code[b] = <<>>)

-----------------------------------------------------------------------------
(* What a step emits.                                                      *)

\* A terminator that stays in the function of the block b it ends.
Sound(b, targets) == \A t \in targets : owner'[t] = owner'[b] /\ owner'[t] # t

\* A block that a step creates has no code before it.
Before(b) == IF b \in 1 .. Len(owner) THEN code[b] ELSE <<>>

\* The step ends these blocks, none of which was ended, and no other.
Emit(blocks) ==
  /\ DOMAIN code' = 1 .. Len(owner')
  /\ blocks \subseteq DOMAIN code'
  /\ \A b \in DOMAIN code' \ blocks : code'[b] = Before(b)
  /\ \A b \in blocks : /\ Before(b) = <<>>
                       /\ \E targets : code'[b] = <<targets>> /\ Sound(b, targets)

\* The first terminator of a block.
LEMMA Terminated ==
  ASSUME NEW n \in Nat, NEW c \in Code(n), NEW b \in 1 .. Len(c), c[b] = <<>>, NEW targets
  PROVE  Terminate(c, b, targets)[b] = <<targets>>
<1>1. b \in DOMAIN c
  BY LenProperties DEF Code
<1>2. Terminate(c, b, targets)[b] = Append(c[b], targets)
  BY <1>1 DEF Terminate
<1>3. Append(<<>>, targets) = <<targets>>
  OBVIOUS
<1>4. QED
  BY <1>2, <1>3

\* A module with new blocks is the module it was, and they are empty.
LEMMA BlankAt ==
  ASSUME IInv, status = "running", visits # <<>>, NEW k \in Nat
  PROVE  /\ DOMAIN Blank(k) = 1 .. Len(owner) + k
         /\ \A b \in 1 .. Len(owner) + k : Blank(k)[b] = Before(b)
<1> DEFINE new == [i \in 1 .. k |-> <<>>]
           S == Seq(SUBSET (1 .. Len(owner)))
<1>1. /\ Len(owner) \in Nat /\ code \in Code(Len(owner)) /\ Len(code) = Len(owner)
  BY Ready
<1>2. <<>> \in S
  BY EmptySeq
<1>3. new \in Seq(S) /\ Len(new) = k /\ \A i \in 1 .. k : new[i] = <<>>
  BY <1>2, IsASeq
<1>4. code \in Seq(S) /\ Blank(k) = code \o new
  BY <1>1 DEF Code, Blank
<1> HIDE DEF new, S
<1>5. /\ code \o new \in Seq(S) /\ Len(code \o new) = Len(code) + Len(new)
      /\ \A i \in 1 .. Len(code) + Len(new) :
           (code \o new)[i] = IF i <= Len(code) THEN code[i] ELSE new[i - Len(code)]
  BY <1>3, <1>4, ConcatProperties
<1>6. DOMAIN Blank(k) = 1 .. Len(owner) + k
  BY <1>1, <1>3, <1>4, <1>5, LenProperties
<1>7. ASSUME NEW b \in 1 .. Len(owner) + k
      PROVE  Blank(k)[b] = Before(b)
  <2>1. CASE b <= Len(owner)
    BY <2>1, <1>1, <1>3, <1>4, <1>5 DEF Before
  <2>2. CASE ~ (b <= Len(owner))
    <3>1. b - Len(owner) \in 1 .. k /\ b \notin 1 .. Len(owner)
      BY <1>1, <2>2
    <3>2. Blank(k)[b] = new[b - Len(owner)]
      BY <2>2, <1>1, <1>3, <1>4, <1>5
    <3>3. QED
      BY <3>1, <3>2, <1>3 DEF Before
  <2>3. QED
    BY <2>1, <2>2
<1>8. QED
  BY <1>6, <1>7

\* Nothing is emitted.
LEMMA EmitNone ==
  ASSUME IInv, status = "running", visits # <<>>, UNCHANGED <<code, owner>>
  PROVE  Emit({})
<1>1. code \in Code(Len(owner)) /\ Len(code) = Len(owner)
  BY Ready
<1>2. DOMAIN code = 1 .. Len(owner)
  BY <1>1, LenProperties DEF Code
<1>3. QED
  BY <1>2 DEF Emit, Before

\* One more block is ended.
LEMMA EmitOne ==
  ASSUME NEW n \in Nat, NEW c \in Code(n), Len(c) = n, Len(owner') = n,
         NEW blocks, blocks \subseteq 1 .. n,
         \A b \in 1 .. n \ blocks : c[b] = Before(b),
         \A b \in blocks : /\ Before(b) = <<>>
                           /\ \E targets : c[b] = <<targets>> /\ Sound(b, targets),
         NEW block \in 1 .. n, block \notin blocks, Before(block) = <<>>,
         NEW targets, Sound(block, targets), code' = Terminate(c, block, targets)
  PROVE  Emit(blocks \cup {block})
<1>1. code'[block] = <<targets>>
  <2>1. c[block] = <<>>
    OBVIOUS
  <2>2. QED
    BY <2>1, Terminated
<1>2. \A b \in 1 .. n : b # block => code'[b] = c[b]
  BY TerminateOthers
<1>3. DOMAIN code' = 1 .. n
  <2>1. DOMAIN c = 1 .. n
    BY LenProperties DEF Code
  <2>2. QED
    BY <2>1 DEF Terminate
<1>4. QED
  BY <1>1, <1>2, <1>3 DEF Emit

\* A handler that opens ends the current block with a branch to blocks it creates.
LEMMA EmitBranch ==
  ASSUME IInv, NEW k \in Nat, NEW kind, Visit(kind, k), AddBlocks(k), ~ Ended(cursor),
         NEW targets, targets \subseteq {New(i) : i \in 1 .. k},
         code' = Terminate(Blank(k), cursor, targets)
  PROVE  Emit({cursor})
<1> DEFINE n == Len(owner) + k
<1>1. status = "running" /\ visits # <<>>
  BY Visited
<1>2. /\ Len(owner) \in Nat /\ cursor \in 1 .. Len(owner) /\ cursor = Block(frames)
  BY <1>1, Ready
<1>3. /\ n \in Nat /\ Blank(k) \in Code(n) /\ Len(Blank(k)) = n /\ Len(owner') = n
      /\ cursor \in 1 .. n /\ \A b \in 1 .. n : Blank(k)[b] = Before(b)
  BY <1>1, NewBlocks, BlankAt
<1>4. Sound(cursor, targets)
  BY <1>1, <1>2, NewOwners DEF Sound, OwnersKept
<1>5. Before(cursor) = <<>>
  BY <1>2 DEF Before, Ended
<1> DEFINE c == Blank(k)
           none == {}
<1>6. /\ c \in Code(n) /\ Len(c) = n /\ none \subseteq 1 .. n /\ none = {}
      /\ \A b \in 1 .. n \ none : c[b] = Before(b)
      /\ code' = Terminate(c, cursor, targets)
  BY <1>3
<1> HIDE DEF n, c, none
<1>7. Emit(none \cup {cursor})
  BY <1>3, <1>4, <1>5, <1>6, EmitOne
<1>8. QED
  BY <1>6, <1>7

\* One that also ends a block it has just created.
LEMMA EmitBranches ==
  ASSUME IInv, NEW k \in Nat, NEW kind, Visit(kind, k), AddBlocks(k), ~ Ended(cursor),
         NEW targets, targets \subseteq {New(i) : i \in 1 .. k},
         NEW j \in 1 .. k, NEW others, others \subseteq {New(i) : i \in 1 .. k},
         code' = Terminate(Terminate(Blank(k), cursor, targets), New(j), others)
  PROVE  Emit({cursor, New(j)})
<1> DEFINE n == Len(owner) + k
           c == Terminate(Blank(k), cursor, targets)
<1>1. status = "running" /\ visits # <<>>
  BY Visited
<1>2. /\ Len(owner) \in Nat /\ cursor \in 1 .. Len(owner) /\ cursor = Block(frames)
  BY <1>1, Ready
<1>3. /\ n \in Nat /\ Blank(k) \in Code(n) /\ Len(Blank(k)) = n /\ Len(owner') = n
      /\ cursor \in 1 .. n /\ \A b \in 1 .. n : Blank(k)[b] = Before(b)
  BY <1>1, NewBlocks, BlankAt
<1>4. /\ Sound(cursor, targets) /\ Sound(New(j), others)
  BY <1>1, <1>2, NewOwners DEF Sound, OwnersKept
<1>5. Before(cursor) = <<>> /\ Before(New(j)) = <<>> /\ New(j) \in 1 .. n /\ New(j) # cursor
  BY <1>2 DEF Before, Ended, New
<1>6. targets \in SUBSET (1 .. n)
  BY <1>2 DEF New
<1>7. c \in Code(n) /\ Len(c) = n
  BY <1>3, <1>6, TerminateType
<1>8. c[cursor] = <<targets>> /\ \A b \in 1 .. n : b # cursor => c[b] = Before(b)
  <2>1. Blank(k)[cursor] = <<>>
    BY <1>3, <1>5
  <2>2. QED
    BY <2>1, <1>3, Terminated, TerminateOthers
<1> DEFINE one == {cursor}
<1>9. /\ one \subseteq 1 .. n /\ \A b \in 1 .. n \ one : c[b] = Before(b)
      /\ \A b \in one : /\ Before(b) = <<>>
                        /\ \E ts : c[b] = <<ts>> /\ Sound(b, ts)
      /\ New(j) \notin one /\ one \cup {New(j)} = {cursor, New(j)}
      /\ code' = Terminate(c, New(j), others)
  BY <1>3, <1>4, <1>5, <1>8
<1> HIDE DEF n, c, one
<1>10. Emit(one \cup {New(j)})
  BY <1>3, <1>4, <1>5, <1>7, <1>9, EmitOne
<1>11. QED
  BY <1>9, <1>10

\* A handler's blocks, and the current one, are in one function, and none of its
\* blocks is an entry: branches between them are sound.
LEMMA LocalsSound ==
  ASSUME TInv, NEW kind, kind \notin {"tree", "fun"}, NEW at, At(kind, at), UNCHANGED owner,
         NEW b \in Locals(Top(visits)) \cup {cursor},
         NEW targets, targets \subseteq Locals(Top(visits))
  PROVE  Sound(b, targets)
<1> DEFINE v == Top(visits)
           below == frames[v.base]
           top == frames[Len(frames)]
<1>1. IInv /\ Chains(visits, frames, owner) /\ v.kind = kind
  BY DEF TInv, Chained, At
<1>2. Within(v, top, below, owner) /\ Block(frames) = top.insertBlock
  BY <1>1, TopChain
<1>3. cursor = Block(frames)
  BY <1>1, Ready DEF At
<1>4. \A c \in Locals(v) : owner[c] = owner[cursor] /\ owner[c] # c
  BY <1>1, <1>2, <1>3 DEF Within
<1>5. QED
  BY <1>4 DEF Sound

\* The blocks that a branch asking for the terminator first ends.
Unended == IF Ended(cursor) THEN {} ELSE {cursor}

\* A branch at the end of the current block, or none.
LEMMA EmitFall ==
  ASSUME IInv, status = "running", visits # <<>>, UNCHANGED owner,
         NEW target, Sound(cursor, {target}), code' = Fall(target)
  PROVE  Emit(Unended)
<1>1. /\ Len(owner) \in Nat /\ code \in Code(Len(owner)) /\ Len(code) = Len(owner)
      /\ cursor \in 1 .. Len(owner) /\ cursor = Block(frames)
  BY Ready
<1>2. CASE Ended(cursor)
  BY <1>1, <1>2, EmitNone DEF Fall, Unended
<1>3. CASE ~ Ended(cursor)
  <2> DEFINE none == {}
             n == Len(owner)
             ts == {target}
  <2>1. /\ none \subseteq 1 .. n /\ none \cup {cursor} = Unended
        /\ \A b \in 1 .. n \ none : code[b] = Before(b)
        /\ \A b \in none : FALSE
        /\ Before(cursor) = <<>> /\ Len(owner') = n /\ n \in Nat
        /\ code' = Terminate(code, cursor, ts)
    BY <1>1, <1>3 DEF Before, Ended, Unended, Fall
  <2>2. Sound(cursor, ts) /\ code \in Code(n) /\ Len(code) = n /\ cursor \in 1 .. n
        /\ cursor \notin none
    BY <1>1
  <2> HIDE DEF none, n, ts
  <2>3. Emit(none \cup {cursor})
    BY <2>1, <2>2, EmitOne
  <2>4. QED
    BY <2>1, <2>3
<1>4. QED
  BY <1>2, <1>3

\* A terminator of the current block that is not ended.
LEMMA EmitEnd ==
  ASSUME IInv, status = "running", visits # <<>>, UNCHANGED owner, ~ Ended(cursor),
         NEW targets, Sound(cursor, targets), code' = Terminate(code, cursor, targets)
  PROVE  Emit({cursor}) /\ code'[cursor] = <<targets>>
<1> DEFINE none == {}
           n == Len(owner)
<1>1. /\ n \in Nat /\ code \in Code(n) /\ Len(code) = n
      /\ cursor \in 1 .. n
  BY Ready
<1>2. /\ none \subseteq 1 .. n /\ none \cup {cursor} = {cursor}
      /\ \A b \in 1 .. n \ none : code[b] = Before(b)
      /\ \A b \in none : FALSE
      /\ Before(cursor) = <<>> /\ Len(owner') = n /\ cursor \notin none
  BY <1>1 DEF Before, Ended
<1> HIDE DEF none, n
<1>3. Emit(none \cup {cursor})
  BY <1>1, <1>2, EmitOne
<1>4. code'[cursor] = <<targets>>
  BY <1>1, Terminated DEF Ended
<1>5. QED
  BY <1>2, <1>3, <1>4

\* A branch at the end of the current block, or none, and one at the end of a
\* block without code that is a handler's own.
LEMMA EmitJoin ==
  ASSUME IInv, status = "running", visits # <<>>, UNCHANGED owner,
         NEW block \in 1 .. Len(owner), block # cursor, code[block] = <<>>,
         Sound(cursor, {block}), NEW targets, Sound(block, targets),
         code' = Terminate(Fall(block), block, targets)
  PROVE  Emit(Unended \cup {block})
<1> DEFINE n == Len(owner)
           c == Fall(block)
<1>1. /\ n \in Nat /\ code \in Code(n) /\ Len(code) = n
      /\ cursor \in 1 .. n /\ cursor = Block(frames)
  BY Ready
<1>2. c \in Code(n) /\ Len(c) = n
  BY <1>1, FallType
<1>3. \A b \in 1 .. n \ Unended : c[b] = Before(b)
  <2>1. ASSUME NEW b \in 1 .. n, b # cursor PROVE c[b] = code[b]
    BY <2>1, FallEmits
  <2>2. Ended(cursor) => c = code
    BY <1>1 DEF Fall
  <2>3. QED
    BY <2>1, <2>2 DEF Unended, Before
<1>4. ~ Ended(cursor) => c[cursor] = <<{block}>>
  <2> SUFFICES ASSUME ~ Ended(cursor) PROVE c[cursor] = <<{block}>>
    OBVIOUS
  <2>1. c = Terminate(code, cursor, {block}) /\ code[cursor] = <<>>
    BY <1>1 DEF Fall, Ended
  <2> HIDE DEF c, n
  <2>2. QED
    BY <2>1, <1>1, Terminated
<1>5. /\ Unended \subseteq 1 .. n /\ block \notin Unended /\ Before(block) = <<>>
      /\ Len(owner') = n
      /\ \A b \in Unended : /\ Before(b) = <<>>
                            /\ \E ts : c[b] = <<ts>> /\ Sound(b, ts)
  BY <1>1, <1>4 DEF Unended, Before, Ended
<1>6. code' = Terminate(c, block, targets) /\ block \in 1 .. n
  OBVIOUS
<1> HIDE DEF n, c
<1>7. QED
  BY <1>1, <1>2, <1>3, <1>5, <1>6, EmitOne

-----------------------------------------------------------------------------
(* The blocks that are still awaited.                                      *)

\* The first k handlers go on waiting.  The others, at most one before the step
\* and one after it, awaited the blocks old and await the blocks now; all the
\* blocks that the step finds at hand - the current one, those, the new ones -
\* are current, awaited or ended afterwards.
Handled(v, f, current, c, w, g, next, d, k, old, now, ended) ==
  LET fresh == DOMAIN d \ DOMAIN c
      hand  == old \cup fresh \cup {current}
  IN  /\ \/ DOMAIN v = 1 .. k /\ old = {}
         \/ DOMAIN v = 1 .. k + 1 /\ old = Awaits(v[k + 1], f)
      /\ \/ DOMAIN w = 1 .. k /\ now = {}
         \/ DOMAIN w = 1 .. k + 1 /\ now = Awaits(w[k + 1], g) /\ Apart(w[k + 1])
      /\ \A i \in 1 .. k :
           /\ Awaits(w[i], g) = Awaits(v[i], f)
           /\ Awaits(v[i], f) \subseteq DOMAIN c
           /\ Apart(v[i]) => Apart(w[i])
      /\ DOMAIN c \subseteq DOMAIN d /\ current \in DOMAIN c
      /\ next \notin now /\ now \cup {next} \subseteq hand /\ ended \subseteq hand
      /\ \A b \in DOMAIN c : b \notin ended => d[b] = c[b]
      /\ \A b \in fresh : b \notin ended => d[b] = <<>>
      /\ \A b \in ended : d[b] # <<>>
      /\ \A b \in old \cup fresh : b # next => (b \in now <=> b \notin ended)
      /\ current # next => (current \in now <=> current \notin ended /\ c[current] = <<>>)

LEMMA TidyStep ==
  ASSUME NEW v, NEW f, NEW current, NEW c, NEW w, NEW g, NEW next, NEW d,
         NEW k \in Nat, NEW old, NEW now, NEW ended,
         Tidy(v, f, current, c),
         Handled(v, f, current, c, w, g, next, d, k, old, now, ended)
  PROVE  Tidy(w, g, next, d)
<1> DEFINE fresh == DOMAIN d \ DOMAIN c
<1> SUFFICES ASSUME
      \/ DOMAIN v = 1 .. k /\ old = {}
      \/ DOMAIN v = 1 .. k + 1 /\ old = Awaits(v[k + 1], f),
      \/ DOMAIN w = 1 .. k /\ now = {}
      \/ DOMAIN w = 1 .. k + 1 /\ now = Awaits(w[k + 1], g) /\ Apart(w[k + 1]),
      \A i \in 1 .. k : /\ Awaits(w[i], g) = Awaits(v[i], f)
                        /\ Awaits(v[i], f) \subseteq DOMAIN c
                        /\ Apart(v[i]) => Apart(w[i]),
      DOMAIN c \subseteq DOMAIN d, fresh = DOMAIN d \ DOMAIN c, current \in DOMAIN c,
      next \notin now, now \cup {next} \subseteq old \cup fresh \cup {current},
      ended \subseteq old \cup fresh \cup {current},
      \A b \in DOMAIN c : b \notin ended => d[b] = c[b],
      \A b \in fresh : b \notin ended => d[b] = <<>>,
      \A b \in ended : d[b] # <<>>,
      \A b \in old \cup fresh : b # next => (b \in now <=> b \notin ended),
      current # next => (current \in now <=> current \notin ended /\ c[current] = <<>>)
    PROVE Tidy(w, g, next, d)
  BY DEF Handled
<1> HIDE DEF fresh
<1>1. \A i \in 1 .. k : /\ Awaits(v[i], f) \cap (old \cup fresh \cup {current}) = {}
                        /\ Apart(w[i])
  <2> TAKE i \in 1 .. k
  <2>1. i \in DOMAIN v /\ i # k + 1
    OBVIOUS
  <2>2. current \notin Awaits(v[i], f) /\ Apart(v[i])
    BY <2>1 DEF Tidy
  <2>3. Awaits(v[i], f) \cap old = {}
    <3>1. CASE DOMAIN v = 1 .. k /\ old = {}
      BY <3>1
    <3>2. CASE DOMAIN v = 1 .. k + 1 /\ old = Awaits(v[k + 1], f)
      <4>1. k + 1 \in DOMAIN v
        BY <3>2
      <4>2. QED
        BY <3>2, <4>1, <2>1 DEF Tidy
    <3>3. QED
      BY <3>1, <3>2
  <2>4. QED
    BY <2>2, <2>3
<1>2. \A i \in DOMAIN w : i \in 1 .. k \/ (i = k + 1 /\ now = Awaits(w[i], g) /\ Apart(w[i]))
  OBVIOUS
<1>3. \A i \in DOMAIN w : next \notin Awaits(w[i], g) /\ Apart(w[i])
  BY <1>1, <1>2
<1>4. ASSUME NEW i \in DOMAIN w, NEW j \in DOMAIN w, i # j
      PROVE  Awaits(w[i], g) \cap Awaits(w[j], g) = {}
  <2>1. CASE i \in 1 .. k /\ j \in 1 .. k
    <3>1. i \in DOMAIN v /\ j \in DOMAIN v
      BY <2>1
    <3>2. Awaits(v[i], f) \cap Awaits(v[j], f) = {}
      BY <3>1, <1>4 DEF Tidy
    <3>3. QED
      BY <3>2, <2>1
  <2>2. CASE i \in 1 .. k /\ j = k + 1
    BY <2>2, <1>1, <1>2
  <2>3. CASE i = k + 1 /\ j \in 1 .. k
    BY <2>3, <1>1, <1>2
  <2>4. QED
    BY <1>2, <1>4, <2>1, <2>2, <2>3
<1>5. ASSUME NEW b \in DOMAIN d, b # next
      PROVE  d[b] = <<>> <=> \E i \in DOMAIN w : b \in Awaits(w[i], g)
  <2>1. (\E i \in DOMAIN w : b \in Awaits(w[i], g))
          <=> (b \in now \/ \E i \in 1 .. k : b \in Awaits(v[i], f))
    <3>1. \A i \in 1 .. k : i \in DOMAIN w
      OBVIOUS
    <3>2. now = {} \/ (k + 1 \in DOMAIN w /\ now = Awaits(w[k + 1], g))
      OBVIOUS
    <3>3. QED
      BY <1>2, <3>1, <3>2
  <2>2. CASE b \in old \cup fresh /\ b # current
    <3>1. ~ \E i \in 1 .. k : b \in Awaits(v[i], f)
      BY <2>2, <1>1
    <3>2. d[b] = <<>> <=> b \notin ended
      <4>1. b \in fresh \/ b \in DOMAIN c
        BY <2>2
      <4>2. b \in old /\ b \in DOMAIN c => c[b] = <<>>
        <5>1. ASSUME b \in old, b \in DOMAIN c
              PROVE  c[b] = <<>>
          <6>1. k + 1 \in DOMAIN v /\ b \in Awaits(v[k + 1], f)
            BY <5>1
          <6>2. QED
            BY <5>1, <6>1, <2>2 DEF Tidy
        <5>2. QED
          BY <5>1
      <4>3. QED
        BY <4>1, <4>2, <2>2
    <3>3. QED
      BY <2>1, <2>2, <3>1, <3>2, <1>5
  <2>3. CASE b = current
    <3>1. ~ \E i \in 1 .. k : b \in Awaits(v[i], f)
      BY <2>3, <1>1
    <3>2. d[b] = <<>> <=> b \notin ended /\ c[b] = <<>>
      BY <2>3
    <3>3. QED
      BY <2>1, <2>3, <3>1, <3>2, <1>5
  <2>4. CASE b \notin old \cup fresh \cup {current}
    <3>1. b \notin now /\ b \notin ended /\ b \in DOMAIN c
      BY <2>4
    <3>2. d[b] = c[b]
      BY <3>1
    <3>3. c[b] = <<>> <=> \E i \in DOMAIN v : b \in Awaits(v[i], f)
      BY <2>4, <3>1 DEF Tidy
    <3>4. (\E i \in DOMAIN v : b \in Awaits(v[i], f))
            <=> \E i \in 1 .. k : b \in Awaits(v[i], f)
      <4>1. \A i \in 1 .. k : i \in DOMAIN v
        OBVIOUS
      <4>2. \A i \in DOMAIN v : i \in 1 .. k \/ (i = k + 1 /\ old = Awaits(v[i], f))
        OBVIOUS
      <4>3. QED
        BY <4>1, <4>2, <2>4
    <3>5. QED
      BY <2>1, <3>1, <3>2, <3>3, <3>4
  <2>5. QED
    BY <2>2, <2>3, <2>4
<1>6. QED
  BY <1>3, <1>4, <1>5 DEF Tidy

\* The first d frames lead break where they did.
Breaks(d) == \A j \in 1 .. d : frames'[j].breakBlock = frames[j].breakBlock

\* A handler that waits on, with its frames kept, awaits what it did.
LEMMA AwaitsKept ==
  ASSUME NEW n \in Nat, NEW a \in Activation(n), NEW b, SameVisit(b, a), NEW f, NEW g,
         a.kind = "fun" => g[a.base + 1].breakBlock = f[a.base + 1].breakBlock
  PROVE  /\ Awaits(b, g) = Awaits(a, f)
         /\ Apart(a) => Apart(b)
<1>1. a.kind = "for" => (a.at = "decls" <=> b.at = "decls")
  <2>1. a.kind = "for" => Held(a) = IF a.at = "decls" THEN 1 ELSE 3
    BY DEF Held
  <2>2. b.kind = "for" => Held(b) = IF b.at = "decls" THEN 1 ELSE 3
    BY DEF Held
  <2>3. QED
    BY <2>1, <2>2 DEF SameVisit
<1>2. QED
  BY <1>1 DEF SameVisit, Awaits, Apart

\* The blocks awaited are blocks of the module.
LEMMA AwaitsIn ==
  ASSUME IInv, status = "running", visits # <<>>, NEW i \in 1 .. Len(visits)
  PROVE  /\ Awaits(visits[i], frames) \subseteq 1 .. Len(owner)
         /\ visits[i].kind = "fun" =>
              /\ frames[visits[i].base + 1].breakBlock = frames[visits[i].base].insertBlock
              /\ visits[i].base \in DOMAIN frames
<1> DEFINE a == visits[i]
           n == Len(owner)
<1>1. /\ visits \in Seq(Activation(n)) /\ DOMAIN visits = 1 .. Len(visits)
      /\ Discipline(visits, frames) /\ n \in Nat /\ frames \in Seq(Frame(n))
      /\ Len(frames) \in Nat
  BY Ready, ActivationAt
<1>2. a \in Activation(n) /\ HasLocals(a)
  BY <1>1 DEF Discipline, LocalsSet
<1>3. a.kind = "fun" => /\ frames[a.base + 1].breakBlock = frames[a.base].insertBlock
                        /\ frames[a.base].insertBlock \in 1 .. n
                        /\ a.base \in DOMAIN frames
  <2> SUFFICES ASSUME a.kind = "fun"
               PROVE  /\ frames[a.base + 1].breakBlock = frames[a.base].insertBlock
                      /\ frames[a.base].insertBlock \in 1 .. n
                      /\ a.base \in DOMAIN frames
    OBVIOUS
  <2>1. i # 1
    BY <1>1 DEF Discipline, TreeFirst
  <2>2. a.base >= 1 /\ a.base \in Nat
    BY <1>1, <1>2, <2>1 DEF Discipline, Nested, Activation
  <2>3. a.base + Held(a) <= Len(frames) /\ Held(a) = 1
    BY <1>1, Depths DEF Held
  <2>4. a.base \in 1 .. Len(frames)
    BY <1>1, <2>2, <2>3
  <2>5. frames[a.base] \in Frame(n)
    BY <1>1, <2>4, ElementOfSeq
  <2>6. frames[a.base].insertBlock \in 1 .. n
    BY <2>5 DEF Frame
  <2>7. frames[a.base + 1].breakBlock = frames[a.base].insertBlock
    BY <1>1 DEF Discipline, FunReturns
  <2>8. a.base \in DOMAIN frames
    BY <1>1, <2>4, LenProperties
  <2>9. QED
    BY <2>6, <2>7, <2>8
<1> HIDE DEF n
<1>4. /\ a.exit \in 0 .. n /\ a.cond \in 0 .. n /\ a.loop \in 0 .. n /\ a.alt \in 0 .. n
      /\ a.kind \notin {"tree", "fun", "use"} => a.exit # 0
      /\ a.kind \in {"while", "do", "for"} => a.cond # 0
      /\ a.kind \in {"for", "do"} => a.loop # 0
      /\ a.kind = "for" => a.alt # 0
  BY <1>2 DEF Activation, HasLocals, NoBlock, Loops
<1> HIDE DEF a
<1>5. Awaits(a, frames) \subseteq 1 .. n
  <2> SUFFICES ASSUME NEW b \in Awaits(a, frames) PROVE b \in 1 .. n
    OBVIOUS
  <2>1. n \in Nat
    BY <1>1 DEF n
  <2>2. \A c \in 0 .. n : c # 0 => c \in 1 .. n
    BY <2>1
  <2>3. QED
    BY <1>3, <1>4, <2>2 DEF Awaits, NoBlock
<1>6. QED
  BY <1>3, <1>5 DEF a, n

\* The blocks a step creates.
Fresh == 1 .. Len(owner') \ 1 .. Len(owner)

\* What Handled asks of a step of the generator; d frames are kept.
Hands(k, old, now, d, ended) ==
  /\ \/ Len(visits) = k /\ old = {}
     \/ Len(visits) = k + 1 /\ old = Awaits(visits[k + 1], frames)
  /\ \/ DOMAIN visits' = 1 .. k /\ now = {}
     \/ /\ DOMAIN visits' = 1 .. k + 1 /\ now = Awaits(visits'[k + 1], frames')
        /\ Apart(visits'[k + 1])
  /\ \A i \in 1 .. k : /\ SameVisit(visits'[i], visits[i])
                       /\ visits[i].base + Held(visits[i]) <= d
  /\ Breaks(d)
  /\ cursor' \notin now /\ now \cup {cursor'} \subseteq old \cup Fresh \cup {cursor}
  /\ ended \subseteq old \cup Fresh \cup {cursor}
  /\ \A b \in old \cup Fresh : b # cursor' => (b \in now <=> b \notin ended)
  /\ cursor # cursor' => (cursor \in now <=> cursor \notin ended /\ ~ Ended(cursor))

LEMMA TidyNext ==
  ASSUME VInv, status = "running", visits # <<>>,
         Len(owner) \in Nat, Len(owner') \in Nat, Len(owner) <= Len(owner'),
         NEW ended, Emit(ended), NEW k \in Nat, NEW old, NEW now, NEW d,
         Hands(k, old, now, d, ended)
  PROVE  Tidy(visits', frames', cursor', code')
<1> SUFFICES ASSUME
      \/ Len(visits) = k /\ old = {}
      \/ Len(visits) = k + 1 /\ old = Awaits(visits[k + 1], frames),
      \/ DOMAIN visits' = 1 .. k /\ now = {}
      \/ /\ DOMAIN visits' = 1 .. k + 1 /\ now = Awaits(visits'[k + 1], frames')
         /\ Apart(visits'[k + 1]),
      \A i \in 1 .. k : /\ SameVisit(visits'[i], visits[i])
                        /\ visits[i].base + Held(visits[i]) <= d,
      Breaks(d),
      cursor' \notin now, now \cup {cursor'} \subseteq old \cup Fresh \cup {cursor},
      ended \subseteq old \cup Fresh \cup {cursor},
      \A b \in old \cup Fresh : b # cursor' => (b \in now <=> b \notin ended),
      cursor # cursor' => (cursor \in now <=> cursor \notin ended /\ ~ Ended(cursor))
    PROVE Tidy(visits', frames', cursor', code')
  BY DEF Hands
<1>1. IInv /\ Tidy(visits, frames, cursor, code)
  BY DEF VInv, TInv
<1>2. /\ visits \in Seq(Activation(Len(owner))) /\ DOMAIN visits = 1 .. Len(visits)
      /\ code \in Code(Len(owner)) /\ DOMAIN code = 1 .. Len(owner)
      /\ cursor \in DOMAIN code
  BY <1>1, Ready, ActivationAt, LenProperties DEF Code
<1>3. /\ DOMAIN code' = 1 .. Len(owner')
      /\ \A b \in DOMAIN code' : b \notin ended => code'[b] = Before(b)
      /\ \A b \in ended : code'[b] # <<>>
  <2>1. \A x : <<x>> # <<>>
    OBVIOUS
  <2>2. QED
    BY <2>1 DEF Emit
<1>4. /\ DOMAIN code \subseteq DOMAIN code' /\ Fresh = DOMAIN code' \ DOMAIN code
      /\ \A b \in DOMAIN code : b \notin ended => code'[b] = code[b]
      /\ \A b \in Fresh : b \notin ended => code'[b] = <<>>
  BY ONLY <1>2, <1>3, Len(owner) \in Nat, Len(owner') \in Nat, Len(owner) <= Len(owner')
     DEF Before, Fresh
<1>5. ASSUME NEW i \in 1 .. k
      PROVE  /\ Awaits(visits'[i], frames') = Awaits(visits[i], frames)
             /\ Awaits(visits[i], frames) \subseteq DOMAIN code
             /\ Apart(visits[i]) => Apart(visits'[i])
  <2>1. i \in 1 .. Len(visits)
    OBVIOUS
  <2>2. Awaits(visits[i], frames) \subseteq DOMAIN code
    BY <1>1, <1>2, <2>1, AwaitsIn
  <2>3. visits[i].kind = "fun" =>
          frames'[visits[i].base + 1].breakBlock = frames[visits[i].base + 1].breakBlock
    <3> SUFFICES ASSUME visits[i].kind = "fun"
                 PROVE  frames'[visits[i].base + 1].breakBlock
                          = frames[visits[i].base + 1].breakBlock
      OBVIOUS
    <3>1. Held(visits[i]) = 1 /\ visits[i].base \in Nat
      BY <1>2, <2>1, ActivationAt DEF Held
    <3>2. visits[i].base + 1 \in 1 .. d
      <4>1. visits[i].base + 1 <= d /\ 1 <= visits[i].base + 1 /\ visits[i].base + 1 \in Int
        BY <3>1
      <4>2. QED
        BY <4>1
    <3>3. QED
      BY <3>2 DEF Breaks
  <2>4. visits[i] \in Activation(Len(owner)) /\ SameVisit(visits'[i], visits[i])
    BY <1>2, <2>1
  <2>5. QED
    BY <2>2, <2>3, <2>4, AwaitsKept
<1>6. \/ DOMAIN visits = 1 .. k /\ old = {}
      \/ DOMAIN visits = 1 .. k + 1 /\ old = Awaits(visits[k + 1], frames)
  BY <1>2
<1>7. cursor # cursor' => (cursor \in now <=> cursor \notin ended /\ code[cursor] = <<>>)
  BY DEF Ended
<1>8. /\ Fresh = DOMAIN code' \ DOMAIN code
      /\ cursor' \notin now /\ now \cup {cursor'} \subseteq old \cup Fresh \cup {cursor}
      /\ ended \subseteq old \cup Fresh \cup {cursor}
      /\ \A b \in old \cup Fresh : b # cursor' => (b \in now <=> b \notin ended)
      /\ k \in Nat
      /\ \/ DOMAIN visits' = 1 .. k /\ now = {}
         \/ /\ DOMAIN visits' = 1 .. k + 1 /\ now = Awaits(visits'[k + 1], frames')
            /\ Apart(visits'[k + 1])
  BY ONLY <1>4, k \in Nat,
     \/ DOMAIN visits' = 1 .. k /\ now = {}
     \/ /\ DOMAIN visits' = 1 .. k + 1 /\ now = Awaits(visits'[k + 1], frames')
        /\ Apart(visits'[k + 1]),
     cursor' \notin now, now \cup {cursor'} \subseteq old \cup Fresh \cup {cursor},
     ended \subseteq old \cup Fresh \cup {cursor},
     \A b \in old \cup Fresh : b # cursor' => (b \in now <=> b \notin ended)
<1>9. Handled(visits, frames, cursor, code, visits', frames', cursor', code', k, old, now, ended)
  BY ONLY <1>2, <1>3, <1>4, <1>5, <1>6, <1>7, <1>8 DEF Handled
<1>10. QED
  BY <1>1, <1>8, <1>9, TidyStep

\* A statement without nested visits.
LEMMA StayTidy ==
  ASSUME VInv, status = "running", visits # <<>>, Simple, Breaks(Len(frames)),
         Len(owner') \in Nat, Len(owner) <= Len(owner'), NEW ended, Emit(ended),
         cursor' \in Fresh \cup {cursor}, ended \subseteq Fresh \cup {cursor},
         \A b \in Fresh : b # cursor' => b \in ended,
         cursor # cursor' => cursor \in ended \/ Ended(cursor)
  PROVE  Tidy(visits', frames', cursor', code')
<1> DEFINE k == Len(visits)
           old == {}
           now == {}
<1>1. /\ visits \in Seq(Activation(Len(owner))) /\ Len(owner) \in Nat
      /\ frames \in Seq(Frame(Len(owner))) /\ Discipline(visits, frames)
      /\ k \in Nat /\ DOMAIN visits = 1 .. k
  BY Ready, ActivationAt DEF VInv, TInv
<1>2. \A i \in 1 .. k : /\ SameVisit(visits'[i], visits[i])
                        /\ visits[i].base + Held(visits[i]) <= Len(frames)
  BY <1>1, ReturnedSame, Depths DEF Simple
<1>3. DOMAIN visits' = 1 .. k
  BY <1>1 DEF Simple, Returned
<1>4. /\ cursor' \notin now /\ now \cup {cursor'} \subseteq old \cup Fresh \cup {cursor}
      /\ ended \subseteq old \cup Fresh \cup {cursor}
      /\ \A b \in old \cup Fresh : b # cursor' => (b \in now <=> b \notin ended)
      /\ cursor # cursor' => (cursor \in now <=> cursor \notin ended /\ ~ Ended(cursor))
  OBVIOUS
<1>5. Len(visits) = k /\ old = {} /\ now = {}
  OBVIOUS
<1> HIDE DEF k, old, now
<1>6. Hands(k, old, now, Len(frames), ended)
  BY <1>2, <1>3, <1>4, <1>5 DEF Hands
<1>7. QED
  BY <1>1, <1>6, TidyNext

\* A handler that opens, with the activation a.
LEMMA NestTidy ==
  ASSUME VInv, status = "running", visits # <<>>, NEW a, visits' = Append(visits, a),
         Breaks(Len(frames)), Apart(a),
         Len(owner') \in Nat, Len(owner) <= Len(owner'), NEW ended, Emit(ended),
         NEW now, now = Awaits(a, frames'),
         cursor' \notin now, now \cup {cursor'} \subseteq Fresh \cup {cursor},
         ended \subseteq Fresh \cup {cursor},
         \A b \in Fresh : b # cursor' => (b \in now <=> b \notin ended),
         cursor # cursor' => (cursor \in now <=> cursor \notin ended /\ ~ Ended(cursor))
  PROVE  Tidy(visits', frames', cursor', code')
<1> DEFINE k == Len(visits)
           old == {}
<1>1. /\ visits \in Seq(Activation(Len(owner))) /\ Len(owner) \in Nat
      /\ frames \in Seq(Frame(Len(owner))) /\ Discipline(visits, frames)
      /\ k \in Nat /\ DOMAIN visits = 1 .. k
  BY Ready, ActivationAt DEF VInv, TInv
<1>2. /\ \A i \in 1 .. k : visits'[i] = visits[i]
      /\ visits'[k + 1] = a /\ DOMAIN visits' = 1 .. k + 1
  BY <1>1
<1>3. \A i \in 1 .. k : /\ SameVisit(visits'[i], visits[i])
                        /\ visits[i].base + Held(visits[i]) <= Len(frames)
  BY <1>1, <1>2, SameVisitItself, Depths
<1>4. /\ now \cup {cursor'} \subseteq old \cup Fresh \cup {cursor}
      /\ ended \subseteq old \cup Fresh \cup {cursor}
      /\ \A b \in old \cup Fresh : b # cursor' => (b \in now <=> b \notin ended)
  OBVIOUS
<1>5. Len(visits) = k /\ old = {} /\ now = Awaits(visits'[k + 1], frames')
      /\ Apart(visits'[k + 1])
  BY <1>2
<1> HIDE DEF k, old
<1>6. Hands(k, old, now, Len(frames), ended)
  BY <1>2, <1>3, <1>4, <1>5 DEF Hands
<1>7. QED
  BY <1>1, <1>6, TidyNext

\* A handler that goes on to its next nested visit, with the activation a.
LEMMA AdvanceTidy ==
  ASSUME VInv, status = "running", visits # <<>>, NEW a,
         visits' = [visits EXCEPT ![Len(visits)] = a],
         Breaks(Top(visits).base), Apart(a), UNCHANGED owner, NEW ended, Emit(ended),
         NEW old, old = Awaits(Top(visits), frames), NEW now, now = Awaits(a, frames'),
         cursor' \notin now, now \cup {cursor'} \subseteq old \cup {cursor},
         ended \subseteq old \cup {cursor},
         \A b \in old : b # cursor' => (b \in now <=> b \notin ended),
         cursor # cursor' => (cursor \in now <=> cursor \notin ended /\ ~ Ended(cursor))
  PROVE  Tidy(visits', frames', cursor', code')
<1> DEFINE k == Len(visits) - 1
<1>1. /\ visits \in Seq(Activation(Len(owner))) /\ Len(owner) \in Nat
      /\ frames \in Seq(Frame(Len(owner))) /\ Discipline(visits, frames)
      /\ Len(visits) \in Nat /\ Len(visits) >= 1 /\ DOMAIN visits = 1 .. Len(visits)
  BY Ready, ActivationAt DEF VInv, TInv
<1>2. k \in Nat /\ Len(visits) = k + 1 /\ Top(visits) = visits[k + 1]
  BY <1>1 DEF Top
<1>3. \A i \in 1 .. k : visits[i].base + Held(visits[i]) <= Top(visits).base
  BY <1>1, Depths
<1> HIDE DEF k
<1>4. /\ \A i \in 1 .. k : visits'[i] = visits[i]
      /\ visits'[k + 1] = a /\ DOMAIN visits' = 1 .. k + 1
  BY <1>1, <1>2
<1>5. \A i \in 1 .. k : SameVisit(visits'[i], visits[i])
  BY <1>4, SameVisitItself
<1>6. Fresh = {} /\ Len(owner) <= Len(owner') /\ Len(owner') \in Nat
  BY <1>1 DEF Fresh
<1>7. /\ now \cup {cursor'} \subseteq old \cup Fresh \cup {cursor}
      /\ ended \subseteq old \cup Fresh \cup {cursor}
      /\ \A b \in old \cup Fresh : b # cursor' => (b \in now <=> b \notin ended)
  BY <1>6
<1>8. old = Awaits(visits[k + 1], frames) /\ now = Awaits(visits'[k + 1], frames')
      /\ Apart(visits'[k + 1])
  BY <1>2, <1>4
<1>9. Hands(k, old, now, Top(visits).base, ended)
  BY <1>2, <1>3, <1>4, <1>5, <1>7, <1>8 DEF Hands
<1>10. QED
  BY <1>1, <1>2, <1>6, <1>9, TidyNext

\* A handler that returns.
LEMMA LeaveTidy ==
  ASSUME VInv, status = "running", visits # <<>>, Top(visits).kind # "tree", Leave,
         Breaks(Top(visits).base), UNCHANGED owner, NEW ended, Emit(ended),
         NEW old, old = Awaits(Top(visits), frames),
         cursor' \in old \cup {cursor}, ended \subseteq old \cup {cursor},
         \A b \in old : b # cursor' => b \in ended,
         cursor # cursor' => cursor \in ended \/ Ended(cursor)
  PROVE  Tidy(visits', frames', cursor', code')
<1> DEFINE k == Len(visits) - 1
           w == Rest(visits)
           now == {}
<1>1. /\ visits \in Seq(Activation(Len(owner))) /\ Len(owner) \in Nat
      /\ frames \in Seq(Frame(Len(owner))) /\ Discipline(visits, frames)
      /\ Len(visits) \in Nat /\ Len(visits) >= 1 /\ DOMAIN visits = 1 .. Len(visits)
  BY Ready, ActivationAt DEF VInv, TInv
<1>2. k \in Nat /\ Len(visits) = k + 1 /\ Top(visits) = visits[k + 1] /\ k >= 1
  <2>1. Len(visits) # 1
    BY <1>1, DisciplineAt
  <2>2. QED
    BY <2>1, <1>1 DEF Top
<1>3. \A i \in 1 .. k : visits[i].base + Held(visits[i]) <= Top(visits).base
  BY <1>1, Depths
<1>4. w \in Seq(Activation(Len(owner))) /\ Len(w) = k /\ \A i \in 1 .. k : w[i] = visits[i]
  BY <1>1, PopProperties DEF Pop
<1> HIDE DEF w, k
<1>5. w # <<>> /\ DOMAIN w = 1 .. k
  BY <1>2, <1>4, EmptySeq, LenProperties
<1>6. /\ visits' = Returned(w)
      /\ \A i \in 1 .. k : SameVisit(visits'[i], visits[i])
      /\ DOMAIN visits' = 1 .. k
  <2>1. visits' = Returned(w)
    BY DEF Leave, w
  <2>2. DOMAIN visits' = 1 .. k
    BY <2>1, <1>5 DEF Returned
  <2>3. QED
    BY <2>1, <2>2, <1>1, <1>4, <1>5, ReturnedSame
<1>7. Fresh = {} /\ Len(owner) <= Len(owner') /\ Len(owner') \in Nat
  BY <1>1 DEF Fresh
<1>8. /\ cursor' \notin now /\ now \cup {cursor'} \subseteq old \cup Fresh \cup {cursor}
      /\ ended \subseteq old \cup Fresh \cup {cursor}
      /\ \A b \in old \cup Fresh : b # cursor' => (b \in now <=> b \notin ended)
      /\ cursor # cursor' => (cursor \in now <=> cursor \notin ended /\ ~ Ended(cursor))
  BY <1>7
<1>9. old = Awaits(visits[k + 1], frames) /\ now = {}
  BY <1>2
<1> HIDE DEF now
<1>10. Hands(k, old, now, Top(visits).base, ended)
  BY <1>2, <1>3, <1>6, <1>8, <1>9 DEF Hands
<1>11. QED
  BY <1>1, <1>2, <1>7, <1>10, TidyNext

-----------------------------------------------------------------------------
(* The rest of the invariant.                                              *)

\* A step that ends blocks that were not ended, with terminators that stay in
\* their function.
LEMMA EmitKeeps ==
  ASSUME VInv, status = "running", visits # <<>>, OwnersKept,
         Len(owner') \in Nat, Len(owner) <= Len(owner'), NEW ended, Emit(ended)
  PROVE  SingleTerminator' /\ Stays(code', owner')
<1>1. /\ Len(owner) \in Nat /\ code \in Code(Len(owner)) /\ Len(code) = Len(owner)
      /\ DOMAIN code = 1 .. Len(owner)
  BY Ready, LenProperties DEF VInv, TInv, Code
<1>2. /\ DOMAIN code' = 1 .. Len(owner')
      /\ \A b \in DOMAIN code' \ ended : code'[b] = Before(b)
      /\ \A b \in ended : \E targets : code'[b] = <<targets>> /\ Sound(b, targets)
  BY DEF Emit
<1>3. ASSUME NEW b \in DOMAIN code'
      PROVE  Len(code'[b]) <= 1 /\ \A i \in DOMAIN code'[b] : Sound(b, code'[b][i])
  <2>1. CASE b \in ended
    <3>1. PICK targets : code'[b] = <<targets>> /\ Sound(b, targets)
      BY <2>1, <1>2
    <3>2. Len(<<targets>>) = 1 /\ DOMAIN <<targets>> = {1} /\ <<targets>>[1] = targets
      OBVIOUS
    <3>3. QED
      BY <3>1, <3>2
  <2>2. CASE b \notin ended /\ b \notin 1 .. Len(owner)
    <3>1. code'[b] = <<>>
      BY <2>2, <1>2 DEF Before
    <3>2. QED
      BY <3>1
  <2>3. CASE b \notin ended /\ b \in 1 .. Len(owner)
    <3>1. code'[b] = code[b]
      BY <2>3, <1>2 DEF Before
    <3>2. Len(code[b]) <= 1
      BY <2>3 DEF VInv, SingleTerminator, Blocks
    <3>3. ASSUME NEW i \in DOMAIN code[b]
          PROVE  Sound(b, code[b][i])
      <4>1. code[b] \in Seq(SUBSET (1 .. Len(owner)))
        BY <2>3, <1>1, ElementOfSeq DEF Code
      <4>2. code[b][i] \subseteq 1 .. Len(owner)
        <5>1. i \in 1 .. Len(code[b])
          BY <4>1, LenProperties
        <5>2. code[b][i] \in SUBSET (1 .. Len(owner))
          BY <4>1, <5>1, ElementOfSeq
        <5>3. QED
          BY <5>2
      <4>3. \A t \in code[b][i] : owner[t] = owner[b] /\ owner[t] # t
        BY <2>3, <1>1 DEF VInv, Stays
      <4>4. QED
        BY <2>3, <4>2, <4>3 DEF Sound, OwnersKept
    <3>4. QED
      BY <3>1, <3>2, <3>3
  <2>4. QED
    BY <2>1, <2>2, <2>3
<1>4. SingleTerminator'
  BY <1>2, <1>3 DEF SingleTerminator, Blocks
<1>5. Stays(code', owner')
  BY <1>3 DEF Stays, Sound
<1>6. QED
  BY <1>4, <1>5

\* A step that leaves the builder at a block without a terminator.
LEMMA Reopened ==
  ASSUME VInv, TInv', status = "running", visits # <<>>, UNCHANGED status, OwnersKept,
         Len(owner') \in Nat, Len(owner) <= Len(owner'), NEW ended, Emit(ended),
         Tidy(visits', frames', cursor', code'), Waits(visits'),
         cursor' \in DOMAIN code', cursor' \notin ended, Before(cursor') = <<>>
  PROVE  VInv'
<1>1. SingleTerminator' /\ Stays(code', owner')
  BY EmitKeeps
<1>2. code'[cursor'] = <<>>
  BY DEF Emit
<1>3. Open'
  BY <1>2 DEF Open, Ended
<1>4. QED
  BY <1>1, <1>3 DEF VInv

\* Who waits goes on doing so.
LEMMA ReturnedWaits ==
  ASSUME NEW n \in Nat, NEW v \in Seq(Activation(n)), v # <<>>, Waits(v)
  PROVE  Waits(Returned(v))
<1> DEFINE k == Len(v)
           a == [v[k] EXCEPT !.at = "after"]
<1>1. k \in 1 .. k /\ v[k] \in Activation(n) /\ DOMAIN v = 1 .. k
  BY ActivationAt
<1>2. CASE v[k].at = "body"
  <2>1. a \in Activation(n) /\ a.kind = v[k].kind
    BY <1>1 DEF Activation
  <2>2. Returned(v) = [v EXCEPT ![k] = a]
    BY <1>2 DEF Returned, Top
  <2> HIDE DEF a, k
  <2>3. /\ Len(Returned(v)) = k /\ DOMAIN Returned(v) = 1 .. k
        /\ \A i \in 1 .. k : i # k => Returned(v)[i] = v[i]
        /\ Returned(v)[k].kind = v[k].kind
    <3>1. Len(v) = k /\ k \in 1 .. k /\ DOMAIN v = 1 .. k
      BY <1>1 DEF k
    <3>2. Returned(v) = [v EXCEPT ![k] = a]
      BY <2>2
    <3>3. /\ DOMAIN Returned(v) = 1 .. k /\ Returned(v)[k] = a
          /\ \A i \in 1 .. k : i # k => Returned(v)[i] = v[i]
      BY <3>1, <3>2
    <3>4. Len(Returned(v)) = k
      BY <3>1, <3>2, <2>1, <1>1, ExceptSeq
    <3>5. QED
      BY <2>1, <3>3, <3>4
  <2>4. v[k].kind # "use"
    BY <1>1, <1>2 DEF Waits
  <2>5. QED
    BY <1>1, <2>3, <2>4 DEF Waits, k
<1>3. CASE v[k].at # "body"
  BY <1>3 DEF Returned, Top
<1>4. QED
  BY <1>2, <1>3

LEMMA SimpleWaits ==
  ASSUME VInv, status = "running", visits # <<>>, Simple
  PROVE  Waits(visits')
BY Ready, ReturnedWaits DEF VInv, TInv, Simple

LEMMA LeaveWaits ==
  ASSUME VInv, status = "running", visits # <<>>, Top(visits).kind # "tree", Leave
  PROVE  /\ Rest(visits) \in Seq(Activation(Len(owner))) /\ Rest(visits) # <<>>
         /\ Len(Rest(visits)) = Len(visits) - 1
         /\ \A i \in 1 .. Len(visits) - 1 : Rest(visits)[i] = visits[i]
         /\ Waits(Rest(visits)) /\ visits' = Returned(Rest(visits)) /\ Waits(visits')
<1> DEFINE w == Rest(visits)
           k == Len(visits) - 1
<1>1. /\ visits \in Seq(Activation(Len(owner))) /\ Len(owner) \in Nat
      /\ frames \in Seq(Frame(Len(owner))) /\ Discipline(visits, frames)
      /\ Len(visits) \in Nat /\ Len(visits) >= 1 /\ DOMAIN visits = 1 .. Len(visits)
      /\ Waits(visits)
  BY Ready, ActivationAt DEF VInv, TInv
<1>2. k \in Nat /\ k >= 1 /\ Len(visits) = k + 1
  <2>1. Len(visits) # 1
    BY <1>1, DisciplineAt
  <2>2. QED
    BY <2>1, <1>1
<1>3. w \in Seq(Activation(Len(owner))) /\ Len(w) = k /\ \A i \in 1 .. k : w[i] = visits[i]
  BY <1>1, PopProperties DEF Pop
<1>4. \A i \in 1 .. k : i \in DOMAIN visits /\ i # Len(visits)
  <2> HIDE DEF k
  <2>1. QED
    BY <1>1, <1>2
<1>5. visits' = Returned(w)
  BY DEF Leave
<1> HIDE DEF w, k
<1>6. w # <<>> /\ DOMAIN w = 1 .. k
  BY <1>2, <1>3, EmptySeq, LenProperties
<1>7. Waits(w)
  BY <1>1, <1>3, <1>4, <1>6 DEF Waits
<1>8. Waits(visits')
  BY <1>1, <1>3, <1>5, <1>6, <1>7, ReturnedWaits
<1>9. QED
  BY <1>3, <1>5, <1>6, <1>7, <1>8 DEF w, k

\* A handler that nests visits one of its statements.
LEMMA NestWaits ==
  ASSUME VInv, status = "running", Accepts, NEW a, visits' = Append(visits, a),
         a.kind = "use" => a.at = "list"
  PROVE  Waits(visits')
<1> DEFINE k == Len(visits)
<1>1. visits # <<>> /\ Top(visits).at \in {"body", "list"}
  BY DEF Accepts
<1>2. /\ visits \in Seq(Activation(Len(owner))) /\ k \in Nat /\ DOMAIN visits = 1 .. k
      /\ Waits(visits)
  BY <1>1, Ready, ActivationAt DEF VInv, TInv
<1>3. /\ \A i \in 1 .. k : visits'[i] = visits[i]
      /\ visits'[k + 1] = a /\ DOMAIN visits' = 1 .. k + 1 /\ Len(visits') = k + 1
  BY <1>2
<1>4. \A i \in 1 .. k : visits[i].at \in {"body", "list"}
  BY <1>1, <1>2 DEF Waits, Top
<1> HIDE DEF k
<1>5. \A i \in 1 .. k + 1 : i = k + 1 \/ i \in 1 .. k
  BY <1>2
<1>6. QED
  BY <1>2, <1>3, <1>4, <1>5 DEF Waits

LEMMA AdvanceWaits ==
  ASSUME VInv, status = "running", visits # <<>>, NEW a,
         visits' = [visits EXCEPT ![Len(visits)] = a], a.kind # "use"
  PROVE  Waits(visits')
<1>1. /\ visits \in Seq(Activation(Len(owner))) /\ DOMAIN visits = 1 .. Len(visits)
      /\ Len(visits) \in Nat /\ Waits(visits)
  BY Ready, ActivationAt DEF VInv, TInv
<1>2. /\ DOMAIN visits' = 1 .. Len(visits) /\ Len(visits') = Len(visits)
      /\ \A i \in 1 .. Len(visits) : visits'[i] = IF i = Len(visits) THEN a ELSE visits[i]
  BY <1>1
<1>3. QED
  BY <1>1, <1>2 DEF Waits

-----------------------------------------------------------------------------
(* Handlers that open.                                                     *)

\* A statement comes only where the current block has no terminator.
LEMMA AcceptsOpen ==
  ASSUME VInv, status = "running", Accepts
  PROVE  visits # <<>> /\ ~ Ended(cursor)
<1>1. visits # <<>>
  BY DEF Accepts
<1>2. cursor = Block(frames)
  BY <1>1, Ready DEF VInv, TInv
<1>3. QED
  BY <1>1, <1>2 DEF Accepts, VInv, Open

\* The blocks that AddBlocks creates.
LEMMA FreshAre ==
  ASSUME IInv, status = "running", visits # <<>>, NEW k \in Nat, AddBlocks(k)
  PROVE  /\ Len(owner) \in Nat /\ Len(owner') \in Nat /\ Len(owner) <= Len(owner')
         /\ Fresh = {New(i) : i \in 1 .. k}
         /\ cursor \notin Fresh /\ cursor \in 1 .. Len(owner)
         /\ \A i, j \in 1 .. k : i # j => New(i) # New(j)
         /\ \A i \in 1 .. k : /\ New(i) # NoBlock /\ New(i) \in 1 .. Len(owner')
                              /\ Before(New(i)) = <<>>
<1>1. /\ Len(owner) \in Nat /\ cursor \in 1 .. Len(owner) /\ Len(owner') = Len(owner) + k
  BY Ready, NewBlocks
<1>2. \A b \in Fresh : b - Len(owner) \in 1 .. k /\ b = New(b - Len(owner))
  BY <1>1 DEF Fresh, New
<1>3. \A i \in 1 .. k : New(i) \in Fresh
  BY <1>1 DEF Fresh, New
<1>4. Fresh = {New(i) : i \in 1 .. k}
  BY <1>2, <1>3
<1>5. cursor \notin Fresh /\ \A i, j \in 1 .. k : i # j => New(i) # New(j)
  BY <1>1 DEF Fresh, New
<1>6. \A i \in 1 .. k : /\ New(i) # NoBlock /\ New(i) \in 1 .. Len(owner')
                        /\ Before(New(i)) = <<>>
  BY <1>1 DEF New, NoBlock, Before
<1>7. QED
  BY <1>1, <1>4, <1>5, <1>6

\* A handler that ends the current block and goes on at the j-th of the blocks
\* it creates; those it has not ended it awaits.
LEMMA OpenVerified ==
  ASSUME VInv, TInv', NEW k \in Nat, NEW kind, Visit(kind, k), AddBlocks(k),
         NEW a, a.kind # "use", Apart(a), Nest(a),
         \A i \in 1 .. Len(frames) : frames'[i] = frames[i],
         NEW ended, Emit(ended), cursor \in ended,
         ended \subseteq {cursor} \cup {New(i) : i \in 1 .. k},
         NEW j \in 1 .. k, cursor' = New(j), New(j) \notin ended, UNCHANGED status,
         Awaits(a, frames') = {New(i) : i \in 1 .. k} \ (ended \cup {New(j)})
  PROVE  VInv'
<1>1. status = "running" /\ visits # <<>> /\ Accepts /\ IInv
  BY Visited DEF Visit, VInv, TInv
<1>2. /\ Len(owner) \in Nat /\ Len(owner') \in Nat /\ Len(owner) <= Len(owner')
      /\ Fresh = {New(i) : i \in 1 .. k} /\ cursor \notin Fresh
      /\ Before(New(j)) = <<>> /\ New(j) \in 1 .. Len(owner')
  BY <1>1, FreshAre
<1>3. OwnersKept
  BY <1>1, NewOwners
<1>4. visits' = Append(visits, a)
  BY DEF Nest
<1>5. Waits(visits')
  BY <1>1, <1>4, NestWaits
<1>6. Breaks(Len(frames))
  BY DEF Breaks
<1> DEFINE now == Awaits(a, frames')
<1>7. /\ now = Fresh \ (ended \cup {cursor'})
      /\ now = Awaits(a, frames')
  BY <1>2
<1> HIDE DEF now
<1>8. /\ cursor' \notin now /\ now \cup {cursor'} \subseteq Fresh \cup {cursor}
      /\ ended \subseteq Fresh \cup {cursor}
      /\ \A b \in Fresh : b # cursor' => (b \in now <=> b \notin ended)
      /\ cursor # cursor' => (cursor \in now <=> cursor \notin ended /\ ~ Ended(cursor))
  BY <1>2, <1>7
<1>9. Tidy(visits', frames', cursor', code')
  BY <1>1, <1>2, <1>4, <1>6, <1>7, <1>8, NestTidy
<1>10. cursor' \in DOMAIN code'
  BY <1>2 DEF Emit
<1>11. QED
  BY <1>1, <1>2, <1>3, <1>5, <1>9, <1>10, Reopened
\* What every handler that opens finds.
LEMMA OpeningAt ==
  ASSUME VInv, NEW k \in Nat, NEW kind, Visit(kind, k), AddBlocks(k), NEW n, n = Len(owner) + k
  PROVE  /\ status = "running" /\ visits # <<>> /\ IInv /\ ~ Ended(cursor)
         /\ n \in Nat /\ frames \in Seq(Frame(n)) /\ frames # <<>> /\ NoBlock \in 0 .. n
         /\ \A i \in 1 .. k : New(i) \in 1 .. n /\ New(i) \in 0 .. n /\ New(i) # NoBlock
         /\ \A i, j \in 1 .. k : i # j => New(i) # New(j)
         /\ \A i \in 1 .. k : New(i) # cursor
<1>1. status = "running" /\ visits # <<>> /\ Accepts /\ IInv
  BY Visited DEF Visit, VInv, TInv
<1>2. ~ Ended(cursor)
  BY <1>1, AcceptsOpen
<1>3. /\ n \in Nat /\ frames \in Seq(Frame(n)) /\ frames # <<>> /\ NoBlock \in 0 .. n
      /\ \A i \in 1 .. k : New(i) \in 1 .. n /\ New(i) \in 0 .. n /\ New(i) # NoBlock
  BY <1>1, OpenReady
<1>4. /\ Fresh = {New(i) : i \in 1 .. k} /\ cursor \notin Fresh
      /\ \A i, j \in 1 .. k : i # j => New(i) # New(j)
  BY <1>1, FreshAre
<1>5. QED
  BY <1>1, <1>2, <1>3, <1>4

LEMMA RegionVerified ==
  ASSUME VInv, TInv', NEW kind \in {"scope", "label"}, NEW at, OpenRegion(kind, at)
  PROVE  VInv'
<1> DEFINE a == Visiting(kind, at, New(2), NoBlock, NoBlock, NoBlock)
           n == Len(owner) + 2
           ended == {cursor}
<1>1. /\ Visit(kind, 2) /\ AddBlocks(2) /\ Nest(a)
      /\ code' = Terminate(Blank(2), cursor, {New(1)})
      /\ frames' = Push(frames, New(1), NoBlock, NoBlock)
      /\ cursor' = New(1) /\ UNCHANGED status
  BY DEF OpenRegion, StartAt
<1>2. /\ IInv /\ ~ Ended(cursor) /\ n \in Nat /\ frames \in Seq(Frame(n))
      /\ NoBlock \in 0 .. n /\ frames # <<>>
      /\ \A i \in 1 .. 2 : New(i) \in 1 .. n /\ New(i) # NoBlock /\ New(i) # cursor
      /\ New(1) # New(2)
  BY <1>1, OpeningAt
<1>3. {New(i) : i \in 1 .. 2} = {New(1), New(2)}
  OBVIOUS
<1>4. a.kind = kind /\ Awaits(a, frames') = {New(2)} /\ Apart(a)
  BY DEF Visiting, Awaits, Apart
<1> HIDE DEF a, n
<1>5. \A i \in 1 .. Len(frames) : frames'[i] = frames[i]
  <2>1. OnTop(frames', frames, 1, New(1), NoBlock, NoBlock)
    BY <1>1, <1>2, PushedOnce
  <2>2. QED
    BY <2>1 DEF OnTop
<1>6. Emit(ended)
  BY <1>1, <1>2, <1>3, EmitBranch
<1>7. /\ Awaits(a, frames') = {New(i) : i \in 1 .. 2} \ (ended \cup {New(1)})
      /\ ended \subseteq {cursor} \cup {New(i) : i \in 1 .. 2} /\ cursor \in ended
      /\ New(1) \notin ended /\ 2 \in Nat /\ 1 \in 1 .. 2 /\ a.kind # "use"
  BY <1>2, <1>3, <1>4
<1> HIDE DEF ended
<1> DEFINE k == 2
           j == 1
<1> HIDE DEF k, j
<1>8. QED
  BY <1>1, <1>4, <1>5, <1>6, <1>7, OpenVerified DEF k, j

LEMMA IfVerified ==
  ASSUME VInv, TInv', NEW hasElse \in BOOLEAN, OpenIf(hasElse)
  PROVE  VInv'
<1> DEFINE onFalse == IF hasElse THEN New(3) ELSE NoBlock
           k == IF hasElse THEN 3 ELSE 2
           a == Visiting("if", "body", New(2), NoBlock, NoBlock, onFalse)
           n == Len(owner) + k
           ended == {cursor}
           targets == {New(1), IF hasElse THEN New(3) ELSE New(2)}
<1>1. /\ Visit("if", k) /\ AddBlocks(k) /\ Nest(a)
      /\ code' = Terminate(Blank(k), cursor, targets)
      /\ frames' = Push(frames, New(1), NoBlock, NoBlock)
      /\ cursor' = New(1) /\ UNCHANGED status
  BY DEF OpenIf, StartAt
<1>2. k \in Nat /\ 1 \in 1 .. k /\ 2 \in 1 .. k /\ (hasElse => 3 \in 1 .. k)
  OBVIOUS
<1>3. {New(i) : i \in 1 .. k} = IF hasElse THEN {New(1), New(2), New(3)} ELSE {New(1), New(2)}
  OBVIOUS
<1> HIDE DEF n, k
<1>4. /\ IInv /\ ~ Ended(cursor) /\ n \in Nat /\ frames \in Seq(Frame(n))
      /\ NoBlock \in 0 .. n /\ frames # <<>>
      /\ \A i \in 1 .. k : New(i) \in 1 .. n /\ New(i) # NoBlock /\ New(i) # cursor
      /\ \A i, j \in 1 .. k : i # j => New(i) # New(j)
  BY <1>1, <1>2, OpeningAt DEF n
<1>5. /\ New(1) # NoBlock /\ New(2) # NoBlock /\ New(1) # New(2) /\ New(1) # cursor
      /\ New(2) # cursor
      /\ hasElse => /\ New(3) # NoBlock /\ New(3) # New(1) /\ New(3) # New(2)
                    /\ New(3) # cursor
  BY <1>2, <1>4
<1>6. /\ a.kind = "if" /\ Apart(a)
      /\ Awaits(a, frames') = IF hasElse THEN {New(2), New(3)} ELSE {New(2)}
  BY <1>5 DEF Visiting, Awaits, Apart
<1> HIDE DEF a
<1>7. \A i \in 1 .. Len(frames) : frames'[i] = frames[i]
  <2>1. OnTop(frames', frames, 1, New(1), NoBlock, NoBlock)
    BY <1>1, <1>2, <1>4, PushedOnce
  <2>2. QED
    BY <2>1 DEF OnTop
<1>8. targets \subseteq {New(i) : i \in 1 .. k}
  BY <1>3
<1> HIDE DEF targets
<1>9. Emit(ended)
  BY <1>1, <1>2, <1>4, <1>8, EmitBranch
<1>10. /\ Awaits(a, frames') = {New(i) : i \in 1 .. k} \ (ended \cup {New(1)})
       /\ ended \subseteq {cursor} \cup {New(i) : i \in 1 .. k} /\ cursor \in ended
       /\ New(1) \notin ended /\ a.kind # "use"
  BY <1>3, <1>5, <1>6
<1> HIDE DEF ended
<1>11. QED
  BY <1>1, <1>2, <1>6, <1>7, <1>9, <1>10, OpenVerified

LEMMA SwitchVerified ==
  ASSUME VInv, TInv', OpenSwitch
  PROVE  VInv'
<1> DEFINE a == Visiting("switch", "body", New(2), NoBlock, NoBlock, NoBlock)
           n == Len(owner) + 3
           ended == {cursor, New(1)}
<1>1. /\ Visit("switch", 3) /\ AddBlocks(3) /\ Nest(a)
      /\ code' = Terminate(Terminate(Blank(3), cursor, {New(1)}), New(1), {New(3)})
      /\ frames' = Push(Push(frames, New(1), New(2), NoBlock), New(3), NoBlock, NoBlock)
      /\ cursor' = New(3) /\ UNCHANGED status
  BY DEF OpenSwitch, StartAt
<1>2. /\ IInv /\ ~ Ended(cursor) /\ n \in Nat /\ frames \in Seq(Frame(n))
      /\ NoBlock \in 0 .. n /\ frames # <<>>
      /\ \A i \in 1 .. 3 : /\ New(i) \in 1 .. n /\ New(i) \in 0 .. n
                           /\ New(i) # NoBlock /\ New(i) # cursor
      /\ New(1) # New(2) /\ New(1) # New(3) /\ New(2) # New(3)
  BY <1>1, OpeningAt
<1>3. {New(i) : i \in 1 .. 3} = {New(1), New(2), New(3)}
  OBVIOUS
<1>4. a.kind = "switch" /\ Awaits(a, frames') = {New(2)} /\ Apart(a)
  BY DEF Visiting, Awaits, Apart
<1> HIDE DEF a, n
<1>5. \A i \in 1 .. Len(frames) : frames'[i] = frames[i]
  <2>1. OnTop(frames', frames, 2, New(3), New(2), NoBlock)
    BY <1>1, <1>2, PushedTwice
  <2>2. QED
    BY <2>1 DEF OnTop
<1> DEFINE k == 3
           j == 1
<1> HIDE DEF k, j
<1>6. /\ k \in Nat /\ j \in 1 .. k /\ {New(1)} \subseteq {New(i) : i \in 1 .. k}
      /\ {New(3)} \subseteq {New(i) : i \in 1 .. k}
      /\ code' = Terminate(Terminate(Blank(k), cursor, {New(1)}), New(j), {New(3)})
      /\ Visit("switch", k) /\ AddBlocks(k)
  BY <1>1, <1>3 DEF k, j
<1>7. Emit(ended)
  BY <1>2, <1>6, EmitBranches DEF j
<1>8. /\ Awaits(a, frames') = {New(i) : i \in 1 .. k} \ (ended \cup {New(3)})
      /\ ended \subseteq {cursor} \cup {New(i) : i \in 1 .. k} /\ cursor \in ended
      /\ New(3) \notin ended /\ 3 \in 1 .. k /\ a.kind # "use"
  BY <1>2, <1>3, <1>4 DEF k
<1> HIDE DEF ended
<1>9. QED
  BY <1>1, <1>4, <1>5, <1>6, <1>7, <1>8, OpenVerified

LEMMA WhileVerified ==
  ASSUME VInv, TInv', OpenWhile
  PROVE  VInv'
<1> DEFINE a == Visiting("while", "body", New(3), New(1), NoBlock, NoBlock)
           n == Len(owner) + 3
           ended == {cursor, New(1)}
           others == {New(2), New(3)}
<1>1. /\ Visit("while", 3) /\ AddBlocks(3) /\ Nest(a)
      /\ code' = Terminate(Terminate(Blank(3), cursor, {New(1)}), New(1), others)
      /\ frames' = Push(Push(frames, New(1), NoBlock, NoBlock), New(2), New(3), New(1))
      /\ cursor' = New(2) /\ UNCHANGED status
  BY DEF OpenWhile, StartAt
<1>2. /\ IInv /\ ~ Ended(cursor) /\ n \in Nat /\ frames \in Seq(Frame(n))
      /\ NoBlock \in 0 .. n /\ frames # <<>>
      /\ \A i \in 1 .. 3 : /\ New(i) \in 1 .. n /\ New(i) \in 0 .. n
                           /\ New(i) # NoBlock /\ New(i) # cursor
      /\ New(1) # New(2) /\ New(1) # New(3) /\ New(2) # New(3)
  BY <1>1, OpeningAt
<1>3. {New(i) : i \in 1 .. 3} = {New(1), New(2), New(3)}
  OBVIOUS
<1>4. a.kind = "while" /\ Awaits(a, frames') = {New(3)} /\ Apart(a)
  BY <1>2 DEF Visiting, Awaits, Apart
<1> HIDE DEF a, n
<1>5. \A i \in 1 .. Len(frames) : frames'[i] = frames[i]
  <2>1. OnTop(frames', frames, 2, New(2), New(3), New(1))
    BY <1>1, <1>2, PushedTwice
  <2>2. QED
    BY <2>1 DEF OnTop
<1> DEFINE k == 3
           j == 1
<1> HIDE DEF k, j
<1>6. /\ k \in Nat /\ j \in 1 .. k /\ {New(1)} \subseteq {New(i) : i \in 1 .. k}
      /\ others \subseteq {New(i) : i \in 1 .. k}
      /\ code' = Terminate(Terminate(Blank(k), cursor, {New(1)}), New(j), others)
      /\ Visit("while", k) /\ AddBlocks(k)
  BY <1>1, <1>3 DEF k, j
<1> HIDE DEF others
<1>7. Emit(ended)
  BY <1>2, <1>6, EmitBranches DEF j
<1>8. /\ Awaits(a, frames') = {New(i) : i \in 1 .. k} \ (ended \cup {New(2)})
      /\ ended \subseteq {cursor} \cup {New(i) : i \in 1 .. k} /\ cursor \in ended
      /\ New(2) \notin ended /\ 2 \in 1 .. k /\ a.kind # "use"
  BY <1>2, <1>3, <1>4 DEF k
<1> HIDE DEF ended
<1>9. QED
  BY <1>1, <1>4, <1>5, <1>6, <1>7, <1>8, OpenVerified

LEMMA DoVerified ==
  ASSUME VInv, TInv', OpenDo
  PROVE  VInv'
<1> DEFINE a == Visiting("do", "body", New(3), New(2), New(1), NoBlock)
           n == Len(owner) + 3
           ended == {cursor}
<1>1. /\ Visit("do", 3) /\ AddBlocks(3) /\ Nest(a)
      /\ code' = Terminate(Blank(3), cursor, {New(1)})
      /\ frames' = Push(frames, New(1), New(3), New(2))
      /\ cursor' = New(1) /\ UNCHANGED status
  BY DEF OpenDo, StartAt
<1>2. /\ IInv /\ ~ Ended(cursor) /\ n \in Nat /\ frames \in Seq(Frame(n))
      /\ NoBlock \in 0 .. n /\ frames # <<>>
      /\ \A i \in 1 .. 3 : /\ New(i) \in 1 .. n /\ New(i) \in 0 .. n
                           /\ New(i) # NoBlock /\ New(i) # cursor
      /\ New(1) # New(2) /\ New(1) # New(3) /\ New(2) # New(3)
  BY <1>1, OpeningAt
<1>3. {New(i) : i \in 1 .. 3} = {New(1), New(2), New(3)}
  OBVIOUS
<1>4. a.kind = "do" /\ Awaits(a, frames') = {New(3), New(2)} /\ Apart(a)
  BY <1>2 DEF Visiting, Awaits, Apart
<1> HIDE DEF a, n
<1>5. \A i \in 1 .. Len(frames) : frames'[i] = frames[i]
  <2>1. OnTop(frames', frames, 1, New(1), New(3), New(2))
    BY <1>1, <1>2, PushedOnce
  <2>2. QED
    BY <2>1 DEF OnTop
<1> DEFINE k == 3
<1> HIDE DEF k
<1>6. /\ k \in Nat /\ {New(1)} \subseteq {New(i) : i \in 1 .. k}
      /\ code' = Terminate(Blank(k), cursor, {New(1)})
      /\ Visit("do", k) /\ AddBlocks(k)
  BY <1>1, <1>3 DEF k
<1>7. Emit(ended)
  BY <1>2, <1>6, EmitBranch
<1>8. /\ Awaits(a, frames') = {New(i) : i \in 1 .. k} \ (ended \cup {New(1)})
      /\ ended \subseteq {cursor} \cup {New(i) : i \in 1 .. k} /\ cursor \in ended
      /\ New(1) \notin ended /\ 1 \in 1 .. k /\ a.kind # "use"
  BY <1>2, <1>3, <1>4 DEF k
<1> HIDE DEF ended
<1>9. QED
  BY <1>1, <1>4, <1>5, <1>6, <1>7, <1>8, OpenVerified

LEMMA ForVerified ==
  ASSUME VInv, TInv', OpenFor
  PROVE  VInv'
<1> DEFINE a == Visiting("for", "decls", New(5), New(2), New(3), New(4))
           n == Len(owner) + 5
           ended == {cursor}
<1>1. /\ Visit("for", 5) /\ AddBlocks(5) /\ Nest(a)
      /\ code' = Terminate(Blank(5), cursor, {New(1)})
      /\ frames' = Push(frames, New(1), New(5), New(4))
      /\ cursor' = New(1) /\ UNCHANGED status
  BY DEF OpenFor, StartAt
<1>2. /\ IInv /\ ~ Ended(cursor) /\ n \in Nat /\ frames \in Seq(Frame(n))
      /\ NoBlock \in 0 .. n /\ frames # <<>>
      /\ \A i \in 1 .. 5 : /\ New(i) \in 1 .. n /\ New(i) \in 0 .. n
                           /\ New(i) # NoBlock /\ New(i) # cursor
      /\ \A i, j \in 1 .. 5 : i # j => New(i) # New(j)
  BY <1>1, OpeningAt
<1>3. {New(i) : i \in 1 .. 5} = {New(1), New(2), New(3), New(4), New(5)}
  OBVIOUS
<1>4. /\ New(2) # New(5) /\ New(3) # New(5) /\ New(4) # New(5)
      /\ New(2) # New(3) /\ New(2) # New(4) /\ New(3) # New(4)
      /\ New(1) \notin {New(2), New(3), New(4), New(5)}
      /\ cursor \notin {New(1), New(2), New(3), New(4), New(5)}
  BY <1>2
<1>5. /\ a.kind = "for" /\ Apart(a)
      /\ Awaits(a, frames') = {New(5), New(4), New(2), New(3)}
  BY <1>4 DEF Visiting, Awaits, Apart
<1> HIDE DEF a, n
<1>6. \A i \in 1 .. Len(frames) : frames'[i] = frames[i]
  <2>1. OnTop(frames', frames, 1, New(1), New(5), New(4))
    BY <1>1, <1>2, PushedOnce
  <2>2. QED
    BY <2>1 DEF OnTop
<1> DEFINE k == 5
<1> HIDE DEF k
<1>7. /\ k \in Nat /\ {New(1)} \subseteq {New(i) : i \in 1 .. k}
      /\ code' = Terminate(Blank(k), cursor, {New(1)})
      /\ Visit("for", k) /\ AddBlocks(k)
  BY <1>1, <1>3 DEF k
<1>8. Emit(ended)
  BY <1>2, <1>7, EmitBranch
<1>9. /\ Awaits(a, frames') = {New(i) : i \in 1 .. k} \ (ended \cup {New(1)})
      /\ ended \subseteq {cursor} \cup {New(i) : i \in 1 .. k} /\ cursor \in ended
      /\ New(1) \notin ended /\ 1 \in 1 .. k /\ a.kind # "use"
  BY <1>3, <1>4, <1>5 DEF k
<1> HIDE DEF ended
<1>10. QED
  BY <1>1, <1>5, <1>6, <1>7, <1>8, <1>9, OpenVerified
\* A function's body starts in a block of its own; the block that its
\* declaration stands in is not ended, and CloseFun goes back to it.
LEMMA FunVerified ==
  ASSUME VInv, TInv', OpenFun
  PROVE  VInv'
<1> DEFINE a == Waiting("fun", "decls")
           n == Len(owner) + 1
           none == {}
           now == {cursor}
<1>1. /\ Visit("fun", 1) /\ visits' = Append(visits, a)
      /\ owner' = Append(owner, New(1)) /\ code' = Blank(1)
      /\ frames' = Push(frames, New(1), Block(frames), NoBlock)
      /\ cursor' = New(1) /\ UNCHANGED status
  BY DEF OpenFun, Nest
<1>2. status = "running" /\ visits # <<>> /\ IInv /\ Accepts
  BY <1>1, Visited DEF VInv, TInv, Visit
<1>3. /\ Len(owner) \in Nat /\ cursor = Block(frames) /\ cursor \in 1 .. Len(owner)
      /\ owner \in Seq(1 .. Len(owner)) /\ Len(frames) \in Nat
  BY <1>2, Ready
<1>4. ~ Ended(cursor)
  BY <1>2, AcceptsOpen
<1>5. /\ n \in Nat /\ frames \in Seq(Frame(n)) /\ frames # <<>>
      /\ New(1) \in 1 .. n /\ New(1) # NoBlock
      /\ NoBlock \in 0 .. n /\ Block(frames) \in 0 .. n /\ Block(frames) # NoBlock
  <2>1. Block(frames) \in 0 .. n /\ Block(frames) # NoBlock /\ 1 \in 1 .. 1 /\ 1 \in Nat
    BY <1>3 DEF NoBlock
  <2> DEFINE k == 1
  <2> HIDE DEF n, k
  <2>2. Visit("fun", k) /\ k \in Nat /\ n = Len(owner) + k /\ 1 \in 1 .. k
    BY <1>1, <2>1 DEF n, k
  <2>3. QED
    BY <1>2, <2>1, <2>2, OpenReady
<1>6. OnTop(frames', frames, 1, New(1), Block(frames), NoBlock)
  <2> HIDE DEF n
  <2>1. QED
    BY <1>1, <1>5, PushedOnce
<1>7. /\ \A i \in 1 .. Len(frames) : frames'[i] = frames[i]
      /\ frames'[Len(frames) + 1].breakBlock = cursor
  BY <1>3, <1>5, <1>6 DEF OnTop
<1>8. a.kind = "fun" /\ a.base = Len(frames) /\ Apart(a)
  BY DEF Waiting, Visiting, Apart
<1> HIDE DEF a
<1>9. now = Awaits(a, frames')
  BY <1>7, <1>8 DEF Awaits
<1>10. /\ Len(owner') = n /\ Len(owner') \in Nat /\ Len(owner) <= Len(owner') /\ OwnersKept
  BY <1>1, <1>3, AppendProperties DEF OwnersKept
<1>11. Fresh = {New(1)} /\ New(1) # cursor /\ Before(New(1)) = <<>>
  BY <1>3, <1>10 DEF Fresh, New, Before
<1>12. DOMAIN code' = 1 .. n /\ \A b \in 1 .. n : code'[b] = Before(b)
  BY <1>1, <1>2, BlankAt
<1>13. Emit(none)
  BY <1>10, <1>12 DEF Emit
<1>14. Breaks(Len(frames))
  BY <1>7 DEF Breaks
<1>15. /\ cursor' \notin now /\ now \cup {cursor'} \subseteq Fresh \cup {cursor}
       /\ none \subseteq Fresh \cup {cursor}
       /\ \A b \in Fresh : b # cursor' => (b \in now <=> b \notin none)
       /\ cursor # cursor' => (cursor \in now <=> cursor \notin none /\ ~ Ended(cursor))
       /\ cursor' \notin none
  BY <1>1, <1>4, <1>11
<1> HIDE DEF now, none, n
<1>16. Tidy(visits', frames', cursor', code')
  BY <1>1, <1>2, <1>8, <1>9, <1>10, <1>13, <1>14, <1>15, NestTidy
<1>17. Waits(visits')
  BY <1>1, <1>2, <1>8, NestWaits
<1>18. cursor' \in DOMAIN code' /\ Before(cursor') = <<>>
  BY <1>1, <1>5, <1>11, <1>12
<1>19. QED
  BY <1>1, <1>2, <1>10, <1>13, <1>15, <1>16, <1>17, <1>18, Reopened

\* The statements of a used module go where the use stands.
LEMMA UseVerified ==
  ASSUME VInv, TInv', OpenUse
  PROVE  VInv'
<1> DEFINE a == Waiting("use", "list")
           none == {}
           now == {}
<1>1. /\ Visit("use", 0) /\ visits' = Append(visits, a)
      /\ UNCHANGED <<status, frames, cursor, owner, code>>
  BY DEF OpenUse, Nest
<1>2. status = "running" /\ visits # <<>> /\ IInv /\ Accepts
  BY <1>1, Visited DEF VInv, TInv, Visit
<1>3. ~ Ended(cursor)
  BY <1>2, AcceptsOpen
<1>4. /\ Len(owner) \in Nat /\ cursor \in 1 .. Len(owner) /\ DOMAIN code = 1 .. Len(owner)
  BY <1>2, Ready, LenProperties DEF Code
<1>5. a.kind = "use" /\ a.at = "list" /\ Apart(a) /\ now = Awaits(a, frames')
  BY DEF Waiting, Visiting, Apart, Awaits
<1>6. Emit(none)
  BY <1>1, <1>2, EmitNone
<1>7. /\ OwnersKept /\ Breaks(Len(frames)) /\ Fresh = {}
      /\ Len(owner') \in Nat /\ Len(owner) <= Len(owner')
  BY <1>1, <1>4 DEF OwnersKept, Breaks, Fresh
<1>8. /\ cursor' \notin now /\ now \cup {cursor'} \subseteq Fresh \cup {cursor}
      /\ none \subseteq Fresh \cup {cursor} /\ cursor' \notin none
      /\ \A b \in Fresh : b # cursor' => (b \in now <=> b \notin none)
      /\ cursor # cursor' => (cursor \in now <=> cursor \notin none /\ ~ Ended(cursor))
  BY <1>1, <1>7
<1> HIDE DEF a, now, none
<1>9. Tidy(visits', frames', cursor', code')
  BY <1>1, <1>2, <1>5, <1>6, <1>7, <1>8, NestTidy
<1>10. Waits(visits')
  BY <1>1, <1>2, <1>5, NestWaits
<1>11. cursor' \in DOMAIN code' /\ Before(cursor') = <<>>
  BY <1>1, <1>3, <1>4 DEF Before, Ended
<1>12. QED
  BY <1>1, <1>2, <1>6, <1>7, <1>8, <1>9, <1>10, <1>11, Reopened

LEMMA TreeVerified ==
  ASSUME VInv, TInv', OpenTree
  PROVE  VInv'
<1> DEFINE a == Waiting("tree", "list")
<1>1. /\ visits' = <<a>> /\ owner' = <<1>> /\ code' = << <<>> >> /\ cursor' = 1
      /\ status' = "running"
  BY DEF OpenTree
<1>2. a.kind = "tree" /\ a.at = "list" /\ Apart(a) /\ Awaits(a, frames') = {}
  BY DEF Waiting, Visiting, Apart, Awaits
<1> HIDE DEF a
<1>3. /\ DOMAIN visits' = {1} /\ visits'[1] = a /\ DOMAIN code' = {1} /\ code'[1] = <<>>
      /\ Len(visits') = 1 /\ Len(owner') = 1
  BY <1>1
<1>4. SingleTerminator'
  <2>1. Len(code'[1]) = 0 /\ Blocks' = {1}
    BY <1>3 DEF Blocks
  <2>2. QED
    BY <2>1 DEF SingleTerminator
<1>5. Stays(code', owner')
  BY <1>3 DEF Stays
<1>6. Tidy(visits', frames', cursor', code')
  BY <1>1, <1>2, <1>3 DEF Tidy
<1>7. Waits(visits')
  BY <1>2, <1>3 DEF Waits
<1>8. Open'
  BY <1>1, <1>3 DEF Open, Ended
<1>9. QED
  BY <1>1, <1>4, <1>5, <1>6, <1>7, <1>8 DEF VInv
-----------------------------------------------------------------------------
(* Handlers that close.                                                    *)

\* What the handler on top awaits is not the current block, and has no code.
LEMMA AwaitedAt ==
  ASSUME VInv, status = "running", visits # <<>>, NEW b \in Awaits(Top(visits), frames)
  PROVE  b \in 1 .. Len(owner) /\ b # cursor /\ code[b] = <<>> /\ Before(b) = <<>>
<1>1. IInv /\ Tidy(visits, frames, cursor, code)
  BY DEF VInv, TInv
<1>2. /\ Top(visits) = visits[Len(visits)] /\ Len(visits) \in 1 .. Len(visits)
      /\ DOMAIN visits = 1 .. Len(visits) /\ DOMAIN code = 1 .. Len(owner)
  BY <1>1, Ready, ActivationAt, LenProperties DEF Top, Code
<1>3. b \in 1 .. Len(owner)
  BY <1>1, <1>2, AwaitsIn
<1>4. b # cursor
  BY <1>1, <1>2 DEF Tidy
<1>5. code[b] = <<>>
  BY <1>1, <1>2, <1>3, <1>4 DEF Tidy
<1>6. QED
  BY <1>3, <1>4, <1>5 DEF Before

\* The blocks of the handler on top are different ones.
LEMMA ApartAt ==
  ASSUME VInv, status = "running", visits # <<>>
  PROVE  Apart(Top(visits))
<1>1. IInv /\ Tidy(visits, frames, cursor, code)
  BY DEF VInv, TInv
<1>2. Top(visits) = visits[Len(visits)] /\ Len(visits) \in DOMAIN visits
  BY <1>1, Ready, ActivationAt DEF Top
<1>3. QED
  BY <1>1, <1>2 DEF Tidy

\* Going on at a handler's exit block keeps where break leads.
LEMMA JoinBreaks ==
  ASSUME IInv, NEW kind, kind \notin {"tree", "fun", "use"}, NEW at, At(kind, at),
         NEW fs \in Seq(Frame(Len(owner))), Len(fs) = Top(visits).base,
         \A i \in 1 .. Len(fs) : fs[i] = frames[i],
         LeaveTo(fs, Top(visits).exit)
  PROVE  Breaks(Top(visits).base)
<1>1. /\ Top(visits).kind # "tree" /\ Len(owner) \in Nat /\ status = "running" /\ visits # <<>>
      /\ Top(visits).exit \in 1 .. Len(owner)
  BY AtTop DEF HasLocals, NoBlock
<1>2. Top(visits).base >= 1
  BY <1>1, BaseType
<1>3. fs # <<>>
  BY <1>2, EmptySeq
<1>4. \A i \in 1 .. Len(fs) : SameJumps(frames'[i], fs[i])
  BY <1>1, <1>3, JoinKeeps DEF LeaveTo
<1>5. QED
  BY <1>4 DEF Breaks, SameJumps

\* A handler that joins its exit block, all the other blocks it awaited ended.
LEMMA LeaveVerified ==
  ASSUME VInv, TInv', NEW kind, kind \notin {"tree", "fun", "use"}, NEW at, At(kind, at),
         NEW fs \in Seq(Frame(Len(owner))), Len(fs) = Top(visits).base,
         \A i \in 1 .. Len(fs) : fs[i] = frames[i],
         NEW exit, exit = Top(visits).exit, LeaveTo(fs, exit), UNCHANGED <<status, owner>>,
         NEW ended, Emit(ended), NEW old, old = Awaits(Top(visits), frames),
         ended \subseteq old \cup {cursor}, exit \in old, exit \notin ended,
         \A b \in old : b # exit => b \in ended, cursor \in ended \/ Ended(cursor)
  PROVE  VInv'
<1>1. /\ status = "running" /\ visits # <<>> /\ IInv /\ Top(visits).kind # "tree"
      /\ Len(owner) \in Nat /\ cursor' = exit /\ Leave
  BY AtTop DEF VInv, TInv, LeaveTo
<1>2. Breaks(Top(visits).base)
  BY <1>1, JoinBreaks
<1>3. exit \in 1 .. Len(owner) /\ exit # cursor /\ Before(exit) = <<>>
  BY <1>1, AwaitedAt
<1>4. Tidy(visits', frames', cursor', code')
  BY <1>1, <1>2, <1>3, LeaveTidy
<1>5. Waits(visits')
  BY <1>1, LeaveWaits
<1>6. cursor' \in DOMAIN code'
  BY <1>1, <1>3 DEF Emit
<1>7. OwnersKept /\ Len(owner') \in Nat /\ Len(owner) <= Len(owner')
  BY <1>1 DEF OwnersKept
<1>8. QED
  BY <1>1, <1>3, <1>4, <1>5, <1>6, <1>7, Reopened

\* The frames below those of a handler that held one, or two.
LEMMA PoppedOnce ==
  ASSUME IInv, NEW kind, NEW at, At(kind, at), Held(Top(visits)) = 1
  PROVE  /\ Pop(frames) \in Seq(Frame(Len(owner))) /\ Len(Pop(frames)) = Top(visits).base
         /\ \A i \in 1 .. Len(Pop(frames)) : Pop(frames)[i] = frames[i]
<1>1. /\ frames \in Seq(Frame(Len(owner))) /\ Top(visits).base \in Nat
      /\ Len(frames) = Top(visits).base + 1
  BY AtTop
<1>2. Len(frames) >= 1 /\ Len(frames) - 1 = Top(visits).base
  BY <1>1
<1>3. QED
  BY <1>1, <1>2, PopOnce

LEMMA PoppedTwice ==
  ASSUME IInv, NEW kind, NEW at, At(kind, at), Held(Top(visits)) = 2
  PROVE  /\ Pop(Pop(frames)) \in Seq(Frame(Len(owner)))
         /\ Len(Pop(Pop(frames))) = Top(visits).base
         /\ \A i \in 1 .. Len(Pop(Pop(frames))) : Pop(Pop(frames))[i] = frames[i]
<1>1. /\ frames \in Seq(Frame(Len(owner))) /\ Top(visits).base \in Nat
      /\ Len(frames) = Top(visits).base + 2
  BY AtTop
<1>2. Len(frames) >= 2 /\ Len(frames) - 2 = Top(visits).base
  BY <1>1
<1>3. QED
  BY <1>1, <1>2, PopTwice

\* Scopes, labels, branches and switches await their exit only.
LEMMA JoinVerified ==
  ASSUME VInv, TInv', CloseScope \/ CloseLabel \/ CloseIf \/ CloseSwitch
  PROVE  VInv'
<1> DEFINE v == Top(visits)
           exit == v.exit
<1>1. /\ \/ At("scope", "list") \/ At("label", "after") \/ At("switch", "after")
         \/ At("if", "after") /\ v.alt = NoBlock
      /\ code' = Fall(exit) /\ UNCHANGED <<status, owner>>
  BY DEF CloseScope, CloseLabel, CloseRegion, CloseIf, CloseSwitch
<1>2. PICK kind \in {"scope", "label", "switch", "if"}, at \in {"list", "after"} : At(kind, at)
  BY <1>1
<1>3. /\ status = "running" /\ visits # <<>> /\ IInv /\ HasLocals(v) /\ v.kind = kind
      /\ exit # NoBlock
  BY <1>2, AtTop DEF VInv, TInv, HasLocals
<1>4. Awaits(v, frames) = {exit}
  BY <1>1, <1>3 DEF Awaits, At
<1>5. Sound(cursor, {exit})
  <2>1. {exit} \subseteq Locals(Top(visits)) /\ TInv /\ cursor \in Locals(Top(visits)) \cup {cursor}
    BY <1>3 DEF Locals, VInv
  <2>2. kind \notin {"tree", "fun"}
    BY <1>2
  <2>3. QED
    BY <1>1, <1>2, <2>1, <2>2, LocalsSound
<1>6. Emit(Unended)
  BY <1>1, <1>3, <1>5, EmitFall
<1>7. exit # cursor
  BY <1>3, <1>4, AwaitedAt
<1>8. /\ Unended \subseteq Awaits(v, frames) \cup {cursor} /\ exit \in Awaits(v, frames)
      /\ exit \notin Unended /\ (\A b \in Awaits(v, frames) : b # exit => b \in Unended)
      /\ (cursor \in Unended \/ Ended(cursor))
  BY <1>4, <1>7 DEF Unended
<1>9. PICK fs \in Seq(Frame(Len(owner))) :
        /\ Len(fs) = v.base
        /\ \A i \in 1 .. Len(fs) : fs[i] = frames[i]
        /\ LeaveTo(fs, exit)
  <2>1. CASE CloseSwitch
    <3>1. Held(Top(visits)) = 2 /\ LeaveTo(Pop(Pop(frames)), Top(visits).exit)
          /\ At("switch", "after")
      BY <2>1 DEF CloseSwitch, At, Held
    <3>2. QED
      BY <3>1, <1>3, PoppedTwice
  <2>2. CASE CloseScope \/ CloseLabel \/ CloseIf
    <3>1. Held(Top(visits)) = 1 /\ LeaveTo(Pop(frames), Top(visits).exit)
      BY <2>2 DEF CloseScope, CloseLabel, CloseRegion, CloseIf, At, Held
    <3>2. QED
      BY <1>2, <3>1, <1>3, PoppedOnce
  <2>3. QED
    BY <2>1, <2>2
<1>10. kind \notin {"tree", "fun", "use"} /\ exit = Top(visits).exit
  BY <1>2
<1> HIDE DEF v, exit
<1>11. QED
  BY <1>1, <1>2, <1>6, <1>8, <1>9, <1>10, LeaveVerified DEF v
\* The branch back to the condition: nothing in the body has ended the block
\* that it is appended to.
LEMMA CloseWhileVerified ==
  ASSUME VInv, TInv', CloseWhile
  PROVE  VInv'
<1> DEFINE v == Top(visits)
           exit == v.exit
           ended == {cursor}
           targets == {v.cond}
           fs == Pop(Pop(frames))
<1>1. /\ At("while", "after") /\ code' = Terminate(code, cursor, targets)
      /\ LeaveTo(fs, exit) /\ UNCHANGED <<status, owner>>
  BY DEF CloseWhile
<1>2. /\ status = "running" /\ visits # <<>> /\ IInv /\ HasLocals(v)
      /\ v.kind = "while" /\ v.at = "after" /\ Held(v) = 2 /\ v.cond # NoBlock
  BY <1>1, AtTop DEF VInv, TInv, HasLocals, Held, Loops
<1>3. ~ Ended(cursor)
  BY <1>2 DEF VInv, Open
<1>4. Awaits(v, frames) = {exit}
  BY <1>2 DEF Awaits
<1>5. Sound(cursor, targets)
  <2>1. targets \subseteq Locals(Top(visits)) /\ TInv
        /\ cursor \in Locals(Top(visits)) \cup {cursor}
    BY <1>2 DEF Locals, VInv
  <2> HIDE DEF targets
  <2>2. QED
    BY <1>1, <2>1, LocalsSound
<1>6. Emit(ended)
  <2> HIDE DEF targets
  <2>1. QED
    BY <1>1, <1>2, <1>3, <1>5, EmitEnd
<1>7. exit # cursor
  BY <1>2, <1>4, AwaitedAt
<1>8. /\ fs \in Seq(Frame(Len(owner))) /\ Len(fs) = Top(visits).base
      /\ \A i \in 1 .. Len(fs) : fs[i] = frames[i]
  BY <1>1, <1>2, PoppedTwice
<1>9. /\ ended \subseteq Awaits(v, frames) \cup {cursor} /\ exit \in Awaits(v, frames)
      /\ exit \notin ended /\ (\A b \in Awaits(v, frames) : b # exit => b \in ended)
      /\ cursor \in ended
  BY <1>4, <1>7
<1>10. exit = Top(visits).exit
  OBVIOUS
<1> HIDE DEF v, exit, ended, fs
<1>11. QED
  BY <1>1, <1>6, <1>8, <1>9, <1>10, LeaveVerified DEF v

LEMMA CloseDoVerified ==
  ASSUME VInv, TInv', CloseDo
  PROVE  VInv'
<1> DEFINE v == Top(visits)
           n == Len(owner)
           exit == v.exit
           cond == v.cond
           targets == {v.loop, v.exit}
           s == Push(frames, cond, NoBlock, NoBlock)
           fs == Pop(Pop(s))
           ended == Unended \cup {cond}
<1>1. /\ At("do", "after") /\ code' = Terminate(Fall(cond), cond, targets)
      /\ LeaveTo(fs, exit) /\ UNCHANGED <<status, owner>>
  BY DEF CloseDo
<1>2. /\ status = "running" /\ visits # <<>> /\ IInv /\ HasLocals(v)
      /\ v.kind = "do" /\ Held(v) = 1 /\ cond # NoBlock /\ exit # NoBlock /\ v.loop # NoBlock
  BY <1>1, AtTop DEF VInv, TInv, HasLocals, Held, Loops
<1>3. /\ n \in Nat /\ frames \in Seq(Frame(n)) /\ v.base \in Nat
      /\ Len(frames) = v.base + 1 /\ cond \in 1 .. n /\ NoBlock \in 0 .. n
  BY <1>1, <1>2, AtTop DEF NoBlock
<1>4. Awaits(v, frames) = {exit, cond} /\ cond # exit
  BY <1>2, ApartAt DEF Awaits, Apart
<1>5. /\ exit # cursor /\ cond # cursor /\ code[cond] = <<>>
  BY <1>2, <1>4, AwaitedAt
<1>6. Sound(cursor, {cond}) /\ Sound(cond, targets)
  <2>1. /\ {cond} \subseteq Locals(Top(visits)) /\ targets \subseteq Locals(Top(visits))
        /\ TInv /\ cursor \in Locals(Top(visits)) \cup {cursor}
        /\ cond \in Locals(Top(visits)) \cup {cursor}
    BY <1>2 DEF Locals, VInv
  <2> HIDE DEF targets, cond
  <2>2. QED
    BY <1>1, <2>1, LocalsSound
<1>7. Emit(ended)
  <2> HIDE DEF targets, cond, v
  <2>1. QED
    BY <1>1, <1>2, <1>3, <1>5, <1>6, EmitJoin DEF n
<1>8. /\ s \in Seq(Frame(n)) /\ Len(s) = Len(frames) + 1
      /\ \A i \in 1 .. Len(frames) : s[i] = frames[i]
  <2>1. Onto(s, frames, 1, cond, n)
    BY <1>3, PushOnto
  <2>2. QED
    BY <2>1 DEF Onto
<1>9. /\ ended \subseteq Awaits(v, frames) \cup {cursor} /\ exit \in Awaits(v, frames)
      /\ exit \notin ended /\ (\A b \in Awaits(v, frames) : b # exit => b \in ended)
      /\ (cursor \in ended \/ Ended(cursor))
  BY <1>4, <1>5 DEF Unended
<1>10. exit = Top(visits).exit
  OBVIOUS
<1> HIDE DEF v, exit, ended, s, cond, n
<1>11. Len(s) >= 2 /\ Len(s) - 2 = v.base /\ \A i \in 1 .. v.base : i \in 1 .. Len(frames)
  BY <1>3, <1>8
<1>12. /\ fs \in Seq(Frame(n)) /\ Len(fs) = Len(s) - 2
       /\ \A i \in 1 .. Len(s) - 2 : fs[i] = s[i]
  BY <1>8, <1>11, PopTwice
<1>13. Len(fs) = v.base /\ \A i \in 1 .. Len(fs) : fs[i] = frames[i]
  BY <1>8, <1>11, <1>12
<1> HIDE DEF fs
<1>14. QED
  BY <1>1, <1>7, <1>9, <1>10, <1>12, <1>13, LeaveVerified DEF v, n

\* The update block is joined by a body that has not ended its block.
LEMMA CloseForVerified ==
  ASSUME VInv, TInv', CloseFor
  PROVE  VInv'
<1> DEFINE v == Top(visits)
           n == Len(owner)
           exit == v.exit
           alt == v.alt
           targets == {v.cond}
           s == Pop(frames)
           fs == Pop(Pop(s))
           ended == Unended \cup {alt}
<1>1. /\ At("for", "after") /\ LeaveTo(fs, exit) /\ UNCHANGED <<status, owner>>
      /\ code' = IF Ended(Block(frames)) THEN code ELSE Terminate(Fall(alt), alt, targets)
  BY DEF CloseFor
<1>2. /\ status = "running" /\ visits # <<>> /\ IInv /\ HasLocals(v)
      /\ v.kind = "for" /\ v.at = "after" /\ Held(v) = 3
      /\ alt # NoBlock /\ exit # NoBlock /\ v.cond # NoBlock
  BY <1>1, AtTop DEF VInv, TInv, HasLocals, Held, Loops
<1>3. /\ n \in Nat /\ frames \in Seq(Frame(n)) /\ v.base \in Nat
      /\ Len(frames) = v.base + 3 /\ alt \in 1 .. n /\ cursor = Block(frames)
  BY <1>1, <1>2, AtTop, Ready DEF NoBlock
<1>4. ~ Ended(cursor)
  BY <1>2 DEF VInv, Open
<1>5. Awaits(v, frames) = {exit, alt} /\ alt # exit
  BY <1>2, ApartAt DEF Awaits, Apart
<1>6. /\ exit # cursor /\ alt # cursor /\ code[alt] = <<>>
  BY <1>2, <1>5, AwaitedAt
<1>7. Sound(cursor, {alt}) /\ Sound(alt, targets)
  <2>1. /\ {alt} \subseteq Locals(Top(visits)) /\ targets \subseteq Locals(Top(visits))
        /\ TInv /\ cursor \in Locals(Top(visits)) \cup {cursor}
        /\ alt \in Locals(Top(visits)) \cup {cursor}
    BY <1>2 DEF Locals, VInv
  <2> HIDE DEF targets, alt
  <2>2. QED
    BY <1>1, <2>1, LocalsSound
<1>8. Emit(ended)
  <2> HIDE DEF targets, alt, v
  <2>1. code' = Terminate(Fall(alt), alt, targets)
    BY <1>1, <1>3, <1>4
  <2>2. QED
    BY <1>1, <1>2, <1>3, <1>6, <1>7, <2>1, EmitJoin DEF n
<1>9. /\ ended \subseteq Awaits(v, frames) \cup {cursor} /\ exit \in Awaits(v, frames)
      /\ exit \notin ended /\ (\A b \in Awaits(v, frames) : b # exit => b \in ended)
      /\ (cursor \in ended \/ Ended(cursor))
  BY <1>5, <1>6 DEF Unended
<1>10. exit = Top(visits).exit
  OBVIOUS
<1>11. Len(frames) >= 1
  BY <1>3
<1>12. /\ s \in Seq(Frame(n)) /\ Len(s) = Len(frames) - 1
       /\ \A i \in 1 .. Len(frames) - 1 : s[i] = frames[i]
  BY <1>3, <1>11, PopOnce
<1> HIDE DEF v, exit, ended, s, alt, n
<1>13. Len(s) >= 2 /\ Len(s) - 2 = v.base /\ \A i \in 1 .. v.base : i \in 1 .. Len(frames) - 1
  BY <1>3, <1>12
<1>14. /\ fs \in Seq(Frame(n)) /\ Len(fs) = Len(s) - 2
       /\ \A i \in 1 .. Len(s) - 2 : fs[i] = s[i]
  BY <1>12, <1>13, PopTwice
<1>15. Len(fs) = v.base /\ \A i \in 1 .. Len(fs) : fs[i] = frames[i]
  BY <1>12, <1>13, <1>14
<1> HIDE DEF fs
<1>16. QED
  BY <1>1, <1>8, <1>9, <1>10, <1>14, <1>15, LeaveVerified DEF v, n
-----------------------------------------------------------------------------
(* The handler that waits for what comes next.                             *)

\* The h-th of these visits is the innermost that is not of a used module.
IsHost(v, h) ==
  /\ h \in DOMAIN v /\ v[h].kind # "use"
  /\ \A j \in DOMAIN v : j > h => v[j].kind = "use"

HostIn(v) ==
  LET is == {i \in DOMAIN v : v[i].kind \in (Nests \ {"use"}) \cup {"tree"}}
      last == IF is = {} THEN 0 ELSE CHOOSE i \in is : \A j \in is : j <= i
  IN  v[last]

LEMMA HostAt ==
  ASSUME NEW n \in Nat, NEW v \in Seq(Activation(n)), NEW h, IsHost(v, h)
  PROVE  HostIn(v) = v[h]
<1> DEFINE is == {i \in DOMAIN v : v[i].kind \in (Nests \ {"use"}) \cup {"tree"}}
           last == CHOOSE i \in is : \A j \in is : j <= i
<1>1. DOMAIN v = 1 .. Len(v) /\ \A i \in 1 .. Len(v) : v[i].kind \in Nests \cup {"tree"}
  BY ActivationAt DEF Activation
<1>2. h \in is /\ \A j \in is : j <= h
  BY <1>1 DEF IsHost
<1>3. last \in is /\ \A j \in is : j <= last
  BY <1>2
<1>4. last = h
  BY <1>1, <1>2, <1>3
<1>5. QED
  BY <1>2, <1>4 DEF HostIn

\* Some visit is the host's.
LEMMA SomeHost ==
  ASSUME NEW n \in Nat, NEW v \in Seq(Activation(n)), v # <<>>, TreeFirst(v)
  PROVE  \E h \in 1 .. Len(v) : IsHost(v, h)
<1> DEFINE T == {i \in 1 .. Len(v) : v[i].kind # "use"}
<1>1. DOMAIN v = 1 .. Len(v) /\ Len(v) \in Nat /\ Len(v) >= 1
  BY ActivationAt
<1>2. 1 \in T
  BY <1>1 DEF TreeFirst
<1>3. PICK h \in T : \A j \in T : j <= h
  BY <1>1, <1>2, LastIndex
<1>4. IsHost(v, h)
  BY <1>1, <1>3 DEF IsHost
<1>5. QED
  BY <1>4

\* The host of the current state.
LEMMA HostNow ==
  ASSUME IInv, status = "running", visits # <<>>
  PROVE  \E h \in 1 .. Len(visits) : IsHost(visits, h) /\ Host = visits[h]
<1>1. visits \in Seq(Activation(Len(owner))) /\ TreeFirst(visits) /\ Len(owner) \in Nat
  BY Ready DEF Discipline
<1>2. PICK h \in 1 .. Len(visits) : IsHost(visits, h)
  BY <1>1, SomeHost
<1>3. HostIn(visits) = visits[h]
  BY <1>1, <1>2, HostAt
<1>4. Host = HostIn(visits)
  BY DEF Host, HostIn, Innermost
<1>5. QED
  BY <1>2, <1>3, <1>4

\* The host of the next state.
LEMMA HostNext ==
  ASSUME IInv', status' = "running", visits' # <<>>, NEW h, IsHost(visits', h)
  PROVE  Host' = visits'[h]
<1>1. visits' \in Seq(Activation(Len(owner'))) /\ Len(owner') \in Nat
  BY LenProperties DEF IInv, TypeOK
<1>2. HostIn(visits') = visits'[h]
  BY <1>1, HostAt
<1>3. Host' = HostIn(visits')
  BY DEF Host, HostIn, Innermost
<1>4. QED
  BY <1>2, <1>3

\* The handler on top is the host of its own statements, unless it is a use.
LEMMA TopHosts ==
  ASSUME IInv, status = "running", visits # <<>>, Top(visits).kind # "use"
  PROVE  Host = Top(visits)
<1>1. PICK h \in 1 .. Len(visits) : IsHost(visits, h) /\ Host = visits[h]
  BY HostNow
<1>2. DOMAIN visits = 1 .. Len(visits) /\ Len(visits) \in Nat /\ Len(visits) >= 1
  BY Ready, ActivationAt
<1>3. h = Len(visits)
  BY <1>1, <1>2 DEF IsHost, Top
<1>4. QED
  BY <1>1, <1>3 DEF Top

\* Back at the statements around a use, the current block may have been ended by
\* the used module's.
LEMMA CloseUseVerified ==
  ASSUME VInv, TInv', CloseUse
  PROVE  VInv'
<1> DEFINE w == Rest(visits)
           k == Len(visits) - 1
           none == {}
           old == {}
<1>1. /\ status = "running" /\ visits # <<>> /\ IInv /\ Leave
      /\ Top(visits).kind = "use" /\ Top(visits).at = "list"
      /\ UNCHANGED <<status, frames, cursor, owner, code>>
  BY DEF CloseUse, At, VInv, TInv
<1>2. /\ Len(owner) \in Nat /\ cursor \in 1 .. Len(owner) /\ DOMAIN code = 1 .. Len(owner)
      /\ Len(visits) \in Nat /\ Len(visits) >= 1 /\ DOMAIN visits = 1 .. Len(visits)
      /\ visits \in Seq(Activation(Len(owner)))
  BY <1>1, Ready, LenProperties, ActivationAt DEF Code
<1>3. Emit(none)
  BY <1>1, EmitNone
<1>4. /\ OwnersKept /\ Breaks(Top(visits).base)
      /\ Len(owner') \in Nat /\ Len(owner) <= Len(owner')
  BY <1>1, <1>2 DEF OwnersKept, Breaks
<1>5. old = Awaits(Top(visits), frames)
  BY <1>1 DEF Awaits
<1>6. /\ cursor' \in old \cup {cursor} /\ none \subseteq old \cup {cursor}
      /\ (\A b \in old : b # cursor' => b \in none)
      /\ (cursor # cursor' => cursor \in none \/ Ended(cursor))
      /\ Top(visits).kind # "tree"
  BY <1>1
<1> HIDE DEF none, old
<1>7. Tidy(visits', frames', cursor', code')
  BY <1>1, <1>3, <1>4, <1>5, <1>6, LeaveTidy
<1>8. /\ w \in Seq(Activation(Len(owner))) /\ w # <<>> /\ Len(w) = k
      /\ \A i \in 1 .. k : w[i] = visits[i]
      /\ visits' = Returned(w) /\ Waits(visits')
  BY <1>1, <1>6, LeaveWaits
<1>9. SingleTerminator' /\ Stays(code', owner')
  BY <1>1, <1>3, <1>4, EmitKeeps
<1>10. PICK h \in 1 .. Len(visits) : IsHost(visits, h) /\ Host = visits[h]
  BY <1>1, HostNow
<1> HIDE DEF w, k
<1>11. k \in Nat /\ k >= 1 /\ Len(visits) = k + 1 /\ DOMAIN w = 1 .. k
  BY <1>2, <1>8, ActivationAt DEF k
<1>12. h \in 1 .. k
  <2>1. visits[Len(visits)].kind = "use" /\ visits[h].kind # "use"
    BY <1>1, <1>10 DEF Top, IsHost
  <2>2. QED
    BY <2>1, <1>11
<1>13. visits[k].at \in {"body", "list"} /\ (visits[k].kind = "use" => visits[k].at = "list")
  <2>1. k \in DOMAIN visits /\ k # Len(visits)
    BY <1>2, <1>11
  <2>2. QED
    BY <1>1, <2>1 DEF VInv, Waits
<1>14. /\ DOMAIN visits' = 1 .. k /\ Len(visits') = k
       /\ \A i \in 1 .. k : /\ SameVisit(visits'[i], visits[i])
                            /\ i # k => visits'[i] = visits[i]
       /\ visits'[k].at = IF visits[k].at = "body" THEN "after" ELSE visits[k].at
  <2>1. Len(visits') = k /\ \A i \in 1 .. k : SameVisit(visits'[i], visits[i])
    BY <1>2, <1>8, ReturnedSame
  <2>2. Top(w) = visits[k] /\ Len(w) = k /\ w[k] = visits[k] /\ k \in DOMAIN w
    BY <1>8, <1>11 DEF Top, k
  <2>3. w[k] \in Activation(Len(owner))
    BY <1>8, <2>2
  <2>4. /\ DOMAIN visits' = 1 .. k
        /\ \A i \in 1 .. k : i # k => visits'[i] = w[i]
        /\ visits'[k].at = IF visits[k].at = "body" THEN "after" ELSE visits[k].at
    BY <1>8, <1>11, <2>2, <2>3 DEF Returned, Activation
  <2>5. QED
    BY <1>8, <2>1, <2>4 DEF k
<1>15. IsHost(visits', h)
  <2>1. \A i \in 1 .. k : visits'[i].kind = visits[i].kind /\ i \in DOMAIN visits
    BY <1>11, <1>14, <1>2 DEF SameVisit
  <2>2. QED
    BY <2>1, <1>10, <1>12, <1>14 DEF IsHost
<1>16. Host' = visits'[h]
  <2>1. visits' # <<>>
    BY <1>11, <1>14
  <2>2. QED
    BY <1>1, <1>15, <2>1, HostNext DEF TInv
<1>17. visits[k].kind # "use" => h = k
  <2>1. k \in DOMAIN visits
    BY <1>11, <1>14, <1>2
  <2>2. QED
    BY <2>1, <1>10, <1>11, <1>12 DEF IsHost
<1>18. Top(visits') = visits'[k]
  BY <1>14 DEF Top
<1>19. Open'
  <2>1. Ended(cursor)' <=> Ended(cursor)
    BY <1>1 DEF Ended
  <2>2. Top(visits').at \notin {"body", "decls"}
    BY <1>13, <1>14, <1>18
  <2>3. visits'[k].kind = visits[k].kind /\ Host'.kind = Host.kind
    BY <1>10, <1>11, <1>12, <1>14, <1>16 DEF SameVisit
  <2>4. Open
    BY <1>1 DEF VInv
  <2>5. Top(visits').kind \in {"while", "for"} /\ Top(visits').at = "after" => ~ Ended(cursor)
    <3>1. SUFFICES ASSUME Top(visits').kind \in {"while", "for"}, Top(visits').at = "after"
                   PROVE  ~ Ended(cursor)
      OBVIOUS
    <3>2. visits[k].kind \in {"while", "for"} /\ visits[k].at = "body"
      BY <3>1, <1>13, <1>14, <1>18, <2>3
    <3>3. Host.kind \in {"while", "for"} /\ Host.at = "body"
      BY <3>2, <1>10, <1>17
    <3>4. QED
      BY <3>3, <2>4 DEF Open
  <2>6. Host'.kind \in {"while", "for"} /\ Host'.at = "body" => ~ Ended(cursor)
    <3>1. SUFFICES ASSUME Host'.kind \in {"while", "for"}, Host'.at = "body"
                   PROVE  ~ Ended(cursor)
      OBVIOUS
    <3>2. h # k
      BY <3>1, <1>14, <1>16
    <3>3. Host' = Host
      BY <3>2, <1>10, <1>12, <1>14, <1>16
    <3>4. QED
      BY <3>1, <3>3, <2>4 DEF Open
  <2>7. Host'.kind \in {"tree", "fun"} /\ Ended(cursor) => code[cursor] = <<Return>>
    BY <2>3, <2>4 DEF Open
  <2>8. QED
    BY <2>1, <2>2, <2>5, <2>6, <2>7, <1>1 DEF Open
<1>20. QED
  BY <1>1, <1>7, <1>8, <1>9, <1>19 DEF VInv
\* The end of a function and of the tree: the current block ends in a return, the
\* one that was there or a new one.
LEMMA ReturnEmits ==
  ASSUME VInv, NEW kind \in {"fun", "tree"}, NEW at, At(kind, at), UNCHANGED owner,
         code' = Returning(cursor, cursor)
  PROVE  Emit(Unended)
<1>1. /\ status = "running" /\ visits # <<>> /\ IInv /\ Top(visits).kind = kind
  BY DEF At, VInv, TInv
<1>2. CASE Ended(cursor)
  <2>1. Host.kind = kind
    BY <1>1, TopHosts
  <2>2. code[cursor] = <<Return>>
    BY <1>1, <1>2, <2>1 DEF VInv, Open
  <2>3. Top(<<Return>>) = Return
    BY DEF Top
  <2>4. code' = code
    BY <1>2, <2>2, <2>3 DEF Returning
  <2>5. QED
    BY <1>1, <1>2, <2>4, EmitNone DEF Unended
<1>3. CASE ~ Ended(cursor)
  <2>1. Sound(cursor, Return)
    BY DEF Sound, Return
  <2>2. code' = Terminate(code, cursor, Return)
    BY <1>3 DEF Returning
  <2>3. QED
    BY <1>1, <1>3, <2>1, <2>2, EmitEnd DEF Unended
<1>4. QED
  BY <1>2, <1>3

\* The insert point is restored to the block the declaration stands in.
LEMMA CloseFunVerified ==
  ASSUME VInv, TInv', CloseFun
  PROVE  VInv'
<1> DEFINE v == Top(visits)
           old == {frames[v.base + 1].breakBlock}
<1>1. /\ At("fun", "list") /\ code' = Returning(Block(frames), cursor)
      /\ cursor' = PopBlock(frames) /\ frames' = Pop(frames)
      /\ Leave /\ UNCHANGED <<status, owner>>
  BY DEF CloseFun
<1>2. /\ status = "running" /\ visits # <<>> /\ IInv /\ v.kind = "fun" /\ Held(v) = 1
      /\ cursor = Block(frames) /\ Len(owner) \in Nat
  BY <1>1, Ready DEF At, Held, VInv, TInv
<1>3. Len(frames) = v.base + 1
  BY <1>1, <1>2, AtTop
<1>4. old = Awaits(v, frames)
  BY <1>2 DEF Awaits
<1>5. /\ frames[v.base + 1].breakBlock \in 1 .. Len(owner)
      /\ frames[v.base + 1].breakBlock # cursor
      /\ Before(frames[v.base + 1].breakBlock) = <<>>
  BY <1>2, <1>4, AwaitedAt
<1>6. cursor' = frames[v.base + 1].breakBlock
  BY <1>1, <1>2, <1>3, <1>5 DEF PopBlock, Top, NoBlock
<1>7. Emit(Unended)
  BY <1>1, <1>2, ReturnEmits
<1>8. Breaks(Top(visits).base)
  <2>1. Len(frames') = Top(visits).base /\ \A i \in 1 .. Len(frames') : frames'[i] = frames[i]
    BY <1>1, <1>2, PoppedOnce
  <2>2. QED
    BY <2>1 DEF Breaks
<1>9. /\ cursor' \in old \cup {cursor} /\ Unended \subseteq old \cup {cursor}
      /\ (\A b \in old : b # cursor' => b \in Unended)
      /\ (cursor # cursor' => cursor \in Unended \/ Ended(cursor))
      /\ cursor' \notin Unended /\ Top(visits).kind # "tree"
  BY <1>2, <1>5, <1>6 DEF Unended
<1> HIDE DEF old, v
<1>10. Tidy(visits', frames', cursor', code')
  BY <1>1, <1>2, <1>4, <1>7, <1>8, <1>9, LeaveTidy DEF v
<1>11. Waits(visits')
  BY <1>1, <1>2, <1>9, LeaveWaits
<1>12. OwnersKept /\ Len(owner') \in Nat /\ Len(owner) <= Len(owner')
  BY <1>1, <1>2 DEF OwnersKept
<1>13. cursor' \in DOMAIN code' /\ Before(cursor') = <<>>
  BY <1>1, <1>5, <1>6, <1>7 DEF Emit
<1>14. QED
  BY <1>1, <1>2, <1>7, <1>9, <1>10, <1>11, <1>12, <1>13, Reopened

\* Nothing is awaited when the tree's visit ends: every block has a terminator.
LEMMA CloseTreeVerified ==
  ASSUME VInv, TInv', CloseTree
  PROVE  VInv'
<1>1. /\ At("tree", "list") /\ code' = Returning(PopBlock(frames), PopBlock(frames))
      /\ status' = "done" /\ UNCHANGED owner
  BY DEF CloseTree
<1>2. /\ status = "running" /\ visits # <<>> /\ IInv /\ Top(visits).kind = "tree"
      /\ cursor = Block(frames) /\ Len(owner) \in Nat
      /\ visits \in Seq(Activation(Len(owner))) /\ Discipline(visits, frames)
      /\ frames \in Seq(Frame(Len(owner)))
      /\ code \in Code(Len(owner)) /\ Len(code) = Len(owner)
  BY <1>1, Ready DEF At, VInv, TInv
<1>3. Len(visits) = 1 /\ DOMAIN visits = {1} /\ visits[1].kind = "tree"
  <2>1. Len(visits) = 1 /\ Top(visits) = visits[Len(visits)]
    BY <1>2, DisciplineAt
  <2>2. QED
    BY <1>2, <2>1, ActivationAt
<1>4. PopBlock(frames) = cursor
  <2>1. visits[1].base = 0 /\ Held(visits[1]) = 1 /\ Top(visits) = visits[1]
    BY <1>2, <1>3 DEF Discipline, Balanced, Held, Top
  <2>2. Len(frames) = 1
    BY <1>2, <2>1, Ready
  <2>3. frames[1].breakBlock = NoBlock
    BY <1>2, <1>3, <2>1 DEF VInv, TInv, Chained, Chains, Chain, Inherits
  <2>4. ~ (Len(frames) > 1) /\ frames[Len(frames)].breakBlock = NoBlock
    BY <2>2, <2>3
  <2>5. QED
    BY <1>2, <2>4 DEF PopBlock, Block, Top
<1>5. Emit(Unended)
  BY <1>1, <1>4, ReturnEmits
<1>6. OwnersKept /\ Len(owner') \in Nat /\ Len(owner) <= Len(owner')
  BY <1>1, <1>2 DEF OwnersKept
<1>7. SingleTerminator' /\ Stays(code', owner')
  BY <1>2, <1>5, <1>6, EmitKeeps
<1>8. \A b \in 1 .. Len(owner) : b # cursor => code[b] # <<>>
  <2>1. Awaits(visits[1], frames) = {}
    BY <1>3 DEF Awaits
  <2>2. DOMAIN code = 1 .. Len(owner)
    BY <1>2, LenProperties DEF Code
  <2>3. QED
    BY <1>2, <1>3, <2>1, <2>2 DEF VInv, Tidy
<1>9. \A b \in 1 .. Len(owner) : code'[b] # <<>>
  <2> TAKE b \in 1 .. Len(owner)
  <2>1. CASE b \in Unended
    <3>1. PICK targets : code'[b] = <<targets>>
      BY <2>1, <1>5 DEF Emit
    <3>2. <<targets>> # <<>>
      OBVIOUS
    <3>3. QED
      BY <3>1, <3>2
  <2>2. CASE b \notin Unended
    <3>1. code'[b] = code[b]
      BY <2>2, <1>1, <1>5 DEF Emit, Before
    <3>2. code[b] # <<>>
      BY <2>2, <1>8 DEF Unended, Ended
    <3>3. QED
      BY <3>1, <3>2
  <2>3. QED
    BY <2>1, <2>2
<1>10. QED
  BY <1>1, <1>7, <1>9 DEF VInv, Blocks

-----------------------------------------------------------------------------
(* Handlers that go on.                                                    *)

\* A handler that starts its next nested visit in the block start: one that it
\* awaited, or the one it is in.
LEMMA AdvanceVerified ==
  ASSUME VInv, TInv', status = "running", visits # <<>>, UNCHANGED <<status, owner>>,
         NEW a, visits' = [visits EXCEPT ![Len(visits)] = a], a.kind # "use", Apart(a),
         \A i \in 1 .. Top(visits).base : frames'[i].breakBlock = frames[i].breakBlock,
         NEW ended, Emit(ended), NEW old, old = Awaits(Top(visits), frames),
         NEW now, now = Awaits(a, frames'),
         cursor' \notin now, now \cup {cursor'} \subseteq old \cup {cursor},
         ended \subseteq old \cup {cursor}, cursor' \notin ended,
         \A b \in old : b # cursor' => (b \in now <=> b \notin ended),
         cursor # cursor' => (cursor \in now <=> cursor \notin ended /\ ~ Ended(cursor)),
         cursor' = cursor => ~ Ended(cursor)
  PROVE  VInv'
<1>1. /\ Len(owner) \in Nat /\ cursor \in 1 .. Len(owner)
  BY Ready DEF VInv, TInv
<1>2. Breaks(Top(visits).base)
  BY DEF Breaks
<1>3. Tidy(visits', frames', cursor', code')
  BY <1>2, AdvanceTidy
<1>4. Waits(visits')
  BY AdvanceWaits
<1>5. cursor' \in 1 .. Len(owner) /\ Before(cursor') = <<>>
  <2>1. CASE cursor' = cursor
    BY <2>1, <1>1 DEF Before, Ended
  <2>2. CASE cursor' # cursor
    <3>1. cursor' \in Awaits(Top(visits), frames)
      BY <2>2
    <3>2. QED
      BY <3>1, AwaitedAt
  <2>3. QED
    BY <2>1, <2>2
<1>6. cursor' \in DOMAIN code'
  BY <1>5 DEF Emit
<1>7. OwnersKept /\ Len(owner') \in Nat /\ Len(owner) <= Len(owner')
  BY <1>1 DEF OwnersKept
<1>8. QED
  BY <1>3, <1>4, <1>5, <1>6, <1>7, Reopened
LEMMA FunArgumentVerified ==
  ASSUME VInv, TInv', NEW name \in Names, NEW isRef \in BOOLEAN, FunArgument(name, isRef)
  PROVE  VInv'
<1> DEFINE a == Top(visits)
           old == Awaits(a, frames)
           none == {}
<1>1. /\ At("fun", "decls") /\ Declare(name, isRef)
      /\ UNCHANGED <<status, visits, cursor, owner, code>>
  BY DEF FunArgument
<1>2. /\ status = "running" /\ visits # <<>> /\ IInv /\ a.kind = "fun" /\ a.at = "decls"
      /\ Held(a) = 1
  BY <1>1 DEF At, VInv, TInv, Held
<1>3. /\ a.base \in Nat /\ Len(frames) = a.base + 1
  BY <1>1, <1>2, AtTop
<1>4. /\ \A i \in 1 .. a.base + 1 : frames'[i].breakBlock = frames[i].breakBlock
      /\ a.base + 1 \in 1 .. a.base + 1 /\ \A i \in 1 .. a.base : i \in 1 .. a.base + 1
  <2>1. \A i \in 1 .. Len(frames) : SameBlocks(frames'[i], frames[i])
    BY <1>1, <1>2, DeclareType
  <2>2. QED
    BY <1>3, <2>1 DEF SameBlocks
<1>5. old = Awaits(a, frames')
  BY <1>2, <1>4 DEF Awaits
<1>6. ~ Ended(cursor)
  BY <1>2 DEF VInv, Open
<1>7. \A b \in old : b # cursor
  BY <1>2, AwaitedAt
<1>8. visits' = [visits EXCEPT ![Len(visits)] = a]
  <2>1. visits \in Seq(Activation(Len(owner))) /\ Len(visits) \in DOMAIN visits
        /\ a = visits[Len(visits)]
    BY <1>2, Ready, ActivationAt DEF Top
  <2> HIDE DEF a
  <2>2. [visits EXCEPT ![Len(visits)] = a] = visits
    BY <2>1
  <2>3. QED
    BY <1>1, <2>2
<1>9. Emit(none)
  BY <1>1, <1>2, EmitNone
<1>10. Apart(a)
  BY <1>2, ApartAt
<1>11. /\ cursor' \notin old /\ old \cup {cursor'} \subseteq old \cup {cursor}
       /\ none \subseteq old \cup {cursor} /\ cursor' \notin none
       /\ (\A b \in old : b # cursor' => (b \in old <=> b \notin none))
       /\ (cursor # cursor' => (cursor \in old <=> cursor \notin none /\ ~ Ended(cursor)))
       /\ a.kind # "use" /\ (\A i \in 1 .. a.base : frames'[i].breakBlock = frames[i].breakBlock)
  BY <1>1, <1>2, <1>4, <1>7
<1> HIDE DEF none, old
<1>12. QED
  BY <1>1, <1>2, <1>5, <1>6, <1>8, <1>9, <1>10, <1>11, AdvanceVerified DEF old

LEMMA FunBodyVerified ==
  ASSUME VInv, TInv', FunBody
  PROVE  VInv'
<1> DEFINE v == Top(visits)
           a == [v EXCEPT !.at = "list"]
           old == Awaits(v, frames)
           none == {}
<1>1. /\ At("fun", "decls") /\ visits' = [visits EXCEPT ![Len(visits)].at = "list"]
      /\ UNCHANGED <<status, frames, cursor, owner, code>>
  BY DEF FunBody
<1>2. /\ status = "running" /\ visits # <<>> /\ IInv /\ v.kind = "fun" /\ v.at = "decls"
  BY <1>1 DEF At, VInv, TInv
<1>3. /\ v \in Activation(Len(owner)) /\ visits \in Seq(Activation(Len(owner)))
      /\ Len(visits) \in DOMAIN visits
  BY <1>2, Ready, ActivationAt
<1>4. visits' = [visits EXCEPT ![Len(visits)] = a]
  BY <1>1, <1>3 DEF Top
<1>5. a.kind = "fun" /\ a.base = v.base /\ (Apart(v) => Apart(a))
  BY <1>2, <1>3 DEF Activation, Apart
<1>6. old = Awaits(a, frames')
  BY <1>1, <1>2, <1>5 DEF Awaits
<1>7. ~ Ended(cursor)
  BY <1>2 DEF VInv, Open
<1>8. \A b \in old : b # cursor
  BY <1>2, AwaitedAt
<1>9. Emit(none)
  BY <1>1, <1>2, EmitNone
<1>10. Apart(a)
  BY <1>2, <1>5, ApartAt
<1>11. /\ cursor' \notin old /\ old \cup {cursor'} \subseteq old \cup {cursor}
       /\ none \subseteq old \cup {cursor} /\ cursor' \notin none
       /\ (\A b \in old : b # cursor' => (b \in old <=> b \notin none))
       /\ (cursor # cursor' => (cursor \in old <=> cursor \notin none /\ ~ Ended(cursor)))
       /\ a.kind # "use"
       /\ (\A i \in 1 .. v.base : frames'[i].breakBlock = frames[i].breakBlock)
  BY <1>1, <1>5, <1>8
<1> HIDE DEF none, old, a
<1>12. QED
  BY <1>1, <1>2, <1>4, <1>6, <1>7, <1>9, <1>10, <1>11, AdvanceVerified DEF old

LEMMA ElseVerified ==
  ASSUME VInv, TInv', ElseBranch
  PROVE  VInv'
<1> DEFINE v == Top(visits)
           a == [v EXCEPT !.at = "body", !.alt = NoBlock]
           n == Len(owner)
           s == Pop(frames)
           exit == v.exit
           alt == v.alt
           old == {exit, alt}
           now == {exit}
<1>1. /\ At("if", "after") /\ alt # NoBlock /\ code' = Fall(exit)
      /\ frames' = Push(s, alt, NoBlock, NoBlock)
      /\ visits' = [visits EXCEPT ![Len(visits)].at = "body", ![Len(visits)].alt = NoBlock]
      /\ cursor' = alt /\ UNCHANGED <<status, owner>>
  BY DEF ElseBranch, StartAt
<1>2. /\ status = "running" /\ visits # <<>> /\ IInv /\ v.kind = "if" /\ Held(v) = 1
      /\ exit # NoBlock /\ n \in Nat /\ alt \in 0 .. n
  BY <1>1, AtTop DEF VInv, TInv, HasLocals, Held
<1>3. /\ v \in Activation(n) /\ visits \in Seq(Activation(n)) /\ Len(visits) \in DOMAIN visits
  BY <1>2, Ready, ActivationAt
<1>4. visits' = [visits EXCEPT ![Len(visits)] = a]
  BY <1>1, <1>3 DEF Top
<1>5. a.kind = "if" /\ a.exit = exit /\ a.alt = NoBlock /\ (Apart(v) => Apart(a))
  BY <1>2, <1>3 DEF Activation, Apart
<1>6. old = Awaits(v, frames) /\ now = Awaits(a, frames')
  BY <1>1, <1>2, <1>5 DEF Awaits
<1>7. exit # cursor /\ alt # cursor
  BY <1>2, <1>6, AwaitedAt
<1>8. Apart(v) /\ alt # exit
  BY <1>1, <1>2, ApartAt DEF Apart
<1>9. Emit(Unended)
  <2>1. {exit} \subseteq Locals(Top(visits)) /\ TInv /\ cursor \in Locals(Top(visits)) \cup {cursor}
    BY <1>2 DEF Locals, VInv
  <2> HIDE DEF exit
  <2>2. Sound(cursor, {exit})
    BY <1>1, <2>1, LocalsSound
  <2>3. QED
    BY <1>1, <1>2, <2>2, EmitFall
<1>10. s \in Seq(Frame(n)) /\ Len(s) = v.base /\ \A i \in 1 .. Len(s) : s[i] = frames[i]
  BY <1>1, <1>2, PoppedOnce
<1>11. alt \in 1 .. n /\ NoBlock \in 0 .. n
  BY <1>1, <1>2 DEF NoBlock
<1>12. v.base >= 1
  BY <1>2, BaseType
<1> HIDE DEF s, n, v, a, alt, exit
<1>13. s # <<>>
  BY <1>10, <1>12, EmptySeq
<1>14. n \in Nat
  BY <1>2
<1>15. OnTop(frames', s, 1, alt, NoBlock, NoBlock)
  BY <1>1, <1>10, <1>11, <1>13, <1>14, PushedOnce
<1>16. \A i \in 1 .. v.base : frames'[i].breakBlock = frames[i].breakBlock
  BY <1>10, <1>15 DEF OnTop
<1>17. /\ cursor' \notin now /\ now \cup {cursor'} \subseteq old \cup {cursor}
       /\ Unended \subseteq old \cup {cursor} /\ cursor' \notin Unended
       /\ (\A b \in old : b # cursor' => (b \in now <=> b \notin Unended))
       /\ (cursor # cursor' => (cursor \in now <=> cursor \notin Unended /\ ~ Ended(cursor)))
       /\ (cursor' = cursor => ~ Ended(cursor)) /\ a.kind # "use"
  BY <1>1, <1>5, <1>7, <1>8 DEF Unended
<1> HIDE DEF now, old
<1>18. /\ UNCHANGED <<status, owner>> /\ old = Awaits(Top(visits), frames)
       /\ Apart(a) /\ status = "running" /\ visits # <<>> /\ now = Awaits(a, frames')
       /\ \A i \in 1 .. Top(visits).base : frames'[i].breakBlock = frames[i].breakBlock
  BY <1>1, <1>2, <1>5, <1>6, <1>8, <1>16 DEF v
<1>19. QED
  BY <1>4, <1>9, <1>17, <1>18, AdvanceVerified

LEMMA ForConditionVerified ==
  ASSUME VInv, TInv', ForCondition
  PROVE  VInv'
<1> DEFINE v == Top(visits)
           a == [v EXCEPT !.at = "body"]
           n == Len(owner)
           exit == v.exit
           alt == v.alt
           cond == v.cond
           loop == v.loop
           targets == {loop, exit}
           old == {exit, alt, cond, loop}
           now == {exit, alt}
           ended == {cursor, cond}
<1>1. /\ At("for", "decls")
      /\ code' = Terminate(Terminate(code, cursor, {cond}), cond, targets)
      /\ frames' = Push(Push(frames, cond, NoBlock, NoBlock), loop, NoBlock, NoBlock)
      /\ visits' = [visits EXCEPT ![Len(visits)].at = "body"]
      /\ cursor' = loop /\ UNCHANGED <<status, owner>>
  BY DEF ForCondition, StartAt
<1>2. /\ status = "running" /\ visits # <<>> /\ IInv /\ v.kind = "for" /\ v.at = "decls"
      /\ Held(v) = 1
      /\ exit # NoBlock /\ alt # NoBlock /\ cond # NoBlock /\ loop # NoBlock
  BY <1>1, AtTop DEF VInv, TInv, HasLocals, Held, Loops
<1>3. /\ v \in Activation(n) /\ visits \in Seq(Activation(n)) /\ Len(visits) \in DOMAIN visits
      /\ frames \in Seq(Frame(n)) /\ frames # <<>> /\ n \in Nat /\ cursor = Block(frames)
      /\ Len(frames) = v.base + 1 /\ v.base \in Nat
  BY <1>1, <1>2, Ready, ActivationAt, AtTop
<1>4. visits' = [visits EXCEPT ![Len(visits)] = a]
  BY <1>1, <1>3 DEF Top
<1>5. /\ a.kind = "for" /\ a.at = "body" /\ a.exit = exit /\ a.alt = alt
      /\ (Apart(v) => Apart(a))
  BY <1>2, <1>3 DEF Activation, Apart
<1>6. old = Awaits(v, frames) /\ now = Awaits(a, frames')
  BY <1>1, <1>2, <1>5 DEF Awaits
<1>7. /\ exit # cursor /\ alt # cursor /\ cond # cursor /\ loop # cursor
      /\ code[cond] = <<>> /\ cond \in 1 .. n /\ loop \in 1 .. n
  BY <1>2, <1>6, AwaitedAt
<1>8. /\ Apart(v) /\ alt # exit /\ alt # cond /\ alt # loop /\ loop # exit /\ loop # cond
      /\ cond # exit
  BY <1>1, <1>2, ApartAt DEF Apart
<1>9. ~ Ended(cursor)
  BY <1>2 DEF VInv, Open
<1>10. Sound(cursor, {cond}) /\ Sound(cond, targets)
  <2>1. /\ {cond} \subseteq Locals(Top(visits)) /\ targets \subseteq Locals(Top(visits))
        /\ TInv /\ cursor \in Locals(Top(visits)) \cup {cursor}
        /\ cond \in Locals(Top(visits)) \cup {cursor}
    BY <1>2 DEF Locals, VInv
  <2> HIDE DEF targets, cond
  <2>2. QED
    BY <1>1, <2>1, LocalsSound
<1>11. Emit(ended)
  <2>1. ended = Unended \cup {cond}
    BY <1>9 DEF Unended
  <2> HIDE DEF targets, cond, v, ended
  <2>2. code' = Terminate(Fall(cond), cond, targets)
    BY <1>1, <1>3, <1>9 DEF Fall
  <2>3. QED
    BY <1>1, <1>2, <1>7, <1>10, <2>1, <2>2, EmitJoin DEF n
<1>12. NoBlock \in 0 .. n
  BY <1>3 DEF NoBlock
<1>13. /\ cursor' \notin now /\ now \cup {cursor'} \subseteq old \cup {cursor}
       /\ ended \subseteq old \cup {cursor} /\ cursor' \notin ended
       /\ (\A b \in old : b # cursor' => (b \in now <=> b \notin ended))
       /\ (cursor # cursor' => (cursor \in now <=> cursor \notin ended /\ ~ Ended(cursor)))
       /\ (cursor' = cursor => ~ Ended(cursor)) /\ a.kind # "use"
  BY <1>1, <1>5, <1>7, <1>8
<1> HIDE DEF n, v, a, alt, exit, cond, loop, ended, now, old
<1>14. OnTop(Push(Push(frames, cond, NoBlock, NoBlock), loop, NoBlock, NoBlock),
             frames, 2, loop, IF NoBlock = NoBlock THEN NoBlock ELSE NoBlock, NoBlock)
  BY <1>3, <1>7, <1>12, PushedTwice
<1>15. \A i \in 1 .. v.base : frames'[i].breakBlock = frames[i].breakBlock
  <2>1. \A i \in 1 .. Len(frames) : frames'[i] = frames[i]
    BY <1>1, <1>14 DEF OnTop
  <2>2. \A i \in 1 .. v.base : i \in 1 .. Len(frames)
    BY <1>3
  <2>3. QED
    BY <2>1, <2>2
<1>16. /\ UNCHANGED <<status, owner>> /\ old = Awaits(Top(visits), frames)
       /\ Apart(a) /\ status = "running" /\ visits # <<>> /\ now = Awaits(a, frames')
       /\ \A i \in 1 .. Top(visits).base : frames'[i].breakBlock = frames[i].breakBlock
  BY <1>1, <1>2, <1>5, <1>6, <1>8, <1>15 DEF v
<1>17. QED
  BY <1>4, <1>11, <1>13, <1>16, AdvanceVerified
-----------------------------------------------------------------------------
(* Statements without nested visits.                                       *)

\* What Simple makes of the visits: the one on top may have visited its body.
LEMMA SimpleVisits ==
  ASSUME IInv, status = "running", visits # <<>>, Simple, NEW k, k = Len(visits)
  PROVE  /\ k \in Nat /\ k >= 1 /\ DOMAIN visits = 1 .. k
         /\ DOMAIN visits' = 1 .. k /\ Len(visits') = k /\ visits' # <<>>
         /\ Top(visits) = visits[k] /\ Top(visits') = visits'[k]
         /\ \A i \in 1 .. k : /\ visits'[i].kind = visits[i].kind
                              /\ i # k => visits'[i] = visits[i]
         /\ visits'[k].at = IF visits[k].at = "body" THEN "after" ELSE visits[k].at
<1>1. /\ visits \in Seq(Activation(Len(owner))) /\ Len(owner) \in Nat
      /\ k \in Nat /\ k >= 1 /\ DOMAIN visits = 1 .. k /\ Top(visits) = visits[k]
      /\ k \in 1 .. k /\ visits[k] \in Activation(Len(owner))
  BY Ready, ActivationAt DEF Top
<1>2. Len(visits') = k /\ \A i \in 1 .. k : SameVisit(visits'[i], visits[i])
  BY <1>1, ReturnedSame DEF Simple
<1>3. /\ DOMAIN visits' = 1 .. k
      /\ \A i \in 1 .. k : i # k => visits'[i] = visits[i]
      /\ visits'[k].at = IF visits[k].at = "body" THEN "after" ELSE visits[k].at
  BY <1>1 DEF Simple, Returned, Activation
<1>4. visits' # <<>>
  BY <1>1, <1>3
<1>5. QED
  BY <1>1, <1>2, <1>3, <1>4 DEF SameVisit, Top

\* A statement that leaves the builder at a block without a terminator.
LEMMA SimpleVerified ==
  ASSUME VInv, TInv', status = "running", visits # <<>>, Simple, UNCHANGED status,
         Breaks(Len(frames)), OwnersKept,
         Len(owner') \in Nat, Len(owner) <= Len(owner'), NEW ended, Emit(ended),
         cursor' \in Fresh \cup {cursor}, ended \subseteq Fresh \cup {cursor},
         \A b \in Fresh : b # cursor' => b \in ended, cursor' \notin ended,
         cursor # cursor' => cursor \in ended, ~ Ended(cursor)
  PROVE  VInv'
<1>1. Tidy(visits', frames', cursor', code')
  BY StayTidy
<1>2. Waits(visits')
  BY SimpleWaits
<1>3. Len(owner) \in Nat /\ cursor \in 1 .. Len(owner)
  BY Ready DEF VInv, TInv
<1>4. Before(cursor') = <<>> /\ cursor' \in 1 .. Len(owner')
  <2>1. CASE cursor' = cursor
    BY <2>1, <1>3 DEF Before, Ended
  <2>2. CASE cursor' \in Fresh
    BY <2>2 DEF Before, Fresh
  <2>3. QED
    BY <2>1, <2>2
<1>5. cursor' \in DOMAIN code'
  BY <1>4 DEF Emit
<1>6. QED
  BY <1>1, <1>2, <1>4, <1>5, Reopened

\* Declarations and expressions end no block.
LEMMA DataVerified ==
  ASSUME VInv, TInv', status = "running", visits # <<>>, Simple,
         UNCHANGED <<status, cursor, owner, code>>, ~ Ended(cursor),
         \A i \in 1 .. Len(frames) : SameBlocks(frames'[i], frames[i])
  PROVE  VInv'
<1> DEFINE none == {}
<1>1. IInv /\ Len(owner) \in Nat
  BY Ready DEF VInv, TInv
<1>2. /\ Breaks(Len(frames)) /\ OwnersKept /\ Fresh = {}
      /\ Len(owner') \in Nat /\ Len(owner) <= Len(owner')
  BY <1>1 DEF Breaks, OwnersKept, Fresh, SameBlocks
<1>3. Emit(none)
  BY <1>1, EmitNone
<1>4. /\ cursor' \in Fresh \cup {cursor} /\ none \subseteq Fresh \cup {cursor}
      /\ (\A b \in Fresh : b # cursor' => b \in none) /\ cursor' \notin none
      /\ (cursor # cursor' => cursor \in none) /\ UNCHANGED status
  BY <1>2
<1> HIDE DEF none
<1>5. QED
  BY <1>2, <1>3, <1>4, SimpleVerified

LEMMA DeclVarVerified ==
  ASSUME VInv, TInv', NEW name \in Names, NEW isRef \in BOOLEAN, NEW isPointer \in BOOLEAN,
         NEW init \in Names \cup {NoName}, DeclVar(name, isRef, init, isPointer)
  PROVE  VInv'
<1>1. /\ AtDeclaration /\ Declare(name, isRef) /\ Simple
      /\ UNCHANGED <<status, cursor, owner, code>>
  BY DEF DeclVar
<1>2. status = "running" /\ visits # <<>> /\ IInv
  BY <1>1 DEF AtDeclaration, Accepts, At, VInv, TInv
<1>3. ~ Ended(cursor)
  <2>1. CASE Accepts
    BY <2>1, <1>2, AcceptsOpen
  <2>2. CASE At("for", "decls")
    BY <2>2, <1>2 DEF At, VInv, Open
  <2>3. QED
    BY <1>1, <2>1, <2>2 DEF AtDeclaration
<1>4. \A i \in 1 .. Len(frames) : SameBlocks(frames'[i], frames[i])
  BY <1>1, <1>2, DeclareType
<1>5. QED
  BY <1>1, <1>2, <1>3, <1>4, DataVerified

LEMMA StmtExprVerified ==
  ASSUME VInv, TInv', NEW name \in Names \cup {NoName}, StmtExpr(name)
  PROVE  VInv'
<1>1. /\ Visit("expr", 0) /\ Simple /\ UNCHANGED <<status, frames, cursor, owner, code>>
  BY DEF StmtExpr
<1>2. status = "running" /\ visits # <<>> /\ Accepts
  BY <1>1, Visited DEF Visit
<1>3. ~ Ended(cursor)
  BY <1>2, AcceptsOpen
<1>4. \A i \in 1 .. Len(frames) : SameBlocks(frames'[i], frames[i])
  BY <1>1, SameBlocksItself
<1>5. QED
  BY <1>1, <1>2, <1>3, <1>4, DataVerified

LEMMA SwitchNoDefaultVerified ==
  ASSUME VInv, TInv', SwitchNoDefault
  PROVE  VInv'
<1> DEFINE k == 2
           j == 1
           n == Len(owner) + k
           s == Push(frames, New(1), New(2), NoBlock)
           r == Pop(s)
           ended == {cursor, New(1)}
<1> HIDE DEF k, j
<1>1. /\ Visit("switch", k) /\ AddBlocks(k) /\ Simple /\ UNCHANGED status
      /\ code' = Terminate(Terminate(Blank(k), cursor, {New(1)}), New(j), {New(2)})
      /\ frames' = Join(r, New(2)) /\ cursor' = New(2)
      /\ k \in Nat /\ 1 \in 1 .. k /\ 2 \in 1 .. k
  BY DEF SwitchNoDefault, StartAt, k, j
<1>2. /\ status = "running" /\ visits # <<>> /\ IInv /\ ~ Ended(cursor)
      /\ n \in Nat /\ frames \in Seq(Frame(n)) /\ frames # <<>> /\ NoBlock \in 0 .. n
      /\ New(1) \in 1 .. n /\ New(2) \in 1 .. n /\ New(2) \in 0 .. n
      /\ New(1) # New(2) /\ New(1) # cursor /\ New(2) # cursor
  BY <1>1, OpeningAt
<1>3. /\ Fresh = {New(i) : i \in 1 .. k}
      /\ Len(owner') \in Nat /\ Len(owner) <= Len(owner')
  BY <1>1, <1>2, FreshAre
<1>4. {New(i) : i \in 1 .. k} = {New(1), New(2)}
  BY DEF k
<1>5. j \in 1 .. k /\ New(j) = New(1)
  BY DEF k, j
<1>6. Emit(ended)
  BY <1>1, <1>2, <1>4, <1>5, EmitBranches
<1>7. OwnersKept
  BY <1>1, <1>2, NewOwners
<1>8. Len(frames) \in Nat /\ Len(frames) >= 1
  BY <1>2, Ready
<1> HIDE DEF n, s, r
<1>9. /\ s \in Seq(Frame(n)) /\ Len(s) = Len(frames) + 1
      /\ OnTop(s, frames, 1, New(1), New(2), NoBlock)
  BY <1>2, PushedOnce DEF s
<1>10. /\ s # <<>> /\ Len(s) - 1 = Len(frames)
       /\ \A i \in 1 .. Len(frames) : s[i] = frames[i]
  BY <1>8, <1>9, EmptySeq DEF OnTop
<1>11. /\ r \in Seq(Frame(n)) /\ Len(r) = Len(frames)
       /\ \A i \in 1 .. Len(frames) : r[i] = frames[i]
  BY <1>9, <1>10, PopProperties DEF r
<1>12. r # <<>>
  BY <1>8, <1>11, EmptySeq
<1>13. \A i \in 1 .. Len(r) : SameJumps(frames'[i], r[i])
  BY <1>1, <1>2, <1>11, <1>12, JoinKeeps
<1>14. Breaks(Len(frames))
  BY <1>11, <1>13 DEF Breaks, SameJumps
<1>15. /\ cursor' \in Fresh \cup {cursor} /\ ended \subseteq Fresh \cup {cursor}
       /\ (\A b \in Fresh : b # cursor' => b \in ended) /\ cursor' \notin ended
       /\ (cursor # cursor' => cursor \in ended)
  BY <1>1, <1>2, <1>3, <1>4
<1> HIDE DEF ended
<1>16. QED
  BY <1>1, <1>2, <1>3, <1>6, <1>7, <1>14, <1>15, SimpleVerified
-----------------------------------------------------------------------------
(* Jumps.                                                                  *)

\* A jump ends the current block where that is in nobody's way: nested in { },
\* or in the body of a function or of the tree, which then is a return.
LEMMA JumpVerified ==
  ASSUME VInv, TInv', CarefulJumps, NEW kind, Visit(kind, 0), Bracketed,
         NEW targets, EndBlock(targets), Sound(cursor, targets),
         Host.kind \in {"tree", "fun"} => targets = Return
  PROVE  VInv'
<1> DEFINE k == Len(visits)
           ended == {cursor}
<1>1. /\ code' = Terminate(code, cursor, targets) /\ Simple
      /\ UNCHANGED <<status, frames, cursor, owner>>
  BY DEF EndBlock
<1>2. status = "running" /\ visits # <<>> /\ Accepts /\ IInv
  BY Visited DEF Visit, VInv, TInv
<1>3. ~ Ended(cursor)
  BY <1>2, AcceptsOpen
<1>4. Len(owner) \in Nat
  BY <1>2, Ready
<1>5. Emit(ended) /\ code'[cursor] = <<targets>>
  BY <1>1, <1>2, <1>3, EmitEnd
<1>6. /\ Breaks(Len(frames)) /\ OwnersKept /\ Fresh = {}
      /\ Len(owner') \in Nat /\ Len(owner) <= Len(owner')
  BY <1>1, <1>4 DEF Breaks, OwnersKept, Fresh
<1>7. /\ cursor' \in Fresh \cup {cursor} /\ ended \subseteq Fresh \cup {cursor}
      /\ (\A b \in Fresh : b # cursor' => b \in ended)
      /\ (cursor # cursor' => cursor \in ended \/ Ended(cursor))
  BY <1>1, <1>6
<1> HIDE DEF ended, k
<1>8. Tidy(visits', frames', cursor', code')
  BY <1>1, <1>2, <1>5, <1>6, <1>7, StayTidy
<1>9. Waits(visits')
  BY <1>1, <1>2, SimpleWaits
<1>10. SingleTerminator' /\ Stays(code', owner')
  BY <1>2, <1>5, <1>6, EmitKeeps
<1>11. /\ k \in Nat /\ k >= 1 /\ DOMAIN visits = 1 .. k
       /\ DOMAIN visits' = 1 .. k /\ Len(visits') = k /\ visits' # <<>>
       /\ Top(visits) = visits[k] /\ Top(visits') = visits'[k]
       /\ \A i \in 1 .. k : /\ visits'[i].kind = visits[i].kind
                            /\ i # k => visits'[i] = visits[i]
       /\ visits'[k].at = IF visits[k].at = "body" THEN "after" ELSE visits[k].at
  BY <1>1, <1>2, SimpleVisits DEF k
<1>12. PICK h \in 1 .. k : IsHost(visits, h) /\ Host = visits[h]
  BY <1>2, HostNow DEF k
<1>13. IsHost(visits', h)
  BY <1>11, <1>12 DEF IsHost
<1>14. Host' = visits'[h]
  BY <1>1, <1>2, <1>11, <1>13, HostNext DEF TInv
<1>15. visits[k].at \in {"body", "list"}
  BY <1>2, <1>11 DEF Accepts
<1>16. ~ (Host.kind \in {"while", "for"} /\ Host.at = "body")
  <2>1. SUFFICES ASSUME Host.kind \in {"while", "for"}, Host.at = "body" PROVE FALSE
    OBVIOUS
  <2>2. Host.kind \in BareJumps
    BY <2>1 DEF Bracketed
  <2>3. QED
    BY <2>1, <2>2 DEF CarefulJumps
<1>17. Open'
  <2>1. Top(visits').at \notin {"body", "decls"}
    BY <1>11, <1>15
  <2>2. ~ (Top(visits').kind \in {"while", "for"} /\ Top(visits').at = "after")
    <3>1. SUFFICES ASSUME Top(visits').kind \in {"while", "for"}, Top(visits').at = "after"
                   PROVE  FALSE
      OBVIOUS
    <3>2. visits[k].kind \in {"while", "for"} /\ visits[k].at = "body"
      BY <3>1, <1>11, <1>15
    <3>3. h = k
      BY <3>2, <1>11, <1>12 DEF IsHost
    <3>4. QED
      BY <3>2, <3>3, <1>12, <1>16
  <2>3. ~ (Host'.kind \in {"while", "for"} /\ Host'.at = "body")
    <3>1. SUFFICES ASSUME Host'.kind \in {"while", "for"}, Host'.at = "body" PROVE FALSE
      OBVIOUS
    <3>2. h # k
      BY <3>1, <1>11, <1>14, <1>15
    <3>3. Host' = Host
      BY <3>2, <1>11, <1>12, <1>14
    <3>4. QED
      BY <3>1, <3>3, <1>16
  <2>4. Host'.kind \in {"tree", "fun"} => code'[cursor'] = <<Return>>
    BY <1>1, <1>5, <1>11, <1>12, <1>14
  <2>5. QED
    BY <2>1, <2>2, <2>3, <2>4 DEF Open
<1>18. QED
  BY <1>1, <1>2, <1>8, <1>9, <1>10, <1>17 DEF VInv

\* The blocks of a handler inside the function that is generated are in it.
LEMMA EnclosedBlocks ==
  ASSUME TInv, status = "running", visits # <<>>, NEW m \in 1 .. Len(visits),
         visits[m].kind \notin {"fun", "tree"},
         \A j \in 1 .. Len(visits) : j > m => visits[j].kind # "fun"
  PROVE  \A b \in Locals(visits[m]) : owner[b] = owner[cursor] /\ owner[b] # b
<1> DEFINE k == Len(visits)
           g == [i \in 1 .. k |-> owner[TopOf(visits, frames, i).insertBlock]]
<1>1. /\ k \in Nat /\ k >= 1 /\ DOMAIN visits = 1 .. k
      /\ TopOf(visits, frames, k) = frames[Len(frames)]
      /\ \A i \in 1 .. k : Chain(visits[i], frames, owner)
      /\ \A i \in 2 .. k : /\ visits[i].kind # "tree"
                           /\ frames[visits[i].base] = TopOf(visits, frames, i - 1)
  BY Links
<1>2. cursor = Block(frames)
  BY Ready DEF TInv
<1>3. k \in 1 .. k
  BY <1>1
<1>4. g[k] = owner[cursor]
  BY <1>1, <1>2, <1>3, BlockAt
<1>5. \A i \in m + 1 .. k : g[i] = g[i - 1]
  <2> TAKE i \in m + 1 .. k
  <2>1. i \in 2 .. k /\ i \in 1 .. k /\ i - 1 \in 1 .. k /\ i > m
    BY <1>1
  <2>2. visits[i].kind \notin {"fun", "tree"}
    BY <2>1, <1>1
  <2>3. Within(visits[i], TopOf(visits, frames, i), frames[visits[i].base], owner)
    BY <2>1, <1>1 DEF Chain, TopOf
  <2>4. owner[TopOf(visits, frames, i).insertBlock]
          = owner[TopOf(visits, frames, i - 1).insertBlock]
    BY <2>1, <2>2, <2>3, <1>1 DEF Within
  <2>5. QED
    BY <2>1, <2>4
<1>6. /\ g[m] = owner[TopOf(visits, frames, m).insertBlock]
      /\ Within(visits[m], TopOf(visits, frames, m), frames[visits[m].base], owner)
  BY <1>1 DEF Chain, TopOf
<1> HIDE DEF g, k
<1>7. m \in 1 .. k
  BY DEF k
<1>8. g[k] = g[m]
  BY <1>1, <1>5, <1>7, Carried
<1>9. QED
  BY <1>4, <1>6, <1>8 DEF Within

\* The statement stands in a loop, or a switch, of its own function: a handler of
\* this kind is the innermost of these and of the functions.
LEMMA EnclosedAt ==
  ASSUME TInv, status = "running", visits # <<>>, NEW kinds,
         kinds \cap {"fun", "tree", "use"} = {}, Encloses(kinds)
  PROVE  /\ Host.kind \notin {"tree", "fun"}
         /\ \E m \in 1 .. Len(visits) :
              /\ visits[m].kind \in kinds /\ m = Innermost(kinds \cup {"fun"})
              /\ \A j \in 1 .. Len(visits) : j > m => visits[j].kind \notin kinds \cup {"fun"}
<1> DEFINE all == kinds \cup {"fun"}
           m == Innermost(all)
<1>1. m # 0 /\ visits[m].kind \in kinds
  BY DEF Encloses
<1>2. /\ visits \in Seq(Activation(Len(owner))) /\ Len(owner) \in Nat
      /\ DOMAIN visits = 1 .. Len(visits) /\ Len(visits) \in Nat /\ TreeFirst(visits) /\ IInv
  BY Ready, ActivationAt DEF TInv, Discipline
<1> HIDE DEF m, all
<1>3. /\ m \in 1 .. Len(visits)
      /\ \A j \in 1 .. Len(visits) : j > m => visits[j].kind \notin all
  BY <1>1, <1>2, InnermostIs DEF m
<1>4. PICK h \in 1 .. Len(visits) : IsHost(visits, h) /\ Host = visits[h]
  BY <1>2, HostNow
<1>5. Host.kind # "fun"
  <2>1. SUFFICES ASSUME visits[h].kind = "fun" PROVE FALSE
    BY <1>4
  <2>2. ~ (h > m)
    BY <2>1, <1>3 DEF all
  <2>3. h # m
    BY <2>1, <1>1
  <2>4. m > h
    BY <2>2, <2>3, <1>2, <1>3
  <2>5. visits[m].kind = "use"
    BY <2>4, <1>2, <1>3, <1>4 DEF IsHost
  <2>6. QED
    BY <2>5, <1>1
<1>6. Host.kind # "tree"
  <2>1. SUFFICES ASSUME visits[h].kind = "tree" PROVE FALSE
    BY <1>4
  <2>2. h = 1
    BY <2>1, <1>2 DEF TreeFirst
  <2>3. m # 1
    BY <1>1, <2>1, <2>2
  <2>4. m > h
    BY <2>2, <2>3, <1>2, <1>3
  <2>5. visits[m].kind = "use"
    BY <2>4, <1>2, <1>3, <1>4 DEF IsHost
  <2>6. QED
    BY <2>5, <1>1
<1>7. QED
  BY <1>1, <1>3, <1>5, <1>6 DEF m, all
LEMMA StmtBreakVerified ==
  ASSUME VInv, TInv', CarefulJumps, StmtBreak
  PROVE  VInv'
<1> DEFINE kinds == Loops \cup {"switch"}
           targets == {Break(frames)}
<1>1. /\ Visit("break", 0) /\ Bracketed /\ Encloses(kinds) /\ EndBlock(targets)
  BY DEF StmtBreak, MayBreak, CarefulJumps
<1>2. status = "running" /\ visits # <<>> /\ TInv /\ UNCHANGED owner
  BY <1>1, Visited DEF VInv, EndBlock
<1>3. /\ \A i \in 1 .. Len(visits) : HasLocals(visits[i])
      /\ DOMAIN visits = 1 .. Len(visits)
  <2>1. Discipline(visits, frames) /\ visits \in Seq(Activation(Len(owner)))
    BY <1>2, Ready DEF TInv
  <2>2. QED
    BY <2>1, ActivationAt DEF Discipline, LocalsSet
<1>4. kinds \cap {"fun", "tree", "use"} = {}
      /\ kinds \cup {"fun"} = Loops \cup {"switch", "fun"}
  BY DEF Loops
<1>5. Host.kind \notin {"tree", "fun"}
  <2> HIDE DEF kinds
  <2>1. QED
    BY <1>1, <1>2, <1>4, EnclosedAt
<1>6. PICK m \in 1 .. Len(visits) :
        /\ visits[m].kind \in kinds /\ m = Innermost(kinds \cup {"fun"})
        /\ \A j \in 1 .. Len(visits) : j > m => visits[j].kind \notin kinds \cup {"fun"}
  <2> HIDE DEF kinds
  <2>1. QED
    BY <1>1, <1>2, <1>4, EnclosedAt
<1>7. m = Innermost(Loops \cup {"switch", "fun"}) /\ m # 0 /\ visits[m].kind # "fun"
  BY <1>4, <1>6 DEF Loops
<1>8. Top(frames).breakBlock = visits[m].exit
  BY <1>2, <1>7, TargetsAre DEF JumpTargets
<1>9. visits[m].exit # NoBlock /\ visits[m].kind \notin {"fun", "tree"}
  BY <1>3, <1>6 DEF HasLocals, Loops
<1>10. Break(frames) = visits[m].exit /\ visits[m].exit \in Locals(visits[m])
  BY <1>8, <1>9 DEF Break, Locals
<1>11. \A b \in Locals(visits[m]) : owner[b] = owner[cursor] /\ owner[b] # b
  BY <1>2, <1>6, <1>9, EnclosedBlocks
<1>12. Sound(cursor, targets)
  BY <1>2, <1>10, <1>11 DEF Sound
<1> HIDE DEF kinds, targets
<1>13. QED
  BY <1>1, <1>5, <1>12, JumpVerified

LEMMA StmtContVerified ==
  ASSUME VInv, TInv', CarefulJumps, StmtCont
  PROVE  VInv'
<1> DEFINE targets == {Continue(frames)}
<1>1. /\ Visit("continue", 0) /\ Bracketed /\ Encloses(Loops) /\ EndBlock(targets)
  BY DEF StmtCont, MayContinue, CarefulJumps
<1>2. status = "running" /\ visits # <<>> /\ TInv /\ UNCHANGED owner
  BY <1>1, Visited DEF VInv, EndBlock
<1>3. /\ \A i \in 1 .. Len(visits) : HasLocals(visits[i])
      /\ DOMAIN visits = 1 .. Len(visits) /\ Len(visits) \in Nat
      /\ visits \in Seq(Activation(Len(owner))) /\ Len(owner) \in Nat
  <2>1. Discipline(visits, frames) /\ visits \in Seq(Activation(Len(owner)))
        /\ Len(owner) \in Nat
    BY <1>2, Ready DEF TInv
  <2>2. QED
    BY <2>1, ActivationAt DEF Discipline, LocalsSet
<1>4. Loops \cap {"fun", "tree", "use"} = {}
  BY DEF Loops
<1>5. Host.kind \notin {"tree", "fun"}
  BY <1>1, <1>2, <1>4, EnclosedAt
<1>6. PICK m \in 1 .. Len(visits) :
        /\ visits[m].kind \in Loops /\ m = Innermost(Loops \cup {"fun"})
        /\ \A j \in 1 .. Len(visits) : j > m => visits[j].kind \notin Loops \cup {"fun"}
  BY <1>1, <1>2, <1>4, EnclosedAt
<1>7. Innermost(Loops) = m
  <2> DEFINE c == Innermost(Loops)
  <2>1. \/ /\ c = 0 /\ \A j \in DOMAIN visits : visits[j].kind \notin Loops
        \/ /\ c \in DOMAIN visits /\ visits[c].kind \in Loops
           /\ \A j \in DOMAIN visits : j > c => visits[j].kind \notin Loops
    BY <1>3, InnermostIs
  <2> HIDE DEF c
  <2>2. c \in 1 .. Len(visits) /\ ~ (m > c) /\ ~ (c > m)
    BY <2>1, <1>3, <1>6
  <2>3. QED
    BY <2>2, <1>3, <1>6 DEF c
<1>8. Top(frames).conditionBlock
        = IF visits[m].kind = "for" THEN visits[m].alt ELSE visits[m].cond
  <2>1. m # 0
    BY <1>3, <1>6
  <2>2. QED
    BY <1>2, <1>7, <2>1, TargetsAre DEF JumpTargets
<1>9. visits[m].cond # NoBlock /\ (visits[m].kind = "for" => visits[m].alt # NoBlock)
      /\ visits[m].kind \notin {"fun", "tree"}
  BY <1>3, <1>6 DEF HasLocals, Loops
<1>10. Continue(frames) \in Locals(visits[m])
  BY <1>8, <1>9 DEF Continue, Locals
<1>11. \A b \in Locals(visits[m]) : owner[b] = owner[cursor] /\ owner[b] # b
  BY <1>2, <1>6, <1>9, EnclosedBlocks
<1>12. Sound(cursor, targets)
  BY <1>2, <1>10, <1>11 DEF Sound
<1> HIDE DEF targets
<1>13. QED
  BY <1>1, <1>5, <1>12, JumpVerified

LEMMA StmtReturnVerified ==
  ASSUME VInv, TInv', CarefulJumps, StmtReturn
  PROVE  VInv'
<1>1. Visit("return", 0) /\ Bracketed /\ EndBlock(Return)
  BY DEF StmtReturn
<1>2. Sound(cursor, Return)
  BY DEF Sound, Return
<1>3. QED
  BY <1>1, <1>2, JumpVerified

-----------------------------------------------------------------------------
(* The invariant holds.                                                    *)

LEMMA InitVerified ==
  ASSUME Init
  PROVE  VInv
<1>1. TInv
  BY InitIInv DEF Init, TInv, Chained, Chains
<1>2. /\ visits = <<>> /\ owner = <<>> /\ code = <<>> /\ status = "running"
  BY DEF Init
<1>3. SingleTerminator
  BY <1>2 DEF SingleTerminator, Blocks
<1>4. Stays(code, owner)
  BY <1>2 DEF Stays
<1>5. Tidy(visits, frames, cursor, code) /\ Waits(visits)
  BY <1>2 DEF Tidy, Waits
<1>6. QED
  BY <1>1, <1>2, <1>3, <1>4, <1>5 DEF VInv

\* A step that throws, and no step, leave the code as it is.
LEMMA ThrowVerified ==
  ASSUME VInv, TInv', Throw
  PROVE  VInv'
<1>1. status' = "failed" /\ UNCHANGED <<owner, code>>
  BY DEF Throw
<1>2. SingleTerminator' /\ Stays(code', owner')
  BY <1>1 DEF VInv, SingleTerminator, Blocks, Stays
<1>3. QED
  BY <1>1, <1>2 DEF VInv

LEMMA StutterVerified ==
  ASSUME VInv, TInv', UNCHANGED vars
  PROVE  VInv'
<1>1. UNCHANGED <<status, visits, frames, cursor, owner, code>>
  BY DEF vars
<1>2. SingleTerminator' /\ Stays(code', owner')
  BY <1>1 DEF VInv, SingleTerminator, Blocks, Stays
<1>3. Open => Open'
  BY <1>1 DEF Open, Host, Innermost, Ended
<1>4. Tidy(visits, frames, cursor, code) /\ Waits(visits) =>
        Tidy(visits', frames', cursor', code') /\ Waits(visits')
  BY <1>1
<1>5. (\A b \in Blocks : ~ (code[b] = <<>>)) => (\A b \in Blocks : ~ (code[b] = <<>>))'
  BY <1>1 DEF Blocks
<1>6. QED
  BY <1>1, <1>2, <1>3, <1>4, <1>5 DEF VInv

LEMMA NextVerified ==
  ASSUME VInv, CarefulJumps, [Next]_vars
  PROVE  VInv'
<1>1. TInv'
  BY NextChained DEF VInv
<1>2. CASE Simples
  BY <1>1, <1>2, DeclVarVerified, StmtExprVerified, StmtBreakVerified, StmtContVerified,
     StmtReturnVerified, SwitchNoDefaultVerified DEF Simples
<1>3. CASE Opens
  <2>1. CASE OpenScope \/ OpenLabel
    BY <1>1, <2>1, RegionVerified DEF OpenScope, OpenLabel
  <2>2. QED
    BY <1>1, <1>3, <2>1, TreeVerified, FunVerified, SwitchVerified, WhileVerified,
       DoVerified, ForVerified, UseVerified, IfVerified DEF Opens
<1>4. CASE Continues
  BY <1>1, <1>4, FunArgumentVerified, FunBodyVerified, ElseVerified, ForConditionVerified
     DEF Continues
<1>5. CASE Closes
  BY <1>1, <1>5, CloseTreeVerified, CloseFunVerified, JoinVerified, CloseWhileVerified,
     CloseDoVerified, CloseForVerified, CloseUseVerified DEF Closes
<1>6. CASE Throws
  <2>1. Throw
    BY <1>6 DEF Throws, DeclVarThrows, StmtExprThrows, JumpThrows, UseThrows
  <2>2. QED
    BY <1>1, <2>1, ThrowVerified
<1>7. CASE Finished \/ UNCHANGED vars
  BY <1>1, <1>7, StutterVerified DEF Finished
<1>8. QED
  BY <1>2, <1>3, <1>4, <1>5, <1>6, <1>7 DEF Next

-----------------------------------------------------------------------------
(* What the invariant says of the module.                                  *)

\* Until the tree is visited there is no block.
Starts == status = "running" /\ visits = <<>> => owner = <<>>

\* Only the end of the tree leaves no handler behind.
LEMMA StillVisiting ==
  ASSUME IInv, status = "running", visits # <<>>, [Next]_vars, status' = "running"
  PROVE  visits' # <<>>
<1>1. /\ visits \in Seq(Activation(Len(owner))) /\ Len(owner) \in Nat
      /\ Discipline(visits, frames) /\ frames \in Seq(Frame(Len(owner)))
      /\ Len(visits) \in Nat /\ Len(visits) >= 1 /\ DOMAIN visits = 1 .. Len(visits)
  BY Ready, ActivationAt
<1>2. \A a : Append(visits, a) # <<>>
  BY <1>1
<1>3. \A w : DOMAIN w = DOMAIN visits => w # <<>>
  BY <1>1
<1>4. CASE Simples
  <2>1. Simple
    BY <1>4 DEF Simples, DeclVar, StmtExpr, StmtBreak, StmtCont, StmtReturn, EndBlock,
       SwitchNoDefault
  <2>2. visits' = Returned(visits)
    BY <2>1 DEF Simple
  <2>3. DOMAIN Returned(visits) = DOMAIN visits
    BY DEF Returned
  <2>4. QED
    BY <1>3, <2>2, <2>3
<1>5. CASE Opens
  <2>1. \E a : Nest(a)
    BY <1>5 DEF Opens, OpenTree, OpenScope, OpenLabel, OpenRegion, OpenFun, OpenSwitch,
       OpenWhile, OpenDo, OpenFor, OpenUse, OpenIf
  <2>2. QED
    BY <1>2, <2>1 DEF Nest
<1>6. CASE Continues
  <2>1. DOMAIN visits' = DOMAIN visits
    BY <1>6 DEF Continues, FunArgument, FunBody, ElseBranch, ForCondition
  <2>2. QED
    BY <1>3, <2>1
<1>7. CASE Closes
  <2>1. Leave /\ Top(visits).kind # "tree"
    BY <1>7 DEF Closes, CloseTree, CloseFun, CloseScope, CloseLabel, CloseRegion,
       CloseSwitch, CloseWhile, CloseDo, CloseFor, CloseUse, CloseIf, LeaveTo, At
  <2>2. Len(visits) # 1
    BY <1>1, <2>1, DisciplineAt
  <2>3. 1 \in DOMAIN Rest(visits)
    BY <1>1, <2>2 DEF Rest
  <2>4. DOMAIN Returned(Rest(visits)) = DOMAIN Rest(visits)
    BY DEF Returned
  <2>5. QED
    BY <2>1, <2>3, <2>4 DEF Leave
<1>8. CASE Throws
  BY <1>8 DEF Throws, DeclVarThrows, StmtExprThrows, JumpThrows, UseThrows, Throw
<1>9. CASE Finished \/ UNCHANGED vars
  BY <1>9 DEF Finished, vars
<1>10. QED
  BY <1>4, <1>5, <1>6, <1>7, <1>8, <1>9 DEF Next

LEMMA NextStarts ==
  ASSUME IInv, Starts, [Next]_vars
  PROVE  Starts'
<1> SUFFICES ASSUME status' = "running", visits' = <<>> PROVE owner' = <<>>
  BY DEF Starts
<1>1. CASE status = "running" /\ visits # <<>>
  BY <1>1, StillVisiting
<1>2. CASE status = "running" /\ visits = <<>>
  <2>1. CASE OpenTree
    BY <2>1 DEF OpenTree
  <2>2. CASE UNCHANGED vars
    BY <1>2, <2>2 DEF vars, Starts
  <2>3. ~ Accepts /\ ~ \E kind, at : At(kind, at)
    BY <1>2 DEF Accepts, At
  <2>4. ~ \E kind, k : Visit(kind, k)
    BY <2>3 DEF Visit
  <2>5. ~ Simples /\ ~ Continues /\ ~ Throws
    BY <2>3, <2>4 DEF Simples, DeclVar, AtDeclaration, StmtExpr, StmtBreak, StmtCont,
       StmtReturn, SwitchNoDefault, Continues, FunArgument, FunBody, ElseBranch,
       ForCondition, Throws, DeclVarThrows, StmtExprThrows, JumpThrows, UseThrows
  <2>6. ~ Closes
    BY <2>3 DEF Closes, CloseTree, CloseFun, CloseScope, CloseLabel, CloseRegion,
       CloseSwitch, CloseWhile, CloseDo, CloseFor, CloseUse, CloseIf
  <2>7. Opens => OpenTree
    BY <2>4 DEF Opens, OpenScope, OpenLabel, OpenRegion, OpenFun, OpenSwitch,
       OpenWhile, OpenDo, OpenFor, OpenUse, OpenIf
  <2>8. QED
    BY <1>2, <2>1, <2>2, <2>5, <2>6, <2>7 DEF Next, Finished
<1>3. CASE status # "running"
  <2>1. ~ (Simples \/ Opens \/ Continues \/ Closes \/ Throws)
    BY <1>3 DEF Simples, DeclVar, AtDeclaration, StmtExpr, StmtBreak, StmtCont, StmtReturn,
       SwitchNoDefault, Visit, Opens, OpenTree, OpenScope, OpenLabel, OpenRegion, OpenFun,
       OpenSwitch, OpenWhile, OpenDo, OpenFor, OpenUse, OpenIf, Continues, FunArgument,
       FunBody, ElseBranch, ForCondition, At, Closes, CloseTree, CloseFun, CloseScope,
       CloseLabel, CloseRegion, CloseSwitch, CloseWhile, CloseDo, CloseFor, CloseUse,
       CloseIf, Throws, DeclVarThrows, StmtExprThrows, JumpThrows, UseThrows
  <2>2. status' = status
    BY <2>1 DEF Next, Finished, vars
  <2>3. QED
    BY <1>3, <2>2
<1>4. QED
  BY <1>1, <1>2, <1>3

\* A block without a terminator is the current one or is awaited.
LEMMA NoneForgotten ==
  ASSUME VInv, Starts
  PROVE  NoOrphanBlock
<1> SUFFICES ASSUME status = "running", NEW b \in Blocks, ~ Ended(b)
             PROVE  \/ \E i \in DOMAIN frames : frames[i].insertBlock = b
                    \/ \E i \in DOMAIN visits :
                         b \in {visits[i].exit, visits[i].cond, visits[i].loop, visits[i].alt}
  BY DEF NoOrphanBlock
<1>1. IInv /\ Tidy(visits, frames, cursor, code)
  BY DEF VInv, TInv
<1>2. visits # <<>>
  <2>1. ~ (owner = <<>>)
    BY EmptySeq DEF Blocks
  <2>2. QED
    BY <2>1 DEF Starts
<1>3. /\ cursor = Block(frames) /\ DOMAIN frames = 1 .. Len(frames)
      /\ Len(frames) \in DOMAIN frames /\ b \in DOMAIN code
      /\ DOMAIN visits = 1 .. Len(visits)
  BY <1>1, <1>2, Ready, ActivationAt, LenProperties, SMTT(40) DEF Blocks, Code
<1>4. CASE b = cursor
  <2>1. frames[Len(frames)].insertBlock = b
    BY <1>3, <1>4 DEF Block, Top
  <2>2. QED
    BY <1>3, <2>1
<1>5. CASE b # cursor
  <2>1. code[b] = <<>>
    BY DEF Ended
  <2>2. PICK i \in DOMAIN visits : b \in Awaits(visits[i], frames)
    BY <1>1, <1>3, <1>5, <2>1 DEF Tidy
  <2>3. CASE visits[i].kind = "fun"
    <3>1. b = frames[visits[i].base + 1].breakBlock
      BY <2>2, <2>3 DEF Awaits
    <3>2. /\ frames[visits[i].base].insertBlock = b
          /\ visits[i].base \in DOMAIN frames
      BY <1>1, <1>2, <1>3, <2>3, <3>1, AwaitsIn
    <3>3. QED
      BY <3>2
  <2>4. CASE visits[i].kind # "fun"
    <3>1. b \in {visits[i].exit, visits[i].cond, visits[i].loop, visits[i].alt}
      BY <2>2, <2>4 DEF Awaits
    <3>2. QED
      BY <3>1
  <2>5. QED
    BY <2>3, <2>4
<1>6. QED
  BY <1>4, <1>5

\* The module of a tree whose visit is over.
LEMMA ModuleAccepted ==
  ASSUME VInv
  PROVE  ModuleVerifies
<1> SUFFICES ASSUME status = "done", NEW b \in Blocks
             PROVE  /\ Len(code[b]) = 1
                    /\ \A t \in code[b][1] : owner[t] = owner[b] /\ owner[t] # t
  BY DEF ModuleVerifies
<1>1. /\ code \in Seq(Seq(SUBSET Blocks)) /\ b \in 1 .. Len(code) /\ Len(code[b]) <= 1
      /\ ~ (code[b] = <<>>) /\ Stays(code, owner)
  BY DEF VInv, TInv, IInv, TypeOK, SingleTerminator, Blocks
<1>2. code[b] \in Seq(SUBSET Blocks) /\ b \in DOMAIN code
  BY <1>1, ElementOfSeq, LenProperties
<1>3. Len(code[b]) = 1 /\ 1 \in DOMAIN code[b]
  <2>1. Len(code[b]) \in Nat /\ Len(code[b]) # 0
    BY <1>1, <1>2, EmptySeq
  <2>2. \A k \in Nat : k # 0 /\ k <= 1 => k = 1
    OBVIOUS
  <2>3. Len(code[b]) = 1
    BY <1>1, <2>1, <2>2, Zenon
  <2>4. QED
    BY <1>2, <2>3
<1>4. QED
  BY <1>1, <1>2, <1>3 DEF Stays

-----------------------------------------------------------------------------
(* The theorems.                                                           *)

\* What the blocks without code and the waiting handlers keep, for every program
\* that puts no jump outside what it jumps out of and gives no while or for a
\* jump as its whole body.
THEOREM TerminatorInvariance == CarefulJumps => (Spec => []VInv)
<1> SUFFICES ASSUME CarefulJumps PROVE Spec => []VInv
  OBVIOUS
<1>1. Init => VInv
  BY InitVerified
<1>2. VInv /\ [Next]_vars => VInv'
  BY NextVerified
<1>3. QED
  BY <1>1, <1>2, PTL DEF Spec

\* No block gets a second terminator, however the handlers nest (the tests of
\* getTerminator at codegen.cpp:983 and after): SingleTerminator, for every such
\* program and every depth.
THEOREM OneTerminator == CarefulJumps => (Spec => []SingleTerminator)
<1> SUFFICES ASSUME CarefulJumps PROVE Spec => []SingleTerminator
  OBVIOUS
<1>1. VInv => SingleTerminator
  BY DEF VInv
<1>2. Spec => []VInv
  BY TerminatorInvariance
<1>3. QED
  BY <1>1, <1>2, PTL

\* No block is created and then forgotten by the handler that created it:
\* NoOrphanBlock, for every such program and every depth.
THEOREM NoneOrphaned == CarefulJumps => (Spec => []NoOrphanBlock)
<1> SUFFICES ASSUME CarefulJumps PROVE Spec => []NoOrphanBlock
  OBVIOUS
<1>1. Init => Starts
  BY DEF Init, Starts
<1>2. IInv /\ Starts /\ [Next]_vars => Starts'
  BY NextStarts
<1>3. VInv => IInv
  BY DEF VInv, TInv
<1>4. VInv /\ Starts => NoOrphanBlock
  BY NoneForgotten
<1>5. Spec => []VInv
  BY TerminatorInvariance
<1>6. QED
  BY <1>1, <1>2, <1>3, <1>4, <1>5, PTL DEF Spec

\* The tree's module is one llvm::verifyModule accepts (jit.cpp:33): each block
\* ends in one terminator, and branches stay in their function and never go back
\* to its entry.  ModuleVerifies, for every such program and every depth.
THEOREM Verified == CarefulJumps => (Spec => []ModuleVerifies)
<1> SUFFICES ASSUME CarefulJumps PROVE Spec => []ModuleVerifies
  OBVIOUS
<1>1. VInv => ModuleVerifies
  BY ModuleAccepted
<1>2. Spec => []VInv
  BY TerminatorInvariance
<1>3. QED
  BY <1>1, <1>2, PTL
=============================================================================
