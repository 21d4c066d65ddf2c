--------------------------- MODULE ExpressionsProofs ---------------------------
(***************************************************************************)
(* Theorems about the expression visitors, for any names and any depth of  *)
(* nesting: types of every program, and the values and instructions of     *)
(* careful ones.                                                           *)
(***************************************************************************)
EXTENDS ExpressionsProps, SequenceTheorems, TLAPS

-----------------------------------------------------------------------------
(* What holds of every program.                                            *)

StatementOps == {"expr", "return", "condition", "decl"}

\* An expression that gives x may stand where w is wanted.
Fitting(w, x) == w = Anything \/ (Plain(w) = Plain(x) /\ (w.place => x.place))

\* What each handler waits for, and what it gives.
FormedStatement(a) ==
  /\ a.op = "expr" => a.wants = Anything /\ a.needs = Anything
  /\ a.op \in {"return", "condition"} =>
       \E t \in Types : a.wants = Value(t) /\ a.needs = Value(t)
  /\ a.op = "decl" =>
       /\ a.name \in Names
       /\ \E t \in Types :
            \/ a.needs = Value(t) /\ a.wants = Value(t)
            \/ t \in RefTypes /\ a.needs = ToRef(t) /\ a.wants \in Gives(a.needs)

FormedOperand(a) ==
  /\ a.op = "prop" => /\ a.needs = Value("object") /\ a.wants \in Gives(a.needs)
                      /\ \E t \in Types : a.gives = Place(t)
  /\ a.op = "ref" => \E t \in Types : /\ a.wants = Place(t) /\ a.needs = Place(t)
                                      /\ a.gives = ToRef(t)
  /\ a.op = "delete" => /\ a.needs = Place("object") /\ a.wants \in Gives(a.needs)
                        /\ a.gives = Anything

FormedCall(a) ==
  /\ a.op \in {"call", "method"} => a.gives \in Returns
  /\ a.op = "new" => a.gives = Value("object")
  /\ IF a.op = "method" /\ a.step = 1
     THEN a.needs = Value("object") /\ a.wants \in Gives(a.needs)
     ELSE a.op \in {"call", "method", "new"} =>
            a.needs \in Parameters /\ a.wants \in GivesArgument(a.needs)

FormedOperator(a) ==
  /\ a.op = "binary" => a.wants = Number /\ a.needs = Number /\ a.gives = Number
  /\ a.op = "assign" => \/ \E t \in Types : a.gives = Place(t)
                        \/ \E t \in RefTypes : a.gives = RefItself(t)
  /\ a.op = "compound" => a.gives = Place("int")
  /\ a.op \in {"assign", "compound"} =>
       /\ a.wants = IF a.step = 1 THEN a.gives ELSE Plain(a.gives)
       /\ a.needs = a.wants
  /\ a.op \in {"binary", "assign", "compound"} /\ a.step = 2 => a.held # Void

Formed(a) == FormedStatement(a) /\ FormedOperand(a) /\ FormedCall(a) /\ FormedOperator(a)

\* A statement is the outermost visit, and an expression stands where it fits.
Under(u, a) ==
  /\ u.at = "waits"
  /\ a.op \notin StatementOps
  /\ Fitting(u.wants, a.gives)
  /\ a.op = "new" /\ ~ ConstructorArgs => u.wants = Anything

Shape(v) ==
  /\ \A i \in 1 .. Len(v) : Formed(v[i])
  /\ v # <<>> => v[1].op \in StatementOps
  /\ \A i \in 1 .. Len(v) - 1 : Under(v[i], v[i + 1])

\* There is a value where one is wanted.
HasValue(v, r) ==
  v # <<>> /\ v[Len(v)].at = "has" /\ v[Len(v)].wants # Anything => r # Void

ReferencesTyped(s) == \A n \in Names : IsRef(s[n]) => s[n].base \in RefTypes

Typing ==
  /\ TypeOK
  /\ Shape(visits)
  /\ HasValue(visits, result)
  /\ ReferencesTyped(symbols)
  /\ status = "failed" => visits = <<>>

-----------------------------------------------------------------------------
(* What holds of careful programs.                                         *)

Careful ==
  /\ Destructors /\ ~ ConstructorArgs
  /\ RefTypes \subseteq {"int"}
  /\ RefUses \subseteq SoundUses

\* generateInMem is what the handler on top asked for, and is not left set where a value
\* was asked for.
Flag(v, g) ==
  /\ g => v # <<>> /\ v[Len(v)].wants.place
  /\ v # <<>> /\ v[Len(v)].at = "waits" /\ v[Len(v)].wants.place => g

\* A handler remembers what the one around it asked for.
Asked(v) ==
  /\ v # <<>> => ~ v[1].mem
  /\ \A i \in 1 .. Len(v) - 1 : v[i + 1].mem <=> v[i].wants.place

\* The type r is that of a place or a value w; the place that is assigned to may be that
\* of a reference to it.
IsPlace(w, r) == r = Ptr(LLVM(w))
Assigned(w, r) == IsPlace(w, r) \/ (w = Place("int") /\ r = Ptr(Ptr(LLVM(w))))

Suits(a, r) ==
  \/ a.wants = Anything
  \/ ~ a.wants.place /\ r = LLVM(a.wants)
  \/ a.wants.place /\ (IsPlace(a.wants, r) \/ (a.op = "assign" /\ Assigned(a.wants, r)))

Kept(a) ==
  a.step = 2 => /\ a.op = "binary" => a.held = LLVM(Number)
                /\ a.op = "compound" => IsPlace(a.gives, a.held)
                /\ a.op = "assign" => Assigned(a.gives, a.held)

Values ==
  status = "running" =>
    /\ Flag(visits, generateInMem)
    /\ Asked(visits)
    /\ visits # <<>> /\ visits[Len(visits)].at = "has" => Suits(visits[Len(visits)], result)
    /\ \A i \in 1 .. Len(visits) : Kept(visits[i])

IInv == Typing /\ Values /\ InstructionsTyped

-----------------------------------------------------------------------------
(* Types.                                                                  *)

LEMMA TypesOfTypes ==
  /\ "int" \in Types /\ "object" \in Types /\ "void" \notin Types /\ "any" \notin Types
  /\ RefTypes \subseteq Types
BY ExpressionsAssumption

LEMMA WantedTypes ==
  /\ Number \in Wanted /\ Anything \in Wanted
  /\ \A t \in Types : /\ {Value(t), ToRef(t), Place(t), RefItself(t)} \subseteq Wanted
                      /\ Anything \notin {Value(t), ToRef(t), Place(t), RefItself(t)}
  /\ \A w \in Wanted : Plain(w) \in Wanted /\ Gives(w) \subseteq Wanted
  /\ Parameters \subseteq Wanted /\ Returns \subseteq Wanted
  /\ \A w \in Wanted : GivesArgument(w) \subseteq Wanted
<1>1. /\ Number \in Wanted /\ Anything \in Wanted
      /\ \A t \in Types : /\ {Value(t), ToRef(t), Place(t), RefItself(t)} \subseteq Wanted
                          /\ Anything \notin {Value(t), ToRef(t), Place(t), RefItself(t)}
  BY TypesOfTypes DEF Number, Anything, Value, ToRef, Place, RefItself, Wanted
<1>2. \A w \in Wanted : Plain(w) \in Wanted /\ Gives(w) \subseteq Wanted
  BY TypesOfTypes DEF Wanted, Plain, Gives
<1>3. Parameters \subseteq Wanted /\ Returns \subseteq Wanted
  BY <1>1, TypesOfTypes DEF Parameters, Returns
<1>4. QED
  BY <1>1, <1>2, <1>3 DEF GivesArgument

\* The LLVM type of what is wanted, and what pointers to and from types are.
LEMMA LLVMTypes ==
  /\ Void \in LLVMType
  /\ \A w \in Wanted : w # Anything /\ w.base # "any" => LLVM(w) \in LLVMType /\ LLVM(w) # Void
  /\ \A r \in LLVMType : r # Void => /\ Ptr(r) \in LLVMType /\ Ptr(r) # Void
                                     /\ Deref(r) \in LLVMType /\ Deref(r) # Void
BY TypesOfTypes DEF LLVM, LLVMType, Void, Wanted, Ptr, Deref, Anything, Value

-----------------------------------------------------------------------------
(* Visits.                                                                 *)

LEMMA TopVisit ==
  ASSUME NEW v \in Seq(Activation), v # <<>>
  PROVE  Len(v) \in Nat /\ Len(v) >= 1 /\ Len(v) \in 1 .. Len(v) /\ v[Len(v)] \in Activation
BY EmptySeq, LenProperties, ElementOfSeq

\* What is wanted of the visits is kept when the one on top goes on as b.
LEMMA Advanced ==
  ASSUME NEW v \in Seq(Activation), v # <<>>, NEW b \in Activation,
         b.op = v[Len(v)].op, b.gives = v[Len(v)].gives, b.mem = v[Len(v)].mem,
         Formed(b)
  PROVE  LET w == [v EXCEPT ![Len(v)] = b]
         IN  /\ w \in Seq(Activation) /\ w # <<>> /\ Len(w) = Len(v) /\ w[Len(w)] = b
             /\ Shape(v) => Shape(w)
             /\ Asked(v) => Asked(w)
             /\ Kept(b) /\ (\A i \in 1 .. Len(v) : Kept(v[i])) => \A i \in 1 .. Len(w) : Kept(w[i])
<1> DEFINE w == [v EXCEPT ![Len(v)] = b]
           k == Len(v)
<1>1. k \in Nat /\ k >= 1 /\ k \in 1 .. k
  BY TopVisit
<1>2. w \in Seq(Activation) /\ Len(w) = k /\ \A i \in 1 .. k : w[i] = IF i = k THEN b ELSE v[i]
  BY <1>1, ExceptSeq
<1>3. w # <<>>
  BY <1>1, <1>2, EmptySeq
<1>4. b.op = v[k].op /\ b.gives = v[k].gives /\ b.mem = v[k].mem
  OBVIOUS
<1> HIDE DEF w, k
<1>5. \A i \in 1 .. k : w[i].op = v[i].op /\ w[i].gives = v[i].gives /\ w[i].mem = v[i].mem
  BY <1>2, <1>4
<1>6. \A i \in 1 .. k - 1 : i \in 1 .. k /\ i + 1 \in 1 .. k /\ w[i] = v[i]
  BY <1>1, <1>2
<1>7. ASSUME Shape(v)
      PROVE  Shape(w)
  <2>1. \A i \in 1 .. k : Formed(w[i])
    BY <1>2, <1>7 DEF Shape, k
  <2>2. w[1].op \in StatementOps
    BY <1>1, <1>5, <1>7 DEF Shape, k
  <2>3. \A i \in 1 .. k - 1 : Under(w[i], w[i + 1])
    BY <1>5, <1>6, <1>7 DEF Shape, Under, k
  <2>4. QED
    BY <2>1, <2>2, <2>3, <1>2 DEF Shape
<1>8. ASSUME Asked(v)
      PROVE  Asked(w)
  <2>1. ~ w[1].mem
    BY <1>1, <1>5, <1>8 DEF Asked, k
  <2>2. \A i \in 1 .. k - 1 : w[i + 1].mem <=> w[i].wants.place
    BY <1>5, <1>6, <1>8 DEF Asked, k
  <2>3. QED
    BY <2>1, <2>2, <1>2 DEF Asked
<1>9. ASSUME Kept(b), \A i \in 1 .. k : Kept(v[i])
      PROVE  \A i \in 1 .. Len(w) : Kept(w[i])
  BY <1>2, <1>9
<1>10. QED
  BY <1>1, <1>2, <1>3, <1>7, <1>8, <1>9 DEF w, k

\* A visit returns to the one on top.
LEMMA Returned ==
  ASSUME NEW v \in Seq(Activation), v # <<>>, Shape(v)
  PROVE  LET w == [v EXCEPT ![Len(v)].at = "has"]
         IN  /\ w \in Seq(Activation) /\ w # <<>> /\ Len(w) = Len(v)
             /\ w[Len(w)] = [v[Len(v)] EXCEPT !.at = "has"]
             /\ Shape(w)
             /\ Asked(v) => Asked(w)
             /\ (\A i \in 1 .. Len(v) : Kept(v[i])) => \A i \in 1 .. Len(w) : Kept(w[i])
<1> DEFINE a == v[Len(v)]
           b == [a EXCEPT !.at = "has"]
<1>1. a \in Activation /\ Len(v) \in 1 .. Len(v) /\ Formed(a)
  BY TopVisit DEF Shape
<1>2. [v EXCEPT ![Len(v)].at = "has"] = [v EXCEPT ![Len(v)] = b]
  OBVIOUS
<1> HIDE DEF a
<1>3. /\ b \in Activation
      /\ b.op = a.op /\ b.gives = a.gives /\ b.mem = a.mem /\ b.wants = a.wants
      /\ b.needs = a.needs /\ b.step = a.step /\ b.held = a.held /\ b.name = a.name
  BY <1>1 DEF Activation
<1> HIDE DEF b
<1>4. Formed(b)
  BY <1>1, <1>3 DEF Formed, FormedStatement, FormedOperand, FormedCall, FormedOperator
<1>5. Kept(a) => Kept(b)
  BY <1>3 DEF Kept
<1>6. QED
  BY <1>1, <1>2, <1>3, <1>4, <1>5, Advanced DEF a, b

\* A visit of an expression nests below the one on top, or a statement's is the first.
LEMMA Nested ==
  ASSUME NEW v \in Seq(Activation), Shape(v), NEW a \in Activation, Formed(a), a.at = "waits",
         IF v = <<>> THEN a.op \in StatementOps ELSE Under(v[Len(v)], a)
  PROVE  LET w == Append(v, a)
         IN  /\ w \in Seq(Activation) /\ w # <<>> /\ Len(w) = Len(v) + 1 /\ w[Len(w)] = a
             /\ Shape(w)
             /\ Asked(v) /\ (a.mem <=> v # <<>> /\ v[Len(v)].wants.place) => Asked(w)
             /\ Kept(a) /\ (\A i \in 1 .. Len(v) : Kept(v[i])) => \A i \in 1 .. Len(w) : Kept(w[i])
<1> DEFINE w == Append(v, a)
           k == Len(v)
<1>1. k \in Nat /\ (v # <<>> => k >= 1) /\ (v = <<>> => k = 0)
  BY LenProperties, EmptySeq
<1>2. /\ w \in Seq(Activation) /\ Len(w) = k + 1
      /\ w[k + 1] = a /\ \A i \in 1 .. k : w[i] = v[i]
  BY AppendProperties
<1>3. v # <<>> => Under(v[k], a)
  OBVIOUS
<1> HIDE DEF w, k
<1>4. w # <<>>
  BY <1>1, <1>2, EmptySeq
<1>5. \A i \in 1 .. k + 1 : i = k + 1 \/ i \in 1 .. k
  BY <1>1
<1>6. \A i \in 1 .. k : \/ i = k /\ v # <<>>
                        \/ i \in 1 .. k - 1 /\ i + 1 \in 1 .. k
  BY <1>1
<1>7. Shape(w)
  <2>1. \A i \in 1 .. k + 1 : Formed(w[i])
    BY <1>2, <1>5 DEF Shape, k
  <2>2. w[1].op \in StatementOps
    <3>1. CASE v = <<>>
      BY <3>1, <1>1, <1>2
    <3>2. CASE v # <<>>
      BY <3>2, <1>1, <1>2 DEF Shape
    <3>3. QED
      BY <3>1, <3>2
  <2>3. \A i \in 1 .. k : Under(w[i], w[i + 1])
    BY <1>2, <1>3, <1>6 DEF Shape, k
  <2>4. Len(w) - 1 = k
    BY <1>1, <1>2
  <2>5. QED
    BY <2>1, <2>2, <2>3, <2>4, <1>2 DEF Shape
<1>8. ASSUME Asked(v), a.mem <=> v # <<>> /\ v[k].wants.place
      PROVE  Asked(w)
  <2>1. ~ w[1].mem
    <3>1. CASE v = <<>>
      BY <3>1, <1>1, <1>2, <1>8
    <3>2. CASE v # <<>>
      BY <3>2, <1>1, <1>2, <1>8 DEF Asked
    <3>3. QED
      BY <3>1, <3>2
  <2>2. \A i \in 1 .. k : w[i + 1].mem <=> w[i].wants.place
    BY <1>2, <1>6, <1>8 DEF Asked, k
  <2>3. Len(w) - 1 = k
    BY <1>1, <1>2
  <2>4. QED
    BY <2>1, <2>2, <2>3 DEF Asked
<1>9. ASSUME Kept(a), \A i \in 1 .. k : Kept(v[i])
      PROVE  \A i \in 1 .. Len(w) : Kept(w[i])
  BY <1>2, <1>5, <1>9
<1>10. QED
  BY <1>2, <1>4, <1>7, <1>8, <1>9 DEF w, k

\* The visit on top returns: the one below, if any, was waiting for it.
LEMMA Dropped ==
  ASSUME NEW v \in Seq(Activation), v # <<>>, Shape(v)
  PROVE  LET w == SubSeq(v, 1, Len(v) - 1)
         IN  /\ w \in Seq(Activation) /\ Len(w) = Len(v) - 1
             /\ Shape(w)
             /\ w = <<>> <=> v[Len(v)].op \in StatementOps
             /\ w # <<>> => /\ Under(w[Len(w)], v[Len(v)])
                            /\ Asked(v) => (v[Len(v)].mem <=> w[Len(w)].wants.place)
             /\ Asked(v) => /\ Asked(w)
                            /\ w = <<>> => ~ v[Len(v)].mem
             /\ (\A i \in 1 .. Len(v) : Kept(v[i])) => \A i \in 1 .. Len(w) : Kept(w[i])
<1> DEFINE w == SubSeq(v, 1, Len(v) - 1)
           k == Len(v) - 1
<1>1. k \in Nat /\ Len(v) = k + 1 /\ v \in [1 .. k + 1 -> Activation]
  BY TopVisit, LenProperties
<1>2. w \in Seq(Activation) /\ Len(w) = k /\ \A i \in 1 .. k : w[i] = v[i]
  BY <1>1, SubSeqProperties
<1> HIDE DEF w, k
<1>3. (w = <<>> => k = 0) /\ (w # <<>> => k >= 1)
  BY <1>2, EmptySeq
<1>4. \A i \in 1 .. k : i \in 1 .. k + 1
  BY <1>1
<1>5. \A i \in 1 .. k - 1 : i \in 1 .. k /\ i + 1 \in 1 .. k
  BY <1>1
<1>6. Len(v) - 1 = k
  BY <1>1
<1>7. Shape(w)
  <2>1. \A i \in 1 .. k : Formed(w[i])
    BY <1>1, <1>2, <1>4 DEF Shape
  <2>2. w # <<>> => w[1].op \in StatementOps
    BY <1>1, <1>2, <1>3 DEF Shape
  <2>3. \A i \in 1 .. k - 1 : Under(w[i], w[i + 1])
    BY <1>1, <1>2, <1>5, <1>6 DEF Shape
  <2>4. QED
    BY <2>1, <2>2, <2>3, <1>2 DEF Shape
<1>8. w # <<>> => Under(w[k], v[k + 1]) /\ (Asked(v) => (v[k + 1].mem <=> w[k].wants.place))
  <2>1. w # <<>> => k \in 1 .. k
    BY <1>1, <1>3
  <2>2. QED
    BY <2>1, <1>2, <1>6 DEF Shape, Asked
<1>9. w = <<>> <=> v[k + 1].op \in StatementOps
  <2>1. CASE w = <<>>
    BY <2>1, <1>3 DEF Shape
  <2>2. CASE w # <<>>
    BY <2>2, <1>8 DEF Under
  <2>3. QED
    BY <2>1, <2>2
<1>10. ASSUME Asked(v)
       PROVE  Asked(w) /\ (w = <<>> => ~ v[k + 1].mem)
  <2>1. w # <<>> => ~ w[1].mem
    BY <1>1, <1>2, <1>3, <1>10 DEF Asked
  <2>2. \A i \in 1 .. k - 1 : w[i + 1].mem <=> w[i].wants.place
    BY <1>1, <1>2, <1>5, <1>6, <1>10 DEF Asked
  <2>3. QED
    BY <2>1, <2>2, <1>2, <1>3, <1>10 DEF Asked
<1>11. (\A i \in 1 .. Len(v) : Kept(v[i])) => \A i \in 1 .. Len(w) : Kept(w[i])
  BY <1>1, <1>2, <1>4
<1>12. QED
  BY <1>1, <1>2, <1>6, <1>7, <1>8, <1>9, <1>10, <1>11 DEF w

-----------------------------------------------------------------------------
(* Steps, by what they do to the visits: first the types, then the values. *)

LEMMA TypingTop ==
  ASSUME Typing, visits # <<>>
  PROVE  /\ visits \in Seq(Activation) /\ Shape(visits)
         /\ Len(visits) \in Nat /\ Len(visits) >= 1 /\ Len(visits) \in 1 .. Len(visits)
         /\ Top = visits[Len(visits)] /\ Top \in Activation /\ Formed(Top)
<1>1. visits \in Seq(Activation) /\ Shape(visits)
  BY DEF Typing, TypeOK
<1>2. /\ Len(visits) \in Nat /\ Len(visits) >= 1 /\ Len(visits) \in 1 .. Len(visits)
      /\ visits[Len(visits)] \in Activation
  BY <1>1, TopVisit
<1>3. QED
  BY <1>1, <1>2 DEF Top, Shape

\* An expression without nested visits.
LEMMA LeafTyping ==
  ASSUME Typing, visits # <<>>, Return(visits),
         result' \in LLVMType, Top.wants # Anything => result' # Void,
         generateInMem' \in BOOLEAN, UNCHANGED <<status, symbols>>, emitted' \subseteq Operand,
         status = "running"
  PROVE  Typing'
<1> DEFINE w == [visits EXCEPT ![Len(visits)].at = "has"]
<1>1. visits' = w
  BY DEF Return
<1>2. /\ w \in Seq(Activation) /\ w # <<>> /\ Shape(w)
      /\ w[Len(w)] = [Top EXCEPT !.at = "has"]
  BY TypingTop, Returned
<1> HIDE DEF w
<1>3. w[Len(w)].wants = Top.wants
  BY <1>2, TypingTop DEF Activation
<1>4. QED
  BY <1>1, <1>2, <1>3 DEF Typing, TypeOK, HasValue

LEMMA LeafValues ==
  ASSUME Typing, Values, visits # <<>>, Return(visits), UNCHANGED status,
         Suits(Top, result'), generateInMem' => Top.wants.place
  PROVE  Values'
<1> SUFFICES ASSUME status = "running" PROVE Values'
  BY DEF Values
<1> DEFINE w == [visits EXCEPT ![Len(visits)].at = "has"]
<1>1. visits' = w
  BY DEF Return
<1>2. /\ w \in Seq(Activation) /\ w # <<>>
      /\ w[Len(w)] = [Top EXCEPT !.at = "has"]
      /\ Asked(w) /\ \A i \in 1 .. Len(w) : Kept(w[i])
  BY TypingTop, Returned DEF Values
<1> HIDE DEF w
<1>3. w[Len(w)].wants = Top.wants /\ w[Len(w)].op = Top.op /\ w[Len(w)].at = "has"
  BY <1>2, TypingTop DEF Activation
<1>4. Suits(w[Len(w)], result')
  BY <1>3 DEF Suits
<1>5. Flag(w, generateInMem')
  BY <1>2, <1>3 DEF Flag
<1>6. QED
  BY <1>1, <1>2, <1>4, <1>5 DEF Values

\* A handler that nests a visit.
LEMMA NestTyping ==
  ASSUME Typing, NEW a \in Activation, Formed(a), a.at = "waits",
         IF visits = <<>> THEN a.op \in StatementOps ELSE Under(Top, a),
         visits' = Append(visits, a), generateInMem' \in BOOLEAN, result' \in LLVMType,
         UNCHANGED <<status, symbols>>, emitted' \subseteq Operand, status = "running"
  PROVE  Typing'
<1> DEFINE w == Append(visits, a)
<1>1. visits \in Seq(Activation) /\ Shape(visits)
  BY DEF Typing, TypeOK
<1>2. w \in Seq(Activation) /\ Shape(w) /\ w[Len(w)] = a
  BY <1>1, Nested DEF Top
<1> HIDE DEF w
<1>3. QED
  BY <1>2 DEF Typing, TypeOK, HasValue, w

LEMMA NestValues ==
  ASSUME Typing, Values, NEW a \in Activation, Formed(a), a.at = "waits", Kept(a),
         IF visits = <<>> THEN a.op \in StatementOps ELSE Under(Top, a),
         visits' = Append(visits, a), UNCHANGED status,
         a.mem <=> generateInMem, generateInMem' <=> a.wants.place
  PROVE  Values'
<1> SUFFICES ASSUME status = "running" PROVE Values'
  BY DEF Values
<1> DEFINE w == Append(visits, a)
<1>1. visits \in Seq(Activation) /\ Shape(visits)
  BY DEF Typing, TypeOK
<1>2. a.mem <=> visits # <<>> /\ visits[Len(visits)].wants.place
  BY DEF Values, Flag, Under, Top
<1>3. /\ w # <<>> /\ w[Len(w)] = a /\ Asked(w)
      /\ \A i \in 1 .. Len(w) : Kept(w[i])
  BY <1>1, <1>2, Nested DEF Values, Top
<1> HIDE DEF w
<1>4. Flag(w, generateInMem')
  BY <1>3 DEF Flag
<1>5. QED
  BY <1>3, <1>4 DEF Values, w

\* A handler that goes on to another nested visit.
LEMMA AdvanceTyping ==
  ASSUME Typing, visits # <<>>, NEW b \in Activation, Formed(b), b.at = "waits",
         b.op = Top.op, b.gives = Top.gives, b.mem = Top.mem,
         visits' = [visits EXCEPT ![Len(visits)] = b], generateInMem' \in BOOLEAN,
         UNCHANGED <<status, result, symbols>>, emitted' \subseteq Operand, status = "running"
  PROVE  Typing'
<1> DEFINE w == [visits EXCEPT ![Len(visits)] = b]
<1>1. w \in Seq(Activation) /\ w # <<>> /\ Shape(w) /\ w[Len(w)] = b
  BY TypingTop, Advanced
<1> HIDE DEF w
<1>2. QED
  BY <1>1 DEF Typing, TypeOK, HasValue, w

LEMMA AdvanceValues ==
  ASSUME Typing, Values, visits # <<>>, NEW b \in Activation, Formed(b), b.at = "waits", Kept(b),
         b.op = Top.op, b.gives = Top.gives, b.mem = Top.mem,
         visits' = [visits EXCEPT ![Len(visits)] = b], UNCHANGED status,
         generateInMem' <=> b.wants.place
  PROVE  Values'
<1> SUFFICES ASSUME status = "running" PROVE Values'
  BY DEF Values
<1> DEFINE w == [visits EXCEPT ![Len(visits)] = b]
<1>1. /\ w # <<>> /\ w[Len(w)] = b /\ Asked(w)
      /\ \A i \in 1 .. Len(w) : Kept(w[i])
  BY TypingTop, Advanced DEF Values
<1> HIDE DEF w
<1>2. Flag(w, generateInMem')
  BY <1>1 DEF Flag
<1>3. QED
  BY <1>1, <1>2 DEF Values, w

\* What fits where nothing in particular is wanted is nothing in particular.
LEMMA FittingAnything ==
  ASSUME NEW w \in Wanted, Fitting(w, Anything)
  PROVE  w = Anything
BY DEF Fitting, Wanted, Plain, Anything, Value

\* What fits has the type that is wanted.
LEMMA FittingType ==
  ASSUME NEW w \in Wanted, NEW x \in Wanted, Fitting(w, x), w # Anything
  PROVE  w.base = x.base /\ w.ref = x.ref /\ LLVM(w) = LLVM(x) /\ (w.place => x.place)
<1>1. w.base = x.base /\ w.ref = x.ref /\ (w.place => x.place)
  BY DEF Fitting, Wanted, Plain
<1>2. QED
  BY <1>1 DEF LLVM

\* A handler that returns, and what then becomes of the one that was waiting for it.
LEMMA Closed ==
  ASSUME Typing, visits # <<>>, Return(Rest)
  PROVE  \/ /\ Rest = <<>> /\ visits' = <<>> /\ Top.op \in StatementOps
            /\ Asked(visits) => ~ Top.mem
         \/ \E u \in Activation :
              LET w == visits'
              IN  /\ w \in Seq(Activation) /\ w # <<>> /\ Shape(w)
                  /\ w[Len(w)] = [u EXCEPT !.at = "has"]
                  /\ Under(u, Top)
                  /\ Asked(visits) => Asked(w) /\ (Top.mem <=> u.wants.place)
                  /\ (\A i \in 1 .. Len(visits) : Kept(visits[i]))
                       => \A i \in 1 .. Len(w) : Kept(w[i])
<1> DEFINE r == SubSeq(visits, 1, Len(visits) - 1)
<1>1. /\ r \in Seq(Activation) /\ Shape(r)
      /\ r = <<>> <=> Top.op \in StatementOps
      /\ r # <<>> => /\ Under(r[Len(r)], Top)
                     /\ Asked(visits) => (Top.mem <=> r[Len(r)].wants.place)
      /\ Asked(visits) => Asked(r) /\ (r = <<>> => ~ Top.mem)
      /\ (\A i \in 1 .. Len(visits) : Kept(visits[i])) => \A i \in 1 .. Len(r) : Kept(r[i])
  BY TypingTop, Dropped
<1>2. Rest = r
  BY DEF Rest
<1> HIDE DEF r
<1>3. CASE r = <<>>
  BY <1>1, <1>2, <1>3 DEF Return
<1>4. CASE r # <<>>
  <2> DEFINE w == [r EXCEPT ![Len(r)].at = "has"]
  <2>1. visits' = w
    BY <1>2, <1>4 DEF Return
  <2>2. r[Len(r)] \in Activation
    BY <1>1, <1>4, TopVisit
  <2>3. /\ w \in Seq(Activation) /\ w # <<>> /\ Shape(w)
        /\ w[Len(w)] = [r[Len(r)] EXCEPT !.at = "has"]
        /\ Asked(r) => Asked(w)
        /\ (\A i \in 1 .. Len(r) : Kept(r[i])) => \A i \in 1 .. Len(w) : Kept(w[i])
    BY <1>1, <1>4, Returned
  <2> HIDE DEF w
  <2>4. QED
    BY <1>1, <1>4, <2>1, <2>2, <2>3
<1>5. QED
  BY <1>3, <1>4

LEMMA CloseTyping ==
  ASSUME Typing, visits # <<>>, Return(Rest), result' \in LLVMType,
         Top.op \in StatementOps \/ Top.gives = Anything \/ result' # Void,
         generateInMem' \in BOOLEAN, UNCHANGED status,
         symbols' \in [Names -> Symbols], ReferencesTyped(symbols'), emitted' \subseteq Operand,
         status = "running"
  PROVE  Typing'
<1>1. CASE visits' = <<>>
  <2>1. <<>> \in Seq(Activation) /\ Shape(<<>>)
    BY EmptySeq DEF Shape
  <2>2. QED
    BY <1>1, <2>1 DEF Typing, TypeOK, HasValue
<1>2. CASE visits' # <<>>
  <2> DEFINE w == visits'
  <2>1. PICK u \in Activation :
          /\ w \in Seq(Activation) /\ w # <<>> /\ Shape(w)
          /\ w[Len(w)] = [u EXCEPT !.at = "has"] /\ Under(u, Top)
    BY <1>2, Closed
  <2>2. u.wants \in Wanted /\ w[Len(w)].wants = u.wants /\ Top.op \notin StatementOps
    BY <2>1 DEF Activation, Under
  <2>3. u.wants # Anything => Top.gives # Anything
    BY <2>1, <2>2, FittingAnything DEF Under
  <2>4. QED
    BY <2>1, <2>2, <2>3 DEF Typing, TypeOK, HasValue
<1>3. QED
  BY <1>1, <1>2

LEMMA CloseValues ==
  ASSUME Typing, Values, ~ ConstructorArgs, visits # <<>>, Return(Rest), UNCHANGED status,
         \/ Top.op \in StatementOps \/ Top.gives = Anything \/ Top.op = "new"
         \/ result' = InMemory(LLVM(Top.gives), Top.mem),
         generateInMem' => Top.mem
  PROVE  Values'
<1> SUFFICES ASSUME status = "running" PROVE Values'
  BY DEF Values
<1>1. Asked(visits) /\ \A i \in 1 .. Len(visits) : Kept(visits[i])
  BY DEF Values
<1>2. CASE visits' = <<>>
  <2>1. ~ generateInMem'
    BY <1>1, <1>2, Closed
  <2>2. Asked(<<>>) /\ Flag(<<>>, generateInMem')
    BY <2>1 DEF Asked, Flag
  <2>3. QED
    BY <1>2, <2>2 DEF Values
<1>3. CASE visits' # <<>>
  <2> DEFINE w == visits'
  <2>1. PICK u \in Activation :
          /\ w # <<>> /\ w[Len(w)] = [u EXCEPT !.at = "has"] /\ Under(u, Top)
          /\ Asked(w) /\ (Top.mem <=> u.wants.place)
          /\ \A i \in 1 .. Len(w) : Kept(w[i])
    BY <1>1, <1>3, Closed
  <2>2. /\ u.wants \in Wanted /\ w[Len(w)].wants = u.wants /\ w[Len(w)].op = u.op
        /\ w[Len(w)].at = "has" /\ Top.op \notin StatementOps
    BY <2>1 DEF Activation, Under
  <2>3. CASE u.wants = Anything
    BY <2>1, <2>2, <2>3 DEF Values, Flag, Suits
  <2>4. CASE u.wants # Anything
    <3>1. Top.gives # Anything /\ Top.op # "new"
      BY <2>1, <2>2, <2>4, FittingAnything DEF Under
    <3>2. LLVM(Top.gives) = LLVM(u.wants)
      <4>1. Top.gives \in Wanted
        BY TypingTop DEF Activation
      <4>2. QED
        BY <2>1, <2>2, <2>4, <4>1, FittingType DEF Under
    <3>3. Suits(u, result')
      <4>1. result' = InMemory(LLVM(u.wants), u.wants.place)
        BY <2>1, <2>2, <3>1, <3>2 DEF InMemory
      <4>2. QED
        BY <4>1 DEF Suits, IsPlace, InMemory
    <3>4. QED
      BY <2>1, <2>2, <3>3 DEF Values, Flag, Suits
  <2>5. QED
    BY <2>3, <2>4
<1>4. QED
  BY <1>2, <1>3

-----------------------------------------------------------------------------
(* An expression comes next.                                               *)

LEMMA HereTop ==
  ASSUME Typing, NEW w \in Wanted, Here(w)
  PROVE  /\ status = "running" /\ visits # <<>> /\ Top.at = "waits"
         /\ Top \in Activation /\ Formed(Top) /\ Top.wants \in Wanted
         /\ Fitting(Top.wants, w)
         /\ Top.wants # Anything => LLVM(Top.wants) = LLVM(w) /\ Top.wants.base = w.base
                                    /\ Top.wants.ref = w.ref
<1>1. /\ status = "running" /\ visits # <<>> /\ Top.at = "waits"
      /\ Fitting(Top.wants, w)
  BY DEF Here, Fitting
<1>2. Top \in Activation /\ Formed(Top) /\ Top.wants \in Wanted
  BY <1>1, TypingTop DEF Activation
<1>3. QED
  BY <1>1, <1>2, FittingType

\* A value where one is asked for, an address where that is.
LEMMA HereAsked ==
  ASSUME Typing, Values, NEW w \in Wanted, Here(w)
  PROVE  /\ generateInMem <=> Top.wants.place
         /\ generateInMem => w.place /\ Top.wants # Anything
         /\ \A r : r = InMemory(LLVM(w), generateInMem) => Suits(Top, r)
<1>1. generateInMem <=> Top.wants.place
  BY HereTop, TypingTop DEF Values, Flag
<1>2. Top.wants.place => Top.wants # Anything
  BY DEF Anything, Value
<1>3. generateInMem => w.place
  BY <1>1, <1>2, HereTop DEF Fitting
<1>4. ASSUME NEW r, r = InMemory(LLVM(w), generateInMem), Top.wants # Anything
      PROVE  Suits(Top, r)
  BY <1>1, <1>4, HereTop DEF Suits, IsPlace, InMemory
<1>5. ASSUME NEW r, Top.wants = Anything
      PROVE  Suits(Top, r)
  BY <1>5 DEF Suits
<1>6. QED
  BY <1>1, <1>2, <1>3, <1>4, <1>5

\* A handler that starts has the form it should, if that is right for what it waits for.
LEMMA WaitingType ==
  ASSUME Typing, NEW op \in Handlers, NEW wants \in Wanted, NEW needs \in Wanted, NEW gives \in Wanted
  PROVE  LET a == Waiting(op, wants, needs, gives)
         IN  /\ a \in Activation /\ a.op = op /\ a.at = "waits" /\ a.step = 1
             /\ a.wants = wants /\ a.needs = needs /\ a.gives = gives
             /\ a.mem = generateInMem /\ Kept(a)
BY LLVMTypes DEF Typing, TypeOK, Waiting, Activation, Kept

\* An expression's handler starts below the one on top.
LEMMA OpenTyping ==
  ASSUME Typing, NEW w \in Wanted, Here(w),
         NEW op \in Handlers \ StatementOps,
         NEW wants \in Wanted, NEW needs \in Wanted, NEW gives \in Wanted,
         Plain(gives) = Plain(w), w.place => gives.place,
         op = "new" /\ ~ ConstructorArgs => Top.wants = Anything,
         Formed(Waiting(op, wants, needs, gives)),
         NEW mem \in BOOLEAN, Nest(Waiting(op, wants, needs, gives), mem),
         result' \in LLVMType, UNCHANGED <<status, symbols>>, emitted' = {}
  PROVE  Typing'
<1> DEFINE a == Waiting(op, wants, needs, gives)
<1>1. /\ a \in Activation /\ a.op = op /\ a.at = "waits" /\ a.gives = gives
  BY WaitingType
<1> HIDE DEF a
<1>2. Fitting(Top.wants, gives)
  BY HereTop DEF Fitting
<1>3. Under(Top, a) /\ visits # <<>> /\ status = "running"
  BY <1>1, <1>2, HereTop DEF Under
<1>4. visits' = Append(visits, a) /\ generateInMem' = mem
  BY DEF Nest, a
<1>5. Formed(a)
  BY DEF a
<1>6. QED
  BY <1>1, <1>3, <1>4, <1>5, NestTyping

LEMMA OpenValues ==
  ASSUME Typing, Values, NEW w \in Wanted, Here(w),
         NEW op \in Handlers \ StatementOps,
         NEW wants \in Wanted, NEW needs \in Wanted, NEW gives \in Wanted,
         Plain(gives) = Plain(w), w.place => gives.place,
         op = "new" /\ ~ ConstructorArgs => Top.wants = Anything,
         Formed(Waiting(op, wants, needs, gives)),
         Nest(Waiting(op, wants, needs, gives), wants.place),
         UNCHANGED status, emitted' = {}
  PROVE  Values' /\ InstructionsTyped'
<1> DEFINE a == Waiting(op, wants, needs, gives)
<1>1. /\ a \in Activation /\ a.op = op /\ a.at = "waits" /\ a.gives = gives
      /\ a.wants = wants /\ a.mem = generateInMem /\ Kept(a)
  BY WaitingType
<1>2. visits' = Append(visits, a) /\ generateInMem' = wants.place
  BY DEF Nest
<1>3. Formed(a)
  OBVIOUS
<1> HIDE DEF a
<1>4. Fitting(Top.wants, gives)
  BY HereTop DEF Fitting
<1>5. Under(Top, a) /\ visits # <<>>
  BY <1>1, <1>4, HereTop DEF Under
<1>6. Values'
  BY <1>1, <1>2, <1>3, <1>5, NestValues
<1>7. QED
  BY <1>6 DEF InstructionsTyped

-----------------------------------------------------------------------------
(* Constants and variables.                                                *)

LEMMA ConstExprTyping == ASSUME Typing, ConstExpr PROVE Typing'
<1>1. LLVM(Number) \in LLVMType /\ LLVM(Number) # Void /\ Number \in Wanted
  BY LLVMTypes, WantedTypes DEF Number, Value, Anything
<1>2. InMemory(LLVM(Number), generateInMem) \in LLVMType \ {Void}
  BY <1>1, LLVMTypes DEF InMemory
<1>3. Spill(LLVM(Number), generateInMem) \subseteq Operand
  BY <1>1, LLVMTypes DEF Spill, Store, Operand
<1>4. visits # <<>> /\ status = "running" /\ generateInMem \in BOOLEAN
  BY <1>1, HereTop DEF ConstExpr, Typing, TypeOK
<1>5. QED
  BY <1>2, <1>3, <1>4, LeafTyping DEF ConstExpr

LEMMA SpillTyped ==
  ASSUME NEW t, NEW m
  PROVE  \A o \in Spill(t, m) : o.has = o.needs
BY DEF Spill, Store

LEMMA ConstExprValues == ASSUME Typing, Values, ConstExpr PROVE Values' /\ InstructionsTyped'
<1>1. Number \in Wanted /\ Here(Number)
  BY WantedTypes DEF ConstExpr
<1>2. Suits(Top, result') /\ (generateInMem' => Top.wants.place) /\ visits # <<>>
  BY <1>1, HereAsked, HereTop DEF ConstExpr
<1>3. QED
  BY <1>2, LeafValues, SpillTyped DEF ConstExpr, InstructionsTyped

LEMMA ConstStrTyping == ASSUME Typing, ConstStr PROVE Typing'
<1>1. /\ Value("string") \in Wanted /\ Here(Value("string"))
      /\ LLVM(Value("string")) \in LLVMType \ {Void}
  BY LLVMTypes, WantedTypes DEF ConstStr, Value, Anything
<1>2. visits # <<>> /\ status = "running" /\ generateInMem \in BOOLEAN
  BY <1>1, HereTop DEF Typing, TypeOK
<1>3. QED
  BY <1>1, <1>2, LeafTyping DEF ConstStr

LEMMA ConstStrValues == ASSUME Typing, Values, ConstStr PROVE Values' /\ InstructionsTyped'
<1>1. Value("string") \in Wanted /\ Here(Value("string")) /\ ~ Value("string").place
  BY WantedTypes DEF ConstStr, Value
<1>2. ~ generateInMem /\ visits # <<>>
  BY <1>1, HereAsked, HereTop
<1>3. Suits(Top, result') /\ ~ generateInMem'
  BY <1>1, <1>2, HereAsked DEF ConstStr, InMemory
<1>4. QED
  BY <1>2, <1>3, LeafValues DEF ConstStr, InstructionsTyped

\* What a declared name is, and where it is.
LEMMA SymbolTypes ==
  ASSUME Typing, NEW n \in Names, symbols[n] # Undeclared
  PROVE  LET s == symbols[n]
         IN  /\ s \in [base : Types, kind : RefKinds \cup {"plain"}]
             /\ IsRef(s) => s.base \in RefTypes
             /\ Slot(s) \in LLVMType /\ Slot(s).base = s.base /\ Slot(s).depth >= 1
             /\ Slot(s) # Void /\ Deref(Slot(s)) # Void /\ Deref(Deref(Slot(s))) # Void
<1>1. symbols[n] \in [base : Types, kind : RefKinds \cup {"plain"}]
  BY DEF Typing, TypeOK, Symbols
<1>2. IsRef(symbols[n]) => symbols[n].base \in RefTypes
  BY DEF Typing, ReferencesTyped
<1>3. /\ Slot(symbols[n]) \in LLVMType /\ Slot(symbols[n]).base = symbols[n].base
      /\ Slot(symbols[n]).depth >= 1 /\ Slot(symbols[n]) # Void
  BY <1>1, TypesOfTypes DEF Slot, LLVM, Value, LLVMType, Void
<1>4. QED
  BY <1>1, <1>2, <1>3, LLVMTypes

LEMMA LoadType ==
  ASSUME NEW p \in LLVMType, p # Void
  PROVE  /\ Load(p) \in Operand
         /\ p.depth >= 1 => Load(p).has = Load(p).needs
<1>1. Deref(p) \in LLVMType /\ Ptr(Deref(p)) \in LLVMType
  BY LLVMTypes
<1>2. p.depth >= 1 => Ptr(Deref(p)) = p
  <2>1. p \in [base : Types, depth : Nat]
    BY DEF LLVMType
  <2>2. p.depth >= 1 => p.depth - 1 + 1 = p.depth /\ p.depth # 0
    BY <2>1
  <2>3. QED
    BY <2>1, <2>2 DEF Ptr, Deref
<1>3. QED
  BY <1>1, <1>2 DEF Load, Operand

\* The name that stands here.
LEMMA Named ==
  ASSUME Typing, NEW n \in Names, MayName(symbols[n])
  PROVE  LET s == symbols[n]
         IN  /\ s # Undeclared /\ s.base \in Types
             /\ \E w \in {Place(s.base), RefItself(s.base)} : w \in Wanted /\ Here(w)
             /\ Here(Place(s.base)) \/ (Here(RefItself(s.base)) /\ Top.wants.place)
<1>1. symbols[n] # Undeclared
  BY DEF MayName
<1>2. symbols[n].base \in Types
  BY <1>1, SymbolTypes
<1>3. QED
  BY <1>1, <1>2, WantedTypes DEF MayName

\* Values are no places, and no mistake makes them places.
LEMMA ValuePlace ==
  /\ ~ Anything.place /\ ~ Number.place
  /\ \A t \in Types : ~ Value(t).place /\ ~ ToRef(t).place /\ Place(t).place /\ RefItself(t).place
  /\ \A w \in Wanted : \A x \in Gives(w) : x.place = w.place
  /\ \A t \in Types : \A x \in Gives(Value(t)) \cup Gives(ToRef(t)) : ~ x.place
<1>1. /\ ~ Anything.place /\ ~ Number.place
      /\ \A t \in Types : ~ Value(t).place /\ ~ ToRef(t).place /\ Place(t).place /\ RefItself(t).place
  BY DEF Anything, Number, Value, ToRef, Place, RefItself
<1>2. \A w \in Wanted : \A x \in Gives(w) : x.place = w.place
  BY DEF Gives, Wanted
<1>3. \A t \in Types : Value(t) \in Wanted /\ ToRef(t) \in Wanted
  BY WantedTypes
<1>4. \A t \in Types : \A x \in Gives(Value(t)) \cup Gives(ToRef(t)) : ~ x.place
  BY <1>1, <1>2, <1>3
<1>5. QED
  BY <1>1, <1>2, <1>4

\* Only these handlers ask for a place.
LEMMA WantedPlaces ==
  ASSUME NEW a \in Activation, Formed(a), a.wants.place
  PROVE  a.op \in {"assign", "ref", "delete", "compound"}
<1>1. a.op \notin StatementOps
  <2>1. a.op # "expr"
    BY ValuePlace DEF Formed, FormedStatement
  <2>2. a.op \notin {"return", "condition"}
    BY ValuePlace DEF Formed, FormedStatement
  <2>3. a.op # "decl"
    BY ValuePlace DEF Formed, FormedStatement
  <2>4. QED
    BY <2>1, <2>2, <2>3 DEF StatementOps
<1>2. a.op # "prop"
  BY ValuePlace, WantedTypes, TypesOfTypes DEF Formed, FormedOperand
<1>3. a.op \notin {"call", "method", "new"}
  <2>1. \A p \in Parameters : ~ p.place
    BY ValuePlace, TypesOfTypes DEF Parameters
  <2>2. \A p \in Parameters : p \in Wanted
    BY WantedTypes
  <2>3. \A p \in Parameters : \A w \in GivesArgument(p) : ~ w.place
    BY <2>1, <2>2, ValuePlace DEF GivesArgument
  <2>4. Value("object") \in Wanted /\ ~ Value("object").place
    BY ValuePlace, WantedTypes, TypesOfTypes
  <2>5. QED
    BY <2>3, <2>4, ValuePlace DEF Formed, FormedCall
<1>4. a.op # "binary"
  BY ValuePlace DEF Formed, FormedOperator
<1>5. QED
  BY <1>1, <1>2, <1>3, <1>4 DEF Activation, Handlers, StatementOps

LEMMA ExprVarTyping ==
  ASSUME Typing, NEW n \in Names, ExprVar(n)
  PROVE  Typing'
<1> DEFINE slot == Slot(symbols[n])
           follow == IsRef(symbols[n]) /\ ~ generateInMem
           place == IF follow THEN Deref(slot) ELSE slot
<1>1. visits # <<>> /\ status = "running" /\ symbols[n] # Undeclared
  BY Named, HereTop DEF ExprVar
<1>2. slot \in LLVMType \ {Void} /\ place \in LLVMType \ {Void}
  BY <1>1, SymbolTypes, LLVMTypes
<1>3. /\ result' = IF generateInMem THEN place ELSE Deref(place)
      /\ emitted' = (IF follow THEN {Load(slot)} ELSE {})
                     \cup (IF generateInMem THEN {} ELSE {Load(place)})
      /\ Return(visits) /\ UNCHANGED <<status, generateInMem, symbols>>
  BY DEF ExprVar
<1> HIDE DEF slot, place
<1>4. result' \in LLVMType \ {Void} /\ emitted' \subseteq Operand
  BY <1>2, <1>3, LLVMTypes, LoadType
<1>5. generateInMem' \in BOOLEAN
  BY <1>3 DEF Typing, TypeOK
<1>6. QED
  BY <1>1, <1>3, <1>4, <1>5, LeafTyping

\* A reference that is only put to the uses that are supported, to a number.
LEMMA ExprVarValues ==
  ASSUME Typing, Values, Careful, NEW n \in Names, ExprVar(n)
  PROVE  Values' /\ InstructionsTyped'
<1> DEFINE s == symbols[n]
           slot == Slot(s)
           follow == IsRef(s) /\ ~ generateInMem
           place == IF follow THEN Deref(slot) ELSE slot
<1>1. /\ visits # <<>> /\ s # Undeclared /\ Top.wants \in Wanted
      /\ generateInMem <=> Top.wants.place
      /\ Here(Place(s.base)) \/ (Here(RefItself(s.base)) /\ Top.wants.place)
  BY Named, HereTop, HereAsked DEF ExprVar
<1>2. /\ s \in [base : Types, kind : RefKinds \cup {"plain"}]
      /\ IsRef(s) => s.base = "int"
      /\ slot \in LLVMType \ {Void} /\ slot.depth >= 1
  BY <1>1, SymbolTypes DEF Careful
<1>3. /\ result' = IF generateInMem THEN place ELSE Deref(place)
      /\ emitted' = (IF follow THEN {Load(slot)} ELSE {})
                     \cup (IF generateInMem THEN {} ELSE {Load(place)})
      /\ Return(visits) /\ UNCHANGED <<status, generateInMem>>
  BY DEF ExprVar
<1>4. IF IsRef(s) THEN <<s.kind, Use>> \in SoundUses ELSE Use # "rebind"
  BY DEF ExprVar, MayName, Careful
<1>5. /\ Top.wants # Anything /\ ~ Top.wants.ref => LLVM(Top.wants) = LLVM(Value(s.base))
                                                 /\ Top.wants.base = s.base
      /\ Top.wants.place /\ Top.wants.ref => LLVM(Top.wants) = LLVM(ToRef(s.base))
      /\ Top.wants.ref => Top.wants.place
  <2>1. LLVM(Place(s.base)) = LLVM(Value(s.base)) /\ LLVM(RefItself(s.base)) = LLVM(ToRef(s.base))
    BY DEF LLVM, Place, Value, RefItself, ToRef
  <2>2. Place(s.base) \in Wanted /\ RefItself(s.base) \in Wanted
    BY <1>2, WantedTypes
  <2>3. ~ Place(s.base).ref /\ RefItself(s.base).ref /\ ~ Anything.ref
        /\ Place(s.base).base = s.base /\ RefItself(s.base).base = s.base
    BY DEF Place, RefItself, Anything, Value
  <2>4. QED
    BY <1>1, <2>1, <2>2, <2>3, HereTop
<1>6. CASE ~ Top.wants.place
  <2>1. Use = "read"
    BY <1>6 DEF Use
  <2>2. IsRef(s) => s.kind = "variable" /\ s.base = "int"
    BY <1>2, <1>4, <2>1 DEF SoundUses
  <2>3. /\ place \in LLVMType \ {Void} /\ place.depth >= 1
        /\ Deref(place) = LLVM(Value(s.base))
    BY <1>1, <1>2, <1>6, <2>2 DEF Slot, LLVM, Value, Deref, LLVMType, Void, IsRef, RefKinds
  <2>4. Suits(Top, result')
    BY <1>1, <1>3, <1>5, <1>6, <2>3 DEF Suits
  <2>5. \A o \in emitted' : o.has = o.needs
    BY <1>2, <1>3, <2>3, LoadType
  <2>6. QED
    BY <1>1, <1>3, <1>6, <2>4, <2>5, LeafValues DEF InstructionsTyped
<1>7. CASE Top.wants.place
  <2>1. result' = slot /\ emitted' = {}
    BY <1>1, <1>3, <1>7
  <2>2. CASE Top.wants.ref
    <3>1. Use = "rebind"
      BY <1>7, <2>2 DEF Use
    <3>2. s.kind = "variable" /\ s.base = "int"
      BY <1>2, <1>4, <3>1 DEF SoundUses
    <3>3. slot = Ptr(LLVM(ToRef(s.base)))
      BY <3>2 DEF Slot, LLVM, Value, ToRef, Ptr
    <3>4. Suits(Top, slot)
      BY <1>5, <1>7, <2>2, <3>3 DEF Suits, IsPlace
    <3>5. QED
      BY <1>1, <1>3, <1>7, <2>1, <3>4, LeafValues DEF InstructionsTyped
  <2>3. CASE ~ Top.wants.ref
    <3>1. Top.wants # Anything
      BY <1>7 DEF Anything, Value
    <3>2. CASE s.kind # "variable"
      <4>1. slot = Ptr(LLVM(Top.wants))
        BY <1>2, <1>5, <2>3, <3>1, <3>2 DEF Slot, LLVM, Value, Ptr
      <4>2. Suits(Top, slot)
        BY <1>7, <4>1 DEF Suits, IsPlace
      <4>3. QED
        BY <1>1, <1>3, <1>7, <2>1, <4>2, LeafValues DEF InstructionsTyped
    <3>3. CASE s.kind = "variable"
      <4>1. Use = "assign" /\ s.base = "int"
        BY <1>2, <1>4, <1>7, <2>3, <3>3 DEF SoundUses, IsRef, RefKinds, Use
      <4>2. Top.op = "assign"
        <5>1. Formed(Top) /\ Top \in Activation
          BY <1>1, TypingTop
        <5>2. Top.op \in {"assign", "ref", "delete", "compound"}
          BY <5>1, <1>7, WantedPlaces
        <5>3. QED
          BY <4>1, <5>2, <1>7, <2>3 DEF Use
      <4>3. Top.wants = Place("int")
        <5>1. Top.wants.base = "int" /\ Top.wants.ref = FALSE /\ Top.wants.place = TRUE
          <6>1. Top.wants.base = "int"
            BY <1>5, <2>3, <3>1, <4>1
          <6>2. Top.wants.ref \in BOOLEAN /\ Top.wants.place \in BOOLEAN
            BY <1>1 DEF Wanted
          <6>3. QED
            BY <6>1, <6>2, <1>7, <2>3
        <5>2. QED
          BY <1>1, <5>1 DEF Wanted, Place
      <4>4. slot = Ptr(Ptr(LLVM(Top.wants)))
        <5>1. LLVM(Top.wants) = [base |-> "int", depth |-> 0]
          BY <4>3 DEF LLVM, Place
        <5>2. slot = [base |-> "int", depth |-> 2]
          <6>1. LLVM(Value("int")) = [base |-> "int", depth |-> 0]
            BY DEF LLVM, Value
          <6>2. LLVM(Value("int")).depth + 2 = 2
            BY <6>1
          <6>3. QED
            BY <6>2, <3>3, <4>1 DEF Slot
        <5>3. Ptr(Ptr([base |-> "int", depth |-> 0])) = [base |-> "int", depth |-> 2]
          <6>1. Ptr([base |-> "int", depth |-> 0]) = [base |-> "int", depth |-> 1]
            BY DEF Ptr
          <6>2. Ptr([base |-> "int", depth |-> 1]) = [base |-> "int", depth |-> 2]
            BY DEF Ptr
          <6>3. QED
            BY <6>1, <6>2
        <5>4. QED
          BY <5>1, <5>2, <5>3
      <4>5. Suits(Top, slot)
        BY <1>7, <4>2, <4>3, <4>4 DEF Suits, Assigned
      <4>6. QED
        BY <1>1, <1>3, <1>7, <2>1, <4>5, LeafValues DEF InstructionsTyped
    <3>4. QED
      BY <3>2, <3>3
  <2>4. QED
    BY <2>2, <2>3
<1>8. QED
  BY <1>6, <1>7

-----------------------------------------------------------------------------
(* Handlers that start.                                                    *)

\* Both of the above, for a handler that sets generateInMem to what it wants.
LEMMA Opened ==
  ASSUME Typing, NEW w \in Wanted, Here(w),
         NEW op \in Handlers \ StatementOps,
         NEW wants \in Wanted, NEW needs \in Wanted, NEW gives \in Wanted,
         Plain(gives) = Plain(w), w.place => gives.place,
         op = "new" /\ ~ ConstructorArgs => Top.wants = Anything,
         Formed(Waiting(op, wants, needs, gives)),
         NEW mem \in BOOLEAN, mem = wants.place,
         Nest(Waiting(op, wants, needs, gives), mem),
         result' \in LLVMType, UNCHANGED <<status, symbols>>, emitted' = {}
  PROVE  Typing' /\ (Values => Values' /\ InstructionsTyped')
BY OpenTyping, OpenValues

LEMMA ObjectGiven ==
  /\ Value("object") \in Wanted /\ Place("object") \in Wanted
  /\ \A given \in Gives(Value("object")) : given \in Wanted /\ given.place = FALSE
  /\ \A given \in Gives(Place("object")) : given \in Wanted /\ given.place = TRUE
<1>1. /\ Value("object") \in Wanted /\ Place("object") \in Wanted
      /\ Value("object").place = FALSE /\ Place("object").place = TRUE
  BY WantedTypes, TypesOfTypes DEF Value, Place
<1>2. QED
  BY <1>1, WantedTypes, ValuePlace

LEMMA OpenPropKept ==
  ASSUME Typing, NEW t \in Types, NEW given \in Gives(Value("object")), OpenProp(t, given)
  PROVE  Typing' /\ (Values => Values' /\ InstructionsTyped')
<1> DEFINE a == Waiting("prop", given, Value("object"), Place(t))
<1>1. /\ Value("object") \in Wanted /\ Place(t) \in Wanted /\ given \in Wanted /\ given.place = FALSE
  BY WantedTypes, ObjectGiven
<1>2. /\ a.op = "prop" /\ a.wants = given /\ a.needs = Value("object") /\ a.gives = Place(t)
  BY DEF Waiting
<1>3. Formed(a)
  BY <1>2 DEF Formed, FormedStatement, FormedOperand, FormedCall, FormedOperator
<1>4. "prop" \in Handlers \ StatementOps /\ result' \in LLVMType
  BY DEF Handlers, StatementOps, OpenProp, Typing, TypeOK
<1> HIDE DEF a
<1>5. QED
  BY <1>1, <1>3, <1>4, Opened DEF OpenProp, a

LEMMA OpenRefKept ==
  ASSUME Typing, NEW t \in Types, OpenRef(t)
  PROVE  Typing' /\ (Values => Values' /\ InstructionsTyped')
<1> DEFINE a == Waiting("ref", Place(t), Place(t), ToRef(t))
<1>1. /\ ToRef(t) \in Wanted /\ Place(t) \in Wanted /\ Place(t).place = TRUE
  BY WantedTypes DEF Place
<1>2. /\ a.op = "ref" /\ a.wants = Place(t) /\ a.needs = Place(t) /\ a.gives = ToRef(t)
  BY DEF Waiting
<1>3. Formed(a)
  BY <1>2 DEF Formed, FormedStatement, FormedOperand, FormedCall, FormedOperator
<1>4. "ref" \in Handlers \ StatementOps /\ result' \in LLVMType
  BY DEF Handlers, StatementOps, OpenRef, Typing, TypeOK
<1> HIDE DEF a
<1>5. QED
  BY <1>1, <1>3, <1>4, Opened DEF OpenRef, a

LEMMA OpenDelKept ==
  ASSUME Typing, NEW given \in Gives(Place("object")), OpenDel(given)
  PROVE  Typing' /\ (Values => Values' /\ InstructionsTyped')
<1> DEFINE a == Waiting("delete", given, Place("object"), Anything)
<1>1. /\ Place("object") \in Wanted /\ Anything \in Wanted /\ given \in Wanted /\ given.place = TRUE
  BY WantedTypes, ObjectGiven
<1>2. /\ a.op = "delete" /\ a.wants = given /\ a.needs = Place("object") /\ a.gives = Anything
  BY DEF Waiting
<1>3. Formed(a)
  BY <1>2 DEF Formed, FormedStatement, FormedOperand, FormedCall, FormedOperator
<1>4. "delete" \in Handlers \ StatementOps /\ result' \in LLVMType
  BY DEF Handlers, StatementOps, OpenDel, Typing, TypeOK
<1> HIDE DEF a
<1>5. QED
  BY <1>1, <1>3, <1>4, Opened DEF OpenDel, a

\* What is given for a parameter is a value.
LEMMA ArgumentValue ==
  ASSUME NEW p \in Parameters, NEW given \in GivesArgument(p)
  PROVE  p \in Wanted /\ p.place = FALSE /\ given \in Wanted /\ given.place = FALSE
<1>1. p \in Wanted /\ given \in Wanted
  BY WantedTypes
<1>2. ~ p.place
  BY ValuePlace, TypesOfTypes DEF Parameters
<1>3. ~ given.place
  BY <1>1, <1>2, ValuePlace DEF GivesArgument
<1>4. QED
  BY <1>1, <1>2, <1>3 DEF Wanted

LEMMA OpenCallKept ==
  ASSUME Typing, NEW p \in Parameters, NEW given \in GivesArgument(p), NEW gives \in Returns,
         OpenCall(p, given, gives)
  PROVE  Typing' /\ (Values => Values' /\ InstructionsTyped')
<1> DEFINE a == Waiting("call", given, p, gives)
<1>1. /\ p \in Wanted /\ gives \in Wanted /\ given \in Wanted /\ given.place = FALSE
  BY WantedTypes, ArgumentValue
<1>2. /\ a.op = "call" /\ a.wants = given /\ a.needs = p /\ a.gives = gives
  BY DEF Waiting
<1>3. Formed(a)
  BY <1>2 DEF Formed, FormedStatement, FormedOperand, FormedCall, FormedOperator
<1>4. "call" \in Handlers \ StatementOps /\ result' \in LLVMType
  BY DEF Handlers, StatementOps, OpenCall, Typing, TypeOK
<1> HIDE DEF a
<1>5. QED
  BY <1>1, <1>3, <1>4, Opened DEF OpenCall, a

LEMMA OpenMethodKept ==
  ASSUME Typing, NEW given \in Gives(Value("object")), NEW gives \in Returns,
         OpenMethod(given, gives)
  PROVE  Typing' /\ (Values => Values' /\ InstructionsTyped')
<1> DEFINE a == Waiting("method", given, Value("object"), gives)
<1>1. /\ Value("object") \in Wanted /\ gives \in Wanted /\ given \in Wanted /\ given.place = FALSE
  BY WantedTypes, ObjectGiven
<1>2. /\ a.op = "method" /\ a.step = 1 /\ a.wants = given /\ a.needs = Value("object")
      /\ a.gives = gives
  BY DEF Waiting
<1>3. Formed(a)
  BY <1>2 DEF Formed, FormedStatement, FormedOperand, FormedCall, FormedOperator
<1>4. "method" \in Handlers \ StatementOps /\ result' \in LLVMType
  BY DEF Handlers, StatementOps, OpenMethod, Typing, TypeOK
<1> HIDE DEF a
<1>5. QED
  BY <1>1, <1>3, <1>4, Opened DEF OpenMethod, a

LEMMA ObjectType == LLVM(Value("object")) \in LLVMType /\ LLVM(Value("object")) # Void
BY LLVMTypes, WantedTypes, TypesOfTypes DEF Value, Anything

LEMMA OpenNewKept ==
  ASSUME Typing, NEW p \in Parameters, NEW given \in GivesArgument(p), OpenNew(p, given)
  PROVE  Typing' /\ (Values => Values' /\ InstructionsTyped')
<1> DEFINE a == Waiting("new", given, p, Value("object"))
<1>1. /\ p \in Wanted /\ Value("object") \in Wanted /\ given \in Wanted /\ given.place = FALSE
  BY WantedTypes, ArgumentValue, TypesOfTypes
<1>2. /\ a.op = "new" /\ a.wants = given /\ a.needs = p /\ a.gives = Value("object")
  BY DEF Waiting
<1>3. Formed(a)
  BY <1>2 DEF Formed, FormedStatement, FormedOperand, FormedCall, FormedOperator
<1>4. "new" \in Handlers \ StatementOps /\ result' \in LLVMType
  BY ObjectType DEF Handlers, StatementOps, OpenNew
<1> HIDE DEF a
<1>5. QED
  BY <1>1, <1>3, <1>4, Opened DEF OpenNew, a

LEMMA OpenBinaryKept ==
  ASSUME Typing, OpenBinary
  PROVE  Typing' /\ (Values => Values' /\ InstructionsTyped')
<1> DEFINE a == Waiting("binary", Number, Number, Number)
<1>1. /\ Number \in Wanted /\ Number.place = FALSE
  BY WantedTypes DEF Number, Value
<1>2. /\ a.op = "binary" /\ a.step = 1 /\ a.wants = Number /\ a.needs = Number
      /\ a.gives = Number
  BY DEF Waiting
<1>3. Formed(a)
  BY <1>2 DEF Formed, FormedStatement, FormedOperand, FormedCall, FormedOperator
<1>4. "binary" \in Handlers \ StatementOps /\ result' \in LLVMType
  BY DEF Handlers, StatementOps, OpenBinary, Typing, TypeOK
<1> HIDE DEF a
<1>5. QED
  BY <1>1, <1>3, <1>4, Opened DEF OpenBinary, a

LEMMA OpenCompoundKept ==
  ASSUME Typing, OpenCompound
  PROVE  Typing' /\ (Values => Values' /\ InstructionsTyped')
<1> DEFINE a == Waiting("compound", Place("int"), Place("int"), Place("int"))
<1>1. /\ Place("int") \in Wanted /\ Place("int").place = TRUE
  BY WantedTypes, TypesOfTypes DEF Place
<1>2. /\ a.op = "compound" /\ a.step = 1 /\ a.wants = Place("int") /\ a.needs = Place("int")
      /\ a.gives = Place("int")
  BY DEF Waiting
<1>3. Formed(a)
  BY <1>2 DEF Formed, FormedStatement, FormedOperand, FormedCall, FormedOperator
<1>4. "compound" \in Handlers \ StatementOps /\ result' \in LLVMType
  BY DEF Handlers, StatementOps, OpenCompound, Typing, TypeOK
<1> HIDE DEF a
<1>5. QED
  BY <1>1, <1>3, <1>4, Opened DEF OpenCompound, a

LEMMA OpenAssignKept ==
  ASSUME Typing, NEW to,
         (\E t \in Types : to = Place(t)) \/ (\E t \in RefTypes : to = RefItself(t)),
         OpenAssign(to)
  PROVE  Typing' /\ (Values => Values' /\ InstructionsTyped')
<1> DEFINE a == Waiting("assign", to, to, to)
           w == IF to.ref THEN Plain(to) ELSE to
<1>1. to \in Wanted /\ to.place = TRUE
  <2>1. to \in Wanted
    BY WantedTypes, TypesOfTypes
  <2>2. to.place = TRUE
    BY DEF Place, RefItself
  <2>3. QED
    BY <2>1, <2>2
<1>2. /\ a.op = "assign" /\ a.step = 1 /\ a.wants = to /\ a.needs = to /\ a.gives = to
  BY DEF Waiting
<1>3. Formed(a)
  BY <1>2 DEF Formed, FormedStatement, FormedOperand, FormedCall, FormedOperator
<1>4. "assign" \in Handlers \ StatementOps /\ result' \in LLVMType
  BY DEF Handlers, StatementOps, OpenAssign, Typing, TypeOK
<1>5. w \in Wanted /\ Plain(to) = Plain(w)
  BY <1>1 DEF Plain, Wanted
<1>6. Here(w) /\ Nest(a, TRUE) /\ UNCHANGED <<status, symbols>> /\ emitted' = {}
  BY DEF OpenAssign
<1> HIDE DEF a, w
<1>7. QED
  BY <1>1, <1>3, <1>4, <1>5, <1>6, Opened DEF a

-----------------------------------------------------------------------------
(* Handlers that go on, and what they have got.                            *)

LEMMA GotTyping ==
  ASSUME Typing, NEW op, Got(op)
  PROVE  /\ visits # <<>> /\ status = "running" /\ Top.op = op /\ Top.at = "has"
         /\ Top \in Activation /\ Formed(Top)
         /\ Top.wants \in Wanted /\ Top.gives \in Wanted /\ Top.mem \in BOOLEAN
         /\ result \in LLVMType /\ generateInMem \in BOOLEAN
         /\ Top.wants # Anything => result # Void
<1>1. visits # <<>> /\ status = "running" /\ Top.op = op /\ Top.at = "has"
  BY DEF Got
<1>2. /\ Top \in Activation /\ Formed(Top)
      /\ Top.wants \in Wanted /\ Top.gives \in Wanted /\ Top.mem \in BOOLEAN
  BY <1>1, TypingTop DEF Activation
<1>3. result \in LLVMType /\ generateInMem \in BOOLEAN
  BY DEF Typing, TypeOK
<1>4. Top.wants # Anything => result # Void
  BY <1>1 DEF Typing, HasValue, Top
<1>5. QED
  BY <1>1, <1>2, <1>3, <1>4

LEMMA GotValues ==
  ASSUME Typing, Values, NEW op, Got(op)
  PROVE  /\ generateInMem => Top.wants.place
         /\ Suits(Top, result)
         /\ Kept(Top)
         /\ Top.mem => Top.op \notin StatementOps /\ Top.gives.place
<1>1. visits # <<>> /\ status = "running" /\ Top.at = "has"
  BY DEF Got
<1>2. Len(visits) \in 1 .. Len(visits) /\ visits \in Seq(Activation) /\ Shape(visits)
  BY <1>1, TypingTop
<1>3. /\ generateInMem => Top.wants.place
      /\ Suits(Top, result)
      /\ Kept(Top)
  BY <1>1, <1>2 DEF Values, Flag, Top
<1>4. ASSUME Top.mem
      PROVE  Top.op \notin StatementOps /\ Top.gives.place
  <2> DEFINE w == SubSeq(visits, 1, Len(visits) - 1)
  <2>1. Asked(visits)
    BY <1>1 DEF Values
  <2>2. /\ w \in Seq(Activation)
        /\ w = <<>> <=> Top.op \in StatementOps
        /\ w # <<>> => Under(w[Len(w)], Top) /\ (Top.mem <=> w[Len(w)].wants.place)
        /\ w = <<>> => ~ Top.mem
    BY <1>1, <1>2, <2>1, Dropped DEF Top
  <2> HIDE DEF w
  <2>3. w # <<>> /\ Under(w[Len(w)], Top) /\ w[Len(w)].wants.place
    BY <1>4, <2>2
  <2>4. QED
    BY <2>2, <2>3, ValuePlace DEF Under, Fitting
<1>5. QED
  BY <1>3, <1>4

\* What waits for a value has got it.
LEMMA GotValue ==
  ASSUME Typing, Values, NEW op, Got(op), Top.wants # Anything, ~ Top.wants.place
  PROVE  result = LLVM(Top.wants) /\ ~ generateInMem
BY GotValues DEF Suits

\* A pointer to a type, and what is loaded from it or stored there.
LEMMA Pointers ==
  ASSUME NEW r \in LLVMType, r # Void
  PROVE  /\ Ptr(r) \in LLVMType /\ Ptr(r) # Void /\ Deref(Ptr(r)) = r /\ Ptr(r).depth >= 1
         /\ Load(Ptr(r)) \in Operand /\ Load(Ptr(r)).has = Load(Ptr(r)).needs
<1>1. r \in [base : Types, depth : Nat]
  BY DEF LLVMType
<1>2. Ptr(r) \in LLVMType /\ Ptr(r) # Void
  BY LLVMTypes
<1>3. Ptr(r) = [base |-> r.base, depth |-> r.depth + 1]
  BY <1>1 DEF Ptr
<1>4. Ptr(r).depth >= 1
  BY <1>1, <1>3
<1>5. r.depth + 1 # 0 /\ r.depth + 1 - 1 = r.depth
  BY <1>1
<1>6. Deref(Ptr(r)) = r
  BY <1>1, <1>3, <1>5 DEF Deref
<1>7. QED
  BY <1>2, <1>4, <1>6, LoadType

\* The handler on top waits for another argument.
LEMMA PassKept ==
  ASSUME Typing, NEW op \in {"call", "method", "new"}, Got(op),
         NEW p \in Parameters, NEW given \in GivesArgument(p), NEW mem \in BOOLEAN,
         Pass(p, given, mem), emitted' \subseteq Operand
  PROVE  Typing' /\ (Values /\ ~ mem => Values')
<1> DEFINE b == [Top EXCEPT !.at = "waits", !.step = 2, !.wants = given, !.needs = p]
<1>1. /\ visits # <<>> /\ status = "running" /\ Top.op = op
      /\ Top \in Activation /\ Formed(Top)
  BY GotTyping
<1>2. p \in Wanted /\ given \in Wanted /\ given.place = FALSE
  BY ArgumentValue
<1>3. visits' = [visits EXCEPT ![Len(visits)] = b]
  BY DEF Pass, Top
<1>4. /\ b \in Activation /\ b.op = Top.op /\ b.gives = Top.gives /\ b.mem = Top.mem
      /\ b.at = "waits" /\ b.step = 2 /\ b.wants = given /\ b.needs = p
  BY <1>1, <1>2 DEF Activation
<1> HIDE DEF b
<1>5. Formed(b)
  BY <1>1, <1>4 DEF Formed, FormedStatement, FormedOperand, FormedCall, FormedOperator
<1>6. Kept(b)
  BY <1>1, <1>4 DEF Kept
<1>7. generateInMem' = mem /\ UNCHANGED <<status, result, symbols>>
  BY DEF Pass
<1>8. Typing'
  BY <1>1, <1>3, <1>4, <1>5, <1>7, AdvanceTyping
<1>9. Values /\ ~ mem => Values'
  BY <1>1, <1>2, <1>3, <1>4, <1>5, <1>6, <1>7, AdvanceValues
<1>10. QED
  BY <1>8, <1>9

\* The handler of an operator waits for its second operand.
LEMMA AgainKept ==
  ASSUME Typing, NEW op \in {"binary", "assign", "compound"}, Got(op), Top.step = 1,
         NEW wants \in Wanted, ~ wants.place,
         wants = IF op = "binary" THEN Number ELSE Plain(Top.wants),
         NEW mem \in BOOLEAN, Again(wants, mem), UNCHANGED <<status, result, symbols>>, emitted' = {}
  PROVE  Typing' /\ (Values /\ ~ mem => Values' /\ InstructionsTyped')
<1> DEFINE b == [Top EXCEPT !.at = "waits", !.step = 2, !.wants = wants, !.needs = wants,
                            !.held = result]
<1>1. /\ visits # <<>> /\ status = "running" /\ Top.op = op
      /\ Top \in Activation /\ Formed(Top) /\ result \in LLVMType
      /\ Top.wants # Anything => result # Void
  BY GotTyping
<1>2. visits' = [visits EXCEPT ![Len(visits)] = b]
  BY DEF Again, Top
<1>3. /\ b \in Activation /\ b.op = Top.op /\ b.gives = Top.gives /\ b.mem = Top.mem
      /\ b.at = "waits" /\ b.step = 2 /\ b.wants = wants /\ b.needs = wants /\ b.held = result
  BY <1>1 DEF Activation
<1> HIDE DEF b
<1>4. Top.wants = (IF op = "binary" THEN Number ELSE Top.gives) /\ Top.wants # Anything
  <2>1. Top.wants = IF op = "binary" THEN Number ELSE Top.gives
    BY <1>1 DEF Formed, FormedOperator
  <2>2. Number # Anything
    BY WantedTypes, TypesOfTypes DEF Number
  <2>3. op # "binary" => Top.gives # Anything
    BY <1>1, WantedTypes, TypesOfTypes DEF Formed, FormedOperator
  <2>4. QED
    BY <2>1, <2>2, <2>3
<1>5. Formed(b)
  BY <1>1, <1>3, <1>4 DEF Formed, FormedStatement, FormedOperand, FormedCall, FormedOperator
<1>6. Values => Kept(b)
  <2> SUFFICES ASSUME Values PROVE Kept(b)
    OBVIOUS
  <2>1. Suits(Top, result)
    BY GotValues
  <2>2. CASE op = "binary"
    BY <1>1, <1>3, <1>4, <2>1, <2>2, ValuePlace DEF Kept, Suits
  <2>3. CASE op # "binary"
    <3>1. Top.wants.place
      BY <1>1, <1>4, <2>3, ValuePlace, TypesOfTypes DEF Formed, FormedOperator
    <3>2. QED
      BY <1>1, <1>3, <1>4, <2>1, <2>3, <3>1 DEF Kept, Suits, Assigned
  <2>4. QED
    BY <2>2, <2>3
<1>7. generateInMem' = mem
  BY DEF Again
<1>8. Typing'
  BY <1>1, <1>2, <1>3, <1>5, <1>7, AdvanceTyping
<1>9. Values /\ ~ mem => Values'
  BY <1>1, <1>2, <1>3, <1>5, <1>6, <1>7, AdvanceValues
<1>10. QED
  BY <1>8, <1>9 DEF InstructionsTyped

LEMMA RightOperandKept ==
  ASSUME Typing, RightOperand
  PROVE  Typing' /\ (Values => Values' /\ InstructionsTyped')
<1>1. Got("binary") /\ generateInMem \in BOOLEAN
  BY GotTyping DEF RightOperand
<1>2. Number \in Wanted /\ ~ Number.place
  BY WantedTypes, ValuePlace
<1>3. Values => ~ generateInMem
  BY <1>1, <1>2, GotTyping, GotValues DEF Formed, FormedOperator
<1>4. QED
  BY <1>1, <1>2, <1>3, AgainKept DEF RightOperand

LEMMA AssignedValueKept ==
  ASSUME Typing, AssignedValue
  PROVE  Typing' /\ (Values => Values' /\ InstructionsTyped')
<1>1. PICK op \in {"assign", "compound"} : Got(op)
  BY DEF AssignedValue
<1>2. Plain(Top.wants) \in Wanted /\ ~ Plain(Top.wants).place
  <2>1. Top.wants \in Wanted
    BY <1>1, GotTyping
  <2>2. QED
    BY <2>1, WantedTypes DEF Plain, Wanted
<1>3. QED
  BY <1>1, <1>2, AgainKept DEF AssignedValue

-----------------------------------------------------------------------------
(* Arguments.                                                              *)

\* The type of an argument: the parameter's, or what is given beyond the parameters.
LEMMA PassedType ==
  ASSUME Typing, GotArgument
  PROVE  /\ Top.op \in {"call", "method", "new"} /\ Got(Top.op)
         /\ Top.needs \in Parameters /\ Top.wants \in GivesArgument(Top.needs)
         /\ Top.wants # Anything /\ ~ Top.wants.place
         /\ Passed(Top) \in Operand
<1>1. /\ Top.op \in {"call", "method", "new"} /\ Got(Top.op)
      /\ Top.op = "method" => Top.step = 2
  BY DEF GotArgument, Got
<1>2. Formed(Top) /\ result \in LLVMType
  BY <1>1, GotTyping
<1>3. Top.needs \in Parameters /\ Top.wants \in GivesArgument(Top.needs)
  BY <1>1, <1>2 DEF Formed, FormedCall
<1>4. ~ Top.wants.place
  BY <1>3, ArgumentValue
<1>5. \A t \in Types : LLVM(Value(t)) \in LLVMType /\ LLVM(ToRef(t)) \in LLVMType
  <2>1. \A t \in Types : /\ Value(t) \in Wanted /\ Value(t) # Anything /\ Value(t).base = t
                         /\ ToRef(t) \in Wanted /\ ToRef(t) # Anything /\ ToRef(t).base = t
    BY WantedTypes DEF Value, ToRef
  <2>2. QED
    BY <2>1, LLVMTypes, TypesOfTypes
<1>6. Top.wants # Anything
  <2>1. CASE Top.needs = Anything
    BY <1>3, <2>1, WantedTypes DEF GivesArgument
  <2>2. CASE Top.needs # Anything
    <3>1. Top.needs.base # "any"
      BY <1>3, <2>2, TypesOfTypes DEF Parameters, Value, ToRef
    <3>2. Top.wants.base # "any"
      <4>1. Top.needs \in Wanted /\ Top.wants \in {Top.needs, [Top.needs EXCEPT !.base = "int", !.ref = FALSE]}
        BY <1>3, <2>2, WantedTypes DEF GivesArgument, Gives
      <4>2. QED
        BY <3>1, <4>1 DEF Wanted
    <3>3. QED
      BY <3>2 DEF Anything, Value
  <2>3. QED
    BY <2>1, <2>2
<1>7. LLVM(IF Top.needs = Anything THEN Top.wants ELSE Top.needs) \in LLVMType
  BY <1>3, <1>5, TypesOfTypes DEF Parameters, GivesArgument
<1>8. QED
  BY <1>1, <1>2, <1>3, <1>4, <1>6, <1>7 DEF Passed, Typed, Operand

\* The LLVM type of a number given by mistake is no pointer; those of references, strings
\* and objects are.
LEMMA MistakenType ==
  ASSUME NEW w \in Wanted, NEW x \in Gives(w), w.base \in Types
  PROVE  /\ x # w => ~ IsPointer(LLVM(x))
         /\ IsPointer(LLVM(w)) <=> (w.ref \/ w.base # "int")
         /\ x # w => IsPointer(LLVM(w))
<1> DEFINE m == [w EXCEPT !.base = "int", !.ref = FALSE]
<1>1. x = w \/ x = m
  BY DEF Gives
<1>2. m.base = "int" /\ m.ref = FALSE
  BY DEF Wanted
<1>3. m # w => w.ref \/ w.base # "int"
  BY DEF Wanted
<1>4. LLVM(m).depth = 0
  BY <1>2 DEF LLVM
<1>5. LLVM(w).depth > 0 <=> (w.ref \/ w.base # "int")
  BY DEF LLVM, Wanted
<1> HIDE DEF m
<1>6. QED
  BY <1>1, <1>3, <1>4, <1>5 DEF IsPointer

\* The check of an argument lets through what has the type of the parameter.
LEMMA PassedTyped ==
  ASSUME Typing, Values, GotArgument
  PROVE  Passed(Top).has = Passed(Top).needs /\ ~ generateInMem
<1>1. /\ Got(Top.op) /\ Top.needs \in Parameters /\ Top.wants \in GivesArgument(Top.needs)
      /\ Top.wants # Anything /\ ~ Top.wants.place
  BY PassedType
<1>2. result = LLVM(Top.wants) /\ ~ generateInMem
  BY <1>1, GotValue
<1>3. CASE Top.needs = Anything
  BY <1>2, <1>3 DEF Passed, Typed
<1>4. CASE Top.needs # Anything
  <2>1. Top.wants \in Gives(Top.needs) /\ Top.needs \in Wanted
    BY <1>1, <1>4, WantedTypes DEF GivesArgument
  <2>2. Top.needs.base \in Types
    BY <1>1, <1>4, TypesOfTypes DEF Parameters, Value, ToRef
  <2>3. IsPointer(result) = IsPointer(LLVM(Top.needs))
    BY <1>4 DEF GotArgument, Fits
  <2>4. Top.wants = Top.needs
    BY <1>2, <2>1, <2>2, <2>3, MistakenType
  <2>5. QED
    BY <1>2, <1>4, <2>4 DEF Passed, Typed
<1>5. QED
  BY <1>3, <1>4

LEMMA MethodTargetKept ==
  ASSUME Typing, NEW p \in Parameters, NEW given \in GivesArgument(p), MethodTarget(p, given)
  PROVE  Typing' /\ (Values => Values' /\ InstructionsTyped')
<1>1. Got("method") /\ Pass(p, given, FALSE) /\ emitted' = {}
  BY DEF MethodTarget
<1>2. Typing' /\ (Values => Values')
  BY <1>1, PassKept
<1>3. QED
  BY <1>1, <1>2 DEF InstructionsTyped

LEMMA NextArgumentKept ==
  ASSUME Typing, NEW p \in Parameters, NEW given \in GivesArgument(p), NextArgument(p, given)
  PROVE  Typing' /\ (Values => Values' /\ InstructionsTyped')
<1> DEFINE mem == generateInMem /\ (Top.needs = Anything \/ p # Anything)
<1>1. GotArgument /\ Pass(p, given, mem) /\ emitted' = {Passed(Top)}
  BY DEF NextArgument
<1>2. Top.op \in {"call", "method", "new"} /\ Got(Top.op) /\ Passed(Top) \in Operand
  BY <1>1, PassedType
<1>3. mem \in BOOLEAN
  OBVIOUS
<1>4. Values => ~ mem
  BY <1>1, PassedTyped
<1> HIDE DEF mem
<1>5. Typing' /\ (Values => Values')
  BY <1>1, <1>2, <1>3, <1>4, PassKept
<1>6. Values => InstructionsTyped'
  BY <1>1, PassedTyped DEF InstructionsTyped
<1>7. QED
  BY <1>5, <1>6

-----------------------------------------------------------------------------
(* Handlers that return.                                                   *)

\* What a function may return, and its LLVM type.
LEMMA ReturnedType ==
  ASSUME NEW gives \in Returns, gives # Anything
  PROVE  /\ LLVM(gives) \in LLVMType /\ LLVM(gives) # Void
         /\ \A m \in BOOLEAN : /\ InMemory(LLVM(gives), m) \in LLVMType \ {Void}
                               /\ Spill(LLVM(gives), m) \subseteq Operand
<1>1. gives \in Wanted /\ gives.base # "any"
  BY WantedTypes, TypesOfTypes DEF Returns, Value
<1>2. LLVM(gives) \in LLVMType /\ LLVM(gives) # Void
  BY <1>1, LLVMTypes
<1>3. QED
  BY <1>2, LLVMTypes DEF InMemory, Spill, Store, Operand

LEMMA CalledType ==
  ASSUME NEW gives \in Returns, NEW m \in BOOLEAN, NEW op, op # "new"
  PROVE  /\ Called(op, gives, m) \in LLVMType
         /\ gives # Anything => /\ Called(op, gives, m) # Void
                                /\ Called(op, gives, m) = InMemory(LLVM(gives), m)
         /\ CallSpill(op, gives, m) \subseteq Operand
         /\ \A o \in CallSpill(op, gives, m) : o.has = o.needs
<1>1. CASE gives = Anything
  BY <1>1, LLVMTypes DEF Called, CallSpill
<1>2. CASE gives # Anything
  BY <1>2, ReturnedType, SpillTyped DEF Called, CallSpill
<1>3. QED
  BY <1>1, <1>2

LEMMA CallNoArgumentsKept ==
  ASSUME Typing, NEW gives \in Returns, CallNoArguments(gives)
  PROVE  Typing' /\ (Values => Values' /\ InstructionsTyped')
<1>1. /\ Here(gives) /\ generateInMem' = FALSE /\ Return(visits) /\ UNCHANGED <<status, symbols>>
      /\ result' = Called("call", gives, generateInMem)
      /\ emitted' = CallSpill("call", gives, generateInMem)
  BY DEF CallNoArguments
<1>2. gives \in Wanted /\ generateInMem \in BOOLEAN
  BY WantedTypes DEF Typing, TypeOK
<1>3. visits # <<>> /\ status = "running" /\ Top.wants \in Wanted /\ Fitting(Top.wants, gives)
  BY <1>1, <1>2, HereTop
<1>4. /\ result' \in LLVMType /\ emitted' \subseteq Operand
      /\ gives # Anything => result' # Void /\ result' = InMemory(LLVM(gives), generateInMem)
      /\ \A o \in emitted' : o.has = o.needs
  BY <1>1, <1>2, CalledType
<1>5. Top.wants # Anything => gives # Anything
  BY <1>3, FittingAnything
<1>6. Typing'
  BY <1>1, <1>3, <1>4, <1>5, LeafTyping
<1>7. ASSUME Values
      PROVE  Values'
  <2>1. Suits(Top, result')
    BY <1>1, <1>2, <1>4, <1>5, <1>7, HereAsked DEF Suits
  <2>2. QED
    BY <1>1, <1>3, <1>7, <2>1, LeafValues
<1>8. QED
  BY <1>4, <1>6, <1>7 DEF InstructionsTyped

\* The object that is constructed without arguments is a value, never an address.
LEMMA NewNoArgumentsKept ==
  ASSUME Typing, NEW constructor \in BOOLEAN, NewNoArguments(constructor)
  PROVE  Typing' /\ (Values => Values' /\ InstructionsTyped')
<1>1. /\ Here(Value("object")) /\ Return(visits) /\ UNCHANGED <<status, symbols>>
      /\ result' = LLVM(Value("object")) /\ emitted' = {}
      /\ generateInMem' = (generateInMem /\ ~ constructor)
  BY DEF NewNoArguments
<1>2. Value("object") \in Wanted /\ ~ Value("object").place /\ generateInMem' \in BOOLEAN
  BY <1>1, WantedTypes, ValuePlace, TypesOfTypes
<1>3. visits # <<>> /\ status = "running"
  BY <1>1, <1>2, HereTop
<1>4. Typing'
  BY <1>1, <1>2, <1>3, ObjectType, LeafTyping
<1>5. ASSUME Values
      PROVE  Values'
  <2>1. ~ generateInMem
    BY <1>1, <1>2, <1>5, HereAsked
  <2>2. Suits(Top, result')
    BY <1>1, <1>2, <1>5, <2>1, HereAsked DEF InMemory
  <2>3. QED
    BY <1>1, <1>3, <1>5, <2>1, <2>2, LeafValues
<1>6. QED
  BY <1>1, <1>4, <1>5 DEF InstructionsTyped

\* An expression that returns its type, as a value or in memory as it was asked for.
LEMMA ReturnedTyping ==
  ASSUME Typing, NEW op, Got(op), Return(Rest), result' \in LLVMType,
         Top.gives = Anything \/ result' # Void,
         generateInMem' \in BOOLEAN, UNCHANGED <<status, symbols>>, emitted' \subseteq Operand
  PROVE  Typing'
<1>1. visits # <<>> /\ status = "running"
  BY DEF Got
<1>2. symbols' \in [Names -> Symbols] /\ ReferencesTyped(symbols')
  BY DEF Typing, TypeOK
<1>3. QED
  BY <1>1, <1>2, CloseTyping

LEMMA ClosePropKept ==
  ASSUME Typing, CloseProp
  PROVE  Typing' /\ (Values /\ Careful => Values' /\ InstructionsTyped')
<1> DEFINE place == Ptr(LLVM(Top.gives))
<1>1. /\ Got("prop") /\ Return(Rest) /\ UNCHANGED <<status, generateInMem, symbols>>
      /\ result' = (IF Top.mem THEN place ELSE Deref(place))
      /\ emitted' = (IF Top.mem THEN {} ELSE {Load(place)})
  BY DEF CloseProp
<1>2. PICK t \in Types : Top.gives = Place(t)
  BY <1>1, GotTyping DEF Formed, FormedOperand
<1>3. LLVM(Place(t)) \in LLVMType /\ LLVM(Place(t)) # Void
  BY LLVMTypes, WantedTypes, TypesOfTypes DEF Place
<1>4. /\ place \in LLVMType \ {Void} /\ Deref(place) = LLVM(Top.gives) /\ Deref(place) # Void
      /\ Deref(place) \in LLVMType /\ Load(place) \in Operand /\ Load(place).has = Load(place).needs
  BY <1>2, <1>3, Pointers
<1>5. Typing'
  <2>1. generateInMem' \in BOOLEAN
    BY <1>1, GotTyping
  <2>2. QED
    BY <1>1, <1>4, <2>1, ReturnedTyping
<1>6. ASSUME Values, Careful
      PROVE  Values' /\ InstructionsTyped'
  <2>1. result' = InMemory(LLVM(Top.gives), Top.mem)
    BY <1>1, <1>4 DEF InMemory
  <2>2. ~ Top.wants.place
    <3>1. Top.wants \in Gives(Value("object"))
      BY <1>1, GotTyping DEF Formed, FormedOperand
    <3>2. QED
      BY <3>1, ObjectGiven
  <2>3. ~ generateInMem'
    BY <1>1, <1>6, <2>2, GotValues
  <2>4. Values'
    BY <1>1, <1>6, <2>1, <2>3, GotTyping, CloseValues DEF Careful
  <2>5. QED
    BY <1>1, <1>4, <2>4 DEF InstructionsTyped
<1>7. QED
  BY <1>5, <1>6

LEMMA CloseRefKept ==
  ASSUME Typing, CloseRef
  PROVE  Typing' /\ (Values /\ Careful => Values' /\ InstructionsTyped')
<1>1. /\ Got("ref") /\ Return(Rest) /\ UNCHANGED <<status, result, symbols>>
      /\ generateInMem' = Top.mem /\ emitted' = {}
  BY DEF CloseRef
<1>2. PICK t \in Types : Top.wants = Place(t) /\ Top.gives = ToRef(t)
  BY <1>1, GotTyping DEF Formed, FormedOperand
<1>3. Top.wants # Anything /\ Top.wants.place /\ ~ Top.gives.place
  BY <1>2, WantedTypes, ValuePlace
<1>4. Typing'
  <2>1. result' \in LLVMType /\ result' # Void /\ generateInMem' \in BOOLEAN
    BY <1>1, <1>3, GotTyping
  <2>2. QED
    BY <1>1, <2>1, ReturnedTyping
<1>5. ASSUME Values, Careful
      PROVE  Values'
  <2>1. result = Ptr(LLVM(Place(t)))
    BY <1>1, <1>2, <1>3, <1>5, GotTyping, GotValues DEF Suits, IsPlace
  <2>2. Ptr(LLVM(Place(t))) = LLVM(ToRef(t))
    BY DEF Ptr, LLVM, Place, ToRef
  <2>3. ~ Top.mem
    BY <1>1, <1>3, <1>5, GotValues
  <2>4. result' = InMemory(LLVM(Top.gives), Top.mem)
    BY <1>1, <1>2, <2>1, <2>2, <2>3 DEF InMemory
  <2>5. QED
    BY <1>1, <1>5, <2>4, GotTyping, CloseValues DEF Careful
<1>6. QED
  BY <1>1, <1>4, <1>5 DEF InstructionsTyped

LEMMA CloseDelKept ==
  ASSUME Typing, NEW destructor \in BOOLEAN, CloseDel(destructor)
  PROVE  Typing' /\ (Values /\ Careful => Values' /\ InstructionsTyped')
<1>1. /\ Got("delete") /\ Return(Rest) /\ UNCHANGED <<status, result, symbols>>
      /\ Destructors => destructor
      /\ IsObject(Deref(result))
      /\ generateInMem' = (generateInMem /\ ~ destructor)
      /\ emitted' = {Load(result), Store(Deref(result), result)}
  BY DEF CloseDel
<1>2. result \in LLVMType /\ generateInMem' \in BOOLEAN /\ Top.gives = Anything
  BY <1>1, GotTyping DEF Formed, FormedOperand
<1>3. result # Void /\ result.depth >= 1
  BY <1>1, <1>2 DEF IsObject, Deref, Void, LLVMType
<1>4. Deref(result) \in LLVMType /\ Ptr(Deref(result)) \in LLVMType /\ Load(result) \in Operand
      /\ Load(result).has = Load(result).needs
  BY <1>2, <1>3, LLVMTypes, LoadType
<1>5. /\ Store(Deref(result), result) \in Operand
      /\ Store(Deref(result), result).has = Store(Deref(result), result).needs
  BY <1>2, <1>4 DEF Store, Load, Operand
<1>6. Typing'
  BY <1>1, <1>2, <1>4, <1>5, ReturnedTyping
<1>7. ASSUME Values, Careful
      PROVE  Values'
  BY <1>1, <1>2, <1>7, GotTyping, CloseValues DEF Careful
<1>8. QED
  BY <1>1, <1>4, <1>5, <1>6, <1>7 DEF InstructionsTyped

LEMMA CloseCallKept ==
  ASSUME Typing, CloseCall
  PROVE  Typing' /\ (Values /\ Careful => Values' /\ InstructionsTyped')
<1> DEFINE spill == CallSpill(Top.op, Top.gives, Top.mem)
<1>1. /\ \/ GotArgument /\ emitted' = {Passed(Top)} \cup spill
         \/ Got("method") /\ emitted' = spill
      /\ generateInMem' \in BOOLEAN /\ (generateInMem' => generateInMem /\ GotArgument)
      /\ Return(Rest) /\ UNCHANGED <<status, symbols>>
      /\ result' = Called(Top.op, Top.gives, Top.mem)
  BY DEF CloseCall
<1>2. Top.op \in {"call", "method", "new"} /\ Got(Top.op)
  BY <1>1, PassedType DEF Got
<1>3. Formed(Top) /\ Top.mem \in BOOLEAN
  BY <1>2, GotTyping
<1>4. Values => ~ generateInMem'
  BY <1>1, PassedTyped
<1>5. CASE Top.op = "new"
  <2>1. GotArgument
    BY <1>1, <1>5 DEF Got
  <2>2. result' = result /\ spill = {} /\ Top.wants # Anything
    BY <1>1, <1>5, <2>1, PassedType DEF Called, CallSpill
  <2>3. result' \in LLVMType /\ result' # Void
    BY <1>2, <2>2, GotTyping
  <2>4. emitted' = {Passed(Top)}
    <3>1. ~ Got("method")
      BY <1>5 DEF Got
    <3>2. QED
      BY <1>1, <2>2, <3>1
  <2>5. Typing'
    <3> HIDE DEF spill
    <3>1. QED
      BY <1>1, <1>2, <2>1, <2>3, <2>4, PassedType, ReturnedTyping
  <2>6. ASSUME Values, Careful
        PROVE  Values'
    BY <1>1, <1>2, <1>5, <1>4, <2>6, GotTyping, CloseValues DEF Careful
  <2>7. ASSUME Values
        PROVE  InstructionsTyped'
    BY <2>1, <2>4, <2>7, PassedTyped DEF InstructionsTyped
  <2>8. QED
    BY <2>5, <2>6, <2>7
<1>6. CASE Top.op # "new"
  <2>1. Top.gives \in Returns
    BY <1>2, <1>3, <1>6 DEF Formed, FormedCall
  <2>2. /\ result' \in LLVMType
        /\ Top.gives # Anything => result' # Void /\ result' = InMemory(LLVM(Top.gives), Top.mem)
        /\ spill \subseteq Operand
        /\ \A o \in spill : o.has = o.needs
    BY <1>1, <1>3, <1>6, <2>1, CalledType
  <2> HIDE DEF spill
  <2>3. emitted' \subseteq Operand
    BY <1>1, <2>2, PassedType
  <2>4. Typing'
    BY <1>1, <1>2, <2>2, <2>3, ReturnedTyping
  <2>5. ASSUME Values, Careful
        PROVE  Values'
    BY <1>1, <1>2, <1>4, <2>2, <2>5, GotTyping, CloseValues DEF Careful
  <2>6. ASSUME Values
        PROVE  InstructionsTyped'
    BY <1>1, <2>2, <2>6, PassedTyped DEF InstructionsTyped
  <2>7. QED
    BY <2>4, <2>5, <2>6
<1>7. QED
  BY <1>5, <1>6

LEMMA NumberType ==
  /\ Number \in Wanted /\ Number # Anything /\ ~ Number.place
  /\ LLVM(Number) \in LLVMType /\ LLVM(Number) # Void
  /\ \A m \in BOOLEAN : /\ InMemory(LLVM(Number), m) \in LLVMType \ {Void}
                        /\ Spill(LLVM(Number), m) \subseteq Operand
<1>1. Number \in Wanted /\ Number # Anything /\ ~ Number.place /\ Number.base = "int"
  BY WantedTypes, ValuePlace, TypesOfTypes DEF Number, Value
<1>2. LLVM(Number) \in LLVMType /\ LLVM(Number) # Void
  BY <1>1, LLVMTypes
<1>3. QED
  BY <1>1, <1>2, LLVMTypes DEF InMemory, Spill, Store, Operand

LEMMA CloseBinaryKept ==
  ASSUME Typing, CloseBinary
  PROVE  Typing' /\ (Values /\ Careful => Values' /\ InstructionsTyped')
<1>1. /\ Got("binary") /\ Top.step = 2 /\ Return(Rest) /\ UNCHANGED <<status, generateInMem, symbols>>
      /\ result' = InMemory(LLVM(Number), Top.mem)
      /\ emitted' = {Typed(Top.held, Number), Typed(result, Number)} \cup Spill(LLVM(Number), Top.mem)
  BY DEF CloseBinary
<1>2. /\ Top.wants = Number /\ Top.gives = Number /\ Top.mem \in BOOLEAN
      /\ Top.held \in LLVMType /\ result \in LLVMType /\ generateInMem \in BOOLEAN
  BY <1>1, GotTyping DEF Formed, FormedOperator, Activation
<1>3. {Typed(Top.held, Number), Typed(result, Number)} \subseteq Operand
  BY <1>2, NumberType DEF Typed, Operand
<1>4. Typing'
  BY <1>1, <1>2, <1>3, NumberType, ReturnedTyping
<1>5. ASSUME Values, Careful
      PROVE  Values' /\ InstructionsTyped'
  <2>1. result = LLVM(Number) /\ ~ generateInMem /\ Top.held = LLVM(Number)
    BY <1>1, <1>2, <1>5, NumberType, GotValue, GotValues, GotTyping DEF Kept
  <2>2. Values'
    BY <1>1, <1>2, <1>5, <2>1, GotTyping, CloseValues DEF Careful
  <2>3. InstructionsTyped'
    BY <1>1, <2>1, SpillTyped DEF InstructionsTyped, Typed
  <2>4. QED
    BY <2>2, <2>3
<1>6. QED
  BY <1>4, <1>5

LEMMA PlainType ==
  \A w \in Wanted : /\ Plain(w) \in Wanted /\ Plain(w).place = FALSE
                    /\ Plain(w).base = w.base /\ Plain(w).ref = w.ref
BY DEF Plain, Wanted

\* What is assigned has the type of what it is assigned to.
LEMMA AssignedType ==
  ASSUME Typing, Got("assign"), Top.step = 2
  PROVE  /\ Top.gives \in Wanted /\ Top.gives # Anything /\ Top.gives.base \in Types
         /\ Top.wants = Plain(Top.gives) /\ Top.wants # Anything /\ ~ Top.wants.place
         /\ LLVM(Top.wants) = LLVM(Top.gives)
         /\ LLVM(Top.gives) \in LLVMType /\ LLVM(Top.gives) # Void
         /\ Top.held \in LLVMType /\ Top.held # Void
<1>1. /\ Top \in Activation /\ Top.op = "assign" /\ Formed(Top)
  BY GotTyping
<1>2. Top.wants = Plain(Top.gives) /\ Top.held \in LLVMType /\ Top.held # Void
  BY <1>1 DEF Formed, FormedOperator, Activation
<1>3. /\ Top.gives \in Wanted /\ Top.gives.base \in Types
  <2>1. PICK t \in Types : Top.gives = Place(t) \/ Top.gives = RefItself(t)
    BY <1>1, TypesOfTypes DEF Formed, FormedOperator
  <2>2. Place(t).base = t /\ RefItself(t).base = t
    BY DEF Place, RefItself
  <2>3. QED
    BY <2>1, <2>2, WantedTypes
<1>4. /\ Plain(Top.gives) \in Wanted /\ ~ Plain(Top.gives).place
      /\ Plain(Top.gives).base = Top.gives.base /\ Plain(Top.gives).ref = Top.gives.ref
  BY <1>3, PlainType
<1>5. Top.gives # Anything /\ Top.wants # Anything /\ Top.gives.base # "any"
  BY <1>2, <1>3, <1>4, TypesOfTypes DEF Anything, Value
<1>6. LLVM(Top.wants) = LLVM(Top.gives)
  BY <1>2, <1>4 DEF LLVM
<1>7. QED
  BY <1>2, <1>3, <1>4, <1>5, <1>6, LLVMTypes

LEMMA CloseAssignKept ==
  ASSUME Typing, CloseAssign
  PROVE  Typing' /\ (Values /\ Careful => Values' /\ InstructionsTyped')
<1> DEFINE follow == IsPointer(Deref(Top.held)) /\ ~ IsPointer(result)
           variable == IF follow THEN Deref(Top.held) ELSE Top.held
           r == LLVM(Top.gives)
<1>1. /\ Got("assign") /\ Top.step = 2 /\ Return(Rest) /\ UNCHANGED <<status, generateInMem, symbols>>
      /\ result' = (IF Top.mem THEN variable ELSE result)
      /\ emitted' = {Store(result, variable)} \cup IF follow THEN {Load(Top.held)} ELSE {}
  BY DEF CloseAssign
<1>2. /\ Top.held \in LLVMType /\ Top.held # Void /\ Top.wants # Anything /\ ~ Top.wants.place
      /\ r \in LLVMType /\ r # Void /\ LLVM(Top.wants) = r
  BY <1>1, AssignedType
<1>3. /\ result \in LLVMType /\ result # Void /\ generateInMem \in BOOLEAN
  BY <1>1, <1>2, GotTyping
<1>4. Deref(Top.held) \in LLVMType \ {Void} /\ Load(Top.held) \in Operand
  BY <1>2, LLVMTypes, LoadType
<1>5. variable \in LLVMType \ {Void}
  BY <1>2, <1>4
<1>6. Store(result, variable) \in Operand
  BY <1>3, <1>5, LLVMTypes DEF Store, Operand
<1>7. Typing'
  <2> HIDE DEF variable, follow
  <2>1. QED
    BY <1>1, <1>3, <1>4, <1>5, <1>6, ReturnedTyping
<1>8. ASSUME Values, Careful
      PROVE  Values' /\ InstructionsTyped'
  <2>1. result = r /\ ~ generateInMem
    BY <1>1, <1>2, <1>8, GotValue
  <2>2. Assigned(Top.gives, Top.held)
    BY <1>1, <1>8, GotTyping, GotValues DEF Kept
  <2>3. Ptr(r) \in LLVMType /\ Ptr(r) # Void /\ Deref(Ptr(r)) = r
    BY <1>2, Pointers
  <2>4. CASE Top.held = Ptr(r)
    <3>1. ~ follow /\ variable = Ptr(r)
      BY <2>1, <2>3, <2>4
    <3> HIDE DEF variable, follow
    <3>2. result' = InMemory(r, Top.mem) /\ emitted' = {Store(r, Ptr(r))}
      BY <1>1, <2>1, <3>1 DEF InMemory
    <3>3. Values'
      BY <1>1, <1>8, <2>1, <3>2, GotTyping, CloseValues DEF Careful
    <3>4. QED
      BY <3>2, <3>3 DEF InstructionsTyped, Store
  <2>5. CASE Top.gives = Place("int") /\ Top.held = Ptr(Ptr(r))
    <3>1. Deref(Top.held) = Ptr(r) /\ Ptr(r).depth >= 1 /\ Ptr(r).depth \in Nat
          /\ Load(Top.held).has = Load(Top.held).needs
      BY <1>2, <2>3, <2>5, Pointers DEF LLVMType, Void
    <3>2. r.depth = 0
      BY <2>5 DEF LLVM, Place
    <3>3. follow /\ variable = Ptr(r)
      BY <2>1, <3>1, <3>2 DEF IsPointer
    <3> HIDE DEF variable, follow
    <3>4. result' = InMemory(r, Top.mem) /\ emitted' = {Store(r, Ptr(r)), Load(Top.held)}
      BY <1>1, <2>1, <3>3 DEF InMemory
    <3>5. Values'
      BY <1>1, <1>8, <2>1, <3>4, GotTyping, CloseValues DEF Careful
    <3>6. Store(r, Ptr(r)).has = Store(r, Ptr(r)).needs
      BY DEF Store
    <3>7. QED
      BY <3>1, <3>4, <3>5, <3>6 DEF InstructionsTyped
  <2>6. QED
    BY <2>2, <2>4, <2>5 DEF Assigned, IsPlace
<1>9. QED
  BY <1>7, <1>8

LEMMA CloseCompoundKept ==
  ASSUME Typing, CloseCompound
  PROVE  Typing' /\ (Values /\ Careful => Values' /\ InstructionsTyped')
<1>1. /\ Got("compound") /\ Top.step = 2 /\ Return(Rest) /\ UNCHANGED <<status, generateInMem, symbols>>
      /\ result' = IF Top.mem THEN Top.held ELSE LLVM(Number)
      /\ emitted' = {Load(Top.held), Typed(Deref(Top.held), Number),
                     Typed(result, Number), Store(LLVM(Number), Top.held)}
  BY DEF CloseCompound
<1>2. /\ Top.gives = Place("int") /\ Top.wants = Plain(Place("int")) /\ Top.mem \in BOOLEAN
      /\ Top.held \in LLVMType /\ Top.held # Void /\ result \in LLVMType /\ generateInMem \in BOOLEAN
  BY <1>1, GotTyping DEF Formed, FormedOperator, Activation
<1>3. Plain(Place("int")) = Number
  <2>1. Place("int") \in Wanted /\ Place("int").base = "int" /\ Place("int").ref = FALSE
    BY WantedTypes, TypesOfTypes DEF Place
  <2>2. Number \in Wanted /\ Number.base = "int" /\ Number.ref = FALSE /\ Number.place = FALSE
    BY NumberType DEF Number, Value
  <2>3. \A v, w \in Wanted : v.base = w.base /\ v.ref = w.ref /\ v.place = w.place => v = w
    BY DEF Wanted
  <2>4. QED
    BY <2>1, <2>2, <2>3, PlainType, ZenonT(60)
<1>4. Deref(Top.held) \in LLVMType /\ Load(Top.held) \in Operand
  BY <1>2, LLVMTypes, LoadType
<1>5. emitted' \subseteq Operand
  <2>1. Ptr(LLVM(Number)) \in LLVMType
    BY NumberType, LLVMTypes
  <2>2. QED
    BY <1>1, <1>2, <1>4, <2>1, NumberType DEF Typed, Store, Operand
<1>6. Typing'
  BY <1>1, <1>2, <1>5, NumberType, ReturnedTyping
<1>7. ASSUME Values, Careful
      PROVE  Values' /\ InstructionsTyped'
  <2>1. result = LLVM(Number) /\ ~ generateInMem
    BY <1>1, <1>2, <1>3, <1>7, NumberType, GotValue
  <2>2. Top.held = Ptr(LLVM(Number))
    <3>1. IsPlace(Place("int"), Top.held)
      BY <1>1, <1>2, <1>7, GotTyping, GotValues DEF Kept
    <3>2. LLVM(Place("int")) = LLVM(Number)
      BY DEF LLVM, Place, Number, Value
    <3>3. QED
      BY <3>1, <3>2 DEF IsPlace
  <2>3. Deref(Top.held) = LLVM(Number) /\ Load(Top.held).has = Load(Top.held).needs
    BY <2>2, NumberType, Pointers
  <2>4. InstructionsTyped'
    BY <1>1, <2>1, <2>2, <2>3 DEF InstructionsTyped, Typed, Store
  <2>5. result' = InMemory(LLVM(Top.gives), Top.mem)
    <3>1. LLVM(Top.gives) = LLVM(Number)
      BY <1>2 DEF LLVM, Place, Number, Value
    <3>2. QED
      BY <1>1, <2>2, <3>1 DEF InMemory
  <2>6. Values'
    BY <1>1, <1>7, <2>1, <2>5, GotTyping, CloseValues DEF Careful
  <2>7. QED
    BY <2>4, <2>6
<1>8. QED
  BY <1>6, <1>7

-----------------------------------------------------------------------------
(* Declarations and statements.                                            *)

LEMMA DeclaredType ==
  ASSUME NEW t \in Types, NEW isRef \in BOOLEAN, isRef => t \in RefTypes, NEW kind \in RefKinds
  PROVE  /\ Declared(t, isRef, kind) \in Symbols
         /\ IsRef(Declared(t, isRef, kind)) => Declared(t, isRef, kind).base \in RefTypes
BY DEF Declared, Symbols, IsRef, RefKinds

\* A name that is declared, and nothing else.
LEMMA DeclareTyping ==
  ASSUME Typing, NEW n \in Names, NEW s \in Symbols, IsRef(s) => s.base \in RefTypes
  PROVE  /\ [symbols EXCEPT ![n] = s] \in [Names -> Symbols]
         /\ ReferencesTyped([symbols EXCEPT ![n] = s])
BY DEF Typing, TypeOK, ReferencesTyped

LEMMA BetweenKept ==
  ASSUME Typing, Between, UNCHANGED <<status, visits>>,
         result' \in LLVMType, generateInMem' \in BOOLEAN, generateInMem' => generateInMem,
         symbols' \in [Names -> Symbols], ReferencesTyped(symbols'), emitted' = {}
  PROVE  Typing' /\ (Values => Values' /\ InstructionsTyped')
BY DEF Typing, TypeOK, Between, HasValue, Values, Flag, Asked, InstructionsTyped

LEMMA DeclVarKept ==
  ASSUME Typing, NEW n \in Names, NEW t \in Types, NEW isRef \in BOOLEAN, DeclVar(n, t, isRef)
  PROVE  Typing' /\ (Values => Values' /\ InstructionsTyped')
<1>1. /\ Between /\ (isRef => t \in RefTypes) /\ emitted' = {}
      /\ symbols' = [symbols EXCEPT ![n] = Declared(t, isRef, "variable")]
      /\ result' = InMemory(LLVM(Declares(t, isRef)), generateInMem)
      /\ UNCHANGED <<status, visits, generateInMem>>
  BY DEF DeclVar, Fresh
<1>2. LLVM(Declares(t, isRef)) \in LLVMType \ {Void}
  <2>1. /\ Value(t) \in Wanted /\ Value(t) # Anything /\ Value(t).base = t
        /\ ToRef(t) \in Wanted /\ ToRef(t) # Anything /\ ToRef(t).base = t
    BY WantedTypes DEF Value, ToRef
  <2>2. QED
    BY <2>1, LLVMTypes, TypesOfTypes DEF Declares
<1>3. result' \in LLVMType /\ generateInMem \in BOOLEAN
  BY <1>1, <1>2, LLVMTypes DEF InMemory, Typing, TypeOK
<1>4. symbols' \in [Names -> Symbols] /\ ReferencesTyped(symbols')
  BY <1>1, DeclaredType, DeclareTyping DEF RefKinds
<1>5. QED
  BY <1>1, <1>3, <1>4, BetweenKept

LEMMA DeclFunKept ==
  ASSUME Typing, NEW n \in Names, NEW t \in Types, NEW isRef \in BOOLEAN, DeclFun(n, t, isRef)
  PROVE  Typing' /\ (Values => Values' /\ InstructionsTyped')
<1>1. /\ Between /\ (isRef => t \in RefTypes) /\ emitted' = {} /\ generateInMem' = FALSE
      /\ symbols' = [symbols EXCEPT ![n] = Declared(t, isRef, "parameter")]
      /\ UNCHANGED <<status, visits, result>>
  BY DEF DeclFun, Fresh
<1>2. symbols' \in [Names -> Symbols] /\ ReferencesTyped(symbols')
  BY <1>1, DeclaredType, DeclareTyping DEF RefKinds
<1>3. result' \in LLVMType
  BY <1>1 DEF Typing, TypeOK
<1>4. QED
  BY <1>1, <1>2, <1>3, BetweenKept

\* A statement that visits an expression, for its value.
LEMMA StartedKept ==
  ASSUME Typing, Between, NEW a \in Activation, Formed(a), a.op \in StatementOps,
         a.at = "waits", a.step = 1, a.mem = generateInMem, ~ a.wants.place, NEW mem \in BOOLEAN,
         mem => generateInMem,
         Nest(a, mem), UNCHANGED <<status, result, symbols>>, emitted' = {}
  PROVE  Typing' /\ (Values => Values' /\ InstructionsTyped')
<1>1. visits = <<>> /\ status = "running" /\ visits' = Append(visits, a) /\ generateInMem' = mem
  BY DEF Between, Nest
<1>2. result' \in LLVMType
  BY DEF Typing, TypeOK
<1>3. Typing'
  BY <1>1, <1>2, NestTyping
<1>4. ASSUME Values
      PROVE  Values'
  <2>1. ~ generateInMem
    BY <1>1, <1>4 DEF Values, Flag
  <2>2. QED
    BY <1>1, <1>4, <2>1, NestValues DEF Kept
<1>5. QED
  BY <1>3, <1>4 DEF InstructionsTyped

LEMMA OpenDeclKept ==
  ASSUME Typing, NEW n \in Names, NEW t \in Types, NEW isRef \in BOOLEAN,
         NEW given \in Gives(Declares(t, isRef)), OpenDecl(n, t, isRef, given)
  PROVE  Typing' /\ (Values => Values' /\ InstructionsTyped')
<1> DEFINE d == Declares(t, isRef)
           b == Waiting("decl", given, d, d)
           a == [b EXCEPT !.name = n]
<1>1. /\ Between /\ (isRef => t \in RefTypes) /\ (~ isRef => given = Value(t))
      /\ Nest(a, FALSE) /\ emitted' = {} /\ UNCHANGED <<status, result, symbols>>
  BY DEF OpenDecl, Fresh
<1>2. d = (IF isRef THEN ToRef(t) ELSE Value(t)) /\ d \in Wanted
  BY WantedTypes DEF Declares
<1>3. given \in Wanted /\ ~ given.place
  BY <1>2, WantedTypes, ValuePlace
<1>4. /\ b \in Activation /\ b.op = "decl" /\ b.at = "waits" /\ b.step = 1
      /\ b.wants = given /\ b.needs = d /\ b.mem = generateInMem
  BY <1>2, <1>3, WaitingType DEF Handlers
<1> HIDE DEF b, d
<1>5. /\ a \in Activation /\ a.op = "decl" /\ a.at = "waits" /\ a.step = 1
      /\ a.wants = given /\ a.needs = d /\ a.mem = generateInMem /\ a.name = n
  BY <1>4 DEF Activation
<1> HIDE DEF a
<1>6. Formed(a)
  <2>1. FormedStatement(a)
    BY <1>1, <1>2, <1>5 DEF FormedStatement, d
  <2>2. QED
    BY <1>5, <2>1 DEF Formed, FormedOperand, FormedCall, FormedOperator
<1>7. QED
  BY <1>1, <1>3, <1>5, <1>6, StartedKept DEF StatementOps

LEMMA OpenStmtKept ==
  ASSUME Typing, NEW op, NEW w,
         \/ op = "expr" /\ w = Anything
         \/ op \in {"return", "condition"} /\ \E t \in Types : w = Value(t),
         OpenStmt(op, w)
  PROVE  Typing' /\ (Values => Values' /\ InstructionsTyped')
<1> DEFINE a == Waiting(op, w, w, w)
           mem == op # "condition" /\ generateInMem
<1>1. Between /\ Nest(a, mem) /\ emitted' = {} /\ UNCHANGED <<status, result, symbols>>
  BY DEF OpenStmt
<1>2. w \in Wanted /\ ~ w.place /\ op \in Handlers /\ op \in StatementOps
  BY WantedTypes, ValuePlace DEF Handlers, StatementOps
<1>3. /\ a \in Activation /\ a.op = op /\ a.at = "waits" /\ a.step = 1
      /\ a.wants = w /\ a.needs = w /\ a.mem = generateInMem
  BY <1>2, WaitingType
<1>4. mem \in BOOLEAN /\ (mem => generateInMem)
  OBVIOUS
<1> HIDE DEF a, mem
<1>5. Formed(a)
  BY <1>3 DEF Formed, FormedStatement, FormedOperand, FormedCall, FormedOperator
<1>6. QED
  BY <1>1, <1>2, <1>3, <1>4, <1>5, StartedKept

LEMMA CloseDeclKept ==
  ASSUME Typing, CloseDecl
  PROVE  Typing' /\ (Values /\ Careful => Values' /\ InstructionsTyped')
<1> DEFINE memory == Ptr(LLVM(Top.needs))
           s == Declared(Top.needs.base, Top.needs.ref, "variable")
<1>1. /\ Got("decl") /\ Return(Rest) /\ UNCHANGED <<status, generateInMem>>
      /\ Top.needs.ref => IsPointer(result)
      /\ symbols' = [symbols EXCEPT ![Top.name] = s]
      /\ result' = IF Top.mem THEN memory ELSE result
      /\ emitted' = {Store(result, memory)}
  BY DEF CloseDecl
<1>2. Top.op = "decl" /\ Top.name \in Names /\ visits # <<>> /\ status = "running"
      /\ result \in LLVMType /\ generateInMem \in BOOLEAN /\ Top.mem \in BOOLEAN
  BY <1>1, GotTyping DEF Formed, FormedStatement
<1>3. PICK t \in Types :
        \/ Top.needs = Value(t) /\ Top.wants = Value(t)
        \/ t \in RefTypes /\ Top.needs = ToRef(t) /\ Top.wants \in Gives(Top.needs)
  BY <1>1, GotTyping DEF Formed, FormedStatement
<1>4. /\ Top.needs \in Wanted /\ Top.needs # Anything /\ Top.needs.base = t /\ t # "any"
      /\ Top.needs.ref \in BOOLEAN /\ (Top.needs.ref => t \in RefTypes)
  <2>1. /\ Value(t) \in Wanted /\ Value(t) # Anything /\ Value(t).base = t /\ Value(t).ref = FALSE
        /\ ToRef(t) \in Wanted /\ ToRef(t) # Anything /\ ToRef(t).base = t /\ ToRef(t).ref = TRUE
    BY WantedTypes DEF Value, ToRef
  <2>2. QED
    BY <1>3, <2>1, TypesOfTypes
<1>5. ~ Top.wants.place /\ Top.wants # Anything
  <2>1. ~ Top.wants.place
    <3>1. ~ Top.needs.place
      BY <1>3, ValuePlace
    <3>2. Top.wants = Top.needs \/ Top.wants \in Gives(Top.needs)
      BY <1>3
    <3>3. QED
      BY <1>4, <3>1, <3>2, ValuePlace
  <2>2. CASE Top.wants = Top.needs
    BY <1>4, <2>1, <2>2
  <2>3. CASE Top.wants # Top.needs
    <3>1. Top.wants = [Top.needs EXCEPT !.base = "int", !.ref = FALSE]
      BY <1>3, <2>3 DEF Gives
    <3>2. Top.wants.base = "int"
      BY <1>4, <3>1 DEF Wanted
    <3>3. QED
      BY <2>1, <3>2, TypesOfTypes DEF Anything, Value
  <2>4. QED
    BY <2>1, <2>2, <2>3
<1>6. result # Void
  BY <1>1, <1>5, GotTyping
<1>7. memory \in LLVMType
  BY <1>4, LLVMTypes
<1>8. emitted' \subseteq Operand /\ result' \in LLVMType
  BY <1>1, <1>2, <1>6, <1>7, LLVMTypes DEF Store, Operand
<1>9. s \in Symbols /\ (IsRef(s) => s.base \in RefTypes)
  BY <1>4, DeclaredType DEF RefKinds
<1> HIDE DEF s
<1>10. symbols' \in [Names -> Symbols] /\ ReferencesTyped(symbols')
  BY <1>1, <1>2, <1>9, DeclareTyping
<1>11. Typing'
  BY <1>1, <1>2, <1>8, <1>10, CloseTyping DEF StatementOps
<1>12. ASSUME Values, Careful
       PROVE  Values' /\ InstructionsTyped'
  <2>1. result = LLVM(Top.wants) /\ ~ generateInMem
    BY <1>1, <1>5, <1>12, GotValue
  <2>2. Top.wants = Top.needs
    <3>1. CASE Top.needs = Value(t) /\ Top.wants = Value(t)
      BY <3>1
    <3>2. CASE t \in RefTypes /\ Top.needs = ToRef(t) /\ Top.wants \in Gives(Top.needs)
      <4>1. Top.needs.ref
        BY <3>2 DEF ToRef
      <4>2. QED
        BY <1>1, <1>4, <2>1, <3>2, <4>1, MistakenType
    <3>3. QED
      BY <1>3, <3>1, <3>2
  <2>3. InstructionsTyped'
    BY <1>1, <2>1, <2>2 DEF InstructionsTyped, Store
  <2>4. Values'
    BY <1>1, <1>2, <1>12, <2>1, CloseValues DEF Careful, StatementOps
  <2>5. QED
    BY <2>3, <2>4
<1>13. QED
  BY <1>11, <1>12

LEMMA CloseStmtKept ==
  ASSUME Typing, CloseStmt
  PROVE  Typing' /\ (Values /\ Careful => Values' /\ InstructionsTyped')
<1>1. PICK op \in {"expr", "return", "condition"} :
        Got(op) /\ emitted' = IF op = "expr" THEN {} ELSE {Typed(result, Top.needs)}
  BY DEF CloseStmt
<1>2. Return(Rest) /\ UNCHANGED <<status, generateInMem, result, symbols>>
  BY DEF CloseStmt
<1>3. /\ visits # <<>> /\ status = "running" /\ Top.op = op /\ op \in StatementOps /\ Formed(Top)
      /\ result \in LLVMType /\ generateInMem \in BOOLEAN
  BY <1>1, GotTyping DEF StatementOps
<1>4. op # "expr" => /\ Top.wants = Top.needs /\ Top.wants # Anything /\ ~ Top.wants.place
                     /\ LLVM(Top.needs) \in LLVMType
  <2>1. \A t \in Types : /\ Value(t) \in Wanted /\ Value(t) # Anything /\ Value(t).base = t
                         /\ ~ Value(t).place
    BY WantedTypes, ValuePlace DEF Value
  <2>2. QED
    BY <1>1, <1>3, <2>1, LLVMTypes, TypesOfTypes DEF Formed, FormedStatement
<1>5. emitted' \subseteq Operand
  BY <1>1, <1>3, <1>4 DEF Typed, Operand
<1>6. symbols' \in [Names -> Symbols] /\ ReferencesTyped(symbols')
  BY <1>2 DEF Typing, TypeOK
<1>7. Typing'
  BY <1>2, <1>3, <1>5, <1>6, CloseTyping
<1>8. ASSUME Values, Careful
      PROVE  Values' /\ InstructionsTyped'
  <2>1. op # "expr" => result = LLVM(Top.wants)
    BY <1>1, <1>4, <1>8, GotValue
  <2>2. InstructionsTyped'
    BY <1>1, <1>4, <2>1 DEF InstructionsTyped, Typed
  <2>3. ~ generateInMem
    <3>1. ~ Top.wants.place
      BY <1>1, <1>3, <1>4, ValuePlace DEF Formed, FormedStatement
    <3>2. QED
      BY <1>1, <1>8, <3>1, GotValues
  <2>4. Values'
    BY <1>2, <1>3, <1>8, <2>3, CloseValues DEF Careful
  <2>5. QED
    BY <2>2, <2>4
<1>9. QED
  BY <1>7, <1>8

\* An exception leaves nothing to be right about.
LEMMA ThrowKept ==
  ASSUME Typing, Throw
  PROVE  Typing' /\ Values' /\ InstructionsTyped'
<1>1. <<>> \in Seq(Activation) /\ Shape(<<>>)
  BY EmptySeq DEF Shape
<1>2. QED
  BY <1>1 DEF Throw, Typing, TypeOK, HasValue, Values, InstructionsTyped

-----------------------------------------------------------------------------
(* The theorems.                                                           *)

LEMMA InitKept == Init => Typing /\ Values /\ InstructionsTyped
<1>1. <<>> \in Seq(Activation) /\ Shape(<<>>)
  BY EmptySeq DEF Shape
<1>2. Undeclared \in Symbols /\ ~ IsRef(Undeclared)
  BY DEF Undeclared, Symbols, IsRef, RefKinds
<1>3. Init => Typing
  BY <1>1, <1>2, LLVMTypes DEF Init, Typing, TypeOK, HasValue, ReferencesTyped
<1>4. Init => Values /\ InstructionsTyped
  BY EmptySeq DEF Init, Values, Flag, Asked, InstructionsTyped
<1>5. QED
  BY <1>3, <1>4

\* One step of each kind.
LEMMA OperandsKept ==
  ASSUME Typing, Operands
  PROVE  Typing' /\ (Values /\ Careful => Values' /\ InstructionsTyped')
<1>1. CASE ConstExpr
  BY <1>1, ConstExprTyping, ConstExprValues
<1>2. CASE ConstStr
  BY <1>2, ConstStrTyping, ConstStrValues
<1>3. CASE Unresolved
  BY <1>3, ThrowKept DEF Unresolved
<1>4. CASE \E n \in Names : ExprVar(n)
  BY <1>4, ExprVarTyping, ExprVarValues
<1>5. CASE \E t \in Types, given \in Gives(Value("object")) : OpenProp(t, given)
  BY <1>5, OpenPropKept
<1>6. CASE CloseProp
  BY <1>6, ClosePropKept
<1>7. CASE \E t \in Types : OpenRef(t)
  BY <1>7, OpenRefKept
<1>8. CASE CloseRef
  BY <1>8, CloseRefKept
<1>9. CASE \E given \in Gives(Place("object")) : OpenDel(given)
  BY <1>9, OpenDelKept
<1>10. CASE \E destructor \in BOOLEAN : CloseDel(destructor)
  BY <1>10, CloseDelKept
<1>11. QED
  BY <1>1, <1>2, <1>3, <1>4, <1>5, <1>6, <1>7, <1>8, <1>9, <1>10 DEF Operands

LEMMA CallsKept ==
  ASSUME Typing, Calls
  PROVE  Typing' /\ (Values /\ Careful => Values' /\ InstructionsTyped')
<1>1. ASSUME NEW p \in Parameters, NEW given \in GivesArgument(p),
             \/ OpenNew(p, given) \/ MethodTarget(p, given) \/ NextArgument(p, given)
             \/ \E gives \in Returns : OpenCall(p, given, gives)
      PROVE  Typing' /\ (Values /\ Careful => Values' /\ InstructionsTyped')
  BY <1>1, OpenNewKept, MethodTargetKept, NextArgumentKept, OpenCallKept
<1>2. CASE \E gives \in Returns : CallNoArguments(gives)
  BY <1>2, CallNoArgumentsKept
<1>3. CASE \E given \in Gives(Value("object")), gives \in Returns : OpenMethod(given, gives)
  BY <1>3, OpenMethodKept
<1>4. CASE \E constructor \in BOOLEAN : NewNoArguments(constructor)
  BY <1>4, NewNoArgumentsKept
<1>5. CASE CloseCall
  BY <1>5, CloseCallKept
<1>6. QED
  BY <1>1, <1>2, <1>3, <1>4, <1>5 DEF Calls

LEMMA OperatorsKept ==
  ASSUME Typing, Operators
  PROVE  Typing' /\ (Values /\ Careful => Values' /\ InstructionsTyped')
<1>1. CASE OpenBinary
  BY <1>1, OpenBinaryKept
<1>2. CASE RightOperand
  BY <1>2, RightOperandKept
<1>3. CASE CloseBinary
  BY <1>3, CloseBinaryKept
<1>4. CASE (\E t \in Types : OpenAssign(Place(t))) \/ (\E t \in RefTypes : OpenAssign(RefItself(t)))
  BY <1>4, OpenAssignKept
<1>5. CASE OpenCompound
  BY <1>5, OpenCompoundKept
<1>6. CASE AssignedValue
  BY <1>6, AssignedValueKept
<1>7. CASE CloseAssign
  BY <1>7, CloseAssignKept
<1>8. CASE CloseCompound
  BY <1>8, CloseCompoundKept
<1>9. QED
  BY <1>1, <1>2, <1>3, <1>4, <1>5, <1>6, <1>7, <1>8 DEF Operators

LEMMA StatementsKept ==
  ASSUME Typing, Statements
  PROVE  Typing' /\ (Values /\ Careful => Values' /\ InstructionsTyped')
<1>1. ASSUME NEW n \in Names, NEW t \in Types, NEW isRef \in BOOLEAN,
             \/ DeclVar(n, t, isRef) \/ DeclFun(n, t, isRef)
             \/ \E given \in Gives(Declares(t, isRef)) : OpenDecl(n, t, isRef, given)
      PROVE  Typing' /\ (Values /\ Careful => Values' /\ InstructionsTyped')
  BY <1>1, DeclVarKept, DeclFunKept, OpenDeclKept
<1>2. CASE CloseDecl
  BY <1>2, CloseDeclKept
<1>3. CASE OpenStmt("expr", Anything)
  BY <1>3, OpenStmtKept
<1>4. CASE OpenStmt("condition", Number)
  BY <1>4, OpenStmtKept, TypesOfTypes DEF Number
<1>5. CASE \E t \in Types : OpenStmt("return", Value(t))
  BY <1>5, OpenStmtKept
<1>6. CASE CloseStmt
  BY <1>6, CloseStmtKept
<1>7. QED
  BY <1>1, <1>2, <1>3, <1>4, <1>5, <1>6 DEF Statements

LEMMA NextKept ==
  ASSUME Typing, [Next]_vars
  PROVE  Typing' /\ (Values /\ InstructionsTyped /\ Careful => Values' /\ InstructionsTyped')
<1>1. CASE UNCHANGED vars
  BY <1>1 DEF vars, Typing, TypeOK, HasValue, Values, InstructionsTyped, Top
<1>2. CASE Operands
  BY <1>2, OperandsKept
<1>3. CASE Calls
  BY <1>3, CallsKept
<1>4. CASE Operators
  BY <1>4, OperatorsKept
<1>5. CASE Statements
  BY <1>5, StatementsKept
<1>6. CASE TypeThrows
  BY <1>6, ThrowKept DEF TypeThrows
<1>7. QED
  BY <1>1, <1>2, <1>3, <1>4, <1>5, <1>6 DEF Next, Finished

\* The types of the visitors' state, for every program, careful or not: no handler uses
\* a value where there is none, or a name that is not declared.
THEOREM TypeCorrect == Spec => []TypeOK
<1>1. Init => Typing
  BY InitKept
<1>2. Typing /\ [Next]_vars => Typing'
  BY NextKept
<1>3. Typing => TypeOK
  BY DEF Typing
<1>4. QED
  BY <1>1, <1>2, <1>3, PTL DEF Spec

LEMMA InductiveInvariant == Careful => (Spec => []IInv)
<1> SUFFICES ASSUME Careful PROVE Spec => []IInv
  OBVIOUS
<1>1. Init => IInv
  BY InitKept DEF IInv
<1>2. IInv /\ [Next]_vars => IInv'
  BY NextKept DEF IInv
<1>3. QED
  BY <1>1, <1>2, PTL DEF Spec

LEMMA IInvValueAsAsked == IInv => ValueAsAsked
<1> SUFFICES ASSUME IInv, visits # <<>>, Top.at = "has", ~ Top.wants.place, Top.wants # Anything
             PROVE  result = LLVM(Top.wants)
  BY DEF ValueAsAsked
<1>1. status = "running"
  BY DEF IInv, Typing, TypeOK
<1>2. Got(Top.op)
  BY <1>1 DEF Got
<1>3. QED
  BY <1>2, GotValue DEF IInv

\* Where careful programs want a value they get one of the type that is written there,
\* however the visits in between set generateInMem.
THEOREM ValuesAreAsAsked == Careful => (Spec => []ValueAsAsked)
<1> SUFFICES ASSUME Careful PROVE Spec => []ValueAsAsked
  OBVIOUS
<1>1. Spec => []IInv
  BY InductiveInvariant
<1>2. QED
  BY <1>1, IInvValueAsAsked, PTL

\* All instructions of careful programs have operands of the types LLVM requires.
THEOREM InstructionsAreTyped == Careful => (Spec => []InstructionsTyped)
<1> SUFFICES ASSUME Careful PROVE Spec => []InstructionsTyped
  OBVIOUS
<1>1. Spec => []IInv
  BY InductiveInvariant
<1>2. IInv => InstructionsTyped
  BY DEF IInv
<1>3. QED
  BY <1>1, <1>2, PTL

-----------------------------------------------------------------------------
(* Mistakes.                                                               *)

\* The handler on top goes on with what it has got.
Accepts ==
  \/ (Top.op = "prop" \/ (Top.op = "method" /\ Top.step = 1)) /\ IsObject(result)
  \/ Top.op = "delete" /\ IsObject(Deref(result))
  \/ /\ Top.op \in {"call", "new"} \/ (Top.op = "method" /\ Top.step = 2)
     /\ Fits(result, Top.needs)
  \/ Top.op = "decl" /\ (Top.needs.ref => IsPointer(result))
  \/ Top.op \in {"expr", "return", "condition", "ref", "binary", "assign", "compound"}

\* A step with what was got is one of the handler that accepts it, or an exception.
LEMMA StepAccepts ==
  ASSUME Typing, Next, visits # <<>>, Top.at = "has"
  PROVE  IF status' = "failed" THEN ~ Accepts ELSE Accepts
<1>1. status = "running"
  BY DEF Typing, TypeOK
<1>2. ASSUME NEW w PROVE ~ Here(w)
  BY DEF Here
<1>3. ~ Between
  BY DEF Between
<1>4. CASE TypeThrows
  <2>1. status' = "failed"
    BY <1>4 DEF TypeThrows, Throw
  <2>2. ~ Accepts
    BY <1>4 DEF TypeThrows, Got, Accepts
  <2>3. QED
    BY <2>1, <2>2
<1>5. CASE Operands
  <2>1. CloseProp \/ CloseRef \/ \E destructor \in BOOLEAN : CloseDel(destructor)
    BY <1>2, <1>5 DEF Operands, ConstExpr, ConstStr, Unresolved, ExprVar, MayName, OpenProp, OpenRef,
                      OpenDel
  <2>2. QED
    BY <1>1, <2>1 DEF CloseProp, CloseRef, CloseDel, Got, Accepts
<1>6. CASE Calls
  <2>1. \/ CloseCall
        \/ \E p \in Parameters : \E given \in GivesArgument(p) :
             MethodTarget(p, given) \/ NextArgument(p, given)
    BY <1>2, <1>6 DEF Calls, OpenNew, OpenCall, CallNoArguments, OpenMethod, NewNoArguments
  <2>2. QED
    BY <1>1, <2>1 DEF CloseCall, MethodTarget, NextArgument, Pass, GotArgument, Got, Accepts
<1>7. CASE Operators
  <2>1. RightOperand \/ CloseBinary \/ AssignedValue \/ CloseAssign \/ CloseCompound
    BY <1>2, <1>7 DEF Operators, OpenBinary, OpenAssign, OpenCompound
  <2>2. QED
    BY <1>1, <2>1 DEF RightOperand, CloseBinary, AssignedValue, CloseAssign, CloseCompound, Got, Accepts
<1>8. CASE Statements
  <2>1. CloseDecl \/ CloseStmt
    BY <1>3, <1>8 DEF Statements, DeclVar, DeclFun, OpenDecl, OpenStmt
  <2>2. QED
    BY <1>1, <2>1 DEF CloseDecl, CloseStmt, Got, Accepts
<1>9. ~ Finished
  BY <1>1 DEF Finished
<1>10. QED
  BY <1>4, <1>5, <1>6, <1>7, <1>8, <1>9 DEF Next

\* The LLVM type of an object, and that of a place of one.
LEMMA ObjectMistaken ==
  /\ \A w \in Gives(Value("object")) : IsObject(LLVM(w)) <=> w = Value("object")
  /\ \A w \in Gives(Place("object")) : IsObject(LLVM(w)) <=> w = Place("object")
<1> DEFINE v == Value("object")
           p == Place("object")
<1>1. v \in Wanted /\ p \in Wanted
  BY WantedTypes, TypesOfTypes
<1>2. v.base = "object" /\ ~ v.ref /\ p.base = "object" /\ ~ p.ref
  BY DEF Value, Place
<1> HIDE DEF v, p
<1>3. \A w \in Wanted : w.base = "object" /\ ~ w.ref => IsObject(LLVM(w))
  BY DEF Wanted, LLVM, IsObject
<1>4. \A w \in Wanted : [w EXCEPT !.base = "int", !.ref = FALSE].base = "int"
  BY DEF Wanted
<1>5. \A w : w.base = "int" => ~ IsObject(LLVM(w))
  BY DEF LLVM, IsObject
<1>6. QED
  BY <1>1, <1>2, <1>3, <1>4, <1>5 DEF Gives, v, p

\* A handler goes on with what it needs, and with nothing else.
LEMMA AcceptsNeeded ==
  ASSUME Typing, Values, visits # <<>>, Top.at = "has", Top.needs # Anything
  PROVE  Accepts <=> Top.wants = Top.needs
<1>1. Got(Top.op) /\ Top.op \in Handlers /\ Formed(Top) /\ Top.step \in {1, 2}
      /\ Top.wants \in Wanted /\ Top.needs \in Wanted
  <2>1. status = "running"
    BY DEF Typing, TypeOK
  <2>2. QED
    BY <2>1, TypingTop DEF Got, Activation
<1>2. CASE Top.op = "prop" \/ (Top.op = "method" /\ Top.step = 1)
  <2>1. Top.needs = Value("object") /\ Top.wants \in Gives(Value("object"))
    BY <1>1, <1>2 DEF Formed, FormedOperand, FormedCall
  <2>2. ~ Top.wants.place /\ Top.wants # Anything
    <3>1. Top.wants.base # "any"
      <4>1. \A w \in Wanted : [w EXCEPT !.base = "int", !.ref = FALSE].base = "int"
        BY DEF Wanted
      <4>2. Value("object").base = "object"
        BY DEF Value
      <4>3. QED
        BY <2>1, <4>1, <4>2, ObjectGiven DEF Gives
    <3>2. QED
      BY <2>1, <3>1, ObjectGiven DEF Anything, Value
  <2>3. result = LLVM(Top.wants)
    BY <1>1, <2>2, GotValue
  <2>4. QED
    BY <1>2, <2>1, <2>3, ObjectMistaken DEF Accepts
<1>3. CASE Top.op = "delete"
  <2>1. Top.needs = Place("object") /\ Top.wants \in Gives(Place("object"))
    BY <1>1, <1>3 DEF Formed, FormedOperand
  <2>2. Top.wants.place /\ Top.wants # Anything
    BY <2>1, ObjectGiven, ValuePlace
  <2>3. result = Ptr(LLVM(Top.wants))
    BY <1>1, <1>3, <2>2, GotValues DEF Suits, IsPlace
  <2>4. LLVM(Top.wants) \in LLVMType /\ LLVM(Top.wants) # Void
    <3>1. Top.wants.base # "any"
      <4>1. \A w \in Wanted : [w EXCEPT !.base = "int", !.ref = FALSE].base = "int"
        BY DEF Wanted
      <4>2. Place("object").base = "object"
        BY DEF Place
      <4>3. QED
        BY <2>1, <4>1, <4>2, ObjectGiven DEF Gives
    <3>2. QED
      BY <1>1, <2>2, <3>1, LLVMTypes
  <2>5. Deref(result) = LLVM(Top.wants)
    BY <2>3, <2>4, Pointers
  <2>6. QED
    BY <1>3, <2>1, <2>5, ObjectMistaken DEF Accepts
<1>4. CASE Top.op \in {"call", "new"} \/ (Top.op = "method" /\ Top.step = 2)
  <2>1. Top.needs \in Parameters /\ Top.wants \in Gives(Top.needs)
    BY <1>1, <1>4 DEF Formed, FormedCall, GivesArgument
  <2>2. PICK t \in Types : Top.needs = Value(t) \/ Top.needs = ToRef(t)
    BY <2>1, TypesOfTypes DEF Parameters
  <2>3. Top.needs.base = t
    BY <2>2 DEF Value, ToRef
  <2>4. ~ Top.wants.place
    BY <2>1, ArgumentValue DEF GivesArgument
  <2>5. Top.wants.base \in Types /\ Top.wants.base # "any"
    <3>1. \A w \in Wanted : [w EXCEPT !.base = "int", !.ref = FALSE].base = "int"
      BY DEF Wanted
    <3>2. QED
      BY <1>1, <2>1, <2>3, <3>1, TypesOfTypes DEF Gives
  <2>6. Top.wants # Anything
    BY <2>5 DEF Anything, Value
  <2>7. result = LLVM(Top.wants) /\ result # Void
    BY <1>1, <2>4, <2>5, <2>6, GotValue, LLVMTypes
  <2>8. Fits(result, Top.needs) <=> Top.wants = Top.needs
    BY <1>1, <2>1, <2>3, <2>7, MistakenType DEF Fits
  <2>9. QED
    BY <1>4, <2>8 DEF Accepts
<1>5. CASE Top.op = "decl"
  <2>1. PICK t \in Types :
          \/ Top.needs = Value(t) /\ Top.wants = Value(t)
          \/ t \in RefTypes /\ Top.needs = ToRef(t) /\ Top.wants \in Gives(Top.needs)
    BY <1>1, <1>5 DEF Formed, FormedStatement
  <2>2. CASE Top.needs = Value(t) /\ Top.wants = Value(t)
    BY <1>5, <2>2 DEF Accepts, Value
  <2>3. CASE Top.needs = ToRef(t) /\ Top.wants \in Gives(Top.needs)
    <3>1. Top.needs.base = t /\ Top.needs.ref
      BY <2>3 DEF ToRef
    <3>2. ~ Top.wants.place
      BY <2>3, ValuePlace
    <3>3. Top.wants # Anything
      <4>1. \A w \in Wanted : [w EXCEPT !.base = "int", !.ref = FALSE].base = "int"
        BY DEF Wanted
      <4>2. Top.wants.base # "any"
        BY <1>1, <2>3, <3>1, <4>1, TypesOfTypes DEF Gives
      <4>3. QED
        BY <4>2 DEF Anything, Value
    <3>4. result = LLVM(Top.wants)
      BY <1>1, <3>2, <3>3, GotValue
    <3>5. QED
      BY <1>1, <1>5, <2>3, <3>1, <3>4, MistakenType DEF Accepts
  <2>4. QED
    BY <2>1, <2>2, <2>3
<1>6. CASE Top.op \in {"expr", "return", "condition", "ref", "binary", "assign", "compound"}
  <2>1. Top.wants = Top.needs
    BY <1>1, <1>6 DEF Formed, FormedStatement, FormedOperand, FormedOperator
  <2>2. QED
    BY <1>6, <2>1 DEF Accepts
<1>7. QED
  BY <1>1, <1>2, <1>3, <1>4, <1>5, <1>6 DEF Handlers

\* In careful programs a number in the place of a reference or an object is rejected by
\* the handler that needs it, and nothing else is.
THEOREM MistakesAreRejected == Careful => (Spec => MistakesRejected)
<1> SUFFICES ASSUME Careful PROVE Spec => MistakesRejected
  OBVIOUS
<1> DEFINE A == visits # <<>> /\ Top.at = "has" /\ Top.needs # Anything =>
                  (status' = "failed" <=> Top.wants # Top.needs)
<1>1. Spec => []IInv
  BY InductiveInvariant
<1>2. IInv /\ [Next]_vars => [A]_vars
  <2> SUFFICES ASSUME IInv, Next, visits # <<>>, Top.at = "has", Top.needs # Anything
               PROVE  status' = "failed" <=> Top.wants # Top.needs
    OBVIOUS
  <2>1. Typing /\ Values
    BY DEF IInv
  <2>2. QED
    BY <2>1, StepAccepts, AcceptsNeeded
<1> HIDE DEF A
<1>3. Spec => [][A]_vars
  BY <1>1, <1>2, PTL DEF Spec
<1>4. QED
  BY <1>3 DEF MistakesRejected, A

=============================================================================
