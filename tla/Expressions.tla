----------------------------- MODULE Expressions -----------------------------
(***************************************************************************)
(* The expression visitors of exo::jit::Codegen (src/exo/jit/codegen.cpp): *)
(* whether an expression's value or its address is generated, and which    *)
(* LLVM type results.                                                      *)
(*                                                                         *)
(* A handler says what it wants by the member generateInMem before it      *)
(* calls accept(): TRUE for an address, FALSE for a value.  Every handler  *)
(* in between overwrites the member, few restore it, and some handlers     *)
(* rely on what an earlier statement left there.                           *)
(*                                                                         *)
(* As in Codegen, `visits' is the recursion, a handler is cut at its calls *)
(* of accept() and the expression that comes next is chosen when it is     *)
(* visited.  What the author of the program writes at a place is given by  *)
(* `wants': programs are well typed, but for a number that may be given    *)
(* where a reference or an object is needed.                               *)
(***************************************************************************)
EXTENDS Naturals, Sequences

CONSTANTS
  Names,           \* the variables of the program
  Types,           \* the types they may have: "int" (any number), "string", "object"
  RefTypes,        \* the types they may be references to
  RefUses,         \* what is done with references: see Uses
  Destructors,     \* must a class whose object is deleted have a destructor?
  ConstructorArgs, \* may an object that is constructed with arguments be used there?
  MaxVisits        \* bound: nested visits

\* The two ways a name becomes a reference, and what can be done with one: read
\* what it refers to, assign to it, assign with an operator, take the address,
\* delete, and make it refer to something else.
RefKinds == {"variable", "parameter"}
Uses     == RefKinds \X {"read", "assign", "compound", "address", "delete", "rebind"}

ASSUME ExpressionsAssumption ==
  /\ Types \subseteq {"int", "string", "object"} /\ {"int", "object"} \subseteq Types
  /\ RefTypes \subseteq Types
  /\ RefUses \subseteq Uses
  /\ Destructors \in BOOLEAN /\ ConstructorArgs \in BOOLEAN
  /\ MaxVisits \in Nat

VARIABLES
  status,         \* "running", or "failed" by an exception
  visits,         \* the handlers that wait for a nested accept(), innermost last
  generateInMem,  \* Codegen::generateInMem
  result,         \* the LLVM type of Codegen::currentResult
  symbols,        \* what the program's names are declared as
  emitted         \* the operands of the instructions the last step generated

vars == <<status, visits, generateInMem, result, symbols, emitted>>

-----------------------------------------------------------------------------
(* Types of the language and of LLVM.                                      *)

\* A type of the language: a reference or not, to be used as a place or a value.
Value(t)   == [base |-> t, ref |-> FALSE, place |-> FALSE]
ToRef(t)   == [base |-> t, ref |-> TRUE,  place |-> FALSE]
Place(t)   == [base |-> t, ref |-> FALSE, place |-> TRUE]
RefItself(t) == [base |-> t, ref |-> TRUE, place |-> TRUE]
Number     == Value("int")
Anything   == Value("any")      \* an expression statement may have any type
Wanted     == [base : Types \cup {"any"}, ref : BOOLEAN, place : BOOLEAN]

\* An LLVM type: what is at the end of `depth' pointers.
Void     == [base |-> "void", depth |-> 0]
LLVMType == [base : Types, depth : Nat] \cup {Void}
Ptr(t)   == [t EXCEPT !.depth = @ + 1]
Deref(t) == [t EXCEPT !.depth = IF @ = 0 THEN 0 ELSE @ - 1]
IsPointer(t) == t.depth > 0
IsObject(t)  == t.base = "object" /\ t.depth = 1

\* getType(): a number is held by value; a string and an object are pointers.
\* A reference is one pointer more.
LLVM(w) == [base |-> w.base,
            depth |-> (IF w.base = "int" THEN 0 ELSE 1) + (IF w.ref THEN 1 ELSE 0)]

\* The operands of instructions, with the type that LLVM requires of them.
Operand == [has : LLVMType, needs : LLVMType]
Load(p)      == [has |-> p, needs |-> Ptr(Deref(p))]
Store(v, p)  == [has |-> Ptr(v), needs |-> p]
Typed(v, w)  == [has |-> v, needs |-> LLVM(w)]

\* "llvm::AllocaInst* memory = builder.CreateAlloca( ... )": a value that is to
\* be in memory is stored to a new place.
InMemory(t, mem) == IF mem THEN Ptr(t) ELSE t
Spill(t, mem)    == IF mem THEN {Store(t, Ptr(t))} ELSE {}

-----------------------------------------------------------------------------
(* Names.                                                                  *)

Undeclared == [base |-> "void", kind |-> "undeclared"]
Symbols    == [base : Types, kind : RefKinds \cup {"plain"}] \cup {Undeclared}

\* What Stack::Get returns: the alloca of a variable, which holds a pointer if
\* it is a reference, or the argument itself if that is passed by reference.
Slot(s) == [base |-> s.base,
            depth |-> LLVM(Value(s.base)).depth + (IF s.kind = "variable" THEN 2 ELSE 1)]

IsRef(s) == s.kind \in RefKinds

-----------------------------------------------------------------------------
(* The recursion.                                                          *)

Handlers == {"expr", "return", "condition", "decl", "prop", "ref", "delete",
             "new", "call", "method", "binary", "assign", "compound"}

Activation ==
  [op : Handlers, at : {"waits", "has"},
   step : {1, 2},          \* which of its operands it waits for
   wants : Wanted,         \* what the author gives it
   needs : Wanted,         \* what it needs there
   gives : Wanted,         \* what the expression itself is
   mem : BOOLEAN,          \* its local inMem
   held : LLVMType,        \* its local lhs, variable or object
   name : Names \cup {"none"}]

Waiting(op, wants, needs, gives) ==
  [op |-> op, at |-> "waits", step |-> 1, wants |-> wants, needs |-> needs,
   gives |-> gives, mem |-> generateInMem, held |-> Void,
   name |-> "none"]

Top  == visits[Len(visits)]
Rest == SubSeq(visits, 1, Len(visits) - 1)

\* What an author may give for what is needed: it, or mistakenly a number.
Gives(needed) == {needed, [needed EXCEPT !.base = "int", !.ref = FALSE]}

\* The type of a place that is only ever read or written as a value.
Plain(w) == [w EXCEPT !.place = FALSE]

\* The handler on top waits for an expression and one of this type may stand
\* there; a place may stand where a value is wanted.
Here(w) ==
  /\ status = "running"
  /\ visits # <<>>
  /\ Top.at = "waits"
  /\ \/ Top.wants = Anything
     \/ Plain(Top.wants) = Plain(w) /\ (Top.wants.place => w.place)

\* The handler on top got what it waited for.
Got(op) ==
  /\ status = "running"
  /\ visits # <<>>
  /\ Top.at = "has"
  /\ Top.op = op

\* A visit returns to the handler in v that waits for it.
Return(v) == visits' = IF v = <<>> THEN v ELSE [v EXCEPT ![Len(v)].at = "has"]

\* A handler calls accept(), having set generateInMem to mem.
Nest(activation, mem) ==
  /\ Len(visits) < MaxVisits
  /\ visits' = Append(visits, activation)
  /\ generateInMem' = mem

\* The same handler calls accept() again, keeping the last result.
Again(wants, mem) ==
  /\ visits' = [visits EXCEPT ![Len(visits)] =
                  [@ EXCEPT !.at = "waits", !.step = 2, !.wants = wants,
                            !.needs = wants, !.held = result]]
  /\ generateInMem' = mem

\* An exception leaves all the handlers that wait.
Throw == /\ status' = "failed"
         /\ visits' = <<>>
         /\ emitted' = {}
         /\ UNCHANGED <<generateInMem, result, symbols>>

-----------------------------------------------------------------------------
(* Constants and variables.                                                *)

\* visit( ConstInt& ), visit( ConstFloat& ), visit( ConstBool& ) and
\* visit( ConstNull& )
ConstExpr ==
  /\ Here(Number)
  /\ result' = InMemory(LLVM(Number), generateInMem)
  /\ emitted' = Spill(LLVM(Number), generateInMem)
  /\ Return(visits)
  /\ UNCHANGED <<status, generateInMem, symbols>>

\* A string is the pointer to its characters, wherever it is wanted.
ConstStr ==
  /\ "string" \in Types
  /\ Here(Value("string"))
  /\ result' = LLVM(Value("string"))
  /\ emitted' = {}
  /\ Return(visits)
  /\ UNCHANGED <<status, generateInMem, symbols>>

\* What the handler on top is going to do with the name it waits for.
Use == IF ~ Top.wants.place THEN "read"
       ELSE IF Top.wants.ref THEN "rebind"
       ELSE CASE Top.op = "ref" -> "address"
              [] Top.op = "delete" -> "delete"
              [] Top.op = "compound" -> "compound"
              [] OTHER -> "assign"

\* A program refers to a declared name; one that is a reference is only put to
\* the uses under study, and nothing else can be made to refer elsewhere.
MayName(s) ==
  /\ s # Undeclared
  /\ \/ Here(Place(s.base))
     \/ Here(RefItself(s.base)) /\ Top.wants.place
  /\ IF IsRef(s) THEN <<s.kind, Use>> \in RefUses ELSE Use # "rebind"

\* visit( ExprVar& )
ExprVar(n) ==
  LET slot == Slot(symbols[n])
      follow == IsRef(symbols[n]) /\ ~ generateInMem
      place == IF follow THEN Deref(slot) ELSE slot
  IN  /\ MayName(symbols[n])
      /\ result' = IF generateInMem THEN place ELSE Deref(place)
      /\ emitted' = (IF follow THEN {Load(slot)} ELSE {})
                     \cup (IF generateInMem THEN {} ELSE {Load(place)})
      /\ Return(visits)
      /\ UNCHANGED <<status, generateInMem, symbols>>

\* UnknownVar, UnknownFunction, UnknownClass, UnknownProperty, a method that no
\* class has, "Expected parameters mismatch" and "Constructor not found".
Unresolved ==
  /\ status = "running"
  /\ visits # <<>>
  /\ Top.at = "waits"
  /\ Throw

-----------------------------------------------------------------------------
(* Properties, references, delete.                                         *)

\* visit( ExprProp& ), of a property of type t
OpenProp(t, given) ==
  /\ Here(Place(t))
  /\ Nest(Waiting("prop", given, Value("object"), Place(t)), FALSE)
  /\ emitted' = {}
  /\ UNCHANGED <<status, result, symbols>>

CloseProp ==
  LET place == Ptr(LLVM(Top.gives))
  IN  /\ Got("prop")
      /\ IsObject(result)
      /\ result' = IF Top.mem THEN place ELSE Deref(place)
      /\ emitted' = IF Top.mem THEN {} ELSE {Load(place)}
      /\ Return(Rest)
      /\ UNCHANGED <<status, generateInMem, symbols>>

\* visit( OpUnaryRef& )
OpenRef(t) ==
  /\ Here(ToRef(t))
  /\ Nest(Waiting("ref", Place(t), Place(t), ToRef(t)), TRUE)
  /\ emitted' = {}
  /\ UNCHANGED <<status, result, symbols>>

\* A reference that left generateInMem as it had set it.
CloseRefForgetful ==
  /\ Got("ref")
  /\ emitted' = {}
  /\ Return(Rest)
  /\ UNCHANGED <<status, generateInMem, result, symbols>>

CloseRef ==
  /\ Got("ref")
  /\ generateInMem' = Top.mem
  /\ emitted' = {}
  /\ Return(Rest)
  /\ UNCHANGED <<status, result, symbols>>

\* visit( OpUnaryDel& )
OpenDel(given) ==
  /\ Here(Anything)
  /\ Nest(Waiting("delete", given, Place("object"), Anything), TRUE)
  /\ emitted' = {}
  /\ UNCHANGED <<status, result, symbols>>

\* The call of the destructor, and no more, sets generateInMem to false.
CloseDel(destructor) ==
  /\ Got("delete")
  /\ Destructors => destructor
  /\ IsObject(Deref(result))
  /\ generateInMem' = (generateInMem /\ ~ destructor)
  /\ emitted' = {Load(result), Store(Deref(result), result)}
  /\ Return(Rest)
  /\ UNCHANGED <<status, result, symbols>>

-----------------------------------------------------------------------------
(* Calls: invokeFunction() and invokeMethod().                             *)

\* The parameters of a function; an argument that a vararg function takes beyond
\* its parameters is Anything.
Parameters == {Value(t) : t \in Types} \cup {ToRef(t) : t \in RefTypes} \cup {Anything}

\* What a function may return; Anything is no value.
Returns == {Value(t) : t \in Types} \cup {Anything}

\* What an author may give for a parameter.
GivesArgument(p) == IF p = Anything THEN {Value(t) : t \in Types} ELSE Gives(p)

\* A call that took any argument with a value.
FitsAny(value, p) == value # Void

\* The check of an argument: the type's kind, and object for object.
Fits(value, p) ==
  \/ p = Anything
  \/ /\ value # Void
     /\ IsPointer(value) = IsPointer(LLVM(p))
     /\ IsObject(LLVM(p)) => IsObject(value)

Passed(a) == Typed(result, IF a.needs = Anything THEN a.wants ELSE a.needs)

\* A call that never asked whether the function returns anything.
CalledForValue(op, gives, mem) ==
  IF op = "new" THEN result ELSE InMemory(LLVM(gives), mem)

\* The value of the call, in memory if mem; new has no use for it and keeps the
\* last result, the object's if there was no argument.
Called(op, gives, mem) ==
  IF op = "new" THEN result
  ELSE IF gives = Anything THEN Void
  ELSE InMemory(LLVM(gives), mem)
CallSpill(op, gives, mem) ==
  IF op = "new" \/ gives = Anything THEN {} ELSE Spill(LLVM(gives), mem)

\* visit( ExprCallFun& ), with a first argument for p
OpenCall(p, given, gives) ==
  /\ Here(gives)
  /\ Nest(Waiting("call", given, p, gives), FALSE)
  /\ emitted' = {}
  /\ UNCHANGED <<status, result, symbols>>

\* A call without arguments nests no visit.
CallNoArguments(gives) ==
  /\ Here(gives)
  /\ generateInMem' = FALSE
  /\ result' = Called("call", gives, generateInMem)
  /\ emitted' = CallSpill("call", gives, generateInMem)
  /\ Return(visits)
  /\ UNCHANGED <<status, symbols>>

\* visit( ExprCallMethod& )
OpenMethod(given, gives) ==
  /\ Here(gives)
  /\ Nest(Waiting("method", given, Value("object"), gives), FALSE)
  /\ emitted' = {}
  /\ UNCHANGED <<status, result, symbols>>

\* visit( OpUnaryNew& ): the constructor's arguments are visited when the
\* object's memory is the current result.
OpenNew(p, given) ==
  /\ Here(Value("object"))
  /\ ~ ConstructorArgs => Top.wants = Anything
  /\ Nest(Waiting("new", given, p, Value("object")), FALSE)
  /\ result' = LLVM(Value("object"))
  /\ emitted' = {}
  /\ UNCHANGED <<status, symbols>>

\* Without arguments, or without a constructor to call.
NewNoArguments(constructor) ==
  /\ Here(Value("object"))
  /\ result' = LLVM(Value("object"))
  /\ generateInMem' = (generateInMem /\ ~ constructor)
  /\ emitted' = {}
  /\ Return(visits)
  /\ UNCHANGED <<status, symbols>>

\* The handler on top goes on to an argument for p.
Pass(p, given, mem) ==
  /\ visits' = [visits EXCEPT ![Len(visits)] =
                  [@ EXCEPT !.at = "waits", !.step = 2, !.wants = given,
                            !.needs = p]]
  /\ generateInMem' = mem
  /\ UNCHANGED <<status, result, symbols>>

\* The object a method is called on has been visited: its arguments are next.
MethodTarget(p, given) ==
  /\ Got("method") /\ Top.step = 1
  /\ IsObject(result)
  /\ emitted' = {}
  /\ Pass(p, given, FALSE)

\* The handler on top got an argument it passes on.
GotArgument ==
  /\ \/ Got("call") \/ Got("new")
     \/ Got("method") /\ Top.step = 2
  /\ Fits(result, Top.needs)

\* generateInMem is set before the first parameter and before the arguments
\* beyond the parameters, not for every argument.
NextArgument(p, given) ==
  /\ GotArgument
  /\ Top.needs = Anything => p = Anything
  /\ emitted' = {Passed(Top)}
  /\ Pass(p, given, generateInMem /\ (Top.needs = Anything \/ p # Anything))

\* generateInMem is cleared after the parameters, and left as the last argument beyond
\* them left it.
CloseCall ==
  /\ \/ /\ GotArgument
        /\ emitted' = {Passed(Top)} \cup CallSpill(Top.op, Top.gives, Top.mem)
        /\ generateInMem' = (generateInMem /\ Top.needs = Anything)
     \/ /\ Got("method") /\ Top.step = 1 /\ IsObject(result)
        /\ emitted' = CallSpill(Top.op, Top.gives, Top.mem)
        /\ generateInMem' = FALSE
  /\ result' = Called(Top.op, Top.gives, Top.mem)
  /\ Return(Rest)
  /\ UNCHANGED <<status, symbols>>

-----------------------------------------------------------------------------
(* Operators.                                                              *)

\* visit( OpBinaryAdd& ) and the other nine: both operands are visited with the
\* one setting of generateInMem.
OpenBinary ==
  /\ Here(Number)
  /\ Nest(Waiting("binary", Number, Number, Number), FALSE)
  /\ emitted' = {}
  /\ UNCHANGED <<status, result, symbols>>

RightOperand ==
  /\ Got("binary") /\ Top.step = 1
  /\ Again(Number, generateInMem)
  /\ emitted' = {}
  /\ UNCHANGED <<status, result, symbols>>

CloseBinary ==
  /\ Got("binary") /\ Top.step = 2
  /\ result' = InMemory(LLVM(Number), Top.mem)
  /\ emitted' = {Typed(Top.held, Number), Typed(result, Number)}
                 \cup Spill(LLVM(Number), Top.mem)
  /\ Return(Rest)
  /\ UNCHANGED <<status, generateInMem, symbols>>

\* visit( OpBinaryAssign& ), to a place of type t or to a reference itself
OpenAssign(to) ==
  /\ Here(IF to.ref THEN Plain(to) ELSE to)
  /\ Nest(Waiting("assign", to, to, to), TRUE)
  /\ emitted' = {}
  /\ UNCHANGED <<status, result, symbols>>

\* visit( OpBinaryAssignAdd& ), Mul, Div and Sub
OpenCompound ==
  /\ Here(Place("int"))
  /\ Nest(Waiting("compound", Place("int"), Place("int"), Place("int")), TRUE)
  /\ emitted' = {}
  /\ UNCHANGED <<status, result, symbols>>

AssignedValue ==
  /\ Got("assign") \/ Got("compound")
  /\ Top.step = 1
  /\ Again(Plain(Top.wants), FALSE)
  /\ emitted' = {}
  /\ UNCHANGED <<status, result, symbols>>

\* An assignment that never followed a reference.
CloseAssignDirect ==
  /\ Got("assign") /\ Top.step = 2
  /\ result' = IF Top.mem THEN Top.held ELSE result
  /\ emitted' = {Store(result, Top.held)}
  /\ Return(Rest)
  /\ UNCHANGED <<status, generateInMem, symbols>>

\* "dereference our reference in assigments": a value that is no pointer goes to
\* where the variable points to, if it does.
CloseAssign ==
  LET follow == IsPointer(Deref(Top.held)) /\ ~ IsPointer(result)
      variable == IF follow THEN Deref(Top.held) ELSE Top.held
  IN  /\ Got("assign") /\ Top.step = 2
      /\ result' = IF Top.mem THEN variable ELSE result
      /\ emitted' = {Store(result, variable)} \cup IF follow THEN {Load(Top.held)} ELSE {}
      /\ Return(Rest)
      /\ UNCHANGED <<status, generateInMem, symbols>>

CloseCompound ==
  /\ Got("compound") /\ Top.step = 2
  /\ result' = IF Top.mem THEN Top.held ELSE LLVM(Number)
  /\ emitted' = {Load(Top.held), Typed(Deref(Top.held), Number),
                  Typed(result, Number), Store(LLVM(Number), Top.held)}
  /\ Return(Rest)
  /\ UNCHANGED <<status, generateInMem, symbols>>

-----------------------------------------------------------------------------
(* Declarations and statements.                                            *)

Between == status = "running" /\ visits = <<>>

Fresh(n, t, isRef) == symbols[n] = Undeclared /\ (isRef => t \in RefTypes)
Declared(t, isRef, kind) == [base |-> t, kind |-> IF isRef THEN kind ELSE "plain"]
Declares(t, isRef) == IF isRef THEN ToRef(t) ELSE Value(t)

\* visit( DeclVar& ) without an initializer
DeclVar(n, t, isRef) ==
  /\ Between
  /\ Fresh(n, t, isRef)
  /\ symbols' = [symbols EXCEPT ![n] = Declared(t, isRef, "variable")]
  /\ result' = InMemory(LLVM(Declares(t, isRef)), generateInMem)
  /\ emitted' = {}
  /\ UNCHANGED <<status, visits, generateInMem>>

OpenDecl(n, t, isRef, given) ==
  /\ Between
  /\ Fresh(n, t, isRef)
  /\ ~ isRef => given = Value(t)
  /\ Nest([Waiting("decl", given, Declares(t, isRef), Declares(t, isRef))
             EXCEPT !.name = n], FALSE)
  /\ emitted' = {}
  /\ UNCHANGED <<status, result, symbols>>

\* "Can only assign variables by reference": anything with an address will do.
CloseDecl ==
  LET memory == Ptr(LLVM(Top.needs))
  IN  /\ Got("decl")
      /\ Top.needs.ref => IsPointer(result)
      /\ symbols' = [symbols EXCEPT ![Top.name] =
                       Declared(Top.needs.base, Top.needs.ref, "variable")]
      /\ result' = IF Top.mem THEN memory ELSE result
      /\ emitted' = {Store(result, memory)}
      /\ Return(Rest)
      /\ UNCHANGED <<status, generateInMem>>

\* visit( DeclFun& ): an argument is declared and the body starts.
DeclFun(n, t, isRef) ==
  /\ Between
  /\ Fresh(n, t, isRef)
  /\ symbols' = [symbols EXCEPT ![n] = Declared(t, isRef, "parameter")]
  /\ generateInMem' = FALSE
  /\ emitted' = {}
  /\ UNCHANGED <<status, visits, result>>

\* visit( StmtExpr& ) and visit( StmtReturn& ) leave generateInMem as it is; the
\* condition of an if, a loop, a switch or a label sets it.
OpenStmt(op, w) ==
  /\ Between
  /\ Nest(Waiting(op, w, w, w), op # "condition" /\ generateInMem)
  /\ emitted' = {}
  /\ UNCHANGED <<status, result, symbols>>

CloseStmt ==
  /\ \/ Got("expr") /\ emitted' = {}
     \/ (Got("return") \/ Got("condition")) /\ emitted' = {Typed(result, Top.needs)}
  /\ Return(Rest)
  /\ UNCHANGED <<status, generateInMem, result, symbols>>

\* What a handler finds that it cannot go on with: "Expecting object", "type
\* mismatch", "Can only assign variables by reference".
TypeThrows ==
  /\ \/ (Got("prop") \/ (Got("method") /\ Top.step = 1)) /\ ~ IsObject(result)
     \/ Got("delete") /\ ~ IsObject(Deref(result))
     \/ /\ Got("call") \/ Got("new") \/ (Got("method") /\ Top.step = 2)
        /\ ~ Fits(result, Top.needs)
     \/ Got("decl") /\ Top.needs.ref /\ ~ IsPointer(result)
  /\ Throw

-----------------------------------------------------------------------------

Init ==
  /\ status = "running"
  /\ visits = <<>>
  /\ generateInMem = FALSE
  /\ result = Void
  /\ symbols = [n \in Names |-> Undeclared]
  /\ emitted = {}

Operands ==
  \/ ConstExpr \/ ConstStr \/ Unresolved
  \/ \E n \in Names : ExprVar(n)
  \/ \E t \in Types, given \in Gives(Value("object")) : OpenProp(t, given)
  \/ CloseProp
  \/ \E t \in Types : OpenRef(t)
  \/ CloseRef
  \/ \E given \in Gives(Place("object")) : OpenDel(given)
  \/ \E destructor \in BOOLEAN : CloseDel(destructor)

Calls ==
  \/ \E p \in Parameters : \E given \in GivesArgument(p) :
       \/ OpenNew(p, given) \/ MethodTarget(p, given) \/ NextArgument(p, given)
       \/ \E gives \in Returns : OpenCall(p, given, gives)
  \/ \E gives \in Returns : CallNoArguments(gives)
  \/ \E given \in Gives(Value("object")), gives \in Returns : OpenMethod(given, gives)
  \/ \E constructor \in BOOLEAN : NewNoArguments(constructor)
  \/ CloseCall

Operators ==
  \/ OpenBinary \/ RightOperand \/ CloseBinary
  \/ \E t \in Types : OpenAssign(Place(t))
  \/ \E t \in RefTypes : OpenAssign(RefItself(t))
  \/ OpenCompound \/ AssignedValue \/ CloseAssign \/ CloseCompound

Statements ==
  \/ \E n \in Names, t \in Types, isRef \in BOOLEAN :
       \/ DeclVar(n, t, isRef) \/ DeclFun(n, t, isRef)
       \/ \E given \in Gives(Declares(t, isRef)) : OpenDecl(n, t, isRef, given)
  \/ CloseDecl
  \/ OpenStmt("expr", Anything) \/ OpenStmt("condition", Number)
  \/ \E t \in Types : OpenStmt("return", Value(t))
  \/ CloseStmt

\* The exception has ended the compilation.
Finished == status = "failed" /\ UNCHANGED vars

Next == Operands \/ Calls \/ Operators \/ Statements \/ TypeThrows \/ Finished

Spec == Init /\ [][Next]_vars
=============================================================================
