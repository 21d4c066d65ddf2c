------------------------------- MODULE Classes -------------------------------
(***************************************************************************)
(* Classes in exo::jit::Codegen (src/exo/jit/codegen.cpp): how the tables  *)
(* `properties' and `methods' and the struct types grow while classes are  *)
(* declared, and what the uses of a class compiled meanwhile are bound to. *)
(*                                                                         *)
(* visit( DeclClass& ) is cut where it calls accept(): for a property's    *)
(* initializer and for a method.  A class may be declared in a method of   *)
(* another, and, where a module is used twice, once more with the same     *)
(* text.                                                                   *)
(***************************************************************************)
EXTENDS Naturals, Sequences, FiniteSets

CONSTANTS
  ClassNames, PropNames, MethodNames, Types,
  NoClass,             \* the parent of a class that extends none
  Construct, Destruct, \* the methods __construct and __destruct
  EarlyUses,           \* may what is not yet declared of a class be used?
  MaxMembers,          \* bound: members of all classes
  MaxTimes,            \* bound: how often a class is declared
  MaxUses,             \* bound: uses that are followed
  MaxVisits            \* bound: nested visits, a member's visit in a class's

ASSUME ClassesAssumption ==
  /\ NoClass \notin ClassNames
  /\ {Construct, Destruct} \subseteq MethodNames
  /\ EarlyUses \in BOOLEAN
  /\ {MaxMembers, MaxTimes, MaxUses, MaxVisits} \subseteq Nat

VARIABLES
  status,     \* "running", or "failed" by an exception
  visits,     \* the handlers that wait for a nested accept(), innermost last
  types,      \* the struct type of each class: what getTypeByName() finds
  properties, \* Codegen::properties: the positions
  methods,    \* Codegen::methods
  functions,  \* how many functions were created under a method's name
  text,       \* what the author wrote of each class, and how often it was visited
  compiled    \* the uses of members compiled so far

vars == <<status, visits, types, properties, methods, functions, text, compiled>>

-----------------------------------------------------------------------------
(* Maps, and positions and slots, which count from 1 here.                 *)

NoEntries == [x \in {} |-> x]
With(map, key, value) ==
  [x \in DOMAIN map \cup {key} |-> IF x = key THEN value ELSE map[x]]

\* operator[] of a map of maps
Entry(table, c) == IF c \in DOMAIN table THEN table[c] ELSE NoEntries

-----------------------------------------------------------------------------
(* The recursion.                                                          *)

Property(p, t, init) == [kind |-> "property", name |-> p, type |-> t, init |-> init]
Method(m)            == [kind |-> "method", name |-> m]
Member == [kind : {"property"}, name : PropNames, type : Types, init : BOOLEAN]
          \cup [kind : {"method"}, name : MethodNames]

ClassVisit  == [op : {"class"}, name : ClassNames, elems : Seq(Types),
                again : BOOLEAN, member : Nat, phase : {"properties", "methods"}]
MemberVisit == [op : {"member"}, member : Member]

Top == visits[Len(visits)]

\* The class whose member is being visited, or the one on top, in visits.
Inner == IF Top.op = "class" THEN Len(visits) ELSE Len(visits) - 1

AtClass  == status = "running" /\ visits # <<>> /\ Top.op = "class"
AtMember(kind) == /\ status = "running" /\ visits # <<>>
                  /\ Top.op = "member" /\ Top.member.kind = kind

\* Statements stand in the tree and in methods, expressions in initializers, too.
AtStatement  == AtMember("method") \/ (status = "running" /\ visits = <<>>)
AtExpression == AtStatement \/ AtMember("property")

Declaring   == {visits[i].name : i \in {j \in DOMAIN visits : visits[j].op = "class"}}
Finished(c) == c \in DOMAIN types /\ c \notin Declaring

\* All the properties of the class are there: its methods may use them.
HasProperties(c) ==
  /\ c \in DOMAIN types
  /\ \A i \in DOMAIN visits :
       visits[i].op = "class" /\ visits[i].name = c => visits[i].phase = "methods"

\* No later member of the class declares the method, or the class does it again.
HasMethod(c, m) ==
  \/ Finished(c)
  \/ HasProperties(c) /\ m \in DOMAIN Entry(methods, c) /\ methods[c][m].function.class = c

\* The members of all classes.
Written == UNION {{c} \X DOMAIN text[c].members : c \in DOMAIN text}

\* The author's next member of the class a is mb: any, the first time.
Writes(a, mb) ==
  /\ mb.kind = "property" => a.phase = "properties"
  /\ IF a.again THEN /\ a.member < Len(text[a.name].members)
                     /\ text[a.name].members[a.member + 1] = mb
     ELSE Cardinality(Written) < MaxMembers

Wrote(a, mb) ==
  text' = IF a.again THEN text ELSE [text EXCEPT ![a.name].members = Append(@, mb)]

\* Nothing is left but the class a, its member visited.
Back(a, elems) ==
  visits' = Append(SubSeq(visits, 1, Inner - 1),
                   [a EXCEPT !.elems = elems, !.member = @ + 1])

\* Nothing reads what is left, and what was compiled is dropped.
Throw == /\ status' = "failed"
         /\ compiled' = {}
         /\ UNCHANGED <<visits, types, properties, methods, functions, text>>

-----------------------------------------------------------------------------
(* visit( DeclClass& )                                                     *)

Opaque == [sized |-> FALSE, elems |-> <<>>]

\* An inheritance that copied the parent's table only if it had one.
InheritedIfAny(table, c, parent) ==
  IF parent \notin DOMAIN table THEN table ELSE With(table, c, table[parent])

\* "if we have a parent, do inherit properties and methods": reading the parent's
\* table creates it.
Inherited(table, c, parent) ==
  IF parent = NoClass THEN table
  ELSE With(With(table, parent, Entry(table, parent)), c, Entry(table, parent))

\* A class that extends itself finds its own struct type, still without elements.
InheritedElems(parent) ==
  IF parent \in DOMAIN types THEN types[parent].elems ELSE <<>>

\* A struct type of a name that is taken is given another, and never found.
OpenClass(c, parent) ==
  LET again == c \in DOMAIN types
  IN  /\ AtStatement /\ Len(visits) + 1 < MaxVisits
      /\ c \notin Declaring
      /\ parent \in {NoClass, c} \/ Finished(parent) \/ (EarlyUses /\ parent \in DOMAIN types)
      /\ again => text[c].parent = parent /\ text[c].times < MaxTimes
      /\ types' = IF again THEN types ELSE With(types, c, Opaque)
      /\ properties' = Inherited(properties, c, parent)
      /\ methods' = Inherited(methods, c, parent)
      /\ visits' = Append(visits, [op |-> "class", name |-> c,
                     elems |-> InheritedElems(parent), again |-> again,
                     member |-> 0, phase |-> "properties"])
      /\ text' = IF again THEN [text EXCEPT ![c].times = @ + 1]
                 ELSE With(text, c, [parent |-> parent, members |-> <<>>, times |-> 1])
      /\ UNCHANGED <<status, functions, compiled>>

UnknownParent(c, parent) ==
  /\ AtStatement
  /\ c \notin Declaring /\ parent \notin DOMAIN types \cup {c}
  /\ Throw

\* A position that was always a new one.
PositionNew(entry, p, elems) == Len(elems) + 1

\* A new position that was off by one.
PositionLast(entry, p, elems) ==
  IF p \in DOMAIN entry /\ entry[p] \in DOMAIN elems THEN entry[p]
  ELSE IF elems = <<>> THEN 1 ELSE Len(elems)

\* The position that the class, or its parent, has for the property, if the struct
\* reaches that far.
Position(entry, p, elems) ==
  IF p \in DOMAIN entry /\ entry[p] \in DOMAIN elems THEN entry[p] ELSE Len(elems) + 1

\* An element that kept the type of the property that is hidden.
LaidKept(elems, position, type) ==
  IF position \in DOMAIN elems THEN elems ELSE Append(elems, type)

\* A property that hides another gives the element its own type.
Laid(elems, position, type) ==
  IF position \in DOMAIN elems THEN [elems EXCEPT ![position] = type]
  ELSE Append(elems, type)

AddProperty(a, mb) ==
  LET entry    == Entry(properties, a.name)
      position == Position(entry, mb.name, a.elems)
  IN  /\ Back(a, Laid(a.elems, position, mb.type))
      /\ properties' = With(properties, a.name, With(entry, mb.name, position))
      /\ Wrote(a, mb)
      /\ UNCHANGED <<status, types, methods, functions, compiled>>

DeclProperty(p, t) ==
  /\ AtClass
  /\ Writes(Top, Property(p, t, FALSE))
  /\ AddProperty(Top, Property(p, t, FALSE))

\* A property's initializer is visited before it has a position.
OpenInitializer(p, t) ==
  /\ AtClass
  /\ Writes(Top, Property(p, t, TRUE))
  /\ visits' = Append(visits, [op |-> "member", member |-> Property(p, t, TRUE)])
  /\ UNCHANGED <<status, types, properties, methods, functions, text, compiled>>

CloseInitializer ==
  /\ AtMember("property")
  /\ AddProperty(visits[Inner], Top.member)

\* structr->setBody( elems ), once for all the methods
SetBody(a) ==
  types' = IF a.again THEN types
           ELSE [types EXCEPT ![a.name] = [sized |-> TRUE, elems |-> a.elems]]

\* A function of a name that is taken is given another, too.
OpenMethod(m) ==
  LET name == <<Top.name, m>>
  IN  /\ AtClass
      /\ Writes(Top, Method(m))
      /\ SetBody(Top)
      /\ functions' = With(functions, name,
                           IF name \in DOMAIN functions THEN functions[name] + 1 ELSE 1)
      /\ visits' = Append([visits EXCEPT ![Len(visits)].phase = "methods"],
                          [op |-> "member", member |-> Method(m)])
      /\ UNCHANGED <<status, properties, methods, text, compiled>>

\* A lookup of the last function of a name.
GetFunctionLast(c, m) == [class |-> c, copy |-> functions[<<c, m>>]]

\* module->getFunction() finds the function that was given the name first.
GetFunction(c, m) == [class |-> c, copy |-> 1]

\* A slot off by one.
SlotBefore(entry, m) ==
  IF m \in DOMAIN entry THEN entry[m].slot ELSE Cardinality(DOMAIN entry)

\* A method that overrides another and got a slot of its own.
SlotNew(entry, m) == Cardinality(DOMAIN entry) + 1

Slot(entry, m) ==
  IF m \in DOMAIN entry THEN entry[m].slot ELSE Cardinality(DOMAIN entry) + 1

CloseMethod ==
  LET a     == visits[Inner]
      m     == Top.member.name
      entry == Entry(methods, a.name)
  IN  /\ AtMember("method")
      /\ methods' = With(methods, a.name,
           With(entry, m, [slot |-> Slot(entry, m), function |-> GetFunction(a.name, m)]))
      /\ Back(a, a.elems)
      /\ Wrote(a, Top.member)
      /\ UNCHANGED <<status, types, properties, functions, compiled>>

CloseClass ==
  /\ AtClass
  /\ Top.again => Top.member = Len(text[Top.name].members)
  /\ SetBody(Top)
  /\ visits' = SubSeq(visits, 1, Len(visits) - 1)
  /\ UNCHANGED <<status, properties, methods, functions, text, compiled>>

-----------------------------------------------------------------------------
(* Uses: ExprProp, ExprCallMethod, OpUnaryNew and OpUnaryDel.              *)

AtPosition(c, p) == <<"at", properties[c][p]>>

\* invokeMethod(): an optional method that is not found is not called.
Calls(c, m) ==
  IF c \in DOMAIN methods /\ m \in DOMAIN methods[c]
  THEN <<"calls", methods[c][m].function>> ELSE <<"skips">>

Use(c, member, target) == [class |-> c, member |-> member, target |-> target]

\* An expression in which the class c is used is compiled to uses.
Compiles(c, uses) ==
  /\ AtExpression
  /\ c \in DOMAIN types
  /\ Cardinality(compiled) < MaxUses
  /\ compiled' = compiled \cup uses
  /\ UNCHANGED <<status, visits, types, properties, methods, functions, text>>

UseProperty(c, p) ==
  /\ EarlyUses \/ HasProperties(c)
  /\ p \in DOMAIN Entry(properties, c)
  /\ Compiles(c, {Use(c, p, AtPosition(c, p))})

UseMethod(c, m) ==
  /\ EarlyUses \/ HasMethod(c, m)
  /\ m \in DOMAIN Entry(methods, c)
  /\ Compiles(c, {Use(c, m, Calls(c, m))})

\* new stores the default of every property and calls the constructor, if any.
New(c) ==
  /\ EarlyUses \/ (HasProperties(c) /\ HasMethod(c, Construct))
  /\ c \in DOMAIN properties
  /\ Compiles(c, {Use(c, p, AtPosition(c, p)) : p \in DOMAIN properties[c]}
                  \cup {Use(c, Construct, Calls(c, Construct))})

Delete(c) ==
  /\ EarlyUses \/ HasMethod(c, Destruct)
  /\ Compiles(c, {Use(c, Destruct, Calls(c, Destruct))})

\* UnknownClass, UnknownProperty, and the std::out_of_range of a method that is
\* not found and, in new, of a class without a table of properties.
Unresolved ==
  /\ AtExpression
  /\ Throw

-----------------------------------------------------------------------------

Init ==
  /\ status = "running"
  /\ visits = <<>>
  /\ types = NoEntries
  /\ properties = NoEntries
  /\ methods = NoEntries
  /\ functions = NoEntries
  /\ text = NoEntries
  /\ compiled = {}

Declarations ==
  \/ \E c \in ClassNames, parent \in ClassNames \cup {NoClass} : OpenClass(c, parent)
  \/ \E c, parent \in ClassNames : UnknownParent(c, parent)
  \/ \E p \in PropNames, t \in Types : DeclProperty(p, t) \/ OpenInitializer(p, t)
  \/ CloseInitializer
  \/ \E m \in MethodNames : OpenMethod(m)
  \/ CloseMethod
  \/ CloseClass

UsesOfClasses ==
  \/ \E c \in ClassNames :
       \/ \E p \in PropNames : UseProperty(c, p)
       \/ \E m \in MethodNames : UseMethod(c, m)
       \/ New(c) \/ Delete(c)
  \/ Unresolved

\* The exception has ended the compilation.
Failed == status = "failed" /\ UNCHANGED vars

Next == Declarations \/ UsesOfClasses \/ Failed

Spec == Init /\ [][Next]_vars
=============================================================================
