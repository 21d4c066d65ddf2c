----------------------------- MODULE ClassesProps -----------------------------
(***************************************************************************)
(* What must be true of the tables of classes, and the refinement.         *)
(***************************************************************************)
EXTENDS Classes

IsMap(map, keys) == DOMAIN map \subseteq keys

\* Types of the tables and of the recursion.
TypeOK ==
  /\ status \in {"running", "failed"}
  /\ visits \in Seq(ClassVisit \cup MemberVisit)
  /\ IsMap(types, ClassNames)
  /\ \A c \in DOMAIN types : types[c] \in [sized : BOOLEAN, elems : Seq(Types)]
  /\ IsMap(properties, ClassNames)
  /\ \A c \in DOMAIN properties :
       /\ IsMap(properties[c], PropNames)
       /\ \A p \in DOMAIN properties[c] : properties[c][p] \in Nat \ {0}
  /\ IsMap(methods, ClassNames)
  /\ \A c \in DOMAIN methods :
       /\ IsMap(methods[c], MethodNames)
       /\ \A m \in DOMAIN methods[c] :
            methods[c][m] \in [slot : Nat \ {0},
                               function : [class : ClassNames, copy : {1}]]
  /\ IsMap(functions, ClassNames \X MethodNames)
  /\ \A f \in DOMAIN functions : functions[f] \in Nat \ {0}
  /\ DOMAIN text = DOMAIN types
  /\ \A c \in DOMAIN text :
       text[c] \in [parent : ClassNames \cup {NoClass}, members : Seq(Member), times : Nat]
  /\ IsFiniteSet(compiled)

\* The positions of a class number the elements of its struct one by one, and the
\* slots its methods: no two members share a place and no place is without a member.
LayoutAgrees ==
  \A c \in ClassNames : Finished(c) =>
    LET position == Entry(properties, c)
        method   == Entry(methods, c)
    IN  /\ {position[p] : p \in DOMAIN position} = DOMAIN types[c].elems
        /\ Cardinality(DOMAIN position) = Len(types[c].elems)
        /\ {method[m].slot : m \in DOMAIN method} = 1 .. Cardinality(DOMAIN method)

\* The properties of the parent that the class declares with another type.
Retyped(c) ==
  LET parent == text[c].parent
  IN  {p \in DOMAIN Entry(properties, parent) :
         \E i \in DOMAIN text[c].members :
           LET mb == text[c].members[i]
           IN  /\ mb.kind = "property" /\ mb.name = p
               /\ mb.type # types[parent].elems[properties[parent][p]]}

\* What the parent has is at the same places, and of the same types but where the class
\* itself says otherwise: the struct of a class that does not begins with the parent's.
\* Only then may its object stand for one of the parent class (invokeFunction casts the
\* pointer where the class of an argument differs, and does not ask, codegen.cpp:1439).
ParentWithin ==
  \A c \in ClassNames :
    (Finished(c) /\ text[c].parent # NoClass /\ Finished(text[c].parent)) =>
      LET parent == text[c].parent
          inner  == types[parent].elems
          outer  == types[c].elems
      IN  /\ Len(inner) <= Len(outer)
          /\ \A p \in DOMAIN Entry(properties, parent) :
               /\ p \in DOMAIN Entry(properties, c)
               /\ properties[c][p] = properties[parent][p]
               /\ p \notin Retyped(c) => outer[properties[c][p]] = inner[properties[c][p]]
          /\ Retyped(c) = {} => SubSeq(outer, 1, Len(inner)) = inner

\* A method of the parent has the same slot in the class, overridden or not.
SlotsWithin ==
  \A c \in ClassNames :
    (Finished(c) /\ text[c].parent # NoClass /\ Finished(text[c].parent)) =>
      \A m \in DOMAIN Entry(methods, text[c].parent) :
        /\ m \in DOMAIN Entry(methods, c)
        /\ methods[c][m].slot = methods[text[c].parent][m].slot

\* Every use that was compiled, wherever and whenever, is bound to what the class has
\* in the end: the position of the property, the method that overrides all others,
\* the constructor (tests/object.exo: new is "calling constructor").
UsesUpToDate ==
  \A u \in compiled : Finished(u.class) =>
    u.target = IF u.target[1] = "at" THEN AtPosition(u.class, u.member)
               ELSE Calls(u.class, u.member)

\* new finds a table of properties for every class that has, or inherits from a
\* class, whether that has properties or not; of a class with methods only it does
\* not (properties.at(), codegen.cpp:852).
Creatable ==
  \A c \in ClassNames : Finished(c) =>
    (c \in DOMAIN properties <=>
       \/ text[c].parent # NoClass
       \/ \E i \in DOMAIN text[c].members : text[c].members[i].kind = "property"
       \/ \E d \in DOMAIN text : text[d].parent = c)

\* The type at a position: the struct's that is being declared, if it reaches that
\* far, or the finished one's.
TypeAt(c, position) ==
  LET built == UNION {{visits[i].elems[position] : x \in {position} \cap DOMAIN visits[i].elems} :
                        i \in {j \in DOMAIN visits : visits[j].op = "class" /\ visits[j].name = c}}
  IN  IF built # {} THEN CHOOSE type \in built : TRUE ELSE types[c].elems[position]

\* The fields of a class with their types, and whose methods its table names.
Fields == [c \in ClassNames |->
             LET entry == Entry(properties, c)
             IN  [p \in DOMAIN entry |-> TypeAt(c, entry[p])]]
Runs   == [c \in ClassNames |->
             LET entry == Entry(methods, c)
             IN  [m \in DOMAIN entry |-> entry[m].function.class]]

\* The visits of a class that is being declared: there is one.
VisitsOf(c) ==
  {visits[i] : i \in {j \in DOMAIN visits : visits[j].op = "class" /\ visits[j].name = c}}

\* How far the declaration of each class is.
Stage == [c \in ClassNames |->
            IF c \notin DOMAIN types THEN "unknown"
            ELSE IF VisitsOf(c) = {} THEN "declared"
            ELSE IF \E a \in VisitsOf(c) : a.again THEN "again" ELSE "first"]
Said  == [c \in ClassNames |->
            IF c \in DOMAIN text
            THEN [parent |-> text[c].parent, members |-> text[c].members]
            ELSE [parent |-> NoClass, members |-> <<>>]]
Done  == [c \in ClassNames |->
            IF c \notin DOMAIN types THEN 0
            ELSE IF VisitsOf(c) = {} THEN Len(text[c].members)
            ELSE (CHOOSE a \in VisitsOf(c) : TRUE).member]

\* The tables are an implementation of Objects: what is written of a class, be it the
\* parent, a property or a method, the first time or again, has been added in the same
\* order to its own class, over what was inherited; nothing that is not written of a
\* class, and nothing else that happens, changes what it has.
Abstract == INSTANCE Objects WITH stage <- Stage, said <- Said, done <- Done,
                                  fields <- Fields, runs <- Runs

RefinesObjects == Abstract!Spec
=============================================================================
