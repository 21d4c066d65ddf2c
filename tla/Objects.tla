------------------------------- MODULE Objects -------------------------------
(***************************************************************************)
(* What a class declaration promises: the fields an object of the class    *)
(* has, with their types, and which class's method is called, each the     *)
(* consequence of what the author wrote.  Neither positions nor tables are *)
(* known here.                                                             *)
(*                                                                         *)
(* A declaration goes through its members one by one.  The first time the  *)
(* author says what they are; a declaration that is repeated says the same *)
(* again.                                                                  *)
(***************************************************************************)
EXTENDS Naturals, Sequences

CONSTANTS ClassNames, Member, NoClass

VARIABLES
  stage,   \* of each class: "unknown", declared the "first" time or "again", or "declared"
  said,    \* what the author wrote of each class
  done,    \* how many members the declaration has come to
  fields,  \* of each class, the type of each field
  runs     \* of each class, the class whose method runs

vars == <<stage, said, done, fields, runs>>

Nothing == [x \in {} |-> x]
And(map, key, value) ==
  [x \in DOMAIN map \cup {key} |-> IF x = key THEN value ELSE map[x]]

Init == /\ stage = [c \in ClassNames |-> "unknown"]
        /\ said = [c \in ClassNames |-> [parent |-> NoClass, members |-> <<>>]]
        /\ done = [c \in ClassNames |-> 0]
        /\ fields = [c \in ClassNames |-> Nothing]
        /\ runs = [c \in ClassNames |-> Nothing]

\* A class starts with all that its parent has then.
Inherit(c, parent) ==
  IF parent \in {NoClass, c} THEN UNCHANGED <<fields, runs>>
  ELSE /\ fields' = [fields EXCEPT ![c] = fields[parent]]
       /\ runs' = [runs EXCEPT ![c] = runs[parent]]

\* A property hides the one that was inherited, and has the type that is said now.
Field(c, p, t) ==
  /\ fields' = [fields EXCEPT ![c] = And(@, p, t)]
  /\ UNCHANGED runs

\* A method overrides the one that was inherited.
Override(c, m) ==
  /\ runs' = [runs EXCEPT ![c] = And(@, m, c)]
  /\ UNCHANGED fields

\* The declaration comes to the member mb of its class.
Come(c, mb) ==
  /\ done' = [done EXCEPT ![c] = @ + 1]
  /\ UNCHANGED stage
  /\ IF mb.kind = "property" THEN Field(c, mb.name, mb.type) ELSE Override(c, mb.name)

Declare(c, parent) ==
  /\ stage[c] = "unknown"
  /\ parent \in {NoClass, c} \/ stage[parent] # "unknown"
  /\ stage' = [stage EXCEPT ![c] = "first"]
  /\ said' = [said EXCEPT ![c].parent = parent]
  /\ UNCHANGED done
  /\ Inherit(c, parent)

Say(c, mb) ==
  /\ stage[c] = "first"
  /\ said' = [said EXCEPT ![c].members = Append(@, mb)]
  /\ Come(c, mb)

Repeat(c) ==
  /\ stage[c] = "declared"
  /\ stage' = [stage EXCEPT ![c] = "again"]
  /\ done' = [done EXCEPT ![c] = 0]
  /\ UNCHANGED said
  /\ Inherit(c, said[c].parent)

SayAgain(c) ==
  /\ stage[c] = "again"
  /\ done[c] < Len(said[c].members)
  /\ UNCHANGED said
  /\ Come(c, said[c].members[done[c] + 1])

\* A declaration is left when all that was said has been come to, and changes nothing.
End(c) ==
  /\ stage[c] \in {"first", "again"}
  /\ done[c] = Len(said[c].members)
  /\ stage' = [stage EXCEPT ![c] = "declared"]
  /\ UNCHANGED <<said, done, fields, runs>>

Next ==
  \E c \in ClassNames :
    \/ \E parent \in ClassNames \cup {NoClass} : Declare(c, parent)
    \/ \E mb \in Member : Say(c, mb)
    \/ Repeat(c) \/ SayAgain(c) \/ End(c)

Spec == Init /\ [][Next]_vars
=============================================================================
