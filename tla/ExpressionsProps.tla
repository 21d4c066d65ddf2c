-------------------------- MODULE ExpressionsProps --------------------------
(***************************************************************************)
(* What the expression visitors must keep true.                            *)
(***************************************************************************)
EXTENDS Expressions

\* What the generator supports of references to numbers, of the Uses there are.
SoundUses == {<<"variable", u>> : u \in {"read", "assign", "rebind"}}
             \cup {<<"parameter", u>> : u \in {"assign", "compound", "address"}}

\* Types of the visitors' state.
TypeOK ==
  /\ status \in {"running", "failed"}
  /\ visits \in Seq(Activation)
  /\ generateInMem \in BOOLEAN
  /\ result \in LLVMType
  /\ symbols \in [Names -> Symbols]
  /\ emitted \subseteq Operand

\* A handler that waits for a value gets a value of the type the author wrote
\* there, and not the address of one: generateInMem is what the handler set, or
\* counted on, when the expression was visited, whatever was visited between
\* (codegen.h: "defines wether to store the result of the codgen visit
\* operation in memory or register").
ValueAsAsked ==
  visits # <<>> /\ Top.at = "has" /\ ~ Top.wants.place /\ Top.wants # Anything =>
    result = LLVM(Top.wants)

\* Every instruction has operands of the types LLVM requires: only pointers are
\* loaded from, what is stored fits the place, operators get numbers, and a call
\* and a return have what the function's type says.
InstructionsTyped == \A o \in emitted : o.has = o.needs

\* A number that is given where a reference or an object is needed is rejected
\* by the handler that needs it, and nothing else is (the checks of DeclVar,
\* ExprProp, invokeFunction and invokeMethod; tests fail-ref1 and fail-ref2).
MistakesRejected ==
  [][visits # <<>> /\ Top.at = "has" /\ Top.needs # Anything =>
       (status' = "failed" <=> Top.wants # Top.needs)]_vars
=============================================================================
