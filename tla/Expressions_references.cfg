SPECIFICATION Spec
CONSTANTS
  Names = {x}
  Types <- AllTypes
  RefTypes <- Numbers
  RefUses <- AllUses
  Destructors = TRUE
  ConstructorArgs = FALSE
  MaxVisits = 3
INVARIANTS InstructionsTyped
