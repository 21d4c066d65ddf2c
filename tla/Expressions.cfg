SPECIFICATION Spec
CONSTANTS
  Names = {x}
  Types <- AllTypes
  RefTypes <- Numbers
  RefUses <- SoundUses
  Destructors = TRUE
  ConstructorArgs = FALSE
  MaxVisits = 3
INVARIANTS TypeOK ValueAsAsked InstructionsTyped
PROPERTIES MistakesRejected
