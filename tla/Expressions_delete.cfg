SPECIFICATION Spec
CONSTANTS
  Names = {x}
  Types <- AllTypes
  RefTypes <- Numbers
  RefUses <- SoundUses
  Destructors = FALSE
  ConstructorArgs = FALSE
  MaxVisits = 3
INVARIANTS ValueAsAsked
