SPECIFICATION Spec
CONSTANTS
  Names = {x}
  Types <- AllTypes
  RefTypes <- Numbers
  RefUses <- SoundUses
  Destructors = TRUE
  ConstructorArgs = TRUE
  MaxVisits = 3
INVARIANTS ValueAsAsked
