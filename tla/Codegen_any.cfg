SPECIFICATION Spec
CONSTANTS
  Names = {}
  Statements <- AllStatements
  BareJumps <- AnyHandler
  StrayJumps = TRUE
  Shadowing = TRUE
  MaxBlocks = 7
  MaxVisits = 5
  MaxStorage = 0
INVARIANTS TypeOK FrameBalance CursorSync JumpTargets
PROPERTIES EmitsInOwnFunction
