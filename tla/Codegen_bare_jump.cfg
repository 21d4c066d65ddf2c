SPECIFICATION Spec
CONSTANTS
  Names = {}
  Statements <- ControlFlow
  BareJumps <- AnyHandler
  StrayJumps = FALSE
  Shadowing = FALSE
  MaxBlocks = 4
  MaxVisits = 5
  MaxStorage = 0
INVARIANTS SingleTerminator
