SPECIFICATION Spec
CONSTANTS
  Names = {}
  Statements <- ControlFlow
  BareJumps <- CarefulHandlers
  StrayJumps = TRUE
  Shadowing = FALSE
  MaxBlocks = 4
  MaxVisits = 5
  MaxStorage = 0
PROPERTIES StrayJumpRejected
