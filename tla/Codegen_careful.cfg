SPECIFICATION Spec
CONSTANTS
  Names = {}
  Statements <- ControlFlow
  BareJumps <- CarefulHandlers
  StrayJumps = FALSE
  Shadowing = FALSE
  MaxBlocks = 8
  MaxVisits = 5
  MaxStorage = 0
INVARIANTS SingleTerminator NoOrphanBlock ModuleVerifies
