SPECIFICATION Spec
CONSTANTS
  Names = {x}
  Statements <- ScopeStatements
  BareJumps <- AnyHandler
  StrayJumps = FALSE
  Shadowing = TRUE
  MaxBlocks = 3
  MaxVisits = 2
  MaxStorage = 2
PROPERTIES RefinesScopes
