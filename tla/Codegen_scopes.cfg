SPECIFICATION Spec
CONSTANTS
  Names = {x, y}
  Statements <- ScopeStatements
  BareJumps <- AnyHandler
  StrayJumps = FALSE
  Shadowing = FALSE
  MaxBlocks = 6
  MaxVisits = 5
  MaxStorage = 3
PROPERTIES RefinesScopes
