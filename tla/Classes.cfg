SPECIFICATION Spec
CONSTANTS
  ClassNames = {A, B}
  PropNames = {p, q}
  Types = {int, float}
  NoClass = NoClass
  Construct = construct
  Destruct = destruct
  MethodNames = {construct, destruct}
  EarlyUses = FALSE
  MaxMembers = 3
  MaxTimes = 2
  MaxUses = 1
  MaxVisits = 4
INVARIANTS TypeOK LayoutAgrees ParentWithin SlotsWithin UsesUpToDate Creatable
PROPERTIES RefinesObjects
SYMMETRY Symmetry
