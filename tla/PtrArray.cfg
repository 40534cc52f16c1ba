CONSTANTS
  Align = 2
  PageSize = 4
  Base = 4
  MaxLen = 8
  Top = 64
  InitialSizes = {1}
  Sizes = {0, 1, 2, 3, 4, 5}
  Arrays = {a1, a2}
  Items = {x, y}
  Junk = Junk
  None = None
  GrowBy = 2
  Capacities = {0, 1}
  Increases = {1}
  OtherSizes = {1}
  MaxCapacity = 3
SYMMETRY ItemSymmetry
SPECIFICATION ArraysSpec
INVARIANTS TypeOK BlocksPlaced BlocksDisjoint SlotsOwned
PROPERTIES UsesPool KeepsLists
CONSTRAINT FewBlocks
