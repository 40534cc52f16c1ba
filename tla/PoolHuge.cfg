CONSTANTS
  Align = 2
  PageSize = 4
  Base = 4
  MaxLen = 12
  Top = 64
  InitialSizes = {0, 1, 5}
  Sizes <- HugeSizes
SPECIFICATION Spec
INVARIANT BlocksMapped
