SPECIFICATION Spec
CONSTANTS
  PageSize = 16
  InlineMax = 4
  Keys = {1, 2, 3, 4, 5}
  Names = {1, 5}
  Lens = {1}
  MaxDepth = 2
  PageIds = {3, 4, 5, 6, 7, 8, 9, 10}
  IndexMod = 16
  MaxTx = 2
  MaxCalls = 6
CONSTRAINTS
  Corners
INVARIANTS
  
  CursorOK
  StoredHaveEntries
VIEW View
