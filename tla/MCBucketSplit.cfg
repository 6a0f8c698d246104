SPECIFICATION Spec
CONSTANTS
  PageSize = 16
  InlineMax = 4
  Keys = {1, 2, 3, 4, 5}
  Names = {1}
  Lens = {1}
  MaxDepth = 1
  PageIds = {3, 4, 5, 6, 7, 8}
  IndexMod = 16
  MaxTx = 1
  MaxCalls = 6
PROPERTY
  CommitStoresAll
VIEW View
