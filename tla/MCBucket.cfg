SPECIFICATION Spec
CONSTANTS
  PageSize = 16
  InlineMax = 4
  Keys = {1, 2, 3}
  Names = {2}
  Lens = {1, 4}
  MaxDepth = 2
  PageIds = {3, 4, 5, 6, 7, 8, 9, 10}
  IndexMod = 16
  MaxTx = 2
  MaxCalls = 3
CONSTRAINTS
  ShowsNoBucket
  BytesKept
INVARIANTS
  TypeOK
  ReadsAgree
  PagesAccounted
  InlineIsSmall
  ChildrenHaveEntries
PROPERTY
  ImplementsMap
VIEW View
