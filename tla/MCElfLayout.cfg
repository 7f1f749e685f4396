CONSTANTS
  Names <- MCNames
  NoName = ""
  PageSize = 8
  HeaderLen = 2
  SegmentLen = 1
  SectionLen = 1
  MaxWord = 35
  InitialLayouts <- MCInitialLayouts
  Requests <- MCRequests
  SegmentRequests <- MCSegmentRequests
  SectionCounts = {1, 2, 3}
  SegmentCounts = {1, 2, 3, 4, 5}
SPECIFICATION Spec
INVARIANTS
  TypeOK
  LoadsDisjoint
  SectionsDisjoint
CHECK_DEADLOCK FALSE
