CONSTANTS
  Names <- MCNames
  NoName = ""
  PageSize = 4096
  HeaderLen = 64
  SegmentLen = 56
  SectionLen = 64
  MaxWord = 32800
  Files <- All
  Interps = {"/lib/ld", "/a"}
  Tags = {"Rpath", "Soname"}
  Strings = {"/x"}
  StringLen <- MCStringLen
  Absent = "absent"
  MaxCalls = 2
  MaxSessions = 2
  LayoutRequests <- MCRequests
  LayoutSegmentRequests <- MCSegmentRequests
SPECIFICATION Spec
INVARIANTS
  TypeOK
  SectionsReadable
  LoaderFindsAll
CHECK_DEADLOCK FALSE
