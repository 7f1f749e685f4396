CONSTANTS
  Names <- MCNames
  NoName = ""
  PageSize = 4096
  HeaderLen = 64
  SegmentLen = 56
  SectionLen = 64
  MaxWord = 1048576
  Files <- Lib
  Interps = {"/lib/ld", "/a"}
  Tags = {"Soname"}
  Strings = {"/x"}
  StringLen <- MCStringLen
  Absent = "absent"
  MaxCalls = 1
  MaxSessions = 2
  LayoutRequests <- MCRequests
  LayoutSegmentRequests <- MCSegmentRequests
SPECIFICATION Spec
INVARIANTS
  NeverRejected
CHECK_DEADLOCK FALSE
