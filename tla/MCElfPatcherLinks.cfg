CONSTANTS
  Names <- MCNames
  NoName = ""
  PageSize = 4096
  HeaderLen = 64
  SegmentLen = 56
  SectionLen = 64
  MaxWord = 1048576
  Files <- Exec
  Interps = {"/a"}
  Tags = {"Soname"}
  Strings = {"/x"}
  StringLen <- MCStringLen
  Absent = "absent"
  MaxCalls = 2
  MaxSessions = 1
  LayoutRequests <- MCRequests
  LayoutSegmentRequests <- MCSegmentRequests
SPECIFICATION Spec
INVARIANTS
  LinkedToStrings
CHECK_DEADLOCK FALSE
