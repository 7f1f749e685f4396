CONSTANTS
  Names <- MCNames
  NoName = ""
  PageSize = 4096
  HeaderLen = 64
  SegmentLen = 56
  SectionLen = 64
  MaxWord = 1048576
  Files <- Shared
  Interps = {"/a"}
  Tags = {"Soname"}
  Strings = {"libc", "/x"}
  StringLen <- MCStringLen
  Absent = "absent"
  MaxCalls = 1
  MaxSessions = 1
  LayoutRequests <- MCRequests
  LayoutSegmentRequests <- MCSegmentRequests
SPECIFICATION Spec
INVARIANTS
  TagsAsSet
CHECK_DEADLOCK FALSE
