CONSTANTS
  Names <- MCNames
  NoName = ""
  PageSize = 4096
  HeaderLen = 64
  SegmentLen = 56
  SectionLen = 64
  MaxWord = 1048576
  Files <- Regular
  Interps = {"/lib/ld", "/a"}
  Tags = {"Rpath", "Runpath", "Soname"}
  Strings = {"/x"}
  StringLen <- MCStringLen
  Absent = "absent"
  MaxCalls = 3
  MaxSessions = 1
  LayoutRequests <- MCRequests
  LayoutSegmentRequests <- MCSegmentRequests
SPECIFICATION Spec
INVARIANTS
  SectionsReadable
  TablesReadable
  InterpreterAsSet
  TagsAsSet
  LoaderFindsAll
  NamesInStep
  NeverRejected
PROPERTIES
  RefinesLayout
CHECK_DEADLOCK FALSE
