CONSTANTS
  Base = 4
  Nibble = 2
  Visibilities = 2
  Chars = {1, 2}
  Strings <- MCStrings
  Tables <- MCTables
  Files <- MCFiles
  StringsAddress = 8
  TableAddress = 20
  Addresses = {20, 200}
  SymbolTables <- MCSymbolTables
  Entries <- MCEntries
  StrTab = 5
  StrSz = 10
  Needed = 1
  Soname = 14
  Rpath = 15
  Runpath = 29
  OtherTags = {30}
  Removable = {1, 14, 15}
  MaxCalls = 3
SPECIFICATION Spec
INVARIANTS
  ReadsBack
  EntriesFound
  EndsAgree
  StringsWhereSaid
  SymbolsFollow
  EntriesReadBack
PROPERTIES
  RefinesTagStore
  RefinesStringTable
  OffsetsStay
CHECK_DEADLOCK FALSE
