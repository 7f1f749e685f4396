---------------------------- MODULE DynamicSection ----------------------------
(***************************************************************************)
(* remove_dynamic_tag and set_dynamic_tag (patch.rs) on the contents of    *)
(* the sections they rewrite: .dynamic, its string table and the symbol    *)
(* tables.  Where new sections go is up to the allocator (ElfPatcher,      *)
(* SpaceAllocator), so that their addresses are any of Addresses here; the *)
(* files have both sections, what happens without them is in ElfPatcher.   *)
(* A table is a sequence of entries; Encoding has their bytes.             *)
(***************************************************************************)
EXTENDS StringTable, DynamicTable

CONSTANTS
  Files,          \* [strings, table, spare]: bytes, entries, and the number of
                  \* NULL entries at the end of the section beyond the first
  StringsAddress, \* the addresses of the two sections in the files,
  TableAddress,
  Addresses,      \* and those new sections get
  SymbolTables,   \* the symbol tables, as sequences of symbols
  Entries(_, _),  \* entries of some kind that a file of a class may have
  StrTab, StrSz, Needed, Soname, Rpath, Runpath, \* tags, with those that
  OtherTags,      \* the patcher says nothing of
  Removable,      \* the tags remove_dynamic_tag is called with
  MaxCalls        \* bound of the model on the number of calls

StringTags == {Needed, Soname, Rpath, Runpath}

ASSUME DynamicSectionAssumption ==
  /\ Tables = {f.strings : f \in Files}
  /\ \A f \in Files : f.strings # << >> /\ Normalised(f.strings) = f.strings
  /\ \A f \in Files : f.table \in Seq(TableEntry) /\ f.spare \in Nat
  /\ \A f \in Files : \A n \in DOMAIN f.table :
       /\ f.table[n].tag \in StringTags \cup OtherTags \cup {StrTab, StrSz}
       /\ f.table[n].tag \in StringTags => Readable(f.strings, f.table[n].value)
       /\ f.table[n].tag = StrTab => f.table[n].value = StringsAddress
       /\ f.table[n].tag = StrSz => f.table[n].value = Len(f.strings)
       /\ \A m \in DOMAIN f.table :
            f.table[n].tag = StrTab /\ f.table[m].tag = StrTab => n = m
  /\ {StringsAddress, TableAddress} \cup Addresses \subseteq Nat
  /\ MaxCalls \in Nat

\* No two tags are the same, and none of them ends the table.
ASSUME TagsAssumption ==
  LET named == <<Needed, Soname, Rpath, Runpath, StrTab, StrSz>>
  IN  /\ \A m, n \in DOMAIN named : named[m] = named[n] => m = n
      /\ \A n \in DOMAIN named : named[n] \in Nat \ {Null} /\ named[n] \notin OtherTags
      /\ OtherTags \subseteq Nat \ {Null}

Symbol == [name_offset : Nat, address : Nat, size : Nat, section_index : Nat,
           binding : Nat, kind : Nat, visibility : Nat]

\* No symbol but that of the table has an address the table may get: sections do
\* not share addresses.
ASSUME SymbolsAssumption ==
  /\ SymbolTables \in Seq(Seq(Symbol))
  /\ \A k \in DOMAIN SymbolTables : \A n \in DOMAIN SymbolTables[k] :
       SymbolTables[k][n].address \notin Addresses \ {TableAddress}

VARIABLES
  class, order,  \* of the file
  dynamic,       \* .dynamic: the entries at its place in the file, its address
  size,          \* its size in the section header
  segment,       \* the size of the DYNAMIC segment, 0 without one
  dynstr,        \* the string table: bytes and address
  symbols,       \* the symbol tables
  table,         \* the dynamic table in memory
  call,          \* the call of set_dynamic_tag: tag, string, old address
  pc, calls

fileVars == <<dynamic, size, segment, dynstr, symbols>>

dynamicVars == <<class, order, fileVars, table, call, pc, calls>>

vars == <<tableVars, dynamicVars>>

NoCall == [tag |-> Null, string |-> << >>, old |-> 0]

Init ==
  /\ StringTableInit
  /\ class \in Classes /\ order \in ByteOrders
  /\ \E f \in Files :
       LET entries == WithEnd(f.table) \o [n \in 1 .. f.spare |-> NullEntry]
       IN  /\ strings = f.strings
           /\ dynamic = [entries |-> entries, address |-> TableAddress]
           /\ size = Len(entries) * DynamicLen(class) /\ segment = size
  /\ dynstr = [bytes |-> strings, address |-> StringsAddress]
  /\ symbols = SymbolTables
  /\ table = << >> /\ call = NoCall /\ pc = "idle" /\ calls = 0

\* The dynamic table in the file, by the size of its section.
TableOfFile ==
  UpToNull(SubSeq(dynamic.entries, 1, size \div DynamicLen(class)))

\* show_dynamic of elb show: the value of an entry, unless it is the offset of a
\* string and no string is there.
ShownValue(entry) ==
  IF entry.tag \notin StringTags THEN entry.value
  ELSE IF Readable(dynstr.bytes, entry.value)
  THEN GetString(dynstr.bytes, entry.value)
  ELSE "<not found>"

ShownTable ==
  [n \in DOMAIN TableOfFile |->
     [tag |-> TableOfFile[n].tag, value |-> ShownValue(TableOfFile[n])]]

\* A write over the start of some entries, which may go beyond their end.
Over(entries, start) == start \o SubSeq(entries, Len(start) + 1, Len(entries))

(***************************************************************************)
(* remove_dynamic_tag: the shorter table is written over the old one.      *)
(***************************************************************************)
RemoveTag(tag) ==
  LET rest == Drop(TableOfFile, {tag})
      len == InFileLen(rest, class)
  IN  /\ pc = "idle" /\ calls < MaxCalls
      /\ calls' = calls + 1
      /\ dynamic' = [dynamic EXCEPT !.entries = Over(@, WithEnd(rest))]
      /\ size' = len
      /\ segment' = IF segment = 0 THEN 0 ELSE len
      /\ UNCHANGED <<tableVars, class, order, dynstr, symbols, table, call, pc>>

(***************************************************************************)
(* set_dynamic_tag.                                                        *)
(***************************************************************************)

\* The table is read, its section and segment are freed.
SetTag(tag, string) ==
  /\ pc = "idle" /\ calls < MaxCalls
  /\ calls' = calls + 1
  /\ table' = TableOfFile
  /\ call' = [tag |-> tag, string |-> string, old |-> dynamic.address]
  /\ dynamic' = [dynamic EXCEPT !.entries = << >>]
  /\ size' = 0 /\ segment' = 0
  /\ pc' = "read_strings"
  /\ UNCHANGED <<tableVars, class, order, dynstr, symbols>>

\* The table is read after its section was cleared.
ReadCleared ==
  /\ pc = "read_strings"
  /\ strings' = [n \in DOMAIN dynstr.bytes |-> NUL]
  /\ pc' = "look_up"
  /\ UNCHANGED <<needle, i, j, inserting, offset, search>>
  /\ UNCHANGED <<class, order, fileVars, table, call, calls>>

ReadStrings ==
  /\ pc = "read_strings"
  /\ strings' = dynstr.bytes
  /\ pc' = "look_up"
  /\ UNCHANGED <<needle, i, j, inserting, offset, search>>
  /\ UNCHANGED <<class, order, fileVars, table, call, calls>>

\* get_string_offset looks the string up.
LookUp ==
  /\ pc = "look_up"
  /\ GetOffset(call.string)
  /\ pc' = "search"
  /\ UNCHANGED <<class, order, fileVars, table, call, calls>>

\* The loop of StringTable.
Search ==
  /\ pc \in {"search", "insert"}
  /\ SearchStep
  /\ UNCHANGED dynamicVars

\* The string has not been found: the section is freed and insert searches again.
InsertString ==
  /\ pc = "search" /\ search = "over"
  /\ offset = None
  /\ Insert(call.string)
  /\ dynstr' = [dynstr EXCEPT !.bytes = << >>]
  /\ pc' = "insert"
  /\ UNCHANGED <<class, order, dynamic, size, segment, symbols, table, call,
                 calls>>

\* The longer string table gets a new section.
PlaceStrings ==
  /\ pc = "insert" /\ search = "over"
  /\ \E a \in Addresses : dynstr' = [bytes |-> strings, address |-> a]
  /\ pc' = "update"
  /\ UNCHANGED <<tableVars, class, order, dynamic, size, segment, symbols, table,
                 call, calls>>

\* The entries that say where the string table is stay as they were.
UpdateValue ==
  /\ \/ pc = "search" /\ search = "over" /\ offset # None
     \/ pc = "update"
  /\ dynstr' = [dynstr EXCEPT !.bytes = strings]
  /\ table' = SetEntry(Drop(table, {Rpath, Runpath}), call.tag, offset)
  /\ pc' = "place"
  /\ UNCHANGED <<tableVars, class, order, dynamic, size, segment, symbols,
                 call, calls>>

\* The string table is written, and the table in memory gets the entries: a
\* search path of either kind goes, whatever is set.
UpdateTable ==
  LET others == Drop(table, {Rpath, Runpath})
      addressed == SetEntry(others, StrTab, dynstr.address)
      sized == SetEntry(addressed, StrSz, Len(dynstr.bytes))
  IN  /\ \/ pc = "search" /\ search = "over" /\ offset # None
         \/ pc = "update"
      /\ dynstr' = [dynstr EXCEPT !.bytes = strings]
      /\ table' = SetEntry(sized, call.tag, offset)
      /\ pc' = "place"
      /\ UNCHANGED <<tableVars, class, order, dynamic, size, segment, symbols,
                     call, calls>>

\* The table gets a new section, with a segment over it.
PlaceTable ==
  /\ pc = "place"
  /\ \E a \in Addresses \ {dynstr.address} :
       dynamic' = [entries |-> WithEnd(table), address |-> a]
  /\ size' = InFileLen(table, class)
  /\ segment' = size'
  /\ pc' = "symbols"
  /\ UNCHANGED <<tableVars, class, order, dynstr, symbols, table, call, calls>>

\* All symbols behind the address move along.
MoveSymbolsBehind ==
  /\ pc = "symbols"
  /\ symbols' = [k \in DOMAIN symbols |->
                   [n \in DOMAIN symbols[k] |->
                      [symbols[k][n] EXCEPT !.address =
                         IF @ >= call.old THEN @ + dynamic.address - call.old
                         ELSE @]]]
  /\ pc' = "idle"
  /\ call' = NoCall /\ table' = << >>
  /\ UNCHANGED <<tableVars, class, order, dynamic, size, segment, dynstr, calls>>

\* The symbols that were at the address of the table follow it.
MoveSymbols ==
  /\ pc = "symbols"
  /\ symbols' = [k \in DOMAIN symbols |->
                   [n \in DOMAIN symbols[k] |->
                      [symbols[k][n] EXCEPT !.address =
                         IF @ = call.old THEN dynamic.address ELSE @]]]
  /\ pc' = "idle"
  /\ call' = NoCall /\ table' = << >>
  /\ UNCHANGED <<tableVars, class, order, dynamic, size, segment, dynstr, calls>>

Step == \/ ReadStrings \/ LookUp \/ Search \/ InsertString \/ PlaceStrings
        \/ UpdateTable \/ PlaceTable \/ MoveSymbols

Settable == {Soname, Rpath, Runpath}

Next ==
  \/ \E tag \in Removable : RemoveTag(tag)
  \/ \E tag \in Settable, string \in Strings : SetTag(tag, string)
  \/ Step

Spec == Init /\ [][Next]_vars

(***************************************************************************)
(* Properties.                                                             *)
(***************************************************************************)

AtRest == pc = "idle"

(***************************************************************************)
(* What whoever loads the file reads: the entries up to the first NULL,    *)
(* wherever the section ends, and the strings at their offsets.            *)
(***************************************************************************)

LoadedTable == UpToNull(dynamic.entries)

Known == StringTags \cup OtherTags \cup {StrTab, StrSz}

\* The entries that are right with a string table: each string is there.
Sound(bytes) ==
  {e \in TableEntry : /\ e.tag \in Known
                      /\ e.tag \in StringTags => Readable(bytes, e.value)}

\* The dynamic table in memory, in the middle of a call too, and the one that is
\* loaded from the file are made of whole entries with tags of the file or of the
\* patcher, and no string is named that is not in the string table there.  The
\* section has a whole number of entries, symbols stay where they are in their
\* tables, and the string table in memory is the one in the file unless a string
\* is being inserted.
DynamicTypeOK ==
  /\ StringTableTypeOK
  /\ class \in Classes /\ order \in ByteOrders
  /\ dynamic.address \in Addresses \cup {TableAddress}
  /\ dynstr.address \in Addresses \cup {StringsAddress}
  /\ size % DynamicLen(class) = 0 /\ segment = size
  /\ table \in Seq(Sound(strings))
  /\ pc \in {"idle", "symbols"} => LoadedTable \in Seq(Sound(dynstr.bytes))
  /\ DOMAIN symbols = DOMAIN SymbolTables
  /\ \A k \in DOMAIN symbols :
       /\ DOMAIN symbols[k] = DOMAIN SymbolTables[k]
       /\ \A n \in DOMAIN symbols[k] : symbols[k][n] \in Symbol
  /\ call.tag \in Settable \cup {Null} /\ call.string \in Strings \cup {<< >>}
  /\ pc \in {"idle", "read_strings", "look_up", "search", "insert", "update",
             "place", "symbols"}
  /\ calls \in 0 .. MaxCalls
  /\ pc # "insert" => strings = dynstr.bytes

Meaning(entry, bytes) ==
  IF entry.tag \in StringTags THEN GetString(bytes, entry.value)
  ELSE entry.value

\* The values of every tag that says nothing of where the tables are.
ValuesOf(entries, bytes) ==
  [tag \in StringTags \cup OtherTags |->
     LET own == Keep(entries, {tag})
     IN  [n \in DOMAIN own |-> Meaning(own[n], bytes)]]

\* While a call has the table in memory, that is the table.
StoredValues ==
  IF pc \in {"idle", "symbols"} THEN ValuesOf(LoadedTable, dynstr.bytes)
  ELSE ValuesOf(table, strings)

Store == INSTANCE TagStore WITH
  Tags <- StringTags \cup OtherTags,
  SearchPaths <- {Rpath, Runpath},
  Settable <- Settable,
  Values <- Strings,
  InitialStores <- {ValuesOf(f.table, f.strings) : f \in Files},
  store <- StoredValues

\* The calls change what is loaded as TagStore says, through every step of them:
\* the search in the string table, its growth and its move, and the table that is
\* written shorter over itself.  No NEEDED entry is lost, changed or put in another order.
RefinesTagStore == Store!StoreSpec

\* elb show, which goes by the sizes in the section header, prints for each tag what
\* whoever loads the file gets, and finds each string.
ShowsWhatIsLoaded ==
  \A tag \in StringTags \cup OtherTags :
    LET rows == Keep(ShownTable, {tag})
    IN  [n \in DOMAIN rows |-> rows[n].value] = StoredValues[tag]

\* Between two calls the section, the segment and the entries agree on where the
\* table ends: the NULL entry is inside them, what reads up to it reads as much as
\* what goes by the size, though older entries may follow in the file, and elb show
\* prints what is loaded.  The table never got longer than the place it has.
EndsAgree ==
  AtRest =>
    /\ segment = size
    /\ size <= Len(dynamic.entries) * DynamicLen(class)
    /\ (Len(LoadedTable) + 1) * DynamicLen(class) <= size
    /\ TableOfFile = LoadedTable
    /\ ShowsWhatIsLoaded

\* What the table says of the string table is true between two calls: the loader
\* goes by the address and the size in the table, not by the section.
StringsWhereSaid ==
  AtRest =>
    /\ Has(LoadedTable, StrTab) =>
         ValueOf(LoadedTable, StrTab) = dynstr.address
    /\ Has(LoadedTable, StrSz) =>
         ValueOf(LoadedTable, StrSz) = Len(dynstr.bytes)
    /\ Cardinality(Tagged(LoadedTable, {StrTab})) <= 1

\* The symbols at the address of the table are there after every call, and
\* nothing else in the symbol tables changes.  No other symbol may have had the
\* address: one that only ends up where the table is moves along with it.
SymbolsFollow ==
  AtRest =>
    \A k \in DOMAIN SymbolTables : \A n \in DOMAIN SymbolTables[k] :
      symbols[k][n] = [SymbolTables[k][n] EXCEPT !.address =
                         IF @ = TableAddress THEN dynamic.address ELSE @]

\* Every entry a file may have is accepted when it is written to one of the
\* tables, takes as many bytes as an entry has there and reads back as it was, for
\* both classes and byte orders, up to the widest value of a word and of the
\* symbol and the kind that share a word; so do entries that follow one another.
\* Class and byte order stay as they are in the file: it is enough to look at the
\* initial states.  The dynamic table, which the calls change, is in the file after
\* each of them as it was in memory.
EntriesReadBack ==
  /\ AtRest =>
       LET bytes == WriteDynamic(LoadedTable, class, order)
       IN  /\ Len(bytes) = InFileLen(LoadedTable, class)
           /\ ReadDynamic(bytes, class, order) = LoadedTable
  /\ calls = 0 =>
       /\ \A kind \in Kinds : \A e \in Entries(kind, class) :
            LET bytes == WriteEntry(kind, e, class, order)
            IN  /\ Writable(kind, e, class)
                /\ Len(bytes) = EntryLen(kind, class)
                /\ ReadEntry(kind, bytes, class, order) = e
       /\ \A k \in DOMAIN symbols :
            ReadTable("Symbol", WriteTable("Symbol", symbols[k], class, order),
                      class, order) = symbols[k]

\* The string table is used as StringTable says, so that what is proved of
\* every sequence of its calls is true of the patcher's.
RefinesStringTable == StringTableInit /\ [][StringTableNext]_tableVars

===============================================================================
