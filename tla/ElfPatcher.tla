------------------------------ MODULE ElfPatcher ------------------------------
(***************************************************************************)
(* ElfPatcher (patch.rs): sessions that open an ELF file, change its       *)
(* interpreter and its dynamic tags, and finish.                           *)
(*                                                                         *)
(* A call is a sequence of steps, one for each change of the tables, and   *)
(* pc names the next one.  The bytes the steps read and write are in file; *)
(* the tables live in memory until finish writes them.  The string tables  *)
(* hold sets of strings with a length: an offset into one stands for the   *)
(* string found there, since the tables only ever grow at the end.         *)
(***************************************************************************)
EXTENDS SpaceAllocator, ElfCheck, ElfFile

CONSTANTS
  Files,       \* the ELF files, with the blocks they consist of
  Interps,     \* interpreters a client may set
  Tags,        \* dynamic tags a client may set or remove
  Strings,     \* values a client may give them
  StringLen,   \* bytes of each string, name and interpreter, with its NUL
  Absent,      \* there is no interpreter, no such tag
  MaxCalls,    \* bounds of the model: calls in a session,
  MaxSessions  \* and sessions

\* constants.rs: the names of the sections that the patcher makes.
PatchNames == {".shstrtab", ".interp", ".dynstr", ".dynamic"}

ASSUME PatchNamesAssumption == PatchNames \subseteq Names \ {NoName}

ASSUME StringLenAssumption ==
  \A s \in Interps \cup Strings \cup PatchNames : StringLen[s] \in Nat \ {0}

ASSUME BoundsAssumption == MaxCalls \in Nat /\ MaxSessions \in Nat

\* constants.rs and Class::dynamic_len.
InterpAlign        == 1
StringTableAlign   == 1
DynamicAlign       == 8
PhdrAlign          == 8
SectionHeaderAlign == 8
DynamicLen         == 16

ASSUME AlignsAssumption ==
  {InterpAlign, StringTableAlign, DynamicAlign, PhdrAlign} \subseteq Word

\* DynamicTable::in_file_len.
TableLen(tags) == (Cardinality(DOMAIN tags) + 1) * DynamicLen

\* A dynamic table that is stored in len bytes.
TableFits(tags, len) == IsFiniteSet(DOMAIN tags) /\ TableLen(tags) <= len

\* A block has a place, and a block with a dynamic table is long enough.
WellStored(file) ==
  \A b \in file : /\ b = Block(b.offset, b.len, b.content)
                  /\ b.offset \in Nat /\ b.len \in Nat
                  /\ "tags" \in DOMAIN b.content
                       => TableFits(b.content.tags, b.len)

\* The files are those that Elf::check accepts, and well-formed in what it does
\* not test: sections do not overlap, nor do LOAD segments of no bytes, and a
\* dynamic table has room for the entry that ends it.
ASSUME FilesAssumption ==
  \A f \in Files :
    /\ f.header \in HeaderType
    /\ f.sections \in Seq(Section)
    /\ f.segments \in Seq(Segment)
    /\ Accepted(f.header, f.sections, f.segments)
    /\ Fits(f.sections, f.segments)
    /\ LoadsApart(f.segments)
    /\ SectionsApart(f.sections)
    /\ \A i \in Positions(f.sections, "Dynamic") :
         f.sections[i].size >= DynamicLen
    /\ WellStored(f.file)

VARIABLES
  header,    \* Elf::header
  sections,  \* Elf::sections
  segments,  \* Elf::segments
  names,     \* ElfPatcher::names, the cached table of section names
  file,      \* the blocks of the file
  pc,        \* the next step
  call,      \* the locals of the call in progress
  want,      \* what the calls so far have asked for
  calls,     \* calls in this session
  sessions   \* sessions so far

vars == <<header, sections, segments, names, file, pc, call, want, calls,
          sessions>>

elf == <<header, sections, segments>>

NoCall == [op |-> "none", value |-> Absent, tag |-> Absent, tags |-> << >>,
           address |-> 0, strings |-> {}, len |-> 0, slot |-> 0,
           name |-> NoName, then |-> "ready"]

(***************************************************************************)
(* Reading the file through the tables.                                    *)
(***************************************************************************)

\* A table of strings as the code reads it: nothing when the bytes are lost.
StringsIn(content) ==
  IF "strings" \in DOMAIN content THEN content.strings ELSE {}

TagsIn(content) == IF "tags" \in DOMAIN content THEN content.tags ELSE << >>

InterpIn(content) ==
  IF "interp" \in DOMAIN content THEN content.interp ELSE "garbage"

\* Section::read_content.
ReadSection(i) == Read(file, sections[i].offset, sections[i].size)

\* Elf::read_section_names; section_names_index may be out of bounds.
SectionNames ==
  LET i == header.section_names_index
  IN  IF i \notin DOMAIN sections THEN [strings |-> {NoName}, len |-> 1]
      ELSE [strings |-> StringsIn(ReadSection(i)), len |-> sections[i].size]

Unread == [strings |-> {NoName}, len |-> 0]

\* update_section_names, on first use.
CachedNames == IF names = Unread THEN SectionNames ELSE names

WithString(table, string) ==
  IF string \in table.strings THEN table
  ELSE [strings |-> table.strings \cup {string},
        len |-> table.len + StringLen[string]]

\* Elf::read_interpreter.
Interpreter ==
  LET j == First(Positions(segments, "Interpreter"))
  IN  IF j = 0 THEN Absent
      ELSE InterpIn(Read(file, segments[j].offset, segments[j].file_size))

\* Elf::read_dynamic_table.
DynamicTags ==
  LET i == First(Positions(sections, "Dynamic"))
  IN  IF i = 0 THEN << >> ELSE TagsIn(ReadSection(i))

TagValue(tag) ==
  IF tag \in DOMAIN DynamicTags THEN DynamicTags[tag] ELSE Absent

\* DynamicTable: retain and set.
WithoutTags(tags, T) == [t \in DOMAIN tags \ T |-> tags[t]]

\* WithTag, but a tag that is not in the table yet is not added.
WithTagReplaced(tags, tag, value) ==
  [t \in DOMAIN tags |-> IF t = tag THEN value ELSE tags[t]]

WithTag(tags, tag, value) ==
  [t \in DOMAIN tags \cup {tag} |-> IF t = tag THEN value ELSE tags[t]]

\* WithStringTable, but the length of the table stays as it was.
WithStringTableMoved(tags, s) == WithTag(tags, "StringTableAddress", s.address)

\* The entries that tell the loader where the string table is.
WithStringTable(tags, s) ==
  WithTag(WithTag(tags, "StringTableAddress", s.address),
          "StringTableSize", s.size)

(***************************************************************************)
(* Opening and calling.                                                    *)
(***************************************************************************)

Wanted ==
  LET values == [t \in Tags |-> TagValue(t)]
  IN  [interp |-> Interpreter, tags |-> values, asked |-> values]

Init ==
  /\ \E f \in Files : /\ header = f.header
                      /\ sections = f.sections
                      /\ segments = f.segments
                      /\ file = f.file
  /\ names = Unread
  /\ pc = "closed"
  /\ call = NoCall
  /\ want = Wanted
  /\ calls = 0
  /\ sessions = 0

\* The bytes of the three tables, as finish wrote them.
Intact(bytes, h, secs, segs) ==
  /\ Read(bytes, 0, HeaderLen) = [header |-> h]
  /\ Read(bytes, h.program_header_offset, SegmentLen * Len(segs))
       = [segments |-> segs]
  /\ Read(bytes, h.section_header_offset, SectionLen * Len(secs))
       = [sections |-> secs]

TablesIntact == Intact(file, header, sections, segments)

\* Elf::read and ElfPatcher::new.  A file whose tables are damaged is not
\* followed any further.
Open ==
  /\ pc = "closed"
  /\ sessions < MaxSessions
  /\ sessions' = sessions + 1
  /\ calls' = 0
  /\ names' = Unread
  /\ pc' = IF TablesIntact THEN "ready" ELSE "unreadable"
  /\ UNCHANGED <<elf, file, call, want>>

Begin(op, step, locals) ==
  /\ pc = "ready"
  /\ calls < MaxCalls
  /\ calls' = calls + 1
  /\ pc' = step
  /\ call' = [locals EXCEPT !.op = op]
  /\ UNCHANGED <<elf, names, file, sessions>>

Return == pc' = "ready" /\ call' = NoCall

Continue(step) == pc' = step /\ UNCHANGED call

RemoveInterpreter ==
  /\ Begin("remove_interpreter", "free_interp", NoCall)
  /\ want' = [want EXCEPT !.interp = Absent]

SetInterpreter(value) ==
  /\ Begin("set_interpreter", "free_interp", [NoCall EXCEPT !.value = value])
  /\ want' = [want EXCEPT !.interp = value]

SearchPaths == {"Rpath", "Runpath"}

\* The tags after tag is set: the tags in dropped are gone.
Updated(values, tag, value, dropped) ==
  [t \in Tags |-> IF t = tag THEN value
                  ELSE IF t \in dropped THEN Absent ELSE values[t]]

\* One search path replaces the other.  The code drops both whatever tag is
\* set; asked keeps what a client asked for.
SetDynamicTag(tag, value) ==
  /\ Begin("set_dynamic_tag", "free_dynamic",
           [NoCall EXCEPT !.tag = tag, !.value = value])
  /\ want' =
       IF Positions(sections, "Dynamic") = {} THEN want
       ELSE [want EXCEPT
               !.tags = Updated(@, tag, value, SearchPaths),
               !.asked = Updated(@, tag, value, IF tag \in SearchPaths
                                                THEN SearchPaths ELSE {})]

RemoveDynamicTag(tag) ==
  /\ Begin("remove_dynamic_tag", "shrink_dynamic", [NoCall EXCEPT !.tag = tag])
  /\ want' = [want EXCEPT !.tags = Updated(@, tag, Absent, {}),
                          !.asked = Updated(@, tag, Absent, {})]

Finish ==
  /\ pc = "ready"
  /\ calls # 0
  /\ pc' = "free_phdr"
  /\ UNCHANGED <<elf, names, file, call, want, calls, sessions>>

(***************************************************************************)
(* Steps that several calls share.                                         *)
(***************************************************************************)

\* SectionHeader::free of the section at i, with its bytes.
Free(i) ==
  /\ sections' = FreeSections(sections, {i})
  /\ file' = Zero(file, sections[i].offset, sections[i].size)

Request(name, kind, write, size, link, align) ==
  [name |-> name, kind |-> kind, alloc |-> TRUE, write |-> write, offset |-> 0,
   address |-> 0, size |-> size, link |-> link, align |-> align]

\* ElfPatcher::alloc_section and Section::write_content.  The new section is at
\* SpareSlot(sections).  A session runs out of room when an end exceeds a word:
\* the allocator says so of some, and only Elf::check, in finish, of the others
\* (before that, with overflow checks, the next allocation panics).  Either way
\* the header and the tables in the file stay as they are, and the model follows
\* such a session no further.
Place(request, content, step) ==
  LET result == AllocateSection(sections, segments, request)
  IN  IF result.ok /\ Fits(AddSection(sections, result.section), result.segments)
      THEN /\ sections' = AddSection(sections, result.section)
           /\ segments' = result.segments
           /\ file' = Write(file, result.section.offset, request.size, content)
           /\ pc' = step
      ELSE pc' = "failed" /\ UNCHANGED <<sections, segments, file>>

\* ElfPatcher::get_name_offset: the name is in the table, or the table of names
\* is freed and grows.  Freeing a section that is not there panics.
FindName ==
  LET i == header.section_names_index
  IN  /\ pc = "find_name"
      /\ UNCHANGED <<header, segments, want, calls, sessions>>
      /\ IF call.name \in CachedNames.strings
         THEN /\ names' = CachedNames
              /\ Continue(call.then)
              /\ UNCHANGED <<sections, file>>
         ELSE IF i \in DOMAIN sections
         THEN /\ names' = WithString(WithString(CachedNames, call.name),
                                     ".shstrtab")
              /\ Free(i)
              /\ Continue("place_names")
         ELSE /\ names' = CachedNames
              /\ Continue("panicked")
              /\ UNCHANGED <<sections, file>>

\* PlaceNames, but the header keeps the old index of the table.
PlaceNamesUnindexed ==
  /\ pc = "place_names"
  /\ Place(Request(".shstrtab", "StringTable", FALSE, names.len, 1,
                   StringTableAlign),
           [strings |-> names.strings], call.then)
  /\ UNCHANGED <<header, names, call, want, calls, sessions>>

PlaceNames ==
  /\ pc = "place_names"
  /\ Place(Request(".shstrtab", "StringTable", FALSE, names.len, 1,
                   StringTableAlign),
           [strings |-> names.strings], call.then)
  /\ header' = IF pc' = "failed" THEN header
               ELSE [header EXCEPT !.section_names_index = SpareSlot(sections)]
  /\ UNCHANGED <<names, call, want, calls, sessions>>

(***************************************************************************)
(* remove_interpreter and set_interpreter.                                 *)
(***************************************************************************)

\* One round of the loop over the sections.
FreeInterp ==
  LET interp == {i \in DOMAIN sections :
                   /\ sections[i].name = ".interp"
                   /\ ".interp" \in CachedNames.strings}
  IN  /\ pc = "free_interp"
      /\ names' = CachedNames
      /\ IF interp # {} THEN Free(First(interp)) /\ UNCHANGED <<pc, call>>
         ELSE Continue("drop_interp") /\ UNCHANGED <<sections, file>>
      /\ UNCHANGED <<header, segments, want, calls, sessions>>

\* DropInterp without retain: the bytes of the segments go, the segments stay.
ClearInterp ==
  /\ pc = "drop_interp"
  /\ file' = {b \in file : \A j \in Positions(segments, "Interpreter") :
                ~Overlaps(b, segments[j].offset, segments[j].file_size)}
  /\ IF call.op = "set_interpreter"
     THEN /\ pc' = "find_name"
          /\ call' = [call EXCEPT !.name = ".interp", !.then = "place_interp"]
     ELSE Return
  /\ UNCHANGED <<elf, names, want, calls, sessions>>

\* clear_content of all INTERP segments, and retain.
DropInterp ==
  LET interp == Positions(segments, "Interpreter")
  IN  /\ pc = "drop_interp"
      /\ file' = {b \in file : \A j \in interp :
                    ~Overlaps(b, segments[j].offset, segments[j].file_size)}
      /\ segments' = Without(segments, interp)
      /\ IF call.op = "set_interpreter"
         THEN /\ pc' = "find_name"
              /\ call' = [call EXCEPT !.name = ".interp",
                                      !.then = "place_interp"]
         ELSE Return
      /\ UNCHANGED <<header, sections, names, want, calls, sessions>>

PlaceInterp ==
  /\ pc = "place_interp"
  /\ Place(Request(".interp", "ProgramBits", FALSE, StringLen[call.value], 1,
                   InterpAlign),
           [interp |-> call.value], "overlay_interp")
  /\ call' = [call EXCEPT !.slot = SpareSlot(sections)]
  /\ UNCHANGED <<header, names, want, calls, sessions>>

OverlayInterp ==
  /\ pc = "overlay_interp"
  /\ segments' = Append(segments,
                        OverlaySegment(sections[call.slot], "Interpreter"))
  /\ Return
  /\ UNCHANGED <<header, sections, names, file, want, calls, sessions>>

(***************************************************************************)
(* remove_dynamic_tag.                                                     *)
(***************************************************************************)
ShrinkDynamic ==
  LET i == First(Positions(sections, "Dynamic"))
      j == First(Positions(segments, "Dynamic"))
      tags == WithoutTags(DynamicTags, {call.tag})
      len == TableLen(tags)
  IN  /\ pc = "shrink_dynamic"
      /\ IF i = 0 THEN UNCHANGED <<sections, segments, file>>
         ELSE /\ sections' = [sections EXCEPT ![i].size = len]
              /\ file' = Write(file, sections[i].offset, len, [tags |-> tags])
              /\ segments' = IF j = 0 THEN segments
                             ELSE [segments EXCEPT ![j].file_size = len,
                                                   ![j].memory_size = len]
      /\ Return
      /\ UNCHANGED <<header, names, want, calls, sessions>>

(***************************************************************************)
(* set_dynamic_tag.                                                        *)
(***************************************************************************)

\* The dynamic table is read and freed.
FreeDynamic ==
  LET i == First(Positions(sections, "Dynamic"))
  IN  /\ pc = "free_dynamic"
      /\ IF i = 0 THEN Return /\ UNCHANGED <<sections, file>>
         ELSE /\ Free(i)
              /\ pc' = "free_dynamic_segment"
              /\ call' = [call EXCEPT !.tags = DynamicTags,
                                      !.address = sections[i].address]
      /\ UNCHANGED <<header, segments, names, want, calls, sessions>>

\* FreeDynamicSegment, but the entry stays in the program header.
ClearDynamicSegment ==
  LET j == First(Positions(segments, "Dynamic"))
  IN  /\ pc = "free_dynamic_segment"
      /\ file' = IF j = 0 THEN file
                 ELSE Zero(file, segments[j].offset, segments[j].file_size)
      /\ Continue("find_dynstr")
      /\ UNCHANGED <<elf, names, want, calls, sessions>>

FreeDynamicSegment ==
  LET j == First(Positions(segments, "Dynamic"))
  IN  /\ pc = "free_dynamic_segment"
      /\ IF j = 0 THEN UNCHANGED <<segments, file>>
         ELSE /\ segments' = Without(segments, {j})
              /\ file' = Zero(file, segments[j].offset, segments[j].file_size)
      /\ Continue("find_dynstr")
      /\ UNCHANGED <<header, sections, names, want, calls, sessions>>

\* The string table of the dynamic table, by its address or by its name.
DynstrSections ==
  {i \in Positions(sections, "StringTable") :
     IF "StringTableAddress" \in DOMAIN call.tags
     THEN sections[i].address = call.tags["StringTableAddress"]
     ELSE /\ sections[i].name = ".dynstr"
          /\ ".dynstr" \in CachedNames.strings}

\* get_string_offset: the value is in the table, or the table is freed and
\* grows.  Without a table the call is over, and the dynamic table is gone.
FindDynstr ==
  LET i == First(DynstrSections)
      strings == StringsIn(ReadSection(i))
  IN  /\ pc = "find_dynstr"
      /\ names' = IF "StringTableAddress" \in DOMAIN call.tags THEN names
                  ELSE CachedNames
      /\ IF i = 0 THEN Return /\ UNCHANGED <<sections, file>>
         ELSE IF call.value \in strings
         THEN /\ pc' = "write_dynstr"
              /\ call' = [call EXCEPT !.strings = strings, !.slot = i]
              /\ UNCHANGED <<sections, file>>
         ELSE /\ Free(i)
              /\ pc' = "find_name"
              /\ call' = [call EXCEPT
                            !.strings = strings \cup {call.value},
                            !.len = sections[i].size + StringLen[call.value],
                            !.name = ".dynstr", !.then = "place_dynstr"]
      /\ UNCHANGED <<header, segments, want, calls, sessions>>

PlaceDynstr ==
  /\ pc = "place_dynstr"
  /\ Place(Request(".dynstr", "StringTable", FALSE, call.len, 1,
                   StringTableAlign),
           [strings |-> call.strings], "write_dynstr")
  /\ call' = [call EXCEPT !.slot = SpareSlot(sections)]
  /\ UNCHANGED <<header, names, want, calls, sessions>>

\* The string table is written again, and the entries are updated.
WriteDynstr ==
  LET s == sections[call.slot]
      kept == WithoutTags(call.tags, SearchPaths)
  IN  /\ pc = "write_dynstr"
      /\ file' = Write(file, s.offset, s.size, [strings |-> call.strings])
      /\ pc' = "find_name"
      /\ call' = [call EXCEPT !.tags = WithTag(WithStringTable(kept, s),
                                               call.tag, call.value),
                              !.name = ".dynamic", !.then = "place_dynamic"]
      /\ UNCHANGED <<elf, names, want, calls, sessions>>

PlaceDynamic ==
  /\ pc = "place_dynamic"
  /\ Place(Request(".dynamic", "Dynamic", TRUE, TableLen(call.tags), call.slot,
                   DynamicAlign),
           [tags |-> call.tags], "overlay_dynamic")
  /\ call' = [call EXCEPT !.slot = SpareSlot(sections)]
  /\ UNCHANGED <<header, names, want, calls, sessions>>

OverlayDynamic ==
  /\ pc = "overlay_dynamic"
  /\ segments' = Append(segments,
                        OverlaySegment(sections[call.slot], "Dynamic"))
  /\ Continue("move_symbols")
  /\ UNCHANGED <<header, sections, names, file, want, calls, sessions>>

SymbolTables == Positions(sections, "SymbolTable")
                  \cup Positions(sections, "DynamicSymbolTable")

\* MoveSymbols, but the static symbol table is left out.
MoveDynamicSymbols ==
  LET old == {b \in file :
                /\ \E i \in Positions(sections, "DynamicSymbolTable") :
                     b \in Stored(file, sections[i].offset, sections[i].size)
                /\ b.content = [symbol |-> call.address]}
  IN  /\ pc = "move_symbols"
      /\ file' = (file \ old) \cup
                 {[b EXCEPT !.content =
                     [symbol |-> sections[call.slot].address]] : b \in old}
      /\ Return
      /\ UNCHANGED <<elf, names, want, calls, sessions>>

\* Symbols that have the address of the old dynamic table get the new one.
MoveSymbols ==
  LET moved(b) == IF /\ \E i \in SymbolTables :
                          b \in Stored(file, sections[i].offset,
                                       sections[i].size)
                     /\ b.content = [symbol |-> call.address]
                  THEN [b EXCEPT !.content =
                          [symbol |-> sections[call.slot].address]]
                  ELSE b
  IN  /\ pc = "move_symbols"
      /\ file' = {moved(b) : b \in file}
      /\ Return
      /\ UNCHANGED <<elf, names, want, calls, sessions>>

(***************************************************************************)
(* finish.                                                                 *)
(***************************************************************************)

FreePhdr ==
  LET j == First(Positions(segments, "ProgramHeader"))
      freed == {j, CompanionLoad(segments, j)} \cap DOMAIN segments
  IN  /\ pc = "free_phdr"
      /\ IF j = 0 THEN UNCHANGED <<segments, file>>
         ELSE /\ segments' = Without(segments, freed)
              /\ file' = {b \in file : \A k \in freed :
                            ~Overlaps(b, segments[k].offset,
                                      segments[k].file_size)}
      /\ Continue("place_phdr")
      /\ UNCHANGED <<header, sections, names, want, calls, sessions>>

\* The new PHDR and the LOAD that covers it count in their own length.
PhdrLen(n) == (n + 2) * SegmentLen

PhdrRequest(len) ==
  [kind |-> "ProgramHeader", write |-> FALSE, offset |-> 0, address |-> 0,
   file_size |-> len, memory_size |-> len, align |-> PhdrAlign]

PlacePhdr ==
  LET result == AllocateSegment(sections, segments,
                                PhdrRequest(PhdrLen(Len(segments))))
  IN  /\ pc = "place_phdr"
      /\ IF result.ok /\ Fits(sections, AddSegment(result.segments,
                                                    result.segment))
         THEN /\ segments' = AddSegment(result.segments, result.segment)
              /\ header' = [header EXCEPT
                              !.program_header_offset = result.segment.offset]
              /\ pc' = "place_tables"
         ELSE pc' = "failed" /\ UNCHANGED <<header, segments>>
      /\ UNCHANGED <<sections, names, file, call, want, calls, sessions>>

\* The section header gets a place, and the header learns the lengths.
PlaceTables ==
  LET finished == FinishSections(sections)
      len == Len(finished)
      place == AllocateFileSpace(finished, segments, len * SectionLen,
                                 SectionHeaderAlign)
  IN  /\ pc = "place_tables"
      /\ sections' = finished
      /\ IF place + SegmentLen * len <= MaxWord
         THEN /\ header' = [header EXCEPT !.num_segments = Len(segments),
                                          !.num_sections = len,
                                          !.section_header_offset = place]
              /\ pc' = "arrange"
         ELSE pc' = "failed" /\ UNCHANGED header
      /\ UNCHANGED <<segments, names, file, call, want, calls, sessions>>

Arrange ==
  /\ pc = "arrange"
  /\ segments' = FinishSegments(segments)
  /\ pc' = "write"
  /\ UNCHANGED <<header, sections, names, file, call, want, calls, sessions>>

\* Elf::write: the header, the segments and the sections, in this order.
WriteElf ==
  LET first == Write(file, 0, HeaderLen, [header |-> header])
      second == Write(first, header.program_header_offset,
                      SegmentLen * Len(segments), [segments |-> segments])
      third == Write(second, header.section_header_offset,
                     SectionLen * Len(sections), [sections |-> sections])
  IN  /\ pc = "write"
      /\ IF Accepted(header, sections, segments)
         THEN file' = third /\ pc' = "closed"
         ELSE pc' = "rejected" /\ UNCHANGED file
      /\ UNCHANGED <<elf, names, call, want, calls, sessions>>

\* What a client may do between calls.
Call ==
  \/ Open
  \/ RemoveInterpreter
  \/ \E value \in Interps : SetInterpreter(value)
  \/ \E tag \in Tags, value \in Strings : SetDynamicTag(tag, value)
  \/ \E tag \in Tags : RemoveDynamicTag(tag)
  \/ Finish

\* The next step of the call in progress, or of finish.
Step ==
  \/ FindName \/ PlaceNames
  \/ FreeInterp \/ DropInterp \/ PlaceInterp \/ OverlayInterp
  \/ ShrinkDynamic
  \/ FreeDynamic \/ FreeDynamicSegment \/ FindDynstr \/ PlaceDynstr
  \/ WriteDynstr \/ PlaceDynamic \/ OverlayDynamic \/ MoveSymbols
  \/ FreePhdr \/ PlacePhdr \/ PlaceTables \/ Arrange \/ WriteElf

Next == Call \/ Step

Spec == Init /\ [][Next]_vars

(***************************************************************************)
(* Properties.                                                             *)
(***************************************************************************)

Steps == {"closed", "ready", "unreadable", "failed", "rejected", "panicked",
          "find_name", "place_names", "free_interp", "drop_interp",
          "place_interp", "overlay_interp", "shrink_dynamic", "free_dynamic",
          "free_dynamic_segment", "find_dynstr", "place_dynstr",
          "write_dynstr", "place_dynamic", "overlay_dynamic", "move_symbols",
          "free_phdr", "place_phdr", "place_tables", "arrange", "write"}

\* The tables and the position in the code are well-typed.
TypeOK ==
  /\ header \in HeaderType
  /\ sections \in Seq(Section)
  /\ segments \in Seq(Segment)
  /\ pc \in Steps
  /\ calls \in 0 .. MaxCalls
  /\ sessions \in 0 .. MaxSessions

\* Between calls, and when the file is finished.
AtRest == pc \in {"ready", "closed"}

\* No step, in the middle of a call or at the end of finish, destroys bytes of
\* a section that is still in the table (free, write_content, Elf::write).
SectionsReadable ==
  \A i \in DOMAIN sections :
    InFile(sections[i]) => ReadSection(i) # Garbage

\* finish leaves a header and two tables that can be read back
\* (alloc_section_header, write_unchecked).
TablesReadable == pc = "closed" => TablesIntact

\* What set_interpreter and remove_interpreter did is what read_interpreter
\* returns, whatever other calls came between, also after finish.
InterpreterAsSet == AtRest => Interpreter = want.interp

\* What set_dynamic_tag and remove_dynamic_tag did is what read_dynamic_table
\* returns.
TagsAsSet == AtRest => \A t \in Tags : TagValue(t) = want.tags[t]

\* The same, when a tag other than a search path leaves the search paths alone
\* as the documentation of set_dynamic_tag has it.
TagsAsAsked == AtRest => \A t \in Tags : TagValue(t) = want.asked[t]

\* Where the loader finds an address in the file.
Translated(address) ==
  {segments[j].offset + (address - segments[j].address) :
     j \in {k \in Positions(segments, "Loadable") :
              /\ segments[k].address <= address
              /\ address < segments[k].address + segments[k].file_size}}

\* Strings the dynamic table refers to.
Referenced(tags) == {tags[t] : t \in DOMAIN tags \ {"StringTableAddress",
                                                    "StringTableSize"}}

\* A loader that starts from the segments of a finished file finds the dynamic
\* table, from there the string table with every string the entries refer to,
\* and the interpreter; the symbol of the dynamic table has its address.
LoaderFindsAll ==
  pc = "closed" =>
    /\ \A j \in Positions(segments, "Dynamic") :
         LET g == segments[j]
             tags == TagsIn(Read(file, g.offset, g.file_size))
         IN  /\ tags # << >>
             /\ tags = DynamicTags
             /\ Translated(g.address) = {g.offset}
             /\ \E offset \in Translated(tags["StringTableAddress"]) :
                  Referenced(tags)
                    \subseteq StringsIn(Read(file, offset,
                                             tags["StringTableSize"]))
             /\ \A i \in SymbolTables : ReadSection(i) = [symbol |-> g.address]
    /\ \A j \in Positions(segments, "Interpreter") :
         Translated(segments[j].address) = {segments[j].offset}

\* The cached section names are those in the file, wherever the table went
\* (get_name_offset).
NamesInStep == AtRest /\ names # Unread => names = SectionNames

\* No call panics: the interpreter can be set in every file that Elf::check
\* accepts (set_interpreter).
NeverPanics == pc # "panicked"

\* No sequence of calls makes finish refuse the file, an allocation fail or an
\* index run out of bounds.
NeverRejected == pc \notin {"rejected", "failed", "panicked"}

Within(s, g) == /\ g.offset <= s.offset
                /\ SectionFileEnd(s) <= SegmentFileEnd(g)

\* A writable section of a finished file is in a writable LOAD segment, as
\* SectionFlags::WRITE has it.
WritableInWritable ==
  pc = "closed" =>
    \A i \in DOMAIN sections :
      sections[i].alloc /\ sections[i].write /\ InFile(sections[i]) =>
        \E j \in Positions(segments, "Loadable") :
          segments[j].write /\ Within(sections[i], segments[j])

\* The section a symbol table is linked to is its string table (Section::link).
LinkedToStrings ==
  AtRest => \A i \in SymbolTables :
              LET j == sections[i].link
              IN  j # 1 => /\ j \in DOMAIN sections
                           /\ sections[j].kind = "StringTable"

(***************************************************************************)
(* The steps of the patcher, seen through its tables, are operations of    *)
(* ElfLayout.                                                              *)
(***************************************************************************)
CONSTANTS
  LayoutRequests,         \* the sections and segments that are asked space for
  LayoutSegmentRequests

Layout == INSTANCE ElfLayout WITH
  InitialLayouts <- {[sections |-> f.sections, segments |-> f.segments] :
                       f \in Files},
  Requests <- LayoutRequests,
  SegmentRequests <- LayoutSegmentRequests,
  SectionCounts <- Nat,
  SegmentCounts <- Nat

RefinesLayout == Layout!Spec
===============================================================================
