----------------------------- MODULE FirstSession -----------------------------
(***************************************************************************)
(* What a file must be for the first session of ElfPatcher to keep its     *)
(* promises, and what holds at every step of that session: the inductive   *)
(* invariant of the proofs of SectionsReadable, TablesReadable,            *)
(* InterpreterAsSet, TagsAsSet and NamesInStep (FInv), and with it those   *)
(* of LoaderFindsAll (LInv) and NeverRejected (CInv).                      *)
(***************************************************************************)
EXTENDS ElfPatcher

Single(I) == \A i, j \in I : i = j

\* The segment is the bytes of the section.
Coincide(g, s) == InFile(s) /\ g.offset = s.offset /\ g.file_size = s.size

\* No section has bytes in a range of the file.
Missed(secs, offset, len) ==
  \A i \in DOMAIN secs :
    InFile(secs[i]) => \/ len = 0
                       \/ SectionFileEnd(secs[i]) <= offset
                       \/ offset + len <= secs[i].offset

\* What is in the file is not garbage, and once in a place.
BytesOK(bytes) ==
  /\ \A b \in bytes : b.content # Garbage
  /\ \A b, c \in bytes : b.offset = c.offset /\ b.len = c.len /\ b.len # 0
                           => b = c

\* The sections are in the file, behind its header.
SectionsStored(bytes, secs) ==
  \A i \in DOMAIN secs :
    InFile(secs[i]) => /\ secs[i].offset >= HeaderLen
                       /\ Stored(bytes, secs[i].offset, secs[i].size) # {}

(***************************************************************************)
(* The header of the file.  SpaceAllocator does not know that it is there: *)
(* either all segments are behind it, or a LOAD holds it and PHDR, which   *)
(* follows it, keeps sections away.                                        *)
(***************************************************************************)

SegmentsBehind(segs) ==
  \A j \in DOMAIN segs : segs[j].kind # "Null" => segs[j].offset >= HeaderLen

HeaderLoaded(segs) ==
  \E j \in Positions(segs, "Loadable") :
    segs[j].offset = 0 /\ SegmentFileEnd(segs[j]) >= HeaderLen

HeaderReserved(segs) == SegmentsBehind(segs) \/ HeaderLoaded(segs)

HeaderGuarded(segs) ==
  \/ SegmentsBehind(segs)
  \/ /\ HeaderLoaded(segs)
     /\ \E j \in Positions(segs, "ProgramHeader") : segs[j].offset = HeaderLen

\* PHDR is part of a LOAD, and no section has its bytes.
PhdrCovered(secs, segs) ==
  \A j \in Positions(segs, "ProgramHeader") :
    /\ segs[j].file_size # 0
    /\ segs[j].offset >= HeaderLen
    /\ Missed(secs, segs[j].offset, segs[j].file_size)
    /\ \E k \in Positions(segs, "Loadable") :
         /\ segs[k].offset <= segs[j].offset
         /\ SegmentFileEnd(segs[j]) <= SegmentFileEnd(segs[k])

(***************************************************************************)
(* The interpreter, the dynamic table and the table of section names.      *)
(***************************************************************************)

InterpSections(secs) == {i \in DOMAIN secs : secs[i].name = ".interp"}

\* INTERP is the bytes of a section .interp.
InterpCoincides(secs, segs) ==
  \A j \in Positions(segs, "Interpreter") :
    \E i \in InterpSections(secs) : Coincide(segs[j], secs[i])

\* DYNAMIC is the bytes of the dynamic section, when there is one.
DynamicCoincides(secs, segs) ==
  \A i \in Positions(secs, "Dynamic"), j \in Positions(segs, "Dynamic") :
    Coincide(segs[j], secs[i])

\* The slots that SectionHeader::add may take.
SpareSlots(secs) == Positions(secs, "Null") \ {1}

\* The section at d is the string table of a dynamic table.
IsDynstr(secs, tags, d) ==
  /\ "StringTableAddress" \in DOMAIN tags
  /\ d \in Positions(secs, "StringTable")
  /\ secs[d].address = tags["StringTableAddress"]

\* The table of section names has what set_dynamic_tag looks for.
NamesForTags == {".dynstr", ".dynamic"}

\* The string table comes before the table of section names, and will when
\* that has to be placed again for want of .interp.
DynstrFound(secs, tags, index, strings) ==
  \E d \in DOMAIN secs :
    /\ IsDynstr(secs, tags, d)
    /\ d < index
    /\ ".interp" \in strings \/ \A n \in SpareSlots(secs) : d < n

(***************************************************************************)
(* A file as linkers make them.                                            *)
(***************************************************************************)
OrdinaryFile(f) ==
  LET secs == f.sections
      segs == f.segments
      index == f.header.section_names_index
      Content(i) == Read(f.file, secs[i].offset, secs[i].size)
      strings == StringsIn(Content(index))
  IN  /\ BytesOK(f.file)
      /\ SectionsStored(f.file, secs)
      /\ Intact(f.file, f.header, secs, segs)
      /\ HeaderGuarded(segs)
      /\ PhdrCovered(secs, segs)
      /\ index \in Positions(secs, "StringTable") /\ InFile(secs[index])
      /\ \A i \in InterpSections(secs) : /\ secs[i].kind = "ProgramBits"
                                         /\ ".interp" \in strings
      /\ Single(Positions(segs, "Interpreter"))
      /\ InterpCoincides(secs, segs)
      /\ Single(Positions(secs, "Dynamic"))
      /\ Single(Positions(segs, "Dynamic"))
      /\ DynamicCoincides(secs, segs)
      /\ \A i \in Positions(secs, "Dynamic") :
           /\ NamesForTags \subseteq strings
           /\ DynstrFound(secs, TagsIn(Content(i)), index, strings)

\* The tags that say where the string table is are not for a client to set.
OrdinaryTags == Tags \cap {"StringTableAddress", "StringTableSize"} = {}

Ordinary == (\A f \in Files : OrdinaryFile(f)) /\ OrdinaryTags

(***************************************************************************)
(* The invariant.                                                          *)
(***************************************************************************)

\* The steps no other step follows.
Dead == {"unreadable", "failed", "rejected", "panicked"}

\* finish has freed the old PHDR segment.
Finishing == \/ pc \in {"place_phdr", "place_tables", "arrange", "write"}
             \/ pc = "closed" /\ sessions # 0

InCalls == pc \notin Dead /\ ~Finishing

\* The steps of get_name_offset.
NameSteps == {"find_name", "place_names"}

\* The step a search for a name is on the way to.
Phase == IF pc \in NameSteps THEN call.then ELSE pc

\* The bytes of the header and of the two tables, which are written last, are
\* nobody else's.
TablesApart ==
  /\ InCalls => HeaderGuarded(segments) /\ PhdrCovered(sections, segments)
  /\ pc \in {"place_phdr", "place_tables"} => HeaderReserved(segments)
  /\ pc = "place_tables" =>
       \E j \in Positions(segments, "ProgramHeader") :
         /\ segments[j].offset = header.program_header_offset
         /\ segments[j].file_size >= SegmentLen * Len(segments)
  /\ pc \in {"place_tables", "arrange", "write"} =>
       /\ segments # << >>
       /\ header.program_header_offset >= HeaderLen
       /\ Missed(sections, header.program_header_offset,
                 SegmentLen * Len(segments))
  /\ pc \in {"arrange", "write"} =>
       /\ sections # << >>
       /\ header.section_header_offset >= HeaderLen
       /\ Missed(sections, header.section_header_offset,
                 SectionLen * Len(sections))
       /\ \/ header.program_header_offset + SegmentLen * Len(segments)
               <= header.section_header_offset
          \/ header.section_header_offset + SectionLen * Len(sections)
               <= header.program_header_offset

\* The cached table of names is the one in the file, unless that is on its way.
NamesOK ==
  /\ pc = "place_names" =>
       /\ names = [strings |-> names.strings, len |-> names.len]
       /\ names # Unread /\ names.len # 0
       /\ call.then = "place_interp"
       /\ ".interp" \in names.strings
  /\ pc # "place_names" =>
       /\ header.section_names_index \in Positions(sections, "StringTable")
       /\ InFile(sections[header.section_names_index])
       /\ names # Unread => names = SectionNames
  /\ \A i \in InterpSections(sections) : sections[i].kind = "ProgramBits"
  /\ InterpSections(sections) # {} \/ pc = "place_interp"
       => ".interp" \in CachedNames.strings

\* The interpreter is where INTERP says and the one that was asked for, or is
\* being replaced.
InterpOK ==
  /\ Single(Positions(segments, "Interpreter"))
  /\ Phase \notin {"free_interp", "drop_interp"}
       => InterpCoincides(sections, segments)
  /\ Phase \in {"free_interp", "drop_interp"} =>
       \A j \in Positions(segments, "Interpreter") :
         \/ Missed(sections, segments[j].offset, segments[j].file_size)
         \/ /\ Phase = "free_interp"
            /\ \E i \in InterpSections(sections) :
                 Coincide(segments[j], sections[i])
  /\ Phase \in {"free_interp", "drop_interp"}
       => want.interp = IF call.op = "set_interpreter" THEN call.value
                        ELSE Absent
  /\ Phase \in {"place_interp", "overlay_interp"}
       => /\ Positions(segments, "Interpreter") = {}
          /\ want.interp = call.value
  /\ Phase = "overlay_interp"
       => /\ InFile(sections[call.slot])
          /\ sections[call.slot].name = ".interp"
          /\ InterpIn(ReadSection(call.slot)) = call.value
  /\ Phase \notin {"free_interp", "drop_interp", "place_interp",
                   "overlay_interp"}
       => Interpreter = want.interp

\* The steps of set_dynamic_tag without a dynamic section.
WithoutTable == {"free_dynamic_segment", "find_dynstr", "place_dynstr",
                 "write_dynstr", "place_dynamic"}

\* DYNAMIC is the dynamic section, or both are gone.
DynamicOK ==
  /\ Single(Positions(sections, "Dynamic"))
  /\ Single(Positions(segments, "Dynamic"))
  /\ DynamicCoincides(sections, segments)
  /\ Phase \in WithoutTable => Positions(sections, "Dynamic") = {}
  /\ Phase = "free_dynamic_segment" =>
       \A j \in Positions(segments, "Dynamic") :
         Missed(sections, segments[j].offset, segments[j].file_size)
  /\ Phase \in (WithoutTable \ {"free_dynamic_segment"})
                 \cup {"overlay_dynamic"}
       => Positions(segments, "Dynamic") = {}
  /\ Phase = "overlay_dynamic" => call.slot \in Positions(sections, "Dynamic")

ValueIn(tags, t) == IF t \in DOMAIN tags THEN tags[t] ELSE Absent

Values(tags) == [t \in Tags |-> ValueIn(tags, t)]

\* The tags are those asked for, or on their way into the file.
TagsOK ==
  want.tags =
    CASE Phase = "free_dynamic" /\ Positions(sections, "Dynamic") # {}
           -> Updated(Values(DynamicTags), call.tag, call.value, SearchPaths)
      [] Phase = "shrink_dynamic"
           -> Updated(Values(DynamicTags), call.tag, Absent, {})
      [] Phase \in WithoutTable \ {"place_dynamic"}
           -> Updated(Values(call.tags), call.tag, call.value, SearchPaths)
      [] Phase = "place_dynamic" -> Values(call.tags)
      [] OTHER -> Values(DynamicTags)

\* At most one of the spare slots comes before d.
OneBefore(secs, d) == Single({n \in SpareSlots(secs) : n <= d})

\* set_dynamic_tag will find a string table, and not the table of names.
DynstrOK ==
  LET index == header.section_names_index
      strings == CachedNames.strings
      mid == {"free_dynamic_segment", "find_dynstr"}
  IN  /\ Phase \in WithoutTable \/ Positions(sections, "Dynamic") # {}
           => NamesForTags \subseteq strings
      /\ Positions(sections, "Dynamic") # {}
           => IF pc = "place_names"
              THEN \E d \in DOMAIN sections :
                     /\ IsDynstr(sections, DynamicTags, d)
                     /\ \A n \in SpareSlots(sections) : d < n
              ELSE DynstrFound(sections, DynamicTags, index, strings)
      /\ Phase \in mid =>
           \E d \in DOMAIN sections :
             /\ IsDynstr(sections, call.tags, d) /\ d < index
             /\ ".interp" \in strings \/ OneBefore(sections, d)
      /\ Phase = "place_dynstr" => \E n \in SpareSlots(sections) : n < index
      /\ Phase \in {"write_dynstr", "place_dynamic"} =>
           /\ call.slot \in Positions(sections, "StringTable")
           /\ call.slot < index
           /\ ".interp" \in strings \/ OneBefore(sections, call.slot)
      /\ Phase = "place_dynamic" => IsDynstr(sections, call.tags, call.slot)

\* The invariant of the first session.
FirstOK ==
  /\ {"interp", "tags"} \subseteq DOMAIN want
  /\ BytesOK(file)
  /\ SectionsStored(file, sections)
  /\ sessions = 0 => pc = "closed"
  /\ pc # "unreadable"
  /\ pc = "closed" => TablesIntact
  /\ pc \notin Dead =>
       TablesApart /\ NamesOK /\ InterpOK /\ DynamicOK /\ TagsOK /\ DynstrOK

FInv == sessions <= 1 => FirstOK

(***************************************************************************)
(* What the loader needs.  It starts from the segments and knows addresses *)
(* only: whatever it looks for has to be in a LOAD segment, at the address *)
(* that the tables say.                                                    *)
(***************************************************************************)

Loads(segs) == Positions(segs, "Loadable")

\* The section is in the segment, which maps it to its address.
Maps(g, s) ==
  /\ g.offset <= s.offset
  /\ SectionFileEnd(s) <= SegmentFileEnd(g)
  /\ s.address + g.offset = g.address + s.offset

\* Every section that is in memory is in a LOAD that maps it.
SectionsMapped(secs, segs) ==
  \A i \in DOMAIN secs :
    secs[i].alloc /\ InFile(secs[i])
      => \E k \in Loads(segs) : Maps(segs[k], secs[i])

\* All bytes of a LOAD segment are mapped.
LoadsFilled(segs) ==
  \A k \in Loads(segs) : segs[k].file_size <= segs[k].memory_size

\* The segment is the bytes of the section, in the file and in memory.
Overlaid(g, s) == Coincide(g, s) /\ s.alloc /\ g.address = s.address

\* INTERP and DYNAMIC are sections that are in memory.
InterpOverlaid(secs, segs) ==
  \A j \in Positions(segs, "Interpreter") :
    \E i \in InterpSections(secs) : Overlaid(segs[j], secs[i])

DynamicOverlaid(secs, segs) ==
  \A i \in Positions(secs, "Dynamic"), j \in Positions(segs, "Dynamic") :
    Overlaid(segs[j], secs[i])

(***************************************************************************)
(* The walk of SpaceAllocator takes the LOAD segment it calls current for  *)
(* the one that the gap is in.  That is so, or makes no difference, in a   *)
(* file as linkers lay it out.                                             *)
(***************************************************************************)

\* The other segments with bytes are part of a LOAD that goes on behind them.
OthersInside(segs) ==
  \A j \in DOMAIN segs :
    segs[j].kind \in {"ProgramHeader", "Other"} /\ segs[j].file_size # 0 =>
      \E k \in Loads(segs) :
        /\ segs[k].offset <= segs[j].offset
        /\ SegmentFileEnd(segs[j]) < SegmentFileEnd(segs[k])

\* The patcher never frees the section.
Lasting(s) ==
  InFile(s) /\ s.kind \notin {"StringTable", "Dynamic"} /\ s.name # ".interp"

\* The LOAD segment ends with such a section.
EndsLasting(secs, g) ==
  \E i \in DOMAIN secs :
    Lasting(secs[i]) /\ SectionFileEnd(secs[i]) = SegmentFileEnd(g)

\* The LOAD segment is one section, or the dynamic table and what it shrank by.
HoldsOne(secs, segs, g) ==
  \A i \in DOMAIN secs : InFile(secs[i]) =>
    \/ SectionFileEnd(secs[i]) <= g.offset
    \/ SegmentFileEnd(g) <= secs[i].offset
    \/ /\ secs[i].offset = g.offset
       /\ \/ SectionFileEnd(secs[i]) = SegmentFileEnd(g)
          \/ /\ secs[i].kind = "Dynamic"
             /\ \E j \in Positions(segs, "Dynamic") : segs[j].offset = g.offset

\* A LOAD segment does not end in a gap.
LoadsTight(secs, segs) ==
  \A k \in Loads(segs) :
    segs[k].file_size # 0
      => EndsLasting(secs, segs[k]) \/ HoldsOne(secs, segs, segs[k])

\* The first segment of the table maps as the first LOAD of the file does.
HeadMaps(segs) ==
  /\ segs # << >> /\ segs[1].kind \in {"Loadable", "ProgramHeader"}
  /\ segs[1].file_size # 0
  /\ \A k \in Loads(segs) :
       /\ segs[k].file_size # 0
       /\ \A j \in Loads(segs) : segs[k].offset <= segs[j].offset
       => segs[1].address + segs[k].offset = segs[k].address + segs[1].offset

\* Nothing but the header of the file is at address 0.
LoadsPlaced(segs) ==
  \A k \in Loads(segs) : segs[k].address = 0 => segs[k].offset = 0

LayoutLinked(secs, segs) ==
  OthersInside(segs) /\ LoadsTight(secs, segs) /\ HeadMaps(segs)
  /\ LoadsPlaced(segs)

(***************************************************************************)
(* Strings and symbols.                                                    *)
(***************************************************************************)

\* An address tells string tables in memory from the others.
StringTablesPlaced(secs) ==
  \A i \in Positions(secs, "StringTable") :
    IF secs[i].alloc THEN secs[i].size # 0 ELSE secs[i].address = 0

\* The strings that the entries refer to are where the entries say.
StringsThere(bytes, secs, tags) ==
  /\ {"StringTableAddress", "StringTableSize"} \subseteq DOMAIN tags
  /\ \E d \in Positions(secs, "StringTable") :
       /\ secs[d].alloc
       /\ secs[d].address = tags["StringTableAddress"]
       /\ secs[d].size = tags["StringTableSize"]
       /\ Referenced(tags)
            \subseteq StringsIn(Read(bytes, secs[d].offset, secs[d].size))

SymbolsIn(secs) ==
  Positions(secs, "SymbolTable") \cup Positions(secs, "DynamicSymbolTable")

\* The symbol of the dynamic table has the address.
SymbolsAt(bytes, secs, address) ==
  \A i \in SymbolsIn(secs) :
    Read(bytes, secs[i].offset, secs[i].size) = [symbol |-> address]

SymbolsStored(secs) == \A i \in SymbolsIn(secs) : secs[i].size # 0

\* A file as linkers make it of a program that needs libraries.
LinkedFile(f) ==
  LET secs == f.sections
      segs == f.segments
      dynamic == Positions(secs, "Dynamic")
      Table(i) == TagsIn(Read(f.file, secs[i].offset, secs[i].size))
  IN  /\ OrdinaryFile(f)
      /\ SectionsMapped(secs, segs) /\ LoadsFilled(segs)
      /\ InterpOverlaid(secs, segs) /\ DynamicOverlaid(secs, segs)
      /\ dynamic = {} <=> Positions(segs, "Dynamic") = {}
      /\ LayoutLinked(secs, segs)
      /\ StringTablesPlaced(secs) /\ SymbolsStored(secs)
      /\ \A i \in dynamic : /\ StringsThere(f.file, secs, Table(i))
                            /\ SymbolsAt(f.file, secs, secs[i].address)

\* Pages are large enough for the alignment of a dynamic table.
LinkedFiles == /\ \A f \in Files : LinkedFile(f)
               /\ OrdinaryTags
               /\ PageSize % DynamicAlign = 0

(***************************************************************************)
(* The invariant of the loader.                                            *)
(***************************************************************************)

\* Sections are where the segments map them, and the next one will be.
MappedOK ==
  /\ SectionsMapped(sections, segments)
  /\ LoadsFilled(segments)
  /\ Phase \notin {"free_interp", "drop_interp"}
       => InterpOverlaid(sections, segments)
  /\ DynamicOverlaid(sections, segments)
  /\ InCalls => LayoutLinked(sections, segments)

\* The dynamic section and DYNAMIC come and go together.
PairOK ==
  /\ \A i \in Positions(sections, "Dynamic") : sections[i].alloc
  /\ Phase # "free_dynamic_segment" /\ Positions(segments, "Dynamic") # {}
       => Positions(sections, "Dynamic") # {}
  /\ Phase # "overlay_dynamic" /\ Positions(sections, "Dynamic") # {}
       => Positions(segments, "Dynamic") # {}

StringsOK ==
  /\ StringTablesPlaced(sections)
  /\ Positions(sections, "Dynamic") # {}
       => StringsThere(file, sections, DynamicTags)
  /\ Phase \in {"free_dynamic_segment", "find_dynstr", "place_dynamic"}
       => StringsThere(file, sections, call.tags)
  /\ Phase \in {"place_dynstr", "write_dynstr"}
       => Referenced(call.tags) \cup {call.value} \subseteq call.strings
  /\ Phase = "write_dynstr" => sections[call.slot].alloc
  /\ Phase = "place_dynstr" => call.len # 0

\* Symbols move with the dynamic table.
SymbolsOK ==
  /\ SymbolsStored(sections)
  /\ IF Phase \in WithoutTable \cup {"overlay_dynamic", "move_symbols"}
     THEN SymbolsAt(file, sections, call.address)
     ELSE \A i \in Positions(sections, "Dynamic") :
            SymbolsAt(file, sections, sections[i].address)
  /\ Phase = "move_symbols" => call.slot \in Positions(sections, "Dynamic")

LoaderOK == MappedOK /\ PairOK /\ StringsOK /\ SymbolsOK

LInv == sessions <= 1 /\ pc \notin Dead => LoaderOK

(***************************************************************************)
(* What Elf::check asks for, when the first finish comes to write.         *)
(***************************************************************************)

\* What is aligned in the file is aligned in memory.
LoadsCongruent(segs) ==
  \A k \in Loads(segs) :
    segs[k].offset % DynamicAlign = segs[k].address % DynamicAlign

\* Header::check takes the length of one entry for that of the other.
CheckableFiles ==
  /\ LinkedFiles
  /\ \A f \in Files : LoadsCongruent(f.segments)
  /\ AlignIsValid(PageSize)
  /\ SegmentLen <= SectionLen

\* The part of Section::check that is not about segments.
SectionSound(s) ==
  s.kind # "Null" =>
    /\ s.offset + s.size <= MaxWord
    /\ SectionMemoryEnd(s) <= MaxWord
    /\ s.alloc /\ s.kind # "NoBits" /\ s.align > 1 => s.address % s.align = 0

\* SectionHeader::check; the bytes in memory are MappedOK's.
SectionsOK ==
  /\ sections # << >> => sections[1].kind = "Null"
  /\ Single(Positions(sections, "Hash"))
  /\ \A i \in DOMAIN sections : SectionSound(sections[i])
  /\ pc \in {"overlay_interp", "overlay_dynamic"}
       => AlignIsValid(sections[call.slot].align)
  /\ pc \in {"arrange", "write"} => Len(sections) = header.num_sections

\* check_entry_point.
EntryLoaded ==
  header.entry_point = 0
    \/ \E j \in Loads(segments) :
         /\ segments[j].address <= header.entry_point
         /\ header.entry_point < SegmentMemoryEnd(segments[j])

\* check_phdr.
PhdrLoaded ==
  \A j \in Positions(segments, "ProgramHeader") : \E k \in Loads(segments) :
    /\ segments[k].address <= segments[j].address
    /\ SegmentMemoryEnd(segments[j]) <= SegmentMemoryEnd(segments[k])

\* ProgramHeader::finish has been.
SegmentsSorted ==
  /\ \A j, k \in Loads(segments) :
       j < k => segments[j].address <= segments[k].address
  /\ \A j \in Positions(segments, "ProgramHeader"), k \in Loads(segments) : j < k

\* ProgramHeader::check; the pages are LoadsApart's.
SegmentsOK ==
  /\ \A j \in DOMAIN segments : SegmentAccepted(segments[j])
  /\ EntryLoaded
  /\ Single(Positions(segments, "ProgramHeader"))
  /\ InCalls => LoadsCongruent(segments)
  /\ pc = "place_phdr" => Positions(segments, "ProgramHeader") = {}
  /\ pc \in {"place_tables", "arrange", "write"} => PhdrLoaded
  /\ pc = "write" => SegmentsSorted
  /\ pc \in {"arrange", "write"} => Len(segments) = header.num_segments

\* Header::check: the ends of the two tables are words.
HeaderFits ==
  /\ header.program_header_offset + SegmentLen * header.num_segments <= MaxWord
  /\ header.section_header_offset + SegmentLen * header.num_sections <= MaxWord

CheckOK == /\ SectionsOK /\ SegmentsOK
           /\ pc \in {"arrange", "write"} => HeaderFits

\* A call that fails for want of room may leave anything.
CInv == sessions <= 1 =>
          /\ pc \notin {"rejected", "panicked"}
          /\ pc # "failed" => CheckOK
===============================================================================
