------------------------------ MODULE ElfTables ------------------------------
(***************************************************************************)
(* The two tables of an ELF file that the patcher edits: the section       *)
(* header (SectionHeader in sections.rs) and the program header            *)
(* (ProgramHeader in segments.rs), with the operations both offer: free an *)
(* entry, add an entry, put the segments in the order they are written in. *)
(*                                                                         *)
(* A table is a sequence, so position 1 is the code's index 0.  A section  *)
(* that is linked to no other one has link 1: index 0 is the null section. *)
(* Fields that no decision of the code depends on are left out (physical   *)
(* address, read and execute flags, info, entry_len); a name stands for    *)
(* its offset in the table of section names.                               *)
(***************************************************************************)
EXTENDS Naturals, Sequences, FiniteSets

CONSTANTS
  Names,      \* section names, the empty name NoName among them
  NoName,     \* the name of the null section
  PageSize,   \* page size of the Elf value (Elf::page_size)
  HeaderLen,  \* Class::header_len, bytes of the file header
  SegmentLen, \* Class::segment_len, bytes of an entry of the program header
  SectionLen, \* Class::section_len, bytes of an entry of the section header
  MaxWord     \* the largest value of a u64

ASSUME NamesAssumption == NoName \in Names
ASSUME PageSizeAssumption == PageSize \in Nat \ {0} /\ PageSize <= MaxWord
ASSUME LengthsAssumption ==
  /\ HeaderLen \in Nat \ {0}
  /\ SegmentLen \in Nat \ {0}
  /\ SectionLen \in Nat \ {0}
ASSUME MaxWordAssumption == MaxWord \in Nat

Word == 0 .. MaxWord

SectionKinds == {"Null", "ProgramBits", "NoBits", "StringTable", "Dynamic",
                 "SymbolTable", "DynamicSymbolTable", "Hash"}

SegmentKinds == {"Null", "Loadable", "Dynamic", "Interpreter",
                 "ProgramHeader", "Other"}

Section == [name : Names, kind : SectionKinds, alloc : BOOLEAN,
            write : BOOLEAN, offset : Word, address : Word, size : Word,
            link : Nat, align : Word]

Segment == [kind : SegmentKinds, write : BOOLEAN, offset : Word,
            address : Word, file_size : Word, memory_size : Word,
            align : Word]

NullSection == [name |-> NoName, kind |-> "Null", alloc |-> FALSE,
                write |-> FALSE, offset |-> 0, address |-> 0, size |-> 0,
                link |-> 1, align |-> 0]

(***************************************************************************)
(* Arithmetic of addresses.                                                *)
(***************************************************************************)

\* The bytes to skip to reach the next multiple of align (align 0 means 1).
Padding(x, align) ==
  IF align = 0 \/ x % align = 0 THEN 0 ELSE align - (x % align)

NextMultiple(x, align) == x + Padding(x, align)

AlignDown(x) == x - (x % PageSize)

\* align_up saturates at the largest word instead of wrapping.
AlignUp(x) ==
  IF NextMultiple(x, PageSize) > MaxWord THEN MaxWord
  ELSE NextMultiple(x, PageSize)

(***************************************************************************)
(* Ranges, given by their ends; the start is the field itself.  A NOBITS   *)
(* section takes no space in the file.                                     *)
(***************************************************************************)

SectionFileEnd(s) == IF s.kind = "NoBits" THEN s.offset ELSE s.offset + s.size
SectionMemoryEnd(s) == s.address + s.size
SegmentFileEnd(g) == g.offset + g.file_size
SegmentMemoryEnd(g) == g.address + g.memory_size

IsLoad(g) == g.kind = "Loadable"

\* The section has bytes in the file.
InFile(s) == s.kind # "Null" /\ s.offset < SectionFileEnd(s)

(***************************************************************************)
(* What a reader of the tables relies on.                                  *)
(***************************************************************************)

\* check_overflow: the ends fit in a word.
FitsWord(g) == /\ SegmentFileEnd(g) <= MaxWord
               /\ SegmentMemoryEnd(g) <= MaxWord

\* The ends of sections in the file and of LOAD segments are words.  The
\* allocator goes by these ends and adds them up without a check.
Fits(sections, segments) ==
  /\ \A i \in DOMAIN sections : SectionFileEnd(sections[i]) <= MaxWord
  /\ \A j \in DOMAIN segments : IsLoad(segments[j]) => FitsWord(segments[j])

FileDisjoint(g, h) ==
  SegmentFileEnd(g) <= h.offset \/ SegmentFileEnd(h) <= g.offset

\* check_overlap: the LOAD segments are mapped by whole pages.
PagesDisjoint(g, h) ==
  \/ AlignUp(SegmentMemoryEnd(g)) <= AlignDown(h.address)
  \/ AlignUp(SegmentMemoryEnd(h)) <= AlignDown(g.address)

LoadsApart(segments) ==
  \A i, j \in DOMAIN segments :
    i # j /\ IsLoad(segments[i]) /\ IsLoad(segments[j]) =>
      /\ FileDisjoint(segments[i], segments[j])
      /\ PagesDisjoint(segments[i], segments[j])

Apart(s, t) ==
  SectionFileEnd(s) <= t.offset \/ SectionFileEnd(t) <= s.offset

SectionsApart(sections) ==
  \A i, j \in DOMAIN sections :
    i # j /\ InFile(sections[i]) /\ InFile(sections[j])
      => Apart(sections[i], sections[j])

(***************************************************************************)
(* Sequences by rank.  Enumerate lists the finite set S in the order of    *)
(* the total, reflexive relation R: the element with n elements up to and  *)
(* including it comes n-th.  It is how sorting and removal are defined, so *)
(* that both can be reasoned about without recursion.  The set of pairs    *)
(* lets TLC count once per element.                                        *)
(***************************************************************************)

Rank(S, R) == [x \in S |-> Cardinality({y \in S : <<y, x>> \in R})]

Enumerate(S, R) ==
  LET ranked == {<<x, Rank(S, R)[x]>> : x \in S}
  IN  [n \in 1 .. Cardinality(S) |-> CHOOSE x \in S : <<x, n>> \in ranked]

Ascending(I) == {p \in I \X I : p[1] <= p[2]}

\* Vec::remove and Vec::retain: the elements whose positions are not in I.
Without(s, I) ==
  LET kept == Enumerate(DOMAIN s \ I, Ascending(DOMAIN s \ I))
  IN  [n \in 1 .. Cardinality(DOMAIN s \ I) |-> s[kept[n]]]

\* Iterator::position: the first position in I, 0 when there is none.
First(I) == IF I = {} THEN 0 ELSE CHOOSE i \in I : \A j \in I : i <= j

Last(I) == CHOOSE i \in I : \A j \in I : j <= i

Positions(table, kind) == {i \in DOMAIN table : table[i].kind = kind}

(***************************************************************************)
(* SectionHeader.                                                          *)
(***************************************************************************)

\* SectionHeader::free: the slots become null sections and keep their place.
FreeSections(sections, I) ==
  [i \in DOMAIN sections |-> IF i \in I THEN NullSection ELSE sections[i]]

\* SectionHeader::finish.
FinishSections(sections) == IF sections = <<>> THEN <<NullSection>> ELSE sections

\* The slot SectionHeader::add takes: the first null section after the
\* pseudo-section, or a new one at the end.
SpareSlot(sections) ==
  LET null == Positions(sections, "Null") \ {1}
  IN  IF null # {} THEN First(null)
      ELSE IF sections = <<>> THEN 2 ELSE Len(sections) + 1

\* SectionHeader::add for a section that is not null.
AddSection(sections, section) ==
  LET slot == SpareSlot(sections)
      last == IF slot > Len(sections) THEN slot ELSE Len(sections)
  IN  [i \in 1 .. last |->
         IF i = slot THEN section
         ELSE IF i \in DOMAIN sections THEN sections[i] ELSE NullSection]

(***************************************************************************)
(* ProgramHeader.                                                          *)
(***************************************************************************)

\* The LOAD segment that goes when segment j is freed: the first one that
\* matches PHDR exactly (ElfPatcher::free_segment), 0 when there is none.
CompanionLoad(segments, j) ==
  IF segments[j].kind # "ProgramHeader" THEN 0
  ELSE First({k \in Positions(segments, "Loadable") :
                /\ segments[k].offset = segments[j].offset
                /\ segments[k].file_size = segments[j].file_size})

\* ProgramHeader::add for a segment that is not null.
AddSegment(segments, segment) ==
  LET null == Positions(segments, "Null")
  IN  IF null = {} THEN Append(segments, segment)
      ELSE [segments EXCEPT ![First(null)] = segment]

\* The INTERP or DYNAMIC segment that goes with section s.
OverlaySegment(s, kind) ==
  [kind |-> kind, write |-> kind = "Dynamic", offset |-> s.offset,
   address |-> s.address, file_size |-> s.size, memory_size |-> s.size,
   align |-> s.align]

\* The place of the added segment.
SegmentSlot(segments) ==
  IF Positions(segments, "Null") = {} THEN Len(segments) + 1
  ELSE First(Positions(segments, "Null"))

\* ProgramHeader::finish: PHDR, then INTERP, then by address.  The sort is
\* unstable; equal segments keep their order here, as they do in the sort of
\* at most twenty elements.
\* Group, but PHDR and INTERP are sorted in with the others.
Ungrouped(g) == 2

Group(g) ==
  IF g.kind = "ProgramHeader" THEN 0
  ELSE IF g.kind = "Interpreter" THEN 1 ELSE 2

Precedes(segments, i, j) ==
  LET g == segments[i]
      h == segments[j]
  IN  \/ Group(g) < Group(h)
      \/ /\ Group(g) = Group(h)
         /\ \/ g.address < h.address
            \/ g.address = h.address /\ i <= j

FinishOrder(segments) ==
  {p \in (DOMAIN segments) \X (DOMAIN segments) :
     Precedes(segments, p[1], p[2])}

FinishSegments(segments) ==
  LET order == Enumerate(DOMAIN segments, FinishOrder(segments))
  IN  [n \in 1 .. Cardinality(DOMAIN segments) |-> segments[order[n]]]
==============================================================================
