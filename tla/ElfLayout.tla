------------------------------ MODULE ElfLayout ------------------------------
(***************************************************************************)
(* The layout of an ELF file under every sequence of the operations the    *)
(* patcher applies to its tables (patch.rs): sections and segments are     *)
(* freed, allocated, overlaid with a segment of their own, shrunk, and put *)
(* in order.  The module says nothing of the order a client calls them in; *)
(* ElfPatcher is one client.                                               *)
(***************************************************************************)
EXTENDS SpaceAllocator

CONSTANTS
  InitialLayouts,  \* the tables of the files that are patched
  Requests,        \* the sections the patcher may ask space for
  SegmentRequests, \* the segments the patcher may ask space for
  SectionCounts,   \* the lengths of the tables that the model follows;
  SegmentCounts    \* Nat sets no bound

ASSUME RequestsAssumption ==
  /\ \A r \in Requests :
       r \in Section /\ r.alloc /\ r.kind \notin {"Null", "NoBits"}
  /\ \A r \in SegmentRequests :
       r \in Segment /\ r.kind \notin {"Null", "Loadable"}

\* The files are well-formed to begin with.  Elf::check tests that of the
\* segments; a linker never lets sections overlap.
ASSUME LayoutsAssumption ==
  \A layout \in InitialLayouts :
    /\ layout.sections \in Seq(Section)
    /\ layout.segments \in Seq(Segment)
    /\ Fits(layout.sections, layout.segments)
    /\ LoadsApart(layout.segments)
    /\ SectionsApart(layout.sections)

VARIABLES sections, segments

vars == <<sections, segments>>

(***************************************************************************)
(* Properties of a layout.                                                 *)
(***************************************************************************)

\* The tables are sequences of well-typed entries: every offset, address and
\* length in them is a word, as what the code computes has not wrapped.  The end
\* of a section or segment that was allocated last may exceed a word.
TypeOK == sections \in Seq(Section) /\ segments \in Seq(Segment)

\* No two LOAD segments share a byte of the file or a page of memory, whatever
\* was freed and allocated before (allocate_loadable_segment_for).
LoadsDisjoint == LoadsApart(segments)

\* No two sections that have bytes in the file share one: writing a section
\* never changes another (allocate_space only fills vacant gaps).
SectionsDisjoint == SectionsApart(sections)

(***************************************************************************)
(* Operations of the patcher on the tables.                                *)
(***************************************************************************)

Init == \E layout \in InitialLayouts :
          sections = layout.sections /\ segments = layout.segments

\* ElfPatcher::free_section, of any slot.
FreeSection(i) ==
  /\ i \in DOMAIN sections
  /\ sections' = FreeSections(sections, {i})
  /\ UNCHANGED segments

\* The retain of remove_interpreter.
RemoveInterpreters ==
  /\ segments' = Without(segments, Positions(segments, "Interpreter"))
  /\ UNCHANGED sections

\* ElfPatcher::free_segment: PHDR takes with it the LOAD segment that matches it
\* exactly.
FreeSegment(j) ==
  /\ j \in DOMAIN segments
  /\ segments[j].kind \in {"ProgramHeader", "Dynamic"}
  /\ segments' = Without(segments, {j, CompanionLoad(segments, j)})
  /\ UNCHANGED sections

\* ElfPatcher::alloc_section.  When an end overflows that the allocator adds up,
\* because of an earlier allocation, a build with overflow checks panics; one
\* without computes places that nobody can use, as finish refuses the tables.
\* The module does not follow such an allocation.
AllocSection(request) ==
  LET result == AllocateSection(sections, segments, request)
  IN  /\ Fits(sections, segments)
      /\ result.ok
      /\ sections' = AddSection(sections, result.section)
      /\ segments' = result.segments
      /\ Len(sections') \in SectionCounts
      /\ Len(segments') \in SegmentCounts

\* ElfPatcher::alloc_segment, which do_finish calls for the PHDR segment.
AllocSegment(request) ==
  LET result == AllocateSegment(sections, segments, request)
  IN  /\ Fits(sections, segments)
      /\ result.ok
      /\ segments' = AddSegment(result.segments, result.segment)
      /\ Len(segments') \in SegmentCounts
      /\ UNCHANGED sections

\* set_interpreter and set_dynamic_tag push an INTERP or DYNAMIC segment over
\* the section they just allocated.
Overlay(i, kind) ==
  /\ i \in DOMAIN sections /\ sections[i].alloc
  /\ kind = IF sections[i].kind = "Dynamic" THEN "Dynamic" ELSE "Interpreter"
  /\ segments' = Append(segments, OverlaySegment(sections[i], kind))
  /\ Len(segments') \in SegmentCounts
  /\ UNCHANGED sections

\* ElfPatcher::remove_dynamic_tag: the dynamic section gets shorter in place,
\* and so does the first DYNAMIC segment.
ShrinkDynamic(i, size) ==
  LET j == First(Positions(segments, "Dynamic"))
  IN  /\ i = First(Positions(sections, "Dynamic"))
      /\ size <= sections[i].size
      /\ sections' = [sections EXCEPT ![i].size = size]
      /\ segments' = IF j = 0 THEN segments
                     ELSE [segments EXCEPT ![j].file_size = size,
                                           ![j].memory_size = size]

\* SectionHeader::finish, for a file that came without a section header.
StartSections ==
  /\ sections = <<>>
  /\ sections' = FinishSections(sections)
  /\ UNCHANGED segments

\* ProgramHeader::finish.
Arrange ==
  /\ segments' = FinishSegments(segments)
  /\ UNCHANGED sections

Next ==
  \/ \E i \in DOMAIN sections : FreeSection(i)
  \/ RemoveInterpreters
  \/ \E j \in DOMAIN segments : FreeSegment(j)
  \/ \E request \in Requests : AllocSection(request)
  \/ \E request \in SegmentRequests : AllocSegment(request)
  \/ \E i \in DOMAIN sections, kind \in {"Interpreter", "Dynamic"} :
       Overlay(i, kind)
  \/ \E i \in Positions(sections, "Dynamic") :
       \E size \in 1 .. sections[i].size : ShrinkDynamic(i, size)
  \/ StartSections
  \/ Arrange

Spec == Init /\ [][Next]_vars
==============================================================================
