---------------------------- MODULE SpaceAllocator ----------------------------
(***************************************************************************)
(* SpaceAllocator (allocator.rs): where the patcher puts a new section, a  *)
(* new segment and the section header.                                     *)
(*                                                                         *)
(* The allocator turns the tables into a sorted sequence of events, the    *)
(* starts and ends of sections and segments in the file, and walks it.     *)
(* The counters the walk keeps are modelled by what they count: the set of *)
(* sections and the set of segments that are open after an event.          *)
(***************************************************************************)
EXTENDS ElfTables

(***************************************************************************)
(* EventKind: the discriminants, which order events at equal offsets.      *)
(***************************************************************************)
LoadSegmentStart  == 0
SegmentStart      == 1
SectionStart      == 2
EmptySegmentEnd   == 3
EmptySegmentStart == 4
SectionEnd        == 5
NoBitsSectionEnd  == 6
SegmentEnd        == 7
LoadSegmentEnd    == 8

SegmentStarts == {LoadSegmentStart, SegmentStart, EmptySegmentStart}
SegmentEnds   == {LoadSegmentEnd, SegmentEnd, EmptySegmentEnd}
SectionEnds   == {SectionEnd, NoBitsSectionEnd}

Event(offset, kind, index) ==
  [offset |-> offset, kind |-> kind, index |-> index]

\* SectionEvents without the sections that are not loaded.
LoadedSectionEvents(sections) ==
  LET live == {i \in DOMAIN sections : InFile(sections[i]) /\ sections[i].alloc}
  IN  {Event(sections[i].offset, SectionStart, i) : i \in live}
        \cup {Event(SectionFileEnd(sections[i]), SectionEnd, i) : i \in live}

\* file_events: sections that are empty in the file have no events; NOBITS
\* sections are among them, so NoBitsSectionEnd never shows up.
SectionEvents(sections) ==
  LET live == {i \in DOMAIN sections : InFile(sections[i])}
  IN  {Event(sections[i].offset, SectionStart, i) : i \in live}
        \cup {Event(SectionFileEnd(sections[i]), SectionEnd, i) : i \in live}

SegmentStartKind(g) ==
  IF g.file_size = 0 THEN EmptySegmentStart
  ELSE IF IsLoad(g) THEN LoadSegmentStart ELSE SegmentStart

SegmentEndKind(g) ==
  IF g.file_size = 0 THEN EmptySegmentEnd
  ELSE IF IsLoad(g) THEN LoadSegmentEnd ELSE SegmentEnd

SegmentEvents(segments) ==
  LET live == {i \in DOMAIN segments : segments[i].kind # "Null"}
  IN  {Event(segments[i].offset, SegmentStartKind(segments[i]), i) : i \in live}
        \cup {Event(SegmentFileEnd(segments[i]), SegmentEndKind(segments[i]), i)
                : i \in live}

FileEvents(sections, segments) ==
  SectionEvents(sections) \cup SegmentEvents(segments)

\* MemoryEvents without those of the LOAD segments.
SectionMemoryEvents(sections, segments) ==
  LET alloc == {i \in DOMAIN sections :
                  sections[i].kind # "Null" /\ sections[i].alloc}
  IN  {Event(sections[i].address, SectionStart, i) : i \in alloc}
        \cup {Event(SectionMemoryEnd(sections[i]), SectionEnd, i) : i \in alloc}

\* memory_events: ALLOC sections as they are, LOAD segments expanded to pages.
MemoryEvents(sections, segments) ==
  LET alloc == {i \in DOMAIN sections :
                  sections[i].kind # "Null" /\ sections[i].alloc}
      load == {i \in DOMAIN segments : IsLoad(segments[i])}
  IN  {Event(sections[i].address, SectionStart, i) : i \in alloc}
        \cup {Event(SectionMemoryEnd(sections[i]), SectionEnd, i) : i \in alloc}
        \cup {Event(AlignDown(segments[i].address), LoadSegmentStart, i)
                : i \in load}
        \cup {Event(AlignUp(SegmentMemoryEnd(segments[i])), LoadSegmentEnd, i)
                : i \in load}

\* Ord for Event: by offset, then by kind in reverse.  Events that are equal in
\* both are in no particular order; the index decides here.
NotAfter(e, f) ==
  \/ e.offset < f.offset
  \/ /\ e.offset = f.offset
     /\ \/ e.kind > f.kind
        \/ e.kind = f.kind /\ e.index <= f.index

EventOrder(events) == {p \in events \X events : NotAfter(p[1], p[2])}

Sorted(events) == Enumerate(events, EventOrder(events))

\* The offset of the last event, or what an allocation starts from without one.
LastOffset(events, default) ==
  IF events = {} THEN default ELSE Last({e.offset : e \in events})

(***************************************************************************)
(* allocate_loadable_segment_for: a LOAD segment of its own, behind all    *)
(* other LOADs in the file and in memory.  It fails when a start or a      *)
(* length exceeds a word.  The ends are not checked: a segment whose end   *)
(* overflows goes into the table, and only check_overflow refuses it.      *)
(***************************************************************************)
NewLoad(sections, segments, file_size, memory_size, align, write) ==
  LET offset == NextMultiple(
                  LastOffset(FileEvents(sections, segments), HeaderLen),
                  PageSize)
      address == NextMultiple(
                   LastOffset(MemoryEvents(sections, segments), 0), PageSize)
      padding == Padding(offset, align)
  IN  [kind |-> "Loadable", write |-> write, offset |-> offset,
       address |-> address, file_size |-> padding + file_size,
       memory_size |-> padding + memory_size, align |-> PageSize]

\* Addressable, but the rounding of the address is not checked.
AddressableInFile(load, padding) ==
  /\ load.offset + padding <= MaxWord
  /\ load.file_size <= MaxWord /\ load.memory_size <= MaxWord

\* checked_next_multiple_of and checked_add succeed.  The sums with padding are
\* not checked; they can only overflow with an alignment above the page size.
Addressable(load, padding) ==
  /\ load.offset + padding <= MaxWord
  /\ load.address + padding <= MaxWord
  /\ load.file_size <= MaxWord /\ load.memory_size <= MaxWord

(***************************************************************************)
(* allocate_space: a vacant place inside an existing LOAD segment.         *)
(***************************************************************************)

OpenSections(ev, n) ==
  {ev[j].index : j \in {k \in 1 .. n : ev[k].kind = SectionStart}}
    \ {ev[j].index : j \in {k \in 1 .. n : ev[k].kind \in SectionEnds}}

OpenSegments(ev, n) ==
  {ev[j].index : j \in {k \in 1 .. n : ev[k].kind \in SegmentStarts}}
    \ {ev[j].index : j \in {k \in 1 .. n : ev[k].kind \in SegmentEnds}}

\* is_compatible_with, for an ALLOC section and a LOAD segment.
Compatible(g, section) ==
  /\ IsLoad(g) <=> section.alloc
  /\ g.write <=> section.write

\* The walk enters LOAD segment ev[n].index, or leaves all segments before ev[n].
Enters(ev, n, segments, section) ==
  /\ ev[n].kind = LoadSegmentStart
  /\ OpenSegments(ev, n - 1) = {}
  /\ Compatible(segments[ev[n].index], section)

Leaves(ev, n) == /\ ev[n - 1].kind = LoadSegmentEnd
                 /\ OpenSegments(ev, n - 1) = {}

\* current_load_segment at event n, 0 when there is none: what the last event
\* that assigned it made of it.  When the file starts with a LOAD segment, the
\* walk starts in the first segment of the table, whichever that is.
CurrentLoad(ev, n, segments, section) ==
  LET last == Last({m \in 1 .. n : \/ m = 1
                                   \/ Enters(ev, m, segments, section)
                                   \/ Leaves(ev, m)})
  IN  IF last = 1 THEN IF ev[1].kind = LoadSegmentStart THEN 1 ELSE 0
      ELSE IF Enters(ev, last, segments, section) THEN ev[last].index
      ELSE 0

\* Nothing but one LOAD segment covers the bytes between events n - 1 and n.
Vacant(ev, n) ==
  LET before == ev[n - 1].kind
      after == ev[n].kind
  IN  \/ /\ before \in {LoadSegmentStart, SectionEnd}
         /\ after = SectionStart
         /\ Cardinality(OpenSegments(ev, n)) = 1
         /\ OpenSections(ev, n) = {ev[n].index}
      \/ /\ before = SectionEnd
         /\ after = LoadSegmentEnd
         /\ OpenSegments(ev, n) = {}
         /\ OpenSections(ev, n) = {}

\* Roomy, but the padding is not counted.
RoomyUnpadded(ev, n, size, align) ==
  size <= ev[n].offset - ev[n - 1].offset

\* The gap before event n takes the section.
Roomy(ev, n, size, align) ==
  Padding(ev[n - 1].offset, align) + size <= ev[n].offset - ev[n - 1].offset

Gaps(ev, segments, section) ==
  {n \in 2 .. Len(ev) : /\ Vacant(ev, n)
                        /\ Roomy(ev, n, section.size, section.align)
                        /\ CurrentLoad(ev, n, segments, section) # 0}

(***************************************************************************)
(* allocate_section: where the section goes and the segments it leaves.    *)
(* The place is relative to the segment the walk calls current; modulo     *)
(* a word, as the subtraction wraps when that segment starts later.  The   *)
(* walk panics (unreachable!) on a file without events.                    *)
(***************************************************************************)

\* Placed, but the offset in the segment is not relative to its start.
PlacedAbsolute(section, g, start) ==
  [section EXCEPT !.offset = start, !.address = g.address + start]

Placed(section, g, start) ==
  [section EXCEPT
     !.offset = start,
     !.address = (g.address + start + (MaxWord + 1) - g.offset)
                   % (MaxWord + 1)]

AllocateSection(sections, segments, section) ==
  LET events == FileEvents(sections, segments)
      ev == Sorted(events)
      gap == First(Gaps(ev, segments, section))
      load == NewLoad(sections, segments, section.size, section.size,
                      section.align, section.write)
      padding == load.file_size - section.size
  IN  IF gap # 0
      THEN LET g == segments[CurrentLoad(ev, gap, segments, section)]
               start == NextMultiple(ev[gap - 1].offset, section.align)
           IN  [ok |-> TRUE, segments |-> segments,
                section |-> Placed(section, g, start)]
      ELSE [ok |-> events # {} /\ Addressable(load, padding),
            segments |-> Append(segments, load),
            section |-> Placed(section, load, load.offset + padding)]

(***************************************************************************)
(* allocate_segment: always in a LOAD segment of its own.                  *)
(***************************************************************************)
AllocateSegment(sections, segments, segment) ==
  LET load == NewLoad(sections, segments, segment.file_size,
                      segment.memory_size, segment.align, segment.write)
      padding == load.file_size - segment.file_size
  IN  [ok |-> Addressable(load, padding), segments |-> Append(segments, load),
       segment |-> [segment EXCEPT !.offset = load.offset + padding,
                                   !.address = load.address + padding]]

(***************************************************************************)
(* allocate_file_space: a place in the file outside of everything, between *)
(* two events when nothing is open, else at the end.                       *)
(***************************************************************************)
FileGaps(ev, size, align) ==
  {n \in 2 .. Len(ev) : /\ OpenSections(ev, n - 1) = {}
                        /\ OpenSegments(ev, n - 1) = {}
                        /\ Roomy(ev, n, size, align)}

\* AllocateFileSpace, but the place before the first event is vacant, too.
AllocateFromStart(sections, segments, size, align) ==
  LET events == FileEvents(sections, segments)
  IN  IF size <= First({e.offset : e \in events}) THEN 0
      ELSE NextMultiple(LastOffset(events, HeaderLen), align)

AllocateFileSpace(sections, segments, size, align) ==
  LET events == FileEvents(sections, segments)
      ev == Sorted(events)
      gap == First(FileGaps(ev, size, align))
  IN  IF gap # 0 THEN NextMultiple(ev[gap - 1].offset, align)
      ELSE NextMultiple(LastOffset(events, HeaderLen), align)
==============================================================================
