------------------------------- MODULE ElfCheck -------------------------------
(***************************************************************************)
(* Elf::check: what a file must satisfy to be read or written.  The file   *)
(* is 64-bit and not relocatable; reserved section counts (0xff00 and up)  *)
(* are out of the range of the model.                                      *)
(***************************************************************************)
EXTENDS ElfTables

\* The fields of Header that the patcher changes or that are checked against
\* the tables.  section_names_index counts from 1, like all positions here.
HeaderType == [program_header_offset : Nat, num_segments : Nat,
               section_header_offset : Nat, num_sections : Nat,
               section_names_index : Nat, entry_point : Nat]

\* blocks_overlap, of the non-empty ranges a .. b and c .. d.
RangesOverlap(a, b, c, d) == a < b /\ c < d /\ a < d /\ c < b

\* Header::check.  The code takes the length of a segment for the length of a
\* section.  Index num_sections, one past the end, is let through.
HeaderAccepted(h) ==
  /\ h.program_header_offset + SegmentLen * h.num_segments <= MaxWord
  /\ h.section_header_offset + SegmentLen * h.num_sections <= MaxWord
  /\ ~RangesOverlap(h.program_header_offset,
                    h.program_header_offset + SegmentLen * h.num_segments,
                    h.section_header_offset,
                    h.section_header_offset + SegmentLen * h.num_sections)
  /\ h.section_names_index # 1 /\ h.num_sections # 0
       => h.section_names_index <= h.num_sections + 1

\* align_is_valid.
AlignIsValid(align) == align = 0 \/ \E k \in 0 .. 30 : align = 2 ^ k

\* Segment::check.
SegmentAccepted(g) ==
  /\ FitsWord(g)
  /\ AlignIsValid(g.align)
  /\ IsLoad(g) /\ g.align # 0 => g.offset % g.align = g.address % g.align

\* The filters of check_overlap.  The end in memory is computed from the start
\* that was aligned down.
MappedStart(g) == AlignDown(g.address)
MappedEnd(g) == AlignUp(AlignDown(g.address) + g.memory_size)

\* ProgramHeader::check: check_sorted, check_overlap, check_entry_point,
\* check_count, check_order and check_phdr.
SegmentsAccepted(segments, entry_point) ==
  LET loads == Positions(segments, "Loadable")
      phdrs == Positions(segments, "ProgramHeader")
  IN  /\ \A j \in DOMAIN segments : SegmentAccepted(segments[j])
      /\ \A j, k \in loads : j < k => segments[j].address <= segments[k].address
      /\ \A j, k \in loads :
           j # k =>
             /\ ~RangesOverlap(MappedStart(segments[j]), MappedEnd(segments[j]),
                               MappedStart(segments[k]), MappedEnd(segments[k]))
             /\ ~RangesOverlap(segments[j].offset, SegmentFileEnd(segments[j]),
                               segments[k].offset, SegmentFileEnd(segments[k]))
      /\ \/ entry_point = 0
         \/ \E j \in loads : /\ segments[j].address <= entry_point
                             /\ entry_point < SegmentMemoryEnd(segments[j])
      /\ Cardinality(phdrs) <= 1
      /\ Cardinality(Positions(segments, "Interpreter")) <= 1
      /\ \A j \in phdrs, k \in loads : j < k
      /\ \A j \in phdrs : \E k \in loads :
           /\ segments[k].address <= segments[j].address
           /\ SegmentMemoryEnd(segments[j]) <= SegmentMemoryEnd(segments[k])

\* Section::check: check_overflow, check_align and check_coverage.
SectionAccepted(s, segments) ==
  \/ s.kind = "Null"
  \/ /\ s.offset + s.size <= MaxWord
     /\ SectionMemoryEnd(s) <= MaxWord
     /\ s.alloc /\ s.kind # "NoBits" =>
          /\ s.align > 1 => s.address % s.align = 0
          /\ s.size # 0 => \E k \in Positions(segments, "Loadable") :
                             /\ segments[k].address <= s.address
                             /\ s.address < SegmentMemoryEnd(segments[k])
                             /\ SectionMemoryEnd(s)
                                  <= SegmentMemoryEnd(segments[k])

\* SectionHeader::check.
SectionsAccepted(sections, segments) ==
  /\ sections # <<>> => sections[1].kind = "Null"
  /\ \A kind \in {"Hash", "Dynamic"} :
       Cardinality(Positions(sections, kind)) <= 1
  /\ \A i \in DOMAIN sections : SectionAccepted(sections[i], segments)

\* Elf::check.
Accepted(h, sections, segments) ==
  /\ HeaderAccepted(h)
  /\ SegmentsAccepted(segments, h.entry_point)
  /\ SectionsAccepted(sections, segments)
  /\ Len(sections) = h.num_sections
  /\ Len(segments) = h.num_segments
===============================================================================
