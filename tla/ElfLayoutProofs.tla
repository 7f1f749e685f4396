---------------------------- MODULE ElfLayoutProofs ----------------------------
(***************************************************************************)
(* The layout stays sound for every file, page size and sequence of        *)
(* operations: entries are well-typed, LOAD segments share neither bytes   *)
(* nor pages, and sections do not share bytes.  Nothing is said of ends:   *)
(* the allocator lets them exceed a word.                                  *)
(***************************************************************************)
EXTENDS ElfLayout, SpaceAllocatorProofs

\* The inductive invariant, table by table.
IInv == SoundSections(sections) /\ SoundSegments(segments)

(***************************************************************************)
(* Theorems.                                                               *)
(***************************************************************************)

\* The tables of the files that are patched are sound.
LEMMA InitIsSound == Init => IInv
<1> SUFFICES ASSUME Init PROVE IInv
  OBVIOUS
<1>1. PICK layout \in InitialLayouts :
        sections = layout.sections /\ segments = layout.segments
  BY DEF Init
<1> QED
  BY <1>1, LayoutsAssumption
     DEF IInv, SoundSections, SoundSegments

\* Every operation of the patcher keeps the tables sound.
LEMMA NextIsSound == IInv /\ [Next]_vars => IInv'
<1> SUFFICES ASSUME IInv, [Next]_vars
             PROVE  SoundSections(sections') /\ SoundSegments(segments')
  BY DEF IInv, SoundSections, SoundSegments, LoadsApart, SectionsApart
<1>1. /\ SoundSections(sections) /\ SoundSegments(segments)
      /\ sections \in Seq(Section) /\ segments \in Seq(Segment)
  BY DEF IInv, SoundSections, SoundSegments
<1>2. ASSUME NEW i \in DOMAIN sections, FreeSection(i)
      PROVE  SoundSections(sections') /\ SoundSegments(segments')
  BY <1>1, <1>2, FreeSectionIsSound DEF FreeSection
<1>3. ASSUME NEW j \in DOMAIN segments, FreeSegment(j)
      PROVE  SoundSections(sections') /\ SoundSegments(segments')
  BY <1>1, <1>3, WithoutProperties, SelectionIsSound DEF FreeSegment
<1>4. ASSUME NEW request \in Requests, AllocSection(request)
      PROVE  SoundSections(sections') /\ SoundSegments(segments')
  <2> DEFINE result == AllocateSection(sections, segments, request)
  <2>1. Requested(request)
    BY RequestsAssumption DEF Requested
  <2>2. /\ Fits(sections, segments) /\ result.ok
        /\ sections' = AddSection(sections, result.section)
        /\ segments' = result.segments
    BY <1>4 DEF AllocSection
  <2>3. /\ result.section \in Section
        /\ Grown(result.segments, segments)
        /\ \A i \in DOMAIN sections :
             InFile(sections[i]) => Apart(sections[i], result.section)
    BY <1>1, <2>1, <2>2, AllocateSectionProperties
  <2> HIDE DEF result
  <2> QED
    BY <1>1, <2>2, <2>3, AddSectionIsSound, GrownIsSound
<1>5. ASSUME NEW request \in SegmentRequests, AllocSegment(request)
      PROVE  SoundSections(sections') /\ SoundSegments(segments')
  <2> DEFINE result == AllocateSegment(sections, segments, request)
  <2>1. request \in Segment /\ ~IsLoad(request)
    BY RequestsAssumption DEF IsLoad
  <2>2. /\ Fits(sections, segments) /\ result.ok /\ sections' = sections
        /\ segments' = AddSegment(result.segments, result.segment)
    BY <1>5 DEF AllocSegment
  <2>3. /\ result.segment \in Segment
        /\ result.segment.kind = request.kind
        /\ Grown(result.segments, segments)
    BY <1>1, <2>1, <2>2, AllocateSegmentProperties
  <2> HIDE DEF result
  <2>4. ~IsLoad(result.segment)
    BY <2>1, <2>3 DEF IsLoad
  <2>5. SoundSegments(result.segments)
    BY <1>1, <2>3, GrownIsSound
  <2> QED
    BY <1>1, <2>2, <2>3, <2>4, <2>5, AddSegmentIsSound
<1>6. ASSUME NEW i \in DOMAIN sections, NEW kind \in {"Interpreter", "Dynamic"},
             Overlay(i, kind)
      PROVE  SoundSections(sections') /\ SoundSegments(segments')
  <2>1. sections[i] \in Section
    BY <1>1, <1>6 DEF Overlay
  <2> QED
    BY <1>1, <1>6, <2>1, OverlayIsSegment, AppendOtherIsSound DEF Overlay
<1>7. ASSUME NEW i \in Positions(sections, "Dynamic"),
             NEW size \in 1 .. sections[i].size, ShrinkDynamic(i, size)
      PROVE  SoundSections(sections') /\ SoundSegments(segments')
  <2> DEFINE k == First(Positions(segments, "Dynamic"))
  <2>1. i \in DOMAIN sections /\ sections[i] \in Section
    BY <1>1 DEF Positions
  <2>2. sections[i].size \in Nat /\ sections[i].size \in Word
    BY <2>1, EndsAreNatural DEF Section
  <2>3. size \in Nat /\ size \in Word /\ size <= sections[i].size
    BY <1>7, <2>2, MaxWordAssumption DEF ShrinkDynamic, Word
  <2>4. SoundSections(sections')
    BY <1>1, <1>7, <2>1, <2>3, ShrinkIsSound DEF ShrinkDynamic
  <2>5. CASE k = 0
    BY <1>1, <1>7, <2>4, <2>5 DEF ShrinkDynamic
  <2>6. CASE k # 0
    <3>1. /\ Positions(segments, "Dynamic") \in SUBSET DOMAIN segments
          /\ Positions(segments, "Dynamic") # {}
      BY <2>6 DEF Positions, First
    <3>2. /\ IsFiniteSet(Positions(segments, "Dynamic"))
          /\ Positions(segments, "Dynamic") \in SUBSET Nat
      BY <1>1, <3>1, SequenceDomain
    <3>3. k \in Positions(segments, "Dynamic")
      BY <3>1, <3>2, FirstAndLast
    <3> HIDE DEF k
    <3>4. k \in DOMAIN segments /\ segments[k].kind = "Dynamic"
      BY <3>3 DEF Positions
    <3>5. ~IsLoad(segments[k])
      BY <3>4 DEF IsLoad
    <3>6. SoundSegments([segments EXCEPT ![k].file_size = size,
                                        ![k].memory_size = size])
      BY <1>1, <2>3, <3>4, <3>5, ResizedIsSound
    <3> QED
      BY <1>7, <2>4, <2>6, <3>6 DEF ShrinkDynamic, k
  <2> QED
    BY <2>5, <2>6
<1>8. CASE Arrange
  BY <1>1, <1>8, FinishSegmentsProperties, SelectionIsSound DEF Arrange
<1>9. CASE StartSections
  BY <1>1, <1>9, FinishSectionsIsSound DEF StartSections
<1>10. CASE RemoveInterpreters
  BY <1>1, <1>10, WithoutProperties, SelectionIsSound DEF RemoveInterpreters
<1>11. CASE UNCHANGED vars
  BY <1>1, <1>11 DEF vars
<1> QED
  BY <1>2, <1>3, <1>4, <1>5, <1>6, <1>7, <1>8, <1>9, <1>10, <1>11 DEF Next

\* The inductive invariant: the tables are sound after every operation of the
\* patcher, which is more than the next three theorems say.
THEOREM Soundness == Spec => []IInv
<1>1. Init => IInv
  BY InitIsSound
<1>2. IInv /\ [Next]_vars => IInv'
  BY NextIsSound
<1> QED
  BY <1>1, <1>2, PTL DEF Spec

\* The tables stay well-typed: every offset, address and length that is computed
\* for them is a word (the checked additions of allocate_loadable_segment_for).
THEOREM TypeCorrectness == Spec => []TypeOK
<1>1. IInv => TypeOK
  BY DEF IInv, TypeOK, SoundSections, SoundSegments
<1> QED
  BY <1>1, Soundness, PTL

\* However sections and segments are freed and allocated, no two LOAD segments
\* share a byte of the file or a page of memory.
THEOREM LoadsStayDisjoint == Spec => []LoadsDisjoint
<1>1. IInv => LoadsDisjoint
  BY DEF IInv, LoadsDisjoint, SoundSegments
<1> QED
  BY <1>1, Soundness, PTL

\* However sections are freed and allocated, no two share a byte of the file.
THEOREM SectionsStayDisjoint == Spec => []SectionsDisjoint
<1>1. IInv => SectionsDisjoint
  BY DEF IInv, SectionsDisjoint, SoundSections
<1> QED
  BY <1>1, Soundness, PTL
===============================================================================
