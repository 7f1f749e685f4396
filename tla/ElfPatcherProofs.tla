--------------------------- MODULE ElfPatcherProofs ---------------------------
(***************************************************************************)
(* The patcher keeps its tables well-typed and its layout sound whatever   *)
(* calls a client makes, and every step of it is an operation of ElfLayout *)
(* or leaves the tables alone.                                             *)
(*                                                                         *)
(* After the theorems come lemmas about the bytes of the file, which those *)
(* of FirstSessionProofs rest on: about its blocks, about the segments of  *)
(* a kind, and about what is read through the tables after a step that     *)
(* leaves a section or a segment alone.                                    *)
(***************************************************************************)
EXTENDS FirstSession, SpaceAllocatorProofs

(***************************************************************************)
(* The inductive invariant of types.                                       *)
(***************************************************************************)

\* remove_dynamic_tag writes a table of no more than the old length in place.
DynamicsLong(table) ==
  \A i \in Positions(table, "Dynamic") : table[i].size >= DynamicLen

\* What get_name_offset looks for, for whom.
NameSearches ==
  {<<"set_interpreter", "place_interp", ".interp">>,
   <<"set_dynamic_tag", "place_dynstr", ".dynstr">>,
   <<"set_dynamic_tag", "place_dynamic", ".dynamic">>}

\* The steps of set_dynamic_tag.
TagSteps == {"free_dynamic", "free_dynamic_segment", "find_dynstr",
             "place_dynstr", "write_dynstr", "place_dynamic",
             "overlay_dynamic", "move_symbols"}

\* The step a call is at belongs to the call, and its locals are well-typed.
CallOK ==
  /\ DOMAIN call = DOMAIN NoCall
  /\ pc \in {"free_interp", "drop_interp"}
       => call.op \in {"remove_interpreter", "set_interpreter"}
  /\ pc \in {"place_interp", "overlay_interp"} => call.op = "set_interpreter"
  /\ pc \in TagSteps => call.op = "set_dynamic_tag"
  /\ pc = "shrink_dynamic" => call.tag \in Tags
  /\ pc \in NameSteps => <<call.op, call.then, call.name>> \in NameSearches
  /\ call.op = "set_interpreter" => call.value \in Interps
  /\ call.op = "set_dynamic_tag" => call.value \in Strings /\ call.tag \in Tags
  /\ call.len \in Nat
  /\ call.slot \in Nat
  /\ IsFiniteSet(DOMAIN call.tags)

\* The slot the call has just taken.
SlotOK ==
  /\ pc = "write_dynstr" => call.slot \in DOMAIN sections
  /\ pc = "overlay_interp" => /\ call.slot \in DOMAIN sections
                              /\ sections[call.slot].alloc
                              /\ sections[call.slot].kind = "ProgramBits"
  /\ pc = "overlay_dynamic" => /\ call.slot \in DOMAIN sections
                               /\ sections[call.slot].alloc
                               /\ sections[call.slot].kind = "Dynamic"

\* Sound tables without an end that exceeds a word.
LoadsFit(table) ==
  \A j \in DOMAIN table : IsLoad(table[j]) => FitsWord(table[j])

SectionsFit(table) ==
  \A i \in DOMAIN table : SectionFileEnd(table[i]) <= MaxWord

GoodSegments(table) ==
  table \in Seq(Segment) /\ LoadsFit(table) /\ LoadsApart(table)

GoodSections(table) ==
  table \in Seq(Section) /\ SectionsFit(table) /\ SectionsApart(table)

TablesOK ==
  /\ GoodSections(sections)
  /\ GoodSegments(segments)
  /\ DynamicsLong(sections)

PlaceOK ==
  /\ header \in HeaderType
  /\ names.len \in Nat
  /\ pc \in Steps
  /\ calls \in 0 .. MaxCalls
  /\ sessions \in 0 .. MaxSessions

TInv == TablesOK /\ WellStored(file) /\ PlaceOK /\ CallOK /\ SlotOK

(***************************************************************************)
(* Lemmas about files.                                                     *)
(***************************************************************************)

\* What is read is garbage or the content of a block of that place.
LEMMA ReadIsStored ==
  ASSUME NEW bytes, NEW offset, NEW len
  PROVE  \/ Read(bytes, offset, len) = Garbage
         \/ \E b \in bytes : /\ b.offset = offset /\ b.len = len
                             /\ Read(bytes, offset, len) = b.content
<1>1. CASE Stored(bytes, offset, len) = {}
  BY <1>1 DEF Read
<1>2. CASE Stored(bytes, offset, len) # {}
  <2> DEFINE b == CHOOSE b \in Stored(bytes, offset, len) : TRUE
  <2>1. b \in Stored(bytes, offset, len)
    BY <1>2
  <2>2. Read(bytes, offset, len) = b.content
    BY <1>2 DEF Read
  <2> HIDE DEF b
  <2> QED
    BY <2>1, <2>2 DEF Stored
<1> QED
  BY <1>1, <1>2

\* Fewer blocks are as well stored.
LEMMA FewerWellStored ==
  ASSUME NEW bytes, WellStored(bytes), NEW rest \in SUBSET bytes
  PROVE  WellStored(rest)
  BY DEF WellStored

\* A write of something else than a dynamic table, or of one that has room.
LEMMA WriteWellStored ==
  ASSUME NEW bytes, WellStored(bytes), NEW offset \in Nat, NEW len \in Nat,
         NEW content,
         "tags" \in DOMAIN content => TableFits(content.tags, len)
  PROVE  WellStored(Write(bytes, offset, len, content))
<1>1. WellStored(Zero(bytes, offset, len))
  BY FewerWellStored DEF Zero
<1>2. \A b \in Write(bytes, offset, len, content) :
        b \in Zero(bytes, offset, len) \/ b = Block(offset, len, content)
  BY DEF Write
<1> QED
  BY <1>1, <1>2 DEF WellStored, Block

\* The dynamic table that is read from a place of some length fits there.
LEMMA TagsReadFit ==
  ASSUME NEW bytes, WellStored(bytes), NEW offset, NEW len \in Nat,
         len >= DynamicLen
  PROVE  TableFits(TagsIn(Read(bytes, offset, len)), len)
<1> DEFINE content == Read(bytes, offset, len)
<1>1. CASE "tags" \in DOMAIN content
  <2>1. content # Garbage
    BY <1>1 DEF Garbage
  <2>2. PICK b \in bytes : b.len = len /\ content = b.content
    BY <2>1, ReadIsStored
  <2> QED
    BY <1>1, <2>2 DEF WellStored, TagsIn
<1>2. CASE "tags" \notin DOMAIN content
  <2>1. TagsIn(content) = << >>
    BY <1>2 DEF TagsIn
  <2>2. DOMAIN << >> = {}
    OBVIOUS
  <2>3. IsFiniteSet({}) /\ Cardinality({}) = 0
    BY FS_EmptySet
  <2>4. TableLen(<< >>) = DynamicLen
    BY <2>2, <2>3 DEF TableLen, DynamicLen
  <2> QED
    BY <2>1, <2>2, <2>3, <2>4 DEF TableFits
<1> QED
  BY <1>1, <1>2

\* A table without some of its entries needs no more room.
LEMMA WithoutTagsFit ==
  ASSUME NEW tags, NEW len \in Nat, TableFits(tags, len), NEW T
  PROVE  /\ TableFits(WithoutTags(tags, T), len)
         /\ TableLen(WithoutTags(tags, T)) \in 1 .. len
<1> DEFINE rest == DOMAIN tags \ T
<1>1. IsFiniteSet(DOMAIN tags) /\ TableLen(tags) <= len
  BY DEF TableFits
<1>2. DOMAIN WithoutTags(tags, T) = rest
  BY DEF WithoutTags
<1>3. /\ IsFiniteSet(rest)
      /\ Cardinality(rest) <= Cardinality(DOMAIN tags)
      /\ Cardinality(rest) \in Nat /\ Cardinality(DOMAIN tags) \in Nat
  BY <1>1, FS_Subset, FS_CardinalityType
<1> QED
  BY <1>1, <1>2, <1>3 DEF TableFits, TableLen, DynamicLen

\* set adds at most one entry.
LEMMA WithTagFinite ==
  ASSUME NEW tags, IsFiniteSet(DOMAIN tags), NEW tag, NEW value
  PROVE  IsFiniteSet(DOMAIN WithTag(tags, tag, value))
<1>1. DOMAIN WithTag(tags, tag, value) = DOMAIN tags \cup {tag}
  BY DEF WithTag
<1> QED
  BY <1>1, FS_AddElement

\* The first of some positions in a table.
LEMMA FirstPosition ==
  ASSUME NEW T, NEW s \in Seq(T), NEW I \in SUBSET DOMAIN s
  PROVE  /\ First(I) = 0 <=> I = {}
         /\ I # {} => First(I) \in I /\ First(I) \in DOMAIN s
                      /\ \A i \in I : First(I) <= i
<1>1. IsFiniteSet(I) /\ I \in SUBSET Nat
  BY SequenceDomain
<1>2. 0 \notin I
  OBVIOUS
<1>3. I # {} => First(I) \in I /\ \A i \in I : First(I) <= i
  BY <1>1, FirstAndLast
<1>4. I = {} => First(I) = 0
  BY DEF First
<1> QED
  BY <1>2, <1>3, <1>4
(***************************************************************************)
(* Placing a section.                                                      *)
(***************************************************************************)

\* SectionHeader::add: the section takes a slot that is null or new and is not
\* the first, the first such slot, and the others stay.
LEMMA AddSectionSlot ==
  ASSUME NEW s \in Seq(Section), NEW section
  PROVE  LET slot == SpareSlot(s)
             t == AddSection(s, section)
         IN  /\ slot \in Nat /\ slot > 1
             /\ slot \in DOMAIN t /\ t[slot] = section
             /\ slot \in DOMAIN s => s[slot].kind = "Null"
             /\ \A i \in Positions(s, "Null") \ {1} : slot <= i
             /\ \A i \in DOMAIN s : i \in DOMAIN t
             /\ \A i \in DOMAIN t :
                  i # slot => \/ i \in DOMAIN s /\ t[i] = s[i]
                              \/ i \notin DOMAIN s /\ i = 1 /\ t[i] = NullSection
<1> DEFINE null == Positions(s, "Null") \ {1}
           slot == SpareSlot(s)
           last == IF slot > Len(s) THEN slot ELSE Len(s)
           t == AddSection(s, section)
<1>1. Len(s) \in Nat /\ DOMAIN s = 1 .. Len(s)
  OBVIOUS
<1>2. null \in SUBSET DOMAIN s
  BY DEF Positions
<1>3. null # {} => /\ First(null) \in null /\ First(null) \in DOMAIN s
                   /\ \A i \in null : First(null) <= i
  BY <1>2, FirstPosition
<1>4. slot = IF null # {} THEN First(null)
             ELSE IF s = << >> THEN 2 ELSE Len(s) + 1
  BY DEF SpareSlot
<1>5. /\ slot \in Nat /\ slot > 1
      /\ slot \in DOMAIN s => s[slot].kind = "Null"
      /\ \A i \in null : slot <= i
  <2>1. CASE null # {}
    <3>1. slot \in null /\ slot \in DOMAIN s /\ \A i \in null : slot <= i
      BY <1>3, <1>4, <2>1
    <3>2. s[slot].kind = "Null" /\ slot # 1
      BY <3>1 DEF Positions
    <3> QED
      BY <1>1, <3>1, <3>2
  <2>2. CASE null = {}
    <3>1. s = << >> => Len(s) = 0
      OBVIOUS
    <3>2. s # << >> => Len(s) # 0
      OBVIOUS
    <3> HIDE DEF null, slot
    <3> QED
      BY <1>1, <1>4, <2>2, <3>1, <3>2
  <2> QED
    BY <2>1, <2>2
<1> HIDE DEF slot, null
<1>6. t = [i \in 1 .. last |-> IF i = slot THEN section
                               ELSE IF i \in DOMAIN s THEN s[i]
                               ELSE NullSection]
  BY DEF AddSection, slot
<1>7. last \in Nat /\ slot \in 1 .. last /\ DOMAIN s \in SUBSET (1 .. last)
  BY <1>1, <1>5
<1>8. ASSUME NEW i \in 1 .. last, i # slot, i \notin DOMAIN s
      PROVE  i = 1
  <2>1. slot > Len(s) /\ last = slot
    BY <1>1, <1>5, <1>8
  <2>2. null = {}
    BY <1>1, <1>3, <1>4, <2>1
  <2>3. s = << >> => slot = 2
    BY <1>4, <2>2
  <2>4. s # << >> => slot = Len(s) + 1
    BY <1>4, <2>2
  <2> HIDE DEF last
  <2> QED
    BY <1>1, <1>8, <2>1, <2>3, <2>4
<1> HIDE DEF last, t
<1> QED
  BY <1>5, <1>6, <1>7, <1>8 DEF slot, null, t

\* A request of any length for a section with bytes in the file.
Requestable(request) ==
  request \in [name : Names, kind : SectionKinds \ {"Null", "NoBits"},
               alloc : {TRUE}, write : BOOLEAN, offset : {0}, address : {0},
               size : Nat, link : Nat, align : Word]

\* The section that is placed is the one asked for.
LEMMA PlacedFields ==
  ASSUME NEW secs, NEW segs, NEW request, Requestable(request)
  PROVE  LET section == AllocateSection(secs, segs, request).section
         IN  /\ section.name = request.name
             /\ section.kind = request.kind
             /\ section.alloc
             /\ section.size = request.size
             /\ section.align = request.align
<1> DEFINE gap == First(Gaps(Sorted(FileEvents(secs, segs)), segs, request))
           section == AllocateSection(secs, segs, request).section
<1>1. \E g, start : section = Placed(request, g, start)
  <2>1. CASE gap # 0
    BY <2>1 DEF AllocateSection
  <2>2. CASE gap = 0
    BY <2>2 DEF AllocateSection
  <2> QED
    BY <2>1, <2>2
<1> HIDE DEF section
<1>2. /\ {"name", "kind", "alloc", "size", "offset", "address", "align"}
           \subseteq DOMAIN request
      /\ request.alloc
  BY DEF Requestable
<1>3. PICK g, start : section = Placed(request, g, start)
  BY <1>1
<1>4. /\ section.name = request.name /\ section.kind = request.kind
      /\ section.alloc = request.alloc /\ section.size = request.size
      /\ section.align = request.align
  BY <1>2, <1>3 DEF Placed
<1> QED
  BY <1>2, <1>4 DEF section

(***************************************************************************)
(* Operations that keep tables good: they keep them sound, and no end      *)
(* grows.                                                                  *)
(***************************************************************************)

\* A good table is sound and fits, and the other way around.
LEMMA GoodSegmentsAreSound ==
  ASSUME NEW s
  PROVE  GoodSegments(s) <=> SoundSegments(s) /\ LoadsFit(s)
  BY DEF GoodSegments, SoundSegments

LEMMA GoodSectionsAreSound ==
  ASSUME NEW s
  PROVE  GoodSections(s) <=> SoundSections(s) /\ SectionsFit(s)
  BY DEF GoodSections, SoundSections

LEMMA SelectionIsGood ==
  ASSUME NEW s, GoodSegments(s), NEW t \in Seq(Segment), IsSelection(t, s)
  PROVE  GoodSegments(t)
<1>1. SoundSegments(t)
  BY SelectionIsSound, GoodSegmentsAreSound
<1>2. LoadsFit(t)
  BY DEF GoodSegments, LoadsFit, IsSelection
<1> QED
  BY <1>1, <1>2, GoodSegmentsAreSound

LEMMA AppendOther ==
  ASSUME NEW s, GoodSegments(s), NEW g \in Segment, ~IsLoad(g)
  PROVE  GoodSegments(Append(s, g))
<1> DEFINE t == Append(s, g)
<1>1. SoundSegments(t)
  BY AppendOtherIsSound, GoodSegmentsAreSound
<1>2. /\ DOMAIN t = 1 .. Len(s) + 1 /\ DOMAIN s = 1 .. Len(s) /\ Len(s) \in Nat
      /\ \A n \in DOMAIN s : t[n] = s[n]
      /\ t[Len(s) + 1] = g
  BY DEF GoodSegments
<1> HIDE DEF t
<1>3. LoadsFit(t)
  BY <1>2 DEF GoodSegments, LoadsFit
<1> QED
  BY <1>1, <1>3, GoodSegmentsAreSound DEF t

LEMMA ResizedIsGood ==
  ASSUME NEW s, GoodSegments(s), NEW k \in DOMAIN s, ~IsLoad(s[k]),
         NEW size \in Word
  PROVE  GoodSegments([s EXCEPT ![k].file_size = size,
                                ![k].memory_size = size])
<1> DEFINE g == [s[k] EXCEPT !.file_size = size, !.memory_size = size]
           t == [s EXCEPT ![k].file_size = size, ![k].memory_size = size]
<1>1. SoundSegments(t)
  BY ResizedIsSound, GoodSegmentsAreSound
<1>2. s \in Seq(Segment) /\ s[k] \in Segment
  BY DEF GoodSegments
<1>3. g.kind = s[k].kind /\ t = [s EXCEPT ![k] = g]
  BY <1>2 DEF Segment
<1> HIDE DEF g, t
<1>4. DOMAIN t = DOMAIN s /\ t[k] = g /\ \A n \in DOMAIN s : n # k => t[n] = s[n]
  BY <1>2, <1>3
<1>5. LoadsFit(t)
  BY <1>3, <1>4 DEF GoodSegments, LoadsFit, IsLoad
<1> QED
  BY <1>1, <1>5, GoodSegmentsAreSound DEF t

LEMMA FreeSectionIsGood ==
  ASSUME NEW s, GoodSections(s), NEW I
  PROVE  GoodSections(FreeSections(s, I))
<1> DEFINE t == FreeSections(s, I)
<1>1. SoundSections(t)
  BY FreeSectionIsSound, GoodSectionsAreSound
<1>2. SectionFileEnd(NullSection) = 0
  BY DEF NullSection, SectionFileEnd
<1>3. DOMAIN t = DOMAIN s
      /\ \A n \in DOMAIN s : t[n] \in {NullSection, s[n]}
  BY DEF FreeSections
<1> HIDE DEF t
<1>4. SectionsFit(t)
  BY <1>2, <1>3, MaxWordAssumption DEF GoodSections, SectionsFit
<1> QED
  BY <1>1, <1>4, GoodSectionsAreSound DEF t

LEMMA ShrinkIsGood ==
  ASSUME NEW s, GoodSections(s), NEW i \in DOMAIN s, NEW size \in Nat,
         size <= s[i].size
  PROVE  GoodSections([s EXCEPT ![i].size = size])
<1> DEFINE u == [s[i] EXCEPT !.size = size]
           t == [s EXCEPT ![i].size = size]
<1>1. SoundSections(t)
  BY ShrinkIsSound, GoodSectionsAreSound
<1>2. s \in Seq(Section) /\ s[i] \in Section
  BY DEF GoodSections
<1>3. s[i].size \in Nat /\ s[i].offset \in Nat
  BY <1>2, EndsAreNatural
<1>4. u.kind = s[i].kind /\ u.offset = s[i].offset /\ u.size = size
      /\ t = [s EXCEPT ![i] = u]
  BY <1>2 DEF Section
<1> HIDE DEF u, t
<1>5. SectionFileEnd(u) <= SectionFileEnd(s[i])
  BY <1>3, <1>4 DEF SectionFileEnd
<1>6. /\ u.offset \in Nat /\ SectionFileEnd(u) \in Nat
      /\ SectionFileEnd(s[i]) \in Nat
  BY <1>3, <1>4 DEF SectionFileEnd
<1>7. DOMAIN t = DOMAIN s /\ t[i] = u /\ \A n \in DOMAIN s : n # i => t[n] = s[n]
  BY <1>2, <1>4
<1>8. SectionFileEnd(s[i]) <= MaxWord
  BY DEF GoodSections, SectionsFit
<1>9. SectionFileEnd(u) <= MaxWord
  BY <1>5, <1>6, <1>8, MaxWordAssumption
<1>10. SectionsFit(t)
  BY <1>7, <1>9 DEF GoodSections, SectionsFit
<1> QED
  BY <1>1, <1>10, GoodSectionsAreSound DEF t

LEMMA FinishSectionsIsGood ==
  ASSUME NEW s, GoodSections(s)
  PROVE  GoodSections(FinishSections(s))
<1>1. SoundSections(FinishSections(s))
  BY FinishSectionsIsSound, GoodSectionsAreSound
<1>2. SectionFileEnd(NullSection) = 0
  BY DEF NullSection, SectionFileEnd
<1>3. \A n \in DOMAIN <<NullSection>> : <<NullSection>>[n] = NullSection
  OBVIOUS
<1>4. SectionsFit(FinishSections(s))
  BY <1>2, <1>3, MaxWordAssumption DEF GoodSections, SectionsFit, FinishSections
<1> QED
  BY <1>1, <1>4, GoodSectionsAreSound

\* alloc_section and write_content keep the tables well-formed.
LEMMA PlaceIsGood ==
  ASSUME TablesOK, WellStored(file),
         NEW STATE request, Requestable(request),
         request.kind = "Dynamic" => request.size >= DynamicLen,
         NEW STATE content, "tags" \in DOMAIN content
                              => TableFits(content.tags, request.size),
         NEW STATE step, Place(request, content, step)
  PROVE  \/ pc' = "failed" /\ UNCHANGED <<sections, segments, file>>
         \/ LET result == AllocateSection(sections, segments, request)
                slot == SpareSlot(sections)
            IN  /\ pc' = step
                /\ result.ok /\ Requested(request)
                /\ result.section \in Section
                /\ sections' = AddSection(sections, result.section)
                /\ segments' = result.segments
                /\ file' = Write(file, result.section.offset, request.size,
                                 content)
                /\ Grown(result.segments, segments)
                /\ \A i \in DOMAIN sections :
                     InFile(sections[i]) => Apart(sections[i], result.section)
                /\ TablesOK' /\ WellStored(file')
                /\ slot \in Nat /\ slot \in DOMAIN sections'
                /\ sections'[slot].alloc
                /\ sections'[slot].kind = request.kind
<1> DEFINE result == AllocateSection(sections, segments, request)
           slot == SpareSlot(sections)
           grown == AddSection(sections, result.section)
<1>1. CASE ~(result.ok /\ Fits(grown, result.segments))
  BY <1>1 DEF Place
<1>2. CASE result.ok /\ Fits(grown, result.segments)
  <2>1. /\ sections \in Seq(Section) /\ segments \in Seq(Segment)
        /\ Fits(sections, segments)
    BY DEF TablesOK, GoodSections, GoodSegments, SectionsFit, LoadsFit, Fits
  <2>2. request.size \in Nat /\ request.align \in Nat
    BY MaxWordAssumption DEF Requestable, Word
  <2>3. request.size \in Word
    BY <1>2, <2>1, <2>2, AllocatedSizeIsWord
  <2>4. Requested(request)
    <3>1. 0 \in Word
      BY MaxWordAssumption DEF Word
    <3>2. request \in Section
      BY <2>3, <3>1 DEF Requestable, Section
    <3>3. request.alloc /\ request.kind \notin {"Null", "NoBits"}
      BY DEF Requestable
    <3> QED
      BY <3>2, <3>3 DEF Requested
  <2>5. /\ result.section \in Section
        /\ Grown(result.segments, segments)
        /\ \A i \in DOMAIN sections :
             InFile(sections[i]) => Apart(sections[i], result.section)
    BY <1>2, <2>1, <2>4, AllocateSectionProperties
  <2>6. /\ result.section.kind = request.kind /\ result.section.alloc
        /\ result.section.size = request.size
    BY PlacedFields
  <2>7. /\ pc' = step
        /\ sections' = AddSection(sections, result.section)
        /\ segments' = result.segments
        /\ file' = Write(file, result.section.offset, request.size, content)
    BY <1>2 DEF Place
  <2> HIDE DEF result
  <2>8. GoodSections(sections')
    <3>1. SoundSections(grown)
      BY <2>5, AddSectionIsSound, GoodSectionsAreSound DEF TablesOK
    <3>2. SectionsFit(grown)
      BY <1>2 DEF Fits, SectionsFit
    <3> QED
      BY <2>7, <3>1, <3>2, GoodSectionsAreSound
  <2>9. GoodSegments(segments')
    <3>1. SoundSegments(result.segments)
      BY <2>5, GrownIsSound, GoodSegmentsAreSound DEF TablesOK
    <3>2. LoadsFit(result.segments)
      BY <1>2 DEF Fits, LoadsFit
    <3> QED
      BY <2>7, <3>1, <3>2, GoodSegmentsAreSound
  <2>10. /\ slot \in Nat /\ slot \in DOMAIN sections'
         /\ sections'[slot] = result.section
         /\ \A i \in DOMAIN sections' :
              i # slot => \/ i \in DOMAIN sections /\ sections'[i] = sections[i]
                          \/ sections'[i] = NullSection
    BY <2>1, <2>7, AddSectionSlot
  <2>11. DynamicsLong(sections')
    BY <2>6, <2>10 DEF TablesOK, DynamicsLong, Positions, NullSection
  <2>12. WellStored(file')
    <3>1. result.section.offset \in Nat
      BY <2>5, EndsAreNatural
    <3> QED
      BY <2>2, <2>7, <3>1, WriteWellStored
  <2> QED
    BY <1>2, <2>4, <2>5, <2>6, <2>7, <2>8, <2>9, <2>10, <2>11, <2>12
       DEF TablesOK, GoodSections, GoodSegments, SectionsFit, SectionsApart,
           LoadsFit, LoadsApart, DynamicsLong, result
<1> QED
  BY <1>1, <1>2

\* SectionHeader::free and zero keep the tables well-formed.
LEMMA FreeIsGood ==
  ASSUME TablesOK, WellStored(file), NEW STATE i, Free(i)
  PROVE  GoodSections(sections') /\ DynamicsLong(sections')
         /\ WellStored(file') /\ DOMAIN sections' = DOMAIN sections
<1>1. /\ sections' = FreeSections(sections, {i})
      /\ file' = Zero(file, sections[i].offset, sections[i].size)
  BY DEF Free
<1>2. GoodSections(sections')
  BY <1>1, FreeSectionIsGood DEF TablesOK
<1>3. DynamicsLong(sections')
  BY <1>1 DEF TablesOK, DynamicsLong, FreeSections, Positions, NullSection
<1>4. WellStored(file')
  BY <1>1, FewerWellStored DEF Zero
<1> QED
  BY <1>1, <1>2, <1>3, <1>4 DEF FreeSections
\* do_finish asks for a PHDR segment of the length of the table it will write.
LEMMA PhdrRequestIsSegment ==
  ASSUME NEW secs \in Seq(Section), NEW segs \in Seq(Segment),
         AllocateSegment(secs, segs, PhdrRequest(PhdrLen(Len(segs)))).ok
  PROVE  /\ PhdrRequest(PhdrLen(Len(segs))) \in Segment
         /\ PhdrRequest(PhdrLen(Len(segs))).kind = "ProgramHeader"
<1> DEFINE request == PhdrRequest(PhdrLen(Len(segs)))
<1>1. Len(segs) \in Nat
  OBVIOUS
<1>2. PhdrLen(Len(segs)) \in Nat
  BY <1>1, LengthsAssumption DEF PhdrLen
<1>3. PhdrAlign \in Word /\ PhdrAlign \in Nat /\ 0 \in Word
  BY AlignsAssumption, MaxWordAssumption DEF Word
<1>4. /\ request.file_size \in Nat /\ request.memory_size \in Nat
      /\ request.align \in Nat
  BY <1>2, <1>3 DEF PhdrRequest
<1>5. PhdrLen(Len(segs)) \in Word
  BY <1>4, AllocatedLengthIsWord DEF PhdrRequest
<1> QED
  BY <1>3, <1>5 DEF PhdrRequest, Segment, SegmentKinds

\* allocate_file_space returns an offset.
LEMMA FileSpaceIsNatural ==
  ASSUME NEW secs \in Seq(Section), NEW segs \in Seq(Segment), NEW size,
         NEW align \in Nat
  PROVE  AllocateFileSpace(secs, segs, size, align) \in Nat
<1> DEFINE E == FileEvents(secs, segs)
           N == Cardinality(E)
           ev == Sorted(E)
           gaps == FileGaps(ev, size, align)
           gap == First(gaps)
<1>1. N \in Nat /\ ev \in [1 .. N -> E] /\ Len(ev) = N
  BY FileEventsType, SortedProperties
<1>2. \A m \in 1 .. N : ev[m].offset \in Nat
  BY <1>1, FileEventsType DEF EventType
<1>3. CASE gap # 0
  <2>1. gaps \in SUBSET (2 .. N) /\ gaps # {}
    BY <1>1, <1>3 DEF FileGaps, First
  <2>2. IsFiniteSet(2 .. N)
    BY <1>1, FS_Interval
  <2> HIDE DEF gaps
  <2>3. IsFiniteSet(gaps) /\ gaps \in SUBSET Nat
    <3>1. IsFiniteSet(gaps)
      BY <2>1, <2>2, FS_Subset
    <3>2. (2 .. N) \in SUBSET Nat
      BY <1>1
    <3> QED
      BY <2>1, <3>1, <3>2
  <2>4. gap \in 2 .. N
    BY <2>1, <2>3, FirstAndLast
  <2>5. gap - 1 \in 1 .. N
    BY <1>1, <2>4
  <2>6. NextMultiple(ev[gap - 1].offset, align) \in Nat
    BY <1>2, <2>5, NextMultipleProperties
  <2> QED
    BY <1>3, <2>6 DEF AllocateFileSpace, gaps
<1>4. CASE gap = 0
  <2>1. LastOffset(E, HeaderLen) \in Nat
    BY FileEventsType, LastOffsetBound, LengthsAssumption
  <2>2. NextMultiple(LastOffset(E, HeaderLen), align) \in Nat
    BY <2>1, NextMultipleProperties
  <2> QED
    BY <1>4, <2>2 DEF AllocateFileSpace
<1> QED
  BY <1>3, <1>4

(***************************************************************************)
(* Every step keeps the types.                                             *)
(***************************************************************************)

\* What the tables and the bytes of a well-typed state are.
LEMMA TableFacts ==
  ASSUME TInv
  PROVE  /\ GoodSections(sections) /\ GoodSegments(segments)
         /\ DynamicsLong(sections) /\ WellStored(file)
         /\ sections \in Seq(Section) /\ segments \in Seq(Segment)
         /\ \A i \in DOMAIN sections :
              /\ sections[i] \in Section
              /\ sections[i].offset \in Nat /\ sections[i].size \in Nat
              /\ sections[i].size \in Word
         /\ \A j \in DOMAIN segments : segments[j] \in Segment
         /\ Fits(sections, segments)
<1>1. sections \in Seq(Section) /\ segments \in Seq(Segment)
  BY DEF TInv, TablesOK, GoodSections, GoodSegments
<1>2. \A i \in DOMAIN sections : sections[i] \in Section
  BY <1>1
<1>3. \A i \in DOMAIN sections : sections[i].size \in Word
  BY <1>2 DEF Section
<1> QED
  BY <1>1, <1>2, <1>3, EndsAreNatural
     DEF TInv, TablesOK, GoodSections, GoodSegments, SectionsFit, LoadsFit, Fits

\* The cached table of names has a length.
LEMMA CachedNamesType ==
  ASSUME TInv
  PROVE  /\ CachedNames.len \in Nat
         /\ \A string \in PatchNames :
              WithString(CachedNames, string).len \in Nat
         /\ \A string, other \in PatchNames :
              WithString(WithString(CachedNames, string), other).len \in Nat
<1>1. CachedNames.len \in Nat
  BY TableFacts DEF CachedNames, SectionNames, TInv, PlaceOK
<1>2. \A string \in PatchNames : StringLen[string] \in Nat
  BY StringLenAssumption
<1> HIDE DEF CachedNames
<1> QED
  BY <1>1, <1>2 DEF WithString

\* Steps that open a file, begin a call or finish.
LEMMA CallsKeepTypes ==
  ASSUME TInv, Call
  PROVE  TInv'
<1> USE DEF NoCall, NameSteps, TagSteps, Steps
<1>1. DOMAIN << >> = {} /\ IsFiniteSet({})
  BY FS_EmptySet
<1>2. ASSUME UNCHANGED <<sections, segments, file, header>>
      PROVE  /\ TablesOK' /\ WellStored(file)' /\ header' \in HeaderType
  BY <1>2 DEF TInv, PlaceOK, TablesOK, GoodSections, GoodSegments,
              SectionsFit, SectionsApart, LoadsFit, LoadsApart, DynamicsLong
<1>3. /\ calls \in 0 .. MaxCalls /\ sessions \in 0 .. MaxSessions
      /\ MaxCalls \in Nat /\ MaxSessions \in Nat /\ names.len \in Nat
  BY BoundsAssumption DEF TInv, PlaceOK
<1>4. CASE Open
  <2>1. pc' \in {"ready", "unreadable"} /\ UNCHANGED call
    BY <1>4 DEF Open
  <2>2. CallOK' /\ SlotOK'
    BY <2>1 DEF TInv, CallOK, SlotOK
  <2>3. PlaceOK'
    <3>1. sessions' \in 0 .. MaxSessions
      BY <1>3, <1>4 DEF Open
    <3>2. calls' \in 0 .. MaxCalls /\ names'.len \in Nat
      BY <1>3, <1>4 DEF Open, Unread
    <3> QED
      BY <1>2, <1>4, <2>1, <3>1, <3>2 DEF PlaceOK, Open, elf
  <2> QED
    BY <1>2, <1>4, <2>2, <2>3 DEF TInv, Open, elf
<1>5. ASSUME NEW op, NEW locals,
             NEW step \in {"free_interp", "free_dynamic", "shrink_dynamic"},
             Begin(op, step, locals)
      PROVE  TablesOK' /\ WellStored(file)' /\ PlaceOK' /\ SlotOK'
  <2>1. calls' \in 0 .. MaxCalls
    BY <1>3, <1>5 DEF Begin
  <2>2. SlotOK'
    BY <1>5 DEF Begin, SlotOK
  <2> QED
    BY <1>2, <1>3, <1>5, <2>1, <2>2 DEF Begin, PlaceOK, elf
<1>6. CASE RemoveInterpreter
  <2>1. CallOK'
    BY <1>1, <1>6 DEF RemoveInterpreter, Begin, CallOK
  <2> QED
    BY <1>5, <1>6, <2>1 DEF RemoveInterpreter, TInv
<1>7. ASSUME NEW value \in Interps, SetInterpreter(value)
      PROVE  TInv'
  <2>1. CallOK'
    BY <1>1, <1>7 DEF SetInterpreter, Begin, CallOK
  <2> QED
    BY <1>5, <1>7, <2>1 DEF SetInterpreter, TInv
<1>8. ASSUME NEW tag \in Tags, NEW value \in Strings, SetDynamicTag(tag, value)
      PROVE  TInv'
  <2>1. CallOK'
    BY <1>1, <1>8 DEF SetDynamicTag, Begin, CallOK
  <2> QED
    BY <1>5, <1>8, <2>1 DEF SetDynamicTag, TInv
<1>9. ASSUME NEW tag \in Tags, RemoveDynamicTag(tag)
      PROVE  TInv'
  <2>1. CallOK'
    BY <1>1, <1>9 DEF RemoveDynamicTag, Begin, CallOK
  <2> QED
    BY <1>5, <1>9, <2>1 DEF RemoveDynamicTag, TInv
<1>10. CASE Finish
  <2>1. PlaceOK' /\ CallOK' /\ SlotOK'
    BY <1>2, <1>3, <1>10 DEF Finish, TInv, PlaceOK, CallOK, SlotOK, elf
  <2> QED
    BY <1>2, <1>10, <2>1 DEF Finish, TInv, elf
<1> QED
  BY <1>4, <1>6, <1>7, <1>8, <1>9, <1>10 DEF Call
\* Return leaves a call of no step.
LEMMA ReturnTypes ==
  ASSUME Return
  PROVE  pc' = "ready" /\ CallOK' /\ SlotOK'
<1>1. DOMAIN << >> = {} /\ IsFiniteSet({})
  BY FS_EmptySet
<1> QED
  BY <1>1 DEF Return, NoCall, CallOK, SlotOK, NameSteps, TagSteps

\* What is the same for every step of a call.
LEMMA StepTypes ==
  ASSUME TInv, TablesOK', WellStored(file)', CallOK', SlotOK',
         header' \in HeaderType, names'.len \in Nat, pc' \in Steps,
         UNCHANGED <<calls, sessions>>
  PROVE  TInv'
  BY DEF TInv, PlaceOK

\* The names step: get_name_offset.
LEMMA NameStepsKeepTypes ==
  ASSUME TInv, FindName \/ PlaceNames
  PROVE  TInv'
<1> USE DEF NameSteps, TagSteps, Steps, NameSearches
<1>1. /\ header \in HeaderType /\ names.len \in Nat
      /\ pc \in NameSteps => /\ call.name \in PatchNames
                             /\ call.then \in {"place_interp", "place_dynstr",
                                               "place_dynamic"}
  BY DEF TInv, PlaceOK, CallOK, PatchNames
<1>2. CASE FindName
  <2> DEFINE i == header.section_names_index
  <2>1. /\ pc = "find_name"
        /\ UNCHANGED <<header, segments, want, calls, sessions>>
        /\ UNCHANGED call
    BY <1>2 DEF FindName, Continue
  <2>2. names'.len \in Nat
    BY <1>1, <1>2, <2>1, CachedNamesType DEF FindName, PatchNames
  <2>3. \/ pc' = call.then /\ UNCHANGED <<sections, file>>
        \/ pc' = "place_names" /\ Free(i)
        \/ pc' = "panicked" /\ UNCHANGED <<sections, file>>
    BY <1>2 DEF FindName, Continue
  <2>4. pc' \in Steps /\ pc' \notin {"write_dynstr", "overlay_interp",
                                     "overlay_dynamic"}
    BY <1>1, <2>1, <2>3
  <2>5. TablesOK' /\ WellStored(file)'
    <3>1. CASE UNCHANGED <<sections, file>>
      BY <2>1, <3>1
         DEF TInv, TablesOK, GoodSections, GoodSegments, SectionsFit,
             SectionsApart, LoadsFit, LoadsApart, DynamicsLong
    <3>2. CASE Free(i)
      <4>1. GoodSections(sections') /\ DynamicsLong(sections')
            /\ WellStored(file')
        BY <3>2, FreeIsGood DEF TInv
      <4> QED
        BY <2>1, <4>1
           DEF TInv, TablesOK, GoodSections, GoodSegments, SectionsFit,
               SectionsApart, LoadsFit, LoadsApart, DynamicsLong
    <3> QED
      BY <2>3, <3>1, <3>2
  <2>6. CallOK'
    BY <1>1, <2>1, <2>3 DEF TInv, CallOK
  <2>7. SlotOK'
    BY <2>4 DEF SlotOK
  <2> QED
    BY <1>1, <2>1, <2>2, <2>4, <2>5, <2>6, <2>7, StepTypes
<1>3. CASE PlaceNames
  <2> DEFINE request == Request(".shstrtab", "StringTable", FALSE, names.len, 1,
                                StringTableAlign)
             content == [strings |-> names.strings]
  <2>1. Requestable(request) /\ request.kind = "StringTable"
    <3>1. ".shstrtab" \in Names
      BY PatchNamesAssumption DEF PatchNames
    <3>2. StringTableAlign \in Word
      BY AlignsAssumption
    <3> QED
      BY <1>1, <3>1, <3>2 DEF Requestable, Request, SectionKinds
  <2>2. "tags" \notin DOMAIN content
    OBVIOUS
  <2>3. /\ pc = "place_names" /\ Place(request, content, call.then)
        /\ UNCHANGED <<names, call, want, calls, sessions>>
    BY <1>3 DEF PlaceNames
  <2> HIDE DEF request, content
  <2>4. \/ pc' = "failed" /\ UNCHANGED <<sections, segments, file>>
        \/ /\ pc' = call.then /\ TablesOK' /\ WellStored(file')
           /\ SpareSlot(sections) \in Nat
    BY <2>1, <2>2, <2>3, PlaceIsGood DEF TInv
  <2>5. header' \in HeaderType
    BY <1>1, <1>3, <2>4 DEF PlaceNames, HeaderType
  <2>6. TablesOK' /\ WellStored(file)'
    BY <2>4 DEF TInv, TablesOK, GoodSections, GoodSegments, SectionsFit,
                SectionsApart, LoadsFit, LoadsApart, DynamicsLong
  <2>7. pc' \in Steps /\ pc' \notin {"write_dynstr", "overlay_interp",
                                     "overlay_dynamic"}
    BY <1>1, <2>3, <2>4
  <2>8. CallOK'
    BY <1>1, <2>3, <2>4 DEF TInv, CallOK
  <2>9. SlotOK'
    BY <2>7 DEF SlotOK
  <2> QED
    BY <1>1, <2>3, <2>5, <2>6, <2>7, <2>8, <2>9, StepTypes
<1> QED
  BY <1>2, <1>3

\* The steps of set_interpreter and remove_interpreter.
LEMMA InterpStepsKeepTypes ==
  ASSUME TInv, FreeInterp \/ DropInterp \/ PlaceInterp \/ OverlayInterp
  PROVE  TInv'
<1> USE DEF NameSteps, TagSteps, Steps, NameSearches
<1>1. header \in HeaderType /\ names.len \in Nat
  BY DEF TInv, PlaceOK
<1>2. CASE FreeInterp
  <2>1. /\ pc = "free_interp"
        /\ UNCHANGED <<header, segments, want, calls, sessions, call>>
        /\ pc' \in {"free_interp", "drop_interp"}
        /\ names'.len \in Nat
    BY <1>2, CachedNamesType DEF FreeInterp, Continue
  <2>2. \/ UNCHANGED <<sections, file>>
        \/ \E i : Free(i)
    BY <1>2 DEF FreeInterp
  <2>3. TablesOK' /\ WellStored(file)'
    BY <2>1, <2>2, FreeIsGood
       DEF TInv, TablesOK, GoodSections, GoodSegments, SectionsFit,
           SectionsApart, LoadsFit, LoadsApart, DynamicsLong
  <2>4. CallOK' /\ SlotOK'
    BY <2>1 DEF TInv, CallOK, SlotOK
  <2> QED
    BY <1>1, <2>1, <2>3, <2>4, StepTypes
<1>3. CASE DropInterp
  <2>1. /\ pc = "drop_interp"
        /\ UNCHANGED <<header, sections, names, want, calls, sessions>>
        /\ file' \in SUBSET file
        /\ segments' = Without(segments, Positions(segments, "Interpreter"))
    BY <1>3 DEF DropInterp
  <2>2. GoodSegments(segments')
    BY <2>1, TableFacts, WithoutProperties, SelectionIsGood
  <2>3. TablesOK' /\ WellStored(file)'
    BY <2>1, <2>2, FewerWellStored
       DEF TInv, TablesOK, GoodSections, GoodSegments, SectionsFit,
           SectionsApart, LoadsFit, LoadsApart, DynamicsLong
  <2>4. pc' \in Steps /\ CallOK' /\ SlotOK'
    <3>1. CASE call.op = "set_interpreter"
      <4>1. /\ pc' = "find_name"
            /\ call' = [call EXCEPT !.name = ".interp", !.then = "place_interp"]
        BY <1>3, <3>1 DEF DropInterp
      <4> QED
        BY <3>1, <4>1 DEF TInv, CallOK, SlotOK
    <3>2. CASE call.op # "set_interpreter"
      BY <1>3, <3>2, ReturnTypes DEF DropInterp
    <3> QED
      BY <3>1, <3>2
  <2> QED
    BY <1>1, <2>1, <2>3, <2>4, StepTypes
<1>4. CASE PlaceInterp
  <2> DEFINE request == Request(".interp", "ProgramBits", FALSE,
                                StringLen[call.value], 1, InterpAlign)
             content == [interp |-> call.value]
  <2>1. /\ pc = "place_interp" /\ Place(request, content, "overlay_interp")
        /\ call' = [call EXCEPT !.slot = SpareSlot(sections)]
        /\ UNCHANGED <<header, names, want, calls, sessions>>
    BY <1>4 DEF PlaceInterp
  <2>2. Requestable(request) /\ request.kind = "ProgramBits"
    <3>1. call.value \in Interps
      BY <2>1 DEF TInv, CallOK
    <3>2. StringLen[call.value] \in Nat
      BY <3>1, StringLenAssumption
    <3>3. ".interp" \in Names
      BY PatchNamesAssumption DEF PatchNames
    <3>4. InterpAlign \in Word
      BY AlignsAssumption
    <3> QED
      BY <3>2, <3>3, <3>4 DEF Requestable, Request, SectionKinds
  <2>3. "tags" \notin DOMAIN content
    OBVIOUS
  <2> HIDE DEF request, content
  <2>4. \/ pc' = "failed" /\ UNCHANGED <<sections, segments, file>>
        \/ /\ pc' = "overlay_interp" /\ TablesOK' /\ WellStored(file')
           /\ SpareSlot(sections) \in DOMAIN sections'
           /\ sections'[SpareSlot(sections)].alloc
           /\ sections'[SpareSlot(sections)].kind = "ProgramBits"
    BY <2>1, <2>2, <2>3, PlaceIsGood DEF TInv
  <2>5. TablesOK' /\ WellStored(file)'
    BY <2>4 DEF TInv, TablesOK, GoodSections, GoodSegments, SectionsFit,
                SectionsApart, LoadsFit, LoadsApart, DynamicsLong
  <2>6. SpareSlot(sections) \in Nat
    BY TableFacts, AddSectionSlot
  <2>7. CallOK'
    BY <2>1, <2>4, <2>6 DEF TInv, CallOK
  <2>8. SlotOK'
    BY <2>1, <2>4, <2>6 DEF TInv, CallOK, SlotOK
  <2> QED
    BY <1>1, <2>1, <2>4, <2>5, <2>7, <2>8, StepTypes
<1>5. CASE OverlayInterp
  <2>1. /\ pc = "overlay_interp"
        /\ UNCHANGED <<header, sections, names, file, want, calls, sessions>>
        /\ segments' = Append(segments, OverlaySegment(sections[call.slot],
                                                       "Interpreter"))
        /\ Return
    BY <1>5 DEF OverlayInterp
  <2>2. call.slot \in DOMAIN sections
    BY <2>1 DEF TInv, SlotOK
  <2>3. GoodSegments(segments')
    BY <2>1, <2>2, TableFacts, OverlayIsSegment, AppendOther
  <2>4. TablesOK' /\ WellStored(file)'
    BY <2>1, <2>3 DEF TInv, TablesOK, GoodSections, GoodSegments, SectionsFit,
                      SectionsApart, LoadsFit, LoadsApart, DynamicsLong
  <2> QED
    BY <1>1, <2>1, <2>4, ReturnTypes, StepTypes
<1> QED
  BY <1>2, <1>3, <1>4, <1>5
\* remove_dynamic_tag: the table that is written in place fits where it was.
LEMMA ShrunkTable ==
  ASSUME TInv, Positions(sections, "Dynamic") # {}
  PROVE  LET i == First(Positions(sections, "Dynamic"))
         IN  /\ i \in DOMAIN sections /\ i # 0
             /\ sections[i].kind = "Dynamic"
             /\ TableFits(DynamicTags, sections[i].size)
             /\ \A T : /\ TableFits(WithoutTags(DynamicTags, T),
                                    sections[i].size)
                       /\ TableLen(WithoutTags(DynamicTags, T))
                            \in 1 .. sections[i].size
<1> DEFINE i == First(Positions(sections, "Dynamic"))
<1>1. Positions(sections, "Dynamic") \in SUBSET DOMAIN sections
  BY DEF Positions
<1>2. i \in Positions(sections, "Dynamic") /\ i \in DOMAIN sections /\ i # 0
  BY <1>1, TableFacts, FirstPosition
<1>3. DynamicTags = TagsIn(ReadSection(i))
  BY <1>2 DEF DynamicTags
<1> HIDE DEF i
<1>4. sections[i].kind = "Dynamic" /\ sections[i].size >= DynamicLen
      /\ sections[i].size \in Nat
  BY <1>2, TableFacts DEF DynamicsLong, Positions
<1>5. TableFits(DynamicTags, sections[i].size)
  BY <1>3, <1>4, TableFacts, TagsReadFit DEF ReadSection
<1>6. \A T : /\ TableFits(WithoutTags(DynamicTags, T), sections[i].size)
             /\ TableLen(WithoutTags(DynamicTags, T)) \in 1 .. sections[i].size
  BY <1>4, <1>5, WithoutTagsFit
<1> QED
  BY <1>2, <1>4, <1>5, <1>6 DEF i

\* remove_dynamic_tag.
LEMMA ShrinkKeepsTypes ==
  ASSUME TInv, ShrinkDynamic
  PROVE  TInv'
<1> DEFINE i == First(Positions(sections, "Dynamic"))
           j == First(Positions(segments, "Dynamic"))
           tags == WithoutTags(DynamicTags, {call.tag})
           len == TableLen(tags)
<1>1. header \in HeaderType /\ names.len \in Nat
  BY DEF TInv, PlaceOK
<1>2. /\ pc = "shrink_dynamic" /\ Return
      /\ UNCHANGED <<header, names, want, calls, sessions>>
  BY DEF ShrinkDynamic
<1>3. TablesOK' /\ WellStored(file)'
  <2>1. CASE i = 0
    BY <2>1
       DEF ShrinkDynamic, TInv, TablesOK, GoodSections, GoodSegments,
           SectionsFit, SectionsApart, LoadsFit, LoadsApart, DynamicsLong
  <2>2. CASE i # 0
    <3>1. /\ sections' = [sections EXCEPT ![i].size = len]
          /\ file' = Write(file, sections[i].offset, len, [tags |-> tags])
          /\ segments' = IF j = 0 THEN segments
                         ELSE [segments EXCEPT ![j].file_size = len,
                                               ![j].memory_size = len]
      BY <2>2 DEF ShrinkDynamic
    <3>2. Positions(sections, "Dynamic") # {}
      BY <2>2 DEF First
    <3>3. /\ i \in DOMAIN sections /\ TableFits(tags, sections[i].size)
          /\ len \in 1 .. sections[i].size
      BY <3>2, ShrunkTable
    <3>4. /\ sections[i].offset \in Nat /\ sections[i].size \in Word
          /\ sections[i].size \in Nat
      BY <3>3, TableFacts
    <3>5. len \in Nat /\ len \in Word /\ len <= sections[i].size
      BY <3>3, <3>4, MaxWordAssumption DEF Word
    <3>6. TableFits(tags, len) /\ len >= DynamicLen
      <4>1. Cardinality(DOMAIN tags) \in Nat
        BY <3>3, FS_CardinalityType DEF TableFits
      <4> HIDE DEF tags
      <4> QED
        BY <3>3, <3>5, <4>1 DEF TableFits, TableLen, DynamicLen
    <3> HIDE DEF i, j, tags, len
    <3>7. GoodSections(sections')
      BY <3>1, <3>3, <3>5, ShrinkIsGood, TableFacts
    <3>8. DynamicsLong(sections')
      <4>1. DOMAIN sections' = DOMAIN sections
            /\ \A n \in DOMAIN sections :
                 /\ sections'[n].kind = sections[n].kind
                 /\ n # i => sections'[n] = sections[n]
            /\ sections'[i].size = len
        BY <3>1, <3>3, TableFacts DEF Section
      <4> QED
        BY <3>6, <4>1, TableFacts DEF DynamicsLong, Positions
    <3>9. GoodSegments(segments')
      <4>1. CASE j = 0
        BY <3>1, <4>1, TableFacts
      <4>2. CASE j # 0
        <5>1. /\ Positions(segments, "Dynamic") \in SUBSET DOMAIN segments
              /\ Positions(segments, "Dynamic") # {}
          BY <4>2 DEF j, Positions, First
        <5>2. j \in Positions(segments, "Dynamic") /\ j \in DOMAIN segments
          BY <5>1, TableFacts, FirstPosition DEF j
        <5>3. ~IsLoad(segments[j])
          BY <5>2 DEF Positions, IsLoad
        <5> QED
          BY <3>1, <3>5, <4>2, <5>2, <5>3, ResizedIsGood, TableFacts
      <4> QED
        BY <4>1, <4>2
    <3>10. WellStored(file')
      <4>1. "tags" \in DOMAIN [tags |-> tags]
              => TableFits([tags |-> tags].tags, len)
        BY <3>6
      <4> QED
        BY <3>1, <3>4, <3>5, <4>1, WriteWellStored, TableFacts
    <3> QED
      BY <3>7, <3>8, <3>9, <3>10
         DEF TablesOK, GoodSections, GoodSegments, SectionsFit, SectionsApart,
             LoadsFit, LoadsApart, DynamicsLong
  <2> QED
    BY <2>1, <2>2
<1> QED
  BY <1>1, <1>2, <1>3, ReturnTypes, StepTypes DEF Steps

\* The steps of set_dynamic_tag up to the string table.
LEMMA DynstrStepsKeepTypes ==
  ASSUME TInv, FreeDynamic \/ FreeDynamicSegment \/ FindDynstr
  PROVE  TInv'
<1> USE DEF NameSteps, TagSteps, Steps, NameSearches
<1>1. header \in HeaderType /\ names.len \in Nat
  BY DEF TInv, PlaceOK
<1>2. CASE FreeDynamic
  <2> DEFINE i == First(Positions(sections, "Dynamic"))
  <2>1. /\ pc = "free_dynamic"
        /\ UNCHANGED <<header, segments, names, want, calls, sessions>>
    BY <1>2 DEF FreeDynamic
  <2>2. CASE i = 0
    <3>1. Return /\ UNCHANGED <<sections, file>>
      BY <1>2, <2>2 DEF FreeDynamic
    <3>2. TablesOK' /\ WellStored(file)'
      BY <2>1, <3>1
         DEF TInv, TablesOK, GoodSections, GoodSegments, SectionsFit,
             SectionsApart, LoadsFit, LoadsApart, DynamicsLong
    <3> QED
      BY <1>1, <2>1, <3>1, <3>2, ReturnTypes, StepTypes
  <2>3. CASE i # 0
    <3>1. /\ Free(i) /\ pc' = "free_dynamic_segment"
          /\ call' = [call EXCEPT !.tags = DynamicTags,
                                  !.address = sections[i].address]
      BY <1>2, <2>3 DEF FreeDynamic
    <3>2. Positions(sections, "Dynamic") # {}
      BY <2>3 DEF First
    <3>3. IsFiniteSet(DOMAIN DynamicTags)
      BY <3>2, ShrunkTable DEF TableFits
    <3> HIDE DEF i
    <3>4. TablesOK' /\ WellStored(file)'
      BY <2>1, <3>1, FreeIsGood
         DEF TInv, TablesOK, GoodSections, GoodSegments, SectionsFit,
             SectionsApart, LoadsFit, LoadsApart, DynamicsLong
    <3>5. CallOK' /\ SlotOK'
      <4> DEFINE T == DynamicTags
      <4>1. call' = [call EXCEPT !.tags = T, !.address = sections[i].address]
        BY <3>1
      <4>2. IsFiniteSet(DOMAIN T)
        BY <3>3
      <4> HIDE DEF T
      <4>3. /\ call'.op = call.op /\ call'.value = call.value
            /\ call'.tag = call.tag /\ call'.len = call.len
            /\ call'.slot = call.slot
        BY <4>1
      <4>4. \/ call'.tags = T
            \/ call'.tags = call.tags
        BY <4>1
      <4>5. IsFiniteSet(DOMAIN call'.tags)
        BY <4>2, <4>4 DEF TInv, CallOK
      <4> QED
        BY <2>1, <3>1, <4>3, <4>5 DEF TInv, CallOK, SlotOK
    <3> QED
      BY <1>1, <2>1, <3>1, <3>4, <3>5, StepTypes
  <2> QED
    BY <2>2, <2>3
<1>3. CASE FreeDynamicSegment
  <2> DEFINE j == First(Positions(segments, "Dynamic"))
  <2>1. /\ pc = "free_dynamic_segment" /\ pc' = "find_dynstr"
        /\ UNCHANGED <<header, sections, names, want, calls, sessions, call>>
    BY <1>3 DEF FreeDynamicSegment, Continue
  <2>2. GoodSegments(segments')
    <3>1. segments' = segments \/ segments' = Without(segments, {j})
      BY <1>3 DEF FreeDynamicSegment
    <3> QED
      BY <3>1, TableFacts, WithoutProperties, SelectionIsGood
  <2>3. file' \in SUBSET file
    BY <1>3 DEF FreeDynamicSegment, Zero
  <2>4. TablesOK' /\ WellStored(file)'
    BY <2>1, <2>2, <2>3, FewerWellStored
       DEF TInv, TablesOK, GoodSections, GoodSegments, SectionsFit,
           SectionsApart, LoadsFit, LoadsApart, DynamicsLong
  <2>5. CallOK' /\ SlotOK'
    BY <2>1 DEF TInv, CallOK, SlotOK
  <2> QED
    BY <1>1, <2>1, <2>4, <2>5, StepTypes
<1>4. CASE FindDynstr
  <2> DEFINE i == First(DynstrSections)
             strings == StringsIn(ReadSection(i))
  <2>1. /\ pc = "find_dynstr"
        /\ UNCHANGED <<header, segments, want, calls, sessions>>
    BY <1>4 DEF FindDynstr
  <2>2. names'.len \in Nat
    BY <1>1, <1>4, CachedNamesType DEF FindDynstr
  <2>3. DynstrSections \in SUBSET DOMAIN sections
    BY DEF DynstrSections, Positions
  <2>4. i # 0 => i \in DOMAIN sections
    BY <2>3, TableFacts, FirstPosition
  <2>5. CASE i = 0
    <3>1. Return /\ UNCHANGED <<sections, file>>
      BY <1>4, <2>5 DEF FindDynstr
    <3>2. TablesOK' /\ WellStored(file)'
      BY <2>1, <3>1
         DEF TInv, TablesOK, GoodSections, GoodSegments, SectionsFit,
             SectionsApart, LoadsFit, LoadsApart, DynamicsLong
    <3> QED
      BY <1>1, <2>1, <2>2, <3>1, <3>2, ReturnTypes, StepTypes
  <2>6. CASE i # 0 /\ call.value \in strings
    <3>1. /\ pc' = "write_dynstr" /\ UNCHANGED <<sections, file>>
          /\ call' = [call EXCEPT !.strings = strings, !.slot = i]
      BY <1>4, <2>6 DEF FindDynstr
    <3>2. i \in DOMAIN sections /\ i \in Nat
      BY <2>4, <2>6, TableFacts
    <3> HIDE DEF i, strings
    <3>3. TablesOK' /\ WellStored(file)'
      BY <2>1, <3>1
         DEF TInv, TablesOK, GoodSections, GoodSegments, SectionsFit,
             SectionsApart, LoadsFit, LoadsApart, DynamicsLong
    <3>4. CallOK' /\ SlotOK'
      BY <2>1, <3>1, <3>2 DEF TInv, CallOK, SlotOK
    <3> QED
      BY <1>1, <2>1, <2>2, <3>1, <3>3, <3>4, StepTypes
  <2>7. CASE i # 0 /\ call.value \notin strings
    <3>1. /\ Free(i) /\ pc' = "find_name"
          /\ call' = [call EXCEPT
                        !.strings = strings \cup {call.value},
                        !.len = sections[i].size + StringLen[call.value],
                        !.name = ".dynstr", !.then = "place_dynstr"]
      BY <1>4, <2>7 DEF FindDynstr
    <3>2. sections[i].size \in Nat
      BY <2>4, <2>7, TableFacts
    <3>3. StringLen[call.value] \in Nat
      BY <2>1, StringLenAssumption DEF TInv, CallOK
    <3> HIDE DEF i, strings
    <3>4. TablesOK' /\ WellStored(file)'
      BY <2>1, <3>1, FreeIsGood
         DEF TInv, TablesOK, GoodSections, GoodSegments, SectionsFit,
             SectionsApart, LoadsFit, LoadsApart, DynamicsLong
    <3>5. /\ call'.op = call.op /\ call'.value = call.value
          /\ call'.tag = call.tag /\ call'.slot = call.slot
          /\ call'.tags = call.tags
      BY <3>1
    <3>6. call'.len \in Nat
      BY <3>1, <3>2, <3>3 DEF TInv, CallOK
    <3>7. <<call'.op, call'.then, call'.name>> \in NameSearches
      <4>1. {"name", "then"} \subseteq DOMAIN call
        BY DEF TInv, CallOK, NoCall
      <4>2. call'.name = ".dynstr" /\ call'.then = "place_dynstr"
        BY <3>1, <4>1
      <4> QED
        BY <2>1, <3>5, <4>2 DEF TInv, CallOK
    <3>8. CallOK' /\ SlotOK'
      BY <2>1, <3>1, <3>5, <3>6, <3>7 DEF TInv, CallOK, SlotOK
    <3> QED
      BY <1>1, <2>1, <2>2, <3>1, <3>4, <3>8, StepTypes
  <2> QED
    BY <2>5, <2>6, <2>7
<1> QED
  BY <1>2, <1>3, <1>4
\* The steps of set_dynamic_tag that write the tables.
LEMMA WriteStepsKeepTypes ==
  ASSUME TInv, PlaceDynstr \/ WriteDynstr \/ PlaceDynamic
  PROVE  TInv'
<1> USE DEF NameSteps, TagSteps, Steps, NameSearches
<1>1. header \in HeaderType /\ names.len \in Nat
  BY DEF TInv, PlaceOK
<1>2. SpareSlot(sections) \in Nat
  BY TableFacts, AddSectionSlot
<1>3. CASE PlaceDynstr
  <2> DEFINE request == Request(".dynstr", "StringTable", FALSE, call.len, 1,
                                StringTableAlign)
             content == [strings |-> call.strings]
  <2>1. /\ pc = "place_dynstr" /\ Place(request, content, "write_dynstr")
        /\ call' = [call EXCEPT !.slot = SpareSlot(sections)]
        /\ UNCHANGED <<header, names, want, calls, sessions>>
    BY <1>3 DEF PlaceDynstr
  <2>2. Requestable(request) /\ request.kind = "StringTable"
    <3>1. ".dynstr" \in Names
      BY PatchNamesAssumption DEF PatchNames
    <3>2. StringTableAlign \in Word
      BY AlignsAssumption
    <3>3. call.len \in Nat
      BY DEF TInv, CallOK
    <3> QED
      BY <3>1, <3>2, <3>3 DEF Requestable, Request, SectionKinds
  <2>3. "tags" \notin DOMAIN content
    OBVIOUS
  <2> HIDE DEF request, content
  <2>4. \/ pc' = "failed" /\ UNCHANGED <<sections, segments, file>>
        \/ /\ pc' = "write_dynstr" /\ TablesOK' /\ WellStored(file')
           /\ SpareSlot(sections) \in DOMAIN sections'
    BY <2>1, <2>2, <2>3, PlaceIsGood DEF TInv
  <2>5. TablesOK' /\ WellStored(file)'
    BY <2>4 DEF TInv, TablesOK, GoodSections, GoodSegments, SectionsFit,
                SectionsApart, LoadsFit, LoadsApart, DynamicsLong
  <2>6. CallOK'
    BY <1>2, <2>1, <2>4 DEF TInv, CallOK
  <2>7. SlotOK'
    BY <2>1, <2>4 DEF TInv, CallOK, SlotOK, NoCall
  <2> QED
    BY <1>1, <2>1, <2>4, <2>5, <2>6, <2>7, StepTypes
<1>4. CASE WriteDynstr
  <2> DEFINE s == sections[call.slot]
             kept == WithoutTags(call.tags, SearchPaths)
             tags == WithTag(WithStringTable(kept, s), call.tag, call.value)
  <2>1. /\ pc = "write_dynstr" /\ pc' = "find_name"
        /\ file' = Write(file, s.offset, s.size, [strings |-> call.strings])
        /\ call' = [call EXCEPT !.tags = tags,
                                !.name = ".dynamic", !.then = "place_dynamic"]
        /\ UNCHANGED <<elf, names, want, calls, sessions>>
    BY <1>4 DEF WriteDynstr
  <2>2. s.offset \in Nat /\ s.size \in Nat
    BY <2>1, TableFacts DEF TInv, SlotOK
  <2>3. "tags" \notin DOMAIN [strings |-> call.strings]
    OBVIOUS
  <2>4. WellStored(file')
    BY <2>1, <2>2, <2>3, TableFacts, WriteWellStored
  <2>5. TablesOK'
    BY <2>1 DEF TInv, TablesOK, GoodSections, GoodSegments, SectionsFit,
                SectionsApart, LoadsFit, LoadsApart, DynamicsLong, elf
  <2>6. IsFiniteSet(DOMAIN tags)
    <3>1. DOMAIN kept = DOMAIN call.tags \ SearchPaths
      BY DEF WithoutTags
    <3>2. IsFiniteSet(DOMAIN kept)
      BY <3>1, FS_Subset DEF TInv, CallOK
    <3> QED
      BY <3>2, WithTagFinite DEF WithStringTable
  <2> HIDE DEF s, tags
  <2>7. /\ DOMAIN call = DOMAIN NoCall
        /\ {"name", "then", "tags"} \subseteq DOMAIN call
    BY DEF TInv, CallOK, NoCall
  <2>8. /\ call'.name = ".dynamic" /\ call'.then = "place_dynamic"
        /\ call'.tags = tags /\ call'.op = call.op
        /\ call'.value = call.value /\ call'.tag = call.tag
        /\ call'.len = call.len /\ call'.slot = call.slot
        /\ DOMAIN call' = DOMAIN call
    BY <2>1, <2>7
  <2>9. CallOK' /\ SlotOK'
    BY <2>1, <2>6, <2>7, <2>8 DEF TInv, CallOK, SlotOK, NoCall
  <2>10. names'.len \in Nat /\ header' \in HeaderType
    BY <1>1, <2>1 DEF elf
  <2> QED
    BY <2>1, <2>4, <2>5, <2>9, <2>10, StepTypes
<1>5. CASE PlaceDynamic
  <2> DEFINE request == Request(".dynamic", "Dynamic", TRUE,
                                TableLen(call.tags), call.slot, DynamicAlign)
             content == [tags |-> call.tags]
  <2>1. /\ pc = "place_dynamic" /\ Place(request, content, "overlay_dynamic")
        /\ call' = [call EXCEPT !.slot = SpareSlot(sections)]
        /\ UNCHANGED <<header, names, want, calls, sessions>>
    BY <1>5 DEF PlaceDynamic
  <2>2. Cardinality(DOMAIN call.tags) \in Nat /\ IsFiniteSet(DOMAIN call.tags)
    BY FS_CardinalityType DEF TInv, CallOK
  <2>3. TableLen(call.tags) \in Nat /\ TableLen(call.tags) >= DynamicLen
    BY <2>2 DEF TableLen, DynamicLen
  <2>4. Requestable(request) /\ request.kind = "Dynamic"
    <3>1. ".dynamic" \in Names
      BY PatchNamesAssumption DEF PatchNames
    <3>2. DynamicAlign \in Word
      BY AlignsAssumption
    <3>3. call.slot \in Nat
      BY DEF TInv, CallOK
    <3> QED
      BY <2>3, <3>1, <3>2, <3>3 DEF Requestable, Request, SectionKinds
  <2>5. /\ request.size = TableLen(call.tags)
        /\ request.size >= DynamicLen
        /\ TableFits(content.tags, request.size)
    BY <2>2, <2>3 DEF Request, TableFits
  <2> HIDE DEF request, content
  <2>6. \/ pc' = "failed" /\ UNCHANGED <<sections, segments, file>>
        \/ /\ pc' = "overlay_dynamic" /\ TablesOK' /\ WellStored(file')
           /\ SpareSlot(sections) \in DOMAIN sections'
           /\ sections'[SpareSlot(sections)].alloc
           /\ sections'[SpareSlot(sections)].kind = "Dynamic"
    BY <2>1, <2>4, <2>5, PlaceIsGood DEF TInv
  <2>7. TablesOK' /\ WellStored(file)'
    BY <2>6 DEF TInv, TablesOK, GoodSections, GoodSegments, SectionsFit,
                SectionsApart, LoadsFit, LoadsApart, DynamicsLong
  <2>8. CallOK'
    BY <1>2, <2>1, <2>6 DEF TInv, CallOK
  <2>9. SlotOK'
    BY <2>1, <2>6 DEF TInv, CallOK, SlotOK, NoCall
  <2> QED
    BY <1>1, <2>1, <2>6, <2>7, <2>8, <2>9, StepTypes
<1> QED
  BY <1>3, <1>4, <1>5

\* The end of set_dynamic_tag.
LEMMA LastTagStepsKeepTypes ==
  ASSUME TInv, OverlayDynamic \/ MoveSymbols
  PROVE  TInv'
<1> USE DEF NameSteps, TagSteps, Steps, NameSearches
<1>1. header \in HeaderType /\ names.len \in Nat
  BY DEF TInv, PlaceOK
<1>2. CASE OverlayDynamic
  <2>1. /\ pc = "overlay_dynamic" /\ pc' = "move_symbols"
        /\ UNCHANGED <<header, sections, names, file, want, calls, sessions,
                       call>>
        /\ segments' = Append(segments, OverlaySegment(sections[call.slot],
                                                       "Dynamic"))
    BY <1>2 DEF OverlayDynamic, Continue
  <2>2. call.slot \in DOMAIN sections
    BY <2>1 DEF TInv, SlotOK
  <2>3. GoodSegments(segments')
    BY <2>1, <2>2, TableFacts, OverlayIsSegment, AppendOther
  <2>4. TablesOK' /\ WellStored(file)'
    BY <2>1, <2>3 DEF TInv, TablesOK, GoodSections, GoodSegments, SectionsFit,
                      SectionsApart, LoadsFit, LoadsApart, DynamicsLong
  <2>5. CallOK' /\ SlotOK'
    BY <2>1 DEF TInv, CallOK, SlotOK
  <2> QED
    BY <1>1, <2>1, <2>4, <2>5, StepTypes
<1>3. CASE MoveSymbols
  <2>1. /\ Return /\ UNCHANGED <<elf, names, want, calls, sessions>>
        /\ \A b \in file' :
             \E old \in file :
               \/ b = old
               \/ b = [old EXCEPT !.content =
                         [symbol |-> sections[call.slot].address]]
    BY <1>3 DEF MoveSymbols
  <2>2. WellStored(file)'
    <3> SUFFICES ASSUME NEW b \in file'
                 PROVE  /\ b = Block(b.offset, b.len, b.content)
                        /\ b.offset \in Nat /\ b.len \in Nat
                        /\ "tags" \in DOMAIN b.content
                             => TableFits(b.content.tags, b.len)
      BY DEF WellStored
    <3>1. PICK old \in file :
            \/ b = old
            \/ b = [old EXCEPT !.content =
                      [symbol |-> sections[call.slot].address]]
      BY <2>1
    <3>2. /\ old = Block(old.offset, old.len, old.content)
          /\ old.offset \in Nat /\ old.len \in Nat
      BY TableFacts DEF WellStored
    <3>3. CASE b # old
      <4> DEFINE content == [symbol |-> sections[call.slot].address]
      <4>1. "tags" \notin DOMAIN content
        OBVIOUS
      <4>2. b = [old EXCEPT !.content = content]
        BY <3>1, <3>3
      <4> HIDE DEF content
      <4>3. b = Block(old.offset, old.len, content)
        BY <3>2, <4>2 DEF Block
      <4> QED
        BY <3>2, <4>1, <4>3 DEF Block
    <3>4. CASE b = old
      BY <3>2, <3>4, TableFacts DEF WellStored
    <3> QED
      BY <3>3, <3>4
  <2>3. TablesOK'
    BY <2>1 DEF TInv, TablesOK, GoodSections, GoodSegments, SectionsFit,
                SectionsApart, LoadsFit, LoadsApart, DynamicsLong, elf
  <2> QED
    BY <1>1, <2>1, <2>2, <2>3, ReturnTypes, StepTypes DEF elf
<1> QED
  BY <1>2, <1>3

\* The steps of finish.
LEMMA FinishStepsKeepTypes ==
  ASSUME TInv, FreePhdr \/ PlacePhdr \/ PlaceTables \/ Arrange \/ WriteElf
  PROVE  TInv'
<1> USE DEF NameSteps, TagSteps, Steps, NameSearches
<1>1. header \in HeaderType /\ names.len \in Nat
  BY DEF TInv, PlaceOK
<1>2. Len(segments) \in Nat /\ Len(sections) \in Nat
  BY TableFacts
<1>3. CASE FreePhdr
  <2>1. /\ pc' = "place_phdr"
        /\ UNCHANGED <<header, sections, names, want, calls, sessions, call>>
        /\ segments' = segments \/ \E I : segments' = Without(segments, I)
        /\ file' \in SUBSET file
    BY <1>3 DEF FreePhdr, Continue
  <2>2. GoodSegments(segments')
    BY <2>1, TableFacts, WithoutProperties, SelectionIsGood
  <2>3. TablesOK' /\ WellStored(file)'
    BY <2>1, <2>2, FewerWellStored
       DEF TInv, TablesOK, GoodSections, GoodSegments, SectionsFit,
           SectionsApart, LoadsFit, LoadsApart, DynamicsLong
  <2>4. CallOK' /\ SlotOK'
    BY <2>1 DEF TInv, CallOK, SlotOK
  <2> QED
    BY <1>1, <2>1, <2>3, <2>4, StepTypes
<1>4. CASE PlacePhdr
  <2> DEFINE request == PhdrRequest(PhdrLen(Len(segments)))
             result == AllocateSegment(sections, segments, request)
             grown == AddSegment(result.segments, result.segment)
  <2>1. /\ pc = "place_phdr"
        /\ UNCHANGED <<sections, names, file, call, want, calls, sessions>>
    BY <1>4 DEF PlacePhdr
  <2>2. CASE ~(result.ok /\ Fits(sections, grown))
    <3>1. pc' = "failed" /\ UNCHANGED <<header, segments>>
      BY <1>4, <2>2 DEF PlacePhdr
    <3>2. TablesOK' /\ WellStored(file)' /\ CallOK' /\ SlotOK'
      BY <2>1, <3>1
         DEF TInv, TablesOK, GoodSections, GoodSegments, SectionsFit,
             SectionsApart, LoadsFit, LoadsApart, DynamicsLong, CallOK, SlotOK
    <3> QED
      BY <1>1, <2>1, <3>1, <3>2, StepTypes
  <2>3. CASE result.ok /\ Fits(sections, grown)
    <3>1. /\ segments' = AddSegment(result.segments, result.segment)
          /\ header' = [header EXCEPT
                          !.program_header_offset = result.segment.offset]
          /\ pc' = "place_tables"
      BY <1>4, <2>3 DEF PlacePhdr
    <3>2. /\ request \in Segment /\ request.kind = "ProgramHeader"
      BY <1>2, <2>3, TableFacts, PhdrRequestIsSegment
    <3>3. /\ result.segment \in Segment
          /\ result.segment.kind = request.kind
          /\ Grown(result.segments, segments)
      BY <2>3, <3>2, TableFacts, AllocateSegmentProperties
    <3> HIDE DEF result, request
    <3>4. SoundSegments(result.segments)
      BY <3>3, TableFacts, GrownIsSound, GoodSegmentsAreSound
    <3>5. GoodSegments(segments')
      <4>1. SoundSegments(grown)
        BY <3>2, <3>3, <3>4, AddSegmentIsSound DEF IsLoad
      <4>2. LoadsFit(grown)
        BY <2>3 DEF Fits, LoadsFit
      <4> QED
        BY <3>1, <4>1, <4>2, GoodSegmentsAreSound
    <3>6. result.segment.offset \in Nat
      BY <3>3, EndsAreNatural
    <3>7. header' \in HeaderType
      BY <1>1, <3>1, <3>6 DEF HeaderType
    <3>8. TablesOK' /\ WellStored(file)' /\ CallOK' /\ SlotOK'
      BY <2>1, <3>1, <3>5
         DEF TInv, TablesOK, GoodSections, GoodSegments, SectionsFit,
             SectionsApart, LoadsFit, LoadsApart, DynamicsLong, CallOK, SlotOK
    <3> QED
      BY <1>1, <2>1, <3>1, <3>7, <3>8, StepTypes
  <2> QED
    BY <2>2, <2>3
<1>5. CASE PlaceTables
  <2> DEFINE len == Len(FinishSections(sections)) * SectionLen
             offset == AllocateFileSpace(FinishSections(sections), segments, len,
                                         SectionHeaderAlign)
  <2>1. /\ sections' = FinishSections(sections)
        /\ \/ /\ pc' = "arrange"
              /\ header' = [header EXCEPT !.num_segments = Len(segments),
                                          !.num_sections = Len(sections'),
                                          !.section_header_offset = offset]
           \/ pc' = "failed" /\ header' = header
        /\ UNCHANGED <<segments, names, file, call, want, calls, sessions>>
    BY <1>5 DEF PlaceTables
  <2>2. GoodSections(sections')
    BY <2>1, TableFacts, FinishSectionsIsGood
  <2>3. DynamicsLong(sections')
    <3>1. \A i \in DOMAIN sections' :
            \/ i \in DOMAIN sections /\ sections'[i] = sections[i]
            \/ sections'[i].kind = "Null"
      BY <2>1 DEF FinishSections, NullSection
    <3> QED
      BY <3>1, TableFacts DEF DynamicsLong, Positions
  <2>4. sections' \in Seq(Section) /\ Len(sections') \in Nat
    BY <2>2 DEF GoodSections
  <2>5. offset \in Nat
    BY <2>1, <2>4, TableFacts, FileSpaceIsNatural DEF SectionHeaderAlign
  <2> HIDE DEF offset
  <2>6. header' \in HeaderType
    BY <1>1, <1>2, <2>1, <2>4, <2>5 DEF HeaderType
  <2>7. TablesOK' /\ WellStored(file)' /\ CallOK' /\ SlotOK'
    BY <2>1, <2>2, <2>3
       DEF TInv, TablesOK, GoodSections, GoodSegments, SectionsFit,
           SectionsApart, LoadsFit, LoadsApart, DynamicsLong, CallOK, SlotOK
  <2> QED
    BY <1>1, <2>1, <2>6, <2>7, StepTypes
<1>6. CASE Arrange
  <2>1. /\ pc' = "write" /\ segments' = FinishSegments(segments)
        /\ UNCHANGED <<header, sections, names, file, call, want, calls,
                       sessions>>
    BY <1>6 DEF Arrange
  <2>2. GoodSegments(segments')
    BY <2>1, TableFacts, FinishSegmentsProperties, SelectionIsGood
  <2>3. TablesOK' /\ WellStored(file)' /\ CallOK' /\ SlotOK'
    BY <2>1, <2>2
       DEF TInv, TablesOK, GoodSections, GoodSegments, SectionsFit,
           SectionsApart, LoadsFit, LoadsApart, DynamicsLong, CallOK, SlotOK
  <2> QED
    BY <1>1, <2>1, <2>3, StepTypes
<1>7. CASE WriteElf
  <2> DEFINE first == Write(file, 0, HeaderLen, [header |-> header])
             second == Write(first, header.program_header_offset,
                             SegmentLen * Len(segments),
                             [segments |-> segments])
             third == Write(second, header.section_header_offset,
                            SectionLen * Len(sections),
                            [sections |-> sections])
  <2>1. /\ UNCHANGED <<elf, names, call, want, calls, sessions>>
        /\ \/ file' = third /\ pc' = "closed"
           \/ pc' = "rejected" /\ UNCHANGED file
    BY <1>7 DEF WriteElf
  <2>2. /\ header.program_header_offset \in Nat
        /\ header.section_header_offset \in Nat
        /\ HeaderLen \in Nat
        /\ SegmentLen * Len(segments) \in Nat
        /\ SectionLen * Len(sections) \in Nat
    BY <1>1, <1>2, LengthsAssumption DEF HeaderType
  <2>3. /\ "tags" \notin DOMAIN [header |-> header]
        /\ "tags" \notin DOMAIN [segments |-> segments]
        /\ "tags" \notin DOMAIN [sections |-> sections]
    OBVIOUS
  <2>4. WellStored(first)
    BY <2>2, <2>3, TableFacts, WriteWellStored
  <2>5. WellStored(second)
    BY <2>2, <2>3, <2>4, WriteWellStored
  <2>6. WellStored(third)
    BY <2>2, <2>3, <2>5, WriteWellStored
  <2> HIDE DEF third
  <2>7. TablesOK' /\ WellStored(file)' /\ CallOK' /\ SlotOK'
    BY <2>1, <2>6
       DEF TInv, TablesOK, GoodSections, GoodSegments, SectionsFit,
           SectionsApart, LoadsFit, LoadsApart, DynamicsLong, CallOK, SlotOK,
           elf
  <2> QED
    BY <1>1, <2>1, <2>7, StepTypes DEF elf
<1> QED
  BY <1>3, <1>4, <1>5, <1>6, <1>7

\* The invariant of types is inductive.
LEMMA NextKeepsTypes == TInv /\ [Next]_vars => TInv'
<1> SUFFICES ASSUME TInv, [Next]_vars PROVE TInv'
  OBVIOUS
<1>1. CASE Call
  BY <1>1, CallsKeepTypes
<1>2. CASE Step
  BY <1>2, NameStepsKeepTypes, InterpStepsKeepTypes, ShrinkKeepsTypes,
     DynstrStepsKeepTypes, WriteStepsKeepTypes, LastTagStepsKeepTypes,
     FinishStepsKeepTypes DEF Step
<1>3. CASE UNCHANGED vars
  BY <1>3
     DEF vars, elf, TInv, TablesOK, GoodSections, GoodSegments, SectionsFit,
         SectionsApart, LoadsFit, LoadsApart, DynamicsLong, PlaceOK, CallOK,
         SlotOK
<1> QED
  BY <1>1, <1>2, <1>3 DEF Next

\* The assumptions on the files are the invariant.
LEMMA InitIsTyped == Init => TInv
<1> SUFFICES ASSUME Init PROVE TInv
  OBVIOUS
<1>1. PICK f \in Files : /\ header = f.header /\ sections = f.sections
                         /\ segments = f.segments /\ file = f.file
  BY DEF Init
<1>2. TablesOK /\ WellStored(file) /\ header \in HeaderType
  BY <1>1, FilesAssumption
     DEF TablesOK, GoodSections, GoodSegments, SectionsFit, LoadsFit, Fits,
         DynamicsLong
<1>3. PlaceOK
  BY <1>2, BoundsAssumption DEF Init, PlaceOK, Unread, Steps
<1>4. CallOK /\ SlotOK
  <2>1. DOMAIN << >> = {} /\ IsFiniteSet({})
    BY FS_EmptySet
  <2> QED
    BY <2>1 DEF Init, NoCall, CallOK, SlotOK, NameSteps, TagSteps
<1> QED
  BY <1>2, <1>3, <1>4 DEF TInv

\* The inductive invariant of types: tables, file, position and locals.
THEOREM PatcherTypes == Spec => []TInv
<1>1. Init => TInv
  BY InitIsTyped
<1>2. TInv /\ [Next]_vars => TInv'
  BY NextKeepsTypes
<1> QED
  BY <1>1, <1>2, PTL DEF Spec

\* The tables and the position in the code stay well-typed through every
\* sequence of calls and sessions on every file of FilesAssumption.
THEOREM PatcherTypeCorrectness == Spec => []TypeOK
<1>1. TInv => TypeOK
  BY DEF TInv, TablesOK, PlaceOK, GoodSections, GoodSegments, TypeOK
<1> QED
  BY <1>1, PatcherTypes, PTL

\* No section ever shares a byte of the file with another one, and no LOAD
\* segment one with another or a page of memory, in the middle of a call or
\* when an allocation has failed just as between calls.
THEOREM PatcherKeepsLayout ==
  Spec => [](SectionsApart(sections) /\ LoadsApart(segments))
<1>1. TInv => SectionsApart(sections) /\ LoadsApart(segments)
  BY DEF TInv, TablesOK, GoodSections, GoodSegments
<1> QED
  BY <1>1, PatcherTypes, PTL

(***************************************************************************)
(* The instance of ElfLayout has copies of the operators of SpaceAllocator *)
(* and the modules it extends.                                             *)
(***************************************************************************)

\* The instance's operations on tables are those of this module.
LEMMA SameTables ==
  /\ \A S : Layout!Cardinality(S) = Cardinality(S)
  /\ \A g : Layout!IsLoad(g) <=> IsLoad(g)
  /\ \A s : Layout!InFile(s) <=> InFile(s)
  /\ \A s : Layout!SectionFileEnd(s) = SectionFileEnd(s)
  /\ \A g : Layout!SegmentFileEnd(g) = SegmentFileEnd(g)
  /\ \A s : Layout!SectionMemoryEnd(s) = SectionMemoryEnd(s)
  /\ \A g : Layout!SegmentMemoryEnd(g) = SegmentMemoryEnd(g)
  /\ \A x, align : Layout!Padding(x, align) = Padding(x, align)
  /\ \A x, align : Layout!NextMultiple(x, align) = NextMultiple(x, align)
  /\ \A x : Layout!AlignDown(x) = AlignDown(x)
  /\ \A x : Layout!AlignUp(x) = AlignUp(x)
  /\ \A s, t : Layout!Fits(s, t) <=> Fits(s, t)
  /\ \A g, k : Layout!Addressable(g, k) = Addressable(g, k)
  /\ \A S, R : Layout!Enumerate(S, R) = Enumerate(S, R)
  /\ \A I : Layout!First(I) = First(I)
  /\ \A I : Layout!Last(I) = Last(I)
  /\ \A t, k : Layout!Positions(t, k) = Positions(t, k)
  /\ \A s, I : Layout!Without(s, I) = Without(s, I)
  /\ \A s, I : Layout!FreeSections(s, I) = FreeSections(s, I)
  /\ \A s : Layout!FinishSections(s) = FinishSections(s)
  /\ \A s, e : Layout!AddSection(s, e) = AddSection(s, e)
  /\ \A s, j : Layout!CompanionLoad(s, j) = CompanionLoad(s, j)
  /\ \A s, e : Layout!AddSegment(s, e) = AddSegment(s, e)
  /\ \A s, kind : Layout!OverlaySegment(s, kind) = OverlaySegment(s, kind)
  /\ \A s : Layout!FinishSegments(s) = FinishSegments(s)
<1>1. \A g : Layout!IsLoad(g) <=> IsLoad(g)
  BY DEF Layout!IsLoad, IsLoad
<1>2. \A s : Layout!SectionFileEnd(s) = SectionFileEnd(s)
  BY DEF Layout!SectionFileEnd, SectionFileEnd
<1>3. \A s : Layout!SectionMemoryEnd(s) = SectionMemoryEnd(s)
  BY DEF Layout!SectionMemoryEnd, SectionMemoryEnd
<1>4. \A g : Layout!SegmentFileEnd(g) = SegmentFileEnd(g)
  BY DEF Layout!SegmentFileEnd, SegmentFileEnd
<1>5. \A g : Layout!SegmentMemoryEnd(g) = SegmentMemoryEnd(g)
  BY DEF Layout!SegmentMemoryEnd, SegmentMemoryEnd
<1>6. \A s : Layout!InFile(s) <=> InFile(s)
  BY <1>2 DEF Layout!InFile, InFile
<1>7. \A x, align : Layout!Padding(x, align) = Padding(x, align)
  BY DEF Layout!Padding, Padding
<1>8. \A x, align : Layout!NextMultiple(x, align) = NextMultiple(x, align)
  BY <1>7 DEF Layout!NextMultiple, NextMultiple
<1>9. \A x : Layout!AlignDown(x) = AlignDown(x)
  BY DEF Layout!AlignDown, AlignDown
<1>10. \A x : Layout!AlignUp(x) = AlignUp(x)
  BY <1>8 DEF Layout!AlignUp, AlignUp
<1>11. /\ \A s, t : Layout!Fits(s, t) <=> Fits(s, t)
       /\ \A g, k : Layout!Addressable(g, k) = Addressable(g, k)
  <2>1. \A g : Layout!FitsWord(g) <=> FitsWord(g)
    BY <1>4, <1>5 DEF Layout!FitsWord, FitsWord
  <2>2. \A s, t : Layout!Fits(s, t) <=> Fits(s, t)
    BY <1>1, <1>2, <2>1 DEF Layout!Fits, Fits
  <2>3. \A g, k : Layout!Addressable(g, k) = Addressable(g, k)
    BY DEF Layout!Addressable, Addressable
  <2> QED
    BY <2>2, <2>3
<1>12. \A S : Layout!Cardinality(S) = Cardinality(S)
  BY DEF Layout!Cardinality, Cardinality
<1>13. \A S, R : Layout!Rank(S, R) = Rank(S, R)
  BY <1>12 DEF Layout!Rank, Rank
<1>14. \A S, R : Layout!Enumerate(S, R) = Enumerate(S, R)
  BY <1>13, <1>12 DEF Layout!Enumerate, Enumerate
<1>15. \A I : Layout!Ascending(I) = Ascending(I)
  BY DEF Layout!Ascending, Ascending
<1>16. \A s, I : Layout!Without(s, I) = Without(s, I)
  BY <1>14, <1>15, <1>12 DEF Layout!Without, Without
<1>17. \A I : Layout!First(I) = First(I)
  BY DEF Layout!First, First
<1>18. \A I : Layout!Last(I) = Last(I)
  BY DEF Layout!Last, Last
<1>19. \A t, k : Layout!Positions(t, k) = Positions(t, k)
  BY DEF Layout!Positions, Positions
<1>20. Layout!NullSection = NullSection
  BY DEF Layout!NullSection, NullSection
<1>21. \A s, I : Layout!FreeSections(s, I) = FreeSections(s, I)
  BY <1>20 DEF Layout!FreeSections, FreeSections
<1>22. \A s : Layout!FinishSections(s) = FinishSections(s)
  BY <1>20 DEF Layout!FinishSections, FinishSections
<1>23. \A s : Layout!SpareSlot(s) = SpareSlot(s)
  BY <1>19, <1>17 DEF Layout!SpareSlot, SpareSlot
<1>24. \A s, e : Layout!AddSection(s, e) = AddSection(s, e)
  BY <1>23, <1>20 DEF Layout!AddSection, AddSection
<1>25. \A s, j : Layout!CompanionLoad(s, j) = CompanionLoad(s, j)
  BY <1>19, <1>17 DEF Layout!CompanionLoad, CompanionLoad
<1>26. \A s, e : Layout!AddSegment(s, e) = AddSegment(s, e)
  BY <1>19, <1>17 DEF Layout!AddSegment, AddSegment
<1>27. \A s, kind : Layout!OverlaySegment(s, kind) = OverlaySegment(s, kind)
  BY DEF Layout!OverlaySegment, OverlaySegment
<1>28. \A g : Layout!Group(g) = Group(g)
  BY DEF Layout!Group, Group
<1>29. \A s, i, j : Layout!Precedes(s, i, j) <=> Precedes(s, i, j)
  BY <1>28 DEF Layout!Precedes, Precedes
<1>30. \A s : Layout!FinishOrder(s) = FinishOrder(s)
  BY <1>29 DEF Layout!FinishOrder, FinishOrder
<1>31. \A s : Layout!FinishSegments(s) = FinishSegments(s)
  BY <1>30, <1>14, <1>12 DEF Layout!FinishSegments, FinishSegments
<1> QED
  BY <1>12, <1>1, <1>6, <1>2, <1>4, <1>3, <1>5, <1>7, <1>8, <1>9, <1>10,
     <1>11, <1>14, <1>17, <1>18, <1>19, <1>16, <1>21, <1>22, <1>24, <1>25,
     <1>26, <1>27, <1>31

\* So are the events of a file and the walk over them,
LEMMA SameEvents ==
  /\ \A s, t : Layout!FileEvents(s, t) = FileEvents(s, t)
  /\ \A S : Layout!Sorted(S) = Sorted(S)
  /\ \A s, t, f, m, a, w : Layout!NewLoad(s, t, f, m, a, w)
         = NewLoad(s, t, f, m, a, w)
  /\ \A ev, n, t, s : Layout!CurrentLoad(ev, n, t, s)
         = CurrentLoad(ev, n, t, s)
  /\ \A ev, t, s : Layout!Gaps(ev, t, s) = Gaps(ev, t, s)
  /\ \A e, g, k : Layout!Placed(e, g, k) = Placed(e, g, k)
<1>1. Layout!LoadSegmentStart = LoadSegmentStart
  BY DEF Layout!LoadSegmentStart, LoadSegmentStart
<1>2. Layout!SegmentStart = SegmentStart
  BY DEF Layout!SegmentStart, SegmentStart
<1>3. Layout!SectionStart = SectionStart
  BY DEF Layout!SectionStart, SectionStart
<1>4. Layout!EmptySegmentEnd = EmptySegmentEnd
  BY DEF Layout!EmptySegmentEnd, EmptySegmentEnd
<1>5. Layout!EmptySegmentStart = EmptySegmentStart
  BY DEF Layout!EmptySegmentStart, EmptySegmentStart
<1>6. Layout!SectionEnd = SectionEnd
  BY DEF Layout!SectionEnd, SectionEnd
<1>7. Layout!NoBitsSectionEnd = NoBitsSectionEnd
  BY DEF Layout!NoBitsSectionEnd, NoBitsSectionEnd
<1>8. Layout!SegmentEnd = SegmentEnd
  BY DEF Layout!SegmentEnd, SegmentEnd
<1>9. Layout!LoadSegmentEnd = LoadSegmentEnd
  BY DEF Layout!LoadSegmentEnd, LoadSegmentEnd
<1>10. Layout!SegmentStarts = SegmentStarts
  BY <1>1, <1>2, <1>5 DEF Layout!SegmentStarts, SegmentStarts
<1>11. Layout!SegmentEnds = SegmentEnds
  BY <1>9, <1>8, <1>4 DEF Layout!SegmentEnds, SegmentEnds
<1>12. Layout!SectionEnds = SectionEnds
  BY <1>6, <1>7 DEF Layout!SectionEnds, SectionEnds
<1>13. \A o, k, i : Layout!Event(o, k, i) = Event(o, k, i)
  BY DEF Layout!Event, Event
<1>14. \A s : Layout!SectionEvents(s) = SectionEvents(s)
  BY SameTables, <1>13, <1>3, <1>6 DEF Layout!SectionEvents, SectionEvents
<1>15. \A g : Layout!SegmentStartKind(g) = SegmentStartKind(g)
  BY <1>5, <1>1, <1>2, SameTables DEF Layout!SegmentStartKind, SegmentStartKind
<1>16. \A g : Layout!SegmentEndKind(g) = SegmentEndKind(g)
  BY <1>4, <1>9, <1>8, SameTables DEF Layout!SegmentEndKind, SegmentEndKind
<1>17. \A s : Layout!SegmentEvents(s) = SegmentEvents(s)
  BY <1>13, <1>15, <1>16, SameTables DEF Layout!SegmentEvents, SegmentEvents
<1>18. \A s, t : Layout!FileEvents(s, t) = FileEvents(s, t)
  BY <1>14, <1>17 DEF Layout!FileEvents, FileEvents
<1>19. \A s, t : Layout!MemoryEvents(s, t) = MemoryEvents(s, t)
  BY <1>13, <1>3, <1>6, <1>1, <1>9, SameTables
     DEF Layout!MemoryEvents, MemoryEvents
<1>20. \A e, f : Layout!NotAfter(e, f) <=> NotAfter(e, f)
  BY DEF Layout!NotAfter, NotAfter
<1>21. \A S : Layout!EventOrder(S) = EventOrder(S)
  BY <1>20 DEF Layout!EventOrder, EventOrder
<1>22. \A S : Layout!Sorted(S) = Sorted(S)
  BY <1>21, SameTables DEF Layout!Sorted, Sorted
<1>23. \A S, d : Layout!LastOffset(S, d) = LastOffset(S, d)
  BY SameTables DEF Layout!LastOffset, LastOffset
<1>24. \A s, t, f, m, a, w : Layout!NewLoad(s, t, f, m, a, w)
           = NewLoad(s, t, f, m, a, w)
  BY SameTables, <1>23, <1>18, <1>19 DEF Layout!NewLoad, NewLoad
<1>25. \A ev, n : Layout!OpenSections(ev, n) = OpenSections(ev, n)
  BY <1>3, <1>12 DEF Layout!OpenSections, OpenSections
<1>26. \A ev, n : Layout!OpenSegments(ev, n) = OpenSegments(ev, n)
  BY <1>10, <1>11 DEF Layout!OpenSegments, OpenSegments
<1>27. \A g, s : Layout!Compatible(g, s) <=> Compatible(g, s)
  BY SameTables DEF Layout!Compatible, Compatible
<1>28. \A ev, n, t, s : Layout!Enters(ev, n, t, s) <=> Enters(ev, n, t, s)
  BY <1>1, <1>26, <1>27 DEF Layout!Enters, Enters
<1>29. \A ev, n : Layout!Leaves(ev, n) <=> Leaves(ev, n)
  BY <1>9, <1>26 DEF Layout!Leaves, Leaves
<1>30. \A ev, n, t, s : Layout!CurrentLoad(ev, n, t, s)
           = CurrentLoad(ev, n, t, s)
  BY SameTables, <1>28, <1>29, <1>1 DEF Layout!CurrentLoad, CurrentLoad
<1>31. \A ev, n : Layout!Vacant(ev, n) <=> Vacant(ev, n)
  BY <1>1, <1>9, <1>3, <1>6, <1>26, <1>25, SameTables DEF Layout!Vacant, Vacant
<1>32. \A ev, n, k, a : Layout!Roomy(ev, n, k, a) <=> Roomy(ev, n, k, a)
  BY SameTables DEF Layout!Roomy, Roomy
<1>33. \A ev, t, s : Layout!Gaps(ev, t, s) = Gaps(ev, t, s)
  BY <1>31, <1>32, <1>30 DEF Layout!Gaps, Gaps
<1>34. \A e, g, k : Layout!Placed(e, g, k) = Placed(e, g, k)
  BY DEF Layout!Placed, Placed
<1> QED
  BY <1>18, <1>22, <1>24, <1>30, <1>33, <1>34

\* and the places the allocator finds.
LEMMA SameAllocations ==
  /\ \A s, t, r : Layout!AllocateSection(s, t, r) = AllocateSection(s, t, r)
  /\ \A s, t, r : Layout!AllocateSegment(s, t, r) = AllocateSegment(s, t, r)
<1>1. ASSUME NEW s, NEW t, NEW r
      PROVE  Layout!AllocateSection(s, t, r) = AllocateSection(s, t, r)
  <2> DEFINE E == FileEvents(s, t)
             ev == Sorted(E)
             gap == First(Gaps(ev, t, r))
             load == NewLoad(s, t, r.size, r.size, r.align, r.write)
             current == CurrentLoad(ev, gap, t, r)
             start == NextMultiple(ev[gap - 1].offset, r.align)
             padding == load.file_size - r.size
  <2>1. /\ Layout!FileEvents(s, t) = E /\ Layout!Sorted(E) = ev
        /\ Layout!First(Layout!Gaps(ev, t, r)) = gap
        /\ Layout!NewLoad(s, t, r.size, r.size, r.align, r.write) = load
    BY SameTables, SameEvents
  <2>2. /\ Layout!Addressable(load, padding) = Addressable(load, padding)
        /\ Layout!CurrentLoad(ev, gap, t, r) = current
        /\ Layout!NextMultiple(ev[gap - 1].offset, r.align) = start
        /\ \A g, k : Layout!Placed(r, g, k) = Placed(r, g, k)
    BY SameTables, SameEvents
  <2> HIDE DEF E, ev, gap, load, current, start
  <2>3. Layout!AllocateSection(s, t, r) =
          IF gap # 0
          THEN [ok |-> TRUE, segments |-> t,
                section |-> Placed(r, t[current], start)]
          ELSE [ok |-> E # {} /\ Addressable(load, padding),
                segments |-> Append(t, load),
                section |-> Placed(r, load, load.offset + padding)]
    BY <2>1, <2>2, Zenon DEF Layout!AllocateSection
  <2> QED
    BY <2>3, Zenon DEF AllocateSection, E, ev, gap, load, current, start
<1>2. ASSUME NEW s, NEW t, NEW r
      PROVE  Layout!AllocateSegment(s, t, r) = AllocateSegment(s, t, r)
  <2> DEFINE load == NewLoad(s, t, r.file_size, r.memory_size, r.align, r.write)
             padding == load.file_size - r.file_size
  <2>1. /\ Layout!NewLoad(s, t, r.file_size, r.memory_size, r.align, r.write)
             = load
        /\ Layout!Addressable(load, padding) = Addressable(load, padding)
    BY SameTables, SameEvents
  <2> HIDE DEF load
  <2>2. Layout!AllocateSegment(s, t, r) =
          [ok |-> Addressable(load, padding), segments |-> Append(t, load),
           segment |-> [r EXCEPT !.offset = load.offset + padding,
                                 !.address = load.address + padding]]
    BY <2>1, Zenon DEF Layout!AllocateSegment
  <2> QED
    BY <2>2, Zenon DEF AllocateSegment, load
<1> QED
  BY <1>1, <1>2

(***************************************************************************)
(* Every step is an operation of ElfLayout.                                *)
(***************************************************************************)

\* ElfLayout is asked for every section and every segment there may be.
EveryRequest ==
  /\ \A r \in Section : Requested(r) => r \in LayoutRequests
  /\ \A r \in Segment : r.kind \notin {"Null", "Loadable"}
                          => r \in LayoutSegmentRequests

\* Removal by positions that are not in the table removes no more.
LEMMA WithoutSame ==
  ASSUME NEW s, NEW I, NEW J, DOMAIN s \ I = DOMAIN s \ J
  PROVE  Without(s, I) = Without(s, J)
  BY DEF Without

\* SectionHeader::free, whoever calls it.
LEMMA FreeIsLayoutStep ==
  ASSUME NEW STATE i, i \in DOMAIN sections, Free(i), UNCHANGED segments
  PROVE  Layout!Next
<1>1. sections' = Layout!FreeSections(sections, {i})
  BY SameTables DEF Free
<1> QED
  BY <1>1 DEF Layout!Next, Layout!FreeSection

\* alloc_section, whoever calls it.
LEMMA PlaceIsLayoutStep ==
  ASSUME EveryRequest, TInv, NEW STATE request, Requestable(request),
         request.kind = "Dynamic" => request.size >= DynamicLen,
         NEW STATE content, "tags" \in DOMAIN content
                              => TableFits(content.tags, request.size),
         NEW STATE step, Place(request, content, step)
  PROVE  Layout!Next \/ UNCHANGED <<sections, segments>>
<1> DEFINE result == AllocateSection(sections, segments, request)
<1>1. CASE UNCHANGED <<sections, segments>>
  BY <1>1
<1>2. CASE ~ UNCHANGED <<sections, segments>>
  <2>1. /\ result.ok /\ Requested(request)
        /\ sections' = AddSection(sections, result.section)
        /\ segments' = result.segments
        /\ TablesOK'
    BY <1>2, PlaceIsGood DEF TInv
  <2>2. Len(sections') \in Nat /\ Len(segments') \in Nat
    BY <2>1 DEF TablesOK, GoodSections, GoodSegments
  <2>3. request \in LayoutRequests
    BY <2>1 DEF EveryRequest, Requested
  <2>4. Layout!AllocateSection(sections, segments, request) = result
    BY SameAllocations
  <2>5. sections' = Layout!AddSection(sections, result.section)
    BY <2>1, SameTables
  <2> HIDE DEF result
  <2>6. Layout!Fits(sections, segments)
    BY TableFacts, SameTables
  <2>7. Layout!AllocSection(request)
    BY <2>1, <2>2, <2>4, <2>5, <2>6 DEF Layout!AllocSection
  <2> QED
    BY <2>3, <2>7 DEF Layout!Next
<1> QED
  BY <1>1, <1>2

\* Every step of the patcher is an operation of ElfLayout on its tables.
LEMMA NextIsLayoutStep ==
  ASSUME EveryRequest, TInv, TInv', [Next]_vars
  PROVE  Layout!Next \/ UNCHANGED <<sections, segments>>
<1> DEFINE Done == Layout!Next \/ UNCHANGED <<sections, segments>>
<1>1. CASE Call \/ UNCHANGED vars
  BY <1>1 DEF Call, Open, RemoveInterpreter, SetInterpreter, SetDynamicTag,
              RemoveDynamicTag, Finish, Begin, vars, elf
<1>2. CASE FindName \/ PlaceNames
  <2>1. CASE FindName
    BY <2>1, FreeIsLayoutStep DEF FindName
  <2>2. CASE PlaceNames
    <3> DEFINE request == Request(".shstrtab", "StringTable", FALSE, names.len,
                                  1, StringTableAlign)
               content == [strings |-> names.strings]
    <3>1. Requestable(request) /\ request.kind = "StringTable"
      <4>1. ".shstrtab" \in Names /\ StringTableAlign \in Word
        BY PatchNamesAssumption, AlignsAssumption DEF PatchNames
      <4> QED
        BY <4>1 DEF Requestable, Request, SectionKinds, TInv, PlaceOK
    <3>2. "tags" \notin DOMAIN content
      OBVIOUS
    <3>3. Place(request, content, call.then)
      BY <2>2 DEF PlaceNames
    <3> HIDE DEF request, content
    <3> QED
      BY <3>1, <3>2, <3>3, PlaceIsLayoutStep
  <2> QED
    BY <1>2, <2>1, <2>2
<1>3. CASE FreeInterp
  <2> DEFINE interp == {i \in DOMAIN sections :
                          /\ sections[i].name = ".interp"
                          /\ ".interp" \in CachedNames.strings}
  <2>1. CASE interp # {}
    <3>1. First(interp) \in DOMAIN sections
      BY <2>1, TableFacts, FirstPosition
    <3>2. Free(First(interp)) /\ UNCHANGED segments
      BY <1>3, <2>1 DEF FreeInterp
    <3> QED
      BY <3>1, <3>2, FreeIsLayoutStep
  <2>2. CASE interp = {}
    BY <1>3, <2>2 DEF FreeInterp
  <2> QED
    BY <2>1, <2>2
<1>4. CASE DropInterp
  BY <1>4, SameTables DEF DropInterp, Layout!Next, Layout!RemoveInterpreters
<1>5. CASE PlaceInterp
  <2> DEFINE request == Request(".interp", "ProgramBits", FALSE,
                                StringLen[call.value], 1, InterpAlign)
             content == [interp |-> call.value]
  <2>1. Place(request, content, "overlay_interp") /\ pc = "place_interp"
    BY <1>5 DEF PlaceInterp
  <2>2. Requestable(request) /\ request.kind = "ProgramBits"
    <3>1. call.value \in Interps
      BY <2>1 DEF TInv, CallOK
    <3>2. StringLen[call.value] \in Nat
      BY <3>1, StringLenAssumption
    <3>3. ".interp" \in Names /\ InterpAlign \in Word
      BY PatchNamesAssumption, AlignsAssumption DEF PatchNames
    <3> QED
      BY <3>2, <3>3 DEF Requestable, Request, SectionKinds
  <2>3. "tags" \notin DOMAIN content
    OBVIOUS
  <2> HIDE DEF request, content
  <2> QED
    BY <2>1, <2>2, <2>3, PlaceIsLayoutStep
<1>6. CASE OverlayInterp \/ OverlayDynamic
  <2> DEFINE kind == IF pc = "overlay_interp" THEN "Interpreter"
                     ELSE "Dynamic"
  <2>1. /\ call.slot \in DOMAIN sections /\ sections[call.slot].alloc
        /\ kind = IF sections[call.slot].kind = "Dynamic" THEN "Dynamic"
                  ELSE "Interpreter"
    BY <1>6 DEF OverlayInterp, OverlayDynamic, TInv, SlotOK
  <2>2. /\ segments' = Append(segments, OverlaySegment(sections[call.slot],
                                                       kind))
        /\ UNCHANGED sections
    BY <1>6 DEF OverlayInterp, OverlayDynamic
  <2>3. Len(segments') \in Nat
    BY DEF TInv, TablesOK, GoodSegments
  <2>4. Layout!Overlay(call.slot, kind)
    BY <2>1, <2>2, <2>3, SameTables DEF Layout!Overlay
  <2> QED
    BY <2>1, <2>4 DEF Layout!Next
<1>7. CASE ShrinkDynamic
  <2> DEFINE i == First(Positions(sections, "Dynamic"))
             j == First(Positions(segments, "Dynamic"))
             size == TableLen(WithoutTags(DynamicTags, {call.tag}))
  <2>1. CASE i = 0
    BY <1>7, <2>1 DEF ShrinkDynamic
  <2>2. CASE i # 0
    <3>1. Positions(sections, "Dynamic") # {}
      BY <2>2 DEF First
    <3>2. /\ i \in DOMAIN sections /\ sections[i].kind = "Dynamic"
          /\ size \in 1 .. sections[i].size /\ sections[i].size \in Nat
      BY <3>1, ShrunkTable, TableFacts
    <3>3. /\ sections' = [sections EXCEPT ![i].size = size]
          /\ segments' = IF j = 0 THEN segments
                         ELSE [segments EXCEPT ![j].file_size = size,
                                               ![j].memory_size = size]
      BY <1>7, <2>2 DEF ShrinkDynamic
    <3>4. /\ i = Layout!First(Layout!Positions(sections, "Dynamic"))
          /\ j = Layout!First(Layout!Positions(segments, "Dynamic"))
          /\ i \in Layout!Positions(sections, "Dynamic")
      BY <3>2, SameTables DEF Positions
    <3> HIDE DEF i, j, size
    <3>5. Layout!ShrinkDynamic(i, size)
      BY <3>2, <3>3, <3>4 DEF Layout!ShrinkDynamic
    <3> QED
      BY <3>2, <3>4, <3>5 DEF Layout!Next
  <2> QED
    BY <2>1, <2>2
<1>8. CASE FreeDynamic
  <2> DEFINE i == First(Positions(sections, "Dynamic"))
  <2>1. CASE i = 0
    BY <1>8, <2>1 DEF FreeDynamic
  <2>2. CASE i # 0
    <3>1. Positions(sections, "Dynamic") # {}
      BY <2>2 DEF First
    <3>2. i \in DOMAIN sections
      BY <3>1, ShrunkTable
    <3> QED
      BY <1>8, <2>2, <3>2, FreeIsLayoutStep DEF FreeDynamic
  <2> QED
    BY <2>1, <2>2
<1>9. CASE FreeDynamicSegment
  <2> DEFINE j == First(Positions(segments, "Dynamic"))
  <2>1. CASE j = 0
    BY <1>9, <2>1 DEF FreeDynamicSegment
  <2>2. CASE j # 0
    <3>1. Positions(segments, "Dynamic") # {}
      BY <2>2 DEF First
    <3>2. Positions(segments, "Dynamic") \in SUBSET DOMAIN segments
      BY DEF Positions
    <3>3. j \in DOMAIN segments /\ segments[j].kind = "Dynamic"
      BY <3>1, <3>2, TableFacts, FirstPosition DEF Positions
    <3>4. segments' = Without(segments, {j}) /\ UNCHANGED sections
      BY <1>9, <2>2 DEF FreeDynamicSegment
    <3> HIDE DEF j
    <3>5. CompanionLoad(segments, j) = 0 /\ 0 \notin DOMAIN segments
      BY <3>3, TableFacts DEF CompanionLoad
    <3>6. Without(segments, {j}) = Without(segments, {j, 0})
      BY <3>5, WithoutSame
    <3>7. Layout!FreeSegment(j)
      BY <3>3, <3>4, <3>5, <3>6, SameTables DEF Layout!FreeSegment
    <3> QED
      BY <3>3, <3>7 DEF Layout!Next
  <2> QED
    BY <2>1, <2>2
<1>10. CASE FindDynstr
  <2> DEFINE i == First(DynstrSections)
  <2>1. \/ UNCHANGED <<sections, segments>>
        \/ i # 0 /\ Free(i) /\ UNCHANGED segments
    BY <1>10 DEF FindDynstr
  <2>2. DynstrSections \in SUBSET DOMAIN sections
    BY DEF DynstrSections, Positions
  <2>3. i # 0 => i \in DOMAIN sections
    BY <2>2, TableFacts, FirstPosition
  <2> QED
    BY <2>1, <2>3, FreeIsLayoutStep
<1>11. CASE PlaceDynstr
  <2> DEFINE request == Request(".dynstr", "StringTable", FALSE, call.len, 1,
                                StringTableAlign)
             content == [strings |-> call.strings]
  <2>1. Requestable(request) /\ request.kind = "StringTable"
    <3>1. ".dynstr" \in Names /\ StringTableAlign \in Word
      BY PatchNamesAssumption, AlignsAssumption DEF PatchNames
    <3> QED
      BY <3>1 DEF Requestable, Request, SectionKinds, TInv, CallOK
  <2>2. "tags" \notin DOMAIN content
    OBVIOUS
  <2>3. Place(request, content, "write_dynstr")
    BY <1>11 DEF PlaceDynstr
  <2> HIDE DEF request, content
  <2> QED
    BY <2>1, <2>2, <2>3, PlaceIsLayoutStep
<1>12. CASE WriteDynstr \/ MoveSymbols \/ WriteElf
  BY <1>12 DEF WriteDynstr, MoveSymbols, WriteElf, elf
<1>13. CASE PlaceDynamic
  <2> DEFINE request == Request(".dynamic", "Dynamic", TRUE,
                                TableLen(call.tags), call.slot, DynamicAlign)
             content == [tags |-> call.tags]
  <2>1. Cardinality(DOMAIN call.tags) \in Nat /\ IsFiniteSet(DOMAIN call.tags)
    BY FS_CardinalityType DEF TInv, CallOK
  <2>2. TableLen(call.tags) \in Nat /\ TableLen(call.tags) >= DynamicLen
    BY <2>1 DEF TableLen, DynamicLen
  <2>3. Requestable(request)
    <3>1. ".dynamic" \in Names /\ DynamicAlign \in Word
      BY PatchNamesAssumption, AlignsAssumption DEF PatchNames
    <3>2. call.slot \in Nat
      BY DEF TInv, CallOK
    <3> QED
      BY <2>2, <3>1, <3>2 DEF Requestable, Request, SectionKinds
  <2>4. /\ request.size >= DynamicLen
        /\ TableFits(content.tags, request.size)
    BY <2>1, <2>2 DEF Request, TableFits
  <2>5. Place(request, content, "overlay_dynamic")
    BY <1>13 DEF PlaceDynamic
  <2> HIDE DEF request, content
  <2> QED
    BY <2>3, <2>4, <2>5, PlaceIsLayoutStep
<1>14. CASE FreePhdr
  <2> DEFINE j == First(Positions(segments, "ProgramHeader"))
             freed == {j, CompanionLoad(segments, j)} \cap DOMAIN segments
  <2>1. CASE j = 0
    BY <1>14, <2>1 DEF FreePhdr
  <2>2. CASE j # 0
    <3>1. Positions(segments, "ProgramHeader") # {}
      BY <2>2 DEF First
    <3>2. Positions(segments, "ProgramHeader") \in SUBSET DOMAIN segments
      BY DEF Positions
    <3>3. j \in DOMAIN segments /\ segments[j].kind = "ProgramHeader"
      BY <3>1, <3>2, TableFacts, FirstPosition DEF Positions
    <3>4. segments' = Without(segments, freed) /\ UNCHANGED sections
      BY <1>14, <2>2 DEF FreePhdr
    <3> HIDE DEF j
    <3>5. Without(segments, freed)
            = Without(segments, {j, CompanionLoad(segments, j)})
      BY WithoutSame
    <3>6. Layout!FreeSegment(j)
      BY <3>3, <3>4, <3>5, SameTables DEF Layout!FreeSegment
    <3> QED
      BY <3>3, <3>6 DEF Layout!Next
  <2> QED
    BY <2>1, <2>2
<1>15. CASE PlacePhdr
  <2> DEFINE request == PhdrRequest(PhdrLen(Len(segments)))
             result == AllocateSegment(sections, segments, request)
             grown == AddSegment(result.segments, result.segment)
  <2>1. CASE ~(result.ok /\ Fits(sections, grown))
    BY <1>15, <2>1 DEF PlacePhdr
  <2>2. CASE result.ok /\ Fits(sections, grown)
    <3>1. /\ segments' = AddSegment(result.segments, result.segment)
          /\ UNCHANGED sections
      BY <1>15, <2>2 DEF PlacePhdr
    <3>2. request \in LayoutSegmentRequests
      BY <2>2, TableFacts, PhdrRequestIsSegment DEF EveryRequest
    <3>3. Len(segments') \in Nat
      BY DEF TInv, TablesOK, GoodSegments
    <3>4. Layout!AllocateSegment(sections, segments, request) = result
      BY SameAllocations
    <3>5. segments' = Layout!AddSegment(result.segments, result.segment)
      BY <3>1, SameTables
    <3> HIDE DEF result, request
    <3>6. Layout!Fits(sections, segments)
      BY TableFacts, SameTables
    <3>7. Layout!AllocSegment(request)
      BY <2>2, <3>1, <3>3, <3>4, <3>5, <3>6 DEF Layout!AllocSegment
    <3> QED
      BY <3>2, <3>7 DEF Layout!Next
  <2> QED
    BY <2>1, <2>2
<1>16. CASE PlaceTables
  <2>1. sections' = FinishSections(sections) /\ UNCHANGED segments
    BY <1>16 DEF PlaceTables
  <2>2. CASE sections = << >>
    BY <2>1, <2>2, SameTables DEF Layout!Next, Layout!StartSections
  <2>3. CASE sections # << >>
    BY <2>1, <2>3 DEF FinishSections
  <2> QED
    BY <2>2, <2>3
<1>17. CASE Arrange
  BY <1>17, SameTables DEF Arrange, Layout!Next, Layout!Arrange
<1> QED
  BY <1>1, <1>2, <1>3, <1>4, <1>5, <1>6, <1>7, <1>8, <1>9, <1>10, <1>11,
     <1>12, <1>13, <1>14, <1>15, <1>16, <1>17 DEF Next, Step

\* Seen through its tables the patcher does to a file what ElfLayout allows:
\* every step of every call and of finish is one of its operations or leaves
\* the tables alone.
THEOREM PatcherRefinesLayout == EveryRequest => (Spec => RefinesLayout)
<1> SUFFICES ASSUME EveryRequest PROVE Spec => RefinesLayout
  OBVIOUS
<1>1. Init => Layout!Init
  <2> SUFFICES ASSUME Init PROVE Layout!Init
    OBVIOUS
  <2>1. PICK f \in Files : sections = f.sections /\ segments = f.segments
    BY DEF Init
  <2> DEFINE layout == [sections |-> f.sections, segments |-> f.segments]
  <2>2. layout.sections = sections /\ layout.segments = segments
    BY <2>1
  <2> QED
    BY <2>2 DEF Layout!Init
<1>2. TInv /\ TInv' /\ [Next]_vars => [Layout!Next]_(Layout!vars)
  BY NextIsLayoutStep DEF Layout!vars
<1> QED
  BY <1>1, <1>2, PatcherTypes, PTL DEF Spec, RefinesLayout, Layout!Spec

(***************************************************************************)
(* The blocks of a file.                                                   *)
(***************************************************************************)

\* No block of the range o2 .. is in the way of a write at o1.
Disjoint(o1, l1, o2, l2) == l1 = 0 \/ o1 + l1 <= o2 \/ o2 + l2 <= o1

\* The range of the file is still there and reads the same.
Alike(bytes, after, offset, len) ==
  LET old == Read(bytes, offset, len)
      new == Read(after, offset, len)
  IN  /\ Stored(bytes, offset, len) # {} => Stored(after, offset, len) # {}
      /\ StringsIn(new) = StringsIn(old)
      /\ TagsIn(new) = TagsIn(old)
      /\ InterpIn(new) = InterpIn(old)

\* The same blocks read the same.
LEMMA StoredAlike ==
  ASSUME NEW bytes, NEW after, NEW offset, NEW len,
         Stored(after, offset, len) = Stored(bytes, offset, len)
  PROVE  /\ Read(after, offset, len) = Read(bytes, offset, len)
         /\ Alike(bytes, after, offset, len)
<1>1. Read(after, offset, len) = Read(bytes, offset, len)
  BY DEF Read
<1> QED
  BY <1>1 DEF Alike

\* zero leaves the blocks elsewhere.
LEMMA StoredZero ==
  ASSUME NEW bytes, NEW o \in Nat, NEW l \in Nat,
         NEW offset \in Nat, NEW len \in Nat, Disjoint(o, l, offset, len)
  PROVE  Stored(Zero(bytes, o, l), offset, len) = Stored(bytes, offset, len)
<1>1. \A b : b.offset = offset /\ b.len = len => ~Overlaps(b, o, l)
  BY DEF Disjoint, Overlaps
<1> QED
  BY <1>1 DEF Stored, Zero

\* So does a clearing of several ranges.
LEMMA StoredCleared ==
  ASSUME NEW bytes, NEW offset \in Nat, NEW len \in Nat, NEW J, NEW segs,
         \A j \in J : /\ segs[j].offset \in Nat /\ segs[j].file_size \in Nat
                      /\ Disjoint(segs[j].offset, segs[j].file_size, offset,
                                  len)
  PROVE  LET after == {b \in bytes : \A j \in J :
                         ~Overlaps(b, segs[j].offset, segs[j].file_size)}
         IN  Stored(after, offset, len) = Stored(bytes, offset, len)
<1>1. \A b, j : j \in J /\ b.offset = offset /\ b.len = len
                  => ~Overlaps(b, segs[j].offset, segs[j].file_size)
  BY DEF Disjoint, Overlaps
<1> QED
  BY <1>1 DEF Stored

\* So does a write.
LEMMA StoredWrite ==
  ASSUME NEW bytes, NEW o \in Nat, NEW l \in Nat, NEW content,
         NEW offset \in Nat, NEW len \in Nat \ {0}, Disjoint(o, l, offset, len)
  PROVE  Stored(Write(bytes, o, l, content), offset, len)
           = Stored(bytes, offset, len)
<1>1. Stored(Zero(bytes, o, l), offset, len) = Stored(bytes, offset, len)
  BY StoredZero
<1>2. ~(o = offset /\ l = len)
  BY DEF Disjoint
<1>3. Block(o, l, content).offset = o /\ Block(o, l, content).len = l
  BY DEF Block
<1> QED
  BY <1>1, <1>2, <1>3 DEF Stored, Write

\* What was written can be read.
LEMMA ReadWritten ==
  ASSUME NEW bytes, NEW o \in Nat, NEW l \in Nat \ {0}, NEW content
  PROVE  /\ Stored(Write(bytes, o, l, content), o, l) # {}
         /\ Read(Write(bytes, o, l, content), o, l) = content
<1> DEFINE new == Block(o, l, content)
           stored == Stored(Write(bytes, o, l, content), o, l)
<1>1. new.offset = o /\ new.len = l /\ new.content = content
  BY DEF Block
<1>2. \A b \in Zero(bytes, o, l) : ~(b.offset = o /\ b.len = l)
  BY DEF Zero, Overlaps
<1>3. stored = {new}
  BY <1>1, <1>2 DEF Stored, Write
<1> QED
  BY <1>1, <1>3 DEF Read

\* Fewer blocks are still no garbage and each once.
LEMMA FewerBytesOK ==
  ASSUME NEW bytes, BytesOK(bytes), NEW rest \in SUBSET bytes
  PROVE  BytesOK(rest)
  BY DEF BytesOK

\* A write of something else than garbage takes the place of what it overlaps.
LEMMA WriteBytesOK ==
  ASSUME NEW bytes, BytesOK(bytes), NEW o \in Nat, NEW l \in Nat, NEW content,
         content # Garbage
  PROVE  BytesOK(Write(bytes, o, l, content))
<1> DEFINE new == Block(o, l, content)
           rest == Zero(bytes, o, l)
<1>1. new.offset = o /\ new.len = l /\ new.content = content
  BY DEF Block
<1>2. BytesOK(rest)
  BY FewerBytesOK DEF Zero
<1>3. l # 0 => \A b \in rest : ~(b.offset = o /\ b.len = l)
  BY DEF Zero, Overlaps
<1>4. Write(bytes, o, l, content) = rest \cup {new}
  BY DEF Write
<1> HIDE DEF new, rest
<1> QED
  BY <1>1, <1>2, <1>3, <1>4 DEF BytesOK

\* A record of another field is not what a read of lost bytes returns.
LEMMA NotGarbage ==
  ASSUME NEW content, "garbage" \notin DOMAIN content
  PROVE  content # Garbage
  BY DEF Garbage

(***************************************************************************)
(* The segments of a kind, before and after a change of the table.         *)
(***************************************************************************)

\* The segments of a kind in the old table are in the new one.
Has(new, old, kind) ==
  \A i \in Positions(old, kind) : \E j \in Positions(new, kind) :
    new[j] = old[i]

\* The two tables have the same segments of a kind.
SameKind(new, old, kind) ==
  /\ Has(new, old, kind)
  /\ Has(old, new, kind)
  /\ Single(Positions(old, kind)) => Single(Positions(new, kind))

\* No segment starts where none did, except behind the header.
NoneBefore(new, old) ==
  \A j \in DOMAIN new :
    new[j].kind # "Null" =>
      \/ new[j].offset \in Nat /\ new[j].offset >= HeaderLen
      \/ \E i \in DOMAIN old : /\ old[i].kind # "Null"
                               /\ new[j].offset = old[i].offset

\* An arrangement has the segments of the kinds that it leaves out none of.
LEMMA ArrangementSame ==
  ASSUME NEW new, NEW old, NEW K \in SUBSET DOMAIN old,
         IsArrangement(new, old, K), NEW kind
  PROVE  /\ Positions(old, kind) \subseteq K => SameKind(new, old, kind)
         /\ Has(old, new, kind)
         /\ NoneBefore(new, old)
         /\ Positions(old, kind) \cap K = {} => Positions(new, kind) = {}
         /\ Single(Positions(old, kind)) => Single(Positions(new, kind))
<1>1. PICK f \in [DOMAIN new -> K] :
        /\ \A m, n \in DOMAIN new : f[m] = f[n] => m = n
        /\ \A k \in K : \E n \in DOMAIN new : f[n] = k
        /\ \A n \in DOMAIN new : new[n] = old[f[n]]
  BY DEF IsArrangement
<1>2. \A n \in DOMAIN new : f[n] \in DOMAIN old /\ f[n] \in K
  BY <1>1
<1>3. \A n \in Positions(new, kind) : f[n] \in Positions(old, kind)
  BY <1>1, <1>2 DEF Positions
<1>4. Has(old, new, kind)
  BY <1>1, <1>3 DEF Has, Positions
<1>5. Single(Positions(old, kind)) => Single(Positions(new, kind))
  BY <1>1, <1>3 DEF Single, Positions
<1>6. ASSUME Positions(old, kind) \subseteq K
      PROVE  Has(new, old, kind)
  <2>1. ASSUME NEW i \in Positions(old, kind)
        PROVE  \E n \in Positions(new, kind) : new[n] = old[i]
    <3>1. PICK n \in DOMAIN new : f[n] = i
      BY <1>1, <1>6
    <3>2. new[n] = old[i] /\ old[i].kind = kind
      BY <1>1, <3>1 DEF Positions
    <3> QED
      BY <3>2 DEF Positions
  <2> QED
    BY <2>1 DEF Has
<1>7. NoneBefore(new, old)
  BY <1>1, <1>2 DEF NoneBefore
<1>8. Positions(old, kind) \cap K = {} => Positions(new, kind) = {}
  BY <1>2, <1>3 DEF Positions
<1> QED
  BY <1>4, <1>5, <1>6, <1>7, <1>8 DEF SameKind

\* A removal leaves the segments of the kinds that none is removed of.
LEMMA WithoutSameKind ==
  ASSUME NEW old \in Seq(Segment), NEW I, NEW kind
  PROVE  LET new == Without(old, I)
         IN  /\ Positions(old, kind) \cap I = {} => SameKind(new, old, kind)
             /\ Positions(old, kind) \subseteq I => Positions(new, kind) = {}
             /\ Single(Positions(old, kind)) => Single(Positions(new, kind))
             /\ Has(old, new, kind)
             /\ NoneBefore(new, old)
<1> DEFINE new == Without(old, I)
           K == DOMAIN old \ I
<1>1. IsArrangement(new, old, K)
  BY WithoutProperties
<1>2. Positions(old, kind) \cap I = {} => Positions(old, kind) \subseteq K
  BY DEF Positions
<1>3. Positions(old, kind) \subseteq I => Positions(old, kind) \cap K = {}
  OBVIOUS
<1> HIDE DEF new
<1>4. K \in SUBSET DOMAIN old
  OBVIOUS
<1> HIDE DEF K
<1>5. /\ Positions(old, kind) \subseteq K => SameKind(new, old, kind)
      /\ Has(old, new, kind)
      /\ NoneBefore(new, old)
      /\ Positions(old, kind) \cap K = {} => Positions(new, kind) = {}
      /\ Single(Positions(old, kind)) => Single(Positions(new, kind))
  BY <1>1, <1>4, ArrangementSame
<1> QED
  BY <1>2, <1>3, <1>5 DEF new

\* push leaves the segments of the other kinds.
LEMMA AppendSameKind ==
  ASSUME NEW old \in Seq(Segment), NEW g \in Segment, NEW kind
  PROVE  LET new == Append(old, g)
         IN  /\ Has(new, old, kind)
             /\ g.kind # kind => SameKind(new, old, kind)
             /\ g.kind = kind /\ Positions(old, kind) = {}
                  => Positions(new, kind) = {Len(new)} /\ new[Len(new)] = g
             /\ g.offset \in Nat /\ g.offset >= HeaderLen
                  => NoneBefore(new, old)
<1> DEFINE new == Append(old, g)
<1>1. /\ Len(old) \in Nat /\ DOMAIN old = 1 .. Len(old)
      /\ Len(new) = Len(old) + 1 /\ DOMAIN new = 1 .. (Len(old) + 1)
      /\ \A i \in 1 .. Len(old) : new[i] = old[i]
      /\ new[Len(old) + 1] = g
  OBVIOUS
<1> HIDE DEF new
<1>2. \A i \in DOMAIN old : i \in DOMAIN new /\ new[i] = old[i]
  BY <1>1
<1>3. \A i \in DOMAIN new : i \in DOMAIN old \/ (i = Len(new) /\ new[i] = g)
  BY <1>1
<1>4. Has(new, old, kind)
  BY <1>2 DEF Has, Positions
<1>5. ASSUME g.kind # kind
      PROVE  SameKind(new, old, kind)
  <2>1. Positions(new, kind) = Positions(old, kind)
    BY <1>2, <1>3, <1>5 DEF Positions
  <2>2. Has(old, new, kind)
    BY <1>2, <2>1 DEF Has, Positions
  <2> QED
    BY <1>4, <2>1, <2>2 DEF SameKind
<1>6. ASSUME g.kind = kind, Positions(old, kind) = {}
      PROVE  Positions(new, kind) = {Len(new)} /\ new[Len(new)] = g
  <2>1. Len(new) \in DOMAIN new /\ new[Len(new)] = g
    BY <1>1
  <2> QED
    BY <1>2, <1>3, <1>6, <2>1 DEF Positions
<1>7. g.offset \in Nat /\ g.offset >= HeaderLen => NoneBefore(new, old)
  BY <1>2, <1>3 DEF NoneBefore
<1> QED
  BY <1>4, <1>5, <1>6, <1>7 DEF new

\* ProgramHeader::add adds the segment, perhaps in the place of a null segment.
LEMMA AddSegmentSameKind ==
  ASSUME NEW old \in Seq(Segment), NEW g \in Segment, g.kind # "Null"
  PROVE  LET new == AddSegment(old, g)
         IN  /\ \A kind \in SegmentKinds \ {"Null"} :
                  /\ Has(new, old, kind)
                  /\ g.kind # kind => SameKind(new, old, kind)
             /\ \E j \in Positions(new, g.kind) : new[j] = g
             /\ g.offset \in Nat /\ g.offset >= HeaderLen
                  => NoneBefore(new, old)
             /\ Len(new) \in Nat /\ Len(new) <= Len(old) + 1 /\ Len(new) # 0
<1> DEFINE new == AddSegment(old, g)
           null == Positions(old, "Null")
<1>1. Len(old) \in Nat /\ DOMAIN old = 1 .. Len(old)
  OBVIOUS
<1>2. CASE null = {}
  <2>1. new = Append(old, g)
    BY <1>2 DEF AddSegment
  <2>2. /\ Len(new) = Len(old) + 1 /\ DOMAIN new = 1 .. (Len(old) + 1)
        /\ new[Len(old) + 1] = g
    BY <2>1
  <2>3. \E j \in Positions(new, g.kind) : new[j] = g
    BY <1>1, <2>2 DEF Positions
  <2> HIDE DEF new
  <2>4. ASSUME NEW kind
        PROVE  /\ Has(new, old, kind)
               /\ g.kind # kind => SameKind(new, old, kind)
    BY <2>1, AppendSameKind
  <2>5. g.offset \in Nat /\ g.offset >= HeaderLen => NoneBefore(new, old)
    BY <2>1, AppendSameKind
  <2>6. Len(new) \in Nat /\ Len(new) <= Len(old) + 1 /\ Len(new) # 0
    BY <1>1, <2>2
  <2> QED
    BY <2>3, <2>4, <2>5, <2>6 DEF new
<1>3. CASE null # {}
  <2> DEFINE k == First(null)
  <2>1. k \in null
    <3>1. null \in SUBSET DOMAIN old
      BY DEF Positions
    <3> QED
      BY <1>3, <3>1, FirstPosition
  <2>2. k \in DOMAIN old /\ old[k].kind = "Null"
    BY <2>1 DEF Positions
  <2>3. new = [old EXCEPT ![k] = g]
    BY <1>3 DEF AddSegment
  <2> HIDE DEF k, new
  <2>4. /\ DOMAIN new = DOMAIN old /\ new[k] = g
        /\ \A i \in DOMAIN old : i # k => new[i] = old[i]
        /\ Len(new) = Len(old)
    BY <2>2, <2>3
  <2>5. ASSUME NEW kind, kind # "Null"
        PROVE  /\ Has(new, old, kind)
               /\ g.kind # kind => SameKind(new, old, kind)
    <3>1. Has(new, old, kind)
      BY <2>2, <2>4, <2>5 DEF Has, Positions
    <3>2. ASSUME g.kind # kind
          PROVE  SameKind(new, old, kind)
      <4>1. Positions(new, kind) = Positions(old, kind)
        BY <2>2, <2>4, <2>5, <3>2 DEF Positions
      <4>2. Has(old, new, kind)
        BY <2>2, <2>4, <2>5, <3>2 DEF Has, Positions
      <4> QED
        BY <3>1, <4>1, <4>2 DEF SameKind
    <3> QED
      BY <3>1, <3>2
  <2>6. \E j \in Positions(new, g.kind) : new[j] = g
    BY <2>2, <2>4 DEF Positions
  <2>7. g.offset \in Nat /\ g.offset >= HeaderLen => NoneBefore(new, old)
    BY <2>2, <2>4 DEF NoneBefore
  <2>8. Len(new) \in Nat /\ Len(new) <= Len(old) + 1 /\ Len(new) # 0
    BY <1>1, <2>2, <2>4
  <2> QED
    BY <2>5, <2>6, <2>7, <2>8 DEF new
<1> QED
  BY <1>2, <1>3

\* ProgramHeader::finish leaves all segments.
LEMMA FinishSameKind ==
  ASSUME NEW old \in Seq(Segment), NEW kind
  PROVE  SameKind(FinishSegments(old), old, kind)
<1>1. IsArrangement(FinishSegments(old), old, DOMAIN old)
  BY FinishSegmentsProperties
<1>2. Positions(old, kind) \subseteq DOMAIN old
  BY DEF Positions
<1> QED
  BY <1>1, <1>2, ArrangementSame

(***************************************************************************)
(* The bytes of the file header.                                           *)
(***************************************************************************)

SectionsBehind(secs) ==
  \A i \in DOMAIN secs : InFile(secs[i]) => secs[i].offset >= HeaderLen

\* The guard of the header stays when LOAD segments and PHDR do.
LEMMA GuardedKept ==
  ASSUME NEW old, HeaderGuarded(old), NEW new, NoneBefore(new, old),
         Has(new, old, "Loadable"), Has(new, old, "ProgramHeader")
  PROVE  HeaderGuarded(new)
<1>1. SegmentsBehind(old) => SegmentsBehind(new)
  BY DEF SegmentsBehind, NoneBefore
<1>2. HeaderLoaded(old) => HeaderLoaded(new)
  BY DEF HeaderLoaded, Has, SegmentFileEnd
<1> QED
  BY <1>1, <1>2 DEF HeaderGuarded, Has

\* PHDR stays covered when the LOAD segments stay and sections stay away.
LEMMA CoveredKept ==
  ASSUME NEW secs, NEW old, PhdrCovered(secs, old), NEW new, NEW after,
         Has(new, old, "Loadable"), Has(old, new, "ProgramHeader"),
         \A j \in Positions(old, "ProgramHeader") :
           Missed(after, old[j].offset, old[j].file_size)
  PROVE  PhdrCovered(after, new)
<1> SUFFICES ASSUME NEW j \in Positions(new, "ProgramHeader")
             PROVE  /\ new[j].file_size # 0
                    /\ new[j].offset >= HeaderLen
                    /\ Missed(after, new[j].offset, new[j].file_size)
                    /\ \E k \in Positions(new, "Loadable") :
                         /\ new[k].offset <= new[j].offset
                         /\ SegmentFileEnd(new[j]) <= SegmentFileEnd(new[k])
  BY DEF PhdrCovered
<1>1. PICK i \in Positions(old, "ProgramHeader") : new[j] = old[i]
  BY DEF Has
<1>2. PICK k \in Positions(old, "Loadable") :
        /\ old[k].offset <= old[i].offset
        /\ SegmentFileEnd(old[i]) <= SegmentFileEnd(old[k])
  BY DEF PhdrCovered
<1>3. PICK m \in Positions(new, "Loadable") : new[m] = old[k]
  BY DEF Has
<1> QED
  BY <1>1, <1>2, <1>3 DEF PhdrCovered

\* What is behind everything is behind the header.
LEMMA PastHeader ==
  ASSUME NEW secs \in Seq(Section), SectionsBehind(secs),
         NEW segs \in Seq(Segment), HeaderReserved(segs),
         NEW offset \in Nat, PastAll(offset, secs, segs)
  PROVE  offset >= HeaderLen
<1>0. HeaderLen \in Nat
  BY LengthsAssumption
<1>1. CASE HeaderLoaded(segs)
  <2>1. PICK j \in Positions(segs, "Loadable") :
          SegmentFileEnd(segs[j]) >= HeaderLen
    BY <1>1 DEF HeaderLoaded
  <2>2. j \in DOMAIN segs /\ segs[j].kind # "Null"
    BY DEF Positions
  <2>3. SegmentFileEnd(segs[j]) <= offset
    BY <2>2 DEF PastAll
  <2>4. SegmentFileEnd(segs[j]) \in Nat
    BY <2>2, EndsAreNatural
  <2> QED
    BY <1>0, <2>1, <2>3, <2>4
<1>2. CASE SegmentsBehind(segs)
  <2>1. CASE FileEvents(secs, segs) = {}
    BY <2>1 DEF PastAll
  <2>2. CASE \E j \in DOMAIN segs : segs[j].kind # "Null"
    <3>1. PICK j \in DOMAIN segs : segs[j].kind # "Null"
      BY <2>2
    <3>2. segs[j].offset >= HeaderLen /\ SegmentFileEnd(segs[j]) <= offset
      BY <1>2, <3>1 DEF SegmentsBehind, PastAll
    <3>3. segs[j].offset \in Nat /\ segs[j].file_size \in Nat
      BY EndsAreNatural
    <3> QED
      BY <1>0, <3>2, <3>3 DEF SegmentFileEnd
  <2>3. CASE \E i \in DOMAIN secs : InFile(secs[i])
    <3>1. PICK i \in DOMAIN secs : InFile(secs[i])
      BY <2>3
    <3>2. secs[i].offset >= HeaderLen /\ SectionFileEnd(secs[i]) <= offset
      BY <3>1 DEF SectionsBehind, PastAll
    <3>3. secs[i].offset \in Nat /\ SectionFileEnd(secs[i]) \in Nat
      BY EndsAreNatural
    <3>4. secs[i].offset < SectionFileEnd(secs[i])
      BY <3>1 DEF InFile
    <3> QED
      BY <1>0, <3>2, <3>3, <3>4
  <2>4. CASE /\ \A j \in DOMAIN segs : segs[j].kind = "Null"
             /\ \A i \in DOMAIN secs : ~InFile(secs[i])
    <3>1. FileEvents(secs, segs) = {}
      BY <2>4 DEF FileEvents, SectionEvents, SegmentEvents
    <3> QED
      BY <2>1, <3>1
  <2> QED
    BY <2>1, <2>2, <2>3, <2>4
<1> QED
  BY <1>1, <1>2 DEF HeaderReserved

\* An event is not before the end of the header when all segments are behind.
LEMMA EventBehindHeader ==
  ASSUME NEW secs \in Seq(Section), SectionsBehind(secs),
         NEW segs \in Seq(Segment), SegmentsBehind(segs),
         NEW e \in FileEvents(secs, segs)
  PROVE  e.offset >= HeaderLen
<1>0. HeaderLen \in Nat
  BY LengthsAssumption
<1>1. CASE \E i \in DOMAIN secs :
             /\ InFile(secs[i])
             /\ e.offset \in {secs[i].offset, SectionFileEnd(secs[i])}
  <2>1. PICK i \in DOMAIN secs :
             /\ InFile(secs[i])
             /\ e.offset \in {secs[i].offset, SectionFileEnd(secs[i])}
    BY <1>1
  <2>2. secs[i].offset \in Nat /\ SectionFileEnd(secs[i]) \in Nat
    BY EndsAreNatural
  <2>3. secs[i].offset < SectionFileEnd(secs[i]) /\ secs[i].offset >= HeaderLen
    BY <2>1 DEF InFile, SectionsBehind
  <2> QED
    BY <1>0, <2>1, <2>2, <2>3
<1>2. CASE \E j \in DOMAIN segs :
             /\ segs[j].kind # "Null"
             /\ e.offset \in {segs[j].offset, SegmentFileEnd(segs[j])}
  <2>1. PICK j \in DOMAIN segs :
             /\ segs[j].kind # "Null"
             /\ e.offset \in {segs[j].offset, SegmentFileEnd(segs[j])}
    BY <1>2
  <2>2. segs[j].offset \in Nat /\ segs[j].file_size \in Nat
    BY EndsAreNatural
  <2>3. segs[j].offset >= HeaderLen
    BY <2>1 DEF SegmentsBehind
  <2> QED
    BY <1>0, <2>1, <2>2, <2>3 DEF SegmentFileEnd
<1> QED
  BY <1>1, <1>2 DEF FileEvents, SectionEvents, SegmentEvents, Event

\* A vacant gap shares no byte with PHDR, nor with the header.
LEMMA GapBehindHeader ==
  ASSUME NEW secs \in Seq(Section), SectionsBehind(secs),
         NEW segs \in Seq(Segment), HeaderGuarded(segs),
         PhdrCovered(secs, segs),
         NEW n \in 2 .. Cardinality(FileEvents(secs, segs)),
         Vacant(Sorted(FileEvents(secs, segs)), n)
  PROVE  LET ev == Sorted(FileEvents(secs, segs))
         IN  /\ ev[n - 1].offset \in Nat /\ ev[n - 1].offset >= HeaderLen
             /\ ev[n].offset \in Nat
             /\ \A j \in Positions(segs, "ProgramHeader") :
                  \/ SegmentFileEnd(segs[j]) <= ev[n - 1].offset
                  \/ ev[n].offset <= segs[j].offset
<1> DEFINE E == FileEvents(secs, segs)
           N == Cardinality(E)
           ev == Sorted(E)
           lo == ev[n - 1]
           hi == ev[n]
<1>0. HeaderLen \in Nat
  BY LengthsAssumption
<1>1. N \in Nat /\ ev \in [1 .. N -> E]
  BY FileEventsType, SortedProperties
<1>2. n \in 1 .. N /\ n - 1 \in 1 .. N
  BY <1>1
<1>3. lo \in E /\ hi \in E /\ lo.offset \in Nat /\ hi.offset \in Nat
  BY <1>1, <1>2, FileEventsType DEF EventType
<1>4. ASSUME NEW j \in Positions(segs, "ProgramHeader")
      PROVE  /\ segs[j].offset \in Nat /\ SegmentFileEnd(segs[j]) \in Nat
             /\ segs[j].offset < SegmentFileEnd(segs[j])
             /\ \/ SegmentFileEnd(segs[j]) <= lo.offset
                \/ hi.offset <= segs[j].offset
  <2>1. j \in DOMAIN segs /\ segs[j].kind = "ProgramHeader"
    BY DEF Positions
  <2>2. segs[j].file_size # 0
    BY DEF PhdrCovered
  <2>3. PICK k \in Positions(segs, "Loadable") :
          /\ segs[k].offset <= segs[j].offset
          /\ SegmentFileEnd(segs[j]) <= SegmentFileEnd(segs[k])
    BY DEF PhdrCovered
  <2>4. k \in DOMAIN segs /\ IsLoad(segs[k]) /\ ~IsLoad(segs[j])
        /\ segs[j].kind # "Null"
    BY <2>1 DEF Positions, IsLoad
  <2>5. \/ SegmentFileEnd(segs[j]) <= lo.offset
        \/ hi.offset <= segs[j].offset
    BY <2>1, <2>2, <2>3, <2>4, GapMissesSegment
  <2>6. segs[j].offset \in Nat /\ segs[j].file_size \in Nat
    BY <2>1, EndsAreNatural
  <2> QED
    BY <2>2, <2>5, <2>6 DEF SegmentFileEnd
<1>5. lo.offset >= HeaderLen
  <2>1. CASE SegmentsBehind(segs)
    BY <1>3, <2>1, EventBehindHeader
  <2>2. CASE \E j \in Positions(segs, "ProgramHeader") :
               segs[j].offset = HeaderLen
    <3>1. PICK j \in Positions(segs, "ProgramHeader") :
            segs[j].offset = HeaderLen
      BY <2>2
    <3>2. SegmentFileEnd(segs[j]) > HeaderLen
      BY <1>0, <1>4, <3>1
    <3>3. CASE SegmentFileEnd(segs[j]) <= lo.offset
      BY <1>0, <1>3, <1>4, <3>2, <3>3
    <3>4. CASE hi.offset <= segs[j].offset
      <4>1. \/ /\ lo.kind = SectionEnd
            \/ /\ lo.kind = LoadSegmentStart
               /\ hi.kind = SectionStart
        BY DEF Vacant, LoadSegmentStart, SectionEnd, SectionStart,
               LoadSegmentEnd
      <4>2. CASE lo.kind = SectionEnd
        <5>1. PICK i \in DOMAIN secs :
                InFile(secs[i]) /\ lo.offset = SectionFileEnd(secs[i])
          BY <1>3, <4>2, LiveSectionEvent
        <5>2. secs[i].offset \in Nat /\ SectionFileEnd(secs[i]) \in Nat
          BY EndsAreNatural
        <5>3. /\ secs[i].offset < SectionFileEnd(secs[i])
              /\ secs[i].offset >= HeaderLen
          BY <5>1 DEF InFile, SectionsBehind
        <5> QED
          BY <1>0, <1>3, <5>1, <5>2, <5>3
      <4>3. CASE hi.kind = SectionStart
        <5>1. PICK i \in DOMAIN secs :
                InFile(secs[i]) /\ hi.offset = secs[i].offset
          BY <1>3, <4>3, LiveSectionEvent
        <5>2. secs[i].offset \in Nat /\ SectionFileEnd(secs[i]) \in Nat
          BY EndsAreNatural
        <5>3. /\ secs[i].offset < SectionFileEnd(secs[i])
              /\ secs[i].offset >= HeaderLen
          BY <5>1 DEF InFile, SectionsBehind
        <5>4. Missed(secs, segs[j].offset, segs[j].file_size)
          BY DEF PhdrCovered
        <5>5. segs[j].file_size # 0
          BY DEF PhdrCovered
        <5>6. \/ SectionFileEnd(secs[i]) <= segs[j].offset
              \/ SegmentFileEnd(segs[j]) <= secs[i].offset
          BY <5>1, <5>4, <5>5 DEF Missed, SegmentFileEnd
        <5> QED
          BY <1>0, <1>4, <3>1, <3>2, <3>4, <5>1, <5>2, <5>3, <5>6
      <4> QED
        BY <4>1, <4>2, <4>3
    <3> QED
      BY <1>4, <3>3, <3>4
  <2> QED
    BY <2>1, <2>2 DEF HeaderGuarded
<1> QED
  BY <1>3, <1>4, <1>5

\* Nothing changes.
LEMMA SameItself ==
  ASSUME NEW segs, NEW kind
  PROVE  SameKind(segs, segs, kind) /\ NoneBefore(segs, segs)
  BY DEF SameKind, Has, NoneBefore

\* One change after the other.
LEMMA SameAfterSame ==
  ASSUME NEW old, NEW mid, NEW new, NEW kind
  PROVE  /\ Has(mid, old, kind) /\ Has(new, mid, kind) => Has(new, old, kind)
         /\ SameKind(mid, old, kind) /\ SameKind(new, mid, kind)
              => SameKind(new, old, kind)
         /\ NoneBefore(mid, old) /\ NoneBefore(new, mid) => NoneBefore(new, old)
<1>1. ASSUME NEW a, NEW b, NEW c, Has(b, a, kind), Has(c, b, kind)
      PROVE  Has(c, a, kind)
  BY <1>1 DEF Has
<1>2. NoneBefore(mid, old) /\ NoneBefore(new, mid) => NoneBefore(new, old)
  BY DEF NoneBefore
<1> QED
  BY <1>1, <1>2 DEF SameKind

\* The guard of the header, without PHDR, stays when the LOAD segments do.
LEMMA ReservedKept ==
  ASSUME NEW old, HeaderReserved(old), NEW new, NoneBefore(new, old),
         Has(new, old, "Loadable")
  PROVE  HeaderReserved(new)
<1>1. SegmentsBehind(old) => SegmentsBehind(new)
  BY DEF SegmentsBehind, NoneBefore
<1>2. HeaderLoaded(old) => HeaderLoaded(new)
  BY DEF HeaderLoaded, Has, SegmentFileEnd
<1> QED
  BY <1>1, <1>2 DEF HeaderReserved

\* allocate_section leaves the header and PHDR alone.
LEMMA PlacedBehindHeader ==
  ASSUME NEW secs \in Seq(Section), NEW segs \in Seq(Segment),
         Fits(secs, segs), SectionsBehind(secs), HeaderGuarded(segs),
         PhdrCovered(secs, segs), NEW request, Requested(request),
         AllocateSection(secs, segs, request).ok
  PROVE  LET result == AllocateSection(secs, segs, request)
         IN  /\ result.section.offset \in Nat
             /\ result.section.offset >= HeaderLen
             /\ \A j \in Positions(segs, "ProgramHeader") :
                  \/ SectionFileEnd(result.section) <= segs[j].offset
                  \/ SegmentFileEnd(segs[j]) <= result.section.offset
             /\ HeaderGuarded(result.segments)
             /\ \A kind : /\ Has(result.segments, segs, kind)
                          /\ kind # "Loadable"
                               => SameKind(result.segments, segs, kind)
<1> DEFINE result == AllocateSection(secs, segs, request)
           section == result.section
<1>0. HeaderLen \in Nat
  BY LengthsAssumption
<1>1. /\ section \in Section
      /\ \/ result.segments = segs /\ InVacantGap(section, secs, segs)
         \/ InNewLoad(section.offset, result.segments, secs, segs)
  BY AllocateSectionProperties
<1>2. section.offset \in Nat /\ SectionFileEnd(section) \in Nat
  BY <1>1, EndsAreNatural
<1> HIDE DEF section
<1>3. \A j \in Positions(segs, "ProgramHeader") :
        segs[j].offset \in Nat /\ SegmentFileEnd(segs[j]) \in Nat
  BY EndsAreNatural DEF Positions
<1>4. CASE result.segments = segs /\ InVacantGap(section, secs, segs)
  <2> DEFINE ev == Sorted(FileEvents(secs, segs))
  <2>1. PICK n \in 2 .. Cardinality(FileEvents(secs, segs)) :
          /\ Vacant(ev, n)
          /\ ev[n - 1].offset <= section.offset
          /\ SectionFileEnd(section) <= ev[n].offset
    BY <1>4 DEF InVacantGap
  <2>2. /\ ev[n - 1].offset \in Nat /\ ev[n - 1].offset >= HeaderLen
        /\ ev[n].offset \in Nat
        /\ \A j \in Positions(segs, "ProgramHeader") :
             \/ SegmentFileEnd(segs[j]) <= ev[n - 1].offset
             \/ ev[n].offset <= segs[j].offset
    BY <2>1, GapBehindHeader
  <2> HIDE DEF ev
  <2>3. section.offset >= HeaderLen
    BY <1>0, <1>2, <2>1, <2>2
  <2>4. \A j \in Positions(segs, "ProgramHeader") :
          \/ SectionFileEnd(section) <= segs[j].offset
          \/ SegmentFileEnd(segs[j]) <= section.offset
    BY <1>2, <1>3, <2>1, <2>2
  <2> QED
    BY <1>2, <1>4, <2>3, <2>4, SameItself DEF section, SameKind
<1>5. CASE InNewLoad(section.offset, result.segments, secs, segs)
  <2>1. PICK load \in Segment :
          /\ result.segments = Append(segs, load) /\ IsLoad(load)
          /\ PastAll(load.offset, secs, segs)
          /\ load.offset <= section.offset
    BY <1>5 DEF InNewLoad
  <2>2. load.offset \in Nat
    BY EndsAreNatural
  <2>3. HeaderReserved(segs)
    BY DEF HeaderReserved, HeaderGuarded
  <2>4. load.offset >= HeaderLen
    BY <2>1, <2>2, <2>3, PastHeader
  <2>5. section.offset >= HeaderLen
    BY <1>0, <1>2, <2>1, <2>2, <2>4
  <2>6. ASSUME NEW j \in Positions(segs, "ProgramHeader")
        PROVE  SegmentFileEnd(segs[j]) <= section.offset
    <3>1. j \in DOMAIN segs /\ segs[j].kind # "Null"
      BY DEF Positions
    <3>2. SegmentFileEnd(segs[j]) <= load.offset
      BY <2>1, <3>1 DEF PastAll
    <3> QED
      BY <1>2, <1>3, <2>1, <2>2, <3>2
  <2>7. load.kind = "Loadable"
    BY <2>1 DEF IsLoad
  <2>8. /\ \A kind : /\ Has(result.segments, segs, kind)
                     /\ kind # "Loadable"
                          => SameKind(result.segments, segs, kind)
        /\ NoneBefore(result.segments, segs)
    BY <2>1, <2>2, <2>4, <2>7, AppendSameKind
  <2> HIDE DEF result
  <2>9. HeaderGuarded(result.segments)
    BY <2>8, GuardedKept
  <2> QED
    BY <1>2, <2>5, <2>6, <2>8, <2>9 DEF section, result
<1> QED
  BY <1>1, <1>4, <1>5

\* do_finish: the new PHDR has room for the program header and is behind the
\* sections and the file header.
LEMMA PhdrPlaced ==
  ASSUME NEW secs \in Seq(Section), NEW segs \in Seq(Segment),
         SectionsBehind(secs), HeaderReserved(segs),
         AllocateSegment(secs, segs, PhdrRequest(PhdrLen(Len(segs)))).ok
  PROVE  LET result == AllocateSegment(secs, segs,
                                       PhdrRequest(PhdrLen(Len(segs))))
             new == AddSegment(result.segments, result.segment)
             place == result.segment.offset
         IN  /\ place \in Nat /\ place >= HeaderLen
             /\ new # << >>
             /\ \A i \in DOMAIN secs :
                  InFile(secs[i]) => SectionFileEnd(secs[i]) <= place
             /\ \E j \in Positions(new, "ProgramHeader") :
                  /\ new[j].offset = place
                  /\ new[j].file_size >= SegmentLen * Len(new)
             /\ HeaderReserved(new)
             /\ \A kind \in {"Interpreter", "Dynamic"} :
                  SameKind(new, segs, kind)
<1> DEFINE request == PhdrRequest(PhdrLen(Len(segs)))
           result == AllocateSegment(secs, segs, request)
           new == AddSegment(result.segments, result.segment)
           place == result.segment.offset
<1>0. HeaderLen \in Nat /\ SegmentLen \in Nat /\ Len(segs) \in Nat
  BY LengthsAssumption
<1>1. request \in Segment /\ request.kind = "ProgramHeader"
  BY PhdrRequestIsSegment
<1>2. request.file_size = (Len(segs) + 2) * SegmentLen
  BY DEF PhdrRequest, PhdrLen
<1> HIDE DEF request
<1>3. /\ result.segment \in Segment
      /\ result.segment.kind = "ProgramHeader"
      /\ result.segment.file_size = (Len(segs) + 2) * SegmentLen
      /\ InNewLoad(place, result.segments, secs, segs)
  BY <1>1, <1>2, AllocateSegmentProperties DEF request
<1>4. PICK load \in Segment :
        /\ result.segments = Append(segs, load) /\ IsLoad(load)
        /\ PastAll(load.offset, secs, segs)
        /\ load.offset <= place
  BY <1>3 DEF InNewLoad
<1>5. load.offset \in Nat /\ place \in Nat
  BY <1>3, EndsAreNatural
<1>6. load.offset >= HeaderLen /\ place >= HeaderLen
  <2>1. load.offset >= HeaderLen
    BY <1>4, <1>5, PastHeader
  <2> HIDE DEF place
  <2> QED
    BY <1>0, <1>4, <1>5, <2>1
<1>7. ASSUME NEW i \in DOMAIN secs, InFile(secs[i])
      PROVE  SectionFileEnd(secs[i]) <= place
  <2>1. SectionFileEnd(secs[i]) \in Nat
    BY EndsAreNatural
  <2>2. SectionFileEnd(secs[i]) <= load.offset
    BY <1>4, <1>7 DEF PastAll
  <2> HIDE DEF place
  <2> QED
    BY <1>4, <1>5, <2>1, <2>2
<1>8. result.segments \in Seq(Segment) /\ Len(result.segments) = Len(segs) + 1
  BY <1>4
<1>9. load.kind = "Loadable"
  BY <1>4 DEF IsLoad
<1> HIDE DEF result
<1>10. /\ \A kind : /\ Has(result.segments, segs, kind)
                    /\ kind # "Loadable"
                         => SameKind(result.segments, segs, kind)
       /\ NoneBefore(result.segments, segs)
  BY <1>4, <1>5, <1>6, <1>9, AppendSameKind
<1>11. /\ \A kind \in SegmentKinds \ {"Null"} :
            /\ Has(new, result.segments, kind)
            /\ result.segment.kind # kind
                 => SameKind(new, result.segments, kind)
       /\ \E j \in Positions(new, "ProgramHeader") : new[j] = result.segment
       /\ NoneBefore(new, result.segments)
       /\ Len(new) \in Nat /\ Len(new) <= Len(result.segments) + 1
       /\ Len(new) # 0
  BY <1>3, <1>5, <1>6, <1>8, AddSegmentSameKind
<1>12. \A kind \in {"Interpreter", "Dynamic"} : SameKind(new, segs, kind)
  BY <1>3, <1>10, <1>11, SameAfterSame DEF SegmentKinds
<1>13. Has(new, segs, "Loadable") /\ NoneBefore(new, segs)
  BY <1>10, <1>11, SameAfterSame DEF SegmentKinds
<1>14. HeaderReserved(new)
  BY <1>13, ReservedKept
<1>15. (Len(segs) + 2) * SegmentLen >= SegmentLen * Len(new)
  <2>1. Len(new) <= Len(segs) + 2
    BY <1>0, <1>8, <1>11
  <2>2. \A a, b, c \in Nat : a <= b => b * c >= c * a
    OBVIOUS
  <2> HIDE DEF new
  <2> QED
    BY <1>0, <1>11, <2>1, <2>2
<1>16. new # << >>
  BY <1>11
<1> QED
  BY <1>3, <1>5, <1>6, <1>7, <1>11, <1>12, <1>14, <1>15, <1>16
     DEF result, request

\* do_finish: the section header is behind the file header and shares no byte
\* with a section or with PHDR.
LEMMA TablePlaced ==
  ASSUME NEW secs \in Seq(Section), NEW segs \in Seq(Segment),
         SectionsBehind(secs), HeaderReserved(segs),
         NEW size \in Nat \ {0}, NEW align \in Nat
  PROVE  LET place == AllocateFileSpace(secs, segs, size, align)
         IN  /\ place \in Nat /\ place >= HeaderLen
             /\ Missed(secs, place, size)
             /\ \A j \in DOMAIN segs :
                  segs[j].kind # "Null" /\ segs[j].file_size # 0
                    => \/ SegmentFileEnd(segs[j]) <= place
                       \/ place + size <= segs[j].offset
<1> DEFINE place == AllocateFileSpace(secs, segs, size, align)
           E == FileEvents(secs, segs)
<1>0. HeaderLen \in Nat /\ HeaderLen # 0
  BY LengthsAssumption
<1>1. /\ place \in Nat
      /\ \A i \in DOMAIN secs :
           InFile(secs[i]) => \/ SectionFileEnd(secs[i]) <= place
                              \/ place + size <= secs[i].offset
      /\ \A j \in DOMAIN segs :
           segs[j].kind # "Null" /\ segs[j].file_size # 0
             => \/ SegmentFileEnd(segs[j]) <= place
                \/ place + size <= segs[j].offset
      /\ E # {} => \E e \in E : e.offset <= place
      /\ E = {} => place >= HeaderLen
  BY FileSpaceProperties
<1> HIDE DEF place
<1>2. place >= HeaderLen
  <2>1. CASE SegmentsBehind(segs)
    <3>1. CASE E # {}
      <4>1. PICK e \in E : e.offset <= place
        BY <1>1, <3>1
      <4>2. e.offset >= HeaderLen /\ e.offset \in Nat
        BY <2>1, EventBehindHeader, FileEventsType DEF EventType
      <4> QED
        BY <1>0, <1>1, <4>1, <4>2
    <3> QED
      BY <1>1, <3>1
  <2>2. CASE HeaderLoaded(segs)
    <3>1. PICK j \in Positions(segs, "Loadable") :
            segs[j].offset = 0 /\ SegmentFileEnd(segs[j]) >= HeaderLen
      BY <2>2 DEF HeaderLoaded
    <3>2. j \in DOMAIN segs /\ segs[j].kind # "Null"
      BY DEF Positions
    <3>3. segs[j].file_size \in Nat /\ SegmentFileEnd(segs[j]) \in Nat
      BY <3>2, EndsAreNatural
    <3>4. segs[j].file_size # 0
      BY <1>0, <3>1, <3>3 DEF SegmentFileEnd
    <3>5. \/ SegmentFileEnd(segs[j]) <= place
          \/ place + size <= segs[j].offset
      BY <1>1, <3>2, <3>4
    <3>6. place + size > 0
      BY <1>1
    <3> QED
      BY <1>0, <1>1, <3>1, <3>3, <3>5, <3>6
  <2> QED
    BY <2>1, <2>2 DEF HeaderReserved
<1> QED
  BY <1>1, <1>2 DEF Missed, place

(***************************************************************************)
(* What a step leaves of the sections.                                     *)
(***************************************************************************)

\* The section stays in its slot and reads the same.
Kept(i) ==
  /\ i \in DOMAIN sections'
  /\ sections'[i] = sections[i]
  /\ InFile(sections[i])
       => Alike(file, file', sections[i].offset, sections[i].size)

\* All that it has is the same, also the addresses of symbols.
SameBytes(i) ==
  InFile(sections[i])
    => Read(file', sections[i].offset, sections[i].size) = ReadSection(i)

\* A section that has bytes in the file.
LEMMA LiveSection ==
  ASSUME NEW s \in Section
  PROVE  /\ s.offset \in Nat /\ s.size \in Nat
         /\ InFile(s) => /\ s.kind \notin {"Null", "NoBits"} /\ s.size # 0
                         /\ SectionFileEnd(s) = s.offset + s.size
         /\ s.kind \notin {"Null", "NoBits"} /\ s.size # 0 => InFile(s)
<1>1. s.offset \in Nat /\ s.size \in Nat
  BY EndsAreNatural
<1> QED
  BY <1>1 DEF InFile, SectionFileEnd

\* A freed section has no bytes in the file.
LEMMA NullNotLive == ~InFile(NullSection)
  BY DEF InFile, NullSection

\* Sections that have bytes in the file do not share them.
LEMMA SectionsDisjoint ==
  ASSUME TInv, NEW i \in DOMAIN sections, NEW k \in DOMAIN sections, i # k,
         InFile(sections[i]), InFile(sections[k])
  PROVE  Disjoint(sections[i].offset, sections[i].size,
                  sections[k].offset, sections[k].size)
<1>1. sections[i] \in Section /\ sections[k] \in Section
  BY TableFacts
<1>2. Apart(sections[i], sections[k])
  BY TableFacts DEF GoodSections, SectionsApart
<1> QED
  BY <1>1, <1>2, LiveSection DEF Apart, Disjoint

\* The blocks of the sections that are kept are in the file.
LEMMA KeptStored ==
  ASSUME SectionsStored(file, sections), NEW i \in DOMAIN sections, Kept(i),
         InFile(sections[i])
  PROVE  /\ sections'[i].offset >= HeaderLen
         /\ Stored(file', sections'[i].offset, sections'[i].size) # {}
  BY DEF Kept, Alike, SectionsStored

\* Sections that are kept, or new and without bytes, are in the file.
LEMMA KeptSections ==
  ASSUME SectionsStored(file, sections),
         \A k \in DOMAIN sections' :
           \/ k \in DOMAIN sections /\ Kept(k)
           \/ sections'[k] = NullSection
  PROVE  /\ SectionsStored(file', sections')
         /\ \A offset, len : Missed(sections, offset, len)
                               => Missed(sections', offset, len)
<1>1. ASSUME NEW k \in DOMAIN sections', InFile(sections'[k])
      PROVE  /\ k \in DOMAIN sections /\ Kept(k) /\ InFile(sections[k])
             /\ sections'[k] = sections[k]
  BY <1>1, NullNotLive DEF Kept
<1>2. SectionsStored(file', sections')
  BY <1>1, KeptStored DEF SectionsStored
<1>3. \A offset, len : Missed(sections, offset, len)
                         => Missed(sections', offset, len)
  BY <1>1 DEF Missed
<1> QED
  BY <1>2, <1>3

\* SectionHeader::free: one section goes, with its bytes.
LEMMA FreeFrame ==
  ASSUME TInv, BytesOK(file), SectionsStored(file, sections),
         NEW STATE i, i \in DOMAIN sections,
         sections[i].kind \notin {"Null", "NoBits"}, Free(i)
  PROVE  /\ DOMAIN sections' = DOMAIN sections
         /\ sections'[i] = NullSection
         /\ \A k \in DOMAIN sections : k # i => Kept(k) /\ SameBytes(k)
         /\ BytesOK(file') /\ SectionsStored(file', sections')
         /\ \A offset, len : Missed(sections, offset, len)
                               => Missed(sections', offset, len)
         /\ InFile(sections[i])
              => Missed(sections', sections[i].offset, sections[i].size)
<1>1. /\ DOMAIN sections' = DOMAIN sections
      /\ sections'[i] = NullSection
      /\ \A k \in DOMAIN sections : k # i => sections'[k] = sections[k]
  BY DEF Free, FreeSections
<1>2. file' = Zero(file, sections[i].offset, sections[i].size)
  BY DEF Free
<1>3. \A k \in DOMAIN sections : sections[k] \in Section
  BY TableFacts
<1>4. sections[i].offset \in Nat /\ sections[i].size \in Nat
  BY <1>3, LiveSection
<1>5. ASSUME NEW k \in DOMAIN sections, k # i, InFile(sections[k])
      PROVE  Disjoint(sections[i].offset, sections[i].size,
                      sections[k].offset, sections[k].size)
  <2>1. CASE InFile(sections[i])
    BY <1>5, <2>1, SectionsDisjoint
  <2>2. CASE ~InFile(sections[i])
    <3>1. sections[i].size = 0
      BY <1>3, <2>2, LiveSection
    <3> QED
      BY <3>1 DEF Disjoint
  <2> QED
    BY <2>1, <2>2
<1>6. ASSUME NEW k \in DOMAIN sections, k # i
      PROVE  Kept(k) /\ SameBytes(k)
  <2>1. ASSUME InFile(sections[k])
        PROVE  /\ Alike(file, file', sections[k].offset, sections[k].size)
               /\ Read(file', sections[k].offset, sections[k].size)
                    = Read(file, sections[k].offset, sections[k].size)
    <3>1. sections[k].offset \in Nat /\ sections[k].size \in Nat
      BY <1>3, LiveSection
    <3>2. Stored(file', sections[k].offset, sections[k].size)
            = Stored(file, sections[k].offset, sections[k].size)
      BY <1>2, <1>4, <1>5, <1>6, <2>1, <3>1, StoredZero
    <3> QED
      BY <3>2, StoredAlike
  <2> QED
    BY <1>1, <1>6, <2>1 DEF Kept, SameBytes, ReadSection
<1>7. BytesOK(file')
  BY <1>2, FewerBytesOK DEF Zero
<1>8. /\ SectionsStored(file', sections')
      /\ \A offset, len : Missed(sections, offset, len)
                            => Missed(sections', offset, len)
  BY <1>1, <1>6, KeptSections
<1>9. ASSUME InFile(sections[i])
      PROVE  Missed(sections', sections[i].offset, sections[i].size)
  <2>1. SUFFICES ASSUME NEW k \in DOMAIN sections', InFile(sections'[k])
                 PROVE  \/ sections[i].size = 0
                        \/ SectionFileEnd(sections'[k]) <= sections[i].offset
                        \/ sections[i].offset + sections[i].size
                             <= sections'[k].offset
    BY DEF Missed
  <2>2. k # i /\ k \in DOMAIN sections /\ sections'[k] = sections[k]
    BY <1>1, <2>1, NullNotLive
  <2>3. Apart(sections[i], sections[k])
    BY <1>9, <2>1, <2>2, TableFacts DEF GoodSections, SectionsApart
  <2>4. SectionFileEnd(sections[i]) = sections[i].offset + sections[i].size
    BY <1>3, <1>9, LiveSection
  <2> QED
    BY <2>2, <2>3, <2>4 DEF Apart
<1> QED
  BY <1>1, <1>6, <1>7, <1>8, <1>9

\* alloc_section and write_content: one section comes, the others stay.
LEMMA PlaceFrame ==
  ASSUME TInv, BytesOK(file), SectionsStored(file, sections),
         HeaderGuarded(segments), PhdrCovered(sections, segments),
         NEW STATE request, Requestable(request),
         request.kind = "Dynamic" => request.size >= DynamicLen,
         NEW STATE content, content # Garbage,
         "tags" \in DOMAIN content => TableFits(content.tags, request.size),
         NEW STATE step, Place(request, content, step)
  PROVE  \/ pc' = "failed" /\ UNCHANGED <<sections, segments, file>>
         \/ LET slot == SpareSlot(sections)
            IN  /\ pc' = step
                /\ slot \in Nat /\ slot > 1 /\ slot \in DOMAIN sections'
                /\ sections'[slot].name = request.name
                /\ sections'[slot].kind = request.kind
                /\ sections'[slot].size = request.size
                /\ request.size # 0 =>
                     /\ InFile(sections'[slot])
                     /\ Read(file', sections'[slot].offset,
                             sections'[slot].size) = content
                /\ slot \in DOMAIN sections => sections[slot].kind = "Null"
                /\ \A n \in SpareSlots(sections) : slot <= n
                /\ \A k \in DOMAIN sections :
                     k # slot => Kept(k) /\ SameBytes(k)
                /\ \A k \in DOMAIN sections' : k # slot =>
                     \/ k \in DOMAIN sections
                     \/ k = 1 /\ sections'[k] = NullSection
                /\ BytesOK(file') /\ SectionsStored(file', sections')
                /\ HeaderGuarded(segments')
                /\ PhdrCovered(sections', segments')
                /\ \A kind : kind # "Loadable"
                               => SameKind(segments', segments, kind)
<1>0. HeaderLen \in Nat
  BY LengthsAssumption
<1> DEFINE result == AllocateSection(sections, segments, request)
           slot == SpareSlot(sections)
           new == result.section
<1>1. CASE pc' = "failed" /\ UNCHANGED <<sections, segments, file>>
  BY <1>1
<1>2. CASE /\ pc' = step
           /\ result.ok /\ Requested(request)
           /\ new \in Section
           /\ sections' = AddSection(sections, new)
           /\ segments' = result.segments
           /\ file' = Write(file, new.offset, request.size, content)
           /\ \A i \in DOMAIN sections :
                InFile(sections[i]) => Apart(sections[i], new)
  <2>1. /\ sections \in Seq(Section) /\ segments \in Seq(Segment)
        /\ Fits(sections, segments)
    BY TableFacts
  <2>2. SectionsBehind(sections)
    BY DEF SectionsStored, SectionsBehind
  <2>3. /\ new.offset \in Nat
        /\ new.offset >= HeaderLen
        /\ \A j \in Positions(segments, "ProgramHeader") :
             \/ SectionFileEnd(new) <= segments[j].offset
             \/ SegmentFileEnd(segments[j]) <= new.offset
        /\ HeaderGuarded(segments')
        /\ \A kind : /\ Has(segments', segments, kind)
                     /\ kind # "Loadable"
                          => SameKind(segments', segments, kind)
    BY <1>2, <2>1, <2>2, PlacedBehindHeader
  <2>4. /\ new.name = request.name /\ new.kind = request.kind
        /\ new.size = request.size
    BY PlacedFields
  <2>5. request.kind \notin {"Null", "NoBits"} /\ request.size \in Nat
    BY DEF Requestable
  <2> HIDE DEF result, new
  <2>6. /\ slot \in Nat /\ slot > 1
        /\ slot \in DOMAIN sections' /\ sections'[slot] = new
        /\ slot \in DOMAIN sections => sections[slot].kind = "Null"
        /\ \A n \in SpareSlots(sections) : slot <= n
        /\ \A i \in DOMAIN sections : i \in DOMAIN sections'
        /\ \A i \in DOMAIN sections' :
             i # slot => \/ i \in DOMAIN sections /\ sections'[i] = sections[i]
                         \/ /\ i \notin DOMAIN sections /\ i = 1
                            /\ sections'[i] = NullSection
    BY <1>2, <2>1, AddSectionSlot DEF SpareSlots
  <2> HIDE DEF slot
  <2>7. SectionFileEnd(new) = new.offset + new.size
    BY <2>4, <2>5 DEF SectionFileEnd
  <2>8. ASSUME NEW k \in DOMAIN sections, k # slot
        PROVE  Kept(k) /\ SameBytes(k)
    <3>1. k \in DOMAIN sections' /\ sections'[k] = sections[k]
      BY <2>6, <2>8
    <3>2. ASSUME InFile(sections[k])
          PROVE  /\ Alike(file, file', sections[k].offset, sections[k].size)
                 /\ Read(file', sections[k].offset, sections[k].size)
                      = Read(file, sections[k].offset, sections[k].size)
      <4>1. /\ sections[k].offset \in Nat /\ sections[k].size \in Nat \ {0}
            /\ SectionFileEnd(sections[k])
                 = sections[k].offset + sections[k].size
        BY <2>1, <3>2, LiveSection
      <4>2. Apart(sections[k], new)
        BY <1>2, <3>2
      <4>3. Disjoint(new.offset, request.size, sections[k].offset,
                     sections[k].size)
        BY <2>4, <2>7, <4>1, <4>2 DEF Apart, Disjoint
      <4>4. Stored(file', sections[k].offset, sections[k].size)
              = Stored(file, sections[k].offset, sections[k].size)
        BY <1>2, <2>3, <2>5, <4>1, <4>3, StoredWrite
      <4> QED
        BY <4>4, StoredAlike
    <3> QED
      BY <3>1, <3>2 DEF Kept, SameBytes, ReadSection
  <2>9. BytesOK(file')
    BY <1>2, <2>3, <2>5, WriteBytesOK
  <2>10. request.size # 0 =>
           /\ InFile(new)
           /\ Read(file', new.offset, new.size) = content
           /\ Stored(file', new.offset, new.size) # {}
    <3>1. request.size # 0 => InFile(new)
      BY <1>2, <2>4, <2>5, LiveSection
    <3> QED
      BY <1>2, <2>3, <2>4, <2>5, <3>1, ReadWritten
  <2>11. InFile(new) => request.size # 0
    BY <1>2, <2>4, LiveSection
  <2>12. SectionsStored(file', sections')
    <3> SUFFICES ASSUME NEW k \in DOMAIN sections', InFile(sections'[k])
                 PROVE  /\ sections'[k].offset >= HeaderLen
                        /\ Stored(file', sections'[k].offset,
                                  sections'[k].size) # {}
      BY DEF SectionsStored
    <3>1. CASE k = slot
      BY <2>3, <2>6, <2>10, <2>11, <3>1
    <3>2. CASE k # slot
      <4>1. k \in DOMAIN sections /\ sections'[k] = sections[k]
        BY <2>6, <3>2, NullNotLive
      <4> QED
        BY <2>8, <3>2, <4>1, KeptStored
    <3> QED
      BY <3>1, <3>2
  <2>13. ASSUME NEW j \in Positions(segments, "ProgramHeader")
         PROVE  Missed(sections', segments[j].offset, segments[j].file_size)
    <3> SUFFICES ASSUME NEW k \in DOMAIN sections', InFile(sections'[k])
                 PROVE  \/ segments[j].file_size = 0
                        \/ SectionFileEnd(sections'[k]) <= segments[j].offset
                        \/ segments[j].offset + segments[j].file_size
                             <= sections'[k].offset
      BY DEF Missed
    <3>1. CASE k = slot
      BY <2>3, <2>6, <3>1 DEF SegmentFileEnd
    <3>2. CASE k # slot
      <4>1. k \in DOMAIN sections /\ sections'[k] = sections[k]
        BY <2>6, <3>2, NullNotLive
      <4>2. Missed(sections, segments[j].offset, segments[j].file_size)
        BY DEF PhdrCovered
      <4> QED
        BY <4>1, <4>2 DEF Missed
    <3> QED
      BY <3>1, <3>2
  <2>14. PhdrCovered(sections', segments')
    <3>1. /\ Has(segments', segments, "Loadable")
          /\ Has(segments, segments', "ProgramHeader")
      BY <2>3 DEF SameKind
    <3> QED
      BY <2>13, <3>1, CoveredKept
  <2> QED
    BY <1>2, <2>3, <2>4, <2>6, <2>8, <2>9, <2>10, <2>12, <2>14 DEF slot
<1>3. TablesOK /\ WellStored(file)
  BY DEF TInv
<1> QED
  BY <1>1, <1>2, <1>3, PlaceIsGood

(***************************************************************************)
(* What is read through the tables, before and after a step.               *)
(***************************************************************************)

\* The first of one position is that position.
LEMMA FirstOfSingle ==
  ASSUME NEW T, NEW s \in Seq(T), NEW I \in SUBSET DOMAIN s, Single(I),
         NEW i \in I
  PROVE  First(I) = i
<1>1. First(I) \in I
  BY FirstPosition
<1> QED
  BY <1>1 DEF Single

\* read_section_names: the table that is kept reads the same.
LEMMA NamesKept ==
  ASSUME header.section_names_index \in DOMAIN sections,
         InFile(sections[header.section_names_index]),
         Kept(header.section_names_index),
         header'.section_names_index = header.section_names_index
  PROVE  SectionNames' = SectionNames
<1> DEFINE i == header.section_names_index
<1>1. /\ i \in DOMAIN sections /\ i \in DOMAIN sections'
      /\ sections'[i] = sections[i]
      /\ StringsIn(Read(file', sections[i].offset, sections[i].size))
           = StringsIn(Read(file, sections[i].offset, sections[i].size))
  BY DEF Kept, Alike
<1>2. header'.section_names_index = i
  OBVIOUS
<1> HIDE DEF i
<1>3. SectionNames = [strings |-> StringsIn(ReadSection(i)),
                      len |-> sections[i].size]
  BY <1>1 DEF SectionNames, i
<1>4. SectionNames' = [strings |-> StringsIn(Read(file', sections'[i].offset,
                                                  sections'[i].size)),
                       len |-> sections'[i].size]
  BY <1>1, <1>2 DEF SectionNames, ReadSection
<1> QED
  BY <1>1, <1>3, <1>4 DEF ReadSection

\* A dynamic section has bytes in the file.
LEMMA DynamicIsLive ==
  ASSUME TInv, NEW i \in Positions(sections, "Dynamic")
  PROVE  /\ i \in DOMAIN sections /\ i # 0 /\ InFile(sections[i])
         /\ sections[i].kind = "Dynamic"
<1>1. i \in DOMAIN sections /\ sections[i].kind = "Dynamic"
  BY DEF Positions
<1>2. sections[i] \in Section /\ sections \in Seq(Section)
  BY <1>1, TableFacts
<1>3. sections[i].size # 0
  BY <1>1, TableFacts DEF DynamicsLong, DynamicLen
<1> QED
  BY <1>1, <1>2, <1>3, LiveSection

\* read_dynamic_table: the table that is kept reads the same.
LEMMA DynamicKept ==
  ASSUME TInv,
         Positions(sections', "Dynamic") = Positions(sections, "Dynamic"),
         \A i \in Positions(sections, "Dynamic") : Kept(i)
  PROVE  DynamicTags' = DynamicTags
<1> DEFINE I == Positions(sections, "Dynamic")
           i == First(I)
<1>1. I \in SUBSET DOMAIN sections
  BY DEF Positions
<1>2. i = 0 \/ i \in I
  BY <1>1, TableFacts, FirstPosition
<1>3. CASE i = 0
  BY <1>3 DEF DynamicTags
<1>4. CASE i # 0 /\ i \in I
  <2>1. InFile(sections[i]) /\ Kept(i)
    BY <1>4, DynamicIsLive
  <2>2. /\ sections'[i] = sections[i]
        /\ TagsIn(Read(file', sections[i].offset, sections[i].size))
             = TagsIn(Read(file, sections[i].offset, sections[i].size))
    BY <2>1 DEF Kept, Alike
  <2>3. DynamicTags = TagsIn(ReadSection(i))
    BY <1>4 DEF DynamicTags
  <2>4. First(Positions(sections', "Dynamic")) = i
    OBVIOUS
  <2> HIDE DEF i, I
  <2>5. DynamicTags' = TagsIn(Read(file', sections'[i].offset,
                                   sections'[i].size))
    BY <1>4, <2>4 DEF DynamicTags, ReadSection
  <2> QED
    BY <2>2, <2>3, <2>5 DEF ReadSection
<1> QED
  BY <1>2, <1>3, <1>4

\* read_interpreter: the section that INTERP is the bytes of is kept.
LEMMA InterpKept ==
  ASSUME TInv, TInv', Single(Positions(segments, "Interpreter")),
         SameKind(segments', segments, "Interpreter"),
         InterpCoincides(sections, segments),
         \A i \in InterpSections(sections) : InFile(sections[i]) => Kept(i)
  PROVE  /\ Interpreter' = Interpreter
         /\ InterpCoincides(sections', segments')
<1> DEFINE I == Positions(segments, "Interpreter")
           K == Positions(segments', "Interpreter")
<1>1. /\ segments \in Seq(Segment) /\ segments' \in Seq(Segment)
      /\ I \in SUBSET DOMAIN segments /\ K \in SUBSET DOMAIN segments'
  BY TableFacts DEF TInv, TablesOK, GoodSegments, Positions
<1>2. InterpCoincides(sections', segments')
  <2> SUFFICES ASSUME NEW k \in K
               PROVE  \E i \in InterpSections(sections') :
                        Coincide(segments'[k], sections'[i])
    BY DEF InterpCoincides
  <2>1. PICK j \in I : segments'[k] = segments[j]
    BY DEF SameKind, Has
  <2>2. PICK i \in InterpSections(sections) :
               Coincide(segments[j], sections[i])
    BY DEF InterpCoincides
  <2>3. i \in DOMAIN sections' /\ sections'[i] = sections[i]
    BY <2>2 DEF Coincide, Kept
  <2> QED
    BY <2>1, <2>2, <2>3 DEF InterpSections
<1>3. CASE I = {}
  <2>1. K = {}
    BY <1>3 DEF SameKind, Has
  <2> QED
    BY <1>2, <1>3, <2>1 DEF Interpreter, First
<1>4. ASSUME NEW j \in I
      PROVE  Interpreter' = Interpreter
  <2>1. PICK k \in K : segments'[k] = segments[j]
    BY DEF SameKind, Has
  <2>2. First(I) = j /\ First(K) = k
    <3>1. Single(K)
      BY DEF SameKind
    <3> QED
      BY <1>1, <3>1, FirstOfSingle
  <2>3. PICK i \in InterpSections(sections) :
               Coincide(segments[j], sections[i])
    BY DEF InterpCoincides
  <2>4. j # 0 /\ k # 0
    BY <1>1
  <2>5. Interpreter = InterpIn(Read(file, segments[j].offset,
                                    segments[j].file_size))
    BY <2>2, <2>4 DEF Interpreter
  <2> HIDE DEF I, K
  <2>6. Interpreter' = InterpIn(Read(file', segments'[k].offset,
                                     segments'[k].file_size))
    BY <2>2, <2>4 DEF Interpreter, K
  <2>7. InterpIn(Read(file', sections[i].offset, sections[i].size))
          = InterpIn(Read(file, sections[i].offset, sections[i].size))
    BY <2>3 DEF Coincide, Kept, Alike
  <2>8. segments[j].offset = sections[i].offset
        /\ segments[j].file_size = sections[i].size
    BY <2>3 DEF Coincide
  <2> QED
    BY <2>1, <2>5, <2>6, <2>7, <2>8
<1> QED
  BY <1>2, <1>3, <1>4

\* DYNAMIC stays the bytes of the dynamic section.
LEMMA DynamicCoincidesKept ==
  ASSUME DynamicCoincides(sections, segments),
         Has(segments, segments', "Dynamic"),
         Positions(sections', "Dynamic")
           \subseteq Positions(sections, "Dynamic"),
         \A i \in Positions(sections', "Dynamic") : sections'[i] = sections[i]
  PROVE  DynamicCoincides(sections', segments')
  BY DEF DynamicCoincides, Has, Coincide
===============================================================================
