-------------------------- MODULE FirstSessionProofs --------------------------
(***************************************************************************)
(* The first session of ElfPatcher keeps its promises for every ordinary   *)
(* file, every sequence of calls and every page size: no step destroys     *)
(* bytes of a section, what was set is what is read, and the finished      *)
(* tables can be read back.  For every linked file the loader finds what   *)
(* it needs, and Elf::check lets the finished file pass.                   *)
(*                                                                         *)
(* The invariant is in FirstSession.  There is one lemma for each step of  *)
(* ElfPatcher, on what FInv says.  The lemmas about what the loader finds  *)
(* (LInv) follow in the same order, and then those about what Elf::check   *)
(* asks for (CInv).  What they need of the bytes of a file is at the end   *)
(* of ElfPatcherProofs.                                                    *)
(***************************************************************************)
EXTENDS ElfPatcherProofs

(***************************************************************************)
(* The first session, one step after the other.                            *)
(***************************************************************************)

\* The conjuncts of the invariant of a step that something follows.
Live == /\ TablesApart /\ NamesOK /\ InterpOK /\ DynamicOK /\ TagsOK
        /\ DynstrOK

\* Neither the tables nor the bytes change: all reads are the same.
LEMMA SameReads ==
  ASSUME UNCHANGED <<elf, file>>
  PROVE  /\ UNCHANGED <<header, sections, segments, file>>
         /\ SectionNames' = SectionNames
         /\ Interpreter' = Interpreter
         /\ DynamicTags' = DynamicTags
         /\ TablesIntact' = TablesIntact
<1>1. UNCHANGED <<header, sections, segments, file>>
  BY DEF elf
<1> QED
  BY <1>1 DEF SectionNames, ReadSection, Interpreter, DynamicTags, TablesIntact

\* The cache has the names in the file when it is empty or a copy.
LEMMA CacheIsNames ==
  ASSUME names # Unread => names = SectionNames
  PROVE  CachedNames = SectionNames
  BY DEF CachedNames

\* A file is opened.
LEMMA OpenFirst ==
  ASSUME TInv, FirstOK, Open, sessions' <= 1
  PROVE  FirstOK'
<1>1. /\ pc = "closed" /\ sessions = 0 /\ sessions' = 1 /\ names' = Unread
      /\ pc' = IF TablesIntact THEN "ready" ELSE "unreadable"
      /\ UNCHANGED <<elf, file, call, want>>
  BY DEF Open, TInv, PlaceOK
<1>2. TablesIntact /\ Live
  BY <1>1 DEF FirstOK, Live, Dead
<1>3. pc' = "ready"
  BY <1>1, <1>2
<1>4. /\ UNCHANGED <<header, sections, segments, file>>
      /\ SectionNames' = SectionNames /\ Interpreter' = Interpreter
      /\ DynamicTags' = DynamicTags
  BY <1>1, SameReads
<1>5. /\ Phase = "closed" /\ Phase' = "ready" /\ InCalls
  BY <1>1, <1>3 DEF Phase, NameSteps, InCalls, Finishing, Dead
<1>6. CachedNames = SectionNames /\ CachedNames' = SectionNames
  <2>1. CachedNames = SectionNames
    BY <1>1, <1>2, CacheIsNames DEF Live, NamesOK
  <2>2. CachedNames' = SectionNames'
    BY <1>1 DEF CachedNames
  <2> QED
    BY <1>4, <2>1, <2>2
<1>7. TablesApart'
  BY <1>2, <1>3, <1>4, <1>5 DEF Live, TablesApart
<1>8. NamesOK'
  BY <1>1, <1>2, <1>3, <1>4, <1>6 DEF Live, NamesOK
<1>9. InterpOK'
  BY <1>1, <1>2, <1>4, <1>5 DEF Live, InterpOK
<1>10. DynamicOK'
  BY <1>2, <1>4, <1>5 DEF Live, DynamicOK, WithoutTable
<1>11. TagsOK'
  BY <1>1, <1>2, <1>4, <1>5 DEF Live, TagsOK, WithoutTable, Values
<1>12. DynstrOK'
  BY <1>1, <1>2, <1>3, <1>4, <1>5, <1>6 DEF Live, DynstrOK, WithoutTable
<1> QED
  BY <1>1, <1>3, <1>4, <1>7, <1>8, <1>9, <1>10, <1>11, <1>12 DEF FirstOK, Live

\* A call begins, or finish does.
LEMMA BeginFirst ==
  ASSUME TInv, FirstOK, NEW STATE step,
         step \in {"free_interp", "free_dynamic", "shrink_dynamic",
                   "free_phdr"},
         pc = "ready", pc' = step, UNCHANGED <<elf, names, file, sessions>>,
         {"interp", "tags"} \subseteq DOMAIN want',
         want'.interp = IF step # "free_interp" THEN want.interp
                        ELSE IF call'.op = "set_interpreter" THEN call'.value
                        ELSE Absent,
         want'.tags = CASE step = "free_dynamic"
                           /\ Positions(sections, "Dynamic") # {}
                           -> Updated(want.tags, call'.tag, call'.value,
                                      SearchPaths)
                        [] step = "shrink_dynamic"
                           -> Updated(want.tags, call'.tag, Absent, {})
                        [] OTHER -> want.tags
  PROVE  FirstOK'
<1>1. Live
  BY DEF FirstOK, Live, Dead
<1>2. /\ UNCHANGED <<header, sections, segments, file>>
      /\ SectionNames' = SectionNames /\ Interpreter' = Interpreter
      /\ DynamicTags' = DynamicTags
  BY SameReads
<1>3. Phase = "ready" /\ Phase' = step /\ InCalls /\ InCalls'
  BY DEF Phase, NameSteps, InCalls, Finishing, Dead
<1>4. CachedNames' = CachedNames
  BY <1>2 DEF CachedNames
<1>5. TablesApart'
  BY <1>1, <1>2, <1>3 DEF Live, TablesApart
<1>6. NamesOK'
  BY <1>1, <1>2, <1>4 DEF Live, NamesOK
<1>7. InterpOK'
  BY <1>1, <1>2, <1>3 DEF Live, InterpOK, InterpCoincides
<1>8. DynamicOK'
  BY <1>1, <1>2, <1>3 DEF Live, DynamicOK, WithoutTable
<1>9. want.tags = Values(DynamicTags)
  BY <1>1, <1>3 DEF Live, TagsOK, WithoutTable
<1>10. Values(DynamicTags)' = Values(DynamicTags)
  BY <1>2 DEF Values
<1>11. TagsOK'
  BY <1>2, <1>3, <1>9, <1>10 DEF TagsOK, WithoutTable
<1>12. DynstrOK'
  BY <1>1, <1>2, <1>3, <1>4 DEF Live, DynstrOK, WithoutTable
<1> QED
  BY <1>2, <1>5, <1>6, <1>7, <1>8, <1>11, <1>12 DEF FirstOK

\* What a client does between calls.
LEMMA CallsFirst ==
  ASSUME TInv, FirstOK, sessions' <= 1, Call
  PROVE  FirstOK'
<1>1. {"interp", "tags"} \subseteq DOMAIN want
  BY DEF FirstOK
<1>2. CASE Open
  BY <1>2, OpenFirst
<1>3. CASE RemoveInterpreter
  <2>1. /\ pc = "ready" /\ pc' = "free_interp"
        /\ UNCHANGED <<elf, names, file, sessions>>
        /\ call'.op = "remove_interpreter"
        /\ want' = [want EXCEPT !.interp = Absent]
    BY <1>3 DEF RemoveInterpreter, Begin, NoCall
  <2> QED
    BY <1>1, <2>1, BeginFirst
<1>4. ASSUME NEW value \in Interps, SetInterpreter(value)
      PROVE  FirstOK'
  <2>1. /\ pc = "ready" /\ pc' = "free_interp"
        /\ UNCHANGED <<elf, names, file, sessions>>
        /\ call'.op = "set_interpreter" /\ call'.value = value
        /\ want' = [want EXCEPT !.interp = value]
    BY <1>4 DEF SetInterpreter, Begin, NoCall
  <2> QED
    BY <1>1, <2>1, BeginFirst
<1>5. ASSUME NEW tag \in Tags, NEW value \in Strings, SetDynamicTag(tag, value)
      PROVE  FirstOK'
  <2>1. /\ pc = "ready" /\ pc' = "free_dynamic"
        /\ UNCHANGED <<elf, names, file, sessions>>
        /\ call'.op = "set_dynamic_tag" /\ call'.value = value
        /\ call'.tag = tag
    BY <1>5 DEF SetDynamicTag, Begin, NoCall
  <2>2. CASE Positions(sections, "Dynamic") = {}
    <3>1. want' = want
      BY <1>5, <2>2 DEF SetDynamicTag
    <3> QED
      BY <1>1, <2>1, <2>2, <3>1, BeginFirst
  <2>3. CASE Positions(sections, "Dynamic") # {}
    <3>1. \E asked : want' =
            [want EXCEPT !.tags = Updated(@, tag, value, SearchPaths),
                         !.asked = asked]
      BY <1>5, <2>3 DEF SetDynamicTag
    <3>2. PICK asked : want' =
            [want EXCEPT !.tags = Updated(@, tag, value, SearchPaths),
                         !.asked = asked]
      BY <3>1
    <3>3. /\ DOMAIN want' = DOMAIN want /\ want'.interp = want.interp
          /\ want'.tags = Updated(want.tags, tag, value, SearchPaths)
      BY <1>1, <3>2
    <3> QED
      BY <1>1, <2>1, <2>3, <3>3, BeginFirst
  <2> QED
    BY <2>2, <2>3
<1>6. ASSUME NEW tag \in Tags, RemoveDynamicTag(tag)
      PROVE  FirstOK'
  <2>1. /\ pc = "ready" /\ pc' = "shrink_dynamic"
        /\ UNCHANGED <<elf, names, file, sessions>>
        /\ call'.op = "remove_dynamic_tag" /\ call'.tag = tag
    BY <1>6 DEF RemoveDynamicTag, Begin, NoCall
  <2>2. /\ DOMAIN want' = DOMAIN want /\ want'.interp = want.interp
        /\ want'.tags = Updated(want.tags, tag, Absent, {})
    BY <1>1, <1>6 DEF RemoveDynamicTag
  <2> QED
    BY <1>1, <2>1, <2>2, BeginFirst
<1>7. CASE Finish
  <2>1. /\ pc = "ready" /\ pc' = "free_phdr"
        /\ UNCHANGED <<elf, names, file, sessions, want>>
    BY <1>7 DEF Finish
  <2> QED
    BY <1>1, <2>1, BeginFirst
<1> QED
  BY <1>2, <1>3, <1>4, <1>5, <1>6, <1>7 DEF Call

(***************************************************************************)
(* finish in the first session.                                            *)
(***************************************************************************)

\* Steps at which no call is in progress, or all but done.
Resting == {"closed", "ready", "free_phdr", "place_phdr", "place_tables",
            "arrange", "write", "move_symbols"}

\* A step between such steps that leaves the sections, and the bytes of them,
\* leaves what the clients asked for.
LEMMA RestingFirst ==
  ASSUME TInv, TInv', FirstOK, pc \in Resting, pc' \in Resting,
         sections' = sections, \A i \in DOMAIN sections : Kept(i),
         header'.section_names_index = header.section_names_index,
         UNCHANGED <<names, want>>,
         SameKind(segments', segments, "Interpreter"),
         SameKind(segments', segments, "Dynamic")
  PROVE  /\ NamesOK' /\ InterpOK' /\ DynamicOK' /\ TagsOK' /\ DynstrOK'
         /\ SectionsStored(file', sections')
<1>1. Live /\ SectionsStored(file, sections)
  BY DEF FirstOK, Live, Dead, Resting
<1>2. Phase = pc /\ Phase' = pc'
  BY DEF Phase, NameSteps, Resting
<1>3. SectionNames' = SectionNames
  <2>1. /\ header.section_names_index \in DOMAIN sections
        /\ InFile(sections[header.section_names_index])
    BY <1>1 DEF Live, NamesOK, Positions, Resting
  <2> QED
    BY <2>1, NamesKept
<1>4. DynamicTags' = DynamicTags
  BY DynamicKept DEF Positions
<1>5. /\ Interpreter' = Interpreter
      /\ InterpCoincides(sections', segments')
  <2>1. /\ Single(Positions(segments, "Interpreter"))
        /\ InterpCoincides(sections, segments)
    BY <1>1, <1>2 DEF Live, InterpOK, Resting
  <2>2. \A i \in InterpSections(sections) : Kept(i)
    BY DEF InterpSections
  <2> QED
    BY <2>1, <2>2, InterpKept
<1>6. CachedNames' = CachedNames
  BY <1>3 DEF CachedNames
<1>7. NamesOK'
  BY <1>1, <1>3, <1>6 DEF Live, NamesOK, Resting
<1>8. InterpOK'
  BY <1>1, <1>2, <1>5 DEF Live, InterpOK, Resting, SameKind
<1>9. DynamicOK'
  <2>1. DynamicCoincides(sections', segments')
    BY <1>1, DynamicCoincidesKept DEF Live, DynamicOK, SameKind, Positions
  <2>2. Single(Positions(segments', "Dynamic"))
    BY <1>1 DEF Live, DynamicOK, SameKind
  <2>3. ~(Phase' \in WithoutTable \cup {"overlay_dynamic"})
    BY <1>2 DEF Resting, WithoutTable
  <2> QED
    BY <1>1, <2>1, <2>2, <2>3 DEF Live, DynamicOK, WithoutTable
<1>10. TagsOK'
  <2>1. want.tags = Values(DynamicTags)
    BY <1>1, <1>2 DEF Live, TagsOK, Resting, WithoutTable
  <2> QED
    BY <1>2, <1>4, <2>1 DEF TagsOK, Resting, WithoutTable, Values
<1>11. DynstrOK'
  BY <1>1, <1>2, <1>4, <1>6 DEF Live, DynstrOK, Resting, WithoutTable
<1>12. SectionsStored(file', sections')
  BY <1>1, KeptSections
<1> QED
  BY <1>7, <1>8, <1>9, <1>10, <1>11, <1>12

\* clear_content of segments whose bytes are no section's.
LEMMA ClearedKept ==
  ASSUME TInv, BytesOK(file), NEW J \in SUBSET DOMAIN segments,
         \A j \in J : Missed(sections, segments[j].offset,
                             segments[j].file_size),
         sections' = sections,
         file' = {b \in file : \A j \in J :
                    ~Overlaps(b, segments[j].offset, segments[j].file_size)}
  PROVE  /\ BytesOK(file')
         /\ \A i \in DOMAIN sections : Kept(i) /\ SameBytes(i)
<1>1. BytesOK(file')
  BY FewerBytesOK
<1>2. \A j \in J : segments[j].offset \in Nat /\ segments[j].file_size \in Nat
  BY TableFacts, EndsAreNatural
<1>3. ASSUME NEW i \in DOMAIN sections
      PROVE  Kept(i) /\ SameBytes(i)
  <2>1. ASSUME InFile(sections[i])
        PROVE  /\ Alike(file, file', sections[i].offset, sections[i].size)
               /\ Read(file', sections[i].offset, sections[i].size)
                    = Read(file, sections[i].offset, sections[i].size)
    <3>1. /\ sections[i].offset \in Nat /\ sections[i].size \in Nat
          /\ SectionFileEnd(sections[i]) = sections[i].offset + sections[i].size
      BY <2>1, TableFacts, LiveSection
    <3>2. \A j \in J : Disjoint(segments[j].offset, segments[j].file_size,
                                sections[i].offset, sections[i].size)
      BY <1>2, <2>1, <3>1 DEF Missed, Disjoint
    <3>3. Stored(file', sections[i].offset, sections[i].size)
            = Stored(file, sections[i].offset, sections[i].size)
      BY <1>2, <3>1, <3>2, StoredCleared
    <3> QED
      BY <3>3, StoredAlike
  <2> QED
    BY <2>1 DEF Kept, SameBytes, ReadSection
<1> QED
  BY <1>1, <1>3

\* Nothing happens to the file.
LEMMA FileKept ==
  ASSUME UNCHANGED <<sections, file>>
  PROVE  \A i \in DOMAIN sections : Kept(i) /\ SameBytes(i)
  BY DEF Kept, Alike, SameBytes, ReadSection

\* free_segment of PHDR: the LOAD segment that goes with it is not the one
\* that holds the file header.
LEMMA FreePhdrFirst ==
  ASSUME TInv, TInv', FirstOK, FreePhdr
  PROVE  FirstOK'
<1> DEFINE j == First(Positions(segments, "ProgramHeader"))
           c == CompanionLoad(segments, j)
           freed == {j, c} \cap DOMAIN segments
<1>1. /\ pc = "free_phdr" /\ pc' = "place_phdr"
      /\ UNCHANGED <<header, sections, names, want, calls, sessions, call>>
  BY DEF FreePhdr, Continue
<1>2. /\ Live /\ BytesOK(file)
      /\ HeaderGuarded(segments) /\ PhdrCovered(sections, segments)
  BY <1>1 DEF FirstOK, Live, Dead, TablesApart, InCalls, Finishing
<1>3. HeaderReserved(segments)
  BY <1>2 DEF HeaderGuarded, HeaderReserved
<1>4. /\ BytesOK(file') /\ \A i \in DOMAIN sections : Kept(i)
      /\ SameKind(segments', segments, "Interpreter")
      /\ SameKind(segments', segments, "Dynamic")
      /\ HeaderReserved(segments')
  <2>1. CASE j = 0
    <3>1. UNCHANGED <<segments, file>>
      BY <2>1 DEF FreePhdr
    <3> QED
      BY <1>1, <1>2, <1>3, <3>1, SameItself, FileKept
  <2>2. CASE j # 0
    <3>1. /\ segments' = Without(segments, freed)
          /\ file' = {b \in file : \A k \in freed :
                        ~Overlaps(b, segments[k].offset,
                                  segments[k].file_size)}
      BY <2>2 DEF FreePhdr
    <3>2. segments \in Seq(Segment)
      BY TableFacts
    <3>3. j \in Positions(segments, "ProgramHeader")
      <4>1. Positions(segments, "ProgramHeader") \in SUBSET DOMAIN segments
        BY DEF Positions
      <4> QED
        BY <2>2, <3>2, <4>1, FirstPosition
    <3>4. ASSUME c # 0
          PROVE  /\ c \in Positions(segments, "Loadable")
                 /\ segments[c].offset = segments[j].offset
                 /\ segments[c].file_size = segments[j].file_size
      <4> DEFINE I == {k \in Positions(segments, "Loadable") :
                         /\ segments[k].offset = segments[j].offset
                         /\ segments[k].file_size = segments[j].file_size}
      <4>1. c = First(I)
        BY <3>3 DEF CompanionLoad, Positions
      <4>2. I \in SUBSET DOMAIN segments
        BY DEF Positions
      <4> HIDE DEF c
      <4>3. c \in I
        BY <3>2, <3>4, <4>1, <4>2, FirstPosition
      <4> QED
        BY <4>3
    <3>5. ASSUME NEW k \in freed
          PROVE  /\ k \in DOMAIN segments
                 /\ segments[k].kind \in {"ProgramHeader", "Loadable"}
                 /\ segments[k].offset = segments[j].offset
                 /\ segments[k].file_size = segments[j].file_size
      <4>1. k \in DOMAIN segments /\ k # 0 /\ (k = j \/ k = c)
        BY <3>2
      <4> HIDE DEF c
      <4> QED
        BY <3>3, <3>4, <4>1 DEF Positions
    <3>6. /\ segments[j].offset >= HeaderLen
          /\ Missed(sections, segments[j].offset, segments[j].file_size)
      BY <1>2, <3>3 DEF PhdrCovered
    <3> HIDE DEF freed
    <3>7. BytesOK(file') /\ \A i \in DOMAIN sections : Kept(i)
      <4>1. freed \in SUBSET DOMAIN segments
        BY <3>5
      <4>2. \A k \in freed : Missed(sections, segments[k].offset,
                                    segments[k].file_size)
        BY <3>5, <3>6
      <4> QED
        BY <1>1, <1>2, <3>1, <4>1, <4>2, ClearedKept
    <3>8. /\ SameKind(segments', segments, "Interpreter")
          /\ SameKind(segments', segments, "Dynamic")
          /\ NoneBefore(segments', segments)
      <4>1. /\ Positions(segments, "Interpreter") \cap freed = {}
            /\ Positions(segments, "Dynamic") \cap freed = {}
        BY <3>5 DEF Positions
      <4> QED
        BY <3>1, <3>2, <4>1, WithoutSameKind
    <3>9. HeaderReserved(segments')
      <4>1. CASE SegmentsBehind(segments)
        BY <3>8, <4>1 DEF SegmentsBehind, NoneBefore, HeaderReserved
      <4>2. CASE HeaderLoaded(segments)
        <5>1. PICK k \in Positions(segments, "Loadable") :
                segments[k].offset = 0
                /\ SegmentFileEnd(segments[k]) >= HeaderLen
          BY <4>2 DEF HeaderLoaded
        <5>2. k \notin freed
          BY <3>5, <3>6, <5>1, LengthsAssumption
        <5>3. k \in DOMAIN segments \ freed
          BY <5>1, <5>2 DEF Positions
        <5>4. IsArrangement(segments', segments, DOMAIN segments \ freed)
          BY <3>1, <3>2, WithoutProperties
        <5>5. PICK n \in DOMAIN segments' : segments'[n] = segments[k]
          BY <5>3, <5>4 DEF IsArrangement
        <5>6. n \in Positions(segments', "Loadable")
          BY <5>1, <5>5 DEF Positions
        <5> QED
          BY <5>1, <5>5, <5>6 DEF HeaderLoaded, HeaderReserved
      <4> QED
        BY <1>3, <4>1, <4>2 DEF HeaderReserved
    <3> QED
      BY <3>7, <3>8, <3>9
  <2> QED
    BY <2>1, <2>2
<1>5. /\ NamesOK' /\ InterpOK' /\ DynamicOK' /\ TagsOK' /\ DynstrOK'
      /\ SectionsStored(file', sections')
  BY <1>1, <1>4, RestingFirst DEF Resting
<1>6. TablesApart'
  BY <1>1, <1>4 DEF TablesApart, InCalls, Finishing
<1> QED
  BY <1>1, <1>4, <1>5, <1>6 DEF FirstOK

\* The new PHDR is behind everything.
LEMMA PlacePhdrFirst ==
  ASSUME TInv, TInv', FirstOK, PlacePhdr
  PROVE  FirstOK'
<1> DEFINE result == AllocateSegment(sections, segments,
                                     PhdrRequest(PhdrLen(Len(segments))))
           grown == AddSegment(result.segments, result.segment)
           place == result.segment.offset
<1>1. /\ pc = "place_phdr"
      /\ UNCHANGED <<sections, names, file, call, want, calls, sessions>>
  BY DEF PlacePhdr
<1>2. /\ Live /\ BytesOK(file) /\ SectionsStored(file, sections)
      /\ {"interp", "tags"} \subseteq DOMAIN want
      /\ HeaderReserved(segments)
  BY <1>1 DEF FirstOK, Live, Dead, TablesApart
<1>3. CASE ~(result.ok /\ Fits(sections, grown))
  <2>1. pc' = "failed"
    BY <1>3 DEF PlacePhdr
  <2> QED
    BY <1>1, <1>2, <2>1 DEF FirstOK, Dead
<1>4. CASE result.ok /\ Fits(sections, grown)
  <2>1. /\ segments' = AddSegment(result.segments, result.segment)
        /\ header' = [header EXCEPT !.program_header_offset = place]
        /\ pc' = "place_tables"
    BY <1>4 DEF PlacePhdr
  <2>2. /\ sections \in Seq(Section) /\ segments \in Seq(Segment)
        /\ SectionsBehind(sections)
    BY <1>2, TableFacts DEF SectionsStored, SectionsBehind
  <2>3. /\ place \in Nat /\ place >= HeaderLen
        /\ segments' # << >>
        /\ \A i \in DOMAIN sections :
             InFile(sections[i]) => SectionFileEnd(sections[i]) <= place
        /\ \E j \in Positions(segments', "ProgramHeader") :
             /\ segments'[j].offset = place
             /\ segments'[j].file_size >= SegmentLen * Len(segments')
        /\ HeaderReserved(segments')
        /\ \A kind \in {"Interpreter", "Dynamic"} :
             SameKind(segments', segments, kind)
    BY <1>2, <1>4, <2>1, <2>2, PhdrPlaced
  <2> HIDE DEF place
  <2>4. header \in HeaderType
    BY DEF TInv, PlaceOK
  <2>5. /\ header'.program_header_offset = place
        /\ header'.section_names_index = header.section_names_index
    BY <2>1, <2>4 DEF HeaderType
  <2>6. \A i \in DOMAIN sections : Kept(i)
    BY <1>1, FileKept
  <2>7. /\ NamesOK' /\ InterpOK' /\ DynamicOK' /\ TagsOK' /\ DynstrOK'
        /\ SectionsStored(file', sections')
    BY <1>1, <2>1, <2>3, <2>5, <2>6, RestingFirst DEF Resting
  <2>8. Missed(sections', place, SegmentLen * Len(segments'))
    BY <1>1, <2>3 DEF Missed
  <2>9. TablesApart'
    BY <2>1, <2>3, <2>5, <2>8 DEF TablesApart, InCalls, Finishing
  <2> QED
    BY <1>1, <1>2, <2>1, <2>7, <2>9 DEF FirstOK
<1> QED
  BY <1>3, <1>4

\* The section header gets a place of its own.
LEMMA PlaceTablesFirst ==
  ASSUME TInv, TInv', FirstOK, PlaceTables
  PROVE  FirstOK'
<1> DEFINE len == Len(sections) * SectionLen
           place == AllocateFileSpace(sections, segments, len,
                                      SectionHeaderAlign)
<1>1. /\ pc = "place_tables" /\ pc' \in {"arrange", "failed"}
      /\ UNCHANGED <<segments, names, file, call, want, calls, sessions>>
  BY DEF PlaceTables
<1>2. /\ Live /\ BytesOK(file) /\ SectionsStored(file, sections)
      /\ {"interp", "tags"} \subseteq DOMAIN want
  BY <1>1 DEF FirstOK, Live, Dead
<1>3. sections # << >>
  <2>1. header.section_names_index \in DOMAIN sections
    BY <1>1, <1>2 DEF Live, NamesOK, Positions
  <2> QED
    BY <2>1
<1>4. FinishSections(sections) = sections
  BY <1>3 DEF FinishSections
<1>5. sections' = sections
  BY <1>4 DEF PlaceTables
<1>0. CASE pc' = "failed"
  BY <1>0, <1>1, <1>2, <1>5 DEF FirstOK, Dead
<1> SUFFICES ASSUME pc' # "failed" PROVE FirstOK'
  BY <1>0
<1>6. header \in HeaderType
  BY DEF TInv, PlaceOK
<1>7. header' = [header EXCEPT !.num_segments = Len(segments),
                               !.num_sections = Len(sections),
                               !.section_header_offset = place]
  BY <1>4, <1>5 DEF PlaceTables
<1>17. pc' = "arrange"
  BY <1>1
<1> HIDE DEF place
<1>8. /\ header'.program_header_offset = header.program_header_offset
      /\ header'.section_names_index = header.section_names_index
      /\ header'.section_header_offset = place
  BY <1>6, <1>7 DEF HeaderType
<1>9. /\ sections \in Seq(Section) /\ segments \in Seq(Segment)
      /\ SectionsBehind(sections) /\ HeaderReserved(segments)
  BY <1>1, <1>2, TableFacts DEF SectionsStored, SectionsBehind, Live,
                                TablesApart
<1>10. len \in Nat \ {0} /\ len = SectionLen * Len(sections)
  <2>1. Len(sections) \in Nat /\ Len(sections) # 0
    BY <1>3, <1>9
  <2>2. \A m, n \in Nat : m # 0 /\ n # 0 => m * n # 0 /\ m * n = n * m
    OBVIOUS
  <2> QED
    BY <2>1, <2>2, LengthsAssumption
<1>11. SectionHeaderAlign \in Nat
  BY DEF SectionHeaderAlign
<1>12. /\ place \in Nat /\ place >= HeaderLen
       /\ Missed(sections, place, len)
       /\ \A j \in DOMAIN segments :
            segments[j].kind # "Null" /\ segments[j].file_size # 0
              => \/ SegmentFileEnd(segments[j]) <= place
                 \/ place + len <= segments[j].offset
  BY <1>9, <1>10, <1>11, TablePlaced DEF place
<1>13. \/ header.program_header_offset + SegmentLen * Len(segments) <= place
       \/ place + len <= header.program_header_offset
  <2>1. PICK j \in Positions(segments, "ProgramHeader") :
          /\ segments[j].offset = header.program_header_offset
          /\ segments[j].file_size >= SegmentLen * Len(segments)
    BY <1>1, <1>2 DEF Live, TablesApart
  <2>2. segments # << >>
    BY <1>1, <1>2 DEF Live, TablesApart
  <2>3. /\ SegmentLen * Len(segments) \in Nat
        /\ SegmentLen * Len(segments) # 0
    <3>1. Len(segments) \in Nat /\ Len(segments) # 0
      BY <1>9, <2>2
    <3>2. \A m, n \in Nat : m # 0 /\ n # 0 => m * n # 0 /\ m * n \in Nat
      OBVIOUS
    <3> QED
      BY <3>1, <3>2, LengthsAssumption
  <2>4. j \in DOMAIN segments /\ segments[j].kind # "Null"
        /\ segments[j].offset \in Nat /\ segments[j].file_size \in Nat
    BY TableFacts, EndsAreNatural DEF Positions
  <2> DEFINE bytes == SegmentLen * Len(segments)
  <2> HIDE DEF bytes, len
  <2>5. bytes \in Nat /\ bytes # 0 /\ segments[j].file_size >= bytes
    BY <2>1, <2>3 DEF bytes
  <2>6. segments[j].file_size # 0
    BY <2>4, <2>5
  <2>7. \/ segments[j].offset + segments[j].file_size <= place
        \/ place + len <= segments[j].offset
    BY <1>12, <2>4, <2>6 DEF SegmentFileEnd
  <2> QED
    BY <1>10, <1>12, <2>1, <2>4, <2>5, <2>7 DEF bytes
<1>14. \A i \in DOMAIN sections : Kept(i)
  BY <1>1, <1>5, FileKept
<1>15. /\ NamesOK' /\ InterpOK' /\ DynamicOK' /\ TagsOK' /\ DynstrOK'
       /\ SectionsStored(file', sections')
  BY <1>1, <1>5, <1>8, <1>14, <1>17, RestingFirst, SameItself DEF Resting
<1>16. TablesApart'
  BY <1>1, <1>2, <1>3, <1>5, <1>8, <1>10, <1>12, <1>13, <1>17
     DEF Live, TablesApart, InCalls, Finishing
<1> QED
  BY <1>1, <1>2, <1>15, <1>16, <1>17 DEF FirstOK

\* ProgramHeader::finish changes the order of the segments only.
LEMMA ArrangeFirst ==
  ASSUME TInv, TInv', FirstOK, Arrange
  PROVE  FirstOK'
<1>1. /\ pc = "arrange" /\ pc' = "write"
      /\ segments' = FinishSegments(segments)
      /\ UNCHANGED <<header, sections, names, file, call, want, calls,
                     sessions>>
  BY DEF Arrange
<1>2. /\ Live /\ BytesOK(file)
      /\ {"interp", "tags"} \subseteq DOMAIN want
  BY <1>1 DEF FirstOK, Live, Dead
<1>3. segments \in Seq(Segment)
  BY TableFacts
<1>4. /\ SameKind(segments', segments, "Interpreter")
      /\ SameKind(segments', segments, "Dynamic")
  BY <1>1, <1>3, FinishSameKind
<1>5. segments' \in Seq(Segment) /\ Len(segments') = Len(segments)
  <2>1. /\ segments' \in Seq(Segment)
        /\ DOMAIN segments' = DOMAIN segments
    BY <1>1, <1>3, FinishSegmentsProperties
  <2>2. /\ DOMAIN segments = 1 .. Len(segments) /\ Len(segments) \in Nat
        /\ DOMAIN segments' = 1 .. Len(segments') /\ Len(segments') \in Nat
    BY <1>3, <2>1
  <2> QED
    BY <2>1, <2>2
<1>6. segments' # << >>
  BY <1>1, <1>2, <1>3, <1>5 DEF Live, TablesApart
<1>7. \A i \in DOMAIN sections : Kept(i)
  BY <1>1, FileKept
<1>8. /\ NamesOK' /\ InterpOK' /\ DynamicOK' /\ TagsOK' /\ DynstrOK'
      /\ SectionsStored(file', sections')
  BY <1>1, <1>4, <1>7, RestingFirst DEF Resting
<1>9. TablesApart'
  BY <1>1, <1>2, <1>5, <1>6 DEF Live, TablesApart, InCalls, Finishing
<1> QED
  BY <1>1, <1>2, <1>8, <1>9 DEF FirstOK

\* A write in a place where no section has bytes.
LEMMA WriteMisses ==
  ASSUME NEW bytes, NEW o \in Nat, NEW l \in Nat, NEW content,
         NEW secs \in Seq(Section), Missed(secs, o, l)
  PROVE  \A i \in DOMAIN secs : InFile(secs[i]) =>
           Stored(Write(bytes, o, l, content), secs[i].offset, secs[i].size)
             = Stored(bytes, secs[i].offset, secs[i].size)
<1> SUFFICES ASSUME NEW i \in DOMAIN secs, InFile(secs[i])
             PROVE  Stored(Write(bytes, o, l, content), secs[i].offset,
                           secs[i].size)
                      = Stored(bytes, secs[i].offset, secs[i].size)
  OBVIOUS
<1>1. /\ secs[i].offset \in Nat /\ secs[i].size \in Nat \ {0}
      /\ SectionFileEnd(secs[i]) = secs[i].offset + secs[i].size
  BY LiveSection
<1>2. Disjoint(o, l, secs[i].offset, secs[i].size)
  BY <1>1 DEF Missed, Disjoint
<1> QED
  BY <1>1, <1>2, StoredWrite

\* Elf::write: the header and the two tables are apart from one another and
\* from the sections.
LEMMA WriteElfFirst ==
  ASSUME TInv, TInv', FirstOK, WriteElf
  PROVE  FirstOK'
<1> DEFINE po == header.program_header_offset
           pl == SegmentLen * Len(segments)
           so == header.section_header_offset
           sl == SectionLen * Len(sections)
           h == [header |-> header]
           p == [segments |-> segments]
           s == [sections |-> sections]
           first == Write(file, 0, HeaderLen, h)
           second == Write(first, po, pl, p)
           third == Write(second, so, sl, s)
<1>1. /\ pc = "write"
      /\ UNCHANGED <<elf, names, call, want, calls, sessions>>
  BY DEF WriteElf
<1>2. /\ Live /\ BytesOK(file) /\ SectionsStored(file, sections)
      /\ {"interp", "tags"} \subseteq DOMAIN want
  BY <1>1 DEF FirstOK, Live, Dead
<1>3. UNCHANGED <<header, sections, segments>>
  BY <1>1 DEF elf
<1>4. CASE ~Accepted(header, sections, segments)
  <2>1. pc' = "rejected" /\ file' = file
    BY <1>4 DEF WriteElf
  <2> QED
    BY <1>1, <1>2, <1>3, <2>1 DEF FirstOK, Dead
<1>5. CASE Accepted(header, sections, segments)
  <2>1. file' = third /\ pc' = "closed"
    BY <1>5 DEF WriteElf
  <2>2. /\ segments # << >> /\ po >= HeaderLen
        /\ Missed(sections, po, pl)
        /\ sections # << >> /\ so >= HeaderLen
        /\ Missed(sections, so, sl)
        /\ po + pl <= so \/ so + sl <= po
    BY <1>1, <1>2 DEF Live, TablesApart
  <2>3. /\ header \in HeaderType
        /\ sections \in Seq(Section) /\ segments \in Seq(Segment)
    BY TableFacts DEF TInv, PlaceOK
  <2>4. HeaderLen \in Nat \ {0}
    BY LengthsAssumption
  <2>5. po \in Nat /\ so \in Nat
    BY <2>3 DEF HeaderType
  <2>6. pl \in Nat \ {0} /\ sl \in Nat \ {0}
    <3>1. /\ Len(segments) \in Nat \ {0} /\ Len(sections) \in Nat \ {0}
      BY <2>2, <2>3
    <3>2. \A m, n \in Nat \ {0} : m * n \in Nat \ {0}
      OBVIOUS
    <3> QED
      BY <3>1, <3>2, LengthsAssumption
  <2>7. Missed(sections, 0, HeaderLen)
    <3>1. \A i \in DOMAIN sections :
            InFile(sections[i]) => sections[i].offset >= HeaderLen
      BY <1>2 DEF SectionsStored
    <3> QED
      BY <2>4, <3>1 DEF Missed
  <2>8. h # Garbage /\ p # Garbage /\ s # Garbage
    <3>1. /\ "garbage" \notin DOMAIN h /\ "garbage" \notin DOMAIN p
          /\ "garbage" \notin DOMAIN s
      OBVIOUS
    <3> HIDE DEF h, p, s
    <3> QED
      BY <3>1, NotGarbage
  <2> HIDE DEF po, pl, so, sl, h, p, s
  <2>9. BytesOK(first)
    BY <1>2, <2>4, <2>8, WriteBytesOK
  <2>10. BytesOK(second)
    <3> HIDE DEF first
    <3> QED
      BY <2>5, <2>6, <2>8, <2>9, WriteBytesOK
  <2>11. BytesOK(third)
    <3> HIDE DEF second
    <3> QED
      BY <2>5, <2>6, <2>8, <2>10, WriteBytesOK
  <2>12. \A i \in DOMAIN sections : InFile(sections[i]) =>
           Stored(third, sections[i].offset, sections[i].size)
             = Stored(file, sections[i].offset, sections[i].size)
    <3>1. \A i \in DOMAIN sections : InFile(sections[i]) =>
            Stored(first, sections[i].offset, sections[i].size)
              = Stored(file, sections[i].offset, sections[i].size)
      BY <2>3, <2>4, <2>7, WriteMisses
    <3> HIDE DEF first
    <3>2. \A i \in DOMAIN sections : InFile(sections[i]) =>
            Stored(second, sections[i].offset, sections[i].size)
              = Stored(first, sections[i].offset, sections[i].size)
      BY <2>2, <2>3, <2>5, <2>6, WriteMisses
    <3> HIDE DEF second
    <3>3. \A i \in DOMAIN sections : InFile(sections[i]) =>
            Stored(third, sections[i].offset, sections[i].size)
              = Stored(second, sections[i].offset, sections[i].size)
      BY <2>2, <2>3, <2>5, <2>6, WriteMisses
    <3> QED
      BY <3>1, <3>2, <3>3
  <2>13. \A i \in DOMAIN sections : Kept(i)
    BY <1>3, <2>1, <2>12, StoredAlike DEF Kept
  <2>14. /\ NamesOK' /\ InterpOK' /\ DynamicOK' /\ TagsOK' /\ DynstrOK'
         /\ SectionsStored(file', sections')
    BY <1>1, <1>3, <2>1, <2>13, RestingFirst, SameItself DEF Resting
  <2>15. TablesApart'
    <3>1. sessions # 0
      BY <1>1 DEF FirstOK
    <3> QED
      BY <1>1, <2>1, <3>1 DEF TablesApart, InCalls, Finishing
  <2>16. TablesIntact'
    <3>1. Read(third, so, sl) = s
      <4> HIDE DEF second
      <4> QED
        BY <2>5, <2>6, ReadWritten
    <3>2. Read(third, po, pl) = p
      <4>1. Read(second, po, pl) = p
        <5> HIDE DEF first
        <5> QED
          BY <2>5, <2>6, ReadWritten
      <4>2. Disjoint(so, sl, po, pl)
        BY <2>2 DEF Disjoint
      <4> HIDE DEF second
      <4>3. Stored(third, po, pl) = Stored(second, po, pl)
        BY <2>5, <2>6, <4>2, StoredWrite
      <4> QED
        BY <4>1, <4>3, StoredAlike
    <3>3. Read(third, 0, HeaderLen) = h
      <4>1. Read(first, 0, HeaderLen) = h
        BY <2>4, ReadWritten
      <4>2. Disjoint(po, pl, 0, HeaderLen) /\ Disjoint(so, sl, 0, HeaderLen)
        BY <2>2, <2>4, <2>5, <2>6 DEF Disjoint
      <4> HIDE DEF first
      <4>3. Stored(second, 0, HeaderLen) = Stored(first, 0, HeaderLen)
        BY <2>4, <2>5, <2>6, <4>2, StoredWrite
      <4> HIDE DEF second
      <4>4. Stored(third, 0, HeaderLen) = Stored(second, 0, HeaderLen)
        BY <2>4, <2>5, <2>6, <4>2, StoredWrite
      <4> QED
        BY <4>1, <4>3, <4>4, StoredAlike
    <3> QED
      BY <1>3, <2>1, <3>1, <3>2, <3>3
         DEF TablesIntact, Intact, po, pl, so, sl, h, p, s
  <2> QED
    BY <1>1, <1>2, <2>1, <2>11, <2>14, <2>15, <2>16 DEF FirstOK
<1> QED
  BY <1>4, <1>5

(***************************************************************************)
(* set_interpreter and remove_interpreter in the first session.            *)
(***************************************************************************)

InterpPhases == {"free_interp", "drop_interp", "place_interp",
                 "overlay_interp"}

\* The sections of tables stay, and no slot becomes spare that names may need.
TablesKept ==
  /\ \A k \in DOMAIN sections :
       sections[k].kind \in {"StringTable", "Dynamic"} => Kept(k)
  /\ \A k \in DOMAIN sections' :
       sections'[k].kind \in {"StringTable", "Dynamic"}
         => k \in DOMAIN sections /\ sections'[k] = sections[k]
  /\ \/ ".interp" \in CachedNames.strings
     \/ SpareSlots(sections') \subseteq SpareSlots(sections)

\* The steps of these calls leave the dynamic table and the names alone.
LEMMA InterpFrame ==
  ASSUME TInv, TInv', FirstOK, TablesKept,
         Phase \in InterpPhases, Phase' \in InterpPhases \cup {"ready"},
         pc \notin Dead, pc # "place_names", pc' # "place_names",
         SameKind(segments', segments, "Dynamic"),
         UNCHANGED <<header, want>>, names' \in {names, CachedNames}
  PROVE  /\ CachedNames' = CachedNames /\ SectionNames' = SectionNames
         /\ names' # Unread => names' = SectionNames'
         /\ header'.section_names_index \in Positions(sections', "StringTable")
         /\ InFile(sections'[header'.section_names_index])
         /\ DynamicOK' /\ TagsOK' /\ DynstrOK'
<1> DEFINE index == header.section_names_index
<1>1. Live
  BY DEF FirstOK, Live
<1>2. /\ index \in Positions(sections, "StringTable")
      /\ InFile(sections[index])
      /\ names # Unread => names = SectionNames
  BY <1>1 DEF Live, NamesOK
<1>3. index \in DOMAIN sections /\ Kept(index)
  BY <1>2 DEF Positions, TablesKept
<1>4. SectionNames' = SectionNames
  BY <1>2, <1>3, NamesKept
<1>5. CachedNames = SectionNames
  BY <1>2, CacheIsNames
<1>6. names' # Unread => names' = SectionNames'
  BY <1>2, <1>4, <1>5
<1>7. CachedNames' = SectionNames'
  BY <1>6 DEF CachedNames
<1>8. /\ header'.section_names_index \in Positions(sections', "StringTable")
      /\ InFile(sections'[header'.section_names_index])
  BY <1>2, <1>3 DEF Positions, Kept
<1>9. /\ Positions(sections', "Dynamic") = Positions(sections, "Dynamic")
      /\ \A i \in Positions(sections, "Dynamic") : Kept(i)
  BY DEF Positions, TablesKept, Kept
<1>10. DynamicTags' = DynamicTags
  BY <1>9, DynamicKept
<1>11. Phase \notin WithoutTable \cup {"overlay_dynamic", "free_dynamic",
                                       "shrink_dynamic"}
       /\ Phase' \notin WithoutTable \cup {"overlay_dynamic", "free_dynamic",
                                           "shrink_dynamic"}
  BY DEF InterpPhases, WithoutTable
<1>12. DynamicOK'
  <2>1. DynamicCoincides(sections', segments')
    BY <1>1, <1>9, DynamicCoincidesKept
       DEF Live, DynamicOK, SameKind, Kept
  <2>2. Single(Positions(segments', "Dynamic"))
    BY <1>1 DEF Live, DynamicOK, SameKind
  <2> QED
    BY <1>1, <1>9, <1>11, <2>1, <2>2 DEF Live, DynamicOK, WithoutTable
<1>13. TagsOK'
  <2>1. want.tags = Values(DynamicTags)
    BY <1>1, <1>11 DEF Live, TagsOK, WithoutTable
  <2> QED
    BY <1>10, <1>11, <2>1 DEF TagsOK, WithoutTable, Values
<1>14. DynstrOK'
  <2>1. ASSUME DynstrFound(sections, DynamicTags, index, CachedNames.strings)
        PROVE  DynstrFound(sections', DynamicTags, index, CachedNames.strings)
    <3>1. PICK d \in DOMAIN sections :
            /\ IsDynstr(sections, DynamicTags, d)
            /\ d < index
            /\ \/ ".interp" \in CachedNames.strings
               \/ \A n \in SpareSlots(sections) : d < n
      BY <2>1 DEF DynstrFound
    <3>2. d \in DOMAIN sections' /\ sections'[d] = sections[d]
      BY <3>1 DEF TablesKept, Kept, IsDynstr, Positions
    <3>3. IsDynstr(sections', DynamicTags, d)
      BY <3>1, <3>2 DEF IsDynstr, Positions
    <3>4. \/ ".interp" \in CachedNames.strings
          \/ \A n \in SpareSlots(sections') : d < n
      BY <3>1 DEF TablesKept
    <3> QED
      BY <3>1, <3>2, <3>3, <3>4 DEF DynstrFound
  <2>2. Positions(sections, "Dynamic") # {}
          => /\ NamesForTags \subseteq CachedNames.strings
             /\ DynstrFound(sections, DynamicTags, index, CachedNames.strings)
    BY <1>1, <1>11 DEF Live, DynstrOK
  <2>3. CachedNames' = CachedNames
    BY <1>4, <1>5, <1>7
  <2>4. Positions(sections', "Dynamic") # {}
          => /\ NamesForTags \subseteq CachedNames'.strings
             /\ DynstrFound(sections', DynamicTags',
                            header'.section_names_index,
                            CachedNames'.strings)
    BY <1>9, <1>10, <2>1, <2>2, <2>3
  <2> QED
    BY <1>11, <2>4 DEF DynstrOK, WithoutTable
<1> QED
  BY <1>4, <1>5, <1>6, <1>7, <1>8, <1>12, <1>13, <1>14

\* One round of the loop that frees the sections .interp.
LEMMA FreeInterpFirst ==
  ASSUME TInv, TInv', FirstOK, FreeInterp
  PROVE  FirstOK'
<1> DEFINE interp == {i \in DOMAIN sections :
                        /\ sections[i].name = ".interp"
                        /\ ".interp" \in CachedNames.strings}
           i == First(interp)
<1>1. /\ pc = "free_interp" /\ names' = CachedNames
      /\ pc' \in {"free_interp", "drop_interp"}
      /\ UNCHANGED <<header, segments, want, calls, sessions, call>>
  BY DEF FreeInterp, Continue
<1>2. /\ Live /\ BytesOK(file) /\ SectionsStored(file, sections)
      /\ {"interp", "tags"} \subseteq DOMAIN want
      /\ HeaderGuarded(segments) /\ PhdrCovered(sections, segments)
      /\ InCalls'
  BY <1>1 DEF FirstOK, Live, Dead, TablesApart, InCalls, Finishing
<1>3. Phase = "free_interp" /\ Phase' = pc'
  BY <1>1 DEF Phase, NameSteps
<1>4. interp = InterpSections(sections)
  BY <1>2 DEF Live, NamesOK, InterpSections
<1>5. /\ Single(Positions(segments, "Interpreter"))
      /\ \A j \in Positions(segments, "Interpreter") :
           \/ Missed(sections, segments[j].offset, segments[j].file_size)
           \/ \E k \in InterpSections(sections) :
                Coincide(segments[j], sections[k])
      /\ want.interp = IF call.op = "set_interpreter" THEN call.value
                       ELSE Absent
  BY <1>2, <1>3 DEF Live, InterpOK
<1>6. CASE interp = {}
  <2>1. pc' = "drop_interp" /\ UNCHANGED <<sections, file>>
    BY <1>6 DEF FreeInterp, Continue
  <2>2. TablesKept
    BY <2>1, FileKept DEF TablesKept
  <2>3. /\ CachedNames' = CachedNames /\ SectionNames' = SectionNames
        /\ names' # Unread => names' = SectionNames'
        /\ header'.section_names_index \in Positions(sections', "StringTable")
        /\ InFile(sections'[header'.section_names_index])
        /\ DynamicOK' /\ TagsOK' /\ DynstrOK'
    BY <1>1, <1>3, <2>2, InterpFrame, SameItself DEF InterpPhases, Dead
  <2>4. NamesOK'
    BY <1>1, <1>2, <2>1, <2>3 DEF Live, NamesOK
  <2>5. InterpOK'
    BY <1>1, <1>3, <1>4, <1>5, <1>6, <2>1 DEF InterpOK
  <2>6. TablesApart'
    BY <1>1, <1>2, <2>1 DEF TablesApart
  <2> QED
    BY <1>1, <1>2, <2>1, <2>3, <2>4, <2>5, <2>6 DEF FirstOK
<1>7. CASE interp # {}
  <2>1. Free(i) /\ pc' = "free_interp"
    BY <1>1, <1>7 DEF FreeInterp
  <2>2. i \in interp /\ i \in DOMAIN sections
    BY <1>7, TableFacts, FirstPosition
  <2>3. sections[i].kind = "ProgramBits"
    BY <1>2, <1>4, <2>2 DEF Live, NamesOK
  <2>4. ".interp" \in CachedNames.strings
    BY <2>2
  <2> HIDE DEF i, interp
  <2>5. /\ DOMAIN sections' = DOMAIN sections
        /\ sections'[i] = NullSection
        /\ \A k \in DOMAIN sections : k # i => Kept(k)
        /\ BytesOK(file') /\ SectionsStored(file', sections')
        /\ \A offset, len : Missed(sections, offset, len)
                              => Missed(sections', offset, len)
        /\ InFile(sections[i])
             => Missed(sections', sections[i].offset, sections[i].size)
    BY <1>2, <2>1, <2>2, <2>3, FreeFrame
  <2>6. NullSection.kind = "Null" /\ NullSection.name = NoName
    BY DEF NullSection
  <2>7. TablesKept
    BY <2>3, <2>4, <2>5, <2>6 DEF TablesKept, Kept
  <2>8. /\ CachedNames' = CachedNames /\ SectionNames' = SectionNames
        /\ names' # Unread => names' = SectionNames'
        /\ header'.section_names_index \in Positions(sections', "StringTable")
        /\ InFile(sections'[header'.section_names_index])
        /\ DynamicOK' /\ TagsOK' /\ DynstrOK'
    BY <1>1, <1>3, <2>7, InterpFrame, SameItself DEF InterpPhases, Dead
  <2>9. ".interp" # NoName
    BY PatchNamesAssumption DEF PatchNames
  <2>10. \A k \in InterpSections(sections') :
           k \in InterpSections(sections) /\ sections'[k] = sections[k]
    BY <2>5, <2>6, <2>9 DEF InterpSections, Kept
  <2>11. NamesOK'
    BY <1>1, <1>2, <2>1, <2>4, <2>8, <2>10 DEF Live, NamesOK
  <2>12. ASSUME NEW j \in Positions(segments, "Interpreter")
         PROVE  \/ Missed(sections', segments[j].offset, segments[j].file_size)
                \/ \E k \in InterpSections(sections') :
                     Coincide(segments[j], sections'[k])
    <3>1. CASE Missed(sections, segments[j].offset, segments[j].file_size)
      BY <2>5, <3>1
    <3>2. ASSUME NEW k \in InterpSections(sections),
                 Coincide(segments[j], sections[k])
          PROVE  \/ Missed(sections', segments[j].offset,
                           segments[j].file_size)
                 \/ \E m \in InterpSections(sections') :
                      Coincide(segments[j], sections'[m])
      <4>1. CASE k = i
        BY <2>5, <3>2, <4>1 DEF Coincide
      <4>2. CASE k # i
        <5>1. k \in InterpSections(sections') /\ sections'[k] = sections[k]
          BY <2>5, <4>2 DEF InterpSections, Kept
        <5> QED
          BY <3>2, <5>1
      <4> QED
        BY <4>1, <4>2
    <3> QED
      BY <1>5, <3>1, <3>2
  <2>13. InterpOK'
    BY <1>1, <1>3, <1>5, <2>1, <2>12 DEF InterpOK
  <2>14. PhdrCovered(sections', segments')
    BY <1>1, <1>2, <2>5 DEF PhdrCovered
  <2>15. TablesApart'
    BY <1>1, <1>2, <2>1, <2>14 DEF TablesApart
  <2> QED
    BY <1>1, <1>2, <2>1, <2>5, <2>8, <2>11, <2>13, <2>15 DEF FirstOK
<1> QED
  BY <1>6, <1>7

\* clear_content and retain: the bytes of INTERP are no section's by then.
LEMMA DropInterpFirst ==
  ASSUME TInv, TInv', FirstOK, DropInterp
  PROVE  FirstOK'
<1> DEFINE J == Positions(segments, "Interpreter")
<1>1. /\ pc = "drop_interp" /\ segments' = Without(segments, J)
      /\ file' = {b \in file : \A j \in J :
                    ~Overlaps(b, segments[j].offset, segments[j].file_size)}
      /\ UNCHANGED <<header, sections, names, want, calls, sessions>>
  BY DEF DropInterp
<1>2. /\ Live /\ BytesOK(file) /\ SectionsStored(file, sections)
      /\ {"interp", "tags"} \subseteq DOMAIN want
      /\ HeaderGuarded(segments) /\ PhdrCovered(sections, segments)
  BY <1>1 DEF FirstOK, Live, Dead, TablesApart, InCalls, Finishing
<1>3. Phase = "drop_interp"
  BY <1>1 DEF Phase, NameSteps
<1>4. /\ \A j \in J : Missed(sections, segments[j].offset,
                             segments[j].file_size)
      /\ want.interp = IF call.op = "set_interpreter" THEN call.value
                       ELSE Absent
  BY <1>2, <1>3 DEF Live, InterpOK
<1>5. BytesOK(file') /\ \A i \in DOMAIN sections : Kept(i)
  <2>1. J \in SUBSET DOMAIN segments
    BY DEF Positions
  <2> QED
    BY <1>1, <1>2, <1>4, <2>1, ClearedKept
<1>6. /\ SectionsStored(file', sections') /\ TablesKept
  <2>1. SectionsStored(file', sections')
    BY <1>1, <1>2, <1>5, KeptSections
  <2>2. TablesKept
    BY <1>1, <1>5 DEF TablesKept
  <2> QED
    BY <2>1, <2>2
<1>7. /\ Positions(segments', "Interpreter") = {}
      /\ SameKind(segments', segments, "Dynamic")
      /\ Has(segments', segments, "Loadable")
      /\ SameKind(segments', segments, "ProgramHeader")
      /\ NoneBefore(segments', segments)
  <2>1. segments \in Seq(Segment)
    BY TableFacts
  <2>2. /\ Positions(segments, "Dynamic") \cap J = {}
        /\ Positions(segments, "Loadable") \cap J = {}
        /\ Positions(segments, "ProgramHeader") \cap J = {}
    BY DEF Positions
  <2> HIDE DEF J
  <2> QED
    BY <1>1, <2>1, <2>2, WithoutSameKind DEF J, SameKind
<1>8. HeaderGuarded(segments') /\ PhdrCovered(sections', segments')
  <2>1. HeaderGuarded(segments')
    BY <1>2, <1>7, GuardedKept DEF SameKind
  <2>2. \A j \in Positions(segments, "ProgramHeader") :
          Missed(sections', segments[j].offset, segments[j].file_size)
    BY <1>1, <1>2 DEF PhdrCovered
  <2> QED
    BY <1>2, <1>7, <2>1, <2>2, CoveredKept DEF SameKind
<1>9. \/ /\ call.op = "set_interpreter" /\ pc' = "find_name"
         /\ Phase' = "place_interp" /\ call'.value = call.value
      \/ /\ call.op # "set_interpreter" /\ pc' = "ready" /\ Phase' = "ready"
  <2>1. CASE call.op = "set_interpreter"
    <3>1. /\ pc' = "find_name"
          /\ call' = [call EXCEPT !.name = ".interp", !.then = "place_interp"]
      BY <1>1, <2>1 DEF DropInterp
    <3>2. {"name", "then"} \subseteq DOMAIN call
      BY DEF TInv, CallOK, NoCall
    <3>3. call'.then = "place_interp" /\ call'.value = call.value
      BY <3>1, <3>2
    <3> QED
      BY <2>1, <3>1, <3>3 DEF Phase, NameSteps
  <2>2. CASE call.op # "set_interpreter"
    <3>1. pc' = "ready"
      BY <1>1, <2>2 DEF DropInterp, Return
    <3> QED
      BY <2>2, <3>1 DEF Phase, NameSteps
  <2> QED
    BY <2>1, <2>2
<1>10. /\ CachedNames' = CachedNames /\ SectionNames' = SectionNames
       /\ names' # Unread => names' = SectionNames'
       /\ header'.section_names_index \in Positions(sections', "StringTable")
       /\ InFile(sections'[header'.section_names_index])
       /\ DynamicOK' /\ TagsOK' /\ DynstrOK'
  BY <1>1, <1>3, <1>6, <1>7, <1>9, InterpFrame DEF InterpPhases, Dead
<1>11. NamesOK'
  BY <1>1, <1>2, <1>9, <1>10 DEF Live, NamesOK
<1>12. InterpOK'
  <2>1. Interpreter' = Absent
    BY <1>7 DEF Interpreter, First
  <2>2. InterpCoincides(sections', segments')
    BY <1>7 DEF InterpCoincides
  <2>3. Single(Positions(segments', "Interpreter"))
    BY <1>7 DEF Single
  <2> QED
    BY <1>1, <1>4, <1>7, <1>9, <2>1, <2>2, <2>3 DEF InterpOK
<1>13. TablesApart'
  BY <1>8, <1>9 DEF TablesApart
<1> QED
  BY <1>1, <1>2, <1>5, <1>6, <1>9, <1>10, <1>11, <1>12, <1>13 DEF FirstOK

\* The section .interp is placed.
LEMMA PlaceInterpFirst ==
  ASSUME TInv, TInv', FirstOK, PlaceInterp
  PROVE  FirstOK'
<1> DEFINE request == Request(".interp", "ProgramBits", FALSE,
                              StringLen[call.value], 1, InterpAlign)
           content == [interp |-> call.value]
           slot == SpareSlot(sections)
<1>1. /\ pc = "place_interp" /\ Place(request, content, "overlay_interp")
      /\ call' = [call EXCEPT !.slot = SpareSlot(sections)]
      /\ UNCHANGED <<header, names, want, calls, sessions>>
  BY DEF PlaceInterp
<1>2. /\ Live /\ BytesOK(file) /\ SectionsStored(file, sections)
      /\ {"interp", "tags"} \subseteq DOMAIN want
      /\ HeaderGuarded(segments) /\ PhdrCovered(sections, segments)
  BY <1>1 DEF FirstOK, Live, Dead, TablesApart, InCalls, Finishing
<1>3. Phase = "place_interp"
  BY <1>1 DEF Phase, NameSteps
<1>4. /\ Positions(segments, "Interpreter") = {}
      /\ want.interp = call.value
      /\ ".interp" \in CachedNames.strings
  BY <1>1, <1>2, <1>3 DEF Live, InterpOK, NamesOK
<1>5. /\ Requestable(request) /\ request.kind = "ProgramBits"
      /\ request.name = ".interp" /\ request.size # 0
  <2>1. call.value \in Interps
    BY <1>1 DEF TInv, CallOK
  <2>2. StringLen[call.value] \in Nat \ {0}
    BY <2>1, StringLenAssumption
  <2>3. ".interp" \in Names
    BY PatchNamesAssumption DEF PatchNames
  <2>4. InterpAlign \in Word
    BY AlignsAssumption
  <2> QED
    BY <2>2, <2>3, <2>4 DEF Requestable, Request, SectionKinds
<1>6. /\ content # Garbage /\ "tags" \notin DOMAIN content
      /\ InterpIn(content) = call.value
  <2>1. /\ "garbage" \notin DOMAIN content /\ "interp" \in DOMAIN content
        /\ "tags" \notin DOMAIN content /\ content.interp = call.value
    OBVIOUS
  <2> HIDE DEF content
  <2> QED
    BY <2>1, NotGarbage DEF InterpIn
<1> HIDE DEF request, content, slot
<1>7. \/ pc' = "failed" /\ UNCHANGED <<sections, segments, file>>
      \/ /\ pc' = "overlay_interp"
         /\ slot \in DOMAIN sections'
         /\ sections'[slot].name = ".interp"
         /\ sections'[slot].kind = "ProgramBits"
         /\ InFile(sections'[slot])
         /\ Read(file', sections'[slot].offset, sections'[slot].size) = content
         /\ slot \in DOMAIN sections => sections[slot].kind = "Null"
         /\ \A k \in DOMAIN sections : k # slot => Kept(k)
         /\ \A k \in DOMAIN sections' : k # slot =>
              \/ k \in DOMAIN sections
              \/ k = 1 /\ sections'[k] = NullSection
         /\ BytesOK(file') /\ SectionsStored(file', sections')
         /\ HeaderGuarded(segments')
         /\ PhdrCovered(sections', segments')
         /\ SameKind(segments', segments, "Interpreter")
         /\ SameKind(segments', segments, "Dynamic")
  BY <1>1, <1>2, <1>5, <1>6, PlaceFrame DEF slot
<1>8. CASE pc' = "failed" /\ UNCHANGED <<sections, segments, file>>
  BY <1>1, <1>2, <1>8 DEF FirstOK, Dead
<1>9. CASE pc' # "failed"
  <2>1. /\ pc' = "overlay_interp"
        /\ slot \in DOMAIN sections'
        /\ sections'[slot].name = ".interp"
        /\ sections'[slot].kind = "ProgramBits"
        /\ InFile(sections'[slot])
        /\ Read(file', sections'[slot].offset, sections'[slot].size) = content
        /\ slot \in DOMAIN sections => sections[slot].kind = "Null"
        /\ \A k \in DOMAIN sections : k # slot => Kept(k)
        /\ \A k \in DOMAIN sections' : k # slot =>
             \/ k \in DOMAIN sections
             \/ k = 1 /\ sections'[k] = NullSection
        /\ BytesOK(file') /\ SectionsStored(file', sections')
        /\ HeaderGuarded(segments')
        /\ PhdrCovered(sections', segments')
        /\ SameKind(segments', segments, "Interpreter")
        /\ SameKind(segments', segments, "Dynamic")
    BY <1>7, <1>9
  <2>2. Phase' = "overlay_interp"
    BY <2>1 DEF Phase, NameSteps
  <2>3. NullSection.kind = "Null" /\ NullSection.name = NoName
    BY DEF NullSection
  <2>4. TablesKept
    BY <1>4, <2>1, <2>3 DEF TablesKept, Kept
  <2>5. /\ CachedNames' = CachedNames /\ SectionNames' = SectionNames
        /\ names' # Unread => names' = SectionNames'
        /\ header'.section_names_index \in Positions(sections', "StringTable")
        /\ InFile(sections'[header'.section_names_index])
        /\ DynamicOK' /\ TagsOK' /\ DynstrOK'
    BY <1>1, <1>3, <2>1, <2>2, <2>4, InterpFrame DEF InterpPhases, Dead
  <2>6. ".interp" # NoName
    BY PatchNamesAssumption DEF PatchNames
  <2>7. \A k \in InterpSections(sections') :
          sections'[k].kind = "ProgramBits"
    <3>1. ASSUME NEW k \in InterpSections(sections'), k # slot
          PROVE  k \in InterpSections(sections) /\ sections'[k] = sections[k]
      BY <2>1, <2>3, <2>6, <3>1 DEF InterpSections, Kept
    <3> QED
      BY <1>2, <2>1, <3>1 DEF Live, NamesOK
  <2>8. NamesOK'
    BY <1>4, <2>1, <2>5, <2>7 DEF NamesOK
  <2>9. InterpOK'
    <3>1. Positions(segments', "Interpreter") = {}
      BY <1>4, <2>1 DEF SameKind, Has
    <3>2. call'.slot = slot /\ call'.value = call.value
      BY <1>1 DEF TInv, CallOK, NoCall, slot
    <3>3. InterpIn(ReadSection(call.slot))' = call.value
      BY <1>6, <2>1, <3>2 DEF ReadSection
    <3>4. InterpCoincides(sections', segments')
      BY <3>1 DEF InterpCoincides
    <3>5. Single(Positions(segments', "Interpreter"))
      BY <3>1 DEF Single
    <3> QED
      BY <1>1, <1>4, <2>1, <2>2, <3>1, <3>2, <3>3, <3>4, <3>5 DEF InterpOK
  <2>10. TablesApart'
    BY <2>1 DEF TablesApart
  <2> QED
    BY <1>1, <1>2, <2>1, <2>5, <2>8, <2>9, <2>10 DEF FirstOK
<1> QED
  BY <1>7, <1>8, <1>9

\* INTERP is the bytes of the new section.
LEMMA OverlayInterpFirst ==
  ASSUME TInv, TInv', FirstOK, OverlayInterp
  PROVE  FirstOK'
<1> DEFINE s == sections[call.slot]
           g == OverlaySegment(s, "Interpreter")
<1>1. /\ pc = "overlay_interp" /\ pc' = "ready"
      /\ segments' = Append(segments, g)
      /\ UNCHANGED <<header, sections, names, file, want, calls, sessions>>
  BY DEF OverlayInterp, Return
<1>2. /\ Live /\ BytesOK(file) /\ SectionsStored(file, sections)
      /\ {"interp", "tags"} \subseteq DOMAIN want
      /\ HeaderGuarded(segments) /\ PhdrCovered(sections, segments)
  BY <1>1 DEF FirstOK, Live, Dead, TablesApart, InCalls, Finishing
<1>3. Phase = "overlay_interp" /\ Phase' = "ready"
  BY <1>1 DEF Phase, NameSteps
<1>4. /\ Positions(segments, "Interpreter") = {}
      /\ want.interp = call.value
      /\ InFile(s) /\ s.name = ".interp"
      /\ InterpIn(ReadSection(call.slot)) = call.value
  BY <1>2, <1>3 DEF Live, InterpOK
<1>5. /\ call.slot \in DOMAIN sections /\ s \in Section
      /\ segments \in Seq(Segment)
  BY <1>1, TableFacts DEF TInv, SlotOK
<1>6. /\ g \in Segment /\ g.kind = "Interpreter" /\ g.offset = s.offset
      /\ g.file_size = s.size /\ g.offset \in Nat /\ g.offset >= HeaderLen
  <2>1. s.offset \in Nat /\ s.offset >= HeaderLen
    BY <1>2, <1>4, <1>5, LiveSection DEF SectionsStored
  <2>2. g \in Segment
    BY <1>5, OverlayIsSegment
  <2> QED
    BY <2>1, <2>2 DEF OverlaySegment
<1> HIDE DEF g
<1>7. /\ Positions(segments', "Interpreter") = {Len(segments')}
      /\ segments'[Len(segments')] = g
      /\ SameKind(segments', segments, "Dynamic")
      /\ Has(segments', segments, "Loadable")
      /\ SameKind(segments', segments, "ProgramHeader")
      /\ NoneBefore(segments', segments)
  BY <1>1, <1>4, <1>5, <1>6, AppendSameKind DEF SameKind
<1>8. HeaderGuarded(segments') /\ PhdrCovered(sections', segments')
  <2>1. HeaderGuarded(segments')
    BY <1>2, <1>7, GuardedKept DEF SameKind
  <2>2. \A j \in Positions(segments, "ProgramHeader") :
          Missed(sections', segments[j].offset, segments[j].file_size)
    BY <1>1, <1>2 DEF PhdrCovered
  <2> QED
    BY <1>2, <1>7, <2>1, <2>2, CoveredKept DEF SameKind
<1>9. TablesKept
  BY <1>1, FileKept DEF TablesKept
<1>10. /\ CachedNames' = CachedNames /\ SectionNames' = SectionNames
       /\ names' # Unread => names' = SectionNames'
       /\ header'.section_names_index \in Positions(sections', "StringTable")
       /\ InFile(sections'[header'.section_names_index])
       /\ DynamicOK' /\ TagsOK' /\ DynstrOK'
  BY <1>1, <1>3, <1>7, <1>9, InterpFrame DEF InterpPhases, Dead
<1>11. NamesOK'
  BY <1>1, <1>2, <1>10 DEF Live, NamesOK
<1>12. InterpOK'
  <2> DEFINE n == Len(segments')
  <2>1. segments' \in Seq(Segment)
    BY <1>1, <1>5, <1>6
  <2>2. n \in DOMAIN segments' /\ n # 0
    <3>1. n \in Positions(segments', "Interpreter")
      BY <1>7
    <3> QED
      BY <2>1, <3>1 DEF Positions
  <2>3. Single(Positions(segments', "Interpreter"))
    BY <1>7 DEF Single
  <2>4. First(Positions(segments', "Interpreter")) = n
    <3>1. Positions(segments', "Interpreter") \in SUBSET DOMAIN segments'
      BY DEF Positions
    <3> HIDE DEF n
    <3> QED
      BY <1>7, <2>1, <2>3, <3>1, FirstOfSingle DEF n
  <2> HIDE DEF n
  <2>5. Interpreter' = InterpIn(Read(file', segments'[n].offset,
                                     segments'[n].file_size))
    BY <2>2, <2>4 DEF Interpreter
  <2>6. segments'[n] = g
    BY <1>7 DEF n
  <2>7. Interpreter' = want.interp
    BY <1>1, <1>4, <1>6, <2>5, <2>6 DEF ReadSection
  <2>8. InterpCoincides(sections', segments')
    BY <1>1, <1>4, <1>5, <1>6, <1>7
       DEF InterpCoincides, InterpSections, Coincide
  <2> QED
    BY <1>1, <1>3, <2>3, <2>7, <2>8 DEF InterpOK
<1>13. TablesApart'
  BY <1>1, <1>8 DEF TablesApart
<1> QED
  BY <1>1, <1>2, <1>10, <1>11, <1>12, <1>13 DEF FirstOK

(***************************************************************************)
(* get_name_offset in the first session.                                   *)
(***************************************************************************)

\* The step a search for a name leads to.
LEMMA SearchPhase ==
  ASSUME TInv, pc \in NameSteps
  PROVE  /\ Phase = call.then /\ call.then \notin Dead \cup NameSteps
         /\ \/ /\ Phase = "place_interp" /\ call.name = ".interp"
               /\ Phase \notin WithoutTable
            \/ /\ Phase \in {"place_dynstr", "place_dynamic"}
               /\ Phase \in WithoutTable /\ call.name \in NamesForTags
BY DEF TInv, CallOK, NameSearches, NameSteps, Phase, WithoutTable,
       NamesForTags, Dead

\* The name is in the table.
LEMMA NameFoundFirst ==
  ASSUME TInv, TInv', FirstOK, FindName, call.name \in CachedNames.strings
  PROVE  FirstOK'
<1>1. /\ pc = "find_name" /\ pc' = call.then /\ names' = CachedNames
      /\ UNCHANGED <<header, sections, segments, file, want, calls, sessions,
                     call>>
  BY DEF FindName, Continue
<1>2. /\ Live /\ BytesOK(file) /\ SectionsStored(file, sections)
      /\ {"interp", "tags"} \subseteq DOMAIN want
      /\ HeaderGuarded(segments) /\ PhdrCovered(sections, segments)
  BY <1>1 DEF FirstOK, Live, Dead, TablesApart, InCalls, Finishing
<1>3. /\ Phase = call.then /\ call.then \notin Dead \cup NameSteps
      /\ call.then \in {"place_interp", "place_dynstr", "place_dynamic"}
      /\ call.then = "place_interp" => call.name = ".interp"
  BY <1>1, SearchPhase DEF NameSteps, NamesForTags
<1>4. Phase' = Phase
  BY <1>1, <1>3 DEF Phase
<1>5. /\ SectionNames' = SectionNames /\ Interpreter' = Interpreter
      /\ DynamicTags' = DynamicTags
  BY <1>1, SameReads DEF elf
<1>6. CachedNames = SectionNames
  BY <1>1, <1>2, CacheIsNames DEF Live, NamesOK
<1>7. CachedNames' = CachedNames
  BY <1>1, <1>5, <1>6 DEF CachedNames
<1>8. NamesOK'
  BY <1>1, <1>2, <1>3, <1>5, <1>6, <1>7 DEF Live, NamesOK, NameSteps
<1>9. InterpOK'
  BY <1>1, <1>2, <1>4, <1>5 DEF Live, InterpOK, ReadSection
<1>10. DynamicOK'
  BY <1>1, <1>2, <1>4 DEF Live, DynamicOK
<1>11. TagsOK'
  BY <1>1, <1>2, <1>4, <1>5 DEF Live, TagsOK, Values
<1>12. DynstrOK'
  BY <1>1, <1>2, <1>3, <1>4, <1>5, <1>7 DEF Live, DynstrOK, NameSteps
<1>13. TablesApart'
  BY <1>1, <1>2, <1>3 DEF TablesApart
<1> QED
  BY <1>1, <1>2, <1>3, <1>8, <1>9, <1>10, <1>11, <1>12, <1>13 DEF FirstOK

\* The name is not in the table, which goes: the name is ".interp".
LEMMA NameMissingFirst ==
  ASSUME TInv, TInv', FirstOK, FindName, call.name \notin CachedNames.strings
  PROVE  FirstOK'
<1> DEFINE index == header.section_names_index
<1>1. /\ pc = "find_name"
      /\ UNCHANGED <<header, segments, want, calls, sessions>>
  BY DEF FindName
<1>2. /\ Live /\ BytesOK(file) /\ SectionsStored(file, sections)
      /\ {"interp", "tags"} \subseteq DOMAIN want
      /\ HeaderGuarded(segments) /\ PhdrCovered(sections, segments)
  BY <1>1 DEF FirstOK, Live, Dead, TablesApart, InCalls, Finishing
<1>3. /\ index \in DOMAIN sections /\ sections[index].kind = "StringTable"
      /\ names # Unread => names = SectionNames
  BY <1>1, <1>2 DEF Live, NamesOK, Positions
<1>4. /\ names' = WithString(WithString(CachedNames, call.name), ".shstrtab")
      /\ Free(index) /\ pc' = "place_names" /\ call' = call
  BY <1>3 DEF FindName, Continue
<1>5. Phase = "place_interp" /\ call.name = ".interp"
      /\ call.then = "place_interp"
  <2>1. Phase \in WithoutTable => NamesForTags \subseteq CachedNames.strings
    BY <1>2 DEF Live, DynstrOK
  <2> QED
    BY <1>1, <2>1, SearchPhase DEF NameSteps
<1>6. Phase' = "place_interp"
  BY <1>4, <1>5 DEF Phase, NameSteps
<1> HIDE DEF index
<1>7. /\ DOMAIN sections' = DOMAIN sections
      /\ sections'[index] = NullSection
      /\ \A k \in DOMAIN sections : k # index => Kept(k)
      /\ BytesOK(file') /\ SectionsStored(file', sections')
      /\ \A offset, len : Missed(sections, offset, len)
                            => Missed(sections', offset, len)
  BY <1>2, <1>3, <1>4, FreeFrame
<1>8. NullSection.kind = "Null" /\ NullSection.name = NoName
      /\ ".interp" # NoName
  BY PatchNamesAssumption DEF NullSection, PatchNames
<1>9. /\ names' = [strings |-> names'.strings, len |-> names'.len]
      /\ names'.len \in Nat \ {0}
      /\ CachedNames.strings \subseteq names'.strings
      /\ ".interp" \in names'.strings
  <2>1. CachedNames.len \in Nat
    BY CachedNamesType
  <2>2. StringLen[".interp"] \in Nat \ {0} /\ StringLen[".shstrtab"] \in Nat
    BY StringLenAssumption DEF PatchNames
  <2> DEFINE mid == WithString(CachedNames, ".interp")
  <2>3. mid = [strings |-> CachedNames.strings \cup {".interp"},
               len |-> CachedNames.len + StringLen[".interp"]]
    BY <1>5 DEF WithString
  <2>4. mid.len \in Nat \ {0} /\ ".interp" \in mid.strings
        /\ CachedNames.strings \subseteq mid.strings
        /\ mid = [strings |-> mid.strings, len |-> mid.len]
    BY <2>1, <2>2, <2>3
  <2>5. names' = WithString(mid, ".shstrtab")
    BY <1>4, <1>5
  <2> HIDE DEF mid
  <2>6. \/ names' = mid
        \/ names' = [strings |-> mid.strings \cup {".shstrtab"},
                     len |-> mid.len + StringLen[".shstrtab"]]
    BY <2>5 DEF WithString
  <2>7. CASE names' = mid
    BY <2>4, <2>7
  <2>8. CASE names' = [strings |-> mid.strings \cup {".shstrtab"},
                       len |-> mid.len + StringLen[".shstrtab"]]
    BY <2>2, <2>4, <2>8
  <2> QED
    BY <2>6, <2>7, <2>8
<1>10. names' # Unread
  BY <1>9 DEF Unread
<1>11. CachedNames' = names'
  BY <1>10 DEF CachedNames
<1>12. /\ Positions(sections', "Dynamic") = Positions(sections, "Dynamic")
       /\ \A i \in Positions(sections, "Dynamic") : Kept(i)
  BY <1>3, <1>7, <1>8 DEF Positions, Kept
<1>13. DynamicTags' = DynamicTags
  BY <1>12, DynamicKept
<1>14. NamesOK'
  <2>1. \A k \in InterpSections(sections') :
          k \in InterpSections(sections) /\ sections'[k] = sections[k]
    BY <1>7, <1>8 DEF InterpSections, Kept
  <2>2. \A k \in InterpSections(sections') :
          sections'[k].kind = "ProgramBits"
    BY <1>2, <2>1 DEF Live, NamesOK
  <2> QED
    BY <1>4, <1>5, <1>9, <1>10, <1>11, <2>2 DEF NamesOK
<1>15. InterpOK'
  <2>1. /\ Positions(segments, "Interpreter") = {}
        /\ want.interp = call.value
    BY <1>2, <1>5 DEF Live, InterpOK
  <2>2. InterpCoincides(sections', segments')
    BY <1>1, <2>1 DEF InterpCoincides
  <2> QED
    BY <1>1, <1>4, <1>6, <2>1, <2>2 DEF InterpOK, Single
<1>16. DynamicOK'
  <2>1. DynamicCoincides(sections', segments')
    BY <1>1, <1>2, <1>12, DynamicCoincidesKept, SameItself
       DEF Live, DynamicOK, SameKind, Kept
  <2> QED
    BY <1>1, <1>2, <1>6, <1>12, <2>1 DEF Live, DynamicOK, WithoutTable
<1>17. TagsOK'
  BY <1>1, <1>2, <1>5, <1>6, <1>13 DEF Live, TagsOK, WithoutTable, Values
<1>18. DynstrOK'
  <2>1. ASSUME Positions(sections, "Dynamic") # {}
        PROVE  /\ NamesForTags \subseteq names'.strings
               /\ \E d \in DOMAIN sections' :
                    /\ IsDynstr(sections', DynamicTags, d)
                    /\ \A n \in SpareSlots(sections') : d < n
    <3>1. /\ NamesForTags \subseteq CachedNames.strings
          /\ DynstrFound(sections, DynamicTags, index, CachedNames.strings)
      BY <1>1, <1>2, <2>1 DEF Live, DynstrOK, index
    <3>2. PICK d \in DOMAIN sections :
            /\ IsDynstr(sections, DynamicTags, d)
            /\ d < index
            /\ \A n \in SpareSlots(sections) : d < n
      BY <1>5, <3>1 DEF DynstrFound
    <3>3. d # index
      BY <3>2, TableFacts
    <3>4. d \in DOMAIN sections' /\ sections'[d] = sections[d]
      BY <1>7, <3>3 DEF Kept
    <3>5. IsDynstr(sections', DynamicTags, d)
      BY <3>2, <3>4 DEF IsDynstr, Positions
    <3>6. \A n \in SpareSlots(sections') :
            n = index \/ n \in SpareSlots(sections)
      BY <1>7 DEF SpareSlots, Positions, Kept
    <3> QED
      BY <1>9, <3>1, <3>2, <3>4, <3>5, <3>6
  <2> QED
    BY <1>4, <1>6, <1>11, <1>12, <1>13, <2>1 DEF DynstrOK, WithoutTable
<1>19. PhdrCovered(sections', segments')
  BY <1>1, <1>2, <1>7 DEF PhdrCovered
<1>20. TablesApart'
  BY <1>1, <1>2, <1>4, <1>19 DEF TablesApart
<1> QED
  BY <1>1, <1>2, <1>4, <1>7, <1>14, <1>15, <1>16, <1>17, <1>18, <1>20
     DEF FirstOK

\* The table of names is placed again, behind the dynamic string table.
LEMMA PlaceNamesFirst ==
  ASSUME TInv, TInv', FirstOK, PlaceNames
  PROVE  FirstOK'
<1> DEFINE request == Request(".shstrtab", "StringTable", FALSE, names.len, 1,
                              StringTableAlign)
           content == [strings |-> names.strings]
           slot == SpareSlot(sections)
<1>1. /\ pc = "place_names" /\ Place(request, content, call.then)
      /\ UNCHANGED <<names, call, want, calls, sessions>>
  BY DEF PlaceNames
<1>2. /\ Live /\ BytesOK(file) /\ SectionsStored(file, sections)
      /\ {"interp", "tags"} \subseteq DOMAIN want
      /\ HeaderGuarded(segments) /\ PhdrCovered(sections, segments)
  BY <1>1 DEF FirstOK, Live, Dead, TablesApart, InCalls, Finishing
<1>3. /\ names = [strings |-> names.strings, len |-> names.len]
      /\ names # Unread /\ names.len # 0 /\ call.then = "place_interp"
      /\ ".interp" \in names.strings
  BY <1>1, <1>2 DEF Live, NamesOK
<1>4. Phase = "place_interp"
  BY <1>1, <1>3 DEF Phase, NameSteps
<1>5. /\ Positions(segments, "Interpreter") = {}
      /\ want.interp = call.value
  BY <1>2, <1>4 DEF Live, InterpOK
<1>6. /\ Requestable(request) /\ request.kind = "StringTable"
      /\ request.name = ".shstrtab" /\ request.size = names.len
  <2>1. ".shstrtab" \in Names
    BY PatchNamesAssumption DEF PatchNames
  <2>2. StringTableAlign \in Word
    BY AlignsAssumption
  <2>3. names.len \in Nat
    BY DEF TInv, PlaceOK
  <2> QED
    BY <2>1, <2>2, <2>3 DEF Requestable, Request, SectionKinds
<1>7. /\ content # Garbage /\ "tags" \notin DOMAIN content
      /\ StringsIn(content) = names.strings
  <2>1. /\ "garbage" \notin DOMAIN content /\ "strings" \in DOMAIN content
        /\ "tags" \notin DOMAIN content /\ content.strings = names.strings
    OBVIOUS
  <2> HIDE DEF content
  <2> QED
    BY <2>1, NotGarbage DEF StringsIn
<1> HIDE DEF request, content, slot
<1>8. \/ pc' = "failed" /\ UNCHANGED <<sections, segments, file>>
      \/ /\ pc' = "place_interp"
         /\ slot \in Nat /\ slot > 1 /\ slot \in DOMAIN sections'
         /\ sections'[slot].name = ".shstrtab"
         /\ sections'[slot].kind = "StringTable"
         /\ sections'[slot].size = names.len
         /\ InFile(sections'[slot])
         /\ Read(file', sections'[slot].offset, sections'[slot].size) = content
         /\ slot \in DOMAIN sections => sections[slot].kind = "Null"
         /\ \A k \in DOMAIN sections : k # slot => Kept(k)
         /\ \A k \in DOMAIN sections' : k # slot =>
              \/ k \in DOMAIN sections
              \/ k = 1 /\ sections'[k] = NullSection
         /\ BytesOK(file') /\ SectionsStored(file', sections')
         /\ HeaderGuarded(segments')
         /\ PhdrCovered(sections', segments')
         /\ SameKind(segments', segments, "Interpreter")
         /\ SameKind(segments', segments, "Dynamic")
  BY <1>1, <1>2, <1>3, <1>6, <1>7, PlaceFrame DEF slot
<1>9. CASE pc' = "failed"
  <2>1. UNCHANGED <<sections, segments, file>>
    BY <1>8, <1>9
  <2> QED
    BY <1>1, <1>2, <1>9, <2>1 DEF FirstOK, Dead
<1>10. CASE pc' # "failed"
  <2>1. /\ pc' = "place_interp"
        /\ slot \in Nat /\ slot > 1 /\ slot \in DOMAIN sections'
        /\ sections'[slot].name = ".shstrtab"
        /\ sections'[slot].kind = "StringTable"
        /\ sections'[slot].size = names.len
        /\ InFile(sections'[slot])
        /\ Read(file', sections'[slot].offset, sections'[slot].size) = content
        /\ slot \in DOMAIN sections => sections[slot].kind = "Null"
        /\ \A k \in DOMAIN sections : k # slot => Kept(k)
        /\ \A k \in DOMAIN sections' : k # slot =>
             \/ k \in DOMAIN sections
             \/ k = 1 /\ sections'[k] = NullSection
        /\ BytesOK(file') /\ SectionsStored(file', sections')
        /\ HeaderGuarded(segments')
        /\ PhdrCovered(sections', segments')
        /\ SameKind(segments', segments, "Interpreter")
        /\ SameKind(segments', segments, "Dynamic")
    BY <1>8, <1>10
  <2>2. Phase' = "place_interp"
    BY <2>1 DEF Phase, NameSteps
  <2>3. header'.section_names_index = slot
    <3>1. header' = [header EXCEPT !.section_names_index = slot]
      BY <1>10 DEF PlaceNames, slot
    <3>2. header \in HeaderType
      BY DEF TInv, PlaceOK
    <3> QED
      BY <3>1, <3>2 DEF HeaderType
  <2>4. SectionNames' = names
    <3>1. SectionNames' = [strings |-> StringsIn(Read(file',
                                                      sections'[slot].offset,
                                                      sections'[slot].size)),
                           len |-> sections'[slot].size]
      BY <2>1, <2>3 DEF SectionNames, ReadSection
    <3> QED
      BY <1>3, <1>7, <2>1, <3>1
  <2>5. CachedNames = names /\ CachedNames' = names
    BY <1>1, <1>3 DEF CachedNames
  <2>6. NullSection.kind = "Null" /\ NullSection.name = NoName
        /\ ".interp" # NoName
    BY PatchNamesAssumption DEF NullSection, PatchNames
  <2>7. NamesOK'
    <3>1. slot \in Positions(sections', "StringTable")
      BY <2>1 DEF Positions
    <3>2. \A k \in InterpSections(sections') :
            k \in InterpSections(sections) /\ sections'[k] = sections[k]
      BY <2>1, <2>6 DEF InterpSections, Kept
    <3>3. \A k \in InterpSections(sections') :
            sections'[k].kind = "ProgramBits"
      BY <1>2, <3>2 DEF Live, NamesOK
    <3> QED
      BY <1>1, <1>3, <2>1, <2>3, <2>4, <2>5, <3>1, <3>3 DEF NamesOK
  <2>8. InterpOK'
    <3>1. Positions(segments', "Interpreter") = {}
      BY <1>5, <2>1 DEF SameKind, Has
    <3>2. InterpCoincides(sections', segments')
      BY <3>1 DEF InterpCoincides
    <3> QED
      BY <1>1, <1>5, <2>2, <3>1, <3>2 DEF InterpOK, Single
  <2>9. /\ Positions(sections', "Dynamic") = Positions(sections, "Dynamic")
        /\ \A i \in Positions(sections, "Dynamic") : Kept(i)
    BY <2>1, <2>6 DEF Positions, Kept
  <2>10. DynamicTags' = DynamicTags
    BY <2>9, DynamicKept
  <2>11. DynamicOK'
    <3>1. DynamicCoincides(sections', segments')
      BY <1>2, <2>1, <2>9, DynamicCoincidesKept
         DEF Live, DynamicOK, SameKind, Kept
    <3>2. Single(Positions(segments', "Dynamic"))
      BY <1>2, <2>1 DEF Live, DynamicOK, SameKind
    <3> QED
      BY <1>2, <2>2, <2>9, <3>1, <3>2 DEF Live, DynamicOK, WithoutTable
  <2>12. TagsOK'
    BY <1>1, <1>2, <1>4, <2>2, <2>10 DEF Live, TagsOK, WithoutTable, Values
  <2>13. DynstrOK'
    <3>1. ASSUME Positions(sections, "Dynamic") # {}
          PROVE  /\ NamesForTags \subseteq names.strings
                 /\ DynstrFound(sections', DynamicTags, slot, names.strings)
      <4>1. NamesForTags \subseteq names.strings
        BY <1>2, <2>5, <3>1 DEF Live, DynstrOK
      <4>2. PICK d \in DOMAIN sections :
              /\ IsDynstr(sections, DynamicTags, d)
              /\ \A n \in SpareSlots(sections) : d < n
        BY <1>1, <1>2, <3>1 DEF Live, DynstrOK
      <4>3. d # slot
        BY <2>1, <4>2 DEF IsDynstr, Positions
      <4>4. d \in DOMAIN sections' /\ sections'[d] = sections[d]
        BY <2>1, <4>3 DEF Kept
      <4>5. IsDynstr(sections', DynamicTags, d)
        BY <4>2, <4>4 DEF IsDynstr, Positions
      <4>6. d < slot
        <5>1. CASE slot \in DOMAIN sections
          <6>1. slot \in SpareSlots(sections)
            BY <2>1, <5>1 DEF SpareSlots, Positions
          <6> QED
            BY <4>2, <6>1
        <5>2. CASE slot \notin DOMAIN sections
          <6>1. DOMAIN sections = 1 .. Len(sections) /\ Len(sections) \in Nat
            BY TableFacts
          <6> QED
            BY <2>1, <5>2, <6>1
        <5> QED
          BY <5>1, <5>2
      <4> QED
        BY <1>3, <4>1, <4>4, <4>5, <4>6 DEF DynstrFound
    <3> QED
      BY <2>1, <2>2, <2>3, <2>5, <2>9, <2>10, <3>1 DEF DynstrOK, WithoutTable
  <2>14. TablesApart'
    BY <2>1 DEF TablesApart
  <2> QED
    BY <1>1, <1>2, <2>1, <2>7, <2>8, <2>11, <2>12, <2>13, <2>14 DEF FirstOK
<1> QED
  BY <1>9, <1>10

(***************************************************************************)
(* set_dynamic_tag and remove_dynamic_tag in the first session.            *)
(***************************************************************************)

TagPhases == WithoutTable \cup {"free_dynamic", "shrink_dynamic",
                                "overlay_dynamic", "move_symbols"}

\* These calls leave the table of names and the sections .interp alone.
NamesStay ==
  /\ Kept(header.section_names_index)
  /\ \A k \in InterpSections(sections) : Kept(k)
  /\ InterpSections(sections') \subseteq InterpSections(sections)

\* The steps of these calls leave the interpreter and the names alone.
LEMMA TagFrame ==
  ASSUME TInv, TInv', FirstOK, NamesStay,
         Phase \in TagPhases, Phase' \in TagPhases \cup {"ready"},
         pc \notin Dead, pc # "place_names", pc' # "place_names",
         SameKind(segments', segments, "Interpreter"),
         UNCHANGED <<header, want>>, names' \in {names, CachedNames}
  PROVE  /\ CachedNames' = CachedNames
         /\ NamesOK' /\ InterpOK'
<1> DEFINE index == header.section_names_index
<1>1. Live
  BY DEF FirstOK, Live
<1>2. /\ index \in Positions(sections, "StringTable")
      /\ InFile(sections[index])
      /\ names # Unread => names = SectionNames
  BY <1>1 DEF Live, NamesOK
<1>3. index \in DOMAIN sections /\ Kept(index)
  BY <1>2 DEF Positions, NamesStay
<1>4. SectionNames' = SectionNames
  BY <1>2, <1>3, NamesKept
<1>5. CachedNames = SectionNames
  BY <1>2, CacheIsNames
<1>6. names' # Unread => names' = SectionNames'
  BY <1>2, <1>4, <1>5
<1>7. CachedNames' = SectionNames'
  BY <1>6 DEF CachedNames
<1>8. CachedNames' = CachedNames
  BY <1>4, <1>5, <1>7
<1>9. /\ index \in Positions(sections', "StringTable")
      /\ InFile(sections'[index])
  BY <1>2, <1>3 DEF Positions, Kept
<1>10. \A k \in InterpSections(sections') :
         k \in InterpSections(sections) /\ sections'[k] = sections[k]
  BY DEF NamesStay, Kept
<1>11. Phase \notin InterpPhases /\ Phase' \notin InterpPhases
       /\ pc \notin InterpPhases /\ pc' \notin InterpPhases
  BY DEF TagPhases, WithoutTable, InterpPhases, Phase, NameSteps
<1>12. NamesOK'
  <2>1. \A k \in InterpSections(sections') :
          sections'[k].kind = "ProgramBits"
    BY <1>1, <1>10 DEF Live, NamesOK
  <2>2. InterpSections(sections') # {} => ".interp" \in CachedNames.strings
    BY <1>1, <1>10 DEF Live, NamesOK
  <2> QED
    BY <1>6, <1>8, <1>9, <1>11, <2>1, <2>2 DEF NamesOK, InterpPhases
<1>13. InterpOK'
  <2>1. /\ Single(Positions(segments, "Interpreter"))
        /\ InterpCoincides(sections, segments)
        /\ Interpreter = want.interp
    BY <1>1, <1>11 DEF Live, InterpOK, InterpPhases
  <2>2. /\ Interpreter' = Interpreter
        /\ InterpCoincides(sections', segments')
    BY <2>1, InterpKept DEF NamesStay
  <2>3. Single(Positions(segments', "Interpreter"))
    BY <2>1 DEF SameKind
  <2> QED
    BY <1>11, <2>1, <2>2, <2>3 DEF InterpOK, InterpPhases
<1> QED
  BY <1>8, <1>12, <1>13

\* The slot that stands for no section.
FirstIsNull == 1 \in DOMAIN sections => sections[1].kind = "Null"

\* The sections of a freed slot.
LEMMA FreedStay ==
  ASSUME NEW STATE i, i \in DOMAIN sections,
         sections[i].kind \in {"Dynamic", "StringTable"},
         i # header.section_names_index, NamesOK, pc # "place_names",
         DOMAIN sections' = DOMAIN sections, sections'[i] = NullSection,
         \A k \in DOMAIN sections : k # i => Kept(k)
  PROVE  /\ NamesStay
         /\ SpareSlots(sections') \subseteq SpareSlots(sections) \cup {i}
         /\ i # 1 => i \in SpareSlots(sections')
<1>1. NullSection.kind = "Null" /\ NullSection.name = NoName
      /\ ".interp" # NoName
  BY PatchNamesAssumption DEF NullSection, PatchNames
<1>2. header.section_names_index \in DOMAIN sections
  BY DEF NamesOK, Positions
<1>3. i \notin InterpSections(sections) /\ i \notin InterpSections(sections')
  BY <1>1 DEF NamesOK, InterpSections
<1>4. NamesStay
  BY <1>2, <1>3 DEF NamesStay, InterpSections, Kept
<1>5. SpareSlots(sections') \subseteq SpareSlots(sections) \cup {i}
  BY DEF SpareSlots, Positions, Kept
<1>6. i # 1 => i \in SpareSlots(sections')
  BY <1>1 DEF SpareSlots, Positions
<1> QED
  BY <1>4, <1>5, <1>6

\* The dynamic table is read and its section freed.
LEMMA FreeDynamicFirst ==
  ASSUME TInv, TInv', FirstOK, FreeDynamic
  PROVE  FirstOK'
<1> DEFINE i == First(Positions(sections, "Dynamic"))
<1>1. /\ pc = "free_dynamic"
      /\ UNCHANGED <<header, segments, names, want, calls, sessions>>
  BY DEF FreeDynamic
<1>2. /\ Live /\ BytesOK(file) /\ SectionsStored(file, sections)
      /\ {"interp", "tags"} \subseteq DOMAIN want
      /\ HeaderGuarded(segments) /\ PhdrCovered(sections, segments)
  BY <1>1 DEF FirstOK, Live, Dead, TablesApart, InCalls, Finishing
<1>3. Phase = "free_dynamic"
  BY <1>1 DEF Phase, NameSteps
<1>4. /\ Single(Positions(sections, "Dynamic"))
      /\ Single(Positions(segments, "Dynamic"))
      /\ DynamicCoincides(sections, segments)
  BY <1>2 DEF Live, DynamicOK
<1>5. /\ Positions(sections, "Dynamic") \in SUBSET DOMAIN sections
      /\ header.section_names_index \in Positions(sections, "StringTable")
  BY <1>1, <1>2 DEF Positions, Live, NamesOK
<1>6. CASE i = 0
  <2>1. /\ pc' = "ready" /\ UNCHANGED <<sections, file>>
    BY <1>6 DEF FreeDynamic, Return
  <2>2. Phase' = "ready"
    BY <2>1 DEF Phase, NameSteps
  <2>3. Positions(sections, "Dynamic") = {}
    BY <1>5, <1>6, TableFacts, FirstPosition
  <2>4. NamesStay
    BY <1>5, <2>1, FileKept DEF NamesStay, Positions, InterpSections
  <2>5. /\ CachedNames' = CachedNames
        /\ NamesOK' /\ InterpOK'
    BY <1>1, <1>3, <2>1, <2>2, <2>4, TagFrame, SameItself DEF TagPhases, Dead
  <2>6. DynamicTags' = DynamicTags
    BY <1>1, <2>1, SameReads DEF elf
  <2>7. DynamicOK'
    BY <1>1, <1>4, <2>1, <2>2 DEF DynamicOK, WithoutTable
  <2>8. want.tags = Values(DynamicTags)
    BY <1>2, <1>3, <2>3 DEF Live, TagsOK, WithoutTable
  <2>9. TagsOK'
    BY <1>1, <2>2, <2>6, <2>8 DEF TagsOK, WithoutTable, Values
  <2>10. DynstrOK'
    BY <2>1, <2>2, <2>3 DEF DynstrOK, WithoutTable
  <2>11. TablesApart'
    BY <1>1, <1>2, <2>1 DEF TablesApart
  <2> QED
    BY <1>1, <1>2, <2>1, <2>5, <2>7, <2>9, <2>10, <2>11 DEF FirstOK
<1>7. CASE i # 0
  <2>1. /\ Free(i) /\ pc' = "free_dynamic_segment"
        /\ call' = [call EXCEPT !.tags = DynamicTags,
                                !.address = sections[i].address]
    BY <1>7 DEF FreeDynamic
  <2>2. i \in Positions(sections, "Dynamic")
    BY <1>5, <1>7, TableFacts, FirstPosition
  <2>3. /\ i \in DOMAIN sections /\ InFile(sections[i])
        /\ sections[i].kind = "Dynamic"
    BY <2>2, DynamicIsLive
  <2> HIDE DEF i
  <2>4. Phase' = "free_dynamic_segment"
    BY <2>1 DEF Phase, NameSteps
  <2>5. call'.tags = DynamicTags /\ call'.tag = call.tag
        /\ call'.value = call.value
    BY <2>1 DEF TInv, CallOK, NoCall
  <2>6. /\ DOMAIN sections' = DOMAIN sections
        /\ sections'[i] = NullSection
        /\ \A k \in DOMAIN sections : k # i => Kept(k)
        /\ BytesOK(file') /\ SectionsStored(file', sections')
        /\ \A offset, len : Missed(sections, offset, len)
                              => Missed(sections', offset, len)
        /\ Missed(sections', sections[i].offset, sections[i].size)
    BY <1>2, <2>1, <2>3, FreeFrame
  <2>7. i # header.section_names_index
    BY <1>5, <2>3 DEF Positions
  <2>8. /\ NamesStay
        /\ SpareSlots(sections') \subseteq SpareSlots(sections) \cup {i}
    BY <1>1, <1>2, <2>3, <2>6, <2>7, FreedStay DEF Live
  <2>9. /\ CachedNames' = CachedNames
        /\ NamesOK' /\ InterpOK'
    BY <1>1, <1>3, <2>1, <2>4, <2>8, TagFrame, SameItself
       DEF TagPhases, Dead, WithoutTable
  <2>10. Positions(sections', "Dynamic") = {}
    BY <1>4, <2>2, <2>6 DEF Positions, Single, Kept, NullSection
  <2>11. DynamicOK'
    <3>1. \A j \in Positions(segments, "Dynamic") :
            Missed(sections', segments[j].offset, segments[j].file_size)
      BY <1>4, <2>2, <2>6 DEF DynamicCoincides, Coincide
    <3> QED
      BY <1>1, <1>4, <2>4, <2>10, <3>1
         DEF DynamicOK, DynamicCoincides, Single, WithoutTable
  <2>12. TagsOK'
    <3>1. want.tags = Updated(Values(DynamicTags), call.tag, call.value,
                              SearchPaths)
      <4>1. Positions(sections, "Dynamic") # {}
        BY <2>2
      <4> QED
        BY <1>2, <1>3, <4>1 DEF Live, TagsOK, WithoutTable
    <3> QED
      BY <1>1, <2>4, <2>5, <3>1 DEF TagsOK, WithoutTable, Values
  <2>13. DynstrOK'
    <3>1. /\ NamesForTags \subseteq CachedNames.strings
          /\ DynstrFound(sections, DynamicTags, header.section_names_index,
                         CachedNames.strings)
      BY <1>1, <1>2, <2>2 DEF Live, DynstrOK
    <3>2. PICK d \in DOMAIN sections :
            /\ IsDynstr(sections, DynamicTags, d)
            /\ d < header.section_names_index
            /\ \/ ".interp" \in CachedNames.strings
               \/ \A n \in SpareSlots(sections) : d < n
      BY <3>1 DEF DynstrFound
    <3>3. d # i /\ d \in DOMAIN sections' /\ sections'[d] = sections[d]
      BY <2>3, <2>6, <3>2 DEF IsDynstr, Positions, Kept
    <3>4. IsDynstr(sections', DynamicTags, d)
      BY <3>2, <3>3 DEF IsDynstr, Positions
    <3>5. ASSUME ".interp" \notin CachedNames.strings
          PROVE  OneBefore(sections', d)
      <4>1. \A n \in SpareSlots(sections) : d < n
        BY <3>2, <3>5
      <4>2. d \in Nat /\ SpareSlots(sections) \subseteq Nat
        BY TableFacts DEF SpareSlots, Positions
      <4>3. \A n \in SpareSlots(sections') : n <= d => n = i
        BY <2>8, <4>1, <4>2
      <4> QED
        BY <4>3 DEF OneBefore, Single
    <3> QED
      BY <1>1, <2>1, <2>4, <2>5, <2>9, <2>10, <3>1, <3>2, <3>3, <3>4, <3>5
         DEF DynstrOK, WithoutTable
  <2>14. PhdrCovered(sections', segments')
    BY <1>1, <1>2, <2>6 DEF PhdrCovered
  <2>15. TablesApart'
    BY <1>1, <1>2, <2>1, <2>14 DEF TablesApart
  <2> QED
    BY <1>1, <1>2, <2>1, <2>6, <2>9, <2>11, <2>12, <2>13, <2>15 DEF FirstOK
<1> QED
  BY <1>6, <1>7

\* DYNAMIC goes, whose bytes are no section's by then.
LEMMA FreeDynamicSegmentFirst ==
  ASSUME TInv, TInv', FirstOK, FreeDynamicSegment
  PROVE  FirstOK'
<1> DEFINE j == First(Positions(segments, "Dynamic"))
<1>1. /\ pc = "free_dynamic_segment" /\ pc' = "find_dynstr"
      /\ UNCHANGED <<header, sections, names, want, calls, sessions, call>>
  BY DEF FreeDynamicSegment, Continue
<1>2. /\ Live /\ BytesOK(file) /\ SectionsStored(file, sections)
      /\ {"interp", "tags"} \subseteq DOMAIN want
      /\ HeaderGuarded(segments) /\ PhdrCovered(sections, segments)
  BY <1>1 DEF FirstOK, Live, Dead, TablesApart, InCalls, Finishing
<1>3. Phase = "free_dynamic_segment" /\ Phase' = "find_dynstr"
  BY <1>1 DEF Phase, NameSteps
<1>4. /\ Single(Positions(segments, "Dynamic"))
      /\ Positions(sections, "Dynamic") = {}
      /\ \A k \in Positions(segments, "Dynamic") :
           Missed(sections, segments[k].offset, segments[k].file_size)
  BY <1>2, <1>3 DEF Live, DynamicOK, WithoutTable
<1>5. segments \in Seq(Segment)
      /\ Positions(segments, "Dynamic") \in SUBSET DOMAIN segments
  BY TableFacts DEF Positions
<1>6. /\ BytesOK(file') /\ \A i \in DOMAIN sections : Kept(i)
      /\ SameKind(segments', segments, "Interpreter")
      /\ SameKind(segments', segments, "Loadable")
      /\ SameKind(segments', segments, "ProgramHeader")
      /\ NoneBefore(segments', segments)
      /\ Positions(segments', "Dynamic") = {}
  <2>1. CASE j = 0
    <3>1. UNCHANGED <<segments, file>>
      BY <2>1 DEF FreeDynamicSegment
    <3>2. Positions(segments, "Dynamic") = {}
      BY <1>5, <2>1, FirstPosition
    <3> QED
      BY <1>1, <1>2, <3>1, <3>2, SameItself, FileKept
  <2>2. CASE j # 0
    <3>1. /\ segments' = Without(segments, {j})
          /\ file' = Zero(file, segments[j].offset, segments[j].file_size)
      BY <2>2 DEF FreeDynamicSegment
    <3>2. j \in Positions(segments, "Dynamic") /\ j \in DOMAIN segments
      BY <1>5, <2>2, FirstPosition
    <3> HIDE DEF j
    <3>3. file' = {b \in file : \A k \in {j} :
                     ~Overlaps(b, segments[k].offset, segments[k].file_size)}
      BY <3>1 DEF Zero
    <3>4. BytesOK(file') /\ \A i \in DOMAIN sections : Kept(i)
      <4>1. {j} \in SUBSET DOMAIN segments
        BY <3>2
      <4>2. \A k \in {j} : Missed(sections, segments[k].offset,
                                  segments[k].file_size)
        BY <1>4, <3>2
      <4> QED
        BY <1>1, <1>2, <3>3, <4>1, <4>2, ClearedKept
    <3>5. Positions(segments, "Dynamic") \subseteq {j}
      BY <1>4, <3>2 DEF Single
    <3>6. /\ Positions(segments, "Interpreter") \cap {j} = {}
          /\ Positions(segments, "Loadable") \cap {j} = {}
          /\ Positions(segments, "ProgramHeader") \cap {j} = {}
      BY <3>2 DEF Positions
    <3> QED
      BY <1>5, <3>1, <3>4, <3>5, <3>6, WithoutSameKind
  <2> QED
    BY <2>1, <2>2
<1>7. HeaderGuarded(segments') /\ PhdrCovered(sections', segments')
  <2>1. HeaderGuarded(segments')
    BY <1>2, <1>6, GuardedKept DEF SameKind
  <2>2. \A k \in Positions(segments, "ProgramHeader") :
          Missed(sections', segments[k].offset, segments[k].file_size)
    BY <1>1, <1>2 DEF PhdrCovered
  <2> QED
    BY <1>2, <1>6, <2>1, <2>2, CoveredKept DEF SameKind
<1>8. NamesStay
  <2>1. header.section_names_index \in DOMAIN sections
    BY <1>1, <1>2 DEF Live, NamesOK, Positions
  <2> QED
    BY <1>1, <1>6, <2>1 DEF NamesStay, InterpSections
<1>9. CachedNames' = CachedNames /\ NamesOK' /\ InterpOK'
  BY <1>1, <1>3, <1>6, <1>8, TagFrame DEF TagPhases, Dead, WithoutTable
<1>10. DynamicOK'
  BY <1>1, <1>3, <1>4, <1>6 DEF DynamicOK, DynamicCoincides, Single,
                                WithoutTable
<1>11. TagsOK'
  BY <1>1, <1>2, <1>3 DEF Live, TagsOK, WithoutTable, Values
<1>12. DynstrOK'
  BY <1>1, <1>2, <1>3, <1>4, <1>9 DEF Live, DynstrOK, WithoutTable
<1>13. SectionsStored(file', sections')
  BY <1>1, <1>2, <1>6, KeptSections
<1>14. TablesApart'
  BY <1>1, <1>7 DEF TablesApart
<1> QED
  BY <1>1, <1>2, <1>6, <1>9, <1>10, <1>11, <1>12, <1>13, <1>14 DEF FirstOK

\* get_string_offset: there is a string table, and it is before the table of
\* names.
LEMMA FindDynstrFirst ==
  ASSUME TInv, TInv', FirstOK, FirstIsNull, FindDynstr
  PROVE  FirstOK'
<1> DEFINE i == First(DynstrSections)
           index == header.section_names_index
           strings == StringsIn(ReadSection(i))
<1>1. /\ pc = "find_dynstr"
      /\ UNCHANGED <<header, segments, want, calls, sessions>>
  BY DEF FindDynstr
<1>2. /\ Live /\ BytesOK(file) /\ SectionsStored(file, sections)
      /\ {"interp", "tags"} \subseteq DOMAIN want
      /\ HeaderGuarded(segments) /\ PhdrCovered(sections, segments)
  BY <1>1 DEF FirstOK, Live, Dead, TablesApart, InCalls, Finishing
<1>3. Phase = "find_dynstr"
  BY <1>1 DEF Phase, NameSteps
<1>4. /\ Positions(sections, "Dynamic") = {}
      /\ Positions(segments, "Dynamic") = {}
      /\ NamesForTags \subseteq CachedNames.strings
      /\ want.tags = Updated(Values(call.tags), call.tag, call.value,
                             SearchPaths)
  BY <1>2, <1>3 DEF Live, DynamicOK, DynstrOK, TagsOK, WithoutTable
<1>5. PICK d \in DOMAIN sections :
        /\ IsDynstr(sections, call.tags, d) /\ d < index
        /\ ".interp" \in CachedNames.strings \/ OneBefore(sections, d)
  BY <1>2, <1>3 DEF Live, DynstrOK, WithoutTable
<1>6. /\ "StringTableAddress" \in DOMAIN call.tags
      /\ d \in DynstrSections
      /\ DynstrSections \in SUBSET DOMAIN sections
  BY <1>5 DEF IsDynstr, DynstrSections, Positions
<1>7. i \in DynstrSections /\ i <= d
  BY <1>6, TableFacts, FirstPosition
<1>8. /\ i \in DOMAIN sections /\ sections[i].kind = "StringTable"
      /\ i \in Nat /\ i # 0 /\ d \in Nat
  BY <1>7, TableFacts DEF DynstrSections, Positions
<1>9. index \in DOMAIN sections /\ index \in Nat
  BY <1>1, <1>2, TableFacts DEF Live, NamesOK, Positions
<1>10. i < index
  <2> HIDE DEF i, index
  <2> QED
    BY <1>5, <1>7, <1>8, <1>9
<1>11. names' = names
  BY <1>6 DEF FindDynstr
<1>12. i # 1
  BY <1>8 DEF FirstIsNull
<1>13. CASE call.value \in strings
  <2>1. /\ pc' = "write_dynstr"
        /\ call' = [call EXCEPT !.strings = strings, !.slot = i]
        /\ UNCHANGED <<sections, file>>
    BY <1>8, <1>13 DEF FindDynstr
  <2> HIDE DEF i, strings
  <2>2. /\ call'.slot = i /\ call'.tags = call.tags /\ call'.tag = call.tag
        /\ call'.value = call.value
    BY <2>1 DEF TInv, CallOK, NoCall
  <2>3. Phase' = "write_dynstr"
    BY <2>1 DEF Phase, NameSteps
  <2>4. NamesStay
    BY <1>9, <2>1, FileKept DEF NamesStay, InterpSections
  <2>5. CachedNames' = CachedNames /\ NamesOK' /\ InterpOK'
    BY <1>1, <1>3, <1>11, <2>1, <2>3, <2>4, TagFrame, SameItself
       DEF TagPhases, Dead, WithoutTable
  <2>6. DynamicOK'
    BY <1>1, <1>4, <2>1, <2>3 DEF DynamicOK, DynamicCoincides, Single,
                                  WithoutTable
  <2>7. TagsOK'
    BY <1>1, <1>4, <2>2, <2>3 DEF TagsOK, WithoutTable, Values
  <2>8. OneBefore(sections, d) => OneBefore(sections, i)
    <3>1. SpareSlots(sections) \subseteq Nat
      BY TableFacts DEF SpareSlots, Positions
    <3>2. \A n \in SpareSlots(sections) : n <= i => n <= d
      BY <1>7, <1>8, <3>1
    <3> QED
      BY <3>2 DEF OneBefore, Single
  <2>9. i \in Positions(sections, "StringTable")
    BY <1>8 DEF Positions
  <2>10. DynstrOK'
    BY <1>1, <1>4, <1>5, <1>10, <2>1, <2>2, <2>3, <2>5, <2>8, <2>9
       DEF DynstrOK, WithoutTable
  <2>11. TablesApart'
    BY <1>1, <1>2, <2>1 DEF TablesApart
  <2> QED
    BY <1>1, <1>2, <2>1, <2>5, <2>6, <2>7, <2>10, <2>11 DEF FirstOK
<1>14. CASE call.value \notin strings
  <2>1. /\ Free(i) /\ pc' = "find_name"
        /\ call' = [call EXCEPT
                      !.strings = strings \cup {call.value},
                      !.len = sections[i].size + StringLen[call.value],
                      !.name = ".dynstr", !.then = "place_dynstr"]
    BY <1>8, <1>14 DEF FindDynstr
  <2> HIDE DEF i, strings, index
  <2>2. /\ call'.tags = call.tags /\ call'.tag = call.tag
        /\ call'.value = call.value /\ call'.then = "place_dynstr"
    BY <2>1 DEF TInv, CallOK, NoCall
  <2>3. Phase' = "place_dynstr"
    BY <2>1, <2>2 DEF Phase, NameSteps
  <2>4. /\ DOMAIN sections' = DOMAIN sections
        /\ sections'[i] = NullSection
        /\ \A k \in DOMAIN sections : k # i => Kept(k)
        /\ BytesOK(file') /\ SectionsStored(file', sections')
        /\ \A offset, len : Missed(sections, offset, len)
                              => Missed(sections', offset, len)
    BY <1>2, <1>8, <2>1, FreeFrame
  <2>5. NamesStay /\ i \in SpareSlots(sections')
    BY <1>1, <1>2, <1>8, <1>9, <1>10, <1>12, <2>4, FreedStay DEF Live, index
  <2>6. CachedNames' = CachedNames /\ NamesOK' /\ InterpOK'
    BY <1>1, <1>3, <1>11, <2>1, <2>3, <2>5, TagFrame, SameItself
       DEF TagPhases, Dead, WithoutTable
  <2>7. Positions(sections', "Dynamic") = {}
    BY <1>4, <2>4 DEF Positions, Kept, NullSection
  <2>8. DynamicOK'
    BY <1>1, <1>4, <2>3, <2>7 DEF DynamicOK, DynamicCoincides, Single,
                                  WithoutTable
  <2>9. TagsOK'
    BY <1>1, <1>4, <2>2, <2>3 DEF TagsOK, WithoutTable, Values
  <2>10. DynstrOK'
    BY <1>1, <1>4, <1>10, <2>3, <2>5, <2>6, <2>7
       DEF DynstrOK, WithoutTable, index
  <2>11. PhdrCovered(sections', segments')
    BY <1>1, <1>2, <2>4 DEF PhdrCovered
  <2>12. TablesApart'
    BY <1>1, <1>2, <2>1, <2>11 DEF TablesApart
  <2> QED
    BY <1>1, <1>2, <2>1, <2>4, <2>6, <2>8, <2>9, <2>10, <2>12 DEF FirstOK
<1> QED
  BY <1>13, <1>14

\* The sections after one has taken a slot.
LEMMA PlacedStay ==
  ASSUME TInv, NamesOK, pc # "place_names", NEW STATE slot, slot \in Nat,
         slot \in DOMAIN sections', sections'[slot].name # ".interp",
         sections'[slot].kind # "Null",
         slot \in DOMAIN sections => sections[slot].kind = "Null",
         \A n \in SpareSlots(sections) : slot <= n,
         \A k \in DOMAIN sections : k # slot => Kept(k),
         \A k \in DOMAIN sections' : k # slot =>
           \/ k \in DOMAIN sections
           \/ k = 1 /\ sections'[k] = NullSection
  PROVE  /\ NamesStay
         /\ \A n \in SpareSlots(sections') :
              n \in SpareSlots(sections) /\ slot < n
<1>1. NullSection.name = NoName /\ ".interp" # NoName
  BY PatchNamesAssumption DEF NullSection, PatchNames
<1>2. header.section_names_index \in DOMAIN sections
      /\ header.section_names_index # slot
  BY DEF NamesOK, Positions
<1>3. slot \notin InterpSections(sections)
      /\ slot \notin InterpSections(sections')
  BY DEF NamesOK, InterpSections
<1>4. NamesStay
  BY <1>1, <1>2, <1>3 DEF NamesStay, InterpSections, Kept
<1>5. ASSUME NEW n \in SpareSlots(sections')
      PROVE  n \in SpareSlots(sections) /\ slot < n
  <2>1. n \in DOMAIN sections' /\ n # slot /\ n # 1
        /\ sections'[n].kind = "Null"
    BY DEF SpareSlots, Positions
  <2>2. n \in DOMAIN sections /\ sections'[n] = sections[n]
    BY <2>1 DEF Kept
  <2>3. n \in SpareSlots(sections)
    BY <2>1, <2>2 DEF SpareSlots, Positions
  <2>4. n \in Nat
    BY <2>2, TableFacts
  <2> QED
    BY <2>1, <2>3, <2>4
<1> QED
  BY <1>4, <1>5

\* The string table takes the first spare slot.
LEMMA PlaceDynstrFirst ==
  ASSUME TInv, TInv', FirstOK, PlaceDynstr
  PROVE  FirstOK'
<1> DEFINE request == Request(".dynstr", "StringTable", FALSE, call.len, 1,
                              StringTableAlign)
           content == [strings |-> call.strings]
           slot == SpareSlot(sections)
           index == header.section_names_index
<1>1. /\ pc = "place_dynstr" /\ Place(request, content, "write_dynstr")
      /\ call' = [call EXCEPT !.slot = SpareSlot(sections)]
      /\ UNCHANGED <<header, names, want, calls, sessions>>
  BY DEF PlaceDynstr
<1>2. /\ Live /\ BytesOK(file) /\ SectionsStored(file, sections)
      /\ {"interp", "tags"} \subseteq DOMAIN want
      /\ HeaderGuarded(segments) /\ PhdrCovered(sections, segments)
  BY <1>1 DEF FirstOK, Live, Dead, TablesApart, InCalls, Finishing
<1>3. Phase = "place_dynstr"
  BY <1>1 DEF Phase, NameSteps
<1>4. /\ Positions(sections, "Dynamic") = {}
      /\ Positions(segments, "Dynamic") = {}
      /\ NamesForTags \subseteq CachedNames.strings
      /\ want.tags = Updated(Values(call.tags), call.tag, call.value,
                             SearchPaths)
      /\ \E n \in SpareSlots(sections) : n < index
  BY <1>2, <1>3 DEF Live, DynamicOK, DynstrOK, TagsOK, WithoutTable
<1>5. /\ Requestable(request) /\ request.kind = "StringTable"
      /\ request.name = ".dynstr"
  <2>1. ".dynstr" \in Names
    BY PatchNamesAssumption DEF PatchNames
  <2>2. StringTableAlign \in Word
    BY AlignsAssumption
  <2>3. call.len \in Nat
    BY DEF TInv, CallOK
  <2> QED
    BY <2>1, <2>2, <2>3 DEF Requestable, Request, SectionKinds
<1>6. content # Garbage /\ "tags" \notin DOMAIN content
  <2>1. "garbage" \notin DOMAIN content /\ "tags" \notin DOMAIN content
    OBVIOUS
  <2> HIDE DEF content
  <2> QED
    BY <2>1, NotGarbage
<1>7. index \in Nat
  BY <1>1, <1>2, TableFacts DEF Live, NamesOK, Positions
<1>8. /\ call'.slot = slot /\ call'.tags = call.tags /\ call'.tag = call.tag
      /\ call'.value = call.value
  BY <1>1 DEF TInv, CallOK, NoCall
<1> HIDE DEF request, content, slot
<1>9. \/ pc' = "failed" /\ UNCHANGED <<sections, segments, file>>
      \/ /\ pc' = "write_dynstr"
         /\ slot \in Nat /\ slot \in DOMAIN sections'
         /\ sections'[slot].name = ".dynstr"
         /\ sections'[slot].kind = "StringTable"
         /\ slot \in DOMAIN sections => sections[slot].kind = "Null"
         /\ \A n \in SpareSlots(sections) : slot <= n
         /\ \A k \in DOMAIN sections : k # slot => Kept(k)
         /\ \A k \in DOMAIN sections' : k # slot =>
              \/ k \in DOMAIN sections
              \/ k = 1 /\ sections'[k] = NullSection
         /\ BytesOK(file') /\ SectionsStored(file', sections')
         /\ HeaderGuarded(segments')
         /\ PhdrCovered(sections', segments')
         /\ SameKind(segments', segments, "Interpreter")
         /\ SameKind(segments', segments, "Dynamic")
  BY <1>1, <1>2, <1>5, <1>6, PlaceFrame DEF slot
<1>10. CASE pc' = "failed" /\ UNCHANGED <<sections, segments, file>>
  BY <1>1, <1>2, <1>10 DEF FirstOK, Dead
<1>11. CASE pc' # "failed"
  <2>1. /\ pc' = "write_dynstr"
        /\ slot \in Nat /\ slot \in DOMAIN sections'
        /\ sections'[slot].name = ".dynstr"
        /\ sections'[slot].kind = "StringTable"
        /\ slot \in DOMAIN sections => sections[slot].kind = "Null"
        /\ \A n \in SpareSlots(sections) : slot <= n
        /\ \A k \in DOMAIN sections : k # slot => Kept(k)
        /\ \A k \in DOMAIN sections' : k # slot =>
             \/ k \in DOMAIN sections
             \/ k = 1 /\ sections'[k] = NullSection
        /\ BytesOK(file') /\ SectionsStored(file', sections')
        /\ HeaderGuarded(segments')
        /\ PhdrCovered(sections', segments')
        /\ SameKind(segments', segments, "Interpreter")
        /\ SameKind(segments', segments, "Dynamic")
    BY <1>9, <1>11
  <2>2. Phase' = "write_dynstr"
    BY <2>1 DEF Phase, NameSteps
  <2>3. NamesStay /\ \A n \in SpareSlots(sections') : slot < n
    BY <1>1, <1>2, <2>1, PlacedStay DEF Live
  <2>4. CachedNames' = CachedNames /\ NamesOK' /\ InterpOK'
    BY <1>1, <1>3, <2>1, <2>2, <2>3, TagFrame
       DEF TagPhases, Dead, WithoutTable
  <2>5. Positions(sections', "Dynamic") = {}
        /\ Positions(segments', "Dynamic") = {}
    BY <1>4, <2>1 DEF Positions, Kept, NullSection, SameKind, Has
  <2>6. DynamicOK'
    BY <2>2, <2>5 DEF DynamicOK, DynamicCoincides, Single, WithoutTable
  <2>7. TagsOK'
    BY <1>1, <1>4, <1>8, <2>2 DEF TagsOK, WithoutTable, Values
  <2>8. slot < index /\ OneBefore(sections', slot)
    <3>1. PICK n \in SpareSlots(sections) : n < index
      BY <1>4
    <3>2. n \in Nat /\ slot <= n
      BY <2>1, TableFacts DEF SpareSlots, Positions
    <3>3. slot < index
      BY <1>7, <2>1, <3>1, <3>2
    <3>4. SpareSlots(sections') \subseteq Nat
      BY DEF TInv, TablesOK, GoodSections, SpareSlots, Positions
    <3>5. {n1 \in SpareSlots(sections') : n1 <= slot} = {}
      BY <2>1, <2>3, <3>4
    <3> QED
      BY <3>3, <3>5 DEF OneBefore, Single
  <2>9. DynstrOK'
    <3>1. slot \in Positions(sections', "StringTable")
      BY <2>1 DEF Positions
    <3> QED
      BY <1>1, <1>4, <1>8, <2>1, <2>2, <2>4, <2>5, <2>8, <3>1
         DEF DynstrOK, WithoutTable
  <2>10. TablesApart'
    BY <2>1 DEF TablesApart
  <2> QED
    BY <1>1, <1>2, <2>1, <2>4, <2>6, <2>7, <2>9, <2>10 DEF FirstOK
<1> QED
  BY <1>9, <1>10, <1>11

\* A section is written again, or a part of it that it shrinks to.
LEMMA OverwriteFrame ==
  ASSUME TInv, BytesOK(file), SectionsStored(file, sections),
         NEW STATE i, i \in DOMAIN sections,
         sections[i].kind \notin {"Null", "NoBits"},
         NEW STATE len, len \in Nat, len <= sections[i].size,
         NEW STATE content, content # Garbage,
         DOMAIN sections' = DOMAIN sections,
         sections'[i].kind = sections[i].kind,
         sections'[i].offset = sections[i].offset,
         sections'[i].size = len,
         \A k \in DOMAIN sections : k # i => sections'[k] = sections[k],
         file' = Write(file, sections[i].offset, len, content)
  PROVE  /\ \A k \in DOMAIN sections : k # i => Kept(k) /\ SameBytes(k)
         /\ BytesOK(file') /\ SectionsStored(file', sections')
         /\ \A offset \in Nat, l \in Nat :
              Missed(sections, offset, l) => Missed(sections', offset, l)
         /\ len # 0 => Read(file', sections[i].offset, len) = content
<1> DEFINE s == sections[i]
           t == sections'[i]
<1>1. /\ DOMAIN sections' = DOMAIN sections
      /\ \A k \in DOMAIN sections : k # i => sections'[k] = sections[k]
  OBVIOUS
<1>2. \A k \in DOMAIN sections : sections[k] \in Section
  BY TableFacts
<1>3. /\ s.offset \in Nat /\ s.size \in Nat
      /\ t.kind = s.kind /\ t.offset = s.offset /\ t.size = len
  BY <1>2, LiveSection
<1>4. InFile(s) <=> s.size # 0
  <2>1. s \in Section /\ s.kind \notin {"Null", "NoBits"}
    BY <1>2
  <2> HIDE DEF s
  <2> QED
    BY <2>1, LiveSection
<1>5. /\ InFile(t) <=> len # 0
      /\ InFile(t) => SectionFileEnd(t) = t.offset + len
  <2>1. t.kind \notin {"Null", "NoBits"} /\ t.size = len /\ t.offset \in Nat
    BY <1>3
  <2> HIDE DEF t
  <2> QED
    BY <2>1 DEF InFile, SectionFileEnd
<1> HIDE DEF s, t
<1>6. ASSUME NEW k \in DOMAIN sections, k # i
      PROVE  Kept(k) /\ SameBytes(k)
  <2>1. ASSUME InFile(sections[k])
        PROVE  /\ Alike(file, file', sections[k].offset, sections[k].size)
               /\ Read(file', sections[k].offset, sections[k].size)
                    = Read(file, sections[k].offset, sections[k].size)
    <3>1. /\ sections[k].offset \in Nat /\ sections[k].size \in Nat \ {0}
      BY <1>2, <2>1, LiveSection
    <3>2. Disjoint(s.offset, len, sections[k].offset, sections[k].size)
      <4>1. CASE s.size = 0
        <5>1. len = 0
          BY <1>3, <4>1 DEF s
        <5> QED
          BY <5>1 DEF Disjoint
      <4>2. CASE s.size # 0
        <5>1. Disjoint(s.offset, s.size, sections[k].offset,
                       sections[k].size)
          BY <1>4, <1>6, <2>1, <4>2, SectionsDisjoint DEF s
        <5>2. len <= s.size
          BY DEF s
        <5> QED
          BY <1>3, <3>1, <4>2, <5>1, <5>2 DEF Disjoint
      <4> QED
        BY <4>1, <4>2
    <3>3. Stored(file', sections[k].offset, sections[k].size)
            = Stored(file, sections[k].offset, sections[k].size)
      BY <1>3, <3>1, <3>2, StoredWrite DEF s
    <3> QED
      BY <3>3, StoredAlike
  <2> QED
    BY <1>1, <1>6, <2>1 DEF Kept, SameBytes, ReadSection
<1>7. BytesOK(file')
  BY <1>3, WriteBytesOK DEF s
<1>8. len # 0 => /\ Stored(file', s.offset, len) # {}
                 /\ Read(file', s.offset, len) = content
  BY <1>3, ReadWritten DEF s
<1>9. SectionsStored(file', sections')
  <2> SUFFICES ASSUME NEW k \in DOMAIN sections', InFile(sections'[k])
               PROVE  /\ sections'[k].offset >= HeaderLen
                      /\ Stored(file', sections'[k].offset,
                                sections'[k].size) # {}
    BY DEF SectionsStored
  <2>1. CASE k = i
    <3>1. len # 0 /\ t = sections'[k]
      BY <1>5, <2>1 DEF t
    <3>2. s.size # 0
      BY <1>3, <3>1 DEF s
    <3>3. s.offset >= HeaderLen
      BY <1>4, <3>2 DEF s, SectionsStored
    <3> QED
      BY <1>3, <1>8, <3>1, <3>3
  <2>2. CASE k # i
    BY <1>1, <1>6, <2>2, KeptStored
  <2> QED
    BY <2>1, <2>2
<1>10. ASSUME NEW offset \in Nat, NEW l \in Nat, Missed(sections, offset, l)
       PROVE  Missed(sections', offset, l)
  <2> SUFFICES ASSUME NEW k \in DOMAIN sections', InFile(sections'[k])
               PROVE  \/ l = 0
                      \/ SectionFileEnd(sections'[k]) <= offset
                      \/ offset + l <= sections'[k].offset
    BY DEF Missed
  <2>1. CASE k = i
    <3>1. len # 0 /\ t = sections'[k]
      BY <1>5, <2>1 DEF t
    <3>2. s.size # 0 /\ len <= s.size
      BY <1>3, <3>1 DEF s
    <3>3. \/ l = 0
          \/ SectionFileEnd(s) <= offset
          \/ offset + l <= s.offset
      BY <1>4, <1>10, <3>2 DEF s, Missed
    <3>4. SectionFileEnd(s) = s.offset + s.size
      BY <1>2, <1>4, <3>2, LiveSection DEF s
    <3>5. SectionFileEnd(t) = s.offset + len
      BY <1>3, <1>5, <3>1
    <3> QED
      BY <1>3, <3>1, <3>2, <3>3, <3>4, <3>5
  <2>2. CASE k # i
    BY <1>1, <1>10, <2>2 DEF Missed
  <2> QED
    BY <2>1, <2>2
<1> QED
  BY <1>1, <1>3, <1>6, <1>7, <1>8, <1>9, <1>10 DEF s, t

\* The entries that say where the strings are do not touch those of a client.
LEMMA UpdatedTags ==
  ASSUME OrdinaryTags, NEW tags, NEW s, NEW tag \in Tags, NEW value
  PROVE  LET new == WithTag(WithStringTable(WithoutTags(tags, SearchPaths), s),
                            tag, value)
         IN  /\ Values(new) = Updated(Values(tags), tag, value, SearchPaths)
             /\ "StringTableAddress" \in DOMAIN new
             /\ new["StringTableAddress"] = s.address
<1> DEFINE kept == WithoutTags(tags, SearchPaths)
           mid == WithStringTable(kept, s)
           new == WithTag(mid, tag, value)
<1>1. /\ DOMAIN kept = DOMAIN tags \ SearchPaths
      /\ \A t \in DOMAIN kept : kept[t] = tags[t]
  BY DEF WithoutTags
<1> HIDE DEF kept
<1>2. /\ DOMAIN mid = DOMAIN kept \cup {"StringTableAddress",
                                        "StringTableSize"}
      /\ mid["StringTableAddress"] = s.address
      /\ \A t \in DOMAIN kept :
           t \notin {"StringTableAddress", "StringTableSize"}
             => mid[t] = kept[t]
  BY DEF WithStringTable, WithTag
<1> HIDE DEF mid
<1>3. /\ DOMAIN new = DOMAIN mid \cup {tag}
      /\ new[tag] = value
      /\ \A t \in DOMAIN mid : t # tag => new[t] = mid[t]
  BY DEF WithTag
<1> HIDE DEF new
<1>4. \A t \in Tags : t \notin {"StringTableAddress", "StringTableSize"}
  BY DEF OrdinaryTags
<1>5. ASSUME NEW t \in Tags
      PROVE  ValueIn(new, t) = IF t = tag THEN value
                               ELSE IF t \in SearchPaths THEN Absent
                               ELSE ValueIn(tags, t)
  BY <1>1, <1>2, <1>3, <1>4 DEF ValueIn
<1>6. Values(new) = Updated(Values(tags), tag, value, SearchPaths)
  BY <1>5 DEF Values, Updated
<1> QED
  BY <1>2, <1>3, <1>4, <1>6 DEF new, mid, kept

\* The string table is written again.
LEMMA WriteDynstrFirst ==
  ASSUME OrdinaryTags, TInv, TInv', FirstOK, WriteDynstr
  PROVE  FirstOK'
<1> DEFINE i == call.slot
           index == header.section_names_index
           content == [strings |-> call.strings]
           tags == WithTag(WithStringTable(WithoutTags(call.tags, SearchPaths),
                                           sections[i]),
                           call.tag, call.value)
<1>1. /\ pc = "write_dynstr" /\ pc' = "find_name"
      /\ file' = Write(file, sections[i].offset, sections[i].size, content)
      /\ call' = [call EXCEPT !.tags = tags,
                              !.name = ".dynamic", !.then = "place_dynamic"]
      /\ UNCHANGED <<header, sections, segments, names, want, calls, sessions>>
  BY DEF WriteDynstr, elf
<1>2. /\ Live /\ BytesOK(file) /\ SectionsStored(file, sections)
      /\ {"interp", "tags"} \subseteq DOMAIN want
      /\ HeaderGuarded(segments) /\ PhdrCovered(sections, segments)
  BY <1>1 DEF FirstOK, Live, Dead, TablesApart, InCalls, Finishing
<1>3. Phase = "write_dynstr"
  BY <1>1 DEF Phase, NameSteps
<1>4. /\ Positions(sections, "Dynamic") = {}
      /\ Positions(segments, "Dynamic") = {}
      /\ NamesForTags \subseteq CachedNames.strings
      /\ want.tags = Updated(Values(call.tags), call.tag, call.value,
                             SearchPaths)
      /\ i \in Positions(sections, "StringTable") /\ i < index
      /\ ".interp" \in CachedNames.strings \/ OneBefore(sections, i)
  BY <1>2, <1>3 DEF Live, DynamicOK, DynstrOK, TagsOK, WithoutTable
<1>5. i \in DOMAIN sections /\ sections[i].kind = "StringTable"
  BY <1>4 DEF Positions
<1>6. call.tag \in Tags
  BY <1>1 DEF TInv, CallOK, TagSteps
<1>7. /\ Values(tags) = Updated(Values(call.tags), call.tag, call.value,
                                SearchPaths)
      /\ "StringTableAddress" \in DOMAIN tags
      /\ tags["StringTableAddress"] = sections[i].address
  BY <1>6, UpdatedTags
<1>8. content # Garbage
  <2>1. "garbage" \notin DOMAIN content
    OBVIOUS
  <2> HIDE DEF content
  <2> QED
    BY <2>1, NotGarbage
<1> HIDE DEF tags, content
<1>9. /\ call'.tags = tags /\ call'.tag = call.tag /\ call'.slot = i
      /\ call'.value = call.value /\ call'.then = "place_dynamic"
  BY <1>1 DEF TInv, CallOK, NoCall
<1> HIDE DEF i
<1>10. Phase' = "place_dynamic"
  BY <1>1, <1>9 DEF Phase, NameSteps
<1>11. /\ \A k \in DOMAIN sections : k # i => Kept(k)
       /\ BytesOK(file') /\ SectionsStored(file', sections')
  <2>1. sections[i] \in Section /\ sections[i].size \in Nat
    BY <1>5, TableFacts, LiveSection
  <2>2. sections[i].size <= sections[i].size
    BY <2>1
  <2> QED
    BY <1>1, <1>2, <1>5, <1>8, <2>1, <2>2, OverwriteFrame
<1>12. NamesStay
  <2>1. index \in DOMAIN sections /\ index # i
    <3>1. index \in DOMAIN sections
      BY <1>1, <1>2 DEF Live, NamesOK, Positions
    <3> QED
      BY <1>4, <3>1, TableFacts
  <2>2. i \notin InterpSections(sections)
    BY <1>2, <1>5 DEF Live, NamesOK, InterpSections
  <2> QED
    BY <1>1, <1>11, <2>1, <2>2 DEF NamesStay, InterpSections
<1>13. CachedNames' = CachedNames /\ NamesOK' /\ InterpOK'
  BY <1>1, <1>3, <1>10, <1>12, TagFrame, SameItself
     DEF TagPhases, Dead, WithoutTable
<1>14. DynamicOK'
  BY <1>1, <1>4, <1>10 DEF DynamicOK, DynamicCoincides, Single, WithoutTable
<1>15. TagsOK'
  BY <1>1, <1>4, <1>7, <1>9, <1>10 DEF TagsOK, WithoutTable, Values
<1>16. DynstrOK'
  BY <1>1, <1>4, <1>7, <1>9, <1>10, <1>13
     DEF DynstrOK, WithoutTable, IsDynstr, index
<1>17. TablesApart'
  BY <1>1, <1>2 DEF TablesApart
<1> QED
  BY <1>1, <1>2, <1>11, <1>13, <1>14, <1>15, <1>16, <1>17 DEF FirstOK

\* The dynamic table takes the next spare slot, behind its string table.
LEMMA PlaceDynamicFirst ==
  ASSUME TInv, TInv', FirstOK, PlaceDynamic
  PROVE  FirstOK'
<1> DEFINE request == Request(".dynamic", "Dynamic", TRUE, TableLen(call.tags),
                              call.slot, DynamicAlign)
           content == [tags |-> call.tags]
           slot == SpareSlot(sections)
           d == call.slot
           index == header.section_names_index
<1>1. /\ pc = "place_dynamic" /\ Place(request, content, "overlay_dynamic")
      /\ call' = [call EXCEPT !.slot = SpareSlot(sections)]
      /\ UNCHANGED <<header, names, want, calls, sessions>>
  BY DEF PlaceDynamic
<1>2. /\ Live /\ BytesOK(file) /\ SectionsStored(file, sections)
      /\ {"interp", "tags"} \subseteq DOMAIN want
      /\ HeaderGuarded(segments) /\ PhdrCovered(sections, segments)
  BY <1>1 DEF FirstOK, Live, Dead, TablesApart, InCalls, Finishing
<1>3. Phase = "place_dynamic"
  BY <1>1 DEF Phase, NameSteps
<1>4. /\ Positions(sections, "Dynamic") = {}
      /\ Positions(segments, "Dynamic") = {}
      /\ NamesForTags \subseteq CachedNames.strings
      /\ want.tags = Values(call.tags)
      /\ d < index /\ IsDynstr(sections, call.tags, d)
      /\ ".interp" \in CachedNames.strings \/ OneBefore(sections, d)
  BY <1>2, <1>3 DEF Live, DynamicOK, DynstrOK, TagsOK, WithoutTable
<1>5. Cardinality(DOMAIN call.tags) \in Nat /\ IsFiniteSet(DOMAIN call.tags)
  BY FS_CardinalityType DEF TInv, CallOK
<1>6. TableLen(call.tags) \in Nat /\ TableLen(call.tags) >= DynamicLen
      /\ TableLen(call.tags) # 0
  BY <1>5 DEF TableLen, DynamicLen
<1>7. /\ Requestable(request) /\ request.kind = "Dynamic"
      /\ request.name = ".dynamic"
  <2>1. ".dynamic" \in Names
    BY PatchNamesAssumption DEF PatchNames
  <2>2. DynamicAlign \in Word
    BY AlignsAssumption
  <2>3. call.slot \in Nat
    BY DEF TInv, CallOK
  <2> QED
    BY <1>6, <2>1, <2>2, <2>3 DEF Requestable, Request, SectionKinds
<1>8. /\ request.size # 0 /\ request.size >= DynamicLen
      /\ TableFits(content.tags, request.size)
  BY <1>5, <1>6 DEF Request, TableFits
<1>9. content # Garbage /\ TagsIn(content) = call.tags
  <2>1. "garbage" \notin DOMAIN content /\ "tags" \in DOMAIN content
        /\ content.tags = call.tags
    OBVIOUS
  <2> HIDE DEF content
  <2> QED
    BY <2>1, NotGarbage DEF TagsIn
<1>10. /\ call'.slot = slot /\ call'.tag = call.tag /\ call'.value = call.value
  BY <1>1 DEF TInv, CallOK, NoCall
<1> HIDE DEF request, content, slot
<1>11. \/ pc' = "failed" /\ UNCHANGED <<sections, segments, file>>
       \/ /\ pc' = "overlay_dynamic"
          /\ slot \in Nat /\ slot > 1 /\ slot \in DOMAIN sections'
          /\ sections'[slot].name = ".dynamic"
          /\ sections'[slot].kind = "Dynamic"
          /\ InFile(sections'[slot])
          /\ Read(file', sections'[slot].offset, sections'[slot].size)
               = content
          /\ slot \in DOMAIN sections => sections[slot].kind = "Null"
          /\ \A n \in SpareSlots(sections) : slot <= n
          /\ \A k \in DOMAIN sections : k # slot => Kept(k)
          /\ \A k \in DOMAIN sections' : k # slot =>
               \/ k \in DOMAIN sections
               \/ k = 1 /\ sections'[k] = NullSection
          /\ BytesOK(file') /\ SectionsStored(file', sections')
          /\ HeaderGuarded(segments')
          /\ PhdrCovered(sections', segments')
          /\ SameKind(segments', segments, "Interpreter")
          /\ SameKind(segments', segments, "Dynamic")
  BY <1>1, <1>2, <1>7, <1>8, <1>9, PlaceFrame DEF slot
<1>12. CASE pc' = "failed" /\ UNCHANGED <<sections, segments, file>>
  BY <1>1, <1>2, <1>12 DEF FirstOK, Dead
<1>13. CASE pc' # "failed"
  <2>1. /\ pc' = "overlay_dynamic"
        /\ slot \in Nat /\ slot > 1 /\ slot \in DOMAIN sections'
        /\ sections'[slot].name = ".dynamic"
        /\ sections'[slot].kind = "Dynamic"
        /\ InFile(sections'[slot])
        /\ Read(file', sections'[slot].offset, sections'[slot].size) = content
        /\ slot \in DOMAIN sections => sections[slot].kind = "Null"
        /\ \A n \in SpareSlots(sections) : slot <= n
        /\ \A k \in DOMAIN sections : k # slot => Kept(k)
        /\ \A k \in DOMAIN sections' : k # slot =>
             \/ k \in DOMAIN sections
             \/ k = 1 /\ sections'[k] = NullSection
        /\ BytesOK(file') /\ SectionsStored(file', sections')
        /\ HeaderGuarded(segments')
        /\ PhdrCovered(sections', segments')
        /\ SameKind(segments', segments, "Interpreter")
        /\ SameKind(segments', segments, "Dynamic")
    BY <1>11, <1>13
  <2>2. Phase' = "overlay_dynamic"
    BY <2>1 DEF Phase, NameSteps
  <2>3. /\ NamesStay
        /\ \A n \in SpareSlots(sections') :
             n \in SpareSlots(sections) /\ slot < n
    BY <1>1, <1>2, <2>1, PlacedStay DEF Live
  <2>4. CachedNames' = CachedNames /\ NamesOK' /\ InterpOK'
    BY <1>1, <1>3, <2>1, <2>2, <2>3, TagFrame
       DEF TagPhases, Dead, WithoutTable
  <2>5. Positions(sections', "Dynamic") = {slot}
    BY <1>4, <2>1 DEF Positions, Kept, NullSection
  <2>6. Positions(segments', "Dynamic") = {}
    BY <1>4, <2>1 DEF SameKind, Has
  <2>7. DynamicOK'
    BY <1>10, <2>2, <2>5, <2>6 DEF DynamicOK, DynamicCoincides, Single,
                                   WithoutTable
  <2>8. DynamicTags' = call.tags
    <3>1. sections' \in Seq(Section)
      BY DEF TInv, TablesOK, GoodSections
    <3>2. First(Positions(sections', "Dynamic")) = slot
      <4>1. Positions(sections', "Dynamic") \in SUBSET DOMAIN sections'
        BY DEF Positions
      <4>2. Single(Positions(sections', "Dynamic"))
            /\ slot \in Positions(sections', "Dynamic")
        BY <2>5 DEF Single
      <4> QED
        BY <3>1, <4>1, <4>2, FirstOfSingle
    <3>3. slot # 0
      BY <2>1
    <3> QED
      BY <1>9, <2>1, <3>2, <3>3 DEF DynamicTags, ReadSection
  <2>9. TagsOK'
    BY <1>1, <1>4, <2>2, <2>8 DEF TagsOK, WithoutTable, Values
  <2>10. DynstrFound(sections', call.tags, index, CachedNames.strings)
    <3>1. d \in DOMAIN sections /\ sections[d].kind = "StringTable"
          /\ d \in Nat
      BY <1>4, TableFacts DEF IsDynstr, Positions
    <3>2. d # slot /\ d \in DOMAIN sections' /\ sections'[d] = sections[d]
      BY <2>1, <3>1 DEF Kept
    <3>3. IsDynstr(sections', call.tags, d)
      BY <1>4, <3>2 DEF IsDynstr, Positions
    <3>4. ASSUME OneBefore(sections, d), NEW n \in SpareSlots(sections')
          PROVE  d < n
      <4>1. n \in SpareSlots(sections) /\ slot < n /\ n \in DOMAIN sections
            /\ n \in Nat
        BY <2>3, TableFacts DEF SpareSlots, Positions
      <4>2. SUFFICES ASSUME n <= d PROVE FALSE
        BY <3>1, <4>1
      <4>3. slot \in DOMAIN sections
        BY <2>1, <4>1, TableFacts
      <4>4. slot \in SpareSlots(sections)
        BY <2>1, <4>3 DEF SpareSlots, Positions
      <4>5. slot <= d /\ n <= d
        BY <2>1, <3>1, <4>1, <4>2
      <4>6. slot = n
        BY <3>4, <4>1, <4>4, <4>5 DEF OneBefore, Single
      <4> QED
        BY <2>1, <4>1, <4>6
    <3> QED
      BY <1>4, <3>2, <3>3, <3>4 DEF DynstrFound
  <2>11. DynstrOK'
    BY <1>1, <1>4, <2>1, <2>2, <2>4, <2>8, <2>10 DEF DynstrOK, WithoutTable
  <2>12. TablesApart'
    BY <2>1 DEF TablesApart
  <2> QED
    BY <1>1, <1>2, <2>1, <2>4, <2>7, <2>9, <2>11, <2>12 DEF FirstOK
<1> QED
  BY <1>11, <1>12, <1>13

\* DYNAMIC is the bytes of the new section.
LEMMA OverlayDynamicFirst ==
  ASSUME TInv, TInv', FirstOK, OverlayDynamic
  PROVE  FirstOK'
<1> DEFINE i == call.slot
           s == sections[i]
           g == OverlaySegment(s, "Dynamic")
<1>1. /\ pc = "overlay_dynamic" /\ pc' = "move_symbols"
      /\ segments' = Append(segments, g)
      /\ UNCHANGED <<header, sections, names, file, want, calls, sessions,
                     call>>
  BY DEF OverlayDynamic, Continue
<1>2. /\ Live /\ BytesOK(file) /\ SectionsStored(file, sections)
      /\ {"interp", "tags"} \subseteq DOMAIN want
      /\ HeaderGuarded(segments) /\ PhdrCovered(sections, segments)
  BY <1>1 DEF FirstOK, Live, Dead, TablesApart, InCalls, Finishing
<1>3. Phase = "overlay_dynamic" /\ Phase' = "move_symbols"
  BY <1>1 DEF Phase, NameSteps
<1>4. /\ Positions(segments, "Dynamic") = {}
      /\ i \in Positions(sections, "Dynamic")
      /\ Single(Positions(sections, "Dynamic"))
  BY <1>2, <1>3 DEF Live, DynamicOK
<1>5. i \in DOMAIN sections /\ s \in Section /\ segments \in Seq(Segment)
      /\ InFile(s)
  BY <1>4, TableFacts, DynamicIsLive
<1>6. /\ g \in Segment /\ g.kind = "Dynamic" /\ g.offset = s.offset
      /\ g.file_size = s.size /\ g.offset \in Nat /\ g.offset >= HeaderLen
  <2>1. s.offset \in Nat /\ s.offset >= HeaderLen
    BY <1>2, <1>5, LiveSection DEF SectionsStored
  <2>2. g \in Segment
    BY <1>5, OverlayIsSegment
  <2> QED
    BY <2>1, <2>2 DEF OverlaySegment
<1> HIDE DEF g
<1>7. /\ Positions(segments', "Dynamic") = {Len(segments')}
      /\ segments'[Len(segments')] = g
      /\ SameKind(segments', segments, "Interpreter")
      /\ Has(segments', segments, "Loadable")
      /\ SameKind(segments', segments, "ProgramHeader")
      /\ NoneBefore(segments', segments)
  BY <1>1, <1>4, <1>5, <1>6, AppendSameKind DEF SameKind
<1>8. HeaderGuarded(segments') /\ PhdrCovered(sections', segments')
  <2>1. HeaderGuarded(segments')
    BY <1>2, <1>7, GuardedKept DEF SameKind
  <2>2. \A j \in Positions(segments, "ProgramHeader") :
          Missed(sections', segments[j].offset, segments[j].file_size)
    BY <1>1, <1>2 DEF PhdrCovered
  <2> QED
    BY <1>2, <1>7, <2>1, <2>2, CoveredKept DEF SameKind
<1>9. NamesStay
  <2>1. header.section_names_index \in DOMAIN sections
    BY <1>1, <1>2 DEF Live, NamesOK, Positions
  <2> QED
    BY <1>1, <2>1, FileKept DEF NamesStay, InterpSections
<1>10. CachedNames' = CachedNames /\ NamesOK' /\ InterpOK'
  BY <1>1, <1>3, <1>7, <1>9, TagFrame DEF TagPhases, Dead
<1>11. DynamicTags' = DynamicTags
  BY <1>1 DEF DynamicTags, ReadSection
<1>12. DynamicOK'
  <2>1. Single(Positions(segments', "Dynamic"))
    BY <1>7 DEF Single
  <2>2. DynamicCoincides(sections', segments')
    <3> SUFFICES ASSUME NEW k \in Positions(sections, "Dynamic")
                 PROVE  Coincide(g, sections[k])
      BY <1>1, <1>7 DEF DynamicCoincides
    <3>1. k = i
      BY <1>4 DEF Single
    <3> QED
      BY <1>5, <1>6, <3>1 DEF Coincide
  <2> QED
    BY <1>1, <1>3, <1>4, <2>1, <2>2 DEF DynamicOK, WithoutTable
<1>13. TagsOK'
  <2>1. want.tags = Values(DynamicTags)
    BY <1>2, <1>3 DEF Live, TagsOK, WithoutTable
  <2> QED
    BY <1>1, <1>3, <1>11, <2>1 DEF TagsOK, WithoutTable, Values
<1>14. DynstrOK'
  BY <1>1, <1>2, <1>3, <1>10, <1>11 DEF Live, DynstrOK, WithoutTable
<1>15. TablesApart'
  BY <1>1, <1>8 DEF TablesApart
<1> QED
  BY <1>1, <1>2, <1>10, <1>12, <1>13, <1>14, <1>15 DEF FirstOK

\* A block, or a symbol with another address.
Moved(b, old, to) ==
  IF b \in old THEN [b EXCEPT !.content = [symbol |-> to]] ELSE b

\* Symbols get another address and nothing else changes.
LEMMA MovedBlocks ==
  ASSUME NEW bytes, WellStored(bytes), BytesOK(bytes),
         NEW old, NEW to, \A b \in old : DOMAIN b.content = {"symbol"},
         NEW after,
         \A b \in bytes : Moved(b, old, to) \in after,
         \A c \in after : \E b \in bytes : c = Moved(b, old, to)
  PROVE  /\ BytesOK(after)
         /\ \A offset \in Nat, len \in Nat \ {0} :
              Alike(bytes, after, offset, len)
<1> DEFINE SameParts(c, d) == /\ StringsIn(c) = StringsIn(d)
                              /\ TagsIn(c) = TagsIn(d)
                              /\ InterpIn(c) = InterpIn(d)
<1>1. ASSUME NEW c, DOMAIN c = {"symbol"}
      PROVE  /\ c # Garbage /\ StringsIn(c) = {} /\ TagsIn(c) = << >>
             /\ InterpIn(c) = "garbage"
  BY <1>1, NotGarbage DEF StringsIn, TagsIn, InterpIn
<1>2. ASSUME NEW b \in bytes
      PROVE  /\ Moved(b, old, to).offset = b.offset
             /\ Moved(b, old, to).len = b.len
             /\ Moved(b, old, to).content # Garbage
             /\ SameParts(Moved(b, old, to).content, b.content)
  <2>1. b = Block(b.offset, b.len, b.content) /\ b.content # Garbage
    BY DEF WellStored, BytesOK
  <2>2. CASE b \in old
    <3>1. Moved(b, old, to) = [b EXCEPT !.content = [symbol |-> to]]
      BY <2>2 DEF Moved
    <3>2. /\ Moved(b, old, to).offset = b.offset
          /\ Moved(b, old, to).len = b.len
          /\ Moved(b, old, to).content = [symbol |-> to]
      BY <2>1, <3>1 DEF Block
    <3>3. /\ DOMAIN b.content = {"symbol"}
          /\ DOMAIN [symbol |-> to] = {"symbol"}
      BY <2>2
    <3> QED
      BY <1>1, <3>2, <3>3
  <2>3. CASE b \notin old
    BY <2>1, <2>3 DEF Moved
  <2> QED
    BY <2>2, <2>3
<1>3. BytesOK(after)
  <2>1. \A b \in after : b.content # Garbage
    BY <1>2
  <2>2. ASSUME NEW b \in bytes, NEW c \in bytes,
               Moved(b, old, to).offset = Moved(c, old, to).offset,
               Moved(b, old, to).len = Moved(c, old, to).len,
               Moved(b, old, to).len # 0
        PROVE  b = c
    BY <1>2, <2>2 DEF BytesOK
  <2> QED
    BY <2>1, <2>2 DEF BytesOK
<1>4. ASSUME NEW offset \in Nat, NEW len \in Nat \ {0}
      PROVE  Alike(bytes, after, offset, len)
  <2> DEFINE S == Stored(bytes, offset, len)
             R == Stored(after, offset, len)
  <2>1. R = {Moved(b, old, to) : b \in S}
    BY <1>2 DEF Stored
  <2>2. CASE S = {}
    BY <2>1, <2>2, StoredAlike
  <2>3. ASSUME NEW b \in S
        PROVE  Alike(bytes, after, offset, len)
    <3>1. b \in bytes /\ S = {b}
      BY DEF Stored, BytesOK
    <3>2. R = {Moved(b, old, to)}
      BY <2>1, <3>1
    <3>3. Read(bytes, offset, len) = b.content
      BY <3>1 DEF Read
    <3>4. Read(after, offset, len) = Moved(b, old, to).content
      BY <3>2 DEF Read
    <3>5. SameParts(Moved(b, old, to).content, b.content)
      BY <1>2, <3>1
    <3> QED
      BY <3>2, <3>3, <3>4, <3>5 DEF Alike
  <2> QED
    BY <2>2, <2>3
<1> QED
  BY <1>3, <1>4

\* The symbols of the dynamic table get its new address.
LEMMA MoveSymbolsFirst ==
  ASSUME TInv, TInv', FirstOK, MoveSymbols
  PROVE  FirstOK'
<1> DEFINE old == {b \in file :
                     /\ \E i \in SymbolTables :
                          b \in Stored(file, sections[i].offset,
                                       sections[i].size)
                     /\ b.content = [symbol |-> call.address]}
           to == sections[call.slot].address
<1>1. /\ pc = "move_symbols" /\ pc' = "ready"
      /\ UNCHANGED <<header, sections, segments, names, want, calls, sessions>>
  BY DEF MoveSymbols, Return, elf
<1>2. /\ BytesOK(file) /\ {"interp", "tags"} \subseteq DOMAIN want
      /\ HeaderGuarded(segments) /\ PhdrCovered(sections, segments)
  BY <1>1 DEF FirstOK, Dead, TablesApart, InCalls, Finishing
<1>3. file' = {Moved(b, old, to) : b \in file}
  <2> DEFINE moved(b) == IF /\ \E i \in SymbolTables :
                                 b \in Stored(file, sections[i].offset,
                                              sections[i].size)
                            /\ b.content = [symbol |-> call.address]
                         THEN [b EXCEPT !.content = [symbol |-> to]] ELSE b
  <2>1. file' = {moved(b) : b \in file}
    BY DEF MoveSymbols
  <2>2. \A b \in file : moved(b) = Moved(b, old, to)
    BY DEF Moved
  <2> HIDE DEF moved, old, to
  <2> QED
    BY <2>1, <2>2
<1>4. WellStored(file)
  BY DEF TInv
<1>5. \A b \in old : DOMAIN b.content = {"symbol"}
  OBVIOUS
<1> HIDE DEF old, to
<1>6. /\ BytesOK(file')
      /\ \A offset \in Nat, len \in Nat \ {0} :
           Alike(file, file', offset, len)
  <2>1. /\ \A b \in file : Moved(b, old, to) \in file'
        /\ \A c \in file' : \E b \in file : c = Moved(b, old, to)
    BY <1>3
  <2> QED
    BY <1>2, <1>4, <1>5, <2>1, MovedBlocks
<1>7. \A i \in DOMAIN sections : Kept(i)
  <2> SUFFICES ASSUME NEW i \in DOMAIN sections, InFile(sections[i])
               PROVE  Alike(file, file', sections[i].offset, sections[i].size)
    BY <1>1 DEF Kept
  <2>1. sections[i].offset \in Nat /\ sections[i].size \in Nat \ {0}
    BY TableFacts, LiveSection
  <2> QED
    BY <1>6, <2>1
<1>8. /\ NamesOK' /\ InterpOK' /\ DynamicOK' /\ TagsOK' /\ DynstrOK'
      /\ SectionsStored(file', sections')
  BY <1>1, <1>7, RestingFirst, SameItself DEF Resting
<1>9. TablesApart'
  BY <1>1, <1>2 DEF TablesApart
<1> QED
  BY <1>1, <1>2, <1>6, <1>8, <1>9 DEF FirstOK

\* One segment gets another length.
LEMMA ResizedSameKind ==
  ASSUME NEW old \in Seq(Segment), NEW j \in DOMAIN old,
         NEW new, DOMAIN new = DOMAIN old,
         \A k \in DOMAIN old : k # j => new[k] = old[k],
         new[j].kind = old[j].kind, new[j].offset = old[j].offset
  PROVE  /\ \A kind : Positions(new, kind) = Positions(old, kind)
         /\ \A kind : kind # old[j].kind => SameKind(new, old, kind)
         /\ NoneBefore(new, old)
<1>1. \A kind : Positions(new, kind) = Positions(old, kind)
  BY DEF Positions
<1>2. ASSUME NEW kind, kind # old[j].kind
      PROVE  SameKind(new, old, kind)
  <2>1. \A k \in Positions(old, kind) : new[k] = old[k]
    BY <1>2 DEF Positions
  <2> QED
    BY <1>1, <2>1 DEF SameKind, Has
<1>3. NoneBefore(new, old)
  BY DEF NoneBefore
<1> QED
  BY <1>1, <1>2, <1>3

\* remove_dynamic_tag writes a shorter table in the place of the old one.
LEMMA ShrinkDynamicFirst ==
  ASSUME OrdinaryTags, TInv, TInv', FirstOK, ShrinkDynamic
  PROVE  FirstOK'
<1> DEFINE i == First(Positions(sections, "Dynamic"))
           j == First(Positions(segments, "Dynamic"))
           tags == WithoutTags(DynamicTags, {call.tag})
           len == TableLen(tags)
           index == header.section_names_index
           content == [tags |-> tags]
<1>1. /\ pc = "shrink_dynamic" /\ pc' = "ready"
      /\ UNCHANGED <<header, names, want, calls, sessions>>
  BY DEF ShrinkDynamic, Return
<1>2. /\ Live /\ BytesOK(file) /\ SectionsStored(file, sections)
      /\ {"interp", "tags"} \subseteq DOMAIN want
      /\ HeaderGuarded(segments) /\ PhdrCovered(sections, segments)
  BY <1>1 DEF FirstOK, Live, Dead, TablesApart, InCalls, Finishing
<1>3. Phase = "shrink_dynamic" /\ Phase' = "ready"
  BY <1>1 DEF Phase, NameSteps
<1>4. /\ Single(Positions(sections, "Dynamic"))
      /\ Single(Positions(segments, "Dynamic"))
      /\ DynamicCoincides(sections, segments)
      /\ want.tags = Updated(Values(DynamicTags), call.tag, Absent, {})
  BY <1>2, <1>3 DEF Live, DynamicOK, TagsOK, WithoutTable
<1>5. /\ Positions(sections, "Dynamic") \in SUBSET DOMAIN sections
      /\ Positions(segments, "Dynamic") \in SUBSET DOMAIN segments
      /\ index \in DOMAIN sections /\ sections[index].kind = "StringTable"
  BY <1>1, <1>2 DEF Positions, Live, NamesOK
<1>6. want.tags = Values(tags)
  <2>1. \A t \in Tags : ValueIn(tags, t) = IF t = call.tag THEN Absent
                                           ELSE ValueIn(DynamicTags, t)
    BY DEF ValueIn, WithoutTags
  <2> HIDE DEF tags
  <2> QED
    BY <1>4, <2>1 DEF Updated, Values
<1>7. CASE i = 0
  <2>1. UNCHANGED <<sections, segments, file>>
    BY <1>7 DEF ShrinkDynamic
  <2>2. Positions(sections, "Dynamic") = {}
    BY <1>5, <1>7, TableFacts, FirstPosition
  <2>3. NamesStay
    BY <1>5, <2>1, FileKept DEF NamesStay, InterpSections
  <2>4. CachedNames' = CachedNames /\ NamesOK' /\ InterpOK'
    BY <1>1, <1>3, <2>1, <2>3, TagFrame, SameItself DEF TagPhases, Dead
  <2>5. DynamicOK'
    BY <1>1, <1>3, <1>4, <2>1 DEF DynamicOK, WithoutTable
  <2>6. TagsOK'
    <3>1. DynamicTags = << >> /\ DynamicTags' = << >>
      BY <1>7, <2>1 DEF DynamicTags
    <3>2. tags = << >>
      BY <3>1 DEF WithoutTags
    <3> HIDE DEF tags
    <3> QED
      BY <1>1, <1>3, <1>6, <3>1, <3>2 DEF TagsOK, WithoutTable, Values
  <2>7. DynstrOK'
    BY <1>3, <2>1, <2>2 DEF DynstrOK, WithoutTable
  <2>8. TablesApart'
    BY <1>1, <1>2, <2>1 DEF TablesApart
  <2> QED
    BY <1>1, <1>2, <2>1, <2>4, <2>5, <2>6, <2>7, <2>8 DEF FirstOK
<1>8. CASE i # 0
  <2>1. /\ sections' = [sections EXCEPT ![i].size = len]
        /\ file' = Write(file, sections[i].offset, len, content)
        /\ segments' = IF j = 0 THEN segments
                       ELSE [segments EXCEPT ![j].file_size = len,
                                             ![j].memory_size = len]
    BY <1>8 DEF ShrinkDynamic
  <2>2. i \in Positions(sections, "Dynamic")
    BY <1>5, <1>8, TableFacts, FirstPosition
  <2>3. /\ i \in DOMAIN sections /\ sections[i].kind = "Dynamic"
        /\ len \in 1 .. sections[i].size /\ sections[i].size \in Nat
    BY <2>2, ShrunkTable, TableFacts, LiveSection
  <2>4. content # Garbage /\ TagsIn(content) = tags
    <3> HIDE DEF tags
    <3>1. "garbage" \notin DOMAIN content /\ "tags" \in DOMAIN content
          /\ content.tags = tags
      OBVIOUS
    <3> HIDE DEF content
    <3> QED
      BY <3>1, NotGarbage DEF TagsIn
  <2> HIDE DEF i, len, content, tags
  <2>5. len \in Nat /\ len # 0 /\ len <= sections[i].size
    BY <2>3
  <2>6. /\ DOMAIN sections' = DOMAIN sections
        /\ sections'[i].kind = sections[i].kind
        /\ sections'[i].name = sections[i].name
        /\ sections'[i].offset = sections[i].offset
        /\ sections'[i].size = len
        /\ \A k \in DOMAIN sections : k # i => sections'[k] = sections[k]
    <3>1. sections[i] \in Section
      BY <2>3, TableFacts
    <3> QED
      BY <2>1, <2>3, <3>1 DEF Section
  <2>20. /\ \A k \in DOMAIN sections : k # i => Kept(k)
        /\ BytesOK(file') /\ SectionsStored(file', sections')
        /\ \A offset \in Nat, l \in Nat :
             Missed(sections, offset, l) => Missed(sections', offset, l)
    <3>1. file' = Write(file, sections[i].offset, len, content)
      BY <2>1
    <3>2. sections[i].kind \notin {"Null", "NoBits"} /\ i \in DOMAIN sections
      BY <2>3
    <3>3. content # Garbage
      BY <2>4
    <3> QED
      BY <1>2, <2>5, <2>6, <3>1, <3>2, <3>3, OverwriteFrame
  <2>21. Read(file', sections[i].offset, len) = content
    <3>1. file' = Write(file, sections[i].offset, len, content)
      BY <2>1
    <3>2. sections[i].kind \notin {"Null", "NoBits"} /\ i \in DOMAIN sections
      BY <2>3
    <3>3. content # Garbage
      BY <2>4
    <3> QED
      BY <1>2, <2>5, <2>6, <3>1, <3>2, <3>3, OverwriteFrame
  <2>7. sections[i] \in Section /\ sections'[i] \in Section
    BY <2>3, <2>6, TableFacts DEF TInv, TablesOK, GoodSections
  <2>8. /\ sections'[i].kind = "Dynamic" /\ sections'[i].size = len
        /\ sections'[i].offset = sections[i].offset
        /\ sections'[i].name = sections[i].name
    BY <2>3, <2>6
  <2>9. InFile(sections'[i])
    BY <2>5, <2>7, <2>8, LiveSection
  <2>10. \A kind : Positions(sections', kind) = Positions(sections, kind)
    BY <2>3, <2>6, <2>8 DEF Positions
  <2>11. /\ SameKind(segments', segments, "Interpreter")
         /\ SameKind(segments', segments, "Loadable")
         /\ SameKind(segments', segments, "ProgramHeader")
         /\ NoneBefore(segments', segments)
         /\ Positions(segments', "Dynamic") = Positions(segments, "Dynamic")
         /\ DynamicCoincides(sections', segments')
    <3>1. CASE j = 0
      <4>1. Positions(segments, "Dynamic") = {}
        BY <1>5, <3>1, TableFacts, FirstPosition
      <4> QED
        BY <2>1, <3>1, <4>1, SameItself DEF DynamicCoincides
    <3>2. CASE j # 0
      <4>1. j \in Positions(segments, "Dynamic") /\ segments \in Seq(Segment)
        BY <1>5, <3>2, TableFacts, FirstPosition
      <4>2. segments' = [segments EXCEPT ![j].file_size = len,
                                         ![j].memory_size = len]
        BY <2>1, <3>2
      <4> HIDE DEF j
      <4>3. j \in DOMAIN segments /\ segments[j].kind = "Dynamic"
        BY <4>1 DEF Positions
      <4>8. /\ segments'[j].offset = segments[j].offset
            /\ segments'[j].file_size = len
            /\ segments'[j].kind = segments[j].kind
            /\ DOMAIN segments' = DOMAIN segments
            /\ \A k \in DOMAIN segments : k # j => segments'[k] = segments[k]
        <5>1. segments[j] \in Segment
          BY <4>1, <4>3
        <5> QED
          BY <4>2, <4>3, <5>1 DEF Segment
      <4>4. /\ \A kind : Positions(segments', kind) = Positions(segments, kind)
            /\ \A kind : kind # "Dynamic"
                           => SameKind(segments', segments, kind)
            /\ NoneBefore(segments', segments)
        BY <4>1, <4>3, <4>8, ResizedSameKind
      <4>5. segments[j].offset = sections[i].offset
        BY <1>4, <2>2, <4>1 DEF DynamicCoincides, Coincide
      <4>6. Coincide(segments'[j], sections'[i])
        BY <2>8, <2>9, <4>8, <4>5 DEF Coincide
      <4>7. DynamicCoincides(sections', segments')
        BY <1>4, <2>2, <2>10, <4>1, <4>4, <4>6 DEF DynamicCoincides, Single
      <4> QED
        BY <4>4, <4>7
    <3> QED
      BY <3>1, <3>2
  <2>12. NamesStay
    <3>1. index # i
      BY <1>5, <2>3
    <3>2. sections[i].name # ".interp"
      BY <1>2, <2>3 DEF Live, NamesOK, InterpSections
    <3> QED
      BY <1>5, <2>6, <2>8, <2>20, <3>1, <3>2 DEF NamesStay, InterpSections, Kept
  <2>13. CachedNames' = CachedNames /\ NamesOK' /\ InterpOK'
    BY <1>1, <1>3, <2>11, <2>12, TagFrame DEF TagPhases, Dead
  <2>14. DynamicTags' = tags
    <3>1. Positions(sections', "Dynamic") = Positions(sections, "Dynamic")
      BY <2>10
    <3>2. PICK k : k = First(Positions(sections, "Dynamic"))
      OBVIOUS
    <3>3. k = i /\ k # 0
      BY <1>8, <3>2 DEF i
    <3>4. First(Positions(sections', "Dynamic")) = k
      BY <3>1, <3>2
    <3>5. DynamicTags' = TagsIn(Read(file', sections'[k].offset,
                                     sections'[k].size))
      BY <3>3, <3>4 DEF DynamicTags, ReadSection
    <3>6. Read(file', sections'[k].offset, sections'[k].size) = content
      <4>1. /\ sections'[k].offset = sections[i].offset
            /\ sections'[k].size = len
        BY <2>8, <3>3
      <4>2. Read(file', sections[i].offset, len) = content
        BY <2>21
      <4> QED
        BY <4>1, <4>2
    <3> QED
      BY <2>4, <3>5, <3>6
  <2>15. DynamicOK'
    BY <1>3, <1>4, <2>10, <2>11 DEF DynamicOK, WithoutTable
  <2>16. TagsOK'
    BY <1>1, <1>3, <1>6, <2>14 DEF TagsOK, WithoutTable, Values
  <2>17. DynstrOK'
    <3>1. /\ NamesForTags \subseteq CachedNames.strings
          /\ DynstrFound(sections, DynamicTags, index, CachedNames.strings)
      BY <1>1, <1>2, <2>2 DEF Live, DynstrOK
    <3>2. PICK d \in DOMAIN sections :
            /\ IsDynstr(sections, DynamicTags, d)
            /\ d < index
            /\ \/ ".interp" \in CachedNames.strings
               \/ \A n \in SpareSlots(sections) : d < n
      BY <3>1 DEF DynstrFound
    <3>3. d # i /\ d \in DOMAIN sections' /\ sections'[d] = sections[d]
      BY <2>3, <2>6, <3>2 DEF IsDynstr, Positions
    <3>4. "StringTableAddress" # call.tag
      <4>1. call.tag \in Tags
        BY <1>1 DEF TInv, CallOK
      <4> QED
        BY <4>1 DEF OrdinaryTags
    <3>5. /\ "StringTableAddress" \in DOMAIN tags
          /\ tags["StringTableAddress"] = DynamicTags["StringTableAddress"]
      BY <3>2, <3>4 DEF IsDynstr, WithoutTags, tags
    <3>6. IsDynstr(sections', tags, d)
      BY <3>2, <3>3, <3>5 DEF IsDynstr, Positions
    <3>7. SpareSlots(sections') = SpareSlots(sections)
      BY <2>10 DEF SpareSlots
    <3>8. DynstrFound(sections', tags, index, CachedNames.strings)
      BY <3>2, <3>3, <3>6, <3>7 DEF DynstrFound
    <3> QED
      BY <1>1, <1>3, <2>13, <2>14, <3>1, <3>8 DEF DynstrOK, WithoutTable
  <2>18. HeaderGuarded(segments') /\ PhdrCovered(sections', segments')
    <3>1. HeaderGuarded(segments')
      BY <1>2, <2>11, GuardedKept DEF SameKind
    <3>2. ASSUME NEW k \in Positions(segments, "ProgramHeader")
          PROVE  Missed(sections', segments[k].offset, segments[k].file_size)
      <4>1. k \in DOMAIN segments
        BY DEF Positions
      <4>2. segments[k].offset \in Nat /\ segments[k].file_size \in Nat
        BY <4>1, TableFacts, EndsAreNatural
      <4> QED
        BY <1>2, <2>20, <4>2 DEF PhdrCovered
    <3> QED
      BY <1>2, <2>11, <3>1, <3>2, CoveredKept DEF SameKind
  <2>19. TablesApart'
    BY <1>1, <2>18 DEF TablesApart
  <2> QED
    BY <1>1, <1>2, <2>20, <2>13, <2>15, <2>16, <2>17, <2>19 DEF FirstOK
<1> QED
  BY <1>7, <1>8

\* A section that stands for none stays in the first slot.
LEMMA FirstStaysNull ==
  ASSUME TInv, FirstIsNull, [Next]_vars
  PROVE  FirstIsNull'
<1>1. ASSUME NEW i, Free(i)
      PROVE  FirstIsNull'
  BY <1>1 DEF Free, FreeSections, FirstIsNull, NullSection
<1>2. ASSUME NEW request, NEW content, NEW step, Place(request, content, step)
      PROVE  FirstIsNull'
  <2>1. CASE UNCHANGED sections
    BY <2>1 DEF FirstIsNull
  <2>2. ASSUME NEW section, sections' = AddSection(sections, section)
        PROVE  FirstIsNull'
    <3>1. 1 \in DOMAIN sections' =>
            \/ 1 \in DOMAIN sections /\ sections'[1] = sections[1]
            \/ sections'[1] = NullSection
      BY <2>2, TableFacts, AddSectionSlot
    <3> QED
      BY <3>1 DEF FirstIsNull, NullSection
  <2> QED
    BY <1>2, <2>1, <2>2 DEF Place
<1>3. CASE UNCHANGED sections
  BY <1>3 DEF FirstIsNull
<1>4. CASE ShrinkDynamic
  <2> DEFINE i == First(Positions(sections, "Dynamic"))
  <2>1. CASE i = 0
    BY <1>3, <1>4, <2>1 DEF ShrinkDynamic
  <2>2. CASE i # 0
    <3>1. i \in Positions(sections, "Dynamic")
      <4>1. Positions(sections, "Dynamic") \in SUBSET DOMAIN sections
        BY DEF Positions
      <4> QED
        BY <2>2, <4>1, TableFacts, FirstPosition
    <3>2. \E len : sections' = [sections EXCEPT ![i].size = len]
      BY <1>4, <2>2 DEF ShrinkDynamic
    <3> HIDE DEF i
    <3>3. /\ DOMAIN sections' = DOMAIN sections
          /\ \A k \in DOMAIN sections : k # i => sections'[k] = sections[k]
      BY <3>2
    <3>4. 1 \in DOMAIN sections => i # 1
      BY <3>1 DEF FirstIsNull, Positions
    <3> QED
      BY <3>3, <3>4 DEF FirstIsNull
  <2> QED
    BY <2>1, <2>2
<1>5. CASE PlaceTables
  <2>1. sections' = FinishSections(sections)
    BY <1>5 DEF PlaceTables
  <2> QED
    BY <2>1 DEF FinishSections, FirstIsNull, NullSection
<1>6. CASE FindName
  BY <1>1, <1>3, <1>6 DEF FindName
<1>7. CASE PlaceNames
  BY <1>2, <1>7 DEF PlaceNames
<1>8. CASE FreeInterp
  BY <1>1, <1>3, <1>8 DEF FreeInterp
<1>9. CASE DropInterp \/ OverlayInterp
  BY <1>3, <1>9 DEF DropInterp, OverlayInterp
<1>10. CASE PlaceInterp
  BY <1>2, <1>10 DEF PlaceInterp
<1>11. CASE FreeDynamic
  BY <1>1, <1>3, <1>11 DEF FreeDynamic
<1>12. CASE FindDynstr
  BY <1>1, <1>3, <1>12 DEF FindDynstr
<1>13. CASE PlaceDynstr
  BY <1>2, <1>13 DEF PlaceDynstr
<1>14. CASE PlaceDynamic
  BY <1>2, <1>14 DEF PlaceDynamic
<1>15. CASE FreeDynamicSegment \/ WriteDynstr \/ OverlayDynamic \/ MoveSymbols
  BY <1>3, <1>15 DEF FreeDynamicSegment, WriteDynstr, OverlayDynamic,
                     MoveSymbols, elf
<1>16. CASE FreePhdr \/ PlacePhdr \/ Arrange \/ WriteElf
  BY <1>3, <1>16 DEF FreePhdr, PlacePhdr, Arrange, WriteElf, elf
<1>17. CASE Call
  BY <1>3, <1>17 DEF Call, Open, RemoveInterpreter, SetInterpreter,
                     SetDynamicTag, RemoveDynamicTag, Finish, Begin, elf
<1>18. CASE UNCHANGED vars
  BY <1>3, <1>18 DEF vars
<1> QED
  BY <1>4, <1>5, <1>6, <1>7, <1>8, <1>9, <1>10, <1>11, <1>12, <1>13, <1>14,
     <1>15, <1>16, <1>17, <1>18 DEF Next, Step

\* An ordinary file has what the invariant says before it is opened.
LEMMA InitFirst ==
  ASSUME \A f \in Files : OrdinaryFile(f), Init
  PROVE  FInv /\ FirstIsNull
<1>1. PICK f \in Files : /\ header = f.header /\ sections = f.sections
                         /\ segments = f.segments /\ file = f.file
  BY DEF Init
<1> DEFINE index == header.section_names_index
           Content(i) == Read(file, sections[i].offset, sections[i].size)
           strings == StringsIn(Content(index))
<1>2. FirstIsNull
  <2>1. SectionsAccepted(sections, segments)
    BY <1>1, FilesAssumption DEF Accepted
  <2> QED
    BY <2>1 DEF SectionsAccepted, FirstIsNull
<1>3. /\ BytesOK(file) /\ SectionsStored(file, sections)
      /\ Intact(file, header, sections, segments)
      /\ HeaderGuarded(segments) /\ PhdrCovered(sections, segments)
      /\ index \in Positions(sections, "StringTable")
      /\ InFile(sections[index])
      /\ \A i \in InterpSections(sections) :
           sections[i].kind = "ProgramBits" /\ ".interp" \in strings
      /\ Single(Positions(segments, "Interpreter"))
      /\ InterpCoincides(sections, segments)
      /\ Single(Positions(sections, "Dynamic"))
      /\ Single(Positions(segments, "Dynamic"))
      /\ DynamicCoincides(sections, segments)
      /\ \A i \in Positions(sections, "Dynamic") :
           /\ NamesForTags \subseteq strings
           /\ DynstrFound(sections, TagsIn(Content(i)), index, strings)
  <2>1. OrdinaryFile(f)
    BY <1>1
  <2> QED
    BY <1>1, <2>1 DEF OrdinaryFile
<1>4. /\ names = Unread /\ pc = "closed" /\ want = Wanted /\ sessions = 0
  BY DEF Init
<1>5. Phase = "closed"
  BY <1>4 DEF Phase, NameSteps
<1>6. index \in DOMAIN sections
  BY <1>3 DEF Positions
<1>7. CachedNames.strings = strings
  BY <1>4, <1>6 DEF CachedNames, SectionNames, ReadSection
<1>8. TablesApart
  BY <1>3, <1>4 DEF TablesApart
<1>9. NamesOK
  BY <1>3, <1>4, <1>7 DEF NamesOK
<1>10. InterpOK
  <2>1. Interpreter = want.interp
    BY <1>4 DEF Wanted
  <2> QED
    BY <1>3, <1>5, <2>1 DEF InterpOK
<1>11. DynamicOK
  BY <1>3, <1>5 DEF DynamicOK, WithoutTable
<1>12. TagsOK
  <2>1. want.tags = [t \in Tags |-> TagValue(t)]
    BY <1>4 DEF Wanted
  <2>2. want.tags = Values(DynamicTags)
    BY <2>1 DEF TagValue, Values, ValueIn
  <2> QED
    BY <1>5, <2>2 DEF TagsOK, WithoutTable
<1>13. DynstrOK
  <2>1. ASSUME Positions(sections, "Dynamic") # {}
        PROVE  /\ NamesForTags \subseteq strings
               /\ DynstrFound(sections, DynamicTags, index, strings)
    <3> DEFINE i == First(Positions(sections, "Dynamic"))
    <3>1. i # 0 /\ i \in Positions(sections, "Dynamic")
      <4>1. sections \in Seq(Section)
        BY <1>1, FilesAssumption
      <4>2. Positions(sections, "Dynamic") \in SUBSET DOMAIN sections
        BY DEF Positions
      <4> QED
        BY <2>1, <4>1, <4>2, FirstPosition
    <3>2. DynamicTags = TagsIn(Content(i))
      BY <3>1 DEF DynamicTags, ReadSection
    <3> HIDE DEF i, Content, strings, index
    <3> QED
      BY <1>3, <3>1, <3>2
  <2> HIDE DEF strings
  <2> QED
    BY <1>4, <1>5, <1>7, <2>1 DEF DynstrOK, WithoutTable
<1>14. {"interp", "tags"} \subseteq DOMAIN want
  BY <1>4 DEF Wanted
<1>15. TablesIntact
  BY <1>3 DEF TablesIntact
<1> HIDE DEF index, strings, Content
<1> QED
  BY <1>2, <1>3, <1>4, <1>8, <1>9, <1>10, <1>11, <1>12, <1>13, <1>14, <1>15
     DEF FInv, FirstOK

\* A step inside a call or finish.
LEMMA StepFirst ==
  ASSUME OrdinaryTags, TInv, TInv', FirstIsNull, FirstOK, Step
  PROVE  FirstOK'
<1>1. CASE FindName
  <2>1. CASE call.name \in CachedNames.strings
    BY <1>1, <2>1, NameFoundFirst
  <2>2. CASE call.name \notin CachedNames.strings
    BY <1>1, <2>2, NameMissingFirst
  <2> QED
    BY <2>1, <2>2
<1>2. CASE PlaceNames
  BY <1>2, PlaceNamesFirst
<1>3. CASE FreeInterp
  BY <1>3, FreeInterpFirst
<1>4. CASE DropInterp
  BY <1>4, DropInterpFirst
<1>5. CASE PlaceInterp
  BY <1>5, PlaceInterpFirst
<1>6. CASE OverlayInterp
  BY <1>6, OverlayInterpFirst
<1>7. CASE ShrinkDynamic
  BY <1>7, ShrinkDynamicFirst
<1>8. CASE FreeDynamic
  BY <1>8, FreeDynamicFirst
<1>9. CASE FreeDynamicSegment
  BY <1>9, FreeDynamicSegmentFirst
<1>10. CASE FindDynstr
  BY <1>10, FindDynstrFirst
<1>11. CASE PlaceDynstr
  BY <1>11, PlaceDynstrFirst
<1>12. CASE WriteDynstr
  BY <1>12, WriteDynstrFirst
<1>13. CASE PlaceDynamic
  BY <1>13, PlaceDynamicFirst
<1>14. CASE OverlayDynamic
  BY <1>14, OverlayDynamicFirst
<1>15. CASE MoveSymbols
  BY <1>15, MoveSymbolsFirst
<1>16. CASE FreePhdr
  BY <1>16, FreePhdrFirst
<1>17. CASE PlacePhdr
  BY <1>17, PlacePhdrFirst
<1>18. CASE PlaceTables
  BY <1>18, PlaceTablesFirst
<1>19. CASE Arrange
  BY <1>19, ArrangeFirst
<1>20. CASE WriteElf
  BY <1>20, WriteElfFirst
<1> QED
  BY <1>1, <1>2, <1>3, <1>4, <1>5, <1>6, <1>7, <1>8, <1>9, <1>10, <1>11,
     <1>12, <1>13, <1>14, <1>15, <1>16, <1>17, <1>18, <1>19, <1>20 DEF Step

\* Only opening a file starts a session.
LEMMA SessionsGrow ==
  ASSUME TInv, [Next]_vars
  PROVE  /\ sessions \in Nat
         /\ sessions' = sessions \/ sessions' = sessions + 1
         /\ Step => sessions' = sessions
<1>1. sessions \in Nat
  BY BoundsAssumption DEF TInv, PlaceOK
<1>2. Call => sessions' = sessions \/ sessions' = sessions + 1
  BY DEF Call, Open, RemoveInterpreter, SetInterpreter, SetDynamicTag,
         RemoveDynamicTag, Finish, Begin
<1>3. Step => sessions' = sessions
  <2>1. FindName \/ PlaceNames \/ FreeInterp \/ DropInterp \/ PlaceInterp
          \/ OverlayInterp \/ ShrinkDynamic \/ FreeDynamic
        => sessions' = sessions
    BY DEF FindName, PlaceNames, FreeInterp, DropInterp, PlaceInterp,
           OverlayInterp, ShrinkDynamic, FreeDynamic
  <2>2. FreeDynamicSegment \/ FindDynstr \/ PlaceDynstr \/ WriteDynstr
          \/ PlaceDynamic \/ OverlayDynamic \/ MoveSymbols
        => sessions' = sessions
    BY DEF FreeDynamicSegment, FindDynstr, PlaceDynstr, WriteDynstr,
           PlaceDynamic, OverlayDynamic, MoveSymbols
  <2>3. FreePhdr \/ PlacePhdr \/ PlaceTables \/ Arrange \/ WriteElf
        => sessions' = sessions
    BY DEF FreePhdr, PlacePhdr, PlaceTables, Arrange, WriteElf
  <2> QED
    BY <2>1, <2>2, <2>3 DEF Step
<1> QED
  BY <1>1, <1>2, <1>3 DEF Next, vars

\* The invariant is kept by every step.
LEMMA NextFirst ==
  ASSUME OrdinaryTags, TInv, TInv', FirstIsNull, FInv, [Next]_vars
  PROVE  FInv'
<1> SUFFICES ASSUME sessions' <= 1 PROVE FirstOK'
  BY DEF FInv
<1>1. sessions <= 1
  BY SessionsGrow
<1>2. FirstOK
  BY <1>1 DEF FInv
<1>3. CASE Call
  BY <1>2, <1>3, CallsFirst
<1>4. CASE Step
  BY <1>2, <1>4, StepFirst
<1>5. CASE UNCHANGED vars
  <2>1. /\ UNCHANGED <<header, sections, segments, names, file>>
        /\ UNCHANGED <<pc, call, want, calls, sessions>>
    BY <1>5 DEF vars
  <2>2. UNCHANGED <<elf, file>>
    BY <2>1 DEF elf
  <2>3. /\ SectionNames' = SectionNames /\ Interpreter' = Interpreter
        /\ DynamicTags' = DynamicTags /\ TablesIntact' = TablesIntact
    BY <2>2, SameReads
  <2>4. CachedNames' = CachedNames /\ Phase' = Phase
    BY <2>1, <2>3 DEF CachedNames, Phase
  <2>5. TablesApart' <=> TablesApart
    BY <2>1 DEF TablesApart, InCalls, Finishing
  <2>6. NamesOK' <=> NamesOK
    BY <2>1, <2>3, <2>4 DEF NamesOK
  <2>7. InterpOK' <=> InterpOK
    BY <2>1, <2>3, <2>4 DEF InterpOK, ReadSection
  <2>8. DynamicOK' <=> DynamicOK
    BY <2>1, <2>4 DEF DynamicOK
  <2>9. TagsOK' <=> TagsOK
    BY <2>1, <2>3, <2>4 DEF TagsOK
  <2>10. DynstrOK' <=> DynstrOK
    BY <2>1, <2>3, <2>4 DEF DynstrOK
  <2> QED
    BY <1>2, <2>1, <2>3, <2>5, <2>6, <2>7, <2>8, <2>9, <2>10 DEF FirstOK
<1> QED
  BY <1>3, <1>4, <1>5 DEF Next

\* What a client finds between calls and after finish.
LEMMA FirstSessionGood ==
  ASSUME TInv, FirstOK
  PROVE  /\ SectionsReadable /\ TablesReadable /\ InterpreterAsSet
         /\ NamesInStep /\ TagsAsSet
<1>1. SectionsReadable
  <2> SUFFICES ASSUME NEW i \in DOMAIN sections, InFile(sections[i])
               PROVE  ReadSection(i) # Garbage
    BY DEF SectionsReadable
  <2> DEFINE S == Stored(file, sections[i].offset, sections[i].size)
  <2>1. S # {} /\ BytesOK(file)
    BY DEF FirstOK, SectionsStored
  <2>2. \A b \in S : b.content # Garbage
    BY <2>1 DEF Stored, BytesOK
  <2> QED
    BY <2>1, <2>2 DEF ReadSection, Read
<1>2. TablesReadable
  BY DEF FirstOK, TablesReadable
<1>3. AtRest => Phase = pc /\ pc \notin Dead /\ pc # "place_names"
                /\ Phase \in {"ready", "closed"}
  BY DEF AtRest, Phase, NameSteps, Dead
<1>4. InterpreterAsSet
  BY <1>3 DEF FirstOK, InterpreterAsSet, InterpOK
<1>5. NamesInStep
  BY <1>3 DEF FirstOK, NamesInStep, NamesOK
<1>6. TagsAsSet
  <2> SUFFICES ASSUME AtRest, NEW t \in Tags
               PROVE  TagValue(t) = want.tags[t]
    BY DEF TagsAsSet
  <2>1. want.tags = Values(DynamicTags)
    BY <1>3 DEF FirstOK, TagsOK, WithoutTable
  <2> QED
    BY <2>1 DEF TagValue, Values, ValueIn
<1> QED
  BY <1>1, <1>2, <1>4, <1>5, <1>6

(***************************************************************************)
(* Addresses.                                                              *)
(***************************************************************************)

\* A section that a LOAD maps has an address in the range of the LOAD.
LEMMA MapsInRange ==
  ASSUME NEW g \in Segment, NEW s \in Section, InFile(s), Maps(g, s)
  PROVE  /\ g.address <= s.address
         /\ s.address < g.address + g.file_size
         /\ g.offset + (s.address - g.address) = s.offset
         /\ g.file_size # 0
<1>1. /\ g.offset \in Nat /\ g.address \in Nat /\ g.file_size \in Nat
      /\ s.offset \in Nat /\ s.address \in Nat /\ SectionFileEnd(s) \in Nat
  BY EndsAreNatural
<1> QED
  BY <1>1 DEF Maps, InFile, SegmentFileEnd

\* An address is in the file range of one LOAD at most.
LEMMA OneLoadAt ==
  ASSUME NEW segs, GoodSegments(segs), LoadsFilled(segs),
         NEW k \in Loads(segs), NEW l \in Loads(segs), NEW a \in Nat,
         segs[k].address <= a, a < segs[k].address + segs[k].file_size,
         segs[l].address <= a, a < segs[l].address + segs[l].file_size
  PROVE  k = l
<1> SUFFICES ASSUME k # l PROVE FALSE
  OBVIOUS
<1>1. /\ k \in DOMAIN segs /\ l \in DOMAIN segs
      /\ IsLoad(segs[k]) /\ IsLoad(segs[l])
      /\ segs[k] \in Segment /\ segs[l] \in Segment
  BY DEF Loads, Positions, IsLoad, GoodSegments
<1>2. PagesDisjoint(segs[k], segs[l])
  BY <1>1 DEF GoodSegments, LoadsApart
<1>3. ASSUME NEW g \in Segment, NEW h \in Segment, FitsWord(g),
             g.file_size <= g.memory_size, a < g.address + g.file_size,
             h.address <= a,
             AlignUp(SegmentMemoryEnd(g)) <= AlignDown(h.address)
      PROVE  FALSE
  <2>1. /\ g.address \in Nat /\ g.file_size \in Nat /\ g.memory_size \in Nat
        /\ h.address \in Nat /\ SegmentMemoryEnd(g) \in Nat
    BY EndsAreNatural
  <2>2. SegmentMemoryEnd(g) \in Word
    BY <1>3, <2>1, MaxWordAssumption DEF FitsWord, Word
  <2>3. /\ AlignDown(h.address) \in Nat /\ AlignDown(h.address) <= h.address
        /\ SegmentMemoryEnd(g) <= AlignUp(SegmentMemoryEnd(g))
        /\ AlignUp(SegmentMemoryEnd(g)) \in Nat
    BY <2>1, <2>2, PageProperties, MaxWordAssumption DEF Word
  <2>4. SegmentMemoryEnd(g) = g.address + g.memory_size
    BY DEF SegmentMemoryEnd
  <2> HIDE DEF Word
  <2> QED
    BY <1>3, <2>1, <2>3, <2>4
<1>4. FitsWord(segs[k]) /\ FitsWord(segs[l])
  BY <1>1 DEF GoodSegments, LoadsFit
<1>5. /\ segs[k].file_size <= segs[k].memory_size
      /\ segs[l].file_size <= segs[l].memory_size
  BY DEF LoadsFilled
<1> QED
  BY <1>1, <1>2, <1>3, <1>4, <1>5 DEF PagesDisjoint

\* Sections in memory that have bytes have addresses of their own.
LEMMA AddressesApart ==
  ASSUME NEW secs, GoodSections(secs), NEW segs, GoodSegments(segs),
         SectionsMapped(secs, segs), LoadsFilled(segs),
         NEW i \in DOMAIN secs, secs[i].alloc, InFile(secs[i]),
         NEW k \in DOMAIN secs, secs[k].alloc, InFile(secs[k]),
         secs[i].address = secs[k].address
  PROVE  i = k
<1>1. secs[i] \in Section /\ secs[k] \in Section
  BY DEF GoodSections
<1>2. PICK l \in Loads(segs) : Maps(segs[l], secs[i])
  BY DEF SectionsMapped
<1>3. PICK m \in Loads(segs) : Maps(segs[m], secs[k])
  BY DEF SectionsMapped
<1>4. segs[l] \in Segment /\ segs[m] \in Segment
  BY DEF GoodSegments, Loads, Positions
<1>5. /\ segs[l].address <= secs[i].address
      /\ secs[i].address < segs[l].address + segs[l].file_size
      /\ segs[l].offset + (secs[i].address - segs[l].address) = secs[i].offset
      /\ segs[m].address <= secs[k].address
      /\ secs[k].address < segs[m].address + segs[m].file_size
      /\ segs[m].offset + (secs[k].address - segs[m].address) = secs[k].offset
  BY <1>1, <1>2, <1>3, <1>4, MapsInRange
<1>6. secs[i].address \in Nat
  BY <1>1, EndsAreNatural
<1>7. l = m
  BY <1>5, <1>6, OneLoadAt
<1>8. secs[i].offset = secs[k].offset
  BY <1>5, <1>7
<1>9. Apart(secs[i], secs[k]) \/ i = k
  BY DEF GoodSections, SectionsApart
<1>10. /\ secs[i].offset \in Nat /\ SectionFileEnd(secs[i]) \in Nat
       /\ SectionFileEnd(secs[k]) \in Nat
  BY <1>1, EndsAreNatural
<1> QED
  BY <1>8, <1>9, <1>10 DEF Apart, InFile

\* A section in memory that has bytes behind the file header is not at 0.
LEMMA AddressNotZero ==
  ASSUME NEW secs, GoodSections(secs), SectionsBehind(secs),
         NEW segs, GoodSegments(segs),
         SectionsMapped(secs, segs), LoadsPlaced(segs),
         NEW i \in DOMAIN secs, secs[i].alloc, InFile(secs[i])
  PROVE  secs[i].address # 0
<1>1. secs[i] \in Section
  BY DEF GoodSections
<1>2. PICK l \in Loads(segs) : Maps(segs[l], secs[i])
  BY DEF SectionsMapped
<1>3. segs[l] \in Segment
  BY DEF GoodSegments, Loads, Positions
<1>4. /\ segs[l].address <= secs[i].address
      /\ segs[l].offset + (secs[i].address - segs[l].address) = secs[i].offset
  BY <1>1, <1>2, <1>3, MapsInRange
<1>5. segs[l].address = 0 => segs[l].offset = 0
  BY DEF LoadsPlaced
<1>6. secs[i].offset >= HeaderLen
  BY DEF SectionsBehind
<1>7. /\ HeaderLen \in Nat \ {0} /\ segs[l].address \in Nat
      /\ secs[i].address \in Nat /\ secs[i].offset \in Nat
      /\ segs[l].offset \in Nat
  BY <1>1, <1>3, EndsAreNatural, LengthsAssumption
<1> QED
  BY <1>4, <1>5, <1>6, <1>7

\* A string table in memory is found by its address.
LEMMA StringTableAt ==
  ASSUME NEW secs, GoodSections(secs), SectionsBehind(secs),
         StringTablesPlaced(secs),
         NEW segs, GoodSegments(segs),
         SectionsMapped(secs, segs), LoadsFilled(segs), LoadsPlaced(segs),
         NEW i \in Positions(secs, "StringTable"), secs[i].alloc,
         NEW k \in Positions(secs, "StringTable"),
         secs[i].address = secs[k].address
  PROVE  i = k
<1>1. /\ i \in DOMAIN secs /\ secs[i] \in Section
      /\ k \in DOMAIN secs /\ secs[k] \in Section
      /\ secs[i].kind = "StringTable" /\ secs[k].kind = "StringTable"
  BY DEF GoodSections, Positions
<1>2. InFile(secs[i])
  BY <1>1, LiveSection DEF StringTablesPlaced
<1>3. secs[i].address # 0
  BY <1>1, <1>2, AddressNotZero
<1>4. secs[k].alloc /\ InFile(secs[k])
  BY <1>1, <1>3, LiveSection DEF StringTablesPlaced
<1> QED
  BY <1>1, <1>2, <1>4, AddressesApart

\* The loader finds the bytes of a section at its address.
LEMMA SectionTranslated ==
  ASSUME TInv, SectionsMapped(sections, segments), LoadsFilled(segments),
         NEW i \in DOMAIN sections, sections[i].alloc, InFile(sections[i])
  PROVE  Translated(sections[i].address) = {sections[i].offset}
<1> DEFINE a == sections[i].address
           K == {k \in Positions(segments, "Loadable") :
                   /\ segments[k].address <= a
                   /\ a < segments[k].address + segments[k].file_size}
<1>1. sections[i] \in Section /\ GoodSegments(segments)
  BY TableFacts
<1>2. PICK l \in Loads(segments) : Maps(segments[l], sections[i])
  BY DEF SectionsMapped
<1>3. segments[l] \in Segment
  BY <1>1 DEF GoodSegments, Loads, Positions
<1>4. /\ segments[l].address <= a
      /\ a < segments[l].address + segments[l].file_size
      /\ segments[l].offset + (a - segments[l].address) = sections[i].offset
  BY <1>1, <1>2, <1>3, MapsInRange
<1>5. a \in Nat
  BY <1>1, EndsAreNatural
<1>6. l \in K
  BY <1>4 DEF Loads
<1>7. \A k \in K : k = l
  <2> SUFFICES ASSUME NEW k \in K PROVE k = l
    OBVIOUS
  <2>1. /\ k \in Loads(segments) /\ segments[k].address <= a
        /\ a < segments[k].address + segments[k].file_size
    BY DEF Loads
  <2> HIDE DEF a, K
  <2> QED
    BY <1>1, <1>4, <1>5, <2>1, OneLoadAt
<1>8. K = {l}
  BY <1>6, <1>7
<1>9. Translated(a) = {segments[j].offset + (a - segments[j].address) : j \in K}
  BY DEF Translated
<1> HIDE DEF K, a
<1>10. Translated(a) = {segments[l].offset + (a - segments[l].address)}
  BY <1>8, <1>9
<1> QED
  BY <1>4, <1>10 DEF a

(***************************************************************************)
(* The layout that the walk of SpaceAllocator relies on.                   *)
(***************************************************************************)

\* The segments that are sections have them among the sections.
Overlays(secs, segs) ==
  /\ InterpOverlaid(secs, segs) /\ DynamicOverlaid(secs, segs)
  /\ Positions(segs, "Dynamic") # {} => Positions(secs, "Dynamic") # {}

\* A segment with bytes that is no LOAD is a part of one.
LEMMA SegmentInLoad ==
  ASSUME NEW secs, GoodSections(secs), NEW segs, GoodSegments(segs),
         SectionsMapped(secs, segs), Overlays(secs, segs), OthersInside(segs),
         NEW j \in DOMAIN segs, segs[j].kind # "Null", ~IsLoad(segs[j]),
         segs[j].file_size # 0
  PROVE  \/ \E k \in Loads(segs) :
              /\ segs[k].offset <= segs[j].offset
              /\ SegmentFileEnd(segs[j]) < SegmentFileEnd(segs[k])
         \/ \E i \in DOMAIN secs :
              /\ Overlaid(segs[j], secs[i]) /\ ~Lasting(secs[i])
              /\ SectionFileEnd(secs[i]) = SegmentFileEnd(segs[j])
              /\ \E k \in Loads(segs) : Maps(segs[k], secs[i])
<1>1. segs[j] \in Segment
  BY DEF GoodSegments
<1>2. segs[j].kind \in {"Dynamic", "Interpreter", "ProgramHeader", "Other"}
  BY <1>1 DEF Segment, SegmentKinds, IsLoad
<1>3. CASE segs[j].kind \in {"ProgramHeader", "Other"}
  BY <1>3 DEF OthersInside
<1>4. CASE segs[j].kind \in {"Dynamic", "Interpreter"}
  <2>1. PICK i \in DOMAIN secs :
          Overlaid(segs[j], secs[i])
          /\ (secs[i].kind = "Dynamic" \/ secs[i].name = ".interp")
    <3>1. CASE segs[j].kind = "Dynamic"
      <4>1. j \in Positions(segs, "Dynamic")
        BY <3>1 DEF Positions
      <4>2. PICK i \in Positions(secs, "Dynamic") : TRUE
        BY <4>1 DEF Overlays
      <4> QED
        BY <4>1, <4>2 DEF Overlays, DynamicOverlaid, Positions
    <3>2. CASE segs[j].kind = "Interpreter"
      <4>1. j \in Positions(segs, "Interpreter")
        BY <3>2 DEF Positions
      <4> QED
        BY <4>1 DEF Overlays, InterpOverlaid, InterpSections
    <3> QED
      BY <1>4, <3>1, <3>2
  <2>2. InFile(secs[i]) /\ secs[i].alloc /\ secs[i] \in Section
    BY <2>1 DEF Overlaid, Coincide, GoodSections
  <2>3. SectionFileEnd(secs[i]) = SegmentFileEnd(segs[j])
    BY <2>1, <2>2, LiveSection DEF Overlaid, Coincide, SegmentFileEnd
  <2>4. \E k \in Loads(segs) : Maps(segs[k], secs[i])
    BY <2>2 DEF SectionsMapped
  <2>5. ~Lasting(secs[i])
    BY <2>1 DEF Lasting
  <2> QED
    BY <2>1, <2>3, <2>4, <2>5
<1> QED
  BY <1>2, <1>3, <1>4

\* Two sections do not end at the same byte.
LEMMA EndsOwn ==
  ASSUME NEW secs, GoodSections(secs),
         NEW i \in DOMAIN secs, InFile(secs[i]),
         NEW k \in DOMAIN secs, InFile(secs[k]),
         SectionFileEnd(secs[i]) = SectionFileEnd(secs[k])
  PROVE  i = k
<1>1. secs[i] \in Section /\ secs[k] \in Section
  BY DEF GoodSections
<1>2. /\ secs[i].offset \in Nat /\ SectionFileEnd(secs[i]) \in Nat
      /\ secs[k].offset \in Nat /\ SectionFileEnd(secs[k]) \in Nat
  BY <1>1, EndsAreNatural
<1>3. i = k \/ Apart(secs[i], secs[k])
  BY DEF GoodSections, SectionsApart
<1> QED
  BY <1>2, <1>3 DEF Apart, InFile

\* What the walk takes for granted is so.
LEMMA WalkReady ==
  ASSUME NEW secs, GoodSections(secs), NEW segs, GoodSegments(segs),
         SectionsMapped(secs, segs), Overlays(secs, segs),
         LayoutLinked(secs, segs)
  PROVE  InsideLoads(segs) /\ EndsApart(segs) /\ FirstMaps(segs)
<1>1. OthersInside(segs) /\ LoadsTight(secs, segs) /\ HeadMaps(segs)
  BY DEF LayoutLinked
<1>2. \A j \in DOMAIN segs :
        /\ segs[j].offset \in Nat /\ segs[j].file_size \in Nat
        /\ SegmentFileEnd(segs[j]) \in Nat
        /\ SegmentFileEnd(segs[j]) = segs[j].offset + segs[j].file_size
  BY EndsAreNatural DEF GoodSegments, SegmentFileEnd
<1>3. \A k \in Loads(segs) : k \in DOMAIN segs /\ IsLoad(segs[k])
  BY DEF Loads, Positions, IsLoad
<1>4. \A k \in DOMAIN segs : IsLoad(segs[k]) => k \in Loads(segs)
  BY DEF Loads, Positions, IsLoad
<1>5. InsideLoads(segs)
  <2> SUFFICES ASSUME NEW j \in DOMAIN segs, segs[j].kind # "Null",
                      ~IsLoad(segs[j]), segs[j].file_size # 0
               PROVE  \E k \in DOMAIN segs :
                        /\ IsLoad(segs[k])
                        /\ segs[k].offset <= segs[j].offset
                        /\ SegmentFileEnd(segs[j]) <= SegmentFileEnd(segs[k])
    BY DEF InsideLoads
  <2>1. CASE \E k \in Loads(segs) :
               /\ segs[k].offset <= segs[j].offset
               /\ SegmentFileEnd(segs[j]) < SegmentFileEnd(segs[k])
    BY <1>2, <1>3, <2>1
  <2>2. ASSUME NEW i \in DOMAIN secs, Overlaid(segs[j], secs[i]),
               SectionFileEnd(secs[i]) = SegmentFileEnd(segs[j]),
               NEW k \in Loads(segs), Maps(segs[k], secs[i])
        PROVE  /\ IsLoad(segs[k]) /\ k \in DOMAIN segs
               /\ segs[k].offset <= segs[j].offset
               /\ SegmentFileEnd(segs[j]) <= SegmentFileEnd(segs[k])
    BY <1>3, <2>2 DEF Overlaid, Coincide, Maps
  <2> QED
    BY <1>1, <2>1, <2>2, SegmentInLoad
<1>6. EndsApart(segs)
  <2> SUFFICES ASSUME NEW j \in DOMAIN segs, NEW k \in DOMAIN segs,
                      segs[j].kind # "Null", ~IsLoad(segs[j]),
                      segs[j].file_size # 0, IsLoad(segs[k]),
                      segs[k].offset <= segs[j].offset,
                      SegmentFileEnd(segs[j]) = SegmentFileEnd(segs[k])
               PROVE  segs[j].offset = segs[k].offset
    BY DEF EndsApart
  <2>1. k \in Loads(segs) /\ segs[k].file_size # 0
    BY <1>2, <1>4
  <2>2. ASSUME NEW m \in Loads(segs), segs[m].offset <= segs[j].offset,
               SegmentFileEnd(segs[j]) < SegmentFileEnd(segs[m])
        PROVE  FALSE
    <3>1. m # k
      BY <1>2, <2>2
    <3>2. FileDisjoint(segs[m], segs[k])
      BY <1>3, <3>1 DEF GoodSegments, LoadsApart
    <3> QED
      BY <1>2, <1>3, <2>2, <3>2 DEF FileDisjoint
  <2>3. ASSUME NEW i \in DOMAIN secs, Overlaid(segs[j], secs[i]),
               ~Lasting(secs[i]),
               SectionFileEnd(secs[i]) = SegmentFileEnd(segs[j])
        PROVE  segs[j].offset = segs[k].offset
    <3>1. InFile(secs[i]) /\ secs[i].offset = segs[j].offset
      BY <2>3 DEF Overlaid, Coincide
    <3>2. ~EndsLasting(secs, segs[k])
      <4> SUFFICES ASSUME NEW l \in DOMAIN secs, Lasting(secs[l]),
                          SectionFileEnd(secs[l]) = SegmentFileEnd(segs[k])
                   PROVE  FALSE
        BY DEF EndsLasting
      <4>1. InFile(secs[l])
        BY DEF Lasting
      <4>2. l = i
        BY <2>3, <3>1, <4>1, EndsOwn
      <4> QED
        BY <2>3, <4>2
    <3>3. HoldsOne(secs, segs, segs[k])
      BY <1>1, <2>1, <3>2 DEF LoadsTight
    <3>4. \/ SectionFileEnd(secs[i]) <= segs[k].offset
          \/ SegmentFileEnd(segs[k]) <= secs[i].offset
          \/ secs[i].offset = segs[k].offset
      BY <3>1, <3>3 DEF HoldsOne
    <3> QED
      BY <1>2, <2>3, <3>1, <3>4
  <2> QED
    BY <1>1, <2>2, <2>3, SegmentInLoad
<1>7. FirstMaps(segs)
  BY <1>1 DEF HeadMaps, FirstMaps, Loads
<1> QED
  BY <1>5, <1>6, <1>7

(***************************************************************************)
(* A section is placed: it is in a LOAD that maps it, and the layout is as *)
(* a linker makes it again.                                                *)
(***************************************************************************)

\* The section takes a spare slot, and the others stay.
Joined(new, old, slot, s) ==
  /\ slot \in DOMAIN new /\ new[slot] = s
  /\ slot \in DOMAIN old => old[slot].kind = "Null"
  /\ \A i \in DOMAIN old : i # slot => i \in DOMAIN new /\ new[i] = old[i]
  /\ \A i \in DOMAIN new :
       i # slot => \/ i \in DOMAIN old /\ new[i] = old[i]
                   \/ new[i] = NullSection

\* Sections with bytes in the file stay where they are.
LEMMA JoinedStay ==
  ASSUME NEW new, NEW old, NEW slot, NEW s, Joined(new, old, slot, s)
  PROVE  /\ \A i \in DOMAIN old : InFile(old[i])
              => i # slot /\ i \in DOMAIN new /\ new[i] = old[i]
         /\ \A i \in DOMAIN new : InFile(new[i])
              => i = slot \/ (i # slot /\ i \in DOMAIN old /\ new[i] = old[i])
         /\ \A g : EndsLasting(old, g) => EndsLasting(new, g)
<1>1. \A i \in DOMAIN old : InFile(old[i])
        => i # slot /\ i \in DOMAIN new /\ new[i] = old[i]
  BY DEF Joined, InFile
<1>2. \A i \in DOMAIN new : InFile(new[i])
        => i = slot \/ (i # slot /\ i \in DOMAIN old /\ new[i] = old[i])
  BY NullNotLive DEF Joined
<1>3. \A g : EndsLasting(old, g) => EndsLasting(new, g)
  BY <1>1 DEF EndsLasting, Lasting
<1> QED
  BY <1>1, <1>2, <1>3

\* A gap that is used is in a LOAD that ends with a section that lasts.
LEMMA FilledEndsLasting ==
  ASSUME NEW secs, GoodSections(secs), NEW segs, GoodSegments(segs),
         DynamicOverlaid(secs, segs),
         LoadsTight(secs, segs), NEW s, NEW l \in DOMAIN segs,
         FillsGap(s, secs, segs, l)
  PROVE  EndsLasting(secs, segs[l])
<1> DEFINE g == segs[l]
<1>1. /\ IsLoad(g) /\ g.file_size # 0
      /\ \A j \in DOMAIN segs :
           segs[j].kind # "Null" /\ ~IsLoad(segs[j]) /\ segs[j].file_size # 0
             => segs[j].offset # g.offset
      /\ \/ \E i \in DOMAIN secs :
              /\ InFile(secs[i])
              /\ g.offset < secs[i].offset
              /\ secs[i].offset < SegmentFileEnd(g)
         \/ /\ \A i \in DOMAIN secs : InFile(secs[i])
                 => SectionFileEnd(secs[i]) # SegmentFileEnd(g)
            /\ \E i \in DOMAIN secs :
                 /\ InFile(secs[i])
                 /\ g.offset < SectionFileEnd(secs[i])
                 /\ SectionFileEnd(secs[i]) < SegmentFileEnd(g)
  BY DEF FillsGap
<1>2. g \in Segment /\ l \in Loads(segs)
  BY <1>1 DEF GoodSegments, Loads, Positions, IsLoad
<1>3. g.offset \in Nat /\ SegmentFileEnd(g) \in Nat
  BY <1>2, EndsAreNatural
<1>4. EndsLasting(secs, g) \/ HoldsOne(secs, segs, g)
  BY <1>1, <1>2 DEF LoadsTight
<1> HIDE DEF g
<1>5. SUFFICES ASSUME HoldsOne(secs, segs, g) PROVE FALSE
  BY <1>4 DEF g
<1>6. ASSUME NEW i \in DOMAIN secs, InFile(secs[i])
      PROVE  /\ secs[i].offset \in Nat /\ SectionFileEnd(secs[i]) \in Nat
             /\ secs[i].offset < SectionFileEnd(secs[i])
             /\ \/ SectionFileEnd(secs[i]) <= g.offset
                \/ SegmentFileEnd(g) <= secs[i].offset
                \/ /\ secs[i].offset = g.offset
                   /\ SectionFileEnd(secs[i]) = SegmentFileEnd(g)
  <2>1. secs[i] \in Section
    BY DEF GoodSections
  <2>2. ~ /\ secs[i].kind = "Dynamic"
          /\ \E j \in Positions(segs, "Dynamic") : segs[j].offset = g.offset
    <3> SUFFICES ASSUME secs[i].kind = "Dynamic",
                        NEW j \in Positions(segs, "Dynamic")
                 PROVE  segs[j].offset # g.offset
      OBVIOUS
    <3>1. i \in Positions(secs, "Dynamic")
      BY DEF Positions
    <3>2. segs[j].file_size = secs[i].size
      BY <3>1 DEF DynamicOverlaid, Overlaid, Coincide
    <3>3. segs[j].file_size # 0
      BY <1>6, <2>1, <3>2, LiveSection
    <3> QED
      BY <1>1, <3>3 DEF Positions, IsLoad
  <2>3. /\ secs[i].offset \in Nat /\ SectionFileEnd(secs[i]) \in Nat
        /\ secs[i].offset < SectionFileEnd(secs[i])
    BY <1>6, <2>1, EndsAreNatural DEF InFile
  <2> QED
    BY <1>5, <1>6, <2>2, <2>3 DEF HoldsOne
<1>7. CASE \E i \in DOMAIN secs :
             /\ InFile(secs[i])
             /\ g.offset < secs[i].offset
             /\ secs[i].offset < SegmentFileEnd(g)
  BY <1>3, <1>6, <1>7
<1>8. CASE /\ \A i \in DOMAIN secs : InFile(secs[i])
                => SectionFileEnd(secs[i]) # SegmentFileEnd(g)
           /\ \E i \in DOMAIN secs :
                /\ InFile(secs[i])
                /\ g.offset < SectionFileEnd(secs[i])
                /\ SectionFileEnd(secs[i]) < SegmentFileEnd(g)
  <2>1. PICK i \in DOMAIN secs :
          /\ InFile(secs[i])
          /\ g.offset < SectionFileEnd(secs[i])
          /\ SectionFileEnd(secs[i]) < SegmentFileEnd(g)
    BY <1>8
  <2> QED
    BY <1>3, <1>6, <2>1
<1> QED
  BY <1>1, <1>7, <1>8 DEF g

\* The section fills a gap.
LEMMA GapKeepsLayout ==
  ASSUME NEW secs, GoodSections(secs), NEW segs, GoodSegments(segs),
         SectionsMapped(secs, segs), Overlays(secs, segs),
         LayoutLinked(secs, segs),
         NEW s \in Section, NEW l \in DOMAIN segs,
         FillsGap(s, secs, segs, l),
         NEW new, NEW slot, Joined(new, secs, slot, s)
  PROVE  SectionsMapped(new, segs) /\ LayoutLinked(new, segs)
<1>1. /\ IsLoad(segs[l]) /\ l \in Loads(segs) /\ segs[l] \in Segment
      /\ segs[l].offset <= s.offset
      /\ SectionFileEnd(s) <= SegmentFileEnd(segs[l])
      /\ Maps(segs[l], s)
  BY DEF FillsGap, Maps, GoodSegments, Loads, Positions, IsLoad
<1>2. \A i \in DOMAIN new : InFile(new[i])
        => i = slot \/ (i # slot /\ i \in DOMAIN secs /\ new[i] = secs[i])
  BY JoinedStay
<1>3. new[slot] = s
  BY DEF Joined
<1>4. SectionsMapped(new, segs)
  BY <1>1, <1>2, <1>3 DEF SectionsMapped
<1>5. LoadsTight(new, segs)
  <2> SUFFICES ASSUME NEW k \in Loads(segs), segs[k].file_size # 0
               PROVE  EndsLasting(new, segs[k]) \/ HoldsOne(new, segs, segs[k])
    BY DEF LoadsTight
  <2>1. CASE EndsLasting(secs, segs[k])
    BY <2>1, JoinedStay
  <2>2. CASE k = l
    <3>1. EndsLasting(secs, segs[l])
      BY FilledEndsLasting DEF LayoutLinked, Overlays
    <3> QED
      BY <2>2, <3>1, JoinedStay
  <2>3. CASE HoldsOne(secs, segs, segs[k]) /\ k # l
    <3>1. k \in DOMAIN segs /\ IsLoad(segs[k])
      BY DEF Loads, Positions, IsLoad
    <3>2. FileDisjoint(segs[k], segs[l])
      BY <1>1, <2>3, <3>1 DEF GoodSegments, LoadsApart
    <3>3. /\ segs[k].offset \in Nat /\ SegmentFileEnd(segs[k]) \in Nat
          /\ segs[l].offset \in Nat /\ SegmentFileEnd(segs[l]) \in Nat
          /\ s.offset \in Nat /\ SectionFileEnd(s) \in Nat
      BY <3>1, EndsAreNatural DEF GoodSegments
    <3>4. \/ SectionFileEnd(s) <= segs[k].offset
          \/ SegmentFileEnd(segs[k]) <= s.offset
      BY <1>1, <3>2, <3>3 DEF FileDisjoint
    <3>5. HoldsOne(new, segs, segs[k])
      BY <1>2, <1>3, <2>3, <3>4 DEF HoldsOne
    <3> QED
      BY <3>5
  <2> QED
    BY <2>1, <2>2, <2>3 DEF LayoutLinked, LoadsTight
<1> QED
  BY <1>4, <1>5 DEF LayoutLinked

\* Where the positions of an appended segment are.
LEMMA AppendPositions ==
  ASSUME NEW old \in Seq(Segment), NEW g \in Segment
  PROVE  LET new == Append(old, g)
             n == Len(old) + 1
         IN  /\ n \in DOMAIN new /\ new[n] = g
             /\ n \notin DOMAIN old
             /\ \A j \in DOMAIN old : j \in DOMAIN new /\ new[j] = old[j]
             /\ \A j \in DOMAIN new : j = n \/ j \in DOMAIN old
             /\ new # << >>
  OBVIOUS

\* A new LOAD is added for the section.
LEMMA NewLoadKeepsLayout ==
  ASSUME NEW secs, GoodSections(secs), NEW segs, GoodSegments(segs),
         SectionsMapped(secs, segs), LoadsFilled(segs),
         LayoutLinked(secs, segs),
         NEW s \in Section, InFile(s), s.align \in {0, 1} \/ PageSize % s.align = 0,
         NEW load \in Segment, MadeFor(s, load, secs, segs),
         NEW new, NEW slot, Joined(new, secs, slot, s)
  PROVE  /\ SectionsMapped(new, Append(segs, load))
         /\ LoadsFilled(Append(segs, load))
         /\ LayoutLinked(new, Append(segs, load))
<1> DEFINE segs2 == Append(segs, load)
           n == Len(segs) + 1
<1>0. segs \in Seq(Segment)
  BY DEF GoodSegments
<1>1. /\ n \in DOMAIN segs2 /\ segs2[n] = load /\ n \notin DOMAIN segs
      /\ \A j \in DOMAIN segs : j \in DOMAIN segs2 /\ segs2[j] = segs[j]
      /\ \A j \in DOMAIN segs2 : j = n \/ j \in DOMAIN segs
      /\ segs2 # << >>
  BY <1>0, AppendPositions
<1>2. 1 \in DOMAIN segs
  BY <1>0 DEF LayoutLinked, HeadMaps
<1> HIDE DEF segs2, n
<1>3. /\ Behind(load, segs) /\ PastAll(load.offset, secs, segs)
      /\ load.file_size = load.memory_size
      /\ load.offset = s.offset
      /\ SectionFileEnd(s) = SegmentFileEnd(load)
      /\ s.address + load.offset = load.address + s.offset
  BY DEF MadeFor
<1>4. IsLoad(load) /\ n \in Loads(segs2)
  BY <1>1, <1>3 DEF Behind, Loads, Positions, IsLoad
<1>5. \A k \in Loads(segs2) : k = n \/ k \in Loads(segs)
  BY <1>1 DEF Loads, Positions
<1>6. \A k \in Loads(segs) : /\ k \in Loads(segs2) /\ segs2[k] = segs[k]
                             /\ k \in DOMAIN segs
  BY <1>1 DEF Loads, Positions
<1>7. \A i \in DOMAIN new : InFile(new[i])
        => i = slot \/ (i # slot /\ i \in DOMAIN secs /\ new[i] = secs[i])
  BY JoinedStay
<1>8. slot \in DOMAIN new /\ new[slot] = s
  BY DEF Joined
<1>9. /\ load.offset \in Nat /\ load.address \in Nat /\ load.file_size \in Nat
      /\ SegmentFileEnd(load) \in Nat /\ load.memory_size \in Nat
      /\ s.offset \in Nat /\ SectionFileEnd(s) \in Nat
  BY EndsAreNatural
<1>10. SectionsMapped(new, segs2)
  <2>1. Maps(load, s)
    BY <1>3, <1>9 DEF Maps
  <2> QED
    BY <1>1, <1>4, <1>6, <1>7, <1>8, <2>1 DEF SectionsMapped
<1>11. LoadsFilled(segs2)
  BY <1>1, <1>3, <1>5, <1>6, <1>9 DEF LoadsFilled
<1>12. OthersInside(segs2)
  <2> SUFFICES ASSUME NEW j \in DOMAIN segs2, segs2[j].file_size # 0,
                      segs2[j].kind \in {"ProgramHeader", "Other"}
               PROVE  \E k \in Loads(segs2) :
                        /\ segs2[k].offset <= segs2[j].offset
                        /\ SegmentFileEnd(segs2[j]) < SegmentFileEnd(segs2[k])
    BY DEF OthersInside
  <2>1. j \in DOMAIN segs /\ segs2[j] = segs[j]
    BY <1>1, <1>4 DEF IsLoad
  <2>2. PICK k \in Loads(segs) :
          /\ segs[k].offset <= segs[j].offset
          /\ SegmentFileEnd(segs[j]) < SegmentFileEnd(segs[k])
    BY <2>1 DEF LayoutLinked, OthersInside
  <2> QED
    BY <1>6, <2>1, <2>2
<1>13. LoadsTight(new, segs2)
  <2> SUFFICES ASSUME NEW k \in Loads(segs2), segs2[k].file_size # 0
               PROVE  \/ EndsLasting(new, segs2[k])
                      \/ HoldsOne(new, segs2, segs2[k])
    BY DEF LoadsTight
  <2>1. CASE k = n
    <3>1. ASSUME NEW i \in DOMAIN new, InFile(new[i])
          PROVE  \/ SectionFileEnd(new[i]) <= load.offset
                 \/ /\ new[i].offset = load.offset
                    /\ SectionFileEnd(new[i]) = SegmentFileEnd(load)
      <4>1. CASE i = slot
        BY <1>3, <1>8, <4>1
      <4>2. CASE i \in DOMAIN secs /\ new[i] = secs[i]
        BY <1>3, <3>1, <4>2 DEF PastAll
      <4> QED
        BY <1>7, <3>1, <4>1, <4>2
    <3>2. HoldsOne(new, segs2, load)
      BY <3>1 DEF HoldsOne
    <3> QED
      BY <1>1, <2>1, <3>2
  <2>2. CASE k \in Loads(segs)
    <3>1. segs2[k] = segs[k] /\ k \in DOMAIN segs
      BY <1>6, <2>2
    <3>2. CASE EndsLasting(secs, segs[k])
      BY <3>1, <3>2, JoinedStay
    <3>3. CASE HoldsOne(secs, segs, segs[k])
      <4>1. SegmentFileEnd(segs[k]) <= s.offset
        BY <1>3, <2>2, <3>1 DEF Behind, Loads, Positions, IsLoad
      <4>2. \A o : (\E j \in Positions(segs, "Dynamic") : segs[j].offset = o)
              => \E j \in Positions(segs2, "Dynamic") : segs2[j].offset = o
        BY <1>1 DEF Positions
      <4>3. HoldsOne(new, segs2, segs[k])
        BY <1>7, <1>8, <3>3, <4>1, <4>2 DEF HoldsOne
      <4> QED
        BY <3>1, <4>3
    <3> QED
      BY <2>2, <2>2, <3>1, <3>2, <3>3 DEF LayoutLinked, LoadsTight
  <2> QED
    BY <1>5, <2>1, <2>2
\* Some LOAD of the file has bytes.
<1>14. PICK m \in Loads(segs) : segs[m].file_size # 0
  <2>1. segs[1].file_size # 0 /\ segs[1].kind \in {"Loadable", "ProgramHeader"}
    BY DEF LayoutLinked, HeadMaps
  <2>2. CASE segs[1].kind = "Loadable"
    BY <1>2, <2>1, <2>2 DEF Loads, Positions
  <2>3. CASE segs[1].kind = "ProgramHeader"
    <3>1. PICK k \in Loads(segs) :
            /\ segs[k].offset <= segs[1].offset
            /\ SegmentFileEnd(segs[1]) < SegmentFileEnd(segs[k])
      BY <1>2, <2>1, <2>3 DEF LayoutLinked, OthersInside
    <3>2. segs[1] \in Segment /\ segs[k] \in Segment
      BY <1>0, <1>2, <1>6
    <3>3. /\ segs[1].offset \in Nat /\ segs[1].file_size \in Nat
          /\ segs[k].offset \in Nat /\ segs[k].file_size \in Nat
      BY <3>2, EndsAreNatural
    <3>4. segs[k].file_size # 0
      BY <3>1, <3>3 DEF SegmentFileEnd
    <3> QED
      BY <3>4
  <2> QED
    BY <2>1, <2>2, <2>3
<1>15. /\ segs[m] \in Segment /\ IsLoad(segs[m]) /\ m \in DOMAIN segs
       /\ segs[m].offset \in Nat /\ segs[m].file_size \in Nat
       /\ segs[m].address \in Nat /\ segs[m].memory_size \in Nat
  BY <1>0, <1>6, EndsAreNatural DEF Loads, Positions, IsLoad
<1>16. segs[m].offset < load.offset
  <2>1. SegmentFileEnd(segs[m]) <= load.offset
    BY <1>3, <1>15 DEF Behind
  <2>2. SegmentFileEnd(segs[m]) = segs[m].offset + segs[m].file_size
    BY DEF SegmentFileEnd
  <2>3. segs[m].file_size > 0
    BY <1>14, <1>15
  <2> QED
    BY <1>9, <1>15, <2>1, <2>2, <2>3
<1>17. load.address # 0
  <2>1. AlignUp(SegmentMemoryEnd(segs[m])) <= load.address
    BY <1>3, <1>15 DEF Behind
  <2>2. SegmentMemoryEnd(segs[m]) = segs[m].address + segs[m].memory_size
    BY DEF SegmentMemoryEnd
  <2>3. segs[m].file_size <= segs[m].memory_size
    BY DEF LoadsFilled
  <2>4. SegmentMemoryEnd(segs[m]) \in Nat /\ SegmentMemoryEnd(segs[m]) # 0
    BY <1>14, <1>15, <2>2, <2>3
  <2>5. SegmentMemoryEnd(segs[m]) \in Word
    <3>1. SegmentMemoryEnd(segs[m]) <= MaxWord
      BY <1>15 DEF GoodSegments, LoadsFit, FitsWord
    <3> QED
      BY <2>4, <3>1, MaxWordAssumption DEF Word
  <2>6. /\ AlignUp(SegmentMemoryEnd(segs[m])) \in Nat
        /\ SegmentMemoryEnd(segs[m]) <= AlignUp(SegmentMemoryEnd(segs[m]))
    BY <2>4, <2>5, PageProperties, MaxWordAssumption DEF Word
  <2> QED
    BY <1>9, <2>1, <2>4, <2>6
<1>18. HeadMaps(segs2)
  <2>1. segs2[1] = segs[1]
    BY <1>1, <1>2
  <2>2. ASSUME NEW k \in Loads(segs2), segs2[k].file_size # 0,
               \A j \in Loads(segs2) : segs2[k].offset <= segs2[j].offset
        PROVE  segs2[1].address + segs2[k].offset
                 = segs2[k].address + segs2[1].offset
    <3>1. k # n
      <4>1. segs2[k].offset <= segs[m].offset
        BY <1>6, <2>2
      <4> QED
        BY <1>1, <1>9, <1>15, <1>16, <4>1
    <3>2. k \in Loads(segs) /\ segs2[k] = segs[k]
      BY <1>5, <1>6, <3>1
    <3>3. \A j \in Loads(segs) : segs[k].offset <= segs[j].offset
      BY <1>6, <2>2, <3>2
    <3>4. segs[k].file_size # 0
      BY <2>2, <3>2
    <3>5. segs[1].address + segs[k].offset = segs[k].address + segs[1].offset
      BY <3>2, <3>3, <3>4 DEF LayoutLinked, HeadMaps
    <3> QED
      BY <2>1, <3>2, <3>5
  <2>3. segs[1].kind \in {"Loadable", "ProgramHeader"} /\ segs[1].file_size # 0
    BY DEF LayoutLinked, HeadMaps
  <2> QED
    BY <1>1, <2>1, <2>2, <2>3 DEF HeadMaps
<1>19. LoadsPlaced(segs2)
  <2>1. \A k \in Loads(segs) : segs[k].address = 0 => segs[k].offset = 0
    BY DEF LayoutLinked, LoadsPlaced
  <2> QED
    BY <1>1, <1>5, <1>6, <1>17, <2>1 DEF LoadsPlaced
<1> QED
  BY <1>10, <1>11, <1>12, <1>13, <1>18, <1>19 DEF LayoutLinked, segs2

\* The sections are mapped, and the segments overlay sections.
Mapped ==
  /\ SectionsMapped(sections, segments) /\ LoadsFilled(segments)
  /\ Overlays(sections, segments)

\* alloc_section: the new section is mapped, and the layout stays.
LEMMA PlaceMapped ==
  ASSUME TInv, Mapped, LayoutLinked(sections, segments),
         NEW STATE request, Requestable(request), request.size # 0,
         request.align \in {0, 1} \/ PageSize % request.align = 0,
         request.kind = "Dynamic" =>
           request.size >= DynamicLen /\ Positions(segments, "Dynamic") = {},
         NEW STATE content,
         "tags" \in DOMAIN content => TableFits(content.tags, request.size),
         NEW STATE step, Place(request, content, step), pc' # "failed"
  PROVE  /\ SectionsMapped(sections', segments')
         /\ LoadsFilled(segments')
         /\ InterpOverlaid(sections', segments')
         /\ DynamicOverlaid(sections', segments')
         /\ LayoutLinked(sections', segments')
         /\ sections'[SpareSlot(sections)].alloc
<1> DEFINE result == AllocateSection(sections, segments, request)
           slot == SpareSlot(sections)
           s == result.section
<1>0. TablesOK /\ WellStored(file)
  BY DEF TInv
<1>1. /\ result.ok /\ Requested(request)
      /\ s \in Section
      /\ sections' = AddSection(sections, s)
      /\ segments' = result.segments
      /\ GoodSections(sections') /\ GoodSegments(segments')
      /\ sections'[slot].alloc
  <2>1. request.kind = "Dynamic" => request.size >= DynamicLen
    OBVIOUS
  <2> QED
    BY <1>0, <2>1, PlaceIsGood DEF TablesOK
<1>2. /\ sections \in Seq(Section) /\ segments \in Seq(Segment)
      /\ GoodSections(sections) /\ GoodSegments(segments)
      /\ Fits(sections, segments) /\ LoadsApart(segments)
  BY TableFacts DEF GoodSegments
<1>3. /\ s.kind = request.kind /\ s.size = request.size
      /\ s.align = request.align /\ s.name = request.name
  BY PlacedFields
<1>4. InFile(s)
  <2>1. request.kind \notin {"Null", "NoBits"}
    BY DEF Requestable
  <2> HIDE DEF result
  <2> QED
    BY <1>1, <1>3, <2>1, LiveSection
<1>5. InsideLoads(segments) /\ EndsApart(segments) /\ FirstMaps(segments)
  BY <1>2, WalkReady DEF Mapped
<1>6. \A k \in DOMAIN segments :
        IsLoad(segments[k])
          => segments[k].file_size <= segments[k].memory_size
  BY DEF Mapped, LoadsFilled, Loads, Positions, IsLoad
<1>7. \/ /\ result.segments = segments
         /\ \E l \in DOMAIN segments : FillsGap(s, sections, segments, l)
      \/ \E load \in Segment :
           /\ result.segments = Append(segments, load)
           /\ MadeFor(s, load, sections, segments)
  BY <1>1, <1>2, <1>5, <1>6, AllocationMapped
<1> HIDE DEF result
<1>8. Joined(sections', sections, slot, s)
  BY <1>1, <1>2, AddSectionSlot DEF Joined
<1>9. /\ SectionsMapped(sections', segments') /\ LoadsFilled(segments')
      /\ LayoutLinked(sections', segments')
      /\ \A kind : kind # "Loadable" =>
           \A j \in Positions(segments', kind) :
             j \in Positions(segments, kind) /\ segments'[j] = segments[j]
  <2>1. ASSUME result.segments = segments,
               NEW l \in DOMAIN segments, FillsGap(s, sections, segments, l)
        PROVE  <1>9!:
    <3>1. segments' = segments
      BY <1>1, <2>1
    <3>2. /\ SectionsMapped(sections', segments)
          /\ LayoutLinked(sections', segments)
      BY <1>1, <1>2, <1>8, <2>1, GapKeepsLayout DEF Mapped
    <3> QED
      BY <3>1, <3>2 DEF Mapped
  <2>2. ASSUME NEW load \in Segment,
               result.segments = Append(segments, load),
               MadeFor(s, load, sections, segments)
        PROVE  <1>9!:
    <3>1. segments' = Append(segments, load)
      BY <1>1, <2>2
    <3>2. /\ SectionsMapped(sections', Append(segments, load))
          /\ LoadsFilled(Append(segments, load))
          /\ LayoutLinked(sections', Append(segments, load))
      BY <1>1, <1>2, <1>3, <1>4, <1>8, <2>2, NewLoadKeepsLayout DEF Mapped
    <3>3. IsLoad(load)
      BY <2>2 DEF MadeFor, Behind
    <3>4. ASSUME NEW kind, kind # "Loadable",
                 NEW j \in Positions(segments', kind)
          PROVE  j \in Positions(segments, kind) /\ segments'[j] = segments[j]
      <4>1. \/ j = Len(segments) + 1 /\ segments'[j] = load
            \/ j \in DOMAIN segments /\ segments'[j] = segments[j]
        BY <1>2, <3>1, AppendPositions DEF Positions
      <4> QED
        BY <3>3, <3>4, <4>1 DEF Positions, IsLoad
    <3> QED
      BY <3>1, <3>2, <3>4
  <2> QED
    BY <1>7, <2>1, <2>2
<1>10. InterpOverlaid(sections', segments')
  <2> SUFFICES ASSUME NEW j \in Positions(segments', "Interpreter")
               PROVE  \E i \in InterpSections(sections') :
                        Overlaid(segments'[j], sections'[i])
    BY DEF InterpOverlaid
  <2>1. j \in Positions(segments, "Interpreter") /\ segments'[j] = segments[j]
    BY <1>9
  <2>2. PICK i \in InterpSections(sections) : Overlaid(segments[j], sections[i])
    BY <2>1 DEF Mapped, Overlays, InterpOverlaid
  <2>3. i \in DOMAIN sections /\ InFile(sections[i])
    BY <2>2 DEF InterpSections, Overlaid, Coincide
  <2>4. i \in DOMAIN sections' /\ sections'[i] = sections[i]
    BY <1>8, <2>3, JoinedStay
  <2> QED
    BY <2>1, <2>2, <2>4 DEF InterpSections
<1>11. DynamicOverlaid(sections', segments')
  <2> SUFFICES ASSUME NEW i \in Positions(sections', "Dynamic"),
                      NEW j \in Positions(segments', "Dynamic")
               PROVE  Overlaid(segments'[j], sections'[i])
    BY DEF DynamicOverlaid
  <2>1. j \in Positions(segments, "Dynamic") /\ segments'[j] = segments[j]
    BY <1>9
  <2>2. request.kind # "Dynamic"
    BY <2>1
  <2>3. i \in Positions(sections, "Dynamic") /\ sections'[i] = sections[i]
    BY <1>3, <1>8, <2>2 DEF Joined, Positions, NullSection
  <2> QED
    BY <2>1, <2>3 DEF Mapped, Overlays, DynamicOverlaid
<1> QED
  BY <1>1, <1>9, <1>10, <1>11 DEF slot

(***************************************************************************)
(* What is left when an entry goes.                                        *)
(***************************************************************************)

\* A removal of other elements leaves the first one at its place.
LEMMA WithoutKeepsFirst ==
  ASSUME NEW s \in Seq(Segment), NEW I, 1 \in DOMAIN s, 1 \notin I
  PROVE  1 \in DOMAIN Without(s, I) /\ Without(s, I)[1] = s[1]
<1> DEFINE K == DOMAIN s \ I
           N == Cardinality(K)
           e == Enumerate(K, Ascending(K))
           t == Without(s, I)
<1>1. IsFiniteSet(K) /\ K \in SUBSET Nat /\ 1 \in K /\ \A k \in K : 1 <= k
  BY SequenceDomain
<1>2. IsTotalOrder(K, Ascending(K))
  BY <1>1 DEF IsTotalOrder, Ascending
<1>3. t = [n \in 1 .. N |-> s[e[n]]]
  BY DEF Without
<1> HIDE DEF K
<1>4. /\ N \in Nat
      /\ e \in [1 .. N -> K]
      /\ \A k \in K : \E n \in 1 .. N : e[n] = k
      /\ \A m, n \in 1 .. N : m <= n <=> <<e[m], e[n]>> \in Ascending(K)
  BY <1>1, <1>2, EnumerateProperties
<1> HIDE DEF e, N
<1>5. PICK n \in 1 .. N : e[n] = 1
  BY <1>1, <1>4
<1>6. 1 \in 1 .. N
  BY <1>4, <1>5
<1>7. e[1] \in K /\ <<e[1], e[n]>> \in Ascending(K)
  BY <1>4, <1>5, <1>6
<1>8. e[1] <= 1
  BY <1>5, <1>7 DEF Ascending
<1>9. e[1] = 1
  <2>1. e[1] \in Nat /\ 1 <= e[1]
    BY ONLY <1>1, <1>7
  <2>2. \A a \in Nat : 1 <= a /\ a <= 1 => a = 1
    BY ONLY SMT
  <2> QED
    BY ONLY <1>8, <2>1, <2>2, Zenon
<1>10. DOMAIN t = 1 .. N
  BY ONLY <1>3
<1>11. t[1] = s[e[1]]
  BY ONLY <1>3, <1>6
<1> QED
  BY ONLY <1>6, <1>9, <1>10, <1>11 DEF t

\* The segments change, the sections do not.
LEMMA SegmentsFrame ==
  ASSUME NEW secs, NEW old, NEW new
  PROVE  /\ SectionsMapped(secs, old) /\ Has(new, old, "Loadable")
              => SectionsMapped(secs, new)
         /\ LoadsFilled(old) /\ Has(old, new, "Loadable") => LoadsFilled(new)
         /\ InterpOverlaid(secs, old) /\ Has(old, new, "Interpreter")
              => InterpOverlaid(secs, new)
         /\ DynamicOverlaid(secs, old) /\ Has(old, new, "Dynamic")
              => DynamicOverlaid(secs, new)
         /\ /\ LayoutLinked(secs, old)
            /\ Has(new, old, "Loadable") /\ Has(old, new, "Loadable")
            /\ Has(old, new, "ProgramHeader") /\ Has(old, new, "Other")
            /\ Has(new, old, "Dynamic") \/ Positions(secs, "Dynamic") = {}
            /\ 1 \in DOMAIN new /\ new[1] = old[1] /\ new # << >>
            => LayoutLinked(secs, new)
<1>1. SectionsMapped(secs, old) /\ Has(new, old, "Loadable")
        => SectionsMapped(secs, new)
  BY DEF SectionsMapped, Has, Loads
<1>2. LoadsFilled(old) /\ Has(old, new, "Loadable") => LoadsFilled(new)
  BY DEF LoadsFilled, Has, Loads
<1>3. InterpOverlaid(secs, old) /\ Has(old, new, "Interpreter")
        => InterpOverlaid(secs, new)
  <2> SUFFICES ASSUME InterpOverlaid(secs, old), Has(old, new, "Interpreter"),
                      NEW j \in Positions(new, "Interpreter")
               PROVE  \E i \in InterpSections(secs) : Overlaid(new[j], secs[i])
    BY DEF InterpOverlaid
  <2>1. PICK k \in Positions(old, "Interpreter") : old[k] = new[j]
    BY DEF Has
  <2> QED
    BY <2>1 DEF InterpOverlaid
<1>4. DynamicOverlaid(secs, old) /\ Has(old, new, "Dynamic")
        => DynamicOverlaid(secs, new)
  <2> SUFFICES ASSUME DynamicOverlaid(secs, old), Has(old, new, "Dynamic"),
                      NEW i \in Positions(secs, "Dynamic"),
                      NEW j \in Positions(new, "Dynamic")
               PROVE  Overlaid(new[j], secs[i])
    BY DEF DynamicOverlaid
  <2>1. PICK k \in Positions(old, "Dynamic") : old[k] = new[j]
    BY DEF Has
  <2> QED
    BY <2>1 DEF DynamicOverlaid
<1>5. ASSUME LayoutLinked(secs, old),
             Has(new, old, "Loadable"), Has(old, new, "Loadable"),
             Has(old, new, "ProgramHeader"), Has(old, new, "Other"),
             Has(new, old, "Dynamic") \/ Positions(secs, "Dynamic") = {},
             1 \in DOMAIN new, new[1] = old[1], new # << >>
      PROVE  LayoutLinked(secs, new)
  <2>1. /\ \A k \in Loads(new) : \E j \in Loads(old) : old[j] = new[k]
        /\ \A k \in Loads(old) : \E j \in Loads(new) : new[j] = old[k]
    BY <1>5 DEF Has, Loads
  <2>2. OthersInside(new)
    <3> SUFFICES ASSUME NEW j \in DOMAIN new, new[j].file_size # 0,
                        new[j].kind \in {"ProgramHeader", "Other"}
                 PROVE  \E k \in Loads(new) :
                          /\ new[k].offset <= new[j].offset
                          /\ SegmentFileEnd(new[j]) < SegmentFileEnd(new[k])
      BY DEF OthersInside
    <3>1. PICK i \in DOMAIN old : old[i] = new[j]
      BY <1>5 DEF Has, Positions
    <3>2. PICK k \in Loads(old) :
            /\ old[k].offset <= old[i].offset
            /\ SegmentFileEnd(old[i]) < SegmentFileEnd(old[k])
      BY <1>5, <3>1 DEF LayoutLinked, OthersInside
    <3> QED
      BY <2>1, <3>1, <3>2
  <2>3. LoadsTight(secs, new)
    <3> SUFFICES ASSUME NEW k \in Loads(new), new[k].file_size # 0,
                        ~EndsLasting(secs, new[k])
                 PROVE  HoldsOne(secs, new, new[k])
      BY DEF LoadsTight
    <3>1. PICK j \in Loads(old) : old[j] = new[k]
      BY <2>1
    <3>2. HoldsOne(secs, old, new[k])
      BY <1>5, <3>1 DEF LayoutLinked, LoadsTight
    <3>3. ASSUME NEW i \in DOMAIN secs, secs[i].kind = "Dynamic",
                 NEW o, \E d \in Positions(old, "Dynamic") : old[d].offset = o
          PROVE  \E d \in Positions(new, "Dynamic") : new[d].offset = o
      <4>1. Has(new, old, "Dynamic")
        BY <1>5, <3>3 DEF Positions
      <4> QED
        BY <3>3, <4>1 DEF Has
    <3> QED
      BY <3>2, <3>3 DEF HoldsOne
  <2>4. HeadMaps(new)
    <3> SUFFICES ASSUME NEW k \in Loads(new), new[k].file_size # 0,
                        \A j \in Loads(new) : new[k].offset <= new[j].offset
                 PROVE  new[1].address + new[k].offset
                          = new[k].address + new[1].offset
      BY <1>5 DEF LayoutLinked, HeadMaps
    <3>1. PICK m \in Loads(old) : old[m] = new[k]
      BY <2>1
    <3>2. \A j \in Loads(old) : old[m].offset <= old[j].offset
      BY <2>1, <3>1
    <3> QED
      BY <1>5, <3>1, <3>2 DEF LayoutLinked, HeadMaps
  <2>5. LoadsPlaced(new)
    BY <1>5, <2>1 DEF LayoutLinked, LoadsPlaced
  <2> QED
    BY <2>2, <2>3, <2>4, <2>5 DEF LayoutLinked
<1> QED
  BY <1>1, <1>2, <1>3, <1>4, <1>5

\* A section is freed.
LEMMA FreedLayout ==
  ASSUME NEW old, NEW new, NEW i \in DOMAIN old, NEW segs,
         DOMAIN new = DOMAIN old, new[i] = NullSection,
         \A k \in DOMAIN old : k # i => new[k] = old[k]
  PROVE  /\ SectionsMapped(old, segs) => SectionsMapped(new, segs)
         /\ DynamicOverlaid(old, segs) => DynamicOverlaid(new, segs)
         /\ old[i].name # ".interp" /\ InterpOverlaid(old, segs)
              => InterpOverlaid(new, segs)
         /\ ~Lasting(old[i]) /\ LayoutLinked(old, segs)
              => LayoutLinked(new, segs)
<1>1. \A k \in DOMAIN new : InFile(new[k])
        => k \in DOMAIN old /\ k # i /\ new[k] = old[k]
  BY NullNotLive
<1>2. SectionsMapped(old, segs) => SectionsMapped(new, segs)
  BY <1>1 DEF SectionsMapped
<1>3. DynamicOverlaid(old, segs) => DynamicOverlaid(new, segs)
  BY DEF DynamicOverlaid, Positions, NullSection
<1>4. old[i].name # ".interp" /\ InterpOverlaid(old, segs)
        => InterpOverlaid(new, segs)
  BY DEF InterpOverlaid, InterpSections
<1>5. ASSUME ~Lasting(old[i]), LayoutLinked(old, segs)
      PROVE  LayoutLinked(new, segs)
  <2>1. \A g : EndsLasting(old, g) => EndsLasting(new, g)
    BY <1>5 DEF EndsLasting
  <2>2. \A g : HoldsOne(old, segs, g) => HoldsOne(new, segs, g)
    BY <1>1 DEF HoldsOne
  <2> QED
    BY <1>5, <2>1, <2>2 DEF LayoutLinked, LoadsTight
<1> QED
  BY <1>2, <1>3, <1>4, <1>5

(***************************************************************************)
(* What a step leaves of strings and symbols.                              *)
(***************************************************************************)

\* At most the section at x is another one.
OthersStay(x) ==
  /\ \A k \in DOMAIN sections : k # x => Kept(k) /\ SameBytes(k)
  /\ \A k \in DOMAIN sections' :
       k # x => k \in DOMAIN sections \/ sections'[k] = NullSection

\* String tables that are kept have the strings.
LEMMA StringsThereKept ==
  ASSUME TInv, StringTablesPlaced(sections), NEW STATE x, OthersStay(x),
         NEW STATE tags, StringsThere(file, sections, tags),
         x \in Positions(sections, "StringTable") /\ sections[x].alloc
           => sections[x].address # tags["StringTableAddress"]
  PROVE  StringsThere(file', sections', tags)
<1>1. PICK d \in Positions(sections, "StringTable") :
        /\ sections[d].alloc
        /\ sections[d].address = tags["StringTableAddress"]
        /\ sections[d].size = tags["StringTableSize"]
        /\ Referenced(tags)
             \subseteq StringsIn(Read(file, sections[d].offset,
                                      sections[d].size))
  BY DEF StringsThere
<1>2. d # x /\ d \in DOMAIN sections /\ sections[d].kind = "StringTable"
  BY <1>1 DEF Positions
<1>3. InFile(sections[d])
  <2>1. sections[d].size # 0 /\ sections[d] \in Section
    BY <1>1, <1>2, TableFacts DEF StringTablesPlaced
  <2> QED
    BY <1>2, <2>1, LiveSection
<1>4. Kept(d)
  BY <1>2 DEF OthersStay
<1>5. /\ d \in DOMAIN sections' /\ sections'[d] = sections[d]
      /\ StringsIn(Read(file', sections[d].offset, sections[d].size))
           = StringsIn(Read(file, sections[d].offset, sections[d].size))
  BY <1>3, <1>4 DEF Kept, Alike
<1>6. d \in Positions(sections', "StringTable")
  BY <1>2, <1>5 DEF Positions
<1> QED
  BY <1>1, <1>5, <1>6 DEF StringsThere

\* Symbol tables that are kept have the symbols.
LEMMA SymbolsKept ==
  ASSUME TInv, SymbolsStored(sections), NEW STATE x, OthersStay(x),
         x \in DOMAIN sections'
           => sections'[x].kind \notin {"SymbolTable", "DynamicSymbolTable"}
  PROVE  /\ SymbolsStored(sections')
         /\ \A a : SymbolsAt(file, sections, a)
                     => SymbolsAt(file', sections', a)
<1>1. ASSUME NEW i \in SymbolsIn(sections')
      PROVE  /\ i \in SymbolsIn(sections) /\ sections'[i] = sections[i]
             /\ sections[i].size # 0
             /\ Read(file', sections[i].offset, sections[i].size)
                  = Read(file, sections[i].offset, sections[i].size)
  <2>1. /\ i \in DOMAIN sections'
        /\ sections'[i].kind \in {"SymbolTable", "DynamicSymbolTable"}
    BY DEF SymbolsIn, Positions
  <2>2. i # x /\ i \in DOMAIN sections
    BY <2>1 DEF OthersStay, NullSection
  <2>3. Kept(i) /\ SameBytes(i)
    BY <2>2 DEF OthersStay
  <2>4. sections'[i] = sections[i] /\ i \in SymbolsIn(sections)
    BY <2>1, <2>2, <2>3 DEF Kept, SymbolsIn, Positions
  <2>5. sections[i].size # 0 /\ sections[i] \in Section
    BY <2>2, <2>4, TableFacts DEF SymbolsStored
  <2>6. InFile(sections[i])
    BY <2>1, <2>4, <2>5, LiveSection
  <2> QED
    BY <2>3, <2>4, <2>5, <2>6 DEF SameBytes, ReadSection
<1> QED
  BY <1>1 DEF SymbolsStored, SymbolsAt

\* String tables stay where they have to be.
LEMMA StringTablesKept ==
  ASSUME StringTablesPlaced(sections), NEW STATE x, OthersStay(x),
         x \in Positions(sections', "StringTable")
           => sections'[x].alloc /\ sections'[x].size # 0
  PROVE  StringTablesPlaced(sections')
<1> SUFFICES ASSUME NEW i \in Positions(sections', "StringTable"), i # x
             PROVE  IF sections'[i].alloc THEN sections'[i].size # 0
                    ELSE sections'[i].address = 0
  BY DEF StringTablesPlaced
<1>1. i \in DOMAIN sections' /\ sections'[i].kind = "StringTable"
  BY DEF Positions
<1>2. i \in DOMAIN sections /\ sections'[i] = sections[i]
  BY <1>1 DEF OthersStay, Kept, NullSection
<1> QED
  BY <1>1, <1>2 DEF StringTablesPlaced, Positions

\* The steps at which the dynamic table, its string table or the symbols are
\* about to change.
Moving == {"free_dynamic_segment", "find_dynstr", "write_dynstr",
           "overlay_dynamic", "move_symbols"}

\* A step that neither moves the dynamic table nor the strings of it.
LEMMA LoaderFrame ==
  ASSUME TInv, PairOK, StringsOK, SymbolsOK, NEW STATE x, OthersStay(x),
         x \notin Positions(sections, "Dynamic"),
         x \in DOMAIN sections'
           => sections'[x].kind \notin {"Dynamic", "SymbolTable",
                                        "DynamicSymbolTable"},
         x \in Positions(sections', "StringTable")
           => sections'[x].alloc /\ sections'[x].size # 0,
         x \in Positions(sections, "StringTable") /\ sections[x].alloc =>
           /\ Positions(sections, "Dynamic") # {}
                => sections[x].address # DynamicTags["StringTableAddress"]
           /\ Phase = "place_dynamic"
                => sections[x].address # call.tags["StringTableAddress"],
         SameKind(segments', segments, "Dynamic"),
         Phase \notin Moving, Phase' \notin Moving,
         \/ Phase' = Phase /\ call' = call
         \/ /\ Phase \notin {"place_dynstr", "place_dynamic"}
            /\ Phase' \notin {"place_dynstr", "place_dynamic"}
  PROVE  PairOK' /\ StringsOK' /\ SymbolsOK'
<1>1. /\ Positions(sections', "Dynamic") = Positions(sections, "Dynamic")
      /\ \A i \in Positions(sections, "Dynamic") :
           Kept(i) /\ sections'[i] = sections[i]
  <2>1. ASSUME NEW i \in Positions(sections', "Dynamic")
        PROVE  i \in Positions(sections, "Dynamic")
    <3>1. i \in DOMAIN sections' /\ sections'[i].kind = "Dynamic"
      BY DEF Positions
    <3>2. i # x /\ i \in DOMAIN sections
      BY <3>1 DEF OthersStay, NullSection
    <3>3. sections'[i] = sections[i]
      BY <3>2 DEF OthersStay, Kept
    <3> QED
      BY <3>1, <3>2, <3>3 DEF Positions
  <2>2. ASSUME NEW i \in Positions(sections, "Dynamic")
        PROVE  /\ i \in Positions(sections', "Dynamic")
               /\ Kept(i) /\ sections'[i] = sections[i]
    <3>1. i \in DOMAIN sections /\ sections[i].kind = "Dynamic" /\ i # x
      BY DEF Positions
    <3>2. Kept(i)
      BY <3>1 DEF OthersStay
    <3> QED
      BY <3>1, <3>2 DEF Kept, Positions
  <2> QED
    BY <2>1, <2>2
<1>2. DynamicTags' = DynamicTags
  BY <1>1, DynamicKept
<1>3. Positions(segments', "Dynamic") = {} <=> Positions(segments, "Dynamic") = {}
  BY DEF SameKind, Has
<1>4. PairOK'
  BY <1>1, <1>3 DEF PairOK, Moving
<1>5. StringTablesPlaced(sections')
  BY StringTablesKept DEF StringsOK
<1>6. Positions(sections, "Dynamic") # {}
        => StringsThere(file', sections', DynamicTags)
  BY StringsThereKept DEF StringsOK
<1>7. ASSUME Phase' = "place_dynamic"
      PROVE  StringsThere(file', sections', call.tags) /\ call' = call
  <2>1. Phase = "place_dynamic" /\ call' = call
    BY <1>7
  <2>2. StringsThere(file, sections, call.tags)
    BY <2>1 DEF StringsOK
  <2> QED
    BY <2>1, <2>2, StringsThereKept DEF StringsOK
<1>8. StringsOK'
  <2>1. Positions(sections', "Dynamic") # {}
          => StringsThere(file', sections', DynamicTags')
    BY <1>1, <1>2, <1>6
  <2>2. Phase' = "place_dynamic" => StringsThere(file', sections', call'.tags)
    BY <1>7
  <2>3. Phase' = "place_dynstr" =>
          /\ Referenced(call'.tags) \cup {call'.value} \subseteq call'.strings
          /\ call'.len # 0
    BY DEF StringsOK
  <2> QED
    BY <1>5, <2>1, <2>2, <2>3 DEF StringsOK, Moving
<1>9. /\ SymbolsStored(sections')
      /\ \A a : SymbolsAt(file, sections, a) => SymbolsAt(file', sections', a)
  BY SymbolsKept DEF SymbolsOK
<1>10. SymbolsOK'
  <2>1. CASE Phase' \in WithoutTable
    <3>1. Phase \in WithoutTable /\ call' = call
      BY <2>1 DEF WithoutTable, Moving
    <3>2. SymbolsAt(file', sections', call'.address)
      BY <1>9, <3>1 DEF SymbolsOK
    <3> QED
      BY <1>9, <2>1, <3>2 DEF SymbolsOK, Moving
  <2>2. CASE Phase' \notin WithoutTable
    <3>1. Phase \notin WithoutTable \cup {"overlay_dynamic", "move_symbols"}
      BY <2>2 DEF WithoutTable, Moving
    <3>2. \A i \in Positions(sections', "Dynamic") :
            SymbolsAt(file', sections', sections'[i].address)
      BY <1>1, <1>9, <3>1 DEF SymbolsOK
    <3> QED
      BY <1>9, <2>2, <3>2 DEF SymbolsOK, Moving
  <2> QED
    BY <2>1, <2>2
<1> QED
  BY <1>4, <1>8, <1>10

(***************************************************************************)
(* Calls, and the steps of finish.                                         *)
(***************************************************************************)

\* The sections stay.
LEMMA LoaderStill ==
  ASSUME TInv, LoaderOK, sections' = sections,
         \A i \in DOMAIN sections : Kept(i) /\ SameBytes(i),
         SameKind(segments', segments, "Dynamic"),
         Phase \notin Moving, Phase' \notin Moving,
         \/ Phase' = Phase /\ call' = call
         \/ /\ Phase \notin {"place_dynstr", "place_dynamic"}
            /\ Phase' \notin {"place_dynstr", "place_dynamic"}
  PROVE  PairOK' /\ StringsOK' /\ SymbolsOK'
<1>1. 0 \notin DOMAIN sections
  BY TableFacts
<1>2. OthersStay(0)
  BY DEF OthersStay
<1>3. 0 \notin DOMAIN sections'
  BY <1>1
<1>4. \A s, kind : 0 \notin DOMAIN s => 0 \notin Positions(s, kind)
  BY DEF Positions
<1> QED
  BY <1>1, <1>2, <1>3, <1>4, LoaderFrame DEF LoaderOK

\* Neither the tables nor the file change.
LEMMA LoaderSame ==
  ASSUME TInv, LoaderOK, UNCHANGED <<sections, segments, file>>,
         InCalls' => InCalls,
         Phase \in {"free_interp", "drop_interp"}
           => Phase' \in {"free_interp", "drop_interp"},
         Phase \notin Moving, Phase' \notin Moving,
         \/ Phase' = Phase /\ call' = call
         \/ /\ Phase \notin {"place_dynstr", "place_dynamic"}
            /\ Phase' \notin {"place_dynstr", "place_dynamic"}
  PROVE  LoaderOK'
<1>1. SameKind(segments', segments, "Dynamic")
  BY SameItself
<1>2. PairOK' /\ StringsOK' /\ SymbolsOK'
  BY <1>1, FileKept, LoaderStill
<1>3. MappedOK'
  BY DEF LoaderOK, MappedOK
<1> QED
  BY <1>2, <1>3 DEF LoaderOK

LEMMA CallLoads ==
  ASSUME TInv, FirstOK, LoaderOK, Call, sessions' <= 1, pc' \notin Dead
  PROVE  LoaderOK'
<1>1. /\ UNCHANGED <<sections, segments, file>>
      /\ pc \in {"closed", "ready"}
      /\ pc = "closed" => sessions = 0
  <2>1. CASE Open
    BY <2>1 DEF Open, elf, TInv, PlaceOK
  <2>2. CASE ~Open
    BY <2>2 DEF Call, RemoveInterpreter, SetInterpreter, SetDynamicTag,
                RemoveDynamicTag, Finish, Begin, elf
  <2> QED
    BY <2>1, <2>2
<1>2. pc' \in {"ready", "unreadable", "free_interp", "free_dynamic",
               "shrink_dynamic", "free_phdr"}
  BY DEF Call, Open, RemoveInterpreter, SetInterpreter, SetDynamicTag,
         RemoveDynamicTag, Finish, Begin
<1>3. /\ Phase = pc /\ Phase' = pc' /\ InCalls
  BY <1>1, <1>2 DEF Phase, NameSteps, InCalls, Finishing, Dead
<1> QED
  BY <1>1, <1>2, <1>3, LoaderSame DEF Moving

\* Elf::write leaves the sections as they are.
LEMMA WriteElfKept ==
  ASSUME TInv, FirstOK, WriteElf, pc' = "closed"
  PROVE  \A i \in DOMAIN sections : Kept(i) /\ SameBytes(i)
<1> DEFINE po == header.program_header_offset
           pl == SegmentLen * Len(segments)
           so == header.section_header_offset
           sl == SectionLen * Len(sections)
           first == Write(file, 0, HeaderLen, [header |-> header])
           second == Write(first, po, pl, [segments |-> segments])
           third == Write(second, so, sl, [sections |-> sections])
<1>1. /\ pc = "write" /\ sections' = sections /\ file' = third
      /\ TablesApart /\ SectionsStored(file, sections)
  BY DEF WriteElf, elf, FirstOK, Dead
<1>2. /\ segments # << >> /\ po >= HeaderLen
      /\ Missed(sections, po, pl)
      /\ sections # << >> /\ so >= HeaderLen
      /\ Missed(sections, so, sl)
  BY <1>1 DEF TablesApart
<1>3. /\ header \in HeaderType
      /\ sections \in Seq(Section) /\ segments \in Seq(Segment)
  BY TableFacts DEF TInv, PlaceOK
<1>4. HeaderLen \in Nat /\ po \in Nat /\ so \in Nat
  BY <1>3, LengthsAssumption DEF HeaderType
<1>5. pl \in Nat /\ sl \in Nat
  <2>1. Len(segments) \in Nat /\ Len(sections) \in Nat
    BY <1>3
  <2>2. \A m, n \in Nat : m * n \in Nat
    OBVIOUS
  <2> QED
    BY <2>1, <2>2, LengthsAssumption
<1>6. Missed(sections, 0, HeaderLen)
  <2>1. \A i \in DOMAIN sections :
          InFile(sections[i]) => sections[i].offset >= HeaderLen
    BY <1>1 DEF SectionsStored
  <2> QED
    BY <1>4, <2>1 DEF Missed
<1> HIDE DEF po, pl, so, sl
<1>7. \A i \in DOMAIN sections : InFile(sections[i]) =>
        Stored(first, sections[i].offset, sections[i].size)
          = Stored(file, sections[i].offset, sections[i].size)
  BY <1>3, <1>4, <1>6, WriteMisses
<1> HIDE DEF first
<1>8. \A i \in DOMAIN sections : InFile(sections[i]) =>
        Stored(second, sections[i].offset, sections[i].size)
          = Stored(first, sections[i].offset, sections[i].size)
  BY <1>2, <1>3, <1>4, <1>5, WriteMisses
<1> HIDE DEF second
<1>9. \A i \in DOMAIN sections : InFile(sections[i]) =>
        Stored(third, sections[i].offset, sections[i].size)
          = Stored(second, sections[i].offset, sections[i].size)
  BY <1>2, <1>3, <1>4, <1>5, WriteMisses
<1> HIDE DEF third
<1>10. \A i \in DOMAIN sections : InFile(sections[i]) =>
         Stored(file', sections[i].offset, sections[i].size)
           = Stored(file, sections[i].offset, sections[i].size)
  BY <1>1, <1>7, <1>8, <1>9
<1> QED
  BY <1>1, <1>10, StoredAlike DEF Kept, SameBytes, ReadSection

LEMMA WriteElfLoads ==
  ASSUME TInv, FirstOK, LoaderOK, WriteElf, pc' \notin Dead
  PROVE  LoaderOK'
<1>1. /\ pc = "write" /\ pc' = "closed"
      /\ UNCHANGED <<sections, segments, sessions, call>>
  BY DEF WriteElf, elf, Dead
<1>2. Phase = "write" /\ Phase' = "closed" /\ sessions # 0
  BY <1>1 DEF Phase, NameSteps, FirstOK
<1>3. ~InCalls'
  BY <1>1, <1>2 DEF InCalls, Finishing
<1>4. PairOK' /\ StringsOK' /\ SymbolsOK'
  BY <1>1, <1>2, WriteElfKept, SameItself, LoaderStill DEF Moving
<1>5. MappedOK'
  BY <1>1, <1>2, <1>3 DEF LoaderOK, MappedOK
<1> QED
  BY <1>4, <1>5 DEF LoaderOK

LEMMA ArrangeLoads ==
  ASSUME TInv, FirstOK, LoaderOK, Arrange
  PROVE  LoaderOK'
<1>1. /\ pc = "arrange" /\ pc' = "write"
      /\ segments' = FinishSegments(segments)
      /\ UNCHANGED <<sections, file, call>>
  BY DEF Arrange
<1>2. Phase = "arrange" /\ Phase' = "write" /\ ~InCalls'
  BY <1>1 DEF Phase, NameSteps, InCalls, Finishing
<1>3. \A kind : SameKind(segments', segments, kind)
  BY <1>1, TableFacts, FinishSameKind
<1>4. PairOK' /\ StringsOK' /\ SymbolsOK'
  BY <1>1, <1>2, <1>3, FileKept, LoaderStill DEF Moving
<1>5. /\ SectionsMapped(sections, segments') /\ LoadsFilled(segments')
      /\ InterpOverlaid(sections, segments')
      /\ DynamicOverlaid(sections, segments')
  BY <1>2, <1>3, SegmentsFrame DEF SameKind, LoaderOK, MappedOK
<1>6. MappedOK'
  BY <1>1, <1>2, <1>5 DEF MappedOK
<1> QED
  BY <1>4, <1>6 DEF LoaderOK

LEMMA PlaceTablesLoads ==
  ASSUME TInv, FirstOK, LoaderOK, PlaceTables, pc' \notin Dead
  PROVE  LoaderOK'
<1>1. /\ pc = "place_tables" /\ pc' = "arrange"
      /\ UNCHANGED <<segments, file, call>>
      /\ sections' = FinishSections(sections)
  BY DEF PlaceTables, Dead
<1>2. Phase = "place_tables" /\ Phase' = "arrange" /\ ~InCalls'
  BY <1>1 DEF Phase, NameSteps, InCalls, Finishing
<1>3. sections # << >>
  <2>1. header.section_names_index \in DOMAIN sections
    BY <1>1 DEF FirstOK, NamesOK, Positions, Dead
  <2> QED
    BY <2>1
<1>4. UNCHANGED <<sections, segments, file>>
  BY <1>1, <1>3 DEF FinishSections
<1> QED
  BY <1>2, <1>4, LoaderSame DEF Moving

LEMMA PlacePhdrLoads ==
  ASSUME TInv, FirstOK, LoaderOK, PlacePhdr, pc' \notin Dead
  PROVE  LoaderOK'
<1> DEFINE request == PhdrRequest(PhdrLen(Len(segments)))
           result == AllocateSegment(sections, segments, request)
           load == NewLoad(sections, segments, request.file_size,
                           request.memory_size, request.align, request.write)
<1>1. /\ pc = "place_phdr" /\ pc' = "place_tables" /\ result.ok
      /\ segments' = AddSegment(result.segments, result.segment)
      /\ UNCHANGED <<sections, file, call>>
  BY DEF PlacePhdr, Dead
<1>2. Phase = "place_phdr" /\ Phase' = "place_tables" /\ ~InCalls'
  BY <1>1 DEF Phase, NameSteps, InCalls, Finishing
<1>3. /\ sections \in Seq(Section) /\ segments \in Seq(Segment)
  BY TableFacts
<1>4. /\ result.segments = Append(segments, load)
      /\ load.kind = "Loadable" /\ load.file_size = load.memory_size
  BY DEF AllocateSegment, NewLoad, PhdrRequest
<1>5. request \in Segment /\ request.kind = "ProgramHeader"
  BY <1>1, <1>3, PhdrRequestIsSegment
<1> HIDE DEF request
<1>6. /\ result.segment \in Segment
      /\ result.segment.kind = "ProgramHeader"
      /\ InNewLoad(result.segment.offset, result.segments, sections, segments)
  BY <1>1, <1>3, <1>5, AllocateSegmentProperties
<1>7. PICK g \in Segment : result.segments = Append(segments, g)
  BY <1>6 DEF InNewLoad
<1> HIDE DEF result, load
<1>8. load \in Segment
  <2>1. Append(segments, g)[Len(segments) + 1] = g
    BY <1>3
  <2>2. Append(segments, load)[Len(segments) + 1] = load
    BY <1>3
  <2> QED
    BY <1>4, <1>7, <2>1, <2>2
<1>9. result.segments \in Seq(Segment)
  BY <1>3, <1>4, <1>8
<1>10. /\ \A kind : /\ Has(result.segments, segments, kind)
                    /\ kind # "Loadable"
                         => SameKind(result.segments, segments, kind)
  BY <1>3, <1>4, <1>8, AppendSameKind
<1>11. \A kind \in {"Loadable", "Dynamic", "Interpreter"} :
         SameKind(segments', result.segments, kind)
  BY <1>1, <1>6, <1>9, AddSegmentSameKind DEF SegmentKinds
<1>12. /\ SameKind(segments', segments, "Dynamic")
       /\ SameKind(segments', segments, "Interpreter")
       /\ Has(segments', segments, "Loadable")
  BY <1>10, <1>11, SameAfterSame DEF SameKind
<1>13. LoadsFilled(segments')
  <2>1. LoadsFilled(result.segments)
    <3> SUFFICES ASSUME NEW k \in Loads(result.segments)
                 PROVE  result.segments[k].file_size
                          <= result.segments[k].memory_size
      BY DEF LoadsFilled
    <3>1. \/ result.segments[k] = load
          \/ k \in Loads(segments) /\ result.segments[k] = segments[k]
      BY <1>3, <1>4, <1>8, AppendPositions DEF Loads, Positions
    <3>2. load.memory_size \in Nat
      BY <1>8, EndsAreNatural
    <3>3. load.file_size <= load.memory_size
      BY ONLY <1>4, <3>2
    <3>4. \A j \in Loads(segments) :
            segments[j].file_size <= segments[j].memory_size
      BY DEF LoaderOK, MappedOK, LoadsFilled
    <3> QED
      BY ONLY <3>1, <3>3, <3>4, Zenon
  <2> QED
    BY <1>11, <2>1, SegmentsFrame DEF SameKind
<1>14. /\ SectionsMapped(sections, segments')
       /\ InterpOverlaid(sections, segments')
       /\ DynamicOverlaid(sections, segments')
  BY <1>2, <1>12, SegmentsFrame DEF SameKind, LoaderOK, MappedOK
<1>15. MappedOK'
  BY <1>1, <1>2, <1>13, <1>14 DEF MappedOK
<1>16. PairOK' /\ StringsOK' /\ SymbolsOK'
  BY <1>1, <1>2, <1>12, FileKept, LoaderStill DEF Moving
<1> QED
  BY <1>15, <1>16 DEF LoaderOK

\* The segments that go with the old PHDR have its bytes.
LEMMA PhdrFreed ==
  ASSUME TInv, First(Positions(segments, "ProgramHeader")) # 0
  PROVE  LET j == First(Positions(segments, "ProgramHeader"))
         IN  /\ j \in Positions(segments, "ProgramHeader")
             /\ \A k \in {j, CompanionLoad(segments, j)} \cap DOMAIN segments :
                  /\ segments[k].kind \in {"ProgramHeader", "Loadable"}
                  /\ segments[k].offset = segments[j].offset
                  /\ segments[k].file_size = segments[j].file_size
<1> DEFINE j == First(Positions(segments, "ProgramHeader"))
           c == CompanionLoad(segments, j)
           I == {k \in Positions(segments, "Loadable") :
                   /\ segments[k].offset = segments[j].offset
                   /\ segments[k].file_size = segments[j].file_size}
<1>1. segments \in Seq(Segment)
  BY TableFacts
<1>2. j \in Positions(segments, "ProgramHeader")
  <2>1. Positions(segments, "ProgramHeader") \in SUBSET DOMAIN segments
    BY DEF Positions
  <2> QED
    BY <1>1, <2>1, FirstPosition
<1>3. ASSUME NEW k \in {j, c} \cap DOMAIN segments
      PROVE  k = j \/ k \in I
  <2>1. k # 0
    BY <1>1
  <2>2. c = First(I)
    BY <1>2 DEF CompanionLoad, Positions
  <2>3. I \in SUBSET DOMAIN segments
    BY DEF Positions
  <2> HIDE DEF c, I, j
  <2> QED
    BY <1>1, <1>3, <2>1, <2>2, <2>3, FirstPosition
<1> QED
  BY <1>2, <1>3 DEF Positions

\* free_segment of PHDR: no section is in a LOAD segment that goes with it.
LEMMA FreePhdrLoads ==
  ASSUME TInv, FirstOK, LoaderOK, FreePhdr
  PROVE  LoaderOK'
<1> DEFINE j == First(Positions(segments, "ProgramHeader"))
           freed == {j, CompanionLoad(segments, j)} \cap DOMAIN segments
<1>1. /\ pc = "free_phdr" /\ pc' = "place_phdr"
      /\ UNCHANGED <<sections, call>>
  BY DEF FreePhdr, Continue
<1>2. Phase = "free_phdr" /\ Phase' = "place_phdr" /\ ~InCalls'
  BY <1>1 DEF Phase, NameSteps, InCalls, Finishing
<1>3. CASE j = 0
  <2>1. UNCHANGED <<segments, file>>
    BY <1>3 DEF FreePhdr
  <2> QED
    BY <1>1, <1>2, <2>1, LoaderSame DEF Moving
<1>4. CASE j # 0
  <2>1. /\ segments' = Without(segments, freed)
        /\ file' = {b \in file : \A k \in freed :
                      ~Overlaps(b, segments[k].offset, segments[k].file_size)}
    BY <1>4 DEF FreePhdr
  <2>2. segments \in Seq(Segment)
    BY TableFacts
  <2>3. /\ j \in Positions(segments, "ProgramHeader")
        /\ \A k \in freed :
             /\ k \in DOMAIN segments
             /\ segments[k].kind \in {"ProgramHeader", "Loadable"}
             /\ segments[k].offset = segments[j].offset
             /\ segments[k].file_size = segments[j].file_size
    BY <1>4, PhdrFreed
  <2>4. /\ segments[j].file_size # 0
        /\ Missed(sections, segments[j].offset, segments[j].file_size)
        /\ BytesOK(file)
    BY <1>1, <2>3 DEF FirstOK, Dead, TablesApart, InCalls, Finishing, PhdrCovered
  <2> HIDE DEF freed, j
  <2>5. \A i \in DOMAIN sections : Kept(i) /\ SameBytes(i)
    <3>1. freed \in SUBSET DOMAIN segments
      BY <2>3
    <3>2. \A k \in freed : Missed(sections, segments[k].offset,
                                  segments[k].file_size)
      BY <2>3, <2>4
    <3> QED
      BY <1>1, <2>1, <2>4, <3>1, <3>2, ClearedKept
  <2>6. /\ SameKind(segments', segments, "Interpreter")
        /\ SameKind(segments', segments, "Dynamic")
        /\ Has(segments, segments', "Loadable")
    <3>1. /\ Positions(segments, "Interpreter") \cap freed = {}
          /\ Positions(segments, "Dynamic") \cap freed = {}
      BY <2>3 DEF Positions
    <3> QED
      BY <2>1, <2>2, <3>1, WithoutSameKind
  <2>7. /\ LoadsFilled(segments')
        /\ InterpOverlaid(sections, segments')
        /\ DynamicOverlaid(sections, segments')
    BY <1>2, <2>6, SegmentsFrame DEF SameKind, LoaderOK, MappedOK
  <2>8. SectionsMapped(sections, segments')
    <3> SUFFICES ASSUME NEW i \in DOMAIN sections,
                        sections[i].alloc, InFile(sections[i])
                 PROVE  \E k \in Loads(segments') :
                          Maps(segments'[k], sections[i])
      BY DEF SectionsMapped
    <3>1. PICK k \in Loads(segments) : Maps(segments[k], sections[i])
      BY DEF LoaderOK, MappedOK, SectionsMapped
    <3>2. k \in DOMAIN segments /\ segments[k].kind = "Loadable"
      BY DEF Loads, Positions
    <3>3. k \notin freed
      <4> SUFFICES ASSUME k \in freed PROVE FALSE
        OBVIOUS
      <4>1. /\ segments[k].offset = segments[j].offset
            /\ segments[k].file_size = segments[j].file_size
        BY <2>3
      <4>2. /\ segments[k].offset <= sections[i].offset
            /\ SectionFileEnd(sections[i]) <= SegmentFileEnd(segments[k])
        BY <3>1 DEF Maps
      <4>3. SegmentFileEnd(segments[k])
              = segments[k].offset + segments[k].file_size
        BY DEF SegmentFileEnd
      <4>4. \/ SectionFileEnd(sections[i]) <= segments[k].offset
            \/ segments[k].offset + segments[k].file_size <= sections[i].offset
        BY <2>4, <4>1 DEF Missed
      <4>5. /\ sections[i].offset \in Nat /\ SectionFileEnd(sections[i]) \in Nat
            /\ segments[k].offset \in Nat /\ segments[k].file_size \in Nat
            /\ sections[i].offset < SectionFileEnd(sections[i])
        <5>1. sections[i] \in Section /\ segments[k] \in Segment
          BY <3>2, TableFacts
        <5>2. sections[i].size \in Nat \ {0} /\ sections[i].offset \in Nat
              /\ SectionFileEnd(sections[i]) = sections[i].offset + sections[i].size
          BY <5>1, LiveSection
        <5> QED
          BY <5>1, <5>2, EndsAreNatural
      <4> QED
        BY <4>2, <4>3, <4>4, <4>5
    <3>4. IsArrangement(segments', segments, DOMAIN segments \ freed)
      BY <2>1, <2>2, WithoutProperties
    <3>5. k \in DOMAIN segments \ freed
      BY <3>2, <3>3
    <3>6. PICK n \in DOMAIN segments' : segments'[n] = segments[k]
      BY <3>4, <3>5 DEF IsArrangement
    <3>7. n \in Loads(segments')
      BY <3>2, <3>6 DEF Loads, Positions
    <3> QED
      BY <3>1, <3>6, <3>7
  <2>9. MappedOK'
    BY <1>1, <1>2, <2>7, <2>8 DEF MappedOK
  <2>10. PairOK' /\ StringsOK' /\ SymbolsOK'
    BY <1>1, <1>2, <2>5, <2>6, LoaderStill DEF Moving
  <2> QED
    BY <2>9, <2>10 DEF LoaderOK
<1> QED
  BY <1>3, <1>4

(***************************************************************************)
(* set_interpreter and remove_interpreter.                                 *)
(***************************************************************************)

\* One round of the loop: a section .interp goes, or the loop is over.
LEMMA FreeInterpLoads ==
  ASSUME TInv, FirstOK, LoaderOK, FreeInterp
  PROVE  LoaderOK'
<1> DEFINE I == {k \in DOMAIN sections : /\ sections[k].name = ".interp"
                                         /\ ".interp" \in CachedNames.strings}
           i == First(I)
<1>1. /\ pc = "free_interp" /\ segments' = segments
      /\ FirstOK /\ NamesOK /\ BytesOK(file) /\ SectionsStored(file, sections)
  BY DEF FreeInterp, FirstOK, Dead
<1>2. Phase = "free_interp" /\ InCalls
  BY <1>1 DEF Phase, NameSteps, InCalls, Finishing, Dead
<1>3. CASE I = {}
  <2>1. pc' = "drop_interp" /\ UNCHANGED <<sections, segments, file, call>>
    BY <1>3 DEF FreeInterp, Continue
  <2>2. Phase' = "drop_interp"
    BY <2>1 DEF Phase, NameSteps
  <2> QED
    BY <1>2, <2>1, <2>2, LoaderSame DEF Moving
<1>4. CASE I # {}
  <2>1. Free(i) /\ pc' = pc /\ call' = call
    BY <1>4 DEF FreeInterp
  <2>2. i \in I
    <3>1. I \in SUBSET DOMAIN sections
      OBVIOUS
    <3> QED
      BY <1>4, <3>1, TableFacts, FirstPosition
  <2> HIDE DEF i
  <2>3. i \in DOMAIN sections /\ i \in InterpSections(sections)
    BY <2>2 DEF InterpSections
  <2>4. sections[i].kind = "ProgramBits"
    BY <1>1, <2>3 DEF NamesOK
  <2>5. /\ DOMAIN sections' = DOMAIN sections
        /\ sections'[i] = NullSection
        /\ \A k \in DOMAIN sections : k # i => Kept(k) /\ SameBytes(k)
    BY <1>1, <2>1, <2>3, <2>4, FreeFrame
  <2>6. Phase' = "free_interp"
    BY <1>1, <2>1 DEF Phase, NameSteps
  <2>7. OthersStay(i)
    BY <2>5 DEF OthersStay
  <2>8. /\ i \notin Positions(sections, "Dynamic")
        /\ i \notin Positions(sections, "StringTable")
        /\ i \notin Positions(sections', "StringTable")
        /\ sections'[i].kind = "Null"
    BY <2>4, <2>5 DEF Positions, NullSection
  <2>9. PairOK' /\ StringsOK' /\ SymbolsOK'
    BY <1>1, <1>2, <2>6, <2>7, <2>8, SameItself, LoaderFrame
       DEF Moving, LoaderOK
  <2>10. ~Lasting(sections[i])
    BY <2>3 DEF InterpSections, Lasting
  <2>11. \A k \in DOMAIN sections : k # i => sections'[k] = sections[k]
    BY <2>5 DEF Kept
  <2>12. /\ SectionsMapped(sections', segments)
         /\ DynamicOverlaid(sections', segments)
         /\ LayoutLinked(sections', segments)
    BY <1>2, <2>3, <2>5, <2>10, <2>11, FreedLayout DEF LoaderOK, MappedOK
  <2>13. MappedOK'
    BY <1>1, <2>6, <2>12 DEF LoaderOK, MappedOK
  <2> QED
    BY <2>9, <2>13 DEF LoaderOK
<1> QED
  BY <1>3, <1>4

\* alloc_section and write_content in the middle of a call.
LEMMA PlaceLoads ==
  ASSUME TInv, FirstOK, LoaderOK, InCalls,
         Phase \notin {"free_interp", "drop_interp", "free_dynamic_segment"},
         NEW STATE request, Requestable(request), request.size # 0,
         request.align \in {0, 1} \/ PageSize % request.align = 0,
         request.kind = "Dynamic" =>
           request.size >= DynamicLen /\ Positions(segments, "Dynamic") = {},
         NEW STATE content, content # Garbage,
         "tags" \in DOMAIN content => TableFits(content.tags, request.size),
         NEW STATE step, Place(request, content, step), pc' # "failed"
  PROVE  LET slot == SpareSlot(sections)
         IN  /\ MappedOK'
             /\ pc' = step /\ OthersStay(slot)
             /\ slot \in Nat /\ slot \in DOMAIN sections'
             /\ sections'[slot].name = request.name
             /\ sections'[slot].kind = request.kind
             /\ sections'[slot].size = request.size
             /\ sections'[slot].alloc /\ InFile(sections'[slot])
             /\ Read(file', sections'[slot].offset, sections'[slot].size)
                  = content
             /\ slot \in DOMAIN sections => sections[slot].kind = "Null"
             /\ SameKind(segments', segments, "Dynamic")
<1>1. /\ BytesOK(file) /\ SectionsStored(file, sections)
      /\ HeaderGuarded(segments) /\ PhdrCovered(sections, segments)
  BY DEF FirstOK, TablesApart, InCalls
<1>2. request.kind = "Dynamic" => request.size >= DynamicLen
  OBVIOUS
<1>3. LET slot == SpareSlot(sections)
      IN  /\ pc' = step
          /\ slot \in Nat /\ slot \in DOMAIN sections'
          /\ sections'[slot].name = request.name
          /\ sections'[slot].kind = request.kind
          /\ sections'[slot].size = request.size
          /\ InFile(sections'[slot])
          /\ Read(file', sections'[slot].offset, sections'[slot].size)
               = content
          /\ slot \in DOMAIN sections => sections[slot].kind = "Null"
          /\ \A k \in DOMAIN sections :
               k # slot => Kept(k) /\ SameBytes(k)
          /\ \A k \in DOMAIN sections' : k # slot =>
               \/ k \in DOMAIN sections
               \/ k = 1 /\ sections'[k] = NullSection
          /\ \A kind : kind # "Loadable"
                         => SameKind(segments', segments, kind)
  BY <1>1, <1>2, PlaceFrame
<1>4. Mapped
  BY DEF Mapped, LoaderOK, MappedOK, PairOK, Overlays
<1>5. /\ SectionsMapped(sections', segments')
      /\ LoadsFilled(segments')
      /\ InterpOverlaid(sections', segments')
      /\ DynamicOverlaid(sections', segments')
      /\ LayoutLinked(sections', segments')
      /\ sections'[SpareSlot(sections)].alloc
  BY <1>4, PlaceMapped DEF LoaderOK, MappedOK
<1>6. MappedOK'
  BY <1>5 DEF MappedOK
<1>7. OthersStay(SpareSlot(sections))
  BY <1>3 DEF OthersStay
<1> QED
  BY <1>3, <1>5, <1>6, <1>7

\* clear_content and retain of the INTERP segments.
LEMMA DropInterpLoads ==
  ASSUME TInv, FirstOK, LoaderOK, DropInterp
  PROVE  LoaderOK'
<1> DEFINE J == Positions(segments, "Interpreter")
<1>1. /\ pc = "drop_interp" /\ segments' = Without(segments, J)
      /\ file' = {b \in file : \A j \in J :
                    ~Overlaps(b, segments[j].offset, segments[j].file_size)}
      /\ sections' = sections
  BY DEF DropInterp
<1>2. Phase = "drop_interp" /\ InCalls
  BY <1>1 DEF Phase, NameSteps, InCalls, Finishing, Dead
<1>3. /\ \A j \in J : Missed(sections, segments[j].offset,
                             segments[j].file_size)
      /\ BytesOK(file)
  BY <1>1, <1>2 DEF FirstOK, Dead, InterpOK
<1>4. \A i \in DOMAIN sections : Kept(i) /\ SameBytes(i)
  <2>1. J \in SUBSET DOMAIN segments
    BY DEF Positions
  <2> QED
    BY <1>1, <1>3, <2>1, ClearedKept
<1>5. Phase' \in {"place_interp", "ready"}
  <2>1. CASE call.op = "set_interpreter"
    <3>1. /\ pc' = "find_name"
          /\ call' = [call EXCEPT !.name = ".interp", !.then = "place_interp"]
      BY <2>1 DEF DropInterp
    <3>2. {"name", "then"} \subseteq DOMAIN call
      BY DEF TInv, CallOK, NoCall
    <3>3. call'.then = "place_interp"
      BY <3>1, <3>2
    <3> QED
      BY <3>1, <3>3 DEF Phase, NameSteps
  <2>2. CASE call.op # "set_interpreter"
    BY <2>2 DEF DropInterp, Return, Phase, NameSteps
  <2> QED
    BY <2>1, <2>2
<1>6. segments \in Seq(Segment)
  BY TableFacts
<1>7. /\ Positions(segments', "Interpreter") = {}
      /\ \A kind : kind # "Interpreter" => SameKind(segments', segments, kind)
  <2>1. \A kind : kind # "Interpreter" => Positions(segments, kind) \cap J = {}
    BY DEF Positions
  <2> HIDE DEF J
  <2> QED
    BY <1>1, <1>6, <2>1, WithoutSameKind DEF J
<1>8. 1 \in DOMAIN segments' /\ segments'[1] = segments[1] /\ segments' # << >>
  <2>1. 1 \in DOMAIN segments /\ segments[1].kind # "Interpreter"
    BY <1>2, <1>6 DEF LoaderOK, MappedOK, LayoutLinked, HeadMaps
  <2>2. 1 \notin J
    BY <2>1 DEF Positions
  <2>3. 1 \in DOMAIN segments' /\ segments'[1] = segments[1]
    BY <1>1, <1>6, <2>1, <2>2, WithoutKeepsFirst
  <2> QED
    BY <2>3
<1>9. /\ SectionsMapped(sections, segments') /\ LoadsFilled(segments')
      /\ DynamicOverlaid(sections, segments')
      /\ LayoutLinked(sections, segments')
  <2>1. /\ Has(segments', segments, "Loadable")
        /\ Has(segments, segments', "Loadable")
        /\ Has(segments, segments', "ProgramHeader")
        /\ Has(segments, segments', "Other")
        /\ Has(segments', segments, "Dynamic")
        /\ Has(segments, segments', "Dynamic")
    BY <1>7 DEF SameKind
  <2>2. /\ SectionsMapped(sections, segments) /\ LoadsFilled(segments)
        /\ DynamicOverlaid(sections, segments)
        /\ LayoutLinked(sections, segments)
    BY <1>2 DEF LoaderOK, MappedOK
  <2> QED
    BY <1>8, <2>1, <2>2, SegmentsFrame
<1>10. InterpOverlaid(sections, segments')
  BY <1>7 DEF InterpOverlaid
<1>11. MappedOK'
  BY <1>1, <1>9, <1>10 DEF MappedOK
<1>12. PairOK' /\ StringsOK' /\ SymbolsOK'
  BY <1>1, <1>2, <1>4, <1>5, <1>7, LoaderStill DEF Moving
<1> QED
  BY <1>11, <1>12 DEF LoaderOK

\* The section .interp is placed.
LEMMA PlaceInterpLoads ==
  ASSUME TInv, FirstOK, LoaderOK, PlaceInterp, pc' \notin Dead
  PROVE  LoaderOK'
<1> DEFINE request == Request(".interp", "ProgramBits", FALSE,
                              StringLen[call.value], 1, InterpAlign)
           content == [interp |-> call.value]
           slot == SpareSlot(sections)
<1>1. /\ pc = "place_interp" /\ Place(request, content, "overlay_interp")
      /\ pc' # "failed"
  BY DEF PlaceInterp, Dead
<1>2. Phase = "place_interp" /\ InCalls
  BY <1>1 DEF Phase, NameSteps, InCalls, Finishing, Dead
<1>3. /\ Requestable(request) /\ request.kind = "ProgramBits"
      /\ request.size # 0 /\ request.align = 1
  <2>1. call.value \in Interps
    BY <1>1 DEF TInv, CallOK
  <2>2. StringLen[call.value] \in Nat \ {0}
    BY <2>1, StringLenAssumption
  <2>3. ".interp" \in Names
    BY PatchNamesAssumption DEF PatchNames
  <2>4. InterpAlign \in Word
    BY AlignsAssumption
  <2> QED
    BY <2>2, <2>3, <2>4 DEF Requestable, Request, SectionKinds, InterpAlign
<1>4. content # Garbage /\ "tags" \notin DOMAIN content
  <2>1. "garbage" \notin DOMAIN content /\ "tags" \notin DOMAIN content
    OBVIOUS
  <2> HIDE DEF content
  <2> QED
    BY <2>1, NotGarbage
<1> HIDE DEF request, content
<1>5. /\ MappedOK' /\ pc' = "overlay_interp" /\ OthersStay(slot)
      /\ slot \in DOMAIN sections' /\ sections'[slot].kind = "ProgramBits"
      /\ slot \in DOMAIN sections => sections[slot].kind = "Null"
      /\ SameKind(segments', segments, "Dynamic")
  BY <1>1, <1>2, <1>3, <1>4, PlaceLoads
<1> HIDE DEF slot
<1>6. Phase' = "overlay_interp"
  BY <1>5 DEF Phase, NameSteps
<1>7. /\ slot \notin Positions(sections, "Dynamic")
      /\ slot \notin Positions(sections, "StringTable")
      /\ slot \notin Positions(sections', "StringTable")
  BY <1>5 DEF Positions
<1>8. PairOK' /\ StringsOK' /\ SymbolsOK'
  BY <1>2, <1>5, <1>6, <1>7, LoaderFrame DEF Moving, LoaderOK
<1> QED
  BY <1>5, <1>8 DEF LoaderOK

\* A segment that is pushed leaves the LOAD segments and what they map.
LEMMA AppendedLayout ==
  ASSUME TInv, LoaderOK, InCalls, NEW g \in Segment,
         g.kind \in {"Interpreter", "Dynamic"},
         segments' = Append(segments, g)
  PROVE  /\ SectionsMapped(sections, segments') /\ LoadsFilled(segments')
         /\ LayoutLinked(sections, segments')
         /\ \A kind : Has(segments', segments, kind)
         /\ \A kind : kind # g.kind => SameKind(segments', segments, kind)
         /\ Positions(segments, g.kind) = {}
              => Positions(segments', g.kind) = {Len(segments')}
                 /\ segments'[Len(segments')] = g
<1>1. segments \in Seq(Segment)
  BY TableFacts
<1>2. /\ \A kind : Has(segments', segments, kind)
      /\ \A kind : kind # g.kind => SameKind(segments', segments, kind)
      /\ Positions(segments, g.kind) = {}
           => Positions(segments', g.kind) = {Len(segments')}
              /\ segments'[Len(segments')] = g
  BY <1>1, AppendSameKind
<1>3. 1 \in DOMAIN segments' /\ segments'[1] = segments[1] /\ segments' # << >>
  <2>1. 1 \in DOMAIN segments
    BY <1>1 DEF LoaderOK, MappedOK, LayoutLinked, HeadMaps
  <2> QED
    BY <1>1, <2>1, AppendPositions
<1>4. /\ SectionsMapped(sections, segments) /\ LoadsFilled(segments)
      /\ LayoutLinked(sections, segments)
  BY DEF LoaderOK, MappedOK
<1>5. /\ Has(segments', segments, "Loadable")
      /\ Has(segments, segments', "Loadable")
      /\ Has(segments, segments', "ProgramHeader")
      /\ Has(segments, segments', "Other")
      /\ Has(segments', segments, "Dynamic")
  BY <1>2 DEF SameKind
<1> QED
  BY <1>2, <1>3, <1>4, <1>5, SegmentsFrame

\* INTERP is pushed over the section.
LEMMA OverlayInterpLoads ==
  ASSUME TInv, FirstOK, LoaderOK, OverlayInterp
  PROVE  LoaderOK'
<1> DEFINE s == sections[call.slot]
           g == OverlaySegment(s, "Interpreter")
<1>1. /\ pc = "overlay_interp" /\ pc' = "ready"
      /\ segments' = Append(segments, g)
      /\ UNCHANGED <<sections, file>>
  BY DEF OverlayInterp, Return
<1>2. Phase = "overlay_interp" /\ Phase' = "ready" /\ InCalls
  BY <1>1 DEF Phase, NameSteps, InCalls, Finishing, Dead
<1>3. /\ Positions(segments, "Interpreter") = {}
      /\ InFile(s) /\ s.name = ".interp"
  BY <1>1, <1>2 DEF FirstOK, Dead, InterpOK
<1>4. call.slot \in DOMAIN sections /\ s \in Section /\ s.alloc
  BY <1>1, TableFacts DEF TInv, SlotOK
<1>5. g \in Segment /\ g.kind = "Interpreter" /\ Overlaid(g, s)
  <2>1. g \in Segment
    BY <1>4, OverlayIsSegment
  <2> QED
    BY <1>3, <1>4, <2>1 DEF OverlaySegment, Overlaid, Coincide
<1> HIDE DEF g
<1>6. /\ SectionsMapped(sections, segments') /\ LoadsFilled(segments')
      /\ LayoutLinked(sections, segments')
      /\ SameKind(segments', segments, "Dynamic")
      /\ Positions(segments', "Interpreter") = {Len(segments')}
      /\ segments'[Len(segments')] = g
  BY <1>1, <1>2, <1>3, <1>5, AppendedLayout
<1>7. InterpOverlaid(sections, segments')
  <2>1. call.slot \in InterpSections(sections)
    BY <1>3, <1>4 DEF InterpSections
  <2> QED
    BY <1>5, <1>6, <2>1 DEF InterpOverlaid
<1>8. DynamicOverlaid(sections, segments')
  BY <1>6, SegmentsFrame DEF SameKind, LoaderOK, MappedOK
<1>9. MappedOK'
  BY <1>1, <1>6, <1>7, <1>8 DEF MappedOK
<1>10. PairOK' /\ StringsOK' /\ SymbolsOK'
  BY <1>1, <1>2, <1>6, FileKept, LoaderStill DEF Moving
<1> QED
  BY <1>9, <1>10 DEF LoaderOK

(***************************************************************************)
(* get_name_offset.                                                        *)
(***************************************************************************)

\* Two string tables, one of them in memory, are not at one address.
LEMMA OneTableAt ==
  ASSUME TInv, FirstOK, LoaderOK, InCalls,
         NEW i \in Positions(sections, "StringTable"), sections[i].alloc,
         NEW k \in Positions(sections, "StringTable"),
         sections[i].address = sections[k].address
  PROVE  i = k
<1>1. GoodSections(sections) /\ GoodSegments(segments)
  BY TableFacts
<1>2. SectionsBehind(sections)
  BY DEF FirstOK, SectionsStored, SectionsBehind
<1>3. /\ StringTablesPlaced(sections)
      /\ SectionsMapped(sections, segments) /\ LoadsFilled(segments)
      /\ LoadsPlaced(segments)
  BY DEF LoaderOK, StringsOK, MappedOK, LayoutLinked
<1> QED
  BY <1>1, <1>2, <1>3, StringTableAt

LEMMA NameFoundLoads ==
  ASSUME TInv, FirstOK, LoaderOK, FindName, call.name \in CachedNames.strings
  PROVE  LoaderOK'
<1>1. /\ pc = "find_name" /\ pc' = call.then
      /\ UNCHANGED <<sections, segments, file, call>>
  BY DEF FindName, Continue
<1>2. /\ Phase = call.then /\ call.then \notin Dead \cup NameSteps
      /\ call.then \in {"place_interp", "place_dynstr", "place_dynamic"}
  BY <1>1, SearchPhase DEF NameSteps
<1>3. Phase' = Phase /\ InCalls
  BY <1>1, <1>2 DEF Phase, InCalls, Finishing, Dead
<1> QED
  BY <1>1, <1>2, <1>3, LoaderSame DEF Moving

\* The table of names goes, which is not the string table of the dynamic table.
LEMMA NameMissingLoads ==
  ASSUME TInv, FirstOK, LoaderOK, FindName,
         call.name \notin CachedNames.strings
  PROVE  LoaderOK'
<1> DEFINE index == header.section_names_index
<1>1. pc = "find_name" /\ segments' = segments
  BY DEF FindName
<1>2. /\ NamesOK /\ DynstrOK /\ BytesOK(file) /\ SectionsStored(file, sections)
      /\ InCalls
  BY <1>1 DEF FirstOK, Dead, InCalls, Finishing
<1>3. index \in Positions(sections, "StringTable")
  BY <1>1, <1>2 DEF NamesOK
<1>4. index \in DOMAIN sections /\ sections[index].kind = "StringTable"
  BY <1>3 DEF Positions
<1>5. Free(index) /\ pc' = "place_names" /\ call' = call
  BY <1>4 DEF FindName, Continue
<1>6. Phase = "place_interp" /\ call.then = "place_interp"
  <2>1. Phase \in WithoutTable => NamesForTags \subseteq CachedNames.strings
    BY <1>2 DEF DynstrOK
  <2> QED
    BY <1>1, <2>1, SearchPhase DEF NameSteps
<1>7. Phase' = "place_interp"
  BY <1>5, <1>6 DEF Phase, NameSteps
<1>8. ASSUME sections[index].alloc, Positions(sections, "Dynamic") # {}
      PROVE  sections[index].address # DynamicTags["StringTableAddress"]
  <2>1. PICK d \in DOMAIN sections :
               IsDynstr(sections, DynamicTags, d) /\ d < index
    BY <1>1, <1>2, <1>8 DEF DynstrOK, DynstrFound
  <2>2. d # index
    BY <1>4, <2>1, TableFacts
  <2> QED
    BY <1>2, <1>3, <1>8, <2>1, <2>2, OneTableAt DEF IsDynstr
<1> HIDE DEF index
<1>9. /\ DOMAIN sections' = DOMAIN sections
      /\ sections'[index] = NullSection
      /\ \A k \in DOMAIN sections : k # index => Kept(k) /\ SameBytes(k)
  BY <1>2, <1>4, <1>5, FreeFrame
<1>10. OthersStay(index)
  BY <1>9 DEF OthersStay
<1>11. /\ index \notin Positions(sections, "Dynamic")
       /\ index \notin Positions(sections', "StringTable")
       /\ sections'[index].kind = "Null"
  BY <1>4, <1>9 DEF Positions, NullSection
<1>12. PairOK' /\ StringsOK' /\ SymbolsOK'
  BY <1>1, <1>5, <1>6, <1>7, <1>8, <1>10, <1>11, SameItself, LoaderFrame
     DEF Moving, LoaderOK
<1>13. ~Lasting(sections[index]) /\ sections[index].name # ".interp"
  BY <1>2, <1>4 DEF Lasting, NamesOK, InterpSections
<1>14. \A k \in DOMAIN sections : k # index => sections'[k] = sections[k]
  BY <1>9 DEF Kept
<1>15. /\ SectionsMapped(sections, segments)
       /\ InterpOverlaid(sections, segments)
       /\ DynamicOverlaid(sections, segments)
       /\ LayoutLinked(sections, segments) /\ LoadsFilled(segments)
  BY <1>2, <1>6 DEF LoaderOK, MappedOK
<1>16. /\ SectionsMapped(sections', segments)
       /\ InterpOverlaid(sections', segments)
       /\ DynamicOverlaid(sections', segments)
       /\ LayoutLinked(sections', segments)
  BY <1>4, <1>9, <1>13, <1>14, <1>15, FreedLayout
<1>17. MappedOK'
  BY <1>1, <1>15, <1>16 DEF MappedOK
<1> QED
  BY <1>12, <1>17 DEF LoaderOK

LEMMA PlaceNamesLoads ==
  ASSUME TInv, FirstOK, LoaderOK, PlaceNames, pc' \notin Dead
  PROVE  LoaderOK'
<1> DEFINE request == Request(".shstrtab", "StringTable", FALSE, names.len, 1,
                              StringTableAlign)
           content == [strings |-> names.strings]
           slot == SpareSlot(sections)
<1>1. /\ pc = "place_names" /\ Place(request, content, call.then)
      /\ call' = call /\ pc' # "failed"
  BY DEF PlaceNames, Dead
<1>2. names.len # 0 /\ call.then = "place_interp"
  BY <1>1 DEF FirstOK, Dead, NamesOK
<1>3. Phase = "place_interp" /\ InCalls
  BY <1>1, <1>2 DEF Phase, NameSteps, InCalls, Finishing, Dead
<1>4. /\ Requestable(request) /\ request.kind = "StringTable"
      /\ request.size # 0 /\ request.align = 1
  <2>1. ".shstrtab" \in Names
    BY PatchNamesAssumption DEF PatchNames
  <2>2. StringTableAlign \in Word
    BY AlignsAssumption
  <2>3. names.len \in Nat
    BY DEF TInv, PlaceOK
  <2> QED
    BY <1>2, <2>1, <2>2, <2>3
       DEF Requestable, Request, SectionKinds, StringTableAlign
<1>5. content # Garbage /\ "tags" \notin DOMAIN content
  <2>1. "garbage" \notin DOMAIN content /\ "tags" \notin DOMAIN content
    OBVIOUS
  <2> HIDE DEF content
  <2> QED
    BY <2>1, NotGarbage
<1> HIDE DEF request, content
<1>6. /\ MappedOK' /\ pc' = "place_interp" /\ OthersStay(slot)
      /\ slot \in DOMAIN sections' /\ sections'[slot].kind = "StringTable"
      /\ sections'[slot].alloc /\ sections'[slot].size # 0
      /\ slot \in DOMAIN sections => sections[slot].kind = "Null"
      /\ SameKind(segments', segments, "Dynamic")
  BY <1>1, <1>2, <1>3, <1>4, <1>5, PlaceLoads
<1> HIDE DEF slot
<1>7. Phase' = "place_interp"
  BY <1>6 DEF Phase, NameSteps
<1>8. /\ slot \notin Positions(sections, "Dynamic")
      /\ slot \notin Positions(sections, "StringTable")
  BY <1>6 DEF Positions
<1>9. PairOK' /\ StringsOK' /\ SymbolsOK'
  BY <1>1, <1>3, <1>6, <1>7, <1>8, LoaderFrame DEF Moving, LoaderOK
<1> QED
  BY <1>6, <1>9 DEF LoaderOK

(***************************************************************************)
(* set_dynamic_tag.                                                        *)
(***************************************************************************)

\* The dynamic section goes; its strings and symbols stay.
LEMMA FreeDynamicLoads ==
  ASSUME TInv, FirstOK, LoaderOK, FreeDynamic
  PROVE  LoaderOK'
<1> DEFINE i == First(Positions(sections, "Dynamic"))
<1>1. pc = "free_dynamic" /\ segments' = segments
  BY DEF FreeDynamic
<1>2. Phase = "free_dynamic" /\ InCalls
  BY <1>1 DEF Phase, NameSteps, InCalls, Finishing, Dead
<1>3. /\ NamesOK /\ BytesOK(file) /\ SectionsStored(file, sections)
      /\ Single(Positions(sections, "Dynamic"))
  BY <1>1 DEF FirstOK, Dead, DynamicOK
<1>4. Positions(sections, "Dynamic") \in SUBSET DOMAIN sections
  BY DEF Positions
<1>5. CASE i = 0
  <2>1. pc' = "ready" /\ UNCHANGED <<sections, segments, file>>
    BY <1>1, <1>5 DEF FreeDynamic, Return
  <2>2. Phase' = "ready"
    BY <2>1 DEF Phase, NameSteps
  <2> QED
    BY <1>2, <2>1, <2>2, LoaderSame DEF Moving
<1>6. CASE i # 0
  <2>1. /\ Free(i) /\ pc' = "free_dynamic_segment"
        /\ call' = [call EXCEPT !.tags = DynamicTags,
                                !.address = sections[i].address]
    BY <1>6 DEF FreeDynamic
  <2>2. i \in Positions(sections, "Dynamic")
    BY <1>4, <1>6, TableFacts, FirstPosition
  <2>3. /\ i \in DOMAIN sections /\ sections[i].kind = "Dynamic"
        /\ sections[i].name # ".interp" /\ ~Lasting(sections[i])
    <3>1. i \in DOMAIN sections /\ sections[i].kind = "Dynamic"
      BY <2>2, DynamicIsLive
    <3>2. sections[i].name # ".interp"
      BY <1>3, <3>1 DEF NamesOK, InterpSections
    <3> QED
      BY <3>1, <3>2 DEF Lasting
  <2> HIDE DEF i
  <2>4. Phase' = "free_dynamic_segment"
    BY <2>1 DEF Phase, NameSteps
  <2>5. call'.tags = DynamicTags /\ call'.address = sections[i].address
    BY <2>1 DEF TInv, CallOK, NoCall
  <2>6. /\ DOMAIN sections' = DOMAIN sections
        /\ sections'[i] = NullSection
        /\ \A k \in DOMAIN sections : k # i => Kept(k) /\ SameBytes(k)
    BY <1>3, <2>1, <2>3, FreeFrame
  <2>7. OthersStay(i)
    BY <2>6 DEF OthersStay
  <2>8. /\ sections'[i].kind = "Null"
        /\ i \notin Positions(sections, "StringTable")
        /\ i \notin Positions(sections', "StringTable")
        /\ Positions(sections', "Dynamic") = {}
    BY <1>3, <2>2, <2>3, <2>6 DEF Positions, NullSection, Single, Kept
  <2>9. MappedOK'
    <3>1. \A k \in DOMAIN sections : k # i => sections'[k] = sections[k]
      BY <2>6 DEF Kept
    <3>2. /\ SectionsMapped(sections, segments)
          /\ InterpOverlaid(sections, segments)
          /\ DynamicOverlaid(sections, segments)
          /\ LayoutLinked(sections, segments) /\ LoadsFilled(segments)
      BY <1>2 DEF LoaderOK, MappedOK
    <3>3. /\ SectionsMapped(sections', segments)
          /\ InterpOverlaid(sections', segments)
          /\ DynamicOverlaid(sections', segments)
          /\ LayoutLinked(sections', segments)
      BY <2>3, <2>6, <3>1, <3>2, FreedLayout
    <3> QED
      BY <1>1, <3>2, <3>3 DEF MappedOK
  <2>10. PairOK'
    BY <2>4, <2>8 DEF PairOK
  <2>11. StringsOK'
    <3>1. StringTablesPlaced(sections')
      BY <2>7, <2>8, StringTablesKept DEF LoaderOK, StringsOK
    <3>2. StringsThere(file', sections', DynamicTags)
      BY <2>2, <2>7, <2>8, StringsThereKept DEF LoaderOK, StringsOK
    <3> QED
      BY <2>4, <2>5, <2>8, <3>1, <3>2 DEF StringsOK
  <2>12. SymbolsOK'
    <3>1. SymbolsAt(file, sections, sections[i].address)
      BY <1>2, <2>2 DEF LoaderOK, SymbolsOK, WithoutTable
    <3>2. /\ SymbolsStored(sections')
          /\ SymbolsAt(file', sections', sections[i].address)
      BY <2>7, <2>8, <3>1, SymbolsKept DEF LoaderOK, SymbolsOK
    <3> QED
      BY <2>4, <2>5, <3>2 DEF SymbolsOK, WithoutTable
  <2> QED
    BY <2>9, <2>10, <2>11, <2>12 DEF LoaderOK
<1> QED
  BY <1>5, <1>6

\* DYNAMIC goes.
LEMMA FreeDynamicSegmentLoads ==
  ASSUME TInv, FirstOK, LoaderOK, FreeDynamicSegment
  PROVE  LoaderOK'
<1> DEFINE j == First(Positions(segments, "Dynamic"))
<1>1. /\ pc = "free_dynamic_segment" /\ pc' = "find_dynstr"
      /\ UNCHANGED <<sections, call>>
  BY DEF FreeDynamicSegment, Continue
<1>2. /\ Phase = "free_dynamic_segment" /\ Phase' = "find_dynstr" /\ InCalls
  BY <1>1 DEF Phase, NameSteps, InCalls, Finishing, Dead
<1>3. /\ BytesOK(file) /\ Single(Positions(segments, "Dynamic"))
      /\ Positions(sections, "Dynamic") = {}
      /\ \A k \in Positions(segments, "Dynamic") :
           Missed(sections, segments[k].offset, segments[k].file_size)
  BY <1>1, <1>2 DEF FirstOK, Dead, DynamicOK, WithoutTable
<1>4. segments \in Seq(Segment)
      /\ Positions(segments, "Dynamic") \in SUBSET DOMAIN segments
  BY TableFacts DEF Positions
<1>5. 1 \in DOMAIN segments /\ segments[1].kind # "Dynamic"
  BY <1>2, <1>4 DEF LoaderOK, MappedOK, LayoutLinked, HeadMaps
<1>6. /\ \A i \in DOMAIN sections : Kept(i) /\ SameBytes(i)
      /\ \A kind : kind # "Dynamic" => SameKind(segments', segments, kind)
      /\ Positions(segments', "Dynamic") = {}
      /\ 1 \in DOMAIN segments' /\ segments'[1] = segments[1]
      /\ segments' # << >>
  <2>1. CASE j = 0
    <3>1. UNCHANGED <<segments, file>>
      BY <2>1 DEF FreeDynamicSegment
    <3>2. Positions(segments, "Dynamic") = {}
      BY <1>4, <2>1, FirstPosition
    <3> QED
      BY <1>1, <1>5, <3>1, <3>2, SameItself, FileKept
  <2>2. CASE j # 0
    <3>1. /\ segments' = Without(segments, {j})
          /\ file' = Zero(file, segments[j].offset, segments[j].file_size)
      BY <2>2 DEF FreeDynamicSegment
    <3>2. j \in Positions(segments, "Dynamic") /\ j \in DOMAIN segments
      BY <1>4, <2>2, FirstPosition
    <3> HIDE DEF j
    <3>3. file' = {b \in file : \A k \in {j} :
                     ~Overlaps(b, segments[k].offset, segments[k].file_size)}
      BY <3>1 DEF Zero
    <3>4. \A i \in DOMAIN sections : Kept(i) /\ SameBytes(i)
      <4>1. {j} \in SUBSET DOMAIN segments
        BY <3>2
      <4>2. \A k \in {j} : Missed(sections, segments[k].offset,
                                  segments[k].file_size)
        BY <1>3, <3>2
      <4> QED
        BY <1>1, <1>3, <3>3, <4>1, <4>2, ClearedKept
    <3>5. Positions(segments, "Dynamic") \subseteq {j}
      BY <1>3, <3>2 DEF Single
    <3>6. \A kind : kind # "Dynamic" => Positions(segments, kind) \cap {j} = {}
      BY <3>2 DEF Positions
    <3>7. 1 \notin {j}
      BY <1>5, <3>2 DEF Positions
    <3>8. 1 \in DOMAIN segments' /\ segments'[1] = segments[1]
      BY <1>4, <1>5, <3>1, <3>7, WithoutKeepsFirst
    <3>9. /\ \A kind : kind # "Dynamic" => SameKind(segments', segments, kind)
          /\ Positions(segments', "Dynamic") = {}
      BY <1>4, <3>1, <3>5, <3>6, WithoutSameKind
    <3> QED
      BY <3>4, <3>8, <3>9
  <2> QED
    BY <2>1, <2>2
<1>7. MappedOK'
  <2>1. /\ Has(segments', segments, "Loadable")
        /\ Has(segments, segments', "Loadable")
        /\ Has(segments, segments', "ProgramHeader")
        /\ Has(segments, segments', "Other")
        /\ Has(segments, segments', "Interpreter")
        /\ Has(segments, segments', "Dynamic")
    BY <1>6 DEF SameKind, Has
  <2>2. /\ SectionsMapped(sections, segments) /\ LoadsFilled(segments)
        /\ InterpOverlaid(sections, segments)
        /\ DynamicOverlaid(sections, segments)
        /\ LayoutLinked(sections, segments)
    BY <1>2 DEF LoaderOK, MappedOK
  <2>3. /\ SectionsMapped(sections, segments') /\ LoadsFilled(segments')
        /\ InterpOverlaid(sections, segments')
        /\ DynamicOverlaid(sections, segments')
        /\ LayoutLinked(sections, segments')
    BY <1>3, <1>6, <2>1, <2>2, SegmentsFrame
  <2> QED
    BY <1>1, <2>3 DEF MappedOK
<1>8. PairOK'
  BY <1>1, <1>3, <1>6 DEF PairOK
<1>9. OthersStay(0) /\ 0 \notin DOMAIN sections'
  BY <1>1, <1>6, TableFacts DEF OthersStay
<1>10. StringsOK'
  <2>1. StringsThere(file, sections, call.tags)
        /\ StringTablesPlaced(sections)
    BY <1>2 DEF LoaderOK, StringsOK
  <2>2. 0 \notin Positions(sections, "StringTable")
    BY <1>1, <1>9 DEF Positions
  <2>3. StringsThere(file', sections', call.tags)
    BY <1>9, <2>1, <2>2, StringsThereKept
  <2> QED
    BY <1>1, <1>2, <1>3, <2>1, <2>3 DEF StringsOK
<1>11. SymbolsOK'
  <2>1. SymbolsStored(sections) /\ SymbolsAt(file, sections, call.address)
    BY <1>2 DEF LoaderOK, SymbolsOK, WithoutTable
  <2>2. SymbolsStored(sections') /\ SymbolsAt(file', sections', call.address)
    BY <1>9, <2>1, SymbolsKept
  <2> QED
    BY <1>1, <1>2, <2>2 DEF SymbolsOK, WithoutTable
<1> QED
  BY <1>7, <1>8, <1>10, <1>11 DEF LoaderOK

\* get_string_offset finds the table that the entries mean.
LEMMA FindDynstrLoads ==
  ASSUME TInv, FirstOK, LoaderOK, FindDynstr
  PROVE  LoaderOK'
<1> DEFINE i == First(DynstrSections)
           strings == StringsIn(ReadSection(i))
<1>1. pc = "find_dynstr" /\ segments' = segments
  BY DEF FindDynstr
<1>2. Phase = "find_dynstr" /\ InCalls
  BY <1>1 DEF Phase, NameSteps, InCalls, Finishing, Dead
<1>3. /\ NamesOK /\ BytesOK(file) /\ SectionsStored(file, sections)
      /\ Positions(sections, "Dynamic") = {}
      /\ Positions(segments, "Dynamic") = {}
  BY <1>1, <1>2 DEF FirstOK, Dead, DynamicOK, WithoutTable
<1>4. /\ StringTablesPlaced(sections)
      /\ "StringTableAddress" \in DOMAIN call.tags
      /\ SymbolsStored(sections) /\ SymbolsAt(file, sections, call.address)
      /\ SectionsMapped(sections, segments)
      /\ InterpOverlaid(sections, segments)
      /\ DynamicOverlaid(sections, segments)
      /\ LayoutLinked(sections, segments) /\ LoadsFilled(segments)
  BY <1>2 DEF LoaderOK, StringsOK, SymbolsOK, WithoutTable, StringsThere,
              MappedOK
<1>5. PICK d \in Positions(sections, "StringTable") :
        /\ sections[d].alloc
        /\ sections[d].address = call.tags["StringTableAddress"]
        /\ Referenced(call.tags) \subseteq StringsIn(ReadSection(d))
  BY <1>2 DEF LoaderOK, StringsOK, StringsThere, ReadSection
<1>6. i = d
  <2>1. d \in DynstrSections /\ DynstrSections \in SUBSET DOMAIN sections
    BY <1>4, <1>5 DEF DynstrSections, Positions
  <2>2. i \in DynstrSections
    BY <2>1, TableFacts, FirstPosition
  <2> HIDE DEF i
  <2>3. i \in Positions(sections, "StringTable")
        /\ sections[i].address = sections[d].address
    BY <1>4, <1>5, <2>2 DEF DynstrSections
  <2> QED
    BY <1>2, <1>5, <2>3, OneTableAt
<1> HIDE DEF i
<1>7. /\ i \in DOMAIN sections /\ i # 0 /\ sections[i].kind = "StringTable"
      /\ sections[i].alloc /\ sections[i].size # 0
      /\ sections[i].size \in Nat
      /\ Referenced(call.tags) \subseteq strings
  <2>1. i \in DOMAIN sections /\ sections[i].kind = "StringTable"
    BY <1>5, <1>6 DEF Positions
  <2>2. sections[i].size \in Nat /\ i # 0
    BY <2>1, TableFacts, LiveSection
  <2>3. sections[i].size # 0
    BY <1>4, <1>5, <1>6 DEF StringTablesPlaced
  <2> QED
    BY <1>5, <1>6, <2>1, <2>2, <2>3
<1>8. First(DynstrSections) = i
  BY DEF i
<1> HIDE DEF strings
<1>9. CASE call.value \in strings
  <2>1. /\ pc' = "write_dynstr" /\ UNCHANGED <<sections, file>>
        /\ call' = [call EXCEPT !.strings = strings, !.slot = i]
    BY <1>7, <1>8, <1>9 DEF FindDynstr, strings
  <2>2. Phase' = "write_dynstr"
    BY <2>1 DEF Phase, NameSteps
  <2>3. /\ call'.slot = i /\ call'.strings = strings
        /\ call'.tags = call.tags /\ call'.value = call.value
        /\ call'.address = call.address
    BY <2>1 DEF TInv, CallOK, NoCall
  <2>4. MappedOK'
    BY <1>1, <1>4, <2>1 DEF MappedOK
  <2>5. PairOK'
    BY <1>1, <1>3, <2>1 DEF PairOK
  <2>6. StringsOK'
    BY <1>3, <1>4, <1>7, <1>9, <2>1, <2>2, <2>3 DEF StringsOK
  <2>7. SymbolsOK'
    BY <1>4, <2>1, <2>2, <2>3 DEF SymbolsOK, WithoutTable
  <2> QED
    BY <2>4, <2>5, <2>6, <2>7 DEF LoaderOK
<1>10. CASE call.value \notin strings
  <2>1. /\ Free(i) /\ pc' = "find_name"
        /\ call' = [call EXCEPT
                      !.strings = strings \cup {call.value},
                      !.len = sections[i].size + StringLen[call.value],
                      !.name = ".dynstr", !.then = "place_dynstr"]
    BY <1>7, <1>8, <1>10 DEF FindDynstr, strings
  <2>2. /\ call'.tags = call.tags /\ call'.value = call.value
        /\ call'.strings = strings \cup {call.value}
        /\ call'.len = sections[i].size + StringLen[call.value]
        /\ call'.then = "place_dynstr" /\ call'.address = call.address
    BY <2>1 DEF TInv, CallOK, NoCall
  <2>3. Phase' = "place_dynstr"
    BY <2>1, <2>2 DEF Phase, NameSteps
  <2>4. call'.len # 0
    <3>1. call.value \in Strings
      BY <1>1 DEF TInv, CallOK, TagSteps
    <3>2. StringLen[call.value] \in Nat \ {0}
      BY <3>1, StringLenAssumption
    <3> QED
      BY <1>7, <2>2, <3>2
  <2>5. /\ DOMAIN sections' = DOMAIN sections
        /\ sections'[i] = NullSection
        /\ \A k \in DOMAIN sections : k # i => Kept(k) /\ SameBytes(k)
    BY <1>3, <1>7, <2>1, FreeFrame
  <2>6. OthersStay(i)
    BY <2>5 DEF OthersStay
  <2>7. /\ sections'[i].kind = "Null"
        /\ i \notin Positions(sections', "StringTable")
        /\ Positions(sections', "Dynamic") = {}
    BY <1>3, <2>5 DEF Positions, NullSection, Kept
  <2>8. MappedOK'
    <3>1. \A k \in DOMAIN sections : k # i => sections'[k] = sections[k]
      BY <2>5 DEF Kept
    <3>2. sections[i].name # ".interp" /\ ~Lasting(sections[i])
      BY <1>3, <1>7 DEF NamesOK, InterpSections, Lasting
    <3>3. /\ SectionsMapped(sections', segments)
          /\ InterpOverlaid(sections', segments)
          /\ DynamicOverlaid(sections', segments)
          /\ LayoutLinked(sections', segments)
      BY <1>4, <1>7, <2>5, <3>1, <3>2, FreedLayout
    <3> QED
      BY <1>1, <1>4, <3>3 DEF MappedOK
  <2>9. PairOK'
    BY <1>1, <1>3, <2>7 DEF PairOK
  <2>10. StringsOK'
    <3>1. StringTablesPlaced(sections')
      BY <1>4, <2>6, <2>7, StringTablesKept
    <3>2. Referenced(call'.tags) \cup {call'.value} \subseteq call'.strings
      BY <1>7, <2>2
    <3> QED
      BY <2>3, <2>4, <2>7, <3>1, <3>2 DEF StringsOK
  <2>11. SymbolsOK'
    <3>1. /\ SymbolsStored(sections')
          /\ SymbolsAt(file', sections', call.address)
      BY <1>4, <2>6, <2>7, SymbolsKept
    <3> QED
      BY <2>2, <2>3, <3>1 DEF SymbolsOK, WithoutTable
  <2> QED
    BY <2>8, <2>9, <2>10, <2>11 DEF LoaderOK
<1> QED
  BY <1>9, <1>10

\* The longer string table is placed.
LEMMA PlaceDynstrLoads ==
  ASSUME TInv, FirstOK, LoaderOK, PlaceDynstr, pc' \notin Dead
  PROVE  LoaderOK'
<1> DEFINE request == Request(".dynstr", "StringTable", FALSE, call.len, 1,
                              StringTableAlign)
           content == [strings |-> call.strings]
           slot == SpareSlot(sections)
<1>1. /\ pc = "place_dynstr" /\ Place(request, content, "write_dynstr")
      /\ call' = [call EXCEPT !.slot = SpareSlot(sections)]
      /\ pc' # "failed"
  BY DEF PlaceDynstr, Dead
<1>2. Phase = "place_dynstr" /\ InCalls
  BY <1>1 DEF Phase, NameSteps, InCalls, Finishing, Dead
<1>3. /\ Positions(sections, "Dynamic") = {}
      /\ Positions(segments, "Dynamic") = {}
  BY <1>1, <1>2 DEF FirstOK, Dead, DynamicOK, WithoutTable
<1>4. /\ StringTablesPlaced(sections) /\ call.len # 0
      /\ Referenced(call.tags) \cup {call.value} \subseteq call.strings
      /\ SymbolsStored(sections) /\ SymbolsAt(file, sections, call.address)
  BY <1>2 DEF LoaderOK, StringsOK, SymbolsOK, WithoutTable
<1>5. /\ Requestable(request) /\ request.kind = "StringTable"
      /\ request.size # 0 /\ request.align = 1
  <2>1. ".dynstr" \in Names
    BY PatchNamesAssumption DEF PatchNames
  <2>2. StringTableAlign \in Word
    BY AlignsAssumption
  <2>3. call.len \in Nat
    BY DEF TInv, CallOK
  <2> QED
    BY <1>4, <2>1, <2>2, <2>3
       DEF Requestable, Request, SectionKinds, StringTableAlign
<1>6. content # Garbage /\ "tags" \notin DOMAIN content
  <2>1. "garbage" \notin DOMAIN content /\ "tags" \notin DOMAIN content
    OBVIOUS
  <2> HIDE DEF content
  <2> QED
    BY <2>1, NotGarbage
<1>7. /\ call'.slot = slot /\ call'.tags = call.tags
      /\ call'.value = call.value /\ call'.strings = call.strings
      /\ call'.address = call.address
  BY <1>1 DEF TInv, CallOK, NoCall
<1> HIDE DEF request, content
<1>8. /\ MappedOK' /\ pc' = "write_dynstr" /\ OthersStay(slot)
      /\ slot \in DOMAIN sections' /\ sections'[slot].kind = "StringTable"
      /\ sections'[slot].alloc /\ sections'[slot].size # 0
      /\ slot \in DOMAIN sections => sections[slot].kind = "Null"
      /\ SameKind(segments', segments, "Dynamic")
  BY <1>1, <1>2, <1>5, <1>6, PlaceLoads
<1> HIDE DEF slot
<1>9. Phase' = "write_dynstr"
  BY <1>8 DEF Phase, NameSteps
<1>10. /\ Positions(sections', "Dynamic") = {}
       /\ Positions(segments', "Dynamic") = {}
  BY <1>3, <1>8 DEF Positions, OthersStay, Kept, NullSection, SameKind, Has
<1>11. PairOK'
  BY <1>10 DEF PairOK
<1>12. StringsOK'
  <2>1. StringTablesPlaced(sections')
    BY <1>4, <1>8, StringTablesKept
  <2> QED
    BY <1>4, <1>7, <1>8, <1>9, <1>10, <2>1 DEF StringsOK
<1>13. SymbolsOK'
  <2>1. /\ SymbolsStored(sections')
        /\ SymbolsAt(file', sections', call.address)
    BY <1>4, <1>8, SymbolsKept
  <2> QED
    BY <1>7, <1>9, <2>1 DEF SymbolsOK, WithoutTable
<1> QED
  BY <1>8, <1>11, <1>12, <1>13 DEF LoaderOK

\* What the updated entries refer to, and the string table they say.
LEMMA UpdatedReferences ==
  ASSUME OrdinaryTags, NEW tags, NEW s, NEW tag \in Tags, NEW value
  PROVE  LET new == WithTag(WithStringTable(WithoutTags(tags, SearchPaths), s),
                            tag, value)
         IN  /\ {"StringTableAddress", "StringTableSize"} \subseteq DOMAIN new
             /\ new["StringTableAddress"] = s.address
             /\ new["StringTableSize"] = s.size
             /\ Referenced(new) \subseteq Referenced(tags) \cup {value}
<1> DEFINE kept == WithoutTags(tags, SearchPaths)
           mid == WithStringTable(kept, s)
           new == WithTag(mid, tag, value)
           T == {"StringTableAddress", "StringTableSize"}
<1>1. /\ DOMAIN kept = DOMAIN tags \ SearchPaths
      /\ \A t \in DOMAIN kept : kept[t] = tags[t]
  BY DEF WithoutTags
<1> HIDE DEF kept
<1>2. /\ DOMAIN mid = DOMAIN kept \cup T
      /\ mid["StringTableAddress"] = s.address
      /\ mid["StringTableSize"] = s.size
      /\ \A t \in DOMAIN kept : t \notin T => mid[t] = kept[t]
  BY DEF WithStringTable, WithTag
<1> HIDE DEF mid
<1>3. /\ DOMAIN new = DOMAIN mid \cup {tag}
      /\ new[tag] = value
      /\ \A t \in DOMAIN mid : t # tag => new[t] = mid[t]
  BY DEF WithTag
<1> HIDE DEF new
<1>4. tag \notin T
  BY DEF OrdinaryTags
<1>5. /\ T \subseteq DOMAIN new
      /\ new["StringTableAddress"] = s.address
      /\ new["StringTableSize"] = s.size
  BY <1>2, <1>3, <1>4
<1>6. ASSUME NEW r \in Referenced(new)
      PROVE  r \in Referenced(tags) \cup {value}
  <2>1. PICK t \in DOMAIN new \ T : r = new[t]
    BY DEF Referenced
  <2>2. CASE t = tag
    BY <1>3, <2>1, <2>2
  <2>3. CASE t # tag
    <3>1. t \in DOMAIN tags \ T /\ r = tags[t]
      BY <1>1, <1>2, <1>3, <2>1, <2>3
    <3> QED
      BY <3>1 DEF Referenced
  <2> QED
    BY <2>2, <2>3
<1> QED
  BY <1>5, <1>6 DEF new, mid, kept

\* The entries learn where the string table is.
LEMMA WriteDynstrLoads ==
  ASSUME OrdinaryTags, TInv, FirstOK, LoaderOK, WriteDynstr
  PROVE  LoaderOK'
<1> DEFINE i == call.slot
           content == [strings |-> call.strings]
           tags == WithTag(WithStringTable(WithoutTags(call.tags, SearchPaths),
                                           sections[i]),
                           call.tag, call.value)
<1>1. /\ pc = "write_dynstr" /\ pc' = "find_name"
      /\ file' = Write(file, sections[i].offset, sections[i].size, content)
      /\ call' = [call EXCEPT !.tags = tags,
                              !.name = ".dynamic", !.then = "place_dynamic"]
      /\ UNCHANGED <<sections, segments>>
  BY DEF WriteDynstr, elf
<1>2. Phase = "write_dynstr" /\ InCalls
  BY <1>1 DEF Phase, NameSteps, InCalls, Finishing, Dead
<1>3. /\ BytesOK(file) /\ SectionsStored(file, sections)
      /\ Positions(sections, "Dynamic") = {}
      /\ Positions(segments, "Dynamic") = {}
      /\ i \in Positions(sections, "StringTable")
  BY <1>1, <1>2 DEF FirstOK, Dead, DynamicOK, DynstrOK, WithoutTable
<1>4. /\ StringTablesPlaced(sections) /\ sections[i].alloc
      /\ Referenced(call.tags) \cup {call.value} \subseteq call.strings
      /\ SymbolsStored(sections) /\ SymbolsAt(file, sections, call.address)
  BY <1>2 DEF LoaderOK, StringsOK, SymbolsOK, WithoutTable
<1>5. /\ i \in DOMAIN sections /\ sections[i].kind = "StringTable"
      /\ sections[i].size \in Nat /\ sections[i].size # 0
  <2>1. i \in DOMAIN sections /\ sections[i].kind = "StringTable"
    BY <1>3 DEF Positions
  <2>2. sections[i].size \in Nat
    BY <2>1, TableFacts, LiveSection
  <2> QED
    BY <1>3, <1>4, <2>1, <2>2 DEF StringTablesPlaced
<1>6. call.tag \in Tags
  BY <1>1 DEF TInv, CallOK, TagSteps
<1>7. /\ {"StringTableAddress", "StringTableSize"} \subseteq DOMAIN tags
      /\ tags["StringTableAddress"] = sections[i].address
      /\ tags["StringTableSize"] = sections[i].size
      /\ Referenced(tags) \subseteq Referenced(call.tags) \cup {call.value}
  BY <1>6, UpdatedReferences
<1>8. content # Garbage /\ StringsIn(content) = call.strings
  <2>1. "garbage" \notin DOMAIN content /\ "strings" \in DOMAIN content
        /\ content.strings = call.strings
    OBVIOUS
  <2> HIDE DEF content
  <2> QED
    BY <2>1, NotGarbage DEF StringsIn
<1> HIDE DEF tags, content
<1>9. /\ call'.tags = tags /\ call'.then = "place_dynamic"
      /\ call'.address = call.address
  BY <1>1 DEF TInv, CallOK, NoCall
<1> HIDE DEF i
<1>10. Phase' = "place_dynamic"
  BY <1>1, <1>9 DEF Phase, NameSteps
<1>11. /\ \A k \in DOMAIN sections : k # i => Kept(k) /\ SameBytes(k)
       /\ Read(file', sections[i].offset, sections[i].size) = content
  <2>1. sections[i].size <= sections[i].size
    BY <1>5
  <2> QED
    BY <1>1, <1>3, <1>5, <1>8, <2>1, OverwriteFrame
<1>12. OthersStay(i)
  BY <1>1, <1>11 DEF OthersStay
<1>13. MappedOK'
  BY <1>1, <1>2 DEF LoaderOK, MappedOK
<1>14. PairOK'
  BY <1>1, <1>3 DEF PairOK
<1>15. StringsOK'
  <2>1. StringsThere(file', sections, tags)
    BY <1>3, <1>4, <1>7, <1>8, <1>11 DEF StringsThere
  <2> QED
    BY <1>1, <1>3, <1>4, <1>9, <1>10, <2>1 DEF StringsOK
<1>16. SymbolsOK'
  <2>1. /\ SymbolsStored(sections')
        /\ SymbolsAt(file', sections', call.address)
    BY <1>1, <1>4, <1>5, <1>12, SymbolsKept
  <2> QED
    BY <1>9, <1>10, <2>1 DEF SymbolsOK, WithoutTable
<1> QED
  BY <1>13, <1>14, <1>15, <1>16 DEF LoaderOK

\* The dynamic table is placed, with the entries that have been updated.
LEMMA PlaceDynamicLoads ==
  ASSUME LinkedFiles, TInv, TInv', FirstOK, LoaderOK, PlaceDynamic,
         pc' \notin Dead
  PROVE  LoaderOK'
<1> DEFINE request == Request(".dynamic", "Dynamic", TRUE, TableLen(call.tags),
                              call.slot, DynamicAlign)
           content == [tags |-> call.tags]
           slot == SpareSlot(sections)
<1>1. /\ pc = "place_dynamic" /\ Place(request, content, "overlay_dynamic")
      /\ call' = [call EXCEPT !.slot = SpareSlot(sections)]
      /\ pc' # "failed"
  BY DEF PlaceDynamic, Dead
<1>2. Phase = "place_dynamic" /\ InCalls
  BY <1>1 DEF Phase, NameSteps, InCalls, Finishing, Dead
<1>3. /\ Positions(sections, "Dynamic") = {}
      /\ Positions(segments, "Dynamic") = {}
  BY <1>1, <1>2 DEF FirstOK, Dead, DynamicOK, WithoutTable
<1>4. /\ StringTablesPlaced(sections)
      /\ StringsThere(file, sections, call.tags)
      /\ SymbolsStored(sections) /\ SymbolsAt(file, sections, call.address)
  BY <1>2 DEF LoaderOK, StringsOK, SymbolsOK, WithoutTable
<1>5. Cardinality(DOMAIN call.tags) \in Nat /\ IsFiniteSet(DOMAIN call.tags)
  BY FS_CardinalityType DEF TInv, CallOK
<1>6. TableLen(call.tags) \in Nat /\ TableLen(call.tags) >= DynamicLen
      /\ TableLen(call.tags) # 0
  BY <1>5 DEF TableLen, DynamicLen
<1>7. /\ Requestable(request) /\ request.kind = "Dynamic"
      /\ request.align = DynamicAlign
  <2>1. ".dynamic" \in Names
    BY PatchNamesAssumption DEF PatchNames
  <2>2. DynamicAlign \in Word
    BY AlignsAssumption
  <2>3. call.slot \in Nat
    BY DEF TInv, CallOK
  <2> QED
    BY <1>6, <2>1, <2>2, <2>3 DEF Requestable, Request, SectionKinds
<1>8. /\ request.size # 0 /\ request.size >= DynamicLen
      /\ TableFits(content.tags, request.size)
  BY <1>5, <1>6 DEF Request, TableFits
<1>9. content # Garbage /\ TagsIn(content) = call.tags
  <2>1. "garbage" \notin DOMAIN content /\ "tags" \in DOMAIN content
        /\ content.tags = call.tags
    OBVIOUS
  <2> HIDE DEF content
  <2> QED
    BY <2>1, NotGarbage DEF TagsIn
<1>10. call'.slot = slot /\ call'.address = call.address
  BY <1>1 DEF TInv, CallOK, NoCall
<1> HIDE DEF request, content
<1>11. PageSize % request.align = 0
  BY <1>7 DEF LinkedFiles
<1>12. /\ MappedOK' /\ pc' = "overlay_dynamic" /\ OthersStay(slot)
       /\ slot \in Nat
       /\ slot \in DOMAIN sections' /\ sections'[slot].kind = "Dynamic"
       /\ sections'[slot].alloc
       /\ Read(file', sections'[slot].offset, sections'[slot].size) = content
       /\ slot \in DOMAIN sections => sections[slot].kind = "Null"
       /\ SameKind(segments', segments, "Dynamic")
  BY <1>1, <1>2, <1>3, <1>7, <1>8, <1>9, <1>11, PlaceLoads
<1> HIDE DEF slot
<1>13. Phase' = "overlay_dynamic"
  BY <1>12 DEF Phase, NameSteps
<1>14. /\ Positions(sections', "Dynamic") = {slot}
       /\ Positions(segments', "Dynamic") = {}
       /\ slot \notin Positions(sections, "StringTable")
       /\ slot \notin Positions(sections', "StringTable")
  BY <1>3, <1>12 DEF Positions, OthersStay, Kept, NullSection, SameKind, Has
<1>15. DynamicTags' = call.tags
  <2>1. sections' \in Seq(Section)
    BY DEF TInv, TablesOK, GoodSections
  <2>2. First(Positions(sections', "Dynamic")) = slot
    <3>1. Positions(sections', "Dynamic") \in SUBSET DOMAIN sections'
      BY DEF Positions
    <3>2. Single(Positions(sections', "Dynamic"))
          /\ slot \in Positions(sections', "Dynamic")
      BY <1>14 DEF Single
    <3> QED
      BY <2>1, <3>1, <3>2, FirstOfSingle
  <2>3. slot # 0
    BY <1>12, <2>1
  <2> QED
    BY <1>9, <1>12, <2>2, <2>3 DEF DynamicTags, ReadSection
<1>16. PairOK'
  BY <1>12, <1>13, <1>14 DEF PairOK
<1>17. StringsOK'
  <2>1. StringTablesPlaced(sections')
    BY <1>4, <1>12, <1>14, StringTablesKept
  <2>2. StringsThere(file', sections', call.tags)
    BY <1>4, <1>12, <1>14, StringsThereKept
  <2> QED
    BY <1>13, <1>15, <2>1, <2>2 DEF StringsOK
<1>18. SymbolsOK'
  <2>1. /\ SymbolsStored(sections')
        /\ SymbolsAt(file', sections', call.address)
    BY <1>4, <1>12, SymbolsKept
  <2> QED
    BY <1>10, <1>13, <2>1 DEF SymbolsOK
<1> QED
  BY <1>12, <1>16, <1>17, <1>18 DEF LoaderOK

\* DYNAMIC is pushed over the section.
LEMMA OverlayDynamicLoads ==
  ASSUME TInv, FirstOK, LoaderOK, OverlayDynamic
  PROVE  LoaderOK'
<1> DEFINE i == call.slot
           s == sections[i]
           g == OverlaySegment(s, "Dynamic")
<1>1. /\ pc = "overlay_dynamic" /\ pc' = "move_symbols"
      /\ segments' = Append(segments, g)
      /\ UNCHANGED <<sections, file, call>>
  BY DEF OverlayDynamic, Continue
<1>2. Phase = "overlay_dynamic" /\ Phase' = "move_symbols" /\ InCalls
  BY <1>1 DEF Phase, NameSteps, InCalls, Finishing, Dead
<1>3. /\ Positions(segments, "Dynamic") = {}
      /\ Single(Positions(sections, "Dynamic"))
      /\ i \in Positions(sections, "Dynamic")
  BY <1>1, <1>2 DEF FirstOK, Dead, DynamicOK
<1>4. /\ i \in DOMAIN sections /\ s \in Section /\ InFile(s)
      /\ segments \in Seq(Segment)
  BY <1>3, TableFacts, DynamicIsLive
<1>5. s.alloc
  BY <1>3 DEF LoaderOK, PairOK
<1>6. g \in Segment /\ g.kind = "Dynamic" /\ Overlaid(g, s)
  <2>1. g \in Segment
    BY <1>4, OverlayIsSegment
  <2> QED
    BY <1>4, <1>5, <2>1 DEF OverlaySegment, Overlaid, Coincide
<1> HIDE DEF g
<1>7. /\ SectionsMapped(sections, segments') /\ LoadsFilled(segments')
      /\ LayoutLinked(sections, segments')
      /\ SameKind(segments', segments, "Interpreter")
      /\ Positions(segments', "Dynamic") = {Len(segments')}
      /\ segments'[Len(segments')] = g
  BY <1>1, <1>2, <1>3, <1>6, AppendedLayout
<1>8. InterpOverlaid(sections, segments')
  <2>1. InterpOverlaid(sections, segments)
        /\ Has(segments, segments', "Interpreter")
    BY <1>2, <1>7 DEF LoaderOK, MappedOK, SameKind
  <2> QED
    BY <2>1, SegmentsFrame
<1>9. DynamicOverlaid(sections, segments')
  <2> SUFFICES ASSUME NEW k \in Positions(sections, "Dynamic")
               PROVE  Overlaid(g, sections[k])
    BY <1>7 DEF DynamicOverlaid
  <2>1. k = i
    BY <1>3 DEF Single
  <2> QED
    BY <1>6, <2>1
<1>10. MappedOK'
  BY <1>1, <1>7, <1>8, <1>9 DEF MappedOK
<1>11. PairOK'
  BY <1>1, <1>3, <1>7 DEF LoaderOK, PairOK
<1>12. StringsOK'
  <2>1. DynamicTags' = DynamicTags
    BY <1>1 DEF DynamicTags, ReadSection
  <2>2. StringTablesPlaced(sections)
        /\ StringsThere(file, sections, DynamicTags)
    BY <1>3 DEF LoaderOK, StringsOK
  <2> QED
    BY <1>1, <1>2, <2>1, <2>2 DEF StringsOK
<1>13. SymbolsOK'
  <2>1. SymbolsStored(sections) /\ SymbolsAt(file, sections, call.address)
    BY <1>2 DEF LoaderOK, SymbolsOK
  <2> QED
    BY <1>1, <1>2, <1>3, <2>1 DEF SymbolsOK
<1> QED
  BY <1>10, <1>11, <1>12, <1>13 DEF LoaderOK

\* The symbols of the dynamic table get its address.
LEMMA MoveSymbolsLoads ==
  ASSUME TInv, FirstOK, LoaderOK, MoveSymbols
  PROVE  LoaderOK'
<1> DEFINE old == {b \in file :
                     /\ \E i \in SymbolTables :
                          b \in Stored(file, sections[i].offset,
                                       sections[i].size)
                     /\ b.content = [symbol |-> call.address]}
           to == sections[call.slot].address
<1>1. /\ pc = "move_symbols" /\ pc' = "ready"
      /\ UNCHANGED <<sections, segments>>
  BY DEF MoveSymbols, Return, elf
<1>2. Phase = "move_symbols" /\ Phase' = "ready" /\ InCalls
  BY <1>1 DEF Phase, NameSteps, InCalls, Finishing, Dead
<1>3. BytesOK(file) /\ Single(Positions(sections, "Dynamic"))
  BY <1>1 DEF FirstOK, Dead, DynamicOK
<1>4. file' = {Moved(b, old, to) : b \in file}
  <2> DEFINE moved(b) == IF /\ \E i \in SymbolTables :
                                 b \in Stored(file, sections[i].offset,
                                              sections[i].size)
                            /\ b.content = [symbol |-> call.address]
                         THEN [b EXCEPT !.content = [symbol |-> to]] ELSE b
  <2>1. file' = {moved(b) : b \in file}
    BY DEF MoveSymbols
  <2>2. \A b \in file : moved(b) = Moved(b, old, to)
    BY DEF Moved
  <2> HIDE DEF moved, old, to
  <2> QED
    BY <2>1, <2>2
<1>5. \A b \in old : DOMAIN b.content = {"symbol"}
  OBVIOUS
<1>6. \A b \in file : \A i \in SymbolTables :
        b \in Stored(file, sections[i].offset, sections[i].size)
          /\ b.content = [symbol |-> call.address] => b \in old
  OBVIOUS
<1> HIDE DEF old, to
<1>7. \A offset \in Nat, len \in Nat \ {0} : Alike(file, file', offset, len)
  <2>1. /\ \A b \in file : Moved(b, old, to) \in file'
        /\ \A c \in file' : \E b \in file : c = Moved(b, old, to)
    BY <1>4
  <2> QED
    BY <1>3, <1>5, <2>1, MovedBlocks DEF TInv
<1>8. \A i \in DOMAIN sections : Kept(i)
  <2> SUFFICES ASSUME NEW i \in DOMAIN sections, InFile(sections[i])
               PROVE  Alike(file, file', sections[i].offset, sections[i].size)
    BY <1>1 DEF Kept
  <2>1. sections[i].offset \in Nat /\ sections[i].size \in Nat \ {0}
    BY TableFacts, LiveSection
  <2> QED
    BY <1>7, <2>1
<1>9. DynamicTags' = DynamicTags
  BY <1>1, <1>8, DynamicKept DEF Positions
<1>10. MappedOK'
  BY <1>1, <1>2 DEF LoaderOK, MappedOK
<1>11. PairOK'
  BY <1>1, <1>2 DEF LoaderOK, PairOK
<1>12. StringsOK'
  <2>1. StringTablesPlaced(sections)
    BY DEF LoaderOK, StringsOK
  <2>2. ASSUME Positions(sections, "Dynamic") # {}
        PROVE  StringsThere(file', sections, DynamicTags)
    <3>1. StringsThere(file, sections, DynamicTags)
      BY <2>2 DEF LoaderOK, StringsOK
    <3>2. PICK d \in Positions(sections, "StringTable") :
            /\ sections[d].alloc
            /\ sections[d].address = DynamicTags["StringTableAddress"]
            /\ sections[d].size = DynamicTags["StringTableSize"]
            /\ Referenced(DynamicTags)
                 \subseteq StringsIn(Read(file, sections[d].offset,
                                          sections[d].size))
      BY <3>1 DEF StringsThere
    <3>3. d \in DOMAIN sections /\ sections[d].kind = "StringTable"
          /\ sections[d].size # 0
      BY <2>1, <3>2 DEF Positions, StringTablesPlaced
    <3>4. InFile(sections[d])
      BY <3>3, TableFacts, LiveSection
    <3>5. StringsIn(Read(file', sections[d].offset, sections[d].size))
            = StringsIn(Read(file, sections[d].offset, sections[d].size))
      BY <1>8, <3>3, <3>4 DEF Kept, Alike
    <3> QED
      BY <3>1, <3>2, <3>5 DEF StringsThere
  <2> QED
    BY <1>1, <1>2, <1>9, <2>1, <2>2 DEF StringsOK
<1>13. SymbolsOK'
  <2>1. /\ SymbolsStored(sections) /\ SymbolsAt(file, sections, call.address)
        /\ call.slot \in Positions(sections, "Dynamic")
    BY <1>2 DEF LoaderOK, SymbolsOK
  <2>2. ASSUME NEW k \in SymbolsIn(sections)
        PROVE  Read(file', sections[k].offset, sections[k].size)
                 = [symbol |-> to]
    <3> DEFINE offset == sections[k].offset
               len == sections[k].size
               S == Stored(file, offset, len)
               R == Stored(file', offset, len)
    <3>1. len # 0 /\ Read(file, offset, len) = [symbol |-> call.address]
      BY <2>1 DEF SymbolsStored, SymbolsAt
    <3>2. [symbol |-> call.address] # Garbage
      <4> DEFINE c == [symbol |-> call.address]
      <4>1. "garbage" \notin DOMAIN c
        OBVIOUS
      <4> HIDE DEF c
      <4>2. c # Garbage
        BY <4>1, NotGarbage
      <4> QED
        BY <4>2 DEF c
    <3>3. S # {}
      BY <3>1, <3>2 DEF Read
    <3>4. PICK b \in S : TRUE
      BY <3>3
    <3>5. b \in file /\ S = {b}
      BY <1>3, <3>1 DEF Stored, BytesOK
    <3>6. b.content = [symbol |-> call.address]
      BY <3>1, <3>5 DEF Read
    <3>7. b \in old
      <4>1. k \in SymbolTables
        BY DEF SymbolsIn, SymbolTables
      <4> QED
        BY <1>6, <3>5, <3>6, <4>1
    <3>8. \A c \in file : /\ Moved(c, old, to).offset = c.offset
                          /\ Moved(c, old, to).len = c.len
      <4> SUFFICES ASSUME NEW c \in file
                   PROVE  /\ Moved(c, old, to).offset = c.offset
                          /\ Moved(c, old, to).len = c.len
        OBVIOUS
      <4>1. c = Block(c.offset, c.len, c.content)
        BY DEF TInv, WellStored
      <4> QED
        BY <4>1 DEF Moved, Block
    <3>9. R = {Moved(c, old, to) : c \in S}
      BY <1>4, <3>8 DEF Stored
    <3>10. R = {Moved(b, old, to)}
      BY <3>5, <3>9
    <3>11. Moved(b, old, to).content = [symbol |-> to]
      <4>1. b = Block(b.offset, b.len, b.content)
        BY <3>5 DEF TInv, WellStored
      <4> QED
        BY <3>7, <4>1 DEF Moved, Block
    <3> QED
      BY <3>10, <3>11 DEF Read
  <2>3. \A i \in Positions(sections, "Dynamic") : sections[i].address = to
    BY <1>3, <2>1 DEF Single, to
  <2>4. \A i \in Positions(sections, "Dynamic") :
          SymbolsAt(file', sections, sections[i].address)
    BY <2>2, <2>3 DEF SymbolsAt
  <2> QED
    BY <1>1, <1>2, <2>1, <2>4 DEF SymbolsOK, WithoutTable
<1> QED
  BY <1>10, <1>11, <1>12, <1>13 DEF LoaderOK

\* remove_dynamic_tag: the table shrinks where it is, and DYNAMIC with it.
LEMMA ShrinkDynamicLoads ==
  ASSUME OrdinaryTags, TInv, TInv', FirstOK, LoaderOK, ShrinkDynamic
  PROVE  LoaderOK'
<1> DEFINE i == First(Positions(sections, "Dynamic"))
           j == First(Positions(segments, "Dynamic"))
           tags == WithoutTags(DynamicTags, {call.tag})
           len == TableLen(tags)
           content == [tags |-> tags]
<1>1. pc = "shrink_dynamic" /\ pc' = "ready"
  BY DEF ShrinkDynamic, Return
<1>2. Phase = "shrink_dynamic" /\ Phase' = "ready" /\ InCalls
  BY <1>1 DEF Phase, NameSteps, InCalls, Finishing, Dead
<1>3. /\ BytesOK(file) /\ SectionsStored(file, sections)
      /\ Single(Positions(sections, "Dynamic"))
      /\ Single(Positions(segments, "Dynamic"))
  BY <1>1 DEF FirstOK, Dead, DynamicOK
<1>4. /\ Positions(sections, "Dynamic") \in SUBSET DOMAIN sections
      /\ Positions(segments, "Dynamic") \in SUBSET DOMAIN segments
  BY DEF Positions
<1>5. CASE i = 0
  <2>1. UNCHANGED <<sections, segments, file>>
    BY <1>5 DEF ShrinkDynamic
  <2> QED
    BY <1>2, <2>1, LoaderSame DEF Moving
<1>6. CASE i # 0
  <2>1. i \in Positions(sections, "Dynamic")
    BY <1>4, <1>6, TableFacts, FirstPosition
  <2>2. PairOK /\ StringsOK /\ SymbolsOK
    BY DEF LoaderOK
  <2>3. j \in Positions(segments, "Dynamic") /\ j # 0
        /\ segments \in Seq(Segment)
    <3>1. Positions(segments, "Dynamic") # {}
      BY <1>2, <2>1, <2>2 DEF PairOK
    <3> QED
      BY <1>4, <3>1, TableFacts, FirstPosition
  <2>4. /\ sections' = [sections EXCEPT ![i].size = len]
        /\ file' = Write(file, sections[i].offset, len, content)
        /\ segments' = [segments EXCEPT ![j].file_size = len,
                                        ![j].memory_size = len]
    BY <1>6, <2>3 DEF ShrinkDynamic
  <2>5. /\ i \in DOMAIN sections /\ sections[i].kind = "Dynamic"
        /\ len \in 1 .. sections[i].size
        /\ sections[i].size \in Nat /\ sections[i].offset \in Nat
        /\ sections[i] \in Section
    BY <2>1, ShrunkTable, TableFacts, LiveSection
  <2>6. content # Garbage /\ TagsIn(content) = tags
    <3> HIDE DEF tags
    <3>1. "garbage" \notin DOMAIN content /\ "tags" \in DOMAIN content
          /\ content.tags = tags
      OBVIOUS
    <3> HIDE DEF content
    <3> QED
      BY <3>1, NotGarbage DEF TagsIn
  <2>7. i = First(Positions(sections, "Dynamic"))
    OBVIOUS
  <2> HIDE DEF i, j, len, content
  <2>8. len \in Nat /\ len # 0 /\ len <= sections[i].size
    BY <2>5
  <2>9. /\ DOMAIN sections' = DOMAIN sections
        /\ sections'[i].kind = "Dynamic"
        /\ sections'[i].offset = sections[i].offset
        /\ sections'[i].address = sections[i].address
        /\ sections'[i].alloc = sections[i].alloc
        /\ sections'[i].size = len
        /\ \A k \in DOMAIN sections : k # i => sections'[k] = sections[k]
    BY <2>4, <2>5 DEF Section
  <2>10. j \in DOMAIN segments /\ segments[j].kind = "Dynamic"
    BY <2>3 DEF Positions
  <2>11. /\ segments'[j].kind = "Dynamic"
         /\ segments'[j].offset = segments[j].offset
         /\ segments'[j].address = segments[j].address
         /\ segments'[j].file_size = len
         /\ DOMAIN segments' = DOMAIN segments
         /\ \A k \in DOMAIN segments : k # j => segments'[k] = segments[k]
    <3>1. segments[j] \in Segment
      BY <2>3, <2>10
    <3> QED
      BY <2>4, <2>10, <3>1 DEF Segment
  <2>12. /\ \A k \in DOMAIN sections : k # i => Kept(k) /\ SameBytes(k)
         /\ Read(file', sections[i].offset, len) = content
    <3>1. file' = Write(file, sections[i].offset, len, content)
      BY <2>4
    <3>2. /\ sections[i].kind \notin {"Null", "NoBits"} /\ i \in DOMAIN sections
          /\ sections'[i].kind = sections[i].kind
      BY <2>5, <2>9
    <3>3. content # Garbage
      BY <2>6
    <3> QED
      BY <1>3, <2>8, <2>9, <3>1, <3>2, <3>3, OverwriteFrame
  <2>13. /\ \A kind : Positions(segments', kind) = Positions(segments, kind)
         /\ \A kind : kind # "Dynamic" => SameKind(segments', segments, kind)
    BY <2>3, <2>10, <2>11, ResizedSameKind
  <2>14. \A kind : Positions(sections', kind) = Positions(sections, kind)
    BY <2>5, <2>9 DEF Positions
  <2>15. OthersStay(i)
    BY <2>9, <2>12 DEF OthersStay
  <2>16. DynamicTags' = tags
    <3>1. DynamicTags' = TagsIn(Read(file', sections'[i].offset,
                                     sections'[i].size))
      <4>1. First(Positions(sections', "Dynamic")) = i
        BY <2>7, <2>14
      <4> QED
        BY <1>6, <4>1 DEF DynamicTags, ReadSection
    <3> QED
      BY <2>6, <2>9, <2>12, <3>1
  <2>17. Overlaid(segments[j], sections[i])
    BY <1>2, <2>1, <2>3 DEF LoaderOK, MappedOK, DynamicOverlaid
  <2>18. InFile(sections'[i]) /\ InFile(sections[i])
    <3>1. sections'[i] \in Section
      BY <2>5, <2>9 DEF TInv, TablesOK, GoodSections
    <3> QED
      BY <2>5, <2>8, <2>9, <3>1, LiveSection
  <2>19. /\ SectionFileEnd(sections'[i]) <= SectionFileEnd(sections[i])
         /\ SectionFileEnd(sections'[i]) \in Nat
         /\ SectionFileEnd(sections[i]) \in Nat
    <3>1. SectionFileEnd(sections[i]) = sections[i].offset + sections[i].size
      BY <2>5, <2>18, LiveSection
    <3>2. sections'[i] \in Section
      BY <2>5, <2>9 DEF TInv, TablesOK, GoodSections
    <3>3. SectionFileEnd(sections'[i]) = sections[i].offset + len
      BY <2>9, <2>18, <3>2, LiveSection
    <3> QED
      BY <2>5, <2>8, <3>1, <3>3
  <2>20. DynamicOverlaid(sections', segments')
    <3> SUFFICES ASSUME NEW a \in Positions(sections', "Dynamic"),
                        NEW b \in Positions(segments', "Dynamic")
                 PROVE  Overlaid(segments'[b], sections'[a])
      BY DEF DynamicOverlaid
    <3>1. a = i /\ b = j
      BY <1>3, <2>1, <2>3, <2>13, <2>14 DEF Single
    <3>2. Coincide(segments'[j], sections'[i])
      BY <2>9, <2>11, <2>17, <2>18 DEF Overlaid, Coincide
    <3> QED
      BY <2>9, <2>11, <2>17, <3>1, <3>2 DEF Overlaid
  <2>21. \A k \in Loads(segments) :
           k \in Loads(segments') /\ segments'[k] = segments[k]
    BY <2>10, <2>11, <2>13 DEF Loads, Positions
  <2>22. Loads(segments') = Loads(segments)
    BY <2>13 DEF Loads
  <2>23. SectionsMapped(sections', segments')
    <3> SUFFICES ASSUME NEW a \in DOMAIN sections',
                        sections'[a].alloc, InFile(sections'[a])
                 PROVE  \E k \in Loads(segments') :
                          Maps(segments'[k], sections'[a])
      BY DEF SectionsMapped
    <3>1. PICK k \in Loads(segments) : Maps(segments[k], sections[a])
      BY <2>9, <2>18 DEF LoaderOK, MappedOK, SectionsMapped
    <3>2. k \in Loads(segments') /\ segments'[k] = segments[k]
      BY <2>21
    <3>3. CASE a # i
      BY <2>9, <3>1, <3>2, <3>3
    <3>4. CASE a = i
      <4>1. k \in DOMAIN segments
        BY DEF Loads, Positions
      <4>2. SegmentFileEnd(segments[k]) \in Nat
        BY <4>1, TableFacts, EndsAreNatural
      <4>3. SectionFileEnd(sections'[i]) <= SegmentFileEnd(segments[k])
        BY <2>19, <3>1, <3>4, <4>2 DEF Maps
      <4> QED
        BY <2>9, <3>1, <3>2, <3>4, <4>3 DEF Maps
    <3> QED
      BY <3>3, <3>4
  <2>24. LoadsFilled(segments') /\ InterpOverlaid(sections', segments')
    <3>1. LoadsFilled(segments')
      BY <2>21, <2>22 DEF LoaderOK, MappedOK, LoadsFilled
    <3>2. InterpSections(sections) \subseteq InterpSections(sections')
          /\ \A k \in InterpSections(sections) : sections'[k] = sections[k]
      <4>1. i \notin InterpSections(sections)
        BY <1>1, <2>5 DEF FirstOK, Dead, NamesOK, InterpSections
      <4> QED
        BY <2>9, <4>1 DEF InterpSections
    <3>3. \A k \in Positions(segments', "Interpreter") :
            k \in Positions(segments, "Interpreter")
            /\ segments'[k] = segments[k]
      BY <2>10, <2>11, <2>13 DEF Positions
    <3>4. InterpOverlaid(sections, segments)
      BY <1>2 DEF LoaderOK, MappedOK
    <3>5. InterpOverlaid(sections', segments')
      BY <3>2, <3>3, <3>4 DEF InterpOverlaid
    <3> QED
      BY <3>1, <3>5
  <2>25. LayoutLinked(sections, segments)
    BY <1>2 DEF LoaderOK, MappedOK
  <2>26. OthersInside(segments')
    <3> SUFFICES ASSUME NEW a \in DOMAIN segments', segments'[a].file_size # 0,
                        segments'[a].kind \in {"ProgramHeader", "Other"}
                 PROVE  \E k \in Loads(segments') :
                          /\ segments'[k].offset <= segments'[a].offset
                          /\ SegmentFileEnd(segments'[a])
                               < SegmentFileEnd(segments'[k])
      BY DEF OthersInside
    <3>1. a \in DOMAIN segments /\ segments'[a] = segments[a]
      BY <2>11
    <3>2. PICK k \in Loads(segments) :
            /\ segments[k].offset <= segments[a].offset
            /\ SegmentFileEnd(segments[a]) < SegmentFileEnd(segments[k])
      BY <2>25, <3>1 DEF LayoutLinked, OthersInside
    <3> QED
      BY <2>21, <3>1, <3>2
  <2>27. LoadsTight(sections', segments')
    <3> SUFFICES ASSUME NEW k \in Loads(segments'),
                        segments'[k].file_size # 0
                 PROVE  EndsLasting(sections', segments'[k])
                        \/ HoldsOne(sections', segments', segments'[k])
      BY DEF LoadsTight
    <3> DEFINE g == segments[k]
    <3>1. k \in Loads(segments) /\ segments'[k] = g
      BY <2>21, <2>22
    <3>2. EndsLasting(sections, g) \/ HoldsOne(sections, segments, g)
      BY <2>25, <3>1 DEF LayoutLinked, LoadsTight
    <3>3. k \in DOMAIN segments
      BY <3>1 DEF Loads, Positions
    <3>4. g.offset \in Nat
      BY <3>3, TableFacts, EndsAreNatural
    <3> HIDE DEF g
    <3>5. CASE EndsLasting(sections, g)
      <4>1. PICK a \in DOMAIN sections :
              Lasting(sections[a]) /\ SectionFileEnd(sections[a]) = SegmentFileEnd(g)
        BY <3>5 DEF EndsLasting
      <4>2. a # i
        BY <2>5, <4>1 DEF Lasting
      <4> QED
        BY <2>9, <3>1, <4>1, <4>2 DEF EndsLasting
    <3>6. CASE HoldsOne(sections, segments, g)
      <4>1. ASSUME NEW a \in DOMAIN sections', InFile(sections'[a])
            PROVE  \/ SectionFileEnd(sections'[a]) <= g.offset
                   \/ SegmentFileEnd(g) <= sections'[a].offset
                   \/ /\ sections'[a].offset = g.offset
                      /\ \/ SectionFileEnd(sections'[a]) = SegmentFileEnd(g)
                         \/ /\ sections'[a].kind = "Dynamic"
                            /\ \E b \in Positions(segments', "Dynamic") :
                                 segments'[b].offset = g.offset
        <5>1. CASE a # i
          <6>1. a \in DOMAIN sections /\ sections'[a] = sections[a]
                /\ InFile(sections[a])
            BY <2>9, <4>1, <5>1
          <6>2. sections[a].kind # "Dynamic"
            <7>1. SUFFICES ASSUME sections[a].kind = "Dynamic" PROVE FALSE
              OBVIOUS
            <7>2. a \in Positions(sections, "Dynamic")
              BY <6>1, <7>1 DEF Positions
            <7> QED
              BY <1>3, <2>1, <5>1, <7>2 DEF Single
          <6> QED
            BY <3>6, <6>1, <6>2 DEF HoldsOne
        <5>2. CASE a = i
          <6>1. \/ SectionFileEnd(sections[i]) <= g.offset
                \/ SegmentFileEnd(g) <= sections[i].offset
                \/ sections[i].offset = g.offset
            BY <2>5, <2>18, <3>6 DEF HoldsOne
          <6>2. CASE SectionFileEnd(sections[i]) <= g.offset
            BY <2>19, <3>4, <5>2, <6>2
          <6>3. CASE sections[i].offset = g.offset
            <7>1. segments'[j].offset = g.offset
              BY <2>11, <2>17, <6>3 DEF Overlaid, Coincide
            <7> QED
              BY <2>3, <2>9, <2>13, <5>2, <6>3, <7>1
          <6> QED
            BY <2>9, <5>2, <6>1, <6>2, <6>3
        <5> QED
          BY <5>1, <5>2
      <4> QED
        BY <3>1, <4>1 DEF HoldsOne
    <3> QED
      BY <3>2, <3>5, <3>6
  <2>28. HeadMaps(segments')
    <3>1. HeadMaps(segments)
      BY <2>25 DEF LayoutLinked
    <3>2. segments' # << >> /\ 1 \in DOMAIN segments /\ 1 # j
      BY <2>3, <2>10, <2>11, <3>1 DEF HeadMaps
    <3>3. segments'[1] = segments[1]
      BY <2>11, <3>2
    <3> QED
      BY <2>21, <2>22, <3>1, <3>2, <3>3 DEF HeadMaps
  <2>29. LoadsPlaced(segments')
    BY <2>21, <2>22, <2>25 DEF LayoutLinked, LoadsPlaced
  <2>30. MappedOK'
    BY <2>20, <2>23, <2>24, <2>26, <2>27, <2>28, <2>29
       DEF MappedOK, LayoutLinked
  <2>31. PairOK'
    <3>1. \A k \in Positions(sections', "Dynamic") : sections'[k].alloc
      <4> SUFFICES ASSUME NEW k \in Positions(sections, "Dynamic")
                   PROVE  sections'[k].alloc
        BY <2>14
      <4>1. k = i /\ sections[k].alloc
        BY <1>3, <2>1, <2>2 DEF Single, PairOK
      <4> QED
        BY <2>9, <4>1
    <3>2. /\ Positions(sections', "Dynamic") # {}
          /\ Positions(segments', "Dynamic") # {}
      BY <2>1, <2>3, <2>13, <2>14
    <3> QED
      BY <3>1, <3>2 DEF PairOK
  <2>32. /\ i \notin Positions(sections, "StringTable")
         /\ i \notin Positions(sections', "StringTable")
         /\ sections'[i].kind = "Dynamic"
    BY <2>5, <2>9 DEF Positions
  <2>33. StringsOK'
    <3>1. StringTablesPlaced(sections')
      BY <2>2, <2>15, <2>32, StringTablesKept DEF StringsOK
    <3>2. StringsThere(file', sections', DynamicTags)
      BY <2>1, <2>2, <2>15, <2>32, StringsThereKept DEF StringsOK
    <3>3. /\ \A t \in {"StringTableAddress", "StringTableSize"} :
               t \in DOMAIN DynamicTags
                 => t \in DOMAIN tags /\ tags[t] = DynamicTags[t]
          /\ Referenced(tags) \subseteq Referenced(DynamicTags)
      <4>1. call.tag \in Tags
        BY <1>1 DEF TInv, CallOK
      <4>2. call.tag \notin {"StringTableAddress", "StringTableSize"}
        BY <4>1 DEF OrdinaryTags
      <4> QED
        BY <4>2 DEF WithoutTags, Referenced
    <3> HIDE DEF tags
    <3>4. StringsThere(file', sections', tags)
      BY <3>2, <3>3 DEF StringsThere
    <3> QED
      BY <1>2, <2>16, <3>1, <3>4 DEF StringsOK
  <2>34. SymbolsOK'
    <3>1. SymbolsAt(file, sections, sections[i].address)
      BY <1>2, <2>1, <2>2 DEF SymbolsOK, WithoutTable
    <3>2. /\ SymbolsStored(sections')
          /\ SymbolsAt(file', sections', sections[i].address)
      BY <2>2, <2>15, <2>32, <3>1, SymbolsKept DEF SymbolsOK
    <3>3. \A k \in Positions(sections', "Dynamic") :
            sections'[k].address = sections[i].address
      BY <1>3, <2>1, <2>9, <2>14 DEF Single
    <3> QED
      BY <1>2, <3>2, <3>3 DEF SymbolsOK, WithoutTable
  <2> QED
    BY <2>30, <2>31, <2>33, <2>34 DEF LoaderOK
<1> QED
  BY <1>5, <1>6

LEMMA InitLoads ==
  ASSUME LinkedFiles, Init
  PROVE  LInv
<1>1. PICK f \in Files : /\ header = f.header /\ sections = f.sections
                         /\ segments = f.segments /\ file = f.file
  BY DEF Init
<1> DEFINE Table(i) == TagsIn(Read(file, sections[i].offset,
                                   sections[i].size))
           dynamic == Positions(sections, "Dynamic")
<1>2. /\ SectionsMapped(sections, segments) /\ LoadsFilled(segments)
      /\ InterpOverlaid(sections, segments)
      /\ DynamicOverlaid(sections, segments)
      /\ dynamic = {} <=> Positions(segments, "Dynamic") = {}
      /\ LayoutLinked(sections, segments)
      /\ StringTablesPlaced(sections) /\ SymbolsStored(sections)
      /\ \A i \in dynamic : /\ StringsThere(file, sections, Table(i))
                            /\ SymbolsAt(file, sections, sections[i].address)
  <2>1. LinkedFile(f)
    BY <1>1 DEF LinkedFiles
  <2> QED
    BY <1>1, <2>1 DEF LinkedFile
<1>3. pc = "closed" /\ sessions = 0
  BY DEF Init
<1>4. Phase = "closed"
  BY <1>3 DEF Phase, NameSteps
<1>5. MappedOK
  BY <1>2 DEF MappedOK
<1>6. PairOK
  <2>1. \A i \in dynamic : sections[i].alloc
    BY <1>2 DEF DynamicOverlaid, Overlaid
  <2> QED
    BY <1>2, <2>1 DEF PairOK
<1>7. ASSUME dynamic # {}
      PROVE  StringsThere(file, sections, DynamicTags)
  <2> DEFINE i == First(dynamic)
  <2>1. i \in dynamic /\ i # 0
    <3>1. sections \in Seq(Section) /\ dynamic \in SUBSET DOMAIN sections
      BY <1>1, FilesAssumption DEF Positions
    <3> QED
      BY <1>7, <3>1, FirstPosition
  <2>2. DynamicTags = Table(i)
    BY <2>1 DEF DynamicTags, ReadSection
  <2> HIDE DEF i, Table
  <2> QED
    BY <1>2, <2>1, <2>2
<1>8. StringsOK
  BY <1>2, <1>4, <1>7 DEF StringsOK
<1>9. SymbolsOK
  BY <1>2, <1>4 DEF SymbolsOK, WithoutTable
<1> QED
  BY <1>5, <1>6, <1>8, <1>9 DEF LInv, LoaderOK

\* A step inside a call or finish.
LEMMA StepLoads ==
  ASSUME LinkedFiles, TInv, TInv', FirstOK, LoaderOK, Step, pc' \notin Dead
  PROVE  LoaderOK'
<1> USE DEF LinkedFiles
<1>1. CASE FindName
  <2>1. CASE call.name \in CachedNames.strings
    BY <1>1, <2>1, NameFoundLoads
  <2>2. CASE call.name \notin CachedNames.strings
    BY <1>1, <2>2, NameMissingLoads
  <2> QED
    BY <2>1, <2>2
<1>2. CASE PlaceNames
  BY <1>2, PlaceNamesLoads
<1>3. CASE FreeInterp
  BY <1>3, FreeInterpLoads
<1>4. CASE DropInterp
  BY <1>4, DropInterpLoads
<1>5. CASE PlaceInterp
  BY <1>5, PlaceInterpLoads
<1>6. CASE OverlayInterp
  BY <1>6, OverlayInterpLoads
<1>7. CASE ShrinkDynamic
  BY <1>7, ShrinkDynamicLoads
<1>8. CASE FreeDynamic
  BY <1>8, FreeDynamicLoads
<1>9. CASE FreeDynamicSegment
  BY <1>9, FreeDynamicSegmentLoads
<1>10. CASE FindDynstr
  BY <1>10, FindDynstrLoads
<1>11. CASE PlaceDynstr
  BY <1>11, PlaceDynstrLoads
<1>12. CASE WriteDynstr
  BY <1>12, WriteDynstrLoads
<1>13. CASE PlaceDynamic
  BY <1>13, PlaceDynamicLoads
<1>14. CASE OverlayDynamic
  BY <1>14, OverlayDynamicLoads
<1>15. CASE MoveSymbols
  BY <1>15, MoveSymbolsLoads
<1>16. CASE FreePhdr
  BY <1>16, FreePhdrLoads
<1>17. CASE PlacePhdr
  BY <1>17, PlacePhdrLoads
<1>18. CASE PlaceTables
  BY <1>18, PlaceTablesLoads
<1>19. CASE Arrange
  BY <1>19, ArrangeLoads
<1>20. CASE WriteElf
  BY <1>20, WriteElfLoads
<1> QED
  BY <1>1, <1>2, <1>3, <1>4, <1>5, <1>6, <1>7, <1>8, <1>9, <1>10, <1>11,
     <1>12, <1>13, <1>14, <1>15, <1>16, <1>17, <1>18, <1>19, <1>20 DEF Step

\* No step follows a failure.
LEMMA DeadStays ==
  ASSUME Next
  PROVE  pc \notin Dead
<1>1. Call => pc \in {"closed", "ready"}
  BY DEF Call, Open, RemoveInterpreter, SetInterpreter, SetDynamicTag,
         RemoveDynamicTag, Finish, Begin
<1>2. FindName \/ PlaceNames \/ FreeInterp \/ DropInterp \/ PlaceInterp
        \/ OverlayInterp \/ ShrinkDynamic \/ FreeDynamic
      => pc \in Steps \ Dead
  BY DEF FindName, PlaceNames, FreeInterp, DropInterp, PlaceInterp,
         OverlayInterp, ShrinkDynamic, FreeDynamic, Steps, Dead
<1>3. FreeDynamicSegment \/ FindDynstr \/ PlaceDynstr \/ WriteDynstr
        \/ PlaceDynamic \/ OverlayDynamic \/ MoveSymbols
      => pc \in Steps \ Dead
  BY DEF FreeDynamicSegment, FindDynstr, PlaceDynstr, WriteDynstr,
         PlaceDynamic, OverlayDynamic, MoveSymbols, Steps, Dead
<1>4. FreePhdr \/ PlacePhdr \/ PlaceTables \/ Arrange \/ WriteElf
      => pc \in Steps \ Dead
  BY DEF FreePhdr, PlacePhdr, PlaceTables, Arrange, WriteElf, Steps, Dead
<1> QED
  BY <1>1, <1>2, <1>3, <1>4 DEF Next, Step, Dead

\* The invariant of the loader is kept by every step.
LEMMA NextLoads ==
  ASSUME LinkedFiles, TInv, TInv', FInv, LInv, [Next]_vars
  PROVE  LInv'
<1> SUFFICES ASSUME sessions' <= 1, pc' \notin Dead PROVE LoaderOK'
  BY DEF LInv
<1>1. sessions <= 1
  BY SessionsGrow
<1>2. FirstOK
  BY <1>1 DEF FInv
<1>3. CASE Next
  <2>1. LoaderOK
    BY <1>1, <1>3, DeadStays DEF LInv
  <2>2. CASE Call
    BY <1>2, <2>1, <2>2, CallLoads
  <2>3. CASE Step
    BY <1>2, <2>1, <2>3, StepLoads
  <2> QED
    BY <1>3, <2>2, <2>3 DEF Next
<1>4. CASE UNCHANGED vars
  <2>1. /\ UNCHANGED <<header, sections, segments, names, file>>
        /\ UNCHANGED <<pc, call, want, calls, sessions>>
    BY <1>4 DEF vars
  <2>2. LoaderOK
    BY <1>1, <2>1 DEF LInv
  <2>3. DynamicTags' = DynamicTags /\ Phase' = Phase
    BY <2>1 DEF DynamicTags, ReadSection, Phase
  <2>4. InCalls' = InCalls
    BY <2>1 DEF InCalls, Finishing
  <2>5. MappedOK'
    BY <2>1, <2>2, <2>3, <2>4 DEF LoaderOK, MappedOK
  <2>6. PairOK'
    BY <2>1, <2>2, <2>3 DEF LoaderOK, PairOK
  <2>7. StringsOK'
    BY <2>1, <2>2, <2>3 DEF LoaderOK, StringsOK
  <2>8. SymbolsOK'
    BY <2>1, <2>2, <2>3 DEF LoaderOK, SymbolsOK
  <2> QED
    BY <2>5, <2>6, <2>7, <2>8 DEF LoaderOK
<1> QED
  BY <1>3, <1>4

\* What the loader finds in a finished file.
LEMMA LoaderFinds ==
  ASSUME TInv, FirstOK, LInv, sessions <= 1
  PROVE  LoaderFindsAll
<1> SUFFICES ASSUME pc = "closed" PROVE LoaderFindsAll!2
  BY DEF LoaderFindsAll
<1>1. Phase = "closed" /\ LoaderOK /\ DynamicOK
  BY DEF Phase, NameSteps, LInv, Dead, FirstOK
<1>2. /\ Single(Positions(sections, "Dynamic"))
      /\ SectionsMapped(sections, segments) /\ LoadsFilled(segments)
      /\ InterpOverlaid(sections, segments)
      /\ DynamicOverlaid(sections, segments)
      /\ StringTablesPlaced(sections)
  BY <1>1 DEF DynamicOK, LoaderOK, MappedOK, StringsOK
<1>3. ASSUME NEW j \in Positions(segments, "Dynamic")
      PROVE  LET g == segments[j]
                 tags == TagsIn(Read(file, g.offset, g.file_size))
             IN  /\ tags # << >>
                 /\ tags = DynamicTags
                 /\ Translated(g.address) = {g.offset}
                 /\ \E offset \in Translated(tags["StringTableAddress"]) :
                      Referenced(tags)
                        \subseteq StringsIn(Read(file, offset,
                                                 tags["StringTableSize"]))
                 /\ \A i \in SymbolTables :
                      ReadSection(i) = [symbol |-> g.address]
  <2> DEFINE g == segments[j]
             tags == TagsIn(Read(file, g.offset, g.file_size))
             i == First(Positions(sections, "Dynamic"))
  <2>1. Positions(sections, "Dynamic") # {}
    BY <1>1 DEF LoaderOK, PairOK
  <2>2. /\ i \in Positions(sections, "Dynamic") /\ i # 0
        /\ i \in DOMAIN sections
    <3>1. Positions(sections, "Dynamic") \in SUBSET DOMAIN sections
      BY DEF Positions
    <3> QED
      BY <2>1, <3>1, TableFacts, FirstPosition
  <2>3. /\ Overlaid(g, sections[i])
        /\ g.offset = sections[i].offset /\ g.file_size = sections[i].size
        /\ g.address = sections[i].address
        /\ sections[i].alloc /\ InFile(sections[i])
    BY <1>2, <2>2 DEF DynamicOverlaid, Overlaid, Coincide
  <2>4. tags = DynamicTags
    BY <2>2, <2>3 DEF DynamicTags, ReadSection
  <2>5. Translated(g.address) = {g.offset}
    BY <1>2, <2>2, <2>3, SectionTranslated
  <2>6. StringsThere(file, sections, DynamicTags)
    BY <1>1, <2>1 DEF LoaderOK, StringsOK
  <2>7. PICK d \in Positions(sections, "StringTable") :
          /\ sections[d].alloc
          /\ sections[d].address = DynamicTags["StringTableAddress"]
          /\ sections[d].size = DynamicTags["StringTableSize"]
          /\ Referenced(DynamicTags)
               \subseteq StringsIn(Read(file, sections[d].offset,
                                        sections[d].size))
    BY <2>6 DEF StringsThere
  <2>8. d \in DOMAIN sections /\ InFile(sections[d])
    <3>1. d \in DOMAIN sections /\ sections[d].kind = "StringTable"
      BY DEF Positions
    <3>2. sections[d].size # 0
      BY <1>2, <2>7 DEF StringTablesPlaced
    <3> QED
      BY <3>1, <3>2, TableFacts, LiveSection
  <2>9. Translated(sections[d].address) = {sections[d].offset}
    BY <1>2, <2>7, <2>8, SectionTranslated
  <2>10. DynamicTags # << >>
    <3>1. "StringTableAddress" \in DOMAIN DynamicTags
      BY <2>6 DEF StringsThere
    <3>2. DOMAIN << >> = {}
      OBVIOUS
    <3> QED
      BY <3>1, <3>2
  <2>11. ASSUME NEW k \in SymbolTables
         PROVE  ReadSection(k) = [symbol |-> g.address]
    <3>1. SymbolsAt(file, sections, sections[i].address)
      BY <1>1, <2>2 DEF LoaderOK, SymbolsOK, WithoutTable
    <3>2. k \in SymbolsIn(sections)
      BY DEF SymbolsIn, SymbolTables
    <3> QED
      BY <2>3, <3>1, <3>2 DEF SymbolsAt, ReadSection
  <2> HIDE DEF g, i, tags
  <2>12. \E offset \in Translated(tags["StringTableAddress"]) :
           Referenced(tags) \subseteq StringsIn(Read(file, offset,
                                                     tags["StringTableSize"]))
    BY <2>4, <2>7, <2>9
  <2> QED
    BY <2>4, <2>5, <2>10, <2>11, <2>12 DEF g, tags
<1>4. ASSUME NEW j \in Positions(segments, "Interpreter")
      PROVE  Translated(segments[j].address) = {segments[j].offset}
  <2>1. PICK i \in InterpSections(sections) : Overlaid(segments[j], sections[i])
    BY <1>2 DEF InterpOverlaid
  <2>2. i \in DOMAIN sections
    BY DEF InterpSections
  <2>3. /\ sections[i].alloc /\ InFile(sections[i])
        /\ segments[j].address = sections[i].address
        /\ segments[j].offset = sections[i].offset
    BY <2>1 DEF Overlaid, Coincide
  <2>4. Translated(sections[i].address) = {sections[i].offset}
    BY <1>2, <2>2, <2>3, SectionTranslated
  <2> QED
    BY <2>3, <2>4
<1> QED
  BY <1>3, <1>4

(***************************************************************************)
(* What Elf::check asks for stays so, or will be when finish comes to it.  *)
(***************************************************************************)

\* An alignment of the patcher: an address follows from an offset.
LEMMA CongruentPlace ==
  ASSUME NEW a \in Nat, NEW o \in Nat, NEW x \in Nat, NEW t \in Nat,
         x + o = a + t, o % DynamicAlign = a % DynamicAlign,
         NEW align \in {1, DynamicAlign}, t % align = 0
  PROVE  x % align = 0
<1>1. CASE align = 1
  BY <1>1
<1>2. CASE align = 8
  <2>1. o % 8 = a % 8 /\ t % 8 = 0
    BY <1>2 DEF DynamicAlign
  <2>2. x % 8 = 0
    BY ONLY <2>1, x + o = a + t, a \in Nat, o \in Nat, x \in Nat, t \in Nat
  <2> QED
    BY <1>2, <2>2
<1> QED
  BY <1>1, <1>2 DEF DynamicAlign

\* A finite set has at most one element.
LEMMA SingleCardinality ==
  ASSUME NEW I, IsFiniteSet(I)
  PROVE  Single(I) <=> Cardinality(I) <= 1
<1>1. ASSUME Single(I)
      PROVE  Cardinality(I) <= 1
  <2>1. CASE I = {}
    BY <2>1, FS_EmptySet
  <2>2. ASSUME NEW x \in I
        PROVE  Cardinality(I) <= 1
    <3>1. I = {x}
      BY <1>1, <2>2 DEF Single
    <3> QED
      BY <3>1, FS_Singleton
  <2> QED
    BY <2>1, <2>2
<1>2. ASSUME Cardinality(I) <= 1, NEW x \in I, NEW y \in I, x # y
      PROVE  FALSE
  <2>1. IsFiniteSet({x}) /\ Cardinality({x}) = 1
    BY FS_Singleton
  <2>2. Cardinality({x} \cup {y}) = 2
    <3>1. y \notin {x}
      BY <1>2
    <3>2. Cardinality({x} \cup {y}) = Cardinality({x}) + 1
      BY <2>1, <3>1, FS_AddElement
    <3> QED
      BY <2>1, <3>2
  <2>3. {x} \cup {y} \in SUBSET I
    BY <1>2
  <2>4. Cardinality({x} \cup {y}) <= Cardinality(I)
    BY <2>3, FS_Subset
  <2>5. Cardinality(I) \in Nat
    BY FS_CardinalityType
  <2> QED
    BY <1>2, <2>2, <2>4, <2>5
<1> QED
  BY <1>1, <1>2 DEF Single

\* Positions in a table are finitely many.
LEMMA PositionsFinite ==
  ASSUME NEW T, NEW s \in Seq(T), NEW kind
  PROVE  IsFiniteSet(Positions(s, kind))
<1>1. IsFiniteSet(DOMAIN s)
  BY SequenceDomain
<1> QED
  BY <1>1, FS_Subset DEF Positions

\* Sections go and sections come, and nothing is due that finish sees to.
LEMMA CheckFrame ==
  ASSUME TInv, TInv', CheckOK,
         pc' \notin {"place_phdr", "place_tables", "arrange", "write"},
         pc' \in {"overlay_interp", "overlay_dynamic"}
           => AlignIsValid(sections'[call'.slot].align),
         header'.entry_point = header.entry_point,
         \A i \in DOMAIN sections' :
           \/ sections'[i].kind = "Null"
           \/ i \in DOMAIN sections /\ sections'[i] = sections[i]
           \/ /\ i # 1 /\ sections'[i].kind # "Hash"
              /\ SectionSound(sections'[i]),
         \A j \in DOMAIN segments' :
           \/ \E k \in DOMAIN segments : segments'[j] = segments[k]
           \/ SegmentAccepted(segments'[j]),
         Has(segments', segments, "Loadable"),
         SameKind(segments', segments, "ProgramHeader"),
         InCalls' => LoadsCongruent(segments')
  PROVE  CheckOK'
<1>1. sections' # << >> => sections'[1].kind = "Null"
  <2> SUFFICES ASSUME sections' # << >> PROVE sections'[1].kind = "Null"
    OBVIOUS
  <2>1. sections' \in Seq(Section)
    BY DEF TInv, TablesOK, GoodSections
  <2>2. 1 \in DOMAIN sections'
    BY <2>1
  <2>3. 1 \in DOMAIN sections => sections[1].kind = "Null"
    BY DEF CheckOK, SectionsOK
  <2> QED
    BY <2>2, <2>3
<1>2. Single(Positions(sections', "Hash"))
  <2>1. \A i \in Positions(sections', "Hash") : i \in Positions(sections, "Hash")
    BY DEF Positions
  <2> QED
    BY <2>1 DEF CheckOK, SectionsOK, Single
<1>3. \A i \in DOMAIN sections' : SectionSound(sections'[i])
  BY DEF CheckOK, SectionsOK, SectionSound
<1>4. SectionsOK'
  BY <1>1, <1>2, <1>3 DEF SectionsOK
<1>5. \A j \in DOMAIN segments' : SegmentAccepted(segments'[j])
  BY DEF CheckOK, SegmentsOK
<1>6. EntryLoaded'
  <2>1. EntryLoaded
    BY DEF CheckOK, SegmentsOK
  <2>2. \A j \in Loads(segments) : \E k \in Loads(segments') :
          segments'[k] = segments[j]
    BY DEF Has, Loads
  <2> QED
    BY <2>1, <2>2 DEF EntryLoaded
<1>7. Single(Positions(segments', "ProgramHeader"))
  BY DEF CheckOK, SegmentsOK, SameKind
<1>8. SegmentsOK'
  BY <1>5, <1>6, <1>7 DEF SegmentsOK
<1> QED
  BY <1>4, <1>8 DEF CheckOK

\* The tables stay.
LEMMA CheckSame ==
  ASSUME TInv, TInv', CheckOK, UNCHANGED elf, InCalls' => InCalls,
         pc' \notin {"place_phdr", "place_tables", "arrange", "write",
                     "overlay_interp", "overlay_dynamic"}
  PROVE  CheckOK'
<1>1. UNCHANGED <<header, sections, segments>>
  BY DEF elf
<1>2. \A kind : SameKind(segments', segments, kind)
  BY <1>1, SameItself
<1>3. InCalls' => LoadsCongruent(segments')
  BY <1>1 DEF CheckOK, SegmentsOK
<1> QED
  BY <1>1, <1>2, <1>3, CheckFrame DEF SameKind

\* Between calls: no call changes the tables at once.
LEMMA CallCheck ==
  ASSUME TInv, TInv', CheckOK, Call, sessions' <= 1
  PROVE  CheckOK' /\ pc' \notin {"rejected", "panicked"}
<1>1. UNCHANGED elf
  BY DEF Call, Open, RemoveInterpreter, SetInterpreter, SetDynamicTag,
         RemoveDynamicTag, Finish, Begin
<1>2. pc' \in {"ready", "unreadable", "free_interp", "free_dynamic",
               "shrink_dynamic", "free_phdr"}
  BY DEF Call, Open, RemoveInterpreter, SetInterpreter, SetDynamicTag,
         RemoveDynamicTag, Finish, Begin
<1>3. InCalls
  <2>1. CASE Open
    <3>1. pc = "closed" /\ sessions' = sessions + 1 /\ sessions \in Nat
      BY <2>1, BoundsAssumption DEF Open, TInv, PlaceOK
    <3>2. sessions = 0
      BY <3>1
    <3> QED
      BY <3>1, <3>2 DEF InCalls, Finishing, Dead
  <2>2. CASE ~Open
    <3>1. pc = "ready"
      BY <2>2 DEF Call, RemoveInterpreter, SetInterpreter, SetDynamicTag,
                  RemoveDynamicTag, Finish, Begin
    <3> QED
      BY <3>1 DEF InCalls, Finishing, Dead
  <2> QED
    BY <2>1, <2>2
<1> QED
  BY <1>1, <1>2, <1>3, CheckSame

\* A section goes.
LEMMA FreeCheck ==
  ASSUME TInv, TInv', CheckOK, NEW STATE i, Free(i), InCalls,
         UNCHANGED <<header, segments>>,
         pc' \notin {"place_phdr", "place_tables", "arrange", "write",
                     "overlay_interp", "overlay_dynamic"}
  PROVE  CheckOK'
<1>1. \A k \in DOMAIN sections' :
        \/ sections'[k].kind = "Null"
        \/ k \in DOMAIN sections /\ sections'[k] = sections[k]
  BY DEF Free, FreeSections, NullSection
<1>2. \A kind : SameKind(segments', segments, kind)
  BY SameItself
<1>3. LoadsCongruent(segments')
  BY DEF CheckOK, SegmentsOK
<1> QED
  BY <1>1, <1>2, <1>3, CheckFrame DEF SameKind

\* get_name_offset frees the table of names, if anything.
LEMMA FindNameCheck ==
  ASSUME TInv, TInv', FirstOK, CheckOK, FindName
  PROVE  CheckOK' /\ pc' # "panicked" /\ pc' # "rejected"
<1>1. /\ pc = "find_name" /\ UNCHANGED <<header, segments>>
      /\ InCalls
  BY DEF FindName, InCalls, Finishing, Dead
<1>2. call.then \in {"place_interp", "place_dynstr", "place_dynamic"}
  <2>1. <<call.op, call.then, call.name>> \in NameSearches
    BY <1>1 DEF TInv, CallOK, NameSteps
  <2> QED
    BY <2>1 DEF NameSearches
<1>3. header.section_names_index \in DOMAIN sections
  BY <1>1 DEF FirstOK, NamesOK, Positions, Dead
<1>4. CASE call.name \in CachedNames.strings
  <2>1. pc' = call.then /\ UNCHANGED sections
    BY <1>4 DEF FindName, Continue
  <2> QED
    BY <1>1, <1>2, <2>1, CheckSame DEF elf
<1>5. CASE call.name \notin CachedNames.strings
  <2>1. Free(header.section_names_index) /\ pc' = "place_names"
    BY <1>3, <1>5 DEF FindName, Continue
  <2> QED
    BY <1>1, <2>1, FreeCheck
<1> QED
  BY <1>4, <1>5

\* One round of the loop over the sections.
LEMMA FreeInterpCheck ==
  ASSUME TInv, TInv', CheckOK, FreeInterp
  PROVE  CheckOK' /\ pc' \notin {"rejected", "panicked"}
<1> DEFINE I == {i \in DOMAIN sections : /\ sections[i].name = ".interp"
                                         /\ ".interp" \in CachedNames.strings}
<1>1. /\ pc = "free_interp" /\ UNCHANGED <<header, segments>>
      /\ InCalls /\ pc' \in {"free_interp", "drop_interp"}
  BY DEF FreeInterp, InCalls, Finishing, Dead, Continue
<1>2. CASE I = {}
  <2>1. UNCHANGED sections
    BY <1>2 DEF FreeInterp
  <2> QED
    BY <1>1, <2>1, CheckSame DEF elf
<1>3. CASE I # {}
  <2>1. Free(First(I))
    BY <1>3 DEF FreeInterp
  <2> HIDE DEF I
  <2> QED
    BY <1>1, <2>1, FreeCheck
<1> QED
  BY <1>2, <1>3

\* The dynamic table is freed.
LEMMA FreeDynamicCheck ==
  ASSUME TInv, TInv', CheckOK, FreeDynamic
  PROVE  CheckOK' /\ pc' \notin {"rejected", "panicked"}
<1> DEFINE i == First(Positions(sections, "Dynamic"))
<1>1. /\ pc = "free_dynamic" /\ UNCHANGED <<header, segments>>
      /\ InCalls /\ pc' \in {"ready", "free_dynamic_segment"}
  BY DEF FreeDynamic, InCalls, Finishing, Dead, Return
<1>2. CASE i = 0
  <2>1. UNCHANGED sections
    BY <1>2 DEF FreeDynamic
  <2> QED
    BY <1>1, <2>1, CheckSame DEF elf
<1>3. CASE i # 0
  <2>1. Free(i)
    BY <1>3 DEF FreeDynamic
  <2> HIDE DEF i
  <2> QED
    BY <1>1, <2>1, FreeCheck
<1> QED
  BY <1>2, <1>3

\* The string table is freed, or stays.
LEMMA FindDynstrCheck ==
  ASSUME TInv, TInv', CheckOK, FindDynstr
  PROVE  CheckOK' /\ pc' \notin {"rejected", "panicked"}
<1> DEFINE i == First(DynstrSections)
<1>1. /\ pc = "find_dynstr" /\ UNCHANGED <<header, segments>>
      /\ InCalls /\ pc' \in {"ready", "write_dynstr", "find_name"}
  BY DEF FindDynstr, InCalls, Finishing, Dead, Return
<1>2. UNCHANGED sections \/ Free(i)
  BY DEF FindDynstr
<1> HIDE DEF i
<1>3. CASE UNCHANGED sections
  BY <1>1, <1>3, CheckSame DEF elf
<1>4. CASE Free(i)
  BY <1>1, <1>4, FreeCheck
<1> QED
  BY <1>2, <1>3, <1>4

\* Steps that write to the file only.
LEMMA ContentCheck ==
  ASSUME TInv, TInv', CheckOK, WriteDynstr \/ MoveSymbols
  PROVE  CheckOK' /\ pc' \notin {"rejected", "panicked"}
<1>1. /\ pc \in {"write_dynstr", "move_symbols"} /\ UNCHANGED elf
      /\ pc' \in {"find_name", "ready"}
  BY DEF WriteDynstr, MoveSymbols, Return
<1>2. InCalls
  BY <1>1 DEF InCalls, Finishing, Dead
<1> QED
  BY <1>1, <1>2, CheckSame

\* What is rounded up is a multiple.
LEMMA RoundedUp ==
  ASSUME NEW x \in Nat, NEW a \in Nat, a # 0, NEW y, y = NextMultiple(x, a)
  PROVE  y \in Nat /\ y % a = 0
<1>1. NextMultiple(x, a) \in Nat /\ NextMultiple(x, a) % a = 0
  BY NextMultipleProperties
<1> QED
  BY ONLY <1>1, y = NextMultiple(x, a), Zenon

\* A new LOAD segment is whole pages from whole pages.
LEMMA NewLoadPages ==
  ASSUME NEW secs \in Seq(Section), NEW segs \in Seq(Segment),
         NEW file_size, NEW memory_size, NEW align, NEW write
  PROVE  LET load == NewLoad(secs, segs, file_size, memory_size, align, write)
         IN  /\ load.offset \in Nat /\ load.offset % PageSize = 0
             /\ load.address \in Nat /\ load.address % PageSize = 0
             /\ load.align = PageSize /\ load.kind = "Loadable"
<1> DEFINE load == NewLoad(secs, segs, file_size, memory_size, align, write)
           F == FileEvents(secs, segs)
           M == MemoryEvents(secs, segs)
<1>1. /\ LastOffset(F, HeaderLen) \in Nat
      /\ LastOffset(M, 0) \in Nat
  <2>1. /\ IsFiniteSet(F) /\ F \in SUBSET EventType
        /\ IsFiniteSet(M) /\ M \in SUBSET EventType
    BY FileEventsType, MemoryEventsType
  <2> HIDE DEF F, M
  <2>2. HeaderLen \in Nat /\ 0 \in Nat
    BY LengthsAssumption
  <2>3. LastOffset(F, HeaderLen) \in Nat
    BY <2>1, <2>2, LastOffsetBound
  <2>4. LastOffset(M, 0) \in Nat
    BY <2>1, <2>2, LastOffsetBound
  <2> QED
    BY <2>3, <2>4
<1>2. PageSize \in Nat /\ PageSize # 0
  BY PageSizeAssumption, MaxWordAssumption
<1>3. /\ load.offset = NextMultiple(LastOffset(F, HeaderLen), PageSize)
      /\ load.address = NextMultiple(LastOffset(M, 0), PageSize)
      /\ load.align = PageSize /\ load.kind = "Loadable"
  BY DEF NewLoad
<1> HIDE DEF load, F, M
<1> QED
  BY <1>1, <1>2, <1>3, RoundedUp DEF load
\* allocate_section: the place is aligned.
LEMMA PlacedAligned ==
  ASSUME NEW secs \in Seq(Section), NEW segs \in Seq(Segment),
         NEW request, Requestable(request), request.align # 0,
         AllocateSection(secs, segs, request).ok
  PROVE  AllocateSection(secs, segs, request).section.offset % request.align
           = 0
<1> DEFINE E == FileEvents(secs, segs)
           ev == Sorted(E)
           gaps == Gaps(ev, segs, request)
           gap == First(gaps)
           load == NewLoad(secs, segs, request.size, request.size,
                           request.align, request.write)
           result == AllocateSection(secs, segs, request)
<1>1. /\ request.align \in Nat /\ request.size \in Nat
      /\ "offset" \in DOMAIN request
      /\ request.align \in Word /\ request.write \in BOOLEAN
  BY MaxWordAssumption DEF Requestable, Word
<1>2. \A g, start : Placed(request, g, start).offset = start
  BY DEF Placed, Requestable
<1>3. CASE gap # 0
  <2>1. result.section
          = Placed(request, segs[CurrentLoad(ev, gap, segs, request)],
                   NextMultiple(ev[gap - 1].offset, request.align))
    BY <1>3 DEF AllocateSection
  <2>2. result.section.offset = NextMultiple(ev[gap - 1].offset, request.align)
    BY <1>2, <2>1
  <2>3. E \in SUBSET EventType /\ IsFiniteSet(E)
    BY FileEventsType
  <2> HIDE DEF E
  <2>4. /\ Cardinality(E) \in Nat
        /\ ev \in [1 .. Cardinality(E) -> E]
    BY <2>3, SortedProperties
  <2>5. gaps \in SUBSET (2 .. Cardinality(E))
    <3> HIDE DEF ev
    <3>1. Len(ev) = Cardinality(E)
      <4>1. DOMAIN ev = 1 .. Cardinality(E)
        BY <2>4
      <4> QED
        BY <2>4, <4>1
    <3> QED
      BY <3>1 DEF Gaps
  <2>6. gap \in gaps
    <3>1. gaps # {}
      <4> SUFFICES ASSUME gaps = {} PROVE FALSE
        OBVIOUS
      <4> HIDE DEF gaps
      <4>1. First(gaps) = 0
        BY DEF First
      <4> QED
        BY <1>3, <4>1
    <3>2. IsFiniteSet(gaps) /\ gaps \in SUBSET Nat
      <4>1. IsFiniteSet(2 .. Cardinality(E)) /\ (2 .. Cardinality(E)) \in SUBSET Nat
        BY <2>4, FS_Interval
      <4> QED
        BY <2>5, <4>1, FS_Subset
    <3> HIDE DEF gaps
    <3> QED
      BY <3>1, <3>2, FirstAndLast
  <2>7. gap - 1 \in 1 .. Cardinality(E)
    <3>1. gap \in 2 .. Cardinality(E)
      BY <2>5, <2>6
    <3> QED
      BY ONLY <2>4, <3>1
  <2>8. ev[gap - 1].offset \in Nat
    BY <2>3, <2>4, <2>7 DEF EventType
  <2> HIDE DEF gap, ev, result
  <2> QED
    BY <1>1, <2>2, <2>8, RoundedUp DEF result
<1>4. CASE gap = 0
  <2>1. result.section
          = Placed(request, load, load.offset + load.file_size - request.size)
    BY <1>4 DEF AllocateSection
  <2>2. load.file_size = Padding(load.offset, request.align) + request.size
    BY DEF NewLoad
  <2>3. load.offset \in Nat /\ Padding(load.offset, request.align) \in Nat
    <3>1. load.offset \in Nat
      BY NewLoadPages
    <3> HIDE DEF load
    <3> QED
      BY <1>1, <3>1, NextMultipleProperties
  <2>4. result.section.offset = load.offset + load.file_size - request.size
    BY <1>2, <2>1
  <2> HIDE DEF load, result
  <2>5. result.section.offset = NextMultiple(load.offset, request.align)
    BY <1>1, <2>2, <2>3, <2>4 DEF NextMultiple
  <2> QED
    BY <1>1, <2>3, <2>5, RoundedUp DEF result
<1> QED
  BY <1>3, <1>4

\* The alignments of the patcher are powers of two.
LEMMA ValidAligns ==
  /\ AlignIsValid(InterpAlign)
  /\ AlignIsValid(DynamicAlign)
  /\ AlignIsValid(PhdrAlign)
<1>1. 2 ^ 0 = 1 /\ 2 ^ 3 = 8
  BY Z3
<1>2. 0 \in 0 .. 30 /\ 3 \in 0 .. 30
  OBVIOUS
<1> QED
  BY <1>1, <1>2 DEF AlignIsValid, InterpAlign, DynamicAlign, PhdrAlign

\* A new LOAD segment is accepted.
LEMMA NewLoadAccepted ==
  ASSUME CheckableFiles, NEW load,
         load.offset \in Nat, load.offset % PageSize = 0,
         load.address \in Nat, load.address % PageSize = 0,
         load.align = PageSize, FitsWord(load)
  PROVE  /\ SegmentAccepted(load)
         /\ load.offset % DynamicAlign = load.address % DynamicAlign
<1>1. AlignIsValid(load.align)
  BY DEF CheckableFiles
<1>2. load.offset % load.align = load.address % load.align
  <2>1. load.offset % PageSize = load.address % PageSize
    OBVIOUS
  <2>2. load.align = PageSize
    OBVIOUS
  <2> QED
    BY ONLY <2>1, <2>2, Zenon
<1>3. load.offset % DynamicAlign = 0 /\ load.address % DynamicAlign = 0
  <2>1. /\ PageSize \in Nat \ {0} /\ DynamicAlign \in Nat \ {0}
        /\ PageSize % DynamicAlign = 0
    BY PageSizeAssumption DEF DynamicAlign, CheckableFiles, LinkedFiles
  <2> QED
    BY <2>1, MultipleOfMultiple
<1> QED
  BY <1>1, <1>2, <1>3 DEF SegmentAccepted

\* A section that is placed in a LOAD at an aligned offset is sound.
LEMMA PlacedSound ==
  ASSUME NEW secs, GoodSections(secs), NEW segs, GoodSegments(segs),
         SectionsMapped(secs, segs), LoadsFilled(segs), LoadsCongruent(segs),
         NEW i \in DOMAIN secs, secs[i].alloc, InFile(secs[i]),
         secs[i].align \in {1, DynamicAlign},
         secs[i].offset % secs[i].align = 0
  PROVE  SectionSound(secs[i])
<1> DEFINE s == secs[i]
<1>1. s \in Section
  BY DEF GoodSections
<1>2. PICK k \in Loads(segs) : Maps(segs[k], s)
  BY DEF SectionsMapped
<1> DEFINE g == segs[k]
<1>3. g \in Segment /\ IsLoad(g) /\ k \in DOMAIN segs
  BY DEF GoodSegments, Loads, Positions, IsLoad
<1>4. /\ g.file_size <= g.memory_size
      /\ g.offset % DynamicAlign = g.address % DynamicAlign
  BY DEF LoadsFilled, LoadsCongruent
<1>5. SegmentMemoryEnd(g) <= MaxWord
  BY <1>3 DEF GoodSegments, LoadsFit, FitsWord
<1>6. /\ SectionFileEnd(s) <= MaxWord
      /\ SectionFileEnd(s) = s.offset + s.size
  <2>1. SectionFileEnd(s) <= MaxWord
    BY DEF GoodSections, SectionsFit
  <2>2. SectionFileEnd(s) = s.offset + s.size
    BY <1>1, LiveSection
  <2> QED
    BY <2>1, <2>2
<1>7. /\ s.offset \in Nat /\ s.address \in Nat /\ s.size \in Nat
      /\ g.offset \in Nat /\ g.address \in Nat /\ g.file_size \in Nat
      /\ g.memory_size \in Nat
  BY <1>1, <1>3, EndsAreNatural
<1>8. /\ s.offset + s.size <= g.offset + g.file_size
      /\ s.address + g.offset = g.address + s.offset
      /\ g.address + g.memory_size <= MaxWord
  BY <1>2, <1>5, <1>6 DEF Maps, SegmentFileEnd, SegmentMemoryEnd
<1>9. s.address % s.align = 0
  <2>1. s.address + g.offset = g.address + s.offset
    BY <1>8
  <2>2. s.offset % s.align = 0 /\ s.align \in {1, DynamicAlign}
    OBVIOUS
  <2> HIDE DEF s, g
  <2> QED
    BY <1>4, <1>7, <2>1, <2>2, CongruentPlace
<1>10. s.address + s.size <= MaxWord
  <2> HIDE DEF s, g
  <2> QED
    BY <1>4, <1>7, <1>8, MaxWordAssumption
<1> QED
  BY <1>6, <1>9, <1>10 DEF SectionSound, SectionMemoryEnd

\* allocate_section leaves the segments or pushes a LOAD.
LEMMA AllocatedSegments ==
  ASSUME NEW secs, NEW segs, NEW request
  PROVE  LET load == NewLoad(secs, segs, request.size, request.size,
                             request.align, request.write)
         IN  AllocateSection(secs, segs, request).segments
               \in {segs, Append(segs, load)}
<1> DEFINE gap == First(Gaps(Sorted(FileEvents(secs, segs)), segs, request))
<1>1. CASE gap # 0
  BY <1>1 DEF AllocateSection
<1>2. CASE gap = 0
  BY <1>2 DEF AllocateSection
<1> QED
  BY <1>1, <1>2

\* In a table that fits, the segment that was pushed fits, too.
LEMMA LastLoadFits ==
  ASSUME NEW segs \in Seq(Segment), NEW load, IsLoad(load),
         GoodSegments(Append(segs, load))
  PROVE  FitsWord(load)
<1> DEFINE n == Len(segs) + 1
<1>1. n \in DOMAIN Append(segs, load) /\ Append(segs, load)[n] = load
  OBVIOUS
<1> QED
  BY <1>1 DEF GoodSegments, LoadsFit

\* alloc_section: the new section and a new LOAD are accepted.
LEMMA PlaceCheck ==
  ASSUME CheckableFiles, TInv, TInv', CheckOK, LoaderOK, MappedOK', InCalls,
         InCalls', header'.entry_point = header.entry_point,
         NEW STATE request, Requestable(request), request.size # 0,
         request.align \in {1, DynamicAlign}, request.kind # "Hash",
         request.kind = "Dynamic" =>
           request.size >= DynamicLen,
         NEW STATE content,
         "tags" \in DOMAIN content => TableFits(content.tags, request.size),
         NEW STATE step, Place(request, content, step), pc' # "failed",
         step \in {"overlay_interp", "overlay_dynamic"}
           => call'.slot = SpareSlot(sections)
  PROVE  CheckOK'
<1> DEFINE result == AllocateSection(sections, segments, request)
           slot == SpareSlot(sections)
           s == result.section
           load == NewLoad(sections, segments, request.size, request.size,
                           request.align, request.write)
<1>0. TablesOK /\ WellStored(file)
  BY DEF TInv
<1>1. /\ result.ok /\ pc' = step
      /\ s \in Section
      /\ sections' = AddSection(sections, s)
      /\ segments' = result.segments
      /\ GoodSegments(segments')
  BY <1>0, PlaceIsGood DEF TablesOK
<1>2. /\ sections \in Seq(Section) /\ segments \in Seq(Segment)
  BY TableFacts
<1>3. /\ s.kind = request.kind /\ s.size = request.size /\ s.alloc
      /\ s.align = request.align
  BY PlacedFields
<1>4. request.align # 0 /\ PageSize % DynamicAlign = 0
  BY DEF DynamicAlign, CheckableFiles, LinkedFiles
<1>5. s.offset % s.align = 0
  <2>1. s.offset % request.align = 0
    BY <1>1, <1>2, <1>4, PlacedAligned
  <2> HIDE DEF s
  <2> QED
    BY ONLY <1>3, <2>1, Zenon
<1>6. \/ segments' = segments
      \/ segments' = Append(segments, load) /\ FitsWord(load)
  <2>1. segments' \in {segments, Append(segments, load)}
    BY <1>1, AllocatedSegments
  <2>2. IsLoad(load)
    BY DEF NewLoad, IsLoad
  <2> HIDE DEF load, result
  <2> QED
    BY <1>1, <1>2, <2>1, <2>2, LastLoadFits
<1>7. /\ load.offset \in Nat /\ load.offset % PageSize = 0
      /\ load.address \in Nat /\ load.address % PageSize = 0
      /\ load.align = PageSize /\ load.kind = "Loadable"
  BY <1>2, NewLoadPages
<1>8. InFile(s)
  <2>1. request.kind \notin {"Null", "NoBits"}
    BY DEF Requestable
  <2> HIDE DEF s
  <2> QED
    BY <1>1, <1>3, <2>1, LiveSection
<1> HIDE DEF s, result, load
<1>9. /\ slot \in DOMAIN sections' /\ sections'[slot] = s /\ slot # 1
      /\ \A i \in DOMAIN sections' :
           i # slot => \/ i \in DOMAIN sections /\ sections'[i] = sections[i]
                       \/ sections'[i] = NullSection
  BY <1>1, <1>2, AddSectionSlot
<1> HIDE DEF slot
<1>10. \/ segments' = segments
       \/ /\ SegmentAccepted(load)
          /\ load.offset % DynamicAlign = load.address % DynamicAlign
  BY <1>6, <1>7, NewLoadAccepted
<1>11. load \in Segment \/ segments' = segments
  <2> SUFFICES ASSUME segments' # segments PROVE load \in Segment
    OBVIOUS
  <2>1. segments' = Append(segments, load)
    BY <1>6
  <2>2. Append(segments, load)[Len(segments) + 1] = load
        /\ Len(segments) + 1 \in DOMAIN Append(segments, load)
    BY <1>2
  <2>3. segments' \in Seq(Segment)
    BY DEF TInv, TablesOK, GoodSegments
  <2> QED
    BY <2>1, <2>2, <2>3
<1>12. \A j \in DOMAIN segments' :
         \/ j \in DOMAIN segments /\ segments'[j] = segments[j]
         \/ /\ segments'[j] = load /\ SegmentAccepted(load)
            /\ load.offset % DynamicAlign = load.address % DynamicAlign
  <2>1. CASE segments' = segments
    BY <2>1
  <2>2. CASE segments' # segments
    BY <1>2, <1>6, <1>10, <1>11, <2>2, AppendPositions
  <2> QED
    BY <2>1, <2>2
<1>13. /\ Has(segments', segments, "Loadable")
       /\ SameKind(segments', segments, "ProgramHeader")
  <2>1. CASE segments' = segments
    BY <2>1, SameItself DEF SameKind
  <2>2. CASE segments' # segments
    <3>1. segments' = Append(segments, load) /\ load \in Segment
          /\ load.kind # "ProgramHeader"
      BY <1>6, <1>7, <1>11, <2>2
    <3> QED
      BY <1>2, <3>1, AppendSameKind
  <2> QED
    BY <2>1, <2>2
<1>14. LoadsCongruent(segments')
  <2> SUFFICES ASSUME NEW k \in Loads(segments')
               PROVE  segments'[k].offset % DynamicAlign
                        = segments'[k].address % DynamicAlign
    BY DEF LoadsCongruent
  <2>1. k \in DOMAIN segments' /\ segments'[k].kind = "Loadable"
    BY DEF Loads, Positions
  <2>2. LoadsCongruent(segments)
    BY DEF CheckOK, SegmentsOK
  <2>3. CASE k \in DOMAIN segments /\ segments'[k] = segments[k]
    <3>1. k \in Loads(segments)
      BY <2>1, <2>3 DEF Loads, Positions
    <3>2. segments[k].offset % DynamicAlign
            = segments[k].address % DynamicAlign
      BY <2>2, <3>1 DEF LoadsCongruent
    <3> QED
      BY ONLY <2>3, <3>2, Zenon
  <2>4. CASE /\ segments'[k] = load
             /\ load.offset % DynamicAlign = load.address % DynamicAlign
    BY ONLY <2>4, Zenon
  <2> QED
    BY <1>12, <2>1, <2>3, <2>4
<1>15. SectionSound(s)
  <2>1. GoodSections(sections') /\ GoodSegments(segments')
    BY DEF TInv, TablesOK
  <2>2. SectionsMapped(sections', segments') /\ LoadsFilled(segments')
    BY DEF MappedOK
  <2>3. /\ sections'[slot].alloc /\ InFile(sections'[slot])
        /\ sections'[slot].align \in {1, DynamicAlign}
    BY <1>3, <1>8, <1>9
  <2>4. sections'[slot].offset % sections'[slot].align = 0
    BY ONLY <1>5, <1>9, Zenon
  <2>5. SectionSound(sections'[slot])
    BY <1>9, <1>14, <2>1, <2>2, <2>3, <2>4, PlacedSound
  <2> QED
    BY <1>9, <2>5
<1>16. \A i \in DOMAIN sections' :
         \/ sections'[i].kind = "Null"
         \/ i \in DOMAIN sections /\ sections'[i] = sections[i]
         \/ /\ i # 1 /\ sections'[i].kind # "Hash"
            /\ SectionSound(sections'[i])
  BY <1>3, <1>9, <1>15 DEF NullSection
<1>17. pc' \in {"overlay_interp", "overlay_dynamic"}
         => AlignIsValid(sections'[call'.slot].align)
  <2> SUFFICES ASSUME pc' \in {"overlay_interp", "overlay_dynamic"}
               PROVE  AlignIsValid(sections'[call'.slot].align)
    OBVIOUS
  <2>1. sections'[call'.slot].align = request.align
    BY <1>1, <1>3, <1>9 DEF slot
  <2>2. request.align = InterpAlign \/ request.align = DynamicAlign
    BY DEF InterpAlign
  <2> QED
    BY <2>1, <2>2, ValidAligns
<1>18. pc' \notin {"place_phdr", "place_tables", "arrange", "write"}
  BY DEF InCalls, Finishing
<1>19. \A j \in DOMAIN segments' :
         \/ \E k \in DOMAIN segments : segments'[j] = segments[k]
         \/ SegmentAccepted(segments'[j])
  BY <1>12
<1> QED
  BY <1>13, <1>14, <1>16, <1>17, <1>18, <1>19, CheckFrame

\* The table of names is placed.
LEMMA PlaceNamesCheck ==
  ASSUME CheckableFiles, TInv, TInv', FirstOK, LoaderOK, CheckOK, PlaceNames,
         pc' # "failed", LoaderOK'
  PROVE  CheckOK' /\ pc' \notin {"rejected", "panicked"}
<1> DEFINE request == Request(".shstrtab", "StringTable", FALSE, names.len, 1,
                              StringTableAlign)
           content == [strings |-> names.strings]
<1>1. pc = "place_names" /\ Place(request, content, call.then)
  BY DEF PlaceNames
<1>2. names.len # 0 /\ call.then = "place_interp"
  BY <1>1 DEF FirstOK, Dead, NamesOK
<1>3. pc' = "place_interp"
  BY <1>1, <1>2 DEF Place
<1>4. InCalls /\ InCalls'
  BY <1>1, <1>3 DEF InCalls, Finishing, Dead
<1>5. /\ Requestable(request) /\ request.kind = "StringTable"
      /\ request.size # 0 /\ request.align = 1
  <2>1. ".shstrtab" \in Names
    BY PatchNamesAssumption DEF PatchNames
  <2>2. StringTableAlign \in Word
    BY AlignsAssumption
  <2>3. names.len \in Nat
    BY DEF TInv, PlaceOK
  <2> QED
    BY <1>2, <2>1, <2>2, <2>3
       DEF Requestable, Request, SectionKinds, StringTableAlign
<1>6. "tags" \notin DOMAIN content
  OBVIOUS
<1> HIDE DEF request, content
<1>7. header'.entry_point = header.entry_point
  BY DEF PlaceNames, TInv, PlaceOK, HeaderType
<1>8. MappedOK'
  BY DEF LoaderOK
<1> QED
  BY <1>1, <1>2, <1>3, <1>4, <1>5, <1>6, <1>7, <1>8, PlaceCheck

\* The section .interp is placed.
LEMMA PlaceInterpCheck ==
  ASSUME CheckableFiles, TInv, TInv', FirstOK, LoaderOK, CheckOK, PlaceInterp,
         pc' # "failed", LoaderOK'
  PROVE  CheckOK' /\ pc' \notin {"rejected", "panicked"}
<1> DEFINE request == Request(".interp", "ProgramBits", FALSE,
                              StringLen[call.value], 1, InterpAlign)
           content == [interp |-> call.value]
<1>1. pc = "place_interp" /\ Place(request, content, "overlay_interp")
  BY DEF PlaceInterp
<1>2. pc' = "overlay_interp"
  BY <1>1 DEF Place
<1>3. InCalls /\ InCalls'
  BY <1>1, <1>2 DEF InCalls, Finishing, Dead
<1>4. /\ Requestable(request) /\ request.kind = "ProgramBits"
      /\ request.size # 0 /\ request.align = 1
  <2>1. call.value \in Interps
    BY <1>1 DEF TInv, CallOK
  <2>2. StringLen[call.value] \in Nat \ {0}
    BY <2>1, StringLenAssumption
  <2>3. ".interp" \in Names
    BY PatchNamesAssumption DEF PatchNames
  <2>4. InterpAlign \in Word
    BY AlignsAssumption
  <2> QED
    BY <2>2, <2>3, <2>4 DEF Requestable, Request, SectionKinds, InterpAlign
<1>5. "tags" \notin DOMAIN content
  OBVIOUS
<1> HIDE DEF request, content
<1>6. header'.entry_point = header.entry_point
      /\ call'.slot = SpareSlot(sections)
  BY DEF PlaceInterp, TInv, CallOK, NoCall
<1>7. MappedOK'
  BY DEF LoaderOK
<1> QED
  BY <1>1, <1>2, <1>3, <1>4, <1>5, <1>6, <1>7, PlaceCheck

\* The string table is placed.
LEMMA PlaceDynstrCheck ==
  ASSUME CheckableFiles, TInv, TInv', FirstOK, LoaderOK, CheckOK, PlaceDynstr,
         pc' # "failed", LoaderOK'
  PROVE  CheckOK' /\ pc' \notin {"rejected", "panicked"}
<1> DEFINE request == Request(".dynstr", "StringTable", FALSE, call.len, 1,
                              StringTableAlign)
           content == [strings |-> call.strings]
<1>1. pc = "place_dynstr" /\ Place(request, content, "write_dynstr")
  BY DEF PlaceDynstr
<1>2. pc' = "write_dynstr" /\ Phase = "place_dynstr"
  BY <1>1 DEF Place, Phase, NameSteps
<1>3. InCalls /\ InCalls'
  BY <1>1, <1>2 DEF InCalls, Finishing, Dead
<1>4. /\ Requestable(request) /\ request.kind = "StringTable"
      /\ request.size # 0 /\ request.align = 1
  <2>1. ".dynstr" \in Names
    BY PatchNamesAssumption DEF PatchNames
  <2>2. StringTableAlign \in Word
    BY AlignsAssumption
  <2>3. call.len \in Nat /\ call.len # 0
    BY <1>2 DEF TInv, CallOK, LoaderOK, StringsOK
  <2> QED
    BY <2>1, <2>2, <2>3
       DEF Requestable, Request, SectionKinds, StringTableAlign
<1>5. "tags" \notin DOMAIN content
  OBVIOUS
<1> HIDE DEF request, content
<1>6. header'.entry_point = header.entry_point
  BY DEF PlaceDynstr
<1>7. MappedOK'
  BY DEF LoaderOK
<1> QED
  BY <1>1, <1>2, <1>3, <1>4, <1>5, <1>6, <1>7, PlaceCheck

\* The dynamic table is placed.
LEMMA PlaceDynamicCheck ==
  ASSUME CheckableFiles, TInv, TInv', FirstOK, LoaderOK, CheckOK, PlaceDynamic,
         pc' # "failed", LoaderOK'
  PROVE  CheckOK' /\ pc' \notin {"rejected", "panicked"}
<1> DEFINE request == Request(".dynamic", "Dynamic", TRUE, TableLen(call.tags),
                              call.slot, DynamicAlign)
           content == [tags |-> call.tags]
<1>1. pc = "place_dynamic" /\ Place(request, content, "overlay_dynamic")
  BY DEF PlaceDynamic
<1>2. pc' = "overlay_dynamic"
  BY <1>1 DEF Place
<1>3. InCalls /\ InCalls'
  BY <1>1, <1>2 DEF InCalls, Finishing, Dead
<1>4. Cardinality(DOMAIN call.tags) \in Nat /\ IsFiniteSet(DOMAIN call.tags)
  BY FS_CardinalityType DEF TInv, CallOK
<1>5. TableLen(call.tags) \in Nat /\ TableLen(call.tags) >= DynamicLen
      /\ TableLen(call.tags) # 0
  BY <1>4 DEF TableLen, DynamicLen
<1>6. /\ Requestable(request) /\ request.kind = "Dynamic"
      /\ request.align = DynamicAlign
  <2>1. ".dynamic" \in Names
    BY PatchNamesAssumption DEF PatchNames
  <2>2. DynamicAlign \in Word
    BY AlignsAssumption
  <2>3. call.slot \in Nat
    BY DEF TInv, CallOK
  <2> QED
    BY <1>5, <2>1, <2>2, <2>3 DEF Requestable, Request, SectionKinds
<1>7. /\ request.size # 0 /\ request.size >= DynamicLen
      /\ TableFits(content.tags, request.size)
  BY <1>4, <1>5 DEF Request, TableFits
<1> HIDE DEF request, content
<1>8. header'.entry_point = header.entry_point
      /\ call'.slot = SpareSlot(sections)
  BY DEF PlaceDynamic, TInv, CallOK, NoCall
<1>9. MappedOK'
  BY DEF LoaderOK
<1> QED
  BY <1>1, <1>2, <1>3, <1>6, <1>7, <1>8, <1>9, PlaceCheck

\* INTERP and DYNAMIC are pushed.
LEMMA OverlayCheck ==
  ASSUME TInv, TInv', CheckOK, InCalls, InCalls',
         pc \in {"overlay_interp", "overlay_dynamic"},
         pc' \notin {"overlay_interp", "overlay_dynamic"},
         NEW kind \in {"Interpreter", "Dynamic"},
         InFile(sections[call.slot]),
         segments' = Append(segments,
                            OverlaySegment(sections[call.slot], kind)),
         UNCHANGED <<header, sections>>
  PROVE  CheckOK'
<1> DEFINE s == sections[call.slot]
           g == OverlaySegment(s, kind)
<1>1. call.slot \in DOMAIN sections /\ s \in Section
      /\ segments \in Seq(Segment)
  BY TableFacts DEF TInv, SlotOK
<1>2. g \in Segment
  BY <1>1, OverlayIsSegment
<1>3. /\ g.kind = kind /\ g.align = s.align
      /\ SegmentFileEnd(g) = s.offset + s.size
      /\ SegmentMemoryEnd(g) = SectionMemoryEnd(s)
  BY DEF OverlaySegment, SegmentFileEnd, SegmentMemoryEnd, SectionMemoryEnd
<1>4. SectionSound(s) /\ s.kind # "Null" /\ AlignIsValid(s.align)
  BY <1>1 DEF CheckOK, SectionsOK, InFile
<1>5. SegmentAccepted(g)
  BY <1>3, <1>4 DEF SegmentAccepted, SectionSound, FitsWord, IsLoad
<1> HIDE DEF g, s
<1>6. segments' = Append(segments, g)
  BY DEF g, s
<1>7. /\ Has(segments', segments, "Loadable")
      /\ SameKind(segments', segments, "ProgramHeader")
  BY <1>1, <1>2, <1>3, <1>6, AppendSameKind
<1>8. \A j \in DOMAIN segments' :
        \/ segments'[j] = g
        \/ j \in DOMAIN segments /\ segments'[j] = segments[j]
  BY <1>1, <1>2, <1>6, AppendPositions
<1>9. \A j \in DOMAIN segments' :
        \/ \E k \in DOMAIN segments : segments'[j] = segments[k]
        \/ SegmentAccepted(segments'[j])
  BY <1>5, <1>8
<1>10. LoadsCongruent(segments')
  <2> SUFFICES ASSUME NEW k \in Loads(segments')
               PROVE  segments'[k].offset % DynamicAlign
                        = segments'[k].address % DynamicAlign
    BY DEF LoadsCongruent
  <2>1. k \in Loads(segments) /\ segments'[k] = segments[k]
    BY <1>3, <1>8 DEF Loads, Positions
  <2>2. segments[k].offset % DynamicAlign
          = segments[k].address % DynamicAlign
    BY <2>1 DEF CheckOK, SegmentsOK, LoadsCongruent
  <2> QED
    BY ONLY <2>1, <2>2, Zenon
<1>11. pc' \notin {"place_phdr", "place_tables", "arrange", "write"}
  BY DEF InCalls, Finishing
<1> QED
  BY <1>7, <1>9, <1>10, <1>11, CheckFrame

\* INTERP is pushed.
LEMMA OverlayInterpCheck ==
  ASSUME TInv, TInv', FirstOK, CheckOK, OverlayInterp
  PROVE  CheckOK' /\ pc' \notin {"rejected", "panicked"}
<1>1. /\ pc = "overlay_interp" /\ pc' = "ready"
      /\ segments' = Append(segments,
                            OverlaySegment(sections[call.slot], "Interpreter"))
      /\ UNCHANGED <<header, sections>>
  BY DEF OverlayInterp, Return
<1>2. InCalls /\ InCalls' /\ Phase = "overlay_interp"
  BY <1>1 DEF InCalls, Finishing, Dead, Phase, NameSteps
<1>3. InFile(sections[call.slot])
  BY <1>1, <1>2 DEF FirstOK, Dead, InterpOK
<1> QED
  BY <1>1, <1>2, <1>3, OverlayCheck

\* DYNAMIC is pushed.
LEMMA OverlayDynamicCheck ==
  ASSUME TInv, TInv', FirstOK, CheckOK, OverlayDynamic
  PROVE  CheckOK' /\ pc' \notin {"rejected", "panicked"}
<1>1. /\ pc = "overlay_dynamic" /\ pc' = "move_symbols"
      /\ segments' = Append(segments,
                            OverlaySegment(sections[call.slot], "Dynamic"))
      /\ UNCHANGED <<header, sections>>
  BY DEF OverlayDynamic, Continue
<1>2. InCalls /\ InCalls' /\ Phase = "overlay_dynamic"
  BY <1>1 DEF InCalls, Finishing, Dead, Phase, NameSteps
<1>3. InFile(sections[call.slot])
  <2>1. call.slot \in Positions(sections, "Dynamic")
    BY <1>1, <1>2 DEF FirstOK, Dead, DynamicOK
  <2> QED
    BY <2>1, TableFacts, DynamicIsLive
<1> QED
  BY <1>1, <1>2, <1>3, OverlayCheck

\* Segments that are neither LOAD nor PHDR go.
LEMMA SegmentsGoCheck ==
  ASSUME TInv, TInv', CheckOK, InCalls, UNCHANGED <<header, sections>>,
         NEW STATE I, segments' = Without(segments, I),
         Positions(segments, "Loadable") \cap I = {},
         Positions(segments, "ProgramHeader") \cap I = {},
         pc' \notin {"place_phdr", "place_tables", "arrange", "write",
                     "overlay_interp", "overlay_dynamic"}
  PROVE  CheckOK'
<1>1. segments \in Seq(Segment)
  BY TableFacts
<1>2. /\ SameKind(segments', segments, "Loadable")
      /\ SameKind(segments', segments, "ProgramHeader")
  BY <1>1, WithoutSameKind
<1>3. IsSelection(segments', segments)
  BY <1>1, WithoutProperties
<1>4. \A j \in DOMAIN segments' :
        \E k \in DOMAIN segments : segments'[j] = segments[k]
  BY <1>3 DEF IsSelection
<1>5. LoadsCongruent(segments')
  <2> SUFFICES ASSUME NEW k \in Loads(segments')
               PROVE  segments'[k].offset % DynamicAlign
                        = segments'[k].address % DynamicAlign
    BY DEF LoadsCongruent
  <2>1. PICK i \in Loads(segments) : segments'[k] = segments[i]
    BY <1>2 DEF SameKind, Has, Loads
  <2>2. segments[i].offset % DynamicAlign = segments[i].address % DynamicAlign
    BY DEF CheckOK, SegmentsOK, LoadsCongruent
  <2> QED
    BY ONLY <2>1, <2>2, Zenon
<1> QED
  BY <1>2, <1>4, <1>5, CheckFrame DEF SameKind

\* The INTERP segments go.
LEMMA DropInterpCheck ==
  ASSUME TInv, TInv', CheckOK, DropInterp
  PROVE  CheckOK' /\ pc' \notin {"rejected", "panicked"}
<1> DEFINE J == Positions(segments, "Interpreter")
<1>1. /\ pc = "drop_interp" /\ segments' = Without(segments, J)
      /\ UNCHANGED <<header, sections>>
      /\ pc' \in {"find_name", "ready"}
  BY DEF DropInterp, Return
<1>2. /\ InCalls
      /\ Positions(segments, "Loadable") \cap J = {}
      /\ Positions(segments, "ProgramHeader") \cap J = {}
  BY <1>1 DEF InCalls, Finishing, Dead, Positions
<1> HIDE DEF J
<1> QED
  BY <1>1, <1>2, SegmentsGoCheck

\* free_segment of DYNAMIC.
LEMMA FreeDynamicSegmentCheck ==
  ASSUME TInv, TInv', CheckOK, FreeDynamicSegment
  PROVE  CheckOK' /\ pc' \notin {"rejected", "panicked"}
<1> DEFINE J == Positions(segments, "Dynamic")
           j == First(J)
<1>1. /\ pc = "free_dynamic_segment" /\ UNCHANGED <<header, sections>>
      /\ pc' = "find_dynstr"
  BY DEF FreeDynamicSegment, Continue
<1>2. InCalls
  BY <1>1 DEF InCalls, Finishing, Dead
<1>3. CASE j = 0
  <2>1. UNCHANGED segments
    BY <1>3 DEF FreeDynamicSegment
  <2> QED
    BY <1>1, <1>2, <2>1, CheckSame DEF elf
<1>4. CASE j # 0
  <2>1. segments' = Without(segments, {j})
    BY <1>4 DEF FreeDynamicSegment
  <2>2. segments \in Seq(Segment) /\ J \in SUBSET DOMAIN segments
    BY TableFacts DEF Positions
  <2>3. j \in J
    <3> HIDE DEF J
    <3> QED
      BY <1>4, <2>2, FirstPosition
  <2>4. /\ Positions(segments, "Loadable") \cap {j} = {}
        /\ Positions(segments, "ProgramHeader") \cap {j} = {}
    <3> HIDE DEF j
    <3> QED
      BY <2>3 DEF Positions
  <2> HIDE DEF j
  <2> QED
    BY <1>1, <1>2, <2>1, <2>4, SegmentsGoCheck
<1> QED
  BY <1>3, <1>4

\* free_segment of PHDR: the LOAD that PHDR is in stays.
LEMMA FreePhdrCheck ==
  ASSUME TInv, TInv', FirstOK, LoaderOK, CheckOK, FreePhdr
  PROVE  CheckOK' /\ pc' \notin {"rejected", "panicked"}
<1> DEFINE J == Positions(segments, "ProgramHeader")
           j == First(J)
           freed == {j, CompanionLoad(segments, j)} \cap DOMAIN segments
<1>1. /\ pc = "free_phdr" /\ pc' = "place_phdr"
      /\ UNCHANGED <<header, sections>>
  BY DEF FreePhdr, Continue
<1>2. InCalls /\ ~InCalls' /\ CheckOK
  BY <1>1 DEF InCalls, Finishing, Dead
<1>3. segments \in Seq(Segment) /\ J \in SUBSET DOMAIN segments
  BY TableFacts DEF Positions
<1>4. /\ Has(segments', segments, "Loadable")
      /\ Positions(segments', "ProgramHeader") = {}
      /\ \A n \in DOMAIN segments' :
           \E k \in DOMAIN segments : segments'[n] = segments[k]
  <2>1. CASE j = 0
    <3>1. segments' = segments
      BY <2>1 DEF FreePhdr
    <3>2. J = {}
      <4> HIDE DEF J
      <4> QED
        BY <1>3, <2>1, FirstPosition
    <3> QED
      BY <3>1, <3>2, SameItself DEF SameKind
  <2>2. CASE j # 0
    <3>1. segments' = Without(segments, freed)
      BY <2>2 DEF FreePhdr
    <3>2. /\ j \in J
          /\ \A k \in freed :
               /\ segments[k].offset = segments[j].offset
               /\ segments[k].file_size = segments[j].file_size
      BY <2>2, PhdrFreed
    <3>3. J \subseteq freed
      <4>1. Single(J)
        BY DEF CheckOK, SegmentsOK
      <4>2. \A i \in J : i = j
        BY <3>2, <4>1 DEF Single
      <4> HIDE DEF J, j
      <4> QED
        BY <1>3, <3>2, <4>2
    <3> HIDE DEF freed, j
    <3>4. Positions(segments, "Loadable") \cap freed = {}
      <4> SUFFICES ASSUME NEW k \in freed, k \in Positions(segments, "Loadable")
                   PROVE  FALSE
        OBVIOUS
      <4>1. /\ k \in DOMAIN segments /\ j \in DOMAIN segments
            /\ IsLoad(segments[k]) /\ segments[j].kind = "ProgramHeader"
        BY <3>2 DEF Positions, IsLoad
      <4>2. segments[j].file_size # 0
        BY <1>1, <1>2, <3>2 DEF FirstOK, Dead, TablesApart, PhdrCovered
      <4>3. OthersInside(segments)
        BY <1>2 DEF LoaderOK, MappedOK, LayoutLinked
      <4>4. PICK m \in Loads(segments) :
              /\ segments[m].offset <= segments[j].offset
              /\ SegmentFileEnd(segments[j]) < SegmentFileEnd(segments[m])
        BY <4>1, <4>2, <4>3 DEF OthersInside
      <4>5. m \in DOMAIN segments /\ IsLoad(segments[m])
        BY DEF Loads, Positions, IsLoad
      <4>6. /\ segments[k].offset = segments[j].offset
            /\ segments[k].file_size = segments[j].file_size
        BY <3>2
      <4>7. SegmentFileEnd(segments[k]) = SegmentFileEnd(segments[j])
        BY <4>6 DEF SegmentFileEnd
      <4>8. /\ segments[j].offset \in Nat /\ segments[j].file_size \in Nat
            /\ segments[m].offset \in Nat
            /\ SegmentFileEnd(segments[m]) \in Nat
            /\ SegmentFileEnd(segments[j]) \in Nat
        BY <1>3, <4>1, <4>5, EndsAreNatural
      <4>9. SegmentFileEnd(segments[j])
              = segments[j].offset + segments[j].file_size
        BY DEF SegmentFileEnd
      <4>10. m # k
        BY <4>4, <4>7, <4>8
      <4>11. \/ SegmentFileEnd(segments[k]) <= segments[m].offset
             \/ SegmentFileEnd(segments[m]) <= segments[k].offset
        <5>1. FileDisjoint(segments[k], segments[m])
          BY <4>1, <4>5, <4>10, TableFacts DEF GoodSegments, LoadsApart
        <5> QED
          BY <5>1 DEF FileDisjoint
      <4> QED
        BY ONLY <4>2, <4>4, <4>6, <4>7, <4>8, <4>9, <4>11
    <3>5. SameKind(segments', segments, "Loadable")
      BY <1>3, <3>1, <3>4, WithoutSameKind
    <3>6. Positions(segments', "ProgramHeader") = {}
      BY <1>3, <3>1, <3>3, WithoutSameKind
    <3>7. IsSelection(segments', segments)
      BY <1>3, <3>1, WithoutProperties
    <3> QED
      BY <3>5, <3>6, <3>7 DEF SameKind, IsSelection
  <2> QED
    BY <2>1, <2>2
<1>5. SectionsOK'
  BY <1>1 DEF CheckOK, SectionsOK
<1>6. EntryLoaded'
  <2>1. EntryLoaded
    BY DEF CheckOK, SegmentsOK
  <2>2. \A k \in Loads(segments) : \E n \in Loads(segments') :
          segments'[n] = segments[k]
    BY <1>4 DEF Has, Loads
  <2> QED
    BY <1>1, <2>1, <2>2 DEF EntryLoaded
<1>7. \A n \in DOMAIN segments' : SegmentAccepted(segments'[n])
  BY <1>4 DEF CheckOK, SegmentsOK
<1>8. SegmentsOK'
  BY <1>1, <1>2, <1>4, <1>6, <1>7 DEF SegmentsOK, Single
<1> QED
  BY <1>1, <1>5, <1>8 DEF CheckOK

\* remove_dynamic_tag: the table and DYNAMIC get shorter.
LEMMA ShrinkDynamicCheck ==
  ASSUME TInv, TInv', FirstOK, LoaderOK, CheckOK, ShrinkDynamic
  PROVE  CheckOK' /\ pc' \notin {"rejected", "panicked"}
<1> DEFINE i == First(Positions(sections, "Dynamic"))
           j == First(Positions(segments, "Dynamic"))
           len == TableLen(WithoutTags(DynamicTags, {call.tag}))
<1>1. pc = "shrink_dynamic" /\ pc' = "ready" /\ UNCHANGED header
  BY DEF ShrinkDynamic, Return
<1>2. Phase = "shrink_dynamic" /\ InCalls
  BY <1>1 DEF Phase, NameSteps, InCalls, Finishing, Dead
<1>3. /\ Positions(sections, "Dynamic") \in SUBSET DOMAIN sections
      /\ Positions(segments, "Dynamic") \in SUBSET DOMAIN segments
      /\ segments \in Seq(Segment) /\ sections \in Seq(Section)
  BY TableFacts DEF Positions
<1>4. CASE i = 0
  <2>1. UNCHANGED <<sections, segments>>
    BY <1>4 DEF ShrinkDynamic
  <2> QED
    BY <1>1, <1>2, <2>1, CheckSame DEF elf
<1>5. CASE i # 0
  <2>1. i \in Positions(sections, "Dynamic")
    BY <1>3, <1>5, FirstPosition
  <2>2. j \in Positions(segments, "Dynamic") /\ j # 0
    <3>1. Positions(segments, "Dynamic") # {}
      BY <1>2, <2>1 DEF LoaderOK, PairOK
    <3> QED
      BY <1>3, <3>1, FirstPosition
  <2>3. /\ sections' = [sections EXCEPT ![i].size = len]
        /\ segments' = [segments EXCEPT ![j].file_size = len,
                                        ![j].memory_size = len]
    BY <1>5, <2>2 DEF ShrinkDynamic
  <2>4. len \in 1 .. sections[i].size
    BY <2>1, ShrunkTable
  <2>5. Overlaid(segments[j], sections[i])
    BY <1>2, <2>1, <2>2 DEF LoaderOK, MappedOK, DynamicOverlaid
  <2> HIDE DEF i, j, len
  <2>6. /\ i \in DOMAIN sections /\ sections[i].kind = "Dynamic"
        /\ j \in DOMAIN segments /\ segments[j].kind = "Dynamic"
    BY <2>1, <2>2 DEF Positions
  <2> DEFINE s == sections[i]
             t == sections'[i]
             g == segments[j]
             h == segments'[j]
  <2>7. s \in Section /\ g \in Segment
    BY <1>3, <2>6
  <2>8. /\ s.offset \in Nat /\ s.size \in Nat /\ s.address \in Nat
        /\ s.offset + s.size <= MaxWord /\ SectionMemoryEnd(s) <= MaxWord
        /\ s.alloc /\ s.kind # "NoBits" /\ s.align > 1
             => s.address % s.align = 0
    <3>1. SectionSound(s) /\ s.kind # "Null"
      BY <2>6 DEF CheckOK, SectionsOK
    <3> QED
      BY <2>7, <3>1, EndsAreNatural DEF SectionSound
  <2>9. /\ DOMAIN sections' = DOMAIN sections
        /\ t.kind = s.kind /\ t.offset = s.offset /\ t.address = s.address
        /\ t.alloc = s.alloc /\ t.align = s.align /\ t.size = len
        /\ \A k \in DOMAIN sections : k # i => sections'[k] = sections[k]
    BY <2>3, <2>6, <2>7 DEF Section
  <2>10. /\ DOMAIN segments' = DOMAIN segments
         /\ h.kind = g.kind /\ h.offset = g.offset /\ h.address = g.address
         /\ h.align = g.align /\ h.file_size = len /\ h.memory_size = len
         /\ \A k \in DOMAIN segments : k # j => segments'[k] = segments[k]
    BY <2>3, <2>6, <2>7 DEF Segment
  <2>11. /\ g.offset = s.offset /\ g.address = s.address
         /\ SegmentAccepted(g)
    BY <2>5, <2>6 DEF Overlaid, Coincide, CheckOK, SegmentsOK
  <2>12. /\ len \in Nat /\ len <= s.size
    BY <2>4, <2>8
  <2> HIDE DEF s, t, g, h
  <2>13. /\ s.offset + len <= MaxWord /\ s.address + len <= MaxWord
    <3>1. s.address + s.size <= MaxWord
      BY <2>8 DEF SectionMemoryEnd
    <3> QED
      BY <2>8, <2>12, <3>1, MaxWordAssumption
  <2>14. SectionSound(t)
    <3>1. t.align > 1 /\ t.alloc /\ t.kind # "NoBits"
             => t.address % t.align = 0
      <4> SUFFICES ASSUME t.align > 1, t.alloc, t.kind # "NoBits"
                   PROVE  t.address % t.align = 0
        OBVIOUS
      <4>1. s.address % s.align = 0
        BY <2>8, <2>9
      <4> QED
        BY ONLY <2>9, <4>1, Zenon
    <3>2. t.offset + t.size <= MaxWord /\ SectionMemoryEnd(t) <= MaxWord
      BY <2>9, <2>13 DEF SectionMemoryEnd
    <3> QED
      BY <3>1, <3>2 DEF SectionSound
  <2>15. SegmentAccepted(h)
    <3>1. FitsWord(h)
      BY <2>10, <2>11, <2>13
         DEF FitsWord, SegmentFileEnd, SegmentMemoryEnd
    <3>2. AlignIsValid(h.align)
      BY <2>10, <2>11 DEF SegmentAccepted
    <3>3. ~IsLoad(h)
      BY <2>6, <2>10 DEF IsLoad, g
    <3> QED
      BY <3>1, <3>2, <3>3 DEF SegmentAccepted
  <2>16. \A k \in DOMAIN sections' :
           \/ k \in DOMAIN sections /\ sections'[k] = sections[k]
           \/ /\ k # 1 /\ sections'[k].kind # "Hash"
              /\ SectionSound(sections'[k])
    <3>1. i # 1
      <4> SUFFICES ASSUME i = 1 PROVE FALSE
        OBVIOUS
      <4>1. sections # << >>
        BY <1>3, <2>6
      <4> QED
        BY <2>6, <4>1 DEF CheckOK, SectionsOK
    <3>2. t.kind = "Dynamic"
      BY <2>6, <2>9 DEF s
    <3> QED
      BY <2>9, <2>14, <3>1, <3>2 DEF t
  <2>17. \A k \in DOMAIN segments' :
           \/ \E m \in DOMAIN segments : segments'[k] = segments[m]
           \/ SegmentAccepted(segments'[k])
    BY <2>10, <2>15 DEF h
  <2>18. /\ SameKind(segments', segments, "Loadable")
         /\ SameKind(segments', segments, "ProgramHeader")
    <3>1. segments'[j].kind = segments[j].kind
          /\ segments'[j].offset = segments[j].offset
      BY <2>10 DEF g, h
    <3> QED
      BY <1>3, <2>6, <2>10, <3>1, ResizedSameKind
  <2>19. LoadsCongruent(segments')
    <3> SUFFICES ASSUME NEW k \in Loads(segments')
                 PROVE  segments'[k].offset % DynamicAlign
                          = segments'[k].address % DynamicAlign
      BY DEF LoadsCongruent
    <3>1. PICK m \in Loads(segments) : segments'[k] = segments[m]
      BY <2>18 DEF SameKind, Has, Loads
    <3>2. segments[m].offset % DynamicAlign
            = segments[m].address % DynamicAlign
      BY <1>2 DEF CheckOK, SegmentsOK, LoadsCongruent
    <3> QED
      BY ONLY <3>1, <3>2, Zenon
  <2>20. CheckOK'
    BY <1>1, <2>16, <2>17, <2>18, <2>19, CheckFrame DEF SameKind
  <2> QED
    BY <1>1, <2>20
<1> QED
  BY <1>4, <1>5

\* ProgramHeader::add takes one slot.
LEMMA AddSegmentSlot ==
  ASSUME NEW old \in Seq(Segment), NEW g \in Segment
  PROVE  LET new == AddSegment(old, g)
         IN  \E n \in DOMAIN new :
               /\ new[n] = g
               /\ \A m \in DOMAIN new :
                    m # n => m \in DOMAIN old /\ new[m] = old[m]
<1> DEFINE null == Positions(old, "Null")
<1>1. CASE null = {}
  <2>1. AddSegment(old, g) = Append(old, g)
    BY <1>1 DEF AddSegment
  <2>2. /\ Len(old) + 1 \in DOMAIN Append(old, g)
        /\ Append(old, g)[Len(old) + 1] = g
        /\ \A m \in DOMAIN Append(old, g) :
             m # Len(old) + 1 => m \in DOMAIN old /\ Append(old, g)[m] = old[m]
    OBVIOUS
  <2> QED
    BY <2>1, <2>2
<1>2. CASE null # {}
  <2> DEFINE n == First(null)
  <2>1. AddSegment(old, g) = [old EXCEPT ![n] = g]
    BY <1>2 DEF AddSegment
  <2>2. n \in DOMAIN old
    <3>1. null \in SUBSET DOMAIN old
      BY DEF Positions
    <3> HIDE DEF null
    <3> QED
      BY <1>2, <3>1, FirstPosition
  <2> HIDE DEF n
  <2> QED
    BY <2>1, <2>2
<1> QED
  BY <1>1, <1>2



\* alloc_segment of PHDR.
LEMMA PlacePhdrCheck ==
  ASSUME CheckableFiles, TInv, TInv', CheckOK, PlacePhdr, pc' # "failed"
  PROVE  CheckOK' /\ pc' \notin {"rejected", "panicked"}
<1> DEFINE request == PhdrRequest(PhdrLen(Len(segments)))
           result == AllocateSegment(sections, segments, request)
           load == NewLoad(sections, segments, request.file_size,
                           request.memory_size, request.align, request.write)
           old == result.segments
           g == result.segment
           len == PhdrLen(Len(segments))
           padding == Padding(load.offset, request.align)
<1>1. /\ pc = "place_phdr" /\ pc' = "place_tables" /\ result.ok
      /\ segments' = AddSegment(old, g)
      /\ UNCHANGED sections
      /\ header' = [header EXCEPT !.program_header_offset = g.offset]
  BY DEF PlacePhdr
<1>2. sections \in Seq(Section) /\ segments \in Seq(Segment)
  BY TableFacts
<1>3. request \in Segment /\ request.kind = "ProgramHeader"
  BY <1>1, <1>2, PhdrRequestIsSegment
<1>4. g \in Segment /\ g.kind = "ProgramHeader"
  BY <1>1, <1>2, <1>3, AllocateSegmentProperties
<1>5. old = Append(segments, load)
  BY DEF AllocateSegment
<1>6. /\ load.offset \in Nat /\ load.offset % PageSize = 0
      /\ load.address \in Nat /\ load.address % PageSize = 0
      /\ load.align = PageSize /\ load.kind = "Loadable"
  BY <1>2, NewLoadPages
<1>7. /\ load.file_size = padding + len /\ load.memory_size = padding + len
      /\ request.file_size = len /\ request.memory_size = len
      /\ request.align = PhdrAlign
  BY DEF NewLoad, PhdrRequest
<1>8. padding \in Nat /\ len \in Nat
  <2>1. request.align \in Nat /\ request.file_size \in Nat
    BY <1>3 DEF Segment, Word
  <2> HIDE DEF load, request
  <2> QED
    BY <1>6, <1>7, <2>1, NextMultipleProperties
<1>9. load \in Segment /\ IsLoad(load)
  <2>1. /\ request.file_size \in Word /\ request.memory_size \in Word
        /\ request.align \in Word /\ request.write \in BOOLEAN
    BY <1>3 DEF Segment
  <2>2. Addressable(load, load.file_size - request.file_size)
    BY <1>1 DEF AllocateSegment
  <2> HIDE DEF request, load
  <2> QED
    BY <1>2, <2>1, <2>2, NewLoadBehind DEF load
<1>10. /\ g.offset = load.offset + (load.file_size - request.file_size)
       /\ g.address = load.address + (load.file_size - request.file_size)
       /\ g.file_size = request.file_size
       /\ g.memory_size = request.memory_size
       /\ g.align = request.align
  BY DEF AllocateSegment, PhdrRequest
<1> HIDE DEF request, result, load, len, padding
<1>11. /\ g.offset = load.offset + padding
       /\ g.address = load.address + padding
       /\ g.file_size = len /\ g.memory_size = len /\ g.align = PhdrAlign
  BY <1>6, <1>7, <1>8, <1>10
<1>12. old \in Seq(Segment)
  BY <1>2, <1>5, <1>9
<1> HIDE DEF g, old
<1>13. PICK n \in DOMAIN segments' :
         /\ segments'[n] = g
         /\ \A m \in DOMAIN segments' :
              m # n => m \in DOMAIN old /\ segments'[m] = old[m]
  BY <1>1, <1>4, <1>12, AddSegmentSlot
<1>14. \A m \in DOMAIN old :
         \/ old[m] = load
         \/ m \in DOMAIN segments /\ old[m] = segments[m]
  BY <1>2, <1>5, <1>9, AppendPositions
<1>15. Has(old, segments, "Loadable") /\ Has(segments', old, "Loadable")
  <2>1. Has(old, segments, "Loadable")
    BY <1>2, <1>5, <1>9, AppendSameKind
  <2>2. Has(segments', old, "Loadable")
    BY <1>1, <1>4, <1>12, AddSegmentSameKind DEF SegmentKinds
  <2> QED
    BY <2>1, <2>2
<1>16. PICK k \in Loads(segments') : segments'[k] = load
  <2>1. /\ Append(segments, load)[Len(segments) + 1] = load
        /\ Len(segments) + 1 \in DOMAIN Append(segments, load)
    BY <1>2
  <2>2. Len(segments) + 1 \in Positions(old, "Loadable")
        /\ old[Len(segments) + 1] = load
    BY <1>5, <1>6, <2>1 DEF Positions
  <2> QED
    BY <1>15, <2>2 DEF Has, Loads
<1>17. FitsWord(load)
  <2>1. GoodSegments(segments')
    BY DEF TInv, TablesOK
  <2> QED
    BY <1>9, <1>16, <2>1 DEF GoodSegments, LoadsFit, Loads, Positions
<1>18. SegmentAccepted(load)
       /\ load.offset % DynamicAlign = load.address % DynamicAlign
  BY <1>6, <1>17, NewLoadAccepted
<1>19. SegmentAccepted(g)
  <2>1. /\ SegmentFileEnd(g) = SegmentFileEnd(load)
        /\ SegmentMemoryEnd(g) = SegmentMemoryEnd(load)
    BY <1>6, <1>7, <1>8, <1>11 DEF SegmentFileEnd, SegmentMemoryEnd
  <2>2. AlignIsValid(g.align)
    BY <1>11, ValidAligns
  <2> QED
    BY <1>4, <1>17, <2>1, <2>2 DEF SegmentAccepted, FitsWord, IsLoad
<1>20. \A m \in DOMAIN segments' : SegmentAccepted(segments'[m])
  BY <1>13, <1>14, <1>18, <1>19 DEF CheckOK, SegmentsOK
<1>21. \A m \in Positions(segments', "ProgramHeader") : m = n
  <2>1. Positions(segments, "ProgramHeader") = {}
    BY <1>1 DEF CheckOK, SegmentsOK
  <2> QED
    BY <1>6, <1>13, <1>14, <2>1 DEF Positions
<1>22. EntryLoaded'
  <2>1. EntryLoaded
    BY DEF CheckOK, SegmentsOK
  <2>2. \A m \in Loads(segments) : \E j \in Loads(segments') :
          segments'[j] = segments[m]
    BY <1>15 DEF Has, Loads
  <2>3. header'.entry_point = header.entry_point
    BY <1>1 DEF TInv, PlaceOK, HeaderType
  <2> QED
    BY <2>1, <2>2, <2>3 DEF EntryLoaded
<1>23. PhdrLoaded'
  <2>1. /\ load.address <= g.address
        /\ SegmentMemoryEnd(g) <= SegmentMemoryEnd(load)
    BY <1>6, <1>7, <1>8, <1>11 DEF SegmentMemoryEnd
  <2> QED
    BY <1>13, <1>16, <1>21, <2>1 DEF PhdrLoaded
<1>24. ~InCalls'
  BY <1>1 DEF InCalls, Finishing
<1>25. SegmentsOK'
  BY <1>1, <1>20, <1>21, <1>22, <1>23, <1>24 DEF SegmentsOK, Single
<1>26. SectionsOK'
  BY <1>1 DEF CheckOK, SectionsOK
<1> QED
  BY <1>1, <1>25, <1>26 DEF CheckOK

\* LOAD segments come by address, and PHDR before them.
LEMMA FinishSorted ==
  ASSUME NEW s \in Seq(Segment)
  PROVE  LET t == FinishSegments(s)
         IN  /\ \A m, n \in Positions(t, "Loadable") :
                  m < n => t[m].address <= t[n].address
             /\ \A m \in Positions(t, "ProgramHeader"),
                   n \in Positions(t, "Loadable") : m < n
<1> DEFINE N == Cardinality(DOMAIN s)
           e == Enumerate(DOMAIN s, FinishOrder(s))
           t == FinishSegments(s)
<1>1. IsFiniteSet(DOMAIN s)
  BY SequenceDomain
<1>2. /\ N \in Nat
      /\ e \in [1 .. N -> DOMAIN s]
      /\ \A m, n \in 1 .. N : m <= n <=> <<e[m], e[n]>> \in FinishOrder(s)
      /\ \A m, n \in 1 .. N : e[m] = e[n] => m = n
  BY <1>1, FinishOrderTotal, EnumerateProperties
<1> HIDE DEF e, N
<1>3. t = [n \in 1 .. N |-> s[e[n]]]
  BY DEF FinishSegments, e, N
<1> HIDE DEF t
<1>4. \A n \in DOMAIN t : n \in 1 .. N /\ t[n] = s[e[n]]
  BY <1>3
<1>5. \A m, n \in 1 .. N : m <= n => Precedes(s, e[m], e[n])
  BY <1>2 DEF FinishOrder
<1>6. \A m, n \in Positions(t, "Loadable") :
        m < n => t[m].address <= t[n].address
  <2> SUFFICES ASSUME NEW m \in Positions(t, "Loadable"),
                      NEW n \in Positions(t, "Loadable"), m < n
               PROVE  t[m].address <= t[n].address
    OBVIOUS
  <2>1. /\ m \in 1 .. N /\ n \in 1 .. N
        /\ t[m] = s[e[m]] /\ t[n] = s[e[n]]
        /\ t[m].kind = "Loadable" /\ t[n].kind = "Loadable"
    BY <1>4 DEF Positions
  <2>2. Precedes(s, e[m], e[n])
    BY <1>5, <2>1
  <2>3. Group(s[e[m]]) = 2 /\ Group(s[e[n]]) = 2
    BY <2>1 DEF Group
  <2>4. \/ s[e[m]].address < s[e[n]].address
        \/ s[e[m]].address = s[e[n]].address
    BY <2>2, <2>3 DEF Precedes
  <2>5. s[e[m]].address \in Nat /\ s[e[n]].address \in Nat
    <3>1. e[m] \in DOMAIN s /\ e[n] \in DOMAIN s
      BY <1>2, <2>1
    <3>2. s[e[m]] \in Segment /\ s[e[n]] \in Segment
      BY <3>1
    <3> QED
      BY <3>2, EndsAreNatural
  <2> QED
    BY <2>1, <2>4, <2>5
<1>7. \A m \in Positions(t, "ProgramHeader"), n \in Positions(t, "Loadable") :
        m < n
  <2> SUFFICES ASSUME NEW m \in Positions(t, "ProgramHeader"),
                      NEW n \in Positions(t, "Loadable"), ~(m < n)
               PROVE  FALSE
    OBVIOUS
  <2>1. /\ m \in 1 .. N /\ n \in 1 .. N
        /\ t[m] = s[e[m]] /\ t[n] = s[e[n]]
        /\ t[m].kind = "ProgramHeader" /\ t[n].kind = "Loadable"
    BY <1>4 DEF Positions
  <2>2. n <= m
    BY <2>1
  <2>3. Precedes(s, e[n], e[m])
    BY <1>5, <2>1, <2>2
  <2>4. Group(s[e[m]]) = 0 /\ Group(s[e[n]]) = 2
    BY <2>1 DEF Group
  <2> QED
    BY <2>3, <2>4 DEF Precedes
<1> QED
  BY <1>6, <1>7 DEF t

\* The section header gets its place.
LEMMA PlaceTablesCheck ==
  ASSUME TInv, TInv', FirstOK, CheckOK, PlaceTables, pc' # "failed"
  PROVE  CheckOK' /\ pc' \notin {"rejected", "panicked"}
<1> DEFINE len == Len(FinishSections(sections))
           place == AllocateFileSpace(FinishSections(sections), segments,
                                      len * SectionLen, SectionHeaderAlign)
<1>1. /\ pc = "place_tables" /\ pc' = "arrange" /\ segments' = segments
      /\ sections' = FinishSections(sections)
      /\ header' = [header EXCEPT !.num_segments = Len(segments),
                                  !.num_sections = Len(sections'),
                                  !.section_header_offset = place]
      /\ place + SegmentLen * Len(sections') <= MaxWord
  BY DEF PlaceTables
<1> HIDE DEF place
<1>2. /\ header'.entry_point = header.entry_point
      /\ header'.num_segments = Len(segments)
      /\ header'.num_sections = Len(sections')
  BY <1>1 DEF TInv, PlaceOK, HeaderType
<1>3. sections' = sections
  <2>1. sections \in Seq(Section)
    BY TableFacts
  <2>2. header.section_names_index \in DOMAIN sections
    BY <1>1 DEF FirstOK, Dead, NamesOK, Positions
  <2>3. sections # << >>
    BY <2>1, <2>2
  <2> QED
    BY <1>1, <2>3 DEF FinishSections
<1>4. SectionsOK'
  BY <1>1, <1>2, <1>3 DEF CheckOK, SectionsOK
<1>5. EntryLoaded' /\ PhdrLoaded'
  BY <1>1, <1>2 DEF CheckOK, SegmentsOK, EntryLoaded, PhdrLoaded
<1>6. ~InCalls'
  BY <1>1 DEF InCalls, Finishing
<1>7. SegmentsOK'
  BY <1>1, <1>2, <1>5, <1>6 DEF CheckOK, SegmentsOK
<1>8. HeaderFits'
  <2>1. /\ header'.program_header_offset = header.program_header_offset
        /\ header'.section_header_offset = place
    BY <1>1 DEF TInv, PlaceOK, HeaderType
  <2>2. PICK j \in Positions(segments, "ProgramHeader") :
          /\ segments[j].offset = header.program_header_offset
          /\ segments[j].file_size >= SegmentLen * Len(segments)
    BY <1>1 DEF FirstOK, Dead, TablesApart
  <2>3. /\ SegmentFileEnd(segments[j]) <= MaxWord
        /\ segments[j] \in Segment
    BY TableFacts DEF CheckOK, SegmentsOK, SegmentAccepted, FitsWord, Positions
  <2>4. /\ segments[j].offset \in Nat /\ segments[j].file_size \in Nat
        /\ MaxWord \in Nat
    BY <2>3, MaxWordAssumption DEF Segment, Word
  <2>5. SegmentLen * Len(segments) \in Nat
    BY TableFacts, LengthsAssumption
  <2> DEFINE size == SegmentLen * Len(segments)
  <2> HIDE DEF size
  <2>6. header.program_header_offset + size <= MaxWord
    BY <2>2, <2>3, <2>4, <2>5 DEF SegmentFileEnd, size
  <2> QED
    BY <1>1, <1>2, <2>1, <2>6 DEF HeaderFits, size
<1> QED
  BY <1>1, <1>4, <1>7, <1>8 DEF CheckOK

\* ProgramHeader::finish sorts the segments.
LEMMA ArrangeCheck ==
  ASSUME TInv, TInv', CheckOK, Arrange
  PROVE  CheckOK' /\ pc' \notin {"rejected", "panicked"}
<1>1. /\ pc = "arrange" /\ pc' = "write"
      /\ segments' = FinishSegments(segments)
      /\ UNCHANGED <<header, sections>>
  BY DEF Arrange
<1>2. segments \in Seq(Segment)
  BY TableFacts
<1>3. /\ segments' \in Seq(Segment)
      /\ IsSelection(segments', segments)
      /\ DOMAIN segments' = DOMAIN segments
  BY <1>1, <1>2, FinishSegmentsProperties
<1>4. /\ SameKind(segments', segments, "Loadable")
      /\ SameKind(segments', segments, "ProgramHeader")
  BY <1>1, <1>2, FinishSameKind
<1>5. SegmentsSorted'
  BY <1>1, <1>2, FinishSorted DEF SegmentsSorted, Loads
<1>6. \A j \in DOMAIN segments' : SegmentAccepted(segments'[j])
  BY <1>3 DEF IsSelection, CheckOK, SegmentsOK
<1>7. /\ \A k \in Loads(segments) : \E n \in Loads(segments') :
           segments'[n] = segments[k]
      /\ \A n \in Positions(segments', "ProgramHeader") :
           \E j \in Positions(segments, "ProgramHeader") :
             segments[j] = segments'[n]
  BY <1>4 DEF SameKind, Has, Loads
<1>8. EntryLoaded'
  <2>1. EntryLoaded
    BY DEF CheckOK, SegmentsOK
  <2> QED
    BY <1>1, <1>7, <2>1 DEF EntryLoaded
<1>9. PhdrLoaded'
  <2>1. PhdrLoaded
    BY <1>1 DEF CheckOK, SegmentsOK
  <2> SUFFICES ASSUME NEW n \in Positions(segments', "ProgramHeader")
               PROVE  \E m \in Loads(segments') :
                        /\ segments'[m].address <= segments'[n].address
                        /\ SegmentMemoryEnd(segments'[n])
                             <= SegmentMemoryEnd(segments'[m])
    BY DEF PhdrLoaded
  <2>2. PICK j \in Positions(segments, "ProgramHeader") :
          segments[j] = segments'[n]
    BY <1>7
  <2>3. PICK k \in Loads(segments) :
          /\ segments[k].address <= segments[j].address
          /\ SegmentMemoryEnd(segments[j]) <= SegmentMemoryEnd(segments[k])
    BY <2>1 DEF PhdrLoaded
  <2>4. PICK m \in Loads(segments') : segments'[m] = segments[k]
    BY <1>7
  <2> QED
    BY <2>2, <2>3, <2>4
<1>10. Single(Positions(segments', "ProgramHeader"))
  BY <1>4 DEF SameKind, CheckOK, SegmentsOK
<1>11. Len(segments') = header'.num_segments
  <2>1. Len(segments') = Len(segments)
    BY <1>2, <1>3
  <2> QED
    BY <1>1, <2>1 DEF CheckOK, SegmentsOK
<1>12. ~InCalls'
  BY <1>1 DEF InCalls, Finishing
<1>13. SegmentsOK'
  BY <1>1, <1>5, <1>6, <1>8, <1>9, <1>10, <1>11, <1>12 DEF SegmentsOK
<1>14. SectionsOK'
  BY <1>1 DEF CheckOK, SectionsOK
<1>15. HeaderFits'
  BY <1>1 DEF CheckOK, HeaderFits
<1> QED
  BY <1>1, <1>13, <1>14, <1>15 DEF CheckOK

\* check_overlap, whose ends in memory are too early, if anything.
LEMMA LoadsAccepted ==
  ASSUME NEW segs, GoodSegments(segs), NEW j \in Loads(segs),
         NEW k \in Loads(segs), j # k
  PROVE  /\ ~RangesOverlap(MappedStart(segs[j]), MappedEnd(segs[j]),
                           MappedStart(segs[k]), MappedEnd(segs[k]))
         /\ ~RangesOverlap(segs[j].offset, SegmentFileEnd(segs[j]),
                           segs[k].offset, SegmentFileEnd(segs[k]))
<1>1. /\ j \in DOMAIN segs /\ k \in DOMAIN segs
      /\ IsLoad(segs[j]) /\ IsLoad(segs[k])
  BY DEF Loads, Positions, IsLoad
<1>2. FileDisjoint(segs[j], segs[k]) /\ PagesDisjoint(segs[j], segs[k])
  BY <1>1 DEF GoodSegments, LoadsApart
<1>3. ASSUME NEW g \in Segment
      PROVE  /\ MappedEnd(g) <= AlignUp(SegmentMemoryEnd(g))
             /\ MappedEnd(g) \in Nat /\ MappedStart(g) \in Nat
             /\ AlignUp(SegmentMemoryEnd(g)) \in Nat
             /\ AlignDown(g.address) = MappedStart(g)
  <2>1. g.address \in Nat /\ g.memory_size \in Nat
    BY EndsAreNatural
  <2>2. AlignDown(g.address) \in Nat /\ AlignDown(g.address) <= g.address
    BY <2>1, PageProperties
  <2> DEFINE x == AlignDown(g.address) + g.memory_size
             y == g.address + g.memory_size
  <2>3. x \in Nat /\ y \in Nat /\ x <= y
    <3> DEFINE a == AlignDown(g.address)
    <3>1. a \in Nat /\ a <= g.address
      BY <2>2
    <3> HIDE DEF a
    <3>2. a + g.memory_size \in Nat /\ g.address + g.memory_size \in Nat
          /\ a + g.memory_size <= g.address + g.memory_size
      BY <2>1, <3>1
    <3> QED
      BY <3>2 DEF a
  <2>4. MappedEnd(g) = AlignUp(x) /\ SegmentMemoryEnd(g) = y
    BY DEF MappedEnd, SegmentMemoryEnd
  <2> HIDE DEF x, y
  <2>5. AlignUp(x) <= AlignUp(y)
    BY <2>3, AlignUpMonotone
  <2>6. AlignUp(x) \in Nat /\ AlignUp(y) \in Nat
    BY <2>3, PageProperties, MaxWordAssumption DEF Word
  <2> QED
    BY <2>2, <2>4, <2>5, <2>6 DEF MappedStart
<1>4. segs[j] \in Segment /\ segs[k] \in Segment
  BY <1>1 DEF GoodSegments
<1> DEFINE g == segs[j]
           h == segs[k]
<1>5. /\ MappedEnd(g) <= AlignUp(SegmentMemoryEnd(g))
      /\ MappedEnd(g) \in Nat /\ MappedStart(g) \in Nat
      /\ AlignUp(SegmentMemoryEnd(g)) \in Nat
      /\ AlignDown(g.address) = MappedStart(g)
  BY <1>3, <1>4
<1>6. /\ MappedEnd(h) <= AlignUp(SegmentMemoryEnd(h))
      /\ MappedEnd(h) \in Nat /\ MappedStart(h) \in Nat
      /\ AlignUp(SegmentMemoryEnd(h)) \in Nat
      /\ AlignDown(h.address) = MappedStart(h)
  BY <1>3, <1>4
<1>7. /\ g.offset \in Nat /\ h.offset \in Nat
      /\ SegmentFileEnd(g) \in Nat /\ SegmentFileEnd(h) \in Nat
  BY <1>4, EndsAreNatural
<1> HIDE DEF g, h
<1>8. ~RangesOverlap(MappedStart(g), MappedEnd(g), MappedStart(h), MappedEnd(h))
  <2>1. \/ AlignUp(SegmentMemoryEnd(g)) <= AlignDown(h.address)
        \/ AlignUp(SegmentMemoryEnd(h)) <= AlignDown(g.address)
    BY <1>2 DEF PagesDisjoint, g, h
  <2>2. \/ MappedEnd(g) <= MappedStart(h)
        \/ MappedEnd(h) <= MappedStart(g)
    BY <1>5, <1>6, <2>1
  <2> QED
    BY <1>5, <1>6, <2>2 DEF RangesOverlap
<1>9. ~RangesOverlap(g.offset, SegmentFileEnd(g), h.offset, SegmentFileEnd(h))
  <2>1. SegmentFileEnd(g) <= h.offset \/ SegmentFileEnd(h) <= g.offset
    BY <1>2 DEF FileDisjoint, g, h
  <2> QED
    BY <1>7, <2>1 DEF RangesOverlap
<1> QED
  BY <1>8, <1>9 DEF g, h

\* check_coverage: a section that is mapped is in the LOAD that maps it.
LEMMA SectionCovered ==
  ASSUME NEW g \in Segment, g.file_size <= g.memory_size,
         NEW s \in Section, InFile(s), Maps(g, s)
  PROVE  /\ g.address <= s.address
         /\ s.address < SegmentMemoryEnd(g)
         /\ SectionMemoryEnd(s) <= SegmentMemoryEnd(g)
<1>1. /\ g.address <= s.address
      /\ s.address < g.address + g.file_size
  BY MapsInRange
<1>2. SectionFileEnd(s) = s.offset + s.size
  BY LiveSection
<1>3. /\ s.offset \in Nat /\ s.address \in Nat /\ s.size \in Nat
      /\ g.offset \in Nat /\ g.address \in Nat /\ g.file_size \in Nat
      /\ g.memory_size \in Nat
  BY EndsAreNatural
<1>4. /\ s.offset + s.size <= g.offset + g.file_size
      /\ s.address + g.offset = g.address + s.offset
  BY <1>2 DEF Maps, SegmentFileEnd
<1>5. /\ s.address < g.address + g.memory_size
      /\ s.address + s.size <= g.address + g.memory_size
  BY <1>1, <1>3, <1>4
<1> QED
  BY <1>1, <1>5 DEF SegmentMemoryEnd, SectionMemoryEnd

\* Header::check: the tables are apart, also with the wrong length.
LEMMA HeaderChecked ==
  ASSUME CheckableFiles, TInv, FirstOK, CheckOK, pc = "write"
  PROVE  HeaderAccepted(header)
<1> DEFINE m == Len(segments)
           n == Len(sections)
           a == header.program_header_offset
           b == header.section_header_offset
<1>1. /\ header.num_segments = m /\ header.num_sections = n
  BY DEF CheckOK, SectionsOK, SegmentsOK
<1>2. \/ a + SegmentLen * m <= b
      \/ b + SectionLen * n <= a
  BY DEF FirstOK, Dead, TablesApart
<1>3. /\ m \in Nat /\ n \in Nat /\ a \in Nat /\ b \in Nat
  BY TableFacts DEF TInv, PlaceOK, HeaderType
<1>4. /\ SegmentLen \in Nat /\ SectionLen \in Nat /\ SegmentLen <= SectionLen
  BY LengthsAssumption DEF CheckableFiles
<1>5. header.section_names_index <= n + 1
  <2>1. header.section_names_index \in DOMAIN sections
    BY DEF FirstOK, Dead, NamesOK, Positions
  <2>2. sections \in Seq(Section)
    BY TableFacts
  <2> QED
    BY <2>1, <2>2
<1> HIDE DEF m, n, a, b
<1>6. SegmentLen * n <= SectionLen * n /\ SegmentLen * n \in Nat
      /\ SectionLen * n \in Nat /\ SegmentLen * m \in Nat
  <2>1. n * SegmentLen <= n * SectionLen
    BY <1>3, <1>4, ProductsGrow
  <2> QED
    BY <1>3, <1>4, <2>1
<1>7. ~RangesOverlap(a, a + SegmentLen * m, b, b + SegmentLen * n)
  <2> DEFINE x == SegmentLen * m
             y == SegmentLen * n
             z == SectionLen * n
  <2>1. /\ x \in Nat /\ y \in Nat /\ z \in Nat /\ y <= z
        /\ a + x <= b \/ b + z <= a
    BY <1>2, <1>6
  <2> HIDE DEF x, y, z
  <2>2. ~RangesOverlap(a, a + x, b, b + y)
    BY <1>3, <2>1 DEF RangesOverlap
  <2> QED
    BY <2>2 DEF x, y
<1>8. /\ a + SegmentLen * header.num_segments <= MaxWord
      /\ b + SegmentLen * header.num_sections <= MaxWord
  BY DEF CheckOK, HeaderFits, a, b
<1> QED
  BY <1>1, <1>5, <1>7, <1>8 DEF HeaderAccepted, a, b

\* ProgramHeader::check.
LEMMA SegmentsChecked ==
  ASSUME TInv, FirstOK, CheckOK, pc = "write"
  PROVE  SegmentsAccepted(segments, header.entry_point)
<1>1. /\ \A j \in DOMAIN segments : SegmentAccepted(segments[j])
      /\ EntryLoaded /\ PhdrLoaded /\ SegmentsSorted
      /\ Single(Positions(segments, "ProgramHeader"))
      /\ Single(Positions(segments, "Interpreter"))
  BY DEF CheckOK, SegmentsOK, FirstOK, Dead, InterpOK
<1>2. GoodSegments(segments) /\ segments \in Seq(Segment)
  BY TableFacts
<1>3. \A j, k \in Loads(segments) :
        j # k =>
          /\ ~RangesOverlap(MappedStart(segments[j]), MappedEnd(segments[j]),
                            MappedStart(segments[k]), MappedEnd(segments[k]))
          /\ ~RangesOverlap(segments[j].offset, SegmentFileEnd(segments[j]),
                            segments[k].offset, SegmentFileEnd(segments[k]))
  BY <1>2, LoadsAccepted
<1>4. \A kind : IsFiniteSet(Positions(segments, kind))
  BY <1>2, PositionsFinite
<1>5. Cardinality(Positions(segments, "ProgramHeader")) <= 1
  BY <1>1, <1>4, SingleCardinality
<1>6. Cardinality(Positions(segments, "Interpreter")) <= 1
  BY <1>1, <1>4, SingleCardinality
<1> QED
  BY <1>1, <1>3, <1>5, <1>6
     DEF SegmentsAccepted, Loads, EntryLoaded, PhdrLoaded, SegmentsSorted

\* SectionHeader::check.
LEMMA SectionsChecked ==
  ASSUME TInv, FirstOK, LoaderOK, CheckOK, pc = "write"
  PROVE  SectionsAccepted(sections, segments)
<1>1. /\ sections # << >> => sections[1].kind = "Null"
      /\ Single(Positions(sections, "Hash"))
      /\ Single(Positions(sections, "Dynamic"))
      /\ \A i \in DOMAIN sections : SectionSound(sections[i])
  BY DEF CheckOK, SectionsOK, FirstOK, Dead, DynamicOK
<1>2. sections \in Seq(Section) /\ segments \in Seq(Segment)
  BY TableFacts
<1>3. \A kind \in {"Hash", "Dynamic"} : Cardinality(Positions(sections, kind)) <= 1
  <2>1. \A kind : IsFiniteSet(Positions(sections, kind))
    BY <1>2, PositionsFinite
  <2> QED
    BY <1>1, <2>1, SingleCardinality
<1>4. ASSUME NEW i \in DOMAIN sections
      PROVE  SectionAccepted(sections[i], segments)
  <2> DEFINE s == sections[i]
  <2>1. SectionSound(s) /\ s \in Section
    BY <1>1, <1>2
  <2>2. ASSUME s.kind \notin {"Null", "NoBits"}, s.alloc, s.size # 0
        PROVE  \E k \in Positions(segments, "Loadable") :
                 /\ segments[k].address <= s.address
                 /\ s.address < SegmentMemoryEnd(segments[k])
                 /\ SectionMemoryEnd(s) <= SegmentMemoryEnd(segments[k])
    <3>1. InFile(s)
      BY <2>1, <2>2, LiveSection
    <3>2. PICK k \in Loads(segments) : Maps(segments[k], s)
      BY <2>2, <3>1 DEF LoaderOK, MappedOK, SectionsMapped
    <3>3. segments[k] \in Segment
          /\ segments[k].file_size <= segments[k].memory_size
      BY <1>2 DEF LoaderOK, MappedOK, LoadsFilled, Loads, Positions
    <3> HIDE DEF s
    <3> QED
      BY <2>1, <3>1, <3>2, <3>3, SectionCovered DEF Loads
  <2> HIDE DEF s
  <2>3. CASE s.kind = "Null"
    BY <2>3 DEF SectionAccepted, s
  <2>4. CASE s.kind # "Null"
    <3>1. /\ s.offset + s.size <= MaxWord
          /\ SectionMemoryEnd(s) <= MaxWord
          /\ s.alloc /\ s.kind # "NoBits" /\ s.align > 1
               => s.address % s.align = 0
      BY <2>1, <2>4 DEF SectionSound
    <3> QED
      BY <2>2, <2>4, <3>1 DEF SectionAccepted, s
  <2> QED
    BY <2>3, <2>4
<1> QED
  BY <1>1, <1>3, <1>4 DEF SectionsAccepted

\* Elf::write checks what it writes, and finds nothing.
LEMMA WriteElfCheck ==
  ASSUME CheckableFiles, TInv, TInv', FirstOK, LoaderOK, CheckOK, WriteElf
  PROVE  CheckOK' /\ pc' \notin {"rejected", "panicked"}
<1>1. pc = "write" /\ UNCHANGED elf
  BY DEF WriteElf
<1>2. Accepted(header, sections, segments)
  <2>1. /\ Len(sections) = header.num_sections
        /\ Len(segments) = header.num_segments
    BY <1>1 DEF CheckOK, SectionsOK, SegmentsOK
  <2> QED
    BY <1>1, <2>1, HeaderChecked, SegmentsChecked, SectionsChecked DEF Accepted
<1>3. pc' = "closed" /\ sessions' = sessions
  BY <1>2 DEF WriteElf
<1>4. sessions # 0
  BY <1>1 DEF FirstOK
<1>5. ~InCalls'
  BY <1>3, <1>4 DEF InCalls, Finishing
<1> QED
  BY <1>1, <1>3, <1>5, CheckSame

\* Elf::read has checked the file.
LEMMA InitCheck ==
  ASSUME CheckableFiles, Init
  PROVE  CInv
<1>1. PICK f \in Files : /\ header = f.header
                         /\ sections = f.sections
                         /\ segments = f.segments
  BY DEF Init
<1>2. pc = "closed" /\ sessions = 0
  BY DEF Init
<1>3. /\ Accepted(header, sections, segments)
      /\ sections \in Seq(Section) /\ segments \in Seq(Segment)
      /\ LoadsCongruent(segments)
  BY <1>1, FilesAssumption DEF CheckableFiles
<1>4. /\ \A kind : IsFiniteSet(Positions(sections, kind))
      /\ \A kind : IsFiniteSet(Positions(segments, kind))
  BY <1>3, PositionsFinite
<1>5. SectionsOK
  <2>1. SectionsAccepted(sections, segments)
    BY <1>3 DEF Accepted
  <2>2. Single(Positions(sections, "Hash"))
    <3>1. Cardinality(Positions(sections, "Hash")) <= 1
      BY <2>1 DEF SectionsAccepted
    <3> QED
      BY <1>4, <3>1, SingleCardinality
  <2>3. \A i \in DOMAIN sections : SectionSound(sections[i])
    BY <2>1 DEF SectionsAccepted, SectionAccepted, SectionSound
  <2>4. sections # << >> => sections[1].kind = "Null"
    BY <2>1 DEF SectionsAccepted
  <2> QED
    BY <1>2, <2>2, <2>3, <2>4 DEF SectionsOK
<1>6. SegmentsOK
  <2>1. SegmentsAccepted(segments, header.entry_point)
    BY <1>3 DEF Accepted
  <2>2. Single(Positions(segments, "ProgramHeader"))
    <3>1. Cardinality(Positions(segments, "ProgramHeader")) <= 1
      BY <2>1 DEF SegmentsAccepted
    <3> QED
      BY <1>4, <3>1, SingleCardinality
  <2>3. EntryLoaded
    BY <2>1 DEF SegmentsAccepted, EntryLoaded, Loads
  <2>4. \A j \in DOMAIN segments : SegmentAccepted(segments[j])
    BY <2>1 DEF SegmentsAccepted
  <2> QED
    BY <1>2, <1>3, <2>2, <2>3, <2>4 DEF SegmentsOK
<1> QED
  BY <1>2, <1>5, <1>6 DEF CInv, CheckOK

\* A step inside a call or finish.
LEMMA StepCheck ==
  ASSUME CheckableFiles, TInv, TInv', FirstOK, LoaderOK, CheckOK, Step,
         pc' # "failed", pc' \notin Dead => LoaderOK'
  PROVE  CheckOK' /\ pc' \notin {"rejected", "panicked"}
<1>1. CASE FindName
  BY <1>1, FindNameCheck
<1>2. CASE PlaceNames
  <2>1. pc = "place_names" /\ pc' = call.then
    BY <1>2 DEF PlaceNames, Place
  <2>2. call.then = "place_interp"
    BY <2>1 DEF FirstOK, Dead, NamesOK
  <2>3. LoaderOK'
    BY <2>1, <2>2 DEF Dead
  <2> QED
    BY <1>2, <2>3, PlaceNamesCheck
<1>3. CASE FreeInterp
  BY <1>3, FreeInterpCheck
<1>4. CASE DropInterp
  BY <1>4, DropInterpCheck
<1>5. CASE PlaceInterp
  <2>1. LoaderOK'
    BY <1>5 DEF PlaceInterp, Place, Dead
  <2> QED
    BY <1>5, <2>1, PlaceInterpCheck
<1>6. CASE OverlayInterp
  BY <1>6, OverlayInterpCheck
<1>7. CASE ShrinkDynamic
  BY <1>7, ShrinkDynamicCheck
<1>8. CASE FreeDynamic
  BY <1>8, FreeDynamicCheck
<1>9. CASE FreeDynamicSegment
  BY <1>9, FreeDynamicSegmentCheck
<1>10. CASE FindDynstr
  BY <1>10, FindDynstrCheck
<1>11. CASE PlaceDynstr
  <2>1. LoaderOK'
    BY <1>11 DEF PlaceDynstr, Place, Dead
  <2> QED
    BY <1>11, <2>1, PlaceDynstrCheck
<1>12. CASE WriteDynstr \/ MoveSymbols
  BY <1>12, ContentCheck
<1>13. CASE PlaceDynamic
  <2>1. LoaderOK'
    BY <1>13 DEF PlaceDynamic, Place, Dead
  <2> QED
    BY <1>13, <2>1, PlaceDynamicCheck
<1>14. CASE OverlayDynamic
  BY <1>14, OverlayDynamicCheck
<1>15. CASE FreePhdr
  BY <1>15, FreePhdrCheck
<1>16. CASE PlacePhdr
  BY <1>16, PlacePhdrCheck
<1>17. CASE PlaceTables
  BY <1>17, PlaceTablesCheck
<1>18. CASE Arrange
  BY <1>18, ArrangeCheck
<1>19. CASE WriteElf
  BY <1>19, WriteElfCheck
<1> QED
  BY <1>1, <1>2, <1>3, <1>4, <1>5, <1>6, <1>7, <1>8, <1>9, <1>10, <1>11,
     <1>12, <1>13, <1>14, <1>15, <1>16, <1>17, <1>18, <1>19 DEF Step

\* The invariant of Elf::check is kept by every step.
LEMMA NextCheck ==
  ASSUME CheckableFiles, TInv, TInv', FInv, LInv, LInv', CInv, [Next]_vars
  PROVE  CInv'
<1> SUFFICES ASSUME sessions' <= 1
             PROVE  /\ pc' \notin {"rejected", "panicked"}
                    /\ pc' # "failed" => CheckOK'
  BY DEF CInv
<1>1. sessions <= 1
  BY SessionsGrow
<1>2. FirstOK
  BY <1>1 DEF FInv
<1>3. CASE Next
  <2>1. pc \notin Dead
    BY <1>3, DeadStays
  <2>2. LoaderOK /\ CheckOK
    BY <1>1, <2>1 DEF LInv, CInv, Dead
  <2>3. pc' \notin Dead => LoaderOK'
    BY DEF LInv
  <2>4. CASE Call
    BY <2>2, <2>4, CallCheck
  <2>5. CASE Step /\ pc' # "failed"
    BY <1>2, <2>2, <2>3, <2>5, StepCheck
  <2> QED
    BY <1>3, <2>4, <2>5 DEF Next
<1>4. CASE UNCHANGED vars
  <2>1. /\ UNCHANGED <<header, sections, segments, names, file>>
        /\ UNCHANGED <<pc, call, want, calls, sessions>>
    BY <1>4 DEF vars
  <2>2. /\ pc \notin {"rejected", "panicked"}
        /\ pc # "failed" => CheckOK
    BY <1>1 DEF CInv
  <2>3. SectionsOK => SectionsOK'
    BY <2>1 DEF SectionsOK
  <2>4. InCalls' = InCalls
    BY <2>1 DEF InCalls, Finishing
  <2>5. SegmentsOK => SegmentsOK'
    BY <2>1, <2>4
       DEF SegmentsOK, EntryLoaded, PhdrLoaded, SegmentsSorted
  <2>6. HeaderFits => HeaderFits'
    BY <2>1 DEF HeaderFits
  <2> QED
    BY <2>1, <2>2, <2>3, <2>5, <2>6 DEF CheckOK
<1> QED
  BY <1>3, <1>4

\* In a call the walk of SpaceAllocator has events: the first segment has some.
LEMMA WalkHasEvents ==
  ASSUME TInv, LoaderOK, InCalls
  PROVE  FileEvents(sections, segments) # {}
<1>1. 1 \in DOMAIN segments /\ segments[1].kind # "Null"
  <2>1. HeadMaps(segments)
    BY DEF LoaderOK, MappedOK, LayoutLinked
  <2>2. segments \in Seq(Segment)
    BY TableFacts
  <2> QED
    BY <2>1, <2>2 DEF HeadMaps
<1>2. Event(segments[1].offset, SegmentStartKind(segments[1]), 1)
        \in SegmentEvents(segments)
  BY <1>1 DEF SegmentEvents
<1> QED
  BY <1>2 DEF FileEvents

(***************************************************************************)
(* Theorems.  A second session is another matter: the run                  *)
(* header_overwritten shows one that destroys the header of the file.      *)
(***************************************************************************)

\* What the properties below rest on: the invariant of the first session of
\* ElfPatcher, for every ordinary file, every sequence of calls and every
\* page size.
THEOREM FirstSessionInvariant == Ordinary => (Spec => []FInv)
<1> SUFFICES ASSUME Ordinary PROVE Spec => []FInv
  OBVIOUS
<1>1. Init => FInv /\ FirstIsNull
  BY InitFirst DEF Ordinary
<1>2. TInv /\ TInv' /\ FInv /\ FirstIsNull /\ [Next]_vars
        => FInv' /\ FirstIsNull'
  BY NextFirst, FirstStaysNull DEF Ordinary
<1> QED
  BY <1>1, <1>2, PatcherTypes, PTL DEF Spec

\* No step of the first session, be it in the middle of a call or of finish,
\* destroys bytes of a section that is still in the table (free,
\* write_content, Elf::write).
THEOREM SectionsStayReadable ==
  Ordinary => (Spec => [](sessions <= 1 => SectionsReadable))
<1> SUFFICES ASSUME Ordinary
             PROVE  Spec => [](sessions <= 1 => SectionsReadable)
  OBVIOUS
<1>1. TInv /\ FInv => (sessions <= 1 => SectionsReadable)
  BY FirstSessionGood DEF FInv
<1>2. Spec => []FInv
  BY FirstSessionInvariant
<1> QED
  BY <1>1, <1>2, PatcherTypes, PTL

\* The header and the two tables that the first finish leaves are in the file
\* and overlap neither each other nor a section (alloc_section_header,
\* write_unchecked).
THEOREM FinishedTablesReadable ==
  Ordinary => (Spec => [](sessions <= 1 => TablesReadable))
<1> SUFFICES ASSUME Ordinary
             PROVE  Spec => [](sessions <= 1 => TablesReadable)
  OBVIOUS
<1>1. TInv /\ FInv => (sessions <= 1 => TablesReadable)
  BY FirstSessionGood DEF FInv
<1>2. Spec => []FInv
  BY FirstSessionInvariant
<1> QED
  BY <1>1, <1>2, PatcherTypes, PTL

\* Whatever calls come in between, read_interpreter returns what
\* set_interpreter and remove_interpreter did last, and so it does from the
\* finished file.
THEOREM InterpreterStaysSet ==
  Ordinary => (Spec => [](sessions <= 1 => InterpreterAsSet))
<1> SUFFICES ASSUME Ordinary
             PROVE  Spec => [](sessions <= 1 => InterpreterAsSet)
  OBVIOUS
<1>1. TInv /\ FInv => (sessions <= 1 => InterpreterAsSet)
  BY FirstSessionGood DEF FInv
<1>2. Spec => []FInv
  BY FirstSessionInvariant
<1> QED
  BY <1>1, <1>2, PatcherTypes, PTL

\* The same of read_dynamic_table, set_dynamic_tag and remove_dynamic_tag.
THEOREM TagsStaySet ==
  Ordinary => (Spec => [](sessions <= 1 => TagsAsSet))
<1> SUFFICES ASSUME Ordinary
             PROVE  Spec => [](sessions <= 1 => TagsAsSet)
  OBVIOUS
<1>1. TInv /\ FInv => (sessions <= 1 => TagsAsSet)
  BY FirstSessionGood DEF FInv
<1>2. Spec => []FInv
  BY FirstSessionInvariant
<1> QED
  BY <1>1, <1>2, PatcherTypes, PTL

\* The cached section names are those in the file, wherever the table went and
\* however it grew (get_name_offset).
THEOREM NamesStayInStep ==
  Ordinary => (Spec => [](sessions <= 1 => NamesInStep))
<1> SUFFICES ASSUME Ordinary
             PROVE  Spec => [](sessions <= 1 => NamesInStep)
  OBVIOUS
<1>1. TInv /\ FInv => (sessions <= 1 => NamesInStep)
  BY FirstSessionGood DEF FInv
<1>2. Spec => []FInv
  BY FirstSessionInvariant
<1> QED
  BY <1>1, <1>2, PatcherTypes, PTL

\* Of a file as linkers lay it out, the sections stay where LOAD segments map
\* them, and what the tables say of addresses, strings and symbols is so, or on
\* its way, at every step of the first session (alloc_section, set_dynamic_tag).
THEOREM LoaderInvariant == LinkedFiles => (Spec => []LInv)
<1> SUFFICES ASSUME LinkedFiles PROVE Spec => []LInv
  OBVIOUS
<1>1. Ordinary
  BY DEF LinkedFiles, LinkedFile, Ordinary
<1>2. Init => LInv
  BY InitLoads
<1>3. TInv /\ TInv' /\ FInv /\ LInv /\ [Next]_vars => LInv'
  BY NextLoads
<1>4. Spec => []FInv
  BY <1>1, FirstSessionInvariant
<1> QED
  BY <1>2, <1>3, <1>4, PatcherTypes, PTL DEF Spec

\* The loader, which starts from the segments of the file that the first finish
\* leaves, finds the dynamic table, the strings its entries refer to and the
\* interpreter through the LOAD segments, and the symbol of the table has the
\* address of it (allocate_space, set_dynamic_tag, set_interpreter).
THEOREM LoaderFindsEverything ==
  LinkedFiles => (Spec => [](sessions <= 1 => LoaderFindsAll))
<1> SUFFICES ASSUME LinkedFiles
             PROVE  Spec => [](sessions <= 1 => LoaderFindsAll)
  OBVIOUS
<1>1. Ordinary
  BY DEF LinkedFiles, LinkedFile, Ordinary
<1>2. TInv /\ FInv /\ LInv => (sessions <= 1 => LoaderFindsAll)
  BY LoaderFinds DEF FInv
<1>3. (Spec => []FInv) /\ (Spec => []LInv)
  BY <1>1, FirstSessionInvariant, LoaderInvariant
<1> QED
  BY <1>2, <1>3, PatcherTypes, PTL

\* Of a file that Elf::check has let through, every check still holds at every
\* step of the first session, or will when finish comes to it (Elf::check).
THEOREM CheckInvariant == CheckableFiles => (Spec => []CInv)
<1> SUFFICES ASSUME CheckableFiles PROVE Spec => []CInv
  OBVIOUS
<1>1. LinkedFiles
  BY DEF CheckableFiles
<1>2. Ordinary
  BY <1>1 DEF LinkedFiles, LinkedFile, Ordinary
<1>3. Init => CInv
  BY InitCheck
<1>4. TInv /\ TInv' /\ FInv /\ LInv /\ LInv' /\ CInv /\ [Next]_vars => CInv'
  BY NextCheck
<1>5. (Spec => []FInv) /\ (Spec => []LInv)
  BY <1>1, <1>2, FirstSessionInvariant, LoaderInvariant
<1> QED
  BY <1>3, <1>4, <1>5, PatcherTypes, PTL DEF Spec

\* The first finish does not refuse what the calls made of the file, and no call
\* panics: the only way to fail is that a place or an end, of an allocation or of
\* a table, finds no room in a word.  In particular the walk of allocate_space
\* always has an event to end at (Elf::check, get_name_offset, allocate_space).
THEOREM OnlyRoomRunsOut ==
  CheckableFiles =>
    (Spec => [](sessions <= 1 =>
                  /\ pc # "failed" => NeverRejected
                  /\ InCalls => FileEvents(sections, segments) # {}))
<1> SUFFICES ASSUME CheckableFiles
             PROVE  Spec => [](sessions <= 1 =>
                                 /\ pc # "failed" => NeverRejected
                                 /\ InCalls => FileEvents(sections, segments)
                                                 # {})
  OBVIOUS
<1>1. LinkedFiles
  BY DEF CheckableFiles
<1>2. TInv /\ LInv /\ CInv
        => (sessions <= 1 =>
              /\ pc # "failed" => NeverRejected
              /\ InCalls => FileEvents(sections, segments) # {})
  BY WalkHasEvents DEF CInv, LInv, NeverRejected, InCalls
<1>3. (Spec => []LInv) /\ (Spec => []CInv)
  BY <1>1, LoaderInvariant, CheckInvariant
<1> QED
  BY <1>2, <1>3, PatcherTypes, PTL
===============================================================================
