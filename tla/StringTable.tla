----------------------------- MODULE StringTable ------------------------------
(***************************************************************************)
(* A table of NUL-terminated strings (src/strings.rs) that grows at its    *)
(* end.  Other tables refer to a string by its offset, so that what counts *)
(* is what reads back from an offset, now and after later insertions.      *)
(*                                                                         *)
(* The search compares one byte per step: i and j are the variables of the *)
(* loop.  A byte is NUL or a member of Chars.                              *)
(***************************************************************************)
EXTENDS Integers, Sequences

CONSTANTS
  Chars,    \* the bytes other than NUL,
  Strings,  \* the strings a client looks up and inserts, without the NUL,
  Tables    \* and the bytes tables are made of

NUL == 0

Byte == Chars \cup {NUL}

ASSUME StringTableAssumption ==
  /\ NUL \notin Chars
  /\ Strings \subseteq Seq(Chars)
  /\ Tables \subseteq Seq(Byte)

None == -1

VARIABLES
  strings,    \* the bytes of the table
  needle,     \* the string that is searched, with its NUL
  i, j,       \* the loop: bytes of the table and of the string
  inserting,  \* insert is the caller of get_offset
  offset,     \* the result of the last call
  search      \* "no" before the first call, "on", "over"

tableVars == <<strings, needle, i, j, inserting, offset, search>>

(***************************************************************************)
(* get_string and From<Vec<u8>>.                                           *)
(***************************************************************************)

\* The positions of the NULs that end what is read at offset o.
Ends(table, o) == {e \in o + 1 .. Len(table) : table[e] = NUL}

Readable(table, o) == Ends(table, o) # {}

\* The string at an offset from which a NUL follows.
GetString(table, o) ==
  LET end == CHOOSE e \in Ends(table, o) : \A f \in Ends(table, o) : e <= f
  IN  SubSeq(table, o + 1, end - 1)

\* From a vector: with a NUL at both ends.
Normalised(bytes) ==
  LET first == IF bytes = <<>> \/ bytes[1] # NUL THEN <<NUL>> \o bytes
               ELSE bytes
  IN  IF first[Len(first)] # NUL THEN Append(first, NUL) ELSE first

(***************************************************************************)
(* get_offset and insert.                                                  *)
(***************************************************************************)

\* A table is read from a file as it is, or made from a vector.  An empty one is
\* refused by the debug assertions of both operations.
StringTableInit ==
  /\ \E bytes \in Tables : strings \in {bytes, Normalised(bytes)} \ {<<>>}
  /\ needle = <<NUL>>
  /\ i = 0 /\ j = 0
  /\ inserting = FALSE
  /\ offset = None
  /\ search = "no"

BeginSearch(string) ==
  /\ needle' = Append(string, NUL)
  /\ i' = 0 /\ j' = 0
  /\ search' = "on"
  /\ UNCHANGED <<strings, offset>>

GetOffset(string) ==
  /\ search # "on"
  /\ BeginSearch(string)
  /\ inserting' = FALSE

Insert(string) ==
  /\ search # "on"
  /\ BeginSearch(string)
  /\ inserting' = TRUE

Matches == strings[i + 1] = needle[j + 1]

\* The loop without its last assignment: j stays where it is after a mismatch.
CompareOn ==
  /\ search = "on"
  /\ i < Len(strings)
  /\ ~(Matches /\ j + 1 = Len(needle))
  /\ i' = i + 1
  /\ j' = IF Matches THEN j + 1 ELSE j
  /\ UNCHANGED <<strings, needle, inserting, offset, search>>

\* One turn of the loop that does not end it.  After a mismatch the search
\* goes on behind the byte, which is not compared to the first byte again.
Compare ==
  /\ search = "on"
  /\ i < Len(strings)
  /\ ~(Matches /\ j + 1 = Len(needle))
  /\ i' = i + 1
  /\ j' = IF Matches THEN j + 1 ELSE 0
  /\ UNCHANGED <<strings, needle, inserting, offset, search>>

\* The last byte matches.
Found ==
  /\ search = "on"
  /\ i < Len(strings)
  /\ Matches /\ j + 1 = Len(needle)
  /\ offset' = i + 1 - Len(needle)
  /\ search' = "over"
  /\ UNCHANGED <<strings, needle, i, j, inserting>>

\* The string is appended without the NUL before it, in place of the last byte.
NotFoundJoined ==
  /\ search = "on"
  /\ i = Len(strings)
  /\ search' = "over"
  /\ IF inserting
     THEN /\ offset' = Len(strings) - 1
          /\ strings' = SubSeq(strings, 1, Len(strings) - 1) \o needle
     ELSE /\ offset' = None
          /\ UNCHANGED strings
  /\ UNCHANGED <<needle, i, j, inserting>>

\* The loop ends in front of the last byte.
NotFoundEarly ==
  /\ search = "on"
  /\ i + 1 = Len(strings)
  /\ search' = "over"
  /\ IF inserting
     THEN /\ offset' = Len(strings)
          /\ strings' = strings \o needle
     ELSE /\ offset' = None
          /\ UNCHANGED strings
  /\ UNCHANGED <<needle, i, j, inserting>>

\* The loop is over: get_offset has found nothing, and insert appends.
NotFound ==
  /\ search = "on"
  /\ i = Len(strings)
  /\ search' = "over"
  /\ IF inserting
     THEN /\ offset' = Len(strings)
          /\ strings' = strings \o needle
     ELSE /\ offset' = None
          /\ UNCHANGED strings
  /\ UNCHANGED <<needle, i, j, inserting>>

SearchStep == Compare \/ Found \/ NotFound

StringTableNext ==
  \/ \E string \in Strings : GetOffset(string) \/ Insert(string)
  \/ SearchStep

StringTableSpec == StringTableInit /\ [][StringTableNext]_tableVars

(***************************************************************************)
(* Properties.                                                             *)
(***************************************************************************)

Needles == {Append(s, NUL) : s \in Strings}

StringTableTypeOK ==
  /\ strings \in Seq(Byte) /\ strings # <<>>
  /\ needle \in Needles \cup {<<NUL>>}
  /\ i \in 0 .. Len(strings)
  /\ j \in 0 .. Len(needle) - 1
  /\ inserting \in BOOLEAN
  /\ offset \in {None} \cup 0 .. Len(strings) - 1
  /\ search \in {"no", "on", "over"}

\* The offset that get_offset or insert returns reads back as the string that
\* was given, and not as a longer or a shorter one, whatever matched in part on
\* the way and whatever bytes the table was read with.
ReadsBack ==
  search = "over" /\ offset # None =>
    /\ Readable(strings, offset)
    /\ Append(GetString(strings, offset), NUL) = needle

\* A string starts at o: at the start of the table or behind a NUL.
IsEntry(table, o, string) ==
  /\ o + Len(string) <= Len(table)
  /\ o = 0 \/ table[o] = NUL
  /\ \A k \in 1 .. Len(string) : table[o + k] = string[k]

\* get_offset finds each string that has an entry of its own, as every string
\* has that insert has added: partial matches before it do not hide it.
EntriesFound ==
  search = "over" /\ offset = None =>
    ~ \E o \in 0 .. Len(strings) - 1 : IsEntry(strings, o, needle)

\* A table never gets a second entry for a string: insert appends only what has
\* no entry.
NoSecondEntry ==
  [][strings' # strings =>
       ~ \E o \in 0 .. Len(strings) - 1 : IsEntry(strings, o, needle)]_tableVars

\* An offset that read as a string once reads as the same string for ever: what
\* other tables refer to is not moved, cut or extended by an insertion.
OffsetsStay ==
  [][\A o \in 0 .. Len(strings) - 1 :
       Readable(strings, o) =>
         /\ Readable(strings', o)
         /\ GetString(strings', o) = GetString(strings, o)]_tableVars

\* insert does nothing if the string is already in the table (src/strings.rs:27).
\* A string at the end of a longer one is in the table, as it reads from there,
\* but is not found where it overlaps a partial match of itself.
PresentIsFound ==
  [][strings' # strings =>
       ~ \E o \in 0 .. Len(strings) - 1 :
           Readable(strings, o) /\ Append(GetString(strings, o), NUL) = needle
    ]_tableVars
===============================================================================
