------------------------- MODULE DynamicSectionProofs -------------------------
(***************************************************************************)
(* What holds of StringTable for every table and every sequence of calls,  *)
(* and of DynamicSection for any files, strings, tags, addresses and any   *)
(* number of calls.  The patcher uses its string table only as StringTable *)
(* says, so that the theorems about it hold of its calls; the symbols of   *)
(* the dynamic table follow it wherever it goes; the table says where the  *)
(* string table is, and ends where the section and the segment say; and    *)
(* the calls implement TagStore.                                           *)
(***************************************************************************)
EXTENDS DynamicSection, FiniteSetTheorems, SequenceTheorems, WellFoundedInduction, TLAPS

(***************************************************************************)
(* StringTable.                                                            *)
(***************************************************************************)

USE StringTableAssumption

\* A string with its NUL: no other byte of it is a NUL.
IsNeedle(s) ==
  /\ s \in Seq(Byte)
  /\ Len(s) \in Nat \ {0}
  /\ \A k \in 1 .. Len(s) : s[k] = NUL <=> k = Len(s)

\* Every string a client may give is one.
LEMMA NeedleShape ==
  ASSUME NEW s \in Needles \cup {<<NUL>>}
  PROVE  IsNeedle(s)
<1>1. CASE s = <<NUL>>
  BY <1>1 DEF IsNeedle, Byte, NUL
<1>2. CASE s \in Needles
  <2>1. PICK t \in Strings : s = Append(t, NUL)
    BY <1>2 DEF Needles
  <2>2. t \in Seq(Chars)
    BY <2>1
  <2>3. /\ Len(s) = Len(t) + 1
        /\ \A k \in 1 .. Len(t) : s[k] = t[k] /\ t[k] \in Chars
        /\ s[Len(t) + 1] = NUL
        /\ Len(t) \in Nat
    BY <2>1, <2>2 DEF NUL
  <2>4. s \in Seq(Byte)
    BY <2>1, <2>2 DEF Byte, NUL
  <2> QED
    BY <2>3, <2>4 DEF IsNeedle
<1> QED
  BY <1>1, <1>2

\* What matches a string byte by byte reads back as that string.
LEMMA MatchReadsBack ==
  ASSUME NEW chars \in Seq(Byte), NEW o \in Nat, NEW s, IsNeedle(s),
         o + Len(s) <= Len(chars),
         \A k \in 1 .. Len(s) : chars[o + k] = s[k]
  PROVE  /\ Readable(chars, o)
         /\ Append(GetString(chars, o), NUL) = s
<1> DEFINE n == Len(s)
           end == CHOOSE e \in Ends(chars, o) :
                    \A f \in Ends(chars, o) : e <= f
<1>1. n \in Nat \ {0} /\ s \in Seq(Byte) /\ Len(chars) \in Nat
  BY DEF IsNeedle
<1>2. o + n \in Ends(chars, o)
  BY <1>1 DEF Ends, IsNeedle
<1>3. \A f \in Ends(chars, o) : o + n <= f
  <2> SUFFICES ASSUME NEW f \in Ends(chars, o), f < o + n
               PROVE  FALSE
    BY <1>1 DEF Ends
  <2>1. f - o \in 1 .. n /\ f - o # n /\ chars[o + (f - o)] = NUL
    BY <1>1 DEF Ends
  <2> QED
    BY <2>1 DEF IsNeedle
<1>4. end = o + n
  <2>1. \E e \in Ends(chars, o) : \A f \in Ends(chars, o) : e <= f
    BY <1>2, <1>3
  <2>2. end \in Ends(chars, o) /\ \A f \in Ends(chars, o) : end <= f
    BY <2>1
  <2>3. end \in Int
    BY <1>1, <2>2 DEF Ends
  <2> QED
    BY <1>1, <1>2, <1>3, <2>2, <2>3
<1>5. GetString(chars, o) = SubSeq(chars, o + 1, end - 1)
  BY DEF GetString
<1> HIDE DEF n, end
<1> DEFINE r == SubSeq(chars, o + 1, o + n - 1)
<1>6. /\ r \in Seq(Byte)
      /\ Len(r) = n - 1
      /\ \A k \in 1 .. n - 1 : r[k] = chars[o + k]
  <2>1. \A k \in o + 1 .. o + n - 1 : chars[k] \in Byte
    BY <1>1 DEF n
  <2>2. \A m, l \in Int :
          (\A k \in m .. l : chars[k] \in Byte) =>
            /\ SubSeq(chars, m, l) \in Seq(Byte)
            /\ Len(SubSeq(chars, m, l)) = IF m <= l THEN l - m + 1 ELSE 0
            /\ \A k \in 1 .. l - m + 1 :
                 SubSeq(chars, m, l)[k] = chars[m + k - 1]
    BY ONLY SubSeqProperties
  <2>3. o + 1 \in Int /\ o + n - 1 \in Int
    BY <1>1
  <2> QED
    BY <1>1, <2>1, <2>2, <2>3
<1> HIDE DEF r
<1>7. /\ Append(r, NUL) \in Seq(Byte)
      /\ Len(Append(r, NUL)) = n
      /\ \A k \in 1 .. n - 1 : Append(r, NUL)[k] = chars[o + k]
      /\ Append(r, NUL)[n] = NUL
  BY <1>1, <1>6 DEF Byte
<1>8. ASSUME NEW k \in 1 .. n PROVE Append(r, NUL)[k] = s[k]
  <2>1. CASE k = n
    <3>1. s[n] = NUL
      BY <1>1 DEF IsNeedle, n
    <3> QED
      BY <1>7, <2>1, <3>1
  <2>2. CASE k # n
    <3>1. k \in 1 .. n - 1
      BY <1>1, <2>2
    <3> QED
      BY <1>7, <3>1 DEF n
  <2> QED
    BY <2>1, <2>2
<1>9. Append(r, NUL) = s
  BY <1>1, <1>7, <1>8, SeqEqual, Zenon DEF n
<1> QED
  BY <1>2, <1>4, <1>5, <1>9 DEF Readable, r, n

\* A set of positions has a first one.
LEMMA LeastPosition ==
  ASSUME NEW S, S \subseteq Nat, S # {}
  PROVE  \E e \in S : \A f \in S : e <= f
<1> DEFINE Less == {ss \in Nat \X Nat : ss[1] < ss[2]}
<1>1. IsWellFoundedOn(Less, Nat)
  BY NatLessThanWellFounded, Zenon DEF OpToRel
<1> HIDE DEF Less
<1>2. \A R, T, U : IsWellFoundedOn(R, T) /\ U \subseteq T /\ U # {} =>
        \E e \in U : \A f \in U : ~(<<f, e>> \in R)
  BY ONLY WFMin
<1>3. \E e \in S : \A f \in S : ~(<<f, e>> \in Less)
  BY <1>1, <1>2, Zenon
<1>4. ASSUME NEW e \in S, NEW f \in S, f < e PROVE <<f, e>> \in Less
  <2>1. e \in Nat /\ f \in Nat
    OBVIOUS
  <2> QED
    BY <1>4, <2>1 DEF Less
<1>5. \A e, f \in S : ~(f < e) => e <= f
  OBVIOUS
<1> QED
  BY <1>3, <1>4, <1>5, Zenon

\* Bytes behind the end of a table change nothing that reads from it.
LEMMA ExtensionKeeps ==
  ASSUME NEW chars \in Seq(Byte), NEW more \in Seq(Byte), NEW o \in Nat,
         Readable(chars, o)
  PROVE  /\ Readable(chars \o more, o)
         /\ GetString(chars \o more, o) = GetString(chars, o)
<1> DEFINE long == chars \o more
           first(t) == CHOOSE e \in Ends(t, o) :
                         \A f \in Ends(t, o) : e <= f
<1>1. /\ long \in Seq(Byte)
      /\ Len(long) = Len(chars) + Len(more)
      /\ \A k \in 1 .. Len(chars) : long[k] = chars[k]
      /\ Len(chars) \in Nat /\ Len(more) \in Nat
  OBVIOUS
<1> HIDE DEF long
<1>2. Ends(chars, o) \subseteq Ends(long, o)
  BY <1>1 DEF Ends
<1>3. \A e \in Ends(long, o) : e <= Len(chars) => e \in Ends(chars, o)
  BY <1>1 DEF Ends
<1>4. PICK e \in Ends(chars, o) : \A f \in Ends(chars, o) : e <= f
  <2>1. Ends(chars, o) # {} /\ Ends(chars, o) \subseteq Nat
    BY <1>1 DEF Readable, Ends
  <2> QED
    BY <2>1, LeastPosition
<1>5. e \in Ends(long, o) /\ \A f \in Ends(long, o) : e <= f
  <2>1. e \in o + 1 .. Len(chars)
    BY <1>4 DEF Ends
  <2>2. ASSUME NEW f \in Ends(long, o) PROVE e <= f
    <3>1. f \in Nat
      BY <1>1 DEF Ends
    <3> QED
      BY <1>1, <1>3, <1>4, <2>1, <3>1
  <2> QED
    BY <1>2, <1>4, <2>2
<1>6. first(chars) = e /\ first(long) = e
  <2>1. \A t \in {chars, long} : e \in Ends(t, o) /\ \A f \in Ends(t, o) : e <= f
    BY <1>4, <1>5
  <2>2. \A t \in {chars, long} :
          first(t) \in Ends(t, o) /\ \A f \in Ends(t, o) : first(t) <= f
    BY <2>1
  <2>3. \A t \in {chars, long} : Ends(t, o) \subseteq Int
    BY <1>1 DEF Ends
  <2> HIDE DEF first
  <2>4. ASSUME NEW t \in {chars, long} PROVE first(t) = e
    <3>1. first(t) <= e /\ e <= first(t) /\ first(t) \in Int /\ e \in Int
      BY <2>1, <2>2, <2>3
    <3> QED
      BY <3>1
  <2> QED
    BY <2>4
<1>7. /\ GetString(chars, o) = SubSeq(chars, o + 1, first(chars) - 1)
      /\ GetString(long, o) = SubSeq(long, o + 1, first(long) - 1)
  BY DEF GetString
<1>8. SubSeq(long, o + 1, e - 1) = SubSeq(chars, o + 1, e - 1)
  <2> DEFINE l == e - 1
  <2>1. l \in Nat /\ o <= l /\ l <= Len(chars)
    BY <1>1, <1>4 DEF Ends
  <2>2. \A t \in {chars, long} : \A k \in o + 1 .. l :
          t[k] \in Byte /\ t[k] = chars[k]
    BY <1>1, <2>1
  <2>3. \A t \in {chars, long} : \A m, n \in Int :
          (\A k \in m .. n : t[k] \in Byte) =>
            /\ SubSeq(t, m, n) \in Seq(Byte)
            /\ Len(SubSeq(t, m, n)) = IF m <= n THEN n - m + 1 ELSE 0
            /\ \A k \in 1 .. n - m + 1 : SubSeq(t, m, n)[k] = t[m + k - 1]
    BY ONLY SubSeqProperties
  <2> HIDE DEF l
  <2>4. \A t \in {chars, long} :
          /\ SubSeq(t, o + 1, l) \in Seq(Byte)
          /\ Len(SubSeq(t, o + 1, l)) = l - o
          /\ \A k \in 1 .. l - o : SubSeq(t, o + 1, l)[k] = chars[o + k]
    BY <2>1, <2>2, <2>3
  <2>5. SubSeq(long, o + 1, l) = SubSeq(chars, o + 1, l)
    BY <2>1, <2>4, SeqEqual
  <2> QED
    BY <2>5 DEF l
<1>9. Readable(long, o)
  BY <1>5 DEF Readable
<1> QED
  BY <1>6, <1>7, <1>8, <1>9 DEF long

(***************************************************************************)
(* The inductive invariant.  While a search is on, the last j bytes match  *)
(* the first j of the string, and nothing that starts an entry has been    *)
(* left behind: j counts the bytes of the entry the search is in.          *)
(***************************************************************************)

Partial ==
  search = "on" =>
    /\ j <= i
    /\ \A k \in 1 .. j : strings[i - j + k] = needle[k]

NoneBehind ==
  search = "on" =>
    \A o \in 0 .. Len(strings) - 1 :
      IsEntry(strings, o, needle) /\ o <= i =>
        j = i - o /\ i < o + Len(needle)

IInv ==
  /\ StringTableTypeOK
  /\ Partial
  /\ NoneBehind
  /\ ReadsBack
  /\ EntriesFound

LEMMA InitInv == StringTableInit => IInv
<1> SUFFICES ASSUME StringTableInit PROVE IInv
  OBVIOUS
<1>1. strings \in Seq(Byte) /\ strings # <<>>
  <2>1. PICK bytes \in Tables : strings \in {bytes, Normalised(bytes)} \ {<<>>}
    BY DEF StringTableInit
  <2>2. bytes \in Seq(Byte) /\ NUL \in Byte
    BY DEF Byte
  <2> DEFINE one == IF bytes = <<>> \/ bytes[1] # NUL THEN <<NUL>> \o bytes
                    ELSE bytes
  <2>3. one \in Seq(Byte) /\ one # <<>>
    BY <2>2
  <2> HIDE DEF one
  <2>4. Append(one, NUL) \in Seq(Byte)
    BY <2>2, <2>3
  <2>5. Normalised(bytes) = IF one[Len(one)] # NUL THEN Append(one, NUL)
                            ELSE one
    BY DEF Normalised, one
  <2> QED
    BY <2>1, <2>2, <2>3, <2>4, <2>5
<1>2. Len(<<NUL>>) = 1 /\ Len(strings) \in Nat
  BY <1>1
<1>3. StringTableTypeOK
  <2>1. i \in 0 .. Len(strings) /\ j \in 0 .. Len(needle) - 1
    BY <1>2 DEF StringTableInit
  <2>2. offset \in {None} \cup 0 .. Len(strings) - 1
    BY DEF StringTableInit
  <2>3. needle \in Needles \cup {<<NUL>>} /\ inserting \in BOOLEAN
        /\ search \in {"no", "on", "over"}
    BY DEF StringTableInit
  <2> QED
    BY <1>1, <2>1, <2>2, <2>3 DEF StringTableTypeOK
<1> QED
  BY <1>3 DEF IInv, StringTableInit, Partial, NoneBehind, ReadsBack,
              EntriesFound

\* A call starts the loop at the start of the table and of the string.
LEMMA BeginInv ==
  ASSUME IInv, NEW string \in Strings, BeginSearch(string),
         inserting' \in BOOLEAN
  PROVE  IInv'
<1>1. needle' \in Needles
  BY DEF BeginSearch, Needles
<1>2. IsNeedle(needle')
  BY <1>1, NeedleShape
<1>3. StringTableTypeOK'
  <2>1. i' \in 0 .. Len(strings') /\ j' \in 0 .. Len(needle') - 1
    BY <1>2 DEF BeginSearch, IInv, StringTableTypeOK, IsNeedle
  <2> QED
    BY <1>1, <2>1 DEF BeginSearch, IInv, StringTableTypeOK
<1>4. Partial'
  BY DEF BeginSearch, Partial
<1>5. NoneBehind'
  BY <1>2 DEF BeginSearch, NoneBehind, IsNeedle
<1> QED
  BY <1>3, <1>4, <1>5 DEF IInv, BeginSearch, ReadsBack, EntriesFound

\* One turn of the loop.
LEMMA CompareInv ==
  ASSUME IInv, Compare
  PROVE  IInv'
<1>1. /\ strings \in Seq(Byte) /\ Len(strings) \in Nat
      /\ i \in Nat /\ j \in Nat /\ j + 1 <= Len(needle) /\ i < Len(strings)
      /\ IsNeedle(needle)
  BY NeedleShape DEF IInv, StringTableTypeOK, Compare
<1>2. /\ strings' = strings /\ needle' = needle /\ i' = i + 1
      /\ j' = IF Matches THEN j + 1 ELSE 0
      /\ search' = "on" /\ search = "on"
      /\ Matches => j + 1 # Len(needle)
  BY DEF Compare
<1>3. StringTableTypeOK'
  <2>1. i' \in 0 .. Len(strings') /\ j' \in 0 .. Len(needle') - 1
    BY <1>1, <1>2 DEF IsNeedle
  <2> QED
    BY <1>2, <2>1 DEF Compare, IInv, StringTableTypeOK
<1>4. Partial'
  <2>1. CASE Matches
    <3>1. j <= i /\ \A k \in 1 .. j : strings[i - j + k] = needle[k]
      BY <1>2 DEF IInv, Partial
    <3>2. ASSUME NEW k \in 1 .. j + 1
          PROVE  strings[(i + 1) - (j + 1) + k] = needle[k]
      <4>1. (i + 1) - (j + 1) + k = i - j + k
        BY <1>1
      <4>2. CASE k = j + 1
        <5>1. i - j + k = i + 1
          BY <1>1, <4>2
        <5> QED
          BY <2>1, <4>1, <4>2, <5>1 DEF Matches
      <4>3. CASE k # j + 1
        <5>1. k \in 1 .. j
          BY <1>1, <4>3
        <5> QED
          BY <3>1, <4>1, <5>1
      <4> QED
        BY <4>2, <4>3
    <3>3. \A k \in 1 .. j + 1 : strings[(i + 1) - (j + 1) + k] = needle[k]
      BY <3>2, Zenon
    <3>4. /\ i' = i + 1 /\ j' = j + 1
          /\ strings' = strings /\ needle' = needle
      BY <1>2, <2>1
    <3>5. \A k \in 1 .. j' : strings'[i' - j' + k] = needle'[k]
      BY ONLY <3>3, <3>4
    <3>6. j' <= i'
      BY <1>1, <3>1, <3>4
    <3> QED
      BY <3>5, <3>6, Zenon DEF Partial
  <2>2. CASE ~Matches
    BY <1>1, <1>2, <2>2 DEF Partial
  <2> QED
    BY <2>1, <2>2
<1>5. NoneBehind'
  <2> SUFFICES ASSUME NEW o \in 0 .. Len(strings') - 1,
                      IsEntry(strings', o, needle'), o <= i'
               PROVE  j' = i' - o /\ i' < o + Len(needle')
    BY DEF NoneBehind
  <2>1. /\ o \in 0 .. Len(strings) - 1 /\ o <= i + 1
        /\ IsEntry(strings, o, needle)
    BY <1>2 DEF IsEntry
  <2>2. CASE o <= i
    <3>1. j = i - o /\ i < o + Len(needle)
      BY <1>2, <2>1, <2>2 DEF IInv, NoneBehind
    <3>2. strings[o + (j + 1)] = needle[j + 1]
      <4>1. j + 1 \in 1 .. Len(needle)
        BY <1>1, <2>1, <3>1
      <4> QED
        BY <2>1, <4>1 DEF IsEntry
    <3>3. Matches
      BY <1>1, <3>1, <3>2 DEF Matches
    <3> QED
      BY <1>1, <1>2, <2>1, <2>2, <3>1, <3>3 DEF IsNeedle
  <2>3. CASE o = i + 1
    <3>1. strings[i + 1] = NUL
      BY <1>1, <2>1, <2>3 DEF IsEntry
    <3>2. ~Matches
      BY <1>1, <1>2, <3>1 DEF Matches, IsNeedle
    <3> QED
      BY <1>1, <1>2, <2>3, <3>2 DEF IsNeedle
  <2> QED
    BY <1>1, <2>1, <2>2, <2>3
<1> QED
  BY <1>2, <1>3, <1>4, <1>5 DEF IInv, ReadsBack, EntriesFound

\* The last byte matches: the whole string is there.
LEMMA FoundInv ==
  ASSUME IInv, Found
  PROVE  IInv'
<1>1. /\ strings \in Seq(Byte) /\ Len(strings) \in Nat
      /\ i \in Nat /\ j \in Nat /\ i < Len(strings) /\ j <= i
      /\ j + 1 = Len(needle)
      /\ IsNeedle(needle)
  <2>1. IsNeedle(needle)
    BY NeedleShape DEF IInv, StringTableTypeOK
  <2>2. /\ strings \in Seq(Byte) /\ i \in 0 .. Len(strings)
        /\ j \in 0 .. Len(needle) - 1
    BY DEF IInv, StringTableTypeOK
  <2>3. j <= i /\ i < Len(strings) /\ j + 1 = Len(needle)
    BY DEF IInv, Found, Partial
  <2> QED
    BY <2>1, <2>2, <2>3
<1> DEFINE o == i - j
<1>2. o \in 0 .. Len(strings) - 1 /\ o + Len(needle) <= Len(strings)
  BY <1>1
<1>3. \A k \in 1 .. Len(needle) : strings[o + k] = needle[k]
  <2>1. \A k \in 1 .. j : strings[i - j + k] = needle[k]
    BY DEF IInv, Partial, Found
  <2>2. strings[i + 1] = needle[j + 1]
    BY DEF Found, Matches
  <2> QED
    BY <1>1, <2>1, <2>2
<1>4. /\ offset' = o /\ strings' = strings /\ needle' = needle
      /\ search' = "over"
  BY <1>1 DEF Found
<1> HIDE DEF o
<1>5. ReadsBack'
  <2>1. /\ Readable(strings, o)
        /\ Append(GetString(strings, o), NUL) = needle
    <3>1. strings \in Seq(Byte) /\ o \in Nat /\ IsNeedle(needle)
      BY <1>1, <1>2
    <3> QED
      BY <1>2, <1>3, <3>1, MatchReadsBack, Zenon
  <2> QED
    BY <1>4, <2>1 DEF ReadsBack
<1>6. StringTableTypeOK'
  BY <1>2, <1>4 DEF Found, IInv, StringTableTypeOK
<1>7. EntriesFound'
  BY <1>2, <1>4 DEF EntriesFound, None
<1> QED
  BY <1>4, <1>5, <1>6, <1>7 DEF IInv, Partial, NoneBehind

\* The loop ends without a match: what insert appends is found at the old end.
LEMMA NotFoundInv ==
  ASSUME IInv, NotFound
  PROVE  IInv'
<1>1. /\ strings \in Seq(Byte) /\ Len(strings) \in Nat /\ strings # <<>>
      /\ i = Len(strings)
  BY DEF IInv, StringTableTypeOK, NotFound
<1>2. IsNeedle(needle)
  BY NeedleShape DEF IInv, StringTableTypeOK
<1>3. needle' = needle /\ i' = i /\ j' = j /\ search' = "over"
  BY DEF NotFound
<1>4. CASE inserting
  <2>1. offset' = Len(strings) /\ strings' = strings \o needle
    BY <1>4 DEF NotFound
  <2>2. /\ strings' \in Seq(Byte)
        /\ Len(strings') = Len(strings) + Len(needle)
        /\ \A k \in 1 .. Len(needle) : strings'[Len(strings) + k] = needle[k]
        /\ Len(needle) \in Nat \ {0}
    BY <1>1, <1>2, <2>1 DEF IsNeedle
  <2>3. ReadsBack'
    <3>1. /\ Readable(strings', Len(strings))
          /\ Append(GetString(strings', Len(strings)), NUL) = needle
      <4> DEFINE long == strings \o needle
      <4>1. /\ long \in Seq(Byte) /\ Len(strings) \in Nat
            /\ Len(strings) + Len(needle) <= Len(long)
            /\ \A k \in 1 .. Len(needle) : long[Len(strings) + k] = needle[k]
        BY <1>1, <2>1, <2>2
      <4> HIDE DEF long
      <4>2. /\ Readable(long, Len(strings))
            /\ Append(GetString(long, Len(strings)), NUL) = needle
        BY <1>2, <4>1, MatchReadsBack
      <4> QED
        BY <2>1, <4>2 DEF long
    <3> QED
      BY <1>3, <2>1, <3>1 DEF ReadsBack
  <2>4. StringTableTypeOK'
    <3>1. /\ strings' \in Seq(Byte) /\ strings' # <<>>
          /\ i' \in 0 .. Len(strings')
          /\ offset' \in 0 .. Len(strings') - 1
      BY <1>1, <1>3, <2>1, <2>2
    <3> QED
      BY <1>3, <3>1 DEF NotFound, IInv, StringTableTypeOK
  <2>5. EntriesFound'
    BY <1>1, <2>1 DEF EntriesFound, None
  <2> QED
    BY <1>3, <2>3, <2>4, <2>5 DEF IInv, Partial, NoneBehind
<1>5. CASE ~inserting
  <2>1. offset' = None /\ strings' = strings
    BY <1>5 DEF NotFound
  <2>2. StringTableTypeOK'
    BY <1>3, <2>1 DEF NotFound, IInv, StringTableTypeOK
  <2>3. EntriesFound'
    <3>1. ASSUME NEW o \in 0 .. Len(strings) - 1, IsEntry(strings, o, needle)
          PROVE  FALSE
      <4>1. o <= i /\ o + Len(needle) <= i
        BY <1>1, <3>1 DEF IsEntry
      <4>2. i < o + Len(needle)
        BY <3>1, <4>1 DEF IInv, NoneBehind, NotFound
      <4> QED
        BY <1>1, <1>2, <4>1, <4>2 DEF IsNeedle
    <3> QED
      BY <1>3, <2>1, <3>1, Zenon DEF EntriesFound
  <2> QED
    BY <1>3, <2>1, <2>2, <2>3 DEF IInv, Partial, NoneBehind, ReadsBack
<1> QED
  BY <1>4, <1>5

LEMMA StepInv == IInv /\ [StringTableNext]_tableVars => IInv'
<1> SUFFICES ASSUME IInv, [StringTableNext]_tableVars PROVE IInv'
  OBVIOUS
<1>1. ASSUME NEW string \in Strings, GetOffset(string) PROVE IInv'
  BY <1>1, BeginInv DEF GetOffset
<1>2. ASSUME NEW string \in Strings, Insert(string) PROVE IInv'
  BY <1>2, BeginInv DEF Insert
<1>3. CASE SearchStep
  BY <1>3, CompareInv, FoundInv, NotFoundInv DEF SearchStep
<1>4. CASE UNCHANGED tableVars
  BY <1>4 DEF tableVars, IInv, StringTableTypeOK, Partial, NoneBehind,
              ReadsBack, EntriesFound, Matches
<1> QED
  BY <1>1, <1>2, <1>3, <1>4 DEF StringTableNext

\* The invariant holds of every table, read or made, after any calls.
THEOREM TableInvariant == StringTableSpec => []IInv
  BY InitInv, StepInv, PTL DEF StringTableSpec

\* The numbers of the loop stay within the table and the string.
THEOREM TableTypeCorrect == StringTableSpec => []StringTableTypeOK
<1>1. IInv => StringTableTypeOK
  BY DEF IInv
<1> QED
  BY <1>1, TableInvariant, PTL

\* get_offset and insert return where the string reads back, for any bytes.
THEOREM OffsetsReadBack == StringTableSpec => []ReadsBack
<1>1. IInv => ReadsBack
  BY DEF IInv
<1> QED
  BY <1>1, TableInvariant, PTL

\* No entry is missed, whatever matches in part before it.
THEOREM EntriesAreFound == StringTableSpec => []EntriesFound
<1>1. IInv => EntriesFound
  BY DEF IInv
<1> QED
  BY <1>1, TableInvariant, PTL

\* insert never gives a string a second entry.
THEOREM NoStringTwice == StringTableSpec => NoSecondEntry
<1>1. ASSUME IInv, StringTableNext, strings' # strings
      PROVE  ~ \E o \in 0 .. Len(strings) - 1 : IsEntry(strings, o, needle)
  <2>1. NotFound
    BY <1>1 DEF StringTableNext, SearchStep, GetOffset, Insert, BeginSearch,
                Compare, Found
  <2>2. SUFFICES ASSUME NEW o \in 0 .. Len(strings) - 1,
                        IsEntry(strings, o, needle)
                 PROVE  FALSE
    OBVIOUS
  <2>3. o <= i /\ o + Len(needle) <= i /\ i \in Nat /\ Len(needle) \in Nat
    BY <1>1, <2>1, <2>2, NeedleShape
       DEF IInv, StringTableTypeOK, NotFound, IsEntry, IsNeedle
  <2>4. i < o + Len(needle)
    BY <1>1, <2>1, <2>2, <2>3 DEF IInv, NoneBehind, NotFound
  <2> QED
    BY <2>3, <2>4
<1>2. IInv /\ [StringTableNext]_tableVars =>
        [strings' # strings =>
           ~ \E o \in 0 .. Len(strings) - 1 : IsEntry(strings, o, needle)
        ]_tableVars
  BY <1>1, Zenon
<1> QED
  BY <1>2, TableInvariant, PTL DEF StringTableSpec, NoSecondEntry

\* What has been referred to by its offset reads the same for ever.
THEOREM OffsetsAreStable == StringTableSpec => OffsetsStay
<1> DEFINE Kept == \A o \in 0 .. Len(strings) - 1 :
                     Readable(strings, o) =>
                       /\ Readable(strings', o)
                       /\ GetString(strings', o) = GetString(strings, o)
<1>1. ASSUME IInv, StringTableNext PROVE Kept
  <2>1. CASE strings' = strings
    BY <2>1
  <2>2. CASE strings' # strings
    <3>1. strings' = strings \o needle
      BY <1>1, <2>2 DEF StringTableNext, SearchStep, GetOffset, Insert,
                        BeginSearch, Compare, Found, NotFound
    <3>2. strings \in Seq(Byte) /\ needle \in Seq(Byte)
      BY <1>1, NeedleShape DEF IInv, StringTableTypeOK, IsNeedle
    <3>3. \A o \in 0 .. Len(strings) - 1 : o \in Nat
      BY <3>2
    <3> QED
      BY <3>1, <3>2, <3>3, ExtensionKeeps
  <2> QED
    BY <2>1, <2>2
<1>2. IInv /\ [StringTableNext]_tableVars => [Kept]_tableVars
  BY <1>1, Zenon
<1> QED
  BY <1>2, TableInvariant, PTL DEF StringTableSpec, OffsetsStay

(***************************************************************************)
(* The string table as the patcher uses it.                                *)
(***************************************************************************)

\* Where the table in memory is that of the file, and the string of the call.
\* Without the first part ReadStrings could change the table.
LoadedInv ==
  /\ dynstr = [bytes |-> dynstr.bytes, address |-> dynstr.address]
  /\ pc \in {"idle", "read_strings", "place", "symbols"} =>
       strings = dynstr.bytes
  /\ pc \in {"read_strings", "look_up", "search"} => call.string \in Strings

LEMMA InitLoaded == Init => LoadedInv
  BY DEF Init, LoadedInv

\* What a step of the patcher is for the string table.
LEMMA StepLoaded ==
  ASSUME LoadedInv, [Next]_vars
  PROVE  LoadedInv' /\ [StringTableNext]_tableVars
<1>1. ASSUME NEW tag \in Removable, RemoveTag(tag)
      PROVE  LoadedInv' /\ [StringTableNext]_tableVars
  <2>1. UNCHANGED <<tableVars, dynstr, call, pc>>
    BY <1>1 DEF RemoveTag
  <2> QED
    BY <2>1 DEF LoadedInv, tableVars
<1>2. ASSUME NEW tag \in Settable, NEW string \in Strings, SetTag(tag, string)
      PROVE  LoadedInv' /\ [StringTableNext]_tableVars
  <2>1. call'.string = string
    BY <1>2 DEF SetTag
  <2>2. pc = "idle" /\ pc' = "read_strings" /\ UNCHANGED <<tableVars, dynstr>>
    BY <1>2 DEF SetTag
  <2> QED
    BY <2>1, <2>2 DEF LoadedInv, tableVars
<1>3. ASSUME ReadStrings PROVE LoadedInv' /\ [StringTableNext]_tableVars
  <2>1. /\ strings' = strings /\ pc' = "look_up"
        /\ call' = call /\ dynstr' = dynstr
    BY <1>3 DEF ReadStrings, LoadedInv, fileVars
  <2>2. UNCHANGED tableVars
    BY <1>3, <2>1 DEF ReadStrings, tableVars
  <2> QED
    BY <1>3, <2>1, <2>2 DEF ReadStrings, LoadedInv
<1>4. ASSUME LookUp PROVE LoadedInv' /\ [StringTableNext]_tableVars
  <2>1. pc = "look_up" /\ pc' = "search" /\ call' = call /\ dynstr' = dynstr
    BY <1>4 DEF LookUp, fileVars
  <2>2. call.string \in Strings /\ GetOffset(call.string)
    BY <1>4, <2>1 DEF LookUp, LoadedInv
  <2> QED
    BY <2>1, <2>2 DEF LoadedInv, StringTableNext
<1>5. ASSUME Search PROVE LoadedInv' /\ [StringTableNext]_tableVars
  <2>1. /\ pc \in {"search", "insert"} /\ pc' = pc
        /\ call' = call /\ dynstr' = dynstr
    BY <1>5 DEF Search, dynamicVars, fileVars
  <2> QED
    BY <1>5, <2>1 DEF Search, LoadedInv, StringTableNext
<1>6. ASSUME InsertString PROVE LoadedInv' /\ [StringTableNext]_tableVars
  <2>1. /\ pc = "search" /\ pc' = "insert"
        /\ dynstr' = [dynstr EXCEPT !.bytes = << >>]
    BY <1>6 DEF InsertString
  <2>2. dynstr' = [bytes |-> dynstr'.bytes, address |-> dynstr'.address]
    BY <2>1 DEF LoadedInv
  <2>3. call.string \in Strings /\ Insert(call.string)
    BY <1>6, <2>1 DEF InsertString, LoadedInv
  <2> QED
    BY <2>1, <2>2, <2>3 DEF LoadedInv, StringTableNext
<1>7. ASSUME PlaceStrings PROVE LoadedInv' /\ [StringTableNext]_tableVars
  BY <1>7 DEF PlaceStrings, LoadedInv
<1>8. ASSUME UpdateTable PROVE LoadedInv' /\ [StringTableNext]_tableVars
  <2>1. /\ dynstr' = [dynstr EXCEPT !.bytes = strings]
        /\ pc' = "place" /\ UNCHANGED tableVars
    BY <1>8 DEF UpdateTable
  <2>2. /\ dynstr' = [bytes |-> dynstr'.bytes, address |-> dynstr'.address]
        /\ dynstr'.bytes = strings
    BY <2>1 DEF LoadedInv
  <2> QED
    BY <2>1, <2>2 DEF LoadedInv, tableVars
<1>9. ASSUME PlaceTable PROVE LoadedInv' /\ [StringTableNext]_tableVars
  BY <1>9 DEF PlaceTable, LoadedInv, tableVars
<1>10. ASSUME MoveSymbols PROVE LoadedInv' /\ [StringTableNext]_tableVars
  BY <1>10 DEF MoveSymbols, LoadedInv, tableVars
<1>11. ASSUME UNCHANGED vars PROVE LoadedInv' /\ [StringTableNext]_tableVars
  BY <1>11 DEF vars, dynamicVars, fileVars, tableVars, LoadedInv
<1> QED
  BY <1>1, <1>2, <1>3, <1>4, <1>5, <1>6, <1>7, <1>8, <1>9, <1>10, <1>11
  DEF Next, Step

\* Every step of the patcher is a step of the string table or leaves it as it is,
\* for any files and any number of calls: the table that is read again for each
\* call is the one the call before it left.
THEOREM StringTableUsedAsSpecified == Spec => RefinesStringTable
<1>1. Init => StringTableInit
  BY DEF Init
<1>2. Spec => []LoadedInv
  BY InitLoaded, StepLoaded, PTL DEF Spec
<1> QED
  BY <1>1, <1>2, StepLoaded, PTL DEF Spec, RefinesStringTable

LEMMA UsesStringTable == Spec => StringTableSpec
  BY StringTableUsedAsSpecified DEF RefinesStringTable, StringTableSpec

\* The offset that set_dynamic_tag puts in an entry is that of its string.
THEOREM TagsReadBack == Spec => []ReadsBack
  BY UsesStringTable, OffsetsReadBack, PTL

\* A string that has an entry of its own is never inserted once more.
THEOREM PatcherFindsEntries == Spec => []EntriesFound
  BY UsesStringTable, EntriesAreFound, PTL

\* No string gets a second entry, over any number of calls.
THEOREM PatcherInsertsOnce == Spec => NoSecondEntry
  BY UsesStringTable, NoStringTwice

\* No call moves, cuts or extends a string that symbols or entries refer to.
THEOREM PatcherKeepsOffsets == Spec => OffsetsStay
  BY UsesStringTable, OffsetsAreStable

(***************************************************************************)
(* The symbols of the dynamic table.                                       *)
(***************************************************************************)

\* A symbol of the file when the table is at an address.
Moved(symbol, address) ==
  [symbol EXCEPT !.address = IF @ = TableAddress THEN address ELSE @]

\* Where the symbols take the table to be: in the middle of a call that is still
\* where it was before.
Supposed == IF pc = "idle" THEN dynamic.address ELSE call.old

FollowInv ==
  /\ dynamic = [entries |-> dynamic.entries, address |-> dynamic.address]
  /\ dynamic.address \in Addresses \cup {TableAddress}
  /\ Supposed \in Addresses \cup {TableAddress}
  /\ DOMAIN symbols = DOMAIN SymbolTables
  /\ \A k \in DOMAIN SymbolTables :
       /\ DOMAIN symbols[k] = DOMAIN SymbolTables[k]
       /\ \A n \in DOMAIN SymbolTables[k] :
            symbols[k][n] = Moved(SymbolTables[k][n], Supposed)

LEMMA SymbolOfFile ==
  ASSUME NEW k \in DOMAIN SymbolTables, NEW n \in DOMAIN SymbolTables[k]
  PROVE  /\ SymbolTables[k][n] \in Symbol
         /\ SymbolTables[k][n].address \notin Addresses \ {TableAddress}
<1>1. SymbolTables[k] \in Seq(Symbol)
  BY SymbolsAssumption
<1> QED
  BY <1>1, SymbolsAssumption

\* A symbol that is moved twice is where it is moved to last, if nothing else has
\* the address where it was in between.
LEMMA MovedTwice ==
  ASSUME NEW s \in Symbol, NEW a, NEW b, s.address # a \/ a = TableAddress
  PROVE  [Moved(s, a) EXCEPT !.address = IF @ = a THEN b ELSE @] = Moved(s, b)
<1>1. DOMAIN s = {"name_offset", "address", "size", "section_index", "binding",
                  "kind", "visibility"}
      /\ s = [x \in DOMAIN s |-> s[x]]
  BY DEF Symbol
<1>2. CASE s.address = TableAddress
  <2>1. Moved(s, a) = [s EXCEPT !.address = a]
    BY <1>2 DEF Moved
  <2>2. Moved(s, a).address = a
    BY <1>1, <2>1
  <2>3. [[s EXCEPT !.address = a] EXCEPT !.address = b] = [s EXCEPT !.address = b]
    BY <1>1
  <2>4. Moved(s, b) = [s EXCEPT !.address = b]
    BY <1>2 DEF Moved
  <2> QED
    BY <2>1, <2>2, <2>3, <2>4
<1>3. CASE s.address # TableAddress
  <2>1. [s EXCEPT !.address = s.address] = s
    BY <1>1
  <2>2. Moved(s, a) = s /\ Moved(s, b) = s
    BY <1>3, <2>1 DEF Moved
  <2>3. s.address # a
    BY <1>3
  <2> QED
    BY <2>1, <2>2, <2>3
<1> QED
  BY <1>2, <1>3

LEMMA InitFollow == Init => FollowInv
<1> SUFFICES ASSUME Init PROVE FollowInv
  OBVIOUS
<1>1. symbols = SymbolTables /\ pc = "idle"
  BY DEF Init
<1>2. /\ dynamic = [entries |-> dynamic.entries, address |-> dynamic.address]
      /\ dynamic.address = TableAddress
  BY DEF Init
<1>3. ASSUME NEW k \in DOMAIN SymbolTables, NEW n \in DOMAIN SymbolTables[k]
      PROVE  Moved(SymbolTables[k][n], TableAddress) = SymbolTables[k][n]
  <2> DEFINE s == SymbolTables[k][n]
  <2>1. s \in Symbol
    BY SymbolOfFile
  <2>2. s = [x \in DOMAIN s |-> s[x]]
    BY <2>1 DEF Symbol
  <2>3. [s EXCEPT !.address = s.address] = s
    BY <2>2
  <2> QED
    BY <2>3 DEF Moved
<1> QED
  BY <1>1, <1>2, <1>3 DEF FollowInv, Supposed

LEMMA StepFollow ==
  ASSUME FollowInv, [Next]_vars
  PROVE  FollowInv'
<1>1. ASSUME NEW tag \in Removable, RemoveTag(tag) PROVE FollowInv'
  <2>1. /\ pc = "idle" /\ UNCHANGED <<symbols, pc>>
        /\ \E e : dynamic' = [dynamic EXCEPT !.entries = e]
    BY <1>1 DEF RemoveTag
  <2>2. /\ dynamic' = [entries |-> dynamic'.entries, address |-> dynamic'.address]
        /\ dynamic'.address = dynamic.address
    BY <2>1 DEF FollowInv
  <2> QED
    BY <2>1, <2>2 DEF FollowInv, Supposed
<1>2. ASSUME NEW tag \in Settable, NEW string \in Strings, SetTag(tag, string)
      PROVE  FollowInv'
  <2>1. /\ pc = "idle" /\ pc' = "read_strings" /\ UNCHANGED symbols
        /\ dynamic' = [dynamic EXCEPT !.entries = << >>]
        /\ call'.old = dynamic.address
    BY <1>2 DEF SetTag
  <2>2. /\ dynamic' = [entries |-> dynamic'.entries, address |-> dynamic'.address]
        /\ dynamic'.address = dynamic.address
    BY <2>1 DEF FollowInv
  <2> QED
    BY <2>1, <2>2 DEF FollowInv, Supposed
<1>3. ASSUME pc # "idle", pc' # "idle", UNCHANGED <<dynamic, symbols, call>>
      PROVE  FollowInv'
  BY <1>3 DEF FollowInv, Supposed
<1>4. CASE ReadStrings
  BY <1>3, <1>4 DEF ReadStrings, fileVars
<1>5. CASE LookUp
  BY <1>3, <1>5 DEF LookUp, fileVars
<1>6. CASE Search
  BY <1>3, <1>6 DEF Search, dynamicVars, fileVars
<1>7. CASE InsertString
  BY <1>3, <1>7 DEF InsertString
<1>8. CASE PlaceStrings
  BY <1>3, <1>8 DEF PlaceStrings
<1>9. CASE UpdateTable
  BY <1>3, <1>9 DEF UpdateTable
<1>10. CASE PlaceTable
  <2>1. /\ pc = "place" /\ pc' = "symbols" /\ UNCHANGED <<symbols, call>>
        /\ \E e : \E a \in Addresses : dynamic' = [entries |-> e, address |-> a]
    BY <1>10 DEF PlaceTable
  <2> QED
    BY <2>1 DEF FollowInv, Supposed
<1>11. CASE MoveSymbols
  <2>1. /\ pc = "symbols" /\ pc' = "idle" /\ dynamic' = dynamic
        /\ DOMAIN symbols' = DOMAIN symbols
    BY <1>11 DEF MoveSymbols
  <2>2. ASSUME NEW k \in DOMAIN SymbolTables
        PROVE  DOMAIN symbols'[k] = DOMAIN SymbolTables[k]
    BY <1>11, <2>2 DEF MoveSymbols, FollowInv
  <2>3. ASSUME NEW k \in DOMAIN SymbolTables, NEW n \in DOMAIN SymbolTables[k]
        PROVE  symbols'[k][n] = Moved(SymbolTables[k][n], dynamic.address)
    <3>1. symbols'[k][n] = [symbols[k][n] EXCEPT !.address =
                              IF @ = call.old THEN dynamic.address ELSE @]
      BY <1>11, <2>3 DEF MoveSymbols, FollowInv
    <3>2. symbols[k][n] = Moved(SymbolTables[k][n], call.old)
      BY <2>1, <2>3 DEF FollowInv, Supposed
    <3>3. call.old \in Addresses \cup {TableAddress}
      BY <2>1 DEF FollowInv, Supposed
    <3>4. SymbolTables[k][n].address # call.old \/ call.old = TableAddress
      BY <3>3, SymbolOfFile
    <3> QED
      BY <3>1, <3>2, <3>4, SymbolOfFile, MovedTwice
  <2> QED
    BY <2>1, <2>2, <2>3 DEF FollowInv, Supposed
<1>12. CASE UNCHANGED vars
  BY <1>12 DEF vars, dynamicVars, fileVars, FollowInv, Supposed
<1> QED
  BY <1>1, <1>2, <1>4, <1>5, <1>6, <1>7, <1>8, <1>9, <1>10, <1>11, <1>12
  DEF Next, Step

\* Wherever calls move the dynamic table, the symbols for it are at its address
\* and no other symbol has moved.
THEOREM SymbolsAlwaysFollow == Spec => []SymbolsFollow
<1>1. FollowInv => SymbolsFollow
  BY DEF FollowInv, Supposed, Moved, SymbolsFollow, AtRest
<1> QED
  BY <1>1, InitFollow, StepFollow, PTL DEF Spec

HIDE StringTableAssumption

(***************************************************************************)
(* The entries of a table that have one of some tags.                      *)
(***************************************************************************)

\* Induction on numbers and on sequences, for a set that is to have all of them.
LEMMA NumberByNumber ==
  ASSUME NEW T, 0 \in T, \A n \in T \cap Nat : n + 1 \in T
  PROVE  Nat \subseteq T
<1> SUFFICES ASSUME Nat \ T # {} PROVE FALSE
  OBVIOUS
<1>1. PICK n \in Nat \ T : \A m \in Nat \ T : n <= m
  BY LeastPosition
<1>2. n # 0 /\ n - 1 \in Nat /\ n - 1 \notin Nat \ T
  BY <1>1
<1>3. (n - 1) + 1 \in T
  BY <1>2
<1> QED
  BY <1>1, <1>3

LEMMA EntryByEntry ==
  ASSUME NEW E, NEW T, << >> \in T,
         \A s \in T \cap Seq(E) : \A e \in E : Append(s, e) \in T
  PROVE  Seq(E) \subseteq T
<1> DEFINE L == {n \in Nat : \A s \in Seq(E) : Len(s) = n => s \in T}
<1>1. 0 \in L
  BY EmptySeq
<1>2. ASSUME NEW n \in L \cap Nat PROVE n + 1 \in L
  <2> SUFFICES ASSUME NEW s \in Seq(E), Len(s) = n + 1 PROVE s \in T
    OBVIOUS
  <2> DEFINE r == SubSeq(s, 1, n)
  <2>1. r \in Seq(E) /\ Len(r) = n /\ s[n + 1] \in E
    OBVIOUS
  <2>2. s = Append(r, s[n + 1])
    OBVIOUS
  <2> QED
    BY <2>1, <2>2
<1>3. Nat \subseteq L
  <2> HIDE DEF L
  <2> QED
    BY <1>1, <1>2, NumberByNumber, Zenon
<1> QED
  BY <1>3


\* The entries kept of the first n, from those kept of one less.
Kept(kept, s, tags, n) ==
  IF n = 0 THEN << >>
  ELSE IF s[n].tag \in tags THEN Append(kept[n - 1], s[n])
  ELSE kept[n - 1]

KeptOf(s, tags) ==
  CHOOSE kept : kept = [n \in 0 .. Len(s) |-> Kept(kept, s, tags, n)]

LEMMA KeepIs ==
  ASSUME NEW s, NEW tags
  PROVE  Keep(s, tags) = KeptOf(s, tags)[Len(s)]
BY DEF Keep, KeptOf, Kept

\* There is such a function: one for the first n entries grows by one.
LEMMA KeptExists ==
  ASSUME NEW E, NEW s \in Seq(E), NEW tags
  PROVE  /\ KeptOf(s, tags)[0] = << >>
         /\ \A n \in 1 .. Len(s) :
              KeptOf(s, tags)[n] = Kept(KeptOf(s, tags), s, tags, n)
<1> DEFINE Up(g, n) == g = [m \in 0 .. n |-> Kept(g, s, tags, m)]
           L == {n \in Nat : \E g : Up(g, n)}
<1>1. 0 \in L
  <2>1. Up([m \in 0 .. 0 |-> << >>], 0)
    BY DEF Kept
  <2> QED
    BY <2>1
<1>2. ASSUME NEW n \in L PROVE n + 1 \in L
  <2>1. PICK g : Up(g, n)
    OBVIOUS
  <2> DEFINE h == [m \in 0 .. n + 1 |-> Kept(g, s, tags, m)]
  <2>2. n \in Nat
    OBVIOUS
  <2>3. \A m \in 0 .. n : h[m] = g[m]
    BY <2>1, <2>2
  <2>4. ASSUME NEW m \in 0 .. n + 1 PROVE Kept(h, s, tags, m) = Kept(g, s, tags, m)
    <3>1. CASE m = 0
      BY <3>1 DEF Kept
    <3>2. CASE m # 0
      <4>1. m - 1 \in 0 .. n
        BY <2>2, <3>2
      <4>2. h[m - 1] = g[m - 1]
        BY <2>3, <4>1, Zenon
      <4> HIDE DEF h
      <4> QED
        BY <4>2 DEF Kept
    <3> QED
      BY <3>1, <3>2
  <2>5. Up(h, n + 1)
    BY <2>4
  <2>6. n + 1 \in Nat
    BY <2>2
  <2> HIDE DEF h, Up
  <2> QED
    BY <2>5, <2>6
<1>3. Nat \subseteq L
  <2> HIDE DEF L
  <2> QED
    BY <1>1, <1>2, NumberByNumber
<1>4. \E g : Up(g, Len(s))
  <2>1. Len(s) \in L
    BY <1>3
  <2> HIDE DEF Up
  <2> QED
    BY <2>1
<1>5. Up(KeptOf(s, tags), Len(s))
  BY <1>4 DEF KeptOf
<1> HIDE DEF Up
<1> DEFINE f == KeptOf(s, tags)
<1>6. f = [m \in 0 .. Len(s) |-> Kept(f, s, tags, m)]
  BY <1>5 DEF Up
<1>7. Kept(f, s, tags, 0) = << >>
  BY DEF Kept
<1> HIDE DEF f
<1>8. \A m \in 0 .. Len(s) : f[m] = Kept(f, s, tags, m)
  BY <1>6
<1> QED
  BY <1>7, <1>8 DEF f

\* The entries that are kept, one entry of the table after the other.
LEMMA KeepNothing ==
  ASSUME NEW tags
  PROVE  Keep(<< >>, tags) = << >>
BY KeptExists, KeepIs, EmptySeq

LEMMA KeepAppended ==
  ASSUME NEW E, NEW s \in Seq(E), NEW e \in E, NEW tags
  PROVE  Keep(Append(s, e), tags) = IF e.tag \in tags THEN Append(Keep(s, tags), e)
                                    ELSE Keep(s, tags)
<1> DEFINE t == Append(s, e)
           f == KeptOf(s, tags)
           h == KeptOf(t, tags)
           n == Len(s)
<1>1. t \in Seq(E) /\ Len(t) = n + 1 /\ n \in Nat /\ t[n + 1] = e
      /\ \A m \in 1 .. n : t[m] = s[m]
  OBVIOUS
<1>2. Keep(s, tags) = f[n] /\ Keep(t, tags) = h[Len(t)]
  BY KeepIs
<1>3. f[0] = << >> /\ \A m \in 1 .. n : f[m] = Kept(f, s, tags, m)
  BY KeptExists
<1> HIDE DEF t
<1>4. h[0] = << >> /\ \A m \in 1 .. n + 1 : h[m] = Kept(h, t, tags, m)
  BY KeptExists, <1>1
<1> HIDE DEF f, h, n
<1>5. h[n] = f[n]
  <2> DEFINE L == {m \in Nat : m <= n => h[m] = f[m]}
  <2>1. 0 \in L
    BY <1>3, <1>4
  <2>2. ASSUME NEW m \in L PROVE m + 1 \in L
    <3> SUFFICES ASSUME m + 1 <= n PROVE h[m + 1] = f[m + 1]
      OBVIOUS
    <3>1. m \in Nat /\ m + 1 \in 1 .. n /\ m + 1 \in 1 .. n + 1 /\ (m + 1) - 1 = m
          /\ m + 1 # 0
      BY <1>1
    <3>2. h[m] = f[m] /\ t[m + 1] = s[m + 1]
      BY <1>1, <3>1
    <3>3. Kept(h, t, tags, m + 1) = Kept(f, s, tags, m + 1)
      BY <3>1, <3>2 DEF Kept
    <3> QED
      BY <1>3, <1>4, <3>1, <3>3
  <2>3. Nat \subseteq L
    <3> HIDE DEF L
    <3> QED
      BY <2>1, <2>2, NumberByNumber
  <2> QED
    BY <1>1, <2>3
<1>6. h[n + 1] = Kept(h, t, tags, n + 1)
  BY <1>1, <1>4
<1>7. Kept(h, t, tags, n + 1) = IF e.tag \in tags THEN Append(f[n], e) ELSE f[n]
  BY <1>1, <1>5 DEF Kept
<1> QED
  BY <1>1, <1>2, <1>6, <1>7 DEF t

LEMMA KeepType ==
  ASSUME NEW E, NEW s \in Seq(E), NEW tags
  PROVE  /\ Keep(s, tags) \in Seq(E)
         /\ Keep(s, tags) \in Seq({e \in E : e.tag \in tags})
<1> DEFINE F == {e \in E : e.tag \in tags}
           T == {r \in Seq(E) : Keep(r, tags) \in Seq(F)}
<1>1. << >> \in T
  BY KeepNothing, EmptySeq
<1>2. ASSUME NEW r \in T \cap Seq(E), NEW e \in E PROVE Append(r, e) \in T
  <2>1. Keep(r, tags) \in Seq(F) /\ Append(r, e) \in Seq(E)
    OBVIOUS
  <2>2. Keep(Append(r, e), tags) = IF e.tag \in tags THEN Append(Keep(r, tags), e)
                                   ELSE Keep(r, tags)
    BY KeepAppended, ZenonT(60)
  <2>3. e.tag \in tags => Append(Keep(r, tags), e) \in Seq(F)
    BY <2>1
  <2> QED
    BY <2>1, <2>2, <2>3
<1>3. Seq(E) \subseteq T
  <2> HIDE DEF T
  <2> QED
    BY <1>1, <1>2, EntryByEntry
<1>4. Keep(s, tags) \in Seq(F)
  BY <1>3
<1>5. Seq(F) \subseteq Seq(E)
  OBVIOUS
<1> QED
  BY <1>4, <1>5

LEMMA AppendJoined ==
  ASSUME NEW E, NEW s \in Seq(E), NEW t \in Seq(E), NEW e \in E
  PROVE  s \o Append(t, e) = Append(s \o t, e)
  OBVIOUS

\* What is kept of two tables one after the other.
LEMMA KeepJoined ==
  ASSUME NEW E, NEW s \in Seq(E), NEW t \in Seq(E), NEW tags
  PROVE  Keep(s \o t, tags) = Keep(s, tags) \o Keep(t, tags)
<1> DEFINE T == {r \in Seq(E) : Keep(s \o r, tags) = Keep(s, tags) \o Keep(r, tags)}
<1>1. << >> \in T
  <2>1. \A r \in Seq(E) : r \o << >> = r
    OBVIOUS
  <2>2. Keep(s, tags) \in Seq(E)
    BY KeepType
  <2> QED
    BY <2>1, <2>2, KeepNothing, EmptySeq
<1>2. ASSUME NEW r \in T \cap Seq(E), NEW e \in E PROVE Append(r, e) \in T
  <2>1. s \o Append(r, e) = Append(s \o r, e) /\ s \o r \in Seq(E)
        /\ Append(r, e) \in Seq(E)
    OBVIOUS
  <2>2. /\ Keep(Append(s \o r, e), tags) = IF e.tag \in tags
                                           THEN Append(Keep(s \o r, tags), e)
                                           ELSE Keep(s \o r, tags)
        /\ Keep(Append(r, e), tags) = IF e.tag \in tags THEN Append(Keep(r, tags), e)
                                      ELSE Keep(r, tags)
    <3> DEFINE x == s \o r
    <3>1. x \in Seq(E) /\ r \in Seq(E) /\ e \in E
      BY <2>1
    <3> HIDE DEF x, T
    <3>2. Keep(Append(x, e), tags) = IF e.tag \in tags THEN Append(Keep(x, tags), e)
                                     ELSE Keep(x, tags)
      BY <3>1, KeepAppended
    <3>3. Keep(Append(r, e), tags) = IF e.tag \in tags THEN Append(Keep(r, tags), e)
                                     ELSE Keep(r, tags)
      BY <3>1, KeepAppended
    <3> QED
      BY <3>2, <3>3 DEF x
  <2>3. Keep(s, tags) \in Seq(E) /\ Keep(r, tags) \in Seq(E)
    BY KeepType
  <2>4. Keep(s, tags) \o Append(Keep(r, tags), e) = Append(Keep(s, tags) \o Keep(r, tags), e)
    BY <2>3, AppendJoined
  <2>5. Keep(s \o r, tags) = Keep(s, tags) \o Keep(r, tags)
    OBVIOUS
  <2> HIDE DEF T
  <2>6. Keep(s \o Append(r, e), tags) = Keep(s, tags) \o Keep(Append(r, e), tags)
    BY <2>1, <2>2, <2>4, <2>5
  <2> QED
    BY <2>1, <2>6 DEF T
<1>3. Seq(E) \subseteq T
  <2> HIDE DEF T
  <2> QED
    BY <1>1, <1>2, EntryByEntry
<1> QED
  BY <1>3

\* What is kept of what has been kept.
LEMMA KeepTwice ==
  ASSUME NEW E, NEW s \in Seq(E), NEW tags, NEW others
  PROVE  Keep(Keep(s, tags), others) = Keep(s, tags \cap others)
<1> DEFINE T == {r \in Seq(E) : Keep(Keep(r, tags), others) = Keep(r, tags \cap others)}
<1>1. << >> \in T
  BY KeepNothing, EmptySeq
<1>2. ASSUME NEW r \in T \cap Seq(E), NEW e \in E PROVE Append(r, e) \in T
  <2> DEFINE x == Keep(r, tags)
             both == tags \cap others
  <2>1. /\ x \in Seq(E) /\ r \in Seq(E) /\ Append(r, e) \in Seq(E)
        /\ Keep(x, others) = Keep(r, both)
        /\ e.tag \in both <=> e.tag \in tags /\ e.tag \in others
    <3>1. Keep(r, tags) \in Seq(E)
      BY KeepType
    <3>2. r \in Seq(E) /\ Append(r, e) \in Seq(E)
      OBVIOUS
    <3>3. Keep(x, others) = Keep(r, both)
      OBVIOUS
    <3>4. e.tag \in both <=> e.tag \in tags /\ e.tag \in others
      OBVIOUS
    <3> QED
      BY <3>1, <3>2, <3>3, <3>4
  <2> HIDE DEF x, both, T
  <2>2. Keep(Append(x, e), others) = IF e.tag \in others
                                     THEN Append(Keep(x, others), e)
                                     ELSE Keep(x, others)
    BY <2>1, KeepAppended
  <2>3. Keep(Append(r, e), tags) = IF e.tag \in tags THEN Append(x, e) ELSE x
    BY <2>1, KeepAppended DEF x
  <2>4. Keep(Append(r, e), both) = IF e.tag \in both THEN Append(Keep(r, both), e)
                                   ELSE Keep(r, both)
    BY <2>1, KeepAppended
  <2>5. Keep(Keep(Append(r, e), tags), others) = Keep(Append(r, e), both)
    <3>1. CASE e.tag \in tags
      <4>1. Keep(Append(r, e), tags) = Append(x, e)
        BY <2>3, <3>1
      <4>2. Keep(Append(x, e), others) = Keep(Append(r, e), both)
        BY <2>1, <2>2, <2>4, <3>1
      <4> QED
        BY <4>1, <4>2, Zenon
    <3>2. CASE e.tag \notin tags
      <4>1. Keep(Append(r, e), tags) = x
        BY <2>3, <3>2
      <4>2. Keep(x, others) = Keep(Append(r, e), both)
        BY <2>1, <2>4, <3>2
      <4> QED
        BY <4>1, <4>2, Zenon
    <3> QED
      BY <3>1, <3>2
  <2> QED
    BY <2>1, <2>5, Zenon DEF T, both
<1>3. Seq(E) \subseteq T
  <2> HIDE DEF T
  <2> QED
    BY <1>1, <1>2, EntryByEntry
<1> QED
  BY <1>3

\* Only the tags the table has matter.
LEMMA KeepAgrees ==
  ASSUME NEW E, NEW s \in Seq(E), NEW tags, NEW others,
         \A n \in 1 .. Len(s) : s[n].tag \in tags <=> s[n].tag \in others
  PROVE  Keep(s, tags) = Keep(s, others)
<1> DEFINE P(r) == \A n \in 1 .. Len(r) : r[n].tag \in tags <=> r[n].tag \in others
           T == {r \in Seq(E) : P(r) => Keep(r, tags) = Keep(r, others)}
<1>1. << >> \in T
  BY KeepNothing, EmptySeq
<1>2. ASSUME NEW r \in T \cap Seq(E), NEW e \in E PROVE Append(r, e) \in T
  <2>1. ASSUME P(Append(r, e)) PROVE P(r) /\ (e.tag \in tags <=> e.tag \in others)
    <3>1. Len(Append(r, e)) = Len(r) + 1 /\ Append(r, e)[Len(r) + 1] = e
          /\ Len(r) \in Nat /\ \A n \in 1 .. Len(r) : Append(r, e)[n] = r[n]
      OBVIOUS
    <3> QED
      BY <2>1, <3>1
  <2>2. Append(r, e) \in Seq(E) /\ (P(r) => Keep(r, tags) = Keep(r, others))
    OBVIOUS
  <2>3. /\ Keep(Append(r, e), tags) = IF e.tag \in tags THEN Append(Keep(r, tags), e)
                                      ELSE Keep(r, tags)
        /\ Keep(Append(r, e), others) = IF e.tag \in others
                                        THEN Append(Keep(r, others), e)
                                        ELSE Keep(r, others)
    BY KeepAppended
  <2> HIDE DEF P
  <2>4. P(Append(r, e)) => Keep(Append(r, e), tags) = Keep(Append(r, e), others)
    BY <2>1, <2>2, <2>3
  <2> QED
    BY <2>2, <2>4
<1>3. Seq(E) \subseteq T
  <2> HIDE DEF T
  <2> QED
    BY <1>1, <1>2, EntryByEntry
<1>4. s \in T
  BY <1>3
<1> QED
  BY <1>4

LEMMA KeepNone ==
  ASSUME NEW E, NEW s \in Seq(E)
  PROVE  Keep(s, {}) = << >>
<1>1. Keep(s, {}) \in Seq({})
  <2>1. Keep(s, {}) \in Seq({e \in E : e.tag \in {}})
    BY KeepType
  <2>2. {e \in E : e.tag \in {}} = {}
    OBVIOUS
  <2> QED
    BY <2>1, <2>2
<1> QED
  BY <1>1

\* What goes and what stays.
LEMMA KeepDropped ==
  ASSUME NEW E, NEW s \in Seq(E), NEW tags, NEW others
  PROVE  Keep(Drop(s, tags), others) = Keep(s, others \ tags)
<1> DEFINE all == {s[n].tag : n \in DOMAIN s}
<1>1. Keep(Drop(s, tags), others) = Keep(s, (all \ tags) \cap others)
  BY KeepTwice DEF Drop
<1>2. \A n \in 1 .. Len(s) : s[n].tag \in (all \ tags) \cap others
                               <=> s[n].tag \in others \ tags
  OBVIOUS
<1> HIDE DEF all
<1> QED
  BY <1>1, <1>2, KeepAgrees

\* Every entry that has one of the tags is there, and when one is there, one has it.
LEMMA KeepTagged ==
  ASSUME NEW E, NEW s \in Seq(E), NEW tags
  PROVE  /\ \A n \in Tagged(s, tags) : \E m \in 1 .. Len(Keep(s, tags)) :
              Keep(s, tags)[m] = s[n]
         /\ \A m \in 1 .. Len(Keep(s, tags)) : \E n \in Tagged(s, tags) :
              Keep(s, tags)[m] = s[n]
         /\ Len(Keep(s, tags)) <= 1 => \A m, n \in Tagged(s, tags) : m = n
         /\ (\A m, n \in Tagged(s, tags) : m = n) => Len(Keep(s, tags)) <= 1
<1> DEFINE P(r, k) == /\ \A n \in Tagged(r, tags) : \E m \in 1 .. Len(k) : k[m] = r[n]
                      /\ \A m \in 1 .. Len(k) : \E n \in Tagged(r, tags) : k[m] = r[n]
                      /\ k = << >> <=> Tagged(r, tags) = {}
                      /\ Len(k) <= 1 => \A m, n \in Tagged(r, tags) : m = n
                      /\ (\A m, n \in Tagged(r, tags) : m = n) => Len(k) <= 1
           T == {r \in Seq(E) : P(r, Keep(r, tags))}
<1>1. << >> \in T
  <2>1. Tagged(<< >>, tags) = {}
    BY DEF Tagged
  <2> QED
    BY <2>1, KeepNothing, EmptySeq
<1>2. ASSUME NEW r \in T \cap Seq(E), NEW e \in E PROVE Append(r, e) \in T
  <2> DEFINE t == Append(r, e)
             k == Keep(r, tags)
  <2>1. t \in Seq(E) /\ Len(t) = Len(r) + 1 /\ t[Len(r) + 1] = e /\ Len(r) \in Nat
        /\ \A n \in 1 .. Len(r) : t[n] = r[n]
    OBVIOUS
  <2>2. k \in Seq(E)
    BY KeepType
  <2>9. DOMAIN t = 1 .. Len(r) + 1 /\ DOMAIN r = 1 .. Len(r)
    BY <2>1
  <2>3. \A n : n \in Tagged(t, tags) <=>
                n \in Tagged(r, tags) \/ (e.tag \in tags /\ n = Len(t))
    <3>1. \A n : n \in Tagged(t, tags) <=>
                  n \in 1 .. Len(r) + 1 /\ t[n].tag \in tags
      <4> HIDE DEF t
      <4> QED
        BY <2>9 DEF Tagged
    <3>2. \A n : n \in Tagged(r, tags) <=> n \in 1 .. Len(r) /\ r[n].tag \in tags
      BY <2>9 DEF Tagged
    <3>3. \A n : n \in 1 .. Len(r) + 1 <=> n \in 1 .. Len(r) \/ n = Len(t)
      BY <2>1
    <3>4. Len(t) \notin 1 .. Len(r) /\ t[Len(t)] = e
      BY <2>1
    <3> HIDE DEF t, k, T
    <3> QED
      BY <2>1, <3>1, <3>2, <3>3, <3>4
  <2>4. \A n \in Tagged(r, tags) : n \in 1 .. Len(r) /\ t[n] = r[n] /\ n # Len(t)
    <3> HIDE DEF t
    <3> QED
      BY <2>1, <2>9 DEF Tagged
  <2>5. P(r, k)
    OBVIOUS
  <2>6. Keep(t, tags) = IF e.tag \in tags THEN Append(k, e) ELSE k
    BY KeepAppended
  <2>7. CASE e.tag \in tags
    <3> DEFINE q == Append(k, e)
    <3>1. /\ q \in Seq(E) /\ Len(q) = Len(k) + 1 /\ q[Len(k) + 1] = e
          /\ Len(k) \in Nat /\ \A m \in 1 .. Len(k) : q[m] = k[m]
      BY <2>2
    <3> HIDE DEF k, q, t
    <3>2. \A n \in Tagged(t, tags) : \E m \in 1 .. Len(q) : q[m] = t[n]
      <4>1. ASSUME NEW n \in Tagged(r, tags) PROVE \E m \in 1 .. Len(q) : q[m] = t[n]
        <5>1. PICK m \in 1 .. Len(k) : k[m] = r[n]
          BY <2>5
        <5> QED
          BY <5>1, <2>4, <3>1
      <4>2. q[Len(q)] = t[Len(t)] /\ Len(q) \in 1 .. Len(q)
        BY <2>1, <3>1
      <4> QED
        BY <4>1, <4>2, <2>3, <2>7
    <3>3. \A m \in 1 .. Len(q) : \E n \in Tagged(t, tags) : q[m] = t[n]
      <4> TAKE m \in 1 .. Len(q)
      <4>1. CASE m = Len(q)
        BY <4>1, <2>1, <2>3, <2>7, <3>1
      <4>2. CASE m # Len(q)
        <5>1. m \in 1 .. Len(k)
          BY <4>2, <3>1
        <5>2. PICK n \in Tagged(r, tags) : k[m] = r[n]
          BY <2>5, <5>1
        <5> QED
          BY <5>1, <5>2, <2>3, <2>4, <3>1
      <4> QED
        BY <4>1, <4>2
    <3>4. q # << >> /\ Tagged(t, tags) # {}
      <4>1. Len(q) # 0
        BY <3>1
      <4> QED
        BY <2>3, <2>7, <4>1, EmptySeq
    <3>5. Len(q) <= 1 <=> k = << >>
      BY <2>2, <3>1
    <3>10. Len(t) \in Tagged(t, tags) /\ \A n \in Tagged(r, tags) : n \in Tagged(t, tags)
      BY <2>3, <2>7, Zenon
    <3>11. ASSUME \A m, n \in Tagged(t, tags) : m = n PROVE Tagged(r, tags) = {}
      <4> SUFFICES ASSUME NEW n \in Tagged(r, tags) PROVE FALSE
        OBVIOUS
      <4> QED
        BY <2>4, <3>10, <3>11, Zenon
    <3>12. ASSUME Tagged(r, tags) = {}, NEW m \in Tagged(t, tags) PROVE m = Len(t)
      BY <2>3, <3>12, Zenon
    <3>6. (\A m, n \in Tagged(t, tags) : m = n) <=> Tagged(r, tags) = {}
      BY <3>11, <3>12, Zenon
    <3>7. k = << >> <=> Tagged(r, tags) = {}
      BY <2>5
    <3>8. P(t, q)
      BY <3>2, <3>3, <3>4, <3>5, <3>6, <3>7
    <3>9. Keep(t, tags) = q
      BY <2>6, <2>7 DEF q
    <3> HIDE DEF P
    <3>13. t \in T
      BY <2>1, <3>8, <3>9
    <3> QED
      BY <3>13 DEF t
  <2>8. CASE e.tag \notin tags
    <3> HIDE DEF t, k
    <3>0. \A n : n \in Tagged(t, tags) <=> n \in Tagged(r, tags)
      BY <2>3, <2>8, Zenon
    <3>4. Tagged(t, tags) = {} <=> Tagged(r, tags) = {}
      BY <3>0, Zenon
    <3>1. P(t, k)
      BY <2>4, <2>5, <3>0, <3>4, ZenonT(60)
    <3>2. Keep(t, tags) = k
      BY <2>6, <2>8
    <3> HIDE DEF P
    <3>3. t \in T
      BY <2>1, <3>1, <3>2
    <3> QED
      BY <3>3 DEF t
  <2> QED
    BY <2>7, <2>8
<1>3. Seq(E) \subseteq T
  <2> HIDE DEF T
  <2> QED
    BY <1>1, <1>2, EntryByEntry
<1>4. s \in T
  BY <1>3
<1> QED
  BY <1>4

\* Two tables of which the entries at the same places are kept: what relates them at
\* each place relates what is kept.
LEMMA KeepSide ==
  ASSUME NEW E, NEW F, NEW s \in Seq(E), NEW r \in Seq(F), NEW tags,
         Len(s) = Len(r),
         \A n \in 1 .. Len(s) : s[n].tag \in tags <=> r[n].tag \in tags,
         NEW related, \A n \in 1 .. Len(s) : <<s[n], r[n]>> \in related
  PROVE  /\ Len(Keep(s, tags)) = Len(Keep(r, tags))
         /\ \A m \in 1 .. Len(Keep(s, tags)) :
              <<Keep(s, tags)[m], Keep(r, tags)[m]>> \in related
<1> DEFINE Same(x, y) == /\ Len(x) = Len(y)
                         /\ \A n \in 1 .. Len(x) : x[n].tag \in tags <=> y[n].tag \in tags
           Pairs(x, y, p, q) == /\ Len(p) = Len(q)
                                /\ \A m \in 1 .. Len(p) : \E n \in 1 .. Len(x) :
                                     p[m] = x[n] /\ q[m] = y[n]
           T == {n \in Nat : \A x \in Seq(E), y \in Seq(F) :
                   Len(x) = n /\ Same(x, y) =>
                     Pairs(x, y, Keep(x, tags), Keep(y, tags))}
<1>1. 0 \in T
  <2> SUFFICES ASSUME NEW x \in Seq(E), NEW y \in Seq(F), Len(x) = 0, Same(x, y)
               PROVE  Pairs(x, y, Keep(x, tags), Keep(y, tags))
    OBVIOUS
  <2>1. x = << >> /\ y = << >>
    BY EmptySeq
  <2> QED
    BY <2>1, KeepNothing
<1>2. ASSUME NEW k \in T \cap Nat PROVE k + 1 \in T
  <2> SUFFICES ASSUME NEW x \in Seq(E), NEW y \in Seq(F), Len(x) = k + 1, Same(x, y)
               PROVE  Pairs(x, y, Keep(x, tags), Keep(y, tags))
    OBVIOUS
  <2> DEFINE a == SubSeq(x, 1, k)
             b == SubSeq(y, 1, k)
             e == x[k + 1]
             f == y[k + 1]
  <2>1. /\ a \in Seq(E) /\ Len(a) = k /\ e \in E /\ x = Append(a, e)
        /\ \A n \in 1 .. k : a[n] = x[n]
    OBVIOUS
  <2>2. /\ b \in Seq(F) /\ Len(b) = k /\ f \in F /\ y = Append(b, f)
        /\ \A n \in 1 .. k : b[n] = y[n]
    OBVIOUS
  <2>3. /\ e.tag \in tags <=> f.tag \in tags
        /\ \A n \in 1 .. k : x[n].tag \in tags <=> y[n].tag \in tags
    OBVIOUS
  <2>4. \A x0 \in Seq(E), y0 \in Seq(F) : Len(x0) = k /\ Same(x0, y0) =>
          Pairs(x0, y0, Keep(x0, tags), Keep(y0, tags))
    OBVIOUS
  <2> HIDE DEF a, b, e, f
  <2>5. Same(a, b)
    BY <2>1, <2>2, <2>3
  <2> HIDE DEF Same, Pairs, T
  <2>6. Pairs(a, b, Keep(a, tags), Keep(b, tags))
    BY <2>1, <2>2, <2>4, <2>5
  <2>7. /\ Keep(x, tags) = IF e.tag \in tags THEN Append(Keep(a, tags), e)
                           ELSE Keep(a, tags)
        /\ Keep(y, tags) = IF f.tag \in tags THEN Append(Keep(b, tags), f)
                           ELSE Keep(b, tags)
    BY <2>1, <2>2, KeepAppended
  <2> DEFINE p == Keep(a, tags)
             q == Keep(b, tags)
  <2>8. p \in Seq(E) /\ q \in Seq(F)
    BY <2>1, <2>2, KeepType
  <2> HIDE DEF p, q
  <2>9. Len(p) = Len(q) /\ Len(p) \in Nat
        /\ \A m \in 1 .. Len(p) : \E n \in 1 .. k : p[m] = x[n] /\ q[m] = y[n]
    <3>1. /\ Len(p) = Len(q)
          /\ \A m \in 1 .. Len(p) : \E n \in 1 .. Len(a) : p[m] = a[n] /\ q[m] = b[n]
      BY <2>6, Zenon DEF Pairs, p, q
    <3>2. \A n \in 1 .. Len(a) : n \in 1 .. k /\ a[n] = x[n] /\ b[n] = y[n]
      BY <2>1, <2>2
    <3>3. \A m \in 1 .. Len(p) : \E n \in 1 .. k : p[m] = x[n] /\ q[m] = y[n]
      BY <3>1, <3>2
    <3> QED
      BY <2>8, <3>1, <3>3
  <2>10. CASE e.tag \in tags
    <3> DEFINE pe == Append(p, e)
               qf == Append(q, f)
    <3>1. /\ Len(pe) = Len(p) + 1 /\ pe[Len(p) + 1] = e
          /\ \A m \in 1 .. Len(p) : pe[m] = p[m]
      BY <2>1, <2>8
    <3>2. /\ Len(qf) = Len(q) + 1 /\ qf[Len(q) + 1] = f
          /\ \A m \in 1 .. Len(q) : qf[m] = q[m]
      BY <2>2, <2>8
    <3>3. Keep(x, tags) = pe /\ Keep(y, tags) = qf
      BY <2>3, <2>7, <2>10 DEF p, q
    <3> HIDE DEF pe, qf
    <3>4. ASSUME NEW m \in 1 .. Len(pe)
          PROVE  \E n \in 1 .. Len(x) : pe[m] = x[n] /\ qf[m] = y[n]
      <4>1. CASE m = Len(p) + 1
        <5>1. k + 1 \in 1 .. Len(x) /\ x[k + 1] = e /\ y[k + 1] = f
          BY DEF e, f
        <5> QED
          BY <2>9, <3>1, <3>2, <4>1, <5>1
      <4>2. CASE m # Len(p) + 1
        <5>1. m \in 1 .. Len(p)
          BY <2>9, <3>1, <4>2
        <5>2. PICK n \in 1 .. k : p[m] = x[n] /\ q[m] = y[n]
          BY <2>9, <5>1
        <5>3. n \in 1 .. Len(x) /\ pe[m] = x[n] /\ qf[m] = y[n]
          BY <2>9, <3>1, <3>2, <5>1, <5>2
        <5> QED
          BY <5>3
      <4> QED
        BY <4>1, <4>2
    <3>5. Pairs(x, y, pe, qf)
      BY <2>9, <3>1, <3>2, <3>4 DEF Pairs
    <3> QED
      BY <3>3, <3>5
  <2>11. CASE e.tag \notin tags
    <3>1. Keep(x, tags) = p /\ Keep(y, tags) = q
      BY <2>3, <2>7, <2>11 DEF p, q
    <3>2. \A n \in 1 .. k : n \in 1 .. Len(x)
      OBVIOUS
    <3>3. Pairs(x, y, p, q)
      BY <2>9, <3>2 DEF Pairs
    <3> QED
      BY <3>1, <3>3
  <2> QED
    BY <2>10, <2>11
<1>3. Nat \subseteq T
  <2> HIDE DEF T
  <2> QED
    BY <1>1, <1>2, NumberByNumber
<1>4. Len(s) \in T
  BY <1>3
<1>5. Pairs(s, r, Keep(s, tags), Keep(r, tags))
  BY <1>4
<1> QED
  BY <1>5

LEMMA FirstPosition ==
  ASSUME NEW I, I \subseteq Nat, I # {}
  PROVE  FirstOf(I) \in I /\ \A m \in I : FirstOf(I) <= m
BY LeastPosition DEF FirstOf

LEMMA KeepOne ==
  ASSUME NEW e, NEW tags
  PROVE  Keep(<<e>>, tags) = IF e.tag \in tags THEN <<e>> ELSE << >>
<1>1. << >> \in Seq({e}) /\ Append(<< >>, e) = <<e>>
  OBVIOUS
<1>2. Keep(Append(<< >>, e), tags) = IF e.tag \in tags THEN Append(Keep(<< >>, tags), e)
                                     ELSE Keep(<< >>, tags)
  BY <1>1, KeepAppended, ZenonT(60)
<1> QED
  BY <1>1, <1>2, KeepNothing

LEMMA KeepUntagged ==
  ASSUME NEW E, NEW s \in Seq(E), NEW tags, Tagged(s, tags) = {}
  PROVE  Keep(s, tags) = << >>
<1>1. Keep(s, tags) \in Seq(E)
  BY KeepType
<1>2. \A m \in 1 .. Len(Keep(s, tags)) : FALSE
  BY KeepTagged
<1>3. Len(Keep(s, tags)) = 0
  BY <1>1, <1>2
<1> QED
  BY <1>1, <1>3, EmptySeq

\* A tag that is set is there once, and the other tags are as they were.
LEMMA SetAlone ==
  ASSUME NEW E, NEW s \in Seq(E), NEW tag, NEW value,
         [tag |-> tag, value |-> value] \in E
  PROVE  /\ SetEntry(s, tag, value) \in Seq(E)
         /\ Keep(SetEntry(s, tag, value), {tag}) = <<[tag |-> tag, value |-> value]>>
         /\ \A tags : tag \notin tags =>
              Keep(SetEntry(s, tag, value), tags) = Keep(s, tags)
<1> DEFINE entry == [tag |-> tag, value |-> value]
<1>0. entry.tag = tag
  OBVIOUS
<1> HIDE DEF entry
<1>1. CASE Tagged(s, {tag}) = {}
  <2>1. SetEntry(s, tag, value) = Append(s, entry)
    BY <1>1 DEF SetEntry, entry
  <2>2. \A tags : Keep(Append(s, entry), tags) =
          IF entry.tag \in tags THEN Append(Keep(s, tags), entry) ELSE Keep(s, tags)
    BY KeepAppended DEF entry
  <2>3. Keep(s, {tag}) = << >>
    BY <1>1, KeepUntagged
  <2>4. Append(s, entry) \in Seq(E) /\ Append(<< >>, entry) = <<entry>>
    BY DEF entry
  <2>5. Keep(Append(s, entry), {tag}) = <<entry>>
    BY <1>0, <2>2, <2>3, <2>4
  <2>6. \A tags : tag \notin tags => Keep(Append(s, entry), tags) = Keep(s, tags)
    BY <1>0, <2>2
  <2> QED
    BY <2>1, <2>4, <2>5, <2>6, Zenon DEF entry
<1>2. CASE Tagged(s, {tag}) # {}
  <2> DEFINE f == FirstOf(Tagged(s, {tag}))
             a == SubSeq(s, 1, f - 1)
             c == SubSeq(s, f + 1, Len(s))
             d == Drop(c, {tag})
  <2>1. f \in 1 .. Len(s) /\ s[f].tag = tag /\ Len(s) \in Nat
        /\ \A m \in Tagged(s, {tag}) : f <= m
    <3>1. \A m : m \in Tagged(s, {tag}) <=> m \in 1 .. Len(s) /\ s[m].tag = tag
      BY DEF Tagged
    <3>2. Tagged(s, {tag}) \subseteq Nat
      BY DEF Tagged
    <3>3. f \in Tagged(s, {tag}) /\ \A m \in Tagged(s, {tag}) : f <= m
      BY <1>2, <3>2, FirstPosition, Zenon
    <3>4. Len(s) \in Nat
      OBVIOUS
    <3> HIDE DEF f
    <3> QED
      BY <3>1, <3>3, <3>4
  <2>2. SetEntry(s, tag, value) = (a \o <<entry>>) \o d
    BY <1>2 DEF SetEntry, entry
  <2> HIDE DEF f
  <2>3. a \in Seq(E) /\ c \in Seq(E) /\ Len(a) = f - 1
        /\ \A m \in 1 .. f - 1 : a[m] = s[m]
    BY <2>1
  <2>4. s = (a \o <<s[f]>>) \o c /\ s[f] \in E
    <3>1. s[f] \in E /\ <<s[f]>> \in Seq(E) /\ Len(<<s[f]>>) = 1 /\ <<s[f]>>[1] = s[f]
      BY <2>1
    <3>2. Len(c) = Len(s) - f /\ \A m \in 1 .. Len(s) - f : c[m] = s[f + m]
      BY <2>1
    <3> DEFINE b == <<s[f]>>
    <3> HIDE DEF a, b, c
    <3>3. /\ a \o b \in Seq(E) /\ Len(a \o b) = f
          /\ \A m \in 1 .. f : (a \o b)[m] = s[m]
      BY <2>1, <2>3, <3>1 DEF b
    <3> DEFINE ab == a \o b
    <3> HIDE DEF ab
    <3>4. /\ ab \o c \in Seq(E) /\ Len(ab \o c) = Len(s)
          /\ \A m \in 1 .. Len(s) : (ab \o c)[m] = IF m <= f THEN ab[m] ELSE c[m - f]
      BY <2>1, <2>3, <3>2, <3>3, SMTT(30) DEF ab
    <3>5. ASSUME NEW m \in 1 .. Len(s) PROVE (ab \o c)[m] = s[m]
      <4>1. CASE m <= f
        BY <2>1, <3>3, <3>4, <4>1 DEF ab
      <4>2. CASE ~(m <= f)
        <5>1. m - f \in 1 .. Len(s) - f /\ f + (m - f) = m
          BY <2>1, <4>2
        <5> QED
          BY <3>2, <3>4, <4>2, <5>1
      <4> QED
        BY <4>1, <4>2
    <3>6. ab \o c = s
      BY <3>4, <3>5, SeqEqual
    <3> QED
      BY <3>1, <3>6 DEF ab, b
  <2> HIDE DEF a, c
  <2>5. Tagged(a, {tag}) = {}
    <3> SUFFICES ASSUME NEW m \in Tagged(a, {tag}) PROVE FALSE
      OBVIOUS
    <3>0. DOMAIN a = 1 .. f - 1
      BY <2>3
    <3>1. m \in 1 .. f - 1 /\ a[m].tag = tag /\ s[m] = a[m]
      BY <2>3, <3>0 DEF Tagged
    <3>2. m \in Tagged(s, {tag})
      <4>1. m \in DOMAIN s
        BY <2>1, <3>1
      <4> QED
        BY <3>1, <4>1 DEF Tagged
    <3>3. f <= m
      BY <2>1, <3>2
    <3> QED
      BY <2>1, <3>1, <3>3
  <2> DEFINE x == s[f]
  <2> HIDE DEF x
  <2>6. d \in Seq(E)
    BY <2>3, KeepType DEF Drop
  <2>7. \A tags : Keep(d, tags) = Keep(c, tags \ {tag})
    BY <2>3, KeepDropped
  <2> HIDE DEF d
  <2>8. /\ <<entry>> \in Seq(E) /\ <<x>> \in Seq(E)
        /\ a \o <<entry>> \in Seq(E) /\ a \o <<x>> \in Seq(E)
        /\ (a \o <<entry>>) \o d \in Seq(E)
    BY <2>3, <2>4, <2>6 DEF entry, x
  <2>9. ASSUME NEW b \in Seq(E), NEW y, <<y>> \in Seq(E), NEW tags
        PROVE  Keep((a \o <<y>>) \o b, tags)
                 = (Keep(a, tags) \o Keep(<<y>>, tags)) \o Keep(b, tags)
    <3> DEFINE r == <<y>>
    <3>1. r \in Seq(E)
      BY <2>9
    <3> HIDE DEF r
    <3> DEFINE ar == a \o r
    <3>2. ar \in Seq(E)
      BY <2>3, <3>1
    <3>5. \A p, q \in Seq(E) : Keep(p \o q, tags) = Keep(p, tags) \o Keep(q, tags)
      BY KeepJoined, SMTT(30)
    <3>3. Keep(a \o r, tags) = Keep(a, tags) \o Keep(r, tags)
      BY <2>3, <3>1, <3>5
    <3> HIDE DEF ar
    <3>4. Keep(ar \o b, tags) = Keep(ar, tags) \o Keep(b, tags)
      BY <3>2, <3>5
    <3> QED
      BY <3>3, <3>4, Zenon DEF r, ar
  <2>10. Keep((a \o <<entry>>) \o d, {tag}) = <<entry>>
    <3>1. Keep(a, {tag}) = << >>
      BY <2>3, <2>5, KeepUntagged
    <3>2. Keep(<<entry>>, {tag}) = <<entry>>
      BY <1>0, KeepOne
    <3>3. Keep(d, {tag}) = << >>
      <4>1. {tag} \ {tag} = {}
        OBVIOUS
      <4> QED
        BY <2>3, <2>7, <4>1, KeepNone
    <3>4. Keep((a \o <<entry>>) \o d, {tag})
            = (Keep(a, {tag}) \o Keep(<<entry>>, {tag})) \o Keep(d, {tag})
      BY <2>6, <2>8, <2>9, ZenonT(60)
    <3> DEFINE r == <<entry>>
    <3>5. r \in Seq(E)
      BY <2>8
    <3> HIDE DEF r
    <3>6. (<< >> \o r) \o << >> = r
      BY <3>5
    <3> QED
      BY <3>1, <3>2, <3>3, <3>4, <3>6, Zenon DEF r
  <2>11. ASSUME NEW tags, tag \notin tags
         PROVE  Keep((a \o <<entry>>) \o d, tags) = Keep(s, tags)
    <3>1. Keep(<<entry>>, tags) = << >> /\ Keep(<<x>>, tags) = << >>
      BY <1>0, <2>1, <2>11, KeepOne DEF x
    <3>2. Keep(d, tags) = Keep(c, tags)
      <4>1. tags \ {tag} = tags
        BY <2>11
      <4> QED
        BY <2>7, <4>1
    <3>3. Keep((a \o <<x>>) \o c, tags)
            = (Keep(a, tags) \o Keep(<<x>>, tags)) \o Keep(c, tags)
      BY <2>3, <2>8, <2>9, ZenonT(60)
    <3>4. Keep((a \o <<entry>>) \o d, tags)
            = (Keep(a, tags) \o Keep(<<entry>>, tags)) \o Keep(d, tags)
      BY <2>6, <2>8, <2>9, ZenonT(60)
    <3> QED
      BY <2>4, <3>1, <3>2, <3>3, <3>4, Zenon DEF x
  <2> QED
    BY <2>2, <2>8, <2>10, <2>11, Zenon DEF entry
<1> QED
  BY <1>1, <1>2

(***************************************************************************)
(* Where the table ends.                                                   *)
(***************************************************************************)

\* The entries in the file start with a table and a NULL entry.
Ended(entries, t) ==
  /\ entries \in Seq(TableEntry) /\ t \in Seq(TableEntry)
  /\ Len(t) < Len(entries)
  /\ entries[Len(t) + 1].tag = Null
  /\ \A n \in 1 .. Len(t) : entries[n] = t[n] /\ t[n].tag # Null

LEMMA EndedIsRead ==
  ASSUME NEW entries, NEW t, Ended(entries, t)
  PROVE  UpToNull(entries) = t
<1> DEFINE nulls == Tagged(entries, {Null})
           n == Len(t)
<1>1. /\ entries \in Seq(TableEntry) /\ t \in Seq(TableEntry) /\ n \in Nat
      /\ n + 1 \in 1 .. Len(entries) /\ Len(entries) \in Nat
      /\ \A m \in 1 .. n : entries[m] = t[m] /\ t[m].tag # Null
  BY DEF Ended
<1>2. n + 1 \in nulls /\ nulls \subseteq Nat /\ nulls # {}
  BY <1>1 DEF Tagged, Ended
<1>3. \A m \in nulls : n + 1 <= m
  BY <1>1 DEF Tagged
<1>4. FirstOf(nulls) = n + 1
  <2>1. FirstOf(nulls) \in nulls /\ \A m \in nulls : FirstOf(nulls) <= m
    BY <1>2, FirstPosition
  <2>2. FirstOf(nulls) <= n + 1 /\ n + 1 <= FirstOf(nulls) /\ FirstOf(nulls) \in Nat
    BY <1>2, <1>3, <2>1
  <2> QED
    BY <1>1, <2>2
<1>5. UpToNull(entries) = SubSeq(entries, 1, n)
  <2>1. UpToNull(entries) = SubSeq(entries, 1, FirstOf(nulls) - 1)
    BY <1>2 DEF UpToNull
  <2>2. FirstOf(nulls) - 1 = n
    BY <1>1, <1>4
  <2> QED
    BY <2>1, <2>2, Zenon
<1>6. SubSeq(entries, 1, n) = t
  <2>1. SubSeq(entries, 1, n) \in Seq(TableEntry) /\ Len(SubSeq(entries, 1, n)) = n
        /\ \A m \in 1 .. n : SubSeq(entries, 1, n)[m] = entries[m]
    BY <1>1
  <2> QED
    BY <1>1, <2>1, SeqEqual
<1> QED
  BY <1>5, <1>6

\* What is written at the end of a table.
LEMMA EndWritten ==
  ASSUME NEW t \in Seq(TableEntry), \A n \in 1 .. Len(t) : t[n].tag # Null
  PROVE  /\ WithEnd(t) = Append(t, NullEntry)
         /\ Ended(WithEnd(t), t)
         /\ Len(WithEnd(t)) = Len(t) + 1
<1>1. ~Terminated(t)
  <2> SUFFICES ASSUME Terminated(t) PROVE FALSE
    OBVIOUS
  <2>1. t # << >> /\ t[Len(t)] = NullEntry
    BY DEF Terminated
  <2>2. Len(t) \in 1 .. Len(t)
    BY <2>1, EmptySeq
  <2> QED
    BY <2>1, <2>2 DEF NullEntry
<1>2. WithEnd(t) = Append(t, NullEntry)
  BY <1>1 DEF WithEnd
<1>3. NullEntry \in TableEntry /\ NullEntry.tag = Null
  BY DEF NullEntry, TableEntry, Null
<1>4. /\ Append(t, NullEntry) \in Seq(TableEntry)
      /\ Len(Append(t, NullEntry)) = Len(t) + 1 /\ Len(t) \in Nat
      /\ Append(t, NullEntry)[Len(t) + 1] = NullEntry
      /\ \A n \in 1 .. Len(t) : Append(t, NullEntry)[n] = t[n]
  BY <1>3
<1> QED
  BY <1>2, <1>3, <1>4 DEF Ended

\* The first entries, as long as the one that ends the table is among them.
LEMMA EndedCut ==
  ASSUME NEW entries, NEW t, Ended(entries, t), NEW n \in Nat,
         Len(t) < n, n <= Len(entries)
  PROVE  Ended(SubSeq(entries, 1, n), t)
<1>1. /\ entries \in Seq(TableEntry) /\ t \in Seq(TableEntry) /\ Len(t) \in Nat
      /\ Len(entries) \in Nat
  BY DEF Ended
<1>2. SubSeq(entries, 1, n) \in Seq(TableEntry) /\ Len(SubSeq(entries, 1, n)) = n
      /\ \A m \in 1 .. n : SubSeq(entries, 1, n)[m] = entries[m]
  BY <1>1
<1>3. Len(t) + 1 \in 1 .. n /\ \A m \in 1 .. Len(t) : m \in 1 .. n
  BY <1>1
<1> HIDE DEF Ended
<1> QED
  BY <1>1, <1>2, <1>3 DEF Ended

\* Whatever follows the entry that ends the table.
LEMMA EndedMore ==
  ASSUME NEW entries, NEW t, Ended(entries, t), NEW more \in Seq(TableEntry)
  PROVE  Ended(entries \o more, t)
<1>1. /\ entries \in Seq(TableEntry) /\ t \in Seq(TableEntry) /\ Len(t) \in Nat
      /\ Len(entries) \in Nat /\ Len(t) < Len(entries)
  BY DEF Ended
<1>2. /\ entries \o more \in Seq(TableEntry)
      /\ Len(entries \o more) = Len(entries) + Len(more) /\ Len(more) \in Nat
      /\ \A n \in 1 .. Len(entries) : (entries \o more)[n] = entries[n]
  BY <1>1
<1>3. Len(t) + 1 \in 1 .. Len(entries) /\ \A n \in 1 .. Len(t) : n \in 1 .. Len(entries)
  BY <1>1
<1> HIDE DEF Ended
<1> QED
  BY <1>1, <1>2, <1>3 DEF Ended

(***************************************************************************)
(* The entries and what they say, through every step of a call.            *)
(***************************************************************************)

\* The table says where the string table is, if anything.
Truthful(t) ==
  /\ Keep(t, {StrTab}) \in Seq({[tag |-> StrTab, value |-> dynstr.address]})
  /\ Len(Keep(t, {StrTab})) <= 1
  /\ Keep(t, {StrSz}) \in Seq({[tag |-> StrSz, value |-> Len(dynstr.bytes)]})

InFile == pc \in {"idle", "symbols"}

\* Where the call is: what it looks for, and that it has found it when it goes on.
CallInv ==
  /\ pc \in {"idle", "read_strings", "look_up", "search", "insert", "update",
             "place", "symbols"}
  /\ pc \in {"read_strings", "look_up", "search", "insert", "update"} =>
       call.tag \in Settable /\ call.string \in Strings
  /\ pc \in {"search", "insert", "update"} => needle = Append(call.string, NUL)
  /\ pc = "search" => ~inserting
  /\ pc = "insert" => inserting /\ (search = "over" => offset # None)
  /\ pc = "update" => search = "over" /\ offset # None
  /\ pc # "insert" => strings = dynstr.bytes
  /\ call.tag \in Settable \cup {Null} /\ call.string \in Strings \cup {<< >>}
  /\ calls \in 0 .. MaxCalls

TableInv ==
  /\ class \in Classes /\ order \in ByteOrders
  /\ dynstr.address \in Addresses \cup {StringsAddress}
  /\ segment = size
  /\ \E k \in Nat : /\ size = k * DynamicLen(class)
                    /\ InFile => Len(LoadedTable) < k /\ k <= Len(dynamic.entries)
  /\ InFile => /\ Ended(dynamic.entries, LoadedTable)
               /\ LoadedTable \in Seq(Sound(dynstr.bytes))
               /\ Truthful(LoadedTable)
  /\ table \in Seq(Sound(strings))
  /\ pc = "place" => Truthful(table)

LEMMA TagsApart ==
  /\ Known \subseteq Nat \ {Null} /\ Settable \subseteq StringTags
  /\ StrTab \notin StringTags \cup OtherTags /\ StrSz \notin StringTags \cup OtherTags
  /\ StrTab # StrSz
<1> DEFINE named == <<Needed, Soname, Rpath, Runpath, StrTab, StrSz>>
<1>1. /\ \A m, n \in 1 .. 6 : named[m] = named[n] => m = n
      /\ \A n \in 1 .. 6 : named[n] \in Nat \ {Null} /\ named[n] \notin OtherTags
      /\ OtherTags \subseteq Nat \ {Null}
  BY TagsAssumption
<1>2. /\ named[1] = Needed /\ named[2] = Soname /\ named[3] = Rpath
      /\ named[4] = Runpath /\ named[5] = StrTab /\ named[6] = StrSz
  OBVIOUS
<1> HIDE DEF named
<1>3. \A n \in {1, 2, 3, 4} : named[n] # named[5] /\ named[n] # named[6]
  BY <1>1
<1>4. named[5] # named[6]
  BY <1>1
<1>5. /\ {Needed, Soname, Rpath, Runpath, StrTab, StrSz} \subseteq Nat \ {Null}
      /\ StrTab \notin OtherTags /\ StrSz \notin OtherTags
  BY <1>1, <1>2
<1> QED
  BY <1>1, <1>2, <1>3, <1>4, <1>5, ZenonT(60) DEF Known, StringTags, Settable

LEMMA NumbersOfFiles ==
  /\ StringsAddress \in Nat /\ TableAddress \in Nat /\ Addresses \subseteq Nat
  /\ MaxCalls \in Nat
BY DynamicSectionAssumption

LEMMA SoundIsTable ==
  ASSUME NEW bytes, NEW t \in Seq(Sound(bytes))
  PROVE  /\ t \in Seq(TableEntry)
         /\ \A n \in 1 .. Len(t) : t[n] \in Sound(bytes) /\ t[n].tag # Null
<1>1. Sound(bytes) \subseteq TableEntry /\ \A e \in Sound(bytes) : e.tag # Null
  BY TagsApart DEF Sound
<1> QED
  BY <1>1

\* An entry that names no string is right with any string table.
LEMMA SoundAddress ==
  ASSUME NEW bytes, NEW tag \in {StrTab, StrSz}, NEW value \in Nat
  PROVE  [tag |-> tag, value |-> value] \in Sound(bytes)
BY TagsApart DEF Sound, TableEntry, Known

LEMMA SoundString ==
  ASSUME NEW bytes, NEW tag \in StringTags, NEW value \in Nat, Readable(bytes, value)
  PROVE  [tag |-> tag, value |-> value] \in Sound(bytes)
BY TagsApart DEF Sound, TableEntry, Known

\* What is right with a table of strings is right, and means the same, with one
\* that has grown.
LEMMA SoundGrows ==
  ASSUME NEW chars \in Seq(Byte), NEW more \in Seq(Byte)
  PROVE  /\ Seq(Sound(chars)) \subseteq Seq(Sound(chars \o more))
         /\ \A e \in Sound(chars) : Meaning(e, chars \o more) = Meaning(e, chars)
<1>1. \A e \in Sound(chars) :
        /\ e \in TableEntry /\ e.tag \in Known /\ e.value \in Nat
        /\ e.tag \in StringTags => Readable(chars, e.value)
  BY DEF Sound, TableEntry
<1>2. \A e \in Sound(chars) : e.tag \in StringTags =>
        /\ Readable(chars \o more, e.value)
        /\ GetString(chars \o more, e.value) = GetString(chars, e.value)
  BY <1>1, ExtensionKeeps
<1>3. Sound(chars) \subseteq Sound(chars \o more)
  BY <1>1, <1>2 DEF Sound
<1> QED
  BY <1>2, <1>3 DEF Meaning

\* The string table of the patcher stays or grows at its end.
LEMMA StringsGrow ==
  ASSUME IInv, SearchStep
  PROVE  /\ strings \in Seq(Byte) /\ needle \in Seq(Byte)
         /\ strings' = strings \/ strings' = strings \o needle
<1>1. strings \in Seq(Byte) /\ IsNeedle(needle)
  BY NeedleShape DEF IInv, StringTableTypeOK
<1> QED
  BY <1>1 DEF SearchStep, Compare, Found, NotFound, IsNeedle

\* What goes by the size of the section reads what is loaded.
LEMMA SizeEndsTable ==
  ASSUME TableInv, InFile
  PROVE  TableOfFile = LoadedTable
<1>1. PICK k \in Nat : /\ size = k * DynamicLen(class)
                       /\ Len(LoadedTable) < k /\ k <= Len(dynamic.entries)
  BY DEF TableInv
<1>2. size \div DynamicLen(class) = k
  <2>1. DynamicLen(class) \in {8, 16}
    BY DEF DynamicLen
  <2> QED
    BY <1>1, <2>1
<1>3. Ended(dynamic.entries, LoadedTable)
  BY DEF TableInv
<1>4. Ended(SubSeq(dynamic.entries, 1, k), LoadedTable)
  BY <1>1, <1>3, EndedCut
<1> QED
  BY <1>2, <1>4, EndedIsRead, Zenon DEF TableOfFile

\* A table that loses entries says nothing new.
LEMMA TruthDropped ==
  ASSUME NEW E, NEW t \in Seq(E), NEW tags, Truthful(t)
  PROVE  Truthful(Drop(t, tags))
<1>1. ASSUME NEW tag PROVE Keep(Drop(t, tags), {tag}) \in {Keep(t, {tag}), << >>}
  <2>1. Keep(Drop(t, tags), {tag}) = Keep(t, {tag} \ tags)
    BY KeepDropped
  <2>2. CASE tag \in tags
    <3>1. {tag} \ tags = {}
      BY <2>2
    <3> QED
      BY <2>1, <3>1, KeepNone
  <2>3. CASE tag \notin tags
    <3>1. {tag} \ tags = {tag}
      BY <2>3
    <3> QED
      BY <2>1, <3>1
  <2> QED
    BY <2>2, <2>3
<1>2. /\ \A F : << >> \in Seq(F)
      /\ Len(<< >>) <= 1
  OBVIOUS
<1>3. ASSUME NEW tag, NEW F, Keep(t, {tag}) \in Seq(F)
      PROVE  Keep(Drop(t, tags), {tag}) \in Seq(F)
  <2>1. CASE Keep(Drop(t, tags), {tag}) = << >>
    BY <1>2, <2>1, Zenon
  <2>2. CASE Keep(Drop(t, tags), {tag}) = Keep(t, {tag})
    BY <1>3, <2>2, Zenon
  <2> QED
    BY <1>1, <2>1, <2>2
<1>4. Len(Keep(Drop(t, tags), {StrTab})) <= 1
  <2>1. CASE Keep(Drop(t, tags), {StrTab}) = << >>
    BY <1>2, <2>1, Zenon
  <2>2. CASE Keep(Drop(t, tags), {StrTab}) = Keep(t, {StrTab})
    BY <2>2, Zenon DEF Truthful
  <2> QED
    BY <1>1, <2>1, <2>2
<1> QED
  BY <1>3, <1>4, Zenon DEF Truthful

LEMMA InitCall == Init => CallInv
  BY NumbersOfFiles DEF Init, CallInv, NoCall, StringTableInit

LEMMA StepCall ==
  ASSUME CallInv, IInv, LoadedInv, [Next]_vars
  PROVE  CallInv'
<1>0. MaxCalls \in Nat /\ calls \in Nat
  BY NumbersOfFiles DEF CallInv
<1>1. ASSUME NEW tag \in Removable, RemoveTag(tag) PROVE CallInv'
  <2>1. /\ UNCHANGED <<tableVars, dynstr, call, pc>>
        /\ calls < MaxCalls /\ calls' = calls + 1
    BY <1>1 DEF RemoveTag
  <2> QED
    BY <1>0, <2>1 DEF CallInv, tableVars
<1>2. ASSUME NEW tag \in Settable, NEW string \in Strings, SetTag(tag, string)
      PROVE  CallInv'
  <2>1. /\ call'.string = string /\ call'.tag = tag
        /\ pc = "idle" /\ pc' = "read_strings" /\ UNCHANGED <<tableVars, dynstr>>
        /\ calls < MaxCalls /\ calls' = calls + 1
    BY <1>2 DEF SetTag
  <2> QED
    BY <1>0, <2>1 DEF CallInv, tableVars
<1>3. CASE ReadStrings
  <2>1. /\ pc = "read_strings" /\ pc' = "look_up" /\ call' = call /\ dynstr' = dynstr
        /\ strings' = dynstr.bytes /\ calls' = calls
    BY <1>3 DEF ReadStrings, fileVars
  <2> QED
    BY <2>1 DEF CallInv
<1>4. CASE LookUp
  <2>1. /\ pc = "look_up" /\ pc' = "search" /\ call' = call /\ dynstr' = dynstr
        /\ calls' = calls /\ strings' = strings /\ needle' = Append(call.string, NUL)
        /\ inserting' = FALSE
    BY <1>4 DEF LookUp, fileVars, GetOffset, BeginSearch
  <2> QED
    BY <2>1 DEF CallInv
<1>5. CASE Search
  <2>1. /\ pc \in {"search", "insert"} /\ pc' = pc /\ call' = call /\ dynstr' = dynstr
        /\ calls' = calls /\ SearchStep
    BY <1>5 DEF Search, dynamicVars, fileVars
  <2>2. /\ needle' = needle /\ inserting' = inserting
        /\ strings' = strings \/ inserting
    BY <2>1 DEF SearchStep, Compare, Found, NotFound
  <2>3. inserting /\ search' = "over" => offset' # None
    <3> SUFFICES ASSUME inserting, search' = "over" PROVE offset' # None
      OBVIOUS
    <3>1. Len(strings) \in Nat /\ i \in Nat /\ j \in Nat /\ IsNeedle(needle)
      BY NeedleShape DEF IInv, StringTableTypeOK
    <3>2. CASE Compare
      BY <3>2 DEF Compare
    <3>3. CASE Found
      <4>1. j <= i /\ j + 1 = Len(needle) /\ offset' = i + 1 - Len(needle)
        BY <3>3 DEF Found, IInv, Partial
      <4>2. Len(needle) \in Nat
        BY <3>1 DEF IsNeedle
      <4> QED
        BY <3>1, <4>1, <4>2 DEF None
    <3>4. CASE NotFound
      BY <3>1, <3>4 DEF NotFound, None
    <3> QED
      BY <2>1, <3>2, <3>3, <3>4 DEF SearchStep
  <2> QED
    BY <2>1, <2>2, <2>3 DEF CallInv
<1>6. CASE InsertString
  <2>1. /\ pc = "search" /\ pc' = "insert" /\ call' = call /\ calls' = calls
        /\ needle' = Append(call.string, NUL) /\ inserting' = TRUE /\ search' = "on"
    BY <1>6 DEF InsertString, Insert, BeginSearch
  <2> QED
    BY <2>1 DEF CallInv
<1>7. CASE PlaceStrings
  <2>1. /\ pc = "insert" /\ pc' = "update" /\ call' = call /\ calls' = calls
        /\ search = "over" /\ UNCHANGED tableVars /\ dynstr'.bytes = strings
    BY <1>7 DEF PlaceStrings
  <2> QED
    BY <2>1 DEF CallInv, tableVars
<1>8. CASE UpdateTable
  <2>1. /\ pc' = "place" /\ call' = call /\ calls' = calls
        /\ UNCHANGED tableVars /\ dynstr' = [dynstr EXCEPT !.bytes = strings]
    BY <1>8 DEF UpdateTable
  <2>2. dynstr'.bytes = strings
    BY <2>1 DEF LoadedInv
  <2> QED
    BY <2>1, <2>2 DEF CallInv, tableVars
<1>9. CASE PlaceTable
  <2>1. /\ pc = "place" /\ pc' = "symbols" /\ call' = call /\ calls' = calls
        /\ UNCHANGED <<tableVars, dynstr>>
    BY <1>9 DEF PlaceTable
  <2> QED
    BY <2>1 DEF CallInv, tableVars
<1>10. CASE MoveSymbols
  <2>1. /\ pc = "symbols" /\ pc' = "idle" /\ call' = NoCall /\ calls' = calls
        /\ UNCHANGED <<tableVars, dynstr>>
    BY <1>10 DEF MoveSymbols
  <2> QED
    BY <2>1 DEF CallInv, tableVars, NoCall
<1>11. CASE UNCHANGED vars
  BY <1>11 DEF vars, dynamicVars, fileVars, tableVars, CallInv
<1> QED
  BY <1>1, <1>2, <1>3, <1>4, <1>5, <1>6, <1>7, <1>8, <1>9, <1>10, <1>11
  DEF Next, Step

\* The table that is loaded at first is that of the file.
LEMMA InitTable ==
  ASSUME Init
  PROVE  /\ TableInv
         /\ \E f \in Files : LoadedTable = f.table /\ dynstr.bytes = f.strings
<1>1. PICK f \in Files :
        LET entries == WithEnd(f.table) \o [n \in 1 .. f.spare |-> NullEntry]
        IN  /\ strings = f.strings
            /\ dynamic = [entries |-> entries, address |-> TableAddress]
            /\ size = Len(entries) * DynamicLen(class) /\ segment = size
  BY DEF Init
<1> DEFINE t == f.table
           spare == [n \in 1 .. f.spare |-> NullEntry]
           entries == WithEnd(t) \o spare
<1>2. /\ t \in Seq(TableEntry) /\ f.spare \in Nat
      /\ \A n \in 1 .. Len(t) :
           /\ t[n].tag \in Known
           /\ t[n].tag \in StringTags => Readable(f.strings, t[n].value)
           /\ t[n].tag = StrTab => t[n].value = StringsAddress
           /\ t[n].tag = StrSz => t[n].value = Len(f.strings)
           /\ \A m \in 1 .. Len(t) : t[n].tag = StrTab /\ t[m].tag = StrTab => n = m
  BY DynamicSectionAssumption DEF Known
<1>3. dynstr = [bytes |-> f.strings, address |-> StringsAddress]
      /\ dynamic.entries = entries /\ size = Len(entries) * DynamicLen(class)
      /\ segment = size /\ strings = f.strings
  BY <1>1 DEF Init
<1> HIDE DEF t
<1>4. t \in Seq(Sound(f.strings))
  <2>1. \A n \in 1 .. Len(t) : t[n] \in TableEntry
    BY <1>2
  <2>2. \A n \in 1 .. Len(t) : t[n] \in Sound(f.strings)
    BY <1>2, <2>1 DEF Sound
  <2> QED
    BY <1>2, <2>2
<1>5. \A n \in 1 .. Len(t) : t[n].tag # Null
  BY <1>2, TagsApart
<1>6. spare \in Seq(TableEntry)
  <2>1. NullEntry \in TableEntry
    BY DEF NullEntry, TableEntry, Null
  <2> QED
    BY <1>2, <2>1
<1> HIDE DEF spare
<1>7. Ended(WithEnd(t), t) /\ Len(WithEnd(t)) = Len(t) + 1
  BY <1>2, <1>5, EndWritten
<1>8. Ended(entries, t)
  BY <1>6, <1>7, EndedMore
<1> HIDE DEF entries
<1>9. LoadedTable = t
  BY <1>3, <1>8, EndedIsRead DEF LoadedTable
<1>10. Len(t) \in Nat /\ Len(entries) \in Nat /\ Len(t) < Len(entries)
  BY <1>2, <1>8 DEF Ended
<1>11. Truthful(t)
  <2>1. \A n \in Tagged(t, {StrTab}) : n \in 1 .. Len(t) /\ t[n].tag = StrTab
        /\ t[n] = [tag |-> StrTab, value |-> dynstr.address]
    <3> SUFFICES ASSUME NEW n \in 1 .. Len(t), t[n].tag = StrTab
                 PROVE  t[n] = [tag |-> StrTab, value |-> dynstr.address]
      BY <1>2 DEF Tagged
    <3>1. t[n] \in TableEntry /\ t[n].value = StringsAddress
      BY <1>2
    <3> QED
      BY <1>3, <3>1 DEF TableEntry
  <2>2. \A n \in Tagged(t, {StrSz}) : t[n] = [tag |-> StrSz, value |-> Len(dynstr.bytes)]
    <3> SUFFICES ASSUME NEW n \in 1 .. Len(t), t[n].tag = StrSz
                 PROVE  t[n] = [tag |-> StrSz, value |-> Len(dynstr.bytes)]
      BY <1>2 DEF Tagged
    <3>1. t[n] \in TableEntry /\ t[n].value = Len(f.strings)
      BY <1>2
    <3> QED
      BY <1>3, <3>1 DEF TableEntry
  <2>3. \A tags : Keep(t, tags) \in Seq(TableEntry)
    BY <1>2, KeepType
  <2>4. \A tags : \A m \in 1 .. Len(Keep(t, tags)) : \E n \in Tagged(t, tags) :
          Keep(t, tags)[m] = t[n]
    BY <1>2, KeepTagged
  <2>5. Len(Keep(t, {StrTab})) <= 1
    <3>1. \A m, n \in Tagged(t, {StrTab}) : m = n
      BY <1>2, <2>1
    <3> QED
      BY <1>2, <3>1, KeepTagged
  <2>6. ASSUME NEW s \in Seq(TableEntry), NEW e, \A m \in 1 .. Len(s) : s[m] = e
        PROVE  s \in Seq({e})
    BY <2>6
  <2>7. Keep(t, {StrTab}) \in Seq({[tag |-> StrTab, value |-> dynstr.address]})
    <3> DEFINE e == [tag |-> StrTab, value |-> dynstr.address]
    <3>1. \A m \in 1 .. Len(Keep(t, {StrTab})) : Keep(t, {StrTab})[m] = e
      BY <2>1, <2>4
    <3> HIDE DEF e
    <3>2. Keep(t, {StrTab}) \in Seq({e})
      BY <2>3, <2>6, <3>1
    <3> QED
      BY <3>2 DEF e
  <2>8. Keep(t, {StrSz}) \in Seq({[tag |-> StrSz, value |-> Len(dynstr.bytes)]})
    <3> DEFINE e == [tag |-> StrSz, value |-> Len(dynstr.bytes)]
    <3>1. \A m \in 1 .. Len(Keep(t, {StrSz})) : Keep(t, {StrSz})[m] = e
      BY <2>2, <2>4
    <3> HIDE DEF e
    <3>2. Keep(t, {StrSz}) \in Seq({e})
      BY <2>3, <2>6, <3>1
    <3> QED
      BY <3>2 DEF e
  <2> QED
    BY <2>5, <2>7, <2>8 DEF Truthful
<1>12. /\ class \in Classes /\ order \in ByteOrders
       /\ dynstr.address \in Addresses \cup {StringsAddress}
       /\ table = << >> /\ pc = "idle"
  BY <1>3 DEF Init
<1>13. \E k \in Nat : /\ size = k * DynamicLen(class)
                      /\ Len(LoadedTable) < k /\ k <= Len(dynamic.entries)
  BY <1>3, <1>9, <1>10
<1>14. table \in Seq(Sound(strings))
  BY <1>12
<1>15. TableInv
  BY <1>3, <1>4, <1>8, <1>9, <1>11, <1>12, <1>13, <1>14 DEF TableInv, InFile
<1>16. LoadedTable = f.table /\ dynstr.bytes = f.strings
  BY <1>3, <1>9 DEF t
<1> QED
  BY <1>15, <1>16

\* remove_dynamic_tag: the entries with the tag go, and what follows the table in
\* the file is not read.
LEMMA TagIsRemoved ==
  ASSUME TableInv, FollowInv, NEW tag, RemoveTag(tag)
  PROVE  /\ LoadedTable' = Drop(LoadedTable, {tag})
         /\ TableInv'
<1> DEFINE rest == Drop(LoadedTable, {tag})
           more == SubSeq(dynamic.entries, Len(WithEnd(rest)) + 1, Len(dynamic.entries))
<1>1. /\ pc = "idle" /\ pc' = pc /\ dynstr' = dynstr /\ class' = class
      /\ order' = order /\ table' = table /\ strings' = strings
  BY DEF RemoveTag, tableVars
<1>2. /\ Ended(dynamic.entries, LoadedTable)
      /\ LoadedTable \in Seq(Sound(dynstr.bytes)) /\ Truthful(LoadedTable)
      /\ TableOfFile = LoadedTable
  BY <1>1, SizeEndsTable DEF TableInv, InFile
<1>3. rest \in Seq(Sound(dynstr.bytes))
  BY <1>2, KeepType DEF Drop
<1>4. /\ dynamic' = [dynamic EXCEPT !.entries = Over(@, WithEnd(rest))]
      /\ size' = InFileLen(rest, class)
      /\ segment' = IF segment = 0 THEN 0 ELSE InFileLen(rest, class)
  BY <1>2 DEF RemoveTag
<1>5. dynamic'.entries = WithEnd(rest) \o more
  BY <1>4 DEF FollowInv, Over
<1> HIDE DEF rest
<1>6. /\ rest \in Seq(TableEntry)
      /\ \A n \in 1 .. Len(rest) : rest[n].tag # Null
  BY <1>3, SoundIsTable
<1>7. Ended(WithEnd(rest), rest) /\ Len(WithEnd(rest)) = Len(rest) + 1
  BY <1>6, EndWritten
<1>8. more \in Seq(TableEntry)
  <2>1. dynamic.entries \in Seq(TableEntry) /\ WithEnd(rest) \in Seq(TableEntry)
    BY <1>2, <1>7 DEF Ended
  <2> QED
    BY <2>1
<1> HIDE DEF more
<1>9. Ended(dynamic'.entries, rest)
  BY <1>5, <1>7, <1>8, EndedMore
<1>10. LoadedTable' = rest
  BY <1>9, EndedIsRead DEF LoadedTable
<1>11. /\ Len(rest) \in Nat /\ Len(dynamic'.entries) \in Nat
       /\ Len(rest) + 1 <= Len(dynamic'.entries)
  BY <1>9 DEF Ended
<1>12. size' = (Len(rest) + 1) * DynamicLen(class)
  BY <1>4, <1>7 DEF InFileLen
<1>13. segment' = size'
  <2>1. segment # 0
    <3>1. PICK k \in Nat : size = k * DynamicLen(class) /\ Len(LoadedTable) < k
      BY <1>1 DEF TableInv, InFile
    <3>2. Len(LoadedTable) \in Nat
      BY <1>2 DEF Ended
    <3>3. DynamicLen(class) \in {8, 16}
      BY DEF DynamicLen
    <3>4. size # 0
      BY <3>1, <3>2, <3>3
    <3> QED
      BY <3>4 DEF TableInv
  <2> QED
    BY <1>4, <2>1
<1>14. Truthful(rest)
  BY <1>2, TruthDropped DEF rest
<1>15. Truthful(LoadedTable)'
  BY <1>1, <1>10, <1>14 DEF Truthful
<1>16. \E k \in Nat : /\ size' = k * DynamicLen(class')
                      /\ Len(LoadedTable') < k /\ k <= Len(dynamic'.entries)
  BY <1>1, <1>10, <1>11, <1>12
<1> QED
  BY <1>1, <1>3, <1>9, <1>10, <1>13, <1>15, <1>16 DEF TableInv, InFile, rest

\* set_dynamic_tag: the entries of the call's tag and of both search paths go, and
\* those of the string table say where it is.
LEMMA TagIsSet ==
  ASSUME TableInv, CallInv, IInv, LoadedInv, UpdateTable
  PROVE  /\ table' \in Seq(Sound(strings))
         /\ Truthful(table)'
         /\ call.tag \in Settable /\ offset \in Nat
         /\ Append(GetString(strings, offset), NUL) = Append(call.string, NUL)
         /\ call.string \in Strings
         /\ Keep(table', {call.tag}) = <<[tag |-> call.tag, value |-> offset]>>
         /\ \A tag \in StringTags \cup OtherTags : tag # call.tag =>
              Keep(table', {tag}) = IF tag \in {Rpath, Runpath} THEN << >>
                                    ELSE Keep(table, {tag})
<1> DEFINE S == Sound(strings)
           others == Drop(table, {Rpath, Runpath})
           addressed == SetEntry(others, StrTab, dynstr.address)
           sized == SetEntry(addressed, StrSz, Len(dynstr.bytes))
<1>1. /\ pc \in {"search", "update"} /\ search = "over" /\ offset # None
      /\ dynstr' = [dynstr EXCEPT !.bytes = strings]
      /\ table' = SetEntry(sized, call.tag, offset)
  BY DEF UpdateTable, CallInv
<1>2. /\ call.tag \in Settable /\ call.string \in Strings
      /\ needle = Append(call.string, NUL) /\ strings = dynstr.bytes
  BY <1>1 DEF CallInv
<1>3. /\ Readable(strings, offset) /\ Append(GetString(strings, offset), NUL) = needle
  BY <1>1 DEF IInv, ReadsBack
<1>4. strings \in Seq(Byte) /\ offset \in Nat
  BY <1>1 DEF IInv, StringTableTypeOK
<1>5. dynstr'.address = dynstr.address /\ dynstr'.bytes = dynstr.bytes
  BY <1>1, <1>2 DEF LoadedInv
<1>6. dynstr.address \in Nat /\ Len(dynstr.bytes) \in Nat
  <2>1. dynstr.address \in Nat
    BY NumbersOfFiles DEF TableInv
  <2>2. Len(strings) \in Nat
    BY <1>4
  <2> QED
    BY <1>2, <2>1, <2>2
<1>7. table \in Seq(S)
  BY DEF TableInv
<1>8. others \in Seq(S)
  BY <1>7, KeepType DEF Drop
<1>9. [tag |-> StrTab, value |-> dynstr.address] \in S
      /\ [tag |-> StrSz, value |-> Len(dynstr.bytes)] \in S
  BY <1>6, SoundAddress
<1>10. [tag |-> call.tag, value |-> offset] \in S
  BY <1>2, <1>3, <1>4, SoundString, TagsApart
<1> HIDE DEF S, others
<1>11. /\ addressed \in Seq(S)
       /\ Keep(addressed, {StrTab}) = <<[tag |-> StrTab, value |-> dynstr.address]>>
       /\ \A tags : StrTab \notin tags => Keep(addressed, tags) = Keep(others, tags)
  <2> DEFINE a == dynstr.address
  <2> HIDE DEF a
  <2>1. [tag |-> StrTab, value |-> a] \in S
    BY <1>9 DEF a
  <2>2. /\ SetEntry(others, StrTab, a) \in Seq(S)
        /\ Keep(SetEntry(others, StrTab, a), {StrTab}) = <<[tag |-> StrTab, value |-> a]>>
        /\ \A tags : StrTab \notin tags =>
             Keep(SetEntry(others, StrTab, a), tags) = Keep(others, tags)
    BY <1>8, <2>1, SetAlone, SMTT(30)
  <2> QED
    BY <2>2, Zenon DEF a
<1> HIDE DEF addressed
<1>12. /\ sized \in Seq(S)
       /\ Keep(sized, {StrSz}) = <<[tag |-> StrSz, value |-> Len(dynstr.bytes)]>>
       /\ \A tags : StrSz \notin tags => Keep(sized, tags) = Keep(addressed, tags)
  BY <1>9, <1>11, SetAlone, SMTT(30)
<1> HIDE DEF sized
<1>13. /\ table' \in Seq(S)
       /\ Keep(table', {call.tag}) = <<[tag |-> call.tag, value |-> offset]>>
       /\ \A tags : call.tag \notin tags => Keep(table', tags) = Keep(sized, tags)
  BY <1>1, <1>10, <1>12, SetAlone
<1>14. /\ call.tag \in StringTags /\ call.tag # StrTab /\ call.tag # StrSz
       /\ StrTab # StrSz
  BY <1>2, TagsApart
<1>15. Keep(table', {StrTab}) = <<[tag |-> StrTab, value |-> dynstr.address]>>
       /\ Keep(table', {StrSz}) = <<[tag |-> StrSz, value |-> Len(dynstr.bytes)]>>
  <2>1. call.tag \notin {StrTab} /\ call.tag \notin {StrSz} /\ StrSz \notin {StrTab}
    BY <1>14
  <2>2. Keep(table', {StrTab}) = Keep(sized, {StrTab})
        /\ Keep(table', {StrSz}) = Keep(sized, {StrSz})
        /\ Keep(sized, {StrTab}) = Keep(addressed, {StrTab})
    BY <1>12, <1>13, <2>1
  <2> QED
    BY <1>11, <1>12, <2>2
<1>16. Truthful(table)'
  <2>1. \A e : <<e>> \in Seq({e}) /\ Len(<<e>>) <= 1
    OBVIOUS
  <2> DEFINE a == [tag |-> StrTab, value |-> dynstr.address]
             z == [tag |-> StrSz, value |-> Len(dynstr.bytes)]
  <2>2. /\ a = [tag |-> StrTab, value |-> dynstr'.address]
        /\ z = [tag |-> StrSz, value |-> Len(dynstr'.bytes)]
        /\ Keep(table', {StrTab}) = <<a>> /\ Keep(table', {StrSz}) = <<z>>
    BY <1>5, <1>15
  <2> HIDE DEF a, z
  <2>3. /\ Keep(table', {StrTab}) \in Seq({a}) /\ Len(Keep(table', {StrTab})) <= 1
        /\ Keep(table', {StrSz}) \in Seq({z})
    BY <2>1, <2>2
  <2> QED
    BY <2>2, <2>3 DEF Truthful
<1>17. ASSUME NEW tag \in StringTags \cup OtherTags, tag # call.tag
       PROVE  Keep(table', {tag}) = IF tag \in {Rpath, Runpath} THEN << >>
                                    ELSE Keep(table, {tag})
  <2>1. call.tag \notin {tag} /\ StrTab \notin {tag} /\ StrSz \notin {tag}
    BY <1>17, TagsApart
  <2>2. Keep(table', {tag}) = Keep(others, {tag})
    BY <1>11, <1>12, <1>13, <2>1
  <2>3. Keep(others, {tag}) = Keep(table, {tag} \ {Rpath, Runpath})
    BY <1>7, KeepDropped DEF others
  <2>4. CASE tag \in {Rpath, Runpath}
    <3>1. {tag} \ {Rpath, Runpath} = {}
      BY <2>4
    <3>2. Keep(table, {}) = << >>
      BY <1>7, KeepNone
    <3> QED
      BY <2>2, <2>3, <2>4, <3>1, <3>2
  <2>5. CASE tag \notin {Rpath, Runpath}
    <3>1. {tag} \ {Rpath, Runpath} = {tag}
      BY <2>5
    <3> QED
      BY <2>2, <2>3, <2>5, <3>1
  <2> QED
    BY <2>4, <2>5
<1> QED
  BY <1>2, <1>3, <1>4, <1>13, <1>16, <1>17, Zenon DEF S

\* The table that is written is the one that is loaded.
LEMMA TableIsPlaced ==
  ASSUME TableInv, CallInv, PlaceTable
  PROVE  /\ LoadedTable' = table
         /\ TableInv'
<1>1. /\ pc = "place" /\ pc' = "symbols"
      /\ dynstr' = dynstr /\ class' = class /\ order' = order /\ table' = table
      /\ strings' = strings /\ strings = dynstr.bytes
      /\ dynamic'.entries = WithEnd(table)
      /\ size' = InFileLen(table, class) /\ segment' = size'
  BY DEF PlaceTable, tableVars, CallInv
<1>2. table \in Seq(Sound(strings)) /\ Truthful(table)
  BY <1>1 DEF TableInv
<1>3. /\ table \in Seq(TableEntry)
      /\ \A n \in 1 .. Len(table) : table[n].tag # Null
  BY <1>2, SoundIsTable
<1>4. Ended(WithEnd(table), table) /\ Len(WithEnd(table)) = Len(table) + 1
  BY <1>3, EndWritten
<1>5. LoadedTable' = table
  BY <1>1, <1>4, EndedIsRead DEF LoadedTable
<1>6. Truthful(LoadedTable)'
  BY <1>1, <1>2, <1>5 DEF Truthful
<1>7. \E k \in Nat : /\ size' = k * DynamicLen(class')
                     /\ Len(LoadedTable') < k /\ k <= Len(dynamic'.entries)
  <2>1. Len(table) \in Nat
    BY <1>3
  <2> QED
    BY <1>1, <1>4, <1>5, <2>1 DEF InFileLen
<1> QED
  BY <1>1, <1>2, <1>4, <1>5, <1>6, <1>7 DEF TableInv, InFile

LEMMA StepTable ==
  ASSUME TableInv, CallInv, CallInv', IInv, LoadedInv, FollowInv, [Next]_vars
  PROVE  TableInv'
<1>1. ASSUME NEW tag \in Removable, RemoveTag(tag) PROVE TableInv'
  BY <1>1, TagIsRemoved
<1>2. ASSUME NEW tag \in Settable, NEW string \in Strings, SetTag(tag, string)
      PROVE  TableInv'
  <2>1. /\ pc = "idle" /\ pc' = "read_strings" /\ UNCHANGED <<tableVars, dynstr>>
        /\ class' = class /\ order' = order
        /\ table' = TableOfFile /\ size' = 0 /\ segment' = 0
    BY <1>2 DEF SetTag
  <2>2. InFile /\ ~InFile' /\ pc' # "place" /\ strings' = strings /\ dynstr' = dynstr
    BY <2>1 DEF InFile, tableVars
  <2>3. table' \in Seq(Sound(strings'))
    BY <2>1, <2>2, SizeEndsTable DEF TableInv, CallInv
  <2>4. \E k \in Nat : /\ size' = k * DynamicLen(class')
                       /\ InFile' => Len(LoadedTable') < k /\ k <= Len(dynamic'.entries)
    <3>1. DynamicLen(class') \in {8, 16}
      BY DEF DynamicLen
    <3>2. 0 * DynamicLen(class') = 0
      BY <3>1
    <3> QED
      BY <2>1, <2>2, <3>2
  <2> QED
    BY <2>1, <2>2, <2>3, <2>4 DEF TableInv
<1>3. ASSUME ~InFile, ~InFile', pc' # "place", table' = table,
             UNCHANGED <<class, order, size, segment>>,
             dynstr'.address \in Addresses \cup {StringsAddress},
             strings' = strings \/ SearchStep
      PROVE  TableInv'
  <2>1. table' \in Seq(Sound(strings'))
    <3>1. CASE strings' = strings
      BY <1>3, <3>1 DEF TableInv
    <3>2. CASE strings' # strings
      BY <1>3, <3>2, StringsGrow, SoundGrows DEF TableInv
    <3> QED
      BY <3>1, <3>2
  <2>2. \E k \in Nat : /\ size' = k * DynamicLen(class')
                       /\ InFile' => Len(LoadedTable') < k /\ k <= Len(dynamic'.entries)
    BY <1>3 DEF TableInv
  <2> QED
    BY <1>3, <2>1, <2>2 DEF TableInv
<1>4. CASE ReadStrings
  <2>1. pc = "read_strings" /\ pc' = "look_up" /\ table' = table /\ dynstr' = dynstr
        /\ UNCHANGED <<class, order, size, segment>> /\ strings' = strings
    BY <1>4 DEF ReadStrings, fileVars, CallInv
  <2> QED
    BY <1>3, <2>1 DEF InFile, TableInv
<1>5. CASE LookUp
  <2>1. pc = "look_up" /\ pc' = "search" /\ table' = table /\ dynstr' = dynstr
        /\ UNCHANGED <<class, order, size, segment>> /\ strings' = strings
    BY <1>5 DEF LookUp, fileVars, GetOffset, BeginSearch
  <2> QED
    BY <1>3, <2>1 DEF InFile, TableInv
<1>6. CASE Search
  <2>1. pc \in {"search", "insert"} /\ pc' = pc /\ table' = table /\ dynstr' = dynstr
        /\ UNCHANGED <<class, order, size, segment>> /\ SearchStep
    BY <1>6 DEF Search, dynamicVars, fileVars
  <2> QED
    BY <1>3, <2>1 DEF InFile, TableInv
<1>7. CASE InsertString
  <2>1. pc = "search" /\ pc' = "insert" /\ table' = table
        /\ dynstr' = [dynstr EXCEPT !.bytes = << >>]
        /\ UNCHANGED <<class, order, size, segment>> /\ strings' = strings
    BY <1>7 DEF InsertString, Insert, BeginSearch
  <2>2. dynstr'.address = dynstr.address
    BY <2>1 DEF LoadedInv
  <2> QED
    BY <1>3, <2>1, <2>2 DEF InFile, TableInv
<1>8. CASE PlaceStrings
  <2>1. pc = "insert" /\ pc' = "update" /\ table' = table
        /\ dynstr'.address \in Addresses
        /\ UNCHANGED <<class, order, size, segment>> /\ strings' = strings
    BY <1>8 DEF PlaceStrings, tableVars
  <2> QED
    BY <1>3, <2>1 DEF InFile, TableInv
<1>9. CASE UpdateTable
  <2>1. pc \in {"search", "update"} /\ pc' = "place" /\ strings' = strings
        /\ dynstr' = [dynstr EXCEPT !.bytes = strings]
        /\ UNCHANGED <<class, order, size, segment>>
    BY <1>9 DEF UpdateTable, tableVars
  <2>2. dynstr'.address = dynstr.address
    BY <2>1 DEF LoadedInv
  <2>3. table' \in Seq(Sound(strings')) /\ Truthful(table)'
    BY <1>9, <2>1, TagIsSet
  <2>4. \E k \in Nat : /\ size' = k * DynamicLen(class')
                       /\ InFile' => Len(LoadedTable') < k /\ k <= Len(dynamic'.entries)
    BY <2>1 DEF TableInv, InFile
  <2> QED
    BY <2>1, <2>2, <2>3, <2>4 DEF TableInv, InFile
<1>10. CASE PlaceTable
  BY <1>10, TableIsPlaced
<1>11. CASE MoveSymbols
  <2>1. /\ pc = "symbols" /\ pc' = "idle" /\ table' = << >>
        /\ UNCHANGED <<class, order, dynamic, size, segment, dynstr>>
    BY <1>11 DEF MoveSymbols
  <2>2. LoadedTable' = LoadedTable
    BY <2>1 DEF LoadedTable
  <2>3. Truthful(LoadedTable)'
    BY <2>1, <2>2 DEF TableInv, InFile, Truthful
  <2>4. table' \in Seq(Sound(strings'))
    BY <2>1
  <2>5. \E k \in Nat : /\ size' = k * DynamicLen(class')
                       /\ InFile' => Len(LoadedTable') < k /\ k <= Len(dynamic'.entries)
    BY <2>1, <2>2 DEF TableInv, InFile
  <2> QED
    BY <2>1, <2>2, <2>3, <2>4, <2>5 DEF TableInv, InFile
<1>12. CASE UNCHANGED vars
  <2>1. /\ UNCHANGED <<class, order, dynamic, size, segment, dynstr, table, strings, pc>>
    BY <1>12 DEF vars, dynamicVars, fileVars, tableVars
  <2> QED
    BY <2>1 DEF TableInv, InFile, LoadedTable, Truthful
<1> QED
  BY <1>1, <1>2, <1>4, <1>5, <1>6, <1>7, <1>8, <1>9, <1>10, <1>11, <1>12
  DEF Next, Step

ContentsInv == IInv /\ LoadedInv /\ FollowInv /\ CallInv /\ TableInv

LEMMA ContentsInvariant == Spec => []ContentsInv
<1>1. Spec => []IInv
  BY UsesStringTable, TableInvariant, PTL
<1>2. Spec => [](LoadedInv /\ FollowInv)
  BY InitLoaded, StepLoaded, InitFollow, StepFollow, PTL DEF Spec
<1>3. ASSUME CallInv /\ TableInv, [Next]_vars, IInv, LoadedInv, FollowInv
      PROVE  (CallInv /\ TableInv)'
  BY <1>3, StepCall, StepTable
<1>4. Spec => [](CallInv /\ TableInv)
  BY <1>1, <1>2, <1>3, InitCall, InitTable, PTL DEF Spec
<1> QED
  BY <1>1, <1>2, <1>4, PTL DEF ContentsInv

\* Whatever calls were made, and in the middle of each, the entries in memory and
\* in the file are whole ones with known tags whose strings are there, and the
\* symbols are as many as they were (set_dynamic_tag, remove_dynamic_tag).
THEOREM ContentsTypeCorrect == Spec => []DynamicTypeOK
<1>1. ContentsInv => DynamicTypeOK
  <2> SUFFICES ASSUME ContentsInv PROVE DynamicTypeOK
    OBVIOUS
  <2>1. size % DynamicLen(class) = 0
    <3>1. PICK k \in Nat : size = k * DynamicLen(class)
      BY DEF ContentsInv, TableInv
    <3>2. DynamicLen(class) \in {8, 16}
      BY DEF DynamicLen
    <3> QED
      BY <3>1, <3>2
  <2>2. /\ DOMAIN symbols = DOMAIN SymbolTables
        /\ \A k \in DOMAIN SymbolTables :
             /\ DOMAIN symbols[k] = DOMAIN SymbolTables[k]
             /\ \A n \in DOMAIN SymbolTables[k] :
                  symbols[k][n] = Moved(SymbolTables[k][n], Supposed)
    BY DEF ContentsInv, FollowInv
  <2>3. Supposed \in Nat
    BY DynamicSectionAssumption DEF ContentsInv, FollowInv
  <2>4. ASSUME NEW k \in DOMAIN symbols
        PROVE  /\ DOMAIN symbols[k] = DOMAIN SymbolTables[k]
               /\ \A n \in DOMAIN symbols[k] : symbols[k][n] \in Symbol
    <3>1. k \in DOMAIN SymbolTables /\ DOMAIN symbols[k] = DOMAIN SymbolTables[k]
      BY <2>2
    <3>2. ASSUME NEW n \in DOMAIN symbols[k] PROVE symbols[k][n] \in Symbol
      <4>1. /\ SymbolTables[k][n] \in Symbol
            /\ symbols[k][n] = Moved(SymbolTables[k][n], Supposed)
        BY <2>2, <3>1, SymbolOfFile
      <4> QED
        BY <2>3, <4>1 DEF Symbol, Moved
    <3> QED
      BY <3>1, <3>2
  <2>5. StringTableTypeOK
    BY DEF ContentsInv, IInv
  <2>6. dynamic.address \in Addresses \cup {TableAddress}
    BY DEF ContentsInv, FollowInv
  <2>7. /\ table \in Seq(Sound(strings))
        /\ pc \in {"idle", "symbols"} => LoadedTable \in Seq(Sound(dynstr.bytes))
    BY DEF ContentsInv, TableInv, InFile
  <2> QED
    BY <2>1, <2>2, <2>4, <2>5, <2>6, <2>7
    DEF ContentsInv, CallInv, TableInv, DynamicTypeOK
<1> QED
  BY <1>1, ContentsInvariant, PTL

(***************************************************************************)
(* What is loaded between two calls.                                       *)
(***************************************************************************)

\* The address and the size in the table are those of the string table, after any
\* number of calls that moved it.
THEOREM TableSaysWhereStringsAre == Spec => []StringsWhereSaid
<1>1. ASSUME NEW t \in Seq(TableEntry), NEW tag, NEW value, Has(t, tag),
             Keep(t, {tag}) \in Seq({[tag |-> tag, value |-> value]})
      PROVE  ValueOf(t, tag) = value
  <2> DEFINE I == Tagged(t, {tag})
             s == Keep(t, {tag})
             e == [tag |-> tag, value |-> value]
  <2>1. I # {} /\ I \subseteq Nat
    BY <1>1 DEF Has, Tagged
  <2>2. FirstOf(I) \in I
    BY <2>1, FirstPosition
  <2>3. \A n \in I : \E m \in 1 .. Len(s) : s[m] = t[n]
    BY KeepTagged
  <2>4. PICK m \in 1 .. Len(s) : s[m] = t[FirstOf(I)]
    BY <2>2, <2>3
  <2> HIDE DEF e
  <2>5. s \in Seq({e})
    BY <1>1 DEF e
  <2> HIDE DEF s
  <2>6. s[m] = e
    BY <2>5
  <2>7. t[FirstOf(I)] = e
    BY <2>4, <2>6
  <2> QED
    BY <2>7 DEF ValueOf, e
<1>2. ContentsInv => StringsWhereSaid
  <2> SUFFICES ASSUME ContentsInv, AtRest PROVE StringsWhereSaid
    BY DEF StringsWhereSaid
  <2>1. LoadedTable \in Seq(Sound(dynstr.bytes)) /\ Truthful(LoadedTable)
    BY DEF ContentsInv, TableInv, AtRest, InFile
  <2> DEFINE t == LoadedTable
             I == Tagged(t, {StrTab})
  <2> HIDE DEF t
  <2>2. t \in Seq(TableEntry)
    BY <2>1, SoundIsTable DEF t
  <2>3. /\ Has(t, StrTab) => ValueOf(t, StrTab) = dynstr.address
        /\ Has(t, StrSz) => ValueOf(t, StrSz) = Len(dynstr.bytes)
    BY <1>1, <2>1, <2>2 DEF Truthful, t
  <2>4. \A m, n \in I : m = n
    BY <2>1, <2>2, KeepTagged DEF Truthful, t
  <2>5. Cardinality(I) <= 1
    <3>1. CASE I = {}
      BY <3>1, FS_EmptySet
    <3>2. CASE I # {}
      <4>1. PICK n : I = {n}
        BY <2>4, <3>2
      <4> QED
        BY <4>1, FS_Singleton
    <3> QED
      BY <3>1, <3>2
  <2> QED
    BY <2>3, <2>5 DEF StringsWhereSaid, t
<1> QED
  BY <1>2, ContentsInvariant, PTL

Values(t, tag, bytes) ==
  [n \in DOMAIN Keep(t, {tag}) |-> Meaning(Keep(t, {tag})[n], bytes)]

LEMMA ValuesAre ==
  ASSUME NEW t, NEW bytes
  PROVE  ValuesOf(t, bytes) = [tag \in StringTags \cup OtherTags |-> Values(t, tag, bytes)]
BY DEF ValuesOf, Values

\* What goes by the sizes in the section header, the program header and what reads
\* up to the NULL entry agree on the table, and elb show prints what is loaded.
THEOREM EndsOfTableAgree == Spec => []EndsAgree
<1>1. ContentsInv => EndsAgree
  <2> SUFFICES ASSUME ContentsInv, AtRest PROVE EndsAgree
    BY DEF EndsAgree
  <2>1. /\ TableInv /\ InFile /\ segment = size
        /\ LoadedTable \in Seq(Sound(dynstr.bytes))
        /\ Ended(dynamic.entries, LoadedTable)
    BY DEF ContentsInv, TableInv, AtRest, InFile
  <2>2. TableOfFile = LoadedTable
    BY <2>1, SizeEndsTable
  <2>3. PICK k \in Nat : /\ size = k * DynamicLen(class)
                         /\ Len(LoadedTable) < k /\ k <= Len(dynamic.entries)
    BY <2>1 DEF TableInv
  <2>4. /\ LoadedTable \in Seq(TableEntry)
        /\ \A n \in 1 .. Len(LoadedTable) : LoadedTable[n].tag # Null
    BY <2>1, SoundIsTable
  <2>5. /\ size <= Len(dynamic.entries) * DynamicLen(class)
        /\ (Len(LoadedTable) + 1) * DynamicLen(class) <= size
    <3>1. DynamicLen(class) \in {8, 16} /\ Len(LoadedTable) \in Nat
          /\ Len(dynamic.entries) \in Nat
      BY <2>1, <2>4 DEF DynamicLen, Ended
    <3> QED
      BY <2>3, <3>1
  <2>6. ASSUME NEW tag \in StringTags \cup OtherTags
        PROVE  LET rows == Keep(ShownTable, {tag})
               IN  [n \in DOMAIN rows |-> rows[n].value] = StoredValues[tag]
    <3> DEFINE t == LoadedTable
               E == Sound(dynstr.bytes)
               shown == ShownTable
               F == {[tag |-> t[n].tag, value |-> ShownValue(t[n])] : n \in 1 .. Len(t)}
               own == Keep(t, {tag})
               rows == Keep(shown, {tag})
    <3>1. \A e \in E : ShownValue(e) = Meaning(e, dynstr.bytes)
      BY DEF Sound, ShownValue, Meaning
    <3>2. t \in Seq(E) /\ Len(t) \in Nat
      BY <2>1
    <3>3. shown = [n \in 1 .. Len(t) |-> [tag |-> t[n].tag, value |-> ShownValue(t[n])]]
      BY <2>2, <3>2 DEF ShownTable
    <3> HIDE DEF t, shown
    <3>4. shown \in Seq(F) /\ Len(shown) = Len(t)
      <4>1. \A n \in 1 .. Len(t) : [tag |-> t[n].tag, value |-> ShownValue(t[n])] \in F
        OBVIOUS
      <4> HIDE DEF F
      <4> QED
        BY <3>2, <3>3, <4>1
    <3>5. \A n \in 1 .. Len(t) : /\ shown[n].tag = t[n].tag
                                 /\ shown[n].value = Meaning(t[n], dynstr.bytes)
      BY <3>1, <3>2, <3>3
    <3> HIDE DEF F, E
    <3> DEFINE R == {pair \in E \X F : pair[2].value = Meaning(pair[1], dynstr.bytes)}
    <3>6. /\ Len(own) = Len(rows)
          /\ \A m \in 1 .. Len(own) : <<own[m], rows[m]>> \in R
      <4>1. /\ Len(t) = Len(shown)
            /\ \A n \in 1 .. Len(t) : t[n].tag \in {tag} <=> shown[n].tag \in {tag}
        BY <3>4, <3>5
      <4>2. \A n \in 1 .. Len(t) : t[n] \in E /\ shown[n] \in F
        BY <3>2, <3>4
      <4>3. \A n \in 1 .. Len(t) : <<t[n], shown[n]>> \in R
        BY <3>5, <4>2
      <4> HIDE DEF R
      <4> QED
        BY <3>2, <3>4, <4>1, <4>3, KeepSide
    <3>7. own \in Seq(E) /\ rows \in Seq(F)
      BY <3>2, <3>4, KeepType
    <3>8. StoredValues[tag] = Values(t, tag, dynstr.bytes)
      <4>1. StoredValues = ValuesOf(t, dynstr.bytes)
        BY <2>1 DEF StoredValues, InFile, t
      <4> QED
        BY <4>1, ValuesAre
    <3>9. Values(t, tag, dynstr.bytes) = [n \in DOMAIN own |-> Meaning(own[n], dynstr.bytes)]
      BY DEF Values
    <3> HIDE DEF own, rows
    <3>10. /\ DOMAIN rows = 1 .. Len(own) /\ DOMAIN own = 1 .. Len(own)
           /\ \A n \in 1 .. Len(own) : rows[n].value = Meaning(own[n], dynstr.bytes)
      <4>1. DOMAIN own = 1 .. Len(own) /\ DOMAIN rows = 1 .. Len(rows)
        BY <3>7
      <4>2. \A e, f : <<e, f>> \in R => f.value = Meaning(e, dynstr.bytes)
        OBVIOUS
      <4> HIDE DEF R
      <4> QED
        BY <3>6, <4>1, <4>2
    <3>11. [n \in DOMAIN rows |-> rows[n].value] = StoredValues[tag]
      BY <3>8, <3>9, <3>10
    <3> QED
      BY <3>11 DEF rows, shown
  <2>7. ShowsWhatIsLoaded
    BY <2>6 DEF ShowsWhatIsLoaded
  <2> QED
    BY <2>1, <2>2, <2>5, <2>7 DEF EndsAgree
<1> QED
  BY <1>1, ContentsInvariant, PTL

(***************************************************************************)
(* The abstract specification: the values of each tag, as whoever loads    *)
(* the file reads them.                                                    *)
(***************************************************************************)

StoreTags == StringTags \cup OtherTags

\* The same entries have the same values, and no entries have none.
LEMMA SameValues ==
  ASSUME NEW t, NEW r, NEW tag \in StoreTags, NEW bytes,
         Keep(r, {tag}) = Keep(t, {tag})
  PROVE  ValuesOf(r, bytes)[tag] = ValuesOf(t, bytes)[tag]
BY ValuesAre DEF Values, StoreTags

LEMMA NoValues ==
  ASSUME NEW t, NEW tag \in StoreTags, NEW bytes, Keep(t, {tag}) = << >>
  PROVE  ValuesOf(t, bytes)[tag] = << >>
<1>1. Values(t, tag, bytes) = << >>
  <2> DEFINE value(n) == Meaning(Keep(t, {tag})[n], bytes)
  <2> HIDE DEF value
  <2>1. DOMAIN << >> = {} /\ << >> = [n \in {} |-> value(n)]
    OBVIOUS
  <2>2. Values(t, tag, bytes) = [n \in DOMAIN Keep(t, {tag}) |-> value(n)]
    BY DEF Values, value
  <2> QED
    BY <2>1, <2>2
<1> QED
  BY <1>1, ValuesAre DEF StoreTags

LEMMA OneValue ==
  ASSUME NEW t, NEW tag \in StoreTags, NEW bytes, NEW e, Keep(t, {tag}) = <<e>>
  PROVE  ValuesOf(t, bytes)[tag] = <<Meaning(e, bytes)>>
<1>1. Values(t, tag, bytes) = <<Meaning(e, bytes)>>
  <2> DEFINE m == Meaning(e, bytes)
  <2>1. <<e>>[1] = e /\ DOMAIN <<e>> = {1} /\ <<m>> = [n \in {1} |-> m]
    OBVIOUS
  <2>2. Values(t, tag, bytes) = [n \in DOMAIN <<e>> |-> Meaning(<<e>>[n], bytes)]
    BY DEF Values
  <2> HIDE DEF m
  <2>3. [n \in {1} |-> Meaning(<<e>>[n], bytes)] = [n \in {1} |-> m]
    BY <2>1 DEF m
  <2> QED
    BY <2>1, <2>2, <2>3 DEF m
<1> QED
  BY <1>1, ValuesAre DEF StoreTags

\* Strings behind the end of the string table change no value.
LEMMA ValuesStay ==
  ASSUME NEW chars \in Seq(Byte), NEW more \in Seq(Byte), NEW t \in Seq(Sound(chars))
  PROVE  ValuesOf(t, chars \o more) = ValuesOf(t, chars)
<1>1. ASSUME NEW tag PROVE Values(t, tag, chars \o more) = Values(t, tag, chars)
  <2> DEFINE own == Keep(t, {tag})
             longer == chars \o more
  <2>1. own \in Seq(Sound(chars))
    BY KeepType
  <2>2. \A e \in Sound(chars) : Meaning(e, longer) = Meaning(e, chars)
    BY SoundGrows
  <2> HIDE DEF own, longer
  <2>3. \A n \in DOMAIN own : own[n] \in Sound(chars)
    BY <2>1
  <2>4. \A n \in DOMAIN own : Meaning(own[n], longer) = Meaning(own[n], chars)
    BY <2>2, <2>3
  <2>5. [n \in DOMAIN own |-> Meaning(own[n], longer)]
          = [n \in DOMAIN own |-> Meaning(own[n], chars)]
    BY <2>4
  <2> QED
    BY <2>5 DEF Values, own, longer
<1> HIDE DEF Values
<1> QED
  BY <1>1, ValuesAre

LEMMA AppendSame ==
  ASSUME NEW E, NEW x \in Seq(E), NEW y \in Seq(E), NEW e \in E,
         Append(x, e) = Append(y, e)
  PROVE  x = y
<1> DEFINE a == Append(x, e)
           b == Append(y, e)
<1>1. /\ Len(a) = Len(x) + 1 /\ Len(b) = Len(y) + 1
      /\ Len(x) \in Nat /\ Len(y) \in Nat
      /\ \A n \in 1 .. Len(x) : a[n] = x[n]
      /\ \A n \in 1 .. Len(y) : b[n] = y[n]
  OBVIOUS
<1>2. a = b
  OBVIOUS
<1> HIDE DEF a, b
<1>3. Len(x) = Len(y) /\ \A n \in 1 .. Len(x) : x[n] = y[n]
  BY <1>1, <1>2
<1> QED
  BY <1>3, SeqEqual

\* What was found is the string itself, not only its bytes up to the NUL.
LEMMA FoundIsString ==
  ASSUME NEW chars \in Seq(Byte), NEW o \in Nat, Readable(chars, o),
         NEW s \in Strings, Append(GetString(chars, o), NUL) = Append(s, NUL)
  PROVE  GetString(chars, o) = s
<1> DEFINE r == GetString(chars, o)
<1>1. PICK e \in Ends(chars, o) : r = SubSeq(chars, o + 1, e - 1)
  <2>1. Ends(chars, o) # {} /\ Ends(chars, o) \subseteq Nat
    BY DEF Readable, Ends
  <2>2. \E e \in Ends(chars, o) : \A f \in Ends(chars, o) : e <= f
    BY <2>1, LeastPosition
  <2> QED
    BY <2>2 DEF GetString
<1>2. e \in o + 1 .. Len(chars)
  BY DEF Ends
<1>3. r \in Seq(Byte)
  BY <1>1, <1>2
<1>4. s \in Seq(Byte)
  <2>1. s \in Seq(Chars) /\ Chars \subseteq Byte
    BY StringTableAssumption DEF Byte
  <2>2. Len(s) \in Nat /\ s = [n \in 1 .. Len(s) |-> s[n]]
    BY <2>1
  <2>3. \A n \in 1 .. Len(s) : s[n] \in Byte
    BY <2>1
  <2> QED
    BY <2>2, <2>3
<1>5. NUL \in Byte
  BY DEF Byte
<1> HIDE DEF r
<1>6. \A x, y \in Seq(Byte) : Append(x, NUL) = Append(y, NUL) => x = y
  BY <1>5, AppendSame
<1> QED
  BY <1>3, <1>4, <1>6 DEF r

LEMMA RemoveIsRemove ==
  ASSUME ContentsInv, NEW tag, RemoveTag(tag)
  PROVE  [Store!StoreNext]_StoredValues
<1> DEFINE t == LoadedTable
           bytes == dynstr.bytes
<1>1. /\ pc = "idle" /\ pc' = "idle" /\ dynstr' = dynstr
      /\ LoadedTable' = Drop(t, {tag}) /\ t \in Seq(Sound(bytes))
  <2>1. pc = "idle" /\ pc' = pc /\ dynstr' = dynstr
    BY DEF RemoveTag
  <2>2. LoadedTable' = Drop(LoadedTable, {tag})
    BY TagIsRemoved DEF ContentsInv
  <2> QED
    BY <2>1, <2>2 DEF ContentsInv, TableInv, InFile
<1>2. /\ StoredValues = ValuesOf(t, bytes)
      /\ StoredValues' = ValuesOf(Drop(t, {tag}), bytes)
  BY <1>1 DEF StoredValues
<1> HIDE DEF t, bytes
<1> DEFINE r == Drop(t, {tag})
<1>3. ASSUME NEW other \in StoreTags, other # tag
      PROVE  ValuesOf(r, bytes)[other] = ValuesOf(t, bytes)[other]
  <2>1. {other} \ {tag} = {other}
    BY <1>3
  <2>2. Keep(r, {other}) = Keep(t, {other})
    BY <1>1, <2>1, KeepDropped
  <2> QED
    BY <2>2, SameValues
<1>4. ASSUME tag \in StoreTags PROVE ValuesOf(r, bytes)[tag] = << >>
  <2>1. {tag} \ {tag} = {}
    OBVIOUS
  <2>2. Keep(r, {tag}) = << >>
    BY <1>1, <2>1, KeepDropped, KeepNone
  <2> QED
    BY <1>4, <2>2, NoValues
<1>5. /\ DOMAIN ValuesOf(r, bytes) = StoreTags
      /\ ValuesOf(r, bytes) = [x \in StoreTags |-> ValuesOf(r, bytes)[x]]
      /\ ValuesOf(t, bytes) = [x \in StoreTags |-> ValuesOf(t, bytes)[x]]
  BY DEF ValuesOf, StoreTags
<1> HIDE DEF r
<1>6. CASE tag \in StoreTags
  <2>1. Store!Remove(tag)
    BY <1>2, <1>3, <1>4, <1>5, <1>6 DEF Store!Remove, Store!Others, StoreTags, r
  <2> QED
    BY <1>6, <2>1 DEF Store!StoreNext, StoreTags
<1>7. CASE tag \notin StoreTags
  <2>1. ValuesOf(r, bytes) = ValuesOf(t, bytes)
    BY <1>3, <1>5, <1>7
  <2> QED
    BY <1>2, <2>1 DEF r
<1> QED
  BY <1>6, <1>7

LEMMA UpdateIsSet ==
  ASSUME ContentsInv, UpdateTable
  PROVE  Store!Set(call.tag, call.string) /\ call.tag \in Settable
         /\ call.string \in Strings
<1> DEFINE tag == call.tag
           t == table
           r == table'
<1>1. /\ call.tag \in Settable /\ offset \in Nat /\ call.string \in Strings
      /\ Append(GetString(strings, offset), NUL) = Append(call.string, NUL)
      /\ Keep(r, {call.tag}) = <<[tag |-> call.tag, value |-> offset]>>
      /\ \A other \in StoreTags : other # tag =>
           Keep(r, {other}) = IF other \in {Rpath, Runpath} THEN << >>
                              ELSE Keep(t, {other})
  BY TagIsSet DEF ContentsInv, StoreTags
<1>2. /\ pc \in {"search", "update"} /\ pc' = "place" /\ strings' = strings
      /\ offset # None
  BY DEF UpdateTable, tableVars, ContentsInv, CallInv
<1>3. StoredValues = ValuesOf(t, strings) /\ StoredValues' = ValuesOf(r, strings)
  BY <1>2 DEF StoredValues
<1>4. GetString(strings, offset) = call.string
  <2>1. strings \in Seq(Byte)
    BY DEF ContentsInv, IInv, StringTableTypeOK
  <2>2. Readable(strings, offset)
    BY <1>2 DEF ContentsInv, IInv, ReadsBack, UpdateTable, CallInv
  <2> QED
    BY <1>1, <2>1, <2>2, FoundIsString
<1>5. tag \in StringTags /\ tag \in StoreTags
  BY <1>1, TagsApart DEF StoreTags
<1>6. ValuesOf(r, strings)[tag] = <<call.string>>
  <2> DEFINE e == [tag |-> call.tag, value |-> offset]
  <2>1. Meaning(e, strings) = call.string
    BY <1>4, <1>5 DEF Meaning
  <2> HIDE DEF e
  <2>2. Keep(r, {tag}) = <<e>>
    BY <1>1 DEF e
  <2>3. ValuesOf(r, strings)[tag] = <<Meaning(e, strings)>>
    BY <1>5, <2>2, OneValue
  <2> QED
    BY <2>1, <2>3
<1> HIDE DEF t, r
<1>7. ASSUME NEW other \in StoreTags, other # tag, other \in {Rpath, Runpath}
      PROVE  ValuesOf(r, strings)[other] = << >>
  <2>1. Keep(r, {other}) = << >>
    BY <1>1, <1>7
  <2> QED
    BY <2>1, NoValues, Zenon
<1>8. ASSUME NEW other \in StoreTags, other # tag, other \notin {Rpath, Runpath}
      PROVE  ValuesOf(r, strings)[other] = ValuesOf(t, strings)[other]
  <2>1. Keep(r, {other}) = Keep(t, {other})
    BY <1>1, <1>8
  <2> QED
    BY <2>1, SameValues, ZenonT(60)
<1>9. DOMAIN ValuesOf(r, strings) = StoreTags
  BY DEF ValuesOf, StoreTags
<1>10. \A other \in StoreTags \ {tag} :
         /\ other \in {Rpath, Runpath} => StoredValues'[other] = << >>
         /\ other \notin {Rpath, Runpath} => StoredValues'[other] = StoredValues[other]
  BY <1>3, <1>7, <1>8
<1>11. StoredValues'[tag] = <<call.string>> /\ DOMAIN StoredValues' = StoreTags
  BY <1>3, <1>6, <1>9
<1>12. Store!Set(tag, call.string)
  BY <1>10, <1>11, Zenon DEF Store!Set, Store!Others, StoreTags
<1> QED
  BY <1>1, <1>12, Zenon

LEMMA SearchStays ==
  ASSUME ContentsInv, Search
  PROVE  StoredValues' = StoredValues
<1>1. pc \in {"search", "insert"} /\ pc' = pc /\ table' = table /\ SearchStep
  BY DEF Search, dynamicVars
<1>2. /\ StoredValues = ValuesOf(table, strings)
      /\ StoredValues' = ValuesOf(table, strings')
  BY <1>1 DEF StoredValues
<1>3. /\ strings \in Seq(Byte) /\ needle \in Seq(Byte)
      /\ strings' = strings \/ strings' = strings \o needle
  BY <1>1, StringsGrow DEF ContentsInv
<1>4. table \in Seq(Sound(strings))
  BY DEF ContentsInv, TableInv
<1>5. ValuesOf(table, strings \o needle) = ValuesOf(table, strings)
  BY <1>3, <1>4, ValuesStay
<1> QED
  BY <1>2, <1>3, <1>5

\* Every step of a call is a step of the abstract specification or changes nothing
\* there: removing a tag is one, and setting one is where the table in memory gets it.
LEMMA StepOfStore ==
  ASSUME ContentsInv, [Next]_vars
  PROVE  [Store!StoreNext]_StoredValues
<1>1. ASSUME NEW tag \in Removable, RemoveTag(tag)
      PROVE  [Store!StoreNext]_StoredValues
  BY <1>1, RemoveIsRemove
<1>2. ASSUME NEW tag \in Settable, NEW string \in Strings, SetTag(tag, string)
      PROVE  StoredValues' = StoredValues
  <2>1. /\ pc = "idle" /\ pc' = "read_strings" /\ strings' = strings
        /\ table' = TableOfFile
    BY <1>2 DEF SetTag, tableVars
  <2>2. table' = LoadedTable
    BY <2>1, SizeEndsTable DEF ContentsInv, InFile
  <2>3. strings = dynstr.bytes
    BY <2>1 DEF ContentsInv, CallInv
  <2> QED
    BY <2>1, <2>2, <2>3 DEF StoredValues
<1>3. ASSUME ReadStrings \/ LookUp \/ InsertString \/ PlaceStrings
      PROVE  StoredValues' = StoredValues
  <2>1. /\ pc \in {"read_strings", "look_up", "search", "insert"}
        /\ pc' \in {"look_up", "search", "insert", "update"}
        /\ table' = table /\ strings' = strings
    <3>1. CASE ReadStrings
      BY <3>1 DEF ReadStrings, ContentsInv, CallInv
    <3>2. CASE LookUp
      BY <3>2 DEF LookUp, GetOffset, BeginSearch
    <3>3. CASE InsertString
      BY <3>3 DEF InsertString, Insert, BeginSearch
    <3>4. CASE PlaceStrings
      BY <3>4 DEF PlaceStrings, tableVars
    <3> QED
      BY <1>3, <3>1, <3>2, <3>3, <3>4
  <2> QED
    BY <2>1 DEF StoredValues
<1>4. CASE Search
  BY <1>4, SearchStays
<1>5. CASE UpdateTable
  BY <1>5, UpdateIsSet DEF Store!StoreNext
<1>6. CASE PlaceTable
  <2>1. /\ pc = "place" /\ pc' = "symbols" /\ dynstr' = dynstr /\ strings = dynstr.bytes
    BY <1>6 DEF PlaceTable, ContentsInv, CallInv
  <2>2. LoadedTable' = table
    BY <1>6, TableIsPlaced DEF ContentsInv
  <2> QED
    BY <2>1, <2>2 DEF StoredValues
<1>7. CASE MoveSymbols
  <2>1. /\ pc = "symbols" /\ pc' = "idle" /\ UNCHANGED <<dynamic, dynstr>>
    BY <1>7 DEF MoveSymbols
  <2>2. LoadedTable' = LoadedTable
    BY <2>1 DEF LoadedTable
  <2> QED
    BY <2>1, <2>2 DEF StoredValues
<1>8. CASE UNCHANGED vars
  <2>1. UNCHANGED <<dynamic, dynstr, table, strings, pc>>
    BY <1>8 DEF vars, dynamicVars, fileVars, tableVars
  <2>2. LoadedTable' = LoadedTable
    BY <2>1 DEF LoadedTable
  <2> QED
    BY <2>1, <2>2 DEF StoredValues
<1> QED
  BY <1>1, <1>2, <1>3, <1>4, <1>5, <1>6, <1>7, <1>8 DEF Next, Step

\* remove_dynamic_tag and set_dynamic_tag change the values of the tags as TagStore
\* says: the tag that is set has the string and no search path is left beside it, and
\* nothing else is lost, changed or put in another order.
THEOREM ImplementsTagStore == Spec => RefinesTagStore
<1>1. Init => Store!StoreInit
  <2> SUFFICES ASSUME Init PROVE Store!StoreInit
    OBVIOUS
  <2>1. PICK f \in Files : LoadedTable = f.table /\ dynstr.bytes = f.strings
    BY InitTable
  <2>2. StoredValues = ValuesOf(f.table, f.strings)
    BY <2>1 DEF StoredValues, Init
  <2> QED
    BY <2>2 DEF Store!StoreInit
<1>2. ContentsInv /\ [Next]_vars => [Store!StoreNext]_StoredValues
  BY StepOfStore
<1> QED
  BY <1>1, <1>2, ContentsInvariant, PTL DEF Spec, RefinesTagStore, Store!StoreSpec
===============================================================================
