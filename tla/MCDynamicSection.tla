--------------------------- MODULE MCDynamicSection ---------------------------
(***************************************************************************)
(* Small files for DynamicSection.  A byte has four values, so that a word *)
(* of a 32-bit file has 256 and one of a 64-bit file 65536.                *)
(***************************************************************************)
EXTENDS DynamicSection

MCStrings == {<< >>, <<1, 2>>, <<2, 1>>}

E(tag, value) == [tag |-> tag, value |-> value]

\* NUL 1 1 2 NUL 2 NUL: the entry 2 is behind a string that ends with it.
LibraryStrings == <<0, 1, 1, 2, 0, 2, 0>>

\* NUL 1 NUL: the search path is not there.
ProgramStrings == <<0, 1, 0>>

MCTables == {LibraryStrings, ProgramStrings}

\* A library with both search paths, and a name twice, as only a linker that is
\* told so makes it; the section has room to spare.  A program whose table does
\* not say where the strings are, so that .dynstr is found by its name.
MCFiles ==
  {[strings |-> LibraryStrings, spare |-> 1,
    table |-> <<E(Needed, 5), E(Soname, 1), E(Rpath, 1), E(StrTab, 8),
                E(Needed, 1), E(Runpath, 5), E(Soname, 5), E(StrSz, 7),
                E(CHOOSE t \in OtherTags : TRUE, 255)>>],
   [strings |-> ProgramStrings, spare |-> 0, table |-> <<E(Needed, 1)>>]}

NewSymbol(name, address, visibility) ==
  [name_offset |-> name, address |-> address, size |-> 3, section_index |-> 1,
   binding |-> 1, kind |-> 1, visibility |-> visibility]

\* The symbol of the table is in one of the tables.
MCSymbolTables ==
  <<<<NewSymbol(0, 0, 0), NewSymbol(7, TableAddress, 1)>>, <<NewSymbol(2, 30, 1)>>>>

\* The first byte of a field tells the fields apart; the widest values a field
\* may have are there, where two values share a field too, and words that only a
\* 64-bit file has.
Filled(kind, class_, n) ==
  LET fields == Fields(kind, class_)
      index(name) == CHOOSE m \in DOMAIN fields : fields[m][1] = name
      width(name) == fields[index(name)][2]
  IN  [name \in {fields[m][1] : m \in DOMAIN fields} |->
         IF n = 0 THEN Limit(width(name)) - 1
         ELSE (index(name) * 7 + n) % Limit(width(name))]

MCEntries(kind, class_) ==
  LET wide == {0, 77, Limit(4) - 1, Limit(WordLen(class_)) - 1}
      kinds == {0, 1, KindsOfRel(class_) - 1}
      names == {0, 1, Limit(WordLen(class_)) \div KindsOfRel(class_) - 1}
  IN  IF kind = "Symbol"
      THEN [name_offset : {6}, address : wide, size : {5}, section_index : {9},
            binding : {0, 1}, kind : {0, 1}, visibility : {0, 1}]
      ELSE IF kind = "Rel"
      THEN [offset : wide, symbol : names, kind : kinds]
      ELSE IF kind = "RelA"
      THEN [offset : {77}, symbol : names, kind : kinds,
            addend : {-1, 0, 127, -128, Limit(WordLen(class_)) \div 2 - 1}]
      ELSE {Filled(kind, class_, n) : n \in 0 .. 2}
===============================================================================
