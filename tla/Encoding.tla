------------------------------- MODULE Encoding -------------------------------
(***************************************************************************)
(* How the entries of ELF tables are laid out in bytes: the integers of    *)
(* io.rs, and EntityIo of sections, segments, symbols, relocations and the *)
(* file header, for both classes and both byte orders.                     *)
(*                                                                         *)
(* A byte has Base values, a multiple of Nibble and of Visibilities as 256 *)
(* is of 16 and of 4.  Widths and lengths are those of the code.           *)
(***************************************************************************)
EXTENDS Integers, SequencesExt

CONSTANTS
  Base,         \* the number of values of a byte,
  Nibble,       \* of each half of the byte st_info,
  Visibilities  \* and of the part of st_other that is kept

ASSUME EncodingAssumption ==
  /\ {Base, Nibble, Visibilities} \subseteq Nat \ {0, 1}
  /\ Base = Nibble * Nibble
  /\ Base % Visibilities = 0

Classes == {"Elf32", "Elf64"}

ByteOrders == {"LittleEndian", "BigEndian"}

WordLen(class) == IF class = "Elf32" THEN 4 ELSE 8

(***************************************************************************)
(* ElfRead and ElfWrite: an integer of some width.                         *)
(***************************************************************************)

Limit(width) == Base ^ width

Bytes(value, width, order) ==
  LET little == [k \in 1 .. width |-> (value \div Limit(k - 1)) % Base]
  IN  IF order = "LittleEndian" THEN little ELSE Reverse(little)

Number(bytes, order) ==
  LET big == IF order = "BigEndian" THEN bytes ELSE Reverse(bytes)
      n[k \in 0 .. Len(big)] == IF k = 0 THEN 0 ELSE n[k - 1] * Base + big[k]
  IN  n[Len(big)]

\* i32 and i64 as the unsigned integer with the same bytes, and back.
Unsigned(value, width) == value % Limit(width)

Signed(value, width) ==
  IF value < Limit(width) \div 2 THEN value ELSE value - Limit(width)

(***************************************************************************)
(* The fields of an entry, in the order they are read and in the order     *)
(* they are written, with their widths.                                    *)
(***************************************************************************)

Kinds == {"Section", "Segment", "Symbol", "Rel", "RelA", "Header"}

SectionFields(w) ==
  <<<<"name_offset", 4>>, <<"kind", 4>>, <<"flags", w>>,
    <<"virtual_address", w>>, <<"offset", w>>, <<"size", w>>,
    <<"link", 4>>, <<"info", 4>>, <<"align", w>>, <<"entry_len", w>>>>

\* In 64-bit files the flags are up front, as they fill the gap before a word.
SegmentFields(w) ==
  LET flags == <<<<"flags", 4>>>>
      words == <<<<"offset", w>>, <<"virtual_address", w>>,
                 <<"physical_address", w>>, <<"file_size", w>>,
                 <<"memory_size", w>>>>
  IN  <<<<"kind", 4>>>>
        \o (IF w = 8 THEN flags \o words ELSE words \o flags)
        \o <<<<"align", w>>>>

SymbolFields(w) ==
  LET small == <<<<"info", 1>>, <<"other", 1>>, <<"section_index", 2>>>>
      words == <<<<"address", w>>, <<"size", w>>>>
  IN  <<<<"name_offset", 4>>>>
        \o (IF w = 8 THEN small \o words ELSE words \o small)

RelFields(w) == <<<<"offset", w>>, <<"info", w>>>>

RelAFields(w) == RelFields(w) \o <<<<"addend", w>>>>

\* The file header, behind the sixteen bytes that tell class and byte order.
HeaderFields(w) ==
  <<<<"kind", 2>>, <<"machine", 2>>, <<"version", 4>>, <<"entry_point", w>>,
    <<"program_header_offset", w>>, <<"section_header_offset", w>>,
    <<"flags", 4>>, <<"len", 2>>, <<"segment_len", 2>>,
    <<"num_segments", 2>>, <<"section_len", 2>>, <<"num_sections", 2>>,
    <<"section_names_index", 2>>>>

IdentLen == 16

Fields(kind, class) ==
  LET w == WordLen(class)
  IN  IF kind = "Section" THEN SectionFields(w)
      ELSE IF kind = "Segment" THEN SegmentFields(w)
      ELSE IF kind = "Symbol" THEN SymbolFields(w)
      ELSE IF kind = "Rel" THEN RelFields(w)
      ELSE IF kind = "RelA" THEN RelAFields(w)
      ELSE HeaderFields(w)

(***************************************************************************)
(* What a field of the program is in the file.  Symbols keep three values  *)
(* in two bytes, relocations keep two in a word.  The class decides where  *)
(* they are cut, and what is wider than its place is lost without an error.*)
(***************************************************************************)

SymbolInfo(binding, kind) == ((binding * Nibble) % Base) + (kind % Nibble)

\* The cut of 64-bit files in files of both classes.
RelInfoWide(symbol, kind, class) == symbol * Limit(4) + kind

RelInfo(symbol, kind, class) ==
  IF class = "Elf32" THEN ((symbol * Base) % Limit(4)) + (kind % Base)
  ELSE symbol * Limit(4) + kind

KindsOfRel(class) == IF class = "Elf32" THEN Base ELSE Limit(4)

ToFile(kind, e, class) ==
  IF kind = "Symbol"
  THEN [name_offset |-> e.name_offset, address |-> e.address, size |-> e.size,
        section_index |-> e.section_index,
        info |-> SymbolInfo(e.binding, e.kind), other |-> e.visibility]
  ELSE IF kind = "Rel"
  THEN [offset |-> e.offset, info |-> RelInfo(e.symbol, e.kind, class)]
  ELSE IF kind = "RelA"
  THEN [offset |-> e.offset, info |-> RelInfo(e.symbol, e.kind, class),
        addend |-> Unsigned(e.addend, WordLen(class))]
  ELSE e

FromFile(kind, f, class) ==
  IF kind = "Symbol"
  THEN [name_offset |-> f.name_offset, address |-> f.address, size |-> f.size,
        section_index |-> f.section_index,
        binding |-> f.info \div Nibble, kind |-> f.info % Nibble,
        visibility |-> f.other % Visibilities]
  ELSE IF kind \in {"Rel", "RelA"}
  THEN LET rel == [offset |-> f.offset,
                   symbol |-> f.info \div KindsOfRel(class),
                   kind |-> f.info % KindsOfRel(class)]
       IN  IF kind = "Rel" THEN rel
           ELSE rel @@ [addend |-> Signed(f.addend, WordLen(class))]
  ELSE f

(***************************************************************************)
(* EntityIo::read and write.                                               *)
(***************************************************************************)

\* In a 32-bit file write_word, write_u32_as_u64 and write_i32_as_i64 refuse a
\* value that is wider than the field.
Writable(kind, e, class) ==
  LET w == WordLen(class)
  IN  /\ \A n \in DOMAIN Fields(kind, class) :
           LET field == Fields(kind, class)[n]
           IN  ToFile(kind, e, class)[field[1]] < Limit(field[2])
      /\ kind = "RelA" => Signed(Unsigned(e.addend, w), w) = e.addend

WriteEntry(kind, e, class, order) ==
  LET fields == Fields(kind, class)
      file == ToFile(kind, e, class)
  IN  FlattenSeq([n \in DOMAIN fields |->
                    Bytes(file[fields[n][1]], fields[n][2], order)])

\* The bytes in front of a field.
Before(fields, n) ==
  FoldLeft(LAMBDA sum, field : sum + field[2], 0, SubSeq(fields, 1, n - 1))

ReadEntry(kind, bytes, class, order) ==
  LET fields == Fields(kind, class)
      names == {fields[n][1] : n \in DOMAIN fields}
      value(name) ==
        LET n == CHOOSE m \in DOMAIN fields : fields[m][1] = name
            start == Before(fields, n)
        IN  Number(SubSeq(bytes, start + 1, start + fields[n][2]), order)
  IN  FromFile(kind, [name \in names |-> value(name)], class)

(***************************************************************************)
(* BlockRead and BlockWrite of tables: the number of entries is that of    *)
(* whole entries in the length, by the lengths of constants.rs.            *)
(***************************************************************************)

EntryLen(kind, class) ==
  LET len32 == [Section |-> 40, Segment |-> 32, Symbol |-> 16, Rel |-> 8,
                RelA |-> 12, Header |-> 52 - IdentLen]
      len64 == [Section |-> 64, Segment |-> 56, Symbol |-> 24, Rel |-> 16,
                RelA |-> 24, Header |-> 64 - IdentLen]
  IN  IF class = "Elf32" THEN len32[kind] ELSE len64[kind]

Entry(bytes, n, len) == SubSeq(bytes, (n - 1) * len + 1, n * len)

WriteTable(kind, table, class, order) ==
  FlattenSeq([n \in DOMAIN table |-> WriteEntry(kind, table[n], class, order)])

ReadTable(kind, bytes, class, order) ==
  LET len == EntryLen(kind, class)
  IN  [n \in 1 .. Len(bytes) \div len |->
         ReadEntry(kind, Entry(bytes, n, len), class, order)]
===============================================================================
