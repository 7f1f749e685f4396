----------------------------- MODULE MCElfPatcher -----------------------------
(***************************************************************************)
(* Small ELF files for ElfPatcher, with the numbers of 64-bit ELF.         *)
(***************************************************************************)
EXTENDS FirstSession

MCNames == {"", ".interp", ".text", ".dynstr", ".dynamic", ".dynsym", ".data",
            ".symtab", ".strtab", ".shstrtab"}

Sec(name, kind, alloc, write, offset, address, size, link, align) ==
  [name |-> name, kind |-> kind, alloc |-> alloc, write |-> write,
   offset |-> offset, address |-> address, size |-> size, link |-> link,
   align |-> align]

Seg(kind, write, offset, address, file_size, memory_size, align) ==
  [kind |-> kind, write |-> write, offset |-> offset, address |-> address,
   file_size |-> file_size, memory_size |-> memory_size, align |-> align]

\* What a section of the initial files holds.
Content(s, dynamic, interp, tags, strings, section_names) ==
  IF s.name = ".interp" THEN [interp |-> interp]
  ELSE IF s.name = ".dynamic" THEN [tags |-> tags]
  ELSE IF s.name = ".shstrtab" THEN [strings |-> section_names]
  ELSE IF s.kind = "StringTable" THEN [strings |-> strings]
  ELSE IF s.kind = "SymbolTable" \/ s.kind = "DynamicSymbolTable"
       THEN [symbol |-> dynamic]
  ELSE [data |-> s.name]

\* A file whose tables are at the given offsets.
ELF(secs, segs, phdr, shdr, names_index, interp, tags, strings) ==
  LET section_names == {secs[i].name : i \in DOMAIN secs}
      tables == Positions(secs, "Dynamic")
      dynamic == IF tables = {} THEN 0 ELSE secs[First(tables)].address
      h == [program_header_offset |-> phdr, num_segments |-> Len(segs),
            section_header_offset |-> shdr, num_sections |-> Len(secs),
            section_names_index |-> names_index, entry_point |-> 0]
  IN  [header |-> h, sections |-> secs, segments |-> segs,
       file |->
         {Block(0, 64, [header |-> h]),
          Block(phdr, 56 * Len(segs), [segments |-> segs]),
          Block(shdr, 64 * Len(secs), [sections |-> secs])}
           \cup {Block(secs[i].offset, secs[i].size,
                       Content(secs[i], dynamic, interp, tags, strings,
                               section_names))
                   : i \in {k \in DOMAIN secs : InFile(secs[k])}}]

\* A dynamically linked executable as a linker makes it: the first LOAD starts
\* with the file, and GNU_STACK is empty and at offset 0.  Behind .text, at 960,
\* the LOAD may go on.
ExecutableTo(end) ==
  ELF(<<NullSection,
        Sec(".interp", "ProgramBits", TRUE, FALSE, 512, 512, 16, 1, 1),
        Sec(".dynstr", "StringTable", TRUE, FALSE, 528, 528, 24, 1, 1),
        Sec(".dynsym", "DynamicSymbolTable", TRUE, FALSE, 552, 552, 48, 3, 8),
        Sec(".text", "ProgramBits", TRUE, FALSE, 608, 608, 352, 1, 16),
        Sec(".dynamic", "Dynamic", TRUE, TRUE, 1024, 5120, 80, 3, 8),
        Sec(".data", "ProgramBits", TRUE, TRUE, 1120, 5216, 40, 1, 8),
        Sec(".shstrtab", "StringTable", FALSE, FALSE, 1160, 0, 60, 1, 1)>>,
      <<Seg("ProgramHeader", FALSE, 64, 64, 336, 336, 8),
        Seg("Interpreter", FALSE, 512, 512, 16, 16, 1),
        Seg("Loadable", FALSE, 0, 0, end, end, 4096),
        Seg("Loadable", TRUE, 1024, 5120, 136, 136, 4096),
        Seg("Dynamic", TRUE, 1024, 5120, 80, 80, 8),
        Seg("Other", FALSE, 0, 0, 0, 0, 1)>>,
      64, 1224, 8, "/lib/ld",
      [t \in {"Needed", "StringTableAddress", "StringTableSize"} |->
         IF t = "Needed" THEN "libc"
         ELSE IF t = "StringTableAddress" THEN 528 ELSE 24],
      {"libc"})

Executable == ExecutableTo(960)
Padded == ExecutableTo(1000)

\* The theorems of FirstSessionProofs are about files like the first one; those
\* about ordinary files are about the second one, too.
ASSUME LinkedFile(Executable) /\ PageSize % DynamicAlign = 0
ASSUME /\ LoadsCongruent(Executable.segments)
       /\ AlignIsValid(PageSize) /\ SegmentLen <= SectionLen
ASSUME OrdinaryFile(Padded) /\ ~LinkedFile(Padded)
ASSUME OrdinaryTags

\* A shared library as GNU ld makes it: the first LOAD starts with the file, and
\* there is no PHDR.
SharedObject ==
  ELF(<<NullSection,
        Sec(".dynsym", "DynamicSymbolTable", TRUE, FALSE, 512, 512, 48, 3, 8),
        Sec(".dynstr", "StringTable", TRUE, FALSE, 560, 560, 24, 1, 1),
        Sec(".text", "ProgramBits", TRUE, FALSE, 640, 640, 320, 1, 16),
        Sec(".dynamic", "Dynamic", TRUE, TRUE, 1024, 5120, 80, 3, 8),
        Sec(".data", "ProgramBits", TRUE, TRUE, 1120, 5216, 40, 1, 8),
        Sec(".shstrtab", "StringTable", FALSE, FALSE, 1160, 0, 60, 1, 1)>>,
      <<Seg("Loadable", FALSE, 0, 0, 1000, 1000, 4096),
        Seg("Loadable", TRUE, 1024, 5120, 136, 136, 4096),
        Seg("Dynamic", TRUE, 1024, 5120, 80, 80, 8)>>,
      64, 1224, 7, Absent,
      [t \in {"Needed", "StringTableAddress", "StringTableSize"} |->
         IF t = "Needed" THEN "libc"
         ELSE IF t = "StringTableAddress" THEN 560 ELSE 24],
      {"libc"})

\* A library whose LOADs do not hold the file header, without INTERP and PHDR,
\* and without some of the names the patcher needs.
Library ==
  ELF(<<NullSection,
        Sec(".strtab", "StringTable", TRUE, FALSE, 4096, 4096, 256, 1, 1),
        Sec(".text", "ProgramBits", TRUE, FALSE, 4352, 4352, 128, 1, 16),
        Sec(".dynamic", "Dynamic", TRUE, TRUE, 5120, 9216, 96, 2, 8),
        Sec(".symtab", "SymbolTable", FALSE, FALSE, 5216, 0, 48, 1, 8),
        Sec(".shstrtab", "StringTable", FALSE, FALSE, 5264, 0, 300, 1, 1)>>,
      <<Seg("Loadable", FALSE, 4096, 4096, 400, 400, 4096),
        Seg("Loadable", TRUE, 5120, 9216, 96, 96, 4096),
        Seg("Dynamic", TRUE, 5120, 9216, 96, 96, 8)>>,
      64, 5568, 6, Absent,
      [t \in {"Needed", "StringTableAddress", "StringTableSize", "Soname"} |->
         IF t = "Needed" THEN "libc" ELSE IF t = "Soname" THEN "lib"
         ELSE IF t = "StringTableAddress" THEN 4096 ELSE 256],
      {"libc", "lib"})

\* An executable that was stripped of its section header.
Stripped ==
  ELF(<< >>,
      <<Seg("Interpreter", FALSE, 512, 512, 16, 16, 1),
        Seg("Loadable", FALSE, 0, 0, 1000, 1000, 4096)>>,
      64, 0, 1, "/lib/ld", << >>, {})

\* A program without a string table, whose header has the index one past the
\* last section for the table of section names; Header::check accepts that.
Nameless ==
  ELF(<<NullSection,
        Sec(".dynamic", "Dynamic", TRUE, TRUE, 4096, 4096, 32, 1, 8)>>,
      <<Seg("Loadable", TRUE, 4096, 4096, 400, 400, 4096)>>,
      64, 4496, 3, Absent, [t \in {"Soname"} |-> "lib"], {"lib"})

MCStringLen ==
  [s \in MCNames \cup {"/lib/ld", "/a", "/tail", "libc", "lib", "/x", "/y"} |->
     CASE s = "" -> 1 [] s = "/a" -> 60 [] s = "/tail" -> 40 [] s = "/lib/ld" -> 16
       [] s = ".interp" -> 8 [] s = ".dynamic" -> 9 [] s = ".dynstr" -> 8
       [] s = ".shstrtab" -> 10 [] OTHER -> 20]

Exec == {Executable}
Pad == {Padded}
Shared == {SharedObject}
Lib == {Library}
Odd == {Stripped, Nameless}
Tableless == {Nameless}
All == {Library, Stripped, Nameless}
Regular == {Executable, Padded, Library}

\* The sections the calls ask space for in these files.
MCRequests ==
  {Request(".interp", "ProgramBits", FALSE, n, 1, 1) : n \in {16, 60}}
    \cup {Request(".dynstr", "StringTable", FALSE, n, 1, 1) : n \in {44, 276}}
    \cup {Request(".shstrtab", "StringTable", FALSE, n, 1, 1) : n \in {308, 316}}
    \cup {Request(".dynamic", "Dynamic", TRUE, n, slot, 8) :
            n \in {80, 96}, slot \in {2, 3, 4}}

MCSegmentRequests == {PhdrRequest(PhdrLen(n)) : n \in 0 .. 10}
===============================================================================
