----------------------------- MODULE MCElfLayout -----------------------------
(***************************************************************************)
(* Small layouts for ElfLayout: pages of 8 bytes, a header of 2 bytes.     *)
(***************************************************************************)
EXTENDS ElfLayout

MCNames == {"", ".interp", ".text", ".dynamic"}

Sec(name, kind, alloc, write, offset, address, size, align) ==
  [name |-> name, kind |-> kind, alloc |-> alloc, write |-> write,
   offset |-> offset, address |-> address, size |-> size, link |-> 1,
   align |-> align]

Seg(kind, write, offset, address, file_size, memory_size, align) ==
  [kind |-> kind, write |-> write, offset |-> offset, address |-> address,
   file_size |-> file_size, memory_size |-> memory_size, align |-> align]

\* A static executable: PHDR, a read-only and a writable LOAD, DYNAMIC, and
\* GNU_STACK, which is empty and at offset 0.
Executable ==
  [sections |-> <<
     NullSection,
     Sec(".text", "ProgramBits", TRUE, FALSE, 10, 10, 2, 2),
     Sec(".dynamic", "Dynamic", TRUE, TRUE, 14, 22, 2, 2)>>,
   segments |-> <<
     Seg("ProgramHeader", FALSE, 2, 2, 4, 4, 1),
     Seg("Loadable", FALSE, 0, 0, 12, 12, 8),
     Seg("Loadable", TRUE, 12, 20, 4, 4, 8),
     Seg("Dynamic", TRUE, 14, 22, 2, 2, 2),
     Seg("Other", FALSE, 0, 0, 0, 0, 1)>>]

\* A library whose LOADs leave the start of the file alone, with a null segment.
\* The gap before .text is as long as .interp, but not at the right place for
\* its alignment.
Library ==
  [sections |-> <<
     NullSection,
     Sec(".text", "ProgramBits", TRUE, FALSE, 12, 12, 3, 1),
     Sec(".dynamic", "Dynamic", TRUE, TRUE, 20, 28, 2, 2)>>,
   segments |-> <<
     Seg("Loadable", FALSE, 9, 9, 10, 10, 8),
     Seg("Null", FALSE, 0, 0, 0, 0, 0),
     Seg("Loadable", TRUE, 20, 28, 4, 6, 8),
     Seg("Dynamic", TRUE, 20, 28, 2, 2, 2)>>]

\* A program that was stripped of its section header, with one LOAD and little
\* room left below the largest word.
Stripped ==
  [sections |-> << >>,
   segments |-> <<Seg("Loadable", FALSE, 8, 16, 4, 8, 8)>>]

MCInitialLayouts == {Executable, Library, Stripped}

MCRequests ==
  {Sec(".interp", "ProgramBits", TRUE, FALSE, 0, 0, 3, 2),
   Sec(".dynamic", "Dynamic", TRUE, TRUE, 0, 0, 2, 2)}

MCSegmentRequests ==
  {Seg("ProgramHeader", FALSE, 0, 0, 4, 4, 2)}
==============================================================================
