------------------------------- MODULE ElfFile -------------------------------
(***************************************************************************)
(* The bytes of a file, as the set of blocks that were written to it and   *)
(* are still intact (ElfWrite, ElfSeek and zero in io.rs).  A block has a  *)
(* content; what a write overlaps is lost as a whole.                      *)
(***************************************************************************)
EXTENDS Naturals

\* What is read where no intact block has been written.
Garbage == [garbage |-> TRUE]

Block(offset, len, content) ==
  [offset |-> offset, len |-> len, content |-> content]

\* A write of no bytes changes none.
Overlaps(b, offset, len) ==
  /\ len # 0 /\ b.len # 0
  /\ b.offset < offset + len /\ offset < b.offset + b.len

\* Zero, one byte too far.
ZeroPast(file, offset, len) == {b \in file : ~Overlaps(b, offset, len + 1)}

\* io::zero.
Zero(file, offset, len) == {b \in file : ~Overlaps(b, offset, len)}

\* A seek and a write of len bytes.
Write(file, offset, len, content) ==
  Zero(file, offset, len) \cup {Block(offset, len, content)}

Stored(file, offset, len) == {b \in file : b.offset = offset /\ b.len = len}

\* A seek and a read of len bytes.
Read(file, offset, len) ==
  IF Stored(file, offset, len) = {} THEN Garbage
  ELSE (CHOOSE b \in Stored(file, offset, len) : TRUE).content
==============================================================================
