----------------------------- MODULE DynamicTable -----------------------------
(***************************************************************************)
(* The dynamic table (dynamic_table.rs): a sequence of tags with values    *)
(* that ends with a NULL entry in the file, and without one in memory.     *)
(***************************************************************************)
EXTENDS Encoding

Null == 0

NullEntry == [tag |-> Null, value |-> 0]

TableEntry == [tag : Nat, value : Nat]

(***************************************************************************)
(* In memory.                                                              *)
(***************************************************************************)

\* The positions of the entries that have one of the tags.
Tagged(table, tags) == {n \in DOMAIN table : table[n].tag \in tags}

\* The entries that have one of the tags, in their order.
Keep(table, tags) ==
  LET kept[n \in 0 .. Len(table)] ==
        IF n = 0 THEN << >>
        ELSE IF table[n].tag \in tags THEN Append(kept[n - 1], table[n])
        ELSE kept[n - 1]
  IN  kept[Len(table)]

\* retain, with the tags that go.
Drop(table, tags) == Keep(table, {table[n].tag : n \in DOMAIN table} \ tags)

FirstOf(I) == CHOOSE n \in I : \A m \in I : n <= m

\* The first entry with the tag gets the value and the others stay.
SetFirst(table, tag, value) ==
  LET entry == [tag |-> tag, value |-> value]
      first == FirstOf(Tagged(table, {tag}))
  IN  IF Tagged(table, {tag}) = {} THEN Append(table, entry)
      ELSE [table EXCEPT ![first] = entry]

\* The first entry with the tag gets the value and all others go.
SetEntry(table, tag, value) ==
  LET entry == [tag |-> tag, value |-> value]
      first == FirstOf(Tagged(table, {tag}))
  IN  IF Tagged(table, {tag}) = {} THEN Append(table, entry)
      ELSE SubSeq(table, 1, first - 1) \o <<entry>>
             \o Drop(SubSeq(table, first + 1, Len(table)), {tag})

Has(table, tag) == Tagged(table, {tag}) # {}

\* get, of a tag the table has.
ValueOf(table, tag) == table[FirstOf(Tagged(table, {tag}))].value

(***************************************************************************)
(* In the file.  The table is written with a NULL entry at its end; what   *)
(* is read ends in front of the first one.                                 *)
(***************************************************************************)

Terminated(table) == table # << >> /\ table[Len(table)] = NullEntry

WithEnd(table) == IF Terminated(table) THEN table ELSE Append(table, NullEntry)

UpToNull(entries) ==
  LET nulls == Tagged(entries, {Null})
  IN  IF nulls = {} THEN entries ELSE SubSeq(entries, 1, FirstOf(nulls) - 1)

DynamicLen(class) == IF class = "Elf32" THEN 8 ELSE 16

\* Without the entry that ends the table.
InFileLenShort(table, class) == Len(table) * DynamicLen(class)

InFileLen(table, class) == Len(WithEnd(table)) * DynamicLen(class)

WriteDynamic(table, class, order) ==
  LET w == WordLen(class)
      entries == WithEnd(table)
  IN  FlattenSeq([n \in DOMAIN entries |-> Bytes(entries[n].tag, w, order)
                                             \o Bytes(entries[n].value, w, order)])

\* Entry n, which is two words.
DynamicEntry(bytes, n, class, order) ==
  LET w == WordLen(class)
      start == (n - 1) * DynamicLen(class)
  IN  [tag |-> Number(SubSeq(bytes, start + 1, start + w), order),
       value |-> Number(SubSeq(bytes, start + w + 1, start + 2 * w), order)]

ReadDynamic(bytes, class, order) ==
  UpToNull([n \in 1 .. Len(bytes) \div DynamicLen(class) |->
              DynamicEntry(bytes, n, class, order)])
===============================================================================
