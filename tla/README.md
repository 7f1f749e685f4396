# A verification project for elb

elb is a Rust library that reads ELF files and changes them in place (`src/`), a library that
finds and relocates the dependencies of a program (`dl/`), and a command-line tool (`cli/`). This
directory holds TLA+ models of the parts that decide something, TLC configurations that check
them on small instances, and proofs that TLAPS checks for every value of the constants. File
names below are relative to the repository; `src/patch.rs` is the library's file.

    tlc -workers 2 -config MCElfPatcher.cfg MCElfPatcher
    tlapm FirstSessionProofs.tla

`PROJECT.json` lists the runs with their properties, for each property a mutated definition that
must break it, the source lines of every definition, the findings, the hazards and the theorems.

## Inventory

| Component | State | Operations | What makes it correct |
|---|---|---|---|
| Section header (`src/sections.rs`) | entries, entry 0 is NULL | `free`, `add` (reuses slots), `finish`, `check` | no two sections share bytes of the file; indices that name a section stay valid |
| Program header (`src/segments.rs`) | entries | `free`, `add`, `push`, `retain`, `finish` (sort), `check` | LOAD segments apart in file and memory, in order; PHDR and INTERP first and covered by a LOAD |
| `SpaceAllocator` (`src/allocator.rs`) | two sorted lists of events made from the tables | `allocate_section`, `allocate_segment`, `allocate_file_space` | what it allocates shares nothing with what is there |
| Validation (`src/header.rs`, `src/elf.rs`, and `check` above) | none | `Elf::check` | accepts what the loader accepts |
| `ElfPatcher` (`src/patch.rs`) | the `Elf`, the file, a cache of section names | `remove_interpreter`, `set_interpreter`, `remove_dynamic_tag`, `set_dynamic_tag`, `finish` | nothing else in the file is lost; what was set reads back; a loader finds it |
| File access (`src/io.rs`, `src/elf.rs`) | bytes, a position | `read`, `write`, `zero` | |
| `StringTable`, `DynamicTable`, symbols, relocations (`src/strings.rs`, `src/dynamic_table.rs`, `src/symbols.rs`, `src/relocations.rs`) | bytes, entries | `insert`, `get_offset`, `set`, `get`, `retain`, encoding | offsets that others keep stay good; no entry is lost but those a call is for; what is written reads back for both classes and byte orders |
| `elb patch` (`cli/src/patch.rs`) | the file, a temporary copy beside it | copy, patch, rename | the file is always a whole one with its permissions |
| `DynamicLoader`, `DependencyTree` (`dl/src/loader.rs`) | options; a tree of resolved files; the callers' queue | `resolve_dependencies` until the queue is empty | the tree is the closure of the arguments; directories are searched in the order of the C library |
| `ElfRelocator`, `elb relocate` (`dl/src/relocate.rs`, `cli/src/relocate.rs`) | the target directory | `relocate`: resolve, copy, link, patch | each relocated program gets the copies of what it got before |
| libc configuration (`dl/src/glibc.rs`, `dl/src/musl.rs`) | a queue of configuration files | `get_search_dirs` | every directory once, whatever files include each other |
| `elb deps` (`cli/src/deps.rs`) | the calls of `print_tree` | list, tree, table of trees | every dependency is shown, and printing ends |
| `elb show`, formatting, logging, arguments (`cli/`) | none | printing | |

How they interact. `ElfPatcher` reads tables into memory, and a call frees a section or segment
(its bytes in the file are cleared at once), asks a fresh `SpaceAllocator` for a new place (which
may push a LOAD segment), adds the entry, and writes the content into the file. The header and the
two tables are only written by `finish`, after `Elf::check`. So three things change at different
times: the tables in memory, the contents in the file, and the tables in the file. `elb patch`
does all of it on a copy and renames the copy over the file. `elb deps` and `ElfRelocator` keep a
queue: they call `DynamicLoader::resolve_dependencies` for the first path and put what it returns
at the end. `ElfRelocator` then copies every file of the tree into a directory named after its
hash, runs `ElfPatcher` on the copy, and links the copies to each other.

What is hard. Nothing here runs concurrently inside a process. The difficulty is in long sequences
of legal calls: each moves sections, and addresses, indices and names of them are kept in other
sections, in segments, in symbols and in caches; several sessions on one file feed the patcher its
own output, whose tables look unlike a linker's. Add arithmetic on 64-bit offsets, failures in the
middle of a call after bytes were cleared, and for the command runs that are cut off. The loader
follows a graph that may have cycles, diamonds and links, and in which one file may have several
paths; the relocator writes into directories that calls for other programs, some of them cut off,
have written into before.

## Modules

| Module | Models | Built on |
|---|---|---|
| `ElfTables` | the entries of the two tables, their ranges, and the operations of `SectionHeader` and `ProgramHeader` | |
| `SpaceAllocator` | the allocator: events, their order, the walk over them, the three allocations | `ElfTables` |
| `ElfLayout` | the abstract specification: two tables and any sequence of the patcher's operations on them | `SpaceAllocator` |
| `ElfFile` | the file as a set of blocks with contents: `Write`, `Zero`, `Read` | |
| `ElfCheck` | `Elf::check` and everything it calls | `SpaceAllocator` |
| `ElfPatcher` | the patcher, one action per step of a call; refines `ElfLayout` | `ElfFile`, `ElfCheck`, `SpaceAllocator` |
| `FirstSession` | what a file as linkers make it is, and what holds in each step of the first session on one | `ElfPatcher` |
| `PatchCommand` | `elb patch` on a directory, with faults | |
| `DynamicLoader` | `resolve_dependencies` and the queue of its callers | |
| `ElfRelocator` | `relocate` on a disk, call after call, with faults | `DynamicLoader` |
| `DepsCommand` | the three formats of `elb deps` | `DynamicLoader` |
| `LdSoConf` | the include files of `ld.so.conf` | |
| `StringTable` | the search in a string table byte by byte, and `insert` | |
| `Encoding` | integers, and the entries of every table, as bytes of a class and byte order | |
| `DynamicTable` | the dynamic table in memory and in the file | `Encoding` |
| `TagStore` | the abstract specification of the calls on tags: the values of each tag | |
| `DynamicSection` | `remove_dynamic_tag` and `set_dynamic_tag` on contents: entries, strings, symbols; refines `TagStore` and uses `StringTable` | `StringTable`, `DynamicTable` |
| `MCElfLayout`, `MCElfPatcher`, `MCPatchCommand`, `MCDynamicLoader`, `MCElfRelocator`, `MCDepsCommand`, `MCLdSoConf`, `MCDynamicSection` | the instances for TLC | |
| `SpaceAllocatorProofs`, `ElfLayoutProofs`, `ElfPatcherProofs`, `FirstSessionProofs` | lemmas and theorems about the tables and the patcher | TLAPS |
| `DynamicSectionProofs` | those about `StringTable` and `DynamicSection` | TLAPS |
| `DynamicLoaderProofs` | those about the loader, `elb deps` and the relocator | TLAPS |
| `PatchCommandProofs`, `LdSoConfProofs` | those about these two | TLAPS |

**`ElfTables`, `SpaceAllocator`.** A section and a segment are records with the numbers the
decisions depend on. A file offset or an address is a natural number, and the code's checked
arithmetic is a comparison with `MaxWord` (`Addressable`): the starts and lengths of a new LOAD are
checked, its ends are not, and a LOAD whose end exceeds a word goes into the table as in the code.
Only `check_overflow`, in `finish`, looks at ends (`FitsWord`). The allocator builds the same set of events as `file_events` and `memory_events`, sorts them by offset
and kind with `Enumerate`, and finds the first gap with the same conditions; the counters of the
Rust loop become counts over the events before a position, so that no recursion is needed and the
definitions can be proved about. The slip in `allocate_space` of taking entry 0 as the current
LOAD segment is modelled as it is.

**`ElfLayout`** says nothing about contents. Its actions are `free_section`, `free_segment` with
the LOAD segment that goes with PHDR, `alloc_section`, `alloc_segment`, the segment that
overlays a section, the shrinking of the dynamic section, and both `finish` of the tables, in any
order and with any requests. Once an end exceeds a word nothing more is allocated: the allocator adds
ends up without a check, so that a build with overflow checks panics, and `finish` refuses the tables
anyway. A section may be freed at any slot, as `set_interpreter` and
`set_dynamic_tag` do by name and by kind, and the INTERP segments may go without their section.

**`ElfPatcher`.** `pc` is the position in the code, and each action is the code up to the next
point at which the tables and the file agree on something new: `SetDynamicTag`, `FreeDynamic`,
`FreeDynamicSegment`, `FindDynstr`, `PlaceDynstr`, `WriteDynstr`, `PlaceDynamic`,
`OverlayDynamic`, `MoveSymbols`; `get_name_offset` is `FindName` and `PlaceNames` and returns to
where it was called from; `finish` is `FreePhdr`, `PlacePhdr`, `PlaceTables`, `Arrange`,
`WriteElf`. The file is a set of blocks; a write clears what it overlaps, so that reading a
section whose bytes were touched gives `Garbage`. String tables are sets of strings with a length,
the dynamic table a function, and of the symbols only the one with the address of the dynamic
table matters. `want` records what the caller asked for, for the properties only. A session is
open, calls, finish; a second session opens what the first one wrote. `pc = "failed"` is a session
that runs out of room: a place or an end, of an allocation or of a table, exceeds a word. Of some of
these the allocator says so at once, of others `Elf::check` in `finish`; the header and the tables in
the file stay as they were in both cases, and the model follows such a session no further.

**`FirstSession`** has no variables of its own. `OrdinaryFile` says what a file must be for the
patcher to keep its promises: contents that are there and behind the header, INTERP and DYNAMIC that
are the bytes of their sections, a string table that `set_dynamic_tag` finds, and a header that is
safe: either no segment starts with the file, or PHDR follows the header in a LOAD. `FirstOK` says
what holds of such a file in each step. `LinkedFile` is more: LOAD segments as a linker lays them out,
in one order in the file and in memory, each of them ending with a section, and what a program needs
mapped. `LInv` says that it stays so while the file is patched: what the loader reads is in a LOAD
that maps it (`MappedOK`), the INTERP and DYNAMIC entries say where their sections are (`PairOK`), and
the dynamic table where its strings (`StringsOK`) and its symbols are (`SymbolsOK`). `CInv` says that
what `Elf::check` asks for holds (`SectionsOK`, `SegmentsOK`), with the exceptions a step leaves to
`finish`: PHDR may be gone until it is placed, and the segments are in order from their sort on.

**`PatchCommand`.** Names map to inodes, as only then does a rename differ from a copy. A run may
end at any step, by an error or because the process is killed; both leave what is there. The
error of `remove_file`, which the code ignores, is a step of its own. A file without write
permission that exists cannot be opened by `fs::copy`. Runs do not overlap: the code takes no
lock and promises nothing.

**`DynamicLoader`.** One action per way in which `resolve_dependencies` may return, and one for
the end of the callers' loop. A path says what it starts with (the root of the host, another root,
the target of a relocation, the working directory), its directory and its name, as these are what
`strip_prefix` and `join` tell apart. A disk maps paths to files: what `File::open` and
`Elf::read_unchecked` make of them, the machine, the names they need, RPATH, RUNPATH, the
interpreter, or the path a link leads to. `SearchDirs`, `Lookup` and `Dependencies` are pure, in
the order of the code for each C library. `Rebase` and `Expand` are the two places at which the root
of the loader is put in front of a path: that of a file to open, and a directory of RPATH or RUNPATH
that is not `$ORIGIN`. The directories of the caller, what is found, and the interpreter are taken as
they are. `RootIsWholeDisk` says what that has to come to: with a root each file finds the copies it
would find if the root were the whole disk (`InsideDisk`). The entries of a dynamic table are a set, so the order
in which dependencies are put into the queue is left open; the tree does not depend on it. The
order of search directories is kept.

**`ElfRelocator`** has a step for the copy, the link in `bin`, the patch, and each of the links
between the directories. A step removes what is at a path before it writes, follows links as
`fs::copy` does, and takes the error of `symlink` when something is there still. `Patched` is what
`ElfPatcher` promises of the interpreter and RUNPATH; the copies are files that `Elf::check`
accepts. A fault ends a call at any step and may leave a missing or a half written file. What a
relocated program gets at run time is stated with the search of `DynamicLoader` itself.

**`DepsCommand`** keeps the calls of `print_tree` as a stack.

**`LdSoConf`** opens a file of the queue, and then takes one line of it per step: the line is the
directory it names, or a file that it includes (a pattern that matches several files is that many
lines), or cannot be read. Lines that the parser passes over are left out.

**`StringTable`** has the variables of the loop of `get_offset` and one step per byte, as the order
in which it compares and starts again is what matters: after a partial match it does not go back.
`insert` is the same search, and then an append. A string is a sequence of characters, NUL is a
byte of its own.

**`Encoding`** lists the fields of each kind of entry with their widths, in the order the code reads
and writes them, and packs what the code packs: binding and kind in `st_info`, visibility in
`st_other`, symbol and kind of a relocation in a word. A byte has `Base` values, so that the
instance can be small; widths are those of the code. **`DynamicTable`** has `retain`, `set` (the
first entry with the tag gets the value, the others go) and `get`, the NULL entry that is added in
the file, and the reader that stops in front of the first one.

**`DynamicSection`** is the other half of `ElfPatcher`. There a string table is a set and the
dynamic table a function, and what is at stake is where they are put; here the places are any of
`Addresses`, and what is at stake is what is written to them. `RemoveTag` is one action, as its
table is written over the old one; `set_dynamic_tag` is `SetTag`, `ReadStrings`, `LookUp`, the steps
of the search, `InsertString` with a second search, `PlaceStrings`, `UpdateTable`, `PlaceTable`,
`MoveSymbols`. The entries at the place of the section are kept beyond its size, as they are in the
file. `ShownTable` is what `elb show` prints of it. **`TagStore`** says what the calls promise.

## Runs

| Run | Checks | Bounds, and why they are enough |
|---|---|---|
| `layout` | `TypeOK`, `LoadsDisjoint`, `SectionsDisjoint` | three layouts (an executable whose first LOAD starts with the file, a library whose LOADs do not, with a null segment, no sections at all), two requests for sections and one for PHDR, up to 3 sections and 5 segments when an entry is added (`SectionCounts`, `SegmentCounts`). The largest word is 35 and a page has 8 bytes, so that a LOAD may start in the last page and end past the word, which enters the table, or would start past it, which is refused. Each operation occurs before and after each other one; what longer sequences do is proved |
| `patch` | `SectionsReadable`, `TablesReadable`, `InterpreterAsSet`, `TagsAsSet`, `LoaderFindsAll`, `NamesInStep`, `NeverRejected`, `RefinesLayout` | three calls on an executable, one whose first LOAD goes on behind its last section, or a library, two interpreters and one string: every pair of calls in both orders, and repeated ones, with the names and strings both present and absent |
| `repatch` | `TypeOK`, `SectionsReadable`, `LoaderFindsAll` | two sessions of up to two calls on a library, a stripped file and one without section names; the largest word, 32800, is a few bytes past the start of a page, so that some LOADs are refused for their start and some for their end: those of `.interp`, `.dynstr`, the section names and PHDR, each with what the call freed before gone |
| `command` | `FileWhole`, `SameMode`, `OnePatchAtATime`, `RunsSucceed` | three runs and three faults: a fault in each of two runs in a row and one before the third |
| `loader` | `TreeIsClosure`, `OverridesFirst`, `RootIsWholeDisk`, `FailsForAReason`, `ShowsDependencies`, `Terminates` | every graph of a program, two libraries and an interpreter, one of them a link, with one or two arguments: all cycles and diamonds; and a library in two directories with each combination of RPATH, RUNPATH, LD_LIBRARY_PATH, C library and root, the copy in one of them, under the root of the loader, good, of another machine, damaged, not ELF, or not readable, with good copies outside of the root that must not be taken. `elb deps` prints the list of each, and every format where no file needs itself: four files make chains of four calls, and `MaxDepth` is never reached |
| `relocator` | `ProgramsWork`, `ExecutablesInBin`, `NoErrorOfItsOwn`, `NeverPanics`, `OriginalsStay` | two programs with a shared library, a cycle and a link; three calls of which two are cut off, so that a call meets what a cut-off one and a complete one left |
| `ld_so_conf` | `AllDirectories`, `Terminates` | three files that exist and one that does not, each with up to two includes: a file may include itself, another one twice, or a cycle |
| `contents` | `ReadsBack`, `EntriesFound`, `EndsAgree`, `StringsWhereSaid`, `SymbolsFollow`, `EntriesReadBack`, `RefinesTagStore`, `RefinesStringTable`, `OffsetsStay` | three calls on a library that has every tag, some of them twice, and room to spare, and on a program whose table says nothing of its strings; both classes and byte orders; three strings: the empty one, one that is there behind a partial match of itself, one that is not there. Two addresses, so that a table may move or get its place again. A byte of four values (`Base`, with halves of two and two visibilities): a word of a 32-bit file has 256 values, and the entries have the widest values of each field, and of the symbol and the kind that share a word in either class. Only entries that fit are tried: wider ones are cut or refused |

The type invariants of the other modules are stated there as `TypeOK`, `RelocatorTypeOK` and
`DynamicTypeOK`. All are proved. `MCElfRelocatorTypes` checks `RelocatorTypeOK` on the instance of
`relocator`, and with it `Outside`, `NamesApart` and `HashesDiffer`, the conditions of the theorems
about the relocator, which hold in each of its 433994 states.

What they show. Within one session on the files of `patch`, the patcher loses nothing that
it did not free, what was set is what reads back, the loader can translate every address, and
`Elf::check` never refuses the result. (The last depends on the file: `MCElfPatcherTail` below is a
first session on an ordinary executable whose LOAD goes on behind its last section, in which an
interpreter that exactly fills the room there leaves the allocator with a stale LOAD.) That is no longer so in a second session. Four runs are
counterexamples to what the repository says of the program:

| Run | Shows |
|---|---|
| `header_overwritten` | on a shared library as GNU ld makes it, `set_dynamic_tag` puts `.dynamic` at offset 0, and `finish` writes the ELF header over it, so that the tags are lost: the gap before the first section of a LOAD that starts with the file is taken for vacant (`src/allocator.rs:303`). In an executable PHDR is in that gap, in the first session; `finish` moves it away |
| `repatch_rejected` | a file that was patched may not be patched again: entry 0 of the program header is taken for the current LOAD segment (`src/allocator.rs:269`) |
| `search_path_lost` | setting SONAME removes RPATH and RUNPATH (`src/patch.rs:377`) |
| `bundles_mixed` | two programs that come with an identical library share its directory, and one gets the other's dependencies (`dl/src/relocate.rs:72`) |

More was met while modelling. Each of these configurations checks one property, which TLC finds
violated; they are not among the runs of `PROJECT.json`, which has one for each distinct question.

| Configuration, module | Property | Shows |
|---|---|---|
| `MCElfPatcherWritable`, `MCElfPatcher` | `WritableInWritable` | `.dynamic` is put in a read-only segment, for the same reason as in `repatch_rejected` |
| `MCElfPatcherLinks`, `MCElfPatcher` | `LinkedToStrings` | `.dynsym` stays linked to the slot `.dynstr` left (`src/sections.rs:123`) |
| `MCElfPatcherTableLost`, `MCElfPatcher` | `TagsAsSet` | setting a tag when no section is the string table of the dynamic table returns success and loses the table (`src/patch.rs:346`) |
| `MCElfPatcherTail`, `MCElfPatcher` | `NeverRejected` | in a first session: INTERP fills the room up to the end of its LOAD, its end is met after that of the LOAD, the LOAD stays the current one although it is closed (`src/allocator.rs:278`), and a string table is put in a gap of another LOAD at an address that follows from the first |
| `MCElfPatcherStripped`, `MCElfPatcher` | `NeverPanics` | setting the interpreter of a file without a section header panics (`src/patch.rs:489`) |
| `MCDynamicLoaderOverride`, `MCDynamicLoader` | `OverridesFirst` | glibc's loader does not search LD_LIBRARY_PATH for a file with neither RPATH nor RUNPATH (`dl/src/loader.rs:335`) |
| `MCDynamicLoaderRoot`, `MCDynamicLoader` | `RootIsWholeDisk` | `--root` is not passed on to the loader (`cli/src/deps.rs:81`) |
| `MCDynamicLoaderRelative`, `MCDynamicLoader` | `FailsForAReason` | a relative argument is looked up in the root directory (`dl/src/loader.rs:313`) |
| `MCElfRelocatorRooted`, `MCElfRelocator` | `NeverPanics` | with a root the hash of the interpreter is not found and `relocate` panics (`dl/src/relocate.rs:64`) |
| `MCElfRelocatorStatic`, `MCElfRelocator` | `ExecutablesInBin` | a static executable without a dynamic table is not linked into `bin` (`dl/src/relocate.rs:177`) |
| `MCDynamicSectionPresent`, `MCDynamicSection` | `PresentIsFound` | `insert` adds a string that is in the table, at the end of another one, when the search passes over it after a partial match (`src/strings.rs:55`; "Does nothing if the string is already in the table", `src/strings.rs:27`) |
| `MCDepsCommandCycle`, `MCDepsCommand` | `NoCallInItself` | `print_tree` does not return for libraries that need each other (`cli/src/deps.rs:228`) |

The runs that pass leave these cases out by their choice of files only: `patch` has an executable
with PHDR and a library whose header is in no segment, and no interpreter that exactly fills the
room at the end of a LOAD; `repatch` starts from files in which no LOAD segment starts with the file, so that offset 0 belongs to no segment, and it does
not ask for `NeverRejected`. `loader` leaves out glibc with LD_LIBRARY_PATH and neither RPATH nor
RUNPATH, `--root`, relative arguments, and directories of the caller that are not under the root he
gave: what is found there is opened under the root all the same, where something else or nothing is
(`FailsForAReason` is violated with `Worlds <- LedOutsideWorlds` in `MCDynamicLoaderRelative.cfg`; the
condition of `RootIsWholeDisk` that excludes them is `RootIsApart`); `relocator` has no root, no two programs with an
identical library and different files behind it, and no static executable; cyclic graphs are
printed as lists only.
Nothing in the models is weakened for it.

**Deadlock** is not checked: a patcher stops when the bound on calls and sessions is reached or a
call failed, the commands when they are not run any more, and the searches when they are done.

**Fairness.** `PatchCommand` has weak fairness of the steps of a run: a process that was not
killed goes on. `Start` and `Fault` have none. `ElfPatcher` has no fairness and no liveness
property: its calls are straight-line code and bounded loops, and `ENABLED` of steps that contain
the allocator would make TLC evaluate it for nothing. `DynamicLoader` and `LdSoConf` have weak
fairness of every step, and so has `DepsCommand`: each is a loop of one thread, which goes on as
long as there is a step, so that what is left to show is that the queue becomes empty.
`ElfRelocator` and `DynamicSection` have none: each call is a bounded sequence of steps. That
`print_tree` does not end shows as a call inside a call for the same path.

## Proofs

Assumptions: only what the modules state of their constants (`PageSize` and `MaxWord` are positive
and so on; `ElfLayout` assumes that initial layouts are good, that is typed, within a word, and
apart). `Elf::check` does not test all of that: sections that overlap, LOAD segments of no bytes at
one place, and a dynamic section shorter than an entry are accepted, but no linker makes them; the
assumptions of `ElfPatcher` and `ElfLayout` exclude them (`FilesAssumption`, `LayoutsAssumption`).
TLC evaluates the assumptions in every run.

`SpaceAllocatorProofs` has lemmas about rounding to pages, about `Enumerate` (it lists a finite set
once and in order, by ranks instead of induction), about tables with entries removed or sorted, and
about what each operation of `SectionHeader` and `ProgramHeader` keeps. It shows the facts everything
rests on:

* `GapIsVacant`: a gap of `allocate_space` shares no byte with any section, whatever ranges nest,
  adjoin or are empty. The argument: a section that overlaps the gap starts before the second event
  of the gap and ends behind the first one, so it is open in the counters the code keeps, and the
  code only accepts a gap in which the one open section starts with the gap's end.
* `GapMissesSegment`: nor with a segment that is part of a LOAD, such as PHDR.
* `NewLoadBehind`: a new LOAD segment lies behind every event, rounded up to a page, in both lists.
* `FileSpaceProperties`: what `allocate_file_space` returns misses all sections and segments.

`ElfLayoutProofs` proves the invariant `IInv == SoundSections(sections) /\ SoundSegments(segments)`
with one lemma per operation and then `TypeCorrectness`, `LoadsStayDisjoint` and
`SectionsStayDisjoint`. It says that entries are typed and apart, and nothing of ends: those of what
is allocated may exceed a word. That entries stay typed is what the allocator's checks are for: an
offset or address in a gap is at most the end of an event that is a word, and one in a new LOAD has
passed `Addressable`.

`ElfPatcherProofs` is about every file that `Elf::check` accepts and `FilesAssumption` admits, any
number of calls and of sessions. Its invariant `TInv` is that of the layout, with ends that are words (a session with others has
failed; `GoodSections`, `GoodSegments`), and the types of what a call keeps between its
steps: a request must be well-typed before it reaches the allocator, and its length comes from what
was read from the file and from the names in memory. `PatcherTypeCorrectness` and
`PatcherKeepsLayout` follow (the tables are apart in the middle of a call and after an error too),
and `PatcherRefinesLayout`: each step is an operation of `ElfLayout` or leaves the tables alone. The
module `ElfLayout` takes the requests as a constant; the theorem is about the one with all requests
there are (`EveryRequest`), which says that the patcher asks for nothing else.

`FirstSessionProofs` proves for ordinary files, any set of interpreters, tags and strings and any
number of calls, that until the second session starts all sections read back (`SectionsStayReadable`),
the header and the tables do when it is finished (`FinishedTablesReadable`), INTERP and DYNAMIC lead
to what was asked for last (`InterpreterStaysSet`, `TagsStaySet`), and the cache of names is the table
of names (`NamesStayInStep`). The five need one invariant, `FInv`: what is read back is what was
written only if nothing was written over it, so all of `TablesApart`, `SectionsStored` and the ranges
of segments whose sections are gone have to be known when a call reads. The lemmas on the bytes of a
file that they rest on are at the end of `ElfPatcherProofs`. Three things were not obvious:

* The allocator does not know of the file header. In the calls it is safe because PHDR, a segment that
  ends behind it, ends the gap in front of it (`HeaderGuarded`); once `finish` has freed PHDR it
  only allocates PHDR, for which a LOAD that holds offset 0 is enough (`HeaderReserved`).
* `free` leaves slots, and `add` takes the first. The string table that `set_dynamic_tag` takes is the
  first with the right address, and it must not be that of the section names: that is so because it
  comes before it, also when either is placed again, as long as there are not two slots between
  (`DynstrFound`, `OneBefore`).
* INTERP has to be the bytes of `.interp`, or removing the one clears bytes of something else.

For files that are linked as well, `LoaderFindsEverything` proves `LoaderFindsAll`: in the first
session what the loader reads is mapped where it looks for it. An offset becomes an address with the
LOAD segment that the walk over the events calls current, and the code takes two things for that
segment which it need not be: entry 0, as long as no LOAD was met, and a LOAD that is closed already.
The lemmas on the walk at the end of `SpaceAllocatorProofs` show that it is the right one in a linked
layout: each gap that is found lies behind the start of a LOAD (`HeadMaps`, `OthersInside`) and before
its end, as an end of a LOAD closes a section as well (`LoadsTight`), so that no gap is left there for
the next LOAD to be met in. `LInv` carries that from call to call: what an allocation adds is again
such a LOAD, or a section inside of one, and the sections the loader reads stay where a LOAD maps
them until they are freed. The symbols and the strings that the table names move with it.

For the files that `Elf::check` lets pass (which the initial state has to be) and for which
`CheckableFiles` holds, `OnlyRoomRunsOut` proves `NeverRejected` but for one case: the first `finish`
does not refuse what the calls made, and nothing panics. The case is a session that ends because a
place or an end, of an allocation or of a table, finds no room in a word; that is no property of the
file alone, and that the code writes nothing then is what it should do. (The model also has "failed" where `allocate_space` meets no event, which
is `unreachable!` there; the theorem says that there always is one.) `CInv` is carried from step to
step by three arguments: an address that is computed from an offset in a LOAD keeps its remainder
modulo the alignment because the page size and the alignments are powers of two (`ValidAligns`,
`PlaceCheck`); the walk over the memory events puts new LOADs behind the old ones, apart by whole pages
(`NewLoadAccepted`); and the sort of `finish` orders LOADs by address and puts PHDR in front of them
whatever the order of the others (`FinishOrderTotal`). `CheckableFiles` has three conditions more than
`LinkedFiles`. Page sizes are powers of two. `SegmentLen <= SectionLen` is so in both classes of ELF
(32 and 40 bytes, 56 and 64); `Header::check` takes the length of one entry for that of the other.
The remainders of `offset` and `address` of a LOAD agree modulo the alignment of the dynamic table,
as a table placed at an aligned offset is refused otherwise; what `Elf::check` itself asks of a LOAD is
weaker when its alignment is 0 or 1.

The conditions are needed. A library without PHDR whose LOAD holds the header is
`header_overwritten`; in a second session PHDR is elsewhere and slots are spare, and entry 0 is any
segment; and `MCElfPatcherTail` is a first session on a file whose LOAD ends in a gap. They are met:
`MCElfPatcher` assumes of `Executable` what `CheckableFiles` says of each file, and of the file of
`MCElfPatcherTail` that it is ordinary and not linked, and TLC evaluates it. The library of that module
has no name `.dynstr` and is not ordinary; for it the properties are model-checked.

`PatchCommandProofs` proves `FileStaysWhole`, `ModeStaysTheSame` and `NoPatchIsLost` for any number
of runs and faults. The three properties speak of the file, but a rename makes the copy the file:
the invariant says what each step has established of the copy (`CopyInStep`, `ModeKept`), and that
it is another inode (`CopyApart`).

`DynamicLoaderProofs` proves `LoaderTypeCorrect` and `TreeIsClosureCorrect` for every disk, all
options and arguments, from the assumptions that worlds are typed and paths are finitely many.
`TreeIsClosure` speaks of the end only. The invariant says what holds on the way: each argument
and each dependency of a dependent has its file in the tree or is in the queue (`Handled`), and
every set that has the arguments and is closed under dependencies has the tree and what the queue
leads to (`Bounded`). At the end the queue is empty, so that the tree is itself such a set, and the
least one. Closure is stated by such sets and not by paths of a graph, so that no induction is
needed. `AlreadyVisited` needs that `Rebase` leaves a dependent alone (`RebaseFacts`): the paths in
the queue are compared as they are written.

The same invariant gives the order of the search. `OverridesComeFirst` has a condition,
`OverridesUsed`: glibc's loader leaves the directories of the caller out for a file without RUNPATH
(`MCDynamicLoaderOverride` shows it). `RootIsWholeDiskCorrect` is about a loader that was given its
root, which the commands do not do (`MCDynamicLoaderRoot`): `Inside` maps the disk under the root to a
disk of its own, and opening a file, following links, expanding directories and looking names up are
shown to map along (`InsideOpened`, `InsideLookup`, `InsideNeeded`). The interpreter is returned as the
file names it, so that it is the one dependency that need not be under the root.
`LoaderFailsForAReason` is about paths
under the root, where the path that is looked up is the one that was given
(`MCDynamicLoaderRelative`). The run `loader` leaves out the cases of these three configurations too.
They rest on `LookupFacts`: the search ends in the first directory in which it ends, which needs that
a set of numbers has a least one (`FirstOf`, from the library's well-founded orders).

The second part is about `elb deps`. `DepsShowsDependencies` says that the list, the tree and the
table of trees show every dependency and nothing else, for every graph, if no argument, search
directory, link, interpreter or RUNPATH is relative (`Absolute`; with one, a path in the queue is not
the path under which its file is in the tree). The invariant `DInv` takes that of the loader to its
end, where the tree is closed (`ConfinedTree`), and says of the calls of `print_tree` that each
dependency of a path that was printed was printed too or is left to a call in progress (`Covered`).
That the calls end is not claimed: `NoCallInItself` does not hold. `Absolute` holds in all worlds of
`loader` in which a tree is printed, and `MCDepsCommandCycle` checks it for a cyclic graph.

The third part is about the relocator. No call, cut off or not, changes a file outside of the target
directory (`OriginalsAreKept`), for every disk, also one on which earlier calls left links in the
place of the copies. Each path that is written is in the target (`WritesInTarget`), but `fs::copy`
follows links: it writes to the path itself because `remove_file` precedes it, and a path at which
nothing is leads to itself (`CopyWritesThere`). For the same reason a link never finds its place
taken (`CallsDoNotFail`). `RelocatorNeverPanics` is about the hashes that are looked up and unwrapped:
each dependency of a dependent was copied before the first link is made. That holds if nothing
outside of the target is relative or leads into it (`Outside`): otherwise a path of the tree is not
the one its hash is kept for (`MCElfRelocatorRooted` shows it for a root), or a dependent is a copy
that the call itself replaces. The invariant `RInv` has the tree closed and outside of the
target from the end of the resolution on (`TreeReady`), and the loader's own invariant before. The
disk changes between two resolutions, and what has been shown of the loader is for a disk that does
not: the proof has to show that opening a path outside of the target is as before.

What relocate is for needs two conditions more. Both are about the files that the programs need
(`Reached`, the least closed set that has the programs), and the run `relocator` meets both.

* `ProgramsAreInBin`: the link in `bin` of each program that was relocated leads to its copy if the
  programs are executables with different names, and nothing they need has the name of one of them
  (`ProgramsApart`). The invariant `BinInv` follows the link from `LinkExecutable`, where the copy is
  there but not patched, through the calls for the other programs: each place that these write is
  another one, or the same copy written again. A link in the place of the copy would lead further, so
  that the copy has to be a regular file already when its link is made (`CopyReady`).
* `RelocatedProgramsWork`: every program that was relocated since the last fault, and each library of its
  tree, opens at the place of its hash, resolves there, and finds the copies of its own dependencies
  and nothing else, if a path opens one file and a hash tells the file, the names of its dependencies
  and their hashes (`HashesTell`). That is what `bundles_mixed` lacks: `relocate` hashes the file alone,
  and the theorem says that nothing else goes wrong. `WorkInv` has what was resolved still true of the
  disk (`TreesSound`), each copy made of its original as `Patched` leaves it, but the one that is
  being made (`FilesMade`), and each link of a finished call in its place (`LinksMade`). A step writes
  one place (`WorkWrites`); where it takes the place of a copy or link that is already known, the two
  are for one hash, and `HashesTell` says that what is written is what was there. `CopyRuns` shows that
  the copy with its links runs: the run-time search takes each name from the directory of the copy,
  which is first in its RUNPATH (glibc) or RPATH, and the link leads to the copy in one step.

`LdSoConfProofs` proves `AllDirectoriesFound` along the same lines: each line of a file that was
opened is done or still to come (`LinesHandled`), nothing else is in the lists (`OnlyLines`), and
every set that has `ld.so.conf` and is closed under includes has the files that were opened or are
in the queue (`Bounded`).

The first part of `DynamicSectionProofs` proves of `StringTable`, for every table and every sequence of
calls, that offsets read back (`OffsetsReadBack`), stay (`OffsetsAreStable`), and that a string with an entry of its own is found
(`EntriesAreFound`) although the search never goes back. The invariant says of the loop that the
last `j` bytes are the first `j` of the string (`Partial`), and that an entry that was reached is
the one that is being matched (`NoneBehind`): a string has its only NUL at its end, and an entry
starts behind a NUL, so that a match of something else is over where an entry starts.

The second part shows that every step of `set_dynamic_tag` is a step of `StringTable` or
leaves its table alone (`StringTableUsedAsSpecified`, from `LoadedInv`), and takes over its
theorems. `SymbolsAlwaysFollow` is proved from `FollowInv`, which says in each step of a call where
the symbols are relative to the table. It needs `SymbolsAssumption`: the patcher goes by the address
alone, so a symbol of something else at an address the table gets would go with it later on.

The third part is about the whole table. What `set_dynamic_tag` and `remove_dynamic_tag` write is made
with `Keep`, a recursive function on the entries. The library's induction theorems, which take an
operator, cannot be used, but with a set in the place of the operator induction over numbers and over
sequences follows from least elements (`NumberByNumber`, `EntryByEntry`); `KeptExists` shows that the
recursive definition defines a function, and the lemmas after it what is kept of a table that was
appended to, joined, or filtered twice. `ContentsInv` says where each call is (`CallInv`),
that size, segment and room agree with the place of the table and that what is loaded from it is
sound (`TableInv`). From it follow `ContentsTypeCorrect` (entries are whole, with known tags, and name
strings that are there, in memory and in the file, in the middle of a call too; values are not bounded
by the widths of fields), `TableSaysWhereStringsAre`, `EndsOfTableAgree`
(the NULL entry is inside the section, though the rest of an older, longer table may follow it), and
`ImplementsTagStore`: each call is one step of `TagStore`, the one in which the table is written, and
every other step leaves the tags as they are.

Only model-checked:

* of `ElfPatcher` that no allocation of the instances runs out of words (the rest of `NeverRejected`),
  `LoaderFindsAll` and `NeverRejected` of files that are not linked, and everything in a second session
  (`repatch`) but its types and layout;
* of `DynamicSection` `EntriesReadBack`: that bytes decode to what was encoded is arithmetic with powers
  of the base, which is beyond the SMT solver's;
* `RunsSucceed` and each `Terminates` (liveness is out of the prover's reach).

What the proofs brought up, and no run shows: in a file with an empty GNU_STACK at offset 0 whose
LOADs start later, `allocate_file_space` may return offset 0, as it takes what is between the first
event and the second for vacant; `OrdinaryFile` excludes such a file.

## Not modelled

The sixteen bytes that identify a file and choose its class and byte order; the upper bits of
`st_other`, which are lost when a symbol table is written back; tags of more than 32 bits; a section
whose size is not a multiple of its entries' length; set_dynamic_tag with a number, and with it a
value that is too wide for a word of a 32-bit file, which fails when the old table is gone already;
an interpreter that itself names an interpreter; what `elb show` prints of anything but the dynamic
table; relocatable files; I/O errors in the middle of a patcher call (the file is a copy in the
command, and `PatchCommand` has a fault at that place); several DYNAMIC, INTERP or PHDR entries of
one kind in the initial file; sessions that go on after an end exceeded a word, until `finish` refuses
them or an allocation panics; numbers of sections and segments that do not fit in the header
(`src/patch.rs:117-138`), and the check of a 32-bit file's numbers, for which the allocator computes
with 64 bits as well; files that need a library whose name is not in the string table, which the
loader passes over; two runs of the command on one file; power failure; permissions of
relocated copies, relative target directories, and programs of one name relocated to one target;
`$LIB` and `$PLATFORM`, which stand for directories like any other; RPATH of dependents, which the
code leaves out too, and that the system loader loads one file per soname; the path file of musl and
`ld.so --list-diagnostics`; printing and argument parsing.

## Plan

Done, in this order: `ElfTables`, `SpaceAllocator`, `ElfLayout` with proofs; `ElfFile`, `ElfCheck`,
`ElfPatcher` with the refinement, both with proofs; `FirstSession`; `PatchCommand` with proofs; `DynamicLoader` with proofs,
`ElfRelocator` and `DepsCommand` with proofs; `StringTable`, `Encoding`, `DynamicTable`, `TagStore` and
`DynamicSection` with proofs; `LdSoConf` with proofs. Next:

1. I/O errors inside `ElfPatcher`; initial files with several segments of one kind.
2. `DependencyTree` as a sorted vector with binary search, shown to implement the function that
   `DynamicLoader` uses; two programs of one name in `ElfRelocator`.
3. Proofs: a second session of `ElfPatcher`, which needs what the first one leaves of slots and of
   PHDR; a bound on the calls under which no allocation runs out of words.
4. The path file of musl, and `ld.so --list-diagnostics`.
