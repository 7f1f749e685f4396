---------------------------- MODULE ElfRelocator ----------------------------
(***************************************************************************)
(* ElfRelocator::relocate (dl/src/relocate.rs) and elb relocate, which     *)
(* calls it for one program after another.  A call finds the dependencies  *)
(* of a program as DynamicLoader does; copies each file to a directory of  *)
(* the target named after its hash, links executables into the bin         *)
(* directory, and patches the copy; and last links the dependencies of     *)
(* each file into its directory.                                           *)
(*                                                                         *)
(* A call may be cut off at any step, and leave a file or a link that it   *)
(* was about to write missing, or a file half written.  One call is in     *)
(* progress at a time.                                                     *)
(***************************************************************************)
EXTENDS DynamicLoader

CONSTANTS
  MaxRuns,   \* bounds of the model: calls,
  MaxFaults  \* and faults

ASSUME BoundsAssumption == MaxRuns \in Nat /\ MaxFaults \in Nat

ASSUME PlacesAssumption ==
  Contents \subseteq Places /\ "bin" \in Places \ Contents

VARIABLES
  programs,   \* the arguments of the command
  step,       \* the next step of the call
  hashes,     \* the hash of each dependent that was copied
  links,      \* the dependents and dependencies that remain to be linked
  result,     \* how the last call ended
  relocated,  \* what each program was made of that was relocated, since a
              \* call last failed
  runs,
  faults

call == <<hashes, links>>
counters == <<programs, runs, faults>>
loader == <<options, files, queue, tree, status>>
allvars == <<vars, call, counters, step, result, relocated>>

Steps == {"idle", "resolve", "copy", "bin", "patch", "link", "panicked"}
Results == {"ok", "unresolved", "fault", "error"}

HashDir(hash) == [at |-> "target", place |-> hash]
BinDir == [at |-> "target", place |-> "bin"]
NewPath(path, hash) == Join(HashDir(hash), path.name)

-----------------------------------------------------------------------------
(* Changes of the disk *)

Put(d, path, file) ==
  [p \in DOMAIN d \cup {path} |-> IF p = path THEN file ELSE d[p]]

\* RemoveFile that is left out.
RemoveNothing(d, path) == d

\* remove_file; its error is ignored.
RemoveFile(d, path) == [p \in DOMAIN d \ {path} |-> d[p]]

\* CopyFile that takes a file that is there for a copy made before.
CopyOnce(d, path, file) ==
  IF path \in DOMAIN d THEN d ELSE Put(d, path, file)

\* fs::copy, which writes to what the path leads to.
CopyFile(d, path, file) ==
  LET d1 == RemoveFile(d, path)
      real == CHOOSE p \in RealPath(d1, path) : TRUE
  IN  Put(d1, real, file)

\* What is no ELF file has none of the other fields.
Special(kind, link) ==
  [kind |-> kind, link |-> link, content |-> CHOOSE c \in Contents : TRUE,
   arch |-> CHOOSE a \in Archs : TRUE, dynamic |-> FALSE, needed |-> {},
   rpath |-> <<>>, runpath |-> <<>>, interp |-> {}]

LinkFile(path) == Special("link", {path})

\* A part of a file.
Leftover == Special("malformed", {})

\* remove_file, and symlink.
Symlink(d, path, to) == Put(RemoveFile(d, path), path, LinkFile(to))

\* FileKind that looks at the dynamic table first.
FileKindNeeded(elf) ==
  IF ~ elf.dynamic THEN "none"
  ELSE IF elf.needed # {} THEN "library"
  ELSE IF elf.interp # {} THEN "executable"
  ELSE "static"

\* get_file_kind.
FileKind(elf) ==
  IF elf.interp # {} THEN "executable"
  ELSE IF ~ elf.dynamic THEN "none"
  ELSE IF elf.needed # {} THEN "library"
  ELSE "static"

\* The interpreter and RUNPATH of the copy, as ElfPatcher sets them.
Patched(elf, dir) ==
  [elf EXCEPT !.interp = {Join(dir, path.name) : path \in elf.interp},
              !.rpath = IF elf.dynamic THEN <<>> ELSE @,
              !.runpath = IF elf.dynamic THEN <<dir>> ELSE @]

-----------------------------------------------------------------------------
(* The steps of a call *)

RelocatorInit ==
  /\ \E w \in Worlds : /\ disk = w.disk /\ options = w.options
                       /\ programs = Range(w.files)
  /\ files = <<>> /\ queue = <<>> /\ tree = <<>> /\ status = "done"
  /\ step = "idle" /\ hashes = <<>> /\ links = {}
  /\ result = "ok" /\ relocated = <<>>
  /\ runs = 0 /\ faults = 0

Start(program) ==
  /\ step = "idle" /\ runs < MaxRuns
  /\ runs' = runs + 1
  /\ files' = <<program>> /\ queue' = files' /\ tree' = <<>>
  /\ status' = "resolving"
  /\ step' = "resolve" /\ hashes' = <<>> /\ links' = {}
  /\ UNCHANGED <<disk, options, programs, result, relocated, faults>>

\* A call that fails once it writes may have damaged what earlier calls made.
End(how) ==
  /\ step' = "idle" /\ result' = how
  /\ relocated' = IF how \in {"fault", "error"} THEN <<>> ELSE relocated

Resolve ==
  /\ step = "resolve"
  /\ \/ AlreadyVisited \/ NoDependencies \/ ResolveDependencies
  /\ UNCHANGED <<step, call, counters, result, relocated>>

Unresolved ==
  /\ step = "resolve"
  /\ Fail
  /\ End("unresolved")
  /\ UNCHANGED <<call, counters>>

Resolved ==
  /\ step = "resolve"
  /\ Finish
  /\ step' = "copy"
  /\ UNCHANGED <<call, counters, result, relocated>>

\* The dependents are taken in the order of their names, which are abstract:
\* in any one order.  The hash is that of the file before it is patched.
Dependent == CHOOSE path \in DOMAIN tree \ DOMAIN hashes : TRUE
Hash(path) == (CHOOSE elf \in Opened(disk, path) : TRUE).content
NewFile == NewPath(Dependent, Hash(Dependent))

Copy ==
  /\ step = "copy" /\ DOMAIN tree # DOMAIN hashes
  /\ \E elf \in Opened(disk, Dependent) : disk' = CopyFile(disk, NewFile, elf)
  /\ step' = "bin"
  /\ UNCHANGED <<loader, call, counters, result, relocated>>

\* The next of the links in any one order.
NextLink == CHOOSE pair \in links : TRUE

\* The link that the step makes, if it does.
ToLink ==
  IF step = "bin"
  THEN {[at |-> Join(BinDir, Dependent.name), to |-> NewFile] :
          elf \in {e \in Opened(disk, NewFile) :
                     FileKind(e) \in {"executable", "static"}}}
  ELSE {[at |-> Join(HashDir(hashes[pair[1]]), pair[2].name),
         to |-> NewPath(pair[2], hashes[pair[2]])] :
          pair \in {l \in links : step = "link" /\ l = NextLink
                                  /\ l[2] \in DOMAIN hashes}}

\* symlink finds that something is there still.
LinkExists == \E l \in ToLink : l.at \in DOMAIN RemoveFile(disk, l.at)

LinkExecutable ==
  /\ step = "bin"
  /\ IF LinkExists THEN End("error") /\ UNCHANGED disk
     ELSE /\ IF ToLink = {} THEN UNCHANGED disk
             ELSE \E l \in ToLink : disk' = Symlink(disk, l.at, l.to)
          /\ step' = "patch"
          /\ UNCHANGED <<result, relocated>>
  /\ UNCHANGED <<loader, call, counters>>

\* The path that is patched: that of the dependent instead of the copy.
PatchOriginal(path) == path

PatchedFile(path) == NewFile

Patch ==
  /\ step = "patch"
  /\ \E elf \in Opened(disk, NewFile) :
       /\ disk' = IF FileKind(elf) \in {"executable", "library"}
                  THEN Put(disk, PatchedFile(Dependent), Patched(elf, ParentDir(NewFile)))
                  ELSE disk
       /\ hashes' =
            [path \in DOMAIN hashes \cup {Dependent} |->
               IF path = Dependent THEN Hash(path) ELSE hashes[path]]
  /\ step' = "copy"
  /\ UNCHANGED <<loader, links, counters, result, relocated>>

Copied ==
  /\ step = "copy" /\ DOMAIN tree = DOMAIN hashes
  /\ links' = UNION {{path} \X tree[path] : path \in DOMAIN tree}
  /\ step' = "link"
  /\ UNCHANGED <<disk, loader, hashes, counters, result, relocated>>

\* expect("Inserted above"): the path is no key of the tree.
Panic == step' = "panicked" /\ UNCHANGED <<result, relocated>>

Link ==
  /\ step = "link" /\ links # {}
  /\ IF NextLink[2] \notin DOMAIN hashes THEN Panic /\ UNCHANGED disk
     ELSE IF LinkExists THEN End("error") /\ UNCHANGED disk
     ELSE /\ \E l \in ToLink : disk' = Symlink(disk, l.at, l.to)
          /\ UNCHANGED <<step, result, relocated>>
  /\ links' = links \ {NextLink}
  /\ UNCHANGED <<loader, hashes, counters>>

Relocated ==
  /\ step = "link" /\ links = {}
  /\ IF files[1] \notin DOMAIN hashes THEN Panic
     ELSE /\ relocated' = [p \in DOMAIN relocated \cup {files[1]} |->
                             IF p = files[1] THEN [tree |-> tree, hashes |-> hashes]
                             ELSE relocated[p]]
          /\ step' = "idle" /\ result' = "ok"
  /\ UNCHANGED <<disk, loader, call, counters>>

\* Where the step writes, and what it leaves there when it is cut off.
CutOff ==
  {disk} \cup {RemoveFile(disk, l.at) : l \in ToLink}
    \cup (IF step = "copy" /\ DOMAIN tree # DOMAIN hashes
          THEN {RemoveFile(disk, NewFile),
                Put(RemoveFile(disk, NewFile), NewFile, Leftover)}
          ELSE {})
    \cup (IF step = "patch"
          THEN {Put(disk, NewFile, Leftover)}
          ELSE {})

Fault ==
  /\ step \notin {"idle", "panicked"}
  /\ faults < MaxFaults
  /\ faults' = faults + 1
  /\ disk' \in CutOff
  /\ End("fault")
  /\ UNCHANGED <<loader, call, programs, runs>>

RelocatorNext ==
  \/ \E program \in programs : Start(program)
  \/ Resolve \/ Unresolved \/ Resolved
  \/ Copy \/ LinkExecutable \/ Patch \/ Copied
  \/ Link \/ Relocated
  \/ Fault

RelocatorSpec == RelocatorInit /\ [][RelocatorNext]_allvars

-----------------------------------------------------------------------------
(* Properties *)

\* The files that relocate writes stay well-formed, and only dependents of the
\* tree get a hash.
RelocatorTypeOK ==
  /\ TypeOK
  /\ programs \subseteq Path
  /\ step \in Steps /\ result \in Results
  /\ hashes \in [DOMAIN hashes -> Contents] /\ DOMAIN hashes \subseteq Path
  /\ links \subseteq Path \X Path
  /\ DOMAIN relocated \subseteq programs
  /\ runs \in 0..MaxRuns /\ faults \in 0..MaxFaults

\* The loader that starts a relocated program, without LD_LIBRARY_PATH.
Runtime == [options EXCEPT !.root = "host", !.search_dirs_override = <<>>]

\* "Relocates ELF file to directory together with its dependencies."  When no
\* call is in progress, every program that was relocated since a call last
\* failed can be loaded, and it and each of its dependencies get the copies of
\* the files that the original gets, whatever earlier calls left behind.
ProgramsWork ==
  step = "idle" =>
    \A program \in DOMAIN relocated :
      LET r == relocated[program]
          New(path) == NewPath(path, r.hashes[path])
      IN  \A path \in DOMAIN r.tree :
            \E elf \in Opened(disk, New(path)) :
              /\ elf.kind = "elf"
              /\ elf.dynamic => Resolves(disk, Runtime, New(path), elf)
              /\ {RealPath(disk, dep) : dep \in Dependencies(disk, Runtime, New(path))}
                   = {{New(dep)} : dep \in r.tree[path]}

\* "All executables are symlinked into directory/bin."
ExecutablesInBin ==
  step = "idle" =>
    \A program \in DOMAIN relocated :
      RealPath(disk, Join(BinDir, program.name))
        = {NewPath(program, relocated[program].hashes[program])}

\* What a call that was cut off left behind does not make the next one fail.
NoErrorOfItsOwn == result # "error"

\* The comment "Inserted above" on each hash that is looked up.
NeverPanics == step # "panicked"

\* Nothing outside of the target directory is relative or leads into the target
\* directory, whatever is there.
Outside ==
  /\ Confined({"host", "sysroot"})
  /\ programs \subseteq PathsAt({"host", "sysroot"})

\* What opens for a path, and what it needs.
Elf(path) == CHOOSE elf \in Opened(disk, path) : TRUE
Deps(path) == Dependencies(disk, options, path)
ProgramNames == {program.name : program \in programs}

\* The programs are executables, their names are different, and nothing that a file
\* at one of the paths needs has the name of one of them.
ProgramsApart(paths) ==
  /\ \A program \in programs : \A elf \in Opened(disk, program) :
       elf.kind = "elf" /\ FileKind(elf) \in {"executable", "static"}
  /\ \A p, q \in programs : p.name = q.name => p = q
  /\ \A path \in paths : \A dep \in Deps(path) : dep.name \notin ProgramNames

\* A path opens one file, and files of one hash are one file; their dependencies of
\* one name have one hash as well, and none has the name of such a file.
HashesTell(paths) ==
  /\ \A path \in paths : \A f, g \in Opened(disk, path) : f = g
  /\ \A p, q \in paths : Hash(p) = Hash(q) =>
       /\ Elf(p) = Elf(q)
       /\ \A x \in Deps(p) :
            /\ x.name # q.name
            /\ \A y \in Deps(q) : x.name = y.name => Hash(x) = Hash(y)

\* Nothing outside of the target directory changes.
OriginalsStay ==
  [][\A path \in DOMAIN disk :
       path.at # "target" => path \in DOMAIN disk' /\ disk'[path] = disk[path]]_disk
=============================================================================
