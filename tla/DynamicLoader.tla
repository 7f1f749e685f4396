---------------------------- MODULE DynamicLoader ----------------------------
(***************************************************************************)
(* DynamicLoader::resolve_dependencies (dl/src/loader.rs), called for each *)
(* path of a queue until it is empty, as elb deps and ElfRelocator do.     *)
(*                                                                         *)
(* A path has three parts: what it starts with, the rest of its directory, *)
(* and a file name.  It starts at "host" (an absolute path that is not     *)
(* under the other root), at "sysroot" (another root that the loader may   *)
(* be given), at "target" (where ElfRelocator writes), or, when it is      *)
(* relative, at "cwd".  A field that may be absent is an empty sequence or *)
(* an empty set.                                                           *)
(***************************************************************************)
EXTENDS Naturals, Sequences, FiniteSets, Functions

CONSTANTS
  Names,     \* file names,
  Places,    \* and directories, without what they start with
  Archs,     \* byte order, class and machine of a file
  Contents,  \* what identifies the bytes of a file: its hash
  Worlds     \* the disks, options and arguments to start from

Starts == {"host", "sysroot", "target", "cwd"}
Dir == [at : Starts, place : Places]
Path == [at : Starts, place : Places, name : Names]

ParentDir(path) == [at |-> path.at, place |-> path.place]
Join(dir, name) == [at |-> dir.at, place |-> dir.place, name |-> name]

\* What File::open and Elf::read_unchecked make of a file, and what they read.
\* A link has the path it leads to.  An entry whose name is not in the string
\* table is passed over and not among the names that are needed.
Kinds == {"elf", "not_elf", "malformed", "unreadable", "link"}
Files == [kind : Kinds, link : SUBSET Path, content : Contents, arch : Archs,
          dynamic : BOOLEAN, needed : SUBSET Names, rpath : Seq(Dir),
          runpath : Seq(Dir), interp : SUBSET Path]

Options == [cli : BOOLEAN, root : {"host", "sysroot"}, libc : {"glibc", "musl"},
            search_dirs : Seq(Dir), search_dirs_override : Seq(Dir)]

IsDisk(d) == DOMAIN d \subseteq Path /\ d \in [DOMAIN d -> Files]

ASSUME PathAssumption == IsFiniteSet(Path)

ASSUME WorldsAssumption ==
  \A w \in Worlds : /\ IsDisk(w.disk)
                    /\ w.options \in Options
                    /\ w.files \in Seq(Path)

VARIABLES
  disk,
  options,  \* of the loader
  files,    \* the arguments
  queue,    \* paths to resolve
  tree,     \* DependencyTree: the dependencies of each dependent
  status

vars == <<disk, options, files, queue, tree, status>>

-----------------------------------------------------------------------------
(* Files and search directories *)

Follow(d, paths) ==
  UNION {IF path \in DOMAIN d /\ d[path].kind = "link" THEN d[path].link ELSE {path} :
           path \in paths}

\* The path without links: a bound of three stands for that of the system.
RealPath(d, path) == Follow(d, Follow(d, Follow(d, {path})))

\* The file that opens, if there is one; a link when there are too many.
Opened(d, path) == {d[real] : real \in RealPath(d, path) \cap DOMAIN d}

IsElf(d, path) == \E file \in Opened(d, path) : file.kind = "elf"

\* The root of the loader.  elb deps and elb relocate never pass theirs on.
RootOf(o) == IF o.cli THEN "host" ELSE o.root

\* Any absolute path starts with the root directory of the host.
Under(o, x) == x.at = RootOf(o) \/ (RootOf(o) = "host" /\ x.at # "cwd")

\* The file that is opened: join of the root, for a relative path too.
Rebase(o, path) ==
  IF Under(o, path) THEN path ELSE [path EXCEPT !.at = RootOf(o)]

\* Expand without a root.
ExpandAsWritten(o, dir, file) ==
  IF dir.place = "$ORIGIN" THEN ParentDir(file) ELSE dir

\* $ORIGIN, or the directory under the root.  A relative one is left alone, and
\* so are the directories of the caller.
Expand(o, dir, file) ==
  IF dir.place = "$ORIGIN" THEN ParentDir(file)
  ELSE IF Under(o, dir) \/ dir.at = "cwd" THEN dir
  ELSE [dir EXCEPT !.at = RootOf(o)]

OverrideDirs(o, elf) ==
  IF o.libc = "musl" \/ elf.runpath # <<>> THEN o.search_dirs_override ELSE <<>>

ElfDirs(o, elf) ==
  IF o.libc = "musl" THEN elf.rpath \o elf.runpath
  ELSE IF elf.runpath # <<>> THEN elf.runpath ELSE elf.rpath

\* SearchDirs with the directories of the caller behind those of the file.
SearchOverrideLast(o, file, elf) ==
  LET dirs == ElfDirs(o, elf)
  IN  [i \in DOMAIN dirs |-> Expand(o, dirs[i], file)]
      \o OverrideDirs(o, elf)
      \o o.search_dirs

SearchDirs(o, file, elf) ==
  LET dirs == ElfDirs(o, elf)
  IN  OverrideDirs(o, elf)
      \o [i \in DOMAIN dirs |-> Expand(o, dirs[i], file)]
      \o o.search_dirs

\* A file that is not there, cannot be opened, or is not for this machine is
\* passed over; one that cannot be read as an ELF file ends the search.
Compatible(d, path, elf) ==
  \E file \in Opened(d, path) : file.kind = "elf" /\ file.arch = elf.arch
Malformed(d, path) == \E file \in Opened(d, path) : file.kind = "malformed"

\* Lookup that gives up after the first directory.
LookupOnce(d, dirs, name, elf) ==
  {Join(dirs[i], name) :
     i \in {j \in DOMAIN dirs \cap {1} : Compatible(d, Join(dirs[j], name), elf)}}

\* The first directory in which the search for a name ends, if there is one.
Lookup(d, dirs, name, elf) ==
  LET ends == {i \in DOMAIN dirs : \/ Compatible(d, Join(dirs[i], name), elf)
                                   \/ Malformed(d, Join(dirs[i], name))}
  IN  {Join(dirs[i], name) : i \in {i \in ends : \A j \in ends : i <= j}}

Resolves(d, o, file, elf) ==
  \A name \in elf.needed :
    \E path \in Lookup(d, SearchDirs(o, file, elf), name, elf) : ~ Malformed(d, path)

\* The interpreter is taken as it is written in the file.
Needed(d, o, file, elf) ==
  elf.interp
    \cup UNION {Lookup(d, SearchDirs(o, file, elf), name, elf) : name \in elf.needed}

Dependencies(d, o, file) ==
  UNION {Needed(d, o, file, elf) : elf \in {e \in Opened(d, file) : e.dynamic}}

-----------------------------------------------------------------------------
(* The dependency tree and the queue *)

Resolving == status = "resolving" /\ queue # <<>>

\* The dependent_file of the call.
File == Rebase(options, Head(queue))

\* DependencyTree::contains that finds dependencies as well as dependents.
Mentioned(t, path) == path \in DOMAIN t \cup UNION Range(t)

\* DependencyTree::contains that does not find those with dependencies.
VisitedLeaf(t, path) == path \in DOMAIN t /\ t[path] = {}

Visited(t, path) == path \in DOMAIN t

Insert(dependent, dependencies) ==
  [path \in DOMAIN tree \cup {dependent} |->
     IF path = dependent THEN dependencies ELSE tree[path]]

\* The order of the dynamic table is left open.
Orders(paths) == {s \in [1..Cardinality(paths) -> paths] : paths \subseteq Range(s)}

AlreadyVisited ==
  /\ Resolving
  /\ Visited(tree, Head(queue))
  /\ queue' = Tail(queue)
  /\ UNCHANGED <<disk, options, files, tree, status>>

\* Files without a dynamic table.
NoDependencies ==
  /\ Resolving
  /\ ~ Visited(tree, Head(queue))
  /\ IsElf(disk, File)
  /\ \A elf \in Opened(disk, File) : ~ elf.dynamic
  /\ tree' = Insert(File, {})
  /\ queue' = Tail(queue)
  /\ UNCHANGED <<disk, options, files, status>>

\* The dependencies that are in the tree, as they are written, are not returned.
ResolveDependencies ==
  /\ Resolving
  /\ ~ Visited(tree, Head(queue))
  /\ \E elf \in Opened(disk, File) :
       /\ elf.kind = "elf" /\ elf.dynamic
       /\ Resolves(disk, options, File, elf)
       /\ \E needed \in {Dependencies(disk, options, File)} :
            /\ tree' = Insert(File, needed)
            /\ \E new \in Orders({dep \in needed : ~ Visited(Insert(File, needed), dep)}) :
                 queue' = Tail(queue) \o new
  /\ UNCHANGED <<disk, options, files, status>>

\* An error of open or read, or FailedToResolve, which the callers return.
Fail ==
  /\ Resolving
  /\ ~ Visited(tree, Head(queue))
  /\ \A elf \in Opened(disk, File) :
       elf.kind = "elf" => elf.dynamic /\ ~ Resolves(disk, options, File, elf)
  /\ status' = "failed"
  /\ UNCHANGED <<disk, options, files, queue, tree>>

Finish ==
  /\ status = "resolving" /\ queue = <<>>
  /\ status' = "done"
  /\ UNCHANGED <<disk, options, files, queue, tree>>

Init ==
  /\ \E w \in Worlds : disk = w.disk /\ options = w.options /\ files = w.files
  /\ queue = files
  /\ tree = <<>>
  /\ status = "resolving"

Next ==
  \/ AlreadyVisited
  \/ NoDependencies
  \/ ResolveDependencies
  \/ Fail
  \/ Finish

Spec == Init /\ [][Next]_vars /\ WF_vars(Next)

-----------------------------------------------------------------------------
(* Properties *)

\* Whatever resolve_dependencies finds is a path, made of a directory that was
\* searched and a name that is needed.
TypeOK ==
  /\ IsDisk(disk)
  /\ options \in Options
  /\ files \in Seq(Path)
  /\ queue \in Seq(Path)
  /\ DOMAIN tree \subseteq Path
  /\ tree \in [DOMAIN tree -> SUBSET Path]
  /\ status \in {"resolving", "done", "failed"}

Arguments == {Rebase(options, path) : path \in Range(files)}

\* The file that opens when a dependency of a file of S is resolved is in S.
Closed(S) ==
  \A path \in S : \A dep \in Dependencies(disk, options, path) :
    Rebase(options, dep) \in S

\* When the queue is empty the tree has the arguments and every file that they
\* need, directly or through others, whatever cycles and shared libraries the
\* graph has, and no other file; and under each file what it needs.
TreeIsClosure ==
  status = "done" =>
    /\ Arguments \subseteq DOMAIN tree
    /\ Closed(DOMAIN tree)
    /\ \A path \in DOMAIN tree : tree[path] = Dependencies(disk, options, path)
    /\ \A S \in SUBSET DOMAIN tree :
         Arguments \subseteq S /\ Closed(S) => S = DOMAIN tree

\* get_search_dirs_from_env: "These directories override default search
\* directories unless an executable has RPATH."  A library that is in one of
\* them is taken from there.
OverridesFirst ==
  \A path \in DOMAIN tree :
    \A elf \in {e \in Opened(disk, path) : e.dynamic /\ e.rpath = <<>>} :
      \A name \in elf.needed :
        LET libs == {Join(dir, name) : dir \in Range(options.search_dirs_override)}
        IN  /\ \E lib \in libs : Compatible(disk, lib, elf)
            /\ \A lib \in libs : ~ Malformed(disk, lib)
            => \E lib \in libs \cap tree[path] : Compatible(disk, lib, elf)

\* Resolution fails only on a path at which there is no ELF file, neither as it
\* is given nor under the root, and on a file that needs a name for which the
\* search ends nowhere, or at a file that is damaged.
FailsForAReason ==
  status = "failed" =>
    \/ ~ IsElf(disk, Head(queue)) /\ ~ IsElf(disk, File)
    \/ \E elf \in Opened(disk, File) : \E name \in elf.needed :
         LET libs == {Join(dir, name) : dir \in Range(SearchDirs(options, File, elf))}
         IN  \/ \E lib \in libs : Malformed(disk, lib)
             \/ \A lib \in libs : ~ Compatible(disk, lib, elf)

\* The queue becomes empty, or the search fails: cycles are not followed twice.
Terminates == <>(status # "resolving")

-----------------------------------------------------------------------------
(* The root of the loader *)

\* A path or a directory under the root, as it is called inside.
Inside(x) == [x EXCEPT !.at = "host"]
InsideDirs(dirs) == [i \in DOMAIN dirs |-> Inside(dirs[i])]

\* The root as a disk of its own: its files at the same places, its links too.
InsideFile(file) == [file EXCEPT !.link = {Inside(path) : path \in @}]
InsideDisk(d) ==
  [path \in {Inside(p) : p \in {p \in DOMAIN d : p.at = "sysroot"}} |->
     InsideFile(d[[path EXCEPT !.at = "sysroot"]])]

\* The loader of that disk.
InsideOptions(o) ==
  [o EXCEPT !.root = "host", !.search_dirs = InsideDirs(@),
            !.search_dirs_override = InsideDirs(@)]

\* A file that was made for the root: it names what it needs as it is called
\* inside, and a link, which the system follows from its own root, stays there.
MadeForRoot(file) ==
  /\ \A path \in file.link : path.at = "sysroot"
  /\ \A path \in file.interp : path.at = "host"
  /\ \A dir \in Range(file.rpath) \cup Range(file.runpath) : dir.at = "host"

RootIsApart ==
  /\ \A path \in DOMAIN disk : path.at = "sysroot" => MadeForRoot(disk[path])
  /\ \A dir \in Range(options.search_dirs) \cup Range(options.search_dirs_override) :
       dir.at = "sysroot"

\* LoaderArgs::root, "File system root.", and LoaderOptions::root.  Whatever the
\* arguments and the rest of the disk, the loader finds for each file what it
\* would find if the root were the whole disk: the same copies in the same
\* order of directories.  Only the interpreter is returned as the file has it.
RootIsWholeDisk ==
  options.root = "sysroot" /\ RootIsApart =>
    \A path \in DOMAIN tree :
      /\ {Inside(Rebase(options, dep)) : dep \in tree[path]}
           = Dependencies(InsideDisk(disk), InsideOptions(options), Inside(path))
      /\ \A dep \in tree[path] :
           \/ dep.at = "sysroot"
           \/ \E file \in Opened(disk, path) : dep \in file.interp

-----------------------------------------------------------------------------
(* Disks that do not lead elsewhere *)

\* Paths and directories that start at one of a few places, and files that name
\* no others, in links, interpreters and search directories.
PathsAt(A) == {path \in Path : path.at \in A}
DirsAt(A) == {dir \in Dir : dir.at \in A}
FilesAt(A) ==
  {file \in Files : /\ file.link \cup file.interp \subseteq PathsAt(A)
                    /\ file.rpath \in Seq(DirsAt(A))
                    /\ file.runpath \in Seq(DirsAt(A))}

\* The loader that elb deps and elb relocate make searches A only, and nothing
\* in A leads out of it.
Confined(A) ==
  /\ options.cli
  /\ options.search_dirs \in Seq(DirsAt(A))
  /\ options.search_dirs_override \in Seq(DirsAt(A))
  /\ \A path \in DOMAIN disk \cap PathsAt(A) : disk[path] \in FilesAt(A)
=============================================================================
