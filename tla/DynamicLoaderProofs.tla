---- MODULE DynamicLoaderProofs ----
(***************************************************************************)
(* Proofs about DynamicLoader and the commands that call it, for every     *)
(* disk, options and arguments: that the tree it ends with is the closure  *)
(* of its arguments, and the order of the search; that elb deps shows      *)
(* every dependency; and that relocate writes nowhere but in the target    *)
(* directory, is not stopped by what it finds there, has a hash for each   *)
(* file that it links, and ends with programs that are in bin and run with *)
(* their own copies.                                                       *)
(***************************************************************************)
EXTENDS DepsCommand, ElfRelocator, FiniteSetTheorems, WellFoundedInduction, TLAPS

-----------------------------------------------------------------------------
(* Sequences and their elements *)

\* The first path is taken from the queue.
LEMMA TailFacts ==
  ASSUME NEW T, NEW s \in Seq(T), s # <<>>
  PROVE  /\ Head(s) \in T
         /\ Tail(s) \in Seq(T)
         /\ Range(s) = {Head(s)} \cup Range(Tail(s))
<1>1. /\ Head(s) \in T /\ Tail(s) \in Seq(T) /\ Len(s) \in Nat \ {0}
      /\ DOMAIN s = 1..Len(s) /\ DOMAIN Tail(s) = 1..(Len(s) - 1)
      /\ Head(s) = s[1]
      /\ \A i \in 1..(Len(s) - 1) : Tail(s)[i] = s[i + 1]
  OBVIOUS
<1>2. ASSUME NEW x \in Range(s) PROVE x = Head(s) \/ x \in Range(Tail(s))
  <2>1. PICK i \in DOMAIN s : x = s[i]
    BY DEF Range
  <2>2. CASE i = 1
    BY <1>1, <2>1, <2>2
  <2>3. CASE i # 1
    <3>1. i - 1 \in 1..(Len(s) - 1) /\ Tail(s)[i - 1] = s[i]
      BY <1>1, <2>1, <2>3
    <3> QED
      BY <1>1, <2>1, <3>1 DEF Range
  <2> QED
    BY <2>2, <2>3
<1>3. Head(s) \in Range(s)
  BY <1>1 DEF Range
<1>4. ASSUME NEW x \in Range(Tail(s)) PROVE x \in Range(s)
  <2>1. PICK i \in DOMAIN Tail(s) : x = Tail(s)[i]
    BY DEF Range
  <2>2. i + 1 \in DOMAIN s /\ x = s[i + 1]
    BY <1>1, <2>1
  <2> QED
    BY <2>2 DEF Range
<1> QED
  BY <1>1, <1>2, <1>3, <1>4

\* New paths go to the end of the queue.
LEMMA AppendFacts ==
  ASSUME NEW T, NEW s \in Seq(T), NEW t \in Seq(T)
  PROVE  /\ s \o t \in Seq(T)
         /\ Range(s \o t) = Range(s) \cup Range(t)
<1>1. /\ s \o t \in Seq(T) /\ Len(s) \in Nat /\ Len(t) \in Nat
      /\ DOMAIN s = 1..Len(s) /\ DOMAIN t = 1..Len(t)
      /\ DOMAIN (s \o t) = 1..(Len(s) + Len(t))
      /\ \A i \in 1..Len(s) : (s \o t)[i] = s[i]
      /\ \A i \in 1..Len(t) : (s \o t)[Len(s) + i] = t[i]
  OBVIOUS
<1>2. ASSUME NEW x \in Range(s \o t) PROVE x \in Range(s) \cup Range(t)
  <2>1. PICK i \in DOMAIN (s \o t) : x = (s \o t)[i]
    BY DEF Range
  <2>2. CASE i \in 1..Len(s)
    BY <1>1, <2>1, <2>2 DEF Range
  <2>3. CASE i \notin 1..Len(s)
    <3>1. i - Len(s) \in 1..Len(t) /\ i = Len(s) + (i - Len(s))
      BY <1>1, <2>1, <2>3
    <3>2. x = t[i - Len(s)]
      BY <1>1, <2>1, <3>1
    <3> QED
      BY <1>1, <3>1, <3>2 DEF Range
  <2> QED
    BY <2>2, <2>3
<1>3. ASSUME NEW x \in Range(s) PROVE x \in Range(s \o t)
  <2>1. PICK i \in DOMAIN s : x = s[i]
    BY DEF Range
  <2>2. i \in DOMAIN (s \o t) /\ x = (s \o t)[i]
    BY <1>1, <2>1
  <2> QED
    BY <2>2 DEF Range
<1>4. ASSUME NEW x \in Range(t) PROVE x \in Range(s \o t)
  <2>1. PICK i \in DOMAIN t : x = t[i]
    BY DEF Range
  <2>2. Len(s) + i \in DOMAIN (s \o t) /\ x = (s \o t)[Len(s) + i]
    BY <1>1, <2>1
  <2> QED
    BY <2>2 DEF Range
<1> QED
  BY <1>1, <1>2, <1>3, <1>4

\* Whatever the order, each of the paths is in the sequence and no other is.
LEMMA OrdersFacts ==
  ASSUME NEW paths \in SUBSET Path, NEW new \in Orders(paths)
  PROVE  new \in Seq(Path) /\ Range(new) = paths
<1>1. Cardinality(paths) \in Nat
  BY PathAssumption, FS_Subset, FS_CardinalityType
<1>2. new \in [1..Cardinality(paths) -> paths] /\ paths \subseteq Range(new)
  BY DEF Orders
<1>3. Range(new) \subseteq paths
  BY <1>2 DEF Range
<1> DEFINE n == Cardinality(paths)
<1>4. n \in Nat /\ new \in [1..n -> Path]
  BY <1>1, <1>2
<1>5. new \in Seq(Path)
  <2> HIDE DEF n
  <2> QED
    BY <1>4
<1> QED
  BY <1>2, <1>3, <1>5

-----------------------------------------------------------------------------
(* Paths of the loader *)

\* Rebase gives a path, which it leaves alone the next time.
LEMMA RebaseFacts ==
  ASSUME NEW o \in Options, NEW path \in Path
  PROVE  /\ Rebase(o, path) \in Path
         /\ Rebase(o, Rebase(o, path)) = Rebase(o, path)
<1>1. RootOf(o) \in {"host", "sysroot"}
  BY DEF RootOf, Options
<1>2. CASE Under(o, path)
  BY <1>2 DEF Rebase
<1>3. CASE ~ Under(o, path)
  <2>1. Rebase(o, path) = [path EXCEPT !.at = RootOf(o)]
    BY <1>3 DEF Rebase
  <2>2. [path EXCEPT !.at = RootOf(o)] \in Path
    BY <1>1 DEF Path, Starts
  <2>3. [path EXCEPT !.at = RootOf(o)].at = RootOf(o)
    BY DEF Path
  <2>4. Under(o, Rebase(o, path))
    BY <2>1, <2>3 DEF Under
  <2> QED
    BY <2>1, <2>2, <2>4 DEF Rebase
<1> QED
  BY <1>2, <1>3

\* Every directory that is searched is one.
LEMMA SearchDirsType ==
  ASSUME NEW o \in Options, NEW file \in Path, NEW elf \in Files
  PROVE  SearchDirs(o, file, elf) \in Seq(Dir)
<1>1. /\ o.search_dirs \in Seq(Dir) /\ o.search_dirs_override \in Seq(Dir)
      /\ elf.rpath \in Seq(Dir) /\ elf.runpath \in Seq(Dir)
      /\ RootOf(o) \in Starts
  BY DEF Options, Files, RootOf, Starts
<1>2. OverrideDirs(o, elf) \in Seq(Dir)
  BY <1>1 DEF OverrideDirs
<1>3. ElfDirs(o, elf) \in Seq(Dir)
  BY <1>1 DEF ElfDirs
<1>4. ASSUME NEW dir \in Dir PROVE Expand(o, dir, file) \in Dir
  <2>1. ParentDir(file) \in Dir
    BY DEF ParentDir, Path, Dir
  <2>2. [dir EXCEPT !.at = RootOf(o)] \in Dir
    BY <1>1 DEF Dir
  <2> QED
    BY <2>1, <2>2 DEF Expand
<1> DEFINE dirs == ElfDirs(o, elf)
           expanded == [i \in DOMAIN dirs |-> Expand(o, dirs[i], file)]
<1>5. expanded \in Seq(Dir)
  <2> SUFFICES ASSUME NEW d \in Seq(Dir), d = dirs
               PROVE  [i \in DOMAIN d |-> Expand(o, d[i], file)] \in Seq(Dir)
    BY <1>3
  <2>1. Len(d) \in Nat /\ DOMAIN d = 1..Len(d) /\ \A i \in DOMAIN d : d[i] \in Dir
    OBVIOUS
  <2>2. [i \in DOMAIN d |-> Expand(o, d[i], file)] \in [1..Len(d) -> Dir]
    BY <1>4, <2>1
  <2> QED
    BY <2>1, <2>2
<1>6. SearchDirs(o, file, elf) = OverrideDirs(o, elf) \o expanded \o o.search_dirs
  BY DEF SearchDirs
<1> HIDE DEF expanded
<1> QED
  BY <1>1, <1>2, <1>5, <1>6, AppendFacts

\* What opens is a file, and what it depends on are paths.
LEMMA DependenciesType ==
  ASSUME NEW d, IsDisk(d), NEW o \in Options, NEW file \in Path
  PROVE  Dependencies(d, o, file) \in SUBSET Path
<1>1. ASSUME NEW elf \in Opened(d, file) PROVE elf \in Files
  BY <1>1 DEF Opened, IsDisk
<1>2. ASSUME NEW elf \in Files, NEW name \in elf.needed
      PROVE  Lookup(d, SearchDirs(o, file, elf), name, elf) \in SUBSET Path
  <2>1. name \in Names
    BY <1>2 DEF Files
  <2>2. PICK dirs \in Seq(Dir) : dirs = SearchDirs(o, file, elf)
    BY SearchDirsType
  <2>3. ASSUME NEW i \in DOMAIN dirs PROVE Join(dirs[i], name) \in Path
    <3>1. dirs[i] \in Dir
      BY <2>3
    <3> QED
      BY <2>1, <3>1 DEF Join, Dir, Path
  <2> QED
    BY <2>2, <2>3 DEF Lookup
<1>3. ASSUME NEW elf \in Files PROVE Needed(d, o, file, elf) \in SUBSET Path
  <2>1. elf.interp \in SUBSET Path
    BY DEF Files
  <2> DEFINE libs == UNION {Lookup(d, SearchDirs(o, file, elf), name, elf) :
                              name \in elf.needed}
  <2>2. libs \in SUBSET Path
    BY <1>2
  <2>3. Needed(d, o, file, elf) = elf.interp \cup libs
    BY Zenon DEF Needed
  <2> HIDE DEF libs
  <2> QED
    BY <2>1, <2>2, <2>3
<1> QED
  BY <1>1, <1>3 DEF Dependencies

-----------------------------------------------------------------------------
(* The inductive invariant *)

\* The file that opens for a path is in the tree, or the path is in the queue.
Handled(path) ==
  \/ path \in DOMAIN tree
  \/ \E q \in Range(queue) : Rebase(options, q) = path

\* Any set that has the arguments and what its files need has everything that
\* has been or will be resolved.
Bounded ==
  \A S \in SUBSET Path : Arguments \subseteq S /\ Closed(S) =>
    /\ DOMAIN tree \subseteq S
    /\ \A q \in Range(queue) : Rebase(options, q) \in S

IInv ==
  /\ TypeOK
  /\ \A path \in DOMAIN tree : Rebase(options, path) = path
  /\ \A path \in DOMAIN tree : tree[path] = Dependencies(disk, options, path)
  /\ \A path \in Arguments : Handled(path)
  /\ \A path \in DOMAIN tree : \A dep \in Dependencies(disk, options, path) :
       Handled(Rebase(options, dep))
  /\ Bounded
  /\ status = "done" => queue = <<>>

\* Before the first path is resolved the queue has the arguments.
LEMMA InitIInv == Init => IInv
<1> SUFFICES ASSUME Init PROVE IInv
  OBVIOUS
<1>1. PICK w \in Worlds : disk = w.disk /\ options = w.options /\ files = w.files
  BY DEF Init
<1>2. IsDisk(disk) /\ options \in Options /\ files \in Seq(Path)
  BY <1>1, WorldsAssumption
<1>3. queue = files /\ tree = <<>> /\ status = "resolving" /\ DOMAIN tree = {}
  BY DEF Init
<1>4. TypeOK
  <2>1. tree \in [DOMAIN tree -> SUBSET Path]
    BY <1>3
  <2> QED
    BY <1>2, <1>3, <2>1 DEF TypeOK
<1>5. \A path \in Arguments : Handled(path)
  BY <1>3 DEF Arguments, Handled
<1>6. Bounded
  BY <1>3 DEF Bounded, Arguments
<1> QED
  BY <1>3, <1>4, <1>5, <1>6 DEF IInv

\* The tree and the queue after File was resolved, whatever it needs.
LEMMA ResolvedIInv ==
  ASSUME IInv, Resolving, UNCHANGED <<disk, options, files, status>>,
         ~ Visited(tree, Head(queue)),
         NEW needed, needed = Dependencies(disk, options, File),
         tree' = Insert(File, needed),
         NEW new \in Orders({dep \in needed : ~ Visited(Insert(File, needed), dep)}),
         queue' = Tail(queue) \o new
  PROVE  IInv'
<1>1. /\ queue \in Seq(Path) /\ queue # <<>> /\ status = "resolving"
      /\ options \in Options /\ IsDisk(disk)
  BY DEF IInv, TypeOK, Resolving
<1>2. /\ Head(queue) \in Path /\ Tail(queue) \in Seq(Path)
      /\ Range(queue) = {Head(queue)} \cup Range(Tail(queue))
  BY <1>1, TailFacts
<1>3. File \in Path /\ Rebase(options, File) = File
  BY <1>1, <1>2, RebaseFacts DEF File
<1>4. needed \in SUBSET Path
  BY <1>1, <1>3, DependenciesType
<1> DEFINE more == {dep \in needed : ~ Visited(Insert(File, needed), dep)}
<1>5. new \in Seq(Path) /\ Range(new) = more
  BY <1>4, OrdersFacts
<1>6. /\ queue' \in Seq(Path)
      /\ Range(queue') = Range(Tail(queue)) \cup more
  <2>1. /\ Tail(queue) \o new \in Seq(Path)
        /\ Range(Tail(queue) \o new) = Range(Tail(queue)) \cup Range(new)
    <3>1. \A s, t \in Seq(Path) : /\ s \o t \in Seq(Path)
                                 /\ Range(s \o t) = Range(s) \cup Range(t)
      BY ONLY AppendFacts
    <3>2. Tail(queue) \in Seq(Path) /\ new \in Seq(Path)
      BY ONLY <1>2, <1>5
    <3> QED
      BY ONLY <3>1, <3>2, Zenon
  <2> QED
    BY <1>5, <2>1
<1>7. /\ DOMAIN tree' = DOMAIN tree \cup {File}
      /\ tree'[File] = needed
      /\ \A path \in DOMAIN tree : path # File => tree'[path] = tree[path]
  BY DEF Insert
<1>8. TypeOK'
  <2>1. DOMAIN tree' \subseteq Path
    BY <1>3, <1>7 DEF IInv, TypeOK
  <2>2. \A path \in DOMAIN tree' : tree'[path] \in SUBSET Path
    BY <1>4, <1>7 DEF IInv, TypeOK
  <2>3. tree' \in [DOMAIN tree' -> SUBSET Path]
    BY <2>2 DEF Insert
  <2> QED
    BY <1>6, <2>1, <2>3 DEF IInv, TypeOK
<1>9. \A path \in DOMAIN tree' : Rebase(options, path) = path
  BY <1>3, <1>7 DEF IInv
<1>10. \A path \in DOMAIN tree' : tree'[path] = Dependencies(disk, options, path)
  BY <1>7 DEF IInv
<1>11. \A path : Handled(path) => Handled(path)'
  BY <1>2, <1>6, <1>7 DEF Handled, File
<1>12. ASSUME NEW dep \in needed PROVE Handled(Rebase(options, dep))'
  <2>1. CASE dep \in DOMAIN tree'
    BY <1>9, <2>1 DEF Handled
  <2>2. CASE dep \notin DOMAIN tree'
    BY <1>6, <2>2 DEF Handled, Visited
  <2> QED
    BY <2>1, <2>2
<1>13. \A path \in DOMAIN tree' : \A dep \in Dependencies(disk, options, path) :
         Handled(Rebase(options, dep))'
  BY <1>7, <1>11, <1>12 DEF IInv
<1>14. ASSUME NEW S \in SUBSET Path, Arguments \subseteq S, Closed(S)
       PROVE  /\ DOMAIN tree' \subseteq S
              /\ \A q \in Range(queue') : Rebase(options, q) \in S
  <2>1. /\ DOMAIN tree \subseteq S
        /\ \A q \in Range(queue) : Rebase(options, q) \in S
    BY <1>14 DEF IInv, Bounded
  <2>2. File \in S
    BY <1>2, <2>1 DEF File
  <2>3. \A dep \in needed : Rebase(options, dep) \in S
    BY <1>14, <2>2 DEF Closed
  <2> QED
    BY <1>2, <1>6, <1>7, <2>1, <2>2, <2>3
<1>15. Bounded'
  BY <1>14 DEF Bounded, Arguments, Closed
<1>16. \A path \in Arguments' : Handled(path)'
  BY <1>11 DEF IInv, Arguments
<1> QED
  BY <1>1, <1>8, <1>9, <1>10, <1>13, <1>15, <1>16 DEF IInv

\* Every step of the loader keeps the invariant.
LEMMA NextIInv == IInv /\ [Next]_vars => IInv'
<1> SUFFICES ASSUME IInv, [Next]_vars PROVE IInv'
  OBVIOUS
<1>1. CASE AlreadyVisited
  <2>1. /\ queue \in Seq(Path) /\ queue # <<>> /\ status = "resolving"
    BY <1>1 DEF AlreadyVisited, Resolving, IInv, TypeOK
  <2>2. /\ Tail(queue) \in Seq(Path)
        /\ Range(queue) = {Head(queue)} \cup Range(Tail(queue))
    BY <2>1, TailFacts
  <2>3. /\ queue' = Tail(queue) /\ Head(queue) \in DOMAIN tree
        /\ UNCHANGED <<disk, options, files, tree, status>>
    BY <1>1 DEF AlreadyVisited, Visited
  <2>4. TypeOK'
    BY <2>2, <2>3 DEF IInv, TypeOK
  <2>5. \A path : Handled(path) => Handled(path)'
    BY <2>2, <2>3 DEF Handled, IInv
  <2>6. Bounded'
    BY <2>2, <2>3 DEF IInv, Bounded, Arguments, Closed
  <2> QED
    BY <2>1, <2>3, <2>4, <2>5, <2>6 DEF IInv, Arguments
<1>2. CASE NoDependencies
  <2>1. Dependencies(disk, options, File) = {}
    BY <1>2 DEF NoDependencies, Dependencies
  <2>2. queue \in Seq(Path) /\ queue # <<>>
    BY <1>2 DEF NoDependencies, Resolving, IInv, TypeOK
  <2>3. Tail(queue) \in Seq(Path)
    BY <2>2, TailFacts
  <2>4. <<>> \in Orders({}) /\ Tail(queue) = Tail(queue) \o <<>>
    <3>1. Cardinality({}) = 0
      BY FS_EmptySet
    <3>2. <<>> \in [1..0 -> {}]
      OBVIOUS
    <3> QED
      BY <2>3, <3>1, <3>2 DEF Orders
  <2>5. {dep \in {} : ~ Visited(Insert(File, {}), dep)} = {}
    OBVIOUS
  <2> QED
    BY <1>2, <2>1, <2>4, <2>5, ResolvedIInv DEF NoDependencies
<1>3. CASE ResolveDependencies
  BY <1>3, ResolvedIInv DEF ResolveDependencies
<1>4. CASE Fail
  BY <1>4 DEF Fail, IInv, TypeOK, Bounded, Handled, Arguments, Closed
<1>5. CASE Finish
  BY <1>5 DEF Finish, IInv, TypeOK, Bounded, Handled, Arguments, Closed
<1>6. CASE UNCHANGED vars
  BY <1>6 DEF vars, IInv, TypeOK, Bounded, Handled, Arguments, Closed
<1> QED
  BY <1>1, <1>2, <1>3, <1>4, <1>5, <1>6 DEF Next

\* An empty queue leaves nothing to be handled.
LEMMA IInvTreeIsClosure == IInv => TreeIsClosure
<1> SUFFICES ASSUME IInv, status = "done" PROVE TreeIsClosure
  BY DEF TreeIsClosure
<1>1. Range(queue) = {}
  BY DEF IInv, Range
<1>2. Arguments \subseteq DOMAIN tree
  BY <1>1 DEF IInv, Handled
<1>3. Closed(DOMAIN tree)
  BY <1>1 DEF IInv, Handled, Closed
<1>4. ASSUME NEW S \in SUBSET DOMAIN tree, Arguments \subseteq S, Closed(S)
      PROVE  S = DOMAIN tree
  BY <1>4 DEF IInv, TypeOK, Bounded
<1> QED
  BY <1>2, <1>3, <1>4 DEF IInv, TreeIsClosure

-----------------------------------------------------------------------------
(* The order of the search *)

\* A set of numbers has a first one.
LEMMA FirstOf ==
  ASSUME NEW T \in SUBSET Nat, T # {}
  PROVE  \E m \in T : \A n \in T : m <= n
<1>1. PICK m \in T : \A n \in T : ~ (<<n, m>> \in OpToRel(<, Nat))
  BY NatLessThanWellFounded, WFMin
<1>2. \A n \in T : ~ (n < m)
  BY <1>1 DEF OpToRel
<1> QED
  BY <1>2

\* The search for a name ends in this directory.
Ends(d, dirs, name, elf) ==
  {i \in DOMAIN dirs : \/ Compatible(d, Join(dirs[i], name), elf)
                       \/ Malformed(d, Join(dirs[i], name))}

\* What is found is in the first directory in which the search ends.
LEMMA LookupFacts ==
  ASSUME NEW d, NEW dirs \in Seq(Dir), NEW name, NEW elf,
         Ends(d, dirs, name, elf) # {}
  PROVE  \E i \in Ends(d, dirs, name, elf) :
           /\ \A j \in Ends(d, dirs, name, elf) : i <= j
           /\ Lookup(d, dirs, name, elf) = {Join(dirs[i], name)}
<1> DEFINE ends == Ends(d, dirs, name, elf)
<1>1. DOMAIN dirs \subseteq Nat
  OBVIOUS
<1>2. ends \in SUBSET Nat
  BY <1>1 DEF Ends
<1>3. Lookup(d, dirs, name, elf) =
        {Join(dirs[i], name) : i \in {i \in ends : \A j \in ends : i <= j}}
  BY DEF Lookup, Ends
<1> HIDE DEF ends
<1>4. PICK i \in ends : \A j \in ends : i <= j
  BY <1>2, FirstOf DEF ends
<1>5. \A m \in ends : (\A j \in ends : m <= j) => m = i
  BY <1>2, <1>4
<1>6. Lookup(d, dirs, name, elf) = {Join(dirs[i], name)}
  BY <1>3, <1>4, <1>5
<1> QED
  BY <1>4, <1>6 DEF ends

\* The directories of the caller, when they are searched, are the first ones.
LEMMA OverrideDirsFirst ==
  ASSUME NEW o \in Options, NEW file \in Path, NEW elf \in Files,
         NEW n \in DOMAIN OverrideDirs(o, elf)
  PROVE  /\ n \in DOMAIN SearchDirs(o, file, elf)
         /\ SearchDirs(o, file, elf)[n] = OverrideDirs(o, elf)[n]
<1> DEFINE over == OverrideDirs(o, elf)
           dirs == ElfDirs(o, elf)
           expanded == [i \in DOMAIN dirs |-> Expand(o, dirs[i], file)]
<1>1. /\ o.search_dirs \in Seq(Dir) /\ o.search_dirs_override \in Seq(Dir)
      /\ elf.rpath \in Seq(Dir) /\ elf.runpath \in Seq(Dir)
  BY DEF Options, Files
<1>2. over \in Seq(Dir)
  BY <1>1 DEF OverrideDirs
<1>3. dirs \in Seq(Dir)
  BY <1>1 DEF ElfDirs
<1>4. expanded \in Seq({Expand(o, dir, file) : dir \in Dir})
  <2> SUFFICES ASSUME NEW s \in Seq(Dir), s = dirs
               PROVE  [i \in DOMAIN s |-> Expand(o, s[i], file)]
                        \in Seq({Expand(o, dir, file) : dir \in Dir})
    BY <1>3
  <2>1. Len(s) \in Nat /\ DOMAIN s = 1 .. Len(s) /\ \A i \in DOMAIN s : s[i] \in Dir
    OBVIOUS
  <2>2. [i \in DOMAIN s |-> Expand(o, s[i], file)]
          \in [1 .. Len(s) -> {Expand(o, dir, file) : dir \in Dir}]
    BY <2>1
  <2> QED
    BY <2>1, <2>2
<1>5. SearchDirs(o, file, elf) = (over \o expanded) \o o.search_dirs
  BY DEF SearchDirs
<1> HIDE DEF over, dirs, expanded
<1>6. PICK T : over \in Seq(T) /\ expanded \in Seq(T) /\ o.search_dirs \in Seq(T)
  <2> DEFINE U == Dir \cup {Expand(o, dir, file) : dir \in Dir}
  <2>1. \A S : S \subseteq U => Seq(S) \subseteq Seq(U)
    OBVIOUS
  <2>2. over \in Seq(U) /\ expanded \in Seq(U) /\ o.search_dirs \in Seq(U)
    BY <1>1, <1>2, <1>4, <2>1
  <2> QED
    BY <2>2
<1>7. n \in 1 .. Len(over) /\ Len(over) \in Nat
  BY <1>6 DEF over
<1>8. /\ (over \o expanded) \in Seq(T) /\ Len(over \o expanded) >= Len(over)
      /\ (over \o expanded)[n] = over[n]
  BY <1>6, <1>7
<1>9. PICK p \in Seq(T) : /\ p = over \o expanded
                          /\ Len(p) >= Len(over) /\ p[n] = over[n]
  BY <1>8
<1>10. PICK q \in Seq(T) : q = o.search_dirs
  BY <1>6
<1>11. n \in DOMAIN (p \o q) /\ (p \o q)[n] = p[n]
  BY <1>7, <1>9
<1>12. SearchDirs(o, file, elf) = p \o q
  BY <1>5, <1>9, <1>10
<1> QED
  BY <1>9, <1>11, <1>12, Zenon DEF over

\* The directories of the caller are searched for all that is needed: glibc
\* leaves them out for a file without RUNPATH.
OverridesUsed ==
  \A path \in DOMAIN tree : \A elf \in Opened(disk, path) :
    \/ elf.needed = {}
    \/ OverrideDirs(options, elf) = options.search_dirs_override

\* A library of the directories of the caller is found before any other.
LEMMA IInvOverridesFirst == IInv /\ OverridesUsed => OverridesFirst
<1> SUFFICES ASSUME IInv, OverridesUsed,
                    NEW path \in DOMAIN tree,
                    NEW elf \in Opened(disk, path), elf.dynamic,
                    NEW name \in elf.needed,
                    NEW k \in DOMAIN options.search_dirs_override,
                    Compatible(disk, Join(options.search_dirs_override[k], name), elf),
                    \A dir \in Range(options.search_dirs_override) :
                      ~ Malformed(disk, Join(dir, name))
             PROVE  \E dir \in Range(options.search_dirs_override) :
                      /\ Join(dir, name) \in tree[path]
                      /\ Compatible(disk, Join(dir, name), elf)
  BY DEF OverridesFirst, Range
<1> DEFINE over == options.search_dirs_override
           dirs == SearchDirs(options, path, elf)
           found == Lookup(disk, dirs, name, elf)
<1>1. /\ options \in Options /\ path \in Path /\ IsDisk(disk)
      /\ over \in Seq(Dir)
      /\ tree[path] = Dependencies(disk, options, path)
  BY DEF IInv, TypeOK, Options
<1>2. elf \in Files
  BY <1>1 DEF Opened, IsDisk
<1>3. OverrideDirs(options, elf) = over
  BY DEF OverridesUsed
<1>4. \A n \in DOMAIN over : n \in DOMAIN dirs /\ dirs[n] = over[n]
  BY <1>1, <1>2, <1>3, OverrideDirsFirst
<1>5. dirs \in Seq(Dir)
  BY <1>1, <1>2, SearchDirsType
<1>6. k \in Ends(disk, dirs, name, elf)
  BY <1>4 DEF Ends
<1>7. found \subseteq tree[path]
  <2>1. found \subseteq Needed(disk, options, path, elf)
    BY DEF Needed
  <2> HIDE DEF found
  <2> QED
    BY <1>1, <2>1 DEF Dependencies
<1> HIDE DEF dirs, over
<1>8. PICK i \in Ends(disk, dirs, name, elf) :
        /\ \A j \in Ends(disk, dirs, name, elf) : i <= j
        /\ found = {Join(dirs[i], name)}
  BY <1>5, <1>6, LookupFacts
<1>9. i \in DOMAIN dirs /\ (\/ Compatible(disk, Join(dirs[i], name), elf)
                            \/ Malformed(disk, Join(dirs[i], name)))
  BY <1>8 DEF Ends
<1>10. i \in DOMAIN over /\ dirs[i] = over[i]
  <2>1. /\ DOMAIN over = 1 .. Len(over) /\ DOMAIN dirs = 1 .. Len(dirs)
        /\ Len(over) \in Nat /\ Len(dirs) \in Nat
    BY <1>1, <1>5
  <2>2. k \in 1 .. Len(over)
    BY <2>1 DEF over
  <2>3. i <= k /\ i \in 1 .. Len(dirs)
    BY <1>6, <1>8, <1>9, <2>1
  <2> QED
    BY <1>4, <2>1, <2>2, <2>3
<1>11. over[i] \in Range(over)
  BY <1>10 DEF Range
<1>12. Compatible(disk, Join(over[i], name), elf)
  BY <1>9, <1>10, <1>11 DEF over
<1> QED
  BY <1>7, <1>8, <1>10, <1>11, <1>12 DEF over

-----------------------------------------------------------------------------
(* Failures *)

\* A search that failed has stopped at the path that made it fail.
FailedHere ==
  status = "failed" =>
    /\ queue # <<>>
    /\ \A elf \in Opened(disk, File) :
         elf.kind = "elf" => elf.dynamic /\ ~ Resolves(disk, options, File, elf)

\* The search stays where it failed.
LEMMA FailedHereInvariant == Spec => []FailedHere
<1>1. Init => FailedHere
  BY DEF Init, FailedHere
<1>2. FailedHere /\ [Next]_vars => FailedHere'
  BY DEF FailedHere, Next, vars, AlreadyVisited, NoDependencies,
         ResolveDependencies, Fail, Finish, Resolving, File
<1> QED
  BY <1>1, <1>2, PTL DEF Spec

\* When a name is not resolved the search for it ends nowhere, or at a damaged
\* file.
LEMMA UnresolvedFacts ==
  ASSUME NEW d, NEW dirs \in Seq(Dir), NEW name, NEW elf,
         \A path \in Lookup(d, dirs, name, elf) : Malformed(d, path)
  PROVE  \/ \E dir \in Range(dirs) : Malformed(d, Join(dir, name))
         \/ \A dir \in Range(dirs) : ~ Compatible(d, Join(dir, name), elf)
<1>1. CASE Ends(d, dirs, name, elf) = {}
  BY <1>1 DEF Ends, Range
<1>2. CASE Ends(d, dirs, name, elf) # {}
  <2>1. PICK i \in Ends(d, dirs, name, elf) :
          Lookup(d, dirs, name, elf) = {Join(dirs[i], name)}
    BY <1>2, LookupFacts
  <2>2. dirs[i] \in Range(dirs) /\ Malformed(d, Join(dirs[i], name))
    BY <2>1 DEF Ends, Range
  <2> QED
    BY <2>2
<1> QED
  BY <1>1, <1>2

\* What is wrong with the file at which the search stopped.
LEMMA FailedHereReason ==
  IInv /\ FailedHere /\ Under(options, Head(queue)) => FailsForAReason
<1> SUFFICES ASSUME IInv, FailedHere, Under(options, Head(queue)),
                    status = "failed", IsElf(disk, Head(queue)) \/ IsElf(disk, File)
             PROVE  \E elf \in Opened(disk, File) : \E name \in elf.needed :
                      LET libs == {Join(dir, name) :
                                     dir \in Range(SearchDirs(options, File, elf))}
                      IN  \/ \E lib \in libs : Malformed(disk, lib)
                          \/ \A lib \in libs : ~ Compatible(disk, lib, elf)
  BY DEF FailsForAReason
<1>1. File = Head(queue)
  BY DEF File, Rebase
<1>2. PICK elf \in Opened(disk, File) : elf.kind = "elf"
  BY <1>1 DEF IsElf
<1>3. ~ Resolves(disk, options, File, elf)
  BY <1>2 DEF FailedHere
<1>4. PICK name \in elf.needed :
        \A path \in Lookup(disk, SearchDirs(options, File, elf), name, elf) :
          Malformed(disk, path)
  BY <1>3 DEF Resolves
<1>5. SearchDirs(options, File, elf) \in Seq(Dir)
  <2>1. options \in Options /\ IsDisk(disk) /\ queue \in Seq(Path) /\ queue # <<>>
    BY DEF IInv, TypeOK, FailedHere
  <2>2. File \in Path
    BY <1>1, <2>1, TailFacts
  <2>3. elf \in Files
    BY <2>1 DEF Opened, IsDisk
  <2> QED
    BY <2>1, <2>2, <2>3, SearchDirsType
<1>6. PICK dirs \in Seq(Dir) : dirs = SearchDirs(options, File, elf)
  BY <1>5
<1>7. \/ \E dir \in Range(dirs) : Malformed(disk, Join(dir, name))
      \/ \A dir \in Range(dirs) : ~ Compatible(disk, Join(dir, name), elf)
  BY <1>4, <1>6, UnresolvedFacts
<1> QED
  BY <1>4, <1>6, <1>7, Zenon

-----------------------------------------------------------------------------
(* Theorems about the loader *)

\* The invariant holds in every state of resolve_dependencies and its callers.
THEOREM LoaderInvariant == Spec => []IInv
<1>1. Init => IInv
  BY InitIInv
<1>2. IInv /\ [Next]_vars => IInv'
  BY NextIInv
<1> QED
  BY <1>1, <1>2, PTL DEF Spec

\* The tree and the queue are made of paths, for every disk and all options.
THEOREM LoaderTypeCorrect == Spec => []TypeOK
<1>1. IInv => TypeOK
  BY DEF IInv
<1> QED
  BY <1>1, LoaderInvariant, PTL

\* When resolve_dependencies has nothing left to do, the tree is the closure of
\* the arguments: nothing that is needed is missing and nothing else is there.
THEOREM TreeIsClosureCorrect == Spec => []TreeIsClosure
BY LoaderInvariant, IInvTreeIsClosure, PTL

\* A library that is in a directory of the caller is taken from there, whatever
\* else the file, the options and the disk say, as long as glibc or musl uses
\* these directories at all.
THEOREM OverridesComeFirst == Spec => [](OverridesUsed => OverridesFirst)
<1> QED
  BY IInvOverridesFirst, LoaderInvariant, PTL

\* For any disk and options a search that stopped at an absolute path, or one
\* under its root, stopped for a reason.
THEOREM LoaderFailsForAReason ==
  Spec => [](Under(options, Head(queue)) => FailsForAReason)
<1> QED
  BY FailedHereReason, FailedHereInvariant, LoaderInvariant, PTL

-----------------------------------------------------------------------------
(* A loader that was given a root *)

InsideAll(paths) == {Inside(path) : path \in paths}
UnderRoot == {path \in Path : path.at = "sysroot"}

\* Paths under the root have names of their own inside.
LEMMA InsideFacts ==
  /\ \A path \in UnderRoot :
       /\ Inside(path) \in Path /\ Inside(path).at = "host"
       /\ Inside(path).place = path.place /\ Inside(path).name = path.name
       /\ path = [Inside(path) EXCEPT !.at = "sysroot"]
  /\ \A p, q \in UnderRoot : Inside(p) = Inside(q) => p = q
<1>1. ASSUME NEW path \in UnderRoot
      PROVE  /\ Inside(path) \in Path /\ Inside(path).at = "host"
             /\ Inside(path).place = path.place /\ Inside(path).name = path.name
             /\ path = [Inside(path) EXCEPT !.at = "sysroot"]
  BY DEF Inside, UnderRoot, Path, Starts
<1>2. ASSUME NEW p \in UnderRoot, NEW q \in UnderRoot, Inside(p) = Inside(q)
      PROVE  p = q
  BY <1>1, <1>2
<1> QED
  BY <1>1, <1>2

\* Inside there is what is under the root and nothing else.
LEMMA InsideDiskFacts ==
  ASSUME NEW d, IsDisk(d), NEW path \in UnderRoot
  PROVE  /\ Inside(path) \in DOMAIN InsideDisk(d) <=> path \in DOMAIN d
         /\ path \in DOMAIN d => InsideDisk(d)[Inside(path)] = InsideFile(d[path])
<1>1. DOMAIN InsideDisk(d) = {Inside(p) : p \in {p \in DOMAIN d : p.at = "sysroot"}}
  BY DEF InsideDisk
<1>2. {p \in DOMAIN d : p.at = "sysroot"} = DOMAIN d \cap UnderRoot
  BY DEF IsDisk, UnderRoot
<1>3. Inside(path) \in DOMAIN InsideDisk(d) <=> path \in DOMAIN d
  BY <1>1, <1>2, InsideFacts
<1>4. ASSUME path \in DOMAIN d
      PROVE  InsideDisk(d)[Inside(path)] = InsideFile(d[path])
  <2>1. Inside(path) \in {Inside(p) : p \in {p \in DOMAIN d : p.at = "sysroot"}}
    BY <1>1, <1>3, <1>4
  <2>2. InsideDisk(d)[Inside(path)] = InsideFile(d[[Inside(path) EXCEPT !.at = "sysroot"]])
    BY <2>1 DEF InsideDisk
  <2> QED
    BY <2>2, InsideFacts
<1> QED
  BY <1>3, <1>4

RootDisk(d) ==
  IsDisk(d) /\ \A path \in DOMAIN d : path.at = "sysroot" => MadeForRoot(d[path])

\* A file is the same inside, but for where a link leads.
LEMMA InsideFileFacts ==
  ASSUME NEW file \in Files
  PROVE  LET in == InsideFile(file)
         IN  /\ in.kind = file.kind /\ in.arch = file.arch /\ in.dynamic = file.dynamic
             /\ in.needed = file.needed /\ in.rpath = file.rpath
             /\ in.runpath = file.runpath /\ in.interp = file.interp
             /\ in.link = InsideAll(file.link)
BY DEF InsideFile, InsideAll, Files

\* A link leads to the same file.
LEMMA InsideFollow ==
  ASSUME NEW d, RootDisk(d), NEW paths \in SUBSET UnderRoot
  PROVE  /\ Follow(d, paths) \in SUBSET UnderRoot
         /\ Follow(InsideDisk(d), InsideAll(paths)) = InsideAll(Follow(d, paths))
<1> DEFINE One(x, p) == IF p \in DOMAIN x /\ x[p].kind = "link" THEN x[p].link ELSE {p}
<1>1. /\ Follow(d, paths) = UNION {One(d, p) : p \in paths}
      /\ Follow(InsideDisk(d), InsideAll(paths))
           = UNION {One(InsideDisk(d), p) : p \in InsideAll(paths)}
  BY DEF Follow
<1>2. ASSUME NEW p \in paths
      PROVE  /\ One(d, p) \in SUBSET UnderRoot
             /\ One(InsideDisk(d), Inside(p)) = InsideAll(One(d, p))
  <2>1. p \in UnderRoot /\ p.at = "sysroot" /\ IsDisk(d)
    BY DEF UnderRoot, RootDisk
  <2>2. CASE p \in DOMAIN d
    <3>1. d[p] \in Files /\ MadeForRoot(d[p])
      BY <2>1, <2>2 DEF RootDisk, IsDisk
    <3>2. d[p].link \in SUBSET UnderRoot
      BY <3>1 DEF MadeForRoot, UnderRoot, Files
    <3>3. /\ Inside(p) \in DOMAIN InsideDisk(d)
          /\ InsideDisk(d)[Inside(p)] = InsideFile(d[p])
      BY <2>1, <2>2, InsideDiskFacts
    <3>4. /\ InsideFile(d[p]).kind = d[p].kind
          /\ InsideFile(d[p]).link = InsideAll(d[p].link)
      BY <3>1, InsideFileFacts
    <3>5. InsideAll({p}) = {Inside(p)}
      BY DEF InsideAll
    <3> QED
      BY <2>1, <2>2, <3>2, <3>3, <3>4, <3>5
  <2>3. CASE p \notin DOMAIN d
    <3>1. Inside(p) \notin DOMAIN InsideDisk(d)
      BY <2>1, <2>3, InsideDiskFacts
    <3>2. InsideAll({p}) = {Inside(p)}
      BY DEF InsideAll
    <3> QED
      BY <2>1, <2>3, <3>1, <3>2
  <2> QED
    BY <2>2, <2>3
<1> HIDE DEF One
<1>3. Follow(d, paths) \in SUBSET UnderRoot
  BY <1>1, <1>2
<1>4. UNION {One(InsideDisk(d), p) : p \in InsideAll(paths)}
        = InsideAll(UNION {One(d, p) : p \in paths})
  BY <1>2 DEF InsideAll
<1> QED
  BY <1>1, <1>3, <1>4

\* What opens inside is what opens under the root.
LEMMA InsideOpened ==
  ASSUME NEW d, RootDisk(d), NEW path \in UnderRoot
  PROVE  /\ Opened(InsideDisk(d), Inside(path)) = {InsideFile(f) : f \in Opened(d, path)}
         /\ \A f \in Opened(d, path) : f \in Files /\ MadeForRoot(f)
<1> DEFINE in == InsideDisk(d)
           one == Follow(d, {path})
           two == Follow(d, one)
           real == Follow(d, two)
<1>1. {path} \in SUBSET UnderRoot /\ InsideAll({path}) = {Inside(path)}
  BY DEF InsideAll
<1>2. one \in SUBSET UnderRoot /\ Follow(in, {Inside(path)}) = InsideAll(one)
  BY <1>1, InsideFollow
<1> HIDE DEF one, in
<1>3. two \in SUBSET UnderRoot /\ Follow(in, InsideAll(one)) = InsideAll(two)
  BY <1>2, InsideFollow DEF in
<1> HIDE DEF two
<1>4. real \in SUBSET UnderRoot /\ Follow(in, InsideAll(two)) = InsideAll(real)
  BY <1>3, InsideFollow DEF in
<1>5. RealPath(d, path) = real
  BY DEF RealPath, real, two, one
<1>6. RealPath(in, Inside(path)) = InsideAll(real)
  BY <1>2, <1>3, <1>4 DEF RealPath
<1> HIDE DEF real
<1>7. /\ Opened(d, path) = {d[p] : p \in real \cap DOMAIN d}
      /\ Opened(in, Inside(path)) = {in[p] : p \in InsideAll(real) \cap DOMAIN in}
  BY <1>5, <1>6 DEF Opened
<1>8. \A p \in real : /\ Inside(p) \in DOMAIN in <=> p \in DOMAIN d
                      /\ p \in DOMAIN d => in[Inside(p)] = InsideFile(d[p])
  BY <1>4, InsideDiskFacts DEF RootDisk, in
<1>9. \A p \in real \cap DOMAIN d : d[p] \in Files /\ MadeForRoot(d[p])
  BY <1>4 DEF RootDisk, IsDisk, UnderRoot
<1>10. {in[p] : p \in InsideAll(real) \cap DOMAIN in}
         = {InsideFile(f) : f \in {d[p] : p \in real \cap DOMAIN d}}
  BY <1>8 DEF InsideAll
<1> QED
  BY <1>7, <1>9, <1>10 DEF in

\* A loader that was given its root, for which everything under it was made.
Rooted(o) ==
  /\ o \in Options /\ ~ o.cli /\ o.root = "sysroot"
  /\ \A dir \in Range(o.search_dirs) \cup Range(o.search_dirs_override) :
       dir.at = "sysroot"

RootDirs == {dir \in Dir : dir.at = "sysroot"}

\* The elements of two sequences put together.
LEMMA ConcatElements ==
  ASSUME NEW T, NEW s \in Seq(T), NEW t \in Seq(T)
  PROVE  /\ s \o t \in [1..(Len(s) + Len(t)) -> T]
         /\ \A i \in 1..(Len(s) + Len(t)) :
              (s \o t)[i] = IF i <= Len(s) THEN s[i] ELSE t[i - Len(s)]
<1>1. /\ s \o t \in Seq(T) /\ Len(s) \in Nat /\ Len(t) \in Nat
      /\ Len(s \o t) = Len(s) + Len(t)
      /\ \A i \in 1..Len(s) : (s \o t)[i] = s[i]
      /\ \A i \in 1..Len(t) : (s \o t)[Len(s) + i] = t[i]
  OBVIOUS
<1> DEFINE st == s \o t
           m == Len(s)
           n == Len(t)
<1>2. st \in Seq(T) /\ Len(st) = m + n /\ m \in Nat /\ n \in Nat
  BY <1>1
<1>3. \A i \in 1..m : st[i] = s[i]
  BY <1>1
<1>4. \A i \in 1..n : st[m + i] = t[i]
  BY <1>1
<1> HIDE DEF st, m, n
<1>5. st \in [1..(m + n) -> T]
  BY <1>2
<1>6. \A i \in 1..(m + n) : st[i] = IF i <= m THEN s[i] ELSE t[i - m]
  <2> TAKE i \in 1..(m + n)
  <2>1. CASE i <= m
    BY <1>2, <1>3, <2>1
  <2>2. CASE ~ (i <= m)
    <3>1. i - m \in 1..n /\ m + (i - m) = i
      BY <1>2, <2>2
    <3>2. st[m + (i - m)] = t[i - m]
      BY <1>4, <3>1
    <3> QED
      BY <2>2, <3>1, <3>2
  <2> QED
    BY <2>1, <2>2
<1> QED
  BY <1>5, <1>6 DEF st, m, n

\* Directories are called the same inside, however they are put together.
LEMMA InsideConcat ==
  ASSUME NEW s \in Seq(RootDirs), NEW t \in Seq(RootDirs)
  PROVE  /\ s \o t \in Seq(RootDirs)
         /\ InsideDirs(s \o t) = InsideDirs(s) \o InsideDirs(t)
<1>1. /\ Len(s) \in Nat /\ Len(t) \in Nat
      /\ DOMAIN s = 1..Len(s) /\ DOMAIN t = 1..Len(t)
      /\ s \o t \in Seq(RootDirs) /\ Len(s \o t) = Len(s) + Len(t)
      /\ DOMAIN (s \o t) = 1..(Len(s) + Len(t))
      /\ \A i \in 1..(Len(s) + Len(t)) :
           (s \o t)[i] = IF i <= Len(s) THEN s[i] ELSE t[i - Len(s)]
  OBVIOUS
<1> DEFINE a == InsideDirs(s)
           b == InsideDirs(t)
           c == InsideDirs(s \o t)
           All == {Inside(dir) : dir \in RootDirs}
<1>2. /\ a \in Seq(All) /\ Len(a) = Len(s) /\ \A i \in 1..Len(s) : a[i] = Inside(s[i])
      /\ b \in Seq(All) /\ Len(b) = Len(t) /\ \A i \in 1..Len(t) : b[i] = Inside(t[i])
  BY <1>1 DEF InsideDirs
<1>3. c = [i \in 1..(Len(s) + Len(t)) |-> Inside((s \o t)[i])]
  BY <1>1 DEF InsideDirs
<1> HIDE DEF a, b, c, All
<1> DEFINE n == Len(s) + Len(t)
<1>4. /\ a \o b \in [1..n -> All]
      /\ \A i \in 1..n : (a \o b)[i] = IF i <= Len(s) THEN a[i] ELSE b[i - Len(s)]
  <2>1. /\ a \o b \in [1..(Len(a) + Len(b)) -> All]
        /\ \A i \in 1..(Len(a) + Len(b)) :
             (a \o b)[i] = IF i <= Len(a) THEN a[i] ELSE b[i - Len(a)]
    BY ONLY <1>2, ConcatElements, Zenon
  <2> QED
    BY ONLY <1>2, <2>1, Zenon DEF n
<1>5. \A i \in 1..(Len(s) + Len(t)) :
        Inside((s \o t)[i]) = IF i <= Len(s) THEN a[i] ELSE b[i - Len(s)]
  <2> TAKE i \in 1..(Len(s) + Len(t))
  <2>1. CASE i <= Len(s)
    BY <1>1, <1>2, <2>1
  <2>2. CASE ~ (i <= Len(s))
    <3>1. i - Len(s) \in 1..Len(t)
      BY <1>1, <2>2
    <3> QED
      BY <1>1, <1>2, <2>2, <3>1
  <2> QED
    BY <2>1, <2>2
<1>6. c = a \o b
  <2>1. \A i \in 1..n : c[i] = (a \o b)[i]
    BY <1>3, <1>4, <1>5
  <2> QED
    BY <1>3, <1>4, <2>1
<1> QED
  BY <1>1, <1>6 DEF a, b, c

\* $ORIGIN and the directories of a file are the same places inside.
LEMMA InsideExpand ==
  ASSUME NEW o, Rooted(o), NEW file \in UnderRoot, NEW dir \in Dir, dir.at = "host"
  PROVE  /\ Expand(o, dir, file) \in RootDirs
         /\ Expand(InsideOptions(o), dir, Inside(file)) = Inside(Expand(o, dir, file))
<1>1. RootOf(o) = "sysroot" /\ ~ Under(o, dir)
  BY DEF RootOf, Under, Rooted
<1>2. RootOf(InsideOptions(o)) = "host" /\ Under(InsideOptions(o), dir)
  BY DEF RootOf, Under, Rooted, InsideOptions, Options
<1>3. CASE dir.place = "$ORIGIN"
  <2>1. ParentDir(file) \in RootDirs
    BY DEF ParentDir, UnderRoot, RootDirs, Path, Dir
  <2>2. ParentDir(Inside(file)) = Inside(ParentDir(file))
    BY DEF ParentDir, Inside, UnderRoot, Path
  <2> QED
    BY <1>3, <2>1, <2>2 DEF Expand
<1>4. CASE dir.place # "$ORIGIN"
  <2>1. Expand(o, dir, file) = [dir EXCEPT !.at = "sysroot"]
    BY <1>1, <1>4 DEF Expand
  <2>2. [dir EXCEPT !.at = "sysroot"] \in RootDirs
    BY DEF RootDirs, Dir, Starts
  <2>3. Inside([dir EXCEPT !.at = "sysroot"]) = dir
    BY DEF Inside, Dir
  <2>4. Expand(InsideOptions(o), dir, Inside(file)) = dir
    BY <1>2, <1>4 DEF Expand
  <2> QED
    BY <2>1, <2>2, <2>3, <2>4
<1> QED
  BY <1>3, <1>4

\* Inside the same directories are searched in the same order.
LEMMA InsideSearchDirs ==
  ASSUME NEW o, Rooted(o), NEW file \in UnderRoot, NEW elf \in Files, MadeForRoot(elf)
  PROVE  /\ SearchDirs(o, file, elf) \in Seq(RootDirs)
         /\ SearchDirs(InsideOptions(o), Inside(file), InsideFile(elf))
              = InsideDirs(SearchDirs(o, file, elf))
<1> DEFINE io == InsideOptions(o)
           in == InsideFile(elf)
           over == OverrideDirs(o, elf)
           dirs == ElfDirs(o, elf)
           own == [i \in DOMAIN dirs |-> Expand(o, dirs[i], file)]
           inOwn == [i \in DOMAIN dirs |-> Expand(io, dirs[i], Inside(file))]
           last == o.search_dirs
<1>1. /\ o.search_dirs \in Seq(Dir) /\ o.search_dirs_override \in Seq(Dir)
      /\ elf.rpath \in Seq(Dir) /\ elf.runpath \in Seq(Dir)
  BY DEF Rooted, Options, Files
<1>2. \A s \in Seq(Dir) : (\A dir \in Range(s) : dir.at = "sysroot") => s \in Seq(RootDirs)
  <2> TAKE s \in Seq(Dir)
  <2> HAVE \A dir \in Range(s) : dir.at = "sysroot"
  <2>1. \A i \in 1..Len(s) : s[i] \in RootDirs
    BY DEF Range, RootDirs
  <2> QED
    BY <2>1
<1>3. /\ last \in Seq(RootDirs) /\ o.search_dirs_override \in Seq(RootDirs)
  BY <1>1, <1>2 DEF Rooted
<1>4. /\ io.libc = o.libc /\ io.search_dirs = InsideDirs(last)
      /\ io.search_dirs_override = InsideDirs(o.search_dirs_override)
  BY DEF InsideOptions, Rooted, Options
<1>5. in.rpath = elf.rpath /\ in.runpath = elf.runpath
  BY InsideFileFacts
<1>6. over \in Seq(RootDirs) /\ OverrideDirs(io, in) = InsideDirs(over)
  <2>1. InsideDirs(<<>>) = <<>> /\ <<>> \in Seq(RootDirs)
    BY DEF InsideDirs
  <2> QED
    BY <1>3, <1>4, <1>5, <2>1 DEF OverrideDirs
<1>7. ElfDirs(io, in) = dirs /\ dirs \in Seq(Dir)
  BY <1>1, <1>4, <1>5 DEF ElfDirs
<1>8. \A i \in DOMAIN dirs : dirs[i] \in Dir /\ dirs[i].at = "host"
  <2>1. \A dir \in Range(elf.rpath) \cup Range(elf.runpath) : dir.at = "host"
    BY DEF MadeForRoot
  <2>2. \A i \in DOMAIN elf.rpath : elf.rpath[i].at = "host"
    BY <2>1 DEF Range
  <2>3. \A i \in DOMAIN elf.runpath : elf.runpath[i].at = "host"
    BY <2>1 DEF Range
  <2>4. \A i \in DOMAIN (elf.rpath \o elf.runpath) : (elf.rpath \o elf.runpath)[i].at = "host"
    <3>1. \A x \in Range(elf.rpath \o elf.runpath) : x \in Range(elf.rpath) \cup Range(elf.runpath)
      BY <1>1, AppendFacts
    <3> QED
      BY <2>1, <3>1 DEF Range
  <2>5. \A i \in DOMAIN dirs : dirs[i].at = "host"
    BY <2>2, <2>3, <2>4 DEF ElfDirs
  <2> HIDE DEF dirs
  <2> QED
    BY <1>7, <2>5
<1> HIDE DEF over, dirs, last, io, in
<1>9. own \in Seq(RootDirs) /\ inOwn = InsideDirs(own)
  <2>1. \A i \in DOMAIN dirs : /\ Expand(o, dirs[i], file) \in RootDirs
                               /\ Expand(io, dirs[i], Inside(file)) = Inside(Expand(o, dirs[i], file))
    BY <1>8, InsideExpand DEF io
  <2>2. DOMAIN dirs = 1..Len(dirs) /\ Len(dirs) \in Nat
    BY <1>7
  <2>3. own \in [1..Len(dirs) -> RootDirs]
    BY <2>1, <2>2
  <2> QED
    BY <2>1, <2>2, <2>3 DEF InsideDirs
<1>10. /\ SearchDirs(o, file, elf) = over \o own \o last
       /\ SearchDirs(io, Inside(file), in) = InsideDirs(over) \o inOwn \o InsideDirs(last)
  BY <1>4, <1>6, <1>7 DEF SearchDirs, over, dirs, last
<1> HIDE DEF own, inOwn
<1>11. /\ over \o own \in Seq(RootDirs)
       /\ InsideDirs(over \o own) = InsideDirs(over) \o inOwn
  BY <1>6, <1>9, InsideConcat
<1>12. /\ (over \o own) \o last \in Seq(RootDirs)
       /\ InsideDirs((over \o own) \o last) = InsideDirs(over \o own) \o InsideDirs(last)
  BY <1>3, <1>11, InsideConcat
<1> QED
  BY <1>10, <1>11, <1>12 DEF io, in

\* Inside the same library is found.
LEMMA InsideLookup ==
  ASSUME NEW d, RootDisk(d), NEW dirs \in Seq(RootDirs), NEW name \in Names,
         NEW elf \in Files
  PROVE  /\ Lookup(d, dirs, name, elf) \in SUBSET UnderRoot
         /\ Lookup(InsideDisk(d), InsideDirs(dirs), name, InsideFile(elf))
              = InsideAll(Lookup(d, dirs, name, elf))
<1> DEFINE in == InsideDisk(d)
           ind == InsideDirs(dirs)
           inelf == InsideFile(elf)
           Stops(x, s, e) == {i \in DOMAIN s : \/ Compatible(x, Join(s[i], name), e)
                                               \/ Malformed(x, Join(s[i], name))}
<1>1. \A i \in DOMAIN dirs :
        /\ Join(dirs[i], name) \in UnderRoot
        /\ Join(Inside(dirs[i]), name) = Inside(Join(dirs[i], name))
  <2> TAKE i \in DOMAIN dirs
  <2>1. dirs[i] \in RootDirs
    OBVIOUS
  <2> QED
    BY <2>1 DEF RootDirs, UnderRoot, Join, Inside, Dir, Path
<1>2. DOMAIN ind = DOMAIN dirs /\ \A i \in DOMAIN dirs : ind[i] = Inside(dirs[i])
  BY DEF InsideDirs
<1>3. \A path \in UnderRoot :
        /\ Compatible(in, Inside(path), inelf) <=> Compatible(d, path, elf)
        /\ Malformed(in, Inside(path)) <=> Malformed(d, path)
  <2> TAKE path \in UnderRoot
  <2>1. /\ Opened(in, Inside(path)) = {InsideFile(f) : f \in Opened(d, path)}
        /\ \A f \in Opened(d, path) : f \in Files
    BY InsideOpened
  <2>2. \A f \in Opened(d, path) : /\ InsideFile(f).kind = f.kind
                                   /\ InsideFile(f).arch = f.arch
    BY <2>1, InsideFileFacts
  <2>3. inelf.arch = elf.arch
    BY InsideFileFacts
  <2> HIDE DEF in, inelf
  <2> QED
    BY <2>1, <2>2, <2>3 DEF Compatible, Malformed
<1> HIDE DEF in, ind, inelf
<1>4. Stops(in, ind, inelf) = Stops(d, dirs, elf)
  BY <1>1, <1>2, <1>3
<1>5. /\ Lookup(d, dirs, name, elf)
           = {Join(dirs[i], name) : i \in {i \in Stops(d, dirs, elf) :
                                             \A j \in Stops(d, dirs, elf) : i <= j}}
      /\ Lookup(in, ind, name, inelf)
           = {Join(ind[i], name) : i \in {i \in Stops(in, ind, inelf) :
                                            \A j \in Stops(in, ind, inelf) : i <= j}}
  BY Zenon DEF Lookup
<1>6. Stops(d, dirs, elf) \subseteq DOMAIN dirs
  OBVIOUS
<1> HIDE DEF Stops
<1> DEFINE firsts == {i \in Stops(d, dirs, elf) : \A j \in Stops(d, dirs, elf) : i <= j}
<1>7. /\ Lookup(d, dirs, name, elf) = {Join(dirs[i], name) : i \in firsts}
      /\ Lookup(in, ind, name, inelf) = {Join(ind[i], name) : i \in firsts}
      /\ firsts \subseteq DOMAIN dirs
  BY <1>4, <1>5, <1>6
<1> HIDE DEF firsts
<1>8. {Join(ind[i], name) : i \in firsts} = InsideAll({Join(dirs[i], name) : i \in firsts})
  BY <1>1, <1>2, <1>7 DEF InsideAll
<1> QED
  BY <1>1, <1>7, <1>8 DEF in, ind, inelf

\* The path that is opened for what a file needs, as it is called inside.
View(o, paths) == {Inside(Rebase(o, path)) : path \in paths}

\* Inside a file needs what it needs under the root.
LEMMA InsideNeeded ==
  ASSUME NEW d, RootDisk(d), NEW o, Rooted(o), NEW file \in UnderRoot,
         NEW elf \in Files, MadeForRoot(elf)
  PROVE  /\ Needed(d, o, file, elf) \ elf.interp \subseteq UnderRoot
         /\ Needed(InsideDisk(d), InsideOptions(o), Inside(file), InsideFile(elf))
              = View(o, Needed(d, o, file, elf))
<1> DEFINE in == InsideFile(elf)
           dirs == SearchDirs(o, file, elf)
           Found(name) == Lookup(d, dirs, name, elf)
           InFound(name) == Lookup(InsideDisk(d), InsideDirs(dirs), name, in)
<1>1. /\ dirs \in Seq(RootDirs)
      /\ SearchDirs(InsideOptions(o), Inside(file), in) = InsideDirs(dirs)
  BY InsideSearchDirs
<1>2. in.needed = elf.needed /\ in.interp = elf.interp /\ elf.needed \subseteq Names
      /\ elf.interp \subseteq Path
  BY InsideFileFacts DEF Files
<1>3. \A path \in UnderRoot : Inside(Rebase(o, path)) = Inside(path)
  BY DEF Rebase, Under, RootOf, Rooted, UnderRoot
<1>4. \A path \in elf.interp : Inside(Rebase(o, path)) = path
  <2> TAKE path \in elf.interp
  <2>1. path \in Path /\ path.at = "host"
    BY <1>2 DEF MadeForRoot
  <2>2. Rebase(o, path) = [path EXCEPT !.at = "sysroot"]
    BY <2>1 DEF Rebase, Under, RootOf, Rooted
  <2> QED
    BY <2>1, <2>2 DEF Inside, Path
<1>5. /\ Needed(d, o, file, elf) = elf.interp \cup UNION {Found(name) : name \in elf.needed}
      /\ Needed(InsideDisk(d), InsideOptions(o), Inside(file), in)
           = elf.interp \cup UNION {InFound(name) : name \in elf.needed}
  <2>1. Needed(d, o, file, elf) = elf.interp \cup UNION {Found(name) : name \in elf.needed}
    BY Zenon DEF Needed
  <2> HIDE DEF in, dirs
  <2>2. Needed(InsideDisk(d), InsideOptions(o), Inside(file), in)
          = in.interp \cup UNION {InFound(name) : name \in in.needed}
    BY <1>1, Zenon DEF Needed
  <2> QED
    BY <1>2, <2>1, <2>2
<1> HIDE DEF dirs
<1>6. \A name \in elf.needed : Found(name) \subseteq UnderRoot
                               /\ InFound(name) = InsideAll(Found(name))
  BY <1>1, <1>2, InsideLookup
<1> HIDE DEF Found, InFound
<1>7. \A name \in elf.needed : InFound(name) = View(o, Found(name))
  BY <1>3, <1>6 DEF View, InsideAll
<1>8. View(o, elf.interp) = elf.interp
  BY <1>4 DEF View
<1>9. View(o, elf.interp \cup UNION {Found(name) : name \in elf.needed})
        = View(o, elf.interp) \cup UNION {View(o, Found(name)) : name \in elf.needed}
  BY DEF View
<1>10. UNION {InFound(name) : name \in elf.needed}
         = UNION {View(o, Found(name)) : name \in elf.needed}
  BY <1>7
<1>11. Needed(InsideDisk(d), InsideOptions(o), Inside(file), in)
         = View(o, Needed(d, o, file, elf))
  BY <1>5, <1>8, <1>9, <1>10
<1>12. Needed(d, o, file, elf) \ elf.interp \subseteq UnderRoot
  BY <1>5, <1>6
<1> QED
  BY <1>11, <1>12

\* Inside a path depends on what it depends on under the root.
LEMMA InsideDependencies ==
  ASSUME NEW d, RootDisk(d), NEW o, Rooted(o), NEW file \in UnderRoot
  PROVE  /\ Dependencies(InsideDisk(d), InsideOptions(o), Inside(file))
              = View(o, Dependencies(d, o, file))
         /\ \A dep \in Dependencies(d, o, file) :
              \/ dep.at = "sysroot"
              \/ \E elf \in Opened(d, file) : dep \in elf.interp
<1> DEFINE Here(elf) == Needed(d, o, file, elf)
           There(elf) == Needed(InsideDisk(d), InsideOptions(o), Inside(file), elf)
           dynamic == {elf \in Opened(d, file) : elf.dynamic}
<1>1. /\ Opened(InsideDisk(d), Inside(file)) = {InsideFile(f) : f \in Opened(d, file)}
      /\ \A elf \in Opened(d, file) : elf \in Files /\ MadeForRoot(elf)
  BY InsideOpened
<1>2. \A elf \in Opened(d, file) : /\ There(InsideFile(elf)) = View(o, Here(elf))
                                   /\ Here(elf) \ elf.interp \subseteq UnderRoot
                                   /\ InsideFile(elf).dynamic = elf.dynamic
  BY <1>1, InsideNeeded, InsideFileFacts
<1>3. /\ Dependencies(d, o, file) = UNION {Here(elf) : elf \in dynamic}
      /\ Dependencies(InsideDisk(d), InsideOptions(o), Inside(file))
           = UNION {There(elf) : elf \in {e \in Opened(InsideDisk(d), Inside(file)) : e.dynamic}}
  BY Zenon DEF Dependencies
<1> HIDE DEF Here, There
<1>4. {e \in Opened(InsideDisk(d), Inside(file)) : e.dynamic} = {InsideFile(f) : f \in dynamic}
  BY <1>1, <1>2
<1>5. UNION {There(elf) : elf \in {InsideFile(f) : f \in dynamic}}
        = UNION {View(o, Here(elf)) : elf \in dynamic}
  BY <1>2
<1>6. View(o, UNION {Here(elf) : elf \in dynamic}) = UNION {View(o, Here(elf)) : elf \in dynamic}
  BY DEF View
<1>7. \A dep \in UNION {Here(elf) : elf \in dynamic} :
        \/ dep.at = "sysroot"
        \/ \E elf \in Opened(d, file) : dep \in elf.interp
  BY <1>2 DEF UnderRoot
<1> QED
  BY <1>3, <1>4, <1>5, <1>6, <1>7

\* A loader that was given a root finds for every file of the tree what a loader
\* of the root alone would find, and takes no library from elsewhere, for every
\* disk, search directories and arguments; the commands never pass theirs on.
THEOREM RootIsWholeDiskCorrect == Spec => [](~ options.cli => RootIsWholeDisk)
<1>1. IInv => (~ options.cli => RootIsWholeDisk)
  <2> SUFFICES ASSUME IInv, ~ options.cli, options.root = "sysroot", RootIsApart,
                      NEW path \in DOMAIN tree
               PROVE  /\ View(options, tree[path])
                           = Dependencies(InsideDisk(disk), InsideOptions(options), Inside(path))
                      /\ \A dep \in tree[path] :
                           \/ dep.at = "sysroot"
                           \/ \E file \in Opened(disk, path) : dep \in file.interp
    BY DEF RootIsWholeDisk, View
  <2>1. /\ path \in Path /\ Rebase(options, path) = path
        /\ RootOf(options) = "sysroot" /\ IsDisk(disk) /\ options \in Options
        /\ tree[path] = Dependencies(disk, options, path)
    BY DEF IInv, TypeOK, RootOf
  <2>2. path \in UnderRoot
    <3>1. CASE Under(options, path)
      BY <2>1, <3>1 DEF Under, UnderRoot
    <3>2. CASE ~ Under(options, path)
      <4>1. path = [path EXCEPT !.at = "sysroot"]
        BY <2>1, <3>2 DEF Rebase
      <4>2. [path EXCEPT !.at = "sysroot"].at = "sysroot"
        BY <2>1 DEF Path
      <4>3. path.at = "sysroot"
        BY <4>1, <4>2, Zenon
      <4> QED
        BY <2>1, <4>3 DEF UnderRoot
    <3> QED
      BY <3>1, <3>2
  <2>3. RootDisk(disk) /\ Rooted(options)
    BY <2>1 DEF RootDisk, Rooted, RootIsApart
  <2> QED
    BY <2>1, <2>2, <2>3, InsideDependencies
<1> QED
  BY <1>1, LoaderInvariant, PTL

-----------------------------------------------------------------------------
(* Disks that do not lead elsewhere *)

\* With the root of the host only a relative path is given another start.
LEMMA RebaseAbsolute ==
  ASSUME NEW o, o.cli, NEW path, path.at # "cwd"
  PROVE  Rebase(o, path) = path
BY DEF Rebase, Under, RootOf

\* A path that starts in A leads to no other.
LEMMA RealPathStays ==
  ASSUME NEW A, NEW d,
         \A p \in DOMAIN d \cap PathsAt(A) : d[p] \in FilesAt(A),
         NEW path \in PathsAt(A)
  PROVE  RealPath(d, path) \subseteq PathsAt(A)
<1>1. ASSUME NEW S, S \subseteq PathsAt(A) PROVE Follow(d, S) \subseteq PathsAt(A)
  <2> SUFFICES ASSUME NEW p \in S
               PROVE  (IF p \in DOMAIN d /\ d[p].kind = "link" THEN d[p].link ELSE {p})
                        \subseteq PathsAt(A)
    BY DEF Follow
  <2>1. p \in PathsAt(A)
    BY <1>1
  <2>2. p \in DOMAIN d => d[p].link \subseteq PathsAt(A)
    BY <2>1 DEF FilesAt
  <2> QED
    BY <2>1, <2>2
<1>2. {path} \subseteq PathsAt(A)
  OBVIOUS
<1>3. Follow(d, {path}) \subseteq PathsAt(A)
  BY <1>1, <1>2
<1>4. Follow(d, Follow(d, {path})) \subseteq PathsAt(A)
  BY <1>1, <1>3
<1> QED
  BY <1>1, <1>4 DEF RealPath

\* The directories that are searched for a file of A are in A.
LEMMA SearchDirsStay ==
  ASSUME NEW A, NEW o, o.cli, "cwd" \notin A,
         o.search_dirs \in Seq(DirsAt(A)), o.search_dirs_override \in Seq(DirsAt(A)),
         NEW file \in PathsAt(A), NEW elf \in FilesAt(A)
  PROVE  SearchDirs(o, file, elf) \in Seq(DirsAt(A))
<1>1. elf.rpath \in Seq(DirsAt(A)) /\ elf.runpath \in Seq(DirsAt(A))
  BY DEF FilesAt
<1>2. <<>> \in Seq(DirsAt(A))
  OBVIOUS
<1>3. OverrideDirs(o, elf) \in Seq(DirsAt(A))
  BY <1>2 DEF OverrideDirs
<1>4. elf.rpath \o elf.runpath \in Seq(DirsAt(A))
  BY <1>1
<1>5. ElfDirs(o, elf) \in Seq(DirsAt(A))
  BY <1>1, <1>4 DEF ElfDirs
<1>6. ASSUME NEW dir \in DirsAt(A) PROVE Expand(o, dir, file) \in DirsAt(A)
  <2>1. ParentDir(file) \in DirsAt(A)
    BY DEF ParentDir, PathsAt, DirsAt, Path, Dir
  <2>2. Under(o, dir)
    BY DEF Under, RootOf, DirsAt
  <2> QED
    BY <2>1, <2>2 DEF Expand
<1> DEFINE dirs == ElfDirs(o, elf)
           expanded == [i \in DOMAIN dirs |-> Expand(o, dirs[i], file)]
<1>7. expanded \in Seq(DirsAt(A))
  <2> SUFFICES ASSUME NEW d \in Seq(DirsAt(A)), d = dirs
               PROVE  [i \in DOMAIN d |-> Expand(o, d[i], file)] \in Seq(DirsAt(A))
    BY <1>5
  <2>1. Len(d) \in Nat /\ DOMAIN d = 1..Len(d) /\ \A i \in DOMAIN d : d[i] \in DirsAt(A)
    OBVIOUS
  <2>2. [i \in DOMAIN d |-> Expand(o, d[i], file)] \in [1..Len(d) -> DirsAt(A)]
    BY <1>6, <2>1
  <2> QED
    BY <2>1, <2>2
<1>8. SearchDirs(o, file, elf) = OverrideDirs(o, elf) \o expanded \o o.search_dirs
  BY DEF SearchDirs
<1> HIDE DEF expanded
<1> QED
  BY <1>3, <1>7, <1>8, AppendFacts

\* What a file of A needs is in A, and found there.
LEMMA DependenciesStay ==
  ASSUME NEW A, "cwd" \notin A, Confined(A), NEW file \in PathsAt(A)
  PROVE  Dependencies(disk, options, file) \subseteq PathsAt(A)
<1>1. ASSUME NEW elf \in Opened(disk, file) PROVE elf \in FilesAt(A)
  <2>1. RealPath(disk, file) \subseteq PathsAt(A)
    BY RealPathStays DEF Confined
  <2> QED
    BY <1>1, <2>1 DEF Opened, Confined
<1>2. ASSUME NEW elf \in FilesAt(A), NEW name \in elf.needed
      PROVE  Lookup(disk, SearchDirs(options, file, elf), name, elf) \subseteq PathsAt(A)
  <2>1. name \in Names
    BY <1>2 DEF FilesAt, Files
  <2>2. SearchDirs(options, file, elf) \in Seq(DirsAt(A))
    BY <1>2, SearchDirsStay DEF Confined
  <2>3. PICK dirs \in Seq(DirsAt(A)) : dirs = SearchDirs(options, file, elf)
    BY <2>2
  <2>4. ASSUME NEW i \in DOMAIN dirs PROVE Join(dirs[i], name) \in PathsAt(A)
    <3>1. dirs[i] \in DirsAt(A)
      BY <2>4
    <3> QED
      BY <2>1, <3>1 DEF Join, DirsAt, PathsAt, Dir, Path
  <2> QED
    BY <2>3, <2>4 DEF Lookup
<1>3. ASSUME NEW elf \in FilesAt(A)
      PROVE  Needed(disk, options, file, elf) \subseteq PathsAt(A)
  <2>1. elf.interp \subseteq PathsAt(A)
    BY <1>3 DEF FilesAt
  <2> DEFINE libs == UNION {Lookup(disk, SearchDirs(options, file, elf), name, elf) :
                              name \in elf.needed}
  <2>2. libs \subseteq PathsAt(A)
    BY <1>2, <1>3
  <2>3. Needed(disk, options, file, elf) = elf.interp \cup libs
    BY Zenon DEF Needed
  <2> HIDE DEF libs
  <2> QED
    BY <2>1, <2>2, <2>3
<1> QED
  BY <1>1, <1>3 DEF Dependencies

\* In A nothing is rebased: every dependency that the tree names is one of its
\* dependents, and it has what the arguments lead to and no more.
LEMMA ConfinedTree ==
  ASSUME IInv, queue = <<>>, NEW A, "cwd" \notin A, Confined(A),
         Range(files) \subseteq PathsAt(A)
  PROVE  /\ DOMAIN tree \subseteq PathsAt(A)
         /\ Range(files) \subseteq DOMAIN tree
         /\ \A path \in DOMAIN tree : tree[path] \subseteq DOMAIN tree
         /\ DOMAIN tree \subseteq Range(files) \cup UNION {tree[path] : path \in DOMAIN tree}
<1>1. \A path \in PathsAt(A) : path.at # "cwd" /\ path \in Path
  BY DEF PathsAt
<1>2. \A path \in PathsAt(A) : Rebase(options, path) = path
  BY <1>1, RebaseAbsolute DEF Confined
<1>3. Arguments = Range(files)
  BY <1>2 DEF Arguments
<1>4. \A path \in PathsAt(A) : Dependencies(disk, options, path) \subseteq PathsAt(A)
  BY DependenciesStay
<1>5. Closed(PathsAt(A))
  BY <1>2, <1>4 DEF Closed
<1>6. PathsAt(A) \in SUBSET Path
  BY DEF PathsAt
<1>7. DOMAIN tree \subseteq PathsAt(A)
  BY <1>3, <1>5, <1>6 DEF IInv, Bounded
<1>8. \A path : Handled(path) => path \in DOMAIN tree
  BY DEF Handled, Range
<1>9. Range(files) \subseteq DOMAIN tree
  BY <1>3, <1>8 DEF IInv
<1>10. \A path \in DOMAIN tree : tree[path] = Dependencies(disk, options, path)
  BY DEF IInv
<1>11. ASSUME NEW path \in DOMAIN tree PROVE tree[path] \subseteq DOMAIN tree
  <2> SUFFICES ASSUME NEW dep \in tree[path] PROVE dep \in DOMAIN tree
    OBVIOUS
  <2>1. dep \in Dependencies(disk, options, path)
    BY <1>10
  <2>2. Rebase(options, dep) = dep
    BY <1>2, <1>4, <1>7, <2>1
  <2> QED
    BY <1>8, <2>1, <2>2 DEF IInv
<1> DEFINE S == Range(files) \cup UNION {tree[path] : path \in DOMAIN tree}
<1>12. S \subseteq DOMAIN tree
  BY <1>9, <1>11
<1>13. Closed(S)
  <2> SUFFICES ASSUME NEW path \in S, NEW dep \in Dependencies(disk, options, path)
               PROVE  Rebase(options, dep) \in S
    BY DEF Closed
  <2>1. path \in DOMAIN tree /\ dep \in tree[path]
    BY <1>10, <1>12
  <2>2. dep \in S /\ dep \in PathsAt(A)
    BY <1>4, <1>7, <2>1
  <2> QED
    BY <1>2, <2>2
<1>14. S \in SUBSET Path /\ Arguments \subseteq S
  BY <1>3, <1>6, <1>7, <1>12
<1>15. DOMAIN tree \subseteq S
  BY <1>13, <1>14 DEF IInv, Bounded
<1> QED
  BY <1>7, <1>9, <1>11, <1>15

-----------------------------------------------------------------------------
(* What elb deps prints *)

\* A path that is still to be printed at the top, and the tree below it; and the
\* calls of print_tree.
Jobs == [top : DOMAIN tree, in : {tree} \cup {Single(path) : path \in DOMAIN tree}]
CallsOn(paths) == [path : paths, left : SUBSET paths]
Calls == CallsOn(DOMAIN tree)

\* The tree of depth one of each path, or the whole tree.
JobsInv ==
  /\ rest \in Seq(Jobs)
  /\ \A j \in DOMAIN rest :
       rest[j].in = IF format = "tree" THEN tree ELSE Single(rest[j].top)

CallsInv ==
  /\ stack \in Seq(Calls)
  /\ stack # <<>> => rest # <<>>
  /\ \A k \in DOMAIN stack : stack[k].left \subseteq tree[stack[k].path]

\* The first of the rest is being printed as long as there is a call.
Pending(path) == \E j \in DOMAIN rest : rest[j].top = path /\ (j > 1 \/ stack = <<>>)

\* Each dependency was printed, or a call will print it.
Covered(path) ==
  \A dep \in tree[path] :
    \/ dep \in printed
    \/ \E k \in DOMAIN stack : stack[k].path = path /\ dep \in stack[k].left

AtTop == IF format = "tree" THEN Range(files) ELSE DOMAIN tree
Expanded(path) == IF format = "tree" THEN path \in printed ELSE ~ Pending(path)

PrintedInv ==
  /\ printed \subseteq DOMAIN tree
  /\ \A path \in AtTop : path \in printed \/ Pending(path)
  /\ \A path \in DOMAIN tree : Expanded(path) => Covered(path)

ShownInv ==
  /\ format = "list" => rest = <<>> /\ stack = <<>> /\ printed = List
  /\ format # "list" => JobsInv /\ CallsInv /\ PrintedInv

DInv ==
  /\ IInv
  /\ format \in {"list", "tree", "table_tree"}
  /\ status # "done" => rest = <<>> /\ stack = <<>>
  /\ status = "done" /\ Absolute => ShownInv

\* What the tree has when it is shown.
LEMMA AbsoluteTree ==
  ASSUME IInv, queue = <<>>, Absolute
  PROVE  /\ Range(files) \subseteq DOMAIN tree
         /\ \A path \in DOMAIN tree : tree[path] \subseteq DOMAIN tree
         /\ DOMAIN tree \subseteq Range(files) \cup UNION {tree[path] : path \in DOMAIN tree}
BY ConfinedTree DEF Absolute

\* Sequences as functions, and what is known of one with an element.
LEMMA FunctionIsSeq ==
  ASSUME NEW T, NEW n \in Nat, NEW u \in [1..n -> T]
  PROVE  u \in Seq(T) /\ Len(u) = n
OBVIOUS

\* A sequence without elements.
LEMMA EmptyOrNot ==
  ASSUME NEW T, NEW s \in Seq(T)
  PROVE  s = <<>> <=> Len(s) = 0
OBVIOUS

\* One element more.
LEMMA AppendOne ==
  ASSUME NEW T, NEW u \in Seq(T), NEW new \in T
  PROVE  /\ Append(u, new) \in Seq(T)
         /\ DOMAIN Append(u, new) = 1..(Len(u) + 1)
         /\ Append(u, new)[Len(u) + 1] = new
         /\ \A k \in 1..Len(u) : Append(u, new)[k] = u[k]
OBVIOUS

\* The last element is one.
LEMMA NotEmpty ==
  ASSUME NEW T, NEW s \in Seq(T), s # <<>>
  PROVE  /\ Len(s) \in Nat /\ Len(s) >= 1 /\ DOMAIN s = 1..Len(s)
         /\ \A k \in DOMAIN s : s[k] \in T
OBVIOUS

\* The child is taken from the last call, and a call is made for it.
WithCall(s, c, new) == Append([s EXCEPT ![Len(s)].left = @ \ {c}], new)

\* The other calls stay as they are.
LEMMA CallFacts ==
  ASSUME NEW P, NEW s \in Seq(CallsOn(P)), s # <<>>, NEW c,
         NEW new \in CallsOn(P),
         NEW t, t = WithCall(s, c, new)
  PROVE  /\ t \in Seq(CallsOn(P))
         /\ Len(s) \in DOMAIN s /\ DOMAIN s \subseteq DOMAIN t
         /\ Len(s) + 1 \in DOMAIN t /\ t[Len(s) + 1] = new
         /\ \A k \in DOMAIN t : k \in DOMAIN s \/ k = Len(s) + 1
         /\ \A k \in DOMAIN s : k # Len(s) => t[k] = s[k]
         /\ t[Len(s)].path = s[Len(s)].path
         /\ t[Len(s)].left = s[Len(s)].left \ {c}
<1> DEFINE F == CallsOn(P)
           u == [s EXCEPT ![Len(s)].left = @ \ {c}]
<1>1. /\ Len(s) \in Nat /\ Len(s) >= 1 /\ DOMAIN s = 1..Len(s)
      /\ \A k \in DOMAIN s : s[k] \in F
  BY NotEmpty
<1>2. u = [k \in 1..Len(s) |-> IF k = Len(s) THEN [s[k] EXCEPT !.left = @ \ {c}] ELSE s[k]]
  BY <1>1
<1>3. \A x \in F : /\ [x EXCEPT !.left = @ \ {c}] \in F
                   /\ [x EXCEPT !.left = @ \ {c}].path = x.path
                   /\ [x EXCEPT !.left = @ \ {c}].left = x.left \ {c}
  BY DEF CallsOn
<1>4. u \in [1..Len(s) -> F]
  BY <1>1, <1>2, <1>3
<1>5. new \in F /\ t = Append(u, new)
  BY DEF WithCall
<1>6. /\ \A k \in 1..Len(s) : k # Len(s) => u[k] = s[k]
      /\ u[Len(s)].path = s[Len(s)].path
      /\ u[Len(s)].left = s[Len(s)].left \ {c}
  BY <1>1, <1>2, <1>3
<1> HIDE DEF u, F
<1>7. u \in Seq(F) /\ Len(u) = Len(s)
  BY ONLY <1>1, <1>4, FunctionIsSeq
<1>8. /\ t \in Seq(F) /\ DOMAIN t = 1..(Len(s) + 1)
      /\ t[Len(s) + 1] = new
      /\ \A k \in 1..Len(s) : t[k] = u[k]
  BY ONLY <1>5, <1>7, AppendOne
<1>9. t \in Seq(CallsOn(P))
  BY <1>8 DEF F
<1>10. /\ Len(s) \in DOMAIN s /\ DOMAIN s \subseteq DOMAIN t
       /\ Len(s) + 1 \in DOMAIN t /\ t[Len(s) + 1] = new
       /\ \A k \in DOMAIN t : k \in DOMAIN s \/ k = Len(s) + 1
  BY ONLY <1>1, <1>8
<1>11. \A k \in DOMAIN s : k # Len(s) => t[k] = s[k]
  BY ONLY <1>1, <1>6, <1>8
<1>12. t[Len(s)] = u[Len(s)]
  BY ONLY <1>1, <1>8
<1>13. /\ t[Len(s)].path = s[Len(s)].path
       /\ t[Len(s)].left = s[Len(s)].left \ {c}
  BY ONLY <1>6, <1>12, Zenon
<1> QED
  BY ONLY <1>9, <1>10, <1>11, <1>13

\* A call that returns is the last one.
LEMMA ReturnFacts ==
  ASSUME NEW T, NEW s \in Seq(T), s # <<>>
  PROVE  /\ SubSeq(s, 1, Len(s) - 1) \in Seq(T)
         /\ Len(s) \in DOMAIN s /\ DOMAIN s = 1..Len(s) /\ Len(s) \in Nat
         /\ DOMAIN SubSeq(s, 1, Len(s) - 1) = 1..(Len(s) - 1)
         /\ \A k \in 1..(Len(s) - 1) : SubSeq(s, 1, Len(s) - 1)[k] = s[k]
         /\ SubSeq(s, 1, Len(s) - 1) = <<>> <=> Len(s) = 1
<1>1. /\ Len(s) \in Nat /\ Len(s) >= 1 /\ DOMAIN s = 1..Len(s)
  BY NotEmpty
<1> DEFINE t == SubSeq(s, 1, Len(s) - 1)
<1>2. t \in Seq(T) /\ Len(t) = Len(s) - 1 /\ \A k \in 1..(Len(s) - 1) : t[k] = s[k]
  BY <1>1
<1>3. t = <<>> <=> Len(t) = 0
  BY ONLY <1>2, EmptyOrNot
<1>4. DOMAIN t = 1..Len(t)
  BY <1>2
<1> QED
  BY <1>1, <1>2, <1>3, <1>4

\* The next path to print at the top.
LEMMA RestFacts ==
  ASSUME NEW T, NEW s \in Seq(T), s # <<>>
  PROVE  /\ 1 \in DOMAIN s /\ Head(s) = s[1] /\ s[1] \in T
         /\ Tail(s) \in Seq(T)
         /\ DOMAIN s = 1..Len(s) /\ Len(s) \in Nat
         /\ DOMAIN Tail(s) = 1..(Len(s) - 1)
         /\ \A j \in DOMAIN Tail(s) : Tail(s)[j] = s[j + 1]
OBVIOUS

\* A path has the children in the tree that it is printed with.
LEMMA ChildrenFacts ==
  ASSUME JobsInv, rest # <<>>, NEW path \in DOMAIN tree
  PROVE  /\ Children(Head(rest).in, path) \subseteq tree[path]
         /\ format = "tree" \/ path = Head(rest).top
              => Children(Head(rest).in, path) = tree[path]
<1>1. rest \in Seq(Jobs)
  BY DEF JobsInv
<1>2. 1 \in DOMAIN rest /\ Head(rest) = rest[1]
  BY <1>1, RestFacts
<1>3. Head(rest).in = IF format = "tree" THEN tree ELSE Single(Head(rest).top)
  BY <1>2 DEF JobsInv
<1> QED
  BY <1>3 DEF Children, Single

\* Nothing was printed when the loops begin, and everything is pending.
LEMMA ShowDInv == ASSUME DInv, Show PROVE DInv'
<1>1. /\ status = "resolving" /\ queue = <<>> /\ status' = "done"
      /\ UNCHANGED <<disk, options, files, queue, tree, format, stack>>
  BY DEF Show, Finish
<1>2. IInv'
  BY NextIInv DEF DInv, Show, Next
<1>3. stack = <<>>
  BY <1>1 DEF DInv
<1>4. ASSUME Absolute PROVE ShownInv'
  <2>1. /\ Range(files) \subseteq DOMAIN tree
        /\ \A path \in DOMAIN tree : tree[path] \subseteq DOMAIN tree
    BY <1>1, <1>4, AbsoluteTree DEF DInv
  <2>4. Jobs' = Jobs /\ \A path : Single(path)' = Single(path)
    <3>1. \A path : Single(path)' = Single(path)
      BY <1>1 DEF Single
    <3> QED
      BY <1>1, <3>1 DEF Jobs
  <2>2. CASE format = "list"
    <3>1. rest' = <<>> /\ printed' = List
      BY <2>2 DEF Show
    <3> QED
      BY <1>1, <1>3, <2>2, <3>1 DEF ShownInv, List
  <2>3. CASE format # "list"
    <3>1. printed' = {}
      BY <2>3 DEF Show
    <3>2. JobsInv' /\ \A path \in AtTop' : \E j \in DOMAIN rest' : rest'[j].top = path
      <4>1. CASE format = "tree"
        <5>1. rest' = [i \in DOMAIN files |-> [top |-> files[i], in |-> tree]]
          BY <4>1 DEF Show
        <5>2. files \in Seq(Path)
          BY DEF DInv, IInv, TypeOK
        <5>3. DOMAIN files = 1..Len(files) /\ Len(files) \in Nat
          BY <5>2
        <5>4. \A i \in DOMAIN files : files[i] \in DOMAIN tree
          BY <2>1 DEF Range
        <5>5. rest' \in [1..Len(files) -> Jobs]
          BY <5>1, <5>3, <5>4 DEF Jobs
        <5>6. rest' \in Seq(Jobs')
          BY <2>4, <5>3, <5>5, FunctionIsSeq
        <5>7. \A j \in DOMAIN rest' : rest'[j].in = tree /\ rest'[j].top = files[j]
          BY <5>1
        <5>8. \A path \in Range(files) : \E j \in DOMAIN rest' : rest'[j].top = path
          BY <5>1, <5>7 DEF Range
        <5> QED
          BY <1>1, <4>1, <5>6, <5>7, <5>8 DEF JobsInv, AtTop
      <4>2. CASE format # "tree"
        <5>1. format = "table_tree"
          BY <2>3, <4>2 DEF DInv
        <5>2. PICK paths \in Orders(DOMAIN tree) :
                rest' = [i \in DOMAIN paths |->
                           [top |-> paths[i], in |-> Single(paths[i])]]
          BY <5>1 DEF Show
        <5>3. DOMAIN tree \in SUBSET Path
          BY DEF DInv, IInv, TypeOK
        <5>4. paths \in Seq(Path) /\ Range(paths) = DOMAIN tree
          BY <5>3, OrdersFacts
        <5>5. DOMAIN paths = 1..Len(paths) /\ Len(paths) \in Nat
          BY <5>4
        <5>6. \A i \in DOMAIN paths : paths[i] \in DOMAIN tree
          BY <5>4 DEF Range
        <5>7. rest' \in [1..Len(paths) -> Jobs]
          BY <5>2, <5>5, <5>6 DEF Jobs
        <5>8. rest' \in Seq(Jobs')
          BY <2>4, <5>5, <5>7, FunctionIsSeq
        <5>9. \A j \in DOMAIN rest' : /\ rest'[j].in = Single(rest'[j].top)
                                      /\ rest'[j].top = paths[j]
          BY <5>2
        <5>10. \A path \in DOMAIN tree : \E j \in DOMAIN rest' : rest'[j].top = path
          BY <5>2, <5>4, <5>9 DEF Range
        <5> QED
          BY <1>1, <4>2, <2>4, <5>8, <5>9, <5>10 DEF JobsInv, AtTop
      <4> QED
        BY <4>1, <4>2
    <3>3. CallsInv'
      <4>1. <<>> \in Seq(Calls')
        OBVIOUS
      <4> QED
        BY <1>1, <1>3, <4>1 DEF CallsInv
    <3>4. \A path \in AtTop' : Pending(path)'
      BY <1>1, <1>3, <3>2 DEF Pending
    <3>5. PrintedInv'
      <4>1. printed' \subseteq DOMAIN tree'
        BY <3>1
      <4>2. \A path \in DOMAIN tree' : ~ Expanded(path)'
        BY <3>1, <3>4 DEF Expanded, AtTop
      <4> QED
        BY <3>4, <4>1, <4>2 DEF PrintedInv
    <3> QED
      BY <1>1, <2>3, <3>2, <3>3, <3>5 DEF ShownInv
  <2> QED
    BY <2>2, <2>3
<1>5. Absolute' <=> Absolute
  BY <1>1 DEF Absolute, Confined
<1> QED
  BY <1>1, <1>2, <1>4, <1>5 DEF DInv

\* The next of the paths at the top.
LEMMA PrintTopShown ==
  ASSUME ShownInv, format # "list", PrintTop,
         \A path \in DOMAIN tree : tree[path] \subseteq DOMAIN tree
  PROVE  ShownInv'
<1>1. JobsInv /\ CallsInv /\ PrintedInv
  BY DEF ShownInv
<1>2. /\ stack = <<>> /\ rest # <<>>
      /\ stack' = <<Call(Head(rest).top)>>
      /\ printed' = printed \cup {Head(rest).top}
      /\ UNCHANGED <<disk, options, files, queue, tree, status, format, rest>>
  BY DEF PrintTop, vars
<1>3. rest \in Seq(Jobs)
  BY <1>1 DEF JobsInv
<1>4. 1 \in DOMAIN rest /\ Head(rest) = rest[1] /\ rest[1] \in Jobs
  BY <1>2, <1>3, RestFacts
<1>5. PICK top \in DOMAIN tree : top = Head(rest).top
  BY <1>4 DEF Jobs
<1>6. Children(Head(rest).in, top) = tree[top]
  BY <1>1, <1>2, <1>5, ChildrenFacts
<1>7. stack' = <<[path |-> top, left |-> tree[top]]>>
  BY <1>2, <1>5, <1>6 DEF Call
<1>8. JobsInv'
  <2>1. \A path : Single(path)' = Single(path)
    BY <1>2 DEF Single
  <2>2. Jobs' = Jobs
    BY <1>2, <2>1 DEF Jobs
  <2> QED
    BY <1>1, <1>2, <2>1, <2>2 DEF JobsInv
<1>9. CallsInv'
  <2>1. [path |-> top, left |-> tree[top]] \in Calls
    BY <1>5 DEF Calls, CallsOn
  <2>2. stack' \in Seq(Calls) /\ Calls' = Calls
    BY <1>2, <1>7, <2>1 DEF Calls
  <2>3. \A k \in DOMAIN stack' : stack'[k].path = top /\ stack'[k].left = tree[top]
    BY <1>7
  <2> QED
    BY <1>2, <2>2, <2>3 DEF CallsInv
<1>10. PrintedInv'
  <2>1. \A path : Pending(path) => path = top \/ Pending(path)'
    <3>1. \A j \in DOMAIN rest : j > 1 \/ j = 1
      BY <1>2, <1>3, RestFacts
    <3> QED
      BY <1>2, <1>4, <1>5, <3>1 DEF Pending
  <2>2. printed' = printed \cup {top}
    BY <1>2, <1>5
  <2>3. Covered(top)'
    <3>1. 1 \in DOMAIN stack' /\ stack'[1].path = top /\ stack'[1].left = tree[top]
      BY <1>7
    <3> QED
      BY <1>2, <3>1 DEF Covered
  <2>4. ASSUME NEW path, Covered(path) PROVE Covered(path)'
    BY <1>2, <2>2, <2>4 DEF Covered
  <2>5. ASSUME NEW path \in DOMAIN tree, Expanded(path)' PROVE path = top \/ Expanded(path)
    BY <1>2, <2>1, <2>2, <2>5 DEF Expanded
  <2>6. \A path \in DOMAIN tree' : Expanded(path)' => Covered(path)'
    BY <1>1, <1>2, <2>3, <2>4, <2>5 DEF PrintedInv
  <2>7. AtTop' = AtTop
    BY <1>2 DEF AtTop
  <2>8. \A path \in AtTop' : path \in printed' \/ Pending(path)'
    BY <1>1, <2>1, <2>2, <2>7 DEF PrintedInv
  <2>9. printed' \subseteq DOMAIN tree'
    BY <1>1, <1>2, <2>2 DEF PrintedInv
  <2> QED
    BY <2>6, <2>8, <2>9 DEF PrintedInv
<1> QED
  BY <1>2, <1>8, <1>9, <1>10 DEF ShownInv

\* A child of the last call is printed, and its own children are left to print.
LEMMA PrintChildShown ==
  ASSUME ShownInv, format # "list", PrintChild,
         \A path \in DOMAIN tree : tree[path] \subseteq DOMAIN tree
  PROVE  ShownInv'
<1>1. JobsInv /\ CallsInv /\ PrintedInv
  BY DEF ShownInv
<1>2. /\ stack # <<>> /\ rest # <<>>
      /\ UNCHANGED <<disk, options, files, queue, tree, status, format, rest>>
  BY <1>1 DEF PrintChild, vars, CallsInv
<1> DEFINE n == Len(stack)
<1>3. PICK child \in stack[n].left :
        /\ stack' = Append([stack EXCEPT ![n].left = @ \ {child}], Call(child))
        /\ printed' = printed \cup {child}
  BY DEF PrintChild, Top
<1>4. stack \in Seq(Calls)
  BY <1>1 DEF CallsInv
<1>5. n \in DOMAIN stack /\ n \in Nat /\ DOMAIN stack = 1..n
  BY <1>2, <1>4, NotEmpty
<1>6. child \in tree[stack[n].path] /\ stack[n].path \in DOMAIN tree
  <2>1. stack[n] \in Calls
    BY <1>2, <1>4, <1>5, NotEmpty
  <2> QED
    BY <1>1, <1>3, <1>5, <2>1 DEF CallsInv, Calls, CallsOn
<1>7. child \in DOMAIN tree
  BY <1>6
<1> DEFINE new == [path |-> child, left |-> Children(Head(rest).in, child)]
<1>8. Call(child) = new
  BY DEF Call
<1>9. /\ new.left \subseteq tree[child] /\ new.path = child
      /\ format = "tree" => new.left = tree[child]
  BY <1>1, <1>2, <1>7, ChildrenFacts
<1>10. new \in Calls
  BY <1>7, <1>9 DEF Calls, CallsOn
<1> HIDE DEF n, new
<1>11. /\ stack' \in Seq(Calls)
       /\ DOMAIN stack \subseteq DOMAIN stack'
       /\ n + 1 \in DOMAIN stack' /\ stack'[n + 1] = new
       /\ \A k \in DOMAIN stack' : k \in DOMAIN stack \/ k = n + 1
       /\ \A k \in DOMAIN stack : k # n => stack'[k] = stack[k]
       /\ stack'[n].path = stack[n].path
       /\ stack'[n].left = stack[n].left \ {child}
  <2>1. stack' = WithCall(stack, child, new)
    BY <1>3, <1>8 DEF n, WithCall
  <2> QED
    BY <1>2, <1>4, <1>10, <2>1, CallFacts DEF n, Calls
<1>12. JobsInv'
  <2>1. \A path : Single(path)' = Single(path)
    BY <1>2 DEF Single
  <2>2. Jobs' = Jobs
    BY <1>2, <2>1 DEF Jobs
  <2> QED
    BY <1>1, <1>2, <2>1, <2>2 DEF JobsInv
<1>13. CallsInv'
  <2>1. stack' \in Seq(Calls')
    BY <1>2, <1>11 DEF Calls
  <2>2. ASSUME NEW k \in DOMAIN stack' PROVE stack'[k].left \subseteq tree[stack'[k].path]
    <3>1. CASE k = n + 1
      BY <1>9, <1>11, <3>1
    <3>2. CASE k = n
      BY <1>1, <1>5, <1>11, <3>2 DEF CallsInv
    <3>3. CASE k \in DOMAIN stack /\ k # n
      BY <1>1, <1>11, <3>3 DEF CallsInv
    <3> QED
      BY <1>11, <2>2, <3>1, <3>2, <3>3
  <2> QED
    BY <1>2, <2>1, <2>2 DEF CallsInv
<1>14. PrintedInv'
  <2>1. stack' # <<>>
    BY <1>11
  <2>2. \A path : Pending(path)' <=> Pending(path)
    BY <1>2, <2>1 DEF Pending
  <2>3. ASSUME NEW path, Covered(path) PROVE Covered(path)'
    <3> SUFFICES ASSUME NEW dep \in tree[path], dep \notin printed'
                 PROVE  \E k \in DOMAIN stack' : stack'[k].path = path /\ dep \in stack'[k].left
      BY <1>2 DEF Covered
    <3>1. dep # child /\ dep \notin printed
      BY <1>3
    <3>2. PICK k \in DOMAIN stack : stack[k].path = path /\ dep \in stack[k].left
      BY <2>3, <3>1 DEF Covered
    <3> QED
      BY <1>11, <3>1, <3>2
  <2>4. format = "tree" => Covered(child)'
    BY <1>2, <1>9, <1>11 DEF Covered
  <2>5. ASSUME NEW path \in DOMAIN tree, Expanded(path)'
        PROVE  Expanded(path) \/ (format = "tree" /\ path = child)
    BY <1>2, <1>3, <2>2, <2>5 DEF Expanded
  <2>6. \A path \in DOMAIN tree' : Expanded(path)' => Covered(path)'
    BY <1>1, <1>2, <2>3, <2>4, <2>5 DEF PrintedInv
  <2>7. AtTop' = AtTop
    BY <1>2 DEF AtTop
  <2>8. \A path \in AtTop' : path \in printed' \/ Pending(path)'
    BY <1>1, <1>3, <2>2, <2>7 DEF PrintedInv
  <2>9. printed' \subseteq DOMAIN tree'
    BY <1>1, <1>2, <1>3, <1>7 DEF PrintedInv
  <2> QED
    BY <2>6, <2>8, <2>9 DEF PrintedInv
<1> QED
  BY <1>2, <1>12, <1>13, <1>14 DEF ShownInv

\* A call that returns has printed all its children.
LEMMA ReturnShown ==
  ASSUME ShownInv, format # "list", Return
  PROVE  ShownInv'
<1>1. JobsInv /\ CallsInv /\ PrintedInv
  BY DEF ShownInv
<1> DEFINE n == Len(stack)
<1>2. /\ stack # <<>> /\ rest # <<>> /\ stack[n].left = {}
      /\ stack' = SubSeq(stack, 1, n - 1)
      /\ rest' = IF n = 1 THEN Tail(rest) ELSE rest
      /\ UNCHANGED <<disk, options, files, queue, tree, status, format, printed>>
  BY <1>1 DEF Return, Top, vars, CallsInv
<1>3. stack \in Seq(Calls) /\ rest \in Seq(Jobs)
  BY <1>1 DEF CallsInv, JobsInv
<1>4. /\ stack' \in Seq(Calls)
      /\ DOMAIN stack = 1..n /\ n \in Nat
      /\ DOMAIN stack' = 1..(n - 1)
      /\ \A k \in 1..(n - 1) : stack'[k] = stack[k]
      /\ stack' = <<>> <=> n = 1
  BY <1>2, <1>3, ReturnFacts
<1> HIDE DEF n
<1>5. /\ Tail(rest) \in Seq(Jobs)
      /\ DOMAIN rest = 1..Len(rest) /\ Len(rest) \in Nat
      /\ DOMAIN Tail(rest) = 1..(Len(rest) - 1)
      /\ \A j \in DOMAIN Tail(rest) : Tail(rest)[j] = rest[j + 1]
  BY <1>2, <1>3, RestFacts
<1>6. rest' \in Seq(Jobs)
  BY <1>2, <1>3, <1>5
<1>7. \A j \in DOMAIN rest' : \E i \in DOMAIN rest : rest'[j] = rest[i]
  BY <1>2, <1>5
<1>8. JobsInv'
  <2>1. \A path : Single(path)' = Single(path)
    BY <1>2 DEF Single
  <2>2. Jobs' = Jobs
    BY <1>2, <2>1 DEF Jobs
  <2> QED
    BY <1>1, <1>2, <1>6, <1>7, <2>1, <2>2 DEF JobsInv
<1>9. CallsInv'
  <2>1. stack' \in Seq(Calls')
    BY <1>2, <1>4 DEF Calls
  <2>2. stack' # <<>> => rest' # <<>>
    BY <1>2, <1>4
  <2>3. \A k \in DOMAIN stack' : stack'[k].left \subseteq tree[stack'[k].path]
    BY <1>1, <1>4 DEF CallsInv
  <2> QED
    BY <1>2, <2>1, <2>2, <2>3 DEF CallsInv
<1>10. PrintedInv'
  <2>1. \A path : Pending(path)' <=> Pending(path)
    <3>1. CASE n = 1
      <4>1. rest' = Tail(rest) /\ stack' = <<>>
        BY <1>2, <1>4, <3>1
      <4>2. ASSUME NEW path, Pending(path) PROVE Pending(path)'
        <5>1. PICK j \in DOMAIN rest : rest[j].top = path /\ j > 1
          BY <1>2, <4>2 DEF Pending
        <5>2. j - 1 \in DOMAIN Tail(rest) /\ Tail(rest)[j - 1] = rest[j]
          BY <1>5, <5>1
        <5> QED
          BY <4>1, <5>1, <5>2 DEF Pending
      <4>3. ASSUME NEW path, Pending(path)' PROVE Pending(path)
        <5>1. PICK j \in DOMAIN Tail(rest) : Tail(rest)[j].top = path
          BY <4>1, <4>3 DEF Pending
        <5>2. j + 1 \in DOMAIN rest /\ rest[j + 1].top = path /\ j + 1 > 1
          BY <1>5, <5>1
        <5> QED
          BY <5>2 DEF Pending
      <4> QED
        BY <4>2, <4>3
    <3>2. CASE n # 1
      BY <1>2, <1>4, <3>2 DEF Pending
    <3> QED
      BY <3>1, <3>2
  <2>2. ASSUME NEW path, Covered(path) PROVE Covered(path)'
    <3> SUFFICES ASSUME NEW dep \in tree[path], dep \notin printed'
                 PROVE  \E k \in DOMAIN stack' : stack'[k].path = path /\ dep \in stack'[k].left
      BY <1>2 DEF Covered
    <3>1. PICK k \in DOMAIN stack : stack[k].path = path /\ dep \in stack[k].left
      BY <1>2, <2>2 DEF Covered
    <3>2. k # n
      BY <1>2, <3>1
    <3> QED
      BY <1>4, <3>1, <3>2
  <2>3. \A path : Expanded(path)' <=> Expanded(path)
    BY <1>2, <2>1 DEF Expanded
  <2>4. AtTop' = AtTop
    BY <1>2 DEF AtTop
  <2> QED
    BY <1>1, <1>2, <2>1, <2>2, <2>3, <2>4 DEF PrintedInv
<1> QED
  BY <1>2, <1>8, <1>9, <1>10 DEF ShownInv

\* Nothing is to be printed before the tree is complete.
LEMMA InitDInv == DepsInit => DInv
<1> SUFFICES ASSUME DepsInit PROVE DInv
  OBVIOUS
<1>1. IInv
  BY InitIInv DEF DepsInit
<1>2. status = "resolving" /\ rest = <<>> /\ stack = <<>>
  BY DEF DepsInit, Init
<1> QED
  BY <1>1, <1>2 DEF DepsInit, DInv

\* Every step of elb deps keeps the invariant.
LEMMA NextDInv == DInv /\ [DepsNext]_<<vars, printer>> => DInv'
<1> SUFFICES ASSUME DInv, [DepsNext]_<<vars, printer>> PROVE DInv'
  OBVIOUS
<1>1. CASE ResolveNext
  <2>1. UNCHANGED <<format, rest, stack, printed>>
    BY <1>1 DEF ResolveNext, printer
  <2>2. Next
    BY <1>1 DEF ResolveNext, Next
  <2>3. IInv'
    BY <2>2, NextIInv DEF DInv
  <2>4. status # "done" /\ status' # "done"
    BY <1>1 DEF ResolveNext, AlreadyVisited, NoDependencies, ResolveDependencies, Fail,
                Resolving
  <2> QED
    BY <2>1, <2>3, <2>4 DEF DInv
<1>2. CASE Show
  BY <1>2, ShowDInv
<1>3. CASE PrintTop \/ PrintChild \/ Return
  <2>1. /\ UNCHANGED <<disk, options, files, queue, tree, status, format>>
        /\ status = "done"
    BY <1>3 DEF PrintTop, PrintChild, Return, vars, DInv
  <2>2. IInv'
    BY <2>1, NextIInv DEF DInv, vars
  <2>3. Absolute' <=> Absolute
    BY <2>1 DEF Absolute, Confined
  <2>4. ASSUME Absolute PROVE ShownInv'
    <3>1. \A path \in DOMAIN tree : tree[path] \subseteq DOMAIN tree
      BY <2>1, <2>4, AbsoluteTree DEF DInv, IInv
    <3>2. ShownInv
      BY <2>1, <2>4 DEF DInv
    <3>3. format # "list"
      BY <1>3, <3>2 DEF ShownInv, PrintTop, PrintChild, Return
    <3> QED
      BY <1>3, <3>1, <3>2, <3>3, PrintTopShown, PrintChildShown, ReturnShown
  <2> QED
    BY <2>1, <2>2, <2>3, <2>4 DEF DInv
<1>4. CASE UNCHANGED <<vars, printer>>
  <2>1. UNCHANGED <<disk, options, files, queue, tree, status, format, rest, stack, printed>>
    BY <1>4 DEF vars, printer
  <2>2. IInv'
    BY <2>1, NextIInv DEF DInv, vars
  <2>3. \A path : Single(path)' = Single(path)
    BY <2>1 DEF Single
  <2>4. ShownInv' <=> ShownInv
    <3>1. Jobs' = Jobs /\ Calls' = Calls /\ List' = List
      BY <2>1, <2>3 DEF Jobs, Calls, CallsOn, List
    <3>2. JobsInv' <=> JobsInv
      BY <2>1, <2>3, <3>1 DEF JobsInv
    <3>3. CallsInv' <=> CallsInv
      BY <2>1, <3>1 DEF CallsInv
    <3>4. PrintedInv' <=> PrintedInv
      BY <2>1 DEF PrintedInv, Pending, Covered, AtTop, Expanded
    <3> QED
      BY <2>1, <3>1, <3>2, <3>3, <3>4 DEF ShownInv
  <2>5. Absolute' <=> Absolute
    BY <2>1 DEF Absolute, Confined
  <2> QED
    BY <2>1, <2>2, <2>4, <2>5 DEF DInv
<1> QED
  BY <1>1, <1>2, <1>3, <1>4 DEF DepsNext

\* When nothing is left to print, what was printed is closed under the tree.
LEMMA DInvShows == DInv /\ Absolute => ShowsDependencies
<1> SUFFICES ASSUME DInv, Absolute, status = "done", rest = <<>>
             PROVE  printed = (UNION Range(tree))
                      \cup (IF format = "list" THEN {} ELSE Range(files))
  BY DEF ShowsDependencies, Printed
<1>1. IInv /\ queue = <<>> /\ ShownInv
  BY DEF DInv, IInv
<1>2. /\ Range(files) \subseteq DOMAIN tree
      /\ \A path \in DOMAIN tree : tree[path] \subseteq DOMAIN tree
      /\ DOMAIN tree \subseteq Range(files) \cup UNION {tree[path] : path \in DOMAIN tree}
  BY <1>1, AbsoluteTree
<1>3. UNION Range(tree) = UNION {tree[path] : path \in DOMAIN tree}
  BY DEF Range
<1>4. CASE format = "list"
  BY <1>1, <1>2, <1>3, <1>4 DEF ShownInv, List
<1>5. CASE format # "list"
  <2>1. JobsInv /\ CallsInv /\ PrintedInv
    BY <1>1, <1>5 DEF ShownInv
  <2>2. stack = <<>> /\ \A path : ~ Pending(path)
    BY <2>1 DEF CallsInv, Pending
  <2>3. DOMAIN tree \subseteq printed
    <3>1. CASE format = "tree"
      <4>1. Range(files) \subseteq printed
        BY <2>1, <2>2, <3>1 DEF PrintedInv, AtTop
      <4>2. \A path \in printed : path \in DOMAIN tree /\ tree[path] \subseteq printed
        BY <2>1, <2>2, <3>1 DEF PrintedInv, Expanded, Covered
      <4>3. \A path \in DOMAIN tree : tree[path] = Dependencies(disk, options, path)
        BY <1>1 DEF IInv
      <4>4. \A path \in DOMAIN tree \cup UNION {tree[p] : p \in DOMAIN tree} :
              Rebase(options, path) = path
        BY <1>1, <1>2 DEF IInv
      <4>5. Arguments \subseteq printed
        BY <1>2, <4>1, <4>4 DEF Arguments
      <4>6. Closed(printed)
        BY <4>2, <4>3, <4>4 DEF Closed
      <4>7. printed \in SUBSET DOMAIN tree
        BY <4>2
      <4> QED
        BY <1>1, <4>5, <4>6, <4>7, IInvTreeIsClosure DEF TreeIsClosure
    <3>2. CASE format # "tree"
      BY <2>1, <2>2, <3>2 DEF PrintedInv, AtTop
    <3> QED
      BY <3>1, <3>2
  <2>4. printed \subseteq DOMAIN tree
    BY <2>1 DEF PrintedInv
  <2> QED
    BY <1>2, <1>3, <1>5, <2>3, <2>4
<1> QED
  BY <1>4, <1>5

\* elb deps shows every dependency in every format, and the list shows nothing
\* else, whatever disk and arguments it is given, as long as no path is relative.
THEOREM DepsShowsDependencies == DepsSpec => [](Absolute => ShowsDependencies)
<1>1. DepsInit => DInv
  BY InitDInv
<1>2. DInv /\ [DepsNext]_<<vars, printer>> => DInv'
  BY NextDInv
<1>3. DInv => (Absolute => ShowsDependencies)
  BY DInvShows
<1> QED
  BY <1>1, <1>2, <1>3, PTL DEF DepsSpec

-----------------------------------------------------------------------------
(* The target directory of relocate *)

\* What is not in the target directory is as it was, and nothing is added to it.
Kept(old, new) ==
  \A path \in DOMAIN old \cup DOMAIN new :
    path.at # "target" => /\ path \in DOMAIN old \cap DOMAIN new
                          /\ new[path] = old[path]

\* Writing and removing a file of the target directory.
LEMMA PutKeeps ==
  ASSUME NEW d, NEW path, path.at = "target", NEW file
  PROVE  Kept(d, Put(d, path, file))
BY DEF Kept, Put

\* The same for a file that is removed,
LEMMA RemoveKeeps ==
  ASSUME NEW d, NEW path, path.at = "target"
  PROVE  Kept(d, RemoveFile(d, path))
BY DEF Kept, RemoveFile

\* for two changes one after the other,
LEMMA KeptTwice ==
  ASSUME NEW a, NEW b, NEW c, Kept(a, b), Kept(b, c)
  PROVE  Kept(a, c)
BY DEF Kept

\* for a link,
LEMMA SymlinkKeeps ==
  ASSUME NEW d, NEW path, path.at = "target", NEW to
  PROVE  Kept(d, Symlink(d, path, to))
BY PutKeeps, RemoveKeeps, KeptTwice DEF Symlink

\* A path at which nothing is leads to itself: the copy is written there, and not
\* to what was linked there before.
LEMMA CopyWritesThere ==
  ASSUME NEW d, NEW path, NEW file
  PROVE  CopyFile(d, path, file) = Put(RemoveFile(d, path), path, file)
<1> DEFINE d1 == RemoveFile(d, path)
<1>1. path \notin DOMAIN d1
  BY DEF RemoveFile
<1>2. Follow(d1, {path}) = {path}
  BY <1>1 DEF Follow
<1>3. RealPath(d1, path) = {path}
  BY <1>2 DEF RealPath
<1>4. (CHOOSE p \in RealPath(d1, path) : TRUE) = path
  BY <1>3
<1> QED
  BY <1>4 DEF CopyFile

\* and for a copy.
LEMMA CopyKeeps ==
  ASSUME NEW d, NEW path, path.at = "target", NEW file
  PROVE  Kept(d, CopyFile(d, path, file))
BY CopyWritesThere, PutKeeps, RemoveKeeps, KeptTwice

\* Every path that is written to is in the target directory.
LEMMA WritesInTarget ==
  /\ NewFile.at = "target"
  /\ \A l \in ToLink : l.at.at = "target"
<1>1. \A dir, name : Join(dir, name).at = dir.at
  BY DEF Join
<1>2. \A hash : HashDir(hash).at = "target"
  BY DEF HashDir
<1>3. BinDir.at = "target"
  BY DEF BinDir
<1>4. NewFile.at = "target"
  BY <1>1, <1>2 DEF NewFile, NewPath
<1>5. \A l \in ToLink : l.at.at = "target"
  BY <1>1, <1>2, <1>3 DEF ToLink
<1> QED
  BY <1>4, <1>5

\* A link that is made takes the place of what remove_file has removed.
LEMMA NothingInTheWay == ~ LinkExists
BY DEF LinkExists, RemoveFile

\* A call that ends leaves the files outside of the target directory.
LEMMA StepKeeps == RelocatorNext => Kept(disk, disk')
<1> SUFFICES ASSUME RelocatorNext PROVE Kept(disk, disk')
  OBVIOUS
<1>0. Kept(disk, disk)
  BY DEF Kept
<1>1. CASE \E program \in programs : Start(program)
  <2>1. disk' = disk
    BY <1>1 DEF Start
  <2> QED
    BY <1>0, <2>1
<1>2. CASE Resolve
  <2>1. disk' = disk
    BY <1>2 DEF Resolve, AlreadyVisited, NoDependencies, ResolveDependencies
  <2> QED
    BY <1>0, <2>1
<1>3. CASE Unresolved \/ Resolved
  <2>1. disk' = disk
    BY <1>3 DEF Unresolved, Resolved, Fail, Finish
  <2> QED
    BY <1>0, <2>1
<1>4. CASE Copy
  <2>1. PICK elf \in Opened(disk, Dependent) : disk' = CopyFile(disk, NewFile, elf)
    BY <1>4 DEF Copy
  <2> QED
    BY <2>1, CopyKeeps, WritesInTarget
<1>5. CASE LinkExecutable
  <2>1. \/ disk' = disk
        \/ \E l \in ToLink : disk' = Symlink(disk, l.at, l.to)
    BY <1>5 DEF LinkExecutable
  <2> QED
    BY <1>0, <2>1, SymlinkKeeps, WritesInTarget
<1>6. CASE Patch
  <2>1. \/ disk' = disk
        \/ \E file : disk' = Put(disk, NewFile, file)
    BY <1>6 DEF Patch, PatchedFile
  <2> QED
    BY <1>0, <2>1, PutKeeps, WritesInTarget
<1>7. CASE Copied \/ Relocated
  <2>1. disk' = disk
    BY <1>7 DEF Copied, Relocated
  <2> QED
    BY <1>0, <2>1
<1>8. CASE Link
  <2>1. \/ disk' = disk
        \/ \E l \in ToLink : disk' = Symlink(disk, l.at, l.to)
    BY <1>8 DEF Link
  <2> QED
    BY <1>0, <2>1, SymlinkKeeps, WritesInTarget
<1>9. CASE Fault
  <2>1. disk' \in CutOff
    BY <1>9 DEF Fault
  <2>2. \/ disk' = disk
        \/ \E l \in ToLink : disk' = RemoveFile(disk, l.at)
        \/ disk' = RemoveFile(disk, NewFile)
        \/ disk' = Put(RemoveFile(disk, NewFile), NewFile, Leftover)
        \/ disk' = Put(disk, NewFile, Leftover)
    BY <2>1 DEF CutOff
  <2>3. Kept(disk, Put(RemoveFile(disk, NewFile), NewFile, Leftover))
    BY PutKeeps, RemoveKeeps, KeptTwice, WritesInTarget
  <2>4. /\ Kept(disk, RemoveFile(disk, NewFile))
        /\ Kept(disk, Put(disk, NewFile, Leftover))
    BY PutKeeps, RemoveKeeps, WritesInTarget
  <2>5. \A l \in ToLink : Kept(disk, RemoveFile(disk, l.at))
    BY RemoveKeeps, WritesInTarget
  <2> QED
    BY <1>0, <2>2, <2>3, <2>4, <2>5
<1> QED
  BY <1>1, <1>2, <1>3, <1>4, <1>5, <1>6, <1>7, <1>8, <1>9 DEF RelocatorNext

-----------------------------------------------------------------------------
(* Changes of the disk *)

\* A disk stays one when a file is written or removed.
LEMMA PutType ==
  ASSUME NEW d, IsDisk(d), NEW path \in Path, NEW file \in Files
  PROVE  IsDisk(Put(d, path, file))
<1>1. DOMAIN Put(d, path, file) = DOMAIN d \cup {path}
  BY DEF Put
<1>2. \A p \in DOMAIN d : d[p] \in Files
  BY DEF IsDisk
<1>3. \A p \in DOMAIN Put(d, path, file) : Put(d, path, file)[p] \in Files
  BY <1>2 DEF Put
<1>4. Put(d, path, file) \in [DOMAIN Put(d, path, file) -> Files]
  BY <1>3 DEF Put
<1> QED
  BY <1>1, <1>4 DEF IsDisk

\* The same for a file that is removed.
LEMMA RemoveType ==
  ASSUME NEW d, IsDisk(d), NEW path
  PROVE  IsDisk(RemoveFile(d, path))
BY DEF IsDisk, RemoveFile

\* What relocate writes: a link, a part of a file, and a patched copy.
LEMMA SpecialType ==
  ASSUME NEW file \in Files, NEW kind \in Kinds, NEW link \in SUBSET Path
  PROVE  Special(kind, link) \in Files
<1>1. file.content \in Contents /\ file.arch \in Archs
  BY DEF Files
<1>2. (CHOOSE c \in Contents : TRUE) \in Contents /\ (CHOOSE a \in Archs : TRUE) \in Archs
  BY <1>1
<1>3. {} \in SUBSET Names /\ {} \in SUBSET Path /\ <<>> \in Seq(Dir)
  OBVIOUS
<1> QED
  BY <1>2, <1>3 DEF Special, Files

\* The copy that ElfPatcher has patched.
LEMMA PatchedType ==
  ASSUME NEW elf \in Files, NEW dir \in Dir
  PROVE  Patched(elf, dir) \in Files
<1>1. /\ elf.interp \in SUBSET Path /\ elf.rpath \in Seq(Dir) /\ elf.runpath \in Seq(Dir)
      /\ <<>> \in Seq(Dir) /\ <<dir>> \in Seq(Dir)
  BY DEF Files
<1>2. {Join(dir, path.name) : path \in elf.interp} \in SUBSET Path
  BY <1>1 DEF Join, Path, Dir
<1> DEFINE i == {Join(dir, path.name) : path \in elf.interp}
           r == IF elf.dynamic THEN <<>> ELSE elf.rpath
           u == IF elf.dynamic THEN <<dir>> ELSE elf.runpath
<1>3. i \in SUBSET Path /\ r \in Seq(Dir) /\ u \in Seq(Dir)
  BY <1>1, <1>2
<1>4. Patched(elf, dir) = [elf EXCEPT !.interp = i, !.rpath = r, !.runpath = u]
  BY DEF Patched
<1> HIDE DEF i, r, u
<1> QED
  BY <1>3, <1>4 DEF Files

\* A copy is in a directory of the target.
LEMMA NewPathType ==
  ASSUME NEW path \in Path, NEW hash \in Contents
  PROVE  /\ NewPath(path, hash) \in Path
         /\ ParentDir(NewPath(path, hash)) \in Dir
         /\ Join(HashDir(hash), path.name) \in Path
         /\ Join(BinDir, path.name) \in Path
BY PlacesAssumption DEF NewPath, HashDir, BinDir, Join, ParentDir, Path, Dir, Starts

Originals == {"host", "sysroot"}

\* Nothing changes for the paths outside of the target.
LEMMA OutsideStays ==
  ASSUME Kept(disk, disk'), UNCHANGED <<options, programs>>
  PROVE  Outside' <=> Outside
<1>1. \A path \in PathsAt(Originals) :
        /\ path \in DOMAIN disk <=> path \in DOMAIN disk'
        /\ path \in DOMAIN disk => disk'[path] = disk[path]
  BY DEF Kept, PathsAt, Originals
<1> QED
  BY <1>1 DEF Outside, Confined, Originals

\* The file that opens is the same, too.
LEMMA OpenedStays ==
  ASSUME Kept(disk, disk'), Outside, NEW path \in PathsAt(Originals)
  PROVE  Opened(disk, path)' = Opened(disk, path)
<1>1. \A p \in PathsAt(Originals) :
        /\ p \in DOMAIN disk <=> p \in DOMAIN disk'
        /\ p \in DOMAIN disk => disk'[p] = disk[p]
  BY DEF Kept, PathsAt, Originals
<1>2. \A p \in DOMAIN disk \cap PathsAt(Originals) : disk[p] \in FilesAt(Originals)
  BY DEF Outside, Confined, Originals
<1>3. \A S \in SUBSET PathsAt(Originals) :
        Follow(disk', S) = Follow(disk, S) /\ Follow(disk, S) \in SUBSET PathsAt(Originals)
  <2> SUFFICES ASSUME NEW S \in SUBSET PathsAt(Originals)
               PROVE  /\ Follow(disk', S) = Follow(disk, S)
                      /\ Follow(disk, S) \in SUBSET PathsAt(Originals)
    OBVIOUS
  <2> DEFINE Led(d, p) == IF p \in DOMAIN d /\ d[p].kind = "link" THEN d[p].link ELSE {p}
  <2>1. \A p \in S : Led(disk', p) = Led(disk, p) /\ Led(disk, p) \in SUBSET PathsAt(Originals)
    <3> TAKE p \in S
    <3>1. /\ p \in DOMAIN disk <=> p \in DOMAIN disk'
          /\ p \in DOMAIN disk => disk'[p] = disk[p]
      BY <1>1
    <3>2. p \in DOMAIN disk => disk[p].link \in SUBSET PathsAt(Originals)
      BY <1>2 DEF FilesAt
    <3>3. CASE p \in DOMAIN disk
      BY <3>1, <3>2, <3>3
    <3>4. CASE p \notin DOMAIN disk
      BY <3>1, <3>4
    <3> QED
      BY <3>3, <3>4
  <2>2. /\ Follow(disk', S) = UNION {Led(disk', p) : p \in S}
        /\ Follow(disk, S) = UNION {Led(disk, p) : p \in S}
    BY DEF Follow
  <2> HIDE DEF Led
  <2>3. {Led(disk', p) : p \in S} = {Led(disk, p) : p \in S}
    BY <2>1
  <2>4. UNION {Led(disk, p) : p \in S} \in SUBSET PathsAt(Originals)
    BY <2>1
  <2> QED
    BY <2>2, <2>3, <2>4
<1>4. {path} \in SUBSET PathsAt(Originals)
  OBVIOUS
<1>5. /\ RealPath(disk', path) = RealPath(disk, path)
      /\ RealPath(disk, path) \in SUBSET PathsAt(Originals)
  BY <1>3, <1>4 DEF RealPath
<1> QED
  BY <1>1, <1>5 DEF Opened

-----------------------------------------------------------------------------
(* The invariant of relocate *)

Writing == {"copy", "bin", "patch", "link"}

\* The tree of a call that writes is closed, the dependents that were copied are
\* in it, and there is one to copy whenever a copy is in progress.
TreeReady ==
  /\ DOMAIN tree \subseteq PathsAt(Originals)
  /\ files[1] \in DOMAIN tree
  /\ \A path \in DOMAIN tree : tree[path] \subseteq DOMAIN tree
  /\ DOMAIN hashes \subseteq DOMAIN tree
  /\ step \in {"bin", "patch"} => DOMAIN hashes # DOMAIN tree
  /\ step = "link" => /\ DOMAIN hashes = DOMAIN tree
                      /\ links \subseteq (DOMAIN tree) \X (DOMAIN tree)

RInv ==
  /\ RelocatorTypeOK
  /\ step # "panicked"
  /\ step # "idle" => \E program \in programs : files = <<program>>
  /\ step # "idle" => \A path \in DOMAIN tree : Opened(disk, path) # {}
  /\ step = "resolve" => IInv /\ DOMAIN hashes = {}
  /\ step \in Writing => TreeReady

\* What opens is a file.
LEMMA OpenedType ==
  ASSUME NEW d, IsDisk(d), NEW path, NEW elf \in Opened(d, path)
  PROVE  elf \in Files
BY DEF Opened, IsDisk

\* The dependent that is copied next, and where.
LEMMA DependentFacts ==
  ASSUME RInv, step \in Writing, DOMAIN hashes # DOMAIN tree
  PROVE  /\ Dependent \in DOMAIN tree \ DOMAIN hashes
         /\ Dependent \in Path /\ Dependent \in PathsAt(Originals)
         /\ Hash(Dependent) \in Contents
         /\ NewFile \in Path
         /\ ParentDir(NewFile) \in Dir
         /\ Join(BinDir, Dependent.name) \in Path
<1>1. TreeReady /\ IsDisk(disk) /\ step # "idle"
  BY DEF RInv, RelocatorTypeOK, TypeOK, Writing
<1>2. DOMAIN tree \ DOMAIN hashes # {}
  BY <1>1 DEF TreeReady
<1>3. Dependent \in DOMAIN tree \ DOMAIN hashes
  BY <1>2 DEF Dependent
<1>4. Dependent \in PathsAt(Originals) /\ Dependent \in Path
  BY <1>1, <1>3 DEF TreeReady, PathsAt
<1>5. PICK elf : elf \in Opened(disk, Dependent) /\ Hash(Dependent) = elf.content
  <2>1. Opened(disk, Dependent) # {}
    BY <1>1, <1>3 DEF RInv
  <2> QED
    BY <2>1 DEF Hash
<1>6. Hash(Dependent) \in Contents
  BY <1>1, <1>5, OpenedType DEF Files
<1> QED
  BY <1>3, <1>4, <1>6, NewPathType DEF NewFile

\* Where links are made, and what they lead to.
LEMMA ToLinkType ==
  ASSUME RInv
  PROVE  \A l \in ToLink : l.at \in Path /\ l.to \in Path
<1>1. CASE step = "bin"
  <2>1. DOMAIN hashes # DOMAIN tree /\ step \in Writing
    BY <1>1 DEF RInv, Writing, TreeReady
  <2>2. NewFile \in Path /\ Join(BinDir, Dependent.name) \in Path
    BY <2>1, DependentFacts
  <2>3. \A l \in ToLink : l.at = Join(BinDir, Dependent.name) /\ l.to = NewFile
    BY <1>1 DEF ToLink
  <2> QED
    BY <2>2, <2>3
<1>2. CASE step = "link"
  <2>1. /\ TreeReady /\ hashes \in [DOMAIN hashes -> Contents]
        /\ DOMAIN tree \subseteq Path
    BY <1>2 DEF RInv, RelocatorTypeOK, TypeOK, Writing
  <2> SUFFICES ASSUME NEW l \in ToLink PROVE l.at \in Path /\ l.to \in Path
    OBVIOUS
  <2>2. PICK pair \in links :
          /\ pair[2] \in DOMAIN hashes
          /\ l = [at |-> Join(HashDir(hashes[pair[1]]), pair[2].name),
                  to |-> NewPath(pair[2], hashes[pair[2]])]
    BY <1>2 DEF ToLink
  <2>3. pair[1] \in DOMAIN hashes /\ pair[2] \in Path
    BY <1>2, <2>1, <2>2 DEF TreeReady
  <2>4. hashes[pair[1]] \in Contents /\ hashes[pair[2]] \in Contents
    BY <2>1, <2>2, <2>3
  <2> QED
    BY <2>2, <2>3, <2>4, NewPathType
<1>3. CASE step \notin {"bin", "link"}
  BY <1>3 DEF ToLink
<1> QED
  BY <1>1, <1>2, <1>3

\* A link that is made leaves a disk.
LEMMA SymlinkType ==
  ASSUME NEW d, IsDisk(d), NEW path \in Path, NEW to \in Path, NEW file \in Files
  PROVE  IsDisk(Symlink(d, path, to))
<1>1. Special("link", {to}) \in Files
  BY SpecialType DEF Kinds
<1>2. IsDisk(RemoveFile(d, path))
  BY RemoveType
<1> QED
  BY <1>1, <1>2, PutType DEF Symlink, LinkFile

\* The file that makes a link possible: one that is there.
LEMMA SomeFile ==
  ASSUME RInv, step \in Writing, DOMAIN tree # {}
  PROVE  \E file : file \in Files
<1>1. PICK path \in DOMAIN tree : Opened(disk, path) # {}
  BY DEF RInv, Writing
<1>2. IsDisk(disk)
  BY DEF RInv, RelocatorTypeOK, TypeOK
<1> QED
  BY <1>1, <1>2, OpenedType

\* Whatever a step leaves when it is cut off is a disk.
LEMMA CutOffType == ASSUME RInv, NEW d \in CutOff PROVE IsDisk(d)
<1>1. IsDisk(disk)
  BY DEF RInv, RelocatorTypeOK, TypeOK
<1>2. ASSUME step \in {"copy", "patch"}, DOMAIN tree # DOMAIN hashes
      PROVE  /\ IsDisk(RemoveFile(disk, NewFile))
             /\ IsDisk(Put(RemoveFile(disk, NewFile), NewFile, Leftover))
             /\ IsDisk(Put(disk, NewFile, Leftover))
  <2>1. step \in Writing
    BY <1>2 DEF Writing
  <2>2. NewFile \in Path /\ DOMAIN tree # {}
    BY <1>2, <2>1, DependentFacts
  <2>3. PICK file : file \in Files
    BY <2>1, <2>2, SomeFile
  <2>4. Leftover \in Files
    BY <2>3, SpecialType DEF Leftover, Kinds
  <2> QED
    BY <1>1, <2>2, <2>4, PutType, RemoveType
<1>3. step = "patch" => DOMAIN tree # DOMAIN hashes
  BY DEF RInv, TreeReady, Writing
<1>4. \A l \in ToLink : IsDisk(RemoveFile(disk, l.at))
  BY <1>1, RemoveType
<1>5. CASE step = "copy" /\ DOMAIN tree # DOMAIN hashes
  <2>1. \/ d = disk \/ \E l \in ToLink : d = RemoveFile(disk, l.at)
        \/ d = RemoveFile(disk, NewFile)
        \/ d = Put(RemoveFile(disk, NewFile), NewFile, Leftover)
    BY <1>5 DEF CutOff
  <2> QED
    BY <1>1, <1>2, <1>4, <1>5, <2>1
<1>6. CASE step = "patch"
  <2>1. \/ d = disk \/ \E l \in ToLink : d = RemoveFile(disk, l.at)
        \/ d = Put(disk, NewFile, Leftover)
    BY <1>6 DEF CutOff
  <2> QED
    BY <1>1, <1>2, <1>3, <1>4, <1>6, <2>1
<1>7. CASE ~ (step = "copy" /\ DOMAIN tree # DOMAIN hashes) /\ step # "patch"
  <2>1. d = disk \/ \E l \in ToLink : d = RemoveFile(disk, l.at)
    BY <1>7 DEF CutOff
  <2> QED
    BY <1>1, <1>4, <2>1
<1> QED
  BY <1>5, <1>6, <1>7

\* A new call begins with its program in the queue.
LEMMA StartRInv ==
  ASSUME RInv, NEW program \in programs, Start(program) PROVE RInv'
<1>1. /\ files' = <<program>> /\ queue' = <<program>> /\ tree' = <<>>
      /\ status' = "resolving" /\ step' = "resolve" /\ hashes' = <<>> /\ links' = {}
      /\ runs' = runs + 1 /\ runs < MaxRuns
      /\ UNCHANGED <<disk, options, programs, result, relocated, faults>>
  BY DEF Start
<1>2. program \in Path
  BY DEF RInv, RelocatorTypeOK
<1>3. /\ <<program>> \in Seq(Path) /\ Range(<<program>>) = {program}
      /\ <<program>> \in [{1} -> {program}]
  BY <1>2 DEF Range
<1>4. tree' \in [DOMAIN tree' -> SUBSET Path] /\ DOMAIN tree' = {}
  BY <1>1
<1>5. TypeOK'
  BY <1>1, <1>3, <1>4 DEF RInv, RelocatorTypeOK, TypeOK
<1>6. hashes' \in [DOMAIN hashes' -> Contents] /\ DOMAIN hashes' = {}
  BY <1>1
<1>7. RelocatorTypeOK'
  <2>1. runs' \in 0..MaxRuns /\ faults' \in 0..MaxFaults
    BY <1>1, BoundsAssumption DEF RInv, RelocatorTypeOK
  <2> QED
    BY <1>1, <1>5, <1>6, <2>1 DEF RInv, RelocatorTypeOK, Steps
<1>8. IInv'
  <2>1. \A path \in Arguments' : Handled(path)'
    BY <1>1, <1>3 DEF Arguments, Handled
  <2>2. Bounded'
    BY <1>1, <1>3, <1>4 DEF Bounded, Arguments
  <2> QED
    BY <1>1, <1>4, <1>5, <2>1, <2>2 DEF IInv
<1> QED
  BY <1>1, <1>4, <1>6, <1>7, <1>8 DEF RInv, Writing

\* Each file that is put in the tree was opened.
LEMMA ResolveRInv == ASSUME RInv, Resolve PROVE RInv'
<1>1. /\ step = "resolve"
      /\ AlreadyVisited \/ NoDependencies \/ ResolveDependencies
      /\ UNCHANGED <<step, hashes, links, programs, runs, faults, result, relocated>>
  BY DEF Resolve, call, counters
<1>2. UNCHANGED <<disk, options, files, status>>
  BY <1>1 DEF AlreadyVisited, NoDependencies, ResolveDependencies
<1>3. IInv'
  <2>1. IInv
    BY <1>1 DEF RInv
  <2>2. Next
    BY <1>1 DEF Next
  <2> QED
    BY <2>1, <2>2, NextIInv
<1>4. RelocatorTypeOK'
  BY <1>1, <1>3 DEF RInv, RelocatorTypeOK, IInv
<1>5. \A path \in DOMAIN tree' : Opened(disk', path) # {}
  <2>1. Opened(disk, File) # {} \/ DOMAIN tree' = DOMAIN tree
    BY <1>1 DEF AlreadyVisited, NoDependencies, ResolveDependencies, IsElf
  <2>2. DOMAIN tree' \subseteq DOMAIN tree \cup {File}
    BY <1>1 DEF AlreadyVisited, NoDependencies, ResolveDependencies, Insert
  <2>3. AlreadyVisited => DOMAIN tree' = DOMAIN tree
    BY DEF AlreadyVisited
  <2>4. \A path \in DOMAIN tree : Opened(disk, path) # {}
    BY <1>1 DEF RInv
  <2> QED
    BY <1>2, <2>1, <2>2, <2>3, <2>4
<1> QED
  BY <1>1, <1>2, <1>3, <1>4, <1>5 DEF RInv, Writing

\* A call that ends leaves the types as they are.
LEMMA EndRInv ==
  ASSUME RInv, NEW how \in Results, End(how), step # "panicked",
         IsDisk(disk'), status' \in {"resolving", "done", "failed"},
         UNCHANGED <<options, files, queue, tree, programs, runs, hashes>>,
         links' \subseteq links, faults' \in 0..MaxFaults
  PROVE  RInv'
<1>1. step' = "idle" /\ result' = how /\ DOMAIN relocated' \subseteq DOMAIN relocated
  BY DEF End
<1>2. RelocatorTypeOK'
  <2>1. TypeOK'
    BY DEF RInv, RelocatorTypeOK, TypeOK
  <2>2. links' \subseteq Path \X Path
    BY DEF RInv, RelocatorTypeOK
  <2> QED
    BY <1>1, <2>1, <2>2 DEF RInv, RelocatorTypeOK, Steps
<1> QED
  BY <1>1, <1>2 DEF RInv, Writing

\* A call that finds a dependency missing has written nothing.
LEMMA UnresolvedRInv == ASSUME RInv, Unresolved PROVE RInv'
<1>1. /\ UNCHANGED <<disk, options, files, queue, tree, programs, runs, faults, hashes, links>>
      /\ status' = "failed" /\ End("unresolved")
  BY DEF Unresolved, Fail, call, counters
<1>2. IsDisk(disk') /\ faults' \in 0..MaxFaults
  BY <1>1 DEF RInv, RelocatorTypeOK, TypeOK
<1>3. "unresolved" \in Results /\ step # "panicked"
  BY DEF Results, RInv
<1> QED
  BY <1>1, <1>2, <1>3, EndRInv

\* The queue is empty, and the tree closed.
LEMMA ResolvedRInv == ASSUME RInv, Outside, Resolved PROVE RInv'
<1>1. /\ step = "resolve" /\ step' = "copy" /\ queue = <<>> /\ status' = "done"
      /\ UNCHANGED <<disk, options, files, queue, tree, hashes, links, programs, runs,
                     faults, result, relocated>>
  BY DEF Resolved, Finish, call, counters
<1>2. PICK program \in programs : files = <<program>>
  BY <1>1 DEF RInv
<1>3. files[1] = program /\ Range(files) = {program}
  BY <1>2 DEF Range
<1>4. /\ DOMAIN tree \subseteq PathsAt(Originals)
      /\ Range(files) \subseteq DOMAIN tree
      /\ \A path \in DOMAIN tree : tree[path] \subseteq DOMAIN tree
  <2>1. IInv /\ Confined(Originals) /\ "cwd" \notin Originals
    BY <1>1 DEF RInv, Outside, Originals
  <2>2. Range(files) \subseteq PathsAt(Originals)
    BY <1>3 DEF Outside, Originals
  <2> QED
    BY <1>1, <2>1, <2>2, ConfinedTree
<1>5. TreeReady'
  BY <1>1, <1>3, <1>4 DEF RInv, TreeReady
<1>6. RelocatorTypeOK'
  BY <1>1 DEF RInv, RelocatorTypeOK, TypeOK, Steps
<1> QED
  BY <1>1, <1>2, <1>5, <1>6 DEF RInv

\* A step that writes in the target and leaves the call as it is.
LEMMA WritingRInv ==
  ASSUME RInv, Outside, Kept(disk, disk'), IsDisk(disk'),
         step \in Writing, step' \in Writing,
         UNCHANGED <<options, files, queue, tree, status, programs, runs, faults>>,
         DOMAIN relocated' \subseteq DOMAIN relocated, result' \in Results,
         DOMAIN hashes' \subseteq DOMAIN tree, hashes' \in [DOMAIN hashes' -> Contents],
         links' \subseteq (DOMAIN tree) \X (DOMAIN tree) \/ links' \subseteq links,
         step' \in {"bin", "patch"} => DOMAIN hashes' # DOMAIN tree,
         step' = "link" => /\ DOMAIN hashes' = DOMAIN tree
                           /\ links' \subseteq (DOMAIN tree) \X (DOMAIN tree)
  PROVE  RInv'
<1>1. /\ TreeReady /\ step # "idle" /\ step' # "idle"
      /\ step' # "resolve" /\ step' # "panicked"
  BY DEF RInv, Writing
<1>2. TreeReady'
  BY <1>1 DEF TreeReady
<1>3. \A path \in DOMAIN tree : Opened(disk, path)' = Opened(disk, path)
  BY <1>1, OpenedStays DEF TreeReady
<1>4. \A path \in DOMAIN tree' : Opened(disk', path) # {}
  BY <1>1, <1>3 DEF RInv
<1>5. RelocatorTypeOK'
  <2>1. TypeOK' /\ DOMAIN tree \subseteq Path
    BY DEF RInv, RelocatorTypeOK, TypeOK
  <2>2. links' \subseteq Path \X Path
    <3>1. (DOMAIN tree) \X (DOMAIN tree) \subseteq Path \X Path
      BY <2>1
    <3> QED
      BY <3>1 DEF RInv, RelocatorTypeOK
  <2>3. DOMAIN hashes' \subseteq Path
    BY <2>1
  <2>4. step' \in Steps
    BY DEF Writing, Steps
  <2> QED
    BY <2>1, <2>2, <2>3, <2>4 DEF RInv, RelocatorTypeOK
<1>6. \E program \in programs' : files' = <<program>>
  BY <1>1 DEF RInv
<1> QED
  BY <1>1, <1>2, <1>4, <1>5, <1>6 DEF RInv

\* What a step that writes can rely on.
LEMMA WritingFacts ==
  ASSUME RInv, step \in Writing
  PROVE  /\ TreeReady /\ IsDisk(disk) /\ result \in Results
         /\ hashes \in [DOMAIN hashes -> Contents] /\ DOMAIN hashes \subseteq DOMAIN tree
BY DEF RInv, RelocatorTypeOK, TypeOK, TreeReady

\* The copy of a dependent, whatever is at its place.
LEMMA CopyRInv == ASSUME RInv, Outside, Copy PROVE RInv'
<1>1. /\ step = "copy" /\ DOMAIN tree # DOMAIN hashes /\ step' = "bin"
      /\ UNCHANGED <<options, files, queue, tree, status, hashes, links, programs, runs,
                     faults, result, relocated>>
  BY DEF Copy, loader, call, counters
<1>2. PICK elf \in Opened(disk, Dependent) : disk' = CopyFile(disk, NewFile, elf)
  BY DEF Copy
<1>3. step \in Writing /\ step' \in Writing
  BY <1>1 DEF Writing
<1>4. IsDisk(disk')
  <2>1. NewFile \in Path /\ IsDisk(disk) /\ elf \in Files
    BY <1>1, <1>3, DependentFacts, WritingFacts, OpenedType
  <2>2. IsDisk(RemoveFile(disk, NewFile))
    BY <2>1, RemoveType
  <2> QED
    BY <1>2, <2>1, <2>2, PutType, CopyWritesThere
<1>5. Kept(disk, disk')
  BY StepKeeps DEF RelocatorNext
<1> QED
  BY <1>1, <1>3, <1>4, <1>5, WritingFacts, WritingRInv

\* The link in the bin directory.
LEMMA LinkExecutableRInv == ASSUME RInv, Outside, LinkExecutable PROVE RInv'
<1>1. /\ step = "bin" /\ step' = "patch"
      /\ disk' = disk \/ \E l \in ToLink : disk' = Symlink(disk, l.at, l.to)
      /\ UNCHANGED <<options, files, queue, tree, status, hashes, links, programs, runs,
                     faults, result, relocated>>
  BY NothingInTheWay DEF LinkExecutable, loader, call, counters
<1>2. step \in Writing /\ step' \in Writing
  BY <1>1 DEF Writing
<1>3. DOMAIN hashes # DOMAIN tree /\ DOMAIN tree # {}
  BY <1>1, <1>2, WritingFacts DEF TreeReady
<1>4. IsDisk(disk')
  <2>1. PICK file : file \in Files
    BY <1>2, <1>3, SomeFile
  <2> QED
    BY <1>1, <1>2, <2>1, WritingFacts, ToLinkType, SymlinkType
<1>5. Kept(disk, disk')
  BY StepKeeps DEF RelocatorNext
<1> QED
  BY <1>1, <1>2, <1>3, <1>4, <1>5, WritingFacts, WritingRInv

\* The patched copy; the dependent has a hash from now on.
LEMMA PatchRInv == ASSUME RInv, Outside, Patch PROVE RInv'
<1>1. /\ step = "patch" /\ step' = "copy"
      /\ UNCHANGED <<options, files, queue, tree, status, links, programs, runs,
                     faults, result, relocated>>
  BY DEF Patch, loader, counters
<1>2. step \in Writing /\ step' \in Writing
  BY <1>1 DEF Writing
<1>3. DOMAIN hashes # DOMAIN tree
  BY <1>1, <1>2, WritingFacts DEF TreeReady
<1>4. PICK elf \in Opened(disk, NewFile) :
        /\ disk' = disk \/ disk' = Put(disk, NewFile, Patched(elf, ParentDir(NewFile)))
        /\ hashes' = [path \in DOMAIN hashes \cup {Dependent} |->
                        IF path = Dependent THEN Hash(path) ELSE hashes[path]]
  BY DEF Patch, PatchedFile
<1>5. /\ NewFile \in Path /\ ParentDir(NewFile) \in Dir
      /\ Dependent \in DOMAIN tree /\ Hash(Dependent) \in Contents
  BY <1>2, <1>3, DependentFacts
<1>6. IsDisk(disk')
  <2>1. IsDisk(disk) /\ elf \in Files
    BY <1>2, WritingFacts, OpenedType
  <2>2. Patched(elf, ParentDir(NewFile)) \in Files
    BY <1>5, <2>1, PatchedType
  <2> QED
    BY <1>4, <1>5, <2>1, <2>2, PutType
<1>7. /\ DOMAIN hashes' \subseteq DOMAIN tree
      /\ hashes' \in [DOMAIN hashes' -> Contents]
  <2>1. DOMAIN hashes' = DOMAIN hashes \cup {Dependent}
    BY <1>4
  <2>2. \A path \in DOMAIN hashes' : hashes'[path] \in Contents
    BY <1>2, <1>4, <1>5, WritingFacts
  <2>3. hashes' \in [DOMAIN hashes' -> Contents]
    BY <1>4, <2>2
  <2> QED
    BY <1>2, <1>5, <2>1, <2>3, WritingFacts
<1>8. Kept(disk, disk')
  BY StepKeeps DEF RelocatorNext
<1> QED
  BY <1>1, <1>2, <1>6, <1>7, <1>8, WritingFacts, WritingRInv

\* The links are those from a dependent to a dependent.
LEMMA CopiedRInv == ASSUME RInv, Outside, Copied PROVE RInv'
<1>1. /\ step = "copy" /\ step' = "link" /\ DOMAIN tree = DOMAIN hashes
      /\ links' = UNION {{path} \X tree[path] : path \in DOMAIN tree}
      /\ UNCHANGED <<disk, options, files, queue, tree, status, hashes, programs, runs,
                     faults, result, relocated>>
  BY DEF Copied, loader, counters
<1>2. step \in Writing /\ step' \in Writing
  BY <1>1 DEF Writing
<1>3. links' \subseteq (DOMAIN tree) \X (DOMAIN tree)
  BY <1>1, <1>2, WritingFacts DEF TreeReady
<1>4. IsDisk(disk') /\ Kept(disk, disk')
  BY <1>1, <1>2, WritingFacts DEF Kept
<1> QED
  BY <1>1, <1>2, <1>3, <1>4, WritingFacts, WritingRInv

\* Every dependency that is linked has a hash.
LEMMA LinkRInv == ASSUME RInv, Outside, Link PROVE RInv'
<1>1. /\ step = "link" /\ links # {} /\ links' = links \ {NextLink}
      /\ UNCHANGED <<options, files, queue, tree, status, hashes, programs, runs, faults>>
  BY DEF Link, loader, counters
<1>2. step \in Writing /\ TreeReady
  BY <1>1, WritingFacts DEF Writing
<1>3. NextLink \in links
  BY <1>1 DEF NextLink
<1>4. /\ links \subseteq (DOMAIN tree) \X (DOMAIN tree)
      /\ DOMAIN hashes = DOMAIN tree
  BY <1>1, <1>2 DEF TreeReady
<1>5. NextLink[2] \in DOMAIN hashes /\ DOMAIN tree # {}
  BY <1>3, <1>4
<1>6. /\ \E l \in ToLink : disk' = Symlink(disk, l.at, l.to)
      /\ UNCHANGED <<step, result, relocated>>
  BY <1>5, NothingInTheWay DEF Link
<1>7. IsDisk(disk')
  <2>1. PICK file : file \in Files
    BY <1>2, <1>5, SomeFile
  <2> QED
    BY <1>2, <1>6, <2>1, WritingFacts, ToLinkType, SymlinkType
<1>8. Kept(disk, disk')
  BY StepKeeps DEF RelocatorNext
<1>9. links' \subseteq links /\ links' \subseteq (DOMAIN tree) \X (DOMAIN tree)
  BY <1>1, <1>4
<1> QED
  BY <1>1, <1>2, <1>4, <1>6, <1>7, <1>8, <1>9, WritingFacts, WritingRInv

\* The program has a hash too.
LEMMA RelocatedRInv == ASSUME RInv, Relocated PROVE RInv'
<1>1. /\ step = "link"
      /\ UNCHANGED <<disk, options, files, queue, tree, status, hashes, links, programs,
                     runs, faults>>
  BY DEF Relocated, loader, call, counters
<1>2. TreeReady
  BY <1>1 DEF RInv, Writing
<1>3. files[1] \in DOMAIN hashes
  BY <1>1, <1>2 DEF TreeReady
<1>4. /\ DOMAIN relocated' = DOMAIN relocated \cup {files[1]}
      /\ step' = "idle" /\ result' = "ok"
  BY <1>3 DEF Relocated
<1>5. files[1] \in programs
  BY <1>1 DEF RInv
<1>6. RelocatorTypeOK'
  <2>1. TypeOK'
    BY <1>1 DEF RInv, RelocatorTypeOK, TypeOK
  <2> QED
    BY <1>1, <1>4, <1>5, <2>1 DEF RInv, RelocatorTypeOK, Steps, Results
<1> QED
  BY <1>4, <1>6 DEF RInv, Writing

\* A call that is cut off.
LEMMA FaultRInv == ASSUME RInv, Fault PROVE RInv'
<1>1. /\ step \notin {"idle", "panicked"} /\ faults < MaxFaults /\ faults' = faults + 1
      /\ disk' \in CutOff /\ End("fault")
      /\ UNCHANGED <<options, files, queue, tree, status, hashes, links, programs, runs>>
  BY DEF Fault, loader, call
<1>2. IsDisk(disk')
  BY <1>1, CutOffType
<1>3. faults' \in 0..MaxFaults
  BY <1>1, BoundsAssumption DEF RInv, RelocatorTypeOK
<1>4. status' \in {"resolving", "done", "failed"}
  BY <1>1 DEF RInv, RelocatorTypeOK, TypeOK
<1>5. "fault" \in Results
  BY DEF Results
<1> QED
  BY <1>1, <1>2, <1>3, <1>4, <1>5, EndRInv

\* No call is in progress at first.
LEMMA InitRInv == RelocatorInit => RInv
<1> SUFFICES ASSUME RelocatorInit PROVE RInv
  OBVIOUS
<1>1. /\ files = <<>> /\ queue = <<>> /\ tree = <<>> /\ status = "done"
      /\ step = "idle" /\ hashes = <<>> /\ links = {} /\ result = "ok"
      /\ relocated = <<>> /\ runs = 0 /\ faults = 0
  BY DEF RelocatorInit
<1>2. PICK w \in Worlds : disk = w.disk /\ options = w.options /\ programs = Range(w.files)
  BY DEF RelocatorInit
<1>3. IsDisk(disk) /\ options \in Options /\ programs \subseteq Path
  <2>1. w.files \in Seq(Path)
    BY WorldsAssumption
  <2> QED
    BY <1>2, <2>1, WorldsAssumption DEF Range
<1>4. DOMAIN <<>> = {} /\ <<>> \in [{} -> SUBSET Path] /\ <<>> \in [{} -> Contents]
  OBVIOUS
<1>5. TypeOK
  BY <1>1, <1>3, <1>4 DEF TypeOK
<1>6. RelocatorTypeOK
  BY <1>1, <1>3, <1>4, <1>5, BoundsAssumption DEF RelocatorTypeOK, Steps, Results
<1> QED
  BY <1>1, <1>6 DEF RInv, Writing

\* Every step of relocate keeps the invariant, and what is outside of the target.
LEMMA NextRInv == (Outside => RInv) /\ [RelocatorNext]_allvars => (Outside => RInv)'
<1> SUFFICES ASSUME Outside => RInv, [RelocatorNext]_allvars, Outside' PROVE RInv'
  OBVIOUS
<1>1. CASE UNCHANGED allvars
  <2>1. UNCHANGED <<disk, options, files, queue, tree, status, programs, step, hashes, links,
                    result, relocated, runs, faults>>
    BY <1>1 DEF allvars, vars, call, counters
  <2>2. Outside
    BY <2>1 DEF Outside, Confined
  <2>3. IInv => IInv'
    BY <2>1, NextIInv DEF vars
  <2>4. RelocatorTypeOK'
    BY <2>1, <2>2 DEF RInv, RelocatorTypeOK, TypeOK
  <2>5. TreeReady => TreeReady'
    BY <2>1 DEF TreeReady
  <2>6. \A path : Opened(disk, path)' = Opened(disk, path)
    BY <2>1
  <2> QED
    BY <2>1, <2>2, <2>3, <2>4, <2>5, <2>6 DEF RInv
<1>2. CASE RelocatorNext
  <2>1. Kept(disk, disk') /\ UNCHANGED <<options, programs>>
    BY <1>2, StepKeeps
       DEF RelocatorNext, Start, Resolve, Unresolved, Resolved, Copy, LinkExecutable, Patch,
           Copied, Link, Relocated, Fault, AlreadyVisited, NoDependencies,
           ResolveDependencies, Fail, Finish, loader, counters
  <2>2. Outside /\ RInv
    BY <2>1, OutsideStays
  <2> QED
    BY <1>2, <2>2, StartRInv, ResolveRInv, UnresolvedRInv, ResolvedRInv, CopyRInv,
       LinkExecutableRInv, PatchRInv, CopiedRInv, LinkRInv, RelocatedRInv, FaultRInv
       DEF RelocatorNext
<1> QED
  BY <1>1, <1>2

-----------------------------------------------------------------------------
(* Theorems about relocate *)

\* No call, and no call that is cut off, changes a file outside of the target
\* directory, whatever links earlier calls left there.
THEOREM OriginalsAreKept == RelocatorSpec => OriginalsStay
<1>1. [RelocatorNext]_allvars =>
        [\A path \in DOMAIN disk :
           path.at # "target" => path \in DOMAIN disk' /\ disk'[path] = disk[path]]_disk
  BY StepKeeps DEF Kept, allvars, vars
<1> QED
  BY <1>1, PTL DEF RelocatorSpec, OriginalsStay

\* Nothing that a call finds makes it fail: what is at the place of a link has
\* been removed.
THEOREM CallsDoNotFail == RelocatorSpec => []NoErrorOfItsOwn
<1>1. RelocatorInit => NoErrorOfItsOwn
  BY DEF RelocatorInit, NoErrorOfItsOwn
<1>2. NoErrorOfItsOwn /\ [RelocatorNext]_allvars => NoErrorOfItsOwn'
  BY NothingInTheWay
     DEF NoErrorOfItsOwn, RelocatorNext, allvars, Start, Resolve, Unresolved,
         Resolved, Copy, LinkExecutable, Patch, Copied, Link, Relocated, Fault, End,
         Panic
<1> QED
  BY <1>1, <1>2, PTL DEF RelocatorSpec

\* The invariant holds as long as nothing outside of the target leads into it.
THEOREM RelocatorInvariant == RelocatorSpec => [](Outside => RInv)
<1>1. RelocatorInit => (Outside => RInv)
  BY InitRInv
<1> QED
  BY <1>1, NextRInv, PTL DEF RelocatorSpec

\* The files that relocate writes are well-formed, whatever is in the target.
THEOREM RelocatorTypeCorrect == RelocatorSpec => [](Outside => RelocatorTypeOK)
<1>1. RInv => RelocatorTypeOK
  BY DEF RInv
<1> QED
  BY <1>1, RelocatorInvariant, PTL

\* Each expect("Inserted above") of relocate finds a hash: the dependencies of the
\* dependents are dependents, and so is the program, whatever faults and earlier
\* calls there were, as long as no original is relative or leads into the target.
THEOREM RelocatorNeverPanics == RelocatorSpec => [](Outside => NeverPanics)
<1>1. RInv => NeverPanics
  BY DEF RInv, NeverPanics
<1> QED
  BY <1>1, RelocatorInvariant, PTL
-----------------------------------------------------------------------------
(* The files that the programs need *)

\* What becomes of the file that opens, and where.
Final(path) ==
  IF FileKind(Elf(path)) \in {"executable", "library"}
  THEN Patched(Elf(path), HashDir(Hash(path))) ELSE Elf(path)
New(path) == NewPath(path, Hash(path))

\* An original that can be loaded.
Sound(path) ==
  \E elf \in Opened(disk, path) :
    elf.kind = "elf" /\ (elf.dynamic => Resolves(disk, options, path, elf))

\* The smallest set that has the programs and is closed.
Reached ==
  {path \in PathsAt(Originals) :
     \A S \in SUBSET PathsAt(Originals) : programs \subseteq S /\ Closed(S) => path \in S}

\* What opens for an original names other originals.
LEMMA OpenedOutside ==
  ASSUME Outside, NEW path \in PathsAt(Originals), NEW elf \in Opened(disk, path)
  PROVE  elf \in FilesAt(Originals)
<1>1. Confined(Originals)
  BY DEF Outside, Originals
<1>2. RealPath(disk, path) \subseteq PathsAt(Originals)
  BY <1>1, RealPathStays DEF Confined
<1> QED
  BY <1>1, <1>2 DEF Opened, Confined

\* A name is found where it was found before.
LEMMA LookupStays ==
  ASSUME Kept(disk, disk'), Outside, NEW path \in PathsAt(Originals),
         NEW elf \in FilesAt(Originals), NEW name \in elf.needed
  PROVE  /\ Lookup(disk', SearchDirs(options, path, elf), name, elf)
              = Lookup(disk, SearchDirs(options, path, elf), name, elf)
         /\ \A lib \in Lookup(disk, SearchDirs(options, path, elf), name, elf) :
              Malformed(disk', lib) <=> Malformed(disk, lib)
<1>1. Confined(Originals) /\ "cwd" \notin Originals
  BY DEF Outside, Originals
<1>2. name \in Names
  BY DEF FilesAt, Files
<1>3. SearchDirs(options, path, elf) \in Seq(DirsAt(Originals))
  BY <1>1, SearchDirsStay DEF Confined
<1>4. PICK dirs \in Seq(DirsAt(Originals)) : dirs = SearchDirs(options, path, elf)
  BY <1>3
<1>5. \A i \in DOMAIN dirs : Opened(disk', Join(dirs[i], name)) = Opened(disk, Join(dirs[i], name))
  <2> TAKE i \in DOMAIN dirs
  <2>1. dirs[i] \in DirsAt(Originals)
    OBVIOUS
  <2>2. Join(dirs[i], name) \in PathsAt(Originals)
    BY <1>2, <2>1 DEF Join, DirsAt, PathsAt, Dir, Path
  <2> QED
    BY <2>2, OpenedStays
<1>6. Ends(disk', dirs, name, elf) = Ends(disk, dirs, name, elf)
  BY <1>5 DEF Ends, Compatible, Malformed
<1>7. \A d : Lookup(d, dirs, name, elf) =
        {Join(dirs[i], name) :
           i \in {i \in Ends(d, dirs, name, elf) : \A j \in Ends(d, dirs, name, elf) : i <= j}}
  BY DEF Lookup, Ends
<1>8. Lookup(disk', dirs, name, elf) = Lookup(disk, dirs, name, elf)
  BY <1>6, <1>7, Zenon
<1>9. \A lib \in Lookup(disk, dirs, name, elf) : Malformed(disk', lib) <=> Malformed(disk, lib)
  <2> TAKE lib \in Lookup(disk, dirs, name, elf)
  <2>1. PICK i \in DOMAIN dirs : lib = Join(dirs[i], name)
    BY DEF Lookup
  <2> QED
    BY <1>5, <2>1 DEF Malformed
<1> QED
  BY <1>4, <1>8, <1>9

\* Nothing about an original changes.
LEMMA OriginalStays ==
  ASSUME Kept(disk, disk'), Outside, UNCHANGED options, NEW path \in PathsAt(Originals)
  PROVE  /\ Opened(disk', path) = Opened(disk, path)
         /\ Elf(path)' = Elf(path) /\ Hash(path)' = Hash(path)
         /\ New(path)' = New(path) /\ Final(path)' = Final(path)
         /\ Deps(path)' = Deps(path) /\ (Sound(path)' <=> Sound(path))
<1>1. Opened(disk', path) = Opened(disk, path)
  BY OpenedStays
<1>2. Elf(path)' = Elf(path) /\ Hash(path)' = Hash(path)
  BY <1>1 DEF Elf, Hash
<1>3. New(path)' = New(path) /\ Final(path)' = Final(path)
  BY <1>2 DEF New, Final
<1>4. ASSUME NEW elf \in Opened(disk, path)
      PROVE  /\ Needed(disk', options, path, elf) = Needed(disk, options, path, elf)
             /\ Resolves(disk', options, path, elf) <=> Resolves(disk, options, path, elf)
  <2>1. elf \in FilesAt(Originals)
    BY OpenedOutside
  <2> DEFINE Found(d, name) == Lookup(d, SearchDirs(options, path, elf), name, elf)
  <2>2. \A name \in elf.needed :
          /\ Found(disk', name) = Found(disk, name)
          /\ \A lib \in Found(disk, name) : Malformed(disk', lib) <=> Malformed(disk, lib)
    BY <2>1, LookupStays
  <2>3. \A d : Needed(d, options, path, elf) =
                 elf.interp \cup UNION {Found(d, name) : name \in elf.needed}
    BY DEF Needed
  <2>4. \A d : Resolves(d, options, path, elf) <=>
                 \A name \in elf.needed : \E lib \in Found(d, name) : ~ Malformed(d, lib)
    BY DEF Resolves
  <2> HIDE DEF Found
  <2>5. {Found(disk', name) : name \in elf.needed} = {Found(disk, name) : name \in elf.needed}
    BY <2>2
  <2> QED
    BY <2>2, <2>3, <2>4, <2>5
<1>5. Deps(path)' = Deps(path)
  <2> DEFINE elfs == {elf \in Opened(disk, path) : elf.dynamic}
  <2>1. Deps(path) = UNION {Needed(disk, options, path, elf) : elf \in elfs}
    BY DEF Deps, Dependencies
  <2>2. Deps(path)' = UNION {Needed(disk', options, path, elf) : elf \in elfs}
    BY <1>1 DEF Deps, Dependencies
  <2>3. \A elf \in elfs : Needed(disk', options, path, elf) = Needed(disk, options, path, elf)
    BY <1>4
  <2> HIDE DEF elfs
  <2> QED
    BY <2>1, <2>2, <2>3
<1>6. Sound(path)' <=> Sound(path)
  BY <1>1, <1>4 DEF Sound
<1> QED
  BY <1>1, <1>2, <1>3, <1>5, <1>6

\* The programs need the same files as before.
LEMMA ReachedStays ==
  ASSUME Kept(disk, disk'), Outside, UNCHANGED <<options, programs>>
  PROVE  Reached' = Reached
<1>1. ASSUME NEW S \in SUBSET PathsAt(Originals) PROVE Closed(S)' <=> Closed(S)
  <2>1. \A path \in S : Dependencies(disk', options', path) = Dependencies(disk, options, path)
    BY OriginalStays DEF Deps
  <2> QED
    BY <2>1 DEF Closed
<1> QED
  BY <1>1 DEF Reached

\* It depends on nothing else.
LEMMA SameReached ==
  ASSUME UNCHANGED <<disk, options, programs>>
  PROVE  Reached' = Reached
<1>1. \A S : Closed(S)' <=> Closed(S)
  BY DEF Closed
<1> QED
  BY <1>1 DEF Reached

\* What they need is outside of the target, and has what it needs.
LEMMA ReachedNeeds ==
  ASSUME Outside
  PROVE  /\ programs \subseteq Reached /\ Reached \subseteq PathsAt(Originals)
         /\ \A path \in Reached : Deps(path) \subseteq Reached
<1>1. programs \subseteq PathsAt(Originals) /\ Confined(Originals) /\ "cwd" \notin Originals
  BY DEF Outside, Originals
<1>2. programs \subseteq Reached /\ Reached \subseteq PathsAt(Originals)
  BY <1>1 DEF Reached
<1>3. ASSUME NEW path \in Reached, NEW dep \in Deps(path) PROVE dep \in Reached
  <2>1. dep \in PathsAt(Originals)
    BY <1>1, <1>2, DependenciesStay DEF Deps
  <2>2. Rebase(options, dep) = dep
    BY <1>1, <2>1, RebaseAbsolute DEF Confined, PathsAt
  <2>3. ASSUME NEW S \in SUBSET PathsAt(Originals), programs \subseteq S, Closed(S)
        PROVE  dep \in S
    <3>1. path \in S
      BY <2>3 DEF Reached
    <3> QED
      BY <2>2, <2>3, <3>1 DEF Closed, Deps
  <2> QED
    BY <2>1, <2>3 DEF Reached
<1> QED
  BY <1>2, <1>3

\* So does the tree of a program.
LEMMA ReachedTree ==
  ASSUME IInv, queue = <<>>, Outside, NEW program \in programs, files = <<program>>
  PROVE  DOMAIN tree \subseteq Reached
<1>1. Range(files) = {program}
  BY DEF Range
<1>2. Confined(Originals) /\ "cwd" \notin Originals /\ program \in PathsAt(Originals)
  BY DEF Outside, Originals
<1>3. DOMAIN tree \subseteq PathsAt(Originals)
  BY <1>1, <1>2, ConfinedTree
<1>4. Arguments = {program}
  <2>1. Rebase(options, program) = program
    BY <1>2, RebaseAbsolute DEF Confined, PathsAt
  <2> QED
    BY <1>1, <2>1 DEF Arguments
<1>5. ASSUME NEW S \in SUBSET PathsAt(Originals), programs \subseteq S, Closed(S)
      PROVE  DOMAIN tree \subseteq S
  <2>1. S \in SUBSET Path /\ Arguments \subseteq S
    BY <1>4, <1>5 DEF PathsAt
  <2> QED
    BY <1>5, <2>1 DEF IInv, Bounded
<1> QED
  BY <1>3, <1>5 DEF Reached

-----------------------------------------------------------------------------
(* The bin directory of relocate *)

\* The link in the bin directory is there, and leads to no further link.
InBin(d, program, hash) ==
  LET at == Join(BinDir, program.name)
      new == NewPath(program, hash)
  IN  /\ at \in DOMAIN d /\ d[at].kind = "link" /\ d[at].link = {new}
      /\ new \in DOMAIN d => d[new].kind # "link"

\* The dependents that share no name with a program, but for the program itself.
TreeApart ==
  /\ \A path \in DOMAIN tree : path = files[1] \/ path.name \notin ProgramNames
  /\ \A path \in DOMAIN tree : \A dep \in tree[path] : dep.name \notin ProgramNames
  /\ step = "link" => \A pair \in links : pair[2].name \notin ProgramNames

\* The copy that is being made is that of the original.
CopyReady ==
  step \in {"bin", "patch"} /\ Dependent = files[1] =>
    /\ NewFile \in DOMAIN disk
    /\ disk[NewFile] \in Opened(disk, Dependent)
    /\ step = "patch" => InBin(disk, files[1], Hash(files[1]))

BinInv ==
  /\ step \in Writing => TreeApart /\ CopyReady
  /\ step \in Writing /\ files[1] \in DOMAIN hashes => InBin(disk, files[1], hashes[files[1]])
  /\ \A program \in DOMAIN relocated :
       program # files[1] \/ step \in {"idle", "resolve"} =>
         InBin(disk, program, relocated[program].hashes[program])

Relocatable == Outside /\ ProgramsApart(Reached)

\* What changes is at one path.
SameBut(old, new, x) ==
  \A path : path # x => /\ path \in DOMAIN old <=> path \in DOMAIN new
                        /\ path \in DOMAIN old => new[path] = old[path]

\* Each operation on files changes one path.
LEMMA OneChange ==
  ASSUME NEW d, NEW path, NEW file, NEW to
  PROVE  /\ SameBut(d, Put(d, path, file), path)
         /\ SameBut(d, Symlink(d, path, to), path)
         /\ SameBut(d, CopyFile(d, path, file), path)
<1>1. \A e, f : SameBut(e, Put(e, path, f), path)
  BY DEF SameBut, Put
<1>2. SameBut(d, RemoveFile(d, path), path)
  BY DEF SameBut, RemoveFile
<1>3. \A f : SameBut(d, Put(RemoveFile(d, path), path, f), path)
  BY <1>1, <1>2 DEF SameBut
<1> QED
  BY <1>1, <1>3, CopyWritesThere DEF Symlink

\* What is written there.
LEMMA Written ==
  ASSUME NEW d, NEW path, NEW file, NEW to
  PROVE  /\ path \in DOMAIN Put(d, path, file) /\ Put(d, path, file)[path] = file
         /\ path \in DOMAIN Symlink(d, path, to) /\ Symlink(d, path, to)[path] = LinkFile(to)
         /\ path \in DOMAIN CopyFile(d, path, file) /\ CopyFile(d, path, file)[path] = file
<1>1. \A e, f : path \in DOMAIN Put(e, path, f) /\ Put(e, path, f)[path] = f
  BY DEF Put
<1> QED
  BY <1>1, CopyWritesThere DEF Symlink

\* A file of another name is neither of the two.
LEMMA InBinStays ==
  ASSUME NEW x, SameBut(disk, disk', x), NEW program, x.name # program.name,
         NEW hash, InBin(disk, program, hash)
  PROVE  InBin(disk', program, hash)
<1>1. Join(BinDir, program.name) # x /\ NewPath(program, hash) # x
  BY DEF Join, NewPath
<1> QED
  BY <1>1 DEF InBin, SameBut

\* A disk that stays the same.
LEMMA InBinSame ==
  ASSUME disk' = disk, NEW program, NEW hash, InBin(disk, program, hash)
  PROVE  InBin(disk', program, hash)
BY DEF InBin

\* The names are as apart as they were.
LEMMA RelocatableBefore ==
  ASSUME Kept(disk, disk'), UNCHANGED <<options, programs>>, Relocatable'
  PROVE  Relocatable
<1>1. Outside
  BY OutsideStays DEF Relocatable
<1>2. Reached' = Reached /\ Reached \subseteq PathsAt(Originals)
  BY <1>1, ReachedStays, ReachedNeeds
<1>3. \A path \in Reached : Deps(path)' = Deps(path)
  BY <1>1, <1>2, OriginalStays
<1>4. \A program \in programs : Opened(disk', program) = Opened(disk, program)
  BY <1>1, OpenedStays DEF Outside, Originals
<1> QED
  BY <1>1, <1>2, <1>3, <1>4 DEF Relocatable, ProgramsApart, ProgramNames

\* What the tree of a program holds has the name of none, but for the program.
LEMMA NamesOfTree ==
  ASSUME IInv, queue = <<>>, Relocatable, NEW program \in programs, files = <<program>>
  PROVE  /\ \A path \in DOMAIN tree : path = files[1] \/ path.name \notin ProgramNames
         /\ \A path \in DOMAIN tree : \A dep \in tree[path] : dep.name \notin ProgramNames
<1>1. files[1] = program /\ Range(files) = {program}
  BY DEF Range
<1>2. Confined(Originals) /\ "cwd" \notin Originals /\ Range(files) \subseteq PathsAt(Originals)
  BY <1>1 DEF Relocatable, Outside, Originals
<1>3. DOMAIN tree \subseteq Range(files) \cup UNION {tree[path] : path \in DOMAIN tree}
  BY <1>2, ConfinedTree
<1>4. \A path \in DOMAIN tree : path \in Reached /\ tree[path] = Deps(path)
  BY ReachedTree DEF IInv, Deps, Relocatable
<1>5. \A path \in DOMAIN tree : \A dep \in tree[path] : dep.name \notin ProgramNames
  BY <1>4 DEF Relocatable, ProgramsApart
<1> QED
  BY <1>1, <1>3, <1>5

\* What a step knows of the call.
LEMMA ProgramOfCall ==
  ASSUME RInv, step # "idle"
  PROVE  files[1] \in programs
BY DEF RInv

\* A step that leaves the disk and the programs that were relocated.
LEMMA QuietBin ==
  ASSUME RInv, BinInv, step \in Writing, step' \in Writing, TreeApart', CopyReady',
         UNCHANGED <<disk, files, hashes, relocated, programs>>
  PROVE  BinInv'
<1>1. \A program, hash : InBin(disk, program, hash) => InBin(disk', program, hash)
  BY InBinSame
<1> QED
  BY <1>1 DEF BinInv, Writing

\* A step that writes to a path that has the name of no program but that of the call.
LEMMA OtherPrograms ==
  ASSUME RInv, BinInv, Relocatable, step \in Writing,
         NEW x, SameBut(disk, disk', x),
         x.name = files[1].name \/ x.name \notin ProgramNames,
         relocated' = relocated, files' = files
  PROVE  \A program \in DOMAIN relocated' : program # files'[1] =>
           InBin(disk', program, relocated'[program].hashes[program])
<1> SUFFICES ASSUME NEW program \in DOMAIN relocated, program # files[1]
             PROVE  InBin(disk', program, relocated[program].hashes[program])
  OBVIOUS
<1>1. program \in programs /\ files[1] \in programs
  BY ProgramOfCall DEF RInv, RelocatorTypeOK, Writing
<1>2. program.name # files[1].name /\ program.name \in ProgramNames
  BY <1>1 DEF Relocatable, ProgramsApart, ProgramNames
<1>3. InBin(disk, program, relocated[program].hashes[program])
  BY DEF BinInv
<1> QED
  BY <1>2, <1>3, InBinStays

\* A call that begins leaves the bin directory alone.
LEMMA StartBin ==
  ASSUME RInv, BinInv, NEW program \in programs, Start(program)
  PROVE  BinInv'
<1>1. step = "idle" /\ step' = "resolve" /\ UNCHANGED <<disk, relocated>>
  BY DEF Start
<1> QED
  BY <1>1, InBinSame DEF BinInv, Writing

\* So do the steps that look for dependencies.
LEMMA ResolveBin ==
  ASSUME BinInv, Resolve \/ Unresolved
  PROVE  BinInv'
<1>1. /\ step = "resolve" /\ step' \in {"idle", "resolve"}
      /\ UNCHANGED <<disk, relocated>>
  BY DEF Resolve, Unresolved, End, Fail, AlreadyVisited, NoDependencies, ResolveDependencies
<1> QED
  BY <1>1, InBinSame DEF BinInv, Writing

\* The tree that was found has the names apart.
LEMMA ResolvedBin ==
  ASSUME RInv, BinInv, Relocatable, Resolved
  PROVE  BinInv'
<1>1. /\ step = "resolve" /\ step' = "copy" /\ queue = <<>> /\ DOMAIN hashes = {}
      /\ UNCHANGED <<disk, relocated, tree, files, programs, hashes>>
  BY DEF Resolved, Finish, call, counters, RInv
<1>2. IInv /\ \E program \in programs : files = <<program>>
  BY <1>1 DEF RInv
<1>3. TreeApart'
  BY <1>1, <1>2, NamesOfTree DEF TreeApart, ProgramNames
<1>4. CopyReady'
  BY <1>1 DEF CopyReady
<1> QED
  BY <1>1, <1>3, <1>4, InBinSame DEF BinInv, Writing

\* The copy has the name of its original, and is no link.
LEMMA CopyBin ==
  ASSUME RInv, BinInv, Relocatable, Copy
  PROVE  BinInv'
<1>1. /\ step = "copy" /\ DOMAIN tree # DOMAIN hashes /\ step' = "bin"
      /\ UNCHANGED <<options, files, tree, hashes, links, programs, relocated>>
  BY DEF Copy, loader, call, counters
<1>2. PICK elf \in Opened(disk, Dependent) : disk' = CopyFile(disk, NewFile, elf)
  BY DEF Copy
<1>3. /\ step \in Writing /\ step' \in Writing
      /\ Dependent \in DOMAIN tree \ DOMAIN hashes /\ Dependent \in PathsAt(Originals)
      /\ NewFile.name = Dependent.name
  <2>1. step \in Writing
    BY <1>1 DEF Writing
  <2>2. NewFile.name = Dependent.name
    BY DEF NewFile, NewPath, Join
  <2> QED
    BY <1>1, <2>1, <2>2, DependentFacts DEF Writing
<1>4. TreeApart /\ TreeApart'
  BY <1>1, <1>3 DEF BinInv, TreeApart, ProgramNames
<1>5. Dependent.name = files[1].name \/ Dependent.name \notin ProgramNames
  BY <1>3, <1>4 DEF TreeApart
<1>6. SameBut(disk, disk', NewFile) /\ NewFile \in DOMAIN disk' /\ disk'[NewFile] = elf
  BY <1>2, OneChange, Written
<1>7. Opened(disk, Dependent)' = Opened(disk, Dependent)
      /\ NewFile' = NewFile /\ Dependent' = Dependent
  <2>1. Kept(disk, disk')
    BY <1>2, CopyKeeps, WritesInTarget
  <2>2. Dependent' = Dependent
    BY <1>1 DEF Dependent
  <2>3. Opened(disk', Dependent) = Opened(disk, Dependent)
    BY <1>3, <2>1, OpenedStays DEF Relocatable
  <2>4. Hash(Dependent)' = Hash(Dependent)
    BY <2>2, <2>3 DEF Hash
  <2> QED
    BY <2>2, <2>3, <2>4 DEF NewFile
<1>8. CopyReady'
  BY <1>1, <1>2, <1>6, <1>7 DEF CopyReady
<1>9. ASSUME files[1] \in DOMAIN hashes PROVE InBin(disk', files[1], hashes[files[1]])
  <2>1. Dependent # files[1] /\ InBin(disk, files[1], hashes[files[1]])
    BY <1>3, <1>9 DEF BinInv
  <2>2. files[1].name \in ProgramNames
    BY <1>1, ProgramOfCall DEF ProgramNames
  <2>3. NewFile.name # files[1].name
    BY <1>3, <1>4, <2>1, <2>2 DEF TreeApart
  <2> QED
    BY <1>6, <2>1, <2>3, InBinStays
<1>10. \A program \in DOMAIN relocated' : program # files'[1] =>
         InBin(disk', program, relocated'[program].hashes[program])
  BY <1>1, <1>3, <1>5, <1>6, OtherPrograms
<1> QED
  BY <1>1, <1>3, <1>4, <1>8, <1>9, <1>10 DEF BinInv

\* The dependent stays the same while its copy is made.
LEMMA SameDependent ==
  ASSUME RInv, Outside, step \in Writing, DOMAIN hashes # DOMAIN tree,
         Kept(disk, disk'), UNCHANGED <<options, tree, hashes>>
  PROVE  /\ Dependent' = Dependent /\ NewFile' = NewFile
         /\ Opened(disk, Dependent)' = Opened(disk, Dependent)
         /\ Hash(Dependent)' = Hash(Dependent)
<1>1. Dependent' = Dependent
  BY DEF Dependent
<1>2. Opened(disk', Dependent) = Opened(disk, Dependent)
  BY DependentFacts, OpenedStays
<1>3. Hash(Dependent)' = Hash(Dependent)
  BY <1>1, <1>2 DEF Hash
<1> QED
  BY <1>1, <1>2, <1>3 DEF NewFile

\* What is no link opens itself.
LEMMA NoLinkOpens ==
  ASSUME NEW d, NEW path \in DOMAIN d, d[path].kind # "link"
  PROVE  Opened(d, path) = {d[path]}
<1>1. Follow(d, {path}) = {path}
  BY DEF Follow
<1>2. RealPath(d, path) = {path}
  BY <1>1 DEF RealPath
<1> QED
  BY <1>2 DEF Opened

\* The copy of a program opens, and is an executable.
LEMMA CopyOpens ==
  ASSUME RInv, BinInv, Relocatable, step \in {"bin", "patch"}, Dependent = files[1]
  PROVE  /\ Opened(disk, NewFile) = {disk[NewFile]}
         /\ disk[NewFile].kind = "elf"
         /\ FileKind(disk[NewFile]) \in {"executable", "static"}
<1>1. step \in Writing /\ files[1] \in programs
  BY ProgramOfCall DEF Writing
<1>2. NewFile \in DOMAIN disk /\ disk[NewFile] \in Opened(disk, files[1])
  BY <1>1 DEF BinInv, CopyReady
<1>3. /\ disk[NewFile].kind = "elf"
      /\ FileKind(disk[NewFile]) \in {"executable", "static"}
  BY <1>1, <1>2 DEF Relocatable, ProgramsApart
<1> QED
  BY <1>2, <1>3, NoLinkOpens

\* The copy is in another directory than bin.
LEMMA BinApart ==
  ASSUME NEW hash \in Contents, NEW path, NEW name
  PROVE  Join(BinDir, name) # NewPath(path, hash)
BY PlacesAssumption DEF Join, BinDir, NewPath, HashDir

\* The link of a program is made for its copy.
LEMMA LinkExecutableBin ==
  ASSUME RInv, BinInv, Relocatable, LinkExecutable
  PROVE  BinInv'
<1> DEFINE at == Join(BinDir, Dependent.name)
<1>1. /\ step = "bin" /\ step' = "patch"
      /\ IF ToLink = {} THEN disk' = disk ELSE \E l \in ToLink : disk' = Symlink(disk, l.at, l.to)
      /\ UNCHANGED <<options, files, tree, hashes, links, programs, relocated>>
  BY NothingInTheWay DEF LinkExecutable, loader, call, counters
<1>2. /\ step \in Writing /\ step' \in Writing /\ Outside
      /\ TreeReady /\ DOMAIN hashes # DOMAIN tree
  <2>1. step \in Writing /\ step' \in Writing
    BY <1>1 DEF Writing
  <2> QED
    BY <1>1, <2>1 DEF RInv, TreeReady, Relocatable
<1>3. /\ Dependent \in DOMAIN tree \ DOMAIN hashes
      /\ Hash(Dependent) \in Contents
      /\ at.name = Dependent.name
  <2>1. at.name = Dependent.name
    BY DEF Join
  <2> QED
    BY <1>2, <2>1, DependentFacts
<1>4. TreeApart /\ TreeApart'
  BY <1>1, <1>2 DEF BinInv, TreeApart, ProgramNames
<1>5. Dependent.name = files[1].name \/ Dependent.name \notin ProgramNames
  BY <1>3, <1>4 DEF TreeApart
<1>6. disk' = disk \/ disk' = Symlink(disk, at, NewFile)
  <2>1. \A l \in ToLink : l.at = at /\ l.to = NewFile
    BY <1>1 DEF ToLink
  <2> QED
    BY <1>1, <2>1
<1> HIDE DEF at
<1>7. SameBut(disk, disk', at)
  <2>1. CASE disk' = disk
    BY <2>1 DEF SameBut
  <2>2. CASE disk' = Symlink(disk, at, NewFile)
    <3>1. SameBut(disk, Symlink(disk, at, NewFile), at)
      BY OneChange
    <3> QED
      BY <2>2, <3>1
  <2> QED
    BY <1>6, <2>1, <2>2
<1>8. /\ Dependent' = Dependent /\ NewFile' = NewFile
      /\ Opened(disk, Dependent)' = Opened(disk, Dependent)
      /\ Hash(Dependent)' = Hash(Dependent)
  <2>1. Kept(disk, disk')
    BY StepKeeps DEF RelocatorNext
  <2> QED
    BY <1>1, <1>2, <2>1, SameDependent
<1>9. ASSUME Dependent = files[1]
      PROVE  /\ NewFile \in DOMAIN disk'
             /\ disk'[NewFile] \in Opened(disk, Dependent)
             /\ InBin(disk', files[1], Hash(files[1]))
  <2>1. /\ Opened(disk, NewFile) = {disk[NewFile]} /\ disk[NewFile].kind = "elf"
        /\ FileKind(disk[NewFile]) \in {"executable", "static"}
    BY <1>1, <1>9, CopyOpens
  <2>2. NewFile \in DOMAIN disk /\ disk[NewFile] \in Opened(disk, Dependent)
    BY <1>1, <1>2, <1>9 DEF BinInv, CopyReady
  <2>3. NewFile # at
    BY <1>3, BinApart DEF NewFile, at
  <2>4. NewFile \in DOMAIN disk' /\ disk'[NewFile] = disk[NewFile]
    BY <1>7, <2>2, <2>3 DEF SameBut
  <2>5. disk' = Symlink(disk, at, NewFile)
    <3>1. [at |-> at, to |-> NewFile] \in ToLink
      BY <1>1, <2>1 DEF ToLink, at
    <3>2. \A l \in ToLink : l.at = at /\ l.to = NewFile
      BY <1>1 DEF ToLink, at
    <3> QED
      BY <1>1, <3>1, <3>2
  <2>6. at \in DOMAIN disk' /\ disk'[at] = LinkFile(NewFile)
    BY <2>5, Written
  <2>7. disk'[at].kind = "link" /\ disk'[at].link = {NewFile}
    BY <2>6 DEF LinkFile, Special
  <2> QED
    BY <1>9, <2>1, <2>2, <2>4, <2>6, <2>7 DEF InBin, at, NewFile
<1>10. CopyReady'
  <2>1. Hash(files[1])' = Hash(files[1]) \/ Dependent # files[1]
    BY <1>1, <1>8
  <2> QED
    BY <1>1, <1>8, <1>9, <2>1 DEF CopyReady
<1>11. ASSUME files[1] \in DOMAIN hashes PROVE InBin(disk', files[1], hashes[files[1]])
  <2>1. Dependent # files[1] /\ InBin(disk, files[1], hashes[files[1]])
    BY <1>2, <1>3, <1>11 DEF BinInv
  <2>2. files[1].name \in ProgramNames
    BY <1>1, ProgramOfCall DEF ProgramNames
  <2>3. at.name # files[1].name
    BY <1>3, <1>4, <2>1, <2>2 DEF TreeApart
  <2> QED
    BY <1>7, <2>1, <2>3, InBinStays
<1>12. \A program \in DOMAIN relocated' : program # files'[1] =>
         InBin(disk', program, relocated'[program].hashes[program])
  BY <1>1, <1>2, <1>3, <1>5, <1>7, OtherPrograms
<1> QED
  BY <1>1, <1>2, <1>4, <1>10, <1>11, <1>12 DEF BinInv

\* The copy that is patched stays at the end of the link.
LEMMA PatchBin ==
  ASSUME RInv, BinInv, Relocatable, Patch
  PROVE  BinInv'
<1>1. /\ step = "patch" /\ step' = "copy"
      /\ UNCHANGED <<options, files, tree, links, programs, relocated>>
  BY DEF Patch, loader, counters
<1>2. PICK elf \in Opened(disk, NewFile) :
        /\ disk' = IF FileKind(elf) \in {"executable", "library"}
                   THEN Put(disk, NewFile, Patched(elf, ParentDir(NewFile)))
                   ELSE disk
        /\ hashes' =
             [path \in DOMAIN hashes \cup {Dependent} |->
                IF path = Dependent THEN Hash(path) ELSE hashes[path]]
  BY DEF Patch, PatchedFile
<1>3. step \in Writing /\ step' \in Writing /\ Outside /\ DOMAIN hashes # DOMAIN tree
  <2>1. step \in Writing /\ step' \in Writing
    BY <1>1 DEF Writing
  <2> QED
    BY <1>1, <2>1 DEF RInv, TreeReady, Relocatable
<1>4. /\ Dependent \in DOMAIN tree \ DOMAIN hashes
      /\ NewFile.name = Dependent.name
  <2>1. NewFile.name = Dependent.name
    BY DEF NewFile, NewPath, Join
  <2> QED
    BY <1>3, <2>1, DependentFacts
<1>5. TreeApart /\ TreeApart'
  BY <1>1, <1>3 DEF BinInv, TreeApart, ProgramNames
<1>6. Dependent.name = files[1].name \/ Dependent.name \notin ProgramNames
  BY <1>4, <1>5 DEF TreeApart
<1>7. SameBut(disk, disk', NewFile)
  <2>1. SameBut(disk, Put(disk, NewFile, Patched(elf, ParentDir(NewFile))), NewFile)
    BY OneChange
  <2>2. SameBut(disk, disk, NewFile)
    BY DEF SameBut
  <2> QED
    BY <1>2, <2>1, <2>2
<1>8. CopyReady'
  BY <1>1 DEF CopyReady
<1>9. ASSUME Dependent = files[1] PROVE InBin(disk', files[1], hashes'[files[1]])
  <2>1. hashes'[files[1]] = Hash(files[1])
    BY <1>2, <1>9
  <2>2. InBin(disk, files[1], Hash(files[1])) /\ NewFile \in DOMAIN disk
    BY <1>1, <1>3, <1>9 DEF BinInv, CopyReady
  <2>3. elf.kind = "elf"
    BY <1>1, <1>2, <1>9, CopyOpens
  <2>4. elf \in Files
    BY <1>2, OpenedType DEF RInv, RelocatorTypeOK, TypeOK
  <2>5. Patched(elf, ParentDir(NewFile)).kind # "link"
    BY <2>3, <2>4 DEF Patched, Files
  <2> DEFINE patched == Patched(elf, ParentDir(NewFile))
  <2>6. disk'[NewFile].kind # "link" \/ disk' = disk
    <3>1. Put(disk, NewFile, patched)[NewFile] = patched
      BY Written
    <3>2. disk' = Put(disk, NewFile, patched) \/ disk' = disk
      BY <1>2
    <3>3. patched.kind # "link"
      BY <2>5
    <3> HIDE DEF patched
    <3> QED
      BY <3>1, <3>2, <3>3
  <2>7. Join(BinDir, files[1].name) # NewFile
    BY <1>3, DependentFacts, BinApart DEF NewFile
  <2>8. NewFile = NewPath(files[1], Hash(files[1]))
    BY <1>9 DEF NewFile
  <2> DEFINE at == Join(BinDir, files[1].name)
  <2>9. at \in DOMAIN disk /\ disk[at].kind = "link" /\ disk[at].link = {NewFile}
        /\ disk[NewFile].kind # "link"
    BY <2>2, <2>8 DEF InBin
  <2> HIDE DEF at
  <2>10. at \in DOMAIN disk' /\ disk'[at] = disk[at]
    BY <1>7, <2>7, <2>9 DEF SameBut, at
  <2>11. disk'[NewFile].kind # "link"
    BY <2>6, <2>9
  <2>12. InBin(disk', files[1], Hash(files[1]))
    BY <2>8, <2>9, <2>10, <2>11 DEF InBin, at
  <2> QED
    BY <2>1, <2>12
<1>10. ASSUME files[1] \in DOMAIN hashes, Dependent # files[1]
       PROVE  InBin(disk', files[1], hashes'[files[1]])
  <2>1. hashes'[files[1]] = hashes[files[1]] /\ InBin(disk, files[1], hashes[files[1]])
    BY <1>2, <1>3, <1>10 DEF BinInv
  <2>2. files[1].name \in ProgramNames
    BY <1>1, ProgramOfCall DEF ProgramNames
  <2>3. NewFile.name # files[1].name
    BY <1>4, <1>5, <1>10, <2>2 DEF TreeApart
  <2> QED
    BY <1>7, <2>1, <2>3, InBinStays
<1>11. files[1] \in DOMAIN hashes' => files[1] \in DOMAIN hashes \/ Dependent = files[1]
  BY <1>2
<1>12. \A program \in DOMAIN relocated' : program # files'[1] =>
         InBin(disk', program, relocated'[program].hashes[program])
  BY <1>1, <1>3, <1>4, <1>6, <1>7, OtherPrograms
<1> QED
  BY <1>1, <1>3, <1>5, <1>8, <1>9, <1>10, <1>11, <1>12 DEF BinInv

\* Nothing that is linked has the name of a program.
LEMMA CopiedBin ==
  ASSUME RInv, BinInv, Copied
  PROVE  BinInv'
<1>1. /\ step = "copy" /\ step' = "link"
      /\ links' = UNION {{path} \X tree[path] : path \in DOMAIN tree}
      /\ UNCHANGED <<disk, files, tree, hashes, relocated, programs>>
  BY DEF Copied, loader, counters
<1>2. step \in Writing /\ step' \in Writing
  BY <1>1 DEF Writing
<1>3. TreeApart
  BY <1>2 DEF BinInv
<1>4. \A pair \in links' : pair[2].name \notin ProgramNames
  <2> SUFFICES ASSUME NEW pair \in links' PROVE pair[2].name \notin ProgramNames
    OBVIOUS
  <2>1. PICK path \in DOMAIN tree : pair \in {path} \X tree[path]
    BY <1>1
  <2>2. pair[2] \in tree[path]
    BY <2>1
  <2> QED
    BY <1>3, <2>2 DEF TreeApart
<1>5. TreeApart'
  BY <1>1, <1>3, <1>4 DEF TreeApart, ProgramNames
<1>6. CopyReady'
  BY <1>1 DEF CopyReady
<1> QED
  BY <1>1, <1>2, <1>5, <1>6, QuietBin

\* A dependency that is linked has the name of no program.
LEMMA LinkBin ==
  ASSUME RInv, BinInv, Relocatable, Link
  PROVE  BinInv'
<1>1. /\ step = "link" /\ links # {} /\ links' = links \ {NextLink}
      /\ UNCHANGED <<files, tree, hashes, programs>>
  BY DEF Link, loader, counters
<1>2. step \in Writing /\ TreeReady /\ TreeApart
  BY <1>1 DEF RInv, BinInv, Writing
<1>3. NextLink \in links /\ NextLink[2] \in DOMAIN hashes
  <2>1. NextLink \in links
    BY <1>1 DEF NextLink
  <2> QED
    BY <1>1, <1>2, <2>1 DEF TreeReady
<1>4. PICK l \in ToLink : disk' = Symlink(disk, l.at, l.to) /\ UNCHANGED <<step, relocated>>
  BY <1>3, NothingInTheWay DEF Link
<1>5. l.at.name \notin ProgramNames
  <2>1. l.at.name = NextLink[2].name
    BY <1>1, <1>4 DEF ToLink, Join
  <2> QED
    BY <1>1, <1>2, <1>3, <2>1 DEF TreeApart
<1>6. SameBut(disk, disk', l.at)
  BY <1>4, OneChange
<1>7. TreeApart' /\ CopyReady'
  BY <1>1, <1>2, <1>4 DEF TreeApart, ProgramNames, CopyReady
<1>8. ASSUME files[1] \in DOMAIN hashes PROVE InBin(disk', files[1], hashes[files[1]])
  <2>1. files[1].name \in ProgramNames
    BY <1>1, ProgramOfCall DEF ProgramNames
  <2>2. InBin(disk, files[1], hashes[files[1]])
    BY <1>2, <1>8 DEF BinInv
  <2> QED
    BY <1>5, <1>6, <2>1, <2>2, InBinStays
<1>9. \A program \in DOMAIN relocated' : program # files'[1] =>
        InBin(disk', program, relocated'[program].hashes[program])
  BY <1>1, <1>2, <1>4, <1>5, <1>6, OtherPrograms
<1> QED
  BY <1>1, <1>2, <1>4, <1>7, <1>8, <1>9 DEF BinInv, Writing

\* The program joins those that were relocated.
LEMMA RelocatedBin ==
  ASSUME RInv, BinInv, Relocated
  PROVE  BinInv'
<1>1. step = "link" /\ UNCHANGED <<disk, files>>
  BY DEF Relocated, loader
<1>2. TreeReady /\ step \in Writing
  BY <1>1 DEF RInv, Writing
<1>3. files[1] \in DOMAIN hashes
  BY <1>1, <1>2 DEF TreeReady
<1>4. /\ step' = "idle"
      /\ relocated' = [p \in DOMAIN relocated \cup {files[1]} |->
                          IF p = files[1] THEN [tree |-> tree, hashes |-> hashes]
                          ELSE relocated[p]]
  BY <1>3 DEF Relocated
<1>5. SUFFICES ASSUME NEW program \in DOMAIN relocated'
               PROVE  InBin(disk', program, relocated'[program].hashes[program])
  BY <1>4 DEF BinInv, Writing
<1>6. CASE program = files[1]
  <2>1. relocated'[program].hashes = hashes
    BY <1>4, <1>6
  <2>2. InBin(disk, program, hashes[program])
    BY <1>2, <1>3, <1>6 DEF BinInv
  <2> QED
    BY <1>1, <2>1, <2>2, InBinSame
<1>7. CASE program # files[1]
  <2>1. program \in DOMAIN relocated /\ relocated'[program] = relocated[program]
    BY <1>4, <1>7
  <2>2. InBin(disk, program, relocated[program].hashes[program])
    BY <1>7, <2>1 DEF BinInv
  <2> QED
    BY <1>1, <2>1, <2>2, InBinSame
<1> QED
  BY <1>6, <1>7

\* After a fault nothing is said of the programs.
LEMMA FaultBin ==
  ASSUME Fault
  PROVE  BinInv'
<1>1. step' = "idle" /\ relocated' = <<>>
  BY DEF Fault, End
<1> QED
  BY <1>1 DEF BinInv, Writing

\* Every step of relocate keeps the links in the bin directory.
LEMMA NextBinInv ==
  (Relocatable => RInv /\ BinInv) /\ [RelocatorNext]_allvars
    => (Relocatable => RInv /\ BinInv)'
<1> SUFFICES ASSUME Relocatable => RInv /\ BinInv, [RelocatorNext]_allvars, Relocatable'
             PROVE  RInv' /\ BinInv'
  OBVIOUS
<1>1. Kept(disk, disk') /\ UNCHANGED <<options, programs>>
  <2>1. CASE UNCHANGED allvars
    BY <2>1 DEF Kept, allvars, vars, counters
  <2>2. CASE RelocatorNext
    BY <2>2, StepKeeps
       DEF RelocatorNext, Start, Resolve, Unresolved, Resolved, Copy, LinkExecutable, Patch,
           Copied, Link, Relocated, Fault, AlreadyVisited, NoDependencies,
           ResolveDependencies, Fail, Finish, loader, counters
  <2> QED
    BY <2>1, <2>2
<1>2. Relocatable /\ RInv /\ BinInv
  BY <1>1, RelocatableBefore
<1>3. RInv'
  <2>1. Outside /\ Outside'
    BY <1>2 DEF Relocatable
  <2> QED
    BY <1>2, <2>1, NextRInv
<1>4. BinInv'
  <2>1. CASE UNCHANGED allvars
    <3>1. UNCHANGED <<disk, files, tree, programs, step, hashes, links, relocated>>
      BY <2>1 DEF allvars, vars, call, counters
    <3>2. \A program, hash : InBin(disk, program, hash) => InBin(disk', program, hash)
      BY <3>1, InBinSame
    <3>3. Dependent' = Dependent /\ \A path : Opened(disk, path)' = Opened(disk, path)
      BY <3>1 DEF Dependent
    <3>4. ASSUME NEW path PROVE Hash(path)' = Hash(path)
      <4>1. Opened(disk', path) = Opened(disk, path)
        BY <3>1
      <4> QED
        BY <4>1 DEF Hash
    <3>5. NewFile' = NewFile
      BY <3>3, <3>4 DEF NewFile
    <3>6. TreeApart => TreeApart'
      BY <3>1 DEF TreeApart, ProgramNames
    <3>7. CopyReady => CopyReady'
      BY <3>1, <3>2, <3>3, <3>4, <3>5 DEF CopyReady
    <3> QED
      BY <1>2, <3>1, <3>2, <3>6, <3>7 DEF BinInv
  <2>2. CASE RelocatorNext
    BY <1>2, <2>2, StartBin, ResolveBin, ResolvedBin, CopyBin, LinkExecutableBin, PatchBin,
       CopiedBin, LinkBin, RelocatedBin, FaultBin
       DEF RelocatorNext
  <2> QED
    BY <2>1, <2>2
<1> QED
  BY <1>3, <1>4

\* A link that leads to no link ends at the copy.
LEMMA BinInvInBin == ASSUME BinInv PROVE ExecutablesInBin
<1> SUFFICES ASSUME step = "idle", NEW program \in DOMAIN relocated
             PROVE  RealPath(disk, Join(BinDir, program.name))
                      = {NewPath(program, relocated[program].hashes[program])}
  BY DEF ExecutablesInBin
<1> DEFINE at == Join(BinDir, program.name)
           new == NewPath(program, relocated[program].hashes[program])
<1>1. InBin(disk, program, relocated[program].hashes[program])
  BY DEF BinInv
<1>2. /\ at \in DOMAIN disk /\ disk[at].kind = "link" /\ disk[at].link = {new}
      /\ new \in DOMAIN disk => disk[new].kind # "link"
  BY <1>1 DEF InBin
<1> HIDE DEF at, new
<1>3. Follow(disk, {at}) = {new}
  BY <1>2 DEF Follow
<1>4. Follow(disk, {new}) = {new}
  BY <1>2 DEF Follow
<1>5. RealPath(disk, at) = {new}
  BY <1>3, <1>4 DEF RealPath
<1> QED
  BY <1>5 DEF at, new

\* "All executables are symlinked into directory/bin.": when no call is in progress
\* the link of each program that was relocated leads to its copy, whatever calls for
\* the other programs did since, and whatever faults and leftovers there were before,
\* as long as the programs are executables, and no two of them, and none of them and
\* a library that one needs, share a name.
THEOREM ProgramsAreInBin == RelocatorSpec => [](Relocatable => ExecutablesInBin)
<1>1. RelocatorInit => (Relocatable => RInv /\ BinInv)
  BY InitRInv DEF RelocatorInit, BinInv, Writing
<1>2. (Relocatable => RInv /\ BinInv) => (Relocatable => ExecutablesInBin)
  BY BinInvInBin
<1> QED
  BY <1>1, <1>2, NextBinInv, PTL DEF RelocatorSpec
-----------------------------------------------------------------------------
(* What the copies are made of *)

Readable == {path \in Reached : Opened(disk, path) # {}}

Workable == Outside /\ HashesTell(Readable)

\* The copy, and the link to one of its dependencies.
CopyMade(d, path) == New(path) \in DOMAIN d /\ d[New(path)] = Final(path)
LinkMade(d, path, dep) ==
  LET at == Join(HashDir(Hash(path)), dep.name)
  IN  at \in DOMAIN d /\ d[at] = LinkFile(New(dep))

\* The dependents of the programs that were relocated, and what was copied since.
Done == UNION {DOMAIN relocated[program].tree : program \in DOMAIN relocated}
Made == Done \cup (IF step \in Writing THEN DOMAIN hashes ELSE {})

TreesSound ==
  /\ step # "idle" => \A path \in DOMAIN tree : Sound(path)
  /\ step \in Writing => /\ \A path \in DOMAIN tree : path \in Reached /\ tree[path] = Deps(path)
                         /\ \A path \in DOMAIN hashes : hashes[path] = Hash(path)
  /\ \A program \in DOMAIN relocated :
       \A path \in DOMAIN relocated[program].tree :
         /\ path \in Reached /\ Sound(path)
         /\ relocated[program].hashes[path] = Hash(path)
         /\ relocated[program].tree[path] = Deps(path)
         /\ Deps(path) \subseteq DOMAIN relocated[program].tree

\* Only the copy that is being made is not patched.
FilesMade ==
  /\ step \in {"bin", "patch"} => NewFile \in DOMAIN disk /\ disk[NewFile] = Elf(Dependent)
  /\ \A path \in Made : \/ CopyMade(disk, path)
                        \/ step \in {"bin", "patch"} /\ New(path) = NewFile

LinksMade ==
  /\ \A path \in Done : \A dep \in Deps(path) : LinkMade(disk, path, dep)
  /\ step = "link" => \A path \in DOMAIN tree : \A dep \in tree[path] :
                        <<path, dep>> \in links \/ LinkMade(disk, path, dep)
  /\ step = "link" => \A pair \in links : pair[2] \in tree[pair[1]]

WorkInv == TreesSound /\ FilesMade /\ LinksMade

\* The originals were as easy to tell apart.
LEMMA WorkableBefore ==
  ASSUME Kept(disk, disk'), UNCHANGED <<options, programs>>, Workable'
  PROVE  Workable
<1>1. Outside
  BY OutsideStays DEF Workable
<1>2. Reached' = Reached /\ Reached \subseteq PathsAt(Originals)
      /\ \A path \in Reached : Deps(path) \subseteq Reached
  BY <1>1, ReachedStays, ReachedNeeds
<1>3. \A path \in Reached :
        /\ Opened(disk', path) = Opened(disk, path)
        /\ Elf(path)' = Elf(path) /\ Hash(path)' = Hash(path) /\ Deps(path)' = Deps(path)
  BY <1>1, <1>2, OriginalStays
<1>4. Readable' = Readable
  BY <1>2, <1>3 DEF Readable
<1>5. Readable \subseteq Reached
  BY DEF Readable
<1>6. HashesTell(Readable)
  BY <1>2, <1>3, <1>4, <1>5 DEF Workable, HashesTell
<1> QED
  BY <1>1, <1>6 DEF Workable

-----------------------------------------------------------------------------
(* A copy with its links runs *)

\* The one file that opens for an original.
LEMMA TheFile ==
  ASSUME Workable, IsDisk(disk), NEW path \in Reached, Opened(disk, path) # {}
  PROVE  /\ path \in Readable
         /\ Opened(disk, path) = {Elf(path)}
         /\ Elf(path) \in Files /\ Elf(path) \in FilesAt(Originals)
         /\ Hash(path) = Elf(path).content /\ Hash(path) \in Contents
<1>1. path \in Readable
  BY DEF Readable
<1>2. Elf(path) \in Opened(disk, path)
  BY DEF Elf
<1>3. Opened(disk, path) = {Elf(path)}
  BY <1>1, <1>2 DEF Workable, HashesTell
<1>4. Elf(path) \in Files /\ Elf(path) \in FilesAt(Originals)
  BY <1>2, OpenedType, OpenedOutside, ReachedNeeds DEF Workable
<1>5. Hash(path) = Elf(path).content
  BY DEF Hash, Elf
<1> QED
  BY <1>1, <1>3, <1>4, <1>5 DEF Files

\* It is an ELF file that can be loaded.
LEMMA SoundFile ==
  ASSUME Workable, IsDisk(disk), NEW path \in Reached, Sound(path)
  PROVE  /\ Opened(disk, path) # {}
         /\ Elf(path).kind = "elf"
         /\ Elf(path).dynamic => Resolves(disk, options, path, Elf(path))
         /\ Deps(path) = IF Elf(path).dynamic THEN Needed(disk, options, path, Elf(path)) ELSE {}
<1>1. PICK elf \in Opened(disk, path) :
        elf.kind = "elf" /\ (elf.dynamic => Resolves(disk, options, path, elf))
  BY DEF Sound
<1>2. Opened(disk, path) = {Elf(path)}
  BY <1>1, TheFile
<1>3. Deps(path) = UNION {Needed(disk, options, path, f) :
                            f \in {e \in {Elf(path)} : e.dynamic}}
  BY <1>2 DEF Deps, Dependencies
<1> DEFINE needed == Needed(disk, options, path, Elf(path))
<1>4. Deps(path) = IF Elf(path).dynamic THEN needed ELSE {}
  <2>1. CASE Elf(path).dynamic
    <3>1. {e \in {Elf(path)} : e.dynamic} = {Elf(path)}
      BY <2>1
    <3>2. Deps(path) = needed
      BY <1>3, <3>1
    <3> QED
      BY <2>1, <3>2
  <2>2. CASE ~ Elf(path).dynamic
    <3>1. {e \in {Elf(path)} : e.dynamic} = {}
      BY <2>2
    <3>2. Deps(path) = {}
      BY <1>3, <3>1
    <3> QED
      BY <2>2, <3>2
  <2> QED
    BY <2>1, <2>2
<1> QED
  BY <1>1, <1>2, <1>4

\* What patching keeps and sets.
LEMMA PatchedFacts ==
  ASSUME NEW elf \in Files, NEW dir
  PROVE  /\ Patched(elf, dir).kind = elf.kind /\ Patched(elf, dir).arch = elf.arch
         /\ Patched(elf, dir).dynamic = elf.dynamic /\ Patched(elf, dir).needed = elf.needed
         /\ Patched(elf, dir).interp = {Join(dir, path.name) : path \in elf.interp}
         /\ elf.dynamic => Patched(elf, dir).rpath = <<>> /\ Patched(elf, dir).runpath = <<dir>>
BY DEF Patched, Files

\* The copy is a file of the same kind.
LEMMA FinalFacts ==
  ASSUME Workable, IsDisk(disk), NEW path \in Reached, Opened(disk, path) # {}
  PROVE  /\ Final(path) \in Files
         /\ Final(path).kind = Elf(path).kind /\ Final(path).arch = Elf(path).arch
         /\ Final(path).dynamic = Elf(path).dynamic /\ Final(path).needed = Elf(path).needed
<1>1. Elf(path) \in Files /\ Hash(path) \in Contents
  BY TheFile
<1>2. HashDir(Hash(path)) \in Dir
  BY <1>1, PlacesAssumption DEF HashDir, Dir, Starts
<1> QED
  BY <1>1, <1>2, PatchedFacts, PatchedType DEF Final

\* The copy opens.
LEMMA CopyIsOpened ==
  ASSUME Workable, IsDisk(disk), NEW path \in Reached, Sound(path),
         CopyMade(disk, path)
  PROVE  /\ Opened(disk, New(path)) = {Final(path)}
         /\ New(path) \in DOMAIN disk /\ disk[New(path)].kind # "link"
<1>1. Final(path).kind = "elf"
  BY SoundFile, FinalFacts
<1>2. New(path) \in DOMAIN disk /\ disk[New(path)] = Final(path)
  BY DEF CopyMade
<1> QED
  BY <1>1, <1>2, NoLinkOpens

\* So does the link to it.
LEMMA LinkLeads ==
  ASSUME NEW d, NEW at \in DOMAIN d, NEW new \in DOMAIN d,
         d[at] = LinkFile(new), d[new].kind # "link"
  PROVE  RealPath(d, at) = {new} /\ Opened(d, at) = {d[new]}
<1>1. d[at].kind = "link" /\ d[at].link = {new}
  BY DEF LinkFile, Special
<1>2. Follow(d, {at}) = {new} /\ Follow(d, {new}) = {new}
  BY <1>1 DEF Follow
<1>3. RealPath(d, at) = {new}
  BY <1>2 DEF RealPath
<1> QED
  BY <1>3 DEF Opened

\* A name that is in the first directory is found there.
LEMMA FirstDirFound ==
  ASSUME NEW d, NEW dir \in Dir, NEW others \in Seq(Dir), NEW name, NEW elf,
         Compatible(d, Join(dir, name), elf)
  PROVE  Lookup(d, <<dir>> \o others, name, elf) = {Join(dir, name)}
<1>1. PICK dirs \in Seq(Dir) : dirs = <<dir>> \o others
  <2>1. <<dir>> \in Seq(Dir)
    OBVIOUS
  <2>2. <<dir>> \o others \in Seq(Dir)
    BY <2>1
  <2> QED
    BY <2>2
<1>2. 1 \in DOMAIN dirs /\ dirs[1] = dir /\ \A i \in DOMAIN dirs : i \in Nat /\ 1 <= i
  <2>1. <<dir>> \in Seq(Dir) /\ Len(<<dir>>) = 1 /\ <<dir>>[1] = dir
    OBVIOUS
  <2> QED
    BY <1>1, <2>1
<1>3. 1 \in Ends(d, dirs, name, elf)
  BY <1>2 DEF Ends
<1>4. PICK i \in Ends(d, dirs, name, elf) :
        /\ \A j \in Ends(d, dirs, name, elf) : i <= j
        /\ Lookup(d, dirs, name, elf) = {Join(dirs[i], name)}
  BY <1>3, LookupFacts
<1>5. i \in DOMAIN dirs /\ i <= 1
  BY <1>3, <1>4 DEF Ends
<1>6. i = 1
  BY <1>2, <1>5
<1> QED
  BY <1>1, <1>2, <1>4, <1>6

\* The loader that starts the program searches the directory of the copy first.
LEMMA RuntimeDirs ==
  ASSUME options \in Options, NEW hash, NEW file, NEW elf,
         elf.rpath = <<>>, elf.runpath = <<HashDir(hash)>>
  PROVE  ParentDir(file) = HashDir(hash) =>
           SearchDirs(Runtime, file, elf) = <<HashDir(hash)>> \o options.search_dirs
<1> SUFFICES ASSUME ParentDir(file) = HashDir(hash)
             PROVE  SearchDirs(Runtime, file, elf) = <<HashDir(hash)>> \o options.search_dirs
  OBVIOUS
<1> DEFINE hd == HashDir(hash)
<1>1. /\ Runtime.search_dirs_override = <<>> /\ Runtime.search_dirs = options.search_dirs
      /\ Runtime.root = "host" /\ options.search_dirs \in Seq(Dir)
  BY DEF Runtime, Options
<1>2. OverrideDirs(Runtime, elf) = <<>>
  BY <1>1 DEF OverrideDirs
<1>3. ElfDirs(Runtime, elf) = <<hd>>
  <2>1. <<>> \o <<hd>> = <<hd>> /\ <<hd>> # <<>>
    OBVIOUS
  <2> QED
    BY <2>1 DEF ElfDirs
<1>4. Expand(Runtime, hd, file) = hd
  <2>1. hd.at = "target"
    BY DEF HashDir
  <2>2. Under(Runtime, hd)
    BY <1>1, <2>1 DEF Under, RootOf
  <2> QED
    BY <2>2 DEF Expand
<1> HIDE DEF hd
<1>5. [i \in DOMAIN <<hd>> |-> Expand(Runtime, <<hd>>[i], file)] = <<hd>>
  BY <1>4
<1>6. SearchDirs(Runtime, file, elf) = <<>> \o <<hd>> \o options.search_dirs
  BY <1>1, <1>2, <1>3, <1>5 DEF SearchDirs
<1>7. <<>> \o <<hd>> = <<hd>>
  OBVIOUS
<1> QED
  BY <1>6, <1>7 DEF hd

\* A name that an original needs is that of a dependency for the same machine.
LEMMA NameIsFound ==
  ASSUME NEW o, NEW path, NEW elf, Resolves(disk, o, path, elf), NEW name \in elf.needed
  PROVE  \E dep \in Lookup(disk, SearchDirs(o, path, elf), name, elf) :
           /\ dep.name = name
           /\ Compatible(disk, dep, elf)
<1>1. PICK dep \in Lookup(disk, SearchDirs(o, path, elf), name, elf) : ~ Malformed(disk, dep)
  BY DEF Resolves
<1> DEFINE dirs == SearchDirs(o, path, elf)
<1>2. PICK i \in DOMAIN dirs : /\ dep = Join(dirs[i], name)
                               /\ \/ Compatible(disk, Join(dirs[i], name), elf)
                                  \/ Malformed(disk, Join(dirs[i], name))
  BY <1>1 DEF Lookup
<1>3. dep.name = name
  BY <1>2 DEF Join
<1> QED
  BY <1>1, <1>2, <1>3

\* A copy that is patched, and linked to the copies of its dependencies.
LEMMA CopyRuns ==
  ASSUME Workable, TypeOK, NEW path \in Reached, Sound(path),
         CopyMade(disk, path),
         \A dep \in Deps(path) : /\ dep \in Reached /\ Sound(dep)
                                 /\ CopyMade(disk, dep) /\ LinkMade(disk, path, dep)
  PROVE  \E elf \in Opened(disk, New(path)) :
           /\ elf.kind = "elf"
           /\ elf.dynamic => Resolves(disk, Runtime, New(path), elf)
           /\ {RealPath(disk, dep) : dep \in Dependencies(disk, Runtime, New(path))}
                = {{New(dep)} : dep \in Deps(path)}
<1> DEFINE orig == Elf(path)
           copy == Final(path)
           new == New(path)
           hd == HashDir(Hash(path))
           deps == Deps(path)
           At(name) == Join(hd, name)
           found == Dependencies(disk, Runtime, new)
<1>1. IsDisk(disk) /\ options \in Options
  BY DEF TypeOK
<1>2. /\ Opened(disk, path) # {} /\ orig.kind = "elf"
      /\ orig.dynamic => Resolves(disk, options, path, orig)
      /\ deps = IF orig.dynamic THEN Needed(disk, options, path, orig) ELSE {}
  BY <1>1, SoundFile
<1>3. /\ orig \in Files /\ Hash(path) \in Contents /\ copy \in Files
      /\ copy.kind = "elf" /\ copy.arch = orig.arch
      /\ copy.dynamic = orig.dynamic /\ copy.needed = orig.needed
  BY <1>1, <1>2, TheFile, FinalFacts
<1>4. Opened(disk, new) = {copy}
  BY <1>1, CopyIsOpened
<1>5. \A dep \in deps : /\ RealPath(disk, At(dep.name)) = {New(dep)}
                         /\ Opened(disk, At(dep.name)) = {Final(dep)}
                         /\ Opened(disk, dep) = {Elf(dep)}
                         /\ Final(dep).kind = "elf" /\ Final(dep).arch = Elf(dep).arch
  <2> TAKE dep \in deps
  <2>1. /\ dep \in Reached /\ Sound(dep)
        /\ CopyMade(disk, dep) /\ LinkMade(disk, path, dep)
    OBVIOUS
  <2>2. /\ New(dep) \in DOMAIN disk /\ disk[New(dep)] = Final(dep)
        /\ disk[New(dep)].kind # "link"
    BY <1>1, <2>1, CopyIsOpened DEF CopyMade
  <2>3. At(dep.name) \in DOMAIN disk /\ disk[At(dep.name)] = LinkFile(New(dep))
    BY <2>1 DEF LinkMade
  <2>4. /\ RealPath(disk, At(dep.name)) = {New(dep)}
        /\ Opened(disk, At(dep.name)) = {disk[New(dep)]}
    BY <2>2, <2>3, LinkLeads
  <2>5. Opened(disk, dep) # {} /\ Elf(dep).kind = "elf"
    BY <1>1, <2>1, SoundFile
  <2>6. /\ Opened(disk, dep) = {Elf(dep)}
        /\ Final(dep).kind = "elf" /\ Final(dep).arch = Elf(dep).arch
    BY <1>1, <2>1, <2>5, TheFile, FinalFacts
  <2> QED
    BY <2>2, <2>4, <2>6
<1>6. found = IF copy.dynamic THEN Needed(disk, Runtime, new, copy) ELSE {}
  <2>1. found = UNION {Needed(disk, Runtime, new, f) : f \in {e \in {copy} : e.dynamic}}
    BY <1>4 DEF Dependencies
  <2> HIDE DEF copy, new, found
  <2>2. CASE copy.dynamic
    <3>1. {e \in {copy} : e.dynamic} = {copy}
      BY <2>2
    <3>2. found = Needed(disk, Runtime, new, copy)
      BY <2>1, <3>1
    <3> QED
      BY <2>2, <3>2
  <2>3. CASE ~ copy.dynamic
    <3>1. {e \in {copy} : e.dynamic} = {}
      BY <2>3
    <3>2. found = {}
      BY <2>1, <3>1
    <3> QED
      BY <2>3, <3>2
  <2> QED
    BY <2>2, <2>3
<1>7. SUFFICES /\ orig.dynamic => Resolves(disk, Runtime, new, copy)
               /\ found = {At(dep.name) : dep \in deps}
  <2>1. ASSUME found = {At(dep.name) : dep \in deps}
        PROVE  {RealPath(disk, dep) : dep \in found} = {{New(dep)} : dep \in deps}
    <3> DEFINE Real(x) == RealPath(disk, x)
               To(dep) == {New(dep)}
               From(dep) == At(dep.name)
    <3>1. \A dep \in deps : Real(From(dep)) = To(dep)
      BY <1>5
    <3>2. found = {From(dep) : dep \in deps}
      BY <2>1
    <3> HIDE DEF found, deps, Real, To, From
    <3>3. {Real(x) : x \in found} = {To(dep) : dep \in deps}
      <4>1. \A x \in found : \E dep \in deps : Real(x) = To(dep)
        BY <3>1, <3>2
      <4>2. \A dep \in deps : \E x \in found : Real(x) = To(dep)
        BY <3>1, <3>2
      <4> QED
        BY <4>1, <4>2
    <3> QED
      BY <3>3 DEF Real, To
  <2> QED
    BY <1>3, <1>4, <2>1
<1>8. CASE ~ orig.dynamic
  <2>1. deps = {} /\ found = {}
    BY <1>2, <1>3, <1>6, <1>8
  <2> HIDE DEF deps, found
  <2> QED
    BY <1>8, <2>1
<1>9. CASE orig.dynamic
  <2>1. deps = Needed(disk, options, path, orig) /\ found = Needed(disk, Runtime, new, copy)
    BY <1>2, <1>3, <1>6, <1>9
  <2> DEFINE Lib(name) == Lookup(disk, SearchDirs(options, path, orig), name, orig)
             Copy2(name) == Lookup(disk, SearchDirs(Runtime, new, copy), name, copy)
  <2>2. /\ deps = orig.interp \cup UNION {Lib(name) : name \in orig.needed}
        /\ found = copy.interp \cup UNION {Copy2(name) : name \in orig.needed}
    BY <1>3, <2>1 DEF Needed
  <2>3. /\ copy.interp = {At(dep.name) : dep \in orig.interp}
        /\ orig.needed # {} => copy.rpath = <<>> /\ copy.runpath = <<hd>>
    <3>1. CASE FileKind(orig) \in {"executable", "library"}
      <4>1. copy = Patched(orig, hd)
        BY <3>1 DEF Final
      <4> QED
        BY <1>3, <1>9, <4>1, PatchedFacts
    <3>2. CASE FileKind(orig) \notin {"executable", "library"}
      <4>1. copy = orig
        BY <3>2 DEF Final
      <4>2. orig.interp = {} /\ orig.needed = {}
        BY <1>9, <3>2 DEF FileKind
      <4> QED
        BY <4>1, <4>2
    <3> QED
      BY <3>1, <3>2
  <2>4. ASSUME NEW name \in orig.needed
        PROVE  /\ Copy2(name) = {At(name)} /\ ~ Malformed(disk, At(name))
               /\ \E dep \in deps : dep.name = name
               /\ \A dep \in Lib(name) : dep.name = name
    <3>1. PICK dep \in Lib(name) : dep.name = name /\ Compatible(disk, dep, orig)
      BY <1>2, <1>9, NameIsFound
    <3>2. dep \in deps
      BY <2>2, <2>4, <3>1
    <3>3. Opened(disk, dep) = {Elf(dep)} /\ Opened(disk, At(name)) = {Final(dep)}
          /\ Final(dep).kind = "elf" /\ Final(dep).arch = Elf(dep).arch
      BY <1>5, <3>1, <3>2
    <3>4. Elf(dep).arch = orig.arch
      BY <3>1, <3>3 DEF Compatible
    <3>5. Compatible(disk, At(name), copy) /\ ~ Malformed(disk, At(name))
      BY <1>3, <3>3, <3>4 DEF Compatible, Malformed
    <3>6. SearchDirs(Runtime, new, copy) = <<hd>> \o options.search_dirs
      <4>1. ParentDir(new) = hd
        BY DEF ParentDir, New, NewPath, Join, HashDir
      <4>2. copy.rpath = <<>> /\ copy.runpath = <<hd>>
        BY <2>3
      <4> HIDE DEF copy, new
      <4> QED
        BY <1>1, <4>1, <4>2, RuntimeDirs
    <3>7. hd \in Dir /\ options.search_dirs \in Seq(Dir)
      BY <1>1, <1>3, PlacesAssumption DEF HashDir, Dir, Starts, Options
    <3>8. Copy2(name) = {At(name)}
      <4> HIDE DEF copy, new, hd
      <4> QED
        BY <3>5, <3>6, <3>7, FirstDirFound
    <3>9. \A lib \in Lib(name) : lib.name = name
      <4> TAKE lib \in Lib(name)
      <4>1. \E dir : lib = Join(dir, name)
        BY DEF Lookup
      <4> QED
        BY <4>1 DEF Join
    <3> QED
      BY <3>1, <3>2, <3>5, <3>8, <3>9
  <2> HIDE DEF orig, copy, new, deps, found, Lib, Copy2, At
  <2>5. Resolves(disk, Runtime, new, copy)
    <3>1. \A name \in orig.needed : \E lib \in Copy2(name) : ~ Malformed(disk, lib)
      BY <2>4
    <3> QED
      BY <1>3, <3>1 DEF Resolves, Copy2
  <2>6. \A x : x \in UNION {Copy2(name) : name \in orig.needed}
              <=> \E name \in orig.needed : x = At(name)
    BY <2>4
  <2>7. ASSUME NEW x \in found PROVE \E dep \in deps : x = At(dep.name)
    <3>1. CASE x \in copy.interp
      BY <2>2, <2>3, <3>1
    <3>2. CASE x \notin copy.interp
      <4>1. PICK name \in orig.needed : x = At(name)
        BY <2>2, <2>6, <2>7, <3>2
      <4> QED
        BY <2>4, <4>1
    <3> QED
      BY <3>1, <3>2
  <2>8. ASSUME NEW dep \in deps PROVE At(dep.name) \in found
    <3>1. CASE dep \in orig.interp
      BY <2>2, <2>3, <3>1
    <3>2. CASE dep \notin orig.interp
      <4>1. PICK name \in orig.needed : dep \in Lib(name)
        BY <2>2, <2>8, <3>2
      <4>2. dep.name = name
        BY <2>4, <4>1
      <4> QED
        BY <2>2, <2>6, <4>2
    <3> QED
      BY <3>1, <3>2
  <2> QED
    BY <2>5, <2>7, <2>8
<1> QED
  BY <1>8, <1>9

-----------------------------------------------------------------------------
(* No step takes what another file needs *)

\* Where a dependency of an original is linked.
LinkAt(path, dep) == Join(HashDir(Hash(path)), dep.name)

\* Whatever is written at a place is what was there.
LEMMA PlacesApart ==
  ASSUME Workable, IsDisk(disk),
         NEW p \in Reached, Opened(disk, p) # {},
         NEW q \in Reached, Opened(disk, q) # {}
  PROVE  /\ New(p) = New(q) => Final(p) = Final(q)
         /\ \A x \in Deps(p) : LinkAt(p, x) # New(q)
         /\ \A x \in Deps(p) : \A y \in Deps(q) :
              LinkAt(p, x) = LinkAt(q, y) => New(x) = New(y)
<1>1. p \in Readable /\ q \in Readable
  BY TheFile
<1>2. \A a, b, m, n : Join(HashDir(a), m) = Join(HashDir(b), n) => a = b /\ m = n
  BY DEF Join, HashDir
<1>3. New(p) = New(q) => Hash(p) = Hash(q)
  BY <1>2 DEF New, NewPath
<1>4. Hash(p) = Hash(q) => Elf(p) = Elf(q)
  BY <1>1 DEF Workable, HashesTell
<1>5. New(p) = New(q) => Final(p) = Final(q)
  BY <1>3, <1>4 DEF Final
<1>6. \A x \in Deps(p) : LinkAt(p, x) # New(q)
  <2> SUFFICES ASSUME NEW x \in Deps(p), LinkAt(p, x) = New(q) PROVE FALSE
    OBVIOUS
  <2>1. Hash(p) = Hash(q) /\ x.name = q.name
    BY <1>2 DEF LinkAt, New, NewPath
  <2> QED
    BY <1>1, <2>1 DEF Workable, HashesTell
<1>7. ASSUME NEW x \in Deps(p), NEW y \in Deps(q), LinkAt(p, x) = LinkAt(q, y)
      PROVE  New(x) = New(y)
  <2>1. Hash(p) = Hash(q) /\ x.name = y.name
    BY <1>2, <1>7 DEF LinkAt
  <2>2. Hash(x) = Hash(y)
    BY <1>1, <2>1 DEF Workable, HashesTell
  <2> QED
    BY <2>1, <2>2 DEF New, NewPath
<1> QED
  BY <1>5, <1>6, <1>7

\* Nothing is in the bin directory but links to programs.
LEMMA NotInBin ==
  ASSUME Workable, IsDisk(disk), NEW path \in Reached, Opened(disk, path) # {}
  PROVE  \A name : /\ Join(BinDir, name) # New(path)
                   /\ \A dep : Join(BinDir, name) # LinkAt(path, dep)
<1>1. Hash(path) \in Contents
  BY TheFile
<1> QED
  BY <1>1, PlacesAssumption DEF Join, BinDir, New, NewPath, HashDir, LinkAt

\* The dependents that were copied, or are being copied.
Known == Done \cup (IF step \in Writing THEN DOMAIN tree ELSE {})

\* What is known can be opened, and so can what it needs, which is known as well.
LEMMA KnownFacts ==
  ASSUME RInv, Workable, TreesSound
  PROVE  /\ IsDisk(disk) /\ Made \subseteq Known
         /\ \A path \in Known :
              /\ path \in Reached /\ path \in PathsAt(Originals)
              /\ Opened(disk, path) # {} /\ Sound(path)
              /\ \A dep \in Deps(path) : /\ dep \in PathsAt(Originals) /\ Sound(dep)
                                         /\ Opened(disk, dep) # {} /\ dep \in Known
<1>1. IsDisk(disk)
  BY DEF RInv, RelocatorTypeOK, TypeOK
<1>2. Made \subseteq Known
  BY DEF RInv, TreeReady, Made, Known
<1>3. \A path : Sound(path) => Opened(disk, path) # {}
  BY DEF Sound
<1>4. Reached \subseteq PathsAt(Originals)
  BY ReachedNeeds DEF Workable
<1>5. ASSUME NEW path \in Known
      PROVE  path \in Reached /\ Sound(path) /\ Deps(path) \subseteq Known
  <2>1. CASE path \in Done
    <3>1. PICK program \in DOMAIN relocated : path \in DOMAIN relocated[program].tree
      BY <2>1 DEF Done
    <3>2. /\ path \in Reached /\ Sound(path)
          /\ Deps(path) \subseteq DOMAIN relocated[program].tree
      BY <3>1 DEF TreesSound
    <3>3. DOMAIN relocated[program].tree \subseteq Known
      BY <3>1 DEF Known, Done
    <3> QED
      BY <3>2, <3>3
  <2>2. CASE step \in Writing /\ path \in DOMAIN tree
    <3>1. path \in Reached /\ Sound(path) /\ tree[path] = Deps(path)
      BY <2>2 DEF TreesSound, Writing
    <3>2. tree[path] \subseteq DOMAIN tree
      BY <2>2 DEF RInv, TreeReady
    <3>3. DOMAIN tree \subseteq Known
      BY <2>2 DEF Known
    <3> QED
      BY <3>1, <3>2, <3>3
  <2> QED
    BY <2>1, <2>2 DEF Known
<1> QED
  BY <1>1, <1>2, <1>3, <1>4, <1>5

\* The places of an original stay the same.
LEMMA PlacesStay ==
  ASSUME Kept(disk, disk'), Outside, UNCHANGED options, NEW path \in PathsAt(Originals)
  PROVE  /\ CopyMade(disk, path)' <=> CopyMade(disk', path)
         /\ \A dep \in PathsAt(Originals) :
              LinkMade(disk, path, dep)' <=> LinkMade(disk', path, dep)
<1>1. CopyMade(disk, path)' <=> CopyMade(disk', path)
  BY OriginalStays DEF CopyMade
<1>2. ASSUME NEW dep \in PathsAt(Originals)
      PROVE  LinkMade(disk, path, dep)' <=> LinkMade(disk', path, dep)
  <2>1. Hash(path)' = Hash(path) /\ New(dep)' = New(dep)
    BY OriginalStays
  <2> QED
    BY <2>1 DEF LinkMade
<1> QED
  BY <1>1, <1>2

\* A step that writes at one place.
LEMMA WorkWrites ==
  ASSUME Workable, RInv, WorkInv, step \in Writing, step' \in Writing,
         Kept(disk, disk'), UNCHANGED <<options, programs, tree, relocated>>,
         NEW x, SameBut(disk, disk', x),
         \A path \in Known : \A dep \in Deps(path) :
           LinkAt(path, dep) = x => LinkMade(disk', path, dep),
         \A path \in DOMAIN hashes' : path \in DOMAIN tree /\ hashes'[path] = Hash(path),
         \A path \in Made' :
           \/ CopyMade(disk', path)
           \/ step' \in {"bin", "patch"} /\ New(path) = NewFile',
         step' \in {"bin", "patch"} =>
           NewFile' \in DOMAIN disk' /\ disk'[NewFile'] = Elf(Dependent)',
         step' = "link" => \A path \in DOMAIN tree : \A dep \in tree[path] :
                             <<path, dep>> \in links' \/ LinkMade(disk', path, dep),
         step' = "link" => \A pair \in links' : pair[2] \in tree[pair[1]]
  PROVE  WorkInv'
<1>1. /\ Outside /\ TreesSound /\ LinksMade
      /\ \A path \in Known :
           /\ path \in Reached /\ path \in PathsAt(Originals) /\ Sound(path)
           /\ \A dep \in Deps(path) : dep \in PathsAt(Originals)
      /\ Done \subseteq Known /\ DOMAIN tree \subseteq Known
  BY KnownFacts DEF Workable, WorkInv, Known
<1>2. \A path \in Known :
        /\ Hash(path)' = Hash(path) /\ New(path)' = New(path)
        /\ Deps(path)' = Deps(path) /\ (Sound(path)' <=> Sound(path))
        /\ CopyMade(disk, path)' <=> CopyMade(disk', path)
        /\ \A dep \in Deps(path) : LinkMade(disk, path, dep)' <=> LinkMade(disk', path, dep)
  BY <1>1, OriginalStays, PlacesStay
<1>3. Done' = Done /\ Made' \subseteq Known
  <2>1. Done' = Done
    BY DEF Done
  <2>2. DOMAIN hashes' \subseteq Known
    BY <1>1
  <2> QED
    BY <1>1, <2>1, <2>2 DEF Made
<1>4. TreesSound'
  <2>0. Reached' = Reached
    BY <1>1, ReachedStays
  <2>1. /\ \A path \in DOMAIN tree' : path \in Reached /\ Sound(path)' /\ tree'[path] = Deps(path)'
        /\ \A path \in DOMAIN hashes' : hashes'[path] = Hash(path)'
    BY <1>1, <1>2 DEF TreesSound, Writing
  <2>2. ASSUME NEW program \in DOMAIN relocated, NEW path \in DOMAIN relocated[program].tree
        PROVE  /\ path \in Reached /\ Sound(path)'
               /\ relocated[program].hashes[path] = Hash(path)'
               /\ relocated[program].tree[path] = Deps(path)'
               /\ Deps(path)' \subseteq DOMAIN relocated[program].tree
    <3>1. path \in Known
      BY <1>1, <2>2 DEF Done
    <3> QED
      BY <1>1, <1>2, <3>1 DEF TreesSound
  <2> QED
    BY <2>0, <2>1, <2>2 DEF TreesSound
<1>5. FilesMade'
  BY <1>2, <1>3 DEF FilesMade
<1>6. LinksMade'
  <2>1. ASSUME NEW path \in Done, NEW dep \in Deps(path) PROVE LinkMade(disk', path, dep)
    <3>1. LinkMade(disk, path, dep)
      BY <1>1 DEF LinksMade
    <3>2. CASE LinkAt(path, dep) = x
      BY <1>1, <3>2
    <3>3. CASE LinkAt(path, dep) # x
      BY <3>1, <3>3 DEF LinkMade, LinkAt, SameBut
    <3> QED
      BY <3>2, <3>3
  <2>2. step' = "link" => \A path \in DOMAIN tree : \A dep \in tree[path] :
          <<path, dep>> \in links' \/ LinkMade(disk, path, dep)'
    BY <1>1, <1>2 DEF TreesSound
  <2> QED
    BY <1>1, <1>2, <1>3, <2>1, <2>2 DEF LinksMade
<1> QED
  BY <1>4, <1>5, <1>6 DEF WorkInv

\* The dependent that is being copied.
LEMMA DependentWork ==
  ASSUME RInv, Workable, TreesSound, step \in Writing, DOMAIN hashes # DOMAIN tree
  PROVE  /\ Dependent \in DOMAIN tree \ DOMAIN hashes /\ Dependent \in Known
         /\ Dependent \in Reached /\ Dependent \in PathsAt(Originals)
         /\ Opened(disk, Dependent) = {Elf(Dependent)} /\ Opened(disk, Dependent) # {}
         /\ Elf(Dependent).kind = "elf" /\ Elf(Dependent) \in Files
         /\ NewFile = New(Dependent)
<1>1. Dependent \in DOMAIN tree \ DOMAIN hashes
  BY DependentFacts
<1>2. Dependent \in Known
  BY <1>1 DEF Known
<1>3. /\ IsDisk(disk) /\ Dependent \in Reached /\ Dependent \in PathsAt(Originals)
      /\ Opened(disk, Dependent) # {} /\ Sound(Dependent)
  BY <1>2, KnownFacts
<1>4. /\ Opened(disk, Dependent) = {Elf(Dependent)} /\ Elf(Dependent).kind = "elf"
      /\ Elf(Dependent) \in Files
  BY <1>3, TheFile, SoundFile
<1>5. NewFile = New(Dependent)
  BY DEF NewFile, New
<1> QED
  BY <1>1, <1>2, <1>3, <1>4, <1>5

\* The copy takes the place of earlier copies of the same file.
LEMMA CopyWork == ASSUME RInv, Workable, WorkInv, Copy PROVE WorkInv'
<1>1. /\ step = "copy" /\ DOMAIN tree # DOMAIN hashes /\ step' = "bin"
      /\ UNCHANGED <<options, programs, tree, hashes, links, relocated>>
  BY DEF Copy, loader, call, counters
<1>2. PICK elf \in Opened(disk, Dependent) : disk' = CopyFile(disk, NewFile, elf)
  BY DEF Copy
<1>3. step \in Writing /\ step' \in Writing /\ TreesSound /\ Outside
  BY <1>1 DEF Writing, WorkInv, Workable
<1>4. /\ Dependent \in Known /\ Dependent \in Reached /\ Dependent \in PathsAt(Originals)
      /\ Opened(disk, Dependent) = {Elf(Dependent)} /\ Opened(disk, Dependent) # {}
      /\ NewFile = New(Dependent)
  BY <1>1, <1>3, DependentWork
<1>5. /\ SameBut(disk, disk', NewFile)
      /\ NewFile \in DOMAIN disk' /\ disk'[NewFile] = Elf(Dependent)
  BY <1>2, <1>4, OneChange, Written
<1>6. Kept(disk, disk')
  BY <1>2, CopyKeeps, WritesInTarget
<1>7. NewFile' = NewFile /\ Elf(Dependent)' = Elf(Dependent)
  <2>1. Dependent' = Dependent
    BY <1>1 DEF Dependent
  <2>2. Elf(Dependent)' = Elf(Dependent)
    BY <1>1, <1>3, <1>4, <1>6, <2>1, OpenedStays DEF Elf
  <2>3. NewFile' = NewFile
    BY <1>1, <1>3, <1>6, SameDependent
  <2> QED
    BY <2>2, <2>3
<1>8. \A path \in Known : \A dep \in Deps(path) : LinkAt(path, dep) # NewFile
  BY <1>3, <1>4, KnownFacts, PlacesApart
<1>9. \A path \in Made' : CopyMade(disk', path) \/ New(path) = NewFile
  <2>1. Made' = Made
    BY <1>1, <1>3 DEF Made, Done
  <2>2. ASSUME NEW path \in Made, New(path) # NewFile PROVE CopyMade(disk', path)
    <3>1. CopyMade(disk, path)
      BY <1>1, <2>2 DEF WorkInv, FilesMade
    <3> QED
      BY <1>5, <2>2, <3>1 DEF CopyMade, SameBut
  <2> QED
    BY <2>1, <2>2
<1>10. \A path \in DOMAIN hashes' : path \in DOMAIN tree /\ hashes'[path] = Hash(path)
  BY <1>1, <1>3 DEF TreesSound, RInv, TreeReady
<1> QED
  BY <1>1, <1>3, <1>5, <1>6, <1>7, <1>8, <1>9, <1>10, WorkWrites

\* A link in the bin directory is none that a file needs.
LEMMA LinkExecutableWork == ASSUME RInv, Workable, WorkInv, LinkExecutable PROVE WorkInv'
<1> DEFINE at == Join(BinDir, Dependent.name)
<1>1. /\ step = "bin" /\ step' = "patch"
      /\ IF ToLink = {} THEN disk' = disk ELSE \E l \in ToLink : disk' = Symlink(disk, l.at, l.to)
      /\ UNCHANGED <<options, programs, tree, hashes, links, relocated>>
  BY NothingInTheWay DEF LinkExecutable, loader, call, counters
<1>2. step \in Writing /\ step' \in Writing /\ TreesSound /\ Outside
  BY <1>1 DEF Writing, WorkInv, Workable
<1>3. DOMAIN hashes # DOMAIN tree
  BY <1>1, <1>2 DEF RInv, TreeReady
<1>4. /\ Dependent \in Known /\ Dependent \in Reached /\ Dependent \in PathsAt(Originals)
      /\ NewFile = New(Dependent)
  BY <1>2, <1>3, DependentWork
<1>5. SameBut(disk, disk', at)
  <2>1. CASE ToLink = {}
    BY <1>1, <2>1 DEF SameBut
  <2>2. CASE ToLink # {}
    <3>1. PICK l \in ToLink : disk' = Symlink(disk, l.at, l.to)
      BY <1>1, <2>2
    <3>2. l.at = at
      BY <1>1, <3>1 DEF ToLink
    <3>3. SameBut(disk, Symlink(disk, at, l.to), at)
      BY OneChange
    <3> QED
      BY <3>1, <3>2, <3>3
  <2> QED
    BY <2>1, <2>2
<1>6. Kept(disk, disk')
  BY StepKeeps DEF RelocatorNext
<1>7. NewFile' = NewFile /\ Elf(Dependent)' = Elf(Dependent)
  <2>1. Dependent' = Dependent
    BY <1>1 DEF Dependent
  <2>2. Elf(Dependent)' = Elf(Dependent)
    BY <1>1, <1>2, <1>4, <1>6, <2>1, OpenedStays DEF Elf
  <2>3. NewFile' = NewFile
    BY <1>1, <1>2, <1>3, <1>6, SameDependent
  <2> QED
    BY <2>2, <2>3
<1>8. \A path \in Known : at # New(path) /\ \A dep : LinkAt(path, dep) # at
  BY <1>2, KnownFacts, NotInBin
<1> HIDE DEF at
<1>9. \A path \in Made' : CopyMade(disk', path) \/ New(path) = NewFile
  <2>1. Made' = Made
    BY <1>1, <1>2 DEF Made, Done
  <2>2. ASSUME NEW path \in Made, New(path) # NewFile PROVE CopyMade(disk', path)
    <3>1. CopyMade(disk, path)
      BY <2>2 DEF WorkInv, FilesMade
    <3>2. New(path) # at
      BY <1>2, <1>8, KnownFacts
    <3> QED
      BY <1>5, <3>1, <3>2 DEF CopyMade, SameBut
  <2> QED
    BY <2>1, <2>2
<1>10. NewFile \in DOMAIN disk' /\ disk'[NewFile] = Elf(Dependent)
  <2>1. NewFile \in DOMAIN disk /\ disk[NewFile] = Elf(Dependent)
    BY <1>1 DEF WorkInv, FilesMade
  <2> QED
    BY <1>4, <1>5, <1>8, <2>1 DEF SameBut
<1>11. \A path \in DOMAIN hashes' : path \in DOMAIN tree /\ hashes'[path] = Hash(path)
  BY <1>1, <1>2 DEF TreesSound, RInv, TreeReady
<1> QED
  BY <1>1, <1>2, <1>5, <1>6, <1>7, <1>8, <1>9, <1>10, <1>11, WorkWrites

\* The patched copy is the same for every original of the hash.
LEMMA PatchWork == ASSUME RInv, Workable, WorkInv, Patch PROVE WorkInv'
<1>1. /\ step = "patch" /\ step' = "copy"
      /\ UNCHANGED <<options, programs, tree, links, relocated>>
  BY DEF Patch, loader, counters
<1>2. PICK elf \in Opened(disk, NewFile) :
        /\ disk' = IF FileKind(elf) \in {"executable", "library"}
                   THEN Put(disk, NewFile, Patched(elf, ParentDir(NewFile)))
                   ELSE disk
        /\ hashes' =
             [path \in DOMAIN hashes \cup {Dependent} |->
                IF path = Dependent THEN Hash(path) ELSE hashes[path]]
  BY DEF Patch, PatchedFile
<1>3. step \in Writing /\ step' \in Writing /\ TreesSound /\ Outside
  BY <1>1 DEF Writing, WorkInv, Workable
<1>4. DOMAIN hashes # DOMAIN tree
  BY <1>1, <1>3 DEF RInv, TreeReady
<1>5. /\ Dependent \in DOMAIN tree /\ Dependent \in Known
      /\ Dependent \in Reached /\ Dependent \in PathsAt(Originals)
      /\ Opened(disk, Dependent) # {} /\ Elf(Dependent).kind = "elf"
      /\ NewFile = New(Dependent)
  BY <1>3, <1>4, DependentWork
<1>6. NewFile \in DOMAIN disk /\ disk[NewFile] = Elf(Dependent)
  BY <1>1 DEF WorkInv, FilesMade
<1>7. elf = Elf(Dependent)
  BY <1>2, <1>5, <1>6, NoLinkOpens
<1>8. ParentDir(NewFile) = HashDir(Hash(Dependent))
  BY DEF ParentDir, NewFile, NewPath, Join, HashDir
<1>9. /\ SameBut(disk, disk', NewFile)
      /\ NewFile \in DOMAIN disk' /\ disk'[NewFile] = Final(Dependent)
  <2> DEFINE patched == Patched(elf, ParentDir(NewFile))
  <2>1. CASE FileKind(elf) \in {"executable", "library"}
    <3>1. disk' = Put(disk, NewFile, patched) /\ Final(Dependent) = patched
      BY <1>2, <1>7, <1>8, <2>1 DEF Final
    <3> HIDE DEF patched
    <3> QED
      BY <3>1, OneChange, Written
  <2>2. CASE FileKind(elf) \notin {"executable", "library"}
    <3>1. disk' = disk /\ Final(Dependent) = elf
      BY <1>2, <1>7, <2>2 DEF Final
    <3> QED
      BY <1>6, <1>7, <3>1 DEF SameBut
  <2> QED
    BY <2>1, <2>2
<1>10. Kept(disk, disk')
  BY StepKeeps DEF RelocatorNext
<1>11. \A path \in Known : /\ New(path) = NewFile => Final(path) = Final(Dependent)
                          /\ \A dep \in Deps(path) : LinkAt(path, dep) # NewFile
  BY <1>3, <1>5, KnownFacts, PlacesApart
<1>12. \A path \in Made' : CopyMade(disk', path)
  <2>1. Made' \subseteq Made \cup {Dependent} /\ Made \subseteq Known
    <3>1. Made \subseteq Known
      BY <1>3, KnownFacts
    <3>2. DOMAIN hashes' = DOMAIN hashes \cup {Dependent}
      BY <1>2
    <3> QED
      BY <1>1, <1>3, <3>1, <3>2 DEF Made, Done
  <2>2. ASSUME NEW path \in Made', New(path) = NewFile PROVE CopyMade(disk', path)
    <3>1. Final(path) = Final(Dependent)
      BY <1>5, <1>11, <2>1, <2>2
    <3> QED
      BY <1>9, <2>2, <3>1 DEF CopyMade
  <2>3. ASSUME NEW path \in Made', New(path) # NewFile PROVE CopyMade(disk', path)
    <3>1. path \in Made
      BY <1>5, <2>1, <2>3
    <3>2. CopyMade(disk, path)
      BY <2>3, <3>1 DEF WorkInv, FilesMade
    <3> QED
      BY <1>9, <2>3, <3>2 DEF CopyMade, SameBut
  <2> QED
    BY <2>2, <2>3
<1>13. \A path \in DOMAIN hashes' : path \in DOMAIN tree /\ hashes'[path] = Hash(path)
  BY <1>2, <1>3, <1>5 DEF TreesSound, RInv, TreeReady
<1> QED
  BY <1>1, <1>3, <1>9, <1>10, <1>11, <1>12, <1>13, WorkWrites

\* The links that remain are those to the dependencies of each dependent.
LEMMA CopiedWork == ASSUME RInv, Workable, WorkInv, Copied PROVE WorkInv'
<1>1. /\ step = "copy" /\ step' = "link"
      /\ links' = UNION {{path} \X tree[path] : path \in DOMAIN tree}
      /\ UNCHANGED <<disk, options, programs, tree, hashes, relocated>>
  BY DEF Copied, loader, counters
<1>2. step \in Writing /\ step' \in Writing /\ TreesSound
  BY <1>1 DEF Writing, WorkInv
<1> DEFINE at == Join(BinDir, CHOOSE name : TRUE)
<1>3. SameBut(disk, disk', at) /\ Kept(disk, disk')
  BY <1>1 DEF SameBut, Kept
<1>4. \A path \in Known : \A dep : LinkAt(path, dep) # at
  BY <1>2, KnownFacts, NotInBin
<1> HIDE DEF at
<1>5. \A path \in Made' : CopyMade(disk', path)
  <2>1. Made' = Made
    BY <1>1, <1>2 DEF Made, Done
  <2> QED
    BY <1>1, <2>1 DEF WorkInv, FilesMade
<1>6. \A path \in DOMAIN hashes' : path \in DOMAIN tree /\ hashes'[path] = Hash(path)
  BY <1>1, <1>2 DEF TreesSound, RInv, TreeReady
<1>7. \A path \in DOMAIN tree : \A dep \in tree[path] : <<path, dep>> \in links'
  BY <1>1
<1>8. \A pair \in links' : pair[2] \in tree[pair[1]]
  <2> TAKE pair \in links'
  <2>1. PICK path \in DOMAIN tree : pair \in {path} \X tree[path]
    BY <1>1
  <2> QED
    BY <2>1
<1> QED
  BY <1>1, <1>2, <1>3, <1>4, <1>5, <1>6, <1>7, <1>8, WorkWrites

\* A link takes the place of one that leads to the same copy.
LEMMA LinkWork == ASSUME RInv, Workable, WorkInv, Link PROVE WorkInv'
<1> DEFINE p == NextLink[1]
           dep0 == NextLink[2]
<1>1. /\ step = "link" /\ links # {} /\ links' = links \ {NextLink}
      /\ UNCHANGED <<options, programs, tree, hashes>>
  BY DEF Link, loader, counters
<1>2. step \in Writing /\ TreesSound /\ TreeReady
  BY <1>1 DEF Writing, WorkInv, RInv
<1>3. /\ NextLink \in links /\ NextLink = <<p, dep0>>
      /\ p \in DOMAIN tree /\ dep0 \in DOMAIN tree /\ dep0 \in tree[p]
      /\ DOMAIN hashes = DOMAIN tree
  <2>1. NextLink \in links
    BY <1>1 DEF NextLink
  <2>2. links \subseteq (DOMAIN tree) \X (DOMAIN tree) /\ DOMAIN hashes = DOMAIN tree
    BY <1>1, <1>2 DEF TreeReady
  <2>3. NextLink \in (DOMAIN tree) \X (DOMAIN tree)
    BY <2>1, <2>2
  <2>4. NextLink[2] \in tree[NextLink[1]]
    BY <1>1, <2>1 DEF WorkInv, LinksMade
  <2> QED
    BY <2>1, <2>2, <2>3, <2>4
<1>4. hashes[p] = Hash(p) /\ hashes[dep0] = Hash(dep0) /\ dep0 \in Deps(p)
  BY <1>2, <1>3 DEF TreesSound
<1>5. p \in Known /\ dep0 \in Known /\ IsDisk(disk)
  BY <1>2, <1>3, KnownFacts DEF Known
<1>6. PICK l \in ToLink : disk' = Symlink(disk, l.at, l.to) /\ UNCHANGED <<step, relocated>>
  BY <1>3, NothingInTheWay DEF Link
<1>7. l.at = LinkAt(p, dep0) /\ l.to = New(dep0)
  <2>1. l = [at |-> Join(HashDir(hashes[p]), dep0.name), to |-> NewPath(dep0, hashes[dep0])]
    BY <1>1, <1>6 DEF ToLink
  <2> QED
    BY <1>4, <2>1 DEF LinkAt, New
<1> DEFINE at == LinkAt(p, dep0)
<1>8. /\ SameBut(disk, disk', at)
      /\ at \in DOMAIN disk' /\ disk'[at] = LinkFile(New(dep0))
  BY <1>6, <1>7, OneChange, Written
<1>9. Kept(disk, disk')
  BY StepKeeps DEF RelocatorNext
<1>10. \A path \in Known : /\ at # New(path)
                          /\ \A dep \in Deps(path) : LinkAt(path, dep) = at => New(dep) = New(dep0)
  <2> TAKE path \in Known
  <2>1. /\ p \in Reached /\ Opened(disk, p) # {}
        /\ path \in Reached /\ Opened(disk, path) # {}
    BY <1>2, <1>5, KnownFacts
  <2>2. at # New(path)
    BY <1>4, <1>5, <2>1, PlacesApart
  <2>3. \A dep \in Deps(path) : LinkAt(path, dep) = at => New(dep) = New(dep0)
    BY <1>4, <1>5, <2>1, PlacesApart
  <2> QED
    BY <2>2, <2>3
<1> HIDE DEF at
<1>11. \A path \in Known : \A dep \in Deps(path) :
         LinkAt(path, dep) = at => LinkMade(disk', path, dep)
  BY <1>8, <1>10 DEF LinkMade, LinkAt
<1>12. \A path \in Made' : CopyMade(disk', path)
  <2>1. Made' = Made /\ Made \subseteq Known
    BY <1>1, <1>2, <1>6, KnownFacts DEF Made, Done
  <2>2. ASSUME NEW path \in Made PROVE CopyMade(disk', path)
    <3>1. CopyMade(disk, path) /\ at # New(path)
      BY <1>1, <1>10, <2>1 DEF WorkInv, FilesMade
    <3> QED
      BY <1>8, <3>1 DEF CopyMade, SameBut
  <2> QED
    BY <2>1, <2>2
<1>13. \A path \in DOMAIN hashes' : path \in DOMAIN tree /\ hashes'[path] = Hash(path)
  BY <1>1, <1>2, <1>3 DEF TreesSound
<1>14. ASSUME NEW path \in DOMAIN tree, NEW dep \in tree[path], <<path, dep>> \notin links'
       PROVE  LinkMade(disk', path, dep)
  <2>1. path \in Known /\ dep \in Deps(path)
    BY <1>2 DEF Known, TreesSound
  <2>2. CASE LinkAt(path, dep) = at
    BY <1>11, <2>1, <2>2
  <2>3. CASE LinkAt(path, dep) # at
    <3>1. <<path, dep>> # NextLink
      BY <1>3, <2>3 DEF at
    <3>2. LinkMade(disk, path, dep)
      BY <1>1, <1>14, <3>1 DEF WorkInv, LinksMade
    <3> QED
      BY <1>8, <2>3, <3>2 DEF LinkMade, LinkAt, SameBut
  <2> QED
    BY <2>2, <2>3
<1>15. \A pair \in links' : pair[2] \in tree[pair[1]]
  BY <1>1 DEF WorkInv, LinksMade
<1>16. step' \in Writing /\ step' = "link"
  BY <1>1, <1>2, <1>6
<1> QED
  BY <1>1, <1>2, <1>6, <1>8, <1>9, <1>11, <1>12, <1>13, <1>14, <1>15, <1>16, WorkWrites

-----------------------------------------------------------------------------
(* Steps that write nothing *)

\* Nothing about any path changes.
LEMMA SameDisk ==
  ASSUME UNCHANGED <<disk, options>>, NEW path
  PROVE  /\ Elf(path)' = Elf(path) /\ Hash(path)' = Hash(path)
         /\ Deps(path)' = Deps(path) /\ (Sound(path)' <=> Sound(path))
         /\ New(path)' = New(path) /\ (CopyMade(disk, path)' <=> CopyMade(disk, path))
         /\ \A dep : LinkMade(disk, path, dep)' <=> LinkMade(disk, path, dep)
<1>1. \A p : Opened(disk', p) = Opened(disk, p)
  OBVIOUS
<1>2. ASSUME NEW p PROVE Elf(p)' = Elf(p) /\ Hash(p)' = Hash(p) /\ New(p)' = New(p)
  <2>1. Opened(disk', p) = Opened(disk, p)
    OBVIOUS
  <2>2. Elf(p)' = Elf(p) /\ Hash(p)' = Hash(p)
    BY <2>1 DEF Elf, Hash
  <2> QED
    BY <2>2 DEF New
<1>3. Final(path)' = Final(path)
  BY <1>2 DEF Final
<1>4. Deps(path)' = Deps(path) /\ (Sound(path)' <=> Sound(path))
  BY DEF Deps, Sound
<1>5. CopyMade(disk, path)' <=> CopyMade(disk, path)
  BY <1>2, <1>3 DEF CopyMade
<1>6. \A dep : LinkMade(disk, path, dep)' <=> LinkMade(disk, path, dep)
  BY <1>2 DEF LinkMade
<1> QED
  BY <1>2, <1>4, <1>5, <1>6

\* Before a call writes, and after it ends.
LEMMA QuietWork ==
  ASSUME WorkInv, UNCHANGED <<disk, options, programs, relocated>>,
         step \notin {"bin", "patch"}, step' \notin Writing,
         step' # "idle" => \A path \in DOMAIN tree' : Sound(path)
  PROVE  WorkInv'
<1>1. Done' = Done /\ Made' = Done /\ Done \subseteq Made
  BY DEF Done, Made
<1>2. TreesSound'
  <2>1. step' # "idle" => \A path \in DOMAIN tree' : Sound(path)'
    BY SameDisk
  <2>2. ASSUME NEW program \in DOMAIN relocated, NEW path \in DOMAIN relocated[program].tree
        PROVE  /\ path \in Reached /\ Sound(path)'
               /\ relocated[program].hashes[path] = Hash(path)'
               /\ relocated[program].tree[path] = Deps(path)'
               /\ Deps(path)' \subseteq DOMAIN relocated[program].tree
    BY SameDisk DEF WorkInv, TreesSound
  <2> QED
    BY <2>1, <2>2, SameReached DEF TreesSound
<1>3. FilesMade'
  <2>1. \A path \in Done : CopyMade(disk, path)
    BY <1>1 DEF WorkInv, FilesMade
  <2>2. \A path \in Done : CopyMade(disk, path)'
    BY <2>1, SameDisk
  <2> QED
    BY <1>1, <2>2 DEF FilesMade, Writing
<1>4. LinksMade'
  <2>1. \A path \in Done : \A dep \in Deps(path)' : LinkMade(disk, path, dep)'
    BY SameDisk DEF WorkInv, LinksMade
  <2> QED
    BY <1>1, <2>1 DEF LinksMade, Writing
<1> QED
  BY <1>2, <1>3, <1>4 DEF WorkInv

\* A call that begins has no tree.
LEMMA StartWork ==
  ASSUME WorkInv, NEW program \in programs, Start(program)
  PROVE  WorkInv'
<1>1. /\ step = "idle" /\ step' = "resolve" /\ tree' = <<>>
      /\ UNCHANGED <<disk, options, programs, relocated>>
  BY DEF Start
<1> QED
  BY <1>1, QuietWork DEF Writing

\* Every file that is put in the tree can be loaded.
LEMMA ResolveWork ==
  ASSUME WorkInv, Resolve
  PROVE  WorkInv'
<1>1. /\ step = "resolve" /\ step' = "resolve"
      /\ AlreadyVisited \/ NoDependencies \/ ResolveDependencies
      /\ UNCHANGED <<disk, options, programs, relocated>>
  BY DEF Resolve, AlreadyVisited, NoDependencies, ResolveDependencies, counters
<1>2. \A path \in DOMAIN tree : Sound(path)
  BY <1>1 DEF WorkInv, TreesSound
<1>3. \A path \in DOMAIN tree' : Sound(path)
  <2>1. CASE AlreadyVisited
    BY <1>2, <2>1 DEF AlreadyVisited
  <2>2. CASE NoDependencies
    <3>1. DOMAIN tree' = DOMAIN tree \cup {File}
      BY <2>2 DEF NoDependencies, Insert
    <3>2. Sound(File)
      BY <2>2 DEF NoDependencies, IsElf, Sound
    <3> QED
      BY <1>2, <3>1, <3>2
  <2>3. CASE ResolveDependencies
    <3>1. DOMAIN tree' = DOMAIN tree \cup {File}
      BY <2>3 DEF ResolveDependencies, Insert
    <3>2. Sound(File)
      BY <2>3 DEF ResolveDependencies, Sound
    <3> QED
      BY <1>2, <3>1, <3>2
  <2> QED
    BY <1>1, <2>1, <2>2, <2>3
<1> QED
  BY <1>1, <1>3, QuietWork DEF Writing

\* A call that stops before it writes.
LEMMA UnresolvedWork ==
  ASSUME WorkInv, Unresolved
  PROVE  WorkInv'
<1>1. step = "resolve" /\ step' = "idle" /\ UNCHANGED <<disk, options, programs, relocated>>
  BY DEF Unresolved, Fail, End, counters
<1> QED
  BY <1>1, QuietWork DEF Writing

\* The tree has what the files need.
LEMMA ResolvedWork ==
  ASSUME RInv, Workable, WorkInv, Resolved
  PROVE  WorkInv'
<1>1. /\ step = "resolve" /\ step' = "copy" /\ queue = <<>>
      /\ UNCHANGED <<disk, options, programs, tree, hashes, relocated>>
  BY DEF Resolved, Finish, call, counters
<1>2. IInv /\ DOMAIN hashes = {}
  BY <1>1 DEF RInv
<1>3. Done' = Done /\ Made' = Done /\ Done \subseteq Made
  BY <1>1, <1>2 DEF Done, Made
<1>4. TreesSound'
  <2>0. DOMAIN tree \subseteq Reached
    BY <1>1, <1>2, ReachedTree DEF RInv, Workable
  <2>1. \A path \in DOMAIN tree' : Sound(path)' /\ tree'[path] = Deps(path)'
    <3>1. \A path \in DOMAIN tree : Sound(path) /\ tree[path] = Deps(path)
      BY <1>1, <1>2 DEF WorkInv, TreesSound, IInv, Deps
    <3> QED
      BY <1>1, <3>1, SameDisk
  <2>2. ASSUME NEW program \in DOMAIN relocated, NEW path \in DOMAIN relocated[program].tree
        PROVE  /\ path \in Reached /\ Sound(path)'
               /\ relocated[program].hashes[path] = Hash(path)'
               /\ relocated[program].tree[path] = Deps(path)'
               /\ Deps(path)' \subseteq DOMAIN relocated[program].tree
    BY <1>1, SameDisk DEF WorkInv, TreesSound
  <2> QED
    BY <1>1, <1>2, <2>0, <2>1, <2>2, SameReached DEF TreesSound
<1>5. FilesMade'
  <2>1. \A path \in Done : CopyMade(disk, path)
    BY <1>1, <1>3 DEF WorkInv, FilesMade
  <2>2. \A path \in Done : CopyMade(disk, path)'
    BY <1>1, <2>1, SameDisk
  <2> QED
    BY <1>1, <1>3, <2>2 DEF FilesMade
<1>6. LinksMade'
  <2>1. \A path \in Done : \A dep \in Deps(path)' : LinkMade(disk, path, dep)'
    BY <1>1, SameDisk DEF WorkInv, LinksMade
  <2> QED
    BY <1>1, <1>3, <2>1 DEF LinksMade
<1> QED
  BY <1>4, <1>5, <1>6 DEF WorkInv

\* The dependents of the program join those that were relocated.
LEMMA RelocatedWork ==
  ASSUME RInv, Workable, WorkInv, Relocated
  PROVE  WorkInv'
<1>1. step = "link" /\ links = {} /\ UNCHANGED <<disk, options, programs>>
  BY DEF Relocated, loader, counters
<1>2. /\ TreeReady /\ step \in Writing /\ TreesSound
      /\ DOMAIN hashes = DOMAIN tree
  BY <1>1 DEF RInv, Writing, TreeReady, WorkInv
<1>3. files[1] \in DOMAIN hashes
  BY <1>2 DEF TreeReady
<1> DEFINE r == [tree |-> tree, hashes |-> hashes]
<1>4. /\ step' = "idle"
      /\ relocated' = [p \in DOMAIN relocated \cup {files[1]} |->
                          IF p = files[1] THEN r ELSE relocated[p]]
  BY <1>3 DEF Relocated
<1>5. /\ r.tree = tree /\ r.hashes = hashes
      /\ DOMAIN relocated' = DOMAIN relocated \cup {files[1]}
      /\ \A program \in DOMAIN relocated' :
           relocated'[program] = IF program = files[1] THEN r ELSE relocated[program]
  BY <1>4
<1> HIDE DEF r
<1>6. Done' = Made' /\ Done' \subseteq Done \cup DOMAIN tree
  <2>1. Done' = Made'
    BY <1>4 DEF Made, Writing
  <2>2. ASSUME NEW path \in Done', path \notin DOMAIN tree PROVE path \in Done
    <3>1. PICK program \in DOMAIN relocated' : path \in DOMAIN relocated'[program].tree
      BY <2>2 DEF Done
    <3>2. program # files[1]
      BY <1>5, <2>2, <3>1
    <3>3. program \in DOMAIN relocated /\ path \in DOMAIN relocated[program].tree
      BY <1>5, <3>1, <3>2
    <3> QED
      BY <3>3 DEF Done
  <2> QED
    BY <2>1, <2>2
<1>7. ASSUME NEW program \in DOMAIN relocated', NEW path \in DOMAIN relocated'[program].tree
      PROVE  /\ path \in Reached /\ Sound(path)
             /\ relocated'[program].hashes[path] = Hash(path)
             /\ relocated'[program].tree[path] = Deps(path)
             /\ Deps(path) \subseteq DOMAIN relocated'[program].tree
  <2>1. CASE program = files[1]
    <3>1. relocated'[program].tree = tree /\ relocated'[program].hashes = hashes
      BY <1>5, <2>1
    <3>2. path \in DOMAIN tree
      BY <1>7, <3>1
    <3>3. /\ path \in Reached /\ Sound(path) /\ hashes[path] = Hash(path)
          /\ tree[path] = Deps(path) /\ tree[path] \subseteq DOMAIN tree
      BY <1>1, <1>2, <3>2 DEF TreesSound, TreeReady
    <3> QED
      BY <3>1, <3>3
  <2>2. CASE program # files[1]
    <3>1. program \in DOMAIN relocated /\ relocated'[program] = relocated[program]
      BY <1>5, <2>2
    <3>2. path \in DOMAIN relocated[program].tree
      BY <1>7, <3>1
    <3> QED
      BY <1>2, <3>1, <3>2 DEF TreesSound
  <2> QED
    BY <2>1, <2>2
<1>8. ASSUME NEW path \in Done'
      PROVE  /\ CopyMade(disk, path)
             /\ \A dep \in Deps(path) : LinkMade(disk, path, dep)
  <2>1. path \in Made
    BY <1>2, <1>6 DEF Made
  <2>2. CopyMade(disk, path)
    BY <1>1, <2>1 DEF WorkInv, FilesMade
  <2>3. CASE path \in Done
    BY <2>2, <2>3 DEF WorkInv, LinksMade
  <2>4. CASE path \in DOMAIN tree
    <3>1. tree[path] = Deps(path)
      BY <1>2, <2>4 DEF TreesSound
    <3> QED
      BY <1>1, <2>2, <2>4, <3>1 DEF WorkInv, LinksMade
  <2> QED
    BY <1>6, <2>3, <2>4
<1>9. TreesSound'
  <2>1. Reached' = Reached
    BY <1>1, SameReached
  <2>2. ASSUME NEW program \in DOMAIN relocated', NEW path \in DOMAIN relocated'[program].tree
        PROVE  /\ path \in Reached' /\ Sound(path)'
               /\ relocated'[program].hashes[path] = Hash(path)'
               /\ relocated'[program].tree[path] = Deps(path)'
               /\ Deps(path)' \subseteq DOMAIN relocated'[program].tree
    BY <1>1, <1>7, <2>1, SameDisk
  <2>3. ~(step' # "idle") /\ ~(step \in Writing)'
    BY <1>4 DEF Writing
  <2>4. (\A program \in DOMAIN relocated :
           \A path \in DOMAIN relocated[program].tree :
             /\ path \in Reached /\ Sound(path)
             /\ relocated[program].hashes[path] = Hash(path)
             /\ relocated[program].tree[path] = Deps(path)
             /\ Deps(path) \subseteq DOMAIN relocated[program].tree)'
    BY <2>2
  <2> QED
    BY <2>3, <2>4, Zenon DEF TreesSound
<1>10. FilesMade'
  <2>1. \A path \in Done' : CopyMade(disk, path)'
    BY <1>1, <1>8, SameDisk
  <2> QED
    BY <1>4, <1>6, <2>1 DEF FilesMade
<1>11. LinksMade'
  <2>1. \A path \in Done' : \A dep \in Deps(path)' : LinkMade(disk, path, dep)'
    BY <1>1, <1>8, SameDisk
  <2> QED
    BY <1>4, <2>1 DEF LinksMade
<1> QED
  BY <1>9, <1>10, <1>11 DEF WorkInv

\* After a fault nothing is said of the copies.
LEMMA FaultWork == ASSUME Fault PROVE WorkInv'
<1>1. step' = "idle" /\ relocated' = <<>>
  BY DEF Fault, End
<1>2. Done' = {} /\ Made' = {}
  BY <1>1 DEF Done, Made, Writing
<1> QED
  BY <1>1, <1>2 DEF WorkInv, TreesSound, FilesMade, LinksMade, Writing

\* Before the first call there is nothing to keep.
LEMMA InitWork == ASSUME RelocatorInit PROVE WorkInv
<1>1. step = "idle" /\ relocated = <<>>
  BY DEF RelocatorInit
<1>2. Done = {} /\ Made = {}
  BY <1>1 DEF Done, Made, Writing
<1> QED
  BY <1>1, <1>2 DEF WorkInv, TreesSound, FilesMade, LinksMade, Writing

\* Nothing happens.
LEMMA StutterWork == ASSUME WorkInv, UNCHANGED allvars PROVE WorkInv'
<1>1. UNCHANGED <<disk, options, files, tree, programs, step, hashes, links, relocated>>
  BY DEF allvars, vars, call, counters
<1>2. Done' = Done /\ Made' = Made /\ Dependent' = Dependent
  BY <1>1 DEF Done, Made, Writing, Dependent
<1>3. Elf(Dependent)' = Elf(Dependent) /\ Hash(Dependent)' = Hash(Dependent)
  <2>1. Opened(disk', Dependent') = Opened(disk, Dependent)
    BY <1>1, <1>2
  <2> QED
    BY <2>1 DEF Elf, Hash
<1>4. NewFile' = NewFile
  BY <1>2, <1>3 DEF NewFile
<1>5. \A path :
        /\ Hash(path)' = Hash(path) /\ New(path)' = New(path)
        /\ Deps(path)' = Deps(path) /\ (Sound(path)' <=> Sound(path))
        /\ CopyMade(disk, path)' <=> CopyMade(disk, path)
        /\ \A dep : LinkMade(disk, path, dep)' <=> LinkMade(disk, path, dep)
  BY <1>1, SameDisk
<1>6. TreesSound'
  BY <1>1, <1>5, SameReached DEF WorkInv, TreesSound, Writing
<1>7. FilesMade'
  BY <1>1, <1>2, <1>3, <1>4, <1>5 DEF WorkInv, FilesMade
<1>8. LinksMade'
  BY <1>1, <1>2, <1>5 DEF WorkInv, LinksMade
<1> QED
  BY <1>6, <1>7, <1>8 DEF WorkInv

\* Every step of relocate keeps the copies and links of what was relocated.
LEMMA NextWorkInv ==
  (Workable => RInv /\ WorkInv) /\ [RelocatorNext]_allvars
    => (Workable => RInv /\ WorkInv)'
<1> SUFFICES ASSUME Workable => RInv /\ WorkInv, [RelocatorNext]_allvars, Workable'
             PROVE  RInv' /\ WorkInv'
  OBVIOUS
<1>1. Kept(disk, disk') /\ UNCHANGED <<options, programs>>
  <2>1. CASE UNCHANGED allvars
    BY <2>1 DEF Kept, allvars, vars, counters
  <2>2. CASE RelocatorNext
    BY <2>2, StepKeeps
       DEF RelocatorNext, Start, Resolve, Unresolved, Resolved, Copy, LinkExecutable, Patch,
           Copied, Link, Relocated, Fault, AlreadyVisited, NoDependencies,
           ResolveDependencies, Fail, Finish, loader, counters
  <2> QED
    BY <2>1, <2>2
<1>2. Workable /\ RInv /\ WorkInv
  BY <1>1, WorkableBefore
<1>3. RInv'
  <2>1. Outside /\ Outside'
    BY <1>2 DEF Workable
  <2> QED
    BY <1>2, <2>1, NextRInv
<1>4. WorkInv'
  <2>1. CASE UNCHANGED allvars
    BY <1>2, <2>1, StutterWork
  <2>2. CASE RelocatorNext
    BY <1>2, <2>2, StartWork, ResolveWork, UnresolvedWork, ResolvedWork, CopyWork,
       LinkExecutableWork, PatchWork, CopiedWork, LinkWork, RelocatedWork, FaultWork
       DEF RelocatorNext
  <2> QED
    BY <2>1, <2>2
<1> QED
  BY <1>3, <1>4

\* When no call is in progress all copies are patched and linked.
LEMMA WorkInvRuns == ASSUME Workable, RInv, WorkInv PROVE ProgramsWork
<1> SUFFICES ASSUME step = "idle", NEW program \in DOMAIN relocated,
                    NEW path \in DOMAIN relocated[program].tree
             PROVE  LET r == relocated[program]
                        At(p) == NewPath(p, r.hashes[p])
                    IN  \E elf \in Opened(disk, At(path)) :
                          /\ elf.kind = "elf"
                          /\ elf.dynamic => Resolves(disk, Runtime, At(path), elf)
                          /\ {RealPath(disk, dep) : dep \in Dependencies(disk, Runtime, At(path))}
                               = {{At(dep)} : dep \in r.tree[path]}
  BY Zenon DEF ProgramsWork
<1> DEFINE r == relocated[program]
<1>1. TypeOK /\ TreesSound
  BY DEF RInv, RelocatorTypeOK, WorkInv
<1>2. \A p \in DOMAIN r.tree : /\ p \in Done /\ p \in Reached /\ Sound(p)
                               /\ NewPath(p, r.hashes[p]) = New(p)
                               /\ r.tree[p] = Deps(p) /\ Deps(p) \subseteq DOMAIN r.tree
                               /\ CopyMade(disk, p)
  <2> TAKE p \in DOMAIN r.tree
  <2>1. p \in Done
    BY DEF Done
  <2>2. CopyMade(disk, p)
    BY <2>1 DEF WorkInv, FilesMade, Made
  <2>3. /\ p \in Reached /\ Sound(p) /\ r.hashes[p] = Hash(p)
        /\ r.tree[p] = Deps(p) /\ Deps(p) \subseteq DOMAIN r.tree
    BY <1>1 DEF TreesSound
  <2> QED
    BY <2>1, <2>2, <2>3 DEF New
<1>3. \A dep \in Deps(path) : /\ dep \in Reached /\ Sound(dep)
                              /\ CopyMade(disk, dep) /\ LinkMade(disk, path, dep)
                              /\ NewPath(dep, r.hashes[dep]) = New(dep)
  <2> TAKE dep \in Deps(path)
  <2>1. dep \in DOMAIN r.tree
    BY <1>2
  <2>2. LinkMade(disk, path, dep)
    BY <1>2 DEF WorkInv, LinksMade
  <2> QED
    BY <1>2, <2>1, <2>2
<1>4. PICK elf \in Opened(disk, New(path)) :
        /\ elf.kind = "elf"
        /\ elf.dynamic => Resolves(disk, Runtime, New(path), elf)
        /\ {RealPath(disk, dep) : dep \in Dependencies(disk, Runtime, New(path))}
             = {{New(dep)} : dep \in Deps(path)}
  BY <1>1, <1>2, <1>3, CopyRuns
<1>5. {{NewPath(dep, r.hashes[dep])} : dep \in r.tree[path]} = {{New(dep)} : dep \in Deps(path)}
  BY <1>2, <1>3
<1>6. NewPath(path, r.hashes[path]) = New(path)
  BY <1>2
<1> HIDE DEF r
<1> QED
  BY <1>4, <1>5, <1>6, Zenon DEF r

\* "Relocates ELF `file` to `directory` together with its dependencies.": when no call
\* is in progress, every program that was relocated since the last fault, whichever
\* programs were relocated after it into the same directory, and each library of its
\* tree, opens at the place that its hash names, resolves in the directories of the
\* copies, and finds there the copies of its own dependencies and nothing else. That
\* is so as long as what the programs need is outside of the target, a path opens one
\* file, and a hash tells the file and the hashes of its dependencies: relocate hashes
\* the file alone, and when the dependencies differ the second program takes the links
\* of the first.
THEOREM RelocatedProgramsWork == RelocatorSpec => [](Workable => ProgramsWork)
<1>1. RelocatorInit => (Workable => RInv /\ WorkInv)
  BY InitRInv, InitWork
<1>2. (Workable => RInv /\ WorkInv) => (Workable => ProgramsWork)
  BY WorkInvRuns
<1> QED
  BY <1>1, <1>2, NextWorkInv, PTL DEF RelocatorSpec
====
