--------------------------- MODULE MCDynamicLoader ---------------------------
(***************************************************************************)
(* DynamicLoader on small disks: a program in bin, its libraries in lib    *)
(* and opt, and an interpreter.                                            *)
(***************************************************************************)
EXTENDS DynamicLoader

At(start, place) == [at |-> start, place |-> place]
Host(place) == At("host", place)
App(start) == Join(At(start, "bin"), "app")
Interp == Join(Host("lib"), "ld")

\* A file that needs nothing.
Leaf == [kind |-> "elf", link |-> {}, content |-> "bytes", arch |-> "x86_64",
         dynamic |-> TRUE, needed |-> {}, rpath |-> <<>>, runpath |-> <<>>,
         interp |-> {}]
Static == [Leaf EXCEPT !.dynamic = FALSE]
Library(needed) == [Leaf EXCEPT !.needed = needed]
Program(needed) == [Library(needed) EXCEPT !.interp = {Interp}]
LinkTo(path) == [Leaf EXCEPT !.kind = "link", !.link = {path}]

Plain == [cli |-> TRUE, root |-> "host", libc |-> "glibc",
          search_dirs |-> <<Host("lib")>>, search_dirs_override |-> <<>>]

World(given, o, d) == [files |-> given, options |-> o, disk |-> d]

-----------------------------------------------------------------------------
(* Every graph of a program, two libraries and the interpreter *)

Lib(name) == Join(Host("lib"), name)

GraphDisk(app, a, b, ld) ==
  [path \in {App("host"), Lib("a"), Lib("b"), Lib("ld")} |->
     CASE path = App("host") -> Program(app)
       [] path = Lib("a") -> Library(a)
       [] path = Lib("b") -> b
       [] path = Lib("ld") -> ld]

GraphWorlds ==
  {World(given, Plain, GraphDisk(app, a, b, ld)) :
     given \in {<<App("host")>>, <<Lib("b"), App("host")>>},
     app \in SUBSET {"a", "b", "ld"}, a \in SUBSET {"a", "b", "app", "ld"},
     b \in {Library(n) : n \in SUBSET {"a", "ld"}} \cup {LinkTo(Lib("a")), LinkTo(Lib("b"))},
     ld \in {Static, Leaf, Library({"ld"})}}

-----------------------------------------------------------------------------
(* A library in two directories, with each way to choose between them *)

Odd == {Leaf, [Leaf EXCEPT !.arch = "i386"], [Leaf EXCEPT !.kind = "malformed"],
        [Leaf EXCEPT !.kind = "not_elf"], [Leaf EXCEPT !.kind = "unreadable"],
        [Library({"b"}) EXCEPT !.runpath = <<Host("$ORIGIN")>>]}

\* Outside of the root of the loader there are good copies.
SearchDisk(start, odd, rpath, runpath) ==
  LET app == [Program({"a"}) EXCEPT !.rpath = rpath, !.runpath = runpath]
      Is(path, place, name) == path.place = place /\ path.name = name
  IN  [path \in {Join(At(s, place), name) : s \in {start, "host"},
                                            place \in {"bin", "lib", "opt"},
                                            name \in {"app", "a", "b", "ld"}} |->
         IF Is(path, "bin", "app") THEN app
         ELSE IF Is(path, "opt", "a") /\ path.at = start THEN odd
         ELSE Leaf]

Dirs == {<<>>, <<Host("opt")>>, <<Host("lib"), Host("opt")>>, <<At("cwd", "lib")>>}

SearchWorlds ==
  {World(<<App(start)>>,
         [Plain EXCEPT !.cli = (start = "host"), !.root = start, !.libc = libc,
                       !.search_dirs = <<At(start, "lib")>>,
                       !.search_dirs_override = over],
         SearchDisk(start, odd, rpath, runpath)) :
     start \in {"host", "sysroot"}, libc \in {"glibc", "musl"}, odd \in Odd,
     rpath \in Dirs, runpath \in Dirs,
     over \in {<<>>, <<Host("opt")>>, <<At("sysroot", "opt")>>}}

Chosen(w) ==
  w.options.libc = "musl" \/ w.disk[w.files[1]].runpath # <<>>
    \/ w.options.search_dirs_override = <<>>

\* glibc with neither RPATH nor RUNPATH ignores the directories of the caller.
OverrideWorlds == {w \in SearchWorlds : ~ Chosen(w)}

\* A loader with a root whose caller has a directory that is not under it: what
\* is found there is opened under the root.
LedOutside(w) ==
  w.options.root = "sysroot" /\ Host("opt") \in Range(w.options.search_dirs_override)

LedOutsideWorlds == {w \in SearchWorlds : LedOutside(w)}

\* The root given on the command line.
RootWorlds ==
  {[w EXCEPT !.options.cli = TRUE] :
     w \in {v \in SearchWorlds : v.options.root = "sysroot"}}

\* A program given by a relative path.
RelativeWorlds ==
  {World(<<App("cwd")>>, Plain, [path \in {App("cwd")} |-> Static])}

AllWorlds == GraphWorlds \cup {w \in SearchWorlds : Chosen(w) /\ ~ LedOutside(w)}
==============================================================================
