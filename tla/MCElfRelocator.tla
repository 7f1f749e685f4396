---------------------------- MODULE MCElfRelocator ----------------------------
(***************************************************************************)
(* ElfRelocator on small disks: two programs that share libraries.         *)
(***************************************************************************)
EXTENDS ElfRelocator

Host(place) == [at |-> "host", place |-> place]
P(place, name) == Join(Host(place), name)
Ld == P("lib", "ld")

Leaf == [kind |-> "elf", link |-> {}, content |-> "ld1", arch |-> "x86_64",
         dynamic |-> TRUE, needed |-> {}, rpath |-> <<>>, runpath |-> <<>>,
         interp |-> {}]
Library(content, needed) == [Leaf EXCEPT !.content = content, !.needed = needed]
Program(content, needed) == [Library(content, needed) EXCEPT !.interp = {Ld}]

Plain == [cli |-> TRUE, root |-> "host", libc |-> "glibc",
          search_dirs |-> <<Host("lib")>>, search_dirs_override |-> <<>>]

World(given, o, d) == [files |-> given, options |-> o, disk |-> d]

AppPath == P("bin", "app")
TopPath == P("bin", "top")

-----------------------------------------------------------------------------
(* Two programs with a shared library, a cycle, and a link to a library *)

SharedDisk(app, a, old) ==
  [path \in {AppPath, TopPath, Ld, P("lib", "a"), P("opt", "b"), P("lib", "b")} |->
     CASE path = AppPath -> [Program("app1", app) EXCEPT !.rpath = old]
       [] path = TopPath -> Program("top1", {"a"})
       [] path = Ld -> Leaf
       [] path = P("lib", "a") -> Library("a1", a)
       [] path = P("opt", "b") -> Library("b1", {"a"})
       [] path = P("lib", "b") -> [Leaf EXCEPT !.kind = "link", !.link = {P("opt", "b")}]]

SharedWorlds ==
  {World(<<AppPath, TopPath>>, [Plain EXCEPT !.libc = libc], SharedDisk(app, a, old)) :
     libc \in {"glibc", "musl"}, app \in {{"a"}, {"a", "b", "ld"}, {"top"}},
     a \in {{}, {"b"}}, old \in {<<>>, <<Host("opt")>>}}

-----------------------------------------------------------------------------
(* Worlds in which something goes wrong *)

\* The program is under another root, and so are its libraries.
RootedWorlds ==
  LET At(path) == [path EXCEPT !.at = "sysroot"]
  IN  {World(<<At(AppPath)>>,
             [Plain EXCEPT !.cli = FALSE, !.root = "sysroot",
                           !.search_dirs = <<[Host("lib") EXCEPT !.at = "sysroot"]>>],
             [path \in {At(AppPath), At(Ld)} |->
                IF path = At(Ld) THEN Leaf ELSE Program("app1", {})])}

\* Two programs that come with the same library a and different libraries b.
Bundle(dir, content) ==
  [name \in {"app", "top", "a", "b"} |->
     CASE name = "a" -> [Library("a1", {"b"}) EXCEPT !.runpath = <<Host("$ORIGIN")>>]
       [] name = "b" -> Library(content, {})
       [] OTHER -> [Program(IF name = "app" THEN "app1" ELSE "top1", {"a"})
                      EXCEPT !.runpath = <<Host("$ORIGIN")>>]]

BundleWorlds ==
  {World(<<AppPath, P("opt", "top")>>, Plain,
         [path \in {P(dir, name) : dir \in {"bin", "opt"}, name \in {"app", "top", "a", "b"}}
                     \cup {Ld} |->
            IF path = Ld THEN Leaf
            ELSE Bundle(path.place, IF path.place = "bin" THEN "b1" ELSE "b2")[path.name]])}

\* A static executable, which has no dynamic table.
StaticWorlds ==
  {World(<<AppPath>>, Plain,
         [path \in {AppPath} |-> [Leaf EXCEPT !.content = "app1", !.dynamic = FALSE]])}
-----------------------------------------------------------------------------
(* What the theorems ask of the disk *)

OnDisk == {path \in DOMAIN disk : path.at # "target"}
NamesApart == ProgramsApart(OnDisk)
HashesDiffer == HashesTell({path \in OnDisk : Opened(disk, path) # {}})
===============================================================================
