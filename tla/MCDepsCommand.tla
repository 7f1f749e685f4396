---------------------------- MODULE MCDepsCommand ----------------------------
(***************************************************************************)
(* elb deps on the disks of MCDynamicLoader: as a list on all of them, and *)
(* in each format where no file needs itself through others.               *)
(***************************************************************************)
EXTENDS DepsCommand, MCDynamicLoader

AcyclicWorlds ==
  {World(given, Plain, GraphDisk(app, a, b, Leaf)) :
     given \in {<<App("host")>>, <<Lib("b"), App("host")>>},
     app \in SUBSET {"a", "b", "app"}, a \in SUBSET {"b", "ld"},
     b \in {Static, Library({"ld"})}}

CyclicWorlds ==
  {World(<<App("host")>>, Plain,
         GraphDisk({"a"}, {"b"}, Library({"a"}), Leaf))}

DepsWorlds == AllWorlds \cup AcyclicWorlds

\* What remains to be printed of cyclic graphs is the list.
MCInit ==
  /\ DepsInit
  /\ format = "list" \/ World(files, options, disk) \in AcyclicWorlds

MCSpec ==
  MCInit /\ [][DepsNext]_<<vars, printer>> /\ WF_<<vars, printer>>(DepsNext)
==============================================================================
