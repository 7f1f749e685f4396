----------------------------- MODULE DepsCommand -----------------------------
(***************************************************************************)
(* The elb deps command (cli/src/deps.rs): the dependencies of the         *)
(* arguments are resolved as in DynamicLoader and then printed as a list,  *)
(* as a tree for each argument, or as a tree of depth one for each file.   *)
(* print_tree calls itself for each child: its calls are a stack.          *)
(***************************************************************************)
EXTENDS DynamicLoader

CONSTANT MaxDepth  \* a bound of the model on the calls of print_tree

ASSUME DepthAssumption == MaxDepth \in Nat

VARIABLES
  format,
  rest,     \* the trees that remain to be printed: a path to print at the
            \* top, and the tree from which its descendants are taken
  stack,    \* calls of print_tree: a path, and its children not yet printed
  printed   \* the paths that were printed

printer == <<format, rest, stack, printed>>

DepsInit ==
  /\ Init
  /\ format \in {"list", "tree", "table_tree"}
  /\ rest = <<>> /\ stack = <<>> /\ printed = {}

ResolveNext ==
  /\ AlreadyVisited \/ NoDependencies \/ ResolveDependencies \/ Fail
  /\ UNCHANGED printer

\* The list without the removal of the arguments from the tree.
WholeList == DOMAIN tree \cup UNION Range(tree)

\* DependencyTree::remove of each argument gives its dependencies; the rest of
\* the tree gives dependents and dependencies.
List ==
  (UNION {tree[path] : path \in DOMAIN tree}) \cup (DOMAIN tree \ Range(files))

Single(path) == [p \in {path} |-> tree[path]]

\* The loops over the arguments, and over the tree in the order of its paths,
\* which are abstract: in any order.
Show ==
  /\ Finish
  /\ printed' = IF format = "list" THEN List ELSE {}
  /\ rest' \in
       CASE format = "list" -> {<<>>}
         [] format = "tree" ->
              {[i \in DOMAIN files |-> [top |-> files[i], in |-> tree]]}
         [] format = "table_tree" ->
              {[i \in DOMAIN paths |-> [top |-> paths[i], in |-> Single(paths[i])]] :
                 paths \in Orders(DOMAIN tree)}
  /\ UNCHANGED <<format, stack>>

\* DependencyTree::get.
Children(t, path) == IF path \in DOMAIN t THEN t[path] ELSE {}

Call(path) == [path |-> path, left |-> Children(Head(rest).in, path)]

PrintTop ==
  /\ stack = <<>> /\ rest # <<>>
  /\ stack' = <<Call(Head(rest).top)>>
  /\ printed' = printed \cup {Head(rest).top}
  /\ UNCHANGED <<vars, format, rest>>

Top == stack[Len(stack)]

PrintChild ==
  /\ stack # <<>> /\ Len(stack) < MaxDepth
  /\ \E child \in Top.left :
       /\ stack' = Append([stack EXCEPT ![Len(stack)].left = @ \ {child}], Call(child))
       /\ printed' = printed \cup {child}
  /\ UNCHANGED <<vars, format, rest>>

Return ==
  /\ stack # <<>> /\ Top.left = {}
  /\ stack' = SubSeq(stack, 1, Len(stack) - 1)
  /\ rest' = IF Len(stack) = 1 THEN Tail(rest) ELSE rest
  /\ UNCHANGED <<vars, format, printed>>

DepsNext == ResolveNext \/ Show \/ PrintTop \/ PrintChild \/ Return

DepsSpec ==
  DepsInit /\ [][DepsNext]_<<vars, printer>> /\ WF_<<vars, printer>>(DepsNext)

-----------------------------------------------------------------------------
(* Properties *)

Printed == status = "done" /\ rest = <<>>

\* Every format shows every dependency, and the list shows nothing else: no
\* argument that is not needed by another.  The loader is the one that elb deps
\* makes, which has the root of the host.
ShowsDependencies ==
  Printed /\ options.cli =>
    printed = (UNION Range(tree))
                \cup (IF format = "list" THEN {} ELSE Range(files))

\* No argument, search directory, link, interpreter or RUNPATH is relative.
Absolute ==
  /\ Confined(Starts \ {"cwd"})
  /\ Range(files) \subseteq PathsAt(Starts \ {"cwd"})

\* print_tree is not called for a path of which a call is in progress: it
\* would never return.
NoCallInItself ==
  \A i, j \in DOMAIN stack : stack[i].path = stack[j].path => i = j
===============================================================================
