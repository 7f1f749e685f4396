------------------------------- MODULE TagStore -------------------------------
(***************************************************************************)
(* What remove_dynamic_tag and set_dynamic_tag of the patcher promise: the *)
(* values of each tag, in their order, as whoever loads the file reads     *)
(* them.                                                                   *)
(***************************************************************************)
CONSTANTS
  Tags,         \* the tags of the dynamic table,
  SearchPaths,  \* those among them that are library search paths,
  Settable,     \* and those that can be set
  Values,       \* the values they can be set to,
  InitialStores \* and the values they have in the files

VARIABLE store

StoreInit == store \in InitialStores

Others(tag) == Tags \ {tag}

\* Removing a tag leaves the others as they are.
Remove(tag) ==
  /\ store'[tag] = << >>
  /\ \A t \in Others(tag) : store'[t] = store[t]
  /\ DOMAIN store' = Tags

\* A tag that is set has one value, and there are no other search paths.
Set(tag, value) ==
  /\ store'[tag] = <<value>>
  /\ \A t \in Others(tag) \cap SearchPaths : store'[t] = << >>
  /\ \A t \in Others(tag) \ SearchPaths : store'[t] = store[t]
  /\ DOMAIN store' = Tags

StoreNext ==
  \/ \E tag \in Tags : Remove(tag)
  \/ \E tag \in Settable, value \in Values : Set(tag, value)

StoreSpec == StoreInit /\ [][StoreNext]_store
===============================================================================
