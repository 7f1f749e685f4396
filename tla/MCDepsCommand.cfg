CONSTANTS
  Names = {"app", "a", "b", "ld"}
  Places = {"bin", "lib", "opt", "$ORIGIN"}
  Archs = {"x86_64", "i386"}
  Contents = {"bytes"}
  Worlds <- DepsWorlds
  MaxDepth = 6
SPECIFICATION MCSpec
INVARIANT TreeIsClosure
INVARIANT OverridesFirst
INVARIANT RootIsWholeDisk
INVARIANT FailsForAReason
INVARIANT ShowsDependencies
PROPERTY Terminates
\* The command ends.
CHECK_DEADLOCK FALSE
