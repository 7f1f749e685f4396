CONSTANTS
  Names = {"app", "a", "b", "ld"}
  Places = {"bin", "lib", "opt", "$ORIGIN"}
  Archs = {"x86_64", "i386"}
  Contents = {"bytes"}
  Worlds <- RootWorlds
SPECIFICATION Spec
INVARIANT RootIsWholeDisk
\* The search ends.
CHECK_DEADLOCK FALSE
