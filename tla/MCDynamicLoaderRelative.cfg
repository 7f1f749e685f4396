CONSTANTS
  Names = {"app", "a", "b", "ld"}
  Places = {"bin", "lib", "opt", "$ORIGIN"}
  Archs = {"x86_64", "i386"}
  Contents = {"bytes"}
  Worlds <- RelativeWorlds
SPECIFICATION Spec
INVARIANT FailsForAReason
\* The search ends.
CHECK_DEADLOCK FALSE
