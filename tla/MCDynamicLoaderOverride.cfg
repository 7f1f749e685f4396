CONSTANTS
  Names = {"app", "a", "b", "ld"}
  Places = {"bin", "lib", "opt", "$ORIGIN"}
  Archs = {"x86_64", "i386"}
  Contents = {"bytes"}
  Worlds <- OverrideWorlds
SPECIFICATION Spec
INVARIANT OverridesFirst
\* The search ends.
CHECK_DEADLOCK FALSE
