CONSTANTS
  Names = {"app", "a", "b", "ld"}
  Places = {"bin", "lib", "opt", "$ORIGIN"}
  Archs = {"x86_64", "i386"}
  Contents = {"bytes"}
  Worlds <- CyclicWorlds
  MaxDepth = 6
SPECIFICATION DepsSpec
INVARIANT Absolute
INVARIANT NoCallInItself
\* The command ends.
CHECK_DEADLOCK FALSE
