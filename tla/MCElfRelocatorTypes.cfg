CONSTANTS
  Names = {"app", "top", "a", "b", "ld"}
  Places = {"bin", "lib", "opt", "$ORIGIN", "app1", "top1", "a1", "b1", "b2", "ld1"}
  Archs = {"x86_64"}
  Contents = {"app1", "top1", "a1", "b1", "b2", "ld1"}
  Worlds <- SharedWorlds
  MaxRuns = 3
  MaxFaults = 2
SPECIFICATION RelocatorSpec
INVARIANT RelocatorTypeOK
INVARIANT Outside
INVARIANT NamesApart
INVARIANT HashesDiffer
\* The relocator is not called for ever.
CHECK_DEADLOCK FALSE
