CONSTANTS
  Conf = {"ld.so.conf", "a", "b", "c"}
  LdSoConf = "ld.so.conf"
  LibDir = {"lib", "usr/lib", "opt", "x", "y"}
  NotText = "not text"
  Defaults <- MCDefaults
  Systems <- ThreeFiles
SPECIFICATION Spec
INVARIANT AllDirectories
PROPERTY Terminates
\* The parser ends.
CHECK_DEADLOCK FALSE
