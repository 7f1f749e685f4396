CONSTANTS
  MaxRuns = 3
  MaxFaults = 3
SPECIFICATION Spec
INVARIANT FileWhole
PROPERTY SameMode
PROPERTY OnePatchAtATime
PROPERTY RunsSucceed
\* The command is not run for ever.
CHECK_DEADLOCK FALSE
