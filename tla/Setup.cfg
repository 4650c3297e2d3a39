\* Two terminals, two commands in all, and any two of them (or the supervisor
\* or its child) killed, interrupted or timed out.
SPECIFICATION Spec
CONSTANTS
  Terminal = {"t1", "t2"}
  MaxRuns = 2
  MaxFaults = 2
INVARIANTS TypeOK OneSetup Recoverable SuccessIsComplete
PROPERTIES EveryRunEnds
