\* One terminal, no faults: the documented way back after a rollback.
SPECIFICATION Spec
CONSTANTS
  Terminal = {"t1"}
  MaxRuns = 2
  MaxFaults = 0
INVARIANT RestartsWhatItEnabled
