SPECIFICATION Spec
CONSTANTS
  Jobs = {j1}
  Slices = {s1}
  SliceOf <- OneSlice
  NoJob = NoJob
  Viewers = {}
  Cancellers = {c1}
  Workers = {w1}
  MaxFaults = 0
SYMMETRY Symmetry
\* The bounded number of requests ends, and the system with them.
CHECK_DEADLOCK FALSE
INVARIANT FreedByCancelNeverWrites
