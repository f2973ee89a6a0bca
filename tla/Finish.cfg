SPECIFICATION FairSpec
CONSTANTS
  Jobs = {j1}
  Slices = {s1}
  SliceOf <- OneSlice
  NoJob = NoJob
  Viewers = {}
  Cancellers = {c1, c2}
  Workers = {w1, w2}
  MaxFaults = 0
\* The bounded number of requests ends, and the system with them.
CHECK_DEADLOCK FALSE
PROPERTIES LockFreed JobTerminates
