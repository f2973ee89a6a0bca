SPECIFICATION Spec
CONSTANTS
  Jobs = {j1}
  Slices = {s1}
  SliceOf <- OneSlice
  NoJob = NoJob
  Viewers = {v1}
  Cancellers = {c1}
  Workers = {w1, w2}
  MaxFaults = 2
SYMMETRY Symmetry
\* The bounded number of requests ends, and the system with them.
CHECK_DEADLOCK FALSE
INVARIANTS CancelInTimeStops OutcomeTruthful ControlInv
