SPECIFICATION Spec
CONSTANTS
  u1 = u1
  u2 = u2
  t1 = t1
  t2 = t2
  Uploads = {u1, u2}
  Content <- MCContent
  NoUpload = NoUpload
  Earlier = {NoUpload, u1}
  Syncs = {t1, t2}
  Exporters = {t1, t2}
  Downloads = {d1}
  Hole = Hole
  MaxStarts = 3
  OldSlices <- MCOldSlices
  Pagers = {q1}
  Profilers = {q2}
  Asks <- MCAsks
  MaxPageSize = 2
  TopLimit = 1
  Null = Null
  Blank = 0
\* A behaviour ends when its starts are used up.
SYMMETRY SyncSymmetry
CHECK_DEADLOCK FALSE
INVARIANTS DataTypeOK FilesKeepOneUpload LastUploadWins QuietReadIsOneUpload
  AloneSyncExact PairedSyncExact QuietSyncIsOneUpload
  EveryRowReachable QuietPageIsExact 
PROPERTY AnswersAreCommitted
