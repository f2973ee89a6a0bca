SPECIFICATION Spec
CONSTANTS
  ann = ann
  bob = bob
  home = home
  away = away
  c1 = c1
  c2 = c2
  r1 = r1
  r2 = r2
  Users = {ann, bob}
  Tenants = {home, away}
  Profiles <- MCProfiles
  Browsers = {b1}
  Calls = {c1, c2}
  Cancels = {c1, c2}
  NoOperator = NoOperator
  NoTenant = NoTenant
  Lifetime = 1
  MaxHours = 1
  JobTenant = home
  Runs = {r1, r2}
  Overlaps = FALSE
  MaxCredits = 1
  MaxPayments = 1
  RowErrors = {0, 2}
  PollEvery = 1
  HalfWay = 1
  MaxStored = 2
  MaxCritical = 1
SYMMETRY ConsoleSymmetry
\* A behaviour ends when its requests and the job have ended.
CHECK_DEADLOCK FALSE
INVARIANTS ConsoleTypeOK SpeaksForAnOperator LogoutHolds OnlyItsTenant
  CancelOverwrittenOnce CompletedReportExact EndsAgree FailedIsGeneric
PROPERTY ProgressNeverBack
