SPECIFICATION Spec
CONSTANTS
  Accounts = {"n1", "n2"}
  Fields = {"a", "bad", "big"}
  Numbers = {"1", "x"}
  MaxCredits = 3
  MaxPayments = 3
  CreditBatch = 2
  CreditChunk = 1
  PaymentBatch = 2
  PollEvery = 2
\* A run ends.
CHECK_DEADLOCK FALSE
INVARIANTS TypeOK KnownAccountsHaveIds CountsMatchSlice NoPaymentLost
PROPERTY FullSliceReplace
