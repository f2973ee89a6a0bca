SPECIFICATION Spec
CONSTANTS
  Accounts = {"n1", "n2"}
  Fields = {"a"}
  Numbers = {"1", "x"}
  MaxCredits = 2
  MaxPayments = 2
  CreditBatch = 2
  CreditChunk = 2
  PaymentBatch = 2
  PollEvery = 2
\* A run ends.
CHECK_DEADLOCK FALSE
INVARIANT InvalidNumericLogged
