SPECIFICATION Spec
CONSTANTS
  b1 = b1
  c1 = c1
  HangUp = HangUp
  All = All
  NoJob = NoJob
  Jobs <- OneBatch
  Ussd <- NoRequests
  IdOf <- OwnIds
  Callers <- OneCaller
  Recipients = 1
  MaxRetries = 1
  RetryForever = FALSE
  StopBatch = FALSE
  RetryWaits = TRUE
  PauseWaits = TRUE
  Tracking = {TRUE}
  Outages = FALSE
  StoreFails = TRUE
INVARIANT DisconnectGuaranteed
