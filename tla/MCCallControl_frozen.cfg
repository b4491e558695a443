SPECIFICATION FairSpec
CONSTANTS
  b1 = b1
  c1 = c1
  HangUp = HangUp
  All = All
  NoJob = NoJob
  Jobs <- OneBatch
  Ussd <- NoRequests
  IdOf <- OwnIds
  Callers <- OneCaller
  Recipients = 1
  MaxRetries = 0
  RetryForever = TRUE
  StopBatch = FALSE
  RetryWaits = FALSE
  PauseWaits = TRUE
  Tracking = {TRUE}
  Outages = TRUE
  StoreFails = FALSE
PROPERTY Responsive
