SPECIFICATION BatchesSpec
CONSTANTS
  b1 = b1
  u1 = u1
  c1 = c1
  HangUp = HangUp
  All = All
  NoJob = NoJob
  Jobs <- TwoJobs
  Ussd <- OneRequest
  IdOf <- OwnIds
  Callers <- OneCaller
  Recipients = 1
  MaxRetries = 0
  RetryForever = TRUE
  StopBatch = FALSE
  RetryWaits = TRUE
  PauseWaits = TRUE
  Tracking = {TRUE}
  Outages = TRUE
  StoreFails = FALSE
  BoundedUssd <- OneRequest
  BoundedRecipients = 2
  BoundedRetries = 0
  BoundedStop = TRUE
  BoundedTracking = {TRUE}
PROPERTIES
  CanceledEnds
  Responsive
  
