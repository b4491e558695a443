SPECIFICATION Spec
CONSTANTS
  j1 = j1
  j2 = j2
  Jobs <- OneJob
  Recipients = 1
  Parts = 1
  MaxAttempts = 2
  MaxStops = 0
  StoreFails = TRUE
  All = All
  NoJob = NoJob
PROPERTY NoResend
