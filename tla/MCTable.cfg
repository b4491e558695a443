SPECIFICATION MCSpec
CONSTANTS
  j1 = j1
  Jobs <- OneJob
  Recipients = 2
  Parts = 2
  MaxAttempts = 2
  MaxStops = 1
  StoreFails = FALSE
  All = All
  NoJob = NoJob
  Events = {e1, e2}
  MaxTries = 2
  MaxHalts = 1
  MaxFaults = 1
  Nothing = Nothing
INVARIANTS
  TypeOK
  OneSending
  InOrder
  HonestResult
  LateAtMostOne
  DeliveriesBounded
PROPERTIES
  NoResend
  TerminalIsFinal
  JobsEnd
  EventsEnd
