SPECIFICATION AddonSpec
CONSTANTS
  b1 = b1
  b2 = b2
  c1 = c1
  HangUp = HangUp
  All = All
  NoJob = NoJob
  Jobs <- TwoBatches
  Ussd <- NoRequests
  IdOf <- OwnIds
  Callers <- OneCaller
  Recipients = 1
  MaxRetries = 1
  RetryForever = FALSE
  StopBatch = FALSE
  RetryWaits = TRUE
  PauseWaits = TRUE
  Tracking = {TRUE, FALSE}
  Outages = FALSE
  StoreFails = FALSE
  CallCommands = {"c1", "c2"}
  Queries = {"u1"}
  MaxTasks = 2
  Roles = {"status", "depth"}
  Available = "status"
  Depth = "depth"
  QueueLimit = 2
  Topics = {"t1", "t2"}
  MaxChanges = 3
  MaxOutages = 2
  Versions = 3
  MaxDeaths = 2
  SmsJobs = {j1}
  SmsRecipients = 1
  Parts = 1
  MaxAttempts = 2
  MaxStops = 1
  SmsStoreFails = TRUE
  Segments = 3
  Slots = 2
  MaxDrops = 1
  Inbox <- ThreeMessages
  MaxLosses = 2
INVARIANTS
  TypeOK
  SilenceAfter
  CleanedUp
  HonestBatches
  NoneLeft
  RetainedSettles
  NoOrphans
  TargetWhole
  SendingHeld
  CleanCredit
  InboundTrue
SYMMETRY Symmetric
