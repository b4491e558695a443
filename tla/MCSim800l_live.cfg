SPECIFICATION FairSpec
CONSTANTS
  r1 = r1
  r2 = r2
  r3 = r3
  Requests <- OneRequest
  Unicode <- OneRequest
  Invalid = {}
  Capacity = 2
  MaxAttempts = 2
  Slots <- OneSlot
  CallStates <- Connected
  NoSms = NoSms
  Traffic = {"send", "voice", "inbox"}
INVARIANT DeletedWasHeard
PROPERTIES
  NoPreemption
  HangupServed
  ActiveResolves
