SPECIFICATION Spec
CONSTANTS
  r1 = r1
  r2 = r2
  r3 = r3
  Requests <- ThreeRequests
  Unicode <- OneUnicode
  Invalid = {}
  Capacity = 2
  MaxAttempts = 2
  Slots <- OneSlot
  CallStates <- Connected
  NoSms = NoSms
  Traffic = {"send", "ussd", "calls"}
INVARIANTS
  TypeOK
  AtMostOneBody
  HonestVerdicts
  RequestsKept
PROPERTY ImplementsTransport
