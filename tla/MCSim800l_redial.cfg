SPECIFICATION Spec
CONSTANTS
  r1 = r1
  r2 = r2
  r3 = r3
  Requests <- NoRequests
  Unicode = {}
  Invalid = {}
  Capacity = 2
  MaxAttempts = 2
  Slots <- OneSlot
  CallStates <- Connected
  NoSms = NoSms
  Traffic = {"voice"}
INVARIANT NoDialAfterHangup
