SPECIFICATION IntegrationSpec
CONSTANTS
  m1 = m1
  m2 = m2
  m3 = m3
  s1 = s1
  s2 = s2
  plain = plain
  guarded = guarded
  None = None
  Messages <- ThreeMessages
  Senders <- TwoSenders
  Rules <- TwoRules
  PinRules <- Guarded
  ChallengeRules <- Guarded
  ReportRules <- Guarded
  Codes = {1, 2}
  Window = 2
  GlobalLimit = 2
  SenderLimit = 1
  FailureLimit = 1
  Lockout = 2
  Cooldown <- SomeCooldown
  Ttl = 3
  Uptime = 1
  MaxTime = 4
  Dialogues <- TwoSenders
  Names = {"anna"}
  Phones = {"p1", "p2"}
  Commands = {"on"}
  RuleIds = {1, 2}
  Contacts <- OneContact
  Manual = Manual
  Files <- SomeFiles
  MaxEdits = 3
  Tokens = {1, 2}
  Limit = 1
  MaxOrders = 2
INVARIANTS
  TypeOK
  Authorized
  CooldownKept
  RateKept
  GuessesSpaced
  OptionsSound
  HubSound
SYMMETRY Symmetric
