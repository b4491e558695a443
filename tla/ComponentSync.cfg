SPECIFICATION Spec
CONSTANTS
  Versions = 2
  MaxDeaths = 0
INVARIANT NoticeKept
