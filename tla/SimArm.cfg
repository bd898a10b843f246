CONSTANTS
  MaxAttempts = 3
  MaxRung = 6
  MaxContacts7d = 2
  WindowHours = 168
  NoticeHours = 24
  DowntimeBackoff = 15
  QuietStart = 21
  QuietEnd = 9
  Schedule <- RetryAtOnceThenDaily
  Budget = 1
  Cases = {1, 2}
  Worlds <- TwoDebtors
  Week = 2880
  Slack = 48
  MaxSpared = 1
SPECIFICATION Spec
INVARIANTS
  CapHolds
  OnlyOpponentsBreakRules
  DebitAfterNotice
  EngineNeverRetries
  OrganicMoneyIsBooked
CHECK_DEADLOCK FALSE
