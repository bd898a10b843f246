CONSTANTS
  MaxAttempts = 3
  MaxRung = 3
  MaxContacts7d = 3
  WindowHours = 168
  NoticeHours = 24
  DowntimeBackoff = 15
  QuietStart = 21
  QuietEnd = 9
  Schedule <- NoSchedule
  Cases = {1, 2}
  OpensAt <- OneLater
  Looks <- FourLooks
  Overlays <- AlwaysOrLate
  TimeScales = {1, 6}
  Draws <- ThreeDraws
  Remaining = 1000
  Burden = 100
  FeedBudget = 1
  MaxMoves = 1
  MaxStops = 1
  MaxSpared = 1
SPECIFICATION Spec
INVARIANTS
  ReplayFaithful
  NightMessageExplained
  FeedShowsRuns
  NextWindowIsFirstLegal
CHECK_DEADLOCK FALSE
