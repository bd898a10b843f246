CONSTANTS
  MaxAttempts = 3
  MaxRung = 6
  MaxContacts7d = 3
  WindowHours = 168
  NoticeHours = 24
  DowntimeBackoff = 15
  Debts = {d1}
  Passes = {w1}
  ActionIds = {a1, a2, a3, a4}
  CustomerOf <- OneCustomer
  PauseScopes <- NoPauses
  Modes = {"live", "dry_run", "sandbox"}
  FetchFails = TRUE
  PayBy = {"order"}
  MaxFaults = 1
SPECIFICATION Spec
INVARIANTS
  OneLiveAction
  OneActionPerRung
  HumanOnlyUnderCap
  SelfRecoveredUntouched
  UncountedOnlyByFault
  StrandedOnlyByFault
  StubSentOnlyByFault
PROPERTIES
  RungClimbs
