CONSTANTS
  MaxAttempts = 3
  MaxRung = 6
  MaxContacts7d = 3
  WindowHours = 168
  NoticeHours = 24
  DowntimeBackoff = 15
  Debts = {d1}
  Passes = {w1, w2}
  ActionIds = {a1, a2}
  CustomerOf <- OneCustomer
  PauseScopes <- NoPauses
  Modes = {"live"}
  FetchFails = FALSE
  PayBy = {}
  MaxFaults = 0
SPECIFICATION Spec
INVARIANTS
  ActionRunsOnce
