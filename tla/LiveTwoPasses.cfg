CONSTANTS
  MaxAttempts = 3
  MaxRung = 3
  MaxContacts7d = 3
  WindowHours = 168
  NoticeHours = 24
  DowntimeBackoff = 15
  Debts = {d1}
  Passes = {w1, w2}
  ActionIds = {a1, a2, a3}
  CustomerOf <- OneCustomer
  PauseScopes <- NoPauses
  Modes = {"live"}
  FetchFails = FALSE
  PayBy = {}
  MaxFaults = 0
SPECIFICATION Spec
SYMMETRY AnyPass
INVARIANTS
  LiveActionsPerPass
  MessagesPerPass
