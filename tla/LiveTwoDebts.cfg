CONSTANTS
  MaxAttempts = 3
  MaxRung = 3
  MaxContacts7d = 1
  WindowHours = 168
  NoticeHours = 24
  DowntimeBackoff = 15
  Debts = {d1, d2}
  Passes = {w1}
  ActionIds = {a1, a2, a3, a4}
  CustomerOf <- OneCustomer
  PauseScopes <- OnePause
  Modes = {"live"}
  FetchFails = FALSE
  PayBy = {}
  MaxFaults = 0
SPECIFICATION Spec
INVARIANTS
  CapOvershootBounded
  PassKeepsItsOrders
