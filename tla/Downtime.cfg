CONSTANTS
  MaxAttempts = 3
  MaxRung = 6
  MaxContacts7d = 3
  WindowHours = 2
  NoticeHours = 24
  DowntimeBackoff = 1
  Outages = {d1, d2}
  MethodOf <- OneMethod
  Ends = {1}
  Copies = {c1, c2}
  MaxTime = 3
  MaxFaults = 1
SYMMETRY AnyOrder
SPECIFICATION Spec
INVARIANTS
  HeldForAReason
  ReportedOutageHolds
  NoDebitInOutage
  SilentOnceReported
  WindowOutlastsOutage
PROPERTIES
  ResolvedStays
CHECK_DEADLOCK FALSE
