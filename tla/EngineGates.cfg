CONSTANTS
  MaxAttempts = 3
  MaxRung = 6
  MaxContacts7d = 3
  WindowHours = 168
  NoticeHours = 24
  DowntimeBackoff = 15
  Ages <- AtAges
  Attempts <- AtAttempts
  Rungs = {0, 1, 4, 6}
  Ends <- PastOrAhead
  NoticeAges <- Notices
  Contacts <- AtContacts
  Pendings <- Queued
SPECIFICATION Spec
INVARIANTS
  RetryIsPermitted
  ContactIsPermitted
  HumanComesLast
  WriteOffIsDue
