CONSTANTS
  Orders = {o1}
  Payments = {p1}
  PaymentOf <- Direct
  DebtOf <- SameDebtor
  Handlers = {"hook", "browser", "ledger"}
  Sweepers = {"timer"}
  MaxFaults = 1
SPECIFICATION FairSpec
INVARIANTS
  SettledMeansClosed
  AbandonedHasCase
  LostOnlyByFault
  RecoveredByMoney
PROPERTIES
  WatchEnds
  IntakeKeepsTheBooks
