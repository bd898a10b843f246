CONSTANTS
  Orders = {o1}
  Payments = {p1}
  PaymentOf <- Direct
  DebtOf <- SameDebtor
  Handlers = {"hook"}
  Sweepers = {"timer"}
  MaxFaults = 0
SPECIFICATION Spec
PROPERTIES
  PaidOrderIsNotSwept
