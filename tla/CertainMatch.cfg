CONSTANTS
  Orders = {o1, o2}
  Payments = {p1}
  PaymentOf <- Direct
  DebtOf <- SameDebtor
  Handlers = {"hook"}
  Sweepers = {}
  MaxFaults = 0
SPECIFICATION Spec
INVARIANTS
  CertainMatchIsRight
