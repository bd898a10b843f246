----------------------------- MODULE MCIntake -------------------------------
(* Instances of Intake for TLC: two debts of one customer for like         *)
(* amounts, and payments that name their order.                            *)
EXTENDS Intake

Debtor == [customer |-> "c", contact |-> "phone", email |-> Nobody, due |-> 10000]
SameDebtor == [o \in Orders |-> Debtor]

\* Each payment names the order it is for, and is by the customer.
Paying(o, p, link) == [order |-> o, ids |-> <<o, p>>, customer |-> "c",
                       contact |-> "phone", email |-> Nobody, amount |-> 10100,
                       ourLink |-> link]
FirstOrder == CHOOSE o \in Orders : TRUE
ByLink     == [p \in Payments |-> Paying(FirstOrder, p, TRUE)]
Direct     == [p \in Payments |-> Paying(FirstOrder, p, FALSE)]
=============================================================================
