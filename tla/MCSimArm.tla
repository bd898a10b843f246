------------------------------ MODULE MCSimArm ------------------------------
(* An instance of SimArm for TLC. *)
EXTENDS SimArm

RetryAtOnceThenDaily == <<0, 1, 24>>
Acting == {"RETRY"} \cup ContactActions

Debtor(opened, pays, mandate, downs, likes, harms) ==
  [openedAt |-> opened, selfPayAt |-> pays, mandate |-> mandate, retryable |-> TRUE,
   optedOut |-> FALSE, riskBlocked |-> FALSE, downs |-> downs, likes |-> likes, harms |-> harms]

\* Outages that keep a reminded customer waiting until a debit is legal.
LongDay == <<<<770, 1070>>, <<1030, 1290>>, <<1960, 2230>>>>

\* Never pays by itself; is driven away by every action, having been about
\* to pay; pays on the second day, or in the hour a reminder is due.
First == {Debtor(30, Never, TRUE, LongDay, <<"RETRY", "REMIND">>, {}),
          Debtor(630, 2830, TRUE, <<>>, <<>>, Acting),
          Debtor(1140, 2030, FALSE, <<>>, <<"HUMAN", "REMIND">>, {})}
Second == {Debtor(600, Never, FALSE, <<>>, <<"PAY_LINK">>, {}),
           Debtor(1020, 1130, FALSE, <<>>, <<"PAY_LINK">>, {})}

TwoDebtors == {[c \in {1, 2} |-> IF c = 1 THEN a ELSE b] : a \in First, b \in Second}

=============================================================================
