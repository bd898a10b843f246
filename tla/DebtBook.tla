------------------------------ MODULE DebtBook ------------------------------
(***************************************************************************)
(* What the intake and the live path promise each other about a debt: its  *)
(* row and its case's are opened together and once, a settlement closes    *)
(* an open case with the row in one step, and no case is reopened.         *)
(* Neither handlers, sweeps, passes nor faults appear.                     *)
(***************************************************************************)
CONSTANT Debts

VARIABLES ob,     \* a debt is "none", "OPEN" or "SETTLED"
          case    \* its case is "none", "OPEN" or closed

vars == <<ob, case>>

Init == /\ ob = [d \in Debts |-> "none"]
        /\ case = [d \in Debts |-> "none"]

Open(d) == /\ ob[d] = "none" /\ case[d] = "none"
           /\ ob' = [ob EXCEPT ![d] = "OPEN"]
           /\ case' = [case EXCEPT ![d] = "OPEN"]

\* Also of a debt that is settled already, or whose case is closed.
Settle(d) == /\ ob[d] # "none"
             /\ ob' = [ob EXCEPT ![d] = "SETTLED"]
             /\ \/ /\ case[d] = "OPEN"
                   /\ \E s \in {"RECOVERED", "SELF_RECOVERED"} :
                        case' = [case EXCEPT ![d] = s]
                \/ /\ case[d] # "OPEN"
                   /\ UNCHANGED case

\* The recovery path has the last word, whatever has become of the case.
GiveUp(d) == /\ case[d] # "none"
             /\ case' = [case EXCEPT ![d] = "GIVEN_UP"]
             /\ UNCHANGED ob

Next == \E d \in Debts : Open(d) \/ Settle(d) \/ GiveUp(d)

Spec == Init /\ [][Next]_vars
=============================================================================
