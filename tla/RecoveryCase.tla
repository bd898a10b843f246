---------------------------- MODULE RecoveryCase ----------------------------
(***************************************************************************)
(* What the live path promises about a debt's case, with no worker, table  *)
(* or executor in sight: one action at a time, each on a higher rung than  *)
(* the one before, at most one message for each, and a case that the       *)
(* engine closes is closed between two actions, never during one.          *)
(***************************************************************************)
EXTENDS Naturals

CONSTANT Debts

VARIABLES status,   \* the case's status, "none" before it is opened
          level,    \* the highest rung acted on
          begun,    \* actions begun
          told,     \* messages sent
          busy      \* an action is under way

vars == <<status, level, begun, told, busy>>

Init == /\ status = [d \in Debts |-> "none"] /\ busy = [d \in Debts |-> FALSE]
        /\ level = [d \in Debts |-> 0]       /\ begun = [d \in Debts |-> 0]
        /\ told = [d \in Debts |-> 0]

Open(d) == /\ status[d] = "none"
           /\ status' = [status EXCEPT ![d] = "OPEN"]
           /\ UNCHANGED <<level, begun, told, busy>>

\* An action begins: on no other's heels, and strictly above the last.  The
\* case may have been closed while the decision was being made.
Begin(d) == /\ status[d] # "none" /\ ~busy[d]
            /\ \E r \in 0..6 : r > level[d] /\ level' = [level EXCEPT ![d] = r]
            /\ begun' = [begun EXCEPT ![d] = @ + 1]
            /\ busy' = [busy EXCEPT ![d] = TRUE]
            /\ UNCHANGED <<status, told>>

Tell(d) == /\ busy[d] /\ told[d] < begun[d]
           /\ told' = [told EXCEPT ![d] = @ + 1]
           /\ UNCHANGED <<status, level, begun, busy>>

\* Actions end, several at once when an operator pauses or reconciles.
End(ds) == /\ \A d \in ds : busy[d]
           /\ busy' = [d \in Debts |-> busy[d] /\ d \notin ds]
           /\ UNCHANGED <<status, level, begun, told>>

\* A payment closes an open case, whatever is under way.
PaidClose(d) == /\ status[d] = "OPEN"
                /\ \E s \in {"RECOVERED", "SELF_RECOVERED"} :
                     status' = [status EXCEPT ![d] = s]
                /\ \E b \in BOOLEAN : (b => busy[d]) /\ busy' = [busy EXCEPT ![d] = b]
                /\ UNCHANGED <<level, begun, told>>

\* The engine gives up: nothing is under way.  It may come after a payment
\* and put its own status in that one's place.
GiveUp(d) == /\ status[d] # "none" /\ ~busy[d]
             /\ \E s \in {"WRITTEN_OFF", "ESCALATED"} : status' = [status EXCEPT ![d] = s]
             /\ UNCHANGED <<level, begun, told, busy>>

Next == \/ \E d \in Debts : Open(d) \/ Begin(d) \/ Tell(d) \/ PaidClose(d) \/ GiveUp(d)
        \/ \E ds \in SUBSET Debts : End(ds)

Spec == Init /\ [][Next]_vars
=============================================================================
