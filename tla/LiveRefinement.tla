--------------------------- MODULE LiveRefinement ---------------------------
(***************************************************************************)
(* One pass that is never cut short implements RecoveryCase.  An action is *)
(* under way from its row's insertion until it is out of every pass's      *)
(* hands, so a row that a settlement cancels under a pass stays under way  *)
(* until the pass is done with it.                                         *)
(***************************************************************************)
EXTENDS LiveWorker

ActionsOf(d) == {i \in Used : act[i].debt = d}

\* Where a pass has an action in hand, and what it has read and not
\* finished with.
AtId      == {"cleared", "calling", "minting", "sending", "recording", "closing"}
HandOf(w) == queue[w] \cup (IF pc[w].at \in AtId THEN {pc[w].id} ELSE {})

Busy(d) == \E i \in ActionsOf(d) : \/ act[i].status \in LiveStatus
                                  \/ \E w \in Passes : i \in HandOf(w)

Highest(S) == IF S = {} THEN 0 ELSE CHOOSE r \in S : \A q \in S : q <= r
TopRung(d) == Highest({RungOf[act[i].type] : i \in ActionsOf(d)})
Begun(d)   == Cardinality(ActionsOf(d))

Case == INSTANCE RecoveryCase WITH
          status <- case,
          level  <- [d \in Debts |-> TopRung(d)],
          begun  <- [d \in Debts |-> Begun(d)],
          told   <- sent,
          busy   <- [d \in Debts |-> Busy(d)]

(* The live path, with one pass at a time and no pass cut short, keeps the *)
(* promises of RecoveryCase, while webhooks, the ledger hook and pauses    *)
(* write the same rows.                                                    *)
KeepsPromises == Case!Spec

-----------------------------------------------------------------------------
(* Any number of passes, cut short or not, implement DebtBook.             *)
GivenUp(status) == IF status \in {"WRITTEN_OFF", "ESCALATED"} THEN "GIVEN_UP" ELSE status

Shared == INSTANCE DebtBook WITH
          ob   <- ob,
          case <- [d \in Debts |-> GivenUp(case[d])]

(* The live path keeps what the intake relies on, with passes that overlap *)
(* and are cut short: a pass closes the case it has read, without a look   *)
(* at its status, and still leaves no settled debt with an open case.      *)
LiveKeepsTheBooks == Shared!Spec
=============================================================================
