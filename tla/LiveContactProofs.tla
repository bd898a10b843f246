-------------------------- MODULE LiveContactProofs --------------------------
(***************************************************************************)
(* Proofs about what the live path sends and counts: that a pass keeps to  *)
(* the pauses it began under, that faults alone lose or repeat a message,  *)
(* and, where passes do not overlap, the caps on messages and that the     *)
(* path keeps the promises of RecoveryCase.                                *)
(***************************************************************************)
EXTENDS LiveWorkerProofs

-----------------------------------------------------------------------------
(* What a step may do to the tables and to the places of the passes, for   *)
(* any number of passes.                                                   *)

\* An action in a pass's hands alone is marked UNKNOWN, by the sandbox.
Marks(ids, st) ==
  /\ act' = Mark(ids, st)
  /\ st = "UNKNOWN" => \E w \in Passes : /\ pc[w].at \in AtId /\ ids = {pc[w].id}
                                        /\ held[w].port = "sandbox"

LEMMA MarkOne ==
  ASSUME act \in [ActionIds -> ActionRows \cup {Free}],
         NEW i \in Used, NEW st \in LiveStatus \cup EndStatus, act' = Mark({i}, st)
  PROVE  act'[i].status = st
<1>1. i \in ActionIds /\ act[i] \in ActionRows BY UsedRows
<1>2. act'[i] = [act[i] EXCEPT !.status = st] BY <1>1 DEF Mark
<1> QED BY <1>1, <1>2 DEF ActionRows

(* A step leaves the actions alone, marks some, adds one, or is of the     *)
(* clock or the reconciler.                                                *)
LEMMA ActForms ==
  ASSUME TypeInv, [Next]_vars
  PROVE  \/ UNCHANGED act
         \/ \E ids \in SUBSET Used, st \in {"UNKNOWN"} \cup EndStatus : Marks(ids, st)
         \/ \E w \in Passes : MarkInFlight(w)
         \/ \E w \in Passes : /\ Schedule(w) /\ Used # ActionIds
                              /\ act' = [act EXCEPT ![NewId] =
                                           [status |-> "PENDING", debt |-> pc[w].row.debt,
                                            type |-> pc[w].action, due |-> FALSE]]
         \/ \E i \in ActionIds : TimeReaches(i)
         \/ Reconcile
<1> DEFINE Marking == \E ids \in SUBSET Used, st \in {"UNKNOWN"} \cup EndStatus : Marks(ids, st)
<1>a. ASSUME NEW ids, ids \subseteq Used, NEW st \in {"DONE", "FAILED", "ABORTED", "CANCELLED"},
             act' = Mark(ids, st)
      PROVE  Marking
  BY <1>a DEF EndStatus, Marks
<1>b. ASSUME NEW w \in Passes, NEW i, i \in HandOf(w) PROVE {i} \subseteq Used
  BY <1>b DEF TypeInv, Hands
<1>1. ASSUME NEW w \in Passes,
             StartTick(w) \/ OpenCases(w) \/ DecideCase(w) \/ CloseCase(w)
             \/ DropPausedAction(w) \/ Climb(w) \/ ReadDue(w) \/ FindLink(w) \/ Mint(w)
             \/ MintFails(w) \/ Send(w) \/ RecordContact(w) \/ FinishTick(w) \/ Abandon(w)
      PROVE  UNCHANGED act
  BY <1>1 DEF StartTick, OpenCases, DecideCase, CloseCase, DropPausedAction, Climb,
     ReadDue, FindLink, Mint, MintFails, Send, RecordContact, FinishTick, Abandon, store
<1>2. ASSUME NEW w \in Passes, CancelHeld(w) PROVE Marking
  <2>1. PICK i \in queue[w] : act' = Mark({i}, "CANCELLED") BY <1>2 DEF CancelHeld
  <2> QED BY <1>a, <1>b, <2>1 DEF HandOf
<1>3. ASSUME NEW w \in Passes, Recheck(w) PROVE Marking \/ UNCHANGED act
  <2>1. PICK i \in queue[w] : act' = Mark({i}, "ABORTED") \/ UNCHANGED act
    BY <1>3 DEF Recheck
  <2> QED BY <1>a, <1>b, <2>1 DEF HandOf
<1>4. ASSUME NEW w \in Passes, CallSandbox(w) PROVE Marking \/ UNCHANGED act
  <2>1. pc[w].at \in AtId /\ {pc[w].id} \subseteq Used
    BY <1>b, <1>4 DEF CallSandbox, HandOf, AtId
  <2>2. UNCHANGED act \/ Marks({pc[w].id}, "UNKNOWN")
    BY <1>4, <2>1 DEF CallSandbox, Marks
  <2> QED BY <2>1, <2>2
<1>5. ASSUME NEW w \in Passes, Finish(w) PROVE Marking
  <2>1. PICK st \in {"DONE", "FAILED"} : act' = Mark({pc[w].id}, st) BY <1>5 DEF Finish
  <2> QED BY <1>a, <1>b, <1>5, <2>1 DEF Finish, HandOf, AtId
<1>6. ASSUME NEW d \in Debts, EnvStep(d) PROVE Marking \/ UNCHANGED act
  <2>1. PendingOf(d) \subseteq Used BY DEF PendingOf
  <2>2. CASE SettleWebhook(d) \/ Ledger(d)
    BY <1>a, <2>1, <2>2 DEF SettleWebhook, Ledger, Settle
  <2>3. CASE ~(SettleWebhook(d) \/ Ledger(d))
    BY <1>6, <2>3 DEF EnvStep, FailureArrives, Lapse, AgeContact, Pay, store
  <2> QED BY <2>2, <2>3
<1>7. ASSUME NEW p \in PauseScopes, RaisePause(p) PROVE Marking
  <2>1. InScope(p) \subseteq Used BY DEF InScope
  <2> QED BY <1>a, <1>7, <2>1 DEF RaisePause
<1>8. ASSUME Clock \/ Resume \/ SwitchMode PROVE UNCHANGED act
  BY <1>8 DEF Clock, Resume, SwitchMode, store
<1>9. ASSUME UNCHANGED vars PROVE UNCHANGED act
  BY <1>9 DEF vars
<1>10. ASSUME NEW w \in Passes, Schedule(w)
       PROVE  \/ /\ Used # ActionIds
                 /\ act' = [act EXCEPT ![NewId] =
                              [status |-> "PENDING", debt |-> pc[w].row.debt,
                               type |-> pc[w].action, due |-> FALSE]]
              \/ UNCHANGED act
  BY <1>10 DEF Schedule
<1> HIDE DEF Marking
<1>11. ASSUME NEW w \in Passes, PassStep(w) \/ Abandon(w)
       PROVE  Marking \/ UNCHANGED act \/ Schedule(w) \/ MarkInFlight(w)
  BY <1>1, <1>2, <1>3, <1>4, <1>5, <1>11 DEF PassStep
<1>12. \/ Marking \/ UNCHANGED act \/ (\E w \in Passes : Schedule(w) \/ MarkInFlight(w))
       \/ (\E i \in ActionIds : TimeReaches(i)) \/ Reconcile
  BY <1>6, <1>7, <1>8, <1>9, <1>11 DEF Next
<1>13. CASE \E w \in Passes : Schedule(w)
  <2>1. PICK w \in Passes : Schedule(w) BY <1>13
  <2> QED BY <1>10, <2>1
<1>14. CASE Marking BY <1>14 DEF Marking
<1> QED BY <1>12, <1>13, <1>14

(* Rows are not deleted, keep their debt and type, and are PENDING at      *)
(* first only; a new one is what a pass has scheduled.                     *)
LEMMA RowsStep ==
  ASSUME TypeInv, [Next]_vars
  PROVE  /\ \A i \in Used : /\ i \in Used'
                            /\ act'[i].debt = act[i].debt /\ act'[i].type = act[i].type
                            /\ act'[i].status = "PENDING" => act[i].status = "PENDING"
         /\ \/ Used' = Used
            \/ \E w \in Passes :
                 /\ Schedule(w) /\ NewId \in ActionIds \ Used /\ Used' = Used \cup {NewId}
                 /\ act'[NewId] = [status |-> "PENDING", debt |-> pc[w].row.debt,
                                   type |-> pc[w].action, due |-> FALSE]
<1>0. \A r \in ActionRows : r # Free
  BY DEF ActionRows, Free, LiveStatus, EndStatus
<1>a. ASSUME \A i \in ActionIds :
               \/ act'[i] = act[i]
               \/ /\ act[i] \in ActionRows /\ act'[i] # Free
                  /\ act'[i].debt = act[i].debt /\ act'[i].type = act[i].type
                  /\ act'[i].status = "PENDING" => act[i].status = "PENDING"
      PROVE  /\ Used' = Used
             /\ \A i \in Used : /\ act'[i].debt = act[i].debt /\ act'[i].type = act[i].type
                                /\ act'[i].status = "PENDING" => act[i].status = "PENDING"
  BY <1>0, <1>a DEF Used
<1>1. CASE UNCHANGED act BY <1>1 DEF Used
<1>2. ASSUME NEW ids \in SUBSET Used, NEW st \in {"UNKNOWN", "IN_FLIGHT"} \cup EndStatus,
             act' = Mark(ids, st)
      PROVE  /\ Used' = Used
             /\ \A i \in Used : /\ act'[i].debt = act[i].debt /\ act'[i].type = act[i].type
                                /\ act'[i].status = "PENDING" => act[i].status = "PENDING"
  <2>1. /\ Used' = Used
        /\ \A i \in Used : act'[i].debt = act[i].debt /\ act'[i].type = act[i].type
        /\ \A i \in Used : act'[i].status = IF i \in ids THEN st ELSE act[i].status
    <3>1. st \in LiveStatus \cup EndStatus BY DEF LiveStatus
    <3> QED BY <1>2, <3>1, MarkType DEF TypeInv, TypeOK
  <2>2. st # "PENDING" BY DEF EndStatus
  <2> QED BY <2>1, <2>2
<1>3. ASSUME NEW w \in Passes, Schedule(w), Used # ActionIds,
             act' = [act EXCEPT ![NewId] = [status |-> "PENDING", debt |-> pc[w].row.debt,
                                            type |-> pc[w].action, due |-> FALSE]]
      PROVE  /\ NewId \in ActionIds \ Used /\ Used' = Used \cup {NewId}
             /\ \A i \in Used : act'[i] = act[i]
             /\ act'[NewId] = [status |-> "PENDING", debt |-> pc[w].row.debt,
                               type |-> pc[w].action, due |-> FALSE]
  <2> DEFINE new == [status |-> "PENDING", debt |-> pc[w].row.debt,
                     type |-> pc[w].action, due |-> FALSE]
  <2>1. NewId \in ActionIds /\ NewId \notin Used BY <1>3, FreshId
  <2>2. act'[NewId] = new /\ \A i \in ActionIds \ {NewId} : act'[i] = act[i]
    BY <1>3, <2>1 DEF TypeInv, TypeOK
  <2>3. new # Free
    <3>1. new.status = "PENDING" OBVIOUS
    <3> HIDE DEF new
    <3> QED BY <3>1 DEF Free
  <2> HIDE DEF new
  <2>4. Used' = Used \cup {NewId} BY <2>1, <2>2, <2>3 DEF Used
  <2> QED BY <2>1, <2>2, <2>4 DEF Used, new
<1>4. ASSUME NEW i \in ActionIds, TimeReaches(i)
      PROVE  /\ Used' = Used
             /\ \A j \in Used : /\ act'[j].debt = act[j].debt /\ act'[j].type = act[j].type
                                /\ act'[j].status = "PENDING" => act[j].status = "PENDING"
  <2>1. act[i] \in ActionRows /\ act' = [act EXCEPT ![i] = [act[i] EXCEPT !.due = TRUE]]
    BY <1>4, UsedRows DEF TimeReaches, TypeInv, TypeOK
  <2>2. [act[i] EXCEPT !.due = TRUE] \in ActionRows BY <2>1 DEF ActionRows
  <2>3. act'[i] \in ActionRows /\ act'[i].debt = act[i].debt /\ act'[i].type = act[i].type
        /\ act'[i].status = act[i].status
    BY <2>1, <2>2 DEF TypeInv, TypeOK, ActionRows
  <2>4. \A j \in ActionIds \ {i} : act'[j] = act[j] BY <2>1 DEF TypeInv, TypeOK
  <2> QED BY <1>0, <1>a, <2>1, <2>3, <2>4
<1>5. CASE Reconcile
  <2>1. ASSUME NEW i \in ActionIds
        PROVE  \/ act'[i] = act[i]
               \/ /\ act[i] \in ActionRows /\ act'[i] # Free
                  /\ act'[i].debt = act[i].debt /\ act'[i].type = act[i].type
                  /\ act'[i].status = "PENDING" => act[i].status = "PENDING"
    <3>1. CASE act[i] = Free \/ act[i].status # "UNKNOWN"
      BY <1>5, <3>1 DEF Reconcile
    <3>2. CASE ~(act[i] = Free \/ act[i].status # "UNKNOWN")
      <4>1. act[i] \in ActionRows BY <3>2 DEF TypeInv, TypeOK
      <4>2. PICK st \in {"DONE", "FAILED"} : act'[i] = [act[i] EXCEPT !.status = st]
        BY <1>5, <3>2 DEF Reconcile
      <4>3. act'[i] \in ActionRows BY <4>1, <4>2 DEF ActionRows, EndStatus
      <4> QED BY <1>0, <4>1, <4>2, <4>3 DEF ActionRows
    <3> QED BY <3>1, <3>2
  <2> QED BY <1>a, <2>1
<1>6. CASE \E w \in Passes : MarkInFlight(w)
  <2>1. PICK w \in Passes : pc[w].at = "cleared" /\ act' = Mark({pc[w].id}, "IN_FLIGHT")
    BY <1>6 DEF MarkInFlight
  <2>2. pc[w].id \in Used BY <2>1 DEF TypeInv, Hands, HandOf, AtId
  <2> QED BY <1>2, <2>1, <2>2
<1> QED BY <1>1, <1>2, <1>3, <1>4, <1>5, <1>6, ActForms DEF Marks

(* A pass handles an action in this order, whatever executes it.           *)
Forward == {<<"cleared", "calling">>,
            <<"calling", "minting">>, <<"calling", "sending">>, <<"calling", "closing">>,
            <<"minting", "sending">>, <<"minting", "closing">>,
            <<"sending", "recording">>, <<"sending", "closing">>,
            <<"recording", "closing">>}

(* One pass moves at a time.                                               *)
LEMMA OneMoves ==
  ASSUME TypeInv, [Next]_vars
  PROVE  \/ UNCHANGED <<pc, queue, todo, held>>
         \/ \E w \in Passes :
              /\ PassStep(w) \/ Abandon(w)
              /\ \A v \in Passes \ {w} : /\ pc'[v] = pc[v] /\ queue'[v] = queue[v]
                                         /\ todo'[v] = todo[v] /\ held'[v] = held[v]
<1>1. CASE ~(\E w \in Passes : PassStep(w) \/ Abandon(w))
  BY <1>1 DEF Next, EnvStep, FailureArrives, SettleWebhook, Ledger, Settle, Lapse, AgeContact,
     Pay, TimeReaches, RaisePause, Clock, Resume, SwitchMode, Reconcile, vars
<1>2. ASSUME NEW w \in Passes, PassStep(w) \/ Abandon(w)
      PROVE  \A v \in Passes \ {w} : /\ pc'[v] = pc[v] /\ queue'[v] = queue[v]
                                     /\ todo'[v] = todo[v] /\ held'[v] = held[v]
  <2> USE DEF TypeInv, TypeOK, Goto
  <2>1. CASE StartTick(w) \/ OpenCases(w) \/ CloseCase(w) \/ DropPausedAction(w)
             \/ Schedule(w) \/ Climb(w) \/ ReadDue(w)
    BY <2>1 DEF StartTick, OpenCases, CloseCase, DropPausedAction, Schedule, Climb, ReadDue
  <2>2. CASE DecideCase(w) BY <2>2 DEF DecideCase
  <2>3. CASE CancelHeld(w) \/ Recheck(w) \/ MarkInFlight(w)
    BY <2>3 DEF CancelHeld, Recheck, MarkInFlight
  <2>4. CASE FindLink(w) \/ Mint(w) \/ MintFails(w)
    BY <2>4 DEF FindLink, WithLink, Mint, MintFails
  <2>5. CASE Send(w)
    <3>1. \/ Goto(w, [at |-> "recording", id |-> pc[w].id])
          \/ Goto(w, [at |-> "closing", id |-> pc[w].id, ok |-> FALSE])
      BY <2>5, Zenon DEF Send
    <3> QED BY <2>5, <3>1 DEF Send
  <2>6. CASE RecordContact(w) \/ CallSandbox(w) \/ Finish(w) \/ FinishTick(w) \/ Abandon(w)
    BY <2>6 DEF RecordContact, CallSandbox, Finish, FinishTick, Abandon
  <2> QED BY <1>2, <2>1, <2>2, <2>3, <2>4, <2>5, <2>6 DEF PassStep
<1> QED BY <1>1, <1>2

(* Where a pass goes from where it is: nowhere, on to its next row or      *)
(* action, to a row it has decided on, to the commit of its rung, to an    *)
(* action it has checked, or on with the one it has in hand.               *)
Stays(w)  == pc'[w] = pc[w]
Leaves(w) == pc'[w].at \in {"idle", "listing", "deciding", "executing"}
PicksRow(w) ==
  /\ DecideCase(w) /\ pc[w].at = "deciding"
  /\ \E row \in todo[w], down, worth \in BOOLEAN, a \in Decisions \ {"NONE", "WAIT"} :
       /\ a = Decide(Snapshot(row, down), worth)
       /\ pc'[w] = [at |-> "apply", row |-> row, action |-> a]
Schedules(w) ==
  /\ Schedule(w) /\ pc[w].at = "apply" /\ pc[w].action \notin Terminal
  /\ pc'[w].at = "climb" /\ pc'[w].row = pc[w].row /\ pc'[w].action = pc[w].action
TakesUp(w) ==
  /\ Recheck(w) /\ pc[w].at = "executing" /\ pc'[w].at = "cleared"
  /\ pc'[w].id \in queue[w] /\ queue'[w] = queue[w] \ {pc'[w].id}
  /\ ~BlocksAction(held[w].pauses, act[pc'[w].id].type)
  /\ ~SettledAtSource(held[w].port, act[pc'[w].id].debt) \/ FetchFails
Advances(w) ==
  /\ pc[w].at \in AtId /\ pc'[w].at \in AtId /\ pc'[w].id = pc[w].id
  /\ <<pc[w].at, pc'[w].at>> \in Forward

LEMMA PlaceStep ==
  ASSUME TypeInv, [Next]_vars, NEW w \in Passes
  PROVE  Stays(w) \/ Leaves(w) \/ PicksRow(w) \/ Schedules(w) \/ TakesUp(w) \/ Advances(w)
<1> USE DEF Stays, Leaves, PicksRow, Schedules, TakesUp, Advances
<1>a. pc \in [Passes -> Places] /\ w \in Passes /\ queue \in [Passes -> SUBSET ActionIds]
  BY DEF TypeInv, TypeOK
<1>b. ASSUME NEW p, pc[w].at \in AtId, Goto(w, p), p.id = pc[w].id,
             <<pc[w].at, p.at>> \in Forward
      PROVE  Advances(w)
  BY <1>a, <1>b DEF Goto, Forward, AtId
<1>1. CASE pc'[w] = pc[w] BY <1>1
<1>2. CASE StartTick(w) \/ OpenCases(w) \/ CloseCase(w) \/ DropPausedAction(w) \/ Climb(w)
           \/ ReadDue(w) \/ Finish(w) \/ FinishTick(w) \/ Abandon(w)
  BY <1>2, <1>a DEF StartTick, OpenCases, CloseCase, DropPausedAction, Climb, ReadDue,
     Finish, FinishTick, Abandon, Goto
<1>3. CASE DecideCase(w)
  <2>1. PICK row \in todo[w], down \in BOOLEAN, worth \in BOOLEAN :
          \/ UNCHANGED pc
          \/ /\ Decide(Snapshot(row, down), worth) \notin {"NONE", "WAIT"}
             /\ Goto(w, [at |-> "apply", row |-> row,
                         action |-> Decide(Snapshot(row, down), worth)])
    BY <1>3 DEF DecideCase
  <2>2. Decide(Snapshot(row, down), worth) \in Decisions BY LiveDecisionType
  <2>3. pc[w].at = "deciding" BY <1>3 DEF DecideCase
  <2>4. CASE UNCHANGED pc BY <2>4
  <2>5. CASE ~UNCHANGED pc
    <3>1. PICK a \in Decisions \ {"NONE", "WAIT"} :
            /\ a = Decide(Snapshot(row, down), worth)
            /\ Goto(w, [at |-> "apply", row |-> row, action |-> a])
      BY <2>1, <2>2, <2>5
    <3>2. pc'[w] = [at |-> "apply", row |-> row, action |-> a]
      BY <1>a, <3>1 DEF Goto
    <3> QED BY <1>3, <2>3, <3>1, <3>2
  <2> QED BY <2>4, <2>5
<1>4. CASE Schedule(w)
  <2>1. pc[w].at = "apply" /\ pc[w].action \notin Terminal /\ Goto(w, [pc[w] EXCEPT !.at = "climb"])
    BY <1>4 DEF Schedule
  <2>2. pc'[w].at = "climb" /\ pc'[w].row = pc[w].row /\ pc'[w].action = pc[w].action
    BY <1>a, <2>1 DEF Goto, Places
  <2> QED BY <1>4, <2>1, <2>2
<1>5. CASE CancelHeld(w) BY <1>5 DEF CancelHeld
<1>6. CASE Recheck(w)
  <2>1. PICK i \in queue[w] :
          /\ ~BlocksAction(held[w].pauses, act[i].type)
          /\ queue' = [queue EXCEPT ![w] = queue[w] \ {i}]
          /\ \/ UNCHANGED pc
             \/ /\ ~SettledAtSource(held[w].port, act[i].debt) \/ FetchFails
                /\ Goto(w, [at |-> "cleared", id |-> i])
    BY <1>6 DEF Recheck
  <2>2. CASE UNCHANGED pc BY <2>2
  <2>3. CASE /\ ~SettledAtSource(held[w].port, act[i].debt) \/ FetchFails
             /\ Goto(w, [at |-> "cleared", id |-> i])
    <3>1. pc'[w].at = "cleared" /\ pc'[w].id = i BY <1>a, <2>3 DEF Goto
    <3>2. queue'[w] = queue[w] \ {i} BY <1>a, <2>1
    <3>3. pc[w].at = "executing" BY <1>6 DEF Recheck
    <3> QED BY <1>6, <2>1, <2>3, <3>1, <3>2, <3>3
  <2> QED BY <2>1, <2>2, <2>3
<1>7. CASE MarkInFlight(w)
  <2>1. /\ pc[w].at = "cleared" /\ Goto(w, [at |-> "calling", id |-> pc[w].id])
    BY <1>7 DEF MarkInFlight
  <2> QED BY <1>b, <2>1 DEF AtId, Forward
<1>c. ASSUME NEW stub, WithLink(w, stub), pc[w].at \in {"calling", "minting"}
      PROVE  Advances(w)
  <2>1. CASE Goto(w, [at |-> "closing", id |-> pc[w].id, ok |-> TRUE])
    BY <1>b, <1>c, <2>1 DEF AtId, Forward
  <2>2. CASE Goto(w, [at |-> "sending", id |-> pc[w].id, stub |-> stub])
    BY <1>b, <1>c, <2>2 DEF AtId, Forward
  <2> QED BY <1>c, <2>1, <2>2 DEF WithLink
<1>8. CASE FindLink(w)
  <2>1. pc[w].at = "calling" BY <1>8 DEF FindLink
  <2>2. \/ \E l \in links : WithLink(w, l[3])
        \/ Goto(w, [at |-> "closing", id |-> pc[w].id, ok |-> FALSE])
        \/ Goto(w, [at |-> "minting", id |-> pc[w].id])
    BY <1>8 DEF FindLink
  <2>3. CASE \E l \in links : WithLink(w, l[3]) BY <1>c, <2>1, <2>3
  <2>4. CASE Goto(w, [at |-> "closing", id |-> pc[w].id, ok |-> FALSE])
    BY <1>b, <2>1, <2>4 DEF AtId, Forward
  <2>5. CASE Goto(w, [at |-> "minting", id |-> pc[w].id])
    BY <1>b, <2>1, <2>5 DEF AtId, Forward
  <2> QED BY <2>2, <2>3, <2>4, <2>5
<1>9. CASE Mint(w)
  <2>1. pc[w].at = "minting" /\ WithLink(w, held[w].port = "dry_run") BY <1>9 DEF Mint
  <2> QED BY <1>c, <2>1
<1>10. CASE MintFails(w)
  <2>1. pc[w].at = "minting" /\ Goto(w, [at |-> "closing", id |-> pc[w].id, ok |-> FALSE])
    BY <1>10 DEF MintFails
  <2> QED BY <1>b, <2>1 DEF AtId, Forward
<1>11. CASE Send(w)
  <2>1. /\ pc[w].at = "sending"
        /\ \/ Goto(w, [at |-> "recording", id |-> pc[w].id])
           \/ Goto(w, [at |-> "closing", id |-> pc[w].id, ok |-> FALSE])
    BY <1>11, Zenon DEF Send
  <2>2. CASE Goto(w, [at |-> "recording", id |-> pc[w].id])
    BY <1>b, <2>1, <2>2 DEF AtId, Forward
  <2>3. CASE Goto(w, [at |-> "closing", id |-> pc[w].id, ok |-> FALSE])
    BY <1>b, <2>1, <2>3 DEF AtId, Forward
  <2> QED BY <2>1, <2>2, <2>3
<1>12. CASE RecordContact(w)
  <2>1. pc[w].at = "recording" /\ Goto(w, [at |-> "closing", id |-> pc[w].id, ok |-> TRUE])
    BY <1>12 DEF RecordContact
  <2> QED BY <1>b, <2>1 DEF AtId, Forward
<1>13. CASE CallSandbox(w)
  <2>1. /\ pc[w].at = "calling"
        /\ \/ Goto(w, [at |-> "closing", id |-> pc[w].id, ok |-> TRUE])
           \/ Goto(w, [at |-> "executing"])
    BY <1>13 DEF CallSandbox
  <2>2. CASE Goto(w, [at |-> "closing", id |-> pc[w].id, ok |-> TRUE])
    BY <1>b, <2>1, <2>2 DEF AtId, Forward
  <2>3. CASE Goto(w, [at |-> "executing"])
    BY <1>a, <2>3 DEF Goto
  <2> QED BY <2>1, <2>2, <2>3
<1>14. pc'[w] = pc[w] \/ PassStep(w) \/ Abandon(w)
  BY OneMoves
<1> QED BY <1>1, <1>2, <1>3, <1>4, <1>5, <1>6, <1>7, <1>8, <1>9, <1>10, <1>11, <1>12, <1>13,
           <1>14 DEF PassStep

(* A queue is filled by reading what is due, and emptied otherwise.        *)
LEMMA QueueStep ==
  ASSUME TypeInv, [Next]_vars, NEW w \in Passes
  PROVE  \/ queue'[w] \subseteq queue[w]
         \/ /\ ReadDue(w) /\ UNCHANGED act /\ pc'[w].at = "executing"
            /\ queue'[w] = {i \in Used : act[i].status = "PENDING" /\ act[i].due}
<1>a. pc \in [Passes -> Places] /\ queue \in [Passes -> SUBSET ActionIds]
  BY DEF TypeInv, TypeOK
<1>1. CASE queue'[w] = queue[w] BY <1>1
<1>2. CASE ReadDue(w) BY <1>2, <1>a DEF ReadDue, Goto, store
<1>3. CASE CancelHeld(w)
  <2>1. PICK i \in queue[w] : queue' = [queue EXCEPT ![w] = queue[w] \ {i}]
    BY <1>3 DEF CancelHeld
  <2> QED BY <1>a, <2>1
<1>4. CASE Recheck(w)
  <2>1. PICK i \in queue[w] : queue' = [queue EXCEPT ![w] = queue[w] \ {i}]
    BY <1>4 DEF Recheck
  <2> QED BY <1>a, <2>1
<1>5. CASE Abandon(w) BY <1>5, <1>a DEF Abandon
<1>6. CASE PassStep(w) /\ ~ReadDue(w) /\ ~CancelHeld(w) /\ ~Recheck(w)
  <2>1. UNCHANGED queue
    BY <1>6 DEF PassStep, StartTick, OpenCases, DecideCase, CloseCase, DropPausedAction,
       Schedule, Climb, MarkInFlight, FindLink, Mint, MintFails, Send, RecordContact,
       CallSandbox, Finish, FinishTick
  <2> QED BY <1>1, <2>1
<1>7. queue'[w] = queue[w] \/ PassStep(w) \/ Abandon(w) BY OneMoves
<1> QED BY <1>1, <1>2, <1>3, <1>4, <1>5, <1>6, <1>7

(* Who writes what.                                                        *)
Settling == \E d \in Debts : SettleWebhook(d) \/ Ledger(d)

LEMMA Writers ==
  ASSUME [Next]_vars
  PROVE  /\ UNCHANGED hist \/ \E w \in Passes : Send(w)
         /\ UNCHANGED contacts \/ \E w \in Passes : RecordContact(w)
         /\ UNCHANGED links \/ Settling \/ \E w \in Passes : Mint(w)
         /\ UNCHANGED ob \/ Settling \/ \E d \in Debts : FailureArrives(d)
         /\ \/ UNCHANGED case \/ Settling \/ (\E d \in Debts : FailureArrives(d))
            \/ \E w \in Passes : CloseCase(w)
         /\ UNCHANGED rung \/ \E w \in Passes : Climb(w)
         /\ UNCHANGED faults \/ \E w \in Passes : Mint(w) \/ RecordContact(w) \/ Abandon(w)
         /\ UNCHANGED route \/ \E d \in Debts, how \in PayBy : Pay(d, how)
         /\ UNCHANGED lapsed \/ \E d \in Debts : Lapse(d)
         /\ UNCHANGED aged \/ \E d \in Debts : AgeContact(d)
<1>1. ASSUME NEW w \in Passes, PassStep(w) \/ Abandon(w)
      PROVE  /\ UNCHANGED hist \/ Send(w)
             /\ UNCHANGED contacts \/ RecordContact(w)
             /\ UNCHANGED links \/ Mint(w)
             /\ UNCHANGED case \/ CloseCase(w)
             /\ UNCHANGED rung \/ Climb(w)
             /\ UNCHANGED faults \/ Mint(w) \/ RecordContact(w) \/ Abandon(w)
             /\ UNCHANGED <<ob, route, lapsed, aged>>
  <2> USE DEF store, world, hist
  <2>1. CASE \/ StartTick(w) \/ OpenCases(w) \/ CloseCase(w) \/ DropPausedAction(w)
             \/ Schedule(w) \/ Climb(w) \/ ReadDue(w) \/ Finish(w) \/ FinishTick(w)
    BY <2>1 DEF StartTick, OpenCases, CloseCase, DropPausedAction, Schedule, Climb, ReadDue,
       Finish, FinishTick
  <2>2. CASE \/ DecideCase(w) \/ CancelHeld(w) \/ Recheck(w) \/ MarkInFlight(w) \/ FindLink(w)
             \/ MintFails(w) \/ CallSandbox(w)
    BY <2>2 DEF DecideCase, CancelHeld, Recheck, MarkInFlight, FindLink, MintFails, CallSandbox
  <2>3. CASE Mint(w) \/ Send(w) \/ RecordContact(w) \/ Abandon(w)
    BY <2>3 DEF Mint, Send, RecordContact, Abandon
  <2> QED BY <1>1, <2>1, <2>2, <2>3 DEF PassStep
<1>2. ASSUME NEW d \in Debts, EnvStep(d)
      PROVE  /\ UNCHANGED <<hist, contacts, rung, faults>>
             /\ UNCHANGED <<ob, case>> \/ Settling \/ FailureArrives(d)
             /\ UNCHANGED links \/ Settling
             /\ UNCHANGED route \/ \E how \in PayBy : Pay(d, how)
             /\ UNCHANGED lapsed \/ Lapse(d)
             /\ UNCHANGED aged \/ AgeContact(d)
  <2>1. CASE SettleWebhook(d) \/ Ledger(d)
    BY <2>1 DEF SettleWebhook, Ledger, Settle, Settling, world
  <2>2. CASE FailureArrives(d) \/ Lapse(d) \/ AgeContact(d) \/ \E how \in PayBy : Pay(d, how)
    BY <2>2 DEF FailureArrives, Lapse, AgeContact, Pay, store, world
  <2> QED BY <1>2, <2>1, <2>2 DEF EnvStep
<1>3. CASE \/ \E i \in ActionIds : TimeReaches(i)
           \/ \E p \in PauseScopes : RaisePause(p)
           \/ Clock \/ Resume \/ SwitchMode \/ Reconcile \/ UNCHANGED vars
  BY <1>3 DEF TimeReaches, RaisePause, Clock, Resume, SwitchMode, Reconcile, store, world,
     hist, vars
<1> QED BY <1>1, <1>2, <1>3 DEF Next

(* A pass that has an action in hand is still the pass that read it.       *)
LEMMA HeldStep ==
  ASSUME TypeInv, [Next]_vars, NEW w \in Passes
  PROVE  held'[w] = held[w] \/ pc'[w].at \in {"idle", "listing"}
<1>a. pc \in [Passes -> Places] BY DEF TypeInv, TypeOK
<1>1. CASE StartTick(w) \/ FinishTick(w) \/ Abandon(w)
  BY <1>1, <1>a DEF StartTick, FinishTick, Abandon, Goto
<1>2. CASE PassStep(w) /\ ~StartTick(w) /\ ~FinishTick(w)
  BY <1>2 DEF PassStep, OpenCases, DecideCase, CloseCase, DropPausedAction, Schedule, Climb,
     ReadDue, CancelHeld, Recheck, MarkInFlight, FindLink, Mint, MintFails, Send,
     RecordContact, CallSandbox, Finish
<1>3. held'[w] = held[w] \/ PassStep(w) \/ Abandon(w) BY OneMoves
<1> QED BY <1>1, <1>2, <1>3

(* Which action leads where: the step a pass takes from a place.           *)
LEMMA StepFrom ==
  ASSUME TypeInv, [Next]_vars, NEW w \in Passes, pc'[w] # pc[w]
  PROVE  \/ Abandon(w)
         \/ /\ PassStep(w)
            /\ pc[w].at = "cleared"   => MarkInFlight(w)
            /\ pc[w].at = "calling"   => FindLink(w) \/ CallSandbox(w)
            /\ pc[w].at = "minting"   => Mint(w) \/ MintFails(w)
            /\ pc[w].at = "sending"   => Send(w)
            /\ pc[w].at = "recording" => RecordContact(w)
            /\ pc[w].at = "closing"   => Finish(w)
            /\ pc[w].at = "apply"     => CloseCase(w) \/ DropPausedAction(w) \/ Schedule(w)
            /\ pc[w].at = "climb"     => Climb(w)
<1>1. PassStep(w) \/ Abandon(w) BY OneMoves
<1> QED BY <1>1 DEF PassStep, StartTick, OpenCases, DecideCase, CloseCase, DropPausedAction,
     Schedule, Climb, ReadDue, CancelHeld, Recheck, MarkInFlight, FindLink, Mint, MintFails,
     Send, RecordContact, CallSandbox, Finish, FinishTick

(* Where a pass has an action, or a row, in hand, and how it came to.      *)
LEMMA HandStep ==
  ASSUME TypeInv, [Next]_vars, NEW w \in Passes, pc'[w].at \in AtId
  PROVE  Stays(w) \/ TakesUp(w) \/ Advances(w)
<1>1. ~Leaves(w) BY DEF Leaves, AtId
<1>2. ~PicksRow(w)
  <2> SUFFICES ASSUME NEW row, NEW a, pc'[w] = [at |-> "apply", row |-> row, action |-> a]
               PROVE  FALSE
    BY DEF PicksRow
  <2> QED BY DEF AtId
<1>3. ~Schedules(w) BY DEF Schedules, AtId
<1> QED BY <1>1, <1>2, <1>3, PlaceStep

LEMMA RowStep ==
  ASSUME TypeInv, [Next]_vars, NEW w \in Passes, pc'[w].at \in AtRow
  PROVE  Stays(w) \/ PicksRow(w) \/ Schedules(w)
<1>1. ~Leaves(w) BY DEF Leaves, AtRow
<1>2. ~TakesUp(w) /\ ~Advances(w) BY DEF TakesUp, Advances, AtRow, AtId
<1> QED BY <1>1, <1>2, PlaceStep

(* An action leaves a pass's hands with its last status, or with the pass. *)
LEMMA EndsHand ==
  ASSUME TypeInv, [Next]_vars, NEW w \in Passes, pc[w].at \in AtId, Leaves(w), ~Abandon(w)
  PROVE  \E st \in {"UNKNOWN", "DONE", "FAILED"} : act' = Mark({pc[w].id}, st)
<1>a. pc \in [Passes -> Places] BY DEF TypeInv, TypeOK
<1>b. pc'[w] # pc[w] BY DEF Leaves, AtId
<1>c. ASSUME NEW p, Goto(w, p), p.at \in AtId PROVE FALSE
  BY <1>a, <1>c DEF Goto, Leaves, AtId
<1>d. ASSUME NEW stub, WithLink(w, stub) PROVE FALSE
  BY <1>c, <1>d DEF WithLink, AtId
<1>1. ~MarkInFlight(w) BY <1>c DEF MarkInFlight, AtId
<1>2. ~FindLink(w)
  <2>1. FindLink(w) => \/ \E l \in links : WithLink(w, l[3])
                      \/ Goto(w, [at |-> "closing", id |-> pc[w].id, ok |-> FALSE])
                      \/ Goto(w, [at |-> "minting", id |-> pc[w].id])
    BY DEF FindLink
  <2> QED BY <1>c, <1>d, <2>1 DEF AtId
<1>3. ~Mint(w) /\ ~MintFails(w) BY <1>c, <1>d DEF Mint, MintFails, AtId
<1>4. ~Send(w)
  <2>1. Send(w) => \/ Goto(w, [at |-> "recording", id |-> pc[w].id])
                   \/ Goto(w, [at |-> "closing", id |-> pc[w].id, ok |-> FALSE])
    BY Zenon DEF Send
  <2> QED BY <1>c, <2>1 DEF AtId
<1>5. ~RecordContact(w) BY <1>c DEF RecordContact, AtId
<1>6. CASE CallSandbox(w) BY <1>6, <1>c DEF CallSandbox, AtId
<1>7. CASE Finish(w) BY <1>7 DEF Finish
<1> QED BY <1>b, <1>1, <1>2, <1>3, <1>4, <1>5, <1>6, <1>7, StepFrom DEF AtId

-----------------------------------------------------------------------------
(* A pass keeps to the pauses it began under.                              *)

LEMMA TypeNext == TypeInv /\ [Next]_vars => TypeInv'
BY TypePass, TypeEnv, TypeStutter DEF Next

LEMMA HandIsRow ==
  ASSUME TypeInv, NEW w \in Passes
  PROVE  /\ queue[w] \subseteq Used
         /\ pc[w].at \in AtId => pc[w].id \in Used /\ act[pc[w].id].debt \in Debts
                                 /\ act[pc[w].id].type \in Actions
<1>1. HandOf(w) \subseteq Used BY DEF TypeInv, Hands
<1>2. act \in [ActionIds -> ActionRows \cup {Free}] BY DEF TypeInv, TypeOK
<1> QED BY <1>1, <1>2, UsedRows DEF HandOf

LEMMA MovesOnNext ==
  ASSUME TypeInv, HandsMoveOn, [Next]_vars
  PROVE  HandsMoveOn'
<1> SUFFICES ASSUME NEW w \in Passes, pc'[w].at \in AtId
             PROVE  /\ pc'[w].id \notin queue'[w]
                    /\ pc'[w].at # "cleared" => act'[pc'[w].id].status # "PENDING"
  BY DEF HandsMoveOn
<1>1. queue'[w] \subseteq queue[w]
  BY QueueStep DEF AtId
<1>2. CASE Stays(w)
  <2>1. pc[w].id \in Used BY <1>2, HandIsRow DEF Stays
  <2>2. act'[pc[w].id].status = "PENDING" => act[pc[w].id].status = "PENDING"
    BY <2>1, RowsStep
  <2> QED BY <1>1, <1>2, <2>2 DEF HandsMoveOn, Stays
<1>3. CASE TakesUp(w) BY <1>3 DEF TakesUp
<1>4. CASE Advances(w)
  <2> USE DEF Advances
  <2>1. pc'[w].id \notin queue'[w]
    BY <1>1, <1>4 DEF HandsMoveOn
  <2>2. CASE pc[w].at = "cleared"
    <3>1. pc'[w].at = "calling" /\ pc'[w] # pc[w] BY <1>4, <2>2 DEF Forward
    <3>a. pc \in [Passes -> Places] BY DEF TypeInv, TypeOK
    <3>b. ~Abandon(w) BY <3>a, <3>1 DEF Abandon, Goto
    <3>2. MarkInFlight(w) BY <2>2, <3>1, <3>b, StepFrom
    <3>3. act' = Mark({pc[w].id}, "IN_FLIGHT") BY <3>2 DEF MarkInFlight
    <3>4. act'[pc[w].id].status = "IN_FLIGHT"
      <4>1. act \in [ActionIds -> ActionRows \cup {Free}] BY DEF TypeInv, TypeOK
      <4>2. pc[w].id \in Used BY <1>4, HandIsRow
      <4>3. "IN_FLIGHT" \in LiveStatus \cup EndStatus BY DEF LiveStatus
      <4> QED BY <3>3, <4>1, <4>2, <4>3, MarkOne
    <3> QED BY <1>4, <2>1, <3>4
  <2>3. CASE pc[w].at # "cleared"
    <3>1. act[pc[w].id].status # "PENDING" BY <1>4, <2>3 DEF HandsMoveOn
    <3>2. pc[w].id \in Used BY <1>4, HandIsRow
    <3>3. act'[pc[w].id].status # "PENDING" BY <3>1, <3>2, RowsStep
    <3> QED BY <1>4, <2>1, <3>3
  <2> QED BY <2>2, <2>3
<1> QED BY <1>2, <1>3, <1>4, HandStep

LEMMA OrdersNext ==
  ASSUME TypeInv, OrdersKept, [Next]_vars
  PROVE  OrdersKept'
<1> DEFINE Early == {"cleared", "calling", "minting", "sending", "recording"}
<1> SUFFICES ASSUME NEW w \in Passes, pc'[w].at \in Early
             PROVE  ~BlocksAction(held'[w].pauses, act'[pc'[w].id].type)
  BY DEF OrdersKept
<1>1. held'[w] = held[w] BY HeldStep
<1>2. CASE /\ pc[w].at \in Early /\ pc'[w].id = pc[w].id
  <2>1. act'[pc[w].id].type = act[pc[w].id].type BY <1>2, HandIsRow, RowsStep DEF AtId
  <2>2. ~BlocksAction(held[w].pauses, act[pc[w].id].type) BY <1>2 DEF OrdersKept
  <2> QED BY <1>1, <1>2, <2>1, <2>2 DEF BlocksAction
<1>3. CASE /\ pc'[w].id \in queue[w]
           /\ ~BlocksAction(held[w].pauses, act[pc'[w].id].type)
  <2>1. act'[pc'[w].id].type = act[pc'[w].id].type
    <3>1. pc'[w].id \in Used BY <1>3, HandIsRow
    <3> QED BY <3>1, RowsStep
  <2> QED BY <1>1, <1>3, <2>1 DEF BlocksAction
<1>4. CASE Stays(w) BY <1>2, <1>4 DEF Stays
<1>5. CASE Advances(w) BY <1>2, <1>5 DEF Advances, Forward
<1> QED BY <1>3, <1>4, <1>5, HandStep DEF TakesUp, AtId

(* No pass, of any number and whatever is raised, lifted or cut short      *)
(* meanwhile, calls anybody with an action its own pauses forbid: nothing  *)
(* else looks at a pause once execute_due has let a row through.           *)
THEOREM PassAlwaysKeepsItsOrders == Spec => []PassKeepsItsOrders
<1>1. Init => TypeInv /\ OrdersKept BY TypeInit DEF Init, OrdersKept
<1>2. TypeInv /\ OrdersKept /\ [Next]_vars => (TypeInv /\ OrdersKept)'
  BY TypeNext, OrdersNext
<1>3. OrdersKept => PassKeepsItsOrders BY DEF OrdersKept, PassKeepsItsOrders
<1> QED BY <1>1, <1>2, <1>3, PTL DEF Spec
-----------------------------------------------------------------------------
(* What a fault can lose.                                                  *)

(* A set that does not grow, grows by one element, or loses one.           *)
LEMMA NotMore ==
  ASSUME NEW S, IsFiniteSet(S), NEW T, T \subseteq S
  PROVE  IsFiniteSet(T) /\ Cardinality(T) \in Nat /\ Cardinality(S) \in Nat
         /\ Cardinality(T) <= Cardinality(S)
BY FS_Subset, FS_CardinalityType

LEMMA OneMore ==
  ASSUME NEW S, IsFiniteSet(S), NEW x, NEW T, T \subseteq S \cup {x}
  PROVE  IsFiniteSet(T) /\ Cardinality(T) \in Nat /\ Cardinality(S) \in Nat
         /\ Cardinality(T) <= Cardinality(S) + 1
<1>0. Cardinality(S) \in Nat BY FS_CardinalityType
<1>1. /\ IsFiniteSet(S \cup {x}) /\ Cardinality(S) \in Nat
      /\ Cardinality(S \cup {x}) <= Cardinality(S) + 1
  BY <1>0, FS_AddElement
<1>2. IsFiniteSet(T) /\ Cardinality(T) <= Cardinality(S \cup {x}) BY <1>1, FS_Subset
<1> QED BY <1>1, <1>2, FS_CardinalityType

LEMMA OneLess ==
  ASSUME NEW S, IsFiniteSet(S), NEW x \in S, NEW T, T \subseteq S \ {x}
  PROVE  IsFiniteSet(T) /\ Cardinality(T) \in Nat /\ Cardinality(S) \in Nat
         /\ Cardinality(T) + 1 <= Cardinality(S)
<1>1. /\ IsFiniteSet(S \ {x}) /\ Cardinality(S) \in Nat
      /\ Cardinality(S \ {x}) = Cardinality(S) - 1
  BY FS_RemoveElement, FS_CardinalityType
<1>2. IsFiniteSet(T) /\ Cardinality(T) <= Cardinality(S \ {x}) BY <1>1, FS_Subset
<1> QED BY <1>1, <1>2, FS_CardinalityType

(* Nothing comes alive but what a pass has in hand.                        *)
LEMMA ComesAlive ==
  ASSUME TypeInv, [Next]_vars, NEW i \in Used, act'[i].status \in LiveStatus
  PROVE  act[i].status \in LiveStatus \/ \E w \in Passes : pc[w].at \in AtId /\ pc[w].id = i
<1>a. act \in [ActionIds -> ActionRows \cup {Free}] /\ i \in ActionIds /\ act[i] \in ActionRows
  BY UsedRows DEF TypeInv, TypeOK
<1>1. CASE UNCHANGED act BY <1>1
<1>2. ASSUME NEW ids \in SUBSET Used, NEW st \in {"UNKNOWN"} \cup EndStatus, Marks(ids, st)
      PROVE  \/ act[i].status \in LiveStatus
             \/ \E w \in Passes : pc[w].at \in AtId /\ pc[w].id = i
  <2>1. st \in LiveStatus \cup EndStatus BY DEF LiveStatus
  <2>2. act'[i].status = IF i \in ids THEN st ELSE act[i].status
    BY <1>2, <1>a, <2>1, MarkType DEF Marks
  <2> QED BY <1>2, <2>2 DEF Marks, EndStatus, LiveStatus
<1>3. CASE \E w \in Passes : MarkInFlight(w)
  <2>1. PICK w \in Passes : pc[w].at = "cleared" /\ act' = Mark({pc[w].id}, "IN_FLIGHT")
    BY <1>3 DEF MarkInFlight
  <2> QED BY <1>a, <2>1 DEF Mark, AtId
<1>4. CASE \E w \in Passes : /\ Schedule(w) /\ Used # ActionIds
                             /\ act' = [act EXCEPT ![NewId] =
                                          [status |-> "PENDING", debt |-> pc[w].row.debt,
                                           type |-> pc[w].action, due |-> FALSE]]
  <2>1. i # NewId BY <1>4, FreshId
  <2> QED BY <1>4, <1>a, <2>1
<1>5. CASE \E j \in ActionIds : TimeReaches(j)
  <2>1. PICK j \in ActionIds : act' = [act EXCEPT ![j].due = TRUE] BY <1>5 DEF TimeReaches
  <2> QED BY <1>a, <2>1 DEF ActionRows
<1>6. CASE Reconcile
  <2>1. act'[i] = act[i] \/ act[i].status = "UNKNOWN" BY <1>6, <1>a DEF Reconcile
  <2> QED BY <2>1 DEF LiveStatus
<1> QED BY <1>1, <1>2, <1>3, <1>4, <1>5, <1>6, ActForms

(* Nothing is IN_FLIGHT but what a pass has marked.                        *)
LEMMA InFlightStep ==
  ASSUME TypeInv, [Next]_vars, NEW i \in Used', act'[i].status = "IN_FLIGHT"
  PROVE  \/ i \in Used /\ act[i].status = "IN_FLIGHT"
         \/ \E w \in Passes : /\ pc[w].at = "cleared" /\ pc[w].id = i
                              /\ pc'[w].at = "calling" /\ pc'[w].id = i
<1>a. act \in [ActionIds -> ActionRows \cup {Free}] /\ pc \in [Passes -> Places]
  BY DEF TypeInv, TypeOK
<1>b. \A r \in ActionRows : r # Free
  BY DEF ActionRows, Free, LiveStatus, EndStatus
<1>c. i \in ActionIds /\ act'[i] # Free BY DEF Used
<1>1. CASE UNCHANGED act BY <1>1 DEF Used
<1>2. ASSUME NEW ids \in SUBSET Used, NEW st \in {"UNKNOWN", "IN_FLIGHT"} \cup EndStatus,
             act' = Mark(ids, st)
      PROVE  i \in Used /\ (act[i].status = "IN_FLIGHT" \/ (i \in ids /\ st = "IN_FLIGHT"))
  <2>1. st \in LiveStatus \cup EndStatus BY DEF LiveStatus
  <2>2. i \in Used /\ act'[i].status = IF i \in ids THEN st ELSE act[i].status
    BY <1>2, <1>a, <2>1, MarkType
  <2> QED BY <2>2
<1>3. ASSUME NEW ids \in SUBSET Used, NEW st \in {"UNKNOWN"} \cup EndStatus, act' = Mark(ids, st)
      PROVE  i \in Used /\ act[i].status = "IN_FLIGHT"
  BY <1>2, <1>3 DEF EndStatus
<1>4. ASSUME NEW w \in Passes, MarkInFlight(w)
      PROVE  \/ i \in Used /\ act[i].status = "IN_FLIGHT"
             \/ /\ pc[w].at = "cleared" /\ pc[w].id = i
                /\ pc'[w].at = "calling" /\ pc'[w].id = i
  <2>1. /\ pc[w].at = "cleared" /\ act' = Mark({pc[w].id}, "IN_FLIGHT")
        /\ Goto(w, [at |-> "calling", id |-> pc[w].id])
    BY <1>4 DEF MarkInFlight
  <2>2. pc[w].id \in Used BY <2>1, HandIsRow DEF AtId
  <2>3. pc'[w].at = "calling" /\ pc'[w].id = pc[w].id BY <1>a, <2>1 DEF Goto
  <2> QED BY <1>2, <2>1, <2>2, <2>3
<1>5. CASE \E w \in Passes : /\ Schedule(w) /\ Used # ActionIds
                             /\ act' = [act EXCEPT ![NewId] =
                                          [status |-> "PENDING", debt |-> pc[w].row.debt,
                                           type |-> pc[w].action, due |-> FALSE]]
  <2>1. NewId \in ActionIds BY <1>5, FreshId
  <2> QED BY <1>5, <1>a, <1>c, <2>1 DEF Used
<1>6. CASE \E j \in ActionIds : TimeReaches(j)
  <2>1. PICK j \in ActionIds : j \in Used /\ act' = [act EXCEPT ![j].due = TRUE]
    BY <1>6 DEF TimeReaches
  <2>2. act'[i].status = act[i].status
    BY <1>a, <1>c, <2>1, UsedRows DEF ActionRows
  <2>3. i \in Used BY <1>a, <1>c, <2>1 DEF Used
  <2> QED BY <2>2, <2>3
<1>7. CASE Reconcile
  <2>1. act'[i] = act[i] \/ (act[i] # Free /\ \E st \in {"DONE", "FAILED"} :
                                                act'[i] = [act[i] EXCEPT !.status = st])
    BY <1>7, <1>c DEF Reconcile
  <2>2. act'[i] = act[i] BY <1>a, <1>c, <2>1 DEF ActionRows
  <2> QED BY <1>c, <2>2 DEF Used
<1> QED BY <1>1, <1>3, <1>4, <1>5, <1>6, <1>7, ActForms DEF Marks

LEMMA PlaceId ==
  ASSUME NEW p \in Places PROVE "id" \in DOMAIN p <=> p.at \in AtId
BY DEF Places, AtId

(* A row is stranded when a pass is cut short at it, and only then.        *)
LEMMA StrandedStep ==
  ASSUME TypeInv, [Next]_vars
  PROVE  \/ Stranded' \subseteq Stranded
         \/ \E w \in Passes : Abandon(w) /\ Stranded' \subseteq Stranded \cup {pc[w].id}
<1>a. \A w \in Passes : "id" \in DOMAIN pc[w] <=> pc[w].at \in AtId
  BY PlaceId DEF TypeInv, TypeOK
<1>b. \A w \in Passes : "id" \in DOMAIN pc'[w] <=> pc'[w].at \in AtId
  <2>1. pc' \in [Passes -> Places] BY TypeNext DEF TypeInv, TypeOK
  <2> QED BY <2>1, PlaceId
<1>1. ASSUME NEW i \in Stranded', i \notin Stranded
      PROVE  \E w \in Passes : Abandon(w) /\ i = pc[w].id
  <2>1. i \in Used' /\ act'[i].status = "IN_FLIGHT"
        /\ \A w \in Passes : pc'[w].at \in AtId => pc'[w].id # i
    BY <1>b DEF Stranded
  <2>2. i \in Used /\ act[i].status = "IN_FLIGHT" BY <2>1, InFlightStep DEF AtId
  <2>3. PICK w \in Passes : pc[w].at \in AtId /\ pc[w].id = i
    BY <1>1, <1>a, <2>2 DEF Stranded
  <2>4. CASE Abandon(w) BY <2>3, <2>4
  <2>5. CASE ~Abandon(w)
    <3>1. pc'[w] # pc[w] BY <2>1, <2>3
    <3>2. ~Advances(w) BY <2>1, <2>3 DEF Advances
    <3>4. Leaves(w)
      <4>1. ~PicksRow(w) BY <2>3 DEF PicksRow, AtId
      <4>2. ~Schedules(w) BY <2>3 DEF Schedules, AtId
      <4>3. ~TakesUp(w) BY <2>3 DEF TakesUp, AtId
      <4> QED BY <3>1, <3>2, <4>1, <4>2, <4>3, PlaceStep DEF Stays
    <3>6. PICK st \in {"UNKNOWN", "DONE", "FAILED"} : act' = Mark({i}, st)
      BY <2>3, <2>5, <3>1, <3>4, EndsHand
    <3>7. act \in [ActionIds -> ActionRows \cup {Free}] BY DEF TypeInv, TypeOK
    <3>8. st \in LiveStatus \cup EndStatus BY DEF LiveStatus, EndStatus
    <3>9. act'[i].status = st BY <2>2, <3>6, <3>7, <3>8, MarkOne
    <3> QED BY <2>1, <3>9
  <2> QED BY <2>4, <2>5
<1>2. CASE \E w \in Passes : Abandon(w)
  <2>1. PICK w \in Passes : Abandon(w) BY <1>2
  <2>2. \A v \in Passes \ {w} : ~Abandon(v) BY <2>1 DEF Abandon, Goto, TypeInv, TypeOK
  <2> QED BY <1>1, <2>1, <2>2
<1>3. CASE ~\E w \in Passes : Abandon(w) BY <1>1, <1>3
<1> QED BY <1>2, <1>3

LEMMA FaultsStep ==
  ASSUME TypeInv, [Next]_vars
  PROVE  /\ faults \in Nat /\ faults' \in Nat /\ faults <= faults'
         /\ (\E w \in Passes : Abandon(w)) => faults' = faults + 1
<1>1. faults \in Nat BY LiveAssumption DEF TypeInv, TypeOK
<1>2. UNCHANGED faults \/ faults' = faults + 1 BY Writers DEF Mint, RecordContact, Abandon
<1>3. (\E w \in Passes : Abandon(w)) => faults' = faults + 1 BY DEF Abandon
<1> QED BY <1>1, <1>2, <1>3

LEMMA StrandedNext ==
  ASSUME TypeInv, [Next]_vars, IsFiniteSet(Stranded), Cardinality(Stranded) <= faults
  PROVE  IsFiniteSet(Stranded)' /\ (Cardinality(Stranded) <= faults)'
<1>1. CASE Stranded' \subseteq Stranded
  <2>1. IsFiniteSet(Stranded') /\ Cardinality(Stranded') \in Nat /\ Cardinality(Stranded) \in Nat
        /\ Cardinality(Stranded') <= Cardinality(Stranded)
    BY <1>1, NotMore
  <2> QED BY <2>1, FaultsStep
<1>2. CASE \E w \in Passes : Abandon(w) /\ Stranded' \subseteq Stranded \cup {pc[w].id}
  <2>1. IsFiniteSet(Stranded') /\ Cardinality(Stranded') \in Nat /\ Cardinality(Stranded) \in Nat
        /\ Cardinality(Stranded') <= Cardinality(Stranded) + 1
    BY <1>2, OneMore
  <2>2. faults' = faults + 1 /\ faults \in Nat BY <1>2, FaultsStep
  <2> QED BY <2>1, <2>2
<1> QED BY <1>1, <1>2, StrandedStep

(* A row is IN_FLIGHT without a pass on it only where a pass was cut short *)
(* at it, one for each: run's own updates and everybody else's leave none  *)
(* behind, whatever the passes, executors and pauses.                      *)
THEOREM AlwaysStrandedOnlyByFault == Spec => []StrandedOnlyByFault
<1> DEFINE I == TypeInv /\ IsFiniteSet(Stranded) /\ Cardinality(Stranded) <= faults
<1>1. Init => I
  <2> SUFFICES ASSUME Init PROVE I OBVIOUS
  <2>1. Stranded = {} /\ faults = 0 BY DEF Init, Stranded, Used
  <2> QED BY <2>1, TypeInit, FS_EmptySet
<1>2. I /\ [Next]_vars => I'
  <2> SUFFICES ASSUME I, [Next]_vars PROVE I' OBVIOUS
  <2>1. TypeInv' BY TypeNext
  <2> QED BY <2>1, StrandedNext
<1>3. I => StrandedOnlyByFault BY DEF StrandedOnlyByFault
<1> HIDE DEF I
<1> QED BY <1>1, <1>2, <1>3, PTL DEF Spec

(* A message counted, or one that only a fault keeps from being counted.   *)
Counted(d) == /\ IsFiniteSet(Recording(d))
              /\ sent[d] <= contacts[d] + Cardinality(Recording(d)) + faults

(* A pass is about to record a message once it has sent one, until it has  *)
(* recorded it or is cut short.                                            *)
LEMMA RecordingStep ==
  ASSUME TypeInv, [Next]_vars, NEW d \in Debts, NEW w \in Passes
  PROVE  /\ w \in Recording(d)' /\ w \notin Recording(d) => Send(w)
         /\ w \in Recording(d) /\ w \notin Recording(d)' => RecordContact(w) \/ Abandon(w)
<1>a. pc[w].at \in AtId => act'[pc[w].id].debt = act[pc[w].id].debt BY HandIsRow, RowsStep
<1>1. ASSUME w \in Recording(d)', w \notin Recording(d) PROVE Send(w)
  <2>1. pc'[w].at = "recording" /\ act'[pc'[w].id].debt = d BY <1>1 DEF Recording
  <2>2. pc'[w] # pc[w] BY <1>1, <1>a, <2>1 DEF Recording, AtId
  <2>3. Advances(w) BY <2>1, <2>2, HandStep DEF AtId, Stays, TakesUp
  <2>4. pc[w].at = "sending" BY <2>1, <2>3 DEF Advances, Forward
  <2>5. ~Abandon(w) BY <2>1 DEF Abandon, Goto, TypeInv, TypeOK
  <2> QED BY <2>2, <2>4, <2>5, StepFrom
<1>2. ASSUME w \in Recording(d), w \notin Recording(d)' PROVE RecordContact(w) \/ Abandon(w)
  <2>1. pc[w].at = "recording" /\ act[pc[w].id].debt = d BY <1>2 DEF Recording
  <2>2. pc'[w] # pc[w] BY <1>2, <1>a, <2>1 DEF Recording, AtId
  <2> QED BY <2>1, <2>2, StepFrom
<1> QED BY <1>1, <1>2

LEMMA CountedNext ==
  ASSUME TypeInv, \A d \in Debts : Counted(d), [Next]_vars, NEW d \in Debts
  PROVE  Counted(d)'
<1>a. sent \in [Debts -> Nat] /\ contacts \in [Debts -> Nat] /\ faults \in Nat
      /\ pc \in [Passes -> Places]
  BY LiveAssumption DEF TypeInv, TypeOK
<1>b. IsFiniteSet(Recording(d)) /\ Cardinality(Recording(d)) \in Nat
      /\ sent[d] <= contacts[d] + Cardinality(Recording(d)) + faults
  BY FS_CardinalityType DEF Counted
<1>c. ASSUME NEW v \in Passes, \A w \in Passes \ {v} : pc'[w] = pc[w]
      PROVE  Recording(d)' \ {v} = Recording(d) \ {v}
  <2>1. \A w \in Passes \ {v} : ~Send(w) /\ ~RecordContact(w) /\ ~Abandon(w)
    BY <1>a, <1>c DEF Send, RecordContact, Abandon, Goto
  <2> QED BY <2>1, RecordingStep DEF Recording
<1>1. ASSUME NEW v \in Passes, Send(v) PROVE Counted(d)'
  <2>1. pc[v].at = "sending" /\ act[pc[v].id].debt \in Debts /\ v \notin Recording(d)
    BY <1>1, HandIsRow DEF Send, AtId, Recording
  <2>2. UNCHANGED <<contacts, faults, act>> BY <1>1 DEF Send, store
  <2>3. \/ /\ sent' = [sent EXCEPT ![act[pc[v].id].debt] = @ + 1]
           /\ Goto(v, [at |-> "recording", id |-> pc[v].id])
        \/ /\ Goto(v, [at |-> "closing", id |-> pc[v].id, ok |-> FALSE])
           /\ UNCHANGED sent
    BY <1>1, Zenon DEF Send
  <2>4. Recording(d)' \ {v} = Recording(d) \ {v}
    BY <1>a, <1>c, <2>3 DEF Goto
  <2>5. CASE /\ sent' = [sent EXCEPT ![act[pc[v].id].debt] = @ + 1]
             /\ Goto(v, [at |-> "recording", id |-> pc[v].id])
    <3>1. pc'[v].at = "recording" /\ pc'[v].id = pc[v].id BY <1>a, <2>5 DEF Goto
    <3>2. CASE act[pc[v].id].debt = d
      <4>1. Recording(d)' = Recording(d) \cup {v} BY <2>1, <2>2, <2>4, <3>1, <3>2 DEF Recording
      <4>2. IsFiniteSet(Recording(d)') /\ Cardinality(Recording(d)') = Cardinality(Recording(d)) + 1
        BY <1>b, <2>1, <4>1, FS_AddElement
      <4>3. sent'[d] = sent[d] + 1 BY <1>a, <2>5, <3>2
      <4> QED BY <1>a, <1>b, <2>2, <4>2, <4>3 DEF Counted
    <3>3. CASE act[pc[v].id].debt # d
      <4>1. v \notin Recording(d)' BY <2>2, <3>1, <3>3 DEF Recording
      <4>2. Recording(d)' = Recording(d) BY <2>1, <2>4, <4>1
      <4>3. sent'[d] = sent[d] BY <1>a, <2>5, <3>3
      <4> QED BY <1>b, <2>2, <4>2, <4>3 DEF Counted
    <3> QED BY <3>2, <3>3
  <2>6. CASE Goto(v, [at |-> "closing", id |-> pc[v].id, ok |-> FALSE]) /\ UNCHANGED sent
    <3>1. pc'[v].at = "closing" BY <1>a, <2>6 DEF Goto
    <3>2. Recording(d)' = Recording(d) BY <2>1, <2>4, <3>1 DEF Recording
    <3> QED BY <1>b, <2>2, <2>6, <3>2 DEF Counted
  <2> QED BY <2>3, <2>5, <2>6
<1>2. ASSUME NEW v \in Passes, RecordContact(v) \/ Abandon(v) PROVE Counted(d)'
  <2>1. UNCHANGED <<sent, act>> BY <1>2 DEF RecordContact, Abandon, store, hist
  <2>2. pc'[v].at # "recording" /\ \A w \in Passes \ {v} : pc'[w] = pc[w]
    BY <1>2, <1>a DEF RecordContact, Abandon, Goto
  <2>3. Recording(d)' = Recording(d) \ {v}
    <3>1. v \notin Recording(d)' BY <2>2 DEF Recording
    <3> QED BY <1>c, <2>2, <3>1
  <2>4. IsFiniteSet(Recording(d)') /\ Cardinality(Recording(d)') \in Nat
        /\ Cardinality(Recording(d)) <= Cardinality(Recording(d)') + 1
    <3>1. IsFiniteSet(Recording(d)') BY <1>b, <2>3, FS_Subset
    <3>2. Recording(d) \subseteq Recording(d)' \cup {v} BY <2>3
    <3> QED BY <3>1, <3>2, OneMore
  <2>5. \/ v \in Recording(d) /\ (contacts'[d] + faults' = contacts[d] + faults + 1)
        \/ v \notin Recording(d) /\ contacts'[d] >= contacts[d] /\ faults' >= faults
    <3>1. CASE Abandon(v) BY <1>a, <3>1 DEF Abandon, store
    <3>2. CASE RecordContact(v)
      <4>1. pc[v].at = "recording" /\ (v \in Recording(d) <=> act[pc[v].id].debt = d)
        BY <3>2 DEF RecordContact, Recording
      <4>2. act[pc[v].id].debt \in Debts BY <4>1, HandIsRow DEF AtId
      <4> QED BY <1>a, <3>2, <4>1, <4>2 DEF RecordContact
    <3> QED BY <1>2, <3>1, <3>2
  <2>6. contacts'[d] \in Nat /\ faults' \in Nat BY <1>a, TypeNext, FaultsStep DEF TypeInv, TypeOK
  <2>7. v \notin Recording(d) => Recording(d)' = Recording(d) BY <2>3
  <2> QED BY <1>a, <1>b, <2>1, <2>4, <2>5, <2>6, <2>7 DEF Counted
<1>3. CASE ~\E v \in Passes : Send(v) \/ RecordContact(v) \/ Abandon(v)
  <2>1. Recording(d)' = Recording(d) BY <1>3, RecordingStep DEF Recording
  <2>2. UNCHANGED <<sent, contacts>> BY <1>3, Writers DEF hist
  <2>3. faults' >= faults /\ faults' \in Nat BY FaultsStep
  <2> QED BY <1>a, <1>b, <2>1, <2>2, <2>3 DEF Counted
<1> QED BY <1>1, <1>2, <1>3

LEMMA CountedInit == Init => \A d \in Debts : Counted(d)
<1> SUFFICES ASSUME Init, NEW d \in Debts PROVE Counted(d) OBVIOUS
<1>1. Recording(d) = {} /\ sent[d] = 0 /\ contacts[d] = 0 /\ faults = 0
  BY DEF Init, Recording
<1> QED BY <1>1, FS_EmptySet DEF Counted

(* The table that the message cap is spent from misses no message but one  *)
(* that a pass is about to record, whatever the passes do to each other,   *)
(* and one for each fault.                                                 *)
THEOREM AlwaysUncountedOnlyByFault == Spec => []UncountedOnlyByFault
<1> DEFINE I == TypeInv /\ \A d \in Debts : Counted(d)
<1>1. Init => I
  BY TypeInit, CountedInit
<1>2. I /\ [Next]_vars => I'
  BY TypeNext, CountedNext
<1>3. I => UncountedOnlyByFault
  BY DEF UncountedOnlyByFault, Counted, Recording, Unrecorded
<1> HIDE DEF I
<1> QED BY <1>1, <1>2, <1>3, PTL DEF Spec
-----------------------------------------------------------------------------
(* What is decided for a live case.                                        *)

(* A snapshot of a live case holds no promise, no opt-out, no risk block   *)
(* and no control arm; the gates that remain can be read off the tables.   *)
LEMMA LiveDecision ==
  ASSUME NEW row, NEW down, NEW worth, NEW a,
         a = Decide(Snapshot(row, down), worth), a \notin {"NONE", "WAIT"}
  PROVE  /\ ob[row.debt] # "SETTLED"
         /\ a \in LinkActions \cup Terminal
         /\ a # "WRITE_OFF" => /\ RungOf[a] > row.rung
                               /\ row.debt \notin lapsed
                               /\ ~(Recent(CustomerOf[row.debt]) >= MaxContacts7d)
<1> DEFINE s == Snapshot(row, down)
<1>a. /\ s.control = FALSE /\ s.promisedFor = 0 /\ s.riskBlocked = FALSE /\ s.optedOut = FALSE
      /\ s.mandate = FALSE /\ s.settled = (ob[row.debt] = "SETTLED") /\ s.rung = row.rung
      /\ s.age = IF row.debt \in lapsed THEN WindowHours + 1 ELSE WindowHours
      /\ s.contacts = Recent(CustomerOf[row.debt])
  BY DEF Snapshot
<1> HIDE DEF s
<1>1. a \in Decisions /\ a \in Actions \ {"WAIT"}
  BY LiveDecisionType DEF Decisions
<1>2. CASE a = "WRITE_OFF"
  BY <1>2, <1>a, WriteOffIsTerminal DEF Terminal, s
<1>3. CASE a # "WRITE_OFF"
  <2>1. ~s.settled /\ a \in LegalNextRungs(s, Blocked(s))
    BY <1>1, <1>3, MoveIsLegal DEF s
  <2>2. a \in Actions \ (Blocked(s) \cup {"WRITE_OFF"}) /\ RungOf[a] > s.rung
    BY <2>1 DEF LegalNextRungs, Climbable
  <2>3. a # "RETRY"
    BY <1>a, <2>2 DEF Blocked, RetryBlocked
  <2>4. a \in LinkActions \cup {"HUMAN"}
    BY <1>1, <1>3, <2>3 DEF Actions, LinkActions
  <2>5. ~(s.contacts >= MaxContacts7d)
    BY <2>2, <2>4 DEF Blocked, ContactBlocked, ContactActions, LinkActions
  <2>6. row.debt \notin lapsed
    <3>1. SUFFICES ASSUME row.debt \in lapsed PROVE FALSE OBVIOUS
    <3>2. s.age > WindowHours BY <1>a, <3>1, LimitsAreNatural
    <3>3. a = "WRITE_OFF" BY <1>a, <2>1, <3>2, ClosedWindowWritesOff DEF s
    <3> QED BY <1>3, <3>3
  <2> QED BY <1>a, <2>1, <2>2, <2>4, <2>5, <2>6 DEF Terminal
<1> QED BY <1>2, <1>3
-----------------------------------------------------------------------------
(* What is ahead of a debt.                                                *)

(* Places such that an action that is past them does not come back.        *)
Upstream(places) ==
  /\ places \subseteq AtId
  /\ \A p, q \in AtId : <<p, q>> \in Forward /\ q \in places => p \in places

LEMMA UpstreamPlaces ==
  /\ Upstream(ToMint) /\ Upstream(ToSend) /\ Upstream(ToSend \cup {"recording"})
  /\ Upstream(AtId)
BY DEF Upstream, ToMint, ToSend, AtId, Forward

(* A row is PENDING when it was, or when a pass has just scheduled it.     *)
LEMMA PendingStep ==
  ASSUME TypeInv, [Next]_vars, NEW d \in Debts, PendingOf(d)' # {}, PendingOf(d) = {}
  PROVE  \E w \in Passes : Schedule(w) /\ Applying(w, d)
<1>1. PICK i \in Used' : act'[i].debt = d /\ act'[i].status = "PENDING"
  BY DEF PendingOf
<1>2. i \notin Used
  <2> SUFFICES ASSUME i \in Used PROVE FALSE OBVIOUS
  <2>1. act[i].debt = d /\ act[i].status = "PENDING" BY <1>1, RowsStep
  <2> QED BY <2>1 DEF PendingOf
<1>3. PICK w \in Passes :
        /\ Schedule(w) /\ Used' = Used \cup {NewId}
        /\ act'[NewId] = [status |-> "PENDING", debt |-> pc[w].row.debt,
                          type |-> pc[w].action, due |-> FALSE]
  BY <1>2, RowsStep
<1>4. act'[NewId].debt = pc[w].row.debt BY <1>3
<1> QED BY <1>1, <1>2, <1>3, <1>4 DEF Schedule, Applying

(* Where a row or an action of a debt comes into a pass's hands.           *)
LEMMA AppliedStep ==
  ASSUME TypeInv, [Next]_vars, NEW w \in Passes, NEW d, Applying(w, d)'
  PROVE  Applying(w, d) \/ (PicksRow(w) /\ pc'[w].row.debt = d /\ pc'[w].action \notin Terminal)
<1>1. ~Schedules(w) BY DEF Applying, Schedules
<1>2. Stays(w) \/ PicksRow(w) BY <1>1, RowStep DEF Applying, AtRow
<1> QED BY <1>2 DEF Applying, Stays

LEMMA QueuedStep ==
  ASSUME TypeInv, [Next]_vars, NEW w \in Passes, NEW d \in Debts, Queued(w, d)'
  PROVE  Queued(w, d) \/ (PendingOf(d) # {} /\ pc'[w].at = "executing")
<1>1. PICK i \in queue'[w] : act'[i].debt = d BY DEF Queued
<1>2. CASE i \in queue[w]
  <2>1. act[i].debt = d BY <1>1, <1>2, HandIsRow, RowsStep
  <2> QED BY <1>2, <2>1 DEF Queued
<1>3. CASE UNCHANGED act /\ pc'[w].at = "executing" /\ i \in Used /\ act[i].status = "PENDING"
  BY <1>1, <1>3 DEF PendingOf
<1> QED BY <1>2, <1>3, QueueStep

LEMMA OnStep ==
  ASSUME TypeInv, [Next]_vars, NEW w \in Passes, NEW d, NEW places, Upstream(places),
         On(w, d, places)'
  PROVE  On(w, d, places) \/ (TakesUp(w) /\ Queued(w, d))
<1>1. pc'[w].at \in places /\ pc'[w].at \in AtId /\ act'[pc'[w].id].debt = d
  BY DEF On, Upstream
<1>2. CASE Stays(w) \/ Advances(w)
  <2>1. pc[w].at \in AtId /\ pc'[w].id = pc[w].id BY <1>1, <1>2 DEF Stays, Advances
  <2>2. act[pc[w].id].debt = d BY <1>1, <2>1, HandIsRow, RowsStep
  <2>3. pc[w].at \in places BY <1>1, <1>2 DEF Stays, Advances, Upstream
  <2> QED BY <2>2, <2>3 DEF On
<1>3. CASE TakesUp(w)
  <2>1. pc'[w].id \in queue[w] /\ pc'[w].id \in Used BY <1>3, HandIsRow DEF TakesUp
  <2>2. act[pc'[w].id].debt = d BY <1>1, <2>1, RowsStep
  <2> QED BY <1>3, <2>1, <2>2 DEF Queued
<1> QED BY <1>1, <1>2, <1>3, HandStep

(* Nothing comes to be ahead of a debt but by a decision, and none is      *)
(* taken on a settled one.                                                 *)
LEMMA AheadStep ==
  ASSUME TypeInv, [Next]_vars, NEW d \in Debts, NEW places, Upstream(places),
         Ahead(d, places)', ~Ahead(d, places)
  PROVE  \E w \in Passes : PicksRow(w) /\ pc'[w].row.debt = d /\ pc'[w].action \notin Terminal
<1>1. PendingOf(d)' = {}
  BY PendingStep DEF Ahead
<1>2. PICK w \in Passes : Applying(w, d)' \/ Queued(w, d)' \/ On(w, d, places)'
  BY <1>1 DEF Ahead
<1>3. ~Queued(w, d)' BY QueuedStep DEF Ahead
<1>4. ~On(w, d, places)' BY OnStep DEF Ahead
<1> QED BY <1>2, <1>3, <1>4, AppliedStep DEF Ahead

(* What a pass decides on is a row that it read, and was right of it.      *)
LEMMA PickedRow ==
  ASSUME TypeInv, [Next]_vars, NEW w \in Passes, PicksRow(w)
  PROVE  /\ pc[w].at = "deciding" /\ pc'[w].at = "apply"
         /\ pc'[w].row \in todo[w] /\ pc'[w].row.debt \in Debts
         /\ ob[pc'[w].row.debt] # "SETTLED" /\ pc'[w].action \in LinkActions \cup Terminal
         /\ pc'[w].action # "WRITE_OFF" =>
              /\ RungOf[pc'[w].action] > pc'[w].row.rung
              /\ pc'[w].row.debt \notin lapsed
              /\ ~(Recent(CustomerOf[pc'[w].row.debt]) >= MaxContacts7d)
<1>1. PICK row \in todo[w], down \in BOOLEAN, worth \in BOOLEAN,
           a \in Decisions \ {"NONE", "WAIT"} :
        /\ a = Decide(Snapshot(row, down), worth)
        /\ pc'[w] = [at |-> "apply", row |-> row, action |-> a]
  BY DEF PicksRow
<1>2. pc'[w].at = "apply" /\ pc'[w].row = row /\ pc'[w].action = a
  BY <1>1
<1>3. row.debt \in Debts BY DEF TypeInv, TypeOK, CaseRows
<1> HIDE DEF Decisions
<1>4. a \notin {"NONE", "WAIT"} BY <1>1
<1>5. pc[w].at = "deciding" BY DEF PicksRow
<1> QED BY <1>1, <1>2, <1>3, <1>4, <1>5, LiveDecision

LEMMA SettledStaysQuiet ==
  ASSUME TypeInv, [Next]_vars, NEW d \in Debts, NEW places, Upstream(places),
         ob[d] = "SETTLED", ~Ahead(d, places)
  PROVE  ~Ahead(d, places)'
BY AheadStep, PickedRow

LEMMA DecidedNext ==
  ASSUME TypeInv, DecidedAbove, [Next]_vars
  PROVE  DecidedAbove'
<1> SUFFICES ASSUME NEW w \in Passes, pc'[w].at \in AtRow
             PROVE  /\ pc'[w].action \notin Terminal => RungOf[pc'[w].action] > pc'[w].row.rung
                    /\ pc'[w].at = "climb" => pc'[w].action \notin Terminal
  BY DEF DecidedAbove, AtRow
<1>1. CASE Stays(w) BY <1>1 DEF Stays, DecidedAbove
<1>2. CASE PicksRow(w)
  <2>1. /\ pc'[w].at = "apply"
        /\ pc'[w].action # "WRITE_OFF" => RungOf[pc'[w].action] > pc'[w].row.rung
    BY <1>2, PickedRow
  <2> QED BY <2>1 DEF Terminal
<1>3. CASE Schedules(w) BY <1>3 DEF Schedules, DecidedAbove, AtRow
<1> QED BY <1>1, <1>2, <1>3, RowStep

(* The rows a pass has still to decide on.                                 *)
LEMMA TodoStep ==
  ASSUME TypeInv, [Next]_vars, NEW w \in Passes
  PROVE  \/ todo'[w] \subseteq todo[w]
         \/ /\ OpenCases(w) /\ UNCHANGED case
            /\ \A r \in todo'[w] : r.debt \in Debts /\ case[r.debt] = "OPEN"
<1>a. todo \in [Passes -> SUBSET CaseRows] BY DEF TypeInv, TypeOK
<1>1. CASE OpenCases(w)
  <2>1. todo'[w] = {[debt |-> d, rung |-> rung[d]] :
                      d \in {e \in Debts : case[e] = "OPEN" /\ Live(e) = {}}}
    BY <1>1, <1>a DEF OpenCases
  <2> QED BY <1>1, <2>1 DEF OpenCases, store
<1>2. CASE DecideCase(w)
  <2>1. \E row \in todo[w] : todo' = [todo EXCEPT ![w] = todo[w] \ {row}]
    BY <1>2 DEF DecideCase
  <2> QED BY <1>a, <2>1
<1>3. CASE Abandon(w) BY <1>3, <1>a DEF Abandon
<1>4. CASE PassStep(w) /\ ~OpenCases(w) /\ ~DecideCase(w)
  <2>1. UNCHANGED todo
    BY <1>4 DEF PassStep, StartTick, CloseCase, DropPausedAction, Schedule, Climb, ReadDue,
       CancelHeld, Recheck, MarkInFlight, FindLink, Mint, MintFails, Send, RecordContact,
       CallSandbox, Finish, FinishTick
  <2> QED BY <2>1
<1>5. todo'[w] = todo[w] \/ PassStep(w) \/ Abandon(w) BY OneMoves
<1> QED BY <1>1, <1>2, <1>3, <1>4, <1>5

(* What each step does to the books of a debt.                             *)
LEMMA BookStep ==
  ASSUME TypeInv, [Next]_vars, NEW d \in Debts
  PROVE  \/ ob'[d] = ob[d] /\ case'[d] = case[d]
         \/ /\ case[d] = "none" /\ case'[d] = "OPEN" /\ ob'[d] = (IF ob[d] = "none" THEN "OPEN" ELSE ob[d])
            /\ UNCHANGED route
         \/ /\ \E s \in {"RECOVERED", "SELF_RECOVERED"} :
                 /\ Settle(d, s)
                 /\ s = "SELF_RECOVERED" => contacts[d] = 0
                 /\ case'[d] = IF case[d] = "OPEN" THEN s ELSE case[d]
            /\ ob[d] # "none" \/ case[d] # "none"
            /\ ob'[d] = "SETTLED"
            /\ route[d] # "unpaid" /\ UNCHANGED route
         \/ /\ \E w \in Passes : /\ CloseCase(w) /\ pc[w].row.debt = d
                                 /\ case'[d] = IF pc[w].action = "WRITE_OFF"
                                               THEN "WRITTEN_OFF" ELSE "ESCALATED"
            /\ ob'[d] = ob[d] /\ UNCHANGED route
<1>a. /\ ob \in [Debts -> {"none", "OPEN", "SETTLED"}]
      /\ case \in [Debts -> CaseStatus \cup {"none"}]
  BY DEF TypeInv, TypeOK
<1>1. CASE UNCHANGED <<ob, case>> BY <1>1
<1>2. ASSUME NEW e \in Debts, FailureArrives(e)
      PROVE  \/ ob'[d] = ob[d] /\ case'[d] = case[d]
             \/ /\ case[d] = "none" /\ case'[d] = "OPEN"
                /\ ob'[d] = (IF ob[d] = "none" THEN "OPEN" ELSE ob[d])
                /\ UNCHANGED route
  BY <1>2, <1>a DEF FailureArrives, world
<1>3. ASSUME NEW e \in Debts, SettleWebhook(e) \/ Ledger(e)
      PROVE  \/ ob'[d] = ob[d] /\ case'[d] = case[d]
             \/ /\ \E s \in {"RECOVERED", "SELF_RECOVERED"} :
                     /\ Settle(d, s)
                     /\ s = "SELF_RECOVERED" => contacts[d] = 0
                     /\ case'[d] = IF case[d] = "OPEN" THEN s ELSE case[d]
                /\ ob[d] # "none" \/ case[d] # "none"
                /\ ob'[d] = "SETTLED"
                /\ route[d] # "unpaid" /\ UNCHANGED route
  <2>0. contacts[e] \in Nat BY DEF TypeInv, TypeOK
  <2>1. PICK s \in {"RECOVERED", "SELF_RECOVERED"} :
          /\ Settle(e, s)
          /\ s = "SELF_RECOVERED" => contacts[e] = 0
          /\ ob[e] # "none" \/ case[e] # "none"
          /\ route[e] # "unpaid"
    BY <1>3, <2>0 DEF SettleWebhook, Ledger
  <2>2. /\ ob' = [ob EXCEPT ![e] = "SETTLED"] /\ UNCHANGED route
        /\ case' = [case EXCEPT ![e] = IF case[e] = "OPEN" THEN s ELSE case[e]]
    BY <2>1 DEF Settle, world
  <2>3. CASE e # d BY <1>a, <2>2, <2>3
  <2>4. CASE e = d BY <1>a, <2>1, <2>2, <2>4
  <2> QED BY <2>3, <2>4
<1>4. ASSUME NEW w \in Passes, CloseCase(w)
      PROVE  \/ ob'[d] = ob[d] /\ case'[d] = case[d]
             \/ /\ pc[w].row.debt = d
                /\ case'[d] = IF pc[w].action = "WRITE_OFF" THEN "WRITTEN_OFF" ELSE "ESCALATED"
                /\ ob'[d] = ob[d] /\ UNCHANGED route
  BY <1>4, <1>a DEF CloseCase, world
<1> HIDE DEF Settle
<1>5. CASE \E e \in Debts : SettleWebhook(e) \/ Ledger(e) BY <1>3, <1>5
<1>6. CASE \E e \in Debts : FailureArrives(e) BY <1>2, <1>6
<1>7. CASE \E w \in Passes : CloseCase(w) BY <1>4, <1>7
<1> QED BY <1>1, <1>5, <1>6, <1>7, Writers DEF Settling

LEMMA BooksNext ==
  ASSUME TypeInv, Books, [Next]_vars
  PROVE  Books'
<1>a. ob \in [Debts -> {"none", "OPEN", "SETTLED"}] /\ todo \in [Passes -> SUBSET CaseRows]
      /\ route \in [Debts -> Routes]
  BY DEF TypeInv, TypeOK
<1>1. ASSUME NEW d \in Debts
      PROVE  /\ ob'[d] = "none" <=> case'[d] = "none"
             /\ ob'[d] = "SETTLED" => route'[d] # "unpaid"
             /\ case[d] # "none" => case'[d] # "none"
  <2>1. /\ ob[d] = "none" <=> case[d] = "none"
        /\ ob[d] = "SETTLED" => route[d] # "unpaid"
    BY DEF Books
  <2>2. route[d] # "unpaid" => route'[d] = route[d]
    <3>1. UNCHANGED route \/ \E e \in Debts, how \in PayBy : Pay(e, how) BY Writers
    <3> QED BY <1>a, <3>1 DEF Pay
  <2> HIDE DEF Settle
  <2>3. \/ ob'[d] = ob[d] /\ case'[d] = case[d]
        \/ /\ case[d] = "none" /\ case'[d] = "OPEN" /\ ob'[d] # "none"
           /\ ob'[d] = "SETTLED" => ob[d] = "SETTLED"
        \/ /\ ob'[d] = "SETTLED" /\ route[d] # "unpaid"
           /\ ob[d] # "none" \/ case[d] # "none"
           /\ case'[d] = case[d] \/ case'[d] # "none"
        \/ /\ ob'[d] = ob[d] /\ case'[d] # "none"
           /\ \E w \in Passes : pc[w].at = "apply" /\ pc[w].row.debt = d
    BY BookStep DEF CloseCase
  <2>4. (\E w \in Passes : pc[w].at = "apply" /\ pc[w].row.debt = d) => case[d] # "none"
    BY DEF Books, AtRow
  <2> QED BY <2>1, <2>2, <2>3, <2>4
<1>2. ASSUME NEW w \in Passes, NEW r \in todo'[w] PROVE case'[r.debt] # "none"
  <2>1. CASE r \in todo[w]
    <3>1. r.debt \in Debts /\ case[r.debt] # "none" BY <1>a, <2>1 DEF Books, CaseRows
    <3> QED BY <1>1, <3>1
  <2>2. CASE UNCHANGED case /\ case[r.debt] = "OPEN" BY <2>2
  <2> QED BY <2>1, <2>2, TodoStep
<1>3. ASSUME NEW w \in Passes, pc'[w].at \in AtRow PROVE case'[pc'[w].row.debt] # "none"
  <2>1. CASE Stays(w) \/ Schedules(w)
    <3>1. pc[w].at \in AtRow /\ pc'[w].row = pc[w].row BY <1>3, <2>1 DEF Stays, Schedules, AtRow
    <3>2. pc[w].row.debt \in Debts BY <3>1, PlaceFields DEF TypeInv, TypeOK, CaseRows
    <3>3. case[pc[w].row.debt] # "none" BY <3>1 DEF Books
    <3> QED BY <1>1, <3>1, <3>2, <3>3
  <2>2. CASE PicksRow(w)
    <3>1. pc'[w].row \in todo[w] /\ pc'[w].row.debt \in Debts BY <2>2, PickedRow
    <3>2. case[pc'[w].row.debt] # "none" BY <3>1 DEF Books
    <3> QED BY <1>1, <3>1, <3>2
  <2> QED BY <1>3, <2>1, <2>2, RowStep
<1> QED BY <1>1, <1>2, <1>3 DEF Books

(* The facts about a single pass that every count below rests on.          *)
OnePass == /\ TypeInv /\ Alone /\ RowsAreCurrent
           /\ HandsMoveOn /\ DecidedAbove /\ Books /\ SettledLinksAreLast

(* An action that the one pass has marked is all there is of its debt: it  *)
(* alone may be ahead after the next step.                                 *)
LEMMA OnlyHand ==
  ASSUME NEW W, Passes = {W}, TypeInv, Alone, HandsMoveOn, [Next]_vars,
         NEW d \in Debts, On(W, d, AtId \ {"cleared"}),
         NEW places, Upstream(places), Ahead(d, places)'
  PROVE  pc[W].at \in places /\ pc'[W].at \in places
<1>a. W \in Passes /\ pc[W].id \in HandOf(W) /\ pc[W].id \notin queue[W]
      /\ act[pc[W].id].status # "PENDING" /\ pc[W].at \in AtId /\ act[pc[W].id].debt = d
  BY DEF HandOf, HandsMoveOn, On
<1>1. Live(d) \subseteq {pc[W].id} /\ \A j \in queue[W] : act[j].debt # d
  BY <1>a DEF Alone, HandsAreAlone, HandOf
<1>2. PendingOf(d) = {}
  BY <1>a, <1>1 DEF PendingOf, Live, LiveStatus
<1>3. ~Applying(W, d) /\ ~Queued(W, d)
  BY <1>a, <1>1 DEF Applying, Queued, AtId
<1>4. PendingOf(d)' = {}
  BY <1>2, <1>3, PendingStep
<1>5. ~Queued(W, d)' BY <1>2, <1>3, <1>a, QueuedStep
<1>6. ~Applying(W, d)'
  BY <1>3, <1>a, AppliedStep DEF PicksRow, AtId
<1>7. On(W, d, places)'
  BY <1>4, <1>5, <1>6 DEF Ahead
<1>8. On(W, d, places) BY <1>3, <1>7, <1>a, OnStep
<1> QED BY <1>7, <1>8 DEF On

(* Past the place where links are made nothing is ahead, until the next    *)
(* decision.                                                               *)
LEMMA LinksLastNext ==
  ASSUME NEW W, Passes = {W}, OnePass, [Next]_vars
  PROVE  SettledLinksAreLast'
<1> USE DEF OnePass
<1> SUFFICES ASSUME NEW d \in Debts, ob'[d] = "SETTLED", NEW l \in links', l[1] = d
             PROVE  ~Ahead(d, ToMint)'
  BY DEF SettledLinksAreLast
<1>1. CASE \E w \in Passes : Mint(w)
  <2>0. Mint(W) BY <1>1
  <2>1. pc[W].at = "minting" /\ Mint(W) BY <2>0 DEF Mint
  <2>2. UNCHANGED <<ob, act>> BY <2>1 DEF Mint
  <2>3. CASE act[pc[W].id].debt = d
    <3>1. pc'[W].at \in {"closing", "sending"}
      BY <2>1, WithLinkType DEF Mint, TypeInv, TypeOK, AtId
    <3>2. On(W, d, AtId \ {"cleared"}) BY <2>1, <2>3 DEF On, AtId
    <3>3. pc'[W].at \notin ToMint BY <3>1 DEF ToMint
    <3> QED BY <3>2, <3>3, OnlyHand, UpstreamPlaces
  <2>4. CASE act[pc[W].id].debt # d
    <3>1. l \in links BY <2>1, <2>4 DEF Mint
    <3>2. ~Ahead(d, ToMint) BY <2>2, <3>1 DEF SettledLinksAreLast
    <3> QED BY <2>2, <3>2, SettledStaysQuiet, UpstreamPlaces
  <2> QED BY <2>3, <2>4
<1>2. CASE Settling
  <2>1. PICK e \in Debts, s \in {"RECOVERED", "SELF_RECOVERED"} : Settle(e, s)
    BY <1>2 DEF Settling, SettleWebhook, Ledger
  <2>2. e # d /\ l \in links /\ ob[d] = "SETTLED"
    BY <2>1 DEF Settle, TypeInv, TypeOK
  <2>3. ~Ahead(d, ToMint) BY <2>2 DEF SettledLinksAreLast
  <2> QED BY <2>2, <2>3, SettledStaysQuiet, UpstreamPlaces
<1>3. CASE UNCHANGED links /\ ~Settling
  <2>1. ob[d] = "SETTLED"
    BY <1>3, Writers DEF FailureArrives, TypeInv, TypeOK
  <2>2. ~Ahead(d, ToMint) BY <1>3, <2>1 DEF SettledLinksAreLast
  <2> QED BY <2>1, <2>2, SettledStaysQuiet, UpstreamPlaces
<1> QED BY <1>1, <1>2, <1>3, Writers

LEMMA OnePassInit == Init => OnePass /\ faults = 0
<1> SUFFICES ASSUME Init PROVE OnePass /\ faults = 0 OBVIOUS
<1>1. TypeInv /\ Alone BY TypeInit, AloneInit
<1>2. RowsAreCurrent /\ HandsMoveOn /\ DecidedAbove /\ Books /\ SettledLinksAreLast
  BY DEF Init, RowsAreCurrent, HandsMoveOn, DecidedAbove, Books, SettledLinksAreLast, AtRow, AtId
<1> QED BY <1>1, <1>2 DEF OnePass, Init

LEMMA OnePassNext ==
  ASSUME NEW W, Passes = {W}, OnePass, [Next]_vars
  PROVE  OnePass'
BY AloneNext, CurrentNext, MovesOnNext, DecidedNext, BooksNext, LinksLastNext DEF OnePass

-----------------------------------------------------------------------------
(* Messages on a settled debt.                                             *)

LEMMA SendStep ==
  ASSUME TypeInv, [Next]_vars, NEW d \in Debts
  PROVE  \/ sent'[d] = sent[d] /\ late'[d] = late[d]
         \/ \E w \in Passes :
              /\ Send(w) /\ On(w, d, {"sending"}) /\ pc'[w].at = "recording"
              /\ sent'[d] = sent[d] + 1
              /\ late'[d] = IF KnownPaid(d) THEN late[d] + 1 ELSE late[d]
              /\ UNCHANGED <<ob, case, route, faults, contacts, act, held, todo, queue>>
<1>a. sent \in [Debts -> Nat] /\ late \in [Debts -> Nat] /\ pc \in [Passes -> Places]
  BY DEF TypeInv, TypeOK
<1>1. CASE UNCHANGED hist BY <1>1 DEF hist
<1>2. ASSUME NEW w \in Passes, Send(w), ~(sent'[d] = sent[d] /\ late'[d] = late[d])
      PROVE  /\ On(w, d, {"sending"}) /\ pc'[w].at = "recording"
             /\ sent'[d] = sent[d] + 1
             /\ late'[d] = IF KnownPaid(d) THEN late[d] + 1 ELSE late[d]
             /\ UNCHANGED <<ob, case, route, faults, contacts, act, held, todo, queue>>
  <2>1. /\ pc[w].at = "sending" /\ UNCHANGED <<ob, case, route, faults, contacts, act, held, todo, queue>>
        /\ \/ /\ sent' = [sent EXCEPT ![act[pc[w].id].debt] = @ + 1]
              /\ late' = [late EXCEPT ![act[pc[w].id].debt] =
                            IF KnownPaid(act[pc[w].id].debt) THEN @ + 1 ELSE @]
              /\ Goto(w, [at |-> "recording", id |-> pc[w].id])
           \/ UNCHANGED <<sent, late>>
    BY <1>2, Zenon DEF Send, store, world
  <2>2. /\ sent' = [sent EXCEPT ![act[pc[w].id].debt] = @ + 1]
        /\ late' = [late EXCEPT ![act[pc[w].id].debt] =
                      IF KnownPaid(act[pc[w].id].debt) THEN @ + 1 ELSE @]
        /\ Goto(w, [at |-> "recording", id |-> pc[w].id])
    BY <1>2, <2>1
  <2>3. act[pc[w].id].debt = d BY <1>2, <1>a, <2>2
  <2>4. pc'[w].at = "recording" BY <1>a, <2>2 DEF Goto
  <2>5. sent'[d] = sent[d] + 1 /\ late'[d] = IF KnownPaid(d) THEN late[d] + 1 ELSE late[d]
    BY <1>a, <2>2, <2>3
  <2> QED BY <2>1, <2>3, <2>4, <2>5 DEF On
<1> QED BY <1>1, <1>2, Writers

(* A message on a settled debt is not prepared anew: a link is not made    *)
(* for it, and one that is live was made by the action that sends it.      *)
LEMMA NoNewSending ==
  ASSUME TypeInv, SettledLinksAreLast, [Next]_vars, NEW d \in Debts, ob[d] = "SETTLED",
         NEW w \in Passes, On(w, d, {"minting", "sending"})'
  PROVE  On(w, d, {"minting", "sending"})
<1>1. pc'[w].at \in {"minting", "sending"} /\ act'[pc'[w].id].debt = d BY DEF On
<1>2. Stays(w) \/ Advances(w) BY <1>1, HandStep DEF AtId, TakesUp
<1>3. pc[w].at \in AtId /\ pc'[w].id = pc[w].id
  BY <1>1, <1>2 DEF Stays, Advances, AtId
<1>4. act[pc[w].id].debt = d BY <1>1, <1>3, HandIsRow, RowsStep
<1>5. pc[w].at \in {"calling", "minting", "sending"}
  BY <1>1, <1>2 DEF Stays, Advances, Forward
<1>6. pc[w].at # "calling"
  <2> SUFFICES ASSUME pc[w].at = "calling" PROVE FALSE OBVIOUS
  <2>a. pc \in [Passes -> Places] BY DEF TypeInv, TypeOK
  <2>1. ~(\E l \in links : l[1] = d)
    <3>1. On(w, d, ToMint) BY <1>4 DEF On, ToMint
    <3> QED BY <3>1 DEF SettledLinksAreLast, Ahead
  <2>2. pc'[w] # pc[w] BY <1>1
  <2>3. ~Abandon(w) BY <1>1, <2>a DEF Abandon, Goto
  <2>4. FindLink(w) \/ CallSandbox(w) BY <2>2, <2>3, StepFrom
  <2>5. ~CallSandbox(w) BY <1>1, <2>a DEF CallSandbox, Goto
  <2>6. Goto(w, [at |-> "closing", id |-> pc[w].id, ok |-> FALSE])
    BY <1>4, <2>1, <2>4, <2>5 DEF FindLink
  <2> QED BY <1>1, <2>a, <2>6 DEF Goto
<1> QED BY <1>4, <1>5, <1>6 DEF On

LEMMA SelfCountNext ==
  ASSUME NEW W, Passes = {W}, OnePass, \A d \in Debts : Counted(d), SelfRecoveredCount,
         [Next]_vars, NEW d \in Debts, case'[d] = "SELF_RECOVERED"
  PROVE  ob'[d] = "SETTLED" /\ (sent[d] + Sending(d, {"minting", "sending"}) <= 1 + faults)'
<1> USE DEF OnePass
<1> DEFINE Out == {"minting", "sending"}
<1>a. /\ sent \in [Debts -> Nat] /\ contacts \in [Debts -> Nat]
      /\ sent[d] \in Nat /\ faults \in Nat /\ faults' \in Nat /\ faults <= faults'
  BY FaultsStep DEF TypeInv, TypeOK
<1>b. Sending(d, Out) \in {0, 1} /\ Sending(d, Out)' \in {0, 1} BY DEF Sending
<1>1. CASE case[d] = "SELF_RECOVERED"
  <2>1. ob[d] = "SETTLED" /\ sent[d] + Sending(d, Out) <= 1 + faults
    BY <1>1 DEF SelfRecoveredCount
  <2>2. ob'[d] = "SETTLED"
    BY <1>1, <2>1, BookStep
  <2>3. Sending(d, Out)' <= Sending(d, Out)
    BY <2>1, NoNewSending DEF Sending
  <2>4. CASE sent'[d] = sent[d]
    BY <1>a, <1>b, <2>1, <2>2, <2>3, <2>4
  <2>5. CASE \E w \in Passes : On(w, d, {"sending"}) /\ pc'[w].at = "recording"
                               /\ sent'[d] = sent[d] + 1
    <3>1. Sending(d, Out) = 1 BY <2>5 DEF Sending, On
    <3>2. Sending(d, Out)' = 0 BY <2>5 DEF Sending, On
    <3> QED BY <1>a, <2>1, <2>2, <2>5, <3>1, <3>2
  <2> QED BY <2>4, <2>5, SendStep
<1>2. CASE case[d] # "SELF_RECOVERED"
  <2>1. PICK s \in {"RECOVERED", "SELF_RECOVERED"} :
          /\ Settle(d, s) /\ (s = "SELF_RECOVERED" => contacts[d] = 0)
          /\ case'[d] = (IF case[d] = "OPEN" THEN s ELSE case[d])
          /\ ob'[d] = "SETTLED"
    <3> HIDE DEF Settle
    <3> QED BY <1>2, BookStep
  <2>2. contacts[d] = 0 BY <1>2, <2>1
  <2>3. UNCHANGED <<pc, sent, faults>> BY <2>1 DEF Settle, hist
  <2>4. sent[d] + Sending(d, Out) <= 1 + faults
    <3>1. IsFiniteSet(Recording(d)) /\ sent[d] <= 0 + Cardinality(Recording(d)) + faults
      BY <2>2 DEF Counted
    <3>2. CASE W \in Recording(d)
      <4>1. Sending(d, Out) = 0 BY <3>2 DEF Sending, On, Recording
      <4>2. Recording(d) = {W} BY <3>2 DEF Recording
      <4>3. Cardinality(Recording(d)) = 1 BY <4>2, FS_Singleton
      <4> QED BY <1>a, <3>1, <4>1, <4>3
    <3>3. CASE W \notin Recording(d)
      <4>1. Recording(d) = {} BY <3>3 DEF Recording
      <4>2. Cardinality(Recording(d)) = 0 BY <4>1, FS_EmptySet
      <4> QED BY <1>a, <1>b, <3>1, <4>2
    <3> QED BY <3>2, <3>3
  <2>5. Sending(d, Out)' = Sending(d, Out)
    <3>1. \A w \in Passes : pc[w].at \in AtId => act'[pc[w].id].debt = act[pc[w].id].debt
      BY HandIsRow, RowsStep
    <3>2. \A w \in Passes : pc[w].at \in Out => act'[pc[w].id].debt = act[pc[w].id].debt
      BY <3>1 DEF AtId
    <3> QED BY <2>3, <3>2 DEF Sending, On
  <2> QED BY <2>1, <2>3, <2>4, <2>5
<1> QED BY <1>1, <1>2

(* A case that is booked as recovered by the customer alone was sent one   *)
(* message at most, and one more for each fault: the webhook looks at the  *)
(* contacts table, which may lag the mail server, and the pass that is     *)
(* under way stops at the settled debt.                                    *)
THEOREM SelfRecoveredAlwaysUntouched ==
  ASSUME NEW W, Passes = {W}
  PROVE  Spec => []SelfRecoveredUntouched
<1> DEFINE I == OnePass /\ (\A d \in Debts : Counted(d)) /\ SelfRecoveredCount
<1>1. Init => I
  <2> SUFFICES ASSUME Init PROVE I OBVIOUS
  <2>1. \A d \in Debts : Counted(d) BY CountedInit
  <2>2. SelfRecoveredCount BY DEF Init, SelfRecoveredCount
  <2> QED BY <2>1, <2>2, OnePassInit
<1>2. I /\ [Next]_vars => I'
  <2> SUFFICES ASSUME I, [Next]_vars PROVE I' OBVIOUS
  <2>1. OnePass' BY OnePassNext
  <2>2. (\A d \in Debts : Counted(d))' BY CountedNext DEF OnePass
  <2>3. SelfRecoveredCount' BY SelfCountNext DEF SelfRecoveredCount
  <2> QED BY <2>1, <2>2, <2>3
<1>3. I => SelfRecoveredUntouched
  <2> SUFFICES ASSUME I, NEW d \in Debts, case[d] = "SELF_RECOVERED" PROVE sent[d] <= 1 + faults
    BY DEF SelfRecoveredUntouched
  <2>1. sent[d] \in Nat /\ faults \in Nat
    BY LiveAssumption DEF OnePass, TypeInv, TypeOK
  <2>2. sent[d] + Sending(d, {"minting", "sending"}) <= 1 + faults BY DEF SelfRecoveredCount
  <2> QED BY <2>1, <2>2 DEF Sending
<1> HIDE DEF I
<1> QED BY <1>1, <1>2, <1>3, PTL DEF Spec

LEMMA SilentNext ==
  ASSUME TypeInv, SandboxIsSilent, [Next]_vars
  PROVE  SandboxIsSilent'
<1> SUFFICES ASSUME NEW w \in Passes, pc'[w].at \in {"minting", "sending"}
             PROVE  held'[w].port # "sandbox"
  BY DEF SandboxIsSilent
<1>a. pc \in [Passes -> Places] BY DEF TypeInv, TypeOK
<1>1. held'[w] = held[w] BY HeldStep
<1>2. CASE pc[w].at \in {"minting", "sending"} BY <1>1, <1>2 DEF SandboxIsSilent
<1>3. CASE pc[w].at \notin {"minting", "sending"}
  <2>1. Advances(w) BY <1>3, HandStep DEF AtId, Stays, TakesUp
  <2>2. pc[w].at = "calling" BY <1>3, <2>1 DEF Advances, Forward
  <2>3. ~Abandon(w) /\ ~CallSandbox(w) BY <1>a DEF Abandon, CallSandbox, Goto
  <2>4. FindLink(w) BY <1>3, <2>2, <2>3, StepFrom
  <2> QED BY <1>1, <2>4 DEF FindLink
<1> QED BY <1>2, <1>3

(* While a read of the merchant's order answers, an order that is paid     *)
(* lets no further action past its re-check.                               *)
LEMMA NoNewSends ==
  ASSUME TypeInv, [Next]_vars, FetchFails = FALSE, NEW d \in Debts, route[d] = "order",
         NEW w \in Passes, held'[w].port # "sandbox", On(w, d, ToSend)'
  PROVE  held[w].port # "sandbox" /\ On(w, d, ToSend)
<1>1. pc'[w].at \in AtId /\ pc'[w].at \in ToSend /\ act'[pc'[w].id].debt = d
  BY DEF On, ToSend, ToMint, AtId
<1>2. held'[w] = held[w] BY <1>1, HeldStep DEF AtId
<1>3. ~TakesUp(w)
  <2> SUFFICES ASSUME TakesUp(w) PROVE FALSE OBVIOUS
  <2>1. pc'[w].id \in queue[w] /\ ~SettledAtSource(held[w].port, act[pc'[w].id].debt)
    BY DEF TakesUp
  <2>2. pc'[w].id \in Used BY <2>1, HandIsRow
  <2>3. act[pc'[w].id].debt = d BY <1>1, <2>2, RowsStep
  <2> QED BY <1>2, <2>1, <2>3 DEF SettledAtSource
<1> QED BY <1>2, <1>3, OnStep, UpstreamPlaces

LEMMA LateCountNext ==
  ASSUME NEW W, Passes = {W}, FetchFails = FALSE, OnePass, SandboxIsSilent, LateCount,
         [Next]_vars, NEW d \in Debts
  PROVE  /\ late'[d] > 0 => KnownPaid(d)'
         /\ route'[d] = "order" => late'[d] + Sends(d)' <= 1
         /\ KnownPaid(d)' /\ route'[d] # "order"
              => late'[d] + Sending(d, {"minting", "sending"})' <= 1
<1> USE DEF OnePass
<1> DEFINE Out == {"minting", "sending"}
<1>a. late[d] \in Nat /\ route \in [Debts -> Routes] BY DEF TypeInv, TypeOK
<1>b. /\ Sending(d, Out) \in {0, 1} /\ Sending(d, Out)' \in {0, 1}
      /\ Sends(d) \in {0, 1} /\ Sends(d)' \in {0, 1}
  BY DEF Sending, Sends
<1>c. /\ late[d] > 0 => KnownPaid(d)
      /\ route[d] = "order" => late[d] + Sends(d) <= 1
      /\ KnownPaid(d) /\ route[d] # "order" => late[d] + Sending(d, Out) <= 1
  BY DEF LateCount
<1>1. route[d] # "unpaid" => route'[d] = route[d]
  <2>1. UNCHANGED route \/ \E e \in Debts, how \in PayBy : Pay(e, how) BY Writers
  <2> QED BY <1>a, <2>1 DEF Pay
<1>2. ob[d] = "SETTLED" => ob'[d] = "SETTLED"
  <2> HIDE DEF Settle
  <2>1. case[d] = "none" => ob[d] = "none" BY DEF Books
  <2> QED BY <2>1, BookStep
<1>3. KnownPaid(d) => KnownPaid(d)' BY <1>1, <1>2 DEF KnownPaid
<1>4. ob[d] = "SETTLED" => route[d] # "unpaid" BY DEF Books
<1>5. ASSUME sent'[d] = sent[d] /\ late'[d] = late[d]
      PROVE  /\ late'[d] > 0 => KnownPaid(d)'
             /\ route'[d] = "order" => late'[d] + Sends(d)' <= 1
             /\ KnownPaid(d)' /\ route'[d] # "order" => late'[d] + Sending(d, Out)' <= 1
  <2>1. late'[d] > 0 => KnownPaid(d)' BY <1>5, <1>c, <1>3
  <2>2. ASSUME route'[d] = "order" PROVE late'[d] + Sends(d)' <= 1
    <3>1. CASE route[d] = "order"
      <4>1. \A w \in Passes : held'[w].port # "sandbox" /\ On(w, d, ToSend)'
                              => held[w].port # "sandbox" /\ On(w, d, ToSend)
        BY <3>1, NoNewSends
      <4>2. Sends(d)' <= Sends(d) BY <4>1 DEF Sends
      <4> QED BY <1>5, <1>a, <1>b, <1>c, <3>1, <4>2
    <3>2. CASE route[d] # "order"
      <4>1. route[d] = "unpaid" BY <1>1, <2>2, <3>2
      <4>2. ~KnownPaid(d) BY <1>4, <4>1 DEF KnownPaid
      <4> QED BY <1>5, <1>a, <1>b, <1>c, <4>2
    <3> QED BY <3>1, <3>2
  <2>3. ASSUME KnownPaid(d)', route'[d] # "order" PROVE late'[d] + Sending(d, Out)' <= 1
    <3>1. route[d] # "order" BY <1>1, <2>3
    <3>2. CASE ob[d] = "SETTLED"
      <4>1. Sending(d, Out)' <= Sending(d, Out) BY <3>2, NoNewSending DEF Sending
      <4>2. KnownPaid(d) BY <3>2 DEF KnownPaid
      <4> QED BY <1>5, <1>a, <1>b, <1>c, <3>1, <4>1, <4>2
    <3>3. CASE ob[d] # "SETTLED"
      <4>1. ~KnownPaid(d) BY <3>1, <3>3 DEF KnownPaid
      <4> QED BY <1>5, <1>a, <1>b, <1>c, <4>1
    <3> QED BY <3>2, <3>3
  <2> QED BY <2>1, <2>2, <2>3
<1>6. ASSUME NEW w \in Passes, On(w, d, {"sending"}), pc'[w].at = "recording",
             late'[d] = IF KnownPaid(d) THEN late[d] + 1 ELSE late[d],
             UNCHANGED <<ob, route, act, held>>
      PROVE  /\ late'[d] > 0 => KnownPaid(d)'
             /\ route'[d] = "order" => late'[d] + Sends(d)' <= 1
             /\ KnownPaid(d)' /\ route'[d] # "order" => late'[d] + Sending(d, Out)' <= 1
  <2>1. w = W /\ pc[W].at = "sending" /\ act[pc[W].id].debt = d BY <1>6 DEF On
  <2>2. held[W].port # "sandbox" BY <2>1 DEF SandboxIsSilent
  <2>3. Sends(d) = 1 /\ Sending(d, Out) = 1 BY <2>1, <2>2 DEF Sends, Sending, On, ToSend
  <2>4. Sends(d)' = 0 /\ Sending(d, Out)' = 0 BY <1>6, <2>1 DEF Sends, Sending, On, ToSend, ToMint
  <2>5. KnownPaid(d)' <=> KnownPaid(d) BY <1>6 DEF KnownPaid
  <2>6. route'[d] = "order" => KnownPaid(d) BY <1>6 DEF KnownPaid
  <2> QED BY <1>6, <1>a, <1>c, <2>3, <2>4, <2>5, <2>6
<1> QED BY <1>5, <1>6, SendStep

(* While Razorpay's read endpoint answers, at most one message leaves      *)
(* after our books or the merchant's order say the debt is paid, the one   *)
(* that was past its re-check: a payment of any kind, or the switch to a   *)
(* dry run, in any of the windows of a pass, lets no second one through.   *)
THEOREM AtMostOneLateContactAlways ==
  ASSUME NEW W, Passes = {W}, FetchFails = FALSE
  PROVE  Spec => []AtMostOneLateContact
<1> DEFINE I == OnePass /\ SandboxIsSilent /\ LateCount
<1>1. Init => I
  <2> SUFFICES ASSUME Init PROVE I OBVIOUS
  <2>1. SandboxIsSilent BY DEF Init, SandboxIsSilent
  <2>2. LateCount BY DEF Init, LateCount, KnownPaid
  <2> QED BY <2>1, <2>2, OnePassInit
<1>2. I /\ [Next]_vars => I'
  <2> SUFFICES ASSUME I, [Next]_vars PROVE I' OBVIOUS
  <2>1. OnePass' BY OnePassNext
  <2>2. SandboxIsSilent' BY SilentNext DEF OnePass
  <2>3. LateCount' BY LateCountNext DEF LateCount
  <2> QED BY <2>1, <2>2, <2>3
<1>3. I => AtMostOneLateContact
  <2> SUFFICES ASSUME I, NEW d \in Debts PROVE late[d] <= 1 BY DEF AtMostOneLateContact
  <2>1. late[d] \in Nat BY DEF OnePass, TypeInv, TypeOK
  <2>2. Sends(d) \in {0, 1} /\ Sending(d, {"minting", "sending"}) \in {0, 1}
    BY DEF Sends, Sending
  <2> QED BY <2>1, <2>2 DEF LateCount
<1> HIDE DEF I
<1> QED BY <1>1, <1>2, <1>3, PTL DEF Spec

-----------------------------------------------------------------------------
(* The cap on messages.                                                    *)

(* The contacts of the last seven days: one is added by RecordContact,     *)
(* the others grow old.                                                    *)
LEMMA ContactRowsStep ==
  ASSUME TypeInv, [Next]_vars
  PROVE  \/ ContactRows' \subseteq ContactRows
         \/ \E w \in Passes :
              /\ pc[w].at = "recording" /\ pc'[w].at = "closing"
              /\ act[pc[w].id].debt \in Debts /\ UNCHANGED act
              /\ ContactRows' \subseteq ContactRows
                    \cup {<<act[pc[w].id].debt, contacts[act[pc[w].id].debt] + 1>>}
<1>a. contacts \in [Debts -> Nat] /\ aged \in [Debts -> Nat] /\ pc \in [Passes -> Places]
  BY DEF TypeInv, TypeOK
<1>1. CASE UNCHANGED contacts
  <2>1. \A d \in Debts : aged'[d] \in Nat /\ aged[d] <= aged'[d]
    <3>1. UNCHANGED aged \/ \E d \in Debts : AgeContact(d) BY Writers
    <3> QED BY <1>a, <3>1 DEF AgeContact
  <2>2. \A d \in Debts : (aged'[d] + 1)..contacts'[d] \subseteq (aged[d] + 1)..contacts[d]
    BY <1>1, <1>a, <2>1
  <2> QED BY <2>2 DEF ContactRows
<1>2. ASSUME NEW w \in Passes, RecordContact(w), ~UNCHANGED contacts
      PROVE  /\ pc[w].at = "recording" /\ pc'[w].at = "closing"
             /\ act[pc[w].id].debt \in Debts /\ UNCHANGED act
             /\ ContactRows' \subseteq ContactRows
                   \cup {<<act[pc[w].id].debt, contacts[act[pc[w].id].debt] + 1>>}
  <2> DEFINE e == act[pc[w].id].debt
  <2>1. pc[w].at = "recording" /\ UNCHANGED <<act, aged>>
        /\ contacts' = [contacts EXCEPT ![e] = @ + 1]
        /\ Goto(w, [at |-> "closing", id |-> pc[w].id, ok |-> TRUE])
    BY <1>2 DEF RecordContact, world
  <2>2. e \in Debts BY <2>1, HandIsRow DEF AtId
  <2>3. pc'[w].at = "closing" BY <1>a, <2>1 DEF Goto
  <2> HIDE DEF e
  <2>4. ASSUME NEW d \in Debts, NEW n \in (aged'[d] + 1)..contacts'[d],
               n \notin (aged[d] + 1)..contacts[d]
        PROVE  <<d, n>> = <<e, contacts[e] + 1>>
    <3>1. d = e BY <1>a, <2>1, <2>2, <2>4
    <3>2. contacts'[e] = contacts[e] + 1 /\ aged'[e] = aged[e] BY <1>a, <2>1, <2>2
    <3>3. n = contacts[e] + 1 BY <1>a, <2>2, <2>4, <3>1, <3>2
    <3> QED BY <3>1, <3>3
  <2>5. ContactRows' \subseteq ContactRows \cup {<<e, contacts[e] + 1>>}
    <3> SUFFICES ASSUME NEW d \in Debts, NEW n \in (aged'[d] + 1)..contacts'[d]
                 PROVE  <<d, n>> \in ContactRows \cup {<<e, contacts[e] + 1>>}
      BY DEF ContactRows
    <3> QED BY <2>4 DEF ContactRows
  <2> QED BY <2>1, <2>2, <2>3, <2>5 DEF e
<1> QED BY <1>1, <1>2, Writers

LEMMA RecentStep ==
  ASSUME TypeInv, [Next]_vars, IsFiniteSet(ContactRows), NEW c
  PROVE  /\ IsFiniteSet(ContactRows') /\ Recent(c) \in Nat /\ Recent(c)' \in Nat
         /\ \/ Recent(c)' <= Recent(c)
            \/ /\ Recent(c)' <= Recent(c) + 1
               /\ \E w \in Passes : /\ On(w, act[pc[w].id].debt, {"recording"})
                                    /\ pc'[w].at = "closing" /\ UNCHANGED act
                                    /\ act[pc[w].id].debt \in Debts
                                    /\ CustomerOf[act[pc[w].id].debt] = c
<1> DEFINE Of(rows) == {r \in rows : CustomerOf[r[1]] = c}
<1>a. /\ IsFiniteSet(Of(ContactRows))
      /\ Recent(c) = Cardinality(Of(ContactRows)) /\ Recent(c)' = Cardinality(Of(ContactRows'))
  BY FS_Subset DEF Recent
<1>1. CASE ContactRows' \subseteq ContactRows
  <2>1. Of(ContactRows') \subseteq Of(ContactRows) BY <1>1
  <2> HIDE DEF Of
  <2> QED BY <1>1, <1>a, <2>1, NotMore, FS_Subset
<1>2. ASSUME NEW w \in Passes, NEW n,
             pc[w].at = "recording", pc'[w].at = "closing",
             act[pc[w].id].debt \in Debts, UNCHANGED act,
             ContactRows' \subseteq ContactRows \cup {<<act[pc[w].id].debt, n>>}
      PROVE  /\ IsFiniteSet(ContactRows') /\ Recent(c) \in Nat /\ Recent(c)' \in Nat
             /\ \/ Recent(c)' <= Recent(c)
                \/ /\ Recent(c)' <= Recent(c) + 1
                   /\ On(w, act[pc[w].id].debt, {"recording"})
                   /\ pc'[w].at = "closing" /\ UNCHANGED act
                   /\ act[pc[w].id].debt \in Debts
                   /\ CustomerOf[act[pc[w].id].debt] = c
  <2> DEFINE e == act[pc[w].id].debt
  <2>0. <<e, n>>[1] = e OBVIOUS
  <2> HIDE DEF e
  <2>1. ContactRows' \subseteq ContactRows \cup {<<e, n>>} BY <1>2 DEF e
  <2>2. IsFiniteSet(ContactRows') BY <2>1, OneMore
  <2>3. CASE CustomerOf[e] = c
    <3>1. Of(ContactRows') \subseteq Of(ContactRows) \cup {<<e, n>>} BY <2>1
    <3> HIDE DEF Of
    <3>2. Recent(c) \in Nat /\ Recent(c)' \in Nat /\ Recent(c)' <= Recent(c) + 1
      BY <1>a, <3>1, OneMore
    <3>3. On(w, e, {"recording"}) BY <1>2 DEF On, e
    <3> QED BY <1>2, <2>2, <2>3, <3>2, <3>3 DEF e
  <2>4. CASE CustomerOf[e] # c
    <3>1. Of(ContactRows') \subseteq Of(ContactRows) BY <2>0, <2>1, <2>4
    <3> HIDE DEF Of
    <3> QED BY <1>a, <2>2, <3>1, NotMore
  <2> QED BY <2>3, <2>4
<1>3. CASE \E w \in Passes :
             /\ pc[w].at = "recording" /\ pc'[w].at = "closing"
             /\ act[pc[w].id].debt \in Debts /\ UNCHANGED act
             /\ ContactRows' \subseteq ContactRows
                   \cup {<<act[pc[w].id].debt, contacts[act[pc[w].id].debt] + 1>>}
  BY <1>2, <1>3
<1> QED BY <1>1, <1>3, ContactRowsStep

(* Until a debt's contacts begin to grow old, its customer's recent ones   *)
(* include them all.                                                       *)
LEMMA ContactsAreRecent ==
  ASSUME TypeInv, IsFiniteSet(ContactRows), NEW d \in Debts, aged[d] = 0
  PROVE  contacts[d] <= Recent(CustomerOf[d])
<1> DEFINE rows == {d} \X (1..contacts[d])
           all  == {r \in ContactRows : CustomerOf[r[1]] = CustomerOf[d]}
<1>1. contacts[d] \in Nat BY DEF TypeInv, TypeOK
<1>2. /\ IsFiniteSet({d}) /\ Cardinality({d}) = 1
      /\ IsFiniteSet(1..contacts[d]) /\ Cardinality(1..contacts[d]) = contacts[d]
  <2>1. IsFiniteSet({d}) /\ Cardinality({d}) = 1 BY FS_Singleton
  <2>2. ASSUME NEW n \in Nat PROVE IsFiniteSet(1..n) /\ Cardinality(1..n) = n
    <3>1. IsFiniteSet(1..n) /\ Cardinality(1..n) = IF 1 > n THEN 0 ELSE n - 1 + 1
      BY FS_Interval
    <3> QED BY <3>1
  <2> QED BY <1>1, <2>1, <2>2
<1>3. Cardinality(rows) = contacts[d]
  <2>1. Cardinality(rows) = Cardinality({d}) * Cardinality(1..contacts[d])
    BY <1>2, FS_Product
  <2> QED BY <1>1, <1>2, <2>1
<1>4. rows \subseteq all
  <2> SUFFICES ASSUME NEW n \in 1..contacts[d] PROVE <<d, n>> \in all OBVIOUS
  <2>1. <<d, n>> \in ContactRows BY <1>1 DEF ContactRows
  <2> QED BY <2>1
<1>5. IsFiniteSet(all) BY FS_Subset
<1>6. Cardinality(rows) <= Cardinality(all)
  <2> HIDE DEF rows, all
  <2> QED BY <1>4, <1>5, FS_Subset
<1> QED BY <1>3, <1>6 DEF Recent

LEMMA ContactRowsInit == Init => IsFiniteSet(ContactRows) /\ \A c : Recent(c) = 0
<1> SUFFICES ASSUME Init, NEW c PROVE IsFiniteSet(ContactRows) /\ Recent(c) = 0 OBVIOUS
<1>1. ContactRows = {} BY DEF Init, ContactRows
<1>2. {r \in ContactRows : CustomerOf[r[1]] = c} = {} BY <1>1
<1> QED BY <1>1, <1>2, FS_EmptySet DEF Recent

(* The engine closes a case between two actions, and nothing begins after. *)
LEMMA QuietNext ==
  ASSUME NEW W, Passes = {W}, OnePass, ClosedIsQuiet, [Next]_vars, NEW d \in Debts,
         case'[d] \in {"WRITTEN_OFF", "ESCALATED"}
  PROVE  /\ ~Ahead(d, AtId)'
         /\ \A w \in Passes : /\ \A r \in todo'[w] : r.debt # d
                              /\ pc'[w].at \in AtRow => pc'[w].row.debt # d
<1> USE DEF OnePass
<1>1. CASE case[d] \in {"WRITTEN_OFF", "ESCALATED"}
  <2>1. /\ ~Ahead(d, AtId)
        /\ \A w \in Passes : /\ \A r \in todo[w] : r.debt # d
                             /\ pc[w].at \in AtRow => pc[w].row.debt # d
    BY <1>1 DEF ClosedIsQuiet
  <2>2. \A w \in Passes : PicksRow(w) => pc'[w].row.debt # d
    BY <2>1, PickedRow
  <2>3. ~Ahead(d, AtId)' BY <2>1, <2>2, AheadStep, UpstreamPlaces
  <2>4. \A w \in Passes : \A r \in todo'[w] : r.debt # d
    BY <1>1, <2>1, TodoStep
  <2>5. ASSUME NEW w \in Passes, pc'[w].at \in AtRow PROVE pc'[w].row.debt # d
    <3>1. Stays(w) \/ PicksRow(w) \/ Schedules(w) BY <2>5, RowStep
    <3> QED BY <2>1, <2>2, <2>5, <3>1 DEF Stays, Schedules, AtRow
  <2> QED BY <2>3, <2>4, <2>5
<1>2. CASE case[d] \notin {"WRITTEN_OFF", "ESCALATED"}
  <2>1. PICK w \in Passes : CloseCase(w) /\ pc[w].row.debt = d
    <3> HIDE DEF Settle
    <3> QED BY <1>2, BookStep
  <2>2. /\ pc[W].at = "apply" /\ pc[W].row.debt = d /\ pc[W].action \in Terminal
        /\ pc'[W] = [at |-> "deciding"] /\ UNCHANGED <<act, queue, todo>>
    BY <2>1 DEF CloseCase, Goto, TypeInv, TypeOK
  <2>3. Live(d) = {} /\ \A r \in todo[W] : r.debt # d
    BY <2>2 DEF Alone, RowsAreFree, AtRow
  <2>4. queue[W] = {}
    BY <2>2 DEF TypeInv, Hands, AtId
  <2>5. PendingOf(d)' = {}
    BY <2>2, <2>3 DEF PendingOf, Live, LiveStatus, Used
  <2>6. ~Applying(W, d)' /\ ~Queued(W, d)' /\ ~On(W, d, AtId)'
    BY <2>2, <2>4 DEF Applying, Queued, On, AtId
  <2>7. ~Ahead(d, AtId)' BY <2>5, <2>6 DEF Ahead
  <2>8. pc'[W].at \notin AtRow BY <2>2 DEF AtRow
  <2> QED BY <2>2, <2>3, <2>7, <2>8
<1> QED BY <1>1, <1>2

(* A pass that has nothing to record has counted all that was sent.        *)
LEMMA AllCounted ==
  ASSUME NEW W, Passes = {W}, TypeInv, NEW d \in Debts, Counted(d), pc[W].at # "recording"
  PROVE  sent[d] <= contacts[d] + faults
<1>1. Recording(d) = {} BY DEF Recording
<1>2. Cardinality(Recording(d)) = 0 BY <1>1, FS_EmptySet
<1>3. contacts[d] \in Nat /\ faults \in Nat BY LiveAssumption DEF TypeInv, TypeOK
<1> QED BY <1>2, <1>3 DEF Counted

LEMMA HumanNext ==
  ASSUME NEW W, Passes = {W}, OnePass, \A d \in Debts : Counted(d), IsFiniteSet(ContactRows),
         ClosedIsQuiet, HumanCount, [Next]_vars
  PROVE  HumanCount'
<1> USE DEF OnePass
<1>a. /\ aged \in [Debts -> Nat] /\ contacts \in [Debts -> Nat] /\ sent \in [Debts -> Nat]
      /\ faults \in Nat /\ faults' \in Nat /\ faults <= faults' /\ MaxContacts7d \in Nat
  BY FaultsStep, LimitsAreNatural DEF TypeInv, TypeOK
<1>1. ASSUME NEW d \in Debts, aged'[d] > 0 PROVE d \in lapsed'
  <2>1. aged[d] > 0 => d \in lapsed BY DEF HumanCount
  <2>2. lapsed \subseteq lapsed' BY Writers DEF Lapse
  <2>3. aged'[d] = aged[d] \/ d \in lapsed
    <3>1. UNCHANGED aged \/ \E e \in Debts : AgeContact(e) BY Writers
    <3> QED BY <1>a, <3>1 DEF AgeContact
  <2> QED BY <1>1, <2>1, <2>2, <2>3
<1>2. ASSUME NEW d \in Debts, pc[W].at # "sending" \/ act[pc[W].id].debt # d
      PROVE  sent'[d] = sent[d]
  BY <1>2, SendStep DEF On
<1>3. ASSUME NEW d \in Debts, case'[d] = "ESCALATED" PROVE sent'[d] < MaxContacts7d + faults'
  <2>1. CASE case[d] = "ESCALATED"
    <3>1. ~Ahead(d, AtId) BY <2>1 DEF ClosedIsQuiet
    <3>2. sent'[d] = sent[d] BY <1>2, <3>1 DEF Ahead, On, AtId
    <3>3. sent[d] < MaxContacts7d + faults BY <2>1 DEF HumanCount
    <3> QED BY <1>a, <3>2, <3>3
  <2>2. CASE case[d] # "ESCALATED"
    <3>1. PICK w \in Passes :
            /\ CloseCase(w) /\ pc[w].row.debt = d
            /\ case'[d] = IF pc[w].action = "WRITE_OFF" THEN "WRITTEN_OFF" ELSE "ESCALATED"
      <4> HIDE DEF Settle
      <4> QED BY <1>3, <2>2, BookStep
    <3>2. pc[W].at = "apply" /\ pc[W].row.debt = d /\ pc[W].action = "HUMAN"
      BY <1>3, <3>1 DEF CloseCase, Terminal
    <3>3. sent[d] < MaxContacts7d + faults BY <3>2 DEF HumanCount
    <3>4. sent'[d] = sent[d] BY <1>2, <3>2
    <3> QED BY <1>a, <3>3, <3>4
  <2> QED BY <2>1, <2>2
<1>4. ASSUME pc'[W].at = "apply", pc'[W].action = "HUMAN"
      PROVE  sent'[pc'[W].row.debt] < MaxContacts7d + faults'
  <2>1. ~Schedules(W) BY <1>4 DEF Schedules
  <2>2. CASE Stays(W)
    <3>1. pc[W].at = "apply" /\ pc[W].action = "HUMAN" /\ pc'[W].row = pc[W].row
      BY <1>4, <2>2 DEF Stays
    <3>2. pc[W].row.debt \in Debts BY <3>1, PlaceFields DEF TypeInv, TypeOK, CaseRows, AtRow
    <3>3. sent[pc[W].row.debt] < MaxContacts7d + faults BY <3>1 DEF HumanCount
    <3>4. sent'[pc[W].row.debt] = sent[pc[W].row.debt] BY <1>2, <3>1, <3>2
    <3> QED BY <1>a, <3>1, <3>2, <3>3, <3>4
  <2>3. CASE PicksRow(W)
    <3>1. /\ pc[W].at = "deciding" /\ pc'[W].row.debt \in Debts
          /\ pc'[W].row.debt \notin lapsed
          /\ ~(Recent(CustomerOf[pc'[W].row.debt]) >= MaxContacts7d)
      <4>1. pc'[W].action # "WRITE_OFF" BY <1>4
      <4> QED BY <2>3, <4>1, PickedRow
    <3>2. PICK d \in Debts : d = pc'[W].row.debt BY <3>1
    <3>3. aged[d] = 0 BY <1>a, <3>1, <3>2 DEF HumanCount
    <3>4. contacts[d] <= Recent(CustomerOf[d]) BY <3>3, ContactsAreRecent
    <3>5. Recent(CustomerOf[d]) \in Nat BY RecentStep
    <3>6. sent[d] <= contacts[d] + faults BY <3>1, AllCounted
    <3>7. sent'[d] = sent[d] BY <1>2, <3>1
    <3> QED BY <1>a, <3>1, <3>2, <3>4, <3>5, <3>6, <3>7
  <2> QED BY <1>4, <2>1, <2>2, <2>3, RowStep DEF AtRow
<1> QED BY <1>1, <1>3, <1>4 DEF HumanCount

(* A customer is handed to a person only while their cap lasts, counted in *)
(* messages that left, less one for each fault: nothing is sent between    *)
(* the look at the cap and the closing of the case, nor after it.          *)
THEOREM HumanAlwaysUnderCap ==
  ASSUME NEW W, Passes = {W}
  PROVE  Spec => []HumanOnlyUnderCap
<1> DEFINE I == /\ OnePass /\ (\A d \in Debts : Counted(d)) /\ IsFiniteSet(ContactRows)
                /\ ClosedIsQuiet /\ HumanCount
<1>1. Init => I
  <2> SUFFICES ASSUME Init PROVE I OBVIOUS
  <2>1. ClosedIsQuiet BY DEF Init, ClosedIsQuiet
  <2>2. HumanCount BY DEF Init, HumanCount
  <2> QED BY <2>1, <2>2, OnePassInit, CountedInit, ContactRowsInit
<1>2. I /\ [Next]_vars => I'
  <2> SUFFICES ASSUME I, [Next]_vars PROVE I' OBVIOUS
  <2>1. OnePass' BY OnePassNext
  <2>2. (\A d \in Debts : Counted(d))' BY CountedNext DEF OnePass
  <2>3. IsFiniteSet(ContactRows)' BY RecentStep DEF OnePass
  <2>4. ClosedIsQuiet' BY QuietNext DEF ClosedIsQuiet
  <2>5. HumanCount' BY HumanNext
  <2> QED BY <2>1, <2>2, <2>3, <2>4, <2>5
<1>3. I => HumanOnlyUnderCap BY DEF HumanCount, HumanOnlyUnderCap
<1> HIDE DEF I
<1> QED BY <1>1, <1>2, <1>3, PTL DEF Spec

(* The messages a customer has had and those still ahead stay under the    *)
(* cap, but for one per debt beyond the first: G13 looks at what has left  *)
(* when it decides, once for each debt.                                    *)
LEMMA CapNext ==
  ASSUME NEW W, Passes = {W}, IsFiniteSet(Debts), OnePass, IsFiniteSet(ContactRows), CapCount,
         [Next]_vars
  PROVE  CapCount'
<1> USE DEF OnePass
<1> DEFINE S == ToSend \cup {"recording"}
<1> SUFFICES ASSUME NEW d \in Debts
             PROVE  Recent(CustomerOf[d])' + Cardinality(Uncounted(CustomerOf[d]))'
                      <= MaxContacts7d - 1 + Cardinality(DebtsOf(CustomerOf[d]))
  BY DEF CapCount, DebtsOf
<1>1. PICK c : c = CustomerOf[d] OBVIOUS
<1>a. MaxContacts7d \in Nat BY LimitsAreNatural
<1>b. /\ IsFiniteSet(DebtsOf(c)) /\ Cardinality(DebtsOf(c)) \in Nat
      /\ Uncounted(c) \subseteq DebtsOf(c) /\ Uncounted(c)' \subseteq DebtsOf(c)
      /\ DebtsOf(c) \subseteq Debts
  BY FS_Subset, FS_CardinalityType DEF DebtsOf, Uncounted
<1>c. /\ IsFiniteSet(Uncounted(c)) /\ Cardinality(Uncounted(c)) \in Nat
      /\ IsFiniteSet(Uncounted(c)') /\ Cardinality(Uncounted(c)') \in Nat
      /\ Cardinality(Uncounted(c)') <= Cardinality(DebtsOf(c))
  BY <1>b, FS_Subset, FS_CardinalityType
<1>d. Recent(c) + Cardinality(Uncounted(c)) <= MaxContacts7d - 1 + Cardinality(DebtsOf(c))
  BY <1>1 DEF CapCount
<1>e. Recent(c) \in Nat /\ Recent(c)' \in Nat BY RecentStep
<1>f. Upstream(S) BY UpstreamPlaces
<1>2. CASE \E w \in Passes : /\ PicksRow(w) /\ pc'[w].action \notin Terminal
                             /\ pc'[w].row.debt \in DebtsOf(c)
  <2>1. pc[W].at = "deciding" /\ ~(Recent(c) >= MaxContacts7d)
    BY <1>2, PickedRow DEF Terminal, DebtsOf
  <2>2. Recent(c)' <= Recent(c) BY <2>1, RecentStep DEF On
  <2> QED BY <1>1, <1>a, <1>b, <1>c, <1>e, <2>1, <2>2
<1>3. CASE ~\E w \in Passes : /\ PicksRow(w) /\ pc'[w].action \notin Terminal
                              /\ pc'[w].row.debt \in DebtsOf(c)
  <2>1. Uncounted(c)' \subseteq Uncounted(c)
    BY <1>3, <1>b, <1>f, AheadStep DEF Uncounted
  <2>2. CASE Recent(c)' <= Recent(c)
    <3>1. Cardinality(Uncounted(c)') <= Cardinality(Uncounted(c)) BY <1>c, <2>1, FS_Subset
    <3> QED BY <1>1, <1>a, <1>b, <1>c, <1>d, <1>e, <2>2, <3>1
  <2>3. CASE /\ Recent(c)' <= Recent(c) + 1
             /\ \E w \in Passes : /\ On(w, act[pc[w].id].debt, {"recording"})
                                  /\ pc'[w].at = "closing" /\ UNCHANGED act
                                  /\ act[pc[w].id].debt \in Debts
                                  /\ CustomerOf[act[pc[w].id].debt] = c
    <3>1. PICK e \in DebtsOf(c) : On(W, e, {"recording"}) /\ pc'[W].at = "closing"
      BY <2>3 DEF DebtsOf
    <3>2. e \in Uncounted(c)
      <4>1. On(W, e, S) BY <3>1 DEF On
      <4> QED BY <3>1, <4>1 DEF Uncounted, Ahead
    <3>3. ~Ahead(e, S)'
      <4>1. On(W, e, AtId \ {"cleared"}) BY <3>1 DEF On, AtId
      <4>2. pc'[W].at \notin S BY <3>1 DEF ToSend, ToMint
      <4> QED BY <1>b, <1>f, <4>1, <4>2, OnlyHand
    <3>4. Uncounted(c)' \subseteq Uncounted(c) \ {e}
      BY <2>1, <3>3 DEF Uncounted
    <3>5. Cardinality(Uncounted(c)') + 1 <= Cardinality(Uncounted(c))
      BY <1>c, <3>2, <3>4, OneLess
    <3> QED BY <1>1, <1>a, <1>b, <1>c, <1>d, <1>e, <2>3, <3>5
  <2> QED BY <2>2, <2>3, RecentStep
<1> QED BY <1>2, <1>3

(* A customer of n debts is sent n - 1 messages more than the cap at most, *)
(* in any seven days.                                                      *)
THEOREM CapOvershootAlwaysBounded ==
  ASSUME NEW W, Passes = {W}, IsFiniteSet(Debts)
  PROVE  Spec => []CapOvershootBounded
<1> DEFINE I == OnePass /\ IsFiniteSet(ContactRows) /\ CapCount
<1>1. Init => I
  <2> SUFFICES ASSUME Init PROVE I OBVIOUS
  <2>1. ASSUME NEW d \in Debts
        PROVE  Recent(CustomerOf[d]) + Cardinality(Uncounted(CustomerOf[d]))
                 <= MaxContacts7d - 1 + Cardinality(DebtsOf(CustomerOf[d]))
    <3>1. Uncounted(CustomerOf[d]) = {}
      BY DEF Init, Uncounted, Ahead, PendingOf, Used, Applying, Queued, On, ToSend, ToMint
    <3>2. IsFiniteSet(DebtsOf(CustomerOf[d])) /\ d \in DebtsOf(CustomerOf[d])
      BY FS_Subset DEF DebtsOf
    <3>3. Cardinality(DebtsOf(CustomerOf[d])) \in Nat \ {0}
      BY <3>2, FS_CardinalityType, FS_EmptySet
    <3>4. Recent(CustomerOf[d]) = 0 /\ Cardinality(Uncounted(CustomerOf[d])) = 0
      BY <3>1, ContactRowsInit, FS_EmptySet
    <3> QED BY <3>3, <3>4, LimitsAreNatural
  <2>2. CapCount BY <2>1 DEF CapCount
  <2> QED BY <2>2, OnePassInit, ContactRowsInit
<1>2. I /\ [Next]_vars => I'
  <2> SUFFICES ASSUME I, [Next]_vars PROVE I' OBVIOUS
  <2>1. OnePass' BY OnePassNext
  <2>2. IsFiniteSet(ContactRows)' BY RecentStep DEF OnePass
  <2>3. CapCount' BY CapNext
  <2> QED BY <2>1, <2>2, <2>3
<1>3. I => CapOvershootBounded
  <2> SUFFICES ASSUME I, NEW d \in Debts
               PROVE  Recent(CustomerOf[d])
                        <= MaxContacts7d - 1 + Cardinality(DebtsOf(CustomerOf[d]))
    BY DEF CapOvershootBounded, DebtsOf
  <2>1. IsFiniteSet(Uncounted(CustomerOf[d])) /\ IsFiniteSet(DebtsOf(CustomerOf[d]))
    BY FS_Subset DEF Uncounted, DebtsOf
  <2>2. /\ Cardinality(Uncounted(CustomerOf[d])) \in Nat
        /\ Cardinality(DebtsOf(CustomerOf[d])) \in Nat
    BY <2>1, FS_CardinalityType
  <2>3. IsFiniteSet({r \in ContactRows : CustomerOf[r[1]] = CustomerOf[d]}) BY FS_Subset
  <2>4. Recent(CustomerOf[d]) \in Nat BY <2>3, FS_CardinalityType DEF Recent
  <2> QED BY <2>2, <2>4, LimitsAreNatural DEF CapCount
<1> HIDE DEF I
<1> QED BY <1>1, <1>2, <1>3, PTL DEF Spec

-----------------------------------------------------------------------------
(* One action for each rung.                                               *)

LEMMA RungTypes ==
  ASSUME TypeInv
  PROVE  /\ \A d \in Debts : rung[d] \in Nat
         /\ \A a \in Actions : RungOf[a] \in Nat
         /\ \A i \in Used : act[i].debt \in Debts /\ act[i].type \in Actions
<1>1. \A d \in Debts : rung[d] \in Nat BY DEF TypeInv, TypeOK
<1>2. \A a \in Actions : RungOf[a] \in Nat BY DEF Actions, RungOf
<1>3. \A i \in Used : act[i].debt \in Debts /\ act[i].type \in Actions
  BY UsedRows DEF TypeInv, TypeOK
<1> QED BY <1>1, <1>2, <1>3

(* The exceptions of one state account for the next one's, once the action *)
(* that a pass was cut short at is among them.                             *)
LEMMA RepeatsKept ==
  ASSUME NEW W, Passes = {W}, OnePass, [Next]_vars, NEW R, RepeatsAre(R),
         NEW R2, R \subseteq R2, R2 \subseteq Used, IsFiniteSet(R2), Cardinality(R2) <= faults',
         \A i \in Used : /\ Abandon(W) /\ pc[W].at = "climb" /\ pc[W].row.debt = act[i].debt
                         /\ pc[W].action = act[i].type
                         => i \in R2
  PROVE  RepeatsAre(R2)'
<1> USE DEF OnePass
<1>a. /\ \A d \in Debts : rung'[d] >= rung[d] /\ rung'[d] \in Nat
      /\ pc \in [Passes -> Places] /\ rung \in [Debts -> 0..6]
  <2>1. \A d \in Debts : rung'[d] >= rung[d] BY CurrentNext
  <2>2. rung' \in [Debts -> 0..6] BY TypeNext DEF TypeInv, TypeOK
  <2>3. rung \in [Debts -> 0..6] /\ pc \in [Passes -> Places] BY DEF TypeInv, TypeOK
  <2> QED BY <2>1, <2>2, <2>3
<1>b. /\ \A i, j \in Used \ R : SameKind(i, j) => i = j
      /\ \A i \in Used \ R :
           \/ RungOf[act[i].type] <= rung[act[i].debt]
           \/ /\ pc[W].at = "climb" /\ pc[W].row.debt = act[i].debt
              /\ pc[W].action = act[i].type
  BY DEF RepeatsAre
<1>c. Used \subseteq Used'
      /\ \A i \in Used : act'[i].debt = act[i].debt /\ act'[i].type = act[i].type
  BY RowsStep
<1>d. ASSUME NEW i \in Used \ R2
      PROVE  \/ RungOf[act'[i].type] <= rung'[act'[i].debt]
             \/ /\ pc'[W].at = "climb" /\ pc'[W].row.debt = act'[i].debt
                /\ pc'[W].action = act'[i].type
  <2>1. act[i].debt \in Debts /\ RungOf[act[i].type] \in Nat /\ rung[act[i].debt] \in Nat
    BY RungTypes
  <2>2. CASE RungOf[act[i].type] <= rung[act[i].debt] BY <1>a, <1>c, <2>1, <2>2
  <2>3. CASE /\ pc[W].at = "climb" /\ pc[W].row.debt = act[i].debt
             /\ pc[W].action = act[i].type
    <3>1. CASE pc'[W] = pc[W] BY <1>c, <2>3, <3>1
    <3>2. CASE pc'[W] # pc[W]
      <4>1. ~Abandon(W) BY <1>d, <2>3
      <4>2. Climb(W) BY <2>3, <3>2, <4>1, StepFrom
      <4>3. pc[W].row.rung \in Nat
        BY <2>3, PlaceFields, <1>a DEF CaseRows, AtRow
      <4>4. rung'[act[i].debt] = Climbed(act[i].type, pc[W].row.rung)
        BY <1>a, <2>1, <2>3, <4>2 DEF Climb
      <4>5. Climbed(act[i].type, pc[W].row.rung) >= RungOf[act[i].type]
        BY <2>1, <4>3 DEF Climbed
      <4> QED BY <1>c, <4>4, <4>5, <2>1, <1>a
    <3> QED BY <3>1, <3>2
  <2> QED BY <1>b, <2>2, <2>3
<1>1. CASE Used' = Used
  <2>1. \A i, j \in Used' \ R2 : SameKind(i, j)' => i = j
    BY <1>1, <1>b, <1>c DEF SameKind
  <2> QED BY <1>1, <1>d, <2>1 DEF RepeatsAre
<1>2. ASSUME NewId \in ActionIds \ Used, Used' = Used \cup {NewId}, Schedule(W),
             act'[NewId] = [status |-> "PENDING", debt |-> pc[W].row.debt,
                            type |-> pc[W].action, due |-> FALSE]
      PROVE  RepeatsAre(R2)'
  <2>a. PICK n : n = NewId OBVIOUS
  <2>1. /\ pc[W].at = "apply" /\ pc[W].action \notin Terminal
        /\ act'[n].debt = pc[W].row.debt /\ act'[n].type = pc[W].action
    BY <1>2, <2>a DEF Schedule
  <2>2. pc'[W].at = "climb" /\ pc'[W].row = pc[W].row /\ pc'[W].action = pc[W].action
    BY <1>2, <1>a DEF Schedule, Goto, Places
  <2>3. pc[W].row \in CaseRows /\ pc[W].action \in Actions
    BY <2>1, <1>a, PlaceFields DEF AtRow
  <2>4. RungOf[pc[W].action] > rung[pc[W].row.debt]
    BY <2>1 DEF DecidedAbove, RowsAreCurrent, AtRow
  <2>5. ASSUME NEW i \in Used \ R, act[i].debt = pc[W].row.debt, act[i].type = pc[W].action
        PROVE  FALSE
    <3>1. RungOf[act[i].type] <= rung[act[i].debt] BY <1>b, <2>1
    <3>2. RungOf[act[i].type] \in Nat /\ rung[act[i].debt] \in Nat BY RungTypes
    <3> QED BY <2>4, <2>5, <3>1, <3>2
  <2>6. \A i, j \in Used' \ R2 : SameKind(i, j)' => i = j
    BY <1>2, <1>b, <1>c, <2>a, <2>1, <2>5 DEF SameKind
  <2>7. \A i \in Used' \ R2 : \/ RungOf[act'[i].type] <= rung'[act'[i].debt]
                              \/ /\ pc'[W].at = "climb" /\ pc'[W].row.debt = act'[i].debt
                                 /\ pc'[W].action = act'[i].type
    BY <1>2, <1>d, <2>a, <2>1, <2>2
  <2> QED BY <1>c, <2>6, <2>7 DEF RepeatsAre
<1> QED BY <1>1, <1>2, RowsStep

LEMMA RepeatsNext ==
  ASSUME NEW W, Passes = {W}, OnePass, [Next]_vars, NEW R, RepeatsAre(R)
  PROVE  \E R2 : R \subseteq R2 /\ RepeatsAre(R2)'
<1>a. /\ R \subseteq Used /\ IsFiniteSet(R) /\ Cardinality(R) <= faults /\ Cardinality(R) \in Nat
      /\ faults \in Nat /\ faults' \in Nat /\ faults <= faults'
  BY FaultsStep, FS_CardinalityType DEF RepeatsAre, OnePass
<1>1. CASE \E i \in Used \ R : /\ Abandon(W) /\ pc[W].at = "climb"
                               /\ pc[W].row.debt = act[i].debt /\ pc[W].action = act[i].type
  <2>1. PICK i \in Used \ R : /\ Abandon(W) /\ pc[W].at = "climb"
                              /\ pc[W].row.debt = act[i].debt /\ pc[W].action = act[i].type
    BY <1>1
  <2>2. faults' = faults + 1 BY <2>1 DEF Abandon
  <2>3. IsFiniteSet(R \cup {i}) /\ Cardinality(R \cup {i}) \in Nat
        /\ Cardinality(R \cup {i}) <= Cardinality(R) + 1
    BY <1>a, OneMore
  <2>4. ASSUME NEW j \in Used, pc[W].row.debt = act[j].debt, pc[W].action = act[j].type
        PROVE  j \in R \cup {i}
    BY <2>1, <2>4 DEF RepeatsAre, SameKind
  <2>5. R \cup {i} \subseteq Used BY <1>a
  <2>6. Cardinality(R \cup {i}) <= faults' BY <1>a, <2>2, <2>3
  <2>7. RepeatsAre(R \cup {i})' BY <2>3, <2>4, <2>5, <2>6, RepeatsKept
  <2> QED BY <2>7
<1>2. CASE ~\E i \in Used \ R : /\ Abandon(W) /\ pc[W].at = "climb"
                                /\ pc[W].row.debt = act[i].debt /\ pc[W].action = act[i].type
  <2>1. Cardinality(R) <= faults' BY <1>a
  <2>2. RepeatsAre(R)' BY <1>2, <1>a, <2>1, RepeatsKept
  <2> QED BY <2>2
<1> QED BY <1>1, <1>2

(* Of two actions of a kind either may be taken for the repeat.            *)
LEMMA RepeatsSwap ==
  ASSUME NEW R, RepeatsAre(R), NEW i \in Used \ R, NEW j \in R, SameKind(i, j)
  PROVE  RepeatsAre((R \ {j}) \cup {i})
<1> DEFINE S == (R \ {j}) \cup {i}
<1>1. IsFiniteSet(R) /\ R \subseteq Used /\ Cardinality(R) <= faults BY DEF RepeatsAre
<1>2. /\ IsFiniteSet(R \ {j}) /\ Cardinality(R \ {j}) = Cardinality(R) - 1
      /\ IsFiniteSet(S) /\ Cardinality(S) = Cardinality(R \ {j}) + 1
      /\ Cardinality(R) \in Nat
  <2>1. IsFiniteSet(R \ {j}) /\ Cardinality(R \ {j}) = Cardinality(R) - 1
    BY <1>1, FS_RemoveElement
  <2>2. i \notin R \ {j} OBVIOUS
  <2>3. IsFiniteSet(S) /\ Cardinality(S) = Cardinality(R \ {j}) + 1
    BY <2>1, <2>2, FS_AddElement
  <2> QED BY <1>1, <2>1, <2>3, FS_CardinalityType
<1>3. S \subseteq Used /\ Cardinality(S) <= faults BY <1>1, <1>2
<1>4. \A k \in Used \ S : k = j \/ k \in Used \ R OBVIOUS
<1>5. \A k \in Used \ R : SameKind(k, j) => k = i
  BY DEF RepeatsAre, SameKind
<1>6. \A k, l \in Used \ S : SameKind(k, l) => k = l
  BY <1>4, <1>5 DEF RepeatsAre, SameKind
<1>7. \A k \in Used \ S :
        \/ RungOf[act[k].type] <= rung[act[k].debt]
        \/ \E w \in Passes : /\ pc[w].at = "climb" /\ pc[w].row.debt = act[k].debt
                             /\ pc[w].action = act[k].type
  BY <1>4 DEF RepeatsAre, SameKind
<1> HIDE DEF S
<1>8. RepeatsAre(S) BY <1>2, <1>3, <1>6, <1>7 DEF RepeatsAre
<1> QED BY <1>8 DEF S

(* No pass sends a message for a spent action again.                       *)
LEMMA SpentStep ==
  ASSUME TypeInv, [Next]_vars, NEW i \in Used, Spent(i)
  PROVE  Spent(i)'
<1>1. act'[i].status # "PENDING" BY RowsStep DEF Spent
<1>2. ASSUME NEW w \in Passes PROVE i \notin queue'[w]
  BY QueueStep DEF Spent
<1>3. ASSUME NEW w \in Passes, pc'[w].at \in ToSend PROVE pc'[w].id # i
  <2>1. pc'[w].at \in AtId BY <1>3 DEF ToSend, ToMint, AtId
  <2>2. CASE Stays(w) BY <1>3, <2>2 DEF Stays, Spent
  <2>3. CASE TakesUp(w) BY <2>3 DEF TakesUp, Spent
  <2>4. CASE Advances(w)
    <3>1. pc[w].at \in ToSend /\ pc'[w].id = pc[w].id
      BY <1>3, <2>4, UpstreamPlaces DEF Advances, Upstream
    <3> QED BY <3>1 DEF Spent
  <2> QED BY <2>1, <2>2, <2>3, <2>4, HandStep
<1> QED BY <1>1, <1>2, <1>3 DEF Spent

(* An action is spent once its message is sent, or known not to be.        *)
LEMMA HandIsSpent ==
  ASSUME NEW W, Passes = {W}, TypeInv, HandsMoveOn, [Next]_vars, NEW i,
         pc[W].at \in AtId \ {"cleared"}, pc[W].id = i,
         pc'[W].at \in AtId \ ToSend, pc'[W].id = i
  PROVE  Spent(i)'
<1>1. i \in Used /\ act[i].status # "PENDING" /\ i \notin queue[W]
  BY HandIsRow DEF HandsMoveOn
<1>2. act'[i].status # "PENDING" BY <1>1, RowsStep
<1>3. queue'[W] \subseteq queue[W] BY QueueStep DEF AtId
<1> QED BY <1>1, <1>2, <1>3 DEF Spent

LEMMA MakerStep ==
  ASSUME TypeInv, [Next]_vars, NEW D, NEW d, NEW a, Maker(D, d, a)
  PROVE  Maker(D, d, a)'
<1>1. PICK j \in Used \ D : Spent(j) /\ act[j].debt = d /\ act[j].type = a BY DEF Maker
<1>2. j \in Used' /\ act'[j].debt = d /\ act'[j].type = a BY <1>1, RowsStep
<1>3. Spent(j)' BY <1>1, SpentStep
<1> QED BY <1>1, <1>2, <1>3 DEF Maker

(* A message with a dry run's link makes the action that sends it a dupe:  *)
(* the link was made by another of its kind, which is over.                *)
LEMMA DudSent ==
  ASSUME NEW W, Passes = {W}, OnePass, [Next]_vars, NEW R, NEW D, RepeatsAre(R),
         D \subseteq R, DupesAre(D), NEW i, pc[W].at = "sending", pc[W].stub, pc[W].id = i,
         Send(W), pc'[W].at = "recording", pc'[W].id = i
  PROVE  /\ i \notin D /\ DupesAre(D \cup {i})'
         /\ \E R2 : RepeatsAre(R2) /\ D \cup {i} \subseteq R2
<1> USE DEF OnePass
<1>a. i \in Used BY HandIsRow DEF AtId
<1>b. ~Spent(i) BY DEF Spent, ToSend
<1>c. D \subseteq Used BY DEF RepeatsAre
<1>1. i \notin D BY <1>b DEF DupesAre
<1>2. Spent(i)' BY HandIsSpent DEF AtId, ToSend, ToMint
<1>3. \A k \in D \cup {i} : Spent(k)' BY <1>2, <1>c, SpentStep DEF DupesAre
<1>4. ASSUME NEW d, NEW a, Maker(D, d, a) PROVE Maker(D \cup {i}, d, a)
  BY <1>4, <1>b DEF Maker
<1>5. DupesAre(D \cup {i})'
  <2>1. UNCHANGED links BY DEF Send, store
  <2>2. \A l \in links' : l[3] => Maker(D \cup {i}, l[1], l[2])'
    BY <1>4, <2>1, MakerStep DEF DupesAre
  <2>3. \A w \in Passes : pc'[w].at # "sending" OBVIOUS
  <2> QED BY <1>3, <2>2, <2>3 DEF DupesAre
<1>6. PICK j \in Used \ D : Spent(j) /\ SameKind(i, j)
  BY DEF DupesAre, Maker, SameKind
<1>7. \E R2 : RepeatsAre(R2) /\ D \cup {i} \subseteq R2
  <2>a. CASE i \in R BY <2>a
  <2>b. CASE i \notin R
    <3>1. j \in R BY <1>6, <2>b, <1>a, <1>b DEF RepeatsAre
    <3>2. RepeatsAre((R \ {j}) \cup {i}) BY <1>6, <2>b, <1>a, <3>1, RepeatsSwap
    <3>3. D \cup {i} \subseteq (R \ {j}) \cup {i} BY <1>6
    <3> QED BY <3>2, <3>3
  <2> QED BY <2>a, <2>b
<1> QED BY <1>1, <1>5, <1>7

(* Any other step leaves the dupes what they are.                          *)
LEMMA DupesKept ==
  ASSUME NEW W, Passes = {W}, OnePass, [Next]_vars, NEW D, D \subseteq Used, DupesAre(D)
  PROVE  DupesAre(D)'
<1> USE DEF OnePass
<1>a. pc \in [Passes -> Places] /\ W \in Passes BY DEF TypeInv, TypeOK
<1>1. \A k \in D : Spent(k)' BY SpentStep DEF DupesAre
<1>2. ASSUME NEW l \in links', l[3] PROVE Maker(D, l[1], l[2])'
  <2>1. CASE l \in links BY <1>2, <2>1, MakerStep DEF DupesAre
  <2>2. CASE l \notin links
    <3>1. Mint(W)
      <4>1. ~Settling BY <2>2 DEF Settling, SettleWebhook, Ledger, Settle
      <4> QED BY <1>2, <2>2, <4>1, Writers
    <3>2. PICK i : i = pc[W].id OBVIOUS
    <3>3. /\ pc[W].at = "minting" /\ l = <<act[i].debt, act[i].type, held[W].port = "dry_run">>
          /\ WithLink(W, held[W].port = "dry_run") /\ UNCHANGED act
      BY <2>2, <3>1, <3>2 DEF Mint
    <3>4. held[W].port = "dry_run" BY <1>2, <3>3
    <3>5. pc'[W].at = "closing" /\ pc'[W].id = i
      BY <1>a, <3>2, <3>3, <3>4 DEF WithLink, Goto
    <3>6. Spent(i)' /\ i \in Used
      BY <3>2, <3>3, <3>5, HandIsSpent, HandIsRow DEF AtId, ToSend, ToMint
    <3>7. i \notin D BY <3>2, <3>3 DEF DupesAre, Spent, ToSend, ToMint
    <3>8. i \in Used' BY <3>6, RowsStep
    <3>9. l[1] = act'[i].debt /\ l[2] = act'[i].type BY <3>3
    <3> QED BY <3>6, <3>7, <3>8, <3>9 DEF Maker
  <2> QED BY <2>1, <2>2
<1>3. ASSUME pc'[W].at = "sending", pc'[W].stub
      PROVE  Maker(D, act[pc[W].id].debt, act[pc[W].id].type)'
  <2>1. PICK i : i = pc'[W].id OBVIOUS
  <2>2. Stays(W) \/ Advances(W) BY <1>3, HandStep DEF AtId, TakesUp
  <2>3. pc[W].at \in AtId /\ pc[W].id = i
    BY <1>3, <2>1, <2>2 DEF Stays, Advances, AtId
  <2>4. i \in Used /\ act'[i].debt = act[i].debt /\ act'[i].type = act[i].type
    BY <2>3, HandIsRow, RowsStep
  <2>5. Maker(D, act[i].debt, act[i].type)
    <3>1. CASE Stays(W) BY <1>3, <2>3, <3>1 DEF Stays, DupesAre
    <3>2. CASE Advances(W)
      <4>1. pc[W].at \in {"calling", "minting"} BY <1>3, <3>2 DEF Advances, Forward
      <4>2. ~Abandon(W) /\ ~CallSandbox(W) /\ ~MintFails(W)
        BY <1>3, <1>a DEF Abandon, CallSandbox, MintFails, Goto
      <4>3. pc'[W] # pc[W] BY <1>3, <4>1
      <4>4. FindLink(W) \/ Mint(W) BY <4>1, <4>2, <4>3, StepFrom
      <4>5. ASSUME NEW stub, WithLink(W, stub) PROVE stub /\ held[W].port # "dry_run"
        BY <1>3, <1>a, <4>5 DEF WithLink, Goto
      <4>6. ~Mint(W) BY <4>5 DEF Mint
      <4>7. \E l \in links : l[1] = act[i].debt /\ l[2] = act[i].type /\ WithLink(W, l[3])
        <5>1. ASSUME NEW p, Goto(W, p) PROVE p = pc'[W] BY <1>a, <5>1 DEF Goto
        <5>2. ~Goto(W, [at |-> "closing", id |-> i, ok |-> FALSE])
              /\ ~Goto(W, [at |-> "minting", id |-> i])
          BY <1>3, <5>1
        <5> QED BY <2>3, <4>4, <4>6, <5>2 DEF FindLink
      <4> QED BY <4>5, <4>7 DEF DupesAre
    <3> QED BY <2>2, <3>1, <3>2
  <2>6. PICK d, a : d = act'[i].debt /\ a = act'[i].type OBVIOUS
  <2>7. Maker(D, d, a)' BY <2>4, <2>5, <2>6, MakerStep
  <2> QED BY <2>1, <2>6, <2>7
<1> QED BY <1>1, <1>2, <1>3 DEF DupesAre

LEMMA RepeatsByFaultNext ==
  ASSUME NEW W, Passes = {W}, OnePass, [Next]_vars, RepeatsByFault
  PROVE  RepeatsByFault'
<1> USE DEF OnePass
<1>1. PICK R, D : /\ R \subseteq Used /\ RepeatsAre(R) /\ D \subseteq R /\ DupesAre(D)
                  /\ duds <= Cardinality(D)
  BY DEF RepeatsByFault
<1>a. /\ IsFiniteSet(D) /\ Cardinality(D) \in Nat /\ D \subseteq Used /\ duds \in Nat
      /\ pc \in [Passes -> Places] /\ W \in Passes
  <2>1. IsFiniteSet(D) BY <1>1, FS_Subset DEF RepeatsAre
  <2> QED BY <1>1, <2>1, FS_CardinalityType DEF TypeInv, TypeOK
<1>2. \E R2, D2 : /\ RepeatsAre(R2) /\ D2 \subseteq R2 /\ DupesAre(D2)'
                  /\ duds' <= Cardinality(D2)
  <2>1. CASE duds' = duds
    <3>1. DupesAre(D)' BY <1>1, <1>a, DupesKept
    <3> QED BY <1>1, <2>1, <3>1
  <2>2. CASE duds' # duds
    <3>1. Send(W) BY <2>2, Writers DEF hist
    <3>2. PICK i : i = pc[W].id OBVIOUS
    <3>3. /\ pc[W].at = "sending" /\ pc[W].stub /\ duds' = duds + 1
          /\ pc'[W].at = "recording" /\ pc'[W].id = i
      BY <2>2, <3>1, <3>2, <1>a DEF Send, Goto
    <3>4. /\ i \notin D /\ DupesAre(D \cup {i})'
          /\ \E R2 : RepeatsAre(R2) /\ D \cup {i} \subseteq R2
      BY <1>1, <3>1, <3>2, <3>3, DudSent
    <3>5. Cardinality(D \cup {i}) = Cardinality(D) + 1 BY <1>a, <3>4, FS_AddElement
    <3>6. duds' <= Cardinality(D \cup {i}) BY <1>1, <1>a, <3>3, <3>5
    <3> QED BY <3>4, <3>6
  <2> QED BY <2>1, <2>2
<1>3. PICK R2, D2 : /\ RepeatsAre(R2) /\ D2 \subseteq R2 /\ DupesAre(D2)'
                    /\ duds' <= Cardinality(D2)
  BY <1>2
<1>4. PICK R3 : R2 \subseteq R3 /\ RepeatsAre(R3)' BY <1>3, RepeatsNext
<1>5. R3 \subseteq Used' /\ D2 \subseteq R3 BY <1>3, <1>4 DEF RepeatsAre
<1> QED BY <1>3, <1>4, <1>5 DEF RepeatsByFault

LEMMA RepeatsByFaultInit ==
  ASSUME Init PROVE RepeatsByFault
<1>1. Used = {} BY DEF Init, Used
<1>2. IsFiniteSet({}) /\ Cardinality({}) = 0 BY FS_EmptySet
<1>3. RepeatsAre({}) BY <1>1, <1>2 DEF Init, RepeatsAre
<1>4. DupesAre({}) /\ duds <= Cardinality({}) BY <1>2 DEF Init, DupesAre
<1> QED BY <1>1, <1>3, <1>4 DEF RepeatsByFault

LEMMA RepeatsAlwaysByFault ==
  ASSUME NEW W, Passes = {W}
  PROVE  Spec => [](OnePass /\ RepeatsByFault)
<1> DEFINE I == OnePass /\ RepeatsByFault
<1>1. Init => I BY OnePassInit, RepeatsByFaultInit
<1>2. I /\ [Next]_vars => I' BY OnePassNext, RepeatsByFaultNext
<1> HIDE DEF I
<1>3. Spec => []I BY <1>1, <1>2, PTL DEF Spec
<1> QED BY <1>3 DEF I

(* One pass at a time never schedules an action of a kind again for a      *)
(* debt, but for one repeat for each time it is cut short between the      *)
(* commit of the action and the commit of the rung.                        *)
THEOREM OneActionPerRungAlways ==
  ASSUME NEW W, Passes = {W}
  PROVE  Spec => []OneActionPerRung
<1> DEFINE I == OnePass /\ RepeatsByFault
<1>1. Spec => []I BY RepeatsAlwaysByFault
<1>2. I => OneActionPerRung
  <2> SUFFICES ASSUME I, NEW d \in Debts, NEW a \in Actions
               PROVE  Cardinality({i \in Used : act[i].debt = d /\ act[i].type = a})
                        <= 1 + faults
    BY DEF OneActionPerRung
  <2> DEFINE K == {i \in Used : act[i].debt = d /\ act[i].type = a}
  <2>1. PICK R : R \subseteq Used /\ RepeatsAre(R) BY DEF RepeatsByFault
  <2>2. PICK x : K \subseteq R \cup {x}
    <3>1. CASE K \subseteq R BY <3>1
    <3>2. CASE ~(K \subseteq R)
      <4>1. PICK x \in K : x \notin R BY <3>2
      <4>2. \A y \in K : y \notin R => y = x BY <2>1, <4>1 DEF RepeatsAre, SameKind
      <4>3. K \subseteq R \cup {x} BY <4>2
      <4> QED BY <4>3
    <3> QED BY <3>1, <3>2
  <2>3. IsFiniteSet(R) /\ Cardinality(R) <= faults BY <2>1 DEF RepeatsAre
  <2> HIDE DEF K
  <2>4. /\ Cardinality(K) <= Cardinality(R) + 1 /\ Cardinality(K) \in Nat
        /\ Cardinality(R) \in Nat
    BY <2>2, <2>3, OneMore
  <2>5. faults \in Nat BY LiveAssumption DEF OnePass, TypeInv, TypeOK
  <2>6. Cardinality(K) <= 1 + faults BY <2>3, <2>4, <2>5
  <2> QED BY <2>6 DEF K
<1> HIDE DEF I
<1> QED BY <1>1, <1>2, PTL

(* No customer is sent the stub link of a dry run, but for one message for *)
(* each time a pass was cut short between those same two commits.          *)
THEOREM StubAlwaysSentOnlyByFault ==
  ASSUME NEW W, Passes = {W}
  PROVE  Spec => []StubSentOnlyByFault
<1> DEFINE I == OnePass /\ RepeatsByFault
<1>1. Spec => []I BY RepeatsAlwaysByFault
<1>2. I => StubSentOnlyByFault
  <2> SUFFICES ASSUME I PROVE duds <= faults BY DEF StubSentOnlyByFault
  <2>1. PICK R, D : RepeatsAre(R) /\ D \subseteq R /\ duds <= Cardinality(D)
    BY DEF RepeatsByFault
  <2>2. IsFiniteSet(R) /\ Cardinality(R) <= faults BY <2>1 DEF RepeatsAre
  <2>3. /\ Cardinality(D) <= Cardinality(R)
        /\ Cardinality(D) \in Nat /\ Cardinality(R) \in Nat
    BY <2>1, <2>2, FS_Subset, FS_CardinalityType
  <2>4. duds \in Nat /\ faults \in Nat BY LiveAssumption DEF OnePass, TypeInv, TypeOK
  <2> QED BY <2>1, <2>2, <2>3, <2>4
<1> HIDE DEF I
<1> QED BY <1>1, <1>2, PTL

-----------------------------------------------------------------------------
(* The promises of RecoveryCase.                                           *)

LEMMA HighestOf ==
  ASSUME NEW S, S \subseteq 0..6, S # {}
  PROVE  Highest(S) \in S /\ \A q \in S : q <= Highest(S)
<1>1. \E r \in S : \A q \in S : q <= r
  <2>1. \A q \in S : q \in {0, 1, 2, 3, 4, 5, 6} OBVIOUS
  <2>2. CASE 6 \in S BY <2>1, <2>2
  <2>3. CASE 6 \notin S /\ 5 \in S BY <2>1, <2>3
  <2>4. CASE {5, 6} \cap S = {} /\ 4 \in S BY <2>1, <2>4
  <2>5. CASE {4, 5, 6} \cap S = {} /\ 3 \in S BY <2>1, <2>5
  <2>6. CASE {3, 4, 5, 6} \cap S = {} /\ 2 \in S BY <2>1, <2>6
  <2>7. CASE {2, 3, 4, 5, 6} \cap S = {} /\ 1 \in S BY <2>1, <2>7
  <2>8. CASE {1, 2, 3, 4, 5, 6} \cap S = {}
    <3>1. S = {0} BY <2>1, <2>8
    <3> QED BY <3>1
  <2> QED BY <2>2, <2>3, <2>4, <2>5, <2>6, <2>7, <2>8
<1> QED BY <1>1 DEF Highest

(* Where no action is scheduled none begins, and the rungs stay the same.  *)
LEMMA NothingBegins ==
  ASSUME TypeInv, [Next]_vars, NEW d, ActionsOf(d)' \subseteq Used
  PROVE  /\ ActionsOf(d)' = ActionsOf(d) /\ TopRung(d)' = TopRung(d) /\ Begun(d)' = Begun(d)
         /\ Busy(d)' => Busy(d)
<1>a. /\ \A i \in Used : /\ i \in Used' /\ act'[i].debt = act[i].debt
                         /\ act'[i].type = act[i].type
  BY RowsStep
<1>1. ActionsOf(d)' = ActionsOf(d) BY <1>a DEF ActionsOf
<1>2. TopRung(d)' = TopRung(d)
  <2>1. {RungOf[act'[i].type] : i \in ActionsOf(d)'} = {RungOf[act[i].type] : i \in ActionsOf(d)}
    BY <1>1, <1>a DEF ActionsOf
  <2> QED BY <2>1 DEF TopRung
<1>3. Begun(d)' = Begun(d) BY <1>1 DEF Begun
<1>4. ASSUME NEW i \in ActionsOf(d)',
             act'[i].status \in LiveStatus \/ \E w \in Passes : i \in HandOf(w)'
      PROVE  act[i].status \in LiveStatus \/ \E w \in Passes : i \in HandOf(w)
  <2>a. i \in Used BY <1>1 DEF ActionsOf
  <2>1. CASE act'[i].status \in LiveStatus BY <2>1, <2>a, ComesAlive DEF HandOf
  <2>2. CASE \E w \in Passes : i \in HandOf(w)'
    <3>1. PICK w \in Passes : i \in HandOf(w)' BY <2>2
    <3>2. CASE i \in queue'[w] BY <3>2, QueueStep DEF HandOf, LiveStatus
    <3>3. CASE pc'[w].at \in AtId /\ pc'[w].id = i
      BY <3>3, HandStep DEF Stays, TakesUp, Advances, HandOf, AtId
    <3> QED BY <3>1, <3>2, <3>3 DEF HandOf
  <2> QED BY <1>4, <2>1, <2>2
<1>5. Busy(d)' => Busy(d) BY <1>1, <1>4 DEF Busy
<1> QED BY <1>1, <1>2, <1>3, <1>5

LEMMA SpentCounts ==
  ASSUME NEW W, Passes = {W}, OnePass, [Next]_vars, IsFiniteSet(Used), SentBySpent
  PROVE  IsFiniteSet(Used') /\ SentBySpent'
<1> USE DEF OnePass
<1>1. IsFiniteSet(Used')
  <2>1. IsFiniteSet(Used \cup {NewId}) BY FS_AddElement
  <2> QED BY <2>1, RowsStep
<1>2. ASSUME NEW d \in Debts
      PROVE  sent'[d] <= Cardinality({i \in ActionsOf(d) : Spent(i)}')
  <2> DEFINE K == {i \in ActionsOf(d) : Spent(i)}
  <2>1. K \subseteq K'
    <3>1. ASSUME NEW i \in K PROVE i \in ActionsOf(d)' /\ Spent(i)'
      BY <3>1, RowsStep, SpentStep DEF ActionsOf
    <3> QED BY <3>1
  <2>2. K \subseteq Used /\ K' \subseteq Used' BY DEF ActionsOf
  <2>3. \A i \in K : Spent(i) OBVIOUS
  <2>4. \A i \in Used' : act'[i].debt = d /\ Spent(i)' => i \in K' BY DEF ActionsOf
  <2>5. sent[d] <= Cardinality(K) BY DEF SentBySpent
  <2> HIDE DEF K
  <2>6. /\ IsFiniteSet(K) /\ IsFiniteSet(K') /\ Cardinality(K) <= Cardinality(K')
        /\ Cardinality(K) \in Nat /\ Cardinality(K') \in Nat /\ sent[d] \in Nat
    <3>1. IsFiniteSet(K) /\ IsFiniteSet(K') BY <1>1, <2>2, FS_Subset
    <3>2. sent[d] \in Nat BY DEF TypeInv, TypeOK
    <3> QED BY <2>1, <3>1, <3>2, FS_Subset, FS_CardinalityType
  <2>7. sent'[d] <= Cardinality(K')
    <3>a. CASE sent'[d] = sent[d] BY <2>5, <2>6, <3>a
    <3>b. CASE sent'[d] # sent[d]
      <4>1. /\ Send(W) /\ On(W, d, {"sending"}) /\ pc'[W].at = "recording"
            /\ sent'[d] = sent[d] + 1 /\ UNCHANGED act
        BY <3>b, SendStep
      <4>2. PICK i : i = pc[W].id OBVIOUS
      <4>3. pc[W].at = "sending" /\ act[i].debt = d BY <4>1, <4>2 DEF On
      <4>4. pc'[W].id = i
        BY <4>1, <4>2, <4>3, HandStep DEF AtId, Stays, TakesUp, Advances
      <4>5. i \in Used /\ Spent(i)'
        BY <4>1, <4>2, <4>3, <4>4, HandIsSpent, HandIsRow DEF AtId, ToSend, ToMint
      <4>6. i \notin K BY <2>3, <4>2, <4>3 DEF Spent, ToSend
      <4>7. i \in Used' /\ act'[i].debt = d BY <4>3, <4>5, RowsStep
      <4>8. K \cup {i} \subseteq K' BY <2>1, <2>4, <4>5, <4>7
      <4>9. IsFiniteSet(K \cup {i}) /\ Cardinality(K \cup {i}) = Cardinality(K) + 1
        BY <2>6, <4>6, FS_AddElement
      <4>10. Cardinality(K \cup {i}) <= Cardinality(K') BY <2>6, <4>8, FS_Subset
      <4> QED BY <2>5, <2>6, <4>1, <4>9, <4>10
    <3> QED BY <3>a, <3>b
  <2> QED BY <2>7 DEF K
<1> QED BY <1>1, <1>2 DEF SentBySpent

(* The steps of RecoveryCase, from what a step does to one debt and leaves *)
(* of all others.                                                          *)
LEMMA EndStep ==
  ASSUME UNCHANGED <<case, sent>>,
         \A d \in Debts : /\ TopRung(d)' = TopRung(d) /\ Begun(d)' = Begun(d)
                          /\ Busy(d)' => Busy(d)
  PROVE  Case!Next
<1> DEFINE ds == {d \in Debts : Busy(d) /\ ~Busy(d)'}
           b == [d \in Debts |-> Busy(d)]
<1>1. \A d \in ds : b[d] OBVIOUS
<1>2. [d \in Debts |-> Busy(d)'] = [d \in Debts |-> b[d] /\ d \notin ds]
  <2>1. ASSUME NEW d \in Debts PROVE Busy(d)' = (b[d] /\ d \notin ds)
    <3>1. Busy(d) \in BOOLEAN /\ Busy(d)' \in BOOLEAN BY DEF Busy
    <3>2. CASE Busy(d)' BY <3>1, <3>2
    <3>3. CASE ~Busy(d)' BY <3>1, <3>3
    <3> QED BY <3>2, <3>3
  <2> HIDE DEF ds, b
  <2> QED BY <2>1, Zenon
<1>3. UNCHANGED <<[d \in Debts |-> TopRung(d)], [d \in Debts |-> Begun(d)]>> OBVIOUS
<1>4. ds \in SUBSET Debts OBVIOUS
<1> HIDE DEF ds
<1>5. Case!End(ds) BY <1>1, <1>2, <1>3 DEF Case!End
<1> QED BY <1>4, <1>5 DEF Case!Next

SameFor(d) == TopRung(d)' = TopRung(d) /\ Begun(d)' = Begun(d) /\ Busy(d)' = Busy(d)

LEMMA SameForAll ==
  ASSUME \A d \in Debts : SameFor(d)
  PROVE  UNCHANGED <<[d \in Debts |-> TopRung(d)], [d \in Debts |-> Begun(d)],
                     [d \in Debts |-> Busy(d)]>>
BY DEF SameFor

LEMMA OpenStep ==
  ASSUME NEW d \in Debts, case[d] = "none", case' = [case EXCEPT ![d] = "OPEN"],
         UNCHANGED sent, \A e \in Debts : SameFor(e)
  PROVE  Case!Next
<1>1. Case!Open(d) BY SameForAll DEF Case!Open
<1> QED BY <1>1 DEF Case!Next

LEMMA GiveUpStep ==
  ASSUME NEW d \in Debts, case[d] # "none", ~Busy(d),
         NEW s \in {"WRITTEN_OFF", "ESCALATED"}, case' = [case EXCEPT ![d] = s],
         UNCHANGED sent, \A e \in Debts : SameFor(e)
  PROVE  Case!Next
<1>1. Case!GiveUp(d) BY SameForAll DEF Case!GiveUp
<1> QED BY <1>1 DEF Case!Next

LEMMA TellStep ==
  ASSUME NEW d \in Debts, Busy(d), sent[d] < Begun(d), sent' = [sent EXCEPT ![d] = @ + 1],
         UNCHANGED case, \A e \in Debts : SameFor(e)
  PROVE  Case!Next
<1>1. Case!Tell(d) BY SameForAll DEF Case!Tell
<1> QED BY <1>1 DEF Case!Next

LEMMA PaidCloseStep ==
  ASSUME NEW d \in Debts, case[d] = "OPEN", NEW s \in {"RECOVERED", "SELF_RECOVERED"},
         case' = [case EXCEPT ![d] = s], UNCHANGED sent,
         TopRung(d)' = TopRung(d), Begun(d)' = Begun(d), Busy(d)' => Busy(d),
         \A e \in Debts \ {d} : SameFor(e)
  PROVE  Case!Next
<1> DEFINE b == [e \in Debts |-> Busy(e)]
<1>1. UNCHANGED <<[e \in Debts |-> TopRung(e)], [e \in Debts |-> Begun(e)]>>
  BY DEF SameFor
<1>2. PICK x \in BOOLEAN : x = Busy(d)' BY DEF Busy
<1>3. [e \in Debts |-> Busy(e)'] = [b EXCEPT ![d] = x]
  BY <1>2 DEF SameFor
<1>4. x => b[d] BY <1>2
<1>5. Case!PaidClose(d) BY <1>1, <1>3, <1>4 DEF Case!PaidClose
<1> QED BY <1>5 DEF Case!Next

LEMMA BeginStep ==
  ASSUME NEW d \in Debts, case[d] # "none", ~Busy(d), Busy(d)',
         NEW r \in 0..6, r > TopRung(d), TopRung(d)' = r, Begun(d)' = Begun(d) + 1,
         UNCHANGED <<case, sent>>, \A e \in Debts \ {d} : SameFor(e)
  PROVE  Case!Next
<1> DEFINE b == [e \in Debts |-> Busy(e)]
           l == [e \in Debts |-> TopRung(e)]
           n == [e \in Debts |-> Begun(e)]
<1>1. [e \in Debts |-> TopRung(e)'] = [l EXCEPT ![d] = r] BY DEF SameFor
<1>2. [e \in Debts |-> Begun(e)'] = [n EXCEPT ![d] = @ + 1] BY DEF SameFor
<1>3. [e \in Debts |-> Busy(e)'] = [b EXCEPT ![d] = TRUE]
  <2>1. Busy(d)' = TRUE BY DEF Busy
  <2> QED BY <2>1 DEF SameFor
<1>4. r > l[d] OBVIOUS
<1>5. Case!Begin(d) BY <1>1, <1>2, <1>3, <1>4 DEF Case!Begin
<1> QED BY <1>5 DEF Case!Next

LEMMA StaysTheSame ==
  ASSUME TypeInv, [Next]_vars, NEW d, ActionsOf(d)' \subseteq Used,
         \A i \in ActionsOf(d) : act'[i] = act[i],
         \A w \in Passes : HandOf(w) \subseteq HandOf(w)'
  PROVE  SameFor(d)
<1>1. /\ ActionsOf(d)' = ActionsOf(d) /\ TopRung(d)' = TopRung(d) /\ Begun(d)' = Begun(d)
      /\ Busy(d)' => Busy(d)
  BY NothingBegins
<1>2. ASSUME Busy(d) PROVE Busy(d)'
  <2>1. PICK i \in ActionsOf(d) : \/ act[i].status \in LiveStatus
                                  \/ \E w \in Passes : i \in HandOf(w)
    BY <1>2 DEF Busy
  <2>2. act'[i].status \in LiveStatus \/ \E w \in Passes : i \in HandOf(w)' BY <2>1
  <2> QED BY <1>1, <2>1, <2>2 DEF Busy
<1>3. Busy(d)' = Busy(d)
  <2>1. Busy(d) \in BOOLEAN /\ Busy(d)' \in BOOLEAN BY DEF Busy
  <2> QED BY <1>1, <1>2, <2>1
<1> QED BY <1>1, <1>3 DEF SameFor

(* A case that is about to be acted on is at rest.                         *)
LEMMA ApplyIsQuiet ==
  ASSUME NEW W, Passes = {W}, OnePass, pc[W].at = "apply"
  PROVE  /\ HandOf(W) = {} /\ ~Busy(pc[W].row.debt) /\ case[pc[W].row.debt] # "none"
         /\ pc[W].row.debt \in Debts /\ pc[W].action \in Actions
<1> USE DEF OnePass
<1>1. HandOf(W) = {} BY DEF TypeInv, Hands, HandOf, AtId
<1>2. Live(pc[W].row.debt) = {} BY DEF Alone, RowsAreFree
<1>3. ~Busy(pc[W].row.debt) BY <1>1, <1>2 DEF Busy, ActionsOf, Live
<1>4. case[pc[W].row.debt] # "none" BY DEF Books, AtRow
<1>5. pc[W].row.debt \in Debts /\ pc[W].action \in Actions
  BY PlaceFields DEF TypeInv, TypeOK, AtRow, CaseRows
<1> QED BY <1>1, <1>3, <1>4, <1>5

(* Without a fault there is no repeat: what is scheduled is above all that *)
(* was.                                                                    *)
LEMMA ScheduledAbove ==
  ASSUME NEW W, Passes = {W}, OnePass, RepeatsByFault, MaxFaults = 0,
         pc[W].at = "apply", pc[W].action \notin Terminal
  PROVE  \A i \in ActionsOf(pc[W].row.debt) : RungOf[act[i].type] < RungOf[pc[W].action]
<1> USE DEF OnePass
<1>1. PICK R : R \subseteq Used /\ RepeatsAre(R) BY DEF RepeatsByFault
<1>2. R = {}
  <2>1. faults = 0 BY DEF TypeInv, TypeOK
  <2>2. IsFiniteSet(R) /\ Cardinality(R) <= 0 BY <1>1, <2>1 DEF RepeatsAre
  <2>3. Cardinality(R) = 0 BY <2>2, FS_CardinalityType
  <2> QED BY <2>2, <2>3, FS_EmptySet
<1>3. RungOf[pc[W].action] > rung[pc[W].row.debt]
  BY DEF DecidedAbove, RowsAreCurrent, AtRow
<1>4. \A i \in Used : RungOf[act[i].type] <= rung[act[i].debt]
  BY <1>1, <1>2 DEF RepeatsAre
<1>5. /\ \A i \in Used : RungOf[act[i].type] \in Nat /\ rung[act[i].debt] \in Nat
      /\ RungOf[pc[W].action] \in Nat
  BY RungTypes, ApplyIsQuiet
<1> QED BY <1>3, <1>4, <1>5 DEF ActionsOf

LEMMA NewActionBegins ==
  ASSUME NEW W, Passes = {W}, OnePass, RepeatsByFault, MaxFaults = 0, IsFiniteSet(Used),
         [Next]_vars, Used' # Used
  PROVE  Case!Next
<1> USE DEF OnePass
<1>1. PICK n \in ActionIds \ Used :
        /\ Schedule(W) /\ n = NewId /\ Used' = Used \cup {n}
        /\ act'[n] = [status |-> "PENDING", debt |-> pc[W].row.debt,
                      type |-> pc[W].action, due |-> FALSE]
  BY RowsStep
<1>2. PICK d, a : d = pc[W].row.debt /\ a = pc[W].action OBVIOUS
<1>3. /\ pc[W].at = "apply" /\ a \notin Terminal
      /\ act'[n].status = "PENDING" /\ act'[n].debt = d /\ act'[n].type = a
      /\ UNCHANGED <<case, sent, queue>>
  BY <1>1, <1>2 DEF Schedule, hist
<1>4. /\ HandOf(W) = {} /\ ~Busy(d) /\ case[d] # "none" /\ d \in Debts /\ a \in Actions
  BY <1>2, <1>3, ApplyIsQuiet
<1>5. \A i \in Used : act'[i] = act[i]
  <2>1. \/ act' = act
        \/ \E r : act' = [act EXCEPT ![n] = r]
    BY <1>1 DEF Schedule
  <2> QED BY <1>1, <2>1, UsedRows DEF TypeInv, TypeOK
<1>6. ActionsOf(d)' = ActionsOf(d) \cup {n} BY <1>1, <1>3, <1>5 DEF ActionsOf
<1>7. Busy(d)' BY <1>3, <1>6 DEF Busy, LiveStatus
<1>8. Begun(d)' = Begun(d) + 1
  <2>1. IsFiniteSet(ActionsOf(d)) /\ n \notin ActionsOf(d) BY <1>1, FS_Subset DEF ActionsOf
  <2> QED BY <1>6, <2>1, FS_AddElement DEF Begun
<1>9. RungOf[a] \in 0..6 /\ RungOf[a] > TopRung(d) /\ TopRung(d)' = RungOf[a]
  <2> DEFINE S == {RungOf[act[i].type] : i \in ActionsOf(d)}
  <2>0. RungOf[a] \in 0..6 /\ RungOf[a] > 0
    <3>1. \A x \in Actions : RungOf[x] \in 0..6 BY DEF RungOf, Actions
    <3>2. RungOf[a] > rung[d]
      BY <1>2, <1>3 DEF DecidedAbove, RowsAreCurrent, AtRow
    <3>3. rung[d] \in Nat BY <1>4, RungTypes
    <3> QED BY <1>4, <3>1, <3>2, <3>3
  <2>1. \A q \in S : q < RungOf[a] /\ q \in Nat
    <3>1. \A i \in ActionsOf(d) : RungOf[act[i].type] < RungOf[a]
      BY <1>2, <1>3, ScheduledAbove
    <3>2. \A i \in ActionsOf(d) : RungOf[act[i].type] \in Nat BY RungTypes DEF ActionsOf
    <3> QED BY <3>1, <3>2
  <2>2. {RungOf[act'[i].type] : i \in ActionsOf(d)'} = S \cup {RungOf[a]}
    BY <1>3, <1>5, <1>6 DEF ActionsOf
  <2>3. TopRung(d) = Highest(S) /\ TopRung(d)' = Highest(S \cup {RungOf[a]})
    BY <2>2 DEF TopRung
  <2> HIDE DEF S
  <2>4. S \subseteq 0..6 BY <2>0, <2>1
  <2>5. RungOf[a] > Highest(S)
    <3>1. CASE S = {} BY <2>0, <3>1 DEF Highest
    <3>2. CASE S # {} BY <2>1, <2>4, <3>2, HighestOf
    <3> QED BY <3>1, <3>2
  <2>6. Highest(S \cup {RungOf[a]}) = RungOf[a]
    <3>1. PICK T : T = S \cup {RungOf[a]} OBVIOUS
    <3>2. T \subseteq 0..6 /\ T # {} /\ RungOf[a] \in T BY <2>0, <2>4, <3>1
    <3>3. Highest(T) \in T /\ RungOf[a] <= Highest(T) BY <3>2, HighestOf
    <3> QED BY <2>0, <2>1, <3>1, <3>3
  <2> QED BY <2>0, <2>3, <2>5, <2>6
<1>10. ASSUME NEW e \in Debts \ {d} PROVE SameFor(e)
  <2>1. ActionsOf(e)' \subseteq Used BY <1>1, <1>3, <1>10 DEF ActionsOf
  <2>2. \A w \in Passes : HandOf(w) = {} BY <1>4
  <2> QED BY <1>5, <2>1, <2>2, StaysTheSame DEF ActionsOf
<1> QED BY <1>3, <1>4, <1>7, <1>8, <1>9, <1>10, BeginStep

LEMMA PromiseNext ==
  ASSUME NEW W, Passes = {W}, OnePass, RepeatsByFault, MaxFaults = 0, IsFiniteSet(Used),
         SentBySpent, [Next]_vars
  PROVE  Case!Next
<1> USE DEF OnePass
<1>a. /\ case \in [Debts -> CaseStatus \cup {"none"}] /\ sent \in [Debts -> Nat]
      /\ pc \in [Passes -> Places] /\ W \in Passes
  BY DEF TypeInv, TypeOK
<1>1. CASE Used' # Used BY <1>1, NewActionBegins
<1>2. CASE Used' = Used
  <2>0. \A e : ActionsOf(e)' \subseteq Used BY <1>2 DEF ActionsOf
  <2>a. \A e \in Debts : /\ TopRung(e)' = TopRung(e) /\ Begun(e)' = Begun(e)
                         /\ Busy(e)' => Busy(e)
    BY <2>0, NothingBegins
  <2>b. ASSUME UNCHANGED act, HandOf(W) \subseteq HandOf(W)'
        PROVE  \A e \in Debts : SameFor(e)
    <3>1. \A w \in Passes : HandOf(w) \subseteq HandOf(w)' BY <2>b
    <3> QED BY <2>0, <2>b, <3>1, StaysTheSame
  <2>1. CASE UNCHANGED <<case, sent>> BY <2>1, <2>a, EndStep
  <2>2. CASE sent' # sent
    <3>1. Send(W) BY <2>2, Writers DEF hist
    <3>2. PICK i, d : i = pc[W].id /\ d = act[i].debt OBVIOUS
    <3>3. /\ pc[W].at = "sending" /\ sent' = [sent EXCEPT ![d] = @ + 1]
          /\ pc'[W].at = "recording" /\ pc'[W].id = i
          /\ UNCHANGED <<act, case, queue>>
      <4>1. pc[W].at = "sending" /\ UNCHANGED <<act, case, queue>> BY <3>1 DEF Send, store
      <4>2. /\ sent' = [sent EXCEPT ![d] = @ + 1]
            /\ Goto(W, [at |-> "recording", id |-> i])
        BY <2>2, <3>1, <3>2, Zenon DEF Send
      <4> QED BY <4>1, <4>2, <1>a DEF Goto
    <3>4. i \in Used /\ d \in Debts /\ i \in ActionsOf(d) /\ i \in HandOf(W) /\ ~Spent(i)
      BY <3>2, <3>3, HandIsRow DEF AtId, ActionsOf, HandOf, Spent, ToSend
    <3>5. \A e \in Debts : SameFor(e)
      <4>1. HandOf(W) \subseteq HandOf(W)' BY <3>2, <3>3 DEF HandOf, AtId
      <4> QED BY <2>b, <3>3, <4>1
    <3>6. sent[d] < Begun(d)
      <4> DEFINE K == {j \in ActionsOf(d) : Spent(j)}
      <4>1. IsFiniteSet(ActionsOf(d)) BY FS_Subset DEF ActionsOf
      <4>2. K \subseteq ActionsOf(d) \ {i} BY <3>4
      <4>3. sent[d] <= Cardinality(K) /\ sent[d] \in Nat BY <1>a, <3>4 DEF SentBySpent
      <4> HIDE DEF K
      <4>4. /\ IsFiniteSet(K) /\ Cardinality(K) <= Cardinality(ActionsOf(d) \ {i})
            /\ Cardinality(ActionsOf(d) \ {i}) = Cardinality(ActionsOf(d)) - 1
            /\ Cardinality(K) \in Nat /\ Cardinality(ActionsOf(d)) \in Nat
        <5>1. /\ IsFiniteSet(ActionsOf(d) \ {i})
              /\ Cardinality(ActionsOf(d) \ {i}) = Cardinality(ActionsOf(d)) - 1
          BY <3>4, <4>1, FS_RemoveElement
        <5> QED BY <4>1, <4>2, <5>1, FS_Subset, FS_CardinalityType
      <4> QED BY <4>3, <4>4 DEF Begun
    <3>7. Busy(d) BY <1>a, <3>4 DEF Busy
    <3> QED BY <3>3, <3>4, <3>5, <3>6, <3>7, TellStep
  <2>3. CASE case' # case /\ sent' = sent
    <3>1. Settling \/ (\E d \in Debts : FailureArrives(d)) \/ CloseCase(W)
      BY <2>3, Writers
    <3>2. CASE \E d \in Debts : FailureArrives(d)
      <4>1. PICK d \in Debts : FailureArrives(d) BY <3>2
      <4>2. /\ case[d] = "none" /\ case' = [case EXCEPT ![d] = "OPEN"]
            /\ UNCHANGED <<act, pc, queue>>
        BY <4>1 DEF FailureArrives
      <4>3. \A e \in Debts : SameFor(e) BY <2>b, <4>2 DEF HandOf
      <4> QED BY <2>3, <4>2, <4>3, OpenStep
    <3>3. CASE CloseCase(W)
      <4>1. PICK d : d = pc[W].row.debt OBVIOUS
      <4>2. PICK s \in {"WRITTEN_OFF", "ESCALATED"} : case' = [case EXCEPT ![d] = s]
        BY <3>3, <4>1 DEF CloseCase
      <4>3. pc[W].at = "apply" /\ UNCHANGED <<act, queue>> BY <3>3 DEF CloseCase
      <4>4. HandOf(W) = {} /\ ~Busy(d) /\ case[d] # "none" /\ d \in Debts
        BY <4>1, <4>3, ApplyIsQuiet
      <4>5. \A e \in Debts : SameFor(e) BY <2>b, <4>3, <4>4
      <4> QED BY <2>3, <4>2, <4>4, <4>5, GiveUpStep
    <3>4. CASE Settling
      <4>1. PICK d \in Debts, s \in {"RECOVERED", "SELF_RECOVERED"} : Settle(d, s)
        BY <3>4 DEF Settling, SettleWebhook, Ledger
      <4>2. case[d] = "OPEN" /\ case' = [case EXCEPT ![d] = s]
        BY <1>a, <2>3, <4>1 DEF Settle
      <4>3. ASSUME NEW e \in Debts \ {d} PROVE SameFor(e)
        <5>1. \A i \in ActionsOf(e) : act'[i] = act[i]
          BY <4>1, <4>3, UsedRows DEF Settle, Mark, PendingOf, ActionsOf, TypeInv, TypeOK
        <5>2. \A w \in Passes : HandOf(w) \subseteq HandOf(w)' BY <4>1 DEF Settle, HandOf
        <5> QED BY <2>0, <5>1, <5>2, StaysTheSame
      <4> QED BY <2>3, <2>a, <4>2, <4>3, PaidCloseStep
    <3> QED BY <3>1, <3>2, <3>3, <3>4
  <2> QED BY <2>1, <2>2, <2>3
<1> QED BY <1>1, <1>2

LEMMA PromiseInit ==
  ASSUME Init
  PROVE  Case!Init /\ IsFiniteSet(Used) /\ SentBySpent
<1>1. Used = {} /\ \A d : ActionsOf(d) = {} BY DEF Init, Used, ActionsOf
<1>2. IsFiniteSet({}) /\ Cardinality({}) = 0 BY FS_EmptySet
<1>3. SentBySpent
  <2> SUFFICES ASSUME NEW d \in Debts
               PROVE  sent[d] <= Cardinality({i \in ActionsOf(d) : Spent(i)})
    BY DEF SentBySpent
  <2>1. {i \in ActionsOf(d) : Spent(i)} = {} BY <1>1
  <2>2. Cardinality({i \in ActionsOf(d) : Spent(i)}) = 0 BY <1>2, <2>1
  <2>3. sent[d] = 0 BY DEF Init
  <2> QED BY <2>2, <2>3
<1>4. \A d \in Debts : TopRung(d) = 0 /\ Begun(d) = 0 /\ Busy(d) = FALSE
  BY <1>1, <1>2 DEF TopRung, Highest, Begun, Busy
<1>5. Case!Init BY <1>4 DEF Init, Case!Init
<1> QED BY <1>1, <1>2, <1>3, <1>5

(* One pass at a time, never cut short, keeps every promise of             *)
(* RecoveryCase: an action at a time, each above the last, one message for *)
(* each at most, and the engine closes a case between two actions only.    *)
THEOREM PromisesAreKept ==
  ASSUME NEW W, Passes = {W}, MaxFaults = 0
  PROVE  Spec => KeepsPromises
<1> DEFINE I == OnePass /\ RepeatsByFault /\ IsFiniteSet(Used) /\ SentBySpent
<1>1. Init => I /\ Case!Init BY OnePassInit, RepeatsByFaultInit, PromiseInit
<1>2. I /\ [Next]_vars => I'
  <2> SUFFICES ASSUME I, [Next]_vars PROVE I' OBVIOUS
  <2>1. OnePass' BY OnePassNext
  <2>2. RepeatsByFault' BY RepeatsByFaultNext
  <2>3. IsFiniteSet(Used)' /\ SentBySpent' BY SpentCounts
  <2> QED BY <2>1, <2>2, <2>3
<1>3. I /\ [Next]_vars => [Case!Next]_(Case!vars) BY PromiseNext
<1> HIDE DEF I
<1> QED BY <1>1, <1>2, <1>3, PTL DEF Spec, KeepsPromises, Case!Spec

-----------------------------------------------------------------------------
(* One live action for each pass, for any number of passes.                *)

LEMMA NothingUnknownNext ==
  ASSUME TypeInv, [Next]_vars, NothingUnknown
  PROVE  NothingUnknown'
<1>a. held \in [Passes -> [pauses : SUBSET AllPauses, port : Ports \cup {"none"}]]
      /\ act \in [ActionIds -> ActionRows \cup {Free}]
  BY DEF TypeInv, TypeOK
<1>1. mode' # "sandbox"
  <2>1. ASSUME NEW w \in Passes, PassStep(w) \/ Abandon(w) PROVE UNCHANGED mode
    BY <2>1 DEF PassStep, StartTick, OpenCases, DecideCase, CloseCase, DropPausedAction,
       Schedule, Climb, ReadDue, CancelHeld, Recheck, MarkInFlight, FindLink, Mint, MintFails,
       Send, RecordContact, CallSandbox, Finish, FinishTick, Abandon, world
  <2>2. ASSUME NEW d \in Debts, EnvStep(d) PROVE UNCHANGED mode
    BY <2>2 DEF EnvStep, FailureArrives, SettleWebhook, Ledger, Settle, Lapse, AgeContact,
       Pay, world
  <2>3. CASE SwitchMode BY <2>3 DEF SwitchMode
  <2>4. CASE \/ \E i \in ActionIds : TimeReaches(i)
             \/ \E p \in PauseScopes : RaisePause(p)
             \/ Clock \/ Resume \/ Reconcile \/ UNCHANGED vars
    BY <2>4 DEF TimeReaches, RaisePause, Clock, Resume, Reconcile, world, vars, NothingUnknown
  <2> QED BY <2>1, <2>2, <2>3, <2>4 DEF Next, NothingUnknown
<1>2. ASSUME NEW w \in Passes PROVE held'[w].port # "sandbox"
  <2>1. CASE StartTick(w) BY <1>a, <2>1 DEF StartTick, NothingUnknown
  <2>2. CASE FinishTick(w) \/ Abandon(w) BY <1>a, <2>2 DEF FinishTick, Abandon, Idle
  <2>3. CASE PassStep(w) /\ ~StartTick(w) /\ ~FinishTick(w)
    <3>1. UNCHANGED held
      BY <2>3 DEF PassStep, OpenCases, DecideCase, CloseCase, DropPausedAction, Schedule, Climb,
         ReadDue, CancelHeld, Recheck, MarkInFlight, FindLink, Mint, MintFails, Send,
         RecordContact, CallSandbox, Finish
    <3> QED BY <3>1 DEF NothingUnknown
  <2>4. held'[w] = held[w] \/ PassStep(w) \/ Abandon(w) BY OneMoves
  <2> QED BY <2>1, <2>2, <2>3, <2>4 DEF NothingUnknown
<1>3. ASSUME NEW i \in Used', act'[i].status = "UNKNOWN" PROVE FALSE
  <2>1. i \in Used
    <3>1. CASE i \notin Used
      <4>1. PICK w \in Passes : /\ Used' = Used \cup {NewId}
                              /\ act'[NewId] = [status |-> "PENDING", debt |-> pc[w].row.debt,
                                                type |-> pc[w].action, due |-> FALSE]
        BY <3>1, RowsStep
      <4>2. i = NewId BY <3>1, <4>1
      <4>3. act'[i].status = "PENDING" BY <4>1, <4>2
      <4> QED BY <1>3, <4>3
    <3> QED BY <3>1
  <2>2. act[i].status # "UNKNOWN" /\ i \in ActionIds /\ act[i] \in ActionRows
    BY <1>a, <2>1, UsedRows DEF NothingUnknown
  <2>3. CASE UNCHANGED act BY <1>3, <2>2, <2>3
  <2>4. ASSUME NEW ids \in SUBSET Used, NEW st \in {"UNKNOWN"} \cup EndStatus, Marks(ids, st)
        PROVE  FALSE
    <3>1. st \in LiveStatus \cup EndStatus BY DEF LiveStatus
    <3>2. act'[i].status = IF i \in ids THEN st ELSE act[i].status
      BY <1>a, <2>1, <2>4, <3>1, MarkType DEF Marks
    <3> QED BY <1>3, <2>2, <2>4, <3>2 DEF Marks, NothingUnknown, EndStatus
  <2>5. CASE \E w \in Passes : MarkInFlight(w)
    <3>1. PICK w \in Passes : act' = Mark({pc[w].id}, "IN_FLIGHT") BY <2>5 DEF MarkInFlight
    <3> QED BY <1>3, <1>a, <2>2, <3>1 DEF Mark, ActionRows
  <2>6. CASE \E w \in Passes : /\ Schedule(w) /\ Used # ActionIds
                               /\ act' = [act EXCEPT ![NewId] =
                                            [status |-> "PENDING", debt |-> pc[w].row.debt,
                                             type |-> pc[w].action, due |-> FALSE]]
    <3>1. i # NewId BY <2>1, <2>6, FreshId
    <3> QED BY <1>3, <1>a, <2>2, <2>6, <3>1
  <2>7. CASE \E j \in ActionIds : TimeReaches(j)
    <3>1. PICK j \in ActionIds : act' = [act EXCEPT ![j].due = TRUE] BY <2>7 DEF TimeReaches
    <3> QED BY <1>3, <1>a, <2>2, <3>1 DEF ActionRows
  <2>8. CASE Reconcile
    <3>1. act'[i] = act[i] BY <2>2, <2>8 DEF Reconcile
    <3> QED BY <1>3, <2>2, <3>1
  <2> QED BY <2>3, <2>4, <2>5, <2>6, <2>7, <2>8, ActForms
<1> QED BY <1>1, <1>2, <1>3 DEF NothingUnknown

(* A pass claims a debt by reading its case, when nothing of it is alive.  *)
LEMMA ClaimsStep ==
  ASSUME TypeInv, [Next]_vars, NEW w \in Passes, NEW d \in Debts, Claims(w, d)'
  PROVE  Claims(w, d) \/ (OpenCases(w) /\ Live(d) = {} /\ UNCHANGED act)
<1>a. todo \in [Passes -> SUBSET CaseRows] BY DEF TypeInv, TypeOK
<1>1. CASE pc'[w].at = "apply" /\ pc'[w].row.debt = d
  <2>1. ~Schedules(w) BY <1>1 DEF Schedules
  <2>2. Stays(w) \/ PicksRow(w) BY <1>1, <2>1, RowStep DEF AtRow
  <2>3. CASE Stays(w) BY <1>1, <2>3 DEF Stays, Claims
  <2>4. CASE PicksRow(w)
    <3>1. pc'[w].row \in todo[w] BY <2>4, PickedRow
    <3> QED BY <1>1, <3>1 DEF Claims
  <2> QED BY <2>2, <2>3, <2>4
<1>2. CASE \E r \in todo'[w] : r.debt = d
  <2>1. CASE todo'[w] \subseteq todo[w] BY <1>2, <2>1 DEF Claims
  <2>2. CASE OpenCases(w)
    <3>1. todo'[w] = {[debt |-> e, rung |-> rung[e]] :
                        e \in {e \in Debts : case[e] = "OPEN" /\ Live(e) = {}}}
      BY <2>2, <1>a DEF OpenCases
    <3>2. Live(d) = {} BY <1>2, <3>1
    <3> QED BY <2>2, <3>2 DEF OpenCases, store
  <2> QED BY <2>1, <2>2, TodoStep
<1> QED BY <1>1, <1>2 DEF Claims

(* What a pass has in hand it had, or finds PENDING.                       *)
LEMMA HandFrom ==
  ASSUME TypeInv, [Next]_vars, NEW w \in Passes, NEW i \in HandOf(w)'
  PROVE  i \in HandOf(w) \/ (i \in Used /\ act[i].status = "PENDING")
<1>1. CASE i \in queue'[w] BY <1>1, QueueStep DEF HandOf
<1>2. CASE pc'[w].at \in AtId /\ pc'[w].id = i
  BY <1>2, HandStep DEF Stays, TakesUp, Advances, HandOf, AtId
<1> QED BY <1>1, <1>2 DEF HandOf

LEMMA RowsOnceNext ==
  ASSUME TypeInv, [Next]_vars, RowsOnce
  PROVE  RowsOnce'
<1> SUFFICES ASSUME NEW w \in Passes
             PROVE  /\ \A r, q \in todo'[w] : r.debt = q.debt => r = q
                    /\ pc'[w].at \in AtRow => \A r \in todo'[w] : r.debt # pc'[w].row.debt
  BY DEF RowsOnce
<1>a. todo \in [Passes -> SUBSET CaseRows] /\ pc \in [Passes -> Places]
  BY DEF TypeInv, TypeOK
<1>1. \A r, q \in todo'[w] : r.debt = q.debt => r = q
  <2>1. CASE todo'[w] \subseteq todo[w] BY <2>1 DEF RowsOnce
  <2>2. CASE OpenCases(w)
    <3>1. todo'[w] = {[debt |-> e, rung |-> rung[e]] :
                        e \in {e \in Debts : case[e] = "OPEN" /\ Live(e) = {}}}
      BY <2>2, <1>a DEF OpenCases
    <3> QED BY <3>1
  <2> QED BY <2>1, <2>2, TodoStep
<1>2. ASSUME pc'[w].at \in AtRow PROVE \A r \in todo'[w] : r.debt # pc'[w].row.debt
  <2>0. todo'[w] \subseteq todo[w]
    <3>1. ~OpenCases(w) BY <1>2, <1>a DEF OpenCases, Goto, AtRow
    <3> QED BY <3>1, TodoStep
  <2>1. CASE Stays(w) \/ Schedules(w)
    <3>1. pc[w].at \in AtRow /\ pc'[w].row = pc[w].row
      BY <1>2, <2>1 DEF Stays, Schedules, AtRow
    <3> QED BY <2>0, <3>1 DEF RowsOnce
  <2>2. CASE PicksRow(w)
    <3>1. PICK row \in todo[w] : todo'[w] = todo[w] \ {row} /\ pc'[w].row = row
      <4>1. PICK row \in todo[w] :
              /\ todo' = [todo EXCEPT ![w] = @ \ {row}]
              /\ \/ UNCHANGED pc
                 \/ \E a : Goto(w, [at |-> "apply", row |-> row, action |-> a])
        BY <2>2 DEF PicksRow, DecideCase
      <4>2. ~UNCHANGED pc BY <1>2, <2>2 DEF PicksRow, AtRow
      <4> QED BY <1>a, <4>1, <4>2 DEF Goto
    <3> QED BY <3>1 DEF RowsOnce
  <2> QED BY <1>2, <2>1, <2>2, RowStep
<1> QED BY <1>1, <1>2

(* Generations, with the generation of d starting afresh, going on, or     *)
(* getting one action more from a pass that had a claim.                   *)
LEMMA GenerationsNext ==
  ASSUME TypeInv, RowsOnce, [Next]_vars, Generations
  PROVE  Generations'
<1> SUFFICES ASSUME NEW d \in Debts
             PROVE  \E made \in SUBSET Used' : \E by \in [made -> Passes] :
                      Generation(d, made, by)'
  BY DEF Generations
<1>1. CASE UNCHANGED act /\ Live(d) = {}
  <2>1. PendingOf(d)' = {} BY <1>1 DEF PendingOf, Used, Live, LiveStatus
  <2> DEFINE none == [i \in {} |-> CHOOSE w \in Passes : TRUE]
  <2>2. none \in [{} -> Passes] OBVIOUS
  <2>3. Generation(d, {}, none)' BY <2>1 DEF Generation
  <2> HIDE DEF none
  <2> QED BY <2>2, <2>3
<1>2. CASE ~(UNCHANGED act /\ Live(d) = {})
  <2>1. PICK made \in SUBSET Used : \E by \in [made -> Passes] : Generation(d, made, by)
    BY DEF Generations
  <2>2. PICK by \in [made -> Passes] : Generation(d, made, by) BY <2>1
  <2>3. \A w \in Passes : Claims(w, d)' => Claims(w, d) BY <1>2, ClaimsStep
  <2>4. ASSUME NEW w \in Passes, NEW i \in HandOf(w)', act'[i].debt = d
        PROVE  i \in made \/ (i \in HandOf(w) /\ act[i].debt = d)
    <3>1. i \in Used BY HandFrom DEF TypeInv, Hands
    <3>2. act[i].debt = d BY <2>4, <3>1, RowsStep
    <3>3. i \in HandOf(w) \/ act[i].status = "PENDING" BY HandFrom
    <3> QED BY <2>2, <3>1, <3>2, <3>3 DEF Generation, PendingOf
  <2>5. Used \subseteq Used' BY RowsStep
  <2>6. ASSUME \A i \in Used' \ Used : act'[i].debt # d
        PROVE  Generation(d, made, by)'
    <3>1. PendingOf(d)' \subseteq PendingOf(d) BY <2>6, RowsStep DEF PendingOf
    <3> QED BY <2>1, <2>2, <2>3, <2>4, <3>1 DEF Generation
  <2>7. CASE \A i \in Used' \ Used : act'[i].debt # d BY <2>2, <2>5, <2>6, <2>7
  <2>8. CASE \E i \in Used' \ Used : act'[i].debt = d
    <3>1. PICK w \in Passes, n \in ActionIds \ Used :
            /\ Schedule(w) /\ Used' = Used \cup {n}
            /\ act'[n] = [status |-> "PENDING", debt |-> pc[w].row.debt,
                          type |-> pc[w].action, due |-> FALSE]
      BY <2>8, RowsStep
    <3>2. act'[n].debt = pc[w].row.debt BY <3>1
    <3>3. pc[w].row.debt = d BY <2>8, <3>1, <3>2
    <3>4. pc[w].at = "apply" /\ pc'[w].at = "climb" /\ pc'[w].row.debt = d
          /\ UNCHANGED <<todo, queue>>
      <4>1. pc[w].at = "apply" /\ Goto(w, [pc[w] EXCEPT !.at = "climb"])
            /\ UNCHANGED <<todo, queue>>
        BY <3>1 DEF Schedule
      <4>2. pc[w] \in Places /\ pc \in [Passes -> Places] BY DEF TypeInv, TypeOK
      <4>3. pc'[w] = [pc[w] EXCEPT !.at = "climb"] BY <4>1, <4>2 DEF Goto
      <4>4. pc'[w].at = "climb" /\ pc'[w].row = pc[w].row
        BY <4>1, <4>2, <4>3 DEF Places
      <4> QED BY <3>3, <4>1, <4>4
    <3>5. Claims(w, d) BY <3>3, <3>4 DEF Claims
    <3>6. ~Claims(w, d)' BY <3>3, <3>4 DEF RowsOnce, AtRow, Claims
    <3>7. HandOf(w)' = {} BY <3>4 DEF TypeInv, Hands, HandOf, AtId
    <3> DEFINE more == made \cup {n}
    <3> DEFINE now  == [i \in more |-> IF i = n THEN w ELSE by[i]]
    <3>8. more \in SUBSET Used' /\ now \in [more -> Passes] BY <3>1, <2>1
    <3>9. /\ \A i \in made : i # n /\ now[i] = by[i] /\ by[i] # w /\ by[i] \in Passes
          /\ now[n] = w
      BY <2>1, <2>2, <3>1, <3>5 DEF Generation
    <3>10. PendingOf(d)' \subseteq more
      <4>1. PendingOf(d)' \subseteq PendingOf(d) \cup {n} BY <3>1, RowsStep DEF PendingOf
      <4> QED BY <2>2, <4>1 DEF Generation
    <3>11. \A i, j \in more : now[i] = now[j] => i = j BY <2>2, <3>9 DEF Generation
    <3>12. ASSUME NEW i \in more
           PROVE  ~Claims(now[i], d)' /\ \A j \in HandOf(now[i])' : act'[j].debt = d => j \in more
      <4>1. CASE i = n BY <3>6, <3>7, <3>9, <4>1
      <4>2. CASE i \in made
        <5>1. PICK v \in Passes : v = by[i] /\ v = now[i] BY <3>9, <4>2
        <5>2. ~Claims(v, d) /\ \A j \in HandOf(v) : act[j].debt = d => j \in made
          BY <2>2, <4>2, <5>1 DEF Generation
        <5>3. ~Claims(v, d)' /\ \A j \in HandOf(v)' : act'[j].debt = d => j \in more
          BY <2>3, <2>4, <5>2
        <5> QED BY <5>1, <5>3
      <4> QED BY <4>1, <4>2
    <3> HIDE DEF more, now
    <3>13. Generation(d, more, now)' BY <3>10, <3>11, <3>12 DEF Generation
    <3> QED BY <3>8, <3>13
  <2> QED BY <2>7, <2>8
<1> QED BY <1>1, <1>2

(* What is alive and not stranded belongs to one pass each: the one that   *)
(* made it since the case was last clear, or the one that has it in hand.  *)
LEMMA OneForEachPass ==
  ASSUME TypeInv, Generations, NothingUnknown, IsFiniteSet(Passes), NEW d \in Debts
  PROVE  /\ IsFiniteSet(Live(d) \ Stranded)
         /\ Cardinality(Live(d) \ Stranded) <= Cardinality(Passes)
<1> DEFINE T == Live(d) \ Stranded
<1>1. PICK made \in SUBSET Used : \E by \in [made -> Passes] : Generation(d, made, by)
  BY DEF Generations
<1>2. PICK by \in [made -> Passes] : Generation(d, made, by) BY <1>1
<1>3. ASSUME NEW i \in T \ made
      PROVE  \E w \in Passes : pc[w].at \in AtId /\ pc[w].id = i
  <2>1. i \in Used /\ act[i].debt = d /\ act[i].status \in LiveStatus /\ i \notin Stranded
    BY DEF Live
  <2>2. act[i].status = "IN_FLIGHT"
    BY <1>2, <1>3, <2>1 DEF Generation, PendingOf, NothingUnknown, LiveStatus
  <2>3. PICK w \in Passes : "id" \in DOMAIN pc[w] /\ pc[w].id = i BY <2>1, <2>2 DEF Stranded
  <2>4. pc[w] \in Places BY DEF TypeInv, TypeOK
  <2> QED BY <2>3, <2>4, PlaceId
<1> DEFINE owner == [i \in T |-> IF i \in made THEN by[i]
                                 ELSE CHOOSE w \in Passes : pc[w].at \in AtId /\ pc[w].id = i]
<1>4. ASSUME NEW i \in T
      PROVE  /\ owner[i] \in Passes
             /\ i \in made => owner[i] = by[i]
             /\ i \notin made => pc[owner[i]].at \in AtId /\ pc[owner[i]].id = i
  BY <1>2, <1>3
<1>5. \A i \in T : act[i].debt = d BY DEF Live
<1>6. owner \in [T -> Passes] BY <1>4
<1> HIDE DEF owner, T
<1>7. ASSUME NEW i \in T, NEW j \in T, i \in made, j \notin made, owner[i] = owner[j]
      PROVE  FALSE
  <2>1. j \in HandOf(by[i]) BY <1>4, <1>7 DEF HandOf
  <2> QED BY <1>2, <1>5, <1>7, <2>1 DEF Generation
<1>8. ASSUME NEW i \in T, NEW j \in T, owner[i] = owner[j] PROVE i = j
  <2>1. CASE i \in made /\ j \in made BY <1>2, <1>4, <1>8, <2>1 DEF Generation
  <2>2. CASE i \notin made /\ j \notin made BY <1>4, <1>8, <2>2
  <2> QED BY <1>7, <1>8, <2>1, <2>2
<1>9. owner \in Injection(T, Passes) BY <1>6, <1>8 DEF Injection, IsInjective
<1>10. IsFiniteSet(T) /\ Cardinality(T) <= Cardinality(Passes) BY <1>9, FS_Injection
<1> QED BY <1>10 DEF T

(* However many passes overlap, with the Razorpay executor a case has at   *)
(* most one live action for each pass, and one for each fault: open_cases  *)
(* takes no case that has one, so that each pass adds one at most before   *)
(* the case is clear again.                                                *)
THEOREM LiveActionsAlwaysPerPass ==
  ASSUME IsFiniteSet(Passes), "sandbox" \notin Modes
  PROVE  Spec => []LiveActionsPerPass
<1> DEFINE J == TypeInv /\ RowsOnce /\ Generations /\ NothingUnknown
<1> DEFINE I == J /\ IsFiniteSet(Stranded) /\ Cardinality(Stranded) <= faults
<1>1. Init => I
  <2> SUFFICES ASSUME Init PROVE I OBVIOUS
  <2>1. Stranded = {} /\ Used = {} /\ faults = 0 BY DEF Init, Stranded, Used
  <2>2. IsFiniteSet(Stranded) /\ Cardinality(Stranded) <= faults BY <2>1, FS_EmptySet
  <2>3. RowsOnce BY DEF Init, RowsOnce, AtRow
  <2>4. NothingUnknown BY <2>1 DEF Init, NothingUnknown, Idle
  <2>5. Generations
    <3> SUFFICES ASSUME NEW d \in Debts
                 PROVE  \E made \in SUBSET Used : \E by \in [made -> Passes] :
                          Generation(d, made, by)
      BY DEF Generations
    <3> DEFINE none == [i \in {} |-> CHOOSE w \in Passes : TRUE]
    <3>1. none \in [{} -> Passes] OBVIOUS
    <3>2. Generation(d, {}, none) BY <2>1 DEF Generation, PendingOf
    <3> HIDE DEF none
    <3> QED BY <3>1, <3>2
  <2> QED BY <2>2, <2>3, <2>4, <2>5, TypeInit
<1>2. I /\ [Next]_vars => I'
  <2> SUFFICES ASSUME I, [Next]_vars PROVE I' OBVIOUS
  <2>1. J' BY TypeNext, RowsOnceNext, GenerationsNext, NothingUnknownNext
  <2> QED BY <2>1, StrandedNext
<1>3. I => LiveActionsPerPass
  <2> SUFFICES ASSUME I, NEW d \in Debts
               PROVE  Cardinality(Live(d)) <= Cardinality(Passes) + faults
    BY DEF LiveActionsPerPass
  <2> DEFINE T == Live(d) \ Stranded
  <2>1. IsFiniteSet(T) /\ Cardinality(T) <= Cardinality(Passes) BY OneForEachPass
  <2>2. faults \in Nat BY LiveAssumption DEF TypeInv, TypeOK
  <2>3. Live(d) \subseteq T \cup Stranded OBVIOUS
  <2> HIDE DEF T
  <2>4. /\ IsFiniteSet(T \cup Stranded)
        /\ Cardinality(T \cup Stranded)
             = Cardinality(T) + Cardinality(Stranded) - Cardinality(T \cap Stranded)
    BY <2>1, FS_Union
  <2>5. IsFiniteSet(T \cap Stranded) BY <2>1, FS_Subset
  <2>6. /\ Cardinality(T) \in Nat /\ Cardinality(Stranded) \in Nat
        /\ Cardinality(T \cap Stranded) \in Nat /\ Cardinality(Passes) \in Nat
        /\ Cardinality(T \cup Stranded) \in Nat
    BY <2>1, <2>4, <2>5, FS_CardinalityType
  <2>7. Cardinality(Live(d)) \in Nat /\ Cardinality(Live(d)) <= Cardinality(T \cup Stranded)
    BY <2>3, <2>4, NotMore
  <2> QED BY <2>1, <2>2, <2>4, <2>6, <2>7
<1> HIDE DEF I
<1> QED BY <1>1, <1>2, <1>3, PTL DEF Spec

-----------------------------------------------------------------------------
(* Messages, for any number of passes.                                     *)

(* A pass that is past an action's message stays past it.                  *)
LEMMA SpentForStep ==
  ASSUME TypeInv, [Next]_vars, NEW w \in Passes, NEW i \in Used, SpentFor(w, i)
  PROVE  SpentFor(w, i)'
<1>1. act'[i].status # "PENDING" BY RowsStep DEF SpentFor
<1>2. i \notin queue'[w] BY QueueStep DEF SpentFor
<1>3. ASSUME pc'[w].at \in ToSend, pc'[w].id = i PROVE FALSE
  <2>1. pc'[w].at \in AtId BY <1>3 DEF ToSend, ToMint, AtId
  <2>2. CASE Stays(w) BY <1>3, <2>2 DEF Stays, SpentFor
  <2>3. CASE TakesUp(w) BY <1>3, <2>3 DEF TakesUp, SpentFor
  <2>4. CASE Advances(w)
    <3>1. pc[w].at \in ToSend /\ pc'[w].id = pc[w].id
      BY <1>3, <2>4, UpstreamPlaces DEF Advances, Upstream
    <3> QED BY <1>3, <3>1 DEF SpentFor
  <2> QED BY <2>1, <2>2, <2>3, <2>4, HandStep
<1> QED BY <1>1, <1>2, <1>3 DEF SpentFor

LEMMA SentForKept ==
  ASSUME TypeInv, [Next]_vars, NEW d \in Debts
  PROVE  SentFor(d) \subseteq SentFor(d)'
<1> SUFFICES ASSUME NEW w \in Passes, NEW i \in ActionsOf(d), SpentFor(w, i)
             PROVE  i \in ActionsOf(d)' /\ SpentFor(w, i)'
  BY DEF SentFor
<1>1. i \in Used BY DEF ActionsOf
<1> QED BY <1>1, RowsStep, SpentForStep DEF ActionsOf

(* The pass that has just sent is past the action's message.               *)
LEMMA SenderIsSpent ==
  ASSUME TypeInv, HandsMoveOn, [Next]_vars, NEW d \in Debts, NEW w \in Passes,
         On(w, d, {"sending"}), pc'[w].at = "recording"
  PROVE  \E p \in SentFor(d)' : p \notin SentFor(d)
<1>1. PICK i : i = pc[w].id OBVIOUS
<1>2. pc[w].at = "sending" /\ act[i].debt = d /\ i \in Used
  BY <1>1, HandIsRow DEF On, AtId
<1>3. pc'[w].id = i BY <1>1, <1>2, HandStep DEF AtId, Stays, TakesUp, Advances
<1>4. act[i].status # "PENDING" /\ i \notin queue[w] BY <1>1, <1>2 DEF HandsMoveOn, AtId
<1>5. i \in ActionsOf(d)' BY <1>2, RowsStep DEF ActionsOf
<1>6. SpentFor(w, i)'
  <2>1. act'[i].status # "PENDING" BY <1>2, <1>4, RowsStep
  <2>2. queue'[w] \subseteq queue[w] BY QueueStep
  <2> QED BY <1>4, <2>1, <2>2 DEF SpentFor, ToSend, ToMint
<1>7. ~SpentFor(w, i) BY <1>1, <1>2 DEF SpentFor, ToSend
<1>8. <<w, i>> \in SentFor(d)' BY <1>5, <1>6 DEF SentFor
<1>9. <<w, i>> \notin SentFor(d) BY <1>7 DEF SentFor
<1> QED BY <1>8, <1>9

LEMMA SentForFinite ==
  ASSUME IsFiniteSet(Passes), IsFiniteSet(Used), NEW d \in Debts
  PROVE  /\ IsFiniteSet(SentFor(d)) /\ Cardinality(SentFor(d)) \in Nat
         /\ Cardinality(SentFor(d)) <= Cardinality(Passes) * Cardinality(ActionsOf(d))
<1>1. IsFiniteSet(ActionsOf(d)) BY FS_Subset DEF ActionsOf
<1>2. /\ IsFiniteSet(Passes \X ActionsOf(d))
      /\ Cardinality(Passes \X ActionsOf(d)) = Cardinality(Passes) * Cardinality(ActionsOf(d))
  BY <1>1, FS_Product
<1>3. SentFor(d) \subseteq Passes \X ActionsOf(d) BY DEF SentFor
<1>4. /\ IsFiniteSet(SentFor(d)) /\ Cardinality(SentFor(d)) \in Nat
      /\ Cardinality(SentFor(d)) <= Cardinality(Passes \X ActionsOf(d))
  BY <1>2, <1>3, NotMore
<1> QED BY <1>2, <1>4

LEMMA UsedFiniteNext ==
  ASSUME TypeInv, [Next]_vars, IsFiniteSet(Used)
  PROVE  IsFiniteSet(Used')
<1>1. IsFiniteSet(Used \cup {NewId}) BY FS_AddElement
<1> QED BY <1>1, RowsStep

LEMMA SentByEachNext ==
  ASSUME IsFiniteSet(Passes), IsFiniteSet(Used), TypeInv, HandsMoveOn, SentByEach,
         [Next]_vars, NEW d \in Debts
  PROVE  sent'[d] <= Cardinality(SentFor(d)')
<1> DEFINE K == SentFor(d)
<1>1. IsFiniteSet(K) /\ Cardinality(K) \in Nat BY SentForFinite
<1>2. IsFiniteSet(K')
  <2>1. IsFiniteSet(Used') BY UsedFiniteNext
  <2>2. IsFiniteSet(ActionsOf(d)') BY <2>1, FS_Subset DEF ActionsOf
  <2>3. IsFiniteSet(Passes \X ActionsOf(d)') BY <2>2, FS_Product
  <2>4. K' \subseteq Passes \X ActionsOf(d)' BY DEF SentFor
  <2> QED BY <2>3, <2>4, FS_Subset
<1>3. K \subseteq K' BY SentForKept
<1>4. sent[d] \in Nat /\ sent[d] <= Cardinality(K) BY DEF SentByEach, TypeInv, TypeOK
<1>5. ASSUME NEW w \in Passes, On(w, d, {"sending"}), pc'[w].at = "recording"
      PROVE  \E p \in K' : p \notin K
  BY <1>5, SenderIsSpent
<1> HIDE DEF K
<1>6. Cardinality(K') \in Nat /\ Cardinality(K) <= Cardinality(K')
  BY <1>2, <1>3, NotMore
<1>7. ASSUME sent'[d] = sent[d] PROVE sent'[d] <= Cardinality(K')
  BY <1>1, <1>4, <1>6, <1>7
<1>8. ASSUME sent'[d] # sent[d] PROVE sent'[d] <= Cardinality(K')
  <2>1. PICK w \in Passes : On(w, d, {"sending"}) /\ pc'[w].at = "recording"
                            /\ sent'[d] = sent[d] + 1
    BY <1>8, SendStep
  <2>2. PICK p \in K' : p \notin K BY <1>5, <2>1
  <2>3. K \subseteq K' \ {p} BY <1>3, <2>2
  <2>4. Cardinality(K) + 1 <= Cardinality(K') BY <1>2, <2>2, <2>3, OneLess
  <2> QED BY <1>1, <1>4, <1>6, <2>1, <2>4
<1> QED BY <1>7, <1>8 DEF K

(* However many passes run an action at the same time, each sends its      *)
(* message once at most: what a pass has marked is never PENDING again,    *)
(* whatever statuses the passes write over one another's.                  *)
THEOREM MessagesAlwaysPerPass ==
  ASSUME IsFiniteSet(Passes)
  PROVE  Spec => []MessagesPerPass
<1> DEFINE I == TypeInv /\ HandsMoveOn /\ IsFiniteSet(Used) /\ SentByEach
<1>1. Init => I
  <2> SUFFICES ASSUME Init PROVE I OBVIOUS
  <2>1. Used = {} /\ (\A d \in Debts : sent[d] = 0) /\ HandsMoveOn
    BY DEF Init, Used, HandsMoveOn, AtId
  <2>2. IsFiniteSet(Used) BY <2>1, FS_EmptySet
  <2>3. SentByEach BY <2>1, <2>2, SentForFinite DEF SentByEach
  <2> QED BY <2>1, <2>2, <2>3, TypeInit
<1>2. I /\ [Next]_vars => I'
  <2> SUFFICES ASSUME I, [Next]_vars PROVE I' OBVIOUS
  <2>1. SentByEach' BY SentByEachNext DEF SentByEach
  <2> QED BY <2>1, TypeNext, MovesOnNext, UsedFiniteNext
<1>3. I => MessagesPerPass
  <2> SUFFICES ASSUME I, NEW d \in Debts
               PROVE  sent[d] <= Cardinality(Passes) * Cardinality(ActionsOf(d))
    BY DEF MessagesPerPass, ActionsOf
  <2>1. sent[d] \in Nat /\ sent[d] <= Cardinality(SentFor(d))
    BY DEF SentByEach, TypeInv, TypeOK
  <2>2. /\ Cardinality(SentFor(d)) \in Nat
        /\ Cardinality(SentFor(d)) <= Cardinality(Passes) * Cardinality(ActionsOf(d))
    BY SentForFinite
  <2>3. Cardinality(Passes) * Cardinality(ActionsOf(d)) \in Nat
    <3>1. IsFiniteSet(ActionsOf(d)) BY FS_Subset DEF ActionsOf
    <3> QED BY <3>1, FS_CardinalityType
  <2> HIDE DEF I
  <2> QED BY <2>1, <2>2, <2>3
<1> HIDE DEF I
<1> QED BY <1>1, <1>2, <1>3, PTL DEF Spec

(* While a read of the merchant's order answers, a pass is past its        *)
(* re-check for a paid order only if it was when the payment came in.      *)
LEMMA SendersStep ==
  ASSUME TypeInv, [Next]_vars, FetchFails = FALSE, NEW d \in Debts, route[d] = "order"
  PROVE  Senders(d)' \subseteq Senders(d)
<1> SUFFICES ASSUME NEW w \in Passes, held'[w].port # "sandbox", On(w, d, ToSend)'
             PROVE  held[w].port # "sandbox" /\ On(w, d, ToSend)
  BY DEF Senders
<1> QED BY NoNewSends

LEMMA LateByEachNext ==
  ASSUME IsFiniteSet(Passes), FetchFails = FALSE, TypeInv, Books, SandboxIsSilent,
         LateByEach, [Next]_vars, NEW d \in Debts
  PROVE  /\ late'[d] > 0 => KnownPaid(d)'
         /\ route'[d] = "order"
              => late'[d] + Cardinality(Senders(d)') <= Cardinality(Passes)
<1> DEFINE K == Senders(d)
           N == Cardinality(Passes)
<1>a. late[d] \in Nat /\ route \in [Debts -> Routes] BY DEF TypeInv, TypeOK
<1>b. /\ late[d] > 0 => KnownPaid(d)
      /\ route[d] = "order" => late[d] + Cardinality(K) <= N
  BY DEF LateByEach
<1>c. K \subseteq Passes /\ K' \subseteq Passes BY DEF Senders
<1>1. route[d] # "unpaid" => route'[d] = route[d]
  <2>1. UNCHANGED route \/ \E e \in Debts, how \in PayBy : Pay(e, how) BY Writers
  <2> QED BY <1>a, <2>1 DEF Pay
<1>2. ob[d] = "SETTLED" => ob'[d] = "SETTLED"
  <2> HIDE DEF Settle
  <2>1. case[d] = "none" => ob[d] = "none" BY DEF Books
  <2> QED BY <2>1, BookStep
<1>3. KnownPaid(d) => KnownPaid(d)' BY <1>1, <1>2 DEF KnownPaid
<1>4. route'[d] = "order" => route[d] = "order" \/ late[d] = 0
  <2>1. ob[d] = "SETTLED" => route[d] # "unpaid" BY DEF Books
  <2> QED BY <1>a, <1>b, <1>1, <2>1 DEF KnownPaid
<1>5. route[d] = "order" => K' \subseteq K BY SendersStep
<1>6. ASSUME NEW w \in Passes, On(w, d, {"sending"}), pc'[w].at = "recording"
      PROVE  w \in K /\ w \notin K'
  <2>1. pc[w].at = "sending" BY <1>6 DEF On
  <2>2. held[w].port # "sandbox" BY <2>1 DEF SandboxIsSilent
  <2>3. On(w, d, ToSend) BY <1>6 DEF On, ToSend
  <2>4. ~On(w, d, ToSend)' BY <1>6 DEF On, ToSend, ToMint
  <2> QED BY <2>2, <2>3, <2>4 DEF Senders
<1> HIDE DEF K, N
<1>7. /\ IsFiniteSet(K) /\ Cardinality(K) \in Nat /\ IsFiniteSet(K') /\ Cardinality(K') \in Nat
      /\ N \in Nat /\ Cardinality(K') <= N
  <2>1. IsFiniteSet(K) /\ Cardinality(K) \in Nat BY <1>c, NotMore
  <2>2. IsFiniteSet(K') /\ Cardinality(K') \in Nat /\ Cardinality(K') <= N /\ N \in Nat
    BY <1>c, NotMore DEF N
  <2> QED BY <2>1, <2>2
<1>8. ASSUME late'[d] = late[d]
      PROVE  /\ late'[d] > 0 => KnownPaid(d)'
             /\ route'[d] = "order" => late'[d] + Cardinality(K') <= N
  <2>1. late'[d] > 0 => KnownPaid(d)' BY <1>8, <1>b, <1>3
  <2>2. ASSUME route[d] = "order" PROVE late'[d] + Cardinality(K') <= N
    <3>1. Cardinality(K') <= Cardinality(K) BY <1>5, <1>7, <2>2, NotMore
    <3> QED BY <1>8, <1>a, <1>b, <1>7, <2>2, <3>1
  <2>3. ASSUME late[d] = 0 PROVE late'[d] + Cardinality(K') <= N
    BY <1>8, <1>7, <2>3
  <2> QED BY <1>4, <2>1, <2>2, <2>3
<1>9. ASSUME NEW w \in Passes, On(w, d, {"sending"}), pc'[w].at = "recording",
             late'[d] = IF KnownPaid(d) THEN late[d] + 1 ELSE late[d],
             UNCHANGED <<ob, route>>
      PROVE  /\ late'[d] > 0 => KnownPaid(d)'
             /\ route'[d] = "order" => late'[d] + Cardinality(K') <= N
  <2>1. late'[d] > 0 => KnownPaid(d)' BY <1>9, <1>b, <1>3
  <2>2. ASSUME route'[d] = "order" PROVE late'[d] + Cardinality(K') <= N
    <3>1. route[d] = "order" BY <1>9, <2>2
    <3>2. w \in K /\ K' \subseteq K \ {w} BY <1>5, <1>6, <1>9, <3>1
    <3>3. Cardinality(K') + 1 <= Cardinality(K) BY <1>7, <3>2, OneLess
    <3>4. late'[d] = late[d] \/ late'[d] = late[d] + 1 BY <1>9
    <3> QED BY <1>a, <1>b, <1>7, <3>1, <3>3, <3>4
  <2> QED BY <2>1, <2>2
<1>10. /\ late'[d] > 0 => KnownPaid(d)'
       /\ route'[d] = "order" => late'[d] + Cardinality(K') <= N
  BY <1>8, <1>9, SendStep
<1> QED BY <1>10 DEF K, N

(* While Razorpay's read endpoint answers, one late message leaves for     *)
(* each of the overlapping passes at most once the merchant's order is     *)
(* paid, the one it was past its re-check with: no pass reads a paid order *)
(* and sends, whoever else executes the same rows.                         *)
THEOREM LateContactsAlwaysPerPass ==
  ASSUME IsFiniteSet(Passes), FetchFails = FALSE
  PROVE  Spec => []LateContactsPerPass
<1> DEFINE I == TypeInv /\ Books /\ SandboxIsSilent /\ LateByEach
<1>1. Init => I
  <2> SUFFICES ASSUME Init PROVE I OBVIOUS
  <2>1. Books BY OnePassInit DEF OnePass
  <2>2. SandboxIsSilent BY DEF Init, SandboxIsSilent
  <2>3. LateByEach BY DEF Init, LateByEach
  <2> QED BY <2>1, <2>2, <2>3, TypeInit
<1>2. I /\ [Next]_vars => I'
  <2> SUFFICES ASSUME I, [Next]_vars PROVE I' OBVIOUS
  <2>1. LateByEach' BY LateByEachNext DEF LateByEach
  <2> QED BY <2>1, TypeNext, BooksNext, SilentNext
<1>3. I => LateContactsPerPass
  <2> SUFFICES ASSUME I, NEW d \in Debts, route[d] = "order"
               PROVE  late[d] <= Cardinality(Passes)
    BY DEF LateContactsPerPass
  <2>1. late[d] \in Nat /\ late[d] + Cardinality(Senders(d)) <= Cardinality(Passes)
    BY DEF LateByEach, TypeInv, TypeOK
  <2>2. Senders(d) \subseteq Passes BY DEF Senders
  <2>3. Cardinality(Senders(d)) \in Nat /\ Cardinality(Passes) \in Nat BY <2>2, NotMore
  <2> QED BY <2>1, <2>3
<1> HIDE DEF I
<1> QED BY <1>1, <1>2, <1>3, PTL DEF Spec

-----------------------------------------------------------------------------
(* The live path implements DebtBook, for any number of passes and faults. *)

\* The case as DebtBook sees it.
BookCase == [d \in Debts |-> GivenUp(case[d])]

LEMMA BookCaseStep ==
  ASSUME case \in [Debts -> CaseStatus \cup {"none"}], NEW d \in Debts, NEW s,
         case' = [case EXCEPT ![d] = s]
  PROVE  BookCase' = [BookCase EXCEPT ![d] = GivenUp(s)]
<1>1. \A e \in Debts : case'[e] = IF e = d THEN s ELSE case[e] OBVIOUS
<1> QED BY <1>1 DEF BookCase

(* Only some statuses stand for a case that is new, open or given up.      *)
LEMMA GivenUpOf ==
  /\ \A s \in CaseStatus \cup {"none"} : /\ GivenUp(s) = "none" <=> s = "none"
                                         /\ GivenUp(s) = "OPEN" <=> s = "OPEN"
  /\ \A s \in {"none", "OPEN", "RECOVERED", "SELF_RECOVERED"} : GivenUp(s) = s
  /\ GivenUp("WRITTEN_OFF") = "GIVEN_UP" /\ GivenUp("ESCALATED") = "GIVEN_UP"
BY DEF GivenUp, CaseStatus

LEMMA LiveOpens ==
  ASSUME TypeInv, Books, NEW d \in Debts, FailureArrives(d)
  PROVE  Shared!Open(d)
<1>a. case \in [Debts -> CaseStatus \cup {"none"}] BY DEF TypeInv, TypeOK
<1>1. ob[d] = "none" /\ case[d] = "none" BY DEF FailureArrives, Books
<1>2. case' = [case EXCEPT ![d] = "OPEN"] /\ ob' = [ob EXCEPT ![d] = "OPEN"]
  BY <1>1 DEF FailureArrives
<1>3. BookCase' = [BookCase EXCEPT ![d] = "OPEN"]
  <2>1. BookCase' = [BookCase EXCEPT ![d] = GivenUp("OPEN")] BY <1>a, <1>2, BookCaseStep
  <2>2. GivenUp("OPEN") = "OPEN" BY GivenUpOf
  <2> QED BY <2>1, <2>2
<1>4. BookCase[d] = "none" BY <1>1, GivenUpOf DEF BookCase
<1> QED BY <1>1, <1>2, <1>3, <1>4 DEF Shared!Open, BookCase

LEMMA LiveSettles ==
  ASSUME TypeInv, Books, NEW d \in Debts, ob[d] # "none",
         NEW s \in {"RECOVERED", "SELF_RECOVERED"}, Settle(d, s)
  PROVE  Shared!Settle(d)
<1>a. case \in [Debts -> CaseStatus \cup {"none"}] BY DEF TypeInv, TypeOK
<1>1. /\ ob' = [ob EXCEPT ![d] = "SETTLED"]
      /\ case' = [case EXCEPT ![d] = IF case[d] = "OPEN" THEN s ELSE case[d]]
  BY DEF Settle
<1>2. BookCase[d] = GivenUp(case[d]) BY DEF BookCase
<1>3. CASE case[d] = "OPEN"
  <2>1. case' = [case EXCEPT ![d] = s] BY <1>1, <1>3
  <2>2. BookCase' = [BookCase EXCEPT ![d] = s]
    <3>1. BookCase' = [BookCase EXCEPT ![d] = GivenUp(s)] BY <1>a, <2>1, BookCaseStep
    <3>2. GivenUp(s) = s BY GivenUpOf
    <3> QED BY <3>1, <3>2
  <2>3. BookCase[d] = "OPEN" BY <1>2, <1>3, GivenUpOf
  <2> QED BY <1>1, <2>2, <2>3 DEF Shared!Settle, BookCase
<1>4. CASE case[d] # "OPEN"
  <2>1. case' = case BY <1>a, <1>1, <1>4
  <2>2. BookCase' = BookCase BY <2>1 DEF BookCase
  <2>3. BookCase[d] # "OPEN" BY <1>a, <1>2, <1>4, GivenUpOf
  <2> QED BY <1>1, <2>2, <2>3 DEF Shared!Settle, BookCase
<1> QED BY <1>3, <1>4

LEMMA LiveGivesUp ==
  ASSUME TypeInv, Books, NEW w \in Passes, CloseCase(w)
  PROVE  Shared!Next
<1>a. case \in [Debts -> CaseStatus \cup {"none"}] BY DEF TypeInv, TypeOK
<1>1. PICK d : d = pc[w].row.debt OBVIOUS
<1>2. d \in Debts
  <2>1. pc[w] \in Places /\ pc[w].at = "apply" BY DEF CloseCase, TypeInv, TypeOK
  <2>2. pc[w].row \in CaseRows BY <2>1, PlaceFields DEF AtRow
  <2> QED BY <1>1, <2>2 DEF CaseRows
<1>3. case[d] # "none" BY <1>1 DEF CloseCase, Books, AtRow
<1>4. PICK s \in {"WRITTEN_OFF", "ESCALATED"} : case' = [case EXCEPT ![d] = s]
  BY <1>1 DEF CloseCase
<1>5. BookCase' = [BookCase EXCEPT ![d] = "GIVEN_UP"]
  <2>1. BookCase' = [BookCase EXCEPT ![d] = GivenUp(s)] BY <1>a, <1>2, <1>4, BookCaseStep
  <2>2. GivenUp(s) = "GIVEN_UP" BY GivenUpOf
  <2> QED BY <2>1, <2>2
<1>6. BookCase[d] # "none" BY <1>a, <1>2, <1>3, GivenUpOf DEF BookCase
<1>7. UNCHANGED ob BY DEF CloseCase
<1>8. Shared!GiveUp(d) BY <1>5, <1>6, <1>7 DEF Shared!GiveUp, BookCase
<1> QED BY <1>2, <1>8 DEF Shared!Next

LEMMA LiveBooksStep ==
  ASSUME TypeInv, Books, [Next]_vars
  PROVE  Shared!Next \/ UNCHANGED <<ob, BookCase>>
<1>1. CASE UNCHANGED <<ob, case>> BY <1>1 DEF BookCase
<1>2. CASE \E d \in Debts : FailureArrives(d) BY <1>2, LiveOpens DEF Shared!Next
<1>3. CASE Settling
  <2>1. PICK d \in Debts : SettleWebhook(d) \/ Ledger(d) BY <1>3 DEF Settling
  <2>2. PICK s \in {"RECOVERED", "SELF_RECOVERED"} : Settle(d, s)
    BY <2>1 DEF SettleWebhook, Ledger
  <2>3. ob[d] # "none" BY <2>1 DEF SettleWebhook, Ledger, Books
  <2> QED BY <2>2, <2>3, LiveSettles DEF Shared!Next
<1>4. CASE \E w \in Passes : CloseCase(w) BY <1>4, LiveGivesUp
<1> QED BY <1>1, <1>2, <1>3, <1>4, Writers

(* Whatever passes overlap and are cut short, the live path does no more   *)
(* to a debt and its case than DebtBook allows: a pass closes a case that  *)
(* it read earlier, but never one that was not there, and reopens none.    *)
THEOREM LiveAlwaysKeepsTheBooks == Spec => LiveKeepsTheBooks
<1> DEFINE I == TypeInv /\ Books
<1>1. Init => I BY OnePassInit DEF OnePass
<1>2. I /\ [Next]_vars => I' BY TypeNext, BooksNext
<1>3. Init => Shared!Init BY GivenUpOf DEF Init, Shared!Init
<1>4. I /\ [Next]_vars => [Shared!Next]_(Shared!vars)
  BY LiveBooksStep DEF Shared!vars, BookCase
<1> HIDE DEF I
<1> QED BY <1>1, <1>2, <1>3, <1>4, PTL DEF Spec, LiveKeepsTheBooks, Shared!Spec
=============================================================================
