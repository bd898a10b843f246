-------------------------- MODULE LiveWorkerProofs --------------------------
(***************************************************************************)
(* Proofs about LiveWorker.  TypeInv (the types, and Hands) holds for any  *)
(* number of passes, faults, pauses and executors; OneLiveAction holds    *)
(* when passes do not overlap, from the inductive invariant OnePassInv.    *)
(***************************************************************************)
EXTENDS LiveInvariant, EngineLemmas

TypeInv == TypeOK /\ Hands

-----------------------------------------------------------------------------
(* What the operators return.                                              *)

(* decide() answers with an action or NONE, whatever it is shown.          *)
LEMMA LiveDecisionType ==
  ASSUME NEW row, NEW down, NEW worth
  PROVE  Decide(Snapshot(row, down), worth) \in Decisions
<1>1. ~(Snapshot(row, down).promisedFor > 0)
  BY DEF Snapshot
<1> QED BY <1>1, DecideType

(* The rung an action takes a case to is a rung.                           *)
LEMMA ClimbedType ==
  ASSUME NEW a \in Actions, NEW r \in 0..6
  PROVE  Climbed(a, r) \in 0..6
BY DEF Climbed, RungOf, Actions

(* What a pass holds, by where it is.                                      *)
LEMMA PlaceFields ==
  ASSUME NEW p \in Places
  PROVE  /\ p.at \in AtRow => p.row \in CaseRows /\ p.action \in Actions
         /\ p.at \in AtId => p.id \in ActionIds
         /\ p.at = "closing" => p.ok \in BOOLEAN
BY DEF Places, AtRow, AtId

(* A row in use is an action row, and stays one under Mark.                *)
LEMMA UsedRows ==
  ASSUME act \in [ActionIds -> ActionRows \cup {Free}], NEW i \in Used
  PROVE  /\ i \in ActionIds /\ act[i] \in ActionRows /\ act[i].debt \in Debts
         /\ act[i].type \in Actions
BY DEF Used, ActionRows

LEMMA FreshId ==
  ASSUME Used # ActionIds
  PROVE  NewId \in ActionIds /\ act[NewId] = Free /\ NewId \notin Used
BY DEF NewId, Used

LEMMA MarkType ==
  ASSUME act \in [ActionIds -> ActionRows \cup {Free}],
         NEW ids, ids \subseteq Used, NEW st \in LiveStatus \cup EndStatus,
         act' = Mark(ids, st)
  PROVE  /\ act' \in [ActionIds -> ActionRows \cup {Free}]
         /\ Used' = Used
         /\ \A i \in Used : act'[i].debt = act[i].debt /\ act'[i].type = act[i].type
         /\ \A i \in Used : act'[i].status = IF i \in ids THEN st ELSE act[i].status
<1>1. ASSUME NEW i \in ActionIds
      PROVE  /\ act'[i] \in ActionRows \cup {Free}
             /\ act'[i] # Free <=> act[i] # Free
             /\ i \in Used => /\ act'[i].debt = act[i].debt /\ act'[i].type = act[i].type
                              /\ act'[i].status = IF i \in ids THEN st ELSE act[i].status
  <2>1. CASE i \in ids
    <3>1. act[i] \in ActionRows BY <2>1, UsedRows
    <3>2. act'[i] = [act[i] EXCEPT !.status = st] BY <2>1 DEF Mark
    <3>3. act'[i] \in ActionRows BY <3>1, <3>2 DEF ActionRows
    <3>4. \A r \in ActionRows : r # Free
      BY DEF ActionRows, Free, LiveStatus, EndStatus
    <3> QED BY <2>1, <3>1, <3>2, <3>3, <3>4 DEF ActionRows
  <2>2. CASE i \notin ids
    BY <2>2 DEF Mark
  <2> QED BY <2>1, <2>2
<1> QED BY <1>1 DEF Mark, Used
-----------------------------------------------------------------------------
(* Type correctness.                                                       *)

(* A step that touches no pass and only adds or marks rows keeps Hands.    *)
LEMMA HandsFrame ==
  ASSUME Hands, Used \subseteq Used', UNCHANGED <<pc, todo, queue>>
  PROVE  Hands'
BY DEF Hands, HandOf

LEMMA TypeInit == Init => TypeInv
<1> SUFFICES ASSUME Init PROVE TypeInv OBVIOUS
<1>1. TypeOK
  <2>1. [at |-> "idle"] \in Places BY DEF Places
  <2>2. act \in [ActionIds -> ActionRows \cup {Free}] BY DEF Init
  <2>3. faults \in 0..MaxFaults BY LiveAssumption DEF Init
  <2>4. /\ pc \in [Passes -> Places] /\ held \in [Passes -> [pauses : SUBSET AllPauses, port : Ports \cup {"none"}]]
        /\ todo \in [Passes -> SUBSET CaseRows] /\ queue \in [Passes -> SUBSET ActionIds]
    BY <2>1 DEF Init, Idle
  <2>5. /\ ob \in [Debts -> {"none", "OPEN", "SETTLED"}]
        /\ case \in [Debts -> CaseStatus \cup {"none"}] /\ rung \in [Debts -> 0..6]
        /\ route \in [Debts -> Routes]
    BY DEF Init, Routes
  <2>6. /\ contacts \in [Debts -> Nat] /\ aged \in [Debts -> Nat]
        /\ sent \in [Debts -> Nat] /\ late \in [Debts -> Nat] /\ duds \in Nat
    BY DEF Init
  <2>7. mode \in Ports BY LiveAssumption DEF Init
  <2>8. /\ links \subseteq Debts \X Actions \X BOOLEAN /\ pauses \subseteq AllPauses
        /\ lapsed \subseteq Debts /\ night \in BOOLEAN
    BY DEF Init
  <2> QED BY <2>2, <2>3, <2>4, <2>5, <2>6, <2>7, <2>8 DEF TypeOK
<1>2. Hands
  BY DEF Init, Hands, HandOf, AtId, AtRow
<1> QED BY <1>1, <1>2 DEF TypeInv

(* With its link, a pass has the same action in hand as before.            *)
LEMMA WithLinkType ==
  ASSUME pc \in [Passes -> Places], NEW w \in Passes, NEW stub \in BOOLEAN,
         pc[w].at \in AtId, WithLink(w, stub)
  PROVE  /\ pc' \in [Passes -> Places]
         /\ pc'[w].at \in {"closing", "sending"} /\ pc'[w].id = pc[w].id
         /\ \A v \in Passes \ {w} : pc'[v] = pc[v]
<1>1. pc[w].id \in ActionIds BY PlaceFields
<1>2. /\ [at |-> "closing", id |-> pc[w].id, ok |-> TRUE] \in Places
      /\ [at |-> "sending", id |-> pc[w].id, stub |-> stub] \in Places
  BY <1>1 DEF Places
<1> QED BY <1>2 DEF WithLink, Goto

LEMMA FindLinkType ==
  ASSUME TypeOK, NEW w \in Passes, FindLink(w)
  PROVE  /\ pc' \in [Passes -> Places]
         /\ pc'[w].at \in AtId /\ pc'[w].id = pc[w].id
         /\ \A v \in Passes \ {w} : pc'[v] = pc[v]
<1>1. pc[w].id \in ActionIds
  BY PlaceFields DEF FindLink, TypeOK, AtId
<1>2. CASE \E l \in links : WithLink(w, l[3])
  <2>1. PICK l \in links : WithLink(w, l[3]) BY <1>2
  <2>2. l[3] \in BOOLEAN BY DEF TypeOK
  <2> QED BY <2>1, <2>2, WithLinkType DEF FindLink, TypeOK, AtId
<1>3. CASE Goto(w, [at |-> "closing", id |-> pc[w].id, ok |-> FALSE])
  BY <1>1, <1>3 DEF TypeOK, Goto, Places, AtId
<1>4. CASE Goto(w, [at |-> "minting", id |-> pc[w].id])
  BY <1>1, <1>4 DEF TypeOK, Goto, Places, AtId
<1> QED BY <1>2, <1>3, <1>4 DEF FindLink

(* One step of a pass.                                                     *)
LEMMA TypePass ==
  ASSUME TypeInv, NEW w \in Passes, PassStep(w) \/ Abandon(w)
  PROVE  TypeInv'
<1> USE DEF TypeInv
<1>1. CASE StartTick(w)
  <2>1. TypeOK'
    BY <1>1 DEF StartTick, TypeOK, Goto, store, world, hist, Places
  <2>2. Hands'
    BY <1>1 DEF StartTick, TypeOK, Hands, HandOf, Used, Goto, store, AtId, AtRow
  <2> QED BY <2>1, <2>2
<1>2. CASE OpenCases(w)
  <2>1. TypeOK'
    <3>1. todo' \in [Passes -> SUBSET CaseRows]
      BY <1>2 DEF OpenCases, TypeOK, CaseRows
    <3>2. pc' \in [Passes -> Places]
      BY <1>2 DEF OpenCases, TypeOK, Goto, Places
    <3> QED BY <1>2, <3>1, <3>2 DEF OpenCases, TypeOK, store, world, hist
  <2>2. Hands'
    BY <1>2 DEF OpenCases, TypeOK, Hands, HandOf, Used, Goto, store, AtId, AtRow
  <2> QED BY <2>1, <2>2
<1>3. CASE DecideCase(w)
  <2>1. TypeOK'
    <3>1. todo' \in [Passes -> SUBSET CaseRows]
      BY <1>3 DEF DecideCase, TypeOK
    <3>2. ASSUME NEW row \in todo[w], NEW a \in Decisions, a \notin {"NONE", "WAIT"}
          PROVE  [at |-> "apply", row |-> row, action |-> a] \in Places
      BY <3>2 DEF TypeOK, Places, Decisions
    <3>3. \A row \in todo[w], down, worth \in BOOLEAN :
             Decide(Snapshot(row, down), worth) \in Decisions
      BY LiveDecisionType
    <3>4. pc' \in [Passes -> Places]
      BY <1>3, <3>2, <3>3 DEF DecideCase, TypeOK, Goto
    <3> QED BY <1>3, <3>1, <3>4 DEF DecideCase, TypeOK, store, world, hist
  <2>2. Hands'
    BY <1>3 DEF DecideCase, TypeOK, Hands, HandOf, Used, Goto, store, AtId, AtRow
  <2> QED BY <2>1, <2>2
<1>4. CASE CloseCase(w)
  <2>1. TypeOK'
    <3>1. pc[w].row.debt \in Debts
      BY <1>4, PlaceFields DEF CloseCase, TypeOK, AtRow, CaseRows
    <3>2. case' \in [Debts -> CaseStatus \cup {"none"}]
      BY <1>4, <3>1 DEF CloseCase, TypeOK, CaseStatus
    <3>3. pc' \in [Passes -> Places]
      BY <1>4 DEF CloseCase, TypeOK, Goto, Places
    <3> QED BY <1>4, <3>2, <3>3 DEF CloseCase, TypeOK, world, hist
  <2>2. Hands'
    BY <1>4 DEF CloseCase, TypeOK, Hands, HandOf, Used, Goto, store, AtId, AtRow
  <2> QED BY <2>1, <2>2
<1>5. CASE DropPausedAction(w)
  <2>1. TypeOK'
    BY <1>5 DEF DropPausedAction, TypeOK, Goto, store, world, hist, Places
  <2>2. Hands'
    BY <1>5 DEF DropPausedAction, TypeOK, Hands, HandOf, Used, Goto, store, AtId, AtRow
  <2> QED BY <2>1, <2>2
<1>6. CASE Schedule(w)
  <2>1. pc[w] \in Places /\ pc[w].row \in CaseRows /\ pc[w].action \in Actions
    BY <1>6, PlaceFields DEF Schedule, TypeOK, AtRow
  <2>2. pc' \in [Passes -> Places]
    <3>1. [pc[w] EXCEPT !.at = "climb"] \in Places
      BY <1>6, <2>1 DEF Schedule, Places
    <3> QED BY <1>6, <3>1 DEF Schedule, TypeOK, Goto
  <2>3. /\ act' \in [ActionIds -> ActionRows \cup {Free}]
        /\ Used \subseteq Used'
    <3>1. CASE UNCHANGED act
      BY <3>1 DEF TypeOK, Used
    <3>2. CASE /\ Used # ActionIds
               /\ act' = [act EXCEPT ![NewId] =
                            [status |-> "PENDING", debt |-> pc[w].row.debt,
                             type |-> pc[w].action, due |-> FALSE]]
      <4> DEFINE new == [status |-> "PENDING", debt |-> pc[w].row.debt,
                         type |-> pc[w].action, due |-> FALSE]
      <4>1. new \in ActionRows BY <2>1 DEF ActionRows, LiveStatus, CaseRows
      <4>2. NewId \in ActionIds /\ NewId \notin Used BY <3>2, FreshId
      <4>3. act' = [act EXCEPT ![NewId] = new] BY <3>2
      <4> HIDE DEF new
      <4>4. act' \in [ActionIds -> ActionRows \cup {Free}]
        BY <4>1, <4>2, <4>3 DEF TypeOK
      <4>5. \A i \in Used : act'[i] = act[i] BY <4>2, <4>3 DEF TypeOK, Used
      <4> QED BY <4>4, <4>5 DEF Used
    <3> QED BY <1>6, <3>1, <3>2 DEF Schedule
  <2>4. TypeOK'
    BY <1>6, <2>2, <2>3 DEF Schedule, TypeOK, world, hist
  <2>5. Hands'
    BY <1>6, <2>3 DEF Schedule, TypeOK, Hands, HandOf, Goto, AtId, AtRow
  <2> QED BY <2>4, <2>5
<1>7. CASE Climb(w)
  <2>1. TypeOK'
    <3>1. pc[w].row \in CaseRows /\ pc[w].action \in Actions
      BY <1>7, PlaceFields DEF Climb, TypeOK, AtRow
    <3>2. Climbed(pc[w].action, pc[w].row.rung) \in 0..6
      BY <3>1, ClimbedType DEF CaseRows
    <3>3. rung' \in [Debts -> 0..6]
      BY <1>7, <3>1, <3>2 DEF Climb, TypeOK, CaseRows
    <3>4. pc' \in [Passes -> Places]
      BY <1>7 DEF Climb, TypeOK, Goto, Places
    <3> QED BY <1>7, <3>3, <3>4 DEF Climb, TypeOK, world, hist
  <2>2. Hands'
    BY <1>7 DEF Climb, TypeOK, Hands, HandOf, Used, Goto, store, AtId, AtRow
  <2> QED BY <2>1, <2>2
<1>8. CASE ReadDue(w)
  <2>1. TypeOK'
    <3>1. queue' \in [Passes -> SUBSET ActionIds]
      BY <1>8 DEF ReadDue, TypeOK, Used
    <3>2. pc' \in [Passes -> Places]
      BY <1>8 DEF ReadDue, TypeOK, Goto, Places
    <3> QED BY <1>8, <3>1, <3>2 DEF ReadDue, TypeOK, store, world, hist
  <2>2. Hands'
    BY <1>8 DEF ReadDue, TypeOK, Hands, HandOf, Used, Goto, store, AtId, AtRow
  <2> QED BY <2>1, <2>2
<1>9. CASE CancelHeld(w)
  <2>1. PICK i \in queue[w] : /\ act' = Mark({i}, "CANCELLED")
                              /\ queue' = [queue EXCEPT ![w] = @ \ {i}]
    BY <1>9 DEF CancelHeld
  <2>2. act' \in [ActionIds -> ActionRows \cup {Free}] /\ Used' = Used
    BY <2>1, MarkType DEF TypeOK, Hands, HandOf, EndStatus
  <2>3. TypeOK'
    BY <1>9, <2>1, <2>2 DEF CancelHeld, TypeOK, world, hist
  <2>4. Hands'
    BY <1>9, <2>1, <2>2 DEF CancelHeld, TypeOK, Hands, HandOf, AtId
  <2> QED BY <2>3, <2>4
<1>10. CASE Recheck(w)
  <2>1. PICK i \in queue[w] :
          /\ queue' = [queue EXCEPT ![w] = @ \ {i}]
          /\ \/ act' = Mark({i}, "ABORTED") /\ UNCHANGED pc
             \/ Goto(w, [at |-> "cleared", id |-> i]) /\ UNCHANGED act
    BY <1>10 DEF Recheck
  <2>2. i \in Used /\ i \in ActionIds
    BY DEF Hands, HandOf, Used
  <2>3. act' \in [ActionIds -> ActionRows \cup {Free}] /\ Used' = Used
    <3>1. CASE act' = Mark({i}, "ABORTED")
      BY <2>2, <3>1, MarkType DEF TypeOK, EndStatus
    <3>2. CASE UNCHANGED act
      BY <3>2 DEF TypeOK, Used
    <3> QED BY <2>1, <3>1, <3>2
  <2>4. pc' \in [Passes -> Places]
    BY <2>1, <2>2 DEF TypeOK, Goto, Places
  <2>5. TypeOK'
    BY <1>10, <2>1, <2>3, <2>4 DEF Recheck, TypeOK, world, hist
  <2>6. Hands'
    BY <1>10, <2>1, <2>2, <2>3 DEF Recheck, TypeOK, Hands, HandOf, Goto, AtId, AtRow
  <2> QED BY <2>5, <2>6
<1>11. CASE MarkInFlight(w)
  <2>1. pc[w].id \in Used
    BY <1>11 DEF MarkInFlight, Hands, HandOf, AtId
  <2>2. act' \in [ActionIds -> ActionRows \cup {Free}] /\ Used' = Used
    BY <1>11, <2>1, MarkType DEF MarkInFlight, TypeOK, LiveStatus
  <2>3. pc' \in [Passes -> Places]
    BY <1>11, <2>1 DEF MarkInFlight, TypeOK, Goto, Places, Used
  <2>4. TypeOK'
    BY <1>11, <2>2, <2>3 DEF MarkInFlight, TypeOK, world, hist
  <2>5. Hands'
    BY <1>11, <2>2 DEF MarkInFlight, TypeOK, Hands, HandOf, Goto, AtId, AtRow
  <2> QED BY <2>4, <2>5
<1>12. CASE FindLink(w)
  <2>1. /\ pc' \in [Passes -> Places] /\ pc'[w].at \in AtId /\ pc'[w].id = pc[w].id
        /\ \A v \in Passes \ {w} : pc'[v] = pc[v]
    BY <1>12, FindLinkType
  <2>2. TypeOK'
    BY <1>12, <2>1 DEF FindLink, TypeOK, store, world, hist
  <2>3. Hands'
    BY <1>12, <2>1 DEF FindLink, TypeOK, Hands, HandOf, Used, store, AtId, AtRow
  <2> QED BY <2>2, <2>3
<1>13. CASE Mint(w)
  <2>1. pc[w].id \in Used /\ pc[w].id \in ActionIds
    BY <1>13 DEF Mint, Hands, HandOf, AtId, Used
  <2>2. act[pc[w].id].debt \in Debts /\ act[pc[w].id].type \in Actions
    BY <2>1, UsedRows DEF TypeOK
  <2>3. /\ pc' \in [Passes -> Places] /\ pc'[w].at \in AtId /\ pc'[w].id = pc[w].id
        /\ \A v \in Passes \ {w} : pc'[v] = pc[v]
    <3>1. (held[w].port = "dry_run") \in BOOLEAN OBVIOUS
    <3> QED BY <1>13, <3>1, WithLinkType DEF Mint, TypeOK, AtId
  <2>4. links' \subseteq Debts \X Actions \X BOOLEAN
    <3>1. <<act[pc[w].id].debt, act[pc[w].id].type, held[w].port = "dry_run">>
             \in Debts \X Actions \X BOOLEAN
      BY <2>2
    <3> QED BY <1>13, <3>1 DEF Mint, TypeOK
  <2>5. faults' \in 0..MaxFaults
    BY <1>13, LiveAssumption DEF Mint, TypeOK
  <2>6. TypeOK'
    BY <1>13, <2>3, <2>4, <2>5 DEF Mint, TypeOK, world, hist
  <2>7. Hands'
    BY <1>13, <2>3 DEF Mint, TypeOK, Hands, HandOf, Used, AtId, AtRow
  <2> QED BY <2>6, <2>7
<1>14. CASE MintFails(w)
  <2>1. TypeOK'
    BY <1>14 DEF MintFails, TypeOK, Goto, store, world, hist, Places
  <2>2. Hands'
    BY <1>14 DEF MintFails, TypeOK, Hands, HandOf, Used, Goto, store, AtId, AtRow
  <2> QED BY <2>1, <2>2
<1>15. CASE Send(w)
  <2>1. TypeOK'
    <3>1. pc[w].id \in Used /\ pc[w].id \in ActionIds
      BY <1>15 DEF Send, Hands, HandOf, AtId, Used
    <3>2. act[pc[w].id].debt \in Debts /\ act[pc[w].id].type \in Actions
      BY <3>1, UsedRows DEF TypeOK
    <3>3. pc' \in [Passes -> Places]
      <4>1. /\ [at |-> "recording", id |-> pc[w].id] \in Places
            /\ [at |-> "closing", id |-> pc[w].id, ok |-> FALSE] \in Places
        BY <3>1 DEF Places
      <4> QED BY <1>15, <4>1 DEF Send, TypeOK, Goto
    <3>4. sent' \in [Debts -> Nat] /\ late' \in [Debts -> Nat]
      <4> DEFINE d == act[pc[w].id].debt
      <4>1. \/ /\ sent' = [sent EXCEPT ![d] = sent[d] + 1]
               /\ late' = [late EXCEPT ![d] = IF KnownPaid(d) THEN late[d] + 1 ELSE late[d]]
            \/ sent' = sent /\ late' = late
        BY <1>15, Zenon DEF Send
      <4> QED BY <3>2, <4>1 DEF TypeOK
    <3>5. duds' \in Nat
      <4>1. duds' = duds \/ duds' = duds + 1
        BY <1>15 DEF Send
      <4> QED BY <4>1 DEF TypeOK
    <3> QED BY <1>15, <3>3, <3>4, <3>5 DEF Send, TypeOK, store, world
  <2>2. Hands'
    BY <1>15 DEF Send, TypeOK, Hands, HandOf, Used, Goto, store, AtId, AtRow
  <2> QED BY <2>1, <2>2
<1>16. CASE RecordContact(w)
  <2>1. TypeOK'
    <3>1. pc[w].id \in Used /\ pc[w].id \in ActionIds
      BY <1>16 DEF RecordContact, Hands, HandOf, AtId, Used
    <3>2. act[pc[w].id].debt \in Debts /\ act[pc[w].id].type \in Actions
      BY <3>1, UsedRows DEF TypeOK
    <3>3. pc' \in [Passes -> Places]
      BY <1>16, <3>1 DEF RecordContact, TypeOK, Goto, Places
    <3>4. contacts' \in [Debts -> Nat] /\ faults' \in 0..MaxFaults
      BY <1>16, <3>2, LiveAssumption DEF RecordContact, TypeOK
    <3> QED BY <1>16, <3>3, <3>4 DEF RecordContact, TypeOK, world, hist
  <2>2. Hands'
    BY <1>16 DEF RecordContact, TypeOK, Hands, HandOf, Used, Goto, store, AtId, AtRow
  <2> QED BY <2>1, <2>2
<1>17. CASE CallSandbox(w)
  <2>1. pc[w].id \in Used /\ pc[w].id \in ActionIds
    BY <1>17 DEF CallSandbox, Hands, HandOf, AtId, Used
  <2>2. act' \in [ActionIds -> ActionRows \cup {Free}] /\ Used' = Used
    <3>1. CASE act' = Mark({pc[w].id}, "UNKNOWN")
      BY <2>1, <3>1, MarkType DEF TypeOK, LiveStatus
    <3>2. CASE UNCHANGED act
      BY <3>2 DEF TypeOK, Used
    <3> QED BY <1>17, <3>1, <3>2 DEF CallSandbox
  <2>3. pc' \in [Passes -> Places]
    <3>1. /\ [at |-> "executing"] \in Places
          /\ [at |-> "closing", id |-> pc[w].id, ok |-> TRUE] \in Places
      BY <2>1 DEF Places
    <3> QED BY <1>17, <2>1, <3>1 DEF CallSandbox, TypeOK, Goto
  <2>4. TypeOK'
    BY <1>17, <2>2, <2>3 DEF CallSandbox, TypeOK, world, hist
  <2>5. Hands'
    BY <1>17, <2>2 DEF CallSandbox, TypeOK, Hands, HandOf, Goto, AtId, AtRow
  <2> QED BY <2>4, <2>5
<1>18. CASE Finish(w)
  <2>1. pc[w].id \in Used
    BY <1>18 DEF Finish, Hands, HandOf, AtId
  <2>2. act' \in [ActionIds -> ActionRows \cup {Free}] /\ Used' = Used
    BY <1>18, <2>1, MarkType DEF Finish, TypeOK, EndStatus
  <2>3. pc' \in [Passes -> Places]
    BY <1>18 DEF Finish, TypeOK, Goto, Places
  <2>4. TypeOK'
    BY <1>18, <2>2, <2>3 DEF Finish, TypeOK, world, hist
  <2>5. Hands'
    BY <1>18, <2>2 DEF Finish, TypeOK, Hands, HandOf, Goto, AtId, AtRow
  <2> QED BY <2>4, <2>5
<1>19. CASE FinishTick(w)
  <2>1. TypeOK'
    BY <1>19 DEF FinishTick, TypeOK, Goto, store, world, hist, Places, Idle
  <2>2. Hands'
    BY <1>19 DEF FinishTick, TypeOK, Hands, HandOf, Used, Goto, store, AtId, AtRow
  <2> QED BY <2>1, <2>2
<1>20. CASE Abandon(w)
  <2>1. TypeOK'
    <3>1. faults' \in 0..MaxFaults
      BY <1>20, LiveAssumption DEF Abandon, TypeOK
    <3>2. pc' \in [Passes -> Places]
      BY <1>20 DEF Abandon, TypeOK, Goto, Places
    <3>3. /\ held' \in [Passes -> [pauses : SUBSET AllPauses, port : Ports \cup {"none"}]]
          /\ todo' \in [Passes -> SUBSET CaseRows] /\ queue' \in [Passes -> SUBSET ActionIds]
      BY <1>20 DEF Abandon, TypeOK, Idle
    <3> QED BY <1>20, <3>1, <3>2, <3>3 DEF Abandon, TypeOK, store, world, hist
  <2>2. Hands'
    BY <1>20 DEF Abandon, TypeOK, Hands, HandOf, Used, Goto, store, AtId, AtRow
  <2> QED BY <2>1, <2>2
<1> QED BY <1>1, <1>2, <1>3, <1>4, <1>5, <1>6, <1>7, <1>8, <1>9, <1>10, <1>11, <1>12, <1>13, <1>14, <1>15, <1>16, <1>17, <1>18, <1>19, <1>20 DEF PassStep

(* One step of somebody else.                                              *)
LEMMA TypeEnv ==
  ASSUME TypeInv,
         \/ \E d \in Debts : EnvStep(d)
         \/ \E i \in ActionIds : TimeReaches(i)
         \/ \E p \in PauseScopes : RaisePause(p)
         \/ Clock \/ Resume \/ SwitchMode \/ Reconcile
  PROVE  TypeInv'
<1> USE DEF TypeInv
<1> DEFINE Rows == act \in [ActionIds -> ActionRows \cup {Free}]
<1>1. ASSUME NEW d \in Debts, FailureArrives(d) PROVE TypeInv'
  <2>1. TypeOK' BY <1>1 DEF FailureArrives, TypeOK, CaseStatus, world, hist
  <2>2. Hands'  BY <1>1, HandsFrame DEF FailureArrives, Used
  <2> QED BY <2>1, <2>2
<1>2. ASSUME NEW d \in Debts, NEW st \in CaseStatus, Settle(d, st) PROVE TypeInv'
  <2>1. PendingOf(d) \subseteq Used BY DEF PendingOf
  <2>2. Rows' /\ Used' = Used
    BY <1>2, <2>1, MarkType DEF Settle, TypeOK, EndStatus
  <2>3. TypeOK' BY <1>2, <2>2 DEF Settle, TypeOK, world, hist
  <2>4. Hands'  BY <1>2, <2>2, HandsFrame DEF Settle
  <2> QED BY <2>3, <2>4
<1>3. ASSUME NEW d \in Debts, SettleWebhook(d) PROVE TypeInv'
  <2>1. CASE Settle(d, "RECOVERED") BY <1>2, <2>1 DEF CaseStatus
  <2>2. CASE Settle(d, "SELF_RECOVERED") BY <1>2, <2>2 DEF CaseStatus
  <2> QED BY <1>3, <2>1, <2>2 DEF SettleWebhook
<1>4. ASSUME NEW d \in Debts, Ledger(d) PROVE TypeInv'
  BY <1>2, <1>4 DEF Ledger, CaseStatus
<1>5. ASSUME NEW d \in Debts, Lapse(d) PROVE TypeInv'
  <2>1. TypeOK' BY <1>5 DEF Lapse, TypeOK, store, hist
  <2>2. Hands'  BY <1>5, HandsFrame DEF Lapse, store, Used
  <2> QED BY <2>1, <2>2
<1>6. ASSUME NEW d \in Debts, AgeContact(d) PROVE TypeInv'
  <2>1. TypeOK' BY <1>6 DEF AgeContact, TypeOK, store, hist
  <2>2. Hands'  BY <1>6, HandsFrame DEF AgeContact, store, Used
  <2> QED BY <2>1, <2>2
<1>7. ASSUME NEW d \in Debts, NEW how \in PayBy, Pay(d, how) PROVE TypeInv'
  <2>1. TypeOK' BY <1>7, LiveAssumption DEF Pay, TypeOK, store, hist
  <2>2. Hands'  BY <1>7, HandsFrame DEF Pay, store, Used
  <2> QED BY <2>1, <2>2
<1>8. ASSUME NEW i \in ActionIds, TimeReaches(i) PROVE TypeInv'
  <2>1. act[i] \in ActionRows /\ act' = [act EXCEPT ![i] = [act[i] EXCEPT !.due = TRUE]]
    BY <1>8, UsedRows DEF TimeReaches, TypeOK
  <2>2. [act[i] EXCEPT !.due = TRUE] \in ActionRows BY <2>1 DEF ActionRows
  <2>3. Rows' BY <2>1, <2>2 DEF TypeOK
  <2>4. \A r \in ActionRows : r # Free
    BY DEF ActionRows, Free, LiveStatus, EndStatus
  <2>5. Used \subseteq Used' BY <2>1, <2>2, <2>4 DEF TypeOK, Used
  <2>6. TypeOK' BY <1>8, <2>3 DEF TimeReaches, TypeOK, world, hist
  <2>7. Hands'  BY <1>8, <2>5, HandsFrame DEF TimeReaches
  <2> QED BY <2>6, <2>7
<1>9. ASSUME NEW p \in PauseScopes, RaisePause(p) PROVE TypeInv'
  <2>1. InScope(p) \subseteq Used BY DEF InScope
  <2>2. Rows' /\ Used' = Used
    BY <1>9, <2>1, MarkType DEF RaisePause, TypeOK, EndStatus
  <2>3. TypeOK' BY <1>9, <2>2, LiveAssumption DEF RaisePause, TypeOK, world, hist
  <2>4. Hands'  BY <1>9, <2>2, HandsFrame DEF RaisePause
  <2> QED BY <2>3, <2>4
<1>10. CASE Clock
  <2>1. TypeOK' BY <1>10 DEF Clock, TypeOK, store, hist
  <2>2. Hands'  BY <1>10, HandsFrame DEF Clock, store, Used
  <2> QED BY <2>1, <2>2
<1>11. CASE Resume
  <2>1. TypeOK' BY <1>11 DEF Resume, TypeOK, store, world, hist
  <2>2. Hands'  BY <1>11, HandsFrame DEF Resume, store, Used
  <2> QED BY <2>1, <2>2
<1>12. CASE Reconcile
  <2>1. ASSUME NEW i \in ActionIds
        PROVE  act'[i] \in ActionRows \cup {Free} /\ (act'[i] # Free <=> act[i] # Free)
    <3>1. CASE act[i] = Free \/ act[i].status # "UNKNOWN"
      BY <1>12, <3>1 DEF Reconcile, TypeOK
    <3>2. CASE ~(act[i] = Free \/ act[i].status # "UNKNOWN")
      <4>1. act[i] \in ActionRows BY <3>2 DEF TypeOK
      <4>2. PICK st \in {"DONE", "FAILED"} : act'[i] = [act[i] EXCEPT !.status = st]
        BY <1>12, <3>2 DEF Reconcile
      <4>3. act'[i] \in ActionRows BY <4>1, <4>2 DEF ActionRows, EndStatus
      <4>4. \A r \in ActionRows : r # Free
        BY DEF ActionRows, Free, LiveStatus, EndStatus
      <4> QED BY <3>2, <4>3, <4>4
    <3> QED BY <3>1, <3>2
  <2>2. Rows' /\ Used' = Used BY <1>12, <2>1 DEF Reconcile, Used
  <2>3. TypeOK' BY <1>12, <2>2 DEF Reconcile, TypeOK, world, hist
  <2>4. Hands'  BY <1>12, <2>2, HandsFrame DEF Reconcile
  <2> QED BY <2>3, <2>4
<1>13. CASE SwitchMode
  <2>1. TypeOK' BY <1>13, LiveAssumption DEF SwitchMode, TypeOK, store, hist
  <2>2. Hands'  BY <1>13, HandsFrame DEF SwitchMode, store, Used
  <2> QED BY <2>1, <2>2
<1> QED
  BY <1>1, <1>3, <1>4, <1>5, <1>6, <1>7, <1>8, <1>9, <1>10, <1>11, <1>12, <1>13 DEF EnvStep

LEMMA TypeStutter == TypeInv /\ UNCHANGED vars => TypeInv'
BY DEF TypeInv, TypeOK, Hands, HandOf, Used, vars

(* The type invariant of the live path, whatever the passes, faults,      *)
(* pauses and executors: no step writes a status, place or rung outside    *)
(* its set, and every action a pass holds is a row that exists.            *)
THEOREM TypeCorrect == Spec => []TypeOK
<1>1. TypeInv /\ [Next]_vars => TypeInv'
  BY TypePass, TypeEnv, TypeStutter DEF Next
<1>2. Spec => []TypeInv
  BY <1>1, TypeInit, PTL DEF Spec
<1> QED BY <1>2, PTL DEF TypeInv
-----------------------------------------------------------------------------
(* One live action per case, for one pass.                                 *)

(* The part of OnePassInv that is about what is alive.                     *)
Alone == RowsAreFree /\ HandsAreAlone /\ OneLiveAction

(* Where no action comes alive, and the pass takes on nothing it did not   *)
(* hold, everything stays alone.                                           *)
LEMMA NothingComesAlive ==
  ASSUME TypeInv, Alone, TypeInv',
         \A d \in Debts : Live(d)' \subseteq Live(d),
         \A i \in Used : act'[i].debt = act[i].debt,
         \A w \in Passes :
           /\ HandOf(w)' \subseteq HandOf(w) /\ todo'[w] \subseteq todo[w]
           /\ pc'[w].at = "apply" => pc'[w] = pc[w]
           /\ pc'[w].at \in AtRow => pc[w].at \in AtRow /\ pc'[w].row = pc[w].row
  PROVE  Alone'
<1>1. \A w \in Passes : \A r \in todo[w] : r.debt \in Debts
  BY DEF TypeInv, TypeOK, CaseRows
<1>2. \A w \in Passes : pc[w].at \in AtRow => pc[w].row.debt \in Debts
  BY PlaceFields DEF TypeInv, TypeOK, CaseRows
<1>3. RowsAreFree'
  <2> SUFFICES ASSUME NEW w \in Passes
               PROVE  /\ \A r \in todo'[w] : Live(r.debt)' = {}
                      /\ \A r, q \in todo'[w] : r.debt = q.debt => r = q
                      /\ pc'[w].at = "apply" => Live(pc[w].row.debt)' = {} /\ pc'[w].row = pc[w].row
                      /\ pc'[w].at \in AtRow => \A r \in todo'[w] : r.debt # pc'[w].row.debt
    BY DEF RowsAreFree, Live, Used
  <2>1. \A r \in todo'[w] : Live(r.debt)' = {}
    BY <1>1 DEF Alone, RowsAreFree
  <2>2. pc'[w].at = "apply" => Live(pc[w].row.debt)' = {} /\ pc'[w].row = pc[w].row
    BY <1>2 DEF Alone, RowsAreFree, AtRow
  <2> QED BY <2>1, <2>2 DEF Alone, RowsAreFree
<1>4. HandsAreAlone'
  <2> SUFFICES ASSUME NEW w \in Passes, NEW i \in HandOf(w)'
               PROVE  /\ \A j \in HandOf(w)' : act'[i].debt = act'[j].debt => i = j
                      /\ Live(act[i].debt)' \subseteq {i}
    BY DEF HandsAreAlone
  <2>1. HandOf(w)' \subseteq HandOf(w) /\ HandOf(w) \subseteq Used
    BY DEF TypeInv, Hands
  <2>2. PICK d \in Debts : d = act[i].debt /\ d = act'[i].debt
    BY <2>1, UsedRows DEF TypeInv, TypeOK
  <2>3. Live(d)' \subseteq {i}
    BY <2>1, <2>2 DEF Alone, HandsAreAlone
  <2>4. Live(act[i].debt)' \subseteq {i}
    BY <2>2, <2>3
  <2> QED BY <2>1, <2>2, <2>4 DEF Alone, HandsAreAlone
<1>5. OneLiveAction'
  <2> SUFFICES ASSUME NEW i \in Used', NEW j \in Used', act'[i].debt = act'[j].debt,
                      {act'[i].status, act'[j].status} \subseteq LiveStatus
               PROVE  i = j
    BY DEF OneLiveAction
  <2>1. act'[i].debt \in Debts
    BY DEF TypeInv, TypeOK, Used, ActionRows
  <2>2. PICK d \in Debts : d = act'[i].debt
    BY <2>1
  <2>3. i \in Live(d)' /\ j \in Live(d)'
    BY <2>2 DEF Live
  <2>4. i \in Live(d) /\ j \in Live(d)
    BY <2>3
  <2> QED BY <2>4 DEF Alone, OneLiveAction, Live
<1> QED BY <1>3, <1>4, <1>5 DEF Alone
(* Ending actions brings none to life.                                     *)
LEMMA EndingShrinksLive ==
  ASSUME TypeInv, NEW ids, ids \subseteq Used, NEW st \in EndStatus, act' = Mark(ids, st)
  PROVE  /\ \A d \in Debts : Live(d)' \subseteq Live(d)
         /\ \A i \in Used : act'[i].debt = act[i].debt
<1>1. /\ Used' = Used
      /\ \A i \in Used : act'[i].debt = act[i].debt
      /\ \A i \in Used : act'[i].status = IF i \in ids THEN st ELSE act[i].status
  BY MarkType DEF TypeInv, TypeOK
<1>2. st \notin LiveStatus
  BY DEF EndStatus, LiveStatus
<1> QED BY <1>1, <1>2 DEF Live

(* Nor does leaving the table alone.                                       *)
LEMMA SameTableSameLive ==
  ASSUME UNCHANGED act
  PROVE  /\ \A d \in Debts : Live(d)' \subseteq Live(d)
         /\ \A i \in Used : act'[i].debt = act[i].debt
BY DEF Live, Used

(* run's unguarded updates may bring an action in the pass's hands back to *)
(* life; it was alone of its case, and is then.                            *)
LEMMA HeldActionMayComeBack ==
  ASSUME TypeInv, Alone, TypeInv', NEW W, Passes = {W},
         NEW i \in HandOf(W), NEW st \in LiveStatus, act' = Mark({i}, st),
         HandOf(W)' \subseteq HandOf(W), todo'[W] = {}, pc'[W].at \notin AtRow
  PROVE  Alone'
<1>1. HandOf(W) \subseteq Used
  BY DEF TypeInv, Hands
<1>2. /\ Used' = Used
      /\ \A j \in Used : act'[j].debt = act[j].debt
      /\ \A j \in Used \ {i} : act'[j].status = act[j].status
  <2>1. {i} \subseteq Used /\ st \in LiveStatus \cup EndStatus
    BY <1>1
  <2>2. /\ Used' = Used
        /\ \A j \in Used : act'[j].debt = act[j].debt
        /\ \A j \in Used : act'[j].status = IF j \in {i} THEN st ELSE act[j].status
    BY <2>1, MarkType DEF TypeInv, TypeOK
  <2> QED BY <2>2
<1>3. PICK home \in Debts : home = act[i].debt
  BY <1>1, UsedRows DEF TypeInv, TypeOK
<1>4. Live(home)' \subseteq {i}
  <2>1. Live(home) \subseteq {i} BY <1>3 DEF Alone, HandsAreAlone
  <2> QED BY <1>2, <2>1 DEF Live
<1>5. \A d \in Debts \ {home} : Live(d)' \subseteq Live(d)
  BY <1>2, <1>3 DEF Live
<1>6. RowsAreFree'
  BY DEF RowsAreFree, AtRow
<1>7. HandsAreAlone'
  <2> SUFFICES ASSUME NEW j \in HandOf(W)'
               PROVE  /\ \A k \in HandOf(W)' : act'[j].debt = act'[k].debt => j = k
                      /\ Live(act[j].debt)' \subseteq {j}
    BY DEF HandsAreAlone
  <2>1. PICK d \in Debts : d = act[j].debt /\ d = act'[j].debt
    BY <1>1, <1>2, UsedRows DEF TypeInv, TypeOK
  <2>2. Live(d)' \subseteq {j}
    <3>1. CASE d = home
      <4>1. j = i BY <1>3, <2>1, <3>1 DEF Alone, HandsAreAlone
      <4> QED BY <1>4, <3>1, <4>1
    <3>2. CASE d # home
      BY <1>5, <2>1, <3>2 DEF Alone, HandsAreAlone
    <3> QED BY <3>1, <3>2
  <2>3. Live(act[j].debt)' \subseteq {j}
    BY <2>1, <2>2
  <2> QED BY <1>1, <1>2, <2>3 DEF Alone, HandsAreAlone
<1>8. OneLiveAction'
  <2> SUFFICES ASSUME NEW j \in Used', NEW k \in Used', act'[j].debt = act'[k].debt,
                      {act'[j].status, act'[k].status} \subseteq LiveStatus
               PROVE  j = k
    BY DEF OneLiveAction
  <2>1. PICK d \in Debts : d = act'[j].debt
    BY DEF TypeInv, TypeOK, Used, ActionRows
  <2>2. j \in Live(d)' /\ k \in Live(d)'
    BY <2>1 DEF Live
  <2>3. CASE d = home
    BY <1>4, <2>2, <2>3
  <2>4. CASE d # home
    <3>1. j \in Live(d) /\ k \in Live(d) BY <1>5, <2>2, <2>4
    <3> QED BY <3>1 DEF Alone, OneLiveAction, Live
  <2> QED BY <2>3, <2>4
<1> QED BY <1>6, <1>7, <1>8 DEF Alone

(* One step of the only pass.                                              *)
LEMMA AlonePass ==
  ASSUME TypeInv, Alone, TypeInv', NEW W, Passes = {W}, PassStep(W) \/ Abandon(W)
  PROVE  Alone'
<1>a. W \in Passes /\ pc[W] \in Places
  BY DEF TypeInv, TypeOK
<1>b. ASSUME UNCHANGED act, HandOf(W)' \subseteq HandOf(W), todo'[W] \subseteq todo[W],
             pc'[W].at = "apply" => pc'[W] = pc[W],
             pc'[W].at \in AtRow => pc[W].at \in AtRow /\ pc'[W].row = pc[W].row
      PROVE  Alone'
  BY <1>b, SameTableSameLive, NothingComesAlive
<1>1. CASE StartTick(W)
  BY <1>1, <1>a, <1>b DEF StartTick, TypeInv, TypeOK, HandOf, Goto, store, AtId, AtRow
<1>2. CASE OpenCases(W)
  <2>1. HandOf(W) = {} /\ HandOf(W)' = {}
    BY <1>2, <1>a DEF OpenCases, TypeInv, TypeOK, Hands, HandOf, Goto, AtId, AtRow
  <2>2. UNCHANGED act /\ pc'[W].at \notin AtRow
    BY <1>2, <1>a DEF OpenCases, TypeInv, TypeOK, Goto, store, AtRow
  <2>3. todo'[W] = {[debt |-> d, rung |-> rung[d]] :
                      d \in {e \in Debts : case[e] = "OPEN" /\ Live(e) = {}}}
    BY <1>2, <1>a DEF OpenCases, TypeInv, TypeOK
  <2>4. /\ \A r \in todo'[W] : Live(r.debt) = {}
        /\ \A r, q \in todo'[W] : r.debt = q.debt => r = q
    BY <2>3
  <2>5. \A r \in todo'[W] : Live(r.debt)' = {}
    BY <2>2, <2>4 DEF Live, Used
  <2>6. RowsAreFree' BY <2>2, <2>4, <2>5 DEF RowsAreFree, AtRow
  <2>7. HandsAreAlone' BY <2>1 DEF HandsAreAlone
  <2>8. OneLiveAction' BY <2>2 DEF Alone, OneLiveAction, Used
  <2> QED BY <2>6, <2>7, <2>8 DEF Alone
<1>3. CASE DecideCase(W)
  <2>1. UNCHANGED <<act, queue>>
    BY <1>3 DEF DecideCase, store
  <2>2. PICK row \in todo[W], a \in Decisions :
          /\ todo' = [todo EXCEPT ![W] = todo[W] \ {row}]
          /\ \/ UNCHANGED pc
             \/ Goto(W, [at |-> "apply", row |-> row, action |-> a])
    <3>1. \A row \in todo[W], down, worth \in BOOLEAN :
             Decide(Snapshot(row, down), worth) \in Decisions
      BY LiveDecisionType
    <3> QED BY <1>3, <3>1 DEF DecideCase
  <2>3. todo'[W] = todo[W] \ {row}
    BY <1>a, <2>2 DEF TypeInv, TypeOK
  <2>4. CASE UNCHANGED pc
    BY <1>a, <1>3, <1>b, <2>1, <2>3, <2>4 DEF DecideCase, HandOf, AtId, AtRow
  <2>5. CASE Goto(W, [at |-> "apply", row |-> row, action |-> a])
    <3>1. pc'[W] = [at |-> "apply", row |-> row, action |-> a]
      BY <1>a, <2>5 DEF Goto, TypeInv, TypeOK
    <3>2. HandOf(W) = {} /\ HandOf(W)' = {}
      BY <1>3, <2>1, <3>1 DEF DecideCase, TypeInv, Hands, HandOf, AtId
    <3>3. Live(row.debt) = {} /\ \A r \in todo'[W] : Live(r.debt) = {} /\ r.debt # row.debt
      BY <1>a, <2>3 DEF Alone, RowsAreFree
    <3>4. Live(row.debt)' = {} /\ \A r \in todo'[W] : Live(r.debt)' = {}
      BY <2>1, <3>3 DEF Live, Used
    <3>5. RowsAreFree'
      <4>1. \A r, q \in todo'[W] : r.debt = q.debt => r = q
        BY <1>a, <2>3 DEF Alone, RowsAreFree
      <4>2. pc'[W].at = "apply" => Live(pc[W].row.debt)' = {}
        BY <3>1, <3>4 DEF Live, Used
      <4> QED BY <3>1, <3>3, <3>4, <4>1, <4>2 DEF RowsAreFree
    <3>6. HandsAreAlone' BY <3>2 DEF HandsAreAlone
    <3>7. OneLiveAction' BY <2>1 DEF Alone, OneLiveAction, Used
    <3> QED BY <3>5, <3>6, <3>7 DEF Alone
  <2> QED BY <2>2, <2>4, <2>5
<1>4. CASE CloseCase(W)
  BY <1>4, <1>a, <1>b DEF CloseCase, TypeInv, TypeOK, HandOf, Goto, AtId, AtRow
<1>5. CASE DropPausedAction(W)
  BY <1>5, <1>a, <1>b DEF DropPausedAction, TypeInv, TypeOK, HandOf, Goto, store, AtId, AtRow
<1>7. CASE Climb(W)
  BY <1>7, <1>a, <1>b DEF Climb, TypeInv, TypeOK, HandOf, Goto, AtId, AtRow
<1>6. CASE Schedule(W)
  <2>0. pc[W].at = "apply" /\ pc[W].row.debt \in Debts
    BY <1>6, <1>a, PlaceFields DEF Schedule, AtRow, CaseRows
  <2> PICK home \in Debts : home = pc[W].row.debt
    BY <2>0
  <2>1. Live(home) = {}
    BY <1>a, <2>0 DEF Alone, RowsAreFree
  <2>2. UNCHANGED <<todo, queue>> /\ pc'[W].at = "climb" /\ pc'[W].row = pc[W].row
    BY <1>6, <1>a DEF Schedule, Goto, TypeInv, TypeOK, Places
  <2>3. HandOf(W) = {} /\ HandOf(W)' = {}
    BY <1>a, <2>0, <2>2 DEF TypeInv, Hands, HandOf, AtId
  <2>4. CASE UNCHANGED act
    BY <1>a, <1>b, <2>0, <2>2, <2>3, <2>4 DEF AtRow
  <2>5. CASE /\ Used # ActionIds
             /\ act' = [act EXCEPT ![NewId] =
                          [status |-> "PENDING", debt |-> pc[W].row.debt,
                           type |-> pc[W].action, due |-> FALSE]]
    <3>1. NewId \in ActionIds /\ NewId \notin Used
      BY <2>5, FreshId
    <3>2. act'[NewId].debt = home /\ \A i \in ActionIds \ {NewId} : act'[i] = act[i]
      BY <2>5, <3>1 DEF TypeInv, TypeOK
    <3>3. Used' \subseteq Used \cup {NewId}
      BY <3>2 DEF Used
    <3>4. \A d \in Debts \ {home} : Live(d)' \subseteq Live(d)
      BY <3>2, <3>3 DEF Live, Used
    <3>5. Live(home)' \subseteq {NewId}
      BY <2>1, <3>2, <3>3 DEF Live, Used
    <3>6. RowsAreFree'
      <4>1. \A r \in todo[W] : r.debt \in Debts \ {home}
        BY <1>a, <2>0 DEF TypeInv, TypeOK, CaseRows, Alone, RowsAreFree, AtRow
      <4>2. \A r \in todo[W] : Live(r.debt)' = {}
        BY <1>a, <3>4, <4>1 DEF Alone, RowsAreFree
      <4>3. /\ \A r, q \in todo[W] : r.debt = q.debt => r = q
            /\ \A r \in todo[W] : r.debt # pc'[W].row.debt
        BY <1>a, <2>2, <4>1 DEF Alone, RowsAreFree
      <4> QED BY <2>2, <4>2, <4>3 DEF RowsAreFree
    <3>7. HandsAreAlone'
      BY <2>3 DEF HandsAreAlone
    <3>8. OneLiveAction'
      <4> SUFFICES ASSUME NEW j \in Used', NEW k \in Used', act'[j].debt = act'[k].debt,
                          {act'[j].status, act'[k].status} \subseteq LiveStatus
                   PROVE  j = k
        BY DEF OneLiveAction
      <4>1. PICK d \in Debts : d = act'[j].debt
        BY DEF TypeInv, TypeOK, Used, ActionRows
      <4>2. j \in Live(d)' /\ k \in Live(d)'
        BY <4>1 DEF Live
      <4>3. CASE d = home
        BY <3>5, <4>2, <4>3
      <4>4. CASE d # home
        <5>1. j \in Live(d) /\ k \in Live(d) BY <3>4, <4>2, <4>4
        <5> QED BY <5>1 DEF Alone, OneLiveAction, Live
      <4> QED BY <4>3, <4>4
    <3> QED BY <3>6, <3>7, <3>8 DEF Alone
  <2> QED BY <1>6, <2>4, <2>5 DEF Schedule
<1>8. CASE ReadDue(W)
  <2>1. UNCHANGED act /\ todo'[W] = {} /\ pc'[W].at = "executing"
    BY <1>8, <1>a DEF ReadDue, Goto, store, TypeInv, TypeOK
  <2>2. HandOf(W)' \subseteq {i \in Used : act[i].status \in LiveStatus}
    BY <1>8, <1>a, <2>1 DEF ReadDue, HandOf, AtId, LiveStatus, TypeInv, TypeOK
  <2>3. RowsAreFree' BY <2>1 DEF RowsAreFree, AtRow
  <2>4. HandsAreAlone'
    <3> SUFFICES ASSUME NEW i \in HandOf(W)'
                 PROVE  /\ \A j \in HandOf(W)' : act'[i].debt = act'[j].debt => i = j
                        /\ Live(act[i].debt)' \subseteq {i}
      BY DEF HandsAreAlone
    <3>1. \A j \in Used : act[i].debt = act[j].debt /\ act[j].status \in LiveStatus => i = j
      BY <2>2 DEF Alone, OneLiveAction
    <3> QED BY <2>1, <2>2, <3>1 DEF Live, Used
  <2>5. OneLiveAction' BY <2>1 DEF Alone, OneLiveAction, Used
  <2> QED BY <2>3, <2>4, <2>5 DEF Alone
<1>9. CASE CancelHeld(W)
  <2>1. PICK i \in queue[W] : /\ act' = Mark({i}, "CANCELLED")
                              /\ queue' = [queue EXCEPT ![W] = queue[W] \ {i}]
    BY <1>9 DEF CancelHeld
  <2>2. {i} \subseteq Used /\ "CANCELLED" \in EndStatus
    BY <1>a DEF TypeInv, Hands, HandOf, EndStatus
  <2>3. HandOf(W)' \subseteq HandOf(W) /\ UNCHANGED <<todo, pc>>
    BY <1>9, <1>a, <2>1 DEF CancelHeld, HandOf, TypeInv, TypeOK
  <2>4. pc[W].at = "executing"
    BY <1>9 DEF CancelHeld
  <2> QED BY <2>1, <2>2, <2>3, <2>4, EndingShrinksLive, NothingComesAlive
<1>10. CASE Recheck(W)
  <2>1. PICK i \in queue[W] :
          /\ queue' = [queue EXCEPT ![W] = queue[W] \ {i}]
          /\ \/ act' = Mark({i}, "ABORTED") /\ UNCHANGED pc
             \/ Goto(W, [at |-> "cleared", id |-> i]) /\ UNCHANGED act
    BY <1>10 DEF Recheck
  <2>2. {i} \subseteq Used /\ "ABORTED" \in EndStatus
    BY <1>a DEF TypeInv, Hands, HandOf, EndStatus
  <2>3. pc[W].at = "executing" /\ UNCHANGED todo
    BY <1>10 DEF Recheck
  <2>4. CASE act' = Mark({i}, "ABORTED") /\ UNCHANGED pc
    <3>1. HandOf(W)' \subseteq HandOf(W)
      BY <1>a, <2>1, <2>4 DEF HandOf, TypeInv, TypeOK
    <3> QED BY <2>2, <2>3, <2>4, <3>1, EndingShrinksLive, NothingComesAlive
  <2>5. CASE Goto(W, [at |-> "cleared", id |-> i]) /\ UNCHANGED act
    <3>1. pc'[W] = [at |-> "cleared", id |-> i]
      BY <1>a, <2>5 DEF Goto, TypeInv, TypeOK
    <3>2. HandOf(W)' \subseteq HandOf(W)
      BY <1>a, <2>1, <3>1 DEF HandOf, TypeInv, TypeOK
    <3> QED BY <1>b, <2>3, <2>5, <3>1, <3>2 DEF AtRow
  <2> QED BY <2>1, <2>4, <2>5
<1>11. CASE MarkInFlight(W)
  <2>1. /\ act' = Mark({pc[W].id}, "IN_FLIGHT") /\ UNCHANGED <<todo, queue>>
        /\ pc[W].at = "cleared" /\ pc'[W] = [at |-> "calling", id |-> pc[W].id]
    BY <1>11, <1>a DEF MarkInFlight, Goto, TypeInv, TypeOK
  <2>2. pc[W].id \in HandOf(W) /\ "IN_FLIGHT" \in LiveStatus
    BY <2>1 DEF HandOf, AtId, LiveStatus
  <2>3. HandOf(W)' \subseteq HandOf(W) /\ todo'[W] = {} /\ pc'[W].at \notin AtRow
    BY <1>a, <2>1 DEF HandOf, AtId, AtRow, TypeInv, Hands
  <2> QED BY <2>1, <2>2, <2>3, HeldActionMayComeBack
<1>c. ASSUME UNCHANGED <<act, todo, queue>>, pc'[W].at \in AtId, pc'[W].id = pc[W].id,
             pc[W].at \in AtId
      PROVE  Alone'
  BY <1>a, <1>b, <1>c DEF HandOf, AtId, AtRow
<1>12. CASE FindLink(W)
  <2>1. UNCHANGED <<act, todo, queue>> /\ pc[W].at \in AtId
    BY <1>12 DEF FindLink, store, AtId
  <2> QED BY <1>12, <1>a, <1>c, <2>1, FindLinkType DEF TypeInv
<1>13. CASE Mint(W)
  <2>1. UNCHANGED <<act, todo, queue>> /\ pc[W].at \in AtId
    BY <1>13 DEF Mint, AtId
  <2>2. WithLink(W, held[W].port = "dry_run") /\ (held[W].port = "dry_run") \in BOOLEAN
    BY <1>13 DEF Mint
  <2>3. pc'[W].at \in AtId /\ pc'[W].id = pc[W].id
    BY <1>a, <2>1, <2>2, WithLinkType DEF TypeInv, TypeOK, AtId
  <2> QED BY <1>c, <2>1, <2>3
<1>14. CASE MintFails(W)
  BY <1>14, <1>a, <1>c DEF MintFails, Goto, TypeInv, TypeOK, store, AtId
<1>15. CASE Send(W)
  <2>1. UNCHANGED <<act, todo, queue>> /\ pc[W].at \in AtId
    BY <1>15 DEF Send, store, AtId
  <2>2. \/ Goto(W, [at |-> "recording", id |-> pc[W].id])
        \/ Goto(W, [at |-> "closing", id |-> pc[W].id, ok |-> FALSE])
    BY <1>15, Zenon DEF Send
  <2> QED BY <1>a, <1>c, <2>1, <2>2 DEF Goto, TypeInv, TypeOK, AtId
<1>16. CASE RecordContact(W)
  BY <1>16, <1>a, <1>c DEF RecordContact, Goto, TypeInv, TypeOK, AtId
<1>17. CASE CallSandbox(W)
  <2>1. UNCHANGED <<todo, queue>> /\ pc[W].at = "calling"
    BY <1>17 DEF CallSandbox
  <2>2. CASE Goto(W, [at |-> "closing", id |-> pc[W].id, ok |-> TRUE]) /\ UNCHANGED act
    BY <1>a, <1>c, <2>1, <2>2 DEF Goto, TypeInv, TypeOK, AtId
  <2>3. CASE act' = Mark({pc[W].id}, "UNKNOWN") /\ Goto(W, [at |-> "executing"])
    <3>1. pc'[W] = [at |-> "executing"]
      BY <1>a, <2>3 DEF Goto, TypeInv, TypeOK
    <3>2. pc[W].id \in HandOf(W) /\ "UNKNOWN" \in LiveStatus
      BY <2>1 DEF HandOf, AtId, LiveStatus
    <3>3. HandOf(W)' \subseteq HandOf(W) /\ todo'[W] = {} /\ pc'[W].at \notin AtRow
      BY <1>a, <2>1, <3>1 DEF HandOf, AtId, AtRow, TypeInv, Hands
    <3> QED BY <2>3, <3>2, <3>3, HeldActionMayComeBack
  <2> QED BY <1>17, <2>2, <2>3 DEF CallSandbox
<1>18. CASE Finish(W)
  <2>1. PICK st \in EndStatus : act' = Mark({pc[W].id}, st)
    BY <1>18 DEF Finish, EndStatus
  <2>2. /\ pc[W].at = "closing" /\ pc'[W] = [at |-> "executing"]
        /\ UNCHANGED <<todo, queue>>
    BY <1>18, <1>a DEF Finish, Goto, TypeInv, TypeOK
  <2>3. {pc[W].id} \subseteq Used
    BY <1>a, <2>2 DEF TypeInv, Hands, HandOf, AtId
  <2>4. HandOf(W)' \subseteq HandOf(W)
    BY <2>2 DEF HandOf, AtId
  <2> QED BY <2>1, <2>2, <2>3, <2>4, EndingShrinksLive, NothingComesAlive DEF AtRow
<1>19. CASE FinishTick(W)
  BY <1>19, <1>a, <1>b DEF FinishTick, TypeInv, TypeOK, HandOf, Goto, store, AtId, AtRow
<1>20. CASE Abandon(W)
  BY <1>20, <1>a, <1>b DEF Abandon, TypeInv, TypeOK, HandOf, Goto, store, AtId, AtRow
<1> QED
  BY <1>1, <1>2, <1>3, <1>4, <1>5, <1>6, <1>7, <1>8, <1>9, <1>10, <1>11, <1>12, <1>13,
     <1>14, <1>15, <1>16, <1>17, <1>18, <1>19, <1>20 DEF PassStep

(* One step of somebody else: actions end, or nothing happens to them.     *)
LEMMA AloneEnv ==
  ASSUME TypeInv, Alone, TypeInv',
         \/ \E d \in Debts : EnvStep(d)
         \/ \E i \in ActionIds : TimeReaches(i)
         \/ \E p \in PauseScopes : RaisePause(p)
         \/ Clock \/ Resume \/ SwitchMode \/ Reconcile
  PROVE  Alone'
<1>1. UNCHANGED <<pc, todo, queue>>
  BY DEF EnvStep, FailureArrives, SettleWebhook, Ledger, Settle, Lapse, AgeContact, Pay,
         TimeReaches, RaisePause, Clock, Resume, SwitchMode, Reconcile
<1>2. ASSUME \A d \in Debts : Live(d)' \subseteq Live(d),
             \A i \in Used : act'[i].debt = act[i].debt
      PROVE  Alone'
  <2>1. \A w \in Passes : HandOf(w)' \subseteq HandOf(w) /\ todo'[w] \subseteq todo[w]
    BY <1>1 DEF HandOf
  <2> QED BY <1>1, <1>2, <2>1, NothingComesAlive
<1>3. CASE UNCHANGED act
  BY <1>2, <1>3, SameTableSameLive
<1>4. ASSUME NEW ids, ids \subseteq Used, act' = Mark(ids, "CANCELLED") PROVE Alone'
  <2>1. "CANCELLED" \in EndStatus BY DEF EndStatus
  <2> QED BY <1>2, <1>4, <2>1, EndingShrinksLive
<1>5. ASSUME NEW d \in Debts, EnvStep(d) PROVE Alone'
  <2>1. CASE SettleWebhook(d) \/ Ledger(d)
    <3>1. PendingOf(d) \subseteq Used /\ act' = Mark(PendingOf(d), "CANCELLED")
      BY <2>1 DEF SettleWebhook, Ledger, Settle, PendingOf
    <3> QED BY <1>4, <3>1
  <2>2. CASE ~(SettleWebhook(d) \/ Ledger(d))
    <3>1. UNCHANGED act
      BY <1>5, <2>2 DEF EnvStep, FailureArrives, Lapse, AgeContact, Pay, store
    <3> QED BY <1>3, <3>1
  <2> QED BY <2>1, <2>2
<1>6. ASSUME NEW i \in ActionIds, TimeReaches(i) PROVE Alone'
  <2>1. act[i] \in ActionRows /\ act' = [act EXCEPT ![i] = [act[i] EXCEPT !.due = TRUE]]
    BY <1>6, UsedRows DEF TimeReaches, TypeInv, TypeOK
  <2>2. /\ act'[i].debt = act[i].debt /\ act'[i].status = act[i].status /\ i \in Used
        /\ \A j \in ActionIds \ {i} : act'[j] = act[j]
    BY <1>6, <2>1 DEF TypeInv, TypeOK, ActionRows, TimeReaches
  <2>3. Used' \subseteq Used BY <2>2 DEF Used
  <2>4. \A d \in Debts : Live(d)' \subseteq Live(d)
    BY <2>2, <2>3 DEF Live, Used
  <2>5. \A j \in Used : act'[j].debt = act[j].debt
    BY <2>2 DEF Used
  <2> QED BY <1>2, <2>4, <2>5
<1>7. ASSUME NEW p \in PauseScopes, RaisePause(p) PROVE Alone'
  <2>1. InScope(p) \subseteq Used BY DEF InScope
  <2> QED BY <1>4, <1>7, <2>1 DEF RaisePause
<1>8. CASE Clock \/ Resume \/ SwitchMode
  BY <1>3, <1>8 DEF Clock, Resume, SwitchMode, store
<1>9. CASE Reconcile
  <2>1. ASSUME NEW i \in ActionIds
        PROVE  \/ act'[i] = act[i]
               \/ /\ act[i] \in ActionRows /\ act'[i].debt = act[i].debt
                  /\ act'[i].status \in EndStatus
    <3>1. CASE act[i] = Free \/ act[i].status # "UNKNOWN"
      BY <1>9, <3>1 DEF Reconcile
    <3>2. CASE ~(act[i] = Free \/ act[i].status # "UNKNOWN")
      <4>1. act[i] \in ActionRows BY <3>2 DEF TypeInv, TypeOK
      <4>2. PICK st \in {"DONE", "FAILED"} : act'[i] = [act[i] EXCEPT !.status = st]
        BY <1>9, <3>2 DEF Reconcile
      <4> QED BY <4>1, <4>2 DEF ActionRows, EndStatus
    <3> QED BY <3>1, <3>2
  <2>2. \A r \in ActionRows : r # Free
    BY DEF ActionRows, Free, LiveStatus, EndStatus
  <2>3. Used' \subseteq Used BY <2>1, <2>2 DEF Used
  <2>4. \A d \in Debts : Live(d)' \subseteq Live(d)
    BY <2>1, <2>3 DEF Live, Used, LiveStatus, EndStatus
  <2>5. \A j \in Used : act'[j].debt = act[j].debt
    BY <2>1 DEF Used
  <2> QED BY <1>2, <2>4, <2>5
<1> QED BY <1>5, <1>6, <1>7, <1>8, <1>9

LEMMA AloneInit == Init => Alone
BY DEF Init, Alone, RowsAreFree, HandsAreAlone, OneLiveAction, HandOf, Used, AtId, AtRow

LEMMA AloneNext ==
  ASSUME NEW W, Passes = {W}, TypeInv, Alone, [Next]_vars
  PROVE  TypeInv' /\ Alone'
<1>1. TypeInv'
  BY TypePass, TypeEnv, TypeStutter DEF Next
<1>2. CASE UNCHANGED vars
  BY <1>2, <1>1 DEF Alone, RowsAreFree, HandsAreAlone, OneLiveAction, HandOf, Live, Used, vars
<1>3. CASE \E w \in Passes : PassStep(w) \/ Abandon(w)
  BY <1>1, <1>3, AlonePass
<1>4. CASE ~UNCHANGED vars /\ ~(\E w \in Passes : PassStep(w) \/ Abandon(w))
  BY <1>1, <1>4, AloneEnv DEF Next
<1> QED BY <1>2, <1>3, <1>4

(* While passes do not overlap, no case ever has two actions alive, for    *)
(* any debts, pauses, executors and faults: what a pass read when it began *)
(* still holds of the case when it writes, since only the pass itself      *)
(* brings an action to life.                                               *)
THEOREM OneLiveActionPerCase ==
  ASSUME NEW W, Passes = {W}
  PROVE  Spec => []OneLiveAction
<1>1. TypeInv /\ Alone /\ [Next]_vars => (TypeInv /\ Alone)'
  BY AloneNext
<1>2. Spec => [](TypeInv /\ Alone)
  BY <1>1, TypeInit, AloneInit, PTL DEF Spec
<1> QED BY <1>2, PTL DEF Alone

-----------------------------------------------------------------------------
(* The ladder only climbs, for one pass.                                   *)

(* A rung never falls below the one it was computed from.                  *)
LEMMA ClimbedIsHigher ==
  ASSUME NEW a \in Actions, NEW r \in 0..6
  PROVE  Climbed(a, r) >= r
BY DEF Climbed, RungOf, Actions

LEMMA CurrentNext ==
  ASSUME NEW W, Passes = {W}, TypeInv, Alone, RowsAreCurrent, [Next]_vars
  PROVE  RowsAreCurrent' /\ \A d \in Debts : rung'[d] >= rung[d]
<1>a. W \in Passes /\ pc[W] \in Places /\ todo[W] \subseteq CaseRows
  BY DEF TypeInv, TypeOK
<1>b. ASSUME UNCHANGED rung, todo'[W] \subseteq todo[W],
             pc'[W].at \in AtRow => pc[W].at \in AtRow /\ pc'[W].row = pc[W].row
      PROVE  RowsAreCurrent' /\ \A d \in Debts : rung'[d] >= rung[d]
  BY <1>b DEF RowsAreCurrent, TypeInv, TypeOK
<1>1. CASE OpenCases(W)
  <2>1. UNCHANGED rung /\ pc'[W].at \notin AtRow
    BY <1>1, <1>a DEF OpenCases, Goto, store, AtRow, TypeInv, TypeOK
  <2>2. todo'[W] = {[debt |-> d, rung |-> rung[d]] :
                      d \in {e \in Debts : case[e] = "OPEN" /\ Live(e) = {}}}
    BY <1>1, <1>a DEF OpenCases, TypeInv, TypeOK
  <2>3. \A r \in todo'[W] : r.rung = rung[r.debt]
    BY <2>2
  <2> QED BY <2>1, <2>3 DEF RowsAreCurrent, TypeInv, TypeOK
<1>2. CASE DecideCase(W)
  <2>1. UNCHANGED rung
    BY <1>2 DEF DecideCase, store
  <2>2. PICK row \in todo[W] :
          /\ todo'[W] = todo[W] \ {row}
          /\ UNCHANGED pc \/ pc'[W].row = row
    BY <1>2, <1>a DEF DecideCase, Goto, TypeInv, TypeOK
  <2> QED BY <1>a, <2>1, <2>2 DEF RowsAreCurrent, TypeInv, TypeOK
<1>3. CASE Climb(W)
  <2> DEFINE row == pc[W].row
  <2>1. pc[W].at = "climb" /\ row \in CaseRows /\ pc[W].action \in Actions
    BY <1>3, <1>a, PlaceFields DEF Climb, AtRow
  <2>2. /\ rung' = [rung EXCEPT ![row.debt] = Climbed(pc[W].action, row.rung)]
        /\ UNCHANGED todo /\ pc'[W].at \notin AtRow
    BY <1>3, <1>a DEF Climb, Goto, AtRow, TypeInv, TypeOK
  <2>3. row.rung = rung[row.debt] /\ \A r \in todo[W] : r.debt # row.debt
    BY <1>a, <2>1 DEF RowsAreCurrent, Alone, RowsAreFree, AtRow
  <2>4. \A r \in todo[W] : rung'[r.debt] = rung[r.debt]
    BY <1>a, <2>2, <2>3 DEF TypeInv, TypeOK, CaseRows
  <2>5. Climbed(pc[W].action, row.rung) >= row.rung
    BY <2>1, ClimbedIsHigher DEF CaseRows
  <2>6. \A d \in Debts : rung'[d] >= rung[d]
    BY <2>2, <2>3, <2>5 DEF TypeInv, TypeOK
  <2> QED BY <2>2, <2>4, <2>6 DEF RowsAreCurrent
<1>4. CASE PassStep(W) /\ ~OpenCases(W) /\ ~DecideCase(W) /\ ~Climb(W)
  <2>1. UNCHANGED rung
    BY <1>4 DEF PassStep, StartTick, CloseCase, DropPausedAction, Schedule, ReadDue,
       CancelHeld, Recheck, MarkInFlight, FindLink, Mint, MintFails, Send, RecordContact,
       CallSandbox, Finish, FinishTick, store
  <2>2. UNCHANGED todo
    BY <1>4 DEF PassStep, StartTick, CloseCase, DropPausedAction, Schedule, ReadDue,
       CancelHeld, Recheck, MarkInFlight, FindLink, Mint, MintFails, Send, RecordContact,
       CallSandbox, Finish, FinishTick
  <2>3. CASE Schedule(W)
    <3>1. pc'[W].row = pc[W].row /\ pc[W].at \in AtRow
      BY <1>a, <2>3 DEF Schedule, Goto, AtRow, TypeInv, TypeOK, Places
    <3> QED BY <1>b, <2>1, <2>2, <3>1
  <2>4. CASE Recheck(W) \/ CancelHeld(W)
    <3>1. UNCHANGED pc \/ pc'[W].at = "cleared"
      <4>1. UNCHANGED pc \/ \E i \in queue[W] : Goto(W, [at |-> "cleared", id |-> i])
        BY <2>4 DEF Recheck, CancelHeld
      <4> QED BY <1>a, <4>1 DEF Goto, TypeInv, TypeOK
    <3> QED BY <1>b, <2>1, <2>2, <3>1 DEF AtRow
  <2>5. CASE FindLink(W)
    BY <1>b, <1>a, <2>1, <2>2, <2>5, FindLinkType DEF AtRow, AtId, TypeInv
  <2>6. CASE Mint(W)
    <3>1. WithLink(W, held[W].port = "dry_run") /\ (held[W].port = "dry_run") \in BOOLEAN
      BY <2>6 DEF Mint
    <3>2. pc[W].at \in AtId
      BY <2>6 DEF Mint, AtId
    <3>3. pc'[W].at \in {"closing", "sending"}
      BY <1>a, <3>1, <3>2, WithLinkType DEF TypeInv, TypeOK
    <3> QED BY <1>b, <2>1, <2>2, <3>3 DEF AtRow
  <2>7. CASE Send(W)
    <3>1. \/ Goto(W, [at |-> "recording", id |-> pc[W].id])
          \/ Goto(W, [at |-> "closing", id |-> pc[W].id, ok |-> FALSE])
      BY <2>7, Zenon DEF Send
    <3> QED BY <1>a, <1>b, <2>1, <2>2, <3>1 DEF Goto, AtRow, TypeInv, TypeOK
  <2>8. CASE StartTick(W) \/ CloseCase(W) \/ DropPausedAction(W) \/ ReadDue(W)
             \/ MarkInFlight(W) \/ MintFails(W) \/ RecordContact(W) \/ CallSandbox(W)
             \/ Finish(W) \/ FinishTick(W)
    <3>1. pc'[W].at \notin AtRow
      BY <1>a, <2>8 DEF StartTick, CloseCase, DropPausedAction, ReadDue, MarkInFlight,
         MintFails, RecordContact, CallSandbox, Finish, FinishTick, Goto, AtRow, TypeInv, TypeOK
    <3> QED BY <1>b, <2>1, <2>2, <3>1
  <2> QED BY <1>4, <2>3, <2>4, <2>5, <2>6, <2>7, <2>8 DEF PassStep
<1>5. CASE Abandon(W)
  BY <1>5, <1>a, <1>b DEF Abandon, Goto, store, AtRow, TypeInv, TypeOK
<1>6. CASE UNCHANGED vars
  BY <1>6, <1>b DEF vars
<1>7. CASE ~UNCHANGED vars /\ ~(\E w \in Passes : PassStep(w) \/ Abandon(w))
  <2>1. UNCHANGED <<rung, todo, pc>>
    BY <1>7 DEF Next, EnvStep, FailureArrives, SettleWebhook, Ledger, Settle, Lapse,
       AgeContact, Pay, TimeReaches, RaisePause, Clock, Resume, SwitchMode, Reconcile, store
  <2> QED BY <1>b, <2>1
<1> QED BY <1>a, <1>1, <1>2, <1>3, <1>4, <1>5, <1>6, <1>7 DEF Next

(* While passes do not overlap, no case ever comes down the ladder: the    *)
(* rung a pass writes is computed from the rung that is still there.       *)
THEOREM LadderNeverDescends ==
  ASSUME NEW W, Passes = {W}
  PROVE  Spec => RungClimbs
<1> DEFINE I == TypeInv /\ Alone /\ RowsAreCurrent
<1>1. Init => I
  BY TypeInit, AloneInit DEF Init, RowsAreCurrent, AtRow
<1>2. I /\ [Next]_vars => I'
  BY AloneNext, CurrentNext
<1>3. I /\ [Next]_vars => [\A d \in Debts : rung'[d] >= rung[d]]_vars
  BY CurrentNext
<1>4. Spec => [][\A d \in Debts : rung'[d] >= rung[d]]_vars
  BY <1>1, <1>2, <1>3, PTL DEF Spec
<1> QED BY <1>4 DEF RungClimbs
=============================================================================
