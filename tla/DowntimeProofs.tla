--------------------------- MODULE DowntimeProofs ---------------------------
(***************************************************************************)
(* What holds of the downtime feed for every set of outages and methods,   *)
(* any number of copies of a report, and any number of faults.             *)
(***************************************************************************)
EXTENDS Downtime, EngineLemmas, TLAPS

(* Reports, and therefore rows, are of what has happened.                  *)
ReportsAreTrue ==
  /\ \A r \in events : /\ outage[r.id] # "ahead"
                       /\ r.kind = "resolved" => outage[r.id] = "over"
  /\ \A i \in Outages : row[i] # "none" => outage[i] # "ahead"

(* What an applied report leaves behind.  A resolve that did not close its *)
(* own row has made its outage a stray one, and a row closed while its     *)
(* outage is on was closed for a stray one of the method.                  *)
ReportsLeaveTraces ==
  \A i \in Outages :
    /\ Told(i, "started") => row[i] # "none"
    /\ Told(i, "resolved") => row[i] = "resolved" \/ i \in stray
    /\ row[i] = "resolved" /\ outage[i] = "on" =>
         \E j \in stray : MethodOf[j] = MethodOf[i]

(* The inductive invariant.                                                *)
FeedInv == TypeOK /\ ReportsAreTrue /\ ReportsLeaveTraces

LEMMA FeedInit == Init => FeedInv
BY DEF Init, FeedInv, TypeOK, ReportsAreTrue, ReportsLeaveTraces, Told, Applied

(* A row, once there, stays; a resolved one stays resolved.                *)
LEMMA TableStep ==
  ASSUME TypeOK, [Next]_vars
  PROVE  \A i \in Outages : /\ row[i] # "none" => row'[i] # "none"
                            /\ row[i] = "resolved" => row'[i] = "resolved"
<1>1. ASSUME NEW i \in Outages, NEW end, RecordDowntime(i, end)
      PROVE  \A j \in Outages : /\ row[j] # "none" => row'[j] # "none"
                                /\ row[j] = "resolved" => row'[j] = "resolved"
  BY <1>1 DEF RecordDowntime, TypeOK, table
<1>2. ASSUME NEW i \in Outages, ResolveDowntime(i)
      PROVE  \A j \in Outages : /\ row[j] # "none" => row'[j] # "none"
                                /\ row[j] = "resolved" => row'[j] = "resolved"
  BY <1>2 DEF ResolveDowntime
<1>3. CASE UNCHANGED row
  BY <1>3
<1>4. ASSUME NEW r \in Reports, ReceiveStarted(r) \/ ReceiveResolved(r) \/ CutShort(r)
      PROVE  \/ \E end : RecordDowntime(r.id, end)
             \/ ResolveDowntime(r.id)
             \/ UNCHANGED row
  BY <1>4 DEF ReceiveStarted, ReceiveResolved, CutShort, table
<1>5. ASSUME NEW i \in Outages, Begin(i) \/ Finish(i) \/ DrillStart(i) \/ DrillResolve(i)
      PROVE  RecordDowntime(i, NoEnd) \/ ResolveDowntime(i) \/ UNCHANGED row
  BY <1>5 DEF Begin, Finish, DrillStart, DrillResolve, table
<1>6. \A r \in Reports : r.id \in Outages
  BY DEF Reports
<1>7. ASSUME NEW m, NEW q, DecideCase(m) \/ ExecuteMessage(q) PROVE UNCHANGED row
  BY <1>7 DEF DecideCase, ExecuteMessage, table
<1> QED BY <1>1, <1>2, <1>3, <1>4, <1>5, <1>6, <1>7 DEF Next, Tick, vars, table

LEMMA FeedStep == FeedInv /\ [Next]_vars => FeedInv'
<1> SUFFICES ASSUME FeedInv, [Next]_vars PROVE FeedInv' OBVIOUS
<1> USE DEF FeedInv
<1>1. CASE Tick
  BY <1>1 DEF Tick, TypeOK, table, ReportsAreTrue, ReportsLeaveTraces, Told, Applied
<1>2. ASSUME NEW i \in Outages, Begin(i) PROVE FeedInv'
  <2>1. TypeOK' BY <1>2 DEF Begin, TypeOK, table
  <2>2. \A j \in Outages : outage'[j] = outage[j] \/ (j = i /\ outage[j] = "ahead" /\ outage'[j] = "on")
    BY <1>2 DEF Begin, TypeOK
  <2>3. ReportsAreTrue'
    BY <1>2, <2>2 DEF Begin, TypeOK, table, Reports, ReportsAreTrue
  <2>4. ReportsLeaveTraces'
    BY <1>2, <2>2 DEF Begin, table, ReportsAreTrue, ReportsLeaveTraces, Told, Applied
  <2> QED BY <2>1, <2>3, <2>4
<1>3. ASSUME NEW i \in Outages, Finish(i) PROVE FeedInv'
  <2>1. TypeOK' BY <1>3 DEF Finish, TypeOK, table
  <2>2. \A j \in Outages : outage'[j] = outage[j] \/ outage'[j] = "over"
    BY <1>3 DEF Finish, TypeOK
  <2>3. ReportsAreTrue'
    BY <1>3, <2>2 DEF Finish, TypeOK, table, Reports, ReportsAreTrue
  <2>4. ReportsLeaveTraces'
    BY <1>3, <2>2 DEF Finish, table, ReportsLeaveTraces, Told, Applied
  <2> QED BY <2>1, <2>3, <2>4
<1>4. ASSUME NEW r \in Reports, ReceiveStarted(r) PROVE FeedInv'
  <2>0. r.id \in Outages BY DEF Reports
  <2>1. PICK end \in Ends \cup {NoEnd} : RecordDowntime(r.id, end)
    BY <1>4 DEF ReceiveStarted
  <2>2. /\ \A j \in Outages : row'[j] = row[j] \/ (j = r.id /\ row'[j] = "started")
        /\ row'[r.id] # "none"
    BY <2>0, <2>1 DEF RecordDowntime, TypeOK, table
  <2>3. TypeOK'
    BY <1>4, <2>0, <2>1 DEF ReceiveStarted, RecordDowntime, TypeOK, table
  <2>4. ReportsAreTrue'
    BY <1>4, <2>0, <2>2 DEF ReceiveStarted, Sendable, ReportsAreTrue
  <2>5. \A j \in Outages : /\ Told(j, "resolved")' => Told(j, "resolved")
                           /\ Told(j, "started")' => Told(j, "started") \/ j = r.id
    BY <1>4 DEF ReceiveStarted, Told, Applied
  <2>6. \A j \in Outages : row[j] = "resolved" => row'[j] = "resolved"
    BY TableStep
  <2>7. stray' = stray /\ outage' = outage
    BY <1>4 DEF ReceiveStarted
  <2>8. ReportsLeaveTraces'
    BY <2>2, <2>5, <2>6, <2>7 DEF ReportsLeaveTraces
  <2> QED BY <2>3, <2>4, <2>8
<1>5. ASSUME NEW r \in Reports, ReceiveResolved(r) PROVE FeedInv'
  <2>0. r.id \in Outages /\ outage[r.id] = "over" /\ outage' = outage
    BY <1>5 DEF Reports, ReceiveResolved, Sendable
  <2>1. \A j \in Outages : row'[j] = IF j \in Clears(r.id) THEN "resolved" ELSE row[j]
    BY <1>5 DEF ReceiveResolved, ResolveDowntime
  <2>2. TypeOK'
    BY <1>5, <2>0 DEF ReceiveResolved, ResolveDowntime, TypeOK, table
  <2>3. \A j \in Clears(r.id) : row[j] = "started" /\ MethodOf[j] = MethodOf[r.id]
    BY <2>0 DEF Clears, Open
  <2>4. ReportsAreTrue'
    <3>1. \A j \in Outages : row'[j] # "none" => row[j] # "none"
      BY <2>1, <2>3
    <3> QED BY <1>5, <2>0, <3>1 DEF ReceiveResolved, ReportsAreTrue
  <2>5. \A j \in Outages : /\ Told(j, "resolved")' => Told(j, "resolved") \/ j = r.id
                           /\ Told(j, "started")' => Told(j, "started")
    BY <1>5 DEF ReceiveResolved, Told, Applied
  <2>6. \/ row[r.id] = "started" /\ stray' = stray /\ Clears(r.id) = {r.id}
        \/ stray' = stray \cup {r.id}
    BY <1>5 DEF ReceiveResolved, Clears
  <2>7. \A j \in Outages : row[j] # "none" => row'[j] # "none"
    BY <2>1
  <2>8. ASSUME NEW j \in Outages PROVE Told(j, "resolved")' => row'[j] = "resolved" \/ j \in stray'
    BY <2>1, <2>5, <2>6 DEF ReportsLeaveTraces
  <2>9. ASSUME NEW j \in Outages, row'[j] = "resolved", outage'[j] = "on"
        PROVE  \E k \in stray' : MethodOf[k] = MethodOf[j]
    <3>1. CASE row[j] = "resolved" BY <2>0, <2>6, <2>9, <3>1 DEF ReportsLeaveTraces
    <3>2. CASE j \in Clears(r.id)
      <4>1. j # r.id BY <2>0, <2>9
      <4> QED BY <2>3, <2>6, <3>2, <4>1
    <3> QED BY <2>1, <2>9, <3>1, <3>2
  <2>10. ReportsLeaveTraces'
    BY <2>5, <2>7, <2>8, <2>9 DEF ReportsLeaveTraces
  <2> QED BY <2>2, <2>4, <2>10
<1>6. ASSUME NEW r \in Reports, CutShort(r) PROVE FeedInv'
  <2>1. TypeOK' BY <1>6 DEF CutShort, TypeOK, table
  <2>2. ReportsAreTrue' BY <1>6 DEF CutShort, Sendable, table, ReportsAreTrue
  <2>3. \A j \in Outages, kind \in Kinds : Told(j, kind)' => Told(j, kind)
    BY <1>6 DEF CutShort, Told, Applied
  <2>4. ReportsLeaveTraces'
    BY <1>6, <2>3 DEF CutShort, table, ReportsLeaveTraces, Kinds
  <2> QED BY <2>1, <2>2, <2>4
<1>7. ASSUME NEW i \in Outages, DrillStart(i) PROVE FeedInv'
  <2>1. row[i] = "none"
    BY <1>7 DEF DrillStart, ReportsAreTrue
  <2>2. TypeOK'
    BY <1>7 DEF DrillStart, RecordDowntime, TypeOK, table
  <2>3. \A j \in Outages : /\ j # i => row'[j] = row[j] /\ outage'[j] = outage[j]
                           /\ j = i => row'[j] = "started" /\ outage'[j] = "on"
    BY <1>7, <2>1 DEF DrillStart, RecordDowntime, TypeOK
  <2>4. \A r \in events : r.id \in Outages /\ r.id # i
    BY <1>7 DEF DrillStart, ReportsAreTrue, TypeOK, Reports
  <2>5. ReportsAreTrue'
    BY <1>7, <2>3, <2>4 DEF DrillStart, ReportsAreTrue
  <2>6. \A j \in Outages, kind \in Kinds : Told(j, kind)' => Told(j, kind) /\ j # i
    BY <1>7, <2>4 DEF DrillStart, Told, Applied
  <2>7. ReportsLeaveTraces'
    BY <1>7, <2>3, <2>6 DEF DrillStart, ReportsLeaveTraces, Kinds
  <2> QED BY <2>2, <2>5, <2>7
<1>8. ASSUME NEW i \in Outages, DrillResolve(i) PROVE FeedInv'
  <2>1. row[i] = "started" /\ Clears(i) = {i}
    BY <1>8 DEF DrillResolve, ActiveDowntime, Open, Clears
  <2>2. \A j \in Outages : row'[j] = IF j = i THEN "resolved" ELSE row[j]
    BY <1>8, <2>1 DEF DrillResolve, ResolveDowntime
  <2>3. TypeOK'
    BY <1>8 DEF DrillResolve, ResolveDowntime, TypeOK, table
  <2>4. ReportsAreTrue'
    BY <1>8, <2>1, <2>2 DEF DrillResolve, ReportsAreTrue
  <2>5. \A j \in Outages, kind \in Kinds : Told(j, kind)' = Told(j, kind)
    BY <1>8 DEF DrillResolve, Told, Applied
  <2>6. ReportsLeaveTraces'
    BY <1>8, <2>2, <2>5 DEF DrillResolve, ReportsLeaveTraces, Kinds
  <2> QED BY <2>3, <2>4, <2>6
<1>9. ASSUME UNCHANGED <<time, outage, began, table, events, lost, stray>>,
             queued' \subseteq Queued
      PROVE  FeedInv'
  BY <1>9 DEF TypeOK, table, ReportsAreTrue, ReportsLeaveTraces, Told, Applied
<1>10. ASSUME NEW m \in Methods, DecideCase(m) PROVE FeedInv'
  <2>1. Known(m) \in SUBSET Outages /\ EndPassed(m) \in BOOLEAN
    BY DEF Known, EndPassed
  <2>2. [on |-> m, known |-> Known(m), ended |-> EndPassed(m)] \in Queued
    BY <2>1 DEF Queued
  <2>3. queued' \subseteq Queued
    BY <1>10, <2>2 DEF DecideCase, TypeOK
  <2> QED BY <1>9, <1>10, <2>3 DEF DecideCase
<1>11. ASSUME NEW q, ExecuteMessage(q) PROVE FeedInv'
  BY <1>9, <1>11 DEF ExecuteMessage, TypeOK
<1>12. CASE UNCHANGED vars
  BY <1>9, <1>12 DEF vars, table, TypeOK
<1> QED BY <1>1, <1>2, <1>3, <1>4, <1>5, <1>6, <1>7, <1>8, <1>10, <1>11, <1>12 DEF Next

LEMMA FeedInvariant == Spec => []FeedInv
BY FeedInit, FeedStep, PTL DEF Spec

(* The downtimes table is well formed.                                     *)
THEOREM DowntimeTypeCorrect == Spec => []TypeOK
<1>1. FeedInv => TypeOK BY DEF FeedInv
<1> QED BY <1>1, FeedInvariant, PTL

(* However reports are repeated and reordered, an outage seen to end never *)
(* holds its method again.                                                 *)
THEOREM ResolvedForGood == Spec => ResolvedStays
<1>1. FeedInv /\ [Next]_vars =>
        [\A i \in Outages : row[i] = "resolved" => row'[i] = "resolved"]_vars
  BY TableStep DEF FeedInv
<1> QED BY <1>1, FeedInvariant, PTL DEF Spec, ResolvedStays

(* However reports are repeated and reordered, a method is held only for   *)
(* an outage that began and whose end has not been told since its start.   *)
THEOREM AlwaysHeldForAReason == Spec => []HeldForAReason
<1>1. FeedInv => HeldForAReason
  BY DEF FeedInv, ReportsAreTrue, ReportsLeaveTraces, HeldForAReason
<1> QED BY <1>1, FeedInvariant, PTL

(* While a reported outage is on, only a resolve that was not its own can  *)
(* have let go of its method.                                              *)
THEOREM ReportedOutageAlwaysHolds == Spec => []ReportedOutageHolds
<1>1. FeedInv => ReportedOutageHolds
  BY DEF FeedInv, TypeOK, ReportsLeaveTraces, ReportedOutageHolds
<1> QED BY <1>1, FeedInvariant, PTL

(* A resolve that never comes costs a case its window and no more.         *)
THEOREM WindowAlwaysOutlasts == Spec => []WindowOutlastsOutage
<1>1. WindowOutlastsOutage
  <2> SUFFICES ASSUME time > WindowHours, NEW m \in Methods,
                      NEW mandate \in BOOLEAN
               PROVE  DecisionsOn(m, mandate) = {"WRITE_OFF"}
    BY DEF WindowOutlastsOutage
  <2>1. Outlook(m, mandate) # {}
    BY DEF Outlook
  <2>2. ASSUME NEW s \in Outlook(m, mandate) PROVE Decide(s, TRUE) = "WRITE_OFF"
    <3>1. PICK down, known, in : s = Snapshot(mandate, down, known, in)
      BY DEF Outlook
    <3>2. /\ s.control = FALSE /\ s.settled = FALSE /\ s.promisedFor = 0
          /\ s.riskBlocked = FALSE /\ s.optedOut = FALSE /\ s.age = time
      BY <3>1 DEF Snapshot
    <3>3. ~(s.promisedFor > 0) /\ s.age > WindowHours
      BY <3>2
    <3> QED BY <3>2, <3>3, ClosedWindowWritesOff
  <2> QED BY <2>1, <2>2 DEF DecisionsOn
<1> QED BY <1>1, PTL

-----------------------------------------------------------------------------
(* What the engine answers while a method is held.                         *)

(* No outage began later than now.                                         *)
BeganByNow == \A i \in Outages : began[i] <= time

LEMMA BeganByNowHolds == Spec => []BeganByNow
<1>1. Init => BeganByNow
  BY DEF Init, BeganByNow
<1>2. FeedInv /\ BeganByNow /\ [Next]_vars => BeganByNow'
  <2> SUFFICES ASSUME TypeOK, BeganByNow, [Next]_vars PROVE BeganByNow'
    BY DEF FeedInv
  <2>1. CASE Tick
    BY <2>1 DEF Tick, BeganByNow, TypeOK
  <2>2. ASSUME NEW i \in Outages, Begin(i) \/ DrillStart(i) PROVE BeganByNow'
    BY <2>2 DEF Begin, DrillStart, BeganByNow, TypeOK
  <2>3. CASE UNCHANGED <<began, time>>
    BY <2>3 DEF BeganByNow
  <2>4. ASSUME NEW i \in Outages, Finish(i) \/ DrillResolve(i)
        PROVE  UNCHANGED <<began, time>>
    BY <2>4 DEF Finish, DrillResolve
  <2>5. ASSUME NEW r \in Reports, ReceiveStarted(r) \/ ReceiveResolved(r) \/ CutShort(r)
        PROVE  UNCHANGED <<began, time>>
    BY <2>5 DEF ReceiveStarted, ReceiveResolved, CutShort
  <2>6. ASSUME NEW m, NEW q, DecideCase(m) \/ ExecuteMessage(q) PROVE UNCHANGED <<began, time>>
    BY <2>6 DEF DecideCase, ExecuteMessage
  <2> QED BY <2>1, <2>2, <2>3, <2>4, <2>5, <2>6 DEF Next, vars
<1> QED BY <1>1, <1>2, FeedInvariant, PTL DEF Spec

(* Where an outage is open, active_downtime has one to show: began is      *)
(* bounded by the clock, so among any open outages there is a newest.      *)
LEMMA OpenOutageIsSeen ==
  ASSUME TypeOK, BeganByNow, NEW m \in Methods, Open(m) # {}
  PROVE  ActiveDowntime(m) # {}
<1> DEFINE Since == {time - began[i] : i \in Open(m)}
<1>1. Open(m) \subseteq Outages
  BY DEF Open
<1>2. Since \in SUBSET Nat /\ Since # {}
  BY <1>1 DEF TypeOK, BeganByNow
<1>3. PICK n \in Since : \A k \in Since : n <= k
  BY <1>2, LeastExists
<1>4. PICK i \in Open(m) : n = time - began[i]
  BY <1>3
<1>5. \A j \in Open(m) : began[j] <= began[i]
  <2> SUFFICES ASSUME NEW j \in Open(m) PROVE began[j] <= began[i]
    OBVIOUS
  <2>1. time - began[i] <= time - began[j]
    BY <1>3, <1>4
  <2> QED BY <1>1, <2>1 DEF TypeOK
<1> QED BY <1>4, <1>5 DEF ActiveDowntime

(* What a case is shown while its method has an open outage.               *)
LEMMA OutlookInOutage ==
  ASSUME TypeOK, BeganByNow, NEW m \in Methods, Open(m) # {}, NEW mandate,
         NEW s \in Outlook(m, mandate)
  PROVE  \E i \in Open(m) :
            s = Snapshot(mandate, TRUE, ends[i] # NoEnd,
                         IF ends[i] = NoEnd THEN 0 ELSE ends[i] - time)
<1>1. ActiveDowntime(m) # {}
  BY OpenOutageIsSeen
<1>2. ActiveDowntime(m) \subseteq Open(m)
  BY DEF ActiveDowntime
<1> QED BY <1>1, <1>2 DEF Outlook

(* What is decided while a method has an open outage: never a debit, and   *)
(* nothing but to wait or to write off until an announced end has passed.  *)
LEMMA DecidedInOutage ==
  ASSUME TypeOK, BeganByNow, NEW m \in Methods, Open(m) # {}, NEW mandate,
         NEW a \in DecisionsOn(m, mandate)
  PROVE  /\ a # "RETRY"
         /\ a \notin {"WAIT", "WRITE_OFF"} => EndPassed(m)
<1>0. PICK s \in Outlook(m, mandate) : a = Decide(s, TRUE)
  BY DEF DecisionsOn
<1>1. PICK i \in Open(m) : s = Snapshot(mandate, TRUE, ends[i] # NoEnd,
                                       IF ends[i] = NoEnd THEN 0 ELSE ends[i] - time)
  BY OutlookInOutage
<1>2. i \in Outages /\ time \in Nat /\ ends[i] \in Ends \cup {NoEnd}
  BY DEF Open, TypeOK
<1>3. /\ s.control = FALSE /\ s.settled = FALSE /\ s.promisedFor = 0
      /\ s.riskBlocked = FALSE /\ s.optedOut = FALSE /\ s.quietFor = 0 /\ s.down
      /\ s.endKnown = (ends[i] # NoEnd)
      /\ s.endsIn = IF ends[i] = NoEnd THEN 0 ELSE ends[i] - time
  BY <1>1 DEF Snapshot
<1>4. ASSUME a = "RETRY" PROVE FALSE
  <2>1. "RETRY" \in LegalNextRungs(s, Blocked(s))
    BY <1>0, <1>4, MoveIsLegal DEF Actions
  <2>2. "RETRY" \in Blocked(s)
    BY <1>3 DEF Blocked, RetryBlocked
  <2> QED BY <2>1, <2>2 DEF LegalNextRungs, Climbable
<1>5. ASSUME ~EndPassed(m) PROVE a \in {"WAIT", "WRITE_OFF"}
  <2>1. ~(ends[i] # NoEnd /\ ends[i] <= time)
    BY <1>5 DEF EndPassed
  <2>2. DowntimeFor(s) \in Nat \ {0}
    <3>1. CASE ends[i] = NoEnd
      <4>1. DowntimeFor(s) = DowntimeBackoff
        BY <1>3, <3>1 DEF DowntimeFor
      <4> QED BY <4>1, LimitsAreNatural
    <3>2. CASE ends[i] # NoEnd
      <4>1. ends[i] \in Nat BY <1>2, <3>2, FeedAssumption
      <4>2. ends[i] > time BY <1>2, <2>1, <3>2, <4>1
      <4>3. s.down /\ s.endKnown /\ s.endsIn = ends[i] - time BY <1>3, <3>2
      <4>4. DowntimeFor(s) = ends[i] - time BY <4>3 DEF DowntimeFor
      <4> QED BY <1>2, <4>1, <4>2, <4>4
    <3> QED BY <3>1, <3>2
  <2>3. WaitFor(s) > 0
    BY <1>3, <2>2 DEF WaitFor
  <2>4. ~(s.promisedFor > 0)
    BY <1>3
  <2>5. CASE RunGates(s).stop = "none"
    BY <1>0, <2>3, <2>4, <2>5, OpenGates, DecideType
  <2>6. CASE RunGates(s).stop # "none"
    <3>1. RunGates(s).terminal = "WRITE_OFF"
      BY <1>3, <2>4, <2>6 DEF RunGates, Stop
    <3> QED BY <1>0, <2>6, <3>1 DEF Decide
  <2> QED BY <2>5, <2>6
<1> QED BY <1>4, <1>5

(* Nothing ages an outage out: whatever ends are announced, no debit is    *)
(* decided on for a method while an outage is open on it.                  *)
THEOREM NeverDebitedInOutage == Spec => []NoDebitInOutage
<1>1. FeedInv /\ BeganByNow => NoDebitInOutage
  BY DecidedInOutage DEF FeedInv, NoDebitInOutage
<1> QED BY <1>1, FeedInvariant, BeganByNowHolds, PTL

-----------------------------------------------------------------------------
(* What leaves for a held method.                                          *)

(* Of each outage that was on and reported when a message was decided, an  *)
(* announced end had passed, or it had been let go of for another's.       *)
QueuedForAReason ==
  \A q \in queued : \A i \in q.known :
    q.ended \/ \E j \in stray : MethodOf[j] = q.on

(* An outage let go of for another's resolve stays let go of.              *)
LEMMA StrayGrows == ASSUME [Next]_vars PROVE stray \subseteq stray'
<1>1. CASE UNCHANGED stray BY <1>1
<1>2. ASSUME NEW r, ReceiveResolved(r) PROVE stray \subseteq stray'
  BY <1>2 DEF ReceiveResolved
<1>3. ASSUME NEW i, DrillResolve(i) PROVE stray \subseteq stray'
  BY <1>3 DEF DrillResolve
<1>4. ASSUME NEW i, Begin(i) \/ Finish(i) \/ DrillStart(i) PROVE UNCHANGED stray
  BY <1>4 DEF Begin, Finish, DrillStart
<1>5. ASSUME NEW r, ReceiveStarted(r) \/ CutShort(r) PROVE UNCHANGED stray
  BY <1>5 DEF ReceiveStarted, CutShort
<1>6. ASSUME NEW m, NEW q, DecideCase(m) \/ ExecuteMessage(q) PROVE UNCHANGED stray
  BY <1>6 DEF DecideCase, ExecuteMessage
<1> QED BY <1>1, <1>2, <1>3, <1>4, <1>5, <1>6 DEF Next, Tick, vars

(* Whatever is queued was there before, but for what is being decided.     *)
LEMMA QueueGrowsByDecision ==
  ASSUME [Next]_vars, NEW q \in queued', q \notin queued
  PROVE  \E m \in Methods : DecideCase(m)
<1>1. ASSUME NEW i, Begin(i) \/ Finish(i) \/ DrillStart(i) \/ DrillResolve(i)
      PROVE  UNCHANGED queued
  BY <1>1 DEF Begin, Finish, DrillStart, DrillResolve
<1>2. ASSUME NEW r, ReceiveStarted(r) \/ ReceiveResolved(r) \/ CutShort(r)
      PROVE  UNCHANGED queued
  BY <1>2 DEF ReceiveStarted, ReceiveResolved, CutShort
<1>3. ASSUME NEW x, ExecuteMessage(x) PROVE queued' \subseteq queued
  BY <1>3 DEF ExecuteMessage
<1> QED BY <1>1, <1>2, <1>3 DEF Next, Tick, vars

LEMMA QueueInvariant == Spec => []QueuedForAReason
<1>1. Init => QueuedForAReason
  BY DEF Init, QueuedForAReason
<1>2. FeedInv /\ BeganByNow /\ QueuedForAReason /\ [Next]_vars => QueuedForAReason'
  <2> SUFFICES ASSUME FeedInv, BeganByNow, QueuedForAReason, [Next]_vars,
                      NEW q \in queued', NEW i \in q.known
               PROVE  q.ended \/ \E j \in stray' : MethodOf[j] = q.on
    BY DEF QueuedForAReason
  <2>1. CASE q \in queued
    BY <2>1, StrayGrows DEF QueuedForAReason
  <2>2. CASE q \notin queued
    <3>1. PICK m \in Methods : DecideCase(m)
      BY <2>2, QueueGrowsByDecision
    <3>2. PICK a \in DecisionsOn(m, FALSE) : a \in {"REMIND", "PAY_LINK", "METHOD_CHANGE"}
      BY <3>1 DEF DecideCase
    <3>3. q.on = m /\ q.known = Known(m) /\ q.ended = EndPassed(m)
      BY <2>2, <3>1 DEF DecideCase
    <3>4. i \in Outages /\ MethodOf[i] = m /\ outage[i] = "on" /\ row[i] # "none"
      BY <3>3 DEF Known
    <3>5. CASE row[i] = "started"
      <4>1. Open(m) # {}
        BY <3>4, <3>5 DEF Open
      <4> QED BY <3>2, <3>3, <4>1, DecidedInOutage DEF FeedInv
    <3>6. CASE row[i] = "resolved"
      <4>1. \E j \in stray : MethodOf[j] = m
        BY <3>4, <3>6 DEF FeedInv, ReportsLeaveTraces
      <4> QED BY <3>3, <4>1, StrayGrows
    <3> QED BY <3>4, <3>5, <3>6 DEF FeedInv, TypeOK
  <2> QED BY <2>1, <2>2
<1> QED BY <1>1, <1>2, FeedInvariant, BeganByNowHolds, PTL DEF Spec

(* Whenever a message leaves during an outage, it was decided before that  *)
(* outage was reported, or past an announced end, or after the method had  *)
(* been let go of for another outage's resolve.                            *)
THEOREM AlwaysSilentOnceReported == Spec => []SilentOnceReported
<1>1. QueuedForAReason => SilentOnceReported
  BY DEF QueuedForAReason, SilentOnceReported
<1> QED BY <1>1, QueueInvariant, PTL
=============================================================================
