------------------------------ MODULE Downtime ------------------------------
(***************************************************************************)
(* The downtime feed.  Razorpay reports that a payment method is down, and *)
(* later that it is back; _record_downtime (app/controllers/ingest.py)     *)
(* keeps the reports in the downtimes table (app/repos/store.py), and gate *)
(* G9 reads that table through active_downtime for every open case on the  *)
(* method.  Reports come late, twice, out of order or not at all, and the  *)
(* operator's drill button (app/api/dashboard.py) raises and lifts outages *)
(* over the same path.  What a case on the method does meanwhile is in     *)
(* this module too: decide() reads the table, but what it queued leaves    *)
(* later, and the execution (app/controllers/execute.py) does not.         *)
(*                                                                         *)
(* Time is in hours; of the backoff only that it lies ahead matters.  What *)
(* is stored of severity and instrument decides nothing.  A handler is one *)
(* step: the table changes in a single commit.  The commit of the event    *)
(* comes before it (Intake models both), so a handler cut short in between *)
(* loses the report.  Of the cases one per method is followed, opened at   *)
(* time 0 and never climbing; when its queued message leaves is left open,  *)
(* which covers every delay, quiet hour and stopped worker.                *)
(***************************************************************************)
EXTENDS Engine, FiniteSets

CONSTANTS Outages,    \* downtime ids
          MethodOf,   \* the method each outage is on
          Ends,       \* instants a report may announce as the end
          Copies,     \* event ids under which one report may come
          MaxTime,    \* the clock runs this far
          MaxFaults   \* handlers that are cut short

NoEnd == -1

ASSUME FeedAssumption ==
  /\ Ends \subseteq Nat /\ MaxTime \in Nat /\ MaxFaults \in Nat
  /\ DOMAIN MethodOf = Outages

Methods == {MethodOf[i] : i \in Outages}

VARIABLES time,
          outage,   \* the gateway's truth about each outage
          began,    \* when it began, as every report of it says
          row,      \* downtimes.status, "none" without a row
          ends,     \* downtimes.ends_at; nothing reads it once resolved
          events,   \* the dedupe keys of the reports received
          queued,   \* the messages decided and waiting for their time, each with
                    \* a history: what the table knew when it was decided
          lost,     \* history: those whose handler was cut short
          stray     \* history: outages a resolve was applied for that was not
                    \* theirs to give (a drill's), or found no open row of theirs

table == <<row, ends>>
vars  == <<time, outage, began, row, ends, events, queued, lost, stray>>

Kinds   == {"started", "resolved"}
Reports == [id : Outages, kind : Kinds, copy : Copies]
Queued  == [on : Methods,
            known : SUBSET Outages,   \* the outages that were on and had been reported
            ended : BOOLEAN]          \* an end announced for an open one had passed

TypeOK ==
  /\ time \in Nat
  /\ outage \in [Outages -> {"ahead", "on", "over"}]
  /\ began \in [Outages -> Nat]
  /\ row \in [Outages -> {"none", "started", "resolved"}]
  /\ ends \in [Outages -> Ends \cup {NoEnd}]
  /\ events \subseteq Reports /\ lost \subseteq events /\ stray \subseteq Outages
  /\ queued \subseteq Queued

Init ==
  /\ time = 0
  /\ outage = [i \in Outages |-> "ahead"] /\ began = [i \in Outages |-> 0]
  /\ row = [i \in Outages |-> "none"] /\ ends = [i \in Outages |-> NoEnd]
  /\ events = {} /\ queued = {} /\ lost = {} /\ stray = {}

-----------------------------------------------------------------------------
(* The table. *)

Open(m) == {i \in Outages : MethodOf[i] = m /\ row[i] = "started"}

\* Mutant: an outage past its announced end is taken for over.
ActiveDowntimeAgedOut(m) ==
  {i \in Open(m) : /\ \A j \in Open(m) : began[j] <= began[i]
                   /\ ends[i] = NoEnd \/ ends[i] > time}

\* The rows active_downtime may return: the newest, one of them on a tie.
ActiveDowntime(m) == {i \in Open(m) : \A j \in Open(m) : began[j] <= began[i]}

\* Mutant: the upsert does not ask whether the row is still open.
RecordDowntimeAfresh(i, end) ==
  row' = [row EXCEPT ![i] = "started"] /\ ends' = [ends EXCEPT ![i] = end]

RecordDowntime(i, end) ==
  \/ row[i] = "resolved" /\ UNCHANGED table
  \/ /\ row[i] # "resolved"
     /\ row' = [row EXCEPT ![i] = "started"] /\ ends' = [ends EXCEPT ![i] = end]

\* Mutants: the newest row is cleared, whichever outage ended; the method is.
ClearsNewest(i) ==
  {j \in ActiveDowntime(MethodOf[i]) : j = CHOOSE k \in ActiveDowntime(MethodOf[i]) : TRUE}
ClearsMethod(i) == Open(MethodOf[i])

\* The rows a resolve for i closes: its own, or every open one of its method.
Clears(i) == IF row[i] = "started" THEN {i} ELSE Open(MethodOf[i])

ResolveDowntime(i) ==
  /\ row' = [j \in Outages |-> IF j \in Clears(i) THEN "resolved" ELSE row[j]]
  /\ UNCHANGED ends

-----------------------------------------------------------------------------
(* The gateway, the network and the operator. *)

Tick == /\ time < MaxTime /\ time' = time + 1
        /\ UNCHANGED <<outage, began, table, events, queued, lost, stray>>

Begin(i) ==
  /\ outage[i] = "ahead"
  /\ outage' = [outage EXCEPT ![i] = "on"] /\ began' = [began EXCEPT ![i] = time]
  /\ UNCHANGED <<time, table, events, queued, lost, stray>>

Finish(i) ==
  /\ outage[i] = "on" /\ outage' = [outage EXCEPT ![i] = "over"]
  /\ UNCHANGED <<time, began, table, events, queued, lost, stray>>

Sendable(r) == /\ r \notin events
               /\ outage[r.id] \in (IF r.kind = "started" THEN {"on", "over"} ELSE {"over"})

(* A report arrives for the first time under its event id and is applied. *)
\* (A second time, the events table turns it away.)
ReceiveStarted(r) ==
  /\ r.kind = "started" /\ Sendable(r)
  /\ \E end \in Ends \cup {NoEnd} : RecordDowntime(r.id, end)
  /\ events' = events \cup {r}
  /\ UNCHANGED <<time, outage, began, queued, lost, stray>>

ReceiveResolved(r) ==
  /\ r.kind = "resolved" /\ Sendable(r)
  /\ ResolveDowntime(r.id)
  /\ events' = events \cup {r}
  /\ stray' = IF row[r.id] = "started" THEN stray ELSE stray \cup {r.id}
  /\ UNCHANGED <<time, outage, began, queued, lost>>

(* The process stops between the commit of the event and the handler. *)
CutShort(r) ==
  /\ Sendable(r) /\ Cardinality(lost) < MaxFaults
  /\ events' = events \cup {r} /\ lost' = lost \cup {r}
  /\ UNCHANGED <<time, outage, began, table, queued, stray>>

(* demo_downtime: an outage under a fresh id with no end, said to have     *)
(* begun minutes_ago; and the resolve, which names the newest open row of  *)
(* the method.  With none open its fresh id clears nothing.                *)
DrillStart(i) ==
  /\ outage[i] = "ahead" /\ outage' = [outage EXCEPT ![i] = "on"]
  /\ \E t \in 0..time : began' = [began EXCEPT ![i] = t]
  /\ RecordDowntime(i, NoEnd)
  /\ UNCHANGED <<time, events, queued, lost, stray>>

DrillResolve(i) ==
  /\ i \in ActiveDowntime(MethodOf[i])
  /\ ResolveDowntime(i) /\ stray' = stray \cup {i}
  /\ UNCHANGED <<time, outage, began, events, queued, lost>>

-----------------------------------------------------------------------------
(* A case on the method, opened at time 0, with a mandate that could be    *)
(* debited at once or with none, so that only the outage and the window    *)
(* speak.                                                                  *)
Snapshot(mandate, down, endKnown, endsIn) ==
  [control |-> FALSE, settled |-> FALSE, promisedFor |-> 0, riskBlocked |-> FALSE,
   optedOut |-> FALSE, age |-> time, attempts |-> 0, rung |-> 0, retryable |-> TRUE,
   mandate |-> mandate, down |-> down, endKnown |-> endKnown, endsIn |-> endsIn,
   noticeAge |-> NoticeHours, afaMissing |-> FALSE, quietFor |-> 0, contacts |-> 0,
   pending |-> {}]

Outlook(m, mandate) ==
  IF ActiveDowntime(m) = {} THEN {Snapshot(mandate, FALSE, FALSE, 0)}
  ELSE {Snapshot(mandate, TRUE, ends[i] # NoEnd, IF ends[i] = NoEnd THEN 0 ELSE ends[i] - time)
          : i \in ActiveDowntime(m)}

\* The decisions decide() may make for it, if the action would be worth it.
DecisionsOn(m, mandate) == {Decide(s, TRUE) : s \in Outlook(m, mandate)}

Known(m)    == {i \in Outages : MethodOf[i] = m /\ outage[i] = "on" /\ row[i] # "none"}
EndPassed(m) == \E i \in Open(m) : ends[i] # NoEnd /\ ends[i] <= time

(* A pass decides on the case, which on the live path has no mandate, and  *)
(* queues a message.                                                       *)
DecideCase(m) ==
  /\ \A q \in queued : q.on # m
  /\ \E a \in DecisionsOn(m, FALSE) : a \in {"REMIND", "PAY_LINK", "METHOD_CHANGE"}
  /\ queued' = queued \cup {[on |-> m, known |-> Known(m), ended |-> EndPassed(m)]}
  /\ UNCHANGED <<time, outage, began, table, events, lost, stray>>

(* A later pass finds it due and executes it, whatever the table says now: *)
(* what it asks again is only whether the debt is paid, and here it never  *)
(* is.                                                                     *)
ExecuteMessage(q) ==
  /\ q \in queued /\ queued' = queued \ {q}
  /\ UNCHANGED <<time, outage, began, table, events, lost, stray>>

Next == \/ Tick
        \/ \E i \in Outages : Begin(i) \/ Finish(i) \/ DrillStart(i) \/ DrillResolve(i)
        \/ \E r \in Reports : ReceiveStarted(r) \/ ReceiveResolved(r) \/ CutShort(r)
        \/ \E m \in Methods : DecideCase(m)
        \/ \E q \in queued : ExecuteMessage(q)

Spec == Init /\ [][Next]_vars

-----------------------------------------------------------------------------
Applied == events \ lost
Told(i, kind) == \E r \in Applied : r.id = i /\ r.kind = kind

(* An outage seen to end never holds its method again, however many more   *)
(* of its starts arrive and in whatever order: nothing would lift it.      *)
ResolvedStays ==
  [][\A i \in Outages : row[i] = "resolved" => row'[i] = "resolved"]_vars

(* A method is held only for an outage that began, and no longer than it   *)
(* takes to be told of its end; the one exception is an end that was told  *)
(* before the start.                                                       *)
HeldForAReason ==
  \A i \in Outages : row[i] = "started" =>
    outage[i] # "ahead" /\ (Told(i, "resolved") => i \in stray)

(* While an outage that was reported is on, its method is held, unless a   *)
(* resolve that had no open row of its own cleared the whole method, or    *)
(* the operator lifted it.                                                 *)
ReportedOutageHolds ==
  \A i \in Outages : outage[i] = "on" /\ Told(i, "started") =>
    row[i] = "started" \/ \E j \in stray : MethodOf[j] = MethodOf[i]

(* Nothing ages an outage out: past its announced end too, no debit is     *)
(* decided on for the method until a resolve has cleared every outage on   *)
(* it.                                                                     *)
NoDebitInOutage ==
  \A m \in Methods : Open(m) # {} => "RETRY" \notin DecisionsOn(m, TRUE)

(* What may leave for a method, at any moment, in an outage that is on.    *)
(* Execution does not look at the table, so a message queued before the    *)
(* outage was reported does leave while the method is held.  One decided   *)
(* after the report was applied leaves only if an end announced for an     *)
(* open outage had passed, or if a resolve that was not its own had let go *)
(* of the method.                                                          *)
SilentOnceReported ==
  \A q \in queued : \A i \in Outages :
    MethodOf[i] = q.on /\ outage[i] = "on" =>
      \/ i \notin q.known \/ q.ended
      \/ \E j \in stray : MethodOf[j] = q.on

(* A resolve that never comes holds a case no longer than its window: then *)
(* it is written off, as one on any other method.                          *)
WindowOutlastsOutage ==
  time > WindowHours =>
    \A m \in Methods, mandate \in BOOLEAN : DecisionsOn(m, mandate) = {"WRITE_OFF"}

=============================================================================
