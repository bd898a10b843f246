----------------------------- MODULE LiveWorker -----------------------------
(***************************************************************************)
(* The live recovery path: the decide-and-execute pass of                  *)
(* app/workers/live.py with app/controllers/execute.py under it, over the  *)
(* sqlite tables it shares with the settlement webhook and the ledger hook *)
(* (app/controllers/ingest.py) and with the operator's pauses              *)
(* (app/services/ops.py).                                                  *)
(*                                                                         *)
(* Every commit, and every read whose result is used after another commit, *)
(* is a step of its own; the actors interleave between them.  A "pass" is  *)
(* one run of LiveWorker.tick: main.py's loop runs one, and each           *)
(* POST /api/worker/tick runs another in a thread of its own.              *)
(*                                                                         *)
(* A debt is an obligation; its one case has the id live_<obligation id>.  *)
(* Decisions, display counters (actions_taken, contacts_sent) and audit    *)
(* rows are written by the code and read by no step below; they are left   *)
(* out.  LIMIT 50 on the two reads of a pass is above every instance.  A   *)
(* debt's amount is positive and is paid in full.                          *)
(***************************************************************************)
EXTENDS Engine, FiniteSets

CONSTANTS Debts, Passes, ActionIds,
          CustomerOf,    \* [Debts -> customers]
          PauseScopes,   \* the pauses an operator may raise
          Modes,         \* what an executor may be built as, see Ports
          FetchFails,    \* may Razorpay's read endpoint fail?
          PayBy,         \* the ways in which customers may pay
          MaxFaults      \* bound on passes cut short and writes lost

LinkActions == {"REMIND", "PAY_LINK", "METHOD_CHANGE"}
Terminal    == {"WRITE_OFF", "HUMAN"}
\* A pause is its scope and value; a rung's value is named by its action.
\* The Razorpay executor, sending or with dry_run set, and the sandbox one.
Ports       == {"live", "dry_run", "sandbox"}
Routes      == {"unpaid", "order", "link", "cash"}
AllPauses   == ({"global", "merchant"} \X {"all"}) \cup ({"rung", "action"} \X Actions)

ASSUME LiveAssumption ==
  /\ PauseScopes \subseteq AllPauses
  /\ Modes \subseteq Ports /\ FetchFails \in BOOLEAN
  /\ PayBy \subseteq Routes \ {"unpaid"}
  /\ MaxFaults \in Nat

VARIABLES
  ob,        \* obligations.status, "none" before the row exists
  case,      \* cases.status, "none" before the row exists
  rung,      \* cases.rung
  act,       \* the actions table, Free for an unused id
  links,     \* payment_links rows with a live status: <<debt, action, stub>>
  contacts,  \* contacts rows with ok = 1, per debt
  pauses,    \* pauses rows with lifted_at NULL
  aged,      \* the world: how many contacts are older than seven days
  lapsed,    \* the world: debts whose case is older than the window
  night,     \* the world: it is within the quiet hours
  route,     \* the world: how the customer paid, "unpaid" until then
  pc,        \* where each pass is, with its local variables
  mode,      \* the executor a pass is given; the operator's dry-run switch
  held,      \* what a pass read when it began: pauses and mode
  todo,      \* the case rows a pass has still to decide on
  queue,     \* the action rows a pass has still to execute
  faults,    \* passes cut short and writes lost so far
  sent,      \* history: messages that left, per debt
  duds,      \* history: how many of all those carried a dry run's stub link
  late       \* history: those that left after the debt was known paid

store == <<ob, case, rung, act, links, contacts>>
world == <<mode, aged, lapsed, night, route>>
hist  == <<sent, late, duds>>
vars  == <<ob, case, rung, act, links, contacts, pauses, mode, aged, lapsed, night, route,
           pc, held, todo, queue, faults, sent, late, duds>>

CaseStatus == {"OPEN", "RECOVERED", "SELF_RECOVERED", "WRITTEN_OFF", "ESCALATED"}
LiveStatus == {"PENDING", "IN_FLIGHT", "UNKNOWN"}
EndStatus  == {"DONE", "FAILED", "ABORTED", "CANCELLED"}
Free       == [status |-> "free"]
ActionRows == [status : LiveStatus \cup EndStatus, debt : Debts,
               type : Actions, due : BOOLEAN]
CaseRows   == [debt : Debts, rung : 0..6]
Places     == [at : {"idle", "listing", "deciding", "executing"}]
              \cup [at : {"apply", "climb"}, row : CaseRows, action : Actions]
              \cup [at : {"cleared", "calling", "minting", "recording"}, id : ActionIds]
              \cup [at : {"sending"}, id : ActionIds, stub : BOOLEAN]
              \cup [at : {"closing"}, id : ActionIds, ok : BOOLEAN]
Idle         == [pauses |-> {}, port |-> "none"]

Used         == {i \in ActionIds : act[i] # Free}
NewId        == CHOOSE i \in ActionIds : act[i] = Free
Live(d)      == {i \in Used : act[i].debt = d /\ act[i].status \in LiveStatus}
PendingOf(d) == {i \in Used : act[i].debt = d /\ act[i].status = "PENDING"}

\* UPDATE actions SET status = s for the rows in `ids`.
Mark(ids, s) == [i \in ActionIds |->
                   IF i \in ids THEN [act[i] EXCEPT !.status = s] ELSE act[i]]
Goto(w, place) == pc' = [pc EXCEPT ![w] = place]

Init ==
  /\ ob = [d \in Debts |-> "none"]       /\ case = [d \in Debts |-> "none"]
  /\ rung = [d \in Debts |-> 0]          /\ act = [i \in ActionIds |-> Free]
  /\ links = {}                          /\ contacts = [d \in Debts |-> 0]
  /\ pauses = {}                         /\ aged = [d \in Debts |-> 0]
  /\ lapsed = {}                         /\ route = [d \in Debts |-> "unpaid"]
  /\ pc = [w \in Passes |-> [at |-> "idle"]]
  /\ held = [w \in Passes |-> Idle]       /\ todo = [w \in Passes |-> {}]
  /\ queue = [w \in Passes |-> {}]
  /\ faults = 0                          /\ night = FALSE
  /\ mode \in Modes                     /\ duds = 0
  /\ sent = [d \in Debts |-> 0]          /\ late = [d \in Debts |-> 0]

-----------------------------------------------------------------------------
(* PauseSet: what an active set of pauses forbids.  There is one merchant  *)
(* per deployment, so a merchant pause names it.                           *)
BlocksCase(ps, r)   == \/ <<"global", "all">> \in ps \/ <<"merchant", "all">> \in ps
                       \/ \E v \in Actions : <<"rung", v>> \in ps /\ r >= RungOf[v]
BlocksAction(ps, a) == <<"global", "all">> \in ps \/ <<"action", a>> \in ps

(* The contacts rows of the last seven days, the n-th of each debt, and    *)
(* store.contacts_last_7d: one customer's, over all their debts.           *)
ContactRows == UNION {{d} \X ((aged[d] + 1)..contacts[d]) : d \in Debts}
Recent(c)   == Cardinality({r \in ContactRows : CustomerOf[r[1]] = c})

(* LiveWorker.snapshot: what the engine is told about a live case.  Orders *)
(* and checkouts hold no mandate, which by itself forbids RETRY; promises, *)
(* opt-outs and risk blocks have no live source.  The outage feed is the   *)
(* environment's, through `down`.                                          *)
Snapshot(row, down) ==
  [control |-> FALSE, settled |-> ob[row.debt] = "SETTLED", promisedFor |-> 0,
   riskBlocked |-> FALSE, optedOut |-> FALSE,
   age |-> IF row.debt \in lapsed THEN WindowHours + 1 ELSE WindowHours,
   attempts |-> 1, rung |-> row.rung, retryable |-> TRUE, mandate |-> FALSE,
   down |-> down, endKnown |-> FALSE, endsIn |-> 0,
   noticeAge |-> -1, afaMissing |-> FALSE, quietFor |-> IF night THEN 1 ELSE 0,
   contacts |-> Recent(CustomerOf[row.debt]),
   pending |-> {act[i].type : i \in Live(row.debt)}]

-----------------------------------------------------------------------------
(* The deciding half of a pass: LiveWorker.tick down to decide_case.       *)

\* pause_set is read once, before anything else; apply_runtime_mode sets
\* the executor's dry_run for the whole pass.
StartTick(w) ==
  /\ pc[w].at = "idle"
  /\ held' = [held EXCEPT ![w] = [pauses |-> pauses, port |-> mode]]
  /\ Goto(w, [at |-> "listing"])
  /\ UNCHANGED <<store, pauses, world, todo, queue, faults, hist>>

\* Mutants: cases with an action under way are taken too; only PENDING ones
\* are left out.
OpenCasesBusy(w) ==
  /\ pc[w].at = "listing"
  /\ todo' = [todo EXCEPT ![w] = {[debt |-> d, rung |-> rung[d]] :
                 d \in {e \in Debts : case[e] = "OPEN"}}]
  /\ Goto(w, [at |-> "deciding"])
  /\ UNCHANGED <<store, pauses, world, held, queue, faults, hist>>

OpenCasesPendingOnly(w) ==
  /\ pc[w].at = "listing"
  /\ todo' = [todo EXCEPT ![w] = {[debt |-> d, rung |-> rung[d]] :
                 d \in {e \in Debts : case[e] = "OPEN" /\ PendingOf(e) = {}}}]
  /\ Goto(w, [at |-> "deciding"])
  /\ UNCHANGED <<store, pauses, world, held, queue, faults, hist>>

\* open_cases: OPEN, with no action PENDING, IN_FLIGHT or UNKNOWN.
OpenCases(w) ==
  /\ pc[w].at = "listing"
  /\ todo' = [todo EXCEPT ![w] = {[debt |-> d, rung |-> rung[d]] :
                 d \in {e \in Debts : case[e] = "OPEN" /\ Live(e) = {}}}]
  /\ Goto(w, [at |-> "deciding"])
  /\ UNCHANGED <<store, pauses, world, held, queue, faults, hist>>

\* decide_case up to its first write.  A case held by a pause, or decided
\* NONE or WAIT, is dropped until the next pass.
DecideCase(w) ==
  /\ pc[w].at = "deciding"
  /\ \E row \in todo[w], down, worth \in BOOLEAN :
       LET a == Decide(Snapshot(row, down), worth)
       IN  /\ todo' = [todo EXCEPT ![w] = @ \ {row}]
           /\ IF BlocksCase(held[w].pauses, row.rung) \/ a \in {"NONE", "WAIT"}
                THEN UNCHANGED pc
                ELSE Goto(w, [at |-> "apply", row |-> row, action |-> a])
  /\ UNCHANGED <<store, pauses, world, held, queue, faults, hist>>

\* WRITE_OFF and HUMAN close the case.  The UPDATE names the case and no
\* status: it overwrites whatever is there.
CloseCase(w) ==
  /\ pc[w].at = "apply" /\ pc[w].action \in Terminal
  /\ case' = [case EXCEPT ![pc[w].row.debt] =
                IF pc[w].action = "WRITE_OFF" THEN "WRITTEN_OFF" ELSE "ESCALATED"]
  /\ Goto(w, [at |-> "deciding"])
  /\ UNCHANGED <<ob, rung, act, links, contacts, pauses, world, held, todo, queue,
                 faults, hist>>

\* A paused action type is decided and not scheduled.
DropPausedAction(w) ==
  /\ pc[w].at = "apply" /\ pc[w].action \notin Terminal
  /\ BlocksAction(held[w].pauses, pc[w].action)
  /\ Goto(w, [at |-> "deciding"])
  /\ UNCHANGED <<store, pauses, world, held, todo, queue, faults, hist>>

\* execute.schedule: INSERT OR IGNORE on case:action:execute_at, an instant
\* hours ahead and outside the quiet hours (timing.when).  An earlier action
\* of the same type may or may not have had the same instant.
Schedule(w) ==
  /\ pc[w].at = "apply" /\ pc[w].action \notin Terminal
  /\ ~BlocksAction(held[w].pauses, pc[w].action)
  /\ \/ /\ Used # ActionIds
        /\ act' = [act EXCEPT ![NewId] =
                     [status |-> "PENDING", debt |-> pc[w].row.debt,
                      type |-> pc[w].action, due |-> FALSE]]
     \/ /\ \E i \in Used : act[i].debt = pc[w].row.debt /\ act[i].type = pc[w].action
        /\ UNCHANGED act
  /\ Goto(w, [pc[w] EXCEPT !.at = "climb"])
  /\ UNCHANGED <<ob, case, rung, links, contacts, pauses, world, held, todo, queue,
                 faults, hist>>

\* Mutant: the second commit of a decision is left out.
ClimbForgotten(w) ==
  /\ pc[w].at = "climb" /\ Goto(w, [at |-> "deciding"])
  /\ UNCHANGED <<store, pauses, world, held, todo, queue, faults, hist>>

\* The rung is a second commit, computed from the row the pass had read.
Climb(w) ==
  /\ pc[w].at = "climb"
  /\ rung' = [rung EXCEPT ![pc[w].row.debt] = Climbed(pc[w].action, pc[w].row.rung)]
  /\ Goto(w, [at |-> "deciding"])
  /\ UNCHANGED <<ob, case, act, links, contacts, pauses, world, held, todo, queue,
                 faults, hist>>

-----------------------------------------------------------------------------
(* The executing half: LiveWorker.execute_due and execute.run.  Only link  *)
(* actions are ever scheduled for a live case: without a mandate RETRY is  *)
(* blocked, and WAIT, HUMAN and WRITE_OFF are not scheduled.               *)

(* Settlement as the executor's re-check sees it.  Razorpay answers for    *)
(* the merchant's order; a payment through our own link went to the order  *)
(* the link minted, and cash never touched Razorpay.  The sandbox reads    *)
(* our own obligations row.                                                *)
SettledAtSource(port, d) == IF port = "sandbox" THEN ob[d] = "SETTLED"
                            ELSE route[d] = "order"

\* Either our books or the merchant's order says the debt is paid.
KnownPaid(d) == ob[d] = "SETTLED" \/ route[d] = "order"

\* Mutant: every row that has come due is taken, whatever became of it.
ReadDueAgain(w) ==
  /\ pc[w].at = "deciding" /\ todo[w] = {}
  /\ queue' = [queue EXCEPT ![w] = {i \in Used : act[i].due}]
  /\ Goto(w, [at |-> "executing"])
  /\ UNCHANGED <<store, pauses, world, held, todo, faults, hist>>

\* Every case is decided; due_actions takes what is PENDING and due now.
ReadDue(w) ==
  /\ pc[w].at = "deciding" /\ todo[w] = {}
  /\ queue' = [queue EXCEPT ![w] = {i \in Used : act[i].status = "PENDING" /\ act[i].due}]
  /\ Goto(w, [at |-> "executing"])
  /\ UNCHANGED <<store, pauses, world, held, todo, faults, hist>>

\* An action type the pass's own pauses forbid is cancelled, not run.
CancelHeld(w) ==
  /\ pc[w].at = "executing"
  /\ \E i \in queue[w] :
       /\ BlocksAction(held[w].pauses, act[i].type)
       /\ act' = Mark({i}, "CANCELLED")
       /\ queue' = [queue EXCEPT ![w] = @ \ {i}]
  /\ UNCHANGED <<ob, case, rung, links, contacts, pauses, world, pc, held, todo,
                 faults, hist>>

\* Mutants: run without its re-check; run without execute_due's look at the
\* pauses.
RecheckSkipped(w) ==
  /\ pc[w].at = "executing"
  /\ \E i \in queue[w] : /\ ~BlocksAction(held[w].pauses, act[i].type)
                         /\ queue' = [queue EXCEPT ![w] = @ \ {i}]
                         /\ Goto(w, [at |-> "cleared", id |-> i])
  /\ UNCHANGED <<store, pauses, world, held, todo, faults, hist>>

RecheckUnheld(w) ==
  /\ pc[w].at = "executing"
  /\ \E i \in queue[w] : /\ ~SettledAtSource(held[w].port, act[i].debt)
                         /\ queue' = [queue EXCEPT ![w] = @ \ {i}]
                         /\ Goto(w, [at |-> "cleared", id |-> i])
  /\ UNCHANGED <<store, pauses, world, held, todo, faults, hist>>

\* run: fetch_obligation first.  Paid: ABORTED.  A read that fails counts
\* as not paid.  The row's own status is not read again.
Recheck(w) ==
  /\ pc[w].at = "executing"
  /\ \E i \in queue[w] :
       /\ ~BlocksAction(held[w].pauses, act[i].type)
       /\ queue' = [queue EXCEPT ![w] = @ \ {i}]
       /\ \/ /\ SettledAtSource(held[w].port, act[i].debt)
             /\ act' = Mark({i}, "ABORTED") /\ UNCHANGED pc
          \/ /\ ~SettledAtSource(held[w].port, act[i].debt) \/ FetchFails
             /\ Goto(w, [at |-> "cleared", id |-> i]) /\ UNCHANGED act
  /\ UNCHANGED <<ob, case, rung, links, contacts, pauses, world, held, todo,
                 faults, hist>>

\* IN_FLIGHT before the call.  The UPDATE names the id and no status.
MarkInFlight(w) ==
  /\ pc[w].at = "cleared"
  /\ act' = Mark({pc[w].id}, "IN_FLIGHT")
  /\ Goto(w, [at |-> "calling", id |-> pc[w].id])
  /\ UNCHANGED <<ob, case, rung, links, contacts, pauses, world, held, todo, queue,
                 faults, hist>>

(* The link goes into the message, or, in a dry run, nowhere. *)
WithLink(w, stub) ==
  Goto(w, IF held[w].port = "dry_run" THEN [at |-> "closing", id |-> pc[w].id, ok |-> TRUE]
          ELSE [at |-> "sending", id |-> pc[w].id, stub |-> stub])

\* create_payment_link down to the API call: a live link is used again,
\* whichever mode made it; with nothing outstanding no link is made.
FindLink(w) ==
  /\ pc[w].at = "calling" /\ held[w].port # "sandbox"
  /\ LET i    == pc[w].id
         mine == {l \in links : l[1] = act[i].debt /\ l[2] = act[i].type}
     IN  \/ \E l \in mine : WithLink(w, l[3])
         \/ /\ mine = {} /\ ob[act[i].debt] = "SETTLED"
            /\ Goto(w, [at |-> "closing", id |-> i, ok |-> FALSE])
         \/ /\ mine = {} /\ ob[act[i].debt] # "SETTLED"
            /\ Goto(w, [at |-> "minting", id |-> i])
  /\ UNCHANGED <<store, pauses, world, held, todo, queue, faults, hist>>

\* The link is made, at Razorpay or as a dry run's stub, and recorded in
\* place of the action's last one.  A failure to record it is logged only.
Mint(w) ==
  /\ pc[w].at = "minting"
  /\ LET a    == act[pc[w].id]
         stub == held[w].port = "dry_run"
     IN  /\ \/ /\ links' = {l \in links : l[1] # a.debt \/ l[2] # a.type}
                          \cup {<<a.debt, a.type, stub>>}
               /\ UNCHANGED faults
            \/ /\ faults < MaxFaults /\ faults' = faults + 1
               /\ UNCHANGED links
         /\ WithLink(w, stub)
  /\ UNCHANGED <<ob, case, rung, act, contacts, pauses, world, held, todo, queue, hist>>

\* payment_link.create raises.  A refusal and a call that never came back
\* take the same branch.
MintFails(w) ==
  /\ pc[w].at = "minting" /\ held[w].port # "dry_run"
  /\ Goto(w, [at |-> "closing", id |-> pc[w].id, ok |-> FALSE])
  /\ UNCHANGED <<store, pauses, world, held, todo, queue, faults, hist>>

\* send_contact up to notifier.send: the message reaches somebody, or the
\* mail server refuses it.  A refused message's contacts row has ok = 0 and
\* nothing reads it.
Send(w) ==
  /\ pc[w].at = "sending"
  /\ LET i == pc[w].id
         d == act[i].debt
     IN  \/ /\ sent' = [sent EXCEPT ![d] = @ + 1]
            /\ late' = [late EXCEPT ![d] = IF KnownPaid(d) THEN @ + 1 ELSE @]
            /\ duds' = IF pc[w].stub THEN duds + 1 ELSE duds
            /\ Goto(w, [at |-> "recording", id |-> i])
         \/ /\ Goto(w, [at |-> "closing", id |-> i, ok |-> FALSE])
            /\ UNCHANGED <<sent, late, duds>>
  /\ UNCHANGED <<store, pauses, world, held, todo, queue, faults>>

\* Mutant: the message is not recorded.
RecordContactNever(w) ==
  /\ pc[w].at = "recording"
  /\ Goto(w, [at |-> "closing", id |-> pc[w].id, ok |-> TRUE])
  /\ UNCHANGED <<store, pauses, world, held, todo, queue, faults, hist>>

\* store.record_contact, after the send.  A failure to record is logged
\* only: the action is DONE all the same.
RecordContact(w) ==
  /\ pc[w].at = "recording"
  /\ \/ /\ contacts' = [contacts EXCEPT ![act[pc[w].id].debt] = @ + 1]
        /\ UNCHANGED faults
     \/ /\ faults < MaxFaults /\ faults' = faults + 1
        /\ UNCHANGED contacts
  /\ Goto(w, [at |-> "closing", id |-> pc[w].id, ok |-> TRUE])
  /\ UNCHANGED <<ob, case, rung, act, links, pauses, world, held, todo, queue, hist>>

\* Mutant: the timeout is swallowed and the row left as it was.
CallSandboxSilently(w) ==
  /\ pc[w].at = "calling" /\ held[w].port = "sandbox"
  /\ \/ Goto(w, [at |-> "closing", id |-> pc[w].id, ok |-> TRUE])
     \/ Goto(w, [at |-> "executing"])
  /\ UNCHANGED <<store, pauses, world, held, todo, queue, faults, hist>>

\* SandboxExecutor.execute: it works, or raises ExecutorTimeout, which run
\* answers with UNKNOWN.
CallSandbox(w) ==
  /\ pc[w].at = "calling" /\ held[w].port = "sandbox"
  /\ LET i == pc[w].id
     IN  \/ /\ Goto(w, [at |-> "closing", id |-> i, ok |-> TRUE])
            /\ UNCHANGED act
         \/ /\ act' = Mark({i}, "UNKNOWN")
            /\ Goto(w, [at |-> "executing"])
  /\ UNCHANGED <<ob, case, rung, links, contacts, pauses, world, held, todo, queue,
                 faults, hist>>

\* Mutant: the last _set is left out.
FinishForgotten(w) ==
  /\ pc[w].at = "closing" /\ Goto(w, [at |-> "executing"])
  /\ UNCHANGED <<store, pauses, world, held, todo, queue, faults, hist>>

\* run's last _set.
Finish(w) ==
  /\ pc[w].at = "closing"
  /\ act' = Mark({pc[w].id}, IF pc[w].ok THEN "DONE" ELSE "FAILED")
  /\ Goto(w, [at |-> "executing"])
  /\ UNCHANGED <<ob, case, rung, links, contacts, pauses, world, held, todo, queue,
                 faults, hist>>

FinishTick(w) ==
  /\ pc[w].at = "executing" /\ queue[w] = {}
  /\ held' = [held EXCEPT ![w] = Idle]
  /\ Goto(w, [at |-> "idle"])
  /\ UNCHANGED <<store, pauses, world, todo, queue, faults, hist>>

\* An exception (a locked database) or the process ends in mid-pass.  The
\* tables keep what was committed; the pass's own variables are gone.
Abandon(w) ==
  /\ pc[w].at # "idle" /\ faults < MaxFaults
  /\ faults' = faults + 1
  /\ Goto(w, [at |-> "idle"])
  /\ held'  = [held EXCEPT ![w] = Idle]
  /\ todo'  = [todo EXCEPT ![w] = {}]
  /\ queue' = [queue EXCEPT ![w] = {}]
  /\ UNCHANGED <<store, pauses, world, hist>>
-----------------------------------------------------------------------------
(* Everybody else: customers, webhooks, the operator and the clock.        *)

\* Mutant: INSERT OR REPLACE, a further failure starts the case afresh.
FailureRestartsCase(d) ==
  /\ ob' = [ob EXCEPT ![d] = IF @ = "none" THEN "OPEN" ELSE @]
  /\ case' = [case EXCEPT ![d] = "OPEN"] /\ rung' = [rung EXCEPT ![d] = 0]
  /\ UNCHANGED <<act, links, contacts, pauses, world, pc, held, todo, queue, faults, hist>>

\* ingest._open_case (and the sweeper's _open_abandoned_case): the rows are
\* inserted when they are new.  A further failure of a debt that has its
\* case changes the attempt count and the failure class only.
FailureArrives(d) ==
  /\ case[d] = "none"
  /\ ob'   = [ob EXCEPT ![d] = IF @ = "none" THEN "OPEN" ELSE @]
  /\ case' = [case EXCEPT ![d] = "OPEN"]
  /\ UNCHANGED <<rung, act, links, contacts, pauses, world, pc, held, todo, queue,
                 faults, hist>>

\* The customer pays in full: the merchant's order, a link they were sent,
\* or cash.
Pay(d, how) ==
  /\ route[d] = "unpaid" 
  /\ how = "link" => sent[d] > 0
  /\ route' = [route EXCEPT ![d] = how]
  /\ UNCHANGED <<store, pauses, mode, aged, lapsed, night, pc, held, todo, queue, faults, hist>>

\* Both settlement paths: the debt is settled, an OPEN case takes `status`,
\* what is PENDING is cancelled, every link of the debt is dead.
Settle(d, status) ==
  /\ ob'    = [ob EXCEPT ![d] = "SETTLED"]
  /\ case'  = [case EXCEPT ![d] = IF @ = "OPEN" THEN status ELSE @]
  /\ act'   = Mark(PendingOf(d), "CANCELLED")
  /\ links' = {l \in links : l[1] # d}
  /\ UNCHANGED <<rung, contacts, pauses, world, pc, held, todo, queue, faults, hist>>

\* Mutant: only a payment through our link is put down to us.
SettleWebhookByLink(d) ==
  /\ ob[d] # "none" /\ route[d] \in {"order", "link"}
  /\ Settle(d, IF route[d] = "link" THEN "RECOVERED" ELSE "SELF_RECOVERED")

\* ingest._close_settled for a payment that names a debt we track, on the
\* webhook's own connection.  payment.captured and order.paid both lead
\* here; either may be late or never come.
SettleWebhook(d) ==
  /\ ob[d] # "none" /\ route[d] \in {"order", "link"}
  /\ Settle(d, IF route[d] = "link" \/ contacts[d] > 0 THEN "RECOVERED" ELSE "SELF_RECOVERED")

\* ingest.settle_from_ledger: an operator records cash against a case.
Ledger(d) ==
  /\ case[d] # "none" /\ route[d] = "cash"
  /\ Settle(d, "RECOVERED")

\* The recovery window closes on the case of d.
Lapse(d) ==
  /\ case[d] # "none" /\ d \notin lapsed
  /\ lapsed' = lapsed \cup {d}
  /\ UNCHANGED <<store, pauses, mode, aged, night, route, pc, held, todo, queue, faults, hist>>

\* A message turns seven days old.  Its case was opened before it was sent
\* and the window is those same seven days, so the window closed first.
AgeContact(d) ==
  /\ d \in lapsed /\ aged[d] < contacts[d]
  /\ aged' = [aged EXCEPT ![d] = @ + 1]
  /\ UNCHANGED <<store, pauses, mode, lapsed, night, route, pc, held, todo, queue, faults, hist>>

\* The quiet hours begin or end.
Clock == /\ night' = ~night
         /\ UNCHANGED <<store, pauses, mode, aged, lapsed, route, pc, held, todo, queue, faults, hist>>

\* execute_at comes, by day (at TIME_SCALE 1).
TimeReaches(i) ==
  /\ ~night /\ i \in Used /\ act[i].status = "PENDING" /\ ~act[i].due
  /\ act' = [act EXCEPT ![i].due = TRUE]
  /\ UNCHANGED <<ob, case, rung, links, contacts, pauses, world, pc, held, todo, queue,
                 faults, hist>>

(* ops.cancel_pending: the PENDING rows inside a pause's scope.  A rung    *)
(* pause looks at the case's rung, not the action's.                       *)
InScope(p) ==
  {i \in Used : /\ act[i].status = "PENDING"
                /\ CASE p[1] = "action" -> act[i].type = p[2]
                     [] p[1] = "rung"   -> rung[act[i].debt] >= RungOf[p[2]]
                     [] OTHER           -> TRUE}

\* ops.pause: the pauses row and the cancellations are one commit.
RaisePause(p) ==
  /\ p \in PauseScopes \ pauses
  /\ pauses' = pauses \cup {p}
  /\ act' = Mark(InScope(p), "CANCELLED")
  /\ UNCHANGED <<ob, case, rung, links, contacts, world, pc, held, todo, queue, faults, hist>>

\* ops.resume lifts one pause or every one.
Resume ==
  /\ \E lifted \in SUBSET pauses : lifted # {} /\ pauses' = pauses \ lifted
  /\ UNCHANGED <<store, world, pc, held, todo, queue, faults, hist>>

\* The Ops tab's dry-run switch.  Its sandbox counterpart does not exist.
SwitchMode ==
  /\ mode # "sandbox"
  /\ \E m \in Modes \ {mode, "sandbox"} : mode' = m
  /\ UNCHANGED <<store, pauses, aged, lapsed, night, route, pc, held, todo, queue, faults, hist>>

\* reconciler.reconcile: only the operator's Reconcile button runs it.
Reconcile ==
  /\ \E i \in Used : act[i].status = "UNKNOWN"
  /\ act' = [i \in ActionIds |->
               IF act[i] = Free \/ act[i].status # "UNKNOWN" THEN act[i]
               ELSE [act[i] EXCEPT !.status =
                       IF SettledAtSource(mode, act[i].debt) THEN "DONE" ELSE "FAILED"]]
  /\ UNCHANGED <<ob, case, rung, links, contacts, pauses, world, pc, held, todo, queue,
                 faults, hist>>

-----------------------------------------------------------------------------
PassStep(w) ==
  \/ StartTick(w) \/ OpenCases(w) \/ DecideCase(w) \/ CloseCase(w)
  \/ DropPausedAction(w) \/ Schedule(w) \/ Climb(w)
  \/ ReadDue(w) \/ CancelHeld(w) \/ Recheck(w) \/ MarkInFlight(w) \/ FindLink(w)
  \/ Mint(w) \/ MintFails(w) \/ Send(w) \/ RecordContact(w) \/ CallSandbox(w)
  \/ Finish(w) \/ FinishTick(w)

EnvStep(d) == \/ FailureArrives(d) \/ SettleWebhook(d) \/ Ledger(d)
              \/ Lapse(d) \/ AgeContact(d)
              \/ \E how \in PayBy : Pay(d, how)

Next == \/ \E w \in Passes : PassStep(w) \/ Abandon(w)
        \/ \E d \in Debts : EnvStep(d)
        \/ \E i \in ActionIds : TimeReaches(i)
        \/ \E p \in PauseScopes : RaisePause(p)
        \/ Clock
        \/ Resume
        \/ SwitchMode
        \/ Reconcile

Spec == Init /\ [][Next]_vars

(* main.py runs a pass every second for as long as it is up, and time      *)
(* passes: nights end, windows close, and every instant comes (an action's *)
(* falls in one of infinitely many days, hence SF).  Nothing else is owed: *)
(* a webhook may never come, an operator may never act.                    *)
Fairness == /\ \A w \in Passes : WF_vars(PassStep(w))
            /\ \A d \in Debts : WF_vars(Lapse(d))
            /\ WF_vars(Clock)
            /\ \A i \in ActionIds : SF_vars(TimeReaches(i))

FairSpec == Spec /\ Fairness
-----------------------------------------------------------------------------
TypeOK ==
  /\ ob \in [Debts -> {"none", "OPEN", "SETTLED"}]
  /\ case \in [Debts -> CaseStatus \cup {"none"}]
  /\ rung \in [Debts -> 0..6]
  /\ act \in [ActionIds -> ActionRows \cup {Free}]
  /\ links \subseteq Debts \X Actions \X BOOLEAN
  /\ contacts \in [Debts -> Nat] /\ aged \in [Debts -> Nat]
  /\ sent \in [Debts -> Nat] /\ late \in [Debts -> Nat] /\ duds \in Nat
  /\ pauses \subseteq AllPauses /\ mode \in Ports
  /\ lapsed \subseteq Debts /\ night \in BOOLEAN
  /\ route \in [Debts -> Routes]
  /\ pc \in [Passes -> Places]
  /\ held \in [Passes -> [pauses : SUBSET AllPauses, port : Ports \cup {"none"}]]
  /\ todo \in [Passes -> SUBSET CaseRows]
  /\ queue \in [Passes -> SUBSET ActionIds]
  /\ faults \in 0..MaxFaults

(* A case never has two actions alive at once (PENDING, IN_FLIGHT or       *)
(* UNKNOWN): open_cases skips a case that has one, and a pass decides and  *)
(* executes one after the other, while settlements and pauses cancel and   *)
(* run's unguarded updates bring cancelled rows back under it.             *)
OneLiveAction ==
  \A i, j \in Used : /\ act[i].debt = act[j].debt
                     /\ {act[i].status, act[j].status} \subseteq LiveStatus
                     => i = j

(* Passes that overlap (the loop's and those POST /api/worker/tick starts)  *)
(* can put a case's actions on top of each other: one per pass, no more,   *)
(* although each may bring back a row another has finished or cancelled,   *)
(* and one for each pass that was cut short at its own.  Only what the     *)
(* sandbox leaves UNKNOWN may pile up.                                     *)
LiveActionsPerPass ==
  \A d \in Debts : Cardinality(Live(d)) <= Cardinality(Passes) + faults

(* No customer gets the same kind of message twice on one debt, whatever   *)
(* was cancelled, refused or aborted in between: the rung is committed     *)
(* after every schedule, and the ladder restarts above it.  A pass cut     *)
(* short between those two commits costs at most one repeat.               *)
OneActionPerRung ==
  \A d \in Debts, a \in Actions :
     Cardinality({i \in Used : act[i].debt = d /\ act[i].type = a}) <= 1 + faults

(* At most one message leaves after our books or the merchant's order say  *)
(* the debt is paid: the one already past its re-check.                    *)
AtMostOneLateContact == \A d \in Debts : late[d] <= 1

(* G13 counts the customer's messages when it decides, not when they go.   *)
(* A customer with n debts can be sent n - 1 more than the cap, no more;   *)
(* with one debt the cap is exact.                                         *)
CapOvershootBounded ==
  \A d \in Debts :
     Recent(CustomerOf[d]) <= MaxContacts7d - 1
                              + Cardinality({e \in Debts : CustomerOf[e] = CustomerOf[d]})

(* A customer whose message cap is spent is not handed to a person either: *)
(* HUMAN counts as contact, so such a case can only end written off.  Each *)
(* fault can hide one message from the count.                              *)
HumanOnlyUnderCap ==
  \A d \in Debts : case[d] = "ESCALATED" => sent[d] < MaxContacts7d + faults

(* A case counted as recovered by the customer alone was sent no message   *)
(* but the one that was under way when the payment came in, and those that *)
(* a fault kept out of the contacts table.                                 *)
SelfRecoveredUntouched ==
  \A d \in Debts : case[d] = "SELF_RECOVERED" => sent[d] <= 1 + faults

(* The contacts table, which G13 spends from and attribution reads, misses *)
(* no message but one that a pass is about to record or was cut short at.  *)
Unrecorded(d) == Cardinality({w \in Passes : pc[w].at = "recording" /\ act[pc[w].id].debt = d})
UncountedOnlyByFault == \A d \in Debts : sent[d] <= contacts[d] + Unrecorded(d) + faults

(* The status a pass gives an action it is in the middle of can only be    *)
(* changed by that pass: an IN_FLIGHT row without a pass on it is one that *)
(* a pass cut short left behind, and each leaves at most one.              *)
Stranded == {i \in Used : /\ act[i].status = "IN_FLIGHT"
                          /\ \A w \in Passes : "id" \in DOMAIN pc[w] => pc[w].id # i}
StrandedOnlyByFault == Cardinality(Stranded) <= faults

(* A pass that began under a pause of everything, or of an action type,    *)
(* calls nobody with it, however the row got into its queue and whatever   *)
(* was raised or lifted since.                                             *)
PassKeepsItsOrders ==
  \A w \in Passes :
    pc[w].at \in {"calling", "minting", "sending", "recording"}
      => ~BlocksAction(held[w].pauses, act[pc[w].id].type)

(* create_payment_link uses a link again whichever mode made it; still, no *)
(* customer gets a dry run's stub link, unless a pass was cut short: a dry *)
(* run climbs the ladder, and each rung is acted on once.                  *)
StubSentOnlyByFault == duds <= faults

(* When passes overlap, due_actions hands the same row to several of them  *)
(* and nothing in run takes it away from the others: each may send the     *)
(* action's message, and none sends it twice, however often it is run.     *)
MessagesPerPass ==
  \A d \in Debts :
    sent[d] <= Cardinality(Passes) * Cardinality({i \in Used : act[i].debt = d})

(* Every pass looks at the merchant's order before it sends: once that is  *)
(* paid, only the message that each pass is past that look with still goes *)
(* out.                                                                    *)
LateContactsPerPass ==
  \A d \in Debts : route[d] = "order" => late[d] <= Cardinality(Passes)

(* rung_of: the ladder only ever climbs.  The new rung is computed from    *)
(* the row the pass read, two commits earlier.                             *)
RungClimbs == [][\A d \in Debts : rung'[d] >= rung[d]]_vars

(* Without pauses and faults every case is closed in the end: the ladder  *)
(* runs out of rungs or the recovery window closes, and nothing a gateway  *)
(* or a customer does leaves an action alive for ever.                     *)
EveryCaseCloses == \A d \in Debts : case[d] = "OPEN" ~> case[d] # "OPEN"

-----------------------------------------------------------------------------
(* What the code's comments say, as a property; the run that finds it      *)
(* violated is one of the project's findings.                              *)

(* execute.py: "two webhooks must never become two retries".  No two       *)
(* passes are executing the same action.                                   *)
ActionRunsOnce ==
  \A v, w \in Passes : /\ "id" \in DOMAIN pc[v] /\ "id" \in DOMAIN pc[w]
                       /\ pc[v].id = pc[w].id
                       => v = w
=============================================================================
