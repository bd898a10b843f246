# RazorRecovery: TLA+ models, checks and proofs

RazorRecovery turns failed and abandoned payments into *cases* and pursues them: a
decision engine picks the next step for a case, a worker carries it out through the
payment gateway and by mail, and webhooks, browser reports, a ledger hook and a sweeper
put debts onto the books and take them off again. All of it shares one sqlite database.
This directory holds the formal models of that system, what TLC checks of them, and what
TLAPS proves.

Paths below are under `src/`.

## 1. Inventory

| Component | State it keeps | Operations | What makes it correct |
|---|---|---|---|
| Decision engine (`app/domain/gates.py`, `ladder.py`, `engine.py`, `models.py`) | none, pure | `run_gates` (G0-G14), `legal_next_rungs`, `decide` | no debit without mandate, notice, budget; no contact at night, over the cap, during a promise; write-off only when due; only ever upwards |
| Timing (`app/domain/timing.py`, `gates.py`) | none, pure | `in_quiet_hours`, `next_contact_window`, `when` | the window named is the first legal instant; a message is scheduled by day |
| Live worker (`app/workers/live.py`, `main.py`) | cases, decisions | `tick`: `open_cases`, `decide_case`, `execute_due` | one live action per case, climbing rungs, every case ends |
| Action queue (`app/controllers/execute.py`) | actions | `schedule`, `due_actions`, `run` | an action runs once, is re-checked first, and a timeout is never taken for an outcome |
| Executors (`app/services/executor.py`) | payment_links, contacts | `fetch_obligation`, `create_payment_link`, `send_contact`, sandbox | no message after the debt is known paid, none uncounted, no stub link to a customer |
| Reconciler (`app/workers/reconciler.py`) | actions | `reconcile` | UNKNOWN actions are resolved at the source |
| Intake (`app/controllers/ingest.py`, `app/api/webhooks.py`, `checkout.py`) | events, obligations, cases, settlements, checkouts, downtimes | `ingest`, `_open_case`, `_close_settled`, `settle_from_ledger`, `watch_order`, `_record_downtime` | duplicates change nothing, nothing reported is lost, a settled debt has no open case |
| Matcher (`app/services/matcher.py`) | none, pure | `match_settlement` | a payment closes the right debt or none |
| Sweeper (`app/workers/sweeper.py`) | checkouts, cases | `sweep` | abandoned orders become cases, paid ones never |
| Operator (`app/services/ops.py`, `app/api/ops.py`, `dashboard.py`) | pauses, settings | pause, resume, mode, quiet hours, reconcile, tick and sweep buttons | a pause and a mode hold for the pass that read them |
| Downtime feed (`ingest.py`, `app/repos/store.py`) | downtimes | `record_downtime`, `resolve_downtime`, `active_downtime` | gate G9 sees the outages that are on |
| Bandit, scoring (`app/services/bandit.py`, `app/domain/scoring.py`) | posteriors | `score_all`, `update` | bounded counts, no update lost |
| Allocator, policies (`app/domain`) | none, pure | `allocate`, `baseline_decide`, `control_decide`, the oracle | the budget of a tick is kept, losers lose to richer cases |
| Simulator, benchmark (`sim/`, `run_benchmark.py`, `app/metrics.py`) | case states, contacts, a copy of the world for each arm | `run_once`, `run_arm`, `_execute`, `generate` | every arm keeps the rules it claims to, every arm sees the same world, a customer's own payment is booked |
| Configuration and replay (`app/config_loader.py`, `app/api/replay.py`) | the cache of versions; decisions | `load_config`, `version`, replay | a replay decides as the worker did |
| Feed (`app/services/feed.py`) | none, reads decisions | `_decisions` | runs shown whole, none dropped for an older one |
| Text, mail, chaos, web page | none, or demonstrations | - | presentation and I/O |

Interaction. `main.py` runs one worker tick per second in a thread and a sweep after
every sixtieth; the tick and sweep *buttons* run more of them in request threads.
Webhooks are handled one at a time on the event loop (`async def`) with a connection of
their own; browser and operator requests run in threads and, like the worker, use the
dashboard's connection. The actors communicate only through the tables.

What is hard: a tick reads a list and acts on it many commits later; statuses are
written without looking at the ones they replace; the gateway may refuse, time out or
answer late; events arrive twice, late, under two keys, or never; a process may stop
between any two commits; a customer may pay at any moment by any of three routes; what
is queued or stored is used under settings that have changed since, or by a process that
has forgotten them.
`PROJECT.json` lists these hazards at their lines.

## 2. Modules

| Module | Models | Role |
|---|---|---|
| `Engine` | gates, ladder, decide | pure operators, used by `EngineCase` and `LiveWorker` |
| `EngineCase`, `MCEngineCase` | one case whose facts change under the engine | checks the engine over all its inputs |
| `ContactWindow` | the clock arithmetic of quiet hours and `when` | pure operators |
| `Policies` | the four policies of the benchmark | pure operators over `Engine` and `ContactWindow` |
| `Allocator` | `allocate` | pure operators |
| `SimArm`, `MCSimArm` | `run_arm` for the four arms of `run_once` | composes `Policies`, `Allocator` with a world |
| `Feed` | the feed's walk over decisions | pure operators |
| `DecisionLog`, `MCDecisionLog` | the contact window, versions, stored decisions, queued messages, replay, feed | composes `Policies`, `Feed` with a clock and restarts |
| `LiveWorker` | tick, queue, executors, pauses, modes, settlements | the core |
| `RecoveryCase` | what the live path promises of a case | abstract specification |
| `DebtBook` | what intake and live path promise each other of a debt | abstract specification of both |
| `LiveRefinement` | `RecoveryCase` and `DebtBook` under refinement mappings | `KeepsPromises`, `LiveKeepsTheBooks` |
| `LiveInvariant` | inductive invariants of the live path | used by TLC modules and proofs |
| `MCLiveWorker` | instances | |
| `Matcher` | `match_settlement` | pure operators, used by `Intake` |
| `Intake`, `MCIntake` | ingest, ledger hook, watch list, sweeper | how cases open and close |
| `Downtime`, `MCDowntime` | the downtimes table, its reports, gate G9 as its reader | when a method is held |
| `EngineLemmas` | | facts about `decide` and the contact window, for the other proof modules |
| `EngineProofs`, `LiveWorkerProofs`, `LiveContactProofs`, `IntakeProofs`, `DowntimeProofs`, `SimArmProofs`, `DecisionLogProofs` | | theorems |

Definitions introduced by a comment "Mutant" are the code with one plausible mistake in
it, one for each property: the property must fail when the mistake is made. No
specification uses them.

### Engine
A case is a record of the facts the gates read (`CaseSnapshot`). Instants are relative to
now: `promisedFor`, `endsIn`, `quietFor` are hours or minutes ahead, `noticeAge` and `age`
behind. `RunGates` returns the stop reason, the terminal action, the blocked actions and
how long to wait, in the order of G0 to G14. Money is abstracted to the comparisons made
with it (`settled`, `afaMissing`); the posterior's verdict is the free boolean `worth`.

### ContactWindow and Policies
Time is minutes since a midnight; `NextContactWindow` and the contact part of `when` are
translated with their wrap at midnight. `Policies` adds to `Decide` the instant at which
the action is to be done (`BaseDelay`), and the three opponents: the control arm, the
baseline's fixed schedule with its one reminder, the oracle, which reads no wait.

### Allocator and SimArm
`Allocate` says which contenders are behind the budget: those with at least `Budget`
contenders ahead, richer or equally rich and earlier in the batch, which is what the
code's stable sort and greedy sum come to when every message costs one contact.

`SimArm` has the loop of `run_arm` as three steps an hour, in the code's order: `Execute`
(what is due, with the re-check that the baseline leaves out), `BookSelfPayments`,
`DecideAll` (snapshots, the arm's policy, the allocator, the case states); then
`CloseWindow` and `NextArm`. `world` is `run_once`'s, `payAt` is what the arm's deep copy
says of it: `_execute` takes a payment away when its nudge drives a customer off. Draws
are choices; the worlds are records of what `generate` draws. A case whose action was
executed two hours ago may be asked again, as in the code (`wakeAt`). `spared` counts how
often a case was left alone, only to bound the engine's choices: the code counts the
first time.

### Feed and DecisionLog
`DecisionLog` is the part of the live path that outlasts a decision. Its clock jumps from
one instant at which something can happen to the next. The worker looks at every idle
open case (`DecideCase`), with the window in force, and stores snapshot, draw, stored
candidates (four digits, as `ScoredAction.as_dict`) and version; the message it queues
keeps the instant it was given, scaled by TIME_SCALE, and leaves whenever the process next
finds it due (`ExecuteDue`). The operator moves the window or takes it back
(`MoveWindow`); `StopProcess` forgets the loaded versions and `StartProcess` loads the
file. `Replay` and the feed's `Runs` are evaluated in every state. The cost of an action is one
figure here. Contacts of the last week are all contacts, since the run is shorter.

`Feed` walks over the rows as the code does, newest first: `Walk` is a function of the
number of rows read, each step of which (`Look`) folds a row into the open run of its case
or closes that run, and stops when enough are closed. A decision's id is its place in the
log: the query orders by `decided_at` without a tiebreak, and sqlite's backward scan of
`ix_dec_live` gives equal dates newest row first. `RunsOf` in `DecisionLog` says what the
runs are without walking; it is compared with.

### LiveWorker
State: the tables (`ob`, `case`, `rung`, `act`, `links`, `contacts`, `pauses`), the
world (how the customer paid, night, the case's age, the operator's mode), where each pass
is with its local variables (`pc`, `held`, `todo`, `queue`), and history variables that
only properties read (`sent`, `late`, `duds`). One action per commit of the code:

`StartTick` (pauses and mode are read once) - `OpenCases` - for each row `DecideCase`, then
`CloseCase`, `DropPausedAction` or `Schedule` and `Climb` (two commits) - `ReadDue` -
for each action `CancelHeld`, or `Recheck`, `MarkInFlight`, `FindLink`, `Mint` or
`MintFails`, `Send`, `RecordContact` (or `CallSandbox`), `Finish` - `FinishTick`.
`Abandon` ends a pass anywhere. Around it: `FailureArrives`, `SettleWebhook`, `Ledger`,
`RaisePause`, `Resume`, `SwitchMode`, `Reconcile`, and the world's `Pay`, `Lapse`,
`AgeContact`, `Clock`, `TimeReaches`.

Abstractions: TIME_SCALE is 1; a scheduled action becomes due by `TimeReaches`, never in
the commit that schedules it (every delay is two hours or more); the customer pays once
and in full; a webhook settles a debt that has a row; credentials are configured; the
live path schedules only messages and links, because its snapshots carry no mandate, so
RETRY and, with `max_rung` 6, LADDER_TOP are unreachable there (`EngineCase` covers
them). `RECOVERED` versus `SELF_RECOVERED` follows the code's two facts: our link, or a
contacts row.

`RecoveryCase` says the same with no tables: at most one action at a time, each on a
higher rung, at most one message each, and the engine closes a case only between actions.
In the mapping (`LiveRefinement`) an action is under way until it is out of every pass's
hands, because a settlement can cancel a row that a pass then carries on with; a case's
level is the highest rung of its actions, which `Schedule` raises one commit before
`Climb` writes it.

`DebtBook` is what the two halves of the system rely on in one another: a debt and its
case are opened together and once, a settlement closes an open case in the same step, the
recovery path may close a case whatever has become of it, and nothing reopens one.
`Intake` implements it with its own variables, `LiveWorker` with WRITTEN_OFF and ESCALATED
read as given up (`GivenUp`). Each leaves the other's part open to any of its steps.

### Downtime
State: what is true at the gateway (`outage`, `began`), the table (`row`, `ends`), the
dedupe keys (`events`), and two history variables: `lost` (reports whose handler was cut
short) and `stray` (outages for which a resolve was applied that closed no row of its
own, or was the operator's). `ReceiveStarted` and `ReceiveResolved` are
`_record_downtime` with the store functions it calls; `DrillStart` and `DrillResolve`
are the operator's button, whose outages are otherwise like any other, but that they may
be said to have begun earlier; `DecisionsOn` is `decide` for a case with a mandate that
could be debited at once, or with none, so that only the outage and the window speak.
The live path has no mandates: its `DecideCase` queues a message, with what was known of
the outages then, and `ExecuteMessage` lets it go at any later moment, since
`execute.py` does not read the table. One case per method is followed, and one message of
it at a time. When two outages began together, `active_downtime` may return either.

### Matcher and Intake
`MatchSettlement` returns the set of results the ladder allows (more than one only when
the oldest of several debts is a tie). `Intake` has one step per commit: `Receive` (the
dedupe insert), `OpenCase`, `MatchPayment` (the reads), `TakeOffList`, `Settle`,
`SettleFromLedger`, `Book`; for the sweeper `ReadDue`, `CheckSettled`,
`OpenAbandonedCase`, `ResolveAbandoned`, `SweepDone`; `CutShort` ends any of them.
`Reports` is what the gateway and the browser may say, at any time and any number of
times, of what has happened. A debt's id is its order's id. What a row says of its debtor
is constant (`DebtOf`), whichever path wrote it. The live path's part in a case is left
open: it may give a case up at any time, and a debtor may or may not have been written to.

## 3. Runs

| Run | Question | States |
|---|---|---|
| `EngineGates` | does any decision break the rules of the gates? | 1.2 million |
| `LiveOneCase` | one case, live: promises kept, at most one late message, it ends | 53,000 |
| `LiveFaults` | three executors, mode switches, an unreachable gateway, one fault: what can a fault cost? | 2.5 million |
| `LiveTwoDebts` | how far is the shared contact cap overshot, and does a pass keep its pauses? | 2.3 million |
| `LiveTwoPasses` | two ticks at once: how many live actions, how many messages? | 1.2 million |
| `Intake` | one order, all handlers, one fault: is anything lost, does a closed case stay closed? `DebtBook` | 473,000 |
| `Downtime` | two outages of one method, reports in any order: is it held too long, or too short, and what leaves for it meanwhile? | 1.3 million |
| `SimArm` | four arms over one world: which rules does each keep, is a customer's own payment lost? | 920,000 |
| `DecisionLog` | the window moves, the process stops: night messages, replay, feed | 194,000 |
| `TwoTicksRunTwice` | violated: two ticks execute one action | |
| `CertainMatch` | violated: a "certain" match closes the wrong debt | |
| `SweptWhilePaid` | violated: a paid order becomes a case | |

Bounds. `ActionIds` is the number of actions ever scheduled: three messages are all the
rungs there are below HUMAN, so three or four ids let a case climb the whole ladder and
once more than the code should. `MaxRung` is 6 where the end of the ladder matters and
smaller where only the first rungs do; `MaxContacts7d` is 1 where the cap must bite with
few messages. `PayBy` picks the routes a customer may pay by. `MaxFaults` is 1 where the
property counts faults: the bounds are stated per fault. One debt shows all
interleavings of one case, since cases meet only in the contact cap and in a pass's
order of work; two debts cover those. Two passes are what the timer and one button give.
In `Intake`, one order meets every handler; a second order is what a wrong match needs,
and `CertainMatch` has it; that a settled debt has no open case and no case reopens is
proved for any number of orders. `LiveTwoPasses` has the Razorpay executor only: an action
that the sandbox leaves UNKNOWN stays alive without a pass on it, and overlapping passes can
pile such actions up beyond the bound. Its two passes differ in name only, so TLC takes
them as symmetric. Its customer does not pay: what overlapping passes do to one who pays is
proved, for any number of them. In `Downtime`, two outages of one method are what it
takes for a resolve to clear another one's row; `Copies` is 2 because a report may come
again under a second event id; the announced end (1) lies before the end of the window
(2), and the clock (3) passes both. Which outage and which copy is which decides nothing,
so TLC takes them as symmetric.
The gates are checked on both sides of each limit, with the limits of
`config/default.yaml`, in either arm, with and without a risk block. In `SimArm` a world is one of six pairs of debtors: one who never
pays and holds a mandate during outages that keep it waiting until a debit is legal, one
whom every action drives away from a payment on the second day, one who pays in the hour a
reminder is due, and two without mandate, one of whom pays early. Two cases and a budget
of one make the allocator bite; the cap is 2 and its week two days (`Week`), so that it is
reached within the nine days; `MaxSpared` lets the engine change its mind once. In
`DecisionLog` two cases are opened at midnight and at 22:00, the worker looks at
midnight, 10:00, 20:00 and 22:00 and whenever something is due; the windows are the
file's, none at all and a longer one; TIME_SCALE is 1 or 6; the draws are worth a message,
worth it by less than the rounding, and not worth it; one stop, one move of the window (of
any to any, since an overlay may be older than the process) and one sparing (`MaxStops`,
`MaxMoves`, `MaxSpared`). A feed that closes one run (`FeedBudget`) stops early at once.
`CHECK_DEADLOCK FALSE` is set in `Downtime`, `SimArm` and `DecisionLog`: when every report
has come, the last arm is closed or nothing is due any more, there is nothing left to do.

Fairness. `LiveWorker`: a pass that can step does (`main.py` runs one every second and
goes on after an exception), nights end, windows close, and each queued instant comes. It
comes in one of infinitely many states in which the row waits, since a pause may remove
it first, hence the strong form. Nothing is owed by customers, webhooks or the operator.
`EveryCaseCloses` is checked without pauses and faults: under a standing pause, or with a
row stranded IN_FLIGHT, a case rightly or wrongly stays open. `Intake`: the timer's sweep
runs and time passes; webhooks may never arrive.

## 4. Proofs

All theorems hold for every value of the constants allowed by the named assumptions.

* `EngineProofs`: the four rules of `EngineGates` and `DecisionClimbs`, from
  `EngineCase`'s type invariant and lemmas on what `RunGates` and `LegalNextRungs` return.
* `EngineLemmas`: `WindowIsFirstLegal` (outside the quiet hours, and every minute
  before it inside) and `ScheduledByDay`, for any instants and hours, from the arithmetic
  of hours within a day.
* `LiveWorkerProofs`: `TypeCorrect` for any number of passes. The type alone is not
  inductive: a pass must hold only ids that exist (`Hands`), or its status update could
  write a row out of nothing. `OneLiveActionPerCase` and `LadderNeverDescends` assume one
  pass at a time (`Passes = {W}`), crashes, pauses and settlements included. The
  invariant is `OnePassInv`: the cases a pass has still to act on have nothing alive
  (`RowsAreFree`), an action in its hands is the only one of its case (`HandsAreAlone`,
  needed because a cancelled row comes back to life under the executor's unguarded
  update), and the rung it read is still the rung (`RowsAreCurrent`).
* `LiveContactProofs`: what the live path sends and counts. It begins with lemmas on what
  any step of any actor may do: to the rows of `actions` (`ActForms`, `RowsStep`,
  `ComesAlive`), to the place and the queue of a pass (`PlaceStep`, `QueueStep`,
  `HandStep`, `RowStep`), and which action writes which table (`Writers`).
  - For any number of passes. `PassAlwaysKeepsItsOrders`: what was let through when a
    pass looked at the pauses it began under stays so, since neither its pauses nor an
    action's type change under it (`OrdersKept`). `AlwaysStrandedOnlyByFault`: a row leaves
    a pass's hands with its last status or with the pass (`EndsHand`).
    `AlwaysUncountedOnlyByFault`: a message is counted, about to be, or lost with a fault
    (`Counted`). `LiveActionsAlwaysPerPass` assumes finitely many passes and an executor
    that is not the sandbox. The invariant (`Generations`) collects the actions of a case
    scheduled since the case last had nothing alive: each is a different pass's, because a
    pass reads a case once and only when nothing of it is alive (`Claims`), and a pass that
    has scheduled one holds no older row that it could bring back. What is alive besides is
    in some other pass's hands, or stranded. `MessagesAlwaysPerPass`: the messages sent for
    a debt are no more than the pairs of an action and a pass that has spent it
    (`SentByEach`, `SpentFor`): it is not PENDING, and the pass has it neither in its queue
    nor in its hands with the message still to come. No status that passes write over one
    another's is PENDING, and only PENDING rows are read into a queue, so what is spent
    stays spent.
    `LateContactsAlwaysPerPass` counts the passes that are past their re-check with a
    message in hand together with the late messages (`LateByEach`); it assumes that the
    gateway answers reads. `LiveAlwaysKeepsTheBooks`, the refinement of `DebtBook`, follows
    from `Books`: a debt and its case come together, and a pass holds rows of cases only.
  - For one pass at a time, crashes, pauses and settlements included. `OnePass` collects
    what all of these need: the invariant of `LiveWorkerProofs`, that a decision is above
    the rung it was made on (`DecidedAbove`), that a debt is settled only after a payment
    (also in `Books`), and that a link live on a settled debt is the last one
    (`SettledLinksAreLast`). On top of it
    `SelfRecoveredAlwaysUntouched` (`SelfRecoveredCount`), `AtMostOneLateContactAlways`
    (`LateCount`: after a payment of the merchant's order nothing gets past the re-check,
    after any other nothing makes a link; it assumes that the gateway answers reads,
    `FetchFails = FALSE`, because a read that fails counts as not paid),
    `HumanAlwaysUnderCap` (`HumanCount`, `ClosedIsQuiet`), and `CapOvershootAlwaysBounded`
    (`CapCount`: a debt whose message is still to come was decided under the cap, and each
    of the customer's debts has one at most; finitely many debts).
    `OneActionPerRungAlways` and `StubAlwaysSentOnlyByFault` share `RepeatsByFault`: there
    is a set of actions, no larger than the number of faults, without which each kind of
    action was scheduled once, and a subset of it, no smaller than the number of stub links
    sent, whose members repeat what a dry run had done.
  - `PromisesAreKept`: the refinement. Every step of one pass at a time maps to a step of
    `RecoveryCase` or to none, by one lemma for each of its actions (`OpenStep`,
    `BeginStep`, `TellStep`, `EndStep`, `GiveUpStep`, `PaidCloseStep`). `BeginStep` needs
    that a new action is above all earlier ones, which is `RepeatsByFault` without faults:
    hence `MaxFaults = 0`, and after a crash it is indeed false. That a message is an
    action's own is counted by `SentBySpent`.
* `IntakeProofs`: `SettledAlwaysClosed`, `AbandonedAlwaysHasCase`,
  `AlwaysRecoveredByMoney`, `ClosedForGood`, for any orders, payments, handlers, sweepers
  and faults. The invariant adds that a debt and its case appear together
  (`RowsComeTogether`), that what a handler matched still has its row and its payment is
  captured (`HandlersAreRight`), and that a sweep about to resolve a checkout has its case
  (`SweepsAreRight`). `AlwaysLostOnlyByFault` follows each payment from its report to the
  books: a handler has it in hand between the two, and only `CutShort` takes it away.
  `GuessIsPlausible` says what a match that is not by id can name, and
  `ToleranceIsTwoPercent` what "within 2%" comes to for whole paise.
  `IntakeAlwaysKeepsTheBooks`, the refinement of `DebtBook`, needs `RowsComeTogether` for
  the steps that open and `HandlersAreRight` for those that settle.
* `DowntimeProofs`: `ResolvedForGood`, `AlwaysHeldForAReason`,
  `ReportedOutageAlwaysHolds`, `WindowAlwaysOutlasts`, for any outages, methods, copies
  and faults. The invariant says that reports are of what happened (`ReportsAreTrue`) and
  what each applied report leaves behind (`ReportsLeaveTraces`): a resolve that did not
  close its own row has made its outage a stray one. `NeverDebitedInOutage` and
  `AlwaysSilentOnceReported`: an open outage is always seen (`OpenOutageIsSeen`: instants
  up to now are finitely many, so one of the open outages began last), and what `decide`
  makes of it is known from the lemmas on the gates (`DecidedInOutage`). The second adds
  the queue: whatever is in it was decided in some earlier state (`QueueGrowsByDecision`),
  in which a reported outage that was on either held its row open or had been let go of
  for another's resolve, and that stays so (`StrayGrows`).
* `SimArmProofs`: for any cases, worlds, schedules, budgets and caps.
  `AllocationWithinBudget` is a fact on finite sets: the contenders are ordered by who is
  ahead of whom (`AheadIsStrictOrder`), the last of the winners has all the others ahead,
  so they are within the budget, and the first of the losers has only winners ahead, so
  then they use it up (`FirstAndLast`). `SimTypeCorrect` adds to
  the types that the clock stands on the hour and what each step has left behind
  (`TypeInv`). `CapHoldsOverTime`: a decision to write is made under the cap, nothing else
  is written to that customer while it is queued, and contacts only grow older.
  `DebitsAreAnnounced` and `EngineDoesNotRetry`: a debit needs a notice, a notice is a
  message, and a message takes the case past the rung of RETRY, which only the engine's
  ladder looks at. `RulesHold`: an arm that asks again aborts; the
  baseline's reminder to a payer closes its case, so there is one; a message leaves in the
  hour it was queued for, which `ScheduledByDay` puts outside the quiet hours for the
  engine. `NoMoneyIsLost`: what the arm's copy says of a payment differs from the world
  only for a customer this arm acted on harmfully, and a payment that is due is booked in
  its hour, all of them before the horizon.
* `DecisionLogProofs`: for any cases, looks, windows, draws and scales.
  `NightMessagesExplained`: a queued message's instant is by day for the window it was
  queued under unless it was scaled. `ReplayTellsTheTruth`: a version the process holds
  always has the window its name says, none is forgotten but by a stop, and a decision
  that scores nothing does not depend on the stored probabilities (`UnscoredIgnoresWorth`);
  otherwise the two worths differ only within the rounding (`RoundingIsSmall`).
  `WindowAlwaysFirstLegal` follows from the type. `FeedTellsTheTruth`: after every number
  of rows, the walk holds what `RunsOf` says of them (`WalkedTo`: the closed runs are those
  that follow a decision of their case among the rows read, and the open run of a case
  begins at the earliest row read). The walk is a function on an interval of numbers, so the
  induction over the rows is a least counterexample in `Nat`, within reach of the provers.

Proved and not in a run: `LateContactsPerPass` and `LiveKeepsTheBooks`, which are about
passes that overlap while the customer pays, and `CasesStayClosed` and `DecisionClimbs`,
in whose place runs check `IntakeKeepsTheBooks` and `RungClimbs`.

Only model-checked: liveness (`EveryCaseCloses`, `WatchEnds`: the prover handles neither
fairness nor ENABLED). Every other property of a passing run is stated by a theorem.

The theorems marked above for one pass at a time are false, or not known, for more: two
overlapping passes can execute one action (`TwoTicksRunTwice`). What is known for more is
the cost of it: live actions, messages and late messages are bounded by the number of
passes, and the books stay right.

## 5. Where the code and its documents disagree

Shown by the violated runs:

* `TwoTicksRunTwice`: two ticks execute one action (`execute.py:75-85` against
  `execute.py:7` and `main.py:37-38`).
* `CertainMatch`: `matcher.py:187-198` against `matcher.py:19-20, 32-34`.
* `SweptWhilePaid`: `sweeper.py:91-106` against `tests/test_abandonment.py:92-93`.

Met while modelling, without a run of their own:

* `execute.py:8-9`, a timeout is UNKNOWN and never a failure: a gateway call that raises
  in `create_payment_link` ends FAILED (`executor.py:313-322`, `MintFails`); only the
  sandbox raises `ExecutorTimeout`.
* `execute.py:4-6`, the re-check stops for a customer who paid: it reads the merchant's
  order, and a payment through our own link leaves that order unpaid
  (`executor.py:165-196`, `SettledAtSource`).
* `tests/test_webhooks.py:6`, a success event closes the case: `live.py:204` overwrites
  the status of a case that was settled after the pass read it (`CloseCase`; `GiveUp` in
  `RecoveryCase` allows it).
* `matcher.py:152`, one payment, one recovery: the unique key guards the settlements row,
  and the case update precedes it, so a second event of the same payment can close
  another debt.
* `ingest.py:196-206`: the event is committed before it is applied, so the redelivery
  after a crash is a duplicate and the payment is lost; `LostOnlyByFault` bounds it.
* `checkout.py:242-246`: the browser's key is made of the payment id alone, so the report
  of a held payment uses up the key of the captured one.
* `store.py:344`, a settlement row is the recovery record: a payment booked unmatched
  first keeps its row without a debt when a later event closes the case.
* `config/default.yaml:16`, the contact cap: queued actions overshoot it by one for each
  further debt (`CapOvershootBounded` is the exact bound).
* `live.py:237-238`, a paused engine does not execute: only global and action pauses are
  looked at there, a rung or merchant pause is not.
* `ladder.py:38-42` skips blocked rungs; `SPEC.md:187` says never skip.
* `reconciler.py:4-5`, self-clearing: only the operator's button runs it.
* `store.py:517`, a resolve falls back to its method when the id is unknown: it does so
  whenever no open row has the id, so the resolve of an outage already closed clears the
  other outages of its method, and their starts cannot open them again
  (`ReportedOutageHolds` is the exact bound).
* `store.py:163`, nothing expires a row but a resolve, which holds the whole case: past
  an announced end G9 holds nothing but RETRY, and the end of the newest outage hides an
  older one without an end (`SilentOnceReported` allows it). The reply to a
  start (`ingest.py:437-442`) says that every open case is held until the resolve.
* `ops.py:509-511`, "nothing goes out on this method while the row is open -- not a
  reminder, not a pay link": G9 holds what is decided. A message queued before the outage
  leaves during it, because `execute.py:36-72` asks again only whether the debt is paid,
  and no executor reads the downtimes table. `SilentOnceReported` is the exact bound: its
  first exception (`i \notin q.known`) is this message, and the run reaches it.
* `ops.py:550`, a stuck outage is lifted by replaying the resolve: the replay of an
  event whose handler was cut short is a duplicate and does nothing.
* `main.py:61-63`, a failed tick is retried on the next: a row left IN_FLIGHT is not.

* `policies.py:7-9`, the baseline never chases a settled obligation and never breaks a
  compliance rule: it writes to customers who have paid (`runner.py:33-37, 320-327`, as the
  runner says), and its reminder, decided at 19:00 or 20:00, leaves at night. The oracle,
  which decides and sends within an hour, sends at 21:00 (`OnlyOpponentsBreakRules` is the
  exact bound).
* `policies.py:42`, the baseline retries, then reminds, then stops: a mandate's debit needs
  a notice, and only the reminder is one, so the reminder comes first.
* `world.py:104-106`, the multiplier of retries reaches the cases that hold a mandate: not
  in the engine's arm, which never retries (`EngineNeverRetries`).
* `run_benchmark.py:79-80`, cases deliberately not chased: `left_alone_count` counts a case
  the first time it is left alone, and the same case may be chased later
  (`runner.py:248-254`).
* `allocator.py:4-7`, contact is a finite budget: it limits what is scheduled in one tick,
  and actions scheduled in different ticks may leave in the same one.
* `engine.py:10`, replay is bit-identical: the stored probabilities have four digits, and a
  decision closer than that may be answered differently (`ReplayFaithful` is the exact
  bound).
* `config_loader.py:29-30` and `tests/test_ops.py:378`, a stored version stays resolvable:
  only while the process lives; after a restart, and until the same overlay is loaded
  again, its decisions are replayed under the plain file.
* `timing.py:51`, never wake a customer up: an action keeps its instant when the window
  moves, is executed at any hour if the process was down when it came due, and TIME_SCALE
  may bring it into the night (`NightMessageExplained` is the exact bound).
* `feed.py:196-198`, no run still open when the walk stops can reach the page: one can. A
  case whose run is its first, or that was busy in between, may have begun its newest run
  later than shown ones and is dropped (`FeedShowsRuns` is the exact bound).

## 6. Not modelled, and the plan

Left out for good: message wording and SMTP, the language model's classification, the
dashboards and the feed's other sources, payload building, the web page, the chaos
endpoints (the same actions table through the sandbox executor), the posterior's learning
(real-valued, random; only its verdict enters, as a choice) and the benchmark's statistics.
The payday and notice delays of `when` concern retries, which no engine decision is. Stubs
without credentials and the driver's locking (one connection shared by threads may commit
another thread's statements) are recorded as hazards.

Order of the next modules, most important first:

1. `PaymentLinks` - link rows, reuse, marking, expiry clamping, references.
2. `CaseLimit` - `LIMIT 50 ORDER BY amount` and the starvation it allows.
3. Composition: `Intake` and `LiveWorker` over one set of tables. They meet in `DebtBook`
   today, which says nothing of contacts and links.
4. Proofs: what overlapping passes may cost a rung (`OneActionPerRung` for more than one
   pass), and the new modules' properties.
