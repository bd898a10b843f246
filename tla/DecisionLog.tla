---------------------------- MODULE DecisionLog ----------------------------
(***************************************************************************)
(* What was decided, under which settings, and what is later made of it:   *)
(* one merchant's contact window, which the operator may move              *)
(* (app/services/ops.py), the configuration versions the process keeps in  *)
(* memory (app/config_loader.py), the worker's decisions, stored with      *)
(* their snapshot and version (app/workers/live.py), the queued messages,  *)
(* replay (app/api/replay.py) and the feed's runs (Feed).                  *)
(*                                                                         *)
(* Instants are minutes since a midnight.  The worker looks at the cases   *)
(* at the instants Looks and whenever an action is due; the code does so   *)
(* every second.  A case is an order without mandate, unpaid, each of its  *)
(* own customer; the interleavings of a pass are LiveWorker's matter.      *)
(***************************************************************************)
EXTENDS Policies, FiniteSets, Feed

CONSTANTS Cases,        \* numbered in the order open_cases reads them
          OpensAt,      \* when each case is opened
          Looks,        \* instants at which the worker passes
          Overlays,     \* windows <<start, end>> the operator may set
          TimeScales,   \* TIME_SCALE, which divides the delays of actions
          Draws,        \* what the posterior may answer, <<p_act, p_none>>
          Remaining,    \* amount_remaining
          Burden,       \* action_cost + friction
          FeedBudget,   \* limit * RUN_BUDGET of the feed
          MaxMoves, MaxStops, MaxSpared   \* bounds

(* Probabilities are in hundred-thousandths.  A stored candidate keeps     *)
(* four digits of them (ScoredAction.as_dict).                             *)
Whole == 100000

ASSUME LogAssumption ==
  /\ Cases \subseteq Nat /\ IsFiniteSet(Cases) /\ OpensAt \in [Cases -> Nat]
  /\ Looks \subseteq Nat /\ IsFiniteSet(Looks) /\ 0 \in Looks
  /\ Overlays \subseteq (0..23) \X (0..23)
  /\ TimeScales \subseteq Nat \ {0} /\ Draws \subseteq (0..Whole) \X (0..Whole)
  /\ Remaining \in Nat /\ Burden \in Nat /\ FeedBudget \in Nat \ {0}
  /\ MaxMoves \in Nat /\ MaxStops \in Nat /\ MaxSpared \in Nat

VARIABLES
  now, scale,
  up, todo,      \* is the process up; cases its pass has still to decide
  cache,         \* config_loader._CACHE: the window of each version loaded
  overlay,       \* the merchant's row in the settings, <<>> for none
  rung, closed,  \* of the cases
  queue,         \* the action of each case that is PENDING, or Idle
  log,           \* the decisions table
  sent,          \* history: the messages that went out
  spared, moves, stops   \* counted against the bounds
vars == <<now, scale, up, todo, cache, overlay, rung, closed, queue, log, sent,
          spared, moves, stops>>

Idle  == [action |-> "NONE", at |-> 0, window |-> <<>>]
Plain == <<QuietStart, QuietEnd>>
Versions == {<<>>} \cup Overlays
Least(S)    == CHOOSE x \in S : \A y \in S : x <= y
Greatest(S) == CHOOSE x \in S : \A y \in S : x >= y

-----------------------------------------------------------------------------
(* load_config: an overlaid configuration is a version of its own, named   *)
(* here by the overlay; the plain file is <<>>.                            *)
\* Mutant: every configuration has the file's version.
VersionOfFile(o) == <<>>

VersionOf(o) == o

WindowOf(o) == IF o = <<>> THEN Plain ELSE o

Load(known, o) == [v \in DOMAIN known \cup {VersionOf(o)} |->
                     IF v = VersionOf(o) THEN WindowOf(o) ELSE known[v]]

\* ops.config_for: quiet_hours() loads the file, then the overlay is laid on it.
ConfigFor(known, o) == Load(Load(known, <<>>), o)

\* config_loader.version: what is not known any more is the file's.
VersionWindow(known, v) == IF v \in DOMAIN known THEN known[v] ELSE Plain

-----------------------------------------------------------------------------
\* LiveWorker.snapshot, and CaseSnapshot read back from a stored decision.
Snapshot(c, at, r, contacts, window) ==
  [control |-> FALSE, settled |-> FALSE, promisedFor |-> 0, riskBlocked |-> FALSE,
   optedOut |-> FALSE, age |-> (at - OpensAt[c] + 59) \div 60, attempts |-> 0, rung |-> r,
   retryable |-> TRUE, mandate |-> FALSE, down |-> FALSE, endKnown |-> FALSE, endsIn |-> 0,
   noticeAge |-> -1, afaMissing |-> FALSE,
   quietFor |-> NextContactWindow(at, window[1], window[2]) - at,
   contacts |-> contacts, pending |-> {}]

\* scoring.score: is the action worth more than it costs?  The cost is one
\* figure here; the code's depends on the action and on the contacts.
Worth(draw) == (draw[1] - draw[2]) * Remaining - Burden * Whole > 0

Stored(p) == ((p + 5) \div 10) * 10

Row(c, s, draw, o) ==
  [case |-> c, at |-> now, action |-> Decide(s, Worth(draw)),
   reason |-> ReasonFor(s, Worth(draw)), version |-> VersionOf(o),
   rung |-> s.rung, contacts |-> s.contacts, draw |-> draw,
   candidates |-> IF Scored(s) THEN <<Stored(draw[1]), Stored(draw[2])>> ELSE <<>>]

\* LiveWorker.scaled.
Scaled(at) == IF at > now THEN now + (at - now) \div scale ELSE now

Contacts(c) == Cardinality({m \in sent : m.case = c})

Terminal == {"WRITE_OFF", "HUMAN"}

\* LiveWorker.decide_case and record.
DecideCase(c) ==
  /\ up /\ todo # {} /\ c = Least(todo) /\ todo' = todo \ {c}
  /\ cache' = ConfigFor(cache, overlay)
  /\ \E draw \in Draws :
       LET window == WindowOf(overlay)
           s   == Snapshot(c, now, rung[c], Contacts(c), window)
           row == Row(c, s, draw, overlay)
           d   == EngineDecide(s, Worth(draw), now, window[1], window[2])
           alone == row.reason = "EV_NEGATIVE"
       IN  /\ ~Scored(s) => draw = CHOOSE x \in Draws : TRUE     \* nothing is drawn
           /\ alone => spared < MaxSpared
           /\ spared' = IF alone THEN spared + 1 ELSE spared
           /\ log' = Append(log, row)
           /\ closed' = IF d.action \in Terminal THEN closed \cup {c} ELSE closed
           /\ IF d.action \in ContactActions \ Terminal    \* nothing to debit: no RETRY
              THEN /\ queue' = [queue EXCEPT ![c] = [action |-> d.action, at |-> Scaled(d.at),
                                                     window |-> window]]
                   /\ rung' = [rung EXCEPT ![c] = Climbed(d.action, @)]
              ELSE UNCHANGED <<queue, rung>>
  /\ UNCHANGED <<now, scale, up, overlay, sent, moves, stops>>

IsDue(c) == queue[c] # Idle /\ queue[c].at <= now

\* execute_due: nothing asks what hour it is.
ExecuteDue(c) ==
  /\ up /\ todo = {} /\ IsDue(c)
  /\ sent' = sent \cup {[case |-> c, at |-> now, due |-> queue[c].at,
                         by |-> queue[c].window, window |-> WindowOf(overlay)]}
  /\ queue' = [queue EXCEPT ![c] = Idle]
  /\ UNCHANGED <<now, scale, up, todo, cache, overlay, rung, closed, log, spared, moves, stops>>

\* ops.set_quiet_hours, and the button that takes the merchant's hours back.
MoveWindow ==
  /\ up /\ moves < MaxMoves /\ moves' = moves + 1
  /\ \E o \in Versions \ {overlay} : overlay' = o /\ cache' = ConfigFor(cache, o)
  /\ UNCHANGED <<now, scale, up, todo, rung, closed, queue, log, sent, spared, stops>>

OpenIdle(at) == {c \in Cases : OpensAt[c] <= at /\ c \notin closed /\ queue[c] = Idle}

\* The process stops; what it holds in memory is gone.
StopProcess ==
  /\ up /\ stops < MaxStops /\ stops' = stops + 1
  /\ up' = FALSE /\ todo' = {} /\ cache' = <<>>
  /\ UNCHANGED <<now, scale, overlay, rung, closed, queue, log, sent, spared, moves>>

\* LiveWorker's constructor loads the file; the first pass begins.
StartProcess ==
  /\ ~up /\ up' = TRUE /\ cache' = Load(<<>>, <<>>) /\ todo' = OpenIdle(now)
  /\ UNCHANGED <<now, scale, overlay, rung, closed, queue, log, sent, spared, moves, stops>>

(* The clock goes on to the next instant anything can happen; a running    *)
(* worker has done its pass by then.                                       *)
Coming == {x \in Looks \cup {queue[c].at : c \in Cases} : x > now}

Advance ==
  /\ Coming # {} /\ now' = Least(Coming)
  /\ up => todo = {} /\ ~\E c \in Cases : IsDue(c)
  /\ todo' = IF up THEN OpenIdle(now') ELSE {}
  /\ UNCHANGED <<scale, up, cache, overlay, rung, closed, queue, log, sent, spared, moves, stops>>

\* The settings are on disk, and may have been made before.
Init ==
  /\ now = 0 /\ scale \in TimeScales /\ up = TRUE /\ cache = Load(<<>>, <<>>) /\ overlay \in Versions
  /\ rung = [c \in Cases |-> 0] /\ closed = {} /\ queue = [c \in Cases |-> Idle]
  /\ log = <<>> /\ sent = {} /\ spared = 0 /\ moves = 0 /\ stops = 0
  /\ todo = {c \in Cases : OpensAt[c] = 0}

Next == \/ \E c \in Cases : DecideCase(c) \/ ExecuteDue(c)
        \/ MoveWindow \/ StopProcess \/ StartProcess \/ Advance
Spec == Init /\ [][Next]_vars

-----------------------------------------------------------------------------
Windows  == (0..23) \X (0..23)
Reasons  == {"CONTROL_ARM", "ALREADY_SETTLED", "RISK_BLOCK", "OPTED_OUT", "WINDOW_EXPIRED",
              "LADDER_TOP", "DEFERRED", "NO_LEGAL_ACTION", "EV_NEGATIVE", "none"}
Rows     == [case : Cases, at : Nat, action : Decisions, reason : Reasons, version : Versions,
             rung : 0..6, contacts : Nat, draw : Draws, candidates : {<<>>} \cup (Nat \X Nat)]
Messages == [case : Cases, at : Nat, due : Nat, by : Windows, window : Windows]
Queued   == [action : ContactActions \ Terminal, at : Nat, window : Windows]

TypeOK ==
  /\ now \in Nat /\ scale \in TimeScales /\ up \in BOOLEAN /\ todo \subseteq Cases
  /\ DOMAIN cache \subseteq Versions /\ overlay \in Versions
  /\ rung \in [Cases -> 0..6] /\ closed \subseteq Cases /\ queue \in [Cases -> {Idle} \cup Queued]
  /\ log \in Seq(Rows) /\ sent \subseteq Messages /\ IsFiniteSet(sent)
  /\ spared \in Nat /\ moves \in Nat /\ stops \in Nat

(* GET /api/replay: the stored snapshot decided again, with the stored     *)
(* probabilities and the window of the version the process finds under the *)
(* stored name.                                                            *)
\* FrozenPosterior: what was not stored is worth nothing.
Recalled(row) == IF row.candidates = <<>> THEN <<0, 0>> ELSE row.candidates

Replay(row) ==
  LET window == VersionWindow(cache, row.version)
  IN  Decide(Snapshot(row.case, row.at, row.rung, row.contacts, window), Worth(Recalled(row)))

(* Replay tells the truth about what the worker decided, whatever the      *)
(* operator has changed since, but for two exceptions: the version is one  *)
(* the process has forgotten since, or the decision was closer than the    *)
(* rounding of the stored probabilities, a ten-thousandth of the amount.   *)
ReplayFaithful ==
  up => \A i \in DOMAIN log :
          LET row == log[i]
              margin == (row.draw[1] - row.draw[2]) * Remaining - Burden * Whole
          IN  Replay(row) # row.action =>
                \/ row.version \notin DOMAIN cache /\ stops > 0
                \/ row.candidates # <<>> /\ margin \in (-10 * Remaining)..(10 * Remaining)

(* Nobody is written to at night, by the hours in force when the message   *)
(* leaves, unless the operator has moved them since it was queued, or it   *)
(* was due while the process was down, or TIME_SCALE brings it forward.    *)
NightMessageExplained ==
  \A m \in sent :
     InQuietHours(m.at, m.window[1], m.window[2]) =>
       m.by # m.window \/ m.at > m.due \/ scale > 1

Window(since) == {i \in DOMAIN log : log[i].at >= since}

\* Of the decisions W: those of i's case before i, and the last of them.
Before(W, i) == {j \in W : j < i /\ log[j].case = log[i].case}
Prior(W, i)  == IF Before(W, i) = {} THEN 0 ELSE Greatest(Before(W, i))

\* Those that differ from the one before them, and the run from i on.
Begins(W) == {i \in W : Before(W, i) = {} \/ KeyOf(log[Prior(W, i)]) # KeyOf(log[i])}

Members(W, B, i) ==
  {j \in W : /\ j >= i /\ log[j].case = log[i].case
             /\ ~\E k \in B : log[k].case = log[i].case /\ i < k /\ k <= j}

RunFrom(W, B, i) ==
  [case |-> log[i].case, key |-> KeyOf(log[i]), id |-> i, at |-> log[i].at,
   heldUntil |-> log[Greatest(Members(W, B, i))].at,
   repeats |-> Cardinality(Members(W, B, i))]

RunsOf(since) ==
  LET W == Window(since)
      B == Begins(W)
  IN  {[run |-> RunFrom(W, B, i), prior |-> Prior(W, i)] : i \in B}

(* The feed's decision lines are whole runs of equal decisions of a case,  *)
(* rightly dated and counted.  One is missing only when as many are shown  *)
(* as the walk asks for, and each of these follows a decision of its case  *)
(* that is newer than the decision the missing one follows.                *)
FeedShowsRuns ==
  \A since \in {0, 600} :
     LET shown == Runs(log, since, FeedBudget)
         all   == RunsOf(since)
     IN  /\ shown \subseteq {r.run : r \in all}
         /\ \A r \in all : r.run \notin shown =>
              /\ Cardinality(shown) >= FeedBudget
              /\ \A q \in all : q.run \in shown => q.prior > r.prior

(* At every instant the window next_contact_window names is the first      *)
(* legal one of the hours in force.                                        *)
NextWindowIsFirstLegal ==
  LET w == WindowOf(overlay) IN FirstLegal(now, w[1], w[2])
=============================================================================
