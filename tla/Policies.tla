------------------------------ MODULE Policies ------------------------------
(***************************************************************************)
(* The four policies the benchmark compares (app/domain/policies.py,       *)
(* engine.decide with timing.when, and oracle_decide_factory of            *)
(* sim/runner.py).  Each takes a snapshot and answers with an action and   *)
(* the instant it is to be done, in minutes.                               *)
(***************************************************************************)
EXTENDS Engine, ContactWindow, Sequences

CONSTANTS QuietStart, QuietEnd,   \* compliance.quiet_hours
          Schedule                \* baseline_retry_schedule_hours, a sequence

ASSUME PolicyAssumption ==
  /\ QuietStart \in 0..23 /\ QuietEnd \in 0..23
  /\ Schedule \in Seq(Nat)

Decision(action, at) == [action |-> action, at |-> at]

ControlDecide(now) == Decision("NONE", now)

(* A retry by the schedule, and one reminder once no retry is open to it.  *)
BaselineDecide(s, now, opened) ==
  LET g    == RunGates(s)
      step == s.attempts + 1
      due  == opened + 60 * Schedule[step]
  IN  IF g.stop # "none" THEN Decision(g.terminal, now)
      ELSE IF g.waitFor > 0 THEN Decision("WAIT", now + g.waitFor)
      ELSE IF step <= Len(Schedule) /\ "RETRY" \notin g.blocked
        THEN Decision("RETRY", IF due > now THEN due ELSE now)
      ELSE IF s.rung < 2 /\ "REMIND" \notin g.blocked THEN Decision("REMIND", now + 120)
      ELSE Decision("NONE", now)

(* BASE_DELAY_HOURS, in minutes.  The payday and notice delays of a retry  *)
(* are left out: no engine decision is a retry (SimArm!EngineNeverRetries). *)
BaseDelay == [WAIT |-> 60, RETRY |-> 0, REMIND |-> 120, PAY_LINK |-> 360,
              METHOD_CHANGE |-> 720, HUMAN |-> 1440]

EngineDecide(s, worth, now, start, end) ==
  LET a == Decide(s, worth)
      g == RunGates(s)
  IN  IF g.stop # "none" THEN Decision(a, now)
      ELSE IF g.waitFor > 0 THEN Decision(a, now + g.waitFor)
      ELSE IF a \in ContactActions
        THEN Decision(a, ContactAt(now, BaseDelay[a], start, end))
      ELSE Decision(a, now + BaseDelay[a])

\* Does decide() come as far as scoring a candidate?
Scored(s) ==
  LET g == RunGates(s)
  IN  g.stop = "none" /\ g.waitFor = 0 /\ LegalNextRungs(s, g.blocked) # {}

(* The stop reason of a decision; all that wait for a gate are one here.   *)
ReasonFor(s, worth) ==
  LET g == RunGates(s)
  IN  IF g.stop # "none" THEN g.stop
      ELSE IF g.waitFor > 0 THEN "DEFERRED"
      ELSE IF ~Scored(s) THEN "NO_LEGAL_ACTION"
      ELSE IF ~worth THEN "EV_NEGATIVE" ELSE "none"

(* The oracle takes the best action that is not blocked, on any rung, and  *)
(* reads no wait; `likes` is the actions worth more than they cost, best   *)
(* first.                                                                  *)
OracleDecide(s, likes, now) ==
  LET g    == RunGates(s)
      open == {i \in DOMAIN likes : likes[i] \notin g.blocked}
      best == CHOOSE i \in open : \A j \in open : i <= j
  IN  IF g.stop # "none" THEN Decision(g.terminal, now)
      ELSE IF open = {} THEN Decision("WAIT", now + 360)
      ELSE Decision(likes[best], now)
=============================================================================
