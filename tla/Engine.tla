------------------------------- MODULE Engine -------------------------------
(***************************************************************************)
(* The decision engine: the ordered gates (app/domain/gates.py), the       *)
(* escalation ladder (app/domain/ladder.py) and decide() itself            *)
(* (app/domain/engine.py).  Pure: a snapshot in, a decision out.           *)
(*                                                                         *)
(* Instants are kept relative to the snapshot's own `now`: promisedFor,    *)
(* endsIn and quietFor are how far ahead promised_until, downtime_ends_at  *)
(* and the next contact window lie.  The score of the one candidate action *)
(* enters only through its sign, the parameter `worth`.                    *)
(***************************************************************************)
EXTENDS Integers

CONSTANTS MaxAttempts,       \* recovery.max_attempts
          MaxRung,           \* recovery.max_rung
          MaxContacts7d,     \* recovery.max_contacts_7d
          WindowHours,       \* recovery.window_hours
          NoticeHours,       \* compliance.mandate_pre_debit_notice_hours
          DowntimeBackoff    \* timing.downtime_backoff_minutes

ASSUME LimitsAreNatural ==
  /\ MaxAttempts \in Nat /\ MaxRung \in Nat /\ MaxContacts7d \in Nat
  /\ WindowHours \in Nat /\ NoticeHours \in Nat
  /\ DowntimeBackoff \in Nat \ {0}

(* RUNG_ORDER: an action's index on the ladder. *)
RungOf == [WAIT |-> 0, RETRY |-> 1, REMIND |-> 2, PAY_LINK |-> 3,
           METHOD_CHANGE |-> 4, HUMAN |-> 5, WRITE_OFF |-> 6]

Actions        == {"WAIT", "RETRY", "REMIND", "PAY_LINK", "METHOD_CHANGE",
                   "HUMAN", "WRITE_OFF"}
ContactActions == {"REMIND", "PAY_LINK", "METHOD_CHANGE", "HUMAN"}
Decisions      == Actions \cup {"NONE"}

Snapshots ==
  [control : BOOLEAN,        \* arm = CONTROL
   settled : BOOLEAN,        \* obligation_settled or amount_remaining <= 0
   promisedFor : Int, riskBlocked : BOOLEAN, optedOut : BOOLEAN,
   age : Int, attempts : Nat, rung : 0..6,
   retryable : BOOLEAN,      \* failure_class not in NON_RETRYABLE_FAILURES
   mandate : BOOLEAN,
   down : BOOLEAN, endKnown : BOOLEAN, endsIn : Int,
   noticeAge : Int,          \* hours since the last notice, -1 for none
   afaMissing : BOOLEAN,     \* remaining above the AFA limit and no valid AFA
   quietFor : Nat,           \* 0 outside quiet hours
   contacts : Nat, pending : SUBSET Actions]

-----------------------------------------------------------------------------
(* The gates.  A gate result either stops the case, or lists what is       *)
(* blocked and how long to wait.  decide() reads no blocked set once a     *)
(* gate has stopped the case, so a stop carries the empty one.             *)

Stop(reason, terminal) ==
  [stop |-> reason, terminal |-> terminal, blocked |-> {}, waitFor |-> 0]

\* Mutants: G10 is not asked; it asks whether the notice was sent, not how long ago.
RetryBlockedUnnotified(s) ==
  s.attempts >= MaxAttempts \/ ~s.retryable \/ ~s.mandate \/ s.down \/ s.afaMissing

RetryBlockedUntilNotified(s) ==
  \/ s.attempts >= MaxAttempts \/ ~s.retryable \/ ~s.mandate \/ s.down
  \/ s.mandate /\ (s.noticeAge < 0 \/ s.afaMissing)

RetryBlocked(s) ==
  \/ s.attempts >= MaxAttempts                                       \* G6
  \/ ~s.retryable \/ ~s.mandate                                      \* G8
  \/ s.down                                                          \* G9
  \/ s.mandate /\ (s.noticeAge < 0 \/ s.noticeAge < NoticeHours)     \* G10
  \/ s.mandate /\ s.afaMissing                                       \* G11

\* Mutants: G13 lets one message too many through; G13 is not asked.
ContactBlockedOverCap(s)  == s.quietFor > 0 \/ s.contacts > MaxContacts7d
ContactBlockedAtNight(s)  == s.quietFor > 0

ContactBlocked(s) == s.quietFor > 0 \/ s.contacts >= MaxContacts7d   \* G12, G13

Blocked(s) == (IF RetryBlocked(s) THEN {"RETRY"} ELSE {})
              \cup (IF ContactBlocked(s) THEN ContactActions ELSE {})
              \cup s.pending                                         \* G14

(* G9 waits for the announced end or backs off; G12 for the next window;   *)
(* the later instant wins, and one that is not ahead of now holds nothing. *)
\* Mutant: without an announced end there is nothing to wait for.
DowntimeForAnnounced(s) == IF s.down /\ s.endKnown THEN s.endsIn ELSE 0

DowntimeFor(s) == IF ~s.down THEN 0 ELSE IF s.endKnown THEN s.endsIn ELSE DowntimeBackoff
WaitFor(s) == IF s.quietFor > DowntimeFor(s) THEN s.quietFor ELSE DowntimeFor(s)

\* Mutant: the window gate G5 comes before the risk gate G3 and the opt-out G4.
RunGatesWindowFirst(s) ==
  IF s.control THEN Stop("CONTROL_ARM", "NONE")
  ELSE IF s.settled THEN Stop("ALREADY_SETTLED", "NONE")
  ELSE IF s.promisedFor > 0
    THEN [stop |-> "none", terminal |-> "NONE", blocked |-> Actions,
          waitFor |-> s.promisedFor]
  ELSE IF s.age > WindowHours THEN Stop("WINDOW_EXPIRED", "WRITE_OFF")
  ELSE IF s.riskBlocked THEN Stop("RISK_BLOCK", "NONE")
  ELSE IF s.optedOut THEN Stop("OPTED_OUT", "NONE")
  ELSE IF s.rung >= MaxRung THEN Stop("LADDER_TOP", "WRITE_OFF")
  ELSE [stop |-> "none", terminal |-> "NONE", blocked |-> Blocked(s),
        waitFor |-> WaitFor(s)]

\* Mutant: an outage is looked at before the window.
RunGatesDowntimeFirst(s) ==
  IF s.control THEN Stop("CONTROL_ARM", "NONE")
  ELSE IF s.settled THEN Stop("ALREADY_SETTLED", "NONE")
  ELSE IF ~s.down /\ s.age > WindowHours THEN Stop("WINDOW_EXPIRED", "WRITE_OFF")
  ELSE [stop |-> "none", terminal |-> "NONE", blocked |-> Blocked(s), waitFor |-> WaitFor(s)]

RunGates(s) ==
  IF s.control THEN Stop("CONTROL_ARM", "NONE")                      \* G0
  ELSE IF s.settled THEN Stop("ALREADY_SETTLED", "NONE")             \* G1
  ELSE IF s.promisedFor > 0                                          \* G2
    THEN [stop |-> "none", terminal |-> "NONE", blocked |-> Actions,
          waitFor |-> s.promisedFor]
  ELSE IF s.riskBlocked THEN Stop("RISK_BLOCK", "NONE")              \* G3
  ELSE IF s.optedOut THEN Stop("OPTED_OUT", "NONE")                  \* G4
  ELSE IF s.age > WindowHours THEN Stop("WINDOW_EXPIRED", "WRITE_OFF") \* G5
  ELSE IF s.rung >= MaxRung THEN Stop("LADDER_TOP", "WRITE_OFF")     \* G7
  ELSE [stop |-> "none", terminal |-> "NONE", blocked |-> Blocked(s),
        waitFor |-> WaitFor(s)]

-----------------------------------------------------------------------------
(* The ladder: the first rung above the current one that is not blocked,   *)
(* never WRITE_OFF.  At most one action.                                   *)
Climbable(s, blocked) ==
  {a \in Actions \ (blocked \cup {"WRITE_OFF"}) :
     RungOf[a] > s.rung /\ RungOf[a] <= MaxRung}

\* Mutant: the ladder is walked from the top.
HighestRungs(s, blocked) ==
  {a \in Climbable(s, blocked) :
     \A b \in Climbable(s, blocked) : RungOf[a] >= RungOf[b]}

LegalNextRungs(s, blocked) ==
  {a \in Climbable(s, blocked) :
     \A b \in Climbable(s, blocked) : RungOf[a] <= RungOf[b]}

(* decide(): the action, and the stop reason when there is one. *)
Decide(s, worth) ==
  LET g    == RunGates(s)
      next == LegalNextRungs(s, g.blocked)
  IN  IF g.stop # "none" THEN g.terminal
      ELSE IF g.waitFor > 0 \/ next = {} \/ ~worth THEN "WAIT"
      ELSE CHOOSE a \in next : TRUE

\* Mutant: the action's rung is not taken over.
ClimbedNever(action, rung) == rung

(* LiveWorker.rung_of: never below where the case already is. *)
Climbed(action, rung) == IF RungOf[action] > rung THEN RungOf[action] ELSE rung
=============================================================================
