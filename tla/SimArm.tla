------------------------------- MODULE SimArm -------------------------------
(***************************************************************************)
(* The experiment harness: run_arm (sim/runner.py) for the four arms in    *)
(* turn, as run_once (run_benchmark.py) runs them over one world           *)
(* (sim/world.py).  An hour is three steps: what is due is executed, money *)
(* that came on its own is booked, every idle case is decided.             *)
(*                                                                         *)
(* Instants are minutes since T0; an arm looks at its cases on the hour.   *)
(* Draws are choices: whether an action brings the money in, whether it    *)
(* drives a payer away, whether an action is worth it, which case is worth *)
(* more.  A case has one customer and a customer one case, as in           *)
(* generate().  The posterior is only its verdict, as in Engine.           *)
(***************************************************************************)
EXTENDS Policies, Allocator

CONSTANTS Cases,      \* numbered in the order of the batch
          Worlds,     \* the worlds generate() may hand in
          Week,       \* the contact cap's window, 7 days in the code
          Slack,      \* hours run after the recovery window, 48 in the code
          MaxSpared   \* bound: a case left alone more often stays left alone

Never == -1

(* Obligation, Customer and Truth.  `likes` and `harms`: the actions whose *)
(* effect is worth their cost, best first, and those that suppress a       *)
(* payment.  `downs` is the outages of the case's method, from and until.  *)
WorldCases ==
  [openedAt : Nat, selfPayAt : Nat \cup {Never}, mandate : BOOLEAN, retryable : BOOLEAN,
   optedOut : BOOLEAN, riskBlocked : BOOLEAN, downs : Seq(Nat \X Nat),
   likes : Seq(Actions \ {"WAIT", "WRITE_OFF"}), harms : SUBSET Actions]

ASSUME SimAssumption ==
  /\ Cases \subseteq Nat /\ IsFiniteSet(Cases)
  /\ Worlds \subseteq [Cases -> WorldCases]
  /\ Week \in Nat /\ Slack \in Nat /\ MaxSpared \in Nat
  \* generate(): opened in the first two days, paid by itself within the window
  /\ \A w \in Worlds, c \in Cases :
       /\ w[c].openedAt <= 60 * Slack
       /\ w[c].selfPayAt # Never => /\ w[c].openedAt < w[c].selfPayAt
                                    /\ w[c].selfPayAt < w[c].openedAt + 60 * WindowHours

VARIABLES
  world,      \* run_once's world, the same for every arm
  arm, t, step,
  payAt,      \* self_pay_at in the arm's own deep copy of the world
  st,         \* the arm's CaseStates
  contacts    \* when each customer was written to
vars == <<world, arm, t, step, payAt, st, contacts>>

Arms    == <<"CONTROL", "BASELINE", "ENGINE", "ORACLE">>
Idle    == Decision("NONE", 0)
Horizon == 60 * (WindowHours + Slack)

NewCase(opened) ==
  [status |-> "OPEN", rung |-> 0, attempts |-> 0, wakeAt |-> opened, noticeAt |-> Never,
   pending |-> Idle, stopped |-> FALSE, spared |-> 0, acted |-> {}, falseChases |-> 0]

Draw(w) == [c \in Cases |-> w[c].selfPayAt]
Fresh   == [c \in Cases |-> NewCase(world[c].openedAt)]
Nobody  == [c \in Cases |-> {}]

Init ==
  /\ world \in Worlds /\ payAt = Draw(world)
  /\ arm = 1 /\ t = 0 /\ step = "execute" /\ st = Fresh /\ contacts = Nobody

Arm == Arms[arm]
Paid(c) == payAt[c] \in 0..t
Open(c) == st[c].status = "OPEN"

-----------------------------------------------------------------------------
(* _execute.  Every arm but the baseline asks again whether the customer   *)
(* has paid before it sends anything.                                      *)
\* Mutant: no arm asks.
RechecksNever == FALSE

Rechecks == Arm # "BASELINE"

Due == {c \in Cases : Open(c) /\ st[c].pending # Idle /\ st[c].pending.at <= t}

Sends(c) == /\ st[c].pending.action \in ContactActions
            /\ ~(Paid(c) /\ Rechecks)

FoundPaid(c) ==
  [st[c] EXCEPT !.status = "SELF_RECOVERED", !.pending = Idle,
                !.falseChases = IF Sends(c) THEN @ + 1 ELSE @]

Acted(c, caused) ==
  LET a == st[c].pending.action
  IN  [st[c] EXCEPT !.status = IF caused THEN "RECOVERED" ELSE @, !.pending = Idle,
                    !.attempts = IF a = "RETRY" THEN @ + 1 ELSE @,
                    !.noticeAt = IF Sends(c) THEN t ELSE @,
                    !.acted = @ \cup {a}, !.rung = Climbed(a, @), !.wakeAt = t + 120]

Harmed(c) == st[c].pending.action \in world[c].harms

Execute ==
  /\ step = "execute" /\ step' = "book"
  /\ \E lucky \in SUBSET {c \in Due : ~Paid(c) /\ ~Harmed(c)},
        lost  \in SUBSET {c \in Due : ~Paid(c) /\ Harmed(c) /\ payAt[c] # Never} :
       /\ st' = [c \in Cases |-> IF c \notin Due THEN st[c]
                                 ELSE IF Paid(c) THEN FoundPaid(c)
                                 ELSE Acted(c, c \in lucky)]
       /\ payAt' = [c \in Cases |-> IF c \in lost THEN Never ELSE payAt[c]]
  /\ contacts' = [c \in Cases |-> IF c \in Due /\ Sends(c) THEN contacts[c] \cup {t}
                                  ELSE contacts[c]]
  /\ UNCHANGED <<world, arm, t>>

(* Money that arrives with no help from us. *)
BookSelfPayments ==
  /\ step = "book" /\ step' = "decide"
  /\ st' = [c \in Cases |-> IF Open(c) /\ Paid(c)
                            THEN [st[c] EXCEPT !.status = "SELF_RECOVERED"] ELSE st[c]]
  /\ UNCHANGED <<world, arm, t, payAt, contacts>>

-----------------------------------------------------------------------------
(* What an arm may observe of a case: snapshot_of. *)
Contacts7d(c) == Cardinality({x \in contacts[c] : t - x <= Week})

\* World.in_downtime: of two outages at once, the one listed first.
DownNow(c) == {i \in DOMAIN world[c].downs : world[c].downs[i][1] <= t /\ t < world[c].downs[i][2]}
DownUntil(c) == world[c].downs[CHOOSE i \in DownNow(c) : \A j \in DownNow(c) : i <= j][2]

SnapshotOf(c) ==
  LET w == world[c]
      down == DownNow(c) # {}
  IN  [control |-> Arm = "CONTROL", settled |-> FALSE, promisedFor |-> 0,
       riskBlocked |-> w.riskBlocked, optedOut |-> w.optedOut,
       age |-> (t - w.openedAt + 59) \div 60,   \* above a whole limit iff the true age is
       attempts |-> st[c].attempts, rung |-> st[c].rung,
       retryable |-> w.retryable, mandate |-> w.mandate,
       down |-> down, endKnown |-> TRUE, endsIn |-> IF down THEN DownUntil(c) - t ELSE 0,
       noticeAge |-> IF st[c].noticeAt = Never THEN -1 ELSE (t - st[c].noticeAt) \div 60,
       afaMissing |-> FALSE,
       quietFor |-> NextContactWindow(t, QuietStart, QuietEnd) - t,
       contacts |-> Contacts7d(c), pending |-> {}]

Propose(c, worth) ==
  LET s == SnapshotOf(c)
  IN  CASE Arm = "CONTROL"  -> ControlDecide(t)
        [] Arm = "BASELINE" -> BaselineDecide(s, t, world[c].openedAt)
        [] Arm = "ENGINE"   -> EngineDecide(s, worth, t, QuietStart, QuietEnd)
        [] Arm = "ORACLE"   -> OracleDecide(s, world[c].likes, t)

LeftAlone(c, worth) == Arm = "ENGINE" /\ ReasonFor(SnapshotOf(c), worth) = "EV_NEGATIVE"

Decided(c, d, worth) ==
  CASE d.action \in {"NONE", "WRITE_OFF"} ->
         [st[c] EXCEPT !.stopped = TRUE, !.wakeAt = Horizon + 60]
    [] d.action = "WAIT" ->
         [st[c] EXCEPT !.wakeAt = d.at,
                       !.spared = IF LeftAlone(c, worth) /\ @ <= MaxSpared THEN @ + 1 ELSE @]
    [] OTHER -> [st[c] EXCEPT !.pending = d, !.wakeAt = d.at]

Awake == {c \in Cases : /\ Open(c) /\ st[c].pending = Idle /\ ~st[c].stopped
                        /\ world[c].openedAt <= t /\ st[c].wakeAt <= t}

\* The posterior's verdicts of this hour; only the engine asks for one.
Worths == {worth \in [Awake -> IF Arm = "ENGINE" THEN BOOLEAN ELSE {TRUE}] :
             \A c \in Awake : st[c].spared > MaxSpared => ~worth[c]}
Ranks == [Awake -> IF Arm = "ENGINE" THEN 1..Cardinality(Awake) ELSE {0}]

DecideAll ==
  /\ step = "decide"
  /\ \E worth \in Worths, ev \in Ranks :
       LET proposals == [c \in Awake |-> Propose(c, worth[c])]
           allocated == Allocate(proposals, ev, ContactActions)
       IN  st' = [c \in Cases |-> IF c \in Awake THEN Decided(c, allocated[c], worth[c])
                                  ELSE st[c]]
  /\ t' = t + 60
  /\ step' = IF t + 60 <= Horizon THEN "execute" ELSE "close"
  /\ UNCHANGED <<world, arm, payAt, contacts>>

(* The window closes: what is still open is written off. *)
CloseWindow ==
  /\ step = "close" /\ step' = "closed"
  /\ st' = [c \in Cases |-> IF Open(c) THEN [st[c] EXCEPT !.status = "WRITTEN_OFF"] ELSE st[c]]
  /\ UNCHANGED <<world, arm, t, payAt, contacts>>

(* run_once goes on to the next arm, over the world it handed to this one. *)
\* Mutant: the arm works on run_once's own world.
CopyOfWorldShared == payAt

CopyOfWorld == Draw(world)

NextArm ==
  /\ step = "closed" /\ arm < Len(Arms) /\ arm' = arm + 1
  /\ t' = 0 /\ step' = "execute" /\ payAt' = CopyOfWorld
  /\ st' = Fresh /\ contacts' = Nobody
  /\ UNCHANGED world

Next == Execute \/ BookSelfPayments \/ DecideAll \/ CloseWindow \/ NextArm
Spec == Init /\ [][Next]_vars

-----------------------------------------------------------------------------
CaseStates ==
  [status : {"OPEN", "RECOVERED", "SELF_RECOVERED", "WRITTEN_OFF"}, rung : 0..6,
   attempts : Nat, wakeAt : Nat, noticeAt : Nat \cup {Never},
   pending : {Idle} \cup [action : Actions \ {"WAIT", "WRITE_OFF"}, at : Nat],
   stopped : BOOLEAN, spared : Nat, acted : SUBSET Actions, falseChases : Nat]

TypeOK ==
  /\ world \in Worlds /\ arm \in 1..4 /\ t \in Nat
  /\ step \in {"execute", "book", "decide", "close", "closed"}
  /\ payAt \in [Cases -> Nat \cup {Never}]
  /\ st \in [Cases -> CaseStates] /\ contacts \in [Cases -> SUBSET Nat]

(* G13 over time: no customer gets more than max_contacts_7d messages in   *)
(* any week, whenever they were decided and however long they were queued, *)
(* messages to customers who had paid included.                            *)
CapHolds ==
  \A c \in Cases : \A at \in contacts[c] :
     Cardinality({x \in contacts[c] : x <= at /\ at - x <= Week}) <= MaxContacts7d

(* The comparison is honest about rules: the engine writes to nobody who   *)
(* has paid and to nobody at night.  The baseline writes to a payer once   *)
(* at most and then knows; the opponents' messages at night were decided   *)
(* by day, two hours before for the baseline and one for the oracle.       *)
OnlyOpponentsBreakRules ==
  \A c \in Cases :
     /\ st[c].falseChases > 0 =>
          Arm = "BASELINE" /\ st[c].falseChases = 1 /\ st[c].status = "SELF_RECOVERED"
     /\ \A at \in contacts[c] :
          InQuietHours(at, QuietStart, QuietEnd) =>
            \/ Arm = "BASELINE" /\ ~InQuietHours(at - 120, QuietStart, QuietEnd)
            \/ Arm = "ORACLE" /\ ~InQuietHours(at - 60, QuietStart, QuietEnd)

(* A mandate's debit is queued only for an instant NoticeHours after a     *)
(* message to the customer, who holds a mandate, in every arm.             *)
DebitAfterNotice ==
  \A c \in Cases :
     st[c].pending.action = "RETRY" =>
       /\ world[c].mandate /\ world[c].retryable
       /\ \E x \in contacts[c] : st[c].pending.at - x >= 60 * NoticeHours

(* The engine never retries: the notice G10 asks for is a message, and a   *)
(* message lifts the case past the rung of RETRY.                          *)
EngineNeverRetries ==
  Arm = "ENGINE" =>
    \A c \in Cases : st[c].pending.action # "RETRY" /\ "RETRY" \notin st[c].acted

(* No money is lost to the order of things: when an arm is closed, a       *)
(* customer who would have paid by itself is written off only if this very *)
(* arm did to it what drives it away; what it booked as self-recovered is  *)
(* such a customer's.                                                      *)
OrganicMoneyIsBooked ==
  step = "closed" =>
    \A c \in Cases :
       /\ (world[c].selfPayAt # Never /\ st[c].status = "WRITTEN_OFF")
            => st[c].acted \cap world[c].harms # {}
       /\ st[c].status = "SELF_RECOVERED" => world[c].selfPayAt # Never
=============================================================================
