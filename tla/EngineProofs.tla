---------------------------- MODULE EngineProofs ----------------------------
(***************************************************************************)
(* Proofs about the decision engine: what it decides, for every limit in   *)
(* the configuration and every snapshot.                                   *)
(***************************************************************************)
EXTENDS EngineCase, EngineLemmas, TLAPS

LEMMA SnapshotType == Spec => []TypeOK
<1>1. Init => TypeOK
  <2> SUFFICES ASSUME NEW c \in BOOLEAN, NEW age \in Ages, NEW n \in Attempts, NEW k \in Contacts
               PROVE  Unknown(c, age, n, k) \in Snapshots
    BY DEF Init, TypeOK
  <2> QED BY ValuesAreFacts DEF Unknown, Snapshots
<1>2. TypeOK /\ [Next]_vars => TypeOK'
  <2> SUFFICES ASSUME TypeOK, [Next]_vars PROVE TypeOK' OBVIOUS
  <2>1. CASE Learn /\ UNCHANGED worth
    <3> USE DEF Snapshots
    <3>1. \A b \in BOOLEAN :
             /\ [s EXCEPT !.settled = b] \in Snapshots /\ [s EXCEPT !.optedOut = b] \in Snapshots
             /\ [s EXCEPT !.retryable = b] \in Snapshots /\ [s EXCEPT !.mandate = b] \in Snapshots
             /\ [s EXCEPT !.down = b] \in Snapshots /\ [s EXCEPT !.afaMissing = b] \in Snapshots
             /\ [s EXCEPT !.riskBlocked = b] \in Snapshots
      BY DEF TypeOK
    <3>2. \A t \in {0, 1} : /\ [s EXCEPT !.promisedFor = t] \in Snapshots
                            /\ [s EXCEPT !.quietFor = t] \in Snapshots
      BY DEF TypeOK
    <3>3. /\ \A t \in Ages : [s EXCEPT !.age = t] \in Snapshots
          /\ \A n \in Attempts : [s EXCEPT !.attempts = n] \in Snapshots
          /\ \A r \in Rungs : [s EXCEPT !.rung = r] \in Snapshots
      BY ValuesAreFacts DEF TypeOK
    <3>4. /\ \A t \in Ends : [s EXCEPT !.endKnown = TRUE, !.endsIn = t] \in Snapshots
          /\ \A t \in NoticeAges : [s EXCEPT !.noticeAge = t] \in Snapshots
      BY ValuesAreFacts DEF TypeOK
    <3>5. /\ \A n \in Contacts : [s EXCEPT !.contacts = n] \in Snapshots
          /\ \A p \in Pendings : [s EXCEPT !.pending = p] \in Snapshots
      BY ValuesAreFacts DEF TypeOK
    <3> HIDE DEF Snapshots
    <3> QED BY <2>1, <3>1, <3>2, <3>3, <3>4, <3>5 DEF Learn, TypeOK
  <2>2. CASE worth' = ~worth /\ UNCHANGED s
    BY <2>2 DEF TypeOK
  <2>3. CASE UNCHANGED vars
    BY <2>3 DEF TypeOK, vars
  <2> QED BY <2>1, <2>2, <2>3 DEF Next
<1> QED BY <1>1, <1>2, PTL DEF Spec

(* Whatever the limits, a debit is chosen only when the mandate, its       *)
(* notice, its authentication, the attempts left, the instrument, the      *)
(* network, the risk check and the arm all permit it.                      *)
THEOREM RetryAlwaysPermitted == Spec => []RetryIsPermitted
<1>1. TypeOK => RetryIsPermitted
  <2> SUFFICES ASSUME TypeOK, Decision = "RETRY"
               PROVE  ~RetryBlocked(s) /\ s \in Snapshots /\ ~s.riskBlocked /\ ~s.control
    BY LimitsAreNatural DEF RetryIsPermitted, RetryBlocked, Snapshots
  <2>1. "RETRY" \in LegalNextRungs(s, Blocked(s)) /\ ~s.riskBlocked /\ ~s.control
    BY MoveIsLegal DEF Decision, Actions
  <2>2. "RETRY" \notin Blocked(s)
    BY <2>1 DEF LegalNextRungs, Climbable
  <2> QED BY <2>1, <2>2 DEF Blocked, TypeOK
<1> QED BY <1>1, SnapshotType, PTL

(* Whatever the limits, nothing that reaches a person is chosen at night,  *)
(* over the cap, during a promise, for a paid debt, an opted-out or a      *)
(* risk-blocked customer, or a case of the control arm.                    *)
THEOREM ContactAlwaysPermitted == Spec => []ContactIsPermitted
<1>1. TypeOK => ContactIsPermitted
  <2> SUFFICES ASSUME TypeOK, NEW a, a = Decision, a \in ContactActions
               PROVE  /\ s.quietFor = 0 /\ s.contacts < MaxContacts7d /\ s.promisedFor <= 0
                      /\ ~s.settled /\ ~s.optedOut /\ ~s.riskBlocked /\ ~s.control
    BY DEF ContactIsPermitted
  <2>1. a \in Actions \ {"WAIT", "WRITE_OFF"}
    BY DEF ContactActions, Actions
  <2>2. /\ ~s.settled /\ ~(s.promisedFor > 0) /\ ~s.optedOut
        /\ ~s.riskBlocked /\ ~s.control
        /\ a \in LegalNextRungs(s, Blocked(s))
    BY <2>1, MoveIsLegal DEF Decision
  <2>3. ~ContactBlocked(s)
    BY <2>2 DEF LegalNextRungs, Climbable, Blocked
  <2> QED BY <2>2, <2>3, LimitsAreNatural DEF ContactBlocked, TypeOK, Snapshots
<1> QED BY <1>1, SnapshotType, PTL

(* Whatever the limits, a debt is written off only when its window has     *)
(* closed or its ladder is used up, and nothing says to leave it alone.    *)
THEOREM WriteOffAlwaysDue == Spec => []WriteOffIsDue
<1>1. TypeOK => WriteOffIsDue
  BY WriteOffIsTerminal DEF WriteOffIsDue, Decision, TypeOK, Snapshots
<1> QED BY <1>1, SnapshotType, PTL

(* Whatever the limits, an action chosen lies above the case's rung and is *)
(* not already queued.                                                     *)
THEOREM DecisionAlwaysClimbs == Spec => []DecisionClimbs
<1>1. TypeOK => DecisionClimbs
  <2> SUFFICES ASSUME TypeOK, NEW a, a = Decision, a \in Actions \ {"WAIT", "WRITE_OFF"}
               PROVE  RungOf[a] > s.rung /\ RungOf[a] <= MaxRung /\ a \notin s.pending
    BY DEF DecisionClimbs
  <2>1. a \in LegalNextRungs(s, Blocked(s))
    BY MoveIsLegal DEF Decision
  <2> QED BY <2>1 DEF LegalNextRungs, Climbable, Blocked
<1> QED BY <1>1, SnapshotType, PTL

(* Whatever the limits, a person is asked only when every message above    *)
(* the case's rung is already queued.                                      *)
THEOREM HumanAlwaysLast == Spec => []HumanComesLast
<1>1. TypeOK => HumanComesLast
  <2> SUFFICES ASSUME TypeOK, Decision = "HUMAN",
                      NEW a \in ContactActions \ {"HUMAN"}, ~(RungOf[a] <= s.rung)
               PROVE  a \in s.pending
    BY DEF HumanComesLast
  <2>1. "HUMAN" \in LegalNextRungs(s, Blocked(s))
    BY MoveIsLegal DEF Decision, Actions
  <2>2. ~ContactBlocked(s) /\ RungOf["HUMAN"] <= MaxRung
    BY <2>1 DEF LegalNextRungs, Climbable, Blocked, ContactActions
  <2>3. /\ a \in {"REMIND", "PAY_LINK", "METHOD_CHANGE"}
        /\ RungOf[a] \in 2..4 /\ RungOf["HUMAN"] = 5
    BY DEF ContactActions, RungOf
  <2>4. a \notin Climbable(s, Blocked(s))
    BY <2>1, <2>3 DEF LegalNextRungs
  <2>5. a \in Actions \ {"WRITE_OFF", "RETRY"} /\ RungOf[a] > s.rung
    BY <2>3 DEF Actions, TypeOK, Snapshots
  <2>6. RungOf[a] <= MaxRung
    BY <2>2, <2>3, LimitsAreNatural
  <2>7. a \in Blocked(s)
    BY <2>4, <2>5, <2>6 DEF Climbable
  <2> QED BY <2>2, <2>5, <2>7 DEF Blocked
<1> QED BY <1>1, SnapshotType, PTL
=============================================================================
