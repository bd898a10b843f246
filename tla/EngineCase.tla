----------------------------- MODULE EngineCase -----------------------------
(***************************************************************************)
(* One case in front of the engine.  Its snapshot changes one fact at a    *)
(* time, in any order: a payment, a promise, a risk block, an outage,      *)
(* night, another attempt or message, an action queued, the hours passing. *)
(* Only its arm never changes.  The engine keeps no state of its own, so   *)
(* what it decides is a function of these.                                 *)
(***************************************************************************)
EXTENDS Engine

CONSTANTS Ages, Attempts, Rungs, Ends, NoticeAges, Contacts, Pendings  \* values to visit

ASSUME ValuesAreFacts ==
  /\ Ages \subseteq Int /\ Attempts \subseteq Nat /\ Rungs \subseteq 0..6
  /\ Ends \subseteq Int /\ NoticeAges \subseteq Int /\ Contacts \subseteq Nat
  /\ Pendings \subseteq SUBSET Actions

VARIABLES s,      \* the snapshot
          worth   \* the best candidate's score is above zero

vars == <<s, worth>>

Unknown(control, age, attempts, contacts) ==
  [control |-> control, settled |-> FALSE, promisedFor |-> 0, riskBlocked |-> FALSE,
   optedOut |-> FALSE, age |-> age, attempts |-> attempts, rung |-> 0,
   retryable |-> TRUE, mandate |-> FALSE, down |-> FALSE, endKnown |-> FALSE,
   endsIn |-> 0, noticeAge |-> -1, afaMissing |-> FALSE, quietFor |-> 0,
   contacts |-> contacts, pending |-> {}]

\* A case may be looked at late, after attempts, and for a customer that had
\* messages about other debts.
Init == /\ s \in {Unknown(c, age, n, k) :
                    c \in BOOLEAN, age \in Ages, n \in Attempts, k \in Contacts}
        /\ worth = TRUE

Learn ==
  \/ \E b \in BOOLEAN :
       s' \in {[s EXCEPT !.settled = b], [s EXCEPT !.optedOut = b], [s EXCEPT !.riskBlocked = b],
               [s EXCEPT !.retryable = b], [s EXCEPT !.mandate = b],
               [s EXCEPT !.down = b], [s EXCEPT !.afaMissing = b]}
  \/ \E t \in {0, 1}         : s' \in {[s EXCEPT !.promisedFor = t], [s EXCEPT !.quietFor = t]}
  \/ \E t \in Ages           : s' = [s EXCEPT !.age = t]
  \/ \E n \in Attempts       : s' = [s EXCEPT !.attempts = n]
  \/ \E r \in Rungs          : s' = [s EXCEPT !.rung = r]
  \/ \E t \in Ends           : s' = [s EXCEPT !.endKnown = TRUE, !.endsIn = t]
  \/ \E t \in NoticeAges     : s' = [s EXCEPT !.noticeAge = t]
  \/ \E n \in Contacts       : s' = [s EXCEPT !.contacts = n]
  \/ \E p \in Pendings       : s' = [s EXCEPT !.pending = p]

Next == \/ Learn /\ UNCHANGED worth
        \/ worth' = ~worth /\ UNCHANGED s

Spec == Init /\ [][Next]_vars

Decision == Decide(s, worth)

-----------------------------------------------------------------------------
TypeOK == s \in Snapshots /\ worth \in BOOLEAN

(* A debit is chosen only under a mandate whose notice is old enough, with *)
(* a valid authentication, attempts left, an instrument that can work and  *)
(* no outage, and never for a customer that was risk-blocked or a case of  *)
(* the control arm: no order of the gates lets one of them be lost.        *)
RetryIsPermitted ==
  Decision = "RETRY" =>
    /\ s.mandate /\ s.noticeAge >= NoticeHours /\ s.noticeAge >= 0 /\ ~s.afaMissing
    /\ s.attempts < MaxAttempts /\ s.retryable /\ ~s.down
    /\ ~s.riskBlocked /\ ~s.control

(* Nothing that reaches a person, a call by our own staff included, is     *)
(* chosen at night, over the message cap, during a promise, for a debt     *)
(* that is paid, a customer that opted out or was risk-blocked, or a case  *)
(* of the control arm.                                                     *)
ContactIsPermitted ==
  Decision \in ContactActions =>
    /\ s.quietFor = 0 /\ s.contacts < MaxContacts7d /\ s.promisedFor <= 0
    /\ ~s.settled /\ ~s.optedOut /\ ~s.riskBlocked /\ ~s.control

(* A person is asked only when the case has climbed past every message, or *)
(* the messages above its rung are already queued.                         *)
HumanComesLast ==
  Decision = "HUMAN" =>
    \A a \in ContactActions \ {"HUMAN"} : RungOf[a] <= s.rung \/ a \in s.pending

(* A debt is written off only when its window has closed or its ladder is  *)
(* used up, and then only if it is unpaid, the customer has not promised   *)
(* to pay, has not opted out and is not risk-blocked, and it is not in the *)
(* control arm: a promise and a risk block outlive the window.             *)
WriteOffIsDue ==
  Decision = "WRITE_OFF" =>
    /\ s.age > WindowHours \/ s.rung >= MaxRung
    /\ ~s.settled /\ s.promisedFor <= 0 /\ ~s.optedOut /\ ~s.riskBlocked /\ ~s.control

(* The engine never repeats what is queued and never steps down: an action *)
(* that it takes lies strictly above the case's rung and is not pending.   *)
DecisionClimbs ==
  Decision \in Actions \ {"WAIT", "WRITE_OFF"} =>
    RungOf[Decision] > s.rung /\ RungOf[Decision] <= MaxRung /\ Decision \notin s.pending

=============================================================================
