---------------------------- MODULE EngineLemmas ----------------------------
(***************************************************************************)
(* What the pure parts return: decide(), for any snapshot, and the next    *)
(* contact window, for every pair of quiet hours and every instant.  The   *)
(* proofs about single components share these facts.                       *)
(***************************************************************************)
EXTENDS Engine, ContactWindow, FiniteSetTheorems, TLAPS

(* An action that moves the case up the ladder was passed by every gate    *)
(* that could have stopped it, blocked by none, and has nothing to wait    *)
(* for.                                                                    *)
LEMMA MoveIsLegal ==
  ASSUME NEW snap, NEW w, NEW a, a = Decide(snap, w), a \in Actions \ {"WAIT", "WRITE_OFF"}
  PROVE  /\ ~snap.control /\ ~snap.settled /\ ~(snap.promisedFor > 0)
         /\ ~snap.riskBlocked /\ ~snap.optedOut
         /\ a \in LegalNextRungs(snap, Blocked(snap))
         /\ ~(WaitFor(snap) > 0)
<1> DEFINE g    == RunGates(snap)
           next == LegalNextRungs(snap, g.blocked)
<1>1. g.stop # "none" => g.terminal \in {"NONE", "WRITE_OFF"}
  BY DEF RunGates, Stop
<1>2. a = IF g.stop # "none" THEN g.terminal
          ELSE IF g.waitFor > 0 \/ next = {} \/ ~w THEN "WAIT"
          ELSE CHOOSE b \in next : TRUE
  BY DEF Decide
<1> HIDE DEF next
<1>3. g.stop = "none" /\ ~(g.waitFor > 0) /\ a \in next
  <2>1. g.stop = "none"
    BY <1>1, <1>2 DEF Actions
  <2>2. ~(g.waitFor > 0 \/ next = {} \/ ~w)
    BY <1>2, <2>1
  <2>3. a = CHOOSE b \in next : TRUE
    BY <1>2, <2>1, <2>2
  <2> QED BY <2>1, <2>2, <2>3
<1>4. ~(snap.promisedFor > 0)
  <2> SUFFICES ASSUME snap.promisedFor > 0 PROVE FALSE OBVIOUS
  <2>1. g.waitFor = snap.promisedFor
    BY <1>3 DEF RunGates, Stop
  <2> QED BY <1>3, <2>1
<1>5. g = [stop |-> "none", terminal |-> "NONE", blocked |-> Blocked(snap),
           waitFor |-> WaitFor(snap)]
  BY <1>3, <1>4 DEF RunGates, Stop
<1>6. ~snap.control /\ ~snap.settled /\ ~snap.riskBlocked /\ ~snap.optedOut
  BY <1>3, <1>4 DEF RunGates, Stop
<1> QED BY <1>3, <1>4, <1>5, <1>6 DEF next

(* A WRITE_OFF comes from gate G5 or G7 only.                              *)
LEMMA WriteOffIsTerminal ==
  ASSUME NEW snap, NEW w, Decide(snap, w) = "WRITE_OFF"
  PROVE  /\ snap.age > WindowHours \/ snap.rung >= MaxRung
         /\ ~snap.control /\ ~snap.settled /\ ~(snap.promisedFor > 0) /\ ~snap.optedOut
         /\ ~snap.riskBlocked
<1> DEFINE g    == RunGates(snap)
           next == LegalNextRungs(snap, g.blocked)
<1>1. "WRITE_OFF" \notin next
  BY DEF LegalNextRungs, Climbable
<1> HIDE DEF next
<1>2. g.stop # "none" /\ g.terminal = "WRITE_OFF"
  BY <1>1 DEF Decide, next
<1> QED BY <1>2 DEF RunGates, Stop

(* A closed window ends a case that nothing stopped before it: an outage   *)
(* is not looked at any more.                                              *)
LEMMA ClosedWindowWritesOff ==
  ASSUME NEW snap, NEW w, ~snap.control, ~snap.settled, ~(snap.promisedFor > 0),
         ~snap.riskBlocked, ~snap.optedOut, snap.age > WindowHours
  PROVE  Decide(snap, w) = "WRITE_OFF"
<1>1. RunGates(snap) = Stop("WINDOW_EXPIRED", "WRITE_OFF")
  BY DEF RunGates
<1> QED BY <1>1 DEF Decide, Stop

(* What a gate leaves open is not blocked, and of a wait decide() makes    *)
(* something only when it lies ahead.                                      *)
LEMMA OpenGates ==
  ASSUME NEW s, ~(s.promisedFor > 0)
  PROVE  LET g == RunGates(s)
         IN  /\ g.stop # "none" => g.terminal \in {"NONE", "WRITE_OFF"}
             /\ g.stop = "none" => g.blocked = Blocked(s) /\ g.waitFor = WaitFor(s)
BY DEF RunGates, Stop

(* decide() answers with an action, or with a gate's terminal one.         *)
LEMMA DecideType ==
  ASSUME NEW s, NEW w, ~(s.promisedFor > 0)
  PROVE  /\ Decide(s, w) \in Decisions
         /\ RunGates(s).stop # "none" => Decide(s, w) \in {"NONE", "WRITE_OFF"}
         /\ RunGates(s).stop = "none" => Decide(s, w) \in Actions \ {"WRITE_OFF"}
         /\ RunGates(s).stop = "none" /\ RunGates(s).waitFor > 0 => Decide(s, w) = "WAIT"
<1> DEFINE g    == RunGates(s)
           next == LegalNextRungs(s, g.blocked)
<1>1. g.stop # "none" => g.terminal \in {"NONE", "WRITE_OFF"}
  BY OpenGates
<1>2. next \subseteq Actions \ {"WRITE_OFF"}
  BY DEF LegalNextRungs, Climbable
<1>3. Decide(s, w) = IF g.stop # "none" THEN g.terminal
                     ELSE IF g.waitFor > 0 \/ next = {} \/ ~w THEN "WAIT"
                     ELSE CHOOSE a \in next : TRUE
  BY DEF Decide
<1> HIDE DEF g, next
<1>4. next # {} => (CHOOSE a \in next : TRUE) \in next
  OBVIOUS
<1>5. "WAIT" \in Actions \ {"WRITE_OFF"}
  BY DEF Actions
<1>6. g.stop = "none" => Decide(s, w) \in Actions \ {"WRITE_OFF"}
  <2>1. CASE g.waitFor > 0 \/ next = {} \/ ~w
    BY <1>3, <1>5, <2>1
  <2>2. CASE ~(g.waitFor > 0 \/ next = {} \/ ~w)
    BY <1>2, <1>3, <1>4, <2>2
  <2> QED BY <2>1, <2>2
<1>7. g.stop # "none" => Decide(s, w) \in {"NONE", "WRITE_OFF"}
  BY <1>1, <1>3
<1>8. g.stop = "none" /\ g.waitFor > 0 => Decide(s, w) = "WAIT"
  BY <1>3
<1> QED BY <1>6, <1>7, <1>8 DEF g, Decisions, Actions
-----------------------------------------------------------------------------
(* The contact window.                                                     *)

(* A set of instants has a first one.                                      *)
LEMMA LeastExists ==
  ASSUME NEW S \in SUBSET Nat, S # {}
  PROVE  \E m \in S : \A k \in S : m <= k
<1> DEFINE T == {0..x : x \in S}
           R == StrictSubsetOrdering(Nat)
<1>1. IsWellFoundedOn(R, FiniteSubsetsOf(Nat))
  BY FS_StrictSubsetOrderingWellFounded
<1>2. T \subseteq FiniteSubsetsOf(Nat) /\ T # {}
  <2>1. \A x \in S : 0..x \in SUBSET Nat /\ IsFiniteSet(0..x)
    BY FS_Interval
  <2> QED BY <2>1 DEF FiniteSubsetsOf
<1>3. PICK X \in T : \A Y \in T : <<Y, X>> \notin R
  <2> HIDE DEF R, T
  <2> QED BY <1>1, <1>2, WFMin
<1>4. PICK m \in S : X = 0..m
  BY <1>3
<1>5. ASSUME NEW k \in S, k < m PROVE FALSE
  <2>1. 0..k \subseteq 0..m /\ 0..k # 0..m
    <3>1. m \in 0..m /\ m \notin 0..k BY <1>5
    <3> QED BY <1>5, <3>1
  <2>2. <<0..k, 0..m>> \in R
    BY <2>1 DEF StrictSubsetOrdering
  <2> QED BY <1>3, <1>4, <1>5, <2>2
<1> QED BY <1>5

(* An instant is so many days, hours of the day and minutes of the hour.   *)
LEMMA TimeOfDay ==
  ASSUME NEW t \in Nat
  PROVE  /\ t % Day \in 0..(Day - 1) /\ HourOf(t) \in 0..23
         /\ t - (t % Day) \in Nat
         /\ 60 * HourOf(t) <= t % Day /\ t % Day < 60 * HourOf(t) + 60
BY DEF Day, HourOf

(* Within one day the hour is read off the minutes since midnight.         *)
LEMMA HourWithinDay ==
  ASSUME NEW m \in Nat, m % Day = 0, NEW x \in 0..(Day - 1)
  PROVE  (m + x) % Day = x /\ HourOf(m + x) = x \div 60
BY DEF Day, HourOf

(* next_contact_window names the first instant that is not quiet, across   *)
(* midnight and on the boundary, and it is less than a day ahead.          *)
THEOREM WindowIsFirstLegal ==
  ASSUME NEW t \in Nat, NEW start \in 0..23, NEW end \in 0..23
  PROVE  FirstLegal(t, start, end) /\ NextContactWindow(t, start, end) < t + Day
<1> DEFINE quiet(u) == InQuietHours(u, start, end)
<1>1. PICK m \in Nat, x \in 0..(Day - 1) : m % Day = 0 /\ x = t % Day /\ t = m + x
  <2>1. t - (t % Day) \in Nat /\ t % Day \in 0..(Day - 1) /\ (t - (t % Day)) % Day = 0
    BY DEF Day
  <2>2. t = (t - (t % Day)) + (t % Day)
    BY DEF Day
  <2> QED BY <2>1, <2>2
<1>2. HourOf(t) = x \div 60
  BY <1>1, HourWithinDay
<1> DEFINE c == m + 60 * end
<1>3. c \in Nat /\ c = t - (t % Day) + 60 * end /\ HourOf(c) = end
  <2>1. 60 * end \in 0..(Day - 1) /\ (60 * end) \div 60 = end
    BY DEF Day
  <2> QED BY <1>1, <2>1, HourWithinDay
<1>4. ~quiet(c) /\ ~quiet(c + Day)
  <2>1. HourOf(c + Day) = end
    BY <1>1, <1>3 DEF HourOf, Day
  <2> QED BY <1>3, <2>1 DEF InQuietHours
<1>5. CASE ~quiet(t)
  <2>1. NextContactWindow(t, start, end) = t
    BY <1>5 DEF NextContactWindow
  <2> QED BY <1>5, <2>1 DEF FirstLegal, Day
<1>6. CASE quiet(t) /\ c <= t
  <2>1. NextContactWindow(t, start, end) = c + Day
    BY <1>3, <1>6 DEF NextContactWindow
  <2>2. start > end /\ x \div 60 >= start
    <3>1. x \div 60 >= end BY <1>1, <1>6
    <3> QED BY <1>2, <1>6, <3>1 DEF InQuietHours, Day
  <2>3. c < t
    BY <1>1, <2>2 DEF Day
  <2>4. ASSUME NEW u \in t..(c + Day - 1) PROVE quiet(u)
    <3>1. CASE u < m + Day
      <4>1. u - m \in 0..(Day - 1) /\ u - m >= x
        BY <1>1, <3>1 DEF Day
      <4>2. HourOf(m + (u - m)) = (u - m) \div 60
        BY <1>1, <4>1, HourWithinDay
      <4>3. (u - m) \div 60 >= x \div 60
        BY <4>1 DEF Day
      <4>4. HourOf(u) >= start
        BY <1>1, <2>2, <4>1, <4>2, <4>3 DEF Day
      <4> QED BY <2>2, <4>4 DEF InQuietHours
    <3>2. CASE u >= m + Day
      <4>1. u - (m + Day) \in 0..(Day - 1) /\ u - (m + Day) < 60 * end
        BY <1>1, <3>2 DEF Day
      <4>2. m + Day \in Nat /\ (m + Day) % Day = 0
        BY <1>1 DEF Day
      <4>3. HourOf((m + Day) + (u - (m + Day))) = (u - (m + Day)) \div 60
        BY <4>1, <4>2, HourWithinDay
      <4>4. HourOf(u) < end
        BY <1>1, <4>1, <4>3 DEF Day
      <4> QED BY <2>2, <4>4 DEF InQuietHours
    <3> QED BY <1>1, <3>1, <3>2 DEF Day
  <2> QED BY <1>3, <1>4, <2>1, <2>3, <2>4 DEF FirstLegal, Day
<1>7. CASE quiet(t) /\ ~(c <= t)
  <2>1. NextContactWindow(t, start, end) = c
    BY <1>3, <1>7 DEF NextContactWindow
  <2>2. ASSUME NEW u \in t..(c - 1) PROVE quiet(u)
    <3>1. u - m \in 0..(Day - 1) /\ u - m >= x /\ u - m < 60 * end
      BY <1>1 DEF Day
    <3>2. HourOf(m + (u - m)) = (u - m) \div 60
      BY <1>1, <3>1, HourWithinDay
    <3>3. HourOf(u) < end /\ HourOf(u) >= HourOf(t)
      BY <1>1, <1>2, <3>1, <3>2 DEF Day
    <3>4. HourOf(u) \in Int /\ HourOf(t) \in Int
      BY <1>1 DEF HourOf, Day
    <3>5. start # end /\ (start < end => HourOf(t) >= start)
      BY <1>7, <3>4 DEF InQuietHours
    <3> QED BY <3>3, <3>4, <3>5 DEF InQuietHours
  <2> QED BY <1>1, <1>3, <1>4, <1>7, <2>1, <2>2 DEF FirstLegal, Day
<1> QED BY <1>5, <1>6, <1>7

LEMMA WindowType ==
  ASSUME NEW t \in Nat, NEW start \in 0..23, NEW end \in 0..23
  PROVE  NextContactWindow(t, start, end) \in Nat
BY TimeOfDay DEF NextContactWindow, Day

(* An instant fit for a message is on the hour if the instant asked for is. *)
LEMMA WindowOnTheHour ==
  ASSUME NEW t \in Nat, NEW start \in 0..23, NEW end \in 0..23, t % 60 = 0
  PROVE  NextContactWindow(t, start, end) % 60 = 0
BY DEF NextContactWindow, Day

(* timing.when schedules no message for an instant within the quiet hours, *)
(* and none a day or more later than the delay of its rung asks for.       *)
THEOREM ScheduledByDay ==
  ASSUME NEW now \in Nat, NEW delay \in Nat, NEW start \in 0..23, NEW end \in 0..23
  PROVE  /\ ContactAt(now, delay, start, end) \in Nat
         /\ ~InQuietHours(ContactAt(now, delay, start, end), start, end)
         /\ now + delay <= ContactAt(now, delay, start, end)
         /\ ContactAt(now, delay, start, end) < now + delay + Day
<1> DEFINE at == ContactAt(now, delay, start, end)
<1>1. now + delay \in Nat
  OBVIOUS
<1>2. FirstLegal(now + delay, start, end) /\ at < now + delay + Day
  BY <1>1, WindowIsFirstLegal DEF ContactAt
<1>3. at \in Nat
  BY <1>1, WindowType DEF ContactAt
<1> QED BY <1>1, <1>2, <1>3 DEF ContactAt, FirstLegal
=============================================================================
