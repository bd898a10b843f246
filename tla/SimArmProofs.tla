---------------------------- MODULE SimArmProofs ----------------------------
(***************************************************************************)
(* Proofs about the experiment harness: for every batch of cases, every    *)
(* world generate() may hand in and every contact budget, the rules of     *)
(* contact hold as SimArm states them, and no money is lost to the order   *)
(* of an hour's steps.                                                     *)
(***************************************************************************)
EXTENDS SimArm, EngineLemmas

-----------------------------------------------------------------------------
(* The allocator.                                                          *)

(* A decision that loses the allocation becomes a WAIT for the same        *)
(* instant; nothing else changes.                                          *)
LEMMA AllocationKeepsOrWaits ==
  ASSUME NEW P, NEW ev, NEW C, NEW c \in DOMAIN P
  PROVE  /\ DOMAIN Allocate(P, ev, C) = DOMAIN P
         /\ \/ Allocate(P, ev, C)[c] = P[c]
            \/ Allocate(P, ev, C)[c] = [P[c] EXCEPT !.action = "WAIT"]
BY DEF Allocate

(* The contenders of a tick come one after the other.                      *)
LEMMA AheadIsStrictOrder ==
  ASSUME NEW D \in SUBSET Nat, NEW ev \in [D -> Int], NEW K \in SUBSET D,
         NEW a \in K, NEW b \in K, NEW c \in K
  PROVE  /\ a \notin AheadOf(a, K, ev)
         /\ a # b => a \in AheadOf(b, K, ev) \/ b \in AheadOf(a, K, ev)
         /\ a \in AheadOf(b, K, ev) => b \notin AheadOf(a, K, ev)
         /\ a \in AheadOf(b, K, ev) /\ b \in AheadOf(c, K, ev) => a \in AheadOf(c, K, ev)
<1>1. ev[a] \in Int /\ ev[b] \in Int /\ ev[c] \in Int /\ a \in Nat /\ b \in Nat /\ c \in Nat
  OBVIOUS
<1> QED BY <1>1 DEF AheadOf

(* So among any of them one comes first and one comes last.                *)
LEMMA FirstAndLast ==
  ASSUME NEW D \in SUBSET Nat, NEW ev \in [D -> Int], NEW K \in SUBSET D, IsFiniteSet(K),
         NEW S \in SUBSET K, S # {}
  PROVE  /\ \E w \in S : \A b \in S \ {w} : w \in AheadOf(b, K, ev)
         /\ \E w \in S : \A b \in S \ {w} : b \in AheadOf(w, K, ev)
<1> DEFINE R         == StrictSubsetOrdering(S)
           before(c) == {b \in S : b \in AheadOf(c, K, ev)}
           behind(c) == {b \in S : c \in AheadOf(b, K, ev)}
<1>1. IsFiniteSet(S)
  BY FS_Subset
<1>2. IsWellFoundedOn(R, FiniteSubsetsOf(S))
  BY FS_StrictSubsetOrderingWellFounded
<1>3. \A c \in S : /\ before(c) \in FiniteSubsetsOf(S)
                   /\ behind(c) \in FiniteSubsetsOf(S)
  <2>1. \A c \in S : before(c) \in SUBSET S /\ behind(c) \in SUBSET S
    OBVIOUS
  <2> HIDE DEF before, behind
  <2> QED BY <1>1, <2>1, FS_Subset DEF FiniteSubsetsOf
<1>4. \E w \in S : \A b \in S \ {w} : w \in AheadOf(b, K, ev)
  <2> DEFINE T == {before(c) : c \in S}
  <2>1. PICK X \in T : \A Y \in T : <<Y, X>> \notin R
    <3>1. T \subseteq FiniteSubsetsOf(S) /\ T # {}
      <4> HIDE DEF before
      <4> QED BY <1>3
    <3> HIDE DEF R, T
    <3> QED BY <1>2, <3>1, WFMin
  <2>2. PICK w \in S : X = before(w)
    BY <2>1
  <2>3. ASSUME NEW b \in S, b \in AheadOf(w, K, ev) PROVE FALSE
    <3>1. before(b) \subseteq before(w)
      BY <2>3, AheadIsStrictOrder
    <3>2. b \in before(w) /\ b \notin before(b)
      BY <2>3, AheadIsStrictOrder
    <3>3. before(b) \in SUBSET S /\ before(w) \in SUBSET S
      OBVIOUS
    <3>4. <<before(b), before(w)>> \in R
      <4> HIDE DEF before
      <4> QED BY <3>1, <3>2, <3>3 DEF StrictSubsetOrdering
    <3> QED BY <2>1, <2>2, <3>4
  <2> QED BY <2>3, AheadIsStrictOrder
<1>5. \E w \in S : \A b \in S \ {w} : b \in AheadOf(w, K, ev)
  <2> DEFINE T == {behind(c) : c \in S}
  <2>1. PICK X \in T : \A Y \in T : <<Y, X>> \notin R
    <3>1. T \subseteq FiniteSubsetsOf(S) /\ T # {}
      <4> HIDE DEF behind
      <4> QED BY <1>3
    <3> HIDE DEF R, T
    <3> QED BY <1>2, <3>1, WFMin
  <2>2. PICK w \in S : X = behind(w)
    BY <2>1
  <2>3. ASSUME NEW b \in S, w \in AheadOf(b, K, ev) PROVE FALSE
    <3>1. behind(b) \subseteq behind(w)
      BY <2>3, AheadIsStrictOrder
    <3>2. b \in behind(w) /\ b \notin behind(b)
      BY <2>3, AheadIsStrictOrder
    <3>3. behind(b) \in SUBSET S /\ behind(w) \in SUBSET S
      OBVIOUS
    <3>4. <<behind(b), behind(w)>> \in R
      <4> HIDE DEF behind
      <4> QED BY <3>1, <3>2, <3>3 DEF StrictSubsetOrdering
    <3> QED BY <2>1, <2>2, <3>4
  <2> QED BY <2>3, AheadIsStrictOrder
<1> QED BY <1>4, <1>5

(* The contenders that keep their action.                                  *)
LEMMA AllocationWinners ==
  ASSUME NEW D, NEW P \in [D -> [action : Decisions, at : Nat]], NEW ev
  PROVE  \A c \in D : Allocate(P, ev, ContactActions)[c].action \in ContactActions
           <=> /\ c \in Contenders(P, ContactActions)
               /\ ~(Cardinality(AheadOf(c, Contenders(P, ContactActions), ev)) >= Budget)
<1> DEFINE K == Contenders(P, ContactActions)
<1> SUFFICES ASSUME NEW c \in D
             PROVE  Allocate(P, ev, ContactActions)[c].action \in ContactActions
                      <=> c \in K /\ ~(Cardinality(AheadOf(c, K, ev)) >= Budget)
  OBVIOUS
<1>1. CASE c \notin K
  <2>1. Allocate(P, ev, ContactActions)[c] = P[c]
    BY <1>1 DEF Allocate
  <2> QED BY <1>1, <2>1 DEF Contenders
<1>2. CASE c \in K /\ Cardinality(AheadOf(c, K, ev)) >= Budget
  <2>1. Allocate(P, ev, ContactActions)[c] = [P[c] EXCEPT !.action = "WAIT"]
    BY <1>2 DEF Allocate
  <2> QED BY <1>2, <2>1 DEF ContactActions
<1>3. CASE c \in K /\ ~(Cardinality(AheadOf(c, K, ev)) >= Budget)
  <2>1. Allocate(P, ev, ContactActions)[c] = P[c]
    BY <1>3 DEF Allocate
  <2> QED BY <1>3, <2>1 DEF Contenders
<1> QED BY <1>1, <1>2, <1>3

(* In one tick no more cases than the budget get an action that contacts   *)
(* somebody; and a case loses such an action only in a tick that uses up   *)
(* the budget, and only to cases of a higher value or of the same value    *)
(* and earlier in the batch.  For every batch, every valuation, every tie. *)
THEOREM AllocationWithinBudget ==
  ASSUME NEW D \in SUBSET Nat, IsFiniteSet(D),
         NEW P \in [D -> [action : Decisions, at : Nat]], NEW ev \in [D -> Int]
  PROVE  LET winners == {c \in D : Allocate(P, ev, ContactActions)[c].action \in ContactActions}
         IN  /\ Cardinality(winners) <= Budget
             /\ \A c \in D \ winners : P[c].action \in ContactActions =>
                  /\ Cardinality(winners) = Budget
                  /\ \A b \in winners : ev[b] > ev[c] \/ (ev[b] = ev[c] /\ b < c)
<1> DEFINE K        == Contenders(P, ContactActions)
           ahead(c) == AheadOf(c, K, ev)
           W        == {c \in K : ~(Cardinality(ahead(c)) >= Budget)}
           L        == K \ W
<1>0. {c \in D : Allocate(P, ev, ContactActions)[c].action \in ContactActions} = W
  <2>1. K \subseteq D
    BY DEF Contenders
  <2>2. \A c \in D : Allocate(P, ev, ContactActions)[c].action \in ContactActions <=> c \in W
    <3> HIDE DEF K
    <3> QED BY AllocationWinners DEF K
  <2> HIDE DEF K, W
  <2>3. W \subseteq D
    BY <2>1 DEF W
  <2> QED BY <2>2, <2>3
<1>1. K \in SUBSET D /\ W \in SUBSET K /\ L \in SUBSET K /\ IsFiniteSet(K) /\ IsFiniteSet(W)
  BY FS_Subset DEF Contenders
<1>2. ASSUME NEW c \in K
      PROVE  IsFiniteSet(ahead(c)) /\ Cardinality(ahead(c)) \in Nat /\ ahead(c) \subseteq K
  BY <1>1, FS_Subset, FS_CardinalityType DEF AheadOf
<1>3. \A c \in W : c \in K /\ Cardinality(ahead(c)) < Budget
  BY <1>2, BudgetAssumption
<1>4. \A c \in L : c \in K /\ Cardinality(ahead(c)) >= Budget
  OBVIOUS
<1>5. Cardinality(W) \in Nat
  BY <1>1, FS_CardinalityType
<1>6. Cardinality(W) <= Budget
  <2>1. CASE W = {}
    BY <2>1, FS_EmptySet, BudgetAssumption
  <2>2. CASE W # {}
    <3>1. PICK w \in W : \A b \in W \ {w} : b \in ahead(w)
      <4> HIDE DEF W, K
      <4> QED BY <1>1, <2>2, FirstAndLast
    <3> HIDE DEF W, K, ahead
    <3>2. /\ IsFiniteSet(ahead(w) \cup {w})
          /\ Cardinality(ahead(w) \cup {w}) <= Cardinality(ahead(w)) + 1
          /\ Cardinality(ahead(w) \cup {w}) \in Nat
      <4>1. w \in K /\ IsFiniteSet(ahead(w)) /\ Cardinality(ahead(w)) \in Nat
        BY <1>2, <1>3
      <4>2. /\ IsFiniteSet(ahead(w) \cup {w})
            /\ Cardinality(ahead(w) \cup {w}) =
                 IF w \in ahead(w) THEN Cardinality(ahead(w)) ELSE Cardinality(ahead(w)) + 1
        BY <4>1, FS_AddElement
      <4> QED BY <4>1, <4>2
    <3>3. Cardinality(W) <= Cardinality(ahead(w) \cup {w})
      <4>1. W \subseteq ahead(w) \cup {w}
        BY <3>1
      <4> QED BY <3>2, <4>1, FS_Subset
    <3> QED BY <1>2, <1>3, <1>5, <3>2, <3>3, BudgetAssumption
  <2> QED BY <2>1, <2>2
<1>7. ASSUME NEW c \in L PROVE Cardinality(W) >= Budget
  <2>1. PICK l \in L : \A b \in L \ {l} : l \in ahead(b)
    <3> HIDE DEF L, K
    <3> QED BY <1>1, <1>7, FirstAndLast
  <2>2. ASSUME NEW b \in ahead(l) PROVE b \in W
    <3>1. b \in K /\ l \in K
      BY <1>2, <1>4
    <3>2. b # l /\ l \notin ahead(b)
      BY <1>1, <2>2, <3>1, AheadIsStrictOrder
    <3> QED BY <2>1, <3>1, <3>2
  <2> HIDE DEF W, K, L, ahead
  <2>3. Cardinality(ahead(l)) <= Cardinality(W)
    BY <1>1, <2>2, FS_Subset
  <2> QED BY <1>2, <1>4, <1>5, <2>3, BudgetAssumption
<1>8. ASSUME NEW c \in L, NEW b \in W PROVE b \in ahead(c)
  <2>1. b \in K /\ c \in K /\ b # c
    BY <1>8
  <2>2. ASSUME c \in ahead(b) PROVE FALSE
    <3>1. ahead(c) \subseteq ahead(b)
      <4> SUFFICES ASSUME NEW d \in ahead(c) PROVE d \in ahead(b)
        OBVIOUS
      <4>1. d \in K
        BY <1>2, <2>1
      <4> QED BY <1>1, <2>1, <2>2, <4>1, AheadIsStrictOrder
    <3> HIDE DEF W, K, L, ahead
    <3>2. Cardinality(ahead(c)) <= Cardinality(ahead(b))
      BY <1>2, <2>1, <3>1, FS_Subset
    <3> QED BY <1>2, <1>3, <1>4, <2>1, <3>2, BudgetAssumption
  <2> QED BY <1>1, <2>1, <2>2, AheadIsStrictOrder
<1>9. ASSUME NEW c \in D, c \notin W, P[c].action \in ContactActions
      PROVE  c \in L
  BY <1>9 DEF Contenders
<1>10. ASSUME NEW c \in K, NEW b \in ahead(c)
       PROVE  ev[b] > ev[c] \/ (ev[b] = ev[c] /\ b < c)
  BY DEF AheadOf
<1> HIDE DEF W, L, K, ahead
<1>11. ASSUME NEW c \in D \ W, P[c].action \in ContactActions
       PROVE  /\ Cardinality(W) = Budget
              /\ \A b \in W : ev[b] > ev[c] \/ (ev[b] = ev[c] /\ b < c)
  <2>1. c \in L /\ c \in K
    BY <1>4, <1>9, <1>11
  <2>2. Cardinality(W) = Budget
    BY <1>5, <1>6, <1>7, <2>1, BudgetAssumption
  <2> QED BY <1>8, <1>10, <2>1, <2>2
<1> QED BY <1>0, <1>6, <1>11

-----------------------------------------------------------------------------
(* What the policies propose.                                              *)

LEMMA ArmIsOne ==
  ASSUME arm \in 1..4
  PROVE  /\ Arm \in {"CONTROL", "BASELINE", "ENGINE", "ORACLE"}
         /\ Len(Arms) = 4
BY DEF Arm, Arms

LEMMA WorldType ==
  ASSUME TypeOK, NEW c \in Cases
  PROVE  world[c] \in WorldCases
BY SimAssumption DEF TypeOK

LEMMA DownUntilType ==
  ASSUME TypeOK, NEW c \in Cases, DownNow(c) # {}
  PROVE  DownUntil(c) \in Nat
<1>1. world[c].downs \in Seq(Nat \X Nat)
  BY WorldType DEF WorldCases
<1>2. DownNow(c) \in SUBSET Nat /\ DownNow(c) \subseteq DOMAIN world[c].downs
  BY <1>1 DEF DownNow
<1>3. PICK i \in DownNow(c) : \A j \in DownNow(c) : i <= j
  BY <1>2, LeastExists
<1>4. DownUntil(c) = world[c].downs[CHOOSE k \in DownNow(c) : \A j \in DownNow(c) : k <= j][2]
  BY DEF DownUntil
<1>5. (CHOOSE k \in DownNow(c) : \A j \in DownNow(c) : k <= j) \in DownNow(c)
  BY <1>3
<1> QED BY <1>1, <1>2, <1>4, <1>5

LEMMA SnapshotType ==
  ASSUME TypeOK, NEW c \in Cases
  PROVE  LET s == SnapshotOf(c)
         IN  /\ s.promisedFor = 0 /\ s.endsIn \in Int /\ s.quietFor \in Nat
             /\ s.rung = st[c].rung /\ s.rung \in 0..6 /\ s.attempts \in Nat
             /\ s.contacts = Contacts7d(c) /\ s.pending = {} /\ s.mandate = world[c].mandate
             /\ s.retryable = world[c].retryable
             /\ s.quietFor = NextContactWindow(t, QuietStart, QuietEnd) - t
             /\ s.noticeAge = IF st[c].noticeAt = Never THEN -1 ELSE (t - st[c].noticeAt) \div 60
             /\ (s.quietFor = 0 => ~InQuietHours(t, QuietStart, QuietEnd))
             /\ WaitFor(s) \in Int
<1> DEFINE s == SnapshotOf(c)
           n == NextContactWindow(t, QuietStart, QuietEnd)
<1>1. t \in Nat /\ st[c].rung \in 0..6 /\ st[c].attempts \in Nat
  BY DEF TypeOK, CaseStates
<1>2. FirstLegal(t, QuietStart, QuietEnd) /\ n \in Nat
  BY <1>1, PolicyAssumption, WindowIsFirstLegal, WindowType
<1>3. n >= t /\ (n = t => ~InQuietHours(t, QuietStart, QuietEnd))
  BY <1>2 DEF FirstLegal
<1>4. /\ s.quietFor = n - t /\ s.down = (DownNow(c) # {}) /\ s.endKnown = TRUE
      /\ s.endsIn = IF s.down THEN DownUntil(c) - t ELSE 0
      /\ s.promisedFor = 0 /\ s.rung = st[c].rung /\ s.attempts = st[c].attempts
      /\ s.contacts = Contacts7d(c) /\ s.pending = {} /\ s.mandate = world[c].mandate
      /\ s.retryable = world[c].retryable
      /\ s.noticeAge = IF st[c].noticeAt = Never THEN -1 ELSE (t - st[c].noticeAt) \div 60
  BY DEF SnapshotOf
<1> HIDE DEF s, n
<1>5. s.endsIn \in Int
  <2>1. CASE DownNow(c) # {}
    <3>1. DownUntil(c) \in Nat
      BY <2>1, DownUntilType
    <3> QED BY <1>1, <1>4, <2>1, <3>1
  <2>2. CASE DownNow(c) = {}
    <3>1. ~s.down
      BY <1>4, <2>2
    <3>2. s.endsIn = 0
      BY <1>4, <3>1
    <3> QED BY <3>2
  <2> QED BY <2>1, <2>2
<1>6. s.quietFor \in Nat /\ (s.quietFor = 0 => ~InQuietHours(t, QuietStart, QuietEnd))
  BY <1>1, <1>2, <1>3, <1>4
<1>7. WaitFor(s) \in Int
  BY <1>4, <1>5, <1>6 DEF WaitFor, DowntimeFor
<1> QED BY <1>1, <1>4, <1>5, <1>6, <1>7 DEF s, n

LEMMA NotBlocked ==
  ASSUME NEW s, s.quietFor \in Nat
  PROVE  /\ \A a \in ContactActions : a \notin Blocked(s) =>
               s.quietFor = 0 /\ ~(s.contacts >= MaxContacts7d)
         /\ "RETRY" \notin Blocked(s) => ~RetryBlocked(s)
BY DEF Blocked, ContactBlocked


(* A retry is proposed only for a mandate notified long enough ago.        *)
LEMMA RetryIsNotified ==
  ASSUME TypeOK, NEW c \in Cases, ~RetryBlocked(SnapshotOf(c))
  PROVE  /\ world[c].mandate /\ world[c].retryable /\ st[c].noticeAt # Never
         /\ t - st[c].noticeAt >= 60 * NoticeHours
<1> DEFINE s == SnapshotOf(c)
<1>1. /\ s.mandate = world[c].mandate /\ s.retryable = world[c].retryable
      /\ s.noticeAge = IF st[c].noticeAt = Never THEN -1 ELSE (t - st[c].noticeAt) \div 60
  BY SnapshotType
<1>2. world[c].mandate \in BOOLEAN /\ world[c].retryable \in BOOLEAN
  BY WorldType DEF WorldCases
<1>3. t \in Nat /\ st[c].noticeAt \in Nat \cup {Never} /\ NoticeHours \in Nat
  BY LimitsAreNatural DEF TypeOK, CaseStates
<1>4. s.mandate /\ s.retryable /\ ~(s.noticeAge < 0) /\ ~(s.noticeAge < NoticeHours)
  BY DEF RetryBlocked
<1> HIDE DEF s
<1>5. st[c].noticeAt # Never
  BY <1>1, <1>4
<1>6. st[c].noticeAt \in Nat /\ s.noticeAge = (t - st[c].noticeAt) \div 60
  BY <1>1, <1>3, <1>5
<1>7. (t - st[c].noticeAt) \div 60 >= NoticeHours
  BY <1>3, <1>4, <1>6
<1>8. t - st[c].noticeAt >= 60 * NoticeHours
  BY <1>3, <1>6, <1>7
<1> QED BY <1>1, <1>4, <1>5, <1>8

(* What every proposal is: no message over the cap, by each arm for an     *)
(* instant of its own kind, and no debit that was not announced.           *)
SoundProposal(c, d) ==
  /\ d \in [action : Decisions, at : Nat]
  /\ d.action \in ContactActions =>
       /\ ~(Contacts7d(c) >= MaxContacts7d) /\ Arm # "CONTROL"
       /\ Arm = "BASELINE" => d.at = t + 120 /\ ~InQuietHours(t, QuietStart, QuietEnd)
       /\ Arm = "ENGINE" => /\ d.at >= t + 120 /\ (t % 60 = 0 => d.at % 60 = 0)
                            /\ ~InQuietHours(d.at, QuietStart, QuietEnd)
       /\ Arm = "ORACLE" => d.at = t /\ ~InQuietHours(t, QuietStart, QuietEnd)
  /\ d.action = "RETRY" =>
       /\ d.at >= t /\ Arm # "ENGINE" /\ ~RetryBlocked(SnapshotOf(c))

LEMMA BaselineIsSound ==
  ASSUME TypeOK, NEW c \in Cases, Arm = "BASELINE"
  PROVE  SoundProposal(c, BaselineDecide(SnapshotOf(c), t, world[c].openedAt))
<1> DEFINE s    == SnapshotOf(c)
           g    == RunGates(s)
           n    == s.attempts + 1
           due  == world[c].openedAt + 60 * Schedule[n]
           d    == BaselineDecide(s, t, world[c].openedAt)
<1>1. t \in Nat /\ world[c].openedAt \in Nat
  BY WorldType DEF TypeOK, WorldCases
<1>2. /\ s.promisedFor = 0 /\ s.quietFor \in Nat /\ s.attempts \in Nat /\ WaitFor(s) \in Int
      /\ s.contacts = Contacts7d(c)
      /\ (s.quietFor = 0 => ~InQuietHours(t, QuietStart, QuietEnd))
  BY SnapshotType
<1> HIDE DEF s
<1>3. /\ g.stop # "none" => g.terminal \in {"NONE", "WRITE_OFF"}
      /\ g.stop = "none" => g.blocked = Blocked(s) /\ g.waitFor = WaitFor(s)
  BY <1>2, OpenGates
<1>4. /\ \A a \in ContactActions : a \notin Blocked(s) =>
               s.quietFor = 0 /\ ~(s.contacts >= MaxContacts7d)
      /\ "RETRY" \notin Blocked(s) => ~RetryBlocked(s)
  BY <1>2, NotBlocked
<1> HIDE DEF g
<1>5. d = IF g.stop # "none" THEN Decision(g.terminal, t)
          ELSE IF g.waitFor > 0 THEN Decision("WAIT", t + g.waitFor)
          ELSE IF n <= Len(Schedule) /\ "RETRY" \notin g.blocked
            THEN Decision("RETRY", IF due > t THEN due ELSE t)
          ELSE IF s.rung < 2 /\ "REMIND" \notin g.blocked THEN Decision("REMIND", t + 120)
          ELSE Decision("NONE", t)
  BY DEF BaselineDecide, g
<1> HIDE DEF d
<1>6. ASSUME g.stop # "none"
    PROVE SoundProposal(c, d)
  BY <1>1, <1>3, <1>5, <1>6 DEF SoundProposal, Decision, Decisions, Actions, ContactActions
<1>7. ASSUME g.stop = "none" /\ g.waitFor > 0
    PROVE SoundProposal(c, d)
  BY <1>1, <1>2, <1>3, <1>5, <1>7 DEF SoundProposal, Decision, Decisions, Actions, ContactActions
<1>8. ASSUME g.stop = "none" /\ ~(g.waitFor > 0) /\ n <= Len(Schedule) /\ "RETRY" \notin g.blocked
    PROVE SoundProposal(c, d)
  <2>1. due \in Nat
    <3>1. Schedule \in Seq(Nat) /\ Len(Schedule) \in Nat
      BY PolicyAssumption
    <3>2. n \in 1..Len(Schedule)
      BY <1>2, <1>8, <3>1
    <3>3. Schedule[n] \in Nat
      <4> HIDE DEF n
      <4> QED BY <3>1, <3>2
    <3> HIDE DEF n
    <3> QED BY <1>1, <3>3
  <2>2. ~RetryBlocked(s)
    BY <1>3, <1>4, <1>8
  <2>3. d = Decision("RETRY", IF due > t THEN due ELSE t)
    BY <1>5, <1>8
  <2> HIDE DEF due
  <2>4. d.action = "RETRY" /\ d.at \in Nat /\ d.at >= t /\ d = [action |-> d.action, at |-> d.at]
    BY <1>1, <2>1, <2>3 DEF Decision
  <2> QED BY <2>2, <2>4 DEF SoundProposal, Decisions, Actions, ContactActions, s
<1>9. ASSUME g.stop = "none" /\ ~(g.waitFor > 0) /\ ~(n <= Len(Schedule) /\ "RETRY" \notin g.blocked)
    PROVE SoundProposal(c, d)
  <2>1. ASSUME s.rung < 2 /\ "REMIND" \notin g.blocked
    PROVE SoundProposal(c, d)
    <3>1. d = Decision("REMIND", t + 120)
      BY <1>5, <1>9, <2>1
    <3>2. s.quietFor = 0 /\ ~(s.contacts >= MaxContacts7d)
      BY <1>3, <1>4, <1>9, <2>1 DEF ContactActions
    <3> QED BY <1>1, <1>2, <3>1, <3>2 DEF SoundProposal, Decision, Decisions, Actions
  <2>2. ASSUME ~(s.rung < 2 /\ "REMIND" \notin g.blocked)
    PROVE SoundProposal(c, d)
    <3>1. d = Decision("NONE", t)
      BY <1>5, <1>9, <2>2
    <3> QED BY <1>1, <3>1 DEF SoundProposal, Decision, Decisions, Actions, ContactActions
  <2> QED BY <2>1, <2>2
<1> QED BY <1>6, <1>7, <1>8, <1>9 DEF d, s

LEMMA OracleIsSound ==
  ASSUME TypeOK, NEW c \in Cases, Arm = "ORACLE"
  PROVE  SoundProposal(c, OracleDecide(SnapshotOf(c), world[c].likes, t))
<1> DEFINE s    == SnapshotOf(c)
           g    == RunGates(s)
           likes == world[c].likes
           open == {i \in DOMAIN likes : likes[i] \notin g.blocked}
           best == CHOOSE i \in open : \A j \in open : i <= j
           d    == OracleDecide(s, likes, t)
<1>1. t \in Nat /\ likes \in Seq(Actions \ {"WAIT", "WRITE_OFF"})
  BY WorldType DEF TypeOK, WorldCases
<1>2. /\ s.promisedFor = 0 /\ s.quietFor \in Nat /\ s.contacts = Contacts7d(c)
      /\ (s.quietFor = 0 => ~InQuietHours(t, QuietStart, QuietEnd))
  BY SnapshotType
<1> HIDE DEF s
<1>3. /\ g.stop # "none" => g.terminal \in {"NONE", "WRITE_OFF"}
      /\ g.stop = "none" => g.blocked = Blocked(s)
  BY <1>2, OpenGates
<1>4. /\ \A a \in ContactActions : a \notin Blocked(s) =>
               s.quietFor = 0 /\ ~(s.contacts >= MaxContacts7d)
      /\ "RETRY" \notin Blocked(s) => ~RetryBlocked(s)
  BY <1>2, NotBlocked
<1> HIDE DEF g
<1>5. d = IF g.stop # "none" THEN Decision(g.terminal, t)
          ELSE IF open = {} THEN Decision("WAIT", t + 360)
          ELSE Decision(likes[best], t)
  BY DEF OracleDecide, g
<1> HIDE DEF d, likes
<1>6. ASSUME g.stop # "none"
    PROVE SoundProposal(c, d)
  BY <1>1, <1>3, <1>5, <1>6 DEF SoundProposal, Decision, Decisions, Actions, ContactActions
<1>7. ASSUME g.stop = "none" /\ open = {}
    PROVE SoundProposal(c, d)
  BY <1>1, <1>5, <1>7 DEF SoundProposal, Decision, Decisions, Actions, ContactActions
<1>8. ASSUME g.stop = "none" /\ open # {}
    PROVE SoundProposal(c, d)
  <2>1. open \in SUBSET Nat
    BY <1>1
  <2>2. PICK i \in open : \A j \in open : i <= j
    BY <1>8, <2>1, LeastExists
  <2>3. best \in open
    BY <2>2
  <2>4. likes[best] \in Actions \ {"WAIT", "WRITE_OFF"} /\ likes[best] \notin Blocked(s)
    BY <1>1, <1>3, <1>8, <2>3
  <2>5. d = Decision(likes[best], t)
    BY <1>5, <1>8
  <2> HIDE DEF best
  <2>6. likes[best] \in ContactActions =>
          ~(Contacts7d(c) >= MaxContacts7d) /\ ~InQuietHours(t, QuietStart, QuietEnd)
    BY <1>2, <1>4, <2>4
  <2>7. likes[best] = "RETRY" => ~RetryBlocked(s)
    BY <1>4, <2>4
  <2> QED BY <1>1, <2>4, <2>5, <2>6, <2>7 DEF SoundProposal, Decision, Decisions, s
<1> QED BY <1>6, <1>7, <1>8 DEF d, s, likes

(* A case that was notified is past the rung of RETRY.                     *)
NoticeLifts(c) == st[c].noticeAt # Never => st[c].rung >= 2

LEMMA EngineIsSound ==
  ASSUME TypeOK, NEW c \in Cases, Arm = "ENGINE", NoticeLifts(c), NEW w
  PROVE  SoundProposal(c, EngineDecide(SnapshotOf(c), w, t, QuietStart, QuietEnd))
<1> DEFINE s == SnapshotOf(c)
           g == RunGates(s)
           a == Decide(s, w)
           d == EngineDecide(s, w, t, QuietStart, QuietEnd)
<1>1. t \in Nat
  BY DEF TypeOK
<1>2. /\ s.promisedFor = 0 /\ s.quietFor \in Nat /\ s.contacts = Contacts7d(c)
      /\ s.rung = st[c].rung /\ s.rung \in 0..6 /\ WaitFor(s) \in Int
  BY SnapshotType
<1>3. ~RetryBlocked(s) => st[c].noticeAt # Never
  BY RetryIsNotified
<1> HIDE DEF s
<1>4. g.stop = "none" => g.waitFor = WaitFor(s)
  BY <1>2, OpenGates
<1>5. /\ a \in Decisions /\ (g.stop # "none" => a \in {"NONE", "WRITE_OFF"})
      /\ (g.stop = "none" => a \in Actions \ {"WRITE_OFF"})
      /\ (g.stop = "none" /\ g.waitFor > 0 => a = "WAIT")
  BY <1>2, DecideType
<1>6. a \in Actions \ {"WAIT", "WRITE_OFF"} =>
        a \notin Blocked(s) /\ RungOf[a] > s.rung
  <2> SUFFICES ASSUME a \in Actions \ {"WAIT", "WRITE_OFF"}
               PROVE  a \notin Blocked(s) /\ RungOf[a] > s.rung
    OBVIOUS
  <2>1. a \in LegalNextRungs(s, Blocked(s))
    BY MoveIsLegal
  <2> QED BY <2>1 DEF LegalNextRungs, Climbable
<1>7. a # "RETRY"
  <2> SUFFICES ASSUME a = "RETRY" PROVE FALSE
    OBVIOUS
  <2>1. a \notin Blocked(s) /\ 1 > s.rung
    BY <1>6 DEF Actions, RungOf
  <2>2. ~RetryBlocked(s)
    BY <1>2, <2>1, NotBlocked
  <2> QED BY <1>2, <1>3, <2>1, <2>2 DEF NoticeLifts
<1>8. a \in ContactActions => ~(s.contacts >= MaxContacts7d)
  BY <1>2, <1>6, NotBlocked DEF Actions, ContactActions
<1>9. d = IF g.stop # "none" THEN Decision(a, t)
          ELSE IF g.waitFor > 0 THEN Decision(a, t + g.waitFor)
          ELSE IF a \in ContactActions
            THEN Decision(a, ContactAt(t, BaseDelay[a], QuietStart, QuietEnd))
          ELSE Decision(a, t + BaseDelay[a])
  BY DEF EngineDecide
<1> HIDE DEF g, a, d
<1>10. ASSUME g.stop # "none"
    PROVE SoundProposal(c, d)
  BY <1>1, <1>5, <1>9, <1>10 DEF SoundProposal, Decision, Decisions, Actions, ContactActions
<1>11. ASSUME g.stop = "none", g.waitFor > 0
    PROVE SoundProposal(c, d)
  BY <1>1, <1>2, <1>4, <1>5, <1>9, <1>11 DEF SoundProposal, Decision, Decisions, Actions, ContactActions
<1>12. ASSUME g.stop = "none", ~(g.waitFor > 0), a \in ContactActions
    PROVE SoundProposal(c, d)
  <2>1. BaseDelay[a] \in Nat /\ BaseDelay[a] >= 120 /\ BaseDelay[a] % 60 = 0
    BY <1>12 DEF BaseDelay, ContactActions
  <2> DEFINE at == ContactAt(t, BaseDelay[a], QuietStart, QuietEnd)
  <2>2. at \in Nat /\ ~InQuietHours(at, QuietStart, QuietEnd) /\ t + BaseDelay[a] <= at
    BY <1>1, <2>1, PolicyAssumption, ScheduledByDay
  <2>3. t % 60 = 0 => at % 60 = 0
    <3>1. t + BaseDelay[a] \in Nat /\ (t % 60 = 0 => (t + BaseDelay[a]) % 60 = 0)
      BY <1>1, <2>1
    <3> QED BY <3>1, PolicyAssumption, WindowOnTheHour DEF ContactAt
  <2>4. d = Decision(a, at)
    BY <1>9, <1>12
  <2> HIDE DEF at
  <2>5. at >= t + 120
    BY <1>1, <2>1, <2>2
  <2> QED BY <1>2, <1>5, <1>7, <1>8, <2>2, <2>3, <2>4, <2>5 DEF SoundProposal, Decision
<1>13. ASSUME g.stop = "none", ~(g.waitFor > 0), a \notin ContactActions
    PROVE SoundProposal(c, d)
  <2>1. a = "WAIT" /\ BaseDelay[a] = 60
    BY <1>5, <1>7, <1>13 DEF Actions, ContactActions, BaseDelay
  <2>2. d = Decision("WAIT", t + 60)
    BY <1>9, <1>13, <2>1
  <2> QED BY <1>1, <2>2 DEF SoundProposal, Decision, Decisions, Actions, ContactActions
<1> QED BY <1>10, <1>11, <1>12, <1>13 DEF d, s

LEMMA ProposalIsSound ==
  ASSUME TypeOK, NEW c \in Cases, NoticeLifts(c), NEW w
  PROVE  SoundProposal(c, Propose(c, w))
<1>1. CASE Arm = "CONTROL"
  <2>1. Propose(c, w) = Decision("NONE", t)
    BY <1>1 DEF Propose, ControlDecide
  <2>2. t \in Nat
    BY DEF TypeOK
  <2> QED BY <2>1, <2>2 DEF SoundProposal, Decision, Decisions, Actions, ContactActions
<1>2. CASE Arm = "BASELINE"
  BY <1>2, BaselineIsSound DEF Propose
<1>3. CASE Arm = "ENGINE"
  BY <1>3, EngineIsSound DEF Propose
<1>4. CASE Arm = "ORACLE"
  BY <1>4, OracleIsSound DEF Propose
<1> QED BY <1>1, <1>2, <1>3, <1>4, ArmIsOne DEF TypeOK

-----------------------------------------------------------------------------
(* What a step does to one case.                                           *)

LEMMA ExecuteOne ==
  ASSUME Execute, NEW c \in Cases
  PROVE  /\ contacts'[c] = IF c \in Due /\ Sends(c) THEN contacts[c] \cup {t} ELSE contacts[c]
         /\ c \notin Due => st'[c] = st[c] /\ payAt'[c] = payAt[c]
         /\ c \in Due /\ Paid(c) => st'[c] = FoundPaid(c) /\ payAt'[c] = payAt[c]
         /\ c \in Due /\ ~Paid(c) =>
              /\ \E caused \in BOOLEAN : st'[c] = Acted(c, caused)
              /\ payAt'[c] = payAt[c] \/ (payAt'[c] = Never /\ Harmed(c))
<1>1. PICK lucky \in SUBSET {b \in Due : ~Paid(b) /\ ~Harmed(b)},
           lost \in SUBSET {b \in Due : ~Paid(b) /\ Harmed(b) /\ payAt[b] # Never} :
        /\ st' = [b \in Cases |-> IF b \notin Due THEN st[b]
                                  ELSE IF Paid(b) THEN FoundPaid(b)
                                  ELSE Acted(b, b \in lucky)]
        /\ payAt' = [b \in Cases |-> IF b \in lost THEN Never ELSE payAt[b]]
  BY DEF Execute
<1>2. contacts'[c] = IF c \in Due /\ Sends(c) THEN contacts[c] \cup {t} ELSE contacts[c]
  BY DEF Execute
<1>3. st'[c] = IF c \notin Due THEN st[c] ELSE IF Paid(c) THEN FoundPaid(c)
               ELSE Acted(c, c \in lucky)
  BY <1>1
<1>4. payAt'[c] = IF c \in lost THEN Never ELSE payAt[c]
  BY <1>1
<1>5. (c \in lost => c \in Due /\ ~Paid(c) /\ Harmed(c)) /\ (c \in lucky) \in BOOLEAN
  OBVIOUS
<1> QED BY <1>2, <1>3, <1>4, <1>5

LEMMA DecideOne ==
  ASSUME TypeOK, DecideAll, NEW c \in Cases, NoticeLifts(c)
  PROVE  /\ c \notin Awake => st'[c] = st[c]
         /\ c \in Awake => \E w, d : SoundProposal(c, d) /\ st'[c] = Decided(c, d, w)
<1>1. PICK worth \in Worths, ev \in Ranks :
        st' = [b \in Cases |->
                 IF b \in Awake
                 THEN Decided(b, Allocate([a \in Awake |-> Propose(a, worth[a])], ev,
                                          ContactActions)[b], worth[b])
                 ELSE st[b]]
  BY DEF DecideAll
<1>2. ASSUME c \in Awake
      PROVE  \E w, d : SoundProposal(c, d) /\ st'[c] = Decided(c, d, w)
  <2> DEFINE P == [a \in Awake |-> Propose(a, worth[a])]
             d == Allocate(P, ev, ContactActions)[c]
  <2>1. st'[c] = Decided(c, d, worth[c])
    BY <1>1, <1>2
  <2>2. SoundProposal(c, P[c])
    BY <1>2, ProposalIsSound
  <2>3. DOMAIN P = Awake
    OBVIOUS
  <2>4. d = P[c] \/ d = [P[c] EXCEPT !.action = "WAIT"]
    <3> HIDE DEF P
    <3> QED BY <1>2, <2>3, AllocationKeepsOrWaits
  <2> HIDE DEF P, d
  <2>5. SoundProposal(c, d)
    <3>1. CASE d = [P[c] EXCEPT !.action = "WAIT"]
      <4>1. d.action = "WAIT" /\ d \in [action : Decisions, at : Nat]
        BY <2>2, <3>1 DEF SoundProposal, Decisions, Actions
      <4> QED BY <4>1 DEF SoundProposal, ContactActions
    <3> QED BY <2>2, <2>4, <3>1
  <2> QED BY <2>1, <2>5
<1>3. ASSUME c \notin Awake PROVE st'[c] = st[c]
  BY <1>1, <1>3
<1> QED BY <1>2, <1>3

(* What Decided leaves of the case's record, whatever was decided.         *)
LEMMA DecidedFields ==
  ASSUME TypeOK, NEW c \in Cases, NEW d, NEW w, d \in [action : Decisions, at : Nat]
  PROVE  LET x == Decided(c, d, w)
         IN  /\ x \in CaseStates
             /\ x.status = st[c].status /\ x.rung = st[c].rung /\ x.noticeAt = st[c].noticeAt
             /\ x.acted = st[c].acted /\ x.falseChases = st[c].falseChases
             /\ \/ x.pending = st[c].pending
                \/ /\ d.action \in Actions \ {"WAIT", "WRITE_OFF"} /\ x.pending = d
<1> DEFINE x == Decided(c, d, w)
<1>1. st[c] \in CaseStates /\ Horizon + 60 \in Nat
  BY SimAssumption, LimitsAreNatural DEF TypeOK, Horizon
<1>2. CASE d.action \in {"NONE", "WRITE_OFF"}
  <2>1. x = [st[c] EXCEPT !.stopped = TRUE, !.wakeAt = Horizon + 60]
    BY <1>2 DEF Decided
  <2> HIDE DEF x
  <2> QED BY <1>1, <2>1 DEF CaseStates, x
<1>3. CASE d.action = "WAIT"
  <2>1. PICK n \in Nat : x = [st[c] EXCEPT !.wakeAt = d.at, !.spared = n]
    <3>1. x = [st[c] EXCEPT !.wakeAt = d.at,
                 !.spared = IF LeftAlone(c, w) /\ @ <= MaxSpared THEN @ + 1 ELSE @]
      BY <1>3 DEF Decided
    <3>2. st[c].spared \in Nat
      BY <1>1 DEF CaseStates
    <3> DEFINE n == IF LeftAlone(c, w) /\ st[c].spared <= MaxSpared
                    THEN st[c].spared + 1 ELSE st[c].spared
    <3>3. n \in Nat
      BY <3>2
    <3>4. x = [st[c] EXCEPT !.wakeAt = d.at, !.spared = n]
      BY <3>1
    <3> HIDE DEF n, x
    <3> QED BY <3>3, <3>4
  <2> HIDE DEF x
  <2> QED BY <1>1, <2>1 DEF CaseStates, x
<1>4. CASE d.action \notin {"NONE", "WRITE_OFF", "WAIT"}
  <2>1. x = [st[c] EXCEPT !.pending = d, !.wakeAt = d.at]
    BY <1>4 DEF Decided
  <2>2. d.action \in Actions \ {"WAIT", "WRITE_OFF"} /\ d.at \in Nat
        /\ d \in [action : Actions \ {"WAIT", "WRITE_OFF"}, at : Nat]
    BY <1>4 DEF Decisions
  <2> HIDE DEF x
  <2> QED BY <1>1, <2>1, <2>2 DEF CaseStates, x
<1> QED BY <1>2, <1>3, <1>4

LEMMA FoundPaidFields ==
  ASSUME TypeOK, NEW c \in Cases
  PROVE  LET x == FoundPaid(c)
         IN  /\ x \in CaseStates
             /\ x.status = "SELF_RECOVERED" /\ x.pending = Idle
             /\ x.rung = st[c].rung /\ x.noticeAt = st[c].noticeAt /\ x.acted = st[c].acted
             /\ x.falseChases = IF Sends(c) THEN st[c].falseChases + 1 ELSE st[c].falseChases
<1> DEFINE x == FoundPaid(c)
           n == IF Sends(c) THEN st[c].falseChases + 1 ELSE st[c].falseChases
<1>1. st[c] \in CaseStates /\ n \in Nat
  BY DEF TypeOK, CaseStates
<1>2. x = [st[c] EXCEPT !.status = "SELF_RECOVERED", !.pending = Idle, !.falseChases = n]
  BY DEF FoundPaid
<1> HIDE DEF x, n
<1>3. x \in CaseStates
  BY <1>1, <1>2 DEF CaseStates
<1>4. /\ x.status = "SELF_RECOVERED" /\ x.pending = Idle /\ x.falseChases = n
      /\ x.rung = st[c].rung /\ x.noticeAt = st[c].noticeAt /\ x.acted = st[c].acted
  BY <1>1, <1>2 DEF CaseStates
<1> QED BY <1>3, <1>4 DEF x, n

LEMMA ActedFields ==
  ASSUME TypeOK, NEW c \in Due, NEW caused \in BOOLEAN
  PROVE  LET x == Acted(c, caused)
             a == st[c].pending.action
         IN  /\ x \in CaseStates
             /\ x.status \in {st[c].status, "RECOVERED"} /\ x.pending = Idle
             /\ a \in Actions \ {"WAIT", "WRITE_OFF"} /\ st[c].pending.at \in Nat
             /\ x.rung = Climbed(a, st[c].rung) /\ x.acted = st[c].acted \cup {a}
             /\ x.noticeAt = IF Sends(c) THEN t ELSE st[c].noticeAt
             /\ x.falseChases = st[c].falseChases
<1> DEFINE a == st[c].pending.action
           x == Acted(c, caused)
<1>1. c \in Cases /\ st[c] \in CaseStates /\ st[c].pending # Idle /\ t \in Nat
  BY DEF TypeOK, Due
<1>2. a \in Actions \ {"WAIT", "WRITE_OFF"} /\ st[c].pending.at \in Nat
  BY <1>1 DEF CaseStates
<1>3. Climbed(a, st[c].rung) \in 0..6
  BY <1>1, <1>2 DEF CaseStates, Climbed, RungOf, Actions
<1>4. x = [st[c] EXCEPT !.status = IF caused THEN "RECOVERED" ELSE @, !.pending = Idle,
                    !.attempts = IF a = "RETRY" THEN @ + 1 ELSE @,
                    !.noticeAt = IF Sends(c) THEN t ELSE @,
                    !.acted = @ \cup {a}, !.rung = Climbed(a, @), !.wakeAt = t + 120]
  BY DEF Acted
<1> HIDE DEF a, x
<1>5. /\ x.status \in {st[c].status, "RECOVERED"} /\ x.pending = Idle
      /\ x.rung = Climbed(a, st[c].rung) /\ x.acted = st[c].acted \cup {a}
      /\ x.noticeAt = IF Sends(c) THEN t ELSE st[c].noticeAt
      /\ x.falseChases = st[c].falseChases
  BY <1>1, <1>4 DEF CaseStates
<1>6. x \in CaseStates
  <2> DEFINE status   == IF caused THEN "RECOVERED" ELSE st[c].status
             attempts == IF a = "RETRY" THEN st[c].attempts + 1 ELSE st[c].attempts
             notice   == IF Sends(c) THEN t ELSE st[c].noticeAt
  <2>1. /\ status \in {"OPEN", "RECOVERED", "SELF_RECOVERED", "WRITTEN_OFF"}
        /\ attempts \in Nat /\ notice \in Nat \cup {Never}
        /\ st[c].acted \cup {a} \in SUBSET Actions /\ t + 120 \in Nat
    BY <1>1, <1>2 DEF CaseStates
  <2>2. x = [st[c] EXCEPT !.status = status, !.pending = Idle, !.attempts = attempts,
                    !.noticeAt = notice, !.acted = st[c].acted \cup {a},
                    !.rung = Climbed(a, st[c].rung), !.wakeAt = t + 120]
    BY <1>1, <1>4 DEF CaseStates
  <2> HIDE DEF status, attempts, notice
  <2> QED BY <1>1, <1>3, <2>1, <2>2 DEF CaseStates
<1> QED BY <1>2, <1>5, <1>6 DEF a, x

(* Booking, closing and starting an arm.                                   *)
LEMMA BookOne ==
  ASSUME TypeOK, BookSelfPayments, NEW c \in Cases
  PROVE  /\ st'[c] \in CaseStates
         /\ st'[c].status = IF Open(c) /\ Paid(c) THEN "SELF_RECOVERED" ELSE st[c].status
         /\ st'[c].pending = st[c].pending /\ st'[c].rung = st[c].rung
         /\ st'[c].noticeAt = st[c].noticeAt /\ st'[c].acted = st[c].acted
         /\ st'[c].falseChases = st[c].falseChases
<1>1. st[c] \in CaseStates
  BY DEF TypeOK
<1>2. st'[c] = IF Open(c) /\ Paid(c) THEN [st[c] EXCEPT !.status = "SELF_RECOVERED"] ELSE st[c]
  BY DEF BookSelfPayments
<1> QED BY <1>1, <1>2 DEF CaseStates

LEMMA CloseOne ==
  ASSUME TypeOK, CloseWindow, NEW c \in Cases
  PROVE  /\ st'[c] \in CaseStates
         /\ st'[c].status = IF Open(c) THEN "WRITTEN_OFF" ELSE st[c].status
         /\ st'[c].pending = st[c].pending /\ st'[c].rung = st[c].rung
         /\ st'[c].noticeAt = st[c].noticeAt /\ st'[c].acted = st[c].acted
         /\ st'[c].falseChases = st[c].falseChases
<1>1. st[c] \in CaseStates
  BY DEF TypeOK
<1>2. st'[c] = IF Open(c) THEN [st[c] EXCEPT !.status = "WRITTEN_OFF"] ELSE st[c]
  BY DEF CloseWindow
<1> QED BY <1>1, <1>2 DEF CaseStates

LEMMA NewOne ==
  ASSUME NEW opened \in Nat
  PROVE  LET x == NewCase(opened)
         IN  /\ x \in CaseStates /\ x.status = "OPEN" /\ x.pending = Idle /\ x.rung = 0
             /\ x.noticeAt = Never /\ x.acted = {} /\ x.falseChases = 0
BY DEF NewCase, CaseStates

(* In the first instant of an arm every case is new, no customer has been  *)
(* written to, and whoever pays will pay when the world says.              *)
FirstInstant ==
  /\ world \in Worlds /\ arm \in 1..4 /\ t = 0 /\ step = "execute"
  /\ payAt \in [Cases -> Nat \cup {Never}] /\ st \in [Cases -> CaseStates]
  /\ contacts \in [Cases -> SUBSET Nat]
  /\ \A c \in Cases :
       /\ payAt[c] = world[c].selfPayAt /\ contacts[c] = {}
       /\ st[c].status = "OPEN" /\ st[c].pending = Idle /\ st[c].rung = 0
       /\ st[c].noticeAt = Never /\ st[c].acted = {} /\ st[c].falseChases = 0

LEMMA InitIsFirst == Init => FirstInstant
<1> SUFFICES ASSUME Init PROVE FirstInstant
  OBVIOUS
<1>1. \A c \in Cases : world[c] \in WorldCases
  BY SimAssumption DEF Init
<1>2. \A c \in Cases : world[c].openedAt \in Nat /\ world[c].selfPayAt \in Nat \cup {Never}
  BY <1>1 DEF WorldCases
<1>3. st = Fresh /\ payAt = Draw(world) /\ contacts = Nobody
  BY DEF Init
<1>4. \A c \in Cases : st[c] = NewCase(world[c].openedAt) /\ payAt[c] = world[c].selfPayAt
                        /\ contacts[c] = {}
  BY <1>3 DEF Fresh, Draw, Nobody
<1>5. \A c \in Cases :
        /\ st[c] \in CaseStates /\ st[c].status = "OPEN" /\ st[c].pending = Idle
        /\ st[c].rung = 0 /\ st[c].noticeAt = Never /\ st[c].acted = {} /\ st[c].falseChases = 0
  BY <1>2, <1>4, NewOne
<1>6. /\ payAt \in [Cases -> Nat \cup {Never}] /\ st \in [Cases -> CaseStates]
      /\ contacts \in [Cases -> SUBSET Nat]
  BY <1>2, <1>3, <1>5 DEF Fresh, Draw, Nobody
<1> QED BY <1>4, <1>5, <1>6 DEF Init, FirstInstant

LEMMA NextArmIsFirst == TypeOK /\ NextArm => FirstInstant'
<1> SUFFICES ASSUME TypeOK, NextArm PROVE FirstInstant'
  OBVIOUS
<1>1. \A c \in Cases : world[c].openedAt \in Nat /\ world[c].selfPayAt \in Nat \cup {Never}
  BY WorldType DEF WorldCases
<1>2. st' = Fresh /\ payAt' = Draw(world) /\ contacts' = Nobody /\ world' = world
  BY DEF NextArm, CopyOfWorld
<1>3. \A c \in Cases : st'[c] = NewCase(world[c].openedAt) /\ payAt'[c] = world[c].selfPayAt
                        /\ contacts'[c] = {}
  BY <1>2 DEF Fresh, Draw, Nobody
<1>4. \A c \in Cases :
        /\ st'[c] \in CaseStates /\ st'[c].status = "OPEN" /\ st'[c].pending = Idle
        /\ st'[c].rung = 0 /\ st'[c].noticeAt = Never /\ st'[c].acted = {}
        /\ st'[c].falseChases = 0
  BY <1>1, <1>3, NewOne
<1>5. /\ payAt' \in [Cases -> Nat \cup {Never}] /\ st' \in [Cases -> CaseStates]
      /\ contacts' \in [Cases -> SUBSET Nat]
  BY <1>1, <1>2, <1>4 DEF Fresh, Draw, Nobody
<1>6. world' \in Worlds /\ arm' \in 1..4 /\ t' = 0 /\ step' = "execute"
  <2>1. arm \in 1..4 /\ Len(Arms) = 4
    BY ArmIsOne DEF TypeOK
  <2> QED BY <2>1 DEF NextArm, TypeOK
<1> QED BY <1>2, <1>3, <1>4, <1>5, <1>6 DEF FirstInstant

-----------------------------------------------------------------------------
(* Types.  A notified case is past RETRY, which the policies' types need.  *)
TypeInv == TypeOK /\ \A c \in Cases : NoticeLifts(c)

LEMMA TypeInitially == FirstInstant => TypeInv
BY DEF FirstInstant, TypeInv, TypeOK, NoticeLifts

(* Every step leaves each case's record well-formed and its notice paired  *)
(* with its rung.                                                          *)
LEMMA TypeStep == TypeInv /\ [Next]_vars => TypeInv'
<1> SUFFICES ASSUME TypeInv, [Next]_vars PROVE TypeInv'
  OBVIOUS
<1>1. TypeOK /\ t \in Nat /\ \A c \in Cases : NoticeLifts(c) /\ st[c] \in CaseStates
  BY DEF TypeInv, TypeOK
<1>2. CASE Execute
  <2>1. ASSUME NEW c \in Cases
        PROVE  /\ st'[c] \in CaseStates /\ NoticeLifts(c)'
               /\ payAt'[c] \in Nat \cup {Never} /\ contacts'[c] \in SUBSET Nat
    <3>1. payAt[c] \in Nat \cup {Never} /\ contacts[c] \in SUBSET Nat
      BY <1>1 DEF TypeOK
    <3>2. contacts'[c] \in SUBSET Nat /\ payAt'[c] \in Nat \cup {Never}
      BY <1>1, <1>2, <3>1, ExecuteOne
    <3>3. CASE c \notin Due
      <4>1. st'[c] = st[c]
        BY <1>2, <3>3, ExecuteOne
      <4> QED BY <1>1, <3>2, <4>1 DEF NoticeLifts
    <3>4. CASE c \in Due /\ Paid(c)
      <4>1. st'[c] = FoundPaid(c)
        BY <1>2, <3>4, ExecuteOne
      <4> QED BY <1>1, <3>2, <4>1, FoundPaidFields DEF NoticeLifts
    <3>5. CASE c \in Due /\ ~Paid(c)
      <4>1. PICK caused \in BOOLEAN : st'[c] = Acted(c, caused)
        BY <1>2, <3>5, ExecuteOne
      <4> DEFINE a == st[c].pending.action
      <4>2. /\ st'[c] \in CaseStates /\ a \in Actions /\ st'[c].rung = Climbed(a, st[c].rung)
            /\ st'[c].noticeAt = IF Sends(c) THEN t ELSE st[c].noticeAt
        BY <1>1, <3>5, <4>1, ActedFields
      <4>3. st[c].rung \in 0..6 /\ (Sends(c) => a \in ContactActions)
        BY <1>1 DEF CaseStates, Sends
      <4> HIDE DEF a
      <4>4. st'[c].rung >= st[c].rung /\ (a \in ContactActions => st'[c].rung >= 2)
        BY <4>2, <4>3 DEF Climbed, RungOf, Actions, ContactActions
      <4>5. st'[c].rung \in 0..6
        BY <4>2 DEF CaseStates
      <4> QED BY <1>1, <3>2, <4>2, <4>3, <4>4, <4>5 DEF NoticeLifts
    <3> QED BY <3>3, <3>4, <3>5
  <2>2. /\ st' = [c \in Cases |-> st'[c]] /\ payAt' = [c \in Cases |-> payAt'[c]]
        /\ contacts' = [c \in Cases |-> contacts'[c]]
    BY <1>2 DEF Execute
  <2>3. /\ st' \in [Cases -> CaseStates] /\ payAt' \in [Cases -> Nat \cup {Never}]
        /\ contacts' \in [Cases -> SUBSET Nat]
    BY <2>1, <2>2
  <2>4. step' = "book" /\ UNCHANGED <<world, arm, t>>
    BY <1>2 DEF Execute
  <2> QED BY <1>1, <2>1, <2>3, <2>4 DEF TypeInv, TypeOK
<1>3. CASE BookSelfPayments
  <2>1. \A c \in Cases : st'[c] \in CaseStates /\ NoticeLifts(c)'
    BY <1>1, <1>3, BookOne DEF NoticeLifts
  <2>2. st' = [c \in Cases |-> st'[c]]
    BY <1>3 DEF BookSelfPayments
  <2>3. st' \in [Cases -> CaseStates]
    BY <2>1, <2>2
  <2> QED BY <1>1, <1>3, <2>1, <2>3 DEF TypeInv, TypeOK, BookSelfPayments
<1>4. CASE DecideAll
  <2>1. ASSUME NEW c \in Cases PROVE st'[c] \in CaseStates /\ NoticeLifts(c)'
    <3>1. CASE c \notin Awake
      <4>1. st'[c] = st[c]
        BY <1>1, <1>4, <3>1, DecideOne
      <4> QED BY <1>1, <4>1 DEF NoticeLifts
    <3>2. CASE c \in Awake
      <4>1. PICK w, d : SoundProposal(c, d) /\ st'[c] = Decided(c, d, w)
        BY <1>1, <1>4, <3>2, DecideOne
      <4>2. d \in [action : Decisions, at : Nat]
        BY <4>1 DEF SoundProposal
      <4> QED BY <1>1, <4>1, <4>2, DecidedFields DEF NoticeLifts
    <3> QED BY <3>1, <3>2
  <2>2. st' = [c \in Cases |-> st'[c]]
    BY <1>4 DEF DecideAll
  <2>3. st' \in [Cases -> CaseStates]
    BY <2>1, <2>2
  <2>4. t' \in Nat /\ step' \in {"execute", "close"} /\ UNCHANGED <<world, arm, payAt, contacts>>
    BY <1>1, <1>4 DEF DecideAll
  <2> QED BY <1>1, <2>1, <2>3, <2>4 DEF TypeInv, TypeOK
<1>5. CASE CloseWindow
  <2>1. \A c \in Cases : st'[c] \in CaseStates /\ NoticeLifts(c)'
    BY <1>1, <1>5, CloseOne DEF NoticeLifts
  <2>2. st' = [c \in Cases |-> st'[c]]
    BY <1>5 DEF CloseWindow
  <2>3. st' \in [Cases -> CaseStates]
    BY <2>1, <2>2
  <2> QED BY <1>1, <1>5, <2>1, <2>3 DEF TypeInv, TypeOK, CloseWindow
<1>6. CASE NextArm
  <2>1. FirstInstant'
    BY <1>1, <1>6, NextArmIsFirst
  <2> QED BY <2>1 DEF FirstInstant, TypeInv, TypeOK, NoticeLifts
<1>7. CASE UNCHANGED vars
  BY <1>7 DEF TypeInv, TypeOK, NoticeLifts, vars
<1> QED BY <1>2, <1>3, <1>4, <1>5, <1>6, <1>7 DEF Next

THEOREM SimTypeCorrect == Spec => []TypeInv
BY InitIsFirst, TypeInitially, TypeStep, PTL DEF Spec

(* What a step within an arm does to a case's pending decision, to its     *)
(* messages and to the clock.                                              *)
LEMMA OneStep ==
  ASSUME TypeInv, Execute \/ BookSelfPayments \/ DecideAll \/ CloseWindow, NEW c \in Cases
  PROVE  /\ UNCHANGED <<world, arm>> /\ t' \in {t, t + 60} /\ (t' # t => DecideAll)
         /\ (Execute /\ c \in Due /\ Sends(c)) \/ contacts'[c] = contacts[c]
         /\ contacts'[c] = contacts[c] \/ contacts'[c] = contacts[c] \cup {t}
         /\ \/ st'[c].pending = st[c].pending /\ ~(Execute /\ c \in Due)
            \/ Execute /\ c \in Due /\ st'[c].pending = Idle
            \/ DecideAll /\ c \in Awake /\ SoundProposal(c, st'[c].pending)
<1>1. TypeOK /\ NoticeLifts(c) /\ t \in Nat
  BY DEF TypeInv, TypeOK
<1>2. CASE Execute
  <2>1. UNCHANGED <<world, arm, t>>
    BY <1>2 DEF Execute
  <2>2. c \in Due => st'[c].pending = Idle
    <3>1. CASE c \in Due /\ Paid(c)
      BY <1>1, <1>2, <3>1, ExecuteOne, FoundPaidFields
    <3>2. CASE c \in Due /\ ~Paid(c)
      <4>1. PICK caused \in BOOLEAN : st'[c] = Acted(c, caused)
        BY <1>2, <3>2, ExecuteOne
      <4> QED BY <1>1, <3>2, <4>1, ActedFields
    <3> QED BY <3>1, <3>2
  <2>3. c \notin Due => st'[c].pending = st[c].pending
    BY <1>2, ExecuteOne
  <2> QED BY <1>2, <2>1, <2>2, <2>3, ExecuteOne
<1>3. CASE BookSelfPayments
  <2>1. step = "book"
    BY <1>3 DEF BookSelfPayments
  <2> QED BY <1>1, <1>3, <2>1, BookOne DEF BookSelfPayments, Execute
<1>4. CASE DecideAll
  <2>1. step = "decide" /\ t' = t + 60 /\ UNCHANGED <<world, arm, contacts>>
    BY <1>4 DEF DecideAll
  <2>2. ~Execute
    BY <2>1 DEF Execute
  <2>3. CASE c \notin Awake
    BY <1>1, <1>4, <2>1, <2>2, <2>3, DecideOne
  <2>4. CASE c \in Awake
    <3>1. PICK w, d : SoundProposal(c, d) /\ st'[c] = Decided(c, d, w)
      BY <1>1, <1>4, <2>4, DecideOne
    <3>2. d \in [action : Decisions, at : Nat]
      BY <3>1 DEF SoundProposal
    <3>3. st'[c].pending = st[c].pending \/ st'[c].pending = d
      BY <1>1, <3>1, <3>2, DecidedFields
    <3> QED BY <1>4, <2>1, <2>2, <2>4, <3>1, <3>3
  <2> QED BY <2>3, <2>4
<1>5. CASE CloseWindow
  <2>1. step = "close"
    BY <1>5 DEF CloseWindow
  <2> QED BY <1>1, <1>5, <2>1, CloseOne DEF CloseWindow, Execute
<1> QED BY <1>2, <1>3, <1>4, <1>5

-----------------------------------------------------------------------------
(* Debits.                                                                 *)
DebitInv ==
  \A c \in Cases :
     /\ st[c].noticeAt # Never => st[c].noticeAt \in contacts[c]
     /\ st[c].pending.action = "RETRY" =>
          /\ world[c].mandate /\ world[c].retryable
          /\ \E x \in contacts[c] : st[c].pending.at - x >= 60 * NoticeHours
     /\ Arm = "ENGINE" => st[c].pending.action # "RETRY" /\ "RETRY" \notin st[c].acted

LEMMA DebitInitially == FirstInstant => DebitInv
BY DEF FirstInstant, DebitInv, Idle, Decision

LEMMA DebitStep == TypeInv /\ DebitInv /\ [Next]_vars => DebitInv'
<1> SUFFICES ASSUME TypeInv, DebitInv, [Next]_vars PROVE DebitInv'
  OBVIOUS
<1>1. TypeOK /\ t \in Nat /\ \A c \in Cases : NoticeLifts(c)
  BY DEF TypeInv, TypeOK
<1>2. CASE Execute \/ BookSelfPayments \/ DecideAll \/ CloseWindow
  <2> SUFFICES ASSUME NEW c \in Cases
               PROVE  /\ st'[c].noticeAt # Never => st'[c].noticeAt \in contacts'[c]
                      /\ st'[c].pending.action = "RETRY" =>
                           /\ world'[c].mandate /\ world'[c].retryable
                           /\ \E x \in contacts'[c] : st'[c].pending.at - x >= 60 * NoticeHours
                      /\ Arm' = "ENGINE" =>
                           st'[c].pending.action # "RETRY" /\ "RETRY" \notin st'[c].acted
    BY DEF DebitInv
  <2>1. /\ UNCHANGED <<world, arm>> /\ contacts[c] \subseteq contacts'[c]
        /\ \/ st'[c].pending = st[c].pending
           \/ st'[c].pending = Idle
           \/ DecideAll /\ SoundProposal(c, st'[c].pending)
    BY <1>2, OneStep
  <2>2. Arm' = Arm
    BY <2>1 DEF Arm
  <2>3. /\ \/ st'[c].noticeAt = st[c].noticeAt
           \/ st'[c].noticeAt \in contacts'[c]
        /\ \/ st'[c].acted = st[c].acted
           \/ st'[c].acted = st[c].acted \cup {st[c].pending.action}
    <3>1. CASE Execute
      <4>1. CASE c \notin Due
        BY <3>1, <4>1, ExecuteOne
      <4>2. CASE c \in Due /\ Paid(c)
        BY <1>1, <3>1, <4>2, ExecuteOne, FoundPaidFields
      <4>3. CASE c \in Due /\ ~Paid(c)
        <5>1. PICK caused \in BOOLEAN : st'[c] = Acted(c, caused)
          BY <3>1, <4>3, ExecuteOne
        <5>2. Sends(c) => t \in contacts'[c]
          BY <3>1, <4>3, ExecuteOne
        <5> QED BY <1>1, <4>3, <5>1, <5>2, ActedFields
      <4> QED BY <4>1, <4>2, <4>3
    <3>2. CASE BookSelfPayments
      BY <1>1, <3>2, BookOne
    <3>3. CASE CloseWindow
      BY <1>1, <3>3, CloseOne
    <3>4. CASE DecideAll
      <4>1. CASE c \notin Awake
        BY <1>1, <3>4, <4>1, DecideOne
      <4>2. CASE c \in Awake
        <5>1. PICK w, d : SoundProposal(c, d) /\ st'[c] = Decided(c, d, w)
          BY <1>1, <3>4, <4>2, DecideOne
        <5>2. d \in [action : Decisions, at : Nat]
          BY <5>1 DEF SoundProposal
        <5> QED BY <1>1, <5>1, <5>2, DecidedFields
      <4> QED BY <4>1, <4>2
    <3> QED BY <1>2, <3>1, <3>2, <3>3, <3>4
  <2>4. st'[c].noticeAt # Never => st'[c].noticeAt \in contacts'[c]
    BY <2>1, <2>3 DEF DebitInv
  <2>5. st'[c].pending.action = "RETRY" =>
          /\ world'[c].mandate /\ world'[c].retryable
          /\ \E x \in contacts'[c] : st'[c].pending.at - x >= 60 * NoticeHours
    <3>1. CASE st'[c].pending = st[c].pending
      BY <2>1, <3>1 DEF DebitInv
    <3>2. CASE st'[c].pending = Idle
      BY <3>2 DEF Idle, Decision
    <3>3. CASE SoundProposal(c, st'[c].pending)
      <4> SUFFICES ASSUME st'[c].pending.action = "RETRY"
                   PROVE  /\ world[c].mandate /\ world[c].retryable
                          /\ \E x \in contacts'[c] : st'[c].pending.at - x >= 60 * NoticeHours
        BY <2>1
      <4>1. /\ st'[c].pending.at >= t /\ st'[c].pending.at \in Nat
            /\ ~RetryBlocked(SnapshotOf(c))
        BY <3>3 DEF SoundProposal
      <4>2. /\ world[c].mandate /\ world[c].retryable /\ st[c].noticeAt # Never
            /\ t - st[c].noticeAt >= 60 * NoticeHours
        BY <1>1, <4>1, RetryIsNotified
      <4>3. st[c].noticeAt \in contacts'[c] /\ st[c].noticeAt \in Nat
        BY <1>1, <2>1, <4>2 DEF DebitInv, TypeOK, CaseStates
      <4>4. st'[c].pending.at - st[c].noticeAt >= 60 * NoticeHours
        BY <1>1, <4>1, <4>2, <4>3, LimitsAreNatural
      <4> QED BY <4>2, <4>3, <4>4
    <3> QED BY <2>1, <3>1, <3>2, <3>3
  <2>6. Arm' = "ENGINE" => st'[c].pending.action # "RETRY" /\ "RETRY" \notin st'[c].acted
    <3> SUFFICES ASSUME Arm = "ENGINE"
                 PROVE  st'[c].pending.action # "RETRY" /\ "RETRY" \notin st'[c].acted
      BY <2>2
    <3>1. st[c].pending.action # "RETRY" /\ "RETRY" \notin st[c].acted
      BY DEF DebitInv
    <3>2. st'[c].pending.action # "RETRY"
      BY <2>1, <3>1 DEF SoundProposal, Idle, Decision
    <3> QED BY <2>3, <3>1, <3>2
  <2> QED BY <2>4, <2>5, <2>6
<1>3. CASE NextArm
  BY <1>1, <1>3, NextArmIsFirst DEF FirstInstant, DebitInv, Idle, Decision
<1>4. CASE UNCHANGED vars
  BY <1>4 DEF DebitInv, vars, Arm
<1> QED BY <1>2, <1>3, <1>4 DEF Next

(* In every arm and over every world, a mandate is debited only long       *)
(* enough after a message to its holder.                                   *)
THEOREM DebitsAreAnnounced == Spec => []DebitAfterNotice
<1>1. DebitInv => DebitAfterNotice
  BY DEF DebitInv, DebitAfterNotice
<1> QED BY <1>1, InitIsFirst, TypeInitially, TypeStep, DebitInitially, DebitStep, PTL DEF Spec

(* Whatever the posterior says, the engine arm never queues a retry.       *)
THEOREM EngineDoesNotRetry == Spec => []EngineNeverRetries
<1>1. DebitInv => EngineNeverRetries
  BY DEF DebitInv, EngineNeverRetries
<1> QED BY <1>1, InitIsFirst, TypeInitially, TypeStep, DebitInitially, DebitStep, PTL DEF Spec

-----------------------------------------------------------------------------
(* The rules of contact: what is queued is due on the hour, and by arm for *)
(* an instant by day or a known delay after one.                           *)
Quiet(at) == InQuietHours(at, QuietStart, QuietEnd)

OnTime(c) ==
  LET p == st[c].pending
  IN  p.action \in ContactActions =>
        /\ Arm # "CONTROL" /\ p.at % 60 = 0
        /\ ~Quiet(IF Arm = "BASELINE" THEN p.at - 120 ELSE p.at)
        /\ Open(c) =>
             /\ step = "execute" => IF Arm = "ORACLE" THEN p.at = t - 60 ELSE p.at >= t
             /\ step \in {"book", "decide"} => Arm # "ORACLE" /\ p.at >= t + 60

ByTheRules(c) ==
  /\ st[c].falseChases > 0 =>
       Arm = "BASELINE" /\ st[c].falseChases = 1 /\ st[c].status = "SELF_RECOVERED"
  /\ \A at \in contacts[c] :
       Quiet(at) => \/ Arm = "BASELINE" /\ ~Quiet(at - 120)
                    \/ Arm = "ORACLE" /\ ~Quiet(at - 60)

RuleInv == t % 60 = 0 /\ \A c \in Cases : OnTime(c) /\ ByTheRules(c)

LEMMA RuleInitially == FirstInstant => RuleInv
BY DEF FirstInstant, RuleInv, OnTime, ByTheRules, Idle, Decision, ContactActions

(* A decision that has just been taken is queued in time.                  *)
LEMMA DecidedOnTime ==
  ASSUME TypeInv, RuleInv, DecideAll, NEW c \in Cases, SoundProposal(c, st'[c].pending)
  PROVE  OnTime(c)'
<1> DEFINE p == st'[c].pending
<1>1. t \in Nat /\ t % 60 = 0 /\ t' = t + 60 /\ Arm' = Arm /\ step' \in {"execute", "close"}
  BY DEF TypeInv, TypeOK, RuleInv, DecideAll, Arm
<1> SUFFICES ASSUME p.action \in ContactActions
             PROVE  /\ Arm # "CONTROL" /\ p.at % 60 = 0
                    /\ ~Quiet(IF Arm = "BASELINE" THEN p.at - 120 ELSE p.at)
                    /\ IF Arm = "ORACLE" THEN p.at = t' - 60 ELSE p.at >= t'
  BY <1>1 DEF OnTime
<1>2. /\ Arm # "CONTROL" /\ p.at \in Nat
      /\ Arm = "BASELINE" => p.at = t + 120 /\ ~Quiet(t)
      /\ Arm = "ENGINE" => p.at >= t + 120 /\ p.at % 60 = 0 /\ ~Quiet(p.at)
      /\ Arm = "ORACLE" => p.at = t /\ ~Quiet(t)
  BY <1>1 DEF SoundProposal, Quiet
<1>3. Arm \in {"BASELINE", "ENGINE", "ORACLE"}
  BY <1>2, ArmIsOne DEF TypeInv, TypeOK
<1> HIDE DEF p
<1>4. CASE Arm = "BASELINE"
  <2>1. (p.at - 120) = t
    BY <1>1, <1>2, <1>4
  <2>2. p.at % 60 = 0
    BY <1>1, <1>2, <1>4
  <2> QED BY <1>1, <1>2, <1>4, <2>1, <2>2
<1>5. CASE Arm = "ENGINE"
  BY <1>1, <1>2, <1>5
<1>6. CASE Arm = "ORACLE"
  BY <1>1, <1>2, <1>6
<1> QED BY <1>3, <1>4, <1>5, <1>6

LEMMA RuleStep == TypeInv /\ RuleInv /\ [Next]_vars => RuleInv'
<1> SUFFICES ASSUME TypeInv, RuleInv, [Next]_vars PROVE RuleInv'
  OBVIOUS
<1>1. TypeOK /\ t \in Nat /\ t % 60 = 0 /\ \A c \in Cases : NoticeLifts(c) /\ st[c] \in CaseStates
  BY DEF TypeInv, TypeOK, RuleInv
<1>2. CASE Execute
  <2>1. /\ step = "execute" /\ step' = "book" /\ UNCHANGED <<world, arm, t>> /\ Arm' = Arm
    BY <1>2 DEF Execute, Arm
  <2> SUFFICES ASSUME NEW c \in Cases PROVE OnTime(c)' /\ ByTheRules(c)'
    BY <1>1, <2>1 DEF RuleInv
  <2> DEFINE p == st[c].pending
  <2>2. OnTime(c) /\ ByTheRules(c)
    BY DEF RuleInv
  <2>3. CASE c \notin Due
    <3>1. st'[c] = st[c] /\ contacts'[c] = contacts[c]
      BY <1>2, <2>3, ExecuteOne
    <3>2. ByTheRules(c)'
      BY <2>1, <2>2, <3>1 DEF ByTheRules
    <3>3. ASSUME p.action \in ContactActions, Open(c) PROVE Arm # "ORACLE" /\ p.at >= t + 60
      <4>1. p # Idle /\ p.at \in Nat
        BY <1>1, <3>3 DEF Idle, Decision, ContactActions, CaseStates
      <4>2. ~(p.at <= t)
        BY <2>3, <3>3, <4>1 DEF Due
      <4>3. p.at % 60 = 0 /\ IF Arm = "ORACLE" THEN p.at = t - 60 ELSE p.at >= t
        BY <2>1, <2>2, <3>3 DEF OnTime
      <4> HIDE DEF p
      <4>4. p.at >= t + 60
        BY <1>1, <4>1, <4>2, <4>3
      <4>5. Arm # "ORACLE"
        BY <1>1, <4>1, <4>2, <4>3
      <4> QED BY <4>4, <4>5
    <3>4. OnTime(c)'
      BY <2>1, <2>2, <3>1, <3>3 DEF OnTime, Open
    <3> QED BY <3>2, <3>4
  <2>4. CASE c \in Due
    <3>1. st'[c].pending = Idle /\ Open(c) /\ p # Idle /\ p.at <= t
      BY <1>2, <2>4, OneStep DEF Due, Idle, Decision, SoundProposal, Execute, DecideAll
    <3>2. OnTime(c)'
      BY <3>1 DEF OnTime, Idle, Decision, ContactActions
    <3>3. st[c].falseChases = 0
      BY <1>1, <2>2, <3>1 DEF ByTheRules, Open, CaseStates
    <3>4. st'[c].falseChases > 0 =>
            Arm = "BASELINE" /\ st'[c].falseChases = 1 /\ st'[c].status = "SELF_RECOVERED"
      <4>1. CASE Paid(c)
        <5>1. st'[c] = FoundPaid(c)
          BY <1>2, <2>4, <4>1, ExecuteOne
        <5>2. st'[c].status = "SELF_RECOVERED" /\ st'[c].falseChases = IF Sends(c) THEN 1 ELSE 0
          BY <1>1, <3>3, <5>1, FoundPaidFields
        <5>3. Sends(c) => Arm = "BASELINE"
          BY <4>1 DEF Sends, Rechecks
        <5> QED BY <5>2, <5>3
      <4>2. CASE ~Paid(c)
        <5>1. PICK caused \in BOOLEAN : st'[c] = Acted(c, caused)
          BY <1>2, <2>4, <4>2, ExecuteOne
        <5> QED BY <1>1, <2>4, <3>3, <5>1, ActedFields
      <4> QED BY <4>1, <4>2
    <3>5. Sends(c) /\ Quiet(t) => \/ Arm = "BASELINE" /\ ~Quiet(t - 120)
                                  \/ Arm = "ORACLE" /\ ~Quiet(t - 60)
      <4> SUFFICES ASSUME Sends(c), Quiet(t)
                   PROVE  \/ Arm = "BASELINE" /\ ~Quiet(t - 120)
                          \/ Arm = "ORACLE" /\ ~Quiet(t - 60)
        OBVIOUS
      <4>1. p.action \in ContactActions /\ p.at \in Nat
        BY <1>1, <3>1 DEF Sends, CaseStates
      <4>2. /\ ~Quiet(IF Arm = "BASELINE" THEN p.at - 120 ELSE p.at)
            /\ IF Arm = "ORACLE" THEN p.at = t - 60 ELSE p.at >= t
        BY <2>1, <2>2, <3>1, <4>1 DEF OnTime
      <4> HIDE DEF p
      <4>3. CASE Arm = "ORACLE"
        BY <4>2, <4>3
      <4>4. CASE Arm # "ORACLE"
        <5>1. p.at = t
          BY <1>1, <3>1, <4>1, <4>2, <4>4
        <5> QED BY <4>2, <4>4, <5>1
      <4> QED BY <4>3, <4>4
    <3>6. contacts'[c] = IF Sends(c) THEN contacts[c] \cup {t} ELSE contacts[c]
      BY <1>2, <2>4, ExecuteOne
    <3>7. ByTheRules(c)'
      BY <2>1, <2>2, <3>4, <3>5, <3>6 DEF ByTheRules
    <3> QED BY <3>2, <3>7
  <2> QED BY <2>3, <2>4
<1>3. CASE BookSelfPayments
  <2>1. /\ step = "book" /\ step' = "decide" /\ UNCHANGED <<world, arm, t, contacts>> /\ Arm' = Arm
    BY <1>3 DEF BookSelfPayments, Arm
  <2>2. ASSUME NEW c \in Cases PROVE OnTime(c)' /\ ByTheRules(c)'
    <3>1. /\ st'[c].pending = st[c].pending /\ st'[c].falseChases = st[c].falseChases
          /\ st'[c].status = IF Open(c) /\ Paid(c) THEN "SELF_RECOVERED" ELSE st[c].status
      BY <1>1, <1>3, BookOne
    <3>2. Open(c)' => Open(c)
      BY <3>1 DEF Open
    <3>3. OnTime(c) /\ ByTheRules(c)
      BY DEF RuleInv
    <3>4. OnTime(c)'
      BY <2>1, <3>1, <3>2, <3>3 DEF OnTime
    <3>5. ByTheRules(c)'
      BY <2>1, <3>1, <3>3 DEF ByTheRules
    <3> QED BY <3>4, <3>5
  <2> QED BY <1>1, <2>1, <2>2 DEF RuleInv
<1>4. CASE DecideAll
  <2>1. /\ step = "decide" /\ step' \in {"execute", "close"} /\ UNCHANGED <<world, arm, contacts>>
        /\ t' = t + 60 /\ Arm' = Arm
    BY <1>4 DEF DecideAll, Arm
  <2>2. t' % 60 = 0
    BY <1>1, <2>1
  <2>3. ASSUME NEW c \in Cases PROVE OnTime(c)' /\ ByTheRules(c)'
    <3>1. OnTime(c) /\ ByTheRules(c)
      BY DEF RuleInv
    <3>2. st'[c].status = st[c].status /\ st'[c].falseChases = st[c].falseChases
      <4>1. CASE c \notin Awake
        BY <1>1, <1>4, <4>1, DecideOne
      <4>2. CASE c \in Awake
        <5>1. PICK w, d : SoundProposal(c, d) /\ st'[c] = Decided(c, d, w)
          BY <1>1, <1>4, <4>2, DecideOne
        <5>2. d \in [action : Decisions, at : Nat]
          BY <5>1 DEF SoundProposal
        <5> QED BY <1>1, <5>1, <5>2, DecidedFields
      <4> QED BY <4>1, <4>2
    <3>3. ByTheRules(c)'
      BY <2>1, <3>1, <3>2 DEF ByTheRules
    <3>4. st'[c].pending = st[c].pending \/ SoundProposal(c, st'[c].pending)
      BY <1>4, <2>1, OneStep DEF Execute
    <3>5. CASE st'[c].pending = st[c].pending
      BY <2>1, <3>1, <3>2, <3>3, <3>5 DEF OnTime, Open
    <3>6. CASE SoundProposal(c, st'[c].pending)
      BY <1>4, <3>3, <3>6, DecidedOnTime
    <3> QED BY <3>3, <3>4, <3>5, <3>6
  <2> QED BY <2>2, <2>3 DEF RuleInv
<1>5. CASE CloseWindow
  <2>1. /\ step' = "closed" /\ step = "close" /\ UNCHANGED <<world, arm, t, contacts>> /\ Arm' = Arm
    BY <1>5 DEF CloseWindow, Arm
  <2>2. ASSUME NEW c \in Cases PROVE OnTime(c)' /\ ByTheRules(c)'
    <3>1. /\ st'[c].pending = st[c].pending /\ st'[c].falseChases = st[c].falseChases
          /\ st'[c].status = IF Open(c) THEN "WRITTEN_OFF" ELSE st[c].status
      BY <1>1, <1>5, CloseOne
    <3>2. OnTime(c) /\ ByTheRules(c)
      BY DEF RuleInv
    <3>3. OnTime(c)'
      BY <2>1, <3>1, <3>2 DEF OnTime
    <3>4. ByTheRules(c)'
      BY <2>1, <3>1, <3>2 DEF ByTheRules, Open
    <3> QED BY <3>3, <3>4
  <2> QED BY <1>1, <2>1, <2>2 DEF RuleInv
<1>6. CASE NextArm
  BY <1>1, <1>6, NextArmIsFirst
    DEF FirstInstant, RuleInv, OnTime, ByTheRules, Idle, Decision, ContactActions
<1>7. CASE UNCHANGED vars
  BY <1>7 DEF RuleInv, OnTime, ByTheRules, Open, Arm, vars
<1> QED BY <1>2, <1>3, <1>4, <1>5, <1>6, <1>7 DEF Next

(* For every world, batch, schedule of retries and pair of quiet hours:    *)
(* no false chase and no message at night but the opponents', and theirs   *)
(* only as the property says.                                              *)
THEOREM RulesHold == Spec => []OnlyOpponentsBreakRules
<1>1. RuleInv => OnlyOpponentsBreakRules
  BY DEF RuleInv, ByTheRules, Quiet, OnlyOpponentsBreakRules
<1> QED BY <1>1, InitIsFirst, TypeInitially, TypeStep, RuleInitially, RuleStep, PTL DEF Spec

-----------------------------------------------------------------------------
(* The contact cap: what is queued still fits under it.                    *)
WithinWeek(S, at) == {x \in S : x <= at /\ at - x <= Week}

UnderCap(c) ==
  /\ contacts[c] \subseteq 0..t
  /\ \A at \in contacts[c] : Cardinality(WithinWeek(contacts[c], at)) <= MaxContacts7d
  /\ st[c].pending.action \in ContactActions =>
       Cardinality(WithinWeek(contacts[c], t)) < MaxContacts7d

CapInv == \A c \in Cases : UnderCap(c)

LEMMA CapInitially == FirstInstant => CapInv
BY DEF FirstInstant, CapInv, UnderCap, Idle, Decision, ContactActions

LEMMA WeekIsFinite ==
  ASSUME NEW n \in Nat, NEW S \in SUBSET (0..n), NEW at \in Nat
  PROVE  IsFiniteSet(WithinWeek(S, at)) /\ Cardinality(WithinWeek(S, at)) \in Nat
<1>1. IsFiniteSet(0..n)
  BY FS_Interval
<1>2. WithinWeek(S, at) \in SUBSET (0..n)
  BY DEF WithinWeek
<1>3. IsFiniteSet(WithinWeek(S, at))
  BY <1>1, <1>2, FS_Subset
<1> QED BY <1>3, FS_CardinalityType

(* As time goes by the week behind holds no more messages.                 *)
LEMMA WeekSlides ==
  ASSUME NEW n \in Nat, NEW S \in SUBSET (0..n)
  PROVE  Cardinality(WithinWeek(S, n + 60)) <= Cardinality(WithinWeek(S, n))
<1>1. IsFiniteSet(WithinWeek(S, n))
  BY WeekIsFinite
<1>2. WithinWeek(S, n + 60) \in SUBSET WithinWeek(S, n)
  <2> SUFFICES ASSUME NEW x \in S, (n + 60) - x <= Week PROVE x <= n /\ n - x <= Week
    BY DEF WithinWeek
  <2>1. x \in 0..n /\ Week \in Nat
    BY SimAssumption
  <2> QED BY <2>1
<1> QED BY <1>1, <1>2, FS_Subset

(* One message now, with room under the cap, keeps every week under it.    *)
LEMMA OneMoreFits ==
  ASSUME NEW n \in Nat, NEW S \in SUBSET (0..n),
         \A at \in S : Cardinality(WithinWeek(S, at)) <= MaxContacts7d,
         Cardinality(WithinWeek(S, n)) < MaxContacts7d,
         NEW at \in S \cup {n}
  PROVE  Cardinality(WithinWeek(S \cup {n}, at)) <= MaxContacts7d
<1>1. CASE at = n
  <2> DEFINE W == WithinWeek(S, n)
  <2>1. WithinWeek(S \cup {n}, n) = W \cup {n}
    <3>1. n <= n /\ n - n <= Week
      BY SimAssumption
    <3> QED BY <3>1 DEF WithinWeek
  <2>2. IsFiniteSet(W) /\ Cardinality(W) \in Nat
    BY WeekIsFinite
  <2> HIDE DEF W
  <2>3. Cardinality(W \cup {n}) = IF n \in W THEN Cardinality(W) ELSE Cardinality(W) + 1
    BY <2>2, FS_AddElement
  <2>4. Cardinality(W) < MaxContacts7d
    BY DEF W
  <2>5. Cardinality(W \cup {n}) <= MaxContacts7d
    BY <2>2, <2>3, <2>4, LimitsAreNatural
  <2> QED BY <1>1, <2>1, <2>5
<1>2. CASE at # n
  <2>1. at \in S /\ at < n
    BY <1>2
  <2>2. WithinWeek(S \cup {n}, at) = WithinWeek(S, at)
    BY <2>1 DEF WithinWeek
  <2> QED BY <2>1, <2>2
<1> QED BY <1>1, <1>2

LEMMA CapStep == TypeInv /\ CapInv /\ [Next]_vars => CapInv'
<1> SUFFICES ASSUME TypeInv, CapInv, [Next]_vars PROVE CapInv'
  OBVIOUS
<1>1. TypeOK /\ t \in Nat
  BY DEF TypeInv, TypeOK
<1>2. CASE Execute \/ BookSelfPayments \/ DecideAll \/ CloseWindow
  <2> SUFFICES ASSUME NEW c \in Cases PROVE UnderCap(c)'
    BY DEF CapInv
  <2> DEFINE S == contacts[c]
  <2>1. UnderCap(c)
    BY DEF CapInv
  <2>2. S \in SUBSET (0..t)
    BY <2>1 DEF UnderCap
  <2>3. CASE Execute /\ c \in Due /\ Sends(c)
    <3>1. t' = t /\ contacts'[c] = S \cup {t}
      BY <2>3, ExecuteOne DEF Execute
    <3>2. st'[c].pending.action \notin ContactActions
      <4>1. ~DecideAll
        BY <2>3 DEF Execute, DecideAll
      <4>2. st'[c].pending = Idle
        BY <2>3, <4>1, OneStep
      <4> QED BY <4>2 DEF Idle, Decision, ContactActions
    <3>3. Cardinality(WithinWeek(S, t)) < MaxContacts7d
      BY <2>1, <2>3 DEF UnderCap, Sends
    <3>4. \A at \in S \cup {t} : Cardinality(WithinWeek(S \cup {t}, at)) <= MaxContacts7d
      BY <1>1, <2>1, <2>2, <3>3, OneMoreFits DEF UnderCap
    <3>5. S \cup {t} \subseteq 0..t
      BY <1>1, <2>2
    <3> QED BY <3>1, <3>2, <3>4, <3>5 DEF UnderCap
  <2>4. CASE ~(Execute /\ c \in Due /\ Sends(c))
    <3>1. contacts'[c] = S /\ t' \in {t, t + 60}
      BY <1>2, <2>4, OneStep
    <3>2. S \subseteq 0..t'
      BY <1>1, <2>2, <3>1
    <3>3. Cardinality(WithinWeek(S, t')) <= Cardinality(WithinWeek(S, t))
      <4>1. Cardinality(WithinWeek(S, t)) \in Nat
        BY <1>1, <2>2, WeekIsFinite
      <4> QED BY <1>1, <2>2, <3>1, <4>1, WeekSlides
    <3>4. st'[c].pending.action \in ContactActions => Cardinality(WithinWeek(S, t)) < MaxContacts7d
      <4>1. Cardinality(WithinWeek(S, t)) \in Nat
        BY <1>1, <2>2, WeekIsFinite
      <4>2. CASE st'[c].pending = st[c].pending
        BY <2>1, <4>2 DEF UnderCap
      <4>3. CASE st'[c].pending = Idle
        BY <4>3 DEF Idle, Decision, ContactActions
      <4>4. CASE SoundProposal(c, st'[c].pending)
        <5>1. WithinWeek(S, t) = {x \in contacts[c] : t - x <= Week}
          BY <1>1, <2>2 DEF WithinWeek
        <5> QED BY <4>1, <4>4, <5>1, LimitsAreNatural DEF SoundProposal, Contacts7d
      <4> QED BY <1>2, <4>2, <4>3, <4>4, OneStep
    <3>5. Cardinality(WithinWeek(S, t)) \in Nat /\ Cardinality(WithinWeek(S, t')) \in Nat
      <4>1. t' \in Nat /\ S \in SUBSET (0..t')
        BY <1>1, <3>1, <3>2
      <4> QED BY <1>1, <2>2, <4>1, WeekIsFinite
    <3>6. st'[c].pending.action \in ContactActions => Cardinality(WithinWeek(S, t')) < MaxContacts7d
      BY <3>3, <3>4, <3>5, LimitsAreNatural
    <3> QED BY <2>1, <3>1, <3>2, <3>6 DEF UnderCap
  <2> QED BY <2>3, <2>4
<1>3. CASE NextArm
  BY <1>1, <1>3, NextArmIsFirst DEF FirstInstant, CapInv, UnderCap, Idle, Decision, ContactActions
<1>4. CASE UNCHANGED vars
  BY <1>4 DEF CapInv, UnderCap, vars
<1> QED BY <1>2, <1>3, <1>4 DEF Next

(* For every cap, every length of its window and every arm: never more     *)
(* messages to a customer within the window than the cap.                  *)
THEOREM CapHoldsOverTime == Spec => []CapHolds
<1>1. CapInv => CapHolds
  BY DEF CapInv, UnderCap, WithinWeek, CapHolds
<1> QED BY <1>1, InitIsFirst, TypeInitially, TypeStep, CapInitially, CapStep, PTL DEF Spec

-----------------------------------------------------------------------------
(* Money.  Who would have paid still will, unless this arm's own actions   *)
(* drove it away; what has been paid is not open once it has been booked.  *)
MoneyInv ==
  /\ t % 60 = 0 /\ (step = "close" => t > Horizon)
  /\ \A c \in Cases :
       /\ \/ payAt[c] = world[c].selfPayAt
          \/ payAt[c] = Never /\ st[c].acted \cap world[c].harms # {}
       /\ st[c].status = "SELF_RECOVERED" => world[c].selfPayAt # Never
       /\ step = "decide" /\ Open(c) => ~Paid(c)
       /\ step = "close" /\ Open(c) => payAt[c] \notin 0..(t - 60)
       /\ st[c].status = "WRITTEN_OFF" =>
            world[c].selfPayAt = Never \/ st[c].acted \cap world[c].harms # {}

LEMMA MoneyInitially == FirstInstant => MoneyInv
BY DEF FirstInstant, MoneyInv, Open

LEMMA MoneyStep == TypeInv /\ MoneyInv /\ [Next]_vars => MoneyInv'
<1> SUFFICES ASSUME TypeInv, MoneyInv, [Next]_vars PROVE MoneyInv'
  OBVIOUS
<1>1. TypeOK /\ t \in Nat /\ t % 60 = 0 /\ Horizon \in Nat
      /\ \A c \in Cases : /\ NoticeLifts(c) /\ st[c] \in CaseStates
                          /\ payAt[c] \in Nat \cup {Never}
  BY SimAssumption, LimitsAreNatural DEF TypeInv, TypeOK, MoneyInv, Horizon
<1>2. CASE Execute
  <2>1. step' = "book" /\ UNCHANGED <<world, arm, t>>
    BY <1>2 DEF Execute
  <2>2. ASSUME NEW c \in Cases
        PROVE  /\ \/ payAt'[c] = world[c].selfPayAt
                  \/ payAt'[c] = Never /\ st'[c].acted \cap world[c].harms # {}
               /\ st'[c].status = "SELF_RECOVERED" => world[c].selfPayAt # Never
               /\ st'[c].status = "WRITTEN_OFF" =>
                    world[c].selfPayAt = Never \/ st'[c].acted \cap world[c].harms # {}
    <3>1. CASE c \notin Due
      <4>1. st'[c] = st[c] /\ payAt'[c] = payAt[c]
        BY <1>2, <3>1, ExecuteOne
      <4> QED BY <4>1 DEF MoneyInv
    <3>2. CASE c \in Due /\ Paid(c)
      <4>1. st'[c] = FoundPaid(c) /\ payAt'[c] = payAt[c]
        BY <1>2, <3>2, ExecuteOne
      <4>2. st'[c].status = "SELF_RECOVERED" /\ st'[c].acted = st[c].acted
        BY <1>1, <4>1, FoundPaidFields
      <4>3. payAt[c] # Never
        BY <1>1, <3>2 DEF Paid, Never
      <4> QED BY <4>1, <4>2, <4>3 DEF MoneyInv
    <3>3. CASE c \in Due /\ ~Paid(c)
      <4>1. PICK caused \in BOOLEAN : st'[c] = Acted(c, caused)
        BY <1>2, <3>3, ExecuteOne
      <4>2. /\ st'[c].status \in {st[c].status, "RECOVERED"}
            /\ st'[c].acted = st[c].acted \cup {st[c].pending.action}
        BY <1>1, <3>3, <4>1, ActedFields
      <4>3. payAt'[c] = payAt[c] \/ (payAt'[c] = Never /\ st[c].pending.action \in world[c].harms)
        BY <1>2, <3>3, ExecuteOne DEF Harmed
      <4> QED BY <4>2, <4>3 DEF MoneyInv
    <3> QED BY <3>1, <3>2, <3>3
  <2> QED BY <1>1, <2>1, <2>2 DEF MoneyInv
<1>3. CASE BookSelfPayments
  <2>1. step' = "decide" /\ UNCHANGED <<world, arm, t, payAt>>
    BY <1>3 DEF BookSelfPayments
  <2>2. ASSUME NEW c \in Cases
        PROVE  /\ st'[c].acted = st[c].acted
               /\ st'[c].status = "SELF_RECOVERED" => world[c].selfPayAt # Never
               /\ Open(c)' => ~Paid(c)
               /\ st'[c].status = "WRITTEN_OFF" => st[c].status = "WRITTEN_OFF"
    <3>1. /\ st'[c].acted = st[c].acted
          /\ st'[c].status = IF Open(c) /\ Paid(c) THEN "SELF_RECOVERED" ELSE st[c].status
      BY <1>1, <1>3, BookOne
    <3>2. Paid(c) => world[c].selfPayAt # Never
      BY <1>1 DEF MoneyInv, Paid, Never
    <3> QED BY <3>1, <3>2 DEF MoneyInv, Open
  <2>3. \A c \in Cases : Paid(c)' = Paid(c)
    BY <2>1 DEF Paid
  <2> QED BY <1>1, <2>1, <2>2, <2>3 DEF MoneyInv
<1>4. CASE DecideAll
  <2>1. /\ step = "decide" /\ t' = t + 60 /\ UNCHANGED <<world, arm, payAt, contacts>>
        /\ step' = IF t + 60 <= Horizon THEN "execute" ELSE "close"
    BY <1>4 DEF DecideAll
  <2>2. ASSUME NEW c \in Cases
        PROVE  st'[c].status = st[c].status /\ st'[c].acted = st[c].acted
    <3>1. CASE c \notin Awake
      BY <1>1, <1>4, <3>1, DecideOne
    <3>2. CASE c \in Awake
      <4>1. PICK w, d : SoundProposal(c, d) /\ st'[c] = Decided(c, d, w)
        BY <1>1, <1>4, <3>2, DecideOne
      <4>2. d \in [action : Decisions, at : Nat]
        BY <4>1 DEF SoundProposal
      <4> QED BY <1>1, <4>1, <4>2, DecidedFields
    <3> QED BY <3>1, <3>2
  <2>3. t' % 60 = 0 /\ (step' = "close" => t' > Horizon) /\ step' # "decide"
    BY <1>1, <2>1
  <2>4. \A c \in Cases : Open(c)' => payAt'[c] \notin 0..(t' - 60)
    <3>1. \A c \in Cases : Open(c) => payAt[c] \notin 0..t
      BY <2>1 DEF MoneyInv, Paid
    <3>2. t' - 60 = t
      BY <1>1, <2>1
    <3> QED BY <2>1, <2>2, <3>1, <3>2 DEF Open
  <2> QED BY <2>1, <2>2, <2>3, <2>4 DEF MoneyInv
<1>5. CASE CloseWindow
  <2>1. step = "close" /\ step' = "closed" /\ UNCHANGED <<world, arm, t, payAt>>
    BY <1>5 DEF CloseWindow
  <2>2. t - 60 >= Horizon
    <3>1. t > Horizon /\ t % 60 = 0
      BY <2>1 DEF MoneyInv
    <3>2. WindowHours + Slack \in Nat /\ Horizon = 60 * (WindowHours + Slack)
      BY SimAssumption, LimitsAreNatural DEF Horizon
    <3> QED BY <1>1, <3>1, <3>2
  <2>3. ASSUME NEW c \in Cases
        PROVE  /\ st'[c].acted = st[c].acted
               /\ st'[c].status = "SELF_RECOVERED" => st[c].status = "SELF_RECOVERED"
               /\ st'[c].status = "WRITTEN_OFF" =>
                    world[c].selfPayAt = Never \/ st[c].acted \cap world[c].harms # {}
    <3>1. /\ st'[c].acted = st[c].acted
          /\ st'[c].status = IF Open(c) THEN "WRITTEN_OFF" ELSE st[c].status
      BY <1>1, <1>5, CloseOne
    <3>2. CASE Open(c)
      <4>1. payAt[c] \notin 0..(t - 60)
        BY <2>1, <3>2 DEF MoneyInv
      <4>2. CASE payAt[c] = Never
        BY <3>1, <3>2, <4>2 DEF MoneyInv
      <4>3. CASE payAt[c] # Never
        <5>1. payAt[c] \in Nat /\ payAt[c] = world[c].selfPayAt /\ world[c].selfPayAt # Never
          BY <1>1, <4>3 DEF MoneyInv
        <5>2. /\ world \in Worlds /\ world[c].openedAt \in Nat
              /\ world[c].openedAt <= 60 * Slack
              /\ world[c].selfPayAt < world[c].openedAt + 60 * WindowHours
          <6>1. world \in Worlds /\ world[c].openedAt \in Nat
            BY <1>1, WorldType DEF TypeOK, WorldCases
          <6> QED BY <5>1, <6>1, SimAssumption
        <5>3. payAt[c] <= Horizon
          BY <5>1, <5>2, SimAssumption, LimitsAreNatural DEF Horizon
        <5>4. payAt[c] \in 0..(t - 60)
          BY <1>1, <2>2, <5>1, <5>3
        <5> QED BY <4>1, <5>4
      <4> QED BY <4>2, <4>3
    <3>3. CASE ~Open(c)
      BY <3>1, <3>3 DEF MoneyInv
    <3> QED BY <3>2, <3>3
  <2> QED BY <1>1, <2>1, <2>3 DEF MoneyInv
<1>6. CASE NextArm
  BY <1>1, <1>6, NextArmIsFirst DEF FirstInstant, MoneyInv, Open
<1>7. CASE UNCHANGED vars
  BY <1>7 DEF MoneyInv, Open, Paid, vars
<1> QED BY <1>2, <1>3, <1>4, <1>5, <1>6, <1>7 DEF Next

(* For every world generate() may hand in: no arm writes off a customer    *)
(* who would have paid by itself, unless the arm drove it away, and the    *)
(* arms before it have driven away nobody.                                 *)
THEOREM NoMoneyIsLost == Spec => []OrganicMoneyIsBooked
<1>1. MoneyInv => OrganicMoneyIsBooked
  BY DEF MoneyInv, OrganicMoneyIsBooked
<1> QED BY <1>1, InitIsFirst, TypeInitially, TypeStep, MoneyInitially, MoneyStep, PTL DEF Spec
=============================================================================
