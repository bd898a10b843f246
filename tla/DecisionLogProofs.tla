------------------------- MODULE DecisionLogProofs -------------------------
(***************************************************************************)
(* Proofs about the decision log: for every set of cases, windows the      *)
(* operator may set, answers of the posterior and instants of the worker's *)
(* passes, replay and the hours of contact hold as DecisionLog states them. *)
(***************************************************************************)
EXTENDS DecisionLog, EngineLemmas

LEMMA WindowOfType ==
  ASSUME NEW o \in Versions
  PROVE  WindowOf(o) \in Windows /\ WindowOf(o)[1] \in 0..23 /\ WindowOf(o)[2] \in 0..23
<1>1. Plain \in Windows
  BY PolicyAssumption DEF Plain, Windows
<1>2. o # <<>> => o \in Windows
  BY LogAssumption DEF Versions, Windows
<1>3. WindowOf(o) \in Windows
  BY <1>1, <1>2 DEF WindowOf
<1> QED BY <1>3 DEF Windows

(* What every snapshot of a case has in common.                            *)
LEMMA SnapshotFacts ==
  ASSUME NEW c, NEW at, NEW r, NEW n, NEW w
  PROVE  LET s == Snapshot(c, at, r, n, w)
         IN  s.promisedFor = 0 /\ s.rung = r /\ s.contacts = n /\ s.mandate = FALSE
BY DEF Snapshot

(* An engine decision to write to somebody is for the instant timing.when  *)
(* names.                                                                  *)
LEMMA EngineWritesByDay ==
  ASSUME NEW s, ~(s.promisedFor > 0), NEW worth, NEW at \in Nat,
         NEW start \in 0..23, NEW end \in 0..23,
         EngineDecide(s, worth, at, start, end).action \in ContactActions
  PROVE  LET d == EngineDecide(s, worth, at, start, end)
         IN  d.at \in Nat /\ d.at > at /\ ~InQuietHours(d.at, start, end)
<1> DEFINE d == EngineDecide(s, worth, at, start, end)
           a == Decide(s, worth)
           g == RunGates(s)
           x == ContactAt(at, BaseDelay[a], start, end)
<1>1. d.action = a
  BY DEF EngineDecide, Decision
<1>2. a \in ContactActions
  BY <1>1
<1>3. ~(g.stop # "none") /\ ~(g.waitFor > 0)
  BY <1>2, DecideType DEF ContactActions
<1>4. d = IF g.stop # "none" THEN Decision(a, at)
          ELSE IF g.waitFor > 0 THEN Decision(a, at + g.waitFor)
          ELSE IF a \in ContactActions THEN Decision(a, x)
          ELSE Decision(a, at + BaseDelay[a])
  BY DEF EngineDecide
<1> HIDE DEF d, a, g, x
<1>5. d.at = x
  BY <1>2, <1>3, <1>4 DEF Decision
<1>6. BaseDelay[a] \in Nat /\ BaseDelay[a] > 0
  BY <1>2 DEF BaseDelay, ContactActions
<1>7. x \in Nat /\ ~InQuietHours(x, start, end) /\ at + BaseDelay[a] <= x
  BY <1>6, ScheduledByDay DEF x
<1> QED BY <1>5, <1>6, <1>7 DEF d

-----------------------------------------------------------------------------
(* Types, and what is queued.                                              *)
LEMMA ContactsType ==
  ASSUME TypeOK, NEW c PROVE Contacts(c) \in Nat
<1>1. {m \in sent : m.case = c} \in SUBSET sent /\ IsFiniteSet(sent)
  BY DEF TypeOK
<1> QED BY <1>1, FS_Subset, FS_CardinalityType DEF Contacts

LEMMA ReasonType ==
  ASSUME NEW s, NEW worth PROVE ReasonFor(s, worth) \in Reasons
<1>1. RunGates(s).stop \in Reasons
  <2> DEFINE open == [stop |-> "none", terminal |-> "NONE", blocked |-> Blocked(s),
                      waitFor |-> WaitFor(s)]
             held == [stop |-> "none", terminal |-> "NONE", blocked |-> Actions,
                      waitFor |-> s.promisedFor]
  <2>1. RunGates(s) \in {Stop("CONTROL_ARM", "NONE"), Stop("ALREADY_SETTLED", "NONE"), held,
                        Stop("RISK_BLOCK", "NONE"), Stop("OPTED_OUT", "NONE"),
                        Stop("WINDOW_EXPIRED", "WRITE_OFF"), Stop("LADDER_TOP", "WRITE_OFF"), open}
    BY DEF RunGates
  <2> QED BY <2>1 DEF Stop, Reasons
<1> QED BY <1>1 DEF ReasonFor, Reasons

LEMMA StoredType ==
  ASSUME NEW p \in Nat
  PROVE  Stored(p) \in Nat /\ Stored(p) - p \in -5..5
<1> DEFINE q == (p + 5) \div 10
<1>1. q \in Nat
  OBVIOUS
<1>2. 10 * q <= p + 5 /\ p + 5 < 10 * q + 10
  OBVIOUS
<1>3. Stored(p) = q * 10
  BY DEF Stored
<1> HIDE DEF q
<1> QED BY <1>1, <1>2, <1>3

(* A row carries what its decision was made of.                            *)
LEMMA RowType ==
  ASSUME TypeOK, NEW c \in Cases, NEW draw \in Draws
  PROVE  Row(c, Snapshot(c, now, rung[c], Contacts(c), WindowOf(overlay)), draw, overlay) \in Rows
<1> DEFINE s == Snapshot(c, now, rung[c], Contacts(c), WindowOf(overlay))
           r == Row(c, s, draw, overlay)
<1>1. now \in Nat /\ rung[c] \in 0..6 /\ overlay \in Versions /\ Contacts(c) \in Nat
  BY ContactsType DEF TypeOK
<1>2. s.promisedFor = 0 /\ s.rung = rung[c] /\ s.contacts = Contacts(c)
  BY DEF Snapshot
<1> HIDE DEF s
<1>3. Decide(s, Worth(draw)) \in Decisions
  BY <1>2, DecideType
<1>4. ReasonFor(s, Worth(draw)) \in Reasons
  BY ReasonType
<1>5. (IF Scored(s) THEN <<Stored(draw[1]), Stored(draw[2])>> ELSE <<>>) \in {<<>>} \cup (Nat \X Nat)
  <2>1. draw[1] \in Nat /\ draw[2] \in Nat
    <3>1. draw \in (0..Whole) \X (0..Whole)
      BY LogAssumption
    <3>2. draw[1] \in 0..Whole /\ draw[2] \in 0..Whole
      BY <3>1
    <3>3. Whole \in Nat
      BY DEF Whole
    <3> QED BY <3>2, <3>3
  <2>2. Stored(draw[1]) \in Nat /\ Stored(draw[2]) \in Nat
    BY <2>1, StoredType
  <2> QED BY <2>2
<1>6. VersionOf(overlay) \in Versions
  BY <1>1 DEF VersionOf
<1>7. r = [case |-> c, at |-> now, action |-> Decide(s, Worth(draw)),
           reason |-> ReasonFor(s, Worth(draw)), version |-> VersionOf(overlay),
           rung |-> s.rung, contacts |-> s.contacts, draw |-> draw,
           candidates |-> IF Scored(s) THEN <<Stored(draw[1]), Stored(draw[2])>> ELSE <<>>]
  BY DEF Row
<1> HIDE DEF r
<1>8. r \in Rows
  BY <1>1, <1>2, <1>3, <1>4, <1>5, <1>6, <1>7 DEF Rows
<1> QED BY <1>8 DEF r, s

LEMMA Division ==
  ASSUME NEW n \in Nat, NEW k \in Nat \ {0}
  PROVE  n \div k \in Nat
OBVIOUS

LEMMA ScaledType ==
  ASSUME TypeOK, NEW at \in Nat
  PROVE  Scaled(at) \in Nat /\ (scale = 1 /\ at > now => Scaled(at) = at)
<1>1. now \in Nat /\ scale \in Nat \ {0}
  BY LogAssumption DEF TypeOK
<1>2. CASE at > now
  <2>1. at - now \in Nat /\ (at - now) \div scale \in Nat
    BY <1>1, <1>2, Division
  <2>2. Scaled(at) = now + (at - now) \div scale
    BY <1>2 DEF Scaled
  <2>3. scale = 1 => (at - now) \div scale = at - now
    BY <1>1, <2>1
  <2> QED BY <1>1, <2>1, <2>2, <2>3
<1>3. CASE ~(at > now)
  <2>1. Scaled(at) = now
    BY <1>3 DEF Scaled
  <2> QED BY <1>1, <1>3, <2>1
<1> QED BY <1>2, <1>3

(* One decision: the row it writes, and the action it queues or does not.  *)
LEMMA DecideOne ==
  ASSUME TypeOK, NEW c \in Cases, DecideCase(c)
  PROVE  \E draw \in Draws :
           LET window == WindowOf(overlay)
               s   == Snapshot(c, now, rung[c], Contacts(c), window)
               row == Row(c, s, draw, overlay)
           IN  /\ row \in Rows /\ log' = Append(log, row)
               /\ closed' \in {closed, closed \cup {c}} /\ spared' \in Nat
               /\ \/ UNCHANGED <<queue, rung>>
                  \/ \E q \in Queued :
                       /\ q.window = window
                       /\ scale = 1 => ~InQuietHours(q.at, window[1], window[2])
                       /\ queue' = [queue EXCEPT ![c] = q]
                       /\ rung' = [rung EXCEPT ![c] = Climbed(q.action, @)]
<1> DEFINE window == WindowOf(overlay)
           s      == Snapshot(c, now, rung[c], Contacts(c), window)
           row(x) == Row(c, s, x, overlay)
           d(x)   == EngineDecide(s, Worth(x), now, window[1], window[2])
           q(x)   == [action |-> d(x).action, at |-> Scaled(d(x).at), window |-> window]
<1>1. PICK draw \in Draws :
        /\ spared' = IF row(draw).reason = "EV_NEGATIVE" THEN spared + 1 ELSE spared
        /\ log' = Append(log, row(draw))
        /\ closed' = IF d(draw).action \in Terminal THEN closed \cup {c} ELSE closed
        /\ IF d(draw).action \in ContactActions \ Terminal
           THEN queue' = [queue EXCEPT ![c] = q(draw)]
                /\ rung' = [rung EXCEPT ![c] = Climbed(d(draw).action, @)]
           ELSE UNCHANGED <<queue, rung>>
  BY DEF DecideCase
<1>2. now \in Nat /\ spared \in Nat /\ overlay \in Versions
  BY DEF TypeOK
<1>3. window \in Windows /\ window[1] \in 0..23 /\ window[2] \in 0..23
  BY <1>2, WindowOfType
<1>4. ~(s.promisedFor > 0)
  <2>1. s.promisedFor = 0
    BY DEF Snapshot
  <2> HIDE DEF s
  <2> QED BY <2>1
<1>5. row(draw) \in Rows
  BY RowType
<1> HIDE DEF window, s, row, d
<1>6. ASSUME d(draw).action \in ContactActions \ Terminal
      PROVE  /\ q(draw) \in Queued /\ q(draw).window = window /\ q(draw).action = d(draw).action
             /\ scale = 1 => ~InQuietHours(q(draw).at, window[1], window[2])
  <2>1. d(draw).at \in Nat /\ d(draw).at > now /\ ~InQuietHours(d(draw).at, window[1], window[2])
    BY <1>2, <1>3, <1>4, <1>6, EngineWritesByDay DEF d
  <2>2. Scaled(d(draw).at) \in Nat /\ (scale = 1 => Scaled(d(draw).at) = d(draw).at)
    BY <2>1, ScaledType
  <2> QED BY <1>3, <1>6, <2>1, <2>2 DEF Queued
<1> HIDE DEF q
<1>7. spared' \in Nat /\ closed' \in {closed, closed \cup {c}}
  BY <1>1, <1>2
<1>8. CASE d(draw).action \in ContactActions \ Terminal
  BY <1>1, <1>5, <1>6, <1>7, <1>8 DEF window, s, row
<1>9. CASE d(draw).action \notin ContactActions \ Terminal
  BY <1>1, <1>5, <1>7, <1>9 DEF window, s, row
<1> QED BY <1>8, <1>9

LEMMA LoadType ==
  ASSUME NEW known, NEW o
  PROVE  /\ DOMAIN Load(known, o) = DOMAIN known \cup {o}
         /\ \A v \in DOMAIN Load(known, o) : Load(known, o)[v] = IF v = o THEN WindowOf(o) ELSE known[v]
BY DEF Load, VersionOf

LEMMA ConfigForType ==
  ASSUME NEW known, NEW o
  PROVE  /\ DOMAIN ConfigFor(known, o) = DOMAIN known \cup {<<>>, o}
         /\ \A v \in DOMAIN ConfigFor(known, o) :
              ConfigFor(known, o)[v] = IF v = o THEN WindowOf(o)
                                       ELSE IF v = <<>> THEN Plain ELSE known[v]
<1> DEFINE first == Load(known, <<>>)
<1>1. /\ DOMAIN first = DOMAIN known \cup {<<>>}
      /\ \A v \in DOMAIN first : first[v] = IF v = <<>> THEN Plain ELSE known[v]
  BY LoadType DEF WindowOf
<1> HIDE DEF first
<1>2. /\ DOMAIN Load(first, o) = DOMAIN first \cup {o}
      /\ \A v \in DOMAIN Load(first, o) : Load(first, o)[v] = IF v = o THEN WindowOf(o) ELSE first[v]
  BY LoadType
<1> QED BY <1>1, <1>2 DEF ConfigFor, first

(* What a decision was made of is what its row says.                       *)
SnapshotOfRow(row) == Snapshot(row.case, row.at, row.rung, row.contacts, WindowOf(row.version))

RowTells(row) ==
  LET s == SnapshotOfRow(row)
  IN  /\ row.action = Decide(s, Worth(row.draw))
      /\ row.candidates = IF Scored(s) THEN <<Stored(row.draw[1]), Stored(row.draw[2])>> ELSE <<>>

(* The inductive invariant: the process keeps versions as they were loaded *)
(* and forgets them only by stopping; rows tell the truth; and without     *)
(* TIME_SCALE nothing is queued for the night of the hours it was queued   *)
(* under.                                                                  *)
LogInv ==
  /\ TypeOK
  /\ \A v \in DOMAIN cache : cache[v] = WindowOf(v)
  /\ ~up => stops > 0
  /\ \A i \in DOMAIN log : /\ RowTells(log[i])
                           /\ stops = 0 => log[i].version \in DOMAIN cache
  /\ \A c \in Cases : scale = 1 /\ queue[c] # Idle =>
       ~InQuietHours(queue[c].at, queue[c].window[1], queue[c].window[2])
  /\ NightMessageExplained

LEMMA LogInitially == Init => LogInv
<1> SUFFICES ASSUME Init PROVE LogInv
  OBVIOUS
<1>1. /\ DOMAIN cache = {<<>>} /\ \A v \in DOMAIN cache : cache[v] = WindowOf(v)
  <2>1. /\ DOMAIN cache = DOMAIN <<>> \cup {<<>>}
        /\ \A v \in DOMAIN cache : cache[v] = IF v = <<>> THEN WindowOf(<<>>) ELSE <<>>[v]
    BY LoadType DEF Init
  <2>2. DOMAIN <<>> = {}
    OBVIOUS
  <2> QED BY <2>1, <2>2
<1>2. /\ now = 0 /\ scale \in TimeScales /\ up = TRUE /\ overlay \in Versions
      /\ rung = [c \in Cases |-> 0] /\ closed = {} /\ queue = [c \in Cases |-> Idle]
      /\ log = <<>> /\ sent = {} /\ spared = 0 /\ moves = 0 /\ stops = 0
      /\ todo \subseteq Cases
  BY DEF Init
<1>3. TypeOK
  <2>1. log \in Seq(Rows) /\ IsFiniteSet(sent)
    BY <1>2, FS_EmptySet
  <2> QED BY <1>1, <1>2, <2>1 DEF TypeOK, Versions
<1>4. DOMAIN log = {} /\ \A c \in Cases : queue[c] = Idle
  BY <1>2
<1> QED BY <1>1, <1>2, <1>3, <1>4 DEF LogInv, NightMessageExplained

LEMMA DecidePreserves ==
  ASSUME LogInv, NEW c \in Cases, DecideCase(c)
  PROVE  LogInv'
<1> DEFINE window == WindowOf(overlay)
           s      == Snapshot(c, now, rung[c], Contacts(c), window)
           row(x) == Row(c, s, x, overlay)
<1>1. /\ TypeOK /\ up /\ todo' = todo \ {c} /\ cache' = ConfigFor(cache, overlay)
      /\ UNCHANGED <<now, scale, up, overlay, sent, moves, stops>>
  BY DEF LogInv, DecideCase
<1>2. PICK draw \in Draws :
        /\ row(draw) \in Rows /\ log' = Append(log, row(draw))
        /\ closed' \in {closed, closed \cup {c}} /\ spared' \in Nat
        /\ \/ UNCHANGED <<queue, rung>>
           \/ \E q \in Queued :
                /\ q.window = window
                /\ scale = 1 => ~InQuietHours(q.at, window[1], window[2])
                /\ queue' = [queue EXCEPT ![c] = q]
                /\ rung' = [rung EXCEPT ![c] = Climbed(q.action, @)]
  BY <1>1, DecideOne
<1>3. RowTells(row(draw)) /\ row(draw).version = overlay
  <2> DEFINE r == row(draw)
  <2>1. /\ r.case = c /\ r.at = now /\ r.rung = s.rung /\ r.contacts = s.contacts
        /\ r.version = overlay /\ r.draw = draw /\ r.action = Decide(s, Worth(draw))
        /\ r.candidates = IF Scored(s) THEN <<Stored(draw[1]), Stored(draw[2])>> ELSE <<>>
    BY DEF Row, VersionOf
  <2>2. s.rung = rung[c] /\ s.contacts = Contacts(c)
    BY DEF Snapshot
  <2> HIDE DEF r
  <2>3. SnapshotOfRow(r) = s
    BY <2>1, <2>2 DEF SnapshotOfRow
  <2> HIDE DEF s
  <2>4. RowTells(r) /\ r.version = overlay
    BY <2>1, <2>3 DEF RowTells
  <2> QED BY <2>4 DEF r
<1> HIDE DEF row, s, window
<1>4. /\ DOMAIN cache' = DOMAIN cache \cup {<<>>, overlay}
      /\ \A v \in DOMAIN cache' : cache'[v] = WindowOf(v)
  <2>1. /\ DOMAIN cache' = DOMAIN cache \cup {<<>>, overlay}
        /\ \A v \in DOMAIN cache' : cache'[v] = IF v = overlay THEN WindowOf(overlay)
                                       ELSE IF v = <<>> THEN Plain ELSE cache[v]
    <3>1. /\ DOMAIN ConfigFor(cache, overlay) = DOMAIN cache \cup {<<>>, overlay}
          /\ \A v \in DOMAIN ConfigFor(cache, overlay) :
               ConfigFor(cache, overlay)[v] = IF v = overlay THEN WindowOf(overlay)
                                       ELSE IF v = <<>> THEN Plain ELSE cache[v]
      BY ConfigForType
    <3>2. cache' = ConfigFor(cache, overlay)
      BY <1>1
    <3> QED BY <3>1, <3>2
  <2> QED BY <2>1 DEF LogInv, WindowOf
<1>5. log \in Seq(Rows) /\ log' \in Seq(Rows) /\ Len(log') = Len(log) + 1
      /\ log'[Len(log')] = row(draw) /\ \A i \in 1..Len(log) : log'[i] = log[i]
  BY <1>1, <1>2 DEF TypeOK
<1>6. \A i \in DOMAIN log' : /\ RowTells(log'[i])
                             /\ stops' = 0 => log'[i].version \in DOMAIN cache'
  <2> SUFFICES ASSUME NEW i \in 1..Len(log')
               PROVE  RowTells(log'[i]) /\ (stops = 0 => log'[i].version \in DOMAIN cache')
    BY <1>1, <1>5
  <2>1. CASE i = Len(log')
    BY <1>3, <1>4, <1>5, <2>1
  <2>2. CASE i # Len(log')
    <3>1. i \in DOMAIN log /\ log'[i] = log[i]
      BY <1>5, <2>2
    <3>2. RowTells(log[i]) /\ (stops = 0 => log[i].version \in DOMAIN cache)
      BY <3>1 DEF LogInv
    <3> QED BY <1>4, <3>1, <3>2
  <2> QED BY <2>1, <2>2
<1>7. /\ queue' \in [Cases -> {Idle} \cup Queued] /\ rung' \in [Cases -> 0..6]
      /\ \A b \in Cases : scale' = 1 /\ queue'[b] # Idle =>
           ~InQuietHours(queue'[b].at, queue'[b].window[1], queue'[b].window[2])
  <2>1. /\ queue \in [Cases -> {Idle} \cup Queued] /\ rung \in [Cases -> 0..6]
        /\ \A b \in Cases : scale = 1 /\ queue[b] # Idle =>
             ~InQuietHours(queue[b].at, queue[b].window[1], queue[b].window[2])
    BY DEF LogInv, TypeOK
  <2>2. CASE UNCHANGED <<queue, rung>>
    BY <1>1, <2>1, <2>2
  <2>3. ASSUME NEW q \in Queued, q.window = window,
               scale = 1 => ~InQuietHours(q.at, window[1], window[2]),
               queue' = [queue EXCEPT ![c] = q],
               rung' = [rung EXCEPT ![c] = Climbed(q.action, @)]
        PROVE  /\ queue' \in [Cases -> {Idle} \cup Queued] /\ rung' \in [Cases -> 0..6]
               /\ \A b \in Cases : scale' = 1 /\ queue'[b] # Idle =>
                    ~InQuietHours(queue'[b].at, queue'[b].window[1], queue'[b].window[2])
    <3>1. Climbed(q.action, rung[c]) \in 0..6
      BY <2>1 DEF Queued, Climbed, RungOf, ContactActions
    <3> QED BY <1>1, <2>1, <2>3, <3>1
  <2> QED BY <1>2, <2>2, <2>3
<1>8. TypeOK'
  <2>1. DOMAIN cache' \subseteq Versions
    BY <1>1, <1>4 DEF TypeOK, Versions
  <2> QED BY <1>1, <1>2, <1>5, <1>7, <2>1 DEF TypeOK
<1>9. NightMessageExplained' /\ (~up' => stops' > 0)
  BY <1>1 DEF LogInv, NightMessageExplained
<1> QED BY <1>4, <1>6, <1>7, <1>8, <1>9 DEF LogInv

LEMMA ExecutePreserves ==
  ASSUME LogInv, NEW c \in Cases, ExecuteDue(c)
  PROVE  LogInv'
<1> DEFINE m == [case |-> c, at |-> now, due |-> queue[c].at,
                 by |-> queue[c].window, window |-> WindowOf(overlay)]
<1>1. /\ TypeOK /\ queue[c] # Idle /\ queue[c].at <= now
      /\ sent' = sent \cup {m} /\ queue' = [queue EXCEPT ![c] = Idle]
      /\ UNCHANGED <<now, scale, up, todo, cache, overlay, rung, closed, log, spared, moves, stops>>
  BY DEF LogInv, ExecuteDue, IsDue
<1>2. queue[c] \in Queued /\ now \in Nat /\ overlay \in Versions /\ scale \in Nat \ {0}
  BY <1>1, LogAssumption DEF TypeOK
<1>3. m \in Messages
  BY <1>2, WindowOfType DEF Messages, Queued
<1>4. TypeOK'
  <2>1. IsFiniteSet(sent')
    BY <1>1, FS_AddElement DEF TypeOK
  <2> HIDE DEF m
  <2> QED BY <1>1, <1>3, <2>1 DEF TypeOK
<1>5. NightMessageExplained'
  <2> SUFFICES ASSUME InQuietHours(m.at, m.window[1], m.window[2]), m.by = m.window,
                      ~(m.at > m.due), ~(scale > 1)
               PROVE  FALSE
    BY <1>1 DEF LogInv, NightMessageExplained
  <2>1. scale = 1 /\ queue[c].at = now
    BY <1>1, <1>2 DEF Queued
  <2>2. ~InQuietHours(queue[c].at, queue[c].window[1], queue[c].window[2])
    BY <1>1, <2>1 DEF LogInv
  <2> QED BY <2>1, <2>2
<1>6. \A b \in Cases : scale' = 1 /\ queue'[b] # Idle =>
        ~InQuietHours(queue'[b].at, queue'[b].window[1], queue'[b].window[2])
  BY <1>1 DEF LogInv, TypeOK
<1> HIDE DEF m
<1> QED BY <1>1, <1>4, <1>5, <1>6 DEF LogInv

LEMMA LogStep == LogInv /\ [Next]_vars => LogInv'
<1> SUFFICES ASSUME LogInv, [Next]_vars PROVE LogInv'
  OBVIOUS
<1>1. TypeOK
  BY DEF LogInv
<1>2. ASSUME NEW c \in Cases, DecideCase(c) PROVE LogInv'
  BY <1>2, DecidePreserves
<1>3. ASSUME NEW c \in Cases, ExecuteDue(c) PROVE LogInv'
  BY <1>3, ExecutePreserves
<1>4. CASE MoveWindow
  <2>1. PICK o \in Versions : overlay' = o /\ cache' = ConfigFor(cache, o)
    BY <1>4 DEF MoveWindow
  <2>2. /\ moves' = moves + 1
        /\ UNCHANGED <<now, scale, up, todo, rung, closed, queue, log, sent, spared, stops>>
    BY <1>4 DEF MoveWindow
  <2>3. /\ DOMAIN cache' = DOMAIN cache \cup {<<>>, o}
        /\ \A v \in DOMAIN cache' : cache'[v] = IF v = o THEN WindowOf(o)
                                       ELSE IF v = <<>> THEN Plain ELSE cache[v]
    <3>1. /\ DOMAIN ConfigFor(cache, o) = DOMAIN cache \cup {<<>>, o}
          /\ \A v \in DOMAIN ConfigFor(cache, o) :
               ConfigFor(cache, o)[v] = IF v = o THEN WindowOf(o)
                                       ELSE IF v = <<>> THEN Plain ELSE cache[v]
      BY ConfigForType
    <3>2. cache' = ConfigFor(cache, o)
      BY <2>1
    <3> QED BY <3>1, <3>2
  <2>4. \A v \in DOMAIN cache' : cache'[v] = WindowOf(v)
    BY <2>3 DEF LogInv, WindowOf
  <2>5. TypeOK'
    BY <1>1, <2>1, <2>2, <2>3 DEF TypeOK, Versions
  <2> QED BY <2>2, <2>3, <2>4, <2>5 DEF LogInv, NightMessageExplained
<1>5. CASE StopProcess
  <2>1. /\ stops' = stops + 1 /\ up' = FALSE /\ todo' = {} /\ cache' = <<>>
        /\ UNCHANGED <<now, scale, overlay, rung, closed, queue, log, sent, spared, moves>>
    BY <1>5 DEF StopProcess
  <2>2. DOMAIN cache' = {}
    BY <2>1
  <2>3. stops' > 0
    BY <1>1, <2>1 DEF TypeOK
  <2>4. TypeOK'
    <3>1. stops' \in Nat /\ todo' \subseteq Cases
      BY <1>1, <2>1 DEF TypeOK
    <3>2. DOMAIN cache' \subseteq Versions
      BY <2>2
    <3>3. up' \in BOOLEAN
      BY <2>1
    <3> QED BY <1>1, <2>1, <3>1, <3>2, <3>3 DEF TypeOK
  <2> QED BY <2>1, <2>2, <2>3, <2>4 DEF LogInv, NightMessageExplained
<1>6. CASE StartProcess
  <2>1. /\ ~up /\ up' = TRUE /\ cache' = Load(<<>>, <<>>) /\ todo' = OpenIdle(now)
        /\ UNCHANGED <<now, scale, overlay, rung, closed, queue, log, sent, spared, moves, stops>>
    BY <1>6 DEF StartProcess
  <2>2. DOMAIN cache' = {<<>>} /\ \A v \in DOMAIN cache' : cache'[v] = WindowOf(v)
    <3>1. /\ DOMAIN cache' = DOMAIN <<>> \cup {<<>>}
          /\ \A v \in DOMAIN cache' : cache'[v] = IF v = <<>> THEN WindowOf(<<>>) ELSE <<>>[v]
      BY <2>1, LoadType
    <3>2. DOMAIN <<>> = {}
      OBVIOUS
    <3> QED BY <3>1, <3>2
  <2>3. stops > 0
    BY <2>1 DEF LogInv
  <2>4. TypeOK'
    BY <1>1, <2>1, <2>2 DEF TypeOK, Versions, OpenIdle
  <2> QED BY <2>1, <2>2, <2>3, <2>4 DEF LogInv, NightMessageExplained
<1>7. CASE Advance
  <2>1. /\ Coming # {} /\ now' = Least(Coming) /\ todo' \in {OpenIdle(now'), {}}
        /\ UNCHANGED <<scale, up, cache, overlay, rung, closed, queue, log, sent, spared, moves,
                       stops>>
    BY <1>7 DEF Advance
  <2>2. Coming \in SUBSET Nat
    <3>1. \A c \in Cases : queue[c].at \in Nat
      BY <1>1 DEF TypeOK, Queued, Idle
    <3>2. Looks \subseteq Nat
      BY LogAssumption
    <3> QED BY <3>1, <3>2 DEF Coming
  <2>3. now' \in Nat
    <3>1. \E x \in Coming : \A y \in Coming : x <= y
      BY <2>1, <2>2, LeastExists
    <3> HIDE DEF Coming
    <3> QED BY <2>1, <2>2, <3>1 DEF Least
  <2>4. TypeOK'
    BY <1>1, <2>1, <2>3 DEF TypeOK, OpenIdle
  <2> QED BY <2>1, <2>4 DEF LogInv, NightMessageExplained
<1>8. CASE UNCHANGED vars
  BY <1>8 DEF LogInv, TypeOK, NightMessageExplained, vars
<1> QED BY <1>2, <1>3, <1>4, <1>5, <1>6, <1>7, <1>8 DEF Next

LEMMA LogInvHolds == Spec => []LogInv
BY LogInitially, LogStep, PTL DEF Spec

-----------------------------------------------------------------------------
(* Whatever hours the operator sets, next_contact_window names the first   *)
(* legal minute.                                                           *)
THEOREM WindowAlwaysFirstLegal == Spec => []NextWindowIsFirstLegal
<1>1. LogInv => NextWindowIsFirstLegal
  <2> SUFFICES ASSUME LogInv PROVE NextWindowIsFirstLegal
    OBVIOUS
  <2>1. now \in Nat /\ overlay \in Versions
    BY DEF LogInv, TypeOK
  <2> DEFINE w == WindowOf(overlay)
  <2>2. w[1] \in 0..23 /\ w[2] \in 0..23
    BY <2>1, WindowOfType
  <2> HIDE DEF w
  <2>3. FirstLegal(now, w[1], w[2])
    BY <2>1, <2>2, WindowIsFirstLegal
  <2> QED BY <2>3 DEF NextWindowIsFirstLegal, w
<1> QED BY <1>1, LogInvHolds, PTL

(* A message at night has one of the three causes.                         *)
THEOREM NightMessagesExplained == Spec => []NightMessageExplained
<1>1. LogInv => NightMessageExplained
  BY DEF LogInv
<1> QED BY <1>1, LogInvHolds, PTL

-----------------------------------------------------------------------------
(* A decision that scored nothing is the same whatever it is worth.        *)
LEMMA UnscoredIgnoresWorth ==
  ASSUME NEW s, s.promisedFor = 0, WaitFor(s) \in Nat, ~Scored(s), NEW v, NEW w
  PROVE  Decide(s, v) = Decide(s, w)
<1> DEFINE g    == RunGates(s)
           next == LegalNextRungs(s, g.blocked)
<1>1. \A x : Decide(s, x) = IF g.stop # "none" THEN g.terminal
                           ELSE IF g.waitFor > 0 \/ next = {} \/ ~x THEN "WAIT"
                           ELSE CHOOSE a \in next : TRUE
  BY DEF Decide
<1>2. ~(g.stop = "none" /\ g.waitFor = 0 /\ next # {})
  BY DEF Scored
<1>3. g.stop = "none" => g.waitFor \in Nat
  BY OpenGates
<1> HIDE DEF g, next
<1>4. g.stop # "none" \/ g.waitFor > 0 \/ next = {}
  BY <1>2, <1>3
<1> QED BY <1>1, <1>4

LEMMA Product ==
  ASSUME NEW a \in Nat, NEW b \in Nat
  PROVE  a * b \in Nat
OBVIOUS

LEMMA SmallMultiple ==
  ASSUME NEW k \in -10..10, NEW r \in Nat
  PROVE  -10 * r <= k * r /\ k * r <= 10 * r
<1>1. (10 - k) * r \in Nat /\ (k + 10) * r \in Nat
  <2>1. 10 - k \in Nat /\ k + 10 \in Nat
    OBVIOUS
  <2> QED BY <2>1, Product
<1>2. (10 - k) * r = 10 * r - k * r /\ (k + 10) * r = k * r + 10 * r
  OBVIOUS
<1>3. k * r \in Int
  OBVIOUS
<1> QED BY <1>1, <1>2, <1>3

(* The stored probabilities put a decision on the other side only when it  *)
(* was closer than their rounding.                                         *)
LEMMA RoundingIsSmall ==
  ASSUME NEW draw \in Draws,
         Worth(<<Stored(draw[1]), Stored(draw[2])>>) # Worth(draw)
  PROVE  (draw[1] - draw[2]) * Remaining - Burden * Whole \in (-10 * Remaining)..(10 * Remaining)
<1> DEFINE a == draw[1]
           b == draw[2]
           x == Stored(a)
           y == Stored(b)
           k == (x - y) - (a - b)
           cost == Burden * Whole
           P == (a - b) * Remaining
           Q == (x - y) * Remaining
<1>1. a \in Nat /\ b \in Nat
  <2>1. draw \in (0..Whole) \X (0..Whole)
    BY LogAssumption
  <2>2. draw[1] \in 0..Whole /\ draw[2] \in 0..Whole
    BY <2>1
  <2>3. Whole \in Nat
    BY DEF Whole
  <2> QED BY <2>2, <2>3
<1>2. Remaining \in Nat /\ cost \in Nat
  <2>1. Remaining \in Nat /\ Burden \in Nat
    BY LogAssumption
  <2>2. Whole \in Nat
    BY DEF Whole
  <2> QED BY <2>1, <2>2, Product
<1>3. x \in Nat /\ y \in Nat /\ x - a \in -5..5 /\ y - b \in -5..5
  BY <1>1, StoredType
<1>4. Worth(draw) = (P - cost > 0) /\ Worth(<<x, y>>) = (Q - cost > 0)
  BY DEF Worth
<1>5. (P - cost > 0) # (Q - cost > 0)
  BY <1>4
<1> HIDE DEF a, b, x, y, cost
<1>6. k \in -10..10
  BY <1>1, <1>3
<1>7. Q = P + k * Remaining /\ P \in Int /\ Q \in Int
  BY <1>1, <1>2, <1>3
<1>8. -10 * Remaining <= k * Remaining /\ k * Remaining <= 10 * Remaining
  <2> HIDE DEF k
  <2> QED BY <1>2, <1>6, SmallMultiple
<1> HIDE DEF P, Q
<1>9. k * Remaining \in Int
  BY <1>2, <1>6
<1> DEFINE j == k * Remaining
<1> HIDE DEF j
<1>10. P - cost \in (-10 * Remaining)..(10 * Remaining)
  <2>1. /\ j \in Int /\ Q = P + j /\ -10 * Remaining <= j /\ j <= 10 * Remaining
    BY <1>7, <1>8, <1>9 DEF j
  <2>2. P - cost > 0 => P - cost <= 10 * Remaining
    BY <1>2, <1>5, <1>7, <2>1
  <2>3. ~(P - cost > 0) => P - cost >= -10 * Remaining
    BY <1>2, <1>5, <1>7, <2>1
  <2> QED BY <1>2, <1>7, <2>2, <2>3
<1> QED BY <1>10 DEF P, a, b, cost

(* Replay answers what the worker decided, for every operator, posterior   *)
(* and merchant: but for a version forgotten by a stop, and for a decision *)
(* closer than the rounding.                                               *)
THEOREM ReplayTellsTheTruth == Spec => []ReplayFaithful
<1>1. LogInv => ReplayFaithful
  <2> SUFFICES ASSUME LogInv, NEW i \in DOMAIN log, Replay(log[i]) # log[i].action,
                      ~(log[i].version \notin DOMAIN cache /\ stops > 0)
               PROVE  /\ log[i].candidates # <<>>
                      /\ (log[i].draw[1] - log[i].draw[2]) * Remaining - Burden * Whole
                           \in (-10 * Remaining)..(10 * Remaining)
    BY DEF ReplayFaithful
  <2> DEFINE row == log[i]
             s   == SnapshotOfRow(row)
  <2>1. row \in Rows /\ RowTells(row)
    BY DEF LogInv, TypeOK
  <2>2. row.version \in DOMAIN cache
    <3>1. stops = 0 => row.version \in DOMAIN cache
      BY DEF LogInv
    <3>2. stops \in Nat
      BY DEF LogInv, TypeOK
    <3> QED BY <3>1, <3>2
  <2>3. VersionWindow(cache, row.version) = WindowOf(row.version)
    BY <2>2 DEF LogInv, VersionWindow
  <2> DEFINE draw == Recalled(row)
  <2>4. Replay(row) = Decide(s, Worth(draw))
    BY <2>3 DEF Replay, SnapshotOfRow
  <2>5. /\ row.action = Decide(s, Worth(row.draw))
        /\ row.candidates = IF Scored(s) THEN <<Stored(row.draw[1]), Stored(row.draw[2])>> ELSE <<>>
    BY <2>1 DEF RowTells
  <2>6. row.draw \in Draws /\ row.at \in Nat /\ row.version \in Versions
    BY <2>1 DEF Rows
  <2>7. s.promisedFor = 0 /\ WaitFor(s) \in Nat
    <3> DEFINE w == WindowOf(row.version)
    <3>1. w[1] \in 0..23 /\ w[2] \in 0..23
      BY <2>6, WindowOfType
    <3>2. /\ s.promisedFor = 0 /\ s.down = FALSE
          /\ s.quietFor = NextContactWindow(row.at, w[1], w[2]) - row.at
      BY DEF SnapshotOfRow, Snapshot
    <3> HIDE DEF w, s, row
    <3>3. /\ NextContactWindow(row.at, w[1], w[2]) \in Nat
          /\ row.at <= NextContactWindow(row.at, w[1], w[2])
      BY <2>6, <3>1, WindowType, WindowIsFirstLegal DEF FirstLegal
    <3>4. s.quietFor \in Nat
      BY <2>6, <3>2, <3>3
    <3>5. WaitFor(s) \in Nat
      BY <3>2, <3>4 DEF WaitFor, DowntimeFor
    <3> QED BY <3>2, <3>5
  <2> HIDE DEF s, draw
  <2>8. Scored(s)
    <3> SUFFICES ASSUME ~Scored(s) PROVE FALSE
      OBVIOUS
    <3>1. Decide(s, Worth(draw)) = Decide(s, Worth(row.draw))
      BY <2>7, UnscoredIgnoresWorth
    <3> QED BY <2>4, <2>5, <3>1
  <2>9. row.candidates = <<Stored(row.draw[1]), Stored(row.draw[2])>> /\ row.candidates # <<>>
    BY <2>5, <2>8
  <2>10. draw = <<Stored(row.draw[1]), Stored(row.draw[2])>>
    BY <2>9 DEF draw, Recalled
  <2>11. Worth(draw) # Worth(row.draw)
    BY <2>4, <2>5
  <2> QED BY <2>6, <2>9, <2>10, <2>11, RoundingIsSmall
<1> QED BY <1>1, LogInvHolds, PTL

-----------------------------------------------------------------------------
(* The feed: the runs of a window of the log, whatever the walk does.      *)
LEMMA GreatestIs ==
  ASSUME NEW S \in SUBSET Nat, NEW m \in S, \A x \in S : x <= m
  PROVE  Greatest(S) = m
<1> DEFINE P(x) == x \in S /\ \A y \in S : x >= y
<1>1. P(m)
  OBVIOUS
<1>2. P(Greatest(S))
  BY <1>1 DEF Greatest
<1>3. Greatest(S) \in Nat /\ m \in Nat /\ Greatest(S) >= m /\ m >= Greatest(S)
  BY <1>1, <1>2
<1> QED BY <1>3

LEMMA GreatestExists ==
  ASSUME NEW S \in SUBSET Nat, S # {}, NEW n \in Nat, \A x \in S : x <= n
  PROVE  Greatest(S) \in S /\ \A x \in S : x <= Greatest(S)
<1> DEFINE U == {b \in Nat : \A x \in S : x <= b}
<1>1. PICK m \in U : \A k \in U : m <= k
  <2>1. n \in U /\ U \in SUBSET Nat
    OBVIOUS
  <2> HIDE DEF U
  <2> QED BY <2>1, LeastExists
<1>2. m \in S
  <2> SUFFICES ASSUME m \notin S PROVE FALSE
    OBVIOUS
  <2>1. PICK x \in S : TRUE
    OBVIOUS
  <2>2. m # 0
    BY <1>1, <2>1
  <2>3. m - 1 \in U
    BY <1>1, <2>2
  <2> QED BY <1>1, <2>3
<1>3. Greatest(S) = m
  BY <1>1, <1>2, GreatestIs
<1> QED BY <1>1, <1>2, <1>3

LEMMA InWindow ==
  ASSUME TypeOK, NEW since \in Nat
  PROVE  /\ Window(since) \in SUBSET (1..Len(log)) /\ Len(log) \in Nat
         /\ \A i \in 1..Len(log) : i \in Window(since) <=> ~(log[i].at < since)
         /\ \A i \in 1..Len(log) : log[i] \in Rows
<1>1. log \in Seq(Rows)
  BY DEF TypeOK
<1>2. \A i \in 1..Len(log) : log[i] \in Rows
  BY <1>1
<1>3. \A i \in 1..Len(log) : log[i].at \in Nat
  BY <1>2 DEF Rows
<1>4. DOMAIN log = 1..Len(log) /\ Len(log) \in Nat
  BY <1>1
<1> QED BY <1>2, <1>3, <1>4 DEF Window

LEMMA PriorExists ==
  ASSUME NEW n \in Nat, NEW W \in SUBSET (1..n), NEW i \in W
  PROVE  /\ Before(W, i) = {} => Prior(W, i) = 0
         /\ Before(W, i) # {} => /\ Prior(W, i) \in Before(W, i)
                                 /\ \A k \in Before(W, i) : k <= Prior(W, i)
         /\ Prior(W, i) \in Nat /\ Prior(W, i) < i
         /\ Prior(W, i) = 0 <=> Before(W, i) = {}
<1> DEFINE S == Before(W, i)
<1>1. S \in SUBSET Nat /\ (\A x \in S : x <= i /\ x < i /\ x # 0) /\ i \in Nat /\ 0 < i
  <2>1. \A x \in W : x \in Nat /\ x # 0 /\ 0 < x
    OBVIOUS
  <2>2. \A x \in S : x \in W /\ x < i
    BY DEF Before
  <2>3. \A x \in S : x \in Nat /\ x # 0 /\ x < i
    BY <2>1, <2>2
  <2>4. i \in Nat /\ 0 < i
    BY <2>1
  <2>5. \A x \in S : x <= i
    BY <2>3, <2>4
  <2> HIDE DEF S
  <2> QED BY <2>3, <2>4, <2>5
<1>2. Prior(W, i) = IF S = {} THEN 0 ELSE Greatest(S)
  BY DEF Prior
<1> HIDE DEF S
<1>3. S # {} => Greatest(S) \in S /\ \A x \in S : x <= Greatest(S)
  BY <1>1, GreatestExists
<1> QED BY <1>1, <1>2, <1>3 DEF S

(* A case has a row after m; its first row after m; the row of m's own     *)
(* case that comes next.                                                   *)
Later(W, m, c) == \E j \in W : m < j /\ log[j].case = c

FirstAfter(W, m, c, f) ==
  /\ f \in W /\ m < f /\ log[f].case = c
  /\ \A k \in W : m < k /\ k < f => log[k].case # c

Follows(W, m, f) == FirstAfter(W, m, log[m].case, f)

LEMMA FirstExists ==
  ASSUME NEW W, W \subseteq Nat, NEW m, NEW c, Later(W, m, c)
  PROVE  \E f : FirstAfter(W, m, c, f)
<1> DEFINE S == {j \in W : m < j /\ log[j].case = c}
<1>1. S \in SUBSET Nat /\ S # {}
  BY DEF Later
<1>2. PICK f \in S : \A k \in S : f <= k
  <2> HIDE DEF S
  <2> QED BY <1>1, LeastExists
<1>3. \A k \in W : m < k /\ k < f => log[k].case # c
  BY <1>2
<1> QED BY <1>2, <1>3 DEF FirstAfter

LEMMA PriorOfFollower ==
  ASSUME NEW n \in Nat, NEW W \in SUBSET (1..n), NEW m \in W, NEW f \in W, Follows(W, m, f)
  PROVE  Prior(W, f) = m
<1>1. m \in Before(W, f) /\ \A k \in Before(W, f) : k <= m
  BY DEF Before, Follows, FirstAfter
<1>2. Before(W, f) \in SUBSET Nat
  <2>1. \A x \in W : x \in Nat
    OBVIOUS
  <2> QED BY <2>1 DEF Before
<1>3. Greatest(Before(W, f)) = m
  BY <1>1, <1>2, GreatestIs
<1> QED BY <1>1, <1>3 DEF Prior

(* Whose last decision before it is m, follows m.                          *)
LEMMA FollowerOfPrior ==
  ASSUME NEW n \in Nat, NEW W \in SUBSET (1..n), NEW m \in W, NEW i \in W, Prior(W, i) = m
  PROVE  Follows(W, m, i)
<1>1. m \in Nat /\ m # 0
  OBVIOUS
<1>2. m \in Before(W, i) /\ \A k \in Before(W, i) : k <= m
  BY <1>1, PriorExists
<1> QED BY <1>1, <1>2 DEF Before, Follows, FirstAfter

LEMMA OneFollower ==
  ASSUME NEW n \in Nat, NEW W \in SUBSET (1..n), NEW m \in W, NEW f, NEW g,
         Follows(W, m, f), Follows(W, m, g)
  PROVE  f = g
<1>1. m \in Nat /\ f \in Nat /\ g \in Nat
  BY DEF Follows, FirstAfter
<1>2. ~(f < g) /\ ~(g < f)
  BY DEF Follows, FirstAfter
<1> QED BY <1>1, <1>2

LEMMA MembersType ==
  ASSUME NEW n \in Nat, NEW W \in SUBSET (1..n), NEW B \in SUBSET W, NEW i \in W
  PROVE  /\ Members(W, B, i) \in SUBSET Nat /\ IsFiniteSet(Members(W, B, i))
         /\ Cardinality(Members(W, B, i)) \in Nat
         /\ i \in Members(W, B, i) /\ \A j \in Members(W, B, i) : j \in W /\ j >= i /\ j <= n
<1>1. \A x \in W : x \in Nat /\ x <= n
  OBVIOUS
<1>2. \A j \in Members(W, B, i) : j \in W /\ j >= i
  BY DEF Members
<1>3. i \in Members(W, B, i)
  <2>1. ~\E k \in B : i < k /\ k <= i
    BY <1>1
  <2>2. i >= i
    BY <1>1
  <2> QED BY <2>1, <2>2 DEF Members
<1>4. Members(W, B, i) \subseteq Nat /\ Members(W, B, i) \subseteq 1..n
  <2>1. W \subseteq Nat /\ W \subseteq 1..n
    BY <1>1
  <2>2. Members(W, B, i) \subseteq W
    BY <1>2
  <2> QED BY <2>1, <2>2
<1>5. IsFiniteSet(1..n)
  BY FS_Interval
<1>6. IsFiniteSet(Members(W, B, i))
  BY <1>4, <1>5, FS_Subset
<1>7. Cardinality(Members(W, B, i)) \in Nat
  BY <1>6, FS_CardinalityType
<1> QED BY <1>1, <1>2, <1>3, <1>4, <1>6, <1>7

(* A row that the next of its case does not continue is a run by itself.   *)
LEMMA RunBegun ==
  ASSUME NEW n \in Nat, NEW W \in SUBSET (1..n), NEW B \in SUBSET W, NEW m \in W,
         \A f : Follows(W, m, f) => f \in B
  PROVE  RunFrom(W, B, m) = NewRun(log[m], m)
<1> DEFINE M == Members(W, B, m)
<1>1. \A x \in W : x \in Nat
  OBVIOUS
<1>2. M = {m}
  <2>1. m \in M
    BY MembersType
  <2>2. ASSUME NEW j \in M, j # m PROVE FALSE
    <3>1. j \in W /\ m < j /\ log[j].case = log[m].case
      BY <1>1, <2>2 DEF Members
    <3>2. PICK f : Follows(W, m, f)
      <4>1. W \subseteq Nat /\ Later(W, m, log[m].case)
        BY <1>1, <3>1 DEF Later
      <4> QED BY <4>1, FirstExists DEF Follows
    <3>3. f \in B
      BY <3>2
    <3>4. f \in W /\ m < f /\ log[f].case = log[m].case /\ ~(j < f)
      BY <3>1, <3>2 DEF Follows, FirstAfter
    <3>5. f <= j
      BY <1>1, <3>1, <3>4
    <3> QED BY <2>2, <3>3, <3>4, <3>5 DEF Members
  <2> HIDE DEF M
  <2> QED BY <2>1, <2>2
<1>3. Greatest({m}) = m
  <2>1. {m} \in SUBSET Nat /\ m \in {m} /\ \A x \in {m} : x <= m
    BY <1>1
  <2> QED BY <2>1, GreatestIs
<1>4. Cardinality({m}) = 1
  BY FS_Singleton
<1> QED BY <1>2, <1>3, <1>4 DEF RunFrom, NewRun

LEMMA EarlierRecord ==
  ASSUME NEW c, NEW k, NEW i, NEW a, NEW h, NEW q, NEW row, NEW id
  PROVE  Earlier([case |-> c, key |-> k, id |-> i, at |-> a, heldUntil |-> h, repeats |-> q], row, id)
         = [case |-> c, key |-> k, id |-> id, at |-> row.at, heldUntil |-> h, repeats |-> q + 1]
<1> DEFINE R(i2, a2, q2) == [case |-> c, key |-> k, id |-> i2, at |-> a2, heldUntil |-> h,
                             repeats |-> q2]
<1>1. [R(i, a, q) EXCEPT !.at = row.at] = R(i, row.at, q)
  OBVIOUS
<1>2. [R(i, row.at, q) EXCEPT !.id = id] = R(id, row.at, q)
  OBVIOUS
<1>3. [R(id, row.at, q) EXCEPT !.repeats = q + 1] = R(id, row.at, q + 1)
  OBVIOUS
<1>4. R(i, a, q).repeats = q
  OBVIOUS
<1> HIDE DEF R
<1>5. Earlier(R(i, a, q), row, id) = R(id, row.at, q + 1)
  BY <1>1, <1>2, <1>3, <1>4 DEF Earlier
<1> QED BY <1>5 DEF R

(* One that the next of its case continues is dated back from it.          *)
LEMMA RunContinued ==
  ASSUME NEW n \in Nat, NEW W \in SUBSET (1..n), NEW B \in SUBSET W, NEW m \in W,
         NEW f \in W, Follows(W, m, f), f \notin B, KeyOf(log[f]) = KeyOf(log[m])
  PROVE  RunFrom(W, B, m) = Earlier(RunFrom(W, B, f), log[m], m)
<1> DEFINE M == Members(W, B, m)
           F == Members(W, B, f)
<1>1. \A x \in W : x \in Nat /\ x <= n
  OBVIOUS
<1>2. m < f /\ log[f].case = log[m].case
  BY DEF Follows, FirstAfter
<1>3. /\ F \in SUBSET Nat /\ IsFiniteSet(F) /\ Cardinality(F) \in Nat /\ f \in F
      /\ \A j \in F : j \in W /\ j >= f /\ j <= n
  BY MembersType
<1>4. M \in SUBSET Nat /\ m \in M
  BY MembersType
<1>5. ASSUME NEW j \in M, j # m PROVE j \in F
  <2>1. /\ j \in W /\ m < j /\ log[j].case = log[m].case
        /\ ~\E k \in B : log[k].case = log[m].case /\ m < k /\ k <= j
    BY <1>1, <1>5 DEF Members
  <2>2. ~(j < f)
    BY <2>1 DEF Follows, FirstAfter
  <2>3. j >= f
    BY <1>1, <2>1, <2>2
  <2>4. \A k \in B : f < k => m < k
    BY <1>1, <1>2
  <2> QED BY <1>2, <2>1, <2>3, <2>4 DEF Members
<1>6. ASSUME NEW j \in F PROVE j \in M /\ j # m
  <2>1. /\ j \in W /\ j >= f /\ log[j].case = log[m].case
        /\ ~\E k \in B : log[k].case = log[m].case /\ f < k /\ k <= j
    BY <1>2, <1>6 DEF Members
  <2>2. j > m /\ j >= m
    BY <1>1, <1>2, <2>1
  <2>3. ASSUME NEW k \in B, log[k].case = log[m].case, m < k, k <= j PROVE FALSE
    <3>1. k \in W /\ ~(k < f)
      BY <2>3 DEF Follows, FirstAfter
    <3>2. k # f /\ k \in Nat /\ f \in Nat
      BY <1>1, <3>1
    <3>3. f < k
      BY <3>1, <3>2
    <3> QED BY <2>1, <2>3, <3>3
  <2> QED BY <1>1, <2>1, <2>2, <2>3 DEF Members
<1>7. M = F \cup {m} /\ m \notin F
  <2> HIDE DEF M, F
  <2> QED BY <1>4, <1>5, <1>6
<1>8. Cardinality(M) = Cardinality(F) + 1
  <2> HIDE DEF M, F
  <2> QED BY <1>3, <1>7, FS_AddElement
<1>9. Greatest(M) = Greatest(F)
  <2> HIDE DEF M, F
  <2>1. Greatest(F) \in F /\ \A x \in F : x <= Greatest(F)
    BY <1>3, GreatestExists
  <2>2. Greatest(F) \in M /\ \A x \in M : x \in F \/ x = m
    BY <1>7, <2>1
  <2>3. f \in Nat /\ m \in Nat /\ Greatest(F) \in Nat /\ f <= Greatest(F)
    BY <1>1, <1>3, <2>1
  <2>4. m <= Greatest(F)
    BY <1>2, <2>3
  <2>5. \A x \in M : x <= Greatest(F)
    BY <2>1, <2>2, <2>4
  <2> QED BY <1>4, <2>2, <2>5, GreatestIs
<1> DEFINE g == log[Greatest(F)].at
           q == Cardinality(F)
<1> HIDE DEF M, F
<1>10. RunFrom(W, B, f) = [case |-> log[f].case, key |-> KeyOf(log[f]), id |-> f, at |-> log[f].at,
                           heldUntil |-> g, repeats |-> q]
  BY DEF RunFrom, F
<1>11. RunFrom(W, B, m) = [case |-> log[m].case, key |-> KeyOf(log[m]), id |-> m, at |-> log[m].at,
                           heldUntil |-> g, repeats |-> q + 1]
  BY <1>8, <1>9 DEF RunFrom, M
<1> HIDE DEF g, q
<1>12. Earlier([case |-> log[f].case, key |-> KeyOf(log[f]), id |-> f, at |-> log[f].at,
                heldUntil |-> g, repeats |-> q], log[m], m)
        = [case |-> log[f].case, key |-> KeyOf(log[f]), id |-> m, at |-> log[m].at,
           heldUntil |-> g, repeats |-> q + 1]
  BY EarlierRecord
<1> QED BY <1>2, <1>10, <1>11, <1>12

(* What the walk holds once it has looked at the rows of W after m: unless *)
(* it has stopped, the closed runs are those begun after a row beyond m,   *)
(* and the open run of a case is that from its first row beyond m on.      *)
AllRuns(W) == {RunFrom(W, Begins(W), i) : i \in W}

ClosedBy(W, p) == {RunFrom(W, Begins(W), i) : i \in {k \in Begins(W) : Prior(W, k) > p}}

OpenRuns(W, m, open) ==
  /\ \A c : c \in DOMAIN open <=> Later(W, m, c)
  /\ \A c, f : FirstAfter(W, m, c, f) => open[c] = RunFrom(W, Begins(W), f)

WalkedTo(W, m, w, budget) ==
  /\ w.stopped \in BOOLEAN /\ w.closed \in Seq(AllRuns(W))
  /\ IsFiniteSet(Listed(w.closed)) /\ Cardinality(Listed(w.closed)) = Len(w.closed)
  /\ w.stopped => Len(w.closed) >= budget /\ \E p \in Nat : Listed(w.closed) = ClosedBy(W, p)
  /\ ~w.stopped => Listed(w.closed) = ClosedBy(W, m) /\ OpenRuns(W, m, w.open)

LEMMA ListedAppend ==
  ASSUME NEW T, NEW s \in Seq(T), NEW x \in T
  PROVE  /\ s \o <<x>> \in Seq(T) /\ Len(s \o <<x>>) = Len(s) + 1
         /\ Listed(s \o <<x>>) = Listed(s) \cup {x}
<1> DEFINE t == s \o <<x>>
           n == Len(s)
<1>1. n \in Nat /\ DOMAIN s = 1..n
  OBVIOUS
<1>2. t \in Seq(T) /\ Len(t) = n + 1 /\ DOMAIN t = 1..(n + 1)
  OBVIOUS
<1>3. t[n + 1] = x /\ \A i \in 1..n : t[i] = s[i]
  OBVIOUS
<1> HIDE DEF t, n
<1>4. Listed(t) = {t[i] : i \in 1..(n + 1)} /\ Listed(s) = {s[i] : i \in 1..n}
  BY <1>1, <1>2 DEF Listed
<1>5. \A i \in 1..(n + 1) : i \in 1..n \/ i = n + 1
  BY <1>1
<1>6. n + 1 \in 1..(n + 1) /\ \A i \in 1..n : i \in 1..(n + 1)
  BY <1>1
<1>7. Listed(t) \subseteq Listed(s) \cup {x}
  BY <1>3, <1>4, <1>5
<1>8. Listed(s) \cup {x} \subseteq Listed(t)
  <2>1. x \in Listed(t)
    BY <1>3, <1>4, <1>6
  <2>2. \A i \in 1..n : s[i] \in Listed(t)
    BY <1>3, <1>4, <1>6
  <2> QED BY <1>4, <2>1, <2>2
<1> QED BY <1>2, <1>7, <1>8 DEF t, n

LEMMA NothingFollows ==
  ASSUME NEW n \in Nat, NEW W \in SUBSET (1..n), NEW m \in 1..n, m \notin W
  PROVE  /\ ClosedBy(W, m - 1) = ClosedBy(W, m)
         /\ \A c : Later(W, m - 1, c) <=> Later(W, m, c)
         /\ \A c, f : FirstAfter(W, m - 1, c, f) <=> FirstAfter(W, m, c, f)
<1>1. \A x \in W : x \in Nat /\ (m - 1 < x <=> m < x)
  BY SMT
<1>2. \A k \in W : Prior(W, k) > m - 1 <=> Prior(W, k) > m
  <2> SUFFICES ASSUME NEW k \in W PROVE Prior(W, k) > m - 1 <=> Prior(W, k) > m
    OBVIOUS
  <2>1. Prior(W, k) \in Nat /\ (Prior(W, k) = 0 \/ Prior(W, k) \in W)
    BY PriorExists DEF Before
  <2>2. Prior(W, k) # m
    BY <2>1
  <2> QED BY <2>1, <2>2
<1>3. ClosedBy(W, m - 1) = ClosedBy(W, m)
  <2>1. {k \in Begins(W) : Prior(W, k) > m - 1} = {k \in Begins(W) : Prior(W, k) > m}
    <3>1. Begins(W) \subseteq W
      BY DEF Begins
    <3> QED BY <1>2, <3>1
  <2> QED BY <2>1 DEF ClosedBy
<1>4. \A c : Later(W, m - 1, c) <=> Later(W, m, c)
  BY <1>1 DEF Later
<1>5. \A c, f : FirstAfter(W, m - 1, c, f) <=> FirstAfter(W, m, c, f)
  BY <1>1 DEF FirstAfter
<1> QED BY <1>3, <1>4, <1>5

LEMMA OneMoreRow ==
  ASSUME NEW n \in Nat, NEW W \in SUBSET (1..n), NEW m \in W
  PROVE  /\ \A c : Later(W, m - 1, c) <=> Later(W, m, c) \/ c = log[m].case
         /\ \A c, f : FirstAfter(W, m - 1, c, f) =>
              IF c = log[m].case THEN f = m ELSE FirstAfter(W, m, c, f)
         /\ ClosedBy(W, m - 1) = ClosedBy(W, m) \cup
              {RunFrom(W, Begins(W), f) : f \in {k \in Begins(W) : Follows(W, m, k)}}
<1>1. \A x \in W : x \in Nat /\ (m - 1 < x <=> m < x \/ x = m) /\ (m < x => m - 1 < x /\ x # m)
  BY SMT
<1>2. m - 1 < m /\ ~(m < m)
  OBVIOUS
<1>3. \A c : Later(W, m - 1, c) <=> Later(W, m, c) \/ c = log[m].case
  BY <1>1, <1>2 DEF Later
<1>4. ASSUME NEW c, NEW f, FirstAfter(W, m - 1, c, f)
      PROVE  IF c = log[m].case THEN f = m ELSE FirstAfter(W, m, c, f)
  <2>1. /\ f \in W /\ log[f].case = c /\ m - 1 < f
        /\ \A k \in W : m - 1 < k /\ k < f => log[k].case # c
    BY <1>4 DEF FirstAfter
  <2>4. m < f \/ f = m
    BY <1>1, <2>1
  <2>2. CASE c = log[m].case
    BY <1>2, <2>4, <2>1, <2>2
  <2>3. CASE c # log[m].case
    <3>1. m < f
      BY <2>4, <2>1, <2>3
    <3>2. \A k \in W : m < k /\ k < f => log[k].case # c
      BY <1>1, <2>1
    <3> QED BY <2>1, <2>3, <3>1, <3>2 DEF FirstAfter
  <2> QED BY <2>2, <2>3
<1>5. \A k \in W : Prior(W, k) > m - 1 <=> Prior(W, k) > m \/ Follows(W, m, k)
  <2> SUFFICES ASSUME NEW k \in W
               PROVE  Prior(W, k) > m - 1 <=> Prior(W, k) > m \/ Follows(W, m, k)
    OBVIOUS
  <2>1. Prior(W, k) \in Nat /\ m \in Nat
    <3>1. Prior(W, k) \in Nat
      BY PriorExists
    <3> QED BY <1>1, <3>1
  <2>2. Follows(W, m, k) => Prior(W, k) = m
    BY PriorOfFollower
  <2>3. Prior(W, k) = m => Follows(W, m, k)
    BY FollowerOfPrior
  <2>4. Prior(W, k) > m - 1 <=> Prior(W, k) > m \/ Prior(W, k) = m
    BY <2>1
  <2> QED BY <2>2, <2>3, <2>4
<1>6. {k \in Begins(W) : Prior(W, k) > m - 1}
      = {k \in Begins(W) : Prior(W, k) > m} \cup {k \in Begins(W) : Follows(W, m, k)}
  <2>1. Begins(W) \subseteq W
    BY DEF Begins
  <2> QED BY <1>5, <2>1
<1>7. ClosedBy(W, m - 1) = ClosedBy(W, m) \cup
        {RunFrom(W, Begins(W), f) : f \in {k \in Begins(W) : Follows(W, m, k)}}
  BY <1>6 DEF ClosedBy
<1> QED BY <1>3, <1>4, <1>7

Opened(open, c, run) == [d \in DOMAIN open \cup {c} |-> IF d = c THEN run ELSE open[d]]

(* What looking at one more row does: the case has no open run; it has one *)
(* the row belongs to; it has one the row ends.                            *)
LookGives(w, row, id, budget, v) ==
  LET c == row.case
  IN  /\ c \notin DOMAIN w.open =>
           /\ v.stopped = FALSE /\ v.closed = w.closed
           /\ v.open = Opened(w.open, c, NewRun(row, id))
      /\ c \in DOMAIN w.open /\ w.open[c].key = KeyOf(row) =>
           /\ v.stopped = FALSE /\ v.closed = w.closed
           /\ v.open = Opened(w.open, c, Earlier(w.open[c], row, id))
      /\ c \in DOMAIN w.open /\ w.open[c].key # KeyOf(row) =>
           /\ v.closed = w.closed \o <<w.open[c]>>
           /\ v.stopped \in BOOLEAN
           /\ v.stopped <=> Len(w.closed \o <<w.open[c]>>) >= budget
           /\ ~v.stopped => v.open = Opened(w.open, c, NewRun(row, id))

LEMMA LookForms ==
  ASSUME NEW T, NEW w, w.closed \in Seq(T), ~w.stopped, NEW row, NEW id, NEW budget
  PROVE  LookGives(w, row, id, budget, Look(w, row, id, budget))
<1> DEFINE c       == row.case
           known   == c \in DOMAIN w.open
           same    == known /\ w.open[c].key = KeyOf(row)
           closing == IF known /\ ~same THEN <<w.open[c]>> ELSE <<>>
           listed  == w.closed \o closing
           enough  == closing # <<>> /\ Len(listed) >= budget
           run     == IF same THEN Earlier(w.open[c], row, id) ELSE NewRun(row, id)
           v       == Look(w, row, id, budget)
<1>1. v = [stopped |-> enough, closed |-> listed,
           open |-> IF enough THEN w.open ELSE Opened(w.open, c, run)]
  BY DEF Look, Opened
<1> HIDE DEF v
<1>2. /\ v.stopped = enough /\ v.closed = listed
      /\ v.open = IF enough THEN w.open ELSE Opened(w.open, c, run)
  BY <1>1
<1>3. w.closed \o <<>> = w.closed
  OBVIOUS
<1>4. CASE ~known
  <2>1. closing = <<>> /\ run = NewRun(row, id)
    BY <1>4
  <2>2. enough = FALSE /\ listed = w.closed
    BY <1>3, <2>1
  <2> QED BY <1>2, <1>4, <2>1, <2>2 DEF v, LookGives
<1>5. CASE known /\ w.open[c].key = KeyOf(row)
  <2>1. closing = <<>> /\ run = Earlier(w.open[c], row, id)
    BY <1>5
  <2>2. enough = FALSE /\ listed = w.closed
    BY <1>3, <2>1
  <2> QED BY <1>2, <1>5, <2>1, <2>2 DEF v, LookGives
<1>6. CASE known /\ w.open[c].key # KeyOf(row)
  <2>1. closing = <<w.open[c]>> /\ run = NewRun(row, id)
    BY <1>6
  <2>2. closing # <<>>
    BY <2>1
  <2>3. listed = w.closed \o <<w.open[c]>>
    BY <2>1
  <2>4. enough \in BOOLEAN /\ (enough <=> Len(w.closed \o <<w.open[c]>>) >= budget)
    <3>1. enough \in BOOLEAN /\ (enough <=> Len(listed) >= budget)
      <4> HIDE DEF closing, listed
      <4> QED BY <2>2, Zenon
    <3> HIDE DEF enough, listed
    <3> QED BY <2>3, <3>1
  <2> QED BY <1>2, <1>6, <2>1, <2>3, <2>4 DEF v, LookGives
<1> QED BY <1>4, <1>5, <1>6

(* The open runs after one more row, when the row's run is opened or goes  *)
(* on in place of the one its case had.                                    *)
LEMMA OpenedAt ==
  ASSUME NEW n \in Nat, NEW W \in SUBSET (1..n), NEW m \in W, NEW open, NEW opened,
         OpenRuns(W, m, open), opened = Opened(open, log[m].case, RunFrom(W, Begins(W), m))
  PROVE  OpenRuns(W, m - 1, opened)
<1> DEFINE R(f) == RunFrom(W, Begins(W), f)
<1> HIDE DEF R
<1>1. /\ DOMAIN opened = DOMAIN open \cup {log[m].case}
      /\ \A c \in DOMAIN opened : opened[c] = IF c = log[m].case THEN R(m) ELSE open[c]
  BY DEF Opened, R
<1>2. \A c : Later(W, m - 1, c) <=> Later(W, m, c) \/ c = log[m].case
  BY OneMoreRow
<1>3. \A c : c \in DOMAIN opened <=> Later(W, m - 1, c)
  BY <1>1, <1>2 DEF OpenRuns
<1>4. ASSUME NEW c, NEW f, FirstAfter(W, m - 1, c, f) PROVE opened[c] = R(f)
  <2>1. Later(W, m - 1, c)
    BY <1>4 DEF FirstAfter, Later
  <2>2. opened[c] = IF c = log[m].case THEN R(m) ELSE open[c]
    BY <1>1, <1>3, <2>1
  <2>3. IF c = log[m].case THEN f = m ELSE FirstAfter(W, m, c, f)
    BY <1>4, OneMoreRow
  <2>4. c # log[m].case => open[c] = R(f)
    BY <2>3 DEF R, OpenRuns
  <2> QED BY <2>2, <2>3, <2>4
<1> QED BY <1>3, <1>4 DEF R, OpenRuns

LEMMA RunsDiffer ==
  ASSUME NEW W, NEW B, NEW i, NEW k, RunFrom(W, B, i) = RunFrom(W, B, k) PROVE i = k
<1>1. RunFrom(W, B, i).id = i /\ RunFrom(W, B, k).id = k
  BY DEF RunFrom
<1> QED BY <1>1

LEMMA LookStep ==
  ASSUME NEW n \in Nat, NEW W \in SUBSET (1..n), NEW m \in W, NEW budget \in Nat,
         NEW w, WalkedTo(W, m, w, budget)
  PROVE  WalkedTo(W, m - 1, Look(w, log[m], m, budget), budget)
<1> DEFINE B == Begins(W)
           c == log[m].case
           v == Look(w, log[m], m, budget)
           R(i) == RunFrom(W, B, i)
           ends == {R(f) : f \in {k \in B : Follows(W, m, k)}}
<1>1. CASE w.stopped
  <2>1. v = w
    BY <1>1 DEF Look
  <2> HIDE DEF v
  <2>2. WalkedTo(W, m - 1, v, budget)
    BY <1>1, <2>1 DEF WalkedTo
  <2> QED BY <2>2 DEF v
<1>2. CASE ~w.stopped
  <2>1. /\ w.closed \in Seq(AllRuns(W)) /\ IsFiniteSet(Listed(w.closed))
        /\ Cardinality(Listed(w.closed)) = Len(w.closed)
        /\ Listed(w.closed) = ClosedBy(W, m) /\ OpenRuns(W, m, w.open)
    BY <1>2 DEF WalkedTo
  <2>2. LookGives(w, log[m], m, budget, v)
    BY <1>2, <2>1, LookForms
  <2>3. ClosedBy(W, m - 1) = ClosedBy(W, m) \cup ends
    BY OneMoreRow
  <2>4. B \in SUBSET W /\ m - 1 \in Nat
    <3>1. B \subseteq W
      BY DEF Begins
    <3>2. m \in 1..n
      OBVIOUS
    <3> QED BY <3>1, <3>2
  <2> HIDE DEF v, B
  <2>5. ASSUME v.open = Opened(w.open, c, R(m))
        PROVE  OpenRuns(W, m - 1, v.open)
    BY <2>1, <2>5, OpenedAt DEF B
  <2>6. ASSUME v.stopped = FALSE, v.closed = w.closed, v.open = Opened(w.open, c, R(m)), ends = {}
        PROVE  WalkedTo(W, m - 1, v, budget)
    <3>1. Listed(v.closed) = ClosedBy(W, m - 1)
      BY <2>1, <2>3, <2>6
    <3> QED BY <2>1, <2>5, <2>6, <3>1 DEF WalkedTo, B
  <2>7. CASE c \notin DOMAIN w.open
    <3>1. ~Later(W, m, c)
      BY <2>1, <2>7 DEF OpenRuns
    <3>2. \A f : ~Follows(W, m, f)
      BY <3>1 DEF Follows, FirstAfter, Later
    <3>3. R(m) = NewRun(log[m], m) /\ ends = {}
      BY <2>4, <3>2, RunBegun
    <3> HIDE DEF R, ends
    <3>4. v.stopped = FALSE /\ v.closed = w.closed /\ v.open = Opened(w.open, c, R(m))
      BY <2>2, <2>7, <3>3 DEF LookGives
    <3> QED BY <2>6, <3>3, <3>4 DEF v
  <2>8. CASE c \in DOMAIN w.open
    <3>1. PICK f : Follows(W, m, f)
      <4>1. Later(W, m, c) /\ W \subseteq Nat
        BY <2>1, <2>8 DEF OpenRuns
      <4>2. \E f : FirstAfter(W, m, c, f)
        BY <4>1, FirstExists
      <4> QED BY <4>2 DEF Follows
    <3>2. f \in W /\ w.open[c] = R(f)
      BY <2>1, <3>1 DEF Follows, FirstAfter, OpenRuns, B
    <3>3. \A g : Follows(W, m, g) => g = f
      BY <3>1, OneFollower
    <3>4. w.open[c].key = KeyOf(log[f])
      <4>1. R(f).key = KeyOf(log[f])
        BY DEF RunFrom
      <4> QED BY <3>2, <4>1
    <3>5. Prior(W, f) = m
      BY <3>1, <3>2, PriorOfFollower
    <3>6. f \in B <=> KeyOf(log[f]) # KeyOf(log[m])
      <4>1. Before(W, f) # {}
        <5>1. m # 0
          BY <2>4
        <5> QED BY <3>2, <3>5, <5>1, PriorExists
      <4> QED BY <3>2, <3>5, <4>1 DEF B, Begins
    <3>7. CASE w.open[c].key = KeyOf(log[m])
      <4>1. f \notin B /\ KeyOf(log[f]) = KeyOf(log[m])
        BY <3>4, <3>6, <3>7
      <4>2. R(m) = Earlier(R(f), log[m], m)
        BY <2>4, <3>1, <3>2, <4>1, RunContinued
      <4>3. ends = {}
        BY <3>3, <4>1
      <4> HIDE DEF R, ends
      <4>4. v.stopped = FALSE /\ v.closed = w.closed /\ v.open = Opened(w.open, c, R(m))
        BY <2>2, <2>8, <3>2, <3>7, <4>2 DEF LookGives
      <4> QED BY <2>6, <4>3, <4>4 DEF v
    <3>8. CASE w.open[c].key # KeyOf(log[m])
      <4>1. f \in B
        BY <3>4, <3>6, <3>8
      <4>2. R(m) = NewRun(log[m], m)
        BY <2>4, <3>3, <4>1, RunBegun
      <4>3. ends = {R(f)}
        BY <3>1, <3>3, <4>1
      <4>4. R(f) \in AllRuns(W)
        BY <3>2 DEF AllRuns, B
      <4>5. R(f) \notin Listed(w.closed)
        <5> SUFFICES ASSUME R(f) \in ClosedBy(W, m) PROVE FALSE
          BY <2>1
        <5>1. PICK k \in B : Prior(W, k) > m /\ R(f) = R(k)
          BY DEF ClosedBy, B
        <5>2. k = f
          BY <5>1, RunsDiffer
        <5>3. m \in Nat
          OBVIOUS
        <5> QED BY <3>5, <5>1, <5>2, <5>3
      <4> DEFINE s == w.closed \o <<R(f)>>
      <4>6. /\ s \in Seq(AllRuns(W)) /\ Len(s) = Len(w.closed) + 1
            /\ Listed(s) = Listed(w.closed) \cup {R(f)}
        BY <2>1, <4>4, ListedAppend
      <4>7. v.closed = s /\ v.stopped \in BOOLEAN /\ (v.stopped <=> Len(s) >= budget)
            /\ (~v.stopped => v.open = Opened(w.open, c, R(m)))
        BY <2>2, <2>8, <3>2, <3>8, <4>2 DEF LookGives
      <4> HIDE DEF s, R, ends
      <4>8. IsFiniteSet(Listed(s)) /\ Cardinality(Listed(s)) = Len(s)
        <5> DEFINE L == Listed(w.closed)
        <5>1. IsFiniteSet(L) /\ Cardinality(L) = Len(w.closed) /\ R(f) \notin L
          BY <2>1, <4>5
        <5> HIDE DEF L
        <5>2. IsFiniteSet(L \cup {R(f)}) /\ Cardinality(L \cup {R(f)}) = Len(w.closed) + 1
          BY <5>1, FS_AddElement
        <5> QED BY <4>6, <5>2 DEF L
      <4>9. Listed(s) = ClosedBy(W, m - 1)
        BY <2>1, <2>3, <4>3, <4>6
      <4>10. ~v.stopped => OpenRuns(W, m - 1, v.open)
        BY <2>5, <4>7
      <4>11. WalkedTo(W, m - 1, v, budget)
        BY <2>4, <4>6, <4>7, <4>8, <4>9, <4>10 DEF WalkedTo, R, B
      <4> QED BY <4>11 DEF v
    <3> QED BY <3>7, <3>8
  <2> QED BY <2>7, <2>8 DEF v
<1> QED BY <1>1, <1>2

(* A row of the walk depends on the row before it alone, so the recursion  *)
(* defines a walk of every length.                                         *)
LEMMA StepDepends ==
  ASSUME NEW rows, NEW since, NEW budget, NEW g, NEW h, NEW n \in Nat,
         n # 0 => g[n - 1] = h[n - 1]
  PROVE  Step(rows, since, budget, g, n) = Step(rows, since, budget, h, n)
<1>1. CASE n = 0
  BY <1>1 DEF Step
<1>2. CASE n # 0
  <2>1. g[n - 1] = h[n - 1]
    BY <1>2
  <2> QED BY <1>2, <2>1, Zenon DEF Step
<1> QED BY <1>1, <1>2

IsWalk(rows, since, budget, k, g) == g = [n \in 0..k |-> Step(rows, since, budget, g, n)]

LEMMA WalkExists ==
  ASSUME NEW rows, NEW since, NEW budget, NEW N \in Nat
  PROVE  \E g : IsWalk(rows, since, budget, N, g)
<1> DEFINE S(g, n) == Step(rows, since, budget, g, n)
           Has(k)  == \E g : IsWalk(rows, since, budget, k, g)
           bad     == {k \in Nat : ~Has(k)}
<1>1. Has(0)
  <2> DEFINE g == [n \in 0..0 |-> NothingSeen]
  <2>1. g = [n \in 0..0 |-> S(g, n)]
    <3>1. \A n \in 0..0 : S(g, n) = NothingSeen
      BY DEF Step
    <3> HIDE DEF S
    <3> QED BY <3>1
  <2> QED BY <2>1 DEF IsWalk
<1>2. ASSUME NEW k \in Nat, k # 0, Has(k - 1) PROVE Has(k)
  <2>1. PICK g : g = [n \in 0..(k - 1) |-> S(g, n)]
    BY <1>2 DEF IsWalk
  <2> DEFINE h == [n \in 0..k |-> IF n = k THEN S(g, k) ELSE g[n]]
  <2>2. ASSUME NEW n \in 0..k PROVE h[n] = S(h, n)
    <3>1. n \in Nat /\ (n # 0 => n - 1 \in 0..k /\ n - 1 # k)
      BY <1>2
    <3>2. n # 0 => h[n - 1] = g[n - 1]
      BY <3>1
    <3> HIDE DEF h
    <3>3. S(h, n) = S(g, n)
      BY <3>1, <3>2, StepDepends
    <3>4. h[n] = S(g, n)
      <4> HIDE DEF S
      <4>1. h[n] = IF n = k THEN S(g, k) ELSE g[n]
        BY DEF h
      <4>2. n # k => n \in 0..(k - 1)
        BY <1>2
      <4>3. n # k => g[n] = S(g, n)
        BY <2>1, <4>2
      <4> QED BY <4>1, <4>3
    <3> QED BY <3>3, <3>4
  <2>3. h = [n \in 0..k |-> S(h, n)]
    <3>1. h = [n \in 0..k |-> h[n]]
      OBVIOUS
    <3> HIDE DEF h, S
    <3> QED BY <2>2, <3>1
  <2> HIDE DEF h
  <2> QED BY <2>3 DEF IsWalk
<1> HIDE DEF S, Has
<1>3. bad = {}
  <2> SUFFICES ASSUME bad # {} PROVE FALSE
    OBVIOUS
  <2>1. PICK m \in bad : \A k \in bad : m <= k
    <3>1. bad \in SUBSET Nat
      OBVIOUS
    <3> HIDE DEF bad
    <3> QED BY <3>1, LeastExists
  <2>2. m \in Nat /\ m # 0 /\ ~Has(m)
    BY <1>1, <2>1
  <2>3. m - 1 \in Nat /\ ~(m <= m - 1)
    BY <2>2
  <2>4. Has(m - 1)
    BY <2>1, <2>3
  <2> QED BY <1>2, <2>2, <2>4
<1>4. Has(N)
  BY <1>3
<1> QED BY <1>4 DEF Has

LEMMA WalkSteps ==
  ASSUME NEW rows, NEW since, NEW budget, Len(rows) \in Nat, NEW n \in 0..Len(rows)
  PROVE  Walk(rows, since, budget)[n] = Step(rows, since, budget, Walk(rows, since, budget), n)
<1> DEFINE w == Walk(rows, since, budget)
           N == Len(rows)
<1>1. w = CHOOSE g : IsWalk(rows, since, budget, N, g)
  BY DEF Walk, IsWalk
<1>2. \E g : IsWalk(rows, since, budget, N, g)
  BY WalkExists
<1> HIDE DEF w
<1>3. IsWalk(rows, since, budget, N, w)
  BY <1>1, <1>2
<1>4. w = [k \in 0..N |-> Step(rows, since, budget, w, k)]
  BY <1>3 DEF IsWalk
<1>5. w[n] = Step(rows, since, budget, w, n)
  BY <1>4
<1> QED BY <1>5 DEF w

LEMMA WalkBegins ==
  ASSUME NEW n \in Nat, NEW W \in SUBSET (1..n), NEW budget
  PROVE  WalkedTo(W, n, NothingSeen, budget)
<1> DEFINE w == NothingSeen
<1>1. /\ w.stopped = FALSE /\ w.closed = <<>> /\ w.open = <<>>
      /\ <<>> \in Seq(AllRuns(W)) /\ Len(<<>>) = 0 /\ DOMAIN <<>> = {}
  BY DEF NothingSeen
<1> HIDE DEF w
<1>2. Listed(<<>>) = {} /\ IsFiniteSet({}) /\ Cardinality({}) = 0
  BY <1>1, FS_EmptySet DEF Listed
<1>3. \A x \in W : x \in Nat /\ ~(n < x)
  OBVIOUS
<1>4. ClosedBy(W, n) = {}
  <2>1. \A i \in W : ~(Prior(W, i) > n)
    <3> SUFFICES ASSUME NEW i \in W, Prior(W, i) > n PROVE FALSE
      OBVIOUS
    <3>1. Prior(W, i) \in Nat /\ Prior(W, i) < i
      BY PriorExists
    <3> QED BY <1>3, <3>1
  <2>2. Begins(W) \subseteq W
    BY DEF Begins
  <2> QED BY <2>1, <2>2 DEF ClosedBy
<1>5. OpenRuns(W, n, <<>>)
  <2>1. \A c : ~Later(W, n, c)
    BY <1>3 DEF Later
  <2>2. \A c, f : ~FirstAfter(W, n, c, f)
    BY <1>3 DEF FirstAfter
  <2> QED BY <1>1, <2>1, <2>2 DEF OpenRuns
<1>6. WalkedTo(W, n, w, budget)
  BY <1>1, <1>2, <1>4, <1>5 DEF WalkedTo
<1> QED BY <1>6 DEF w

LEMMA WalkIs ==
  ASSUME TypeOK, NEW since \in Nat, NEW budget \in Nat
  PROVE  WalkedTo(Window(since), 0, Walk(log, since, budget)[Len(log)], budget)
<1> DEFINE W      == Window(since)
           N      == Len(log)
           w      == Walk(log, since, budget)
           Has(n) == WalkedTo(W, N - n, w[n], budget)
           bad    == {n \in Nat : n <= N /\ ~Has(n)}
<1>1. N \in Nat /\ W \in SUBSET (1..N) /\ \A i \in 1..N : i \in W <=> ~(log[i].at < since)
  BY InWindow
<1>2. \A n \in 0..N : w[n] = Step(log, since, budget, w, n)
  BY <1>1, WalkSteps
<1> HIDE DEF W, N, w
<1>3. Has(0)
  <2>1. w[0] = NothingSeen
    BY <1>1, <1>2 DEF Step
  <2>2. WalkedTo(W, N, NothingSeen, budget)
    BY <1>1, WalkBegins
  <2>3. N - 0 = N
    BY <1>1
  <2> QED BY <2>1, <2>2, <2>3
<1>4. ASSUME NEW n \in Nat, n # 0, n <= N, Has(n - 1) PROVE Has(n)
  <2> DEFINE m == N - n + 1
  <2>1. m \in 1..N /\ m - 1 = N - n /\ m = N - (n - 1) /\ n \in 0..N
    BY <1>1, <1>4
  <2>2. WalkedTo(W, m, w[n - 1], budget)
    BY <1>4, <2>1
  <2>3. w[n] = IF log[m].at < since THEN w[n - 1] ELSE Look(w[n - 1], log[m], m, budget)
    <3>1. w[n] = Step(log, since, budget, w, n)
      BY <1>2, <2>1
    <3> QED BY <1>4, <3>1 DEF Step, N
  <2> HIDE DEF m
  <2>4. WalkedTo(W, m - 1, w[n], budget)
    <3>1. CASE m \in W
      <4>1. w[n] = Look(w[n - 1], log[m], m, budget)
        BY <1>1, <2>1, <2>3, <3>1
      <4>2. WalkedTo(W, m - 1, Look(w[n - 1], log[m], m, budget), budget)
        BY <1>1, <2>2, <3>1, LookStep
      <4> QED BY <4>1, <4>2
    <3>2. CASE m \notin W
      <4>1. w[n] = w[n - 1]
        BY <1>1, <2>1, <2>3, <3>2
      <4>2. /\ ClosedBy(W, m - 1) = ClosedBy(W, m)
            /\ \A c : Later(W, m - 1, c) <=> Later(W, m, c)
            /\ \A c, f : FirstAfter(W, m - 1, c, f) <=> FirstAfter(W, m, c, f)
        BY <1>1, <2>1, <3>2, NothingFollows
      <4>3. ASSUME NEW open, OpenRuns(W, m, open) PROVE OpenRuns(W, m - 1, open)
        BY <4>2, <4>3 DEF OpenRuns
      <4>4. WalkedTo(W, m - 1, w[n - 1], budget)
        BY <2>2, <4>2, <4>3 DEF WalkedTo
      <4> QED BY <4>1, <4>4
    <3> QED BY <3>1, <3>2
  <2> QED BY <2>1, <2>4
<1> HIDE DEF Has
<1>5. bad = {}
  <2> SUFFICES ASSUME bad # {} PROVE FALSE
    OBVIOUS
  <2>1. PICK k \in bad : \A j \in bad : k <= j
    <3>1. bad \in SUBSET Nat
      OBVIOUS
    <3> HIDE DEF bad
    <3> QED BY <3>1, LeastExists
  <2>2. k \in Nat /\ k # 0 /\ k <= N /\ ~Has(k)
    BY <1>3, <2>1
  <2>3. k - 1 \in Nat /\ ~(k <= k - 1) /\ k - 1 <= N
    BY <1>1, <2>2
  <2>4. Has(k - 1)
    BY <2>1, <2>3
  <2> QED BY <1>4, <2>2, <2>4
<1>6. Has(N)
  BY <1>1, <1>5
<1>7. N - N = 0
  BY <1>1
<1> QED BY <1>6, <1>7 DEF Has, W, N, w

(* The page shows whole runs of the window, and misses one only when       *)
(* enough of them are shown that were begun after a later decision: for    *)
(* any log, however long, and any budget.                                  *)
THEOREM FeedTellsTheTruth == Spec => []FeedShowsRuns
<1>1. TypeOK => FeedShowsRuns
  <2> SUFFICES ASSUME TypeOK, NEW since \in {0, 600}
               PROVE  LET shown == Runs(log, since, FeedBudget)
                          all   == RunsOf(since)
                      IN  /\ shown \subseteq {r.run : r \in all}
                          /\ \A r \in all : r.run \notin shown =>
                               /\ Cardinality(shown) >= FeedBudget
                               /\ \A q \in all : q.run \in shown => q.prior > r.prior
    BY DEF FeedShowsRuns
  <2> DEFINE W     == Window(since)
             B     == Begins(W)
             R(i)  == RunFrom(W, B, i)
             w     == Walk(log, since, FeedBudget)[Len(log)]
             shown == Runs(log, since, FeedBudget)
             all   == RunsOf(since)
  <2>1. since \in Nat /\ FeedBudget \in Nat
    BY LogAssumption
  <2>2. WalkedTo(W, 0, w, FeedBudget)
    BY <2>1, WalkIs
  <2>3. W \in SUBSET (1..Len(log)) /\ Len(log) \in Nat
    BY <2>1, InWindow
  <2>4. shown = Listed(w.closed) \cup (IF w.stopped THEN {} ELSE Listed(w.open))
    BY DEF Runs
  <2>5. /\ \A r \in all : \E i \in B : r.run = R(i) /\ r.prior = Prior(W, i)
        /\ \A i \in B : \E r \in all : r.run = R(i)
    <3> DEFINE r(i) == [run |-> R(i), prior |-> Prior(W, i)]
    <3>1. all = {r(i) : i \in B}
      BY DEF RunsOf
    <3>2. \A i : r(i).run = R(i) /\ r(i).prior = Prior(W, i)
      OBVIOUS
    <3> HIDE DEF r, all, R, B
    <3> QED BY <3>1, <3>2
  <2>6. B \subseteq W
    BY DEF Begins
  <2>7. \A i, k : R(i) = R(k) => i = k
    BY RunsDiffer
  <2> HIDE DEF w, shown, all
  <2>8. CASE w.stopped
    <3>1. PICK p \in Nat : Listed(w.closed) = ClosedBy(W, p)
      BY <2>2, <2>8 DEF WalkedTo
    <3>2. shown = {R(i) : i \in {k \in B : Prior(W, k) > p}}
      BY <2>4, <2>8, <3>1 DEF ClosedBy
    <3>3. shown = Listed(w.closed)
      BY <2>4, <2>8
    <3>4. Cardinality(shown) >= FeedBudget
      BY <2>2, <2>8, <3>3 DEF WalkedTo
    <3> HIDE DEF R, B, W
    <3>5. shown \subseteq {r.run : r \in all}
      BY <2>5, <3>2
    <3>6. ASSUME NEW r \in all, r.run \notin shown, NEW q \in all, q.run \in shown
          PROVE  q.prior > r.prior
      <4>1. PICK i \in B : r.run = R(i) /\ r.prior = Prior(W, i)
        BY <2>5
      <4>2. PICK k \in B : q.run = R(k) /\ q.prior = Prior(W, k)
        BY <2>5
      <4>3. ~(Prior(W, i) > p)
        BY <3>2, <3>6, <4>1
      <4>4. PICK j \in B : Prior(W, j) > p /\ R(j) = R(k)
        BY <3>2, <3>6, <4>2
      <4>5. j = k
        BY <2>7, <4>4
      <4>6. Prior(W, i) \in Nat /\ Prior(W, k) \in Nat
        BY <2>3, <2>6, PriorExists
      <4> QED BY <4>1, <4>2, <4>3, <4>4, <4>5, <4>6
    <3> QED BY <3>4, <3>5, <3>6 DEF shown, all
  <2>9. CASE ~w.stopped
    <3>1. Listed(w.closed) = {R(i) : i \in {k \in B : Prior(W, k) > 0}} /\ OpenRuns(W, 0, w.open)
      BY <2>2, <2>9 DEF WalkedTo, ClosedBy
    <3>2. shown = Listed(w.closed) \cup Listed(w.open)
      BY <2>4, <2>9
    <3>3. \A c, f : FirstAfter(W, 0, c, f) => f \in B /\ c \in DOMAIN w.open /\ w.open[c] = R(f)
      <4> SUFFICES ASSUME NEW c, NEW f, FirstAfter(W, 0, c, f)
                   PROVE  f \in B /\ c \in DOMAIN w.open /\ w.open[c] = R(f)
        OBVIOUS
      <4>1. f \in W /\ log[f].case = c /\ \A k \in W : 0 < k /\ k < f => log[k].case # c
        BY DEF FirstAfter
      <4>2. \A k \in W : 0 < k
        BY <2>3
      <4>3. Before(W, f) = {}
        BY <4>1, <4>2 DEF Before
      <4>4. f \in B
        BY <4>1, <4>3 DEF Begins
      <4>5. Later(W, 0, c)
        BY <4>1, <4>2 DEF Later
      <4> QED BY <3>1, <4>4, <4>5 DEF OpenRuns
    <3>4. \A c \in DOMAIN w.open : \E f : FirstAfter(W, 0, c, f)
      <4> SUFFICES ASSUME NEW c \in DOMAIN w.open PROVE \E f : FirstAfter(W, 0, c, f)
        OBVIOUS
      <4>1. Later(W, 0, c) /\ W \subseteq Nat
        BY <2>3, <3>1 DEF OpenRuns
      <4> QED BY <4>1, FirstExists
    <3>5. \A i \in B : Prior(W, i) > 0 \/ FirstAfter(W, 0, log[i].case, i)
      <4> SUFFICES ASSUME NEW i \in B, ~(Prior(W, i) > 0)
                   PROVE  FirstAfter(W, 0, log[i].case, i)
        OBVIOUS
      <4>1. i \in W /\ 0 < i
        BY <2>3, <2>6
      <4>2. Prior(W, i) \in Nat
        BY <2>3, <4>1, PriorExists
      <4>3. Before(W, i) = {}
        <5>1. Prior(W, i) = 0
          BY <4>2
        <5> HIDE DEF W
        <5> QED BY <2>3, <4>1, <5>1, PriorExists
      <4> QED BY <4>1, <4>3 DEF FirstAfter, Before
    <3> HIDE DEF R, B, W
    <3>6. Listed(w.open) = {w.open[c] : c \in DOMAIN w.open}
      BY DEF Listed
    <3>7. shown \subseteq {r.run : r \in all}
      <4>1. Listed(w.closed) \subseteq {r.run : r \in all}
        BY <2>5, <3>1
      <4>2. Listed(w.open) \subseteq {r.run : r \in all}
        BY <2>5, <3>3, <3>4, <3>6
      <4> QED BY <3>2, <4>1, <4>2
    <3>8. \A r \in all : r.run \in shown
      <4> SUFFICES ASSUME NEW r \in all PROVE r.run \in shown
        OBVIOUS
      <4>1. PICK i \in B : r.run = R(i)
        BY <2>5
      <4>2. Prior(W, i) > 0 => R(i) \in Listed(w.closed)
        BY <3>1
      <4>3. FirstAfter(W, 0, log[i].case, i) => R(i) \in Listed(w.open)
        BY <3>3, <3>6
      <4> QED BY <3>2, <3>5, <4>1, <4>2, <4>3
    <3> QED BY <3>7, <3>8 DEF shown, all
  <2> QED BY <2>8, <2>9
<1>2. LogInv => TypeOK
  BY DEF LogInv
<1> QED BY <1>1, <1>2, LogInvHolds, PTL
=============================================================================
