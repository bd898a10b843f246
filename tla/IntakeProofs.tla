---------------------------- MODULE IntakeProofs ----------------------------
(***************************************************************************)
(* What holds of the intake for every set of orders and payments, any      *)
(* handlers and sweepers, and any number of faults.                        *)
(***************************************************************************)
EXTENDS Intake, FiniteSetTheorems, TLAPS

(* The rows of a debt and of its case are inserted together.               *)
RowsComeTogether == \A o \in Orders : ob[o] = "none" <=> case[o] = "none"

(* What a handler found when it read is still there when it writes: rows   *)
(* are never deleted, and captured money stays captured.                   *)
HandlersAreRight ==
  \A h \in Handlers :
    /\ hpc[h].at \in {"settled", "matched", "settling"} => money[hpc[h].about] = "captured"
    /\ hpc[h].at = "matched" /\ hpc[h].match # Unmatched
         => hpc[h].match.debt \in Orders /\ ob[hpc[h].match.debt] # "none"
    /\ hpc[h].at = "settling"
         => hpc[h].match.debt \in Orders /\ ob[hpc[h].match.debt] # "none"

(* A sweep resolves a checkout only once its case has been committed.      *)
SweepsAreRight ==
  \A s \in Sweepers : spc[s].at = "opened" => case[spc[s].order] # "none"

(* The inductive invariant.                                                *)
IntakeInv == /\ TypeOK /\ RowsComeTogether /\ HandlersAreRight /\ SweepsAreRight
             /\ SettledMeansClosed /\ AbandonedHasCase /\ RecoveredByMoney

(* match_settlement names a debt that has a row, or none at all.           *)
LEMMA MatchHasRow ==
  ASSUME NEW rows, NEW pay, NEW since,
         NEW m \in MatchSettlement(rows, pay, since)
  PROVE  /\ m = Unmatched \/ (m.debt \in DOMAIN rows /\ rows[m.debt].status # "none")
         /\ \E l \in 0..4 : m = [level |-> l, debt |-> m.debt]
<1> DEFINE named == Named(rows, pay)
           open  == OpenRows(rows, since)
<1>1. ASSUME NEW d \in open PROVE d \in DOMAIN rows /\ rows[d].status # "none"
  BY DEF OpenRows
<1>2. ASSUME NEW ds, NEW l \in 0..4, ds \subseteq open, m \in {Result(l, d) : d \in ds}
      PROVE  m.debt \in open /\ m = [level |-> l, debt |-> m.debt]
  BY <1>2 DEF Result
<1>3. /\ OfPayer(rows, pay, since) \subseteq open
      /\ Near(rows, OfPayer(rows, pay, since), pay) \subseteq open
      /\ Near(rows, open, pay) \subseteq open
  BY DEF OfPayer, Near
<1>4. ASSUME NEW field
      PROVE  Oldest(rows, Reached(rows, pay, since, field)) \subseteq open
  BY DEF Oldest, Reached, Near
<1>5. CASE named # {}
  <2>1. PICK i \in named : m = Result(1, pay.ids[i])
    BY <1>5 DEF MatchSettlement
  <2> QED BY <2>1 DEF Named, Result
<1>6. CASE named = {}
  <2>1. \/ m \in {Result(2, d) : d \in OfPayer(rows, pay, since)}
        \/ m \in {Result(2, d) : d \in Near(rows, OfPayer(rows, pay, since), pay)}
        \/ m \in {Result(3, d) : d \in Oldest(rows, Reached(rows, pay, since, "contact"))}
        \/ m \in {Result(3, d) : d \in Oldest(rows, Reached(rows, pay, since, "email"))}
        \/ m \in {Result(4, d) : d \in Near(rows, open, pay)}
        \/ m = Unmatched
    BY <1>6 DEF MatchSettlement
  <2>2. CASE m = Unmatched BY <2>2 DEF Unmatched, Result
  <2> QED BY <2>1, <2>2, <1>1, <1>2, <1>3, <1>4
<1> QED BY <1>5, <1>6

(* What is reported has happened.                                          *)
LEMMA ReportShape ==
  ASSUME TypeOK, NEW h \in Handlers, NEW e \in Reports[h]
  PROVE  /\ e.key \in {"failed", "captured", "order_paid", "browser"} \X (Orders \cup Payments)
         /\ \/ e.kind = "failure" /\ e.about \in Orders
            \/ e.kind = "settled" /\ e.about \in Payments /\ money[e.about] = "captured"
            \/ e.kind = "stored"
<1>1. h \in {"hook", "browser", "ledger"} BY IntakeAssumption
<1>2. CASE h = "hook"
  <2>1. \/ \E o \in attempted : e = Event("failed", "failure", o)
        \/ \E source \in {"captured", "order_paid"},
              p \in {q \in Payments : money[q] = "captured"} : e = Event(source, "settled", p)
    BY <1>2 DEF Reports
  <2> QED BY <2>1 DEF Event, TypeOK
<1>3. CASE h = "browser"
  <2>1. \/ \E o \in attempted : e = Event("browser", "failure", o)
        \/ \E p \in {q \in Payments : money[q] # "none"} :
              e = Event("browser", BrowserKind(p), p)
    BY <1>3 DEF Reports
  <2> QED BY <2>1 DEF Event, TypeOK, BrowserKind
<1>4. CASE h = "ledger" BY <1>4 DEF Reports
<1> QED BY <1>1, <1>2, <1>3, <1>4

(* Where a handler may be, and with what in hand.                          *)
LEMMA PlaceShape ==
  ASSUME TypeOK, NEW h \in Handlers
  PROVE  /\ hpc[h].at = "failure" => hpc[h].about \in Orders
         /\ hpc[h].at = "settled" => hpc[h].about \in Payments
         /\ hpc[h].at \in {"matched", "settling"} =>
              /\ hpc[h].about \in Payments /\ hpc[h].match \in Results
              /\ hpc[h] = [at |-> hpc[h].at, about |-> hpc[h].about, match |-> hpc[h].match]
         /\ hpc[h].at = "booking" => hpc[h].about \in PaymentIds /\ hpc[h].match \in Results
<1>1. hpc[h] \in HandlerPlaces BY DEF TypeOK
<1> QED BY <1>1 DEF HandlerPlaces

LEMMA SweepShape ==
  ASSUME TypeOK, NEW s \in Sweepers
  PROVE  spc[s].at \in {"opening", "opened"} => spc[s].order \in Orders
<1>1. spc[s] \in SweepPlaces BY DEF TypeOK
<1> QED BY <1>1 DEF SweepPlaces

LEMMA ResolvedType ==
  ASSUME TypeOK, NEW os, NEW status \in {"PAID", "ABANDONED"}
  PROVE  Resolved(os, status) \in [Orders -> {"none", "WATCHING", "PAID", "ABANDONED"}]
BY DEF Resolved, TypeOK

LEMMA InitInv == ASSUME Init PROVE IntakeInv
<1> USE DEF Init
<1>1. TypeOK BY IntakeAssumption DEF TypeOK, HandlerPlaces, SweepPlaces
<1>2. RowsComeTogether /\ HandlersAreRight /\ SweepsAreRight
  BY DEF RowsComeTogether, HandlersAreRight, SweepsAreRight
<1>3. SettledMeansClosed /\ AbandonedHasCase /\ RecoveredByMoney
  BY DEF SettledMeansClosed, AbandonedHasCase, RecoveredByMoney
<1> QED BY <1>1, <1>2, <1>3 DEF IntakeInv

(* The handlers' steps.  Each proves the type first, then the conjuncts    *)
(* the step can disturb.                                                   *)
LEMMA HandlerKeeps ==
  ASSUME IntakeInv, NEW h \in Handlers, HandlerStep(h)
  PROVE  IntakeInv'
<1> USE DEF IntakeInv, Handle, Onward, world, debts
<1>1. CASE Receive(h)
  <2>1. PICK e \in Reports[h] :
             /\ events' = events \cup {e.key}
             /\ \/ e.kind = "stored" /\ UNCHANGED hpc
                \/ e.kind # "stored" /\ hpc' = [hpc EXCEPT ![h] = [at |-> e.kind, about |-> e.about]]
    BY <1>1 DEF Receive
  <2>2. TypeOK'
    <3>1. e.kind # "stored" => [at |-> e.kind, about |-> e.about] \in HandlerPlaces
      BY ReportShape DEF HandlerPlaces
    <3>2. hpc' \in [Handlers -> HandlerPlaces] BY <2>1, <3>1 DEF TypeOK
    <3>3. events' \subseteq {"failed", "captured", "order_paid", "browser"}
                             \X (Orders \cup Payments)
      BY <2>1, ReportShape DEF TypeOK
    <3> QED BY <1>1, <3>2, <3>3 DEF Receive, TypeOK
  <2>3. HandlersAreRight'
    BY <1>1, <2>1, ReportShape DEF Receive, HandlersAreRight, TypeOK
  <2> QED BY <1>1, <2>2, <2>3 DEF Receive, RowsComeTogether, SweepsAreRight,
             SettledMeansClosed, AbandonedHasCase, RecoveredByMoney
<1>2. CASE OpenCase(h)
  <2>1. hpc[h].about \in Orders BY <1>2, PlaceShape DEF OpenCase
  <2>2. TypeOK'
    <3>1. [at |-> "idle"] \in HandlerPlaces BY DEF HandlerPlaces
    <3> QED BY <1>2, <3>1 DEF OpenCase, TypeOK
  <2>3. \A o \in Orders : /\ ob[o] # "none" => ob'[o] = ob[o] /\ case'[o] = case[o]
                          /\ ob[o] = "none" => \/ ob'[o] = "none" /\ case'[o] = "none"
                                               \/ ob'[o] = "OPEN" /\ case'[o] = "OPEN"
    BY <1>2, <2>1 DEF OpenCase, TypeOK, RowsComeTogether
  <2>4. RowsComeTogether' /\ SettledMeansClosed' /\ AbandonedHasCase' /\ RecoveredByMoney'
    BY <1>2, <2>3 DEF OpenCase, TypeOK, RowsComeTogether, SettledMeansClosed,
       AbandonedHasCase, RecoveredByMoney, Closed
  <2>5. HandlersAreRight'
    BY <1>2, <2>3 DEF OpenCase, HandlersAreRight, TypeOK
  <2>6. SweepsAreRight'
    BY <1>2, <2>3, SweepShape DEF OpenCase, SweepsAreRight, RowsComeTogether
  <2> QED BY <2>2, <2>4, <2>5, <2>6
<1>3. CASE MatchPayment(h)
  <2>1. PICK old \in SUBSET Orders :
          \E m \in MatchSettlement(Rows(old), PaymentOf[hpc[h].about], 0) :
             hpc' = [hpc EXCEPT ![h] = [at |-> "matched", about |-> hpc[h].about, match |-> m]]
    BY <1>3 DEF MatchPayment
  <2>2. PICK m \in MatchSettlement(Rows(old), PaymentOf[hpc[h].about], 0) :
             hpc' = [hpc EXCEPT ![h] = [at |-> "matched", about |-> hpc[h].about, match |-> m]]
    BY <2>1
  <2>3. m = Unmatched \/ (m.debt \in Orders /\ ob[m.debt] # "none")
    BY MatchHasRow DEF Rows
  <2>4. m \in Results
    <3>1. PICK l \in 0..4 : m = [level |-> l, debt |-> m.debt] BY MatchHasRow
    <3>2. m.debt \in Orders \cup {NoDebt} BY <2>3 DEF Unmatched, Result
    <3> QED BY <3>1, <3>2 DEF Results
  <2>5. hpc[h].about \in Payments /\ money[hpc[h].about] = "captured"
    BY <1>3, PlaceShape DEF MatchPayment, HandlersAreRight
  <2>6. TypeOK'
    <3>1. [at |-> "matched", about |-> hpc[h].about, match |-> m] \in HandlerPlaces
      BY <2>4, <2>5 DEF HandlerPlaces
    <3> QED BY <1>3, <2>2, <3>1 DEF MatchPayment, TypeOK
  <2>7. HandlersAreRight'
    BY <1>3, <2>2, <2>3, <2>5 DEF MatchPayment, HandlersAreRight, TypeOK
  <2> QED BY <1>3, <2>6, <2>7 DEF MatchPayment, RowsComeTogether, SweepsAreRight,
             SettledMeansClosed, AbandonedHasCase, RecoveredByMoney
<1>4. CASE TakeOffList(h)
  <2>1. /\ hpc[h].about \in Payments /\ hpc[h].match \in Results
        /\ hpc[h] = [at |-> "matched", about |-> hpc[h].about, match |-> hpc[h].match]
    BY <1>4, PlaceShape DEF TakeOffList
  <2>2. hpc' = [hpc EXCEPT ![h] =
                  [at |-> IF hpc[h].match = Unmatched THEN "booking" ELSE "settling",
                   about |-> hpc[h].about, match |-> hpc[h].match]]
    BY <1>4, <2>1 DEF TakeOffList
  <2>3. PICK os : checkouts' = Resolved(os, "PAID")
    BY <1>4 DEF TakeOffList
  <2>4. TypeOK'
    <3>1. [at |-> IF hpc[h].match = Unmatched THEN "booking" ELSE "settling",
           about |-> hpc[h].about, match |-> hpc[h].match] \in HandlerPlaces
      BY <2>1 DEF HandlerPlaces, PaymentIds
    <3>2. hpc' \in [Handlers -> HandlerPlaces] BY <2>2, <3>1 DEF TypeOK
    <3>3. checkouts' \in [Orders -> {"none", "WATCHING", "PAID", "ABANDONED"}]
      BY <2>3, ResolvedType
    <3> QED BY <1>4, <3>2, <3>3 DEF TakeOffList, TypeOK
  <2>5. HandlersAreRight'
    BY <1>4, <2>1, <2>2 DEF TakeOffList, HandlersAreRight, TypeOK
  <2>6. AbandonedHasCase'
    BY <1>4, <2>3 DEF TakeOffList, AbandonedHasCase, Resolved
  <2>7. UNCHANGED <<money, cash, ob, case, spc>> BY <1>4 DEF TakeOffList
  <2>8. RowsComeTogether' /\ SweepsAreRight' /\ SettledMeansClosed' /\ RecoveredByMoney'
    BY <2>7 DEF RowsComeTogether, SweepsAreRight, SettledMeansClosed, RecoveredByMoney
  <2> QED BY <2>4, <2>5, <2>6, <2>8
<1>5. CASE Settle(h)
  <2> DEFINE d == hpc[h].match.debt
  <2>1. /\ hpc[h].about \in Payments /\ hpc[h].match \in Results
        /\ hpc[h] = [at |-> "settling", about |-> hpc[h].about, match |-> hpc[h].match]
        /\ d \in Orders /\ ob[d] # "none" /\ money[hpc[h].about] = "captured"
    BY <1>5, PlaceShape DEF Settle, HandlersAreRight
  <2>2. hpc' = [hpc EXCEPT ![h] =
                  [at |-> "booking", about |-> hpc[h].about, match |-> hpc[h].match]]
    BY <1>5, <2>1 DEF Settle
  <2>3. PICK ours \in {"RECOVERED", "SELF_RECOVERED"} :
          /\ ob'   = [ob EXCEPT ![d] = "SETTLED"]
          /\ case' = [case EXCEPT ![d] = IF case[d] = "OPEN" THEN ours ELSE case[d]]
    BY <1>5 DEF Settle
  <2>4. TypeOK'
    <3>1. [at |-> "booking", about |-> hpc[h].about, match |-> hpc[h].match] \in HandlerPlaces
      BY <2>1 DEF HandlerPlaces, PaymentIds
    <3>2. ob' \in [Orders -> {"none", "OPEN", "SETTLED"}]
          /\ case' \in [Orders -> {"none", "OPEN"} \cup Closed]
      BY <2>1, <2>3 DEF TypeOK, Closed
    <3>3. hpc' \in [Handlers -> HandlerPlaces] BY <2>2, <3>1 DEF TypeOK
    <3> QED BY <1>5, <3>2, <3>3 DEF Settle, TypeOK
  <2>5. RowsComeTogether' /\ SettledMeansClosed' /\ AbandonedHasCase'
    BY <1>5, <2>1, <2>3 DEF Settle, TypeOK, RowsComeTogether, SettledMeansClosed,
       AbandonedHasCase, Closed
  <2>6. RecoveredByMoney'
    BY <1>5, <2>1 DEF Settle, RecoveredByMoney
  <2>7. HandlersAreRight'
    BY <1>5, <2>1, <2>2, <2>3 DEF Settle, HandlersAreRight, TypeOK
  <2>8. SweepsAreRight'
    BY <1>5, <2>1, <2>3, SweepShape DEF Settle, SweepsAreRight, RowsComeTogether, TypeOK
  <2> QED BY <2>4, <2>5, <2>6, <2>7, <2>8
<1>6. CASE SettleFromLedger(h)
  <2>1. PICK o \in cash :
          /\ case[o] # "none"
          /\ ob'   = [ob EXCEPT ![o] = "SETTLED"]
          /\ case' = [case EXCEPT ![o] = IF case[o] = "OPEN" THEN "RECOVERED" ELSE case[o]]
          /\ hpc' = [hpc EXCEPT ![h] = [at |-> "booking", about |-> LedgerId[o],
                                        match |-> Result(5, o)]]
    BY <1>6 DEF SettleFromLedger
  <2>2. o \in Orders /\ ob[o] # "none" BY <2>1 DEF TypeOK, RowsComeTogether
  <2>3. TypeOK'
    <3>1. [at |-> "booking", about |-> LedgerId[o], match |-> Result(5, o)] \in HandlerPlaces
      BY <2>2 DEF HandlerPlaces, PaymentIds, Results, Result
    <3>2. ob' \in [Orders -> {"none", "OPEN", "SETTLED"}]
          /\ case' \in [Orders -> {"none", "OPEN"} \cup Closed]
      BY <2>1, <2>2 DEF TypeOK, Closed
    <3> QED BY <1>6, <2>1, <3>1, <3>2 DEF SettleFromLedger, TypeOK
  <2>4. RowsComeTogether' /\ SettledMeansClosed' /\ AbandonedHasCase'
    BY <1>6, <2>1, <2>2 DEF SettleFromLedger, TypeOK, RowsComeTogether,
       SettledMeansClosed, AbandonedHasCase, Closed
  <2>5. RecoveredByMoney'
    BY <1>6, <2>1, <2>2 DEF SettleFromLedger, RecoveredByMoney, TypeOK
  <2>6. HandlersAreRight'
    BY <1>6, <2>1, <2>2 DEF SettleFromLedger, HandlersAreRight, TypeOK
  <2>7. SweepsAreRight'
    BY <1>6, <2>1, <2>2, SweepShape DEF SettleFromLedger, SweepsAreRight, TypeOK
  <2> QED BY <2>3, <2>4, <2>5, <2>6, <2>7
<1>7. CASE Book(h)
  <2>1. TypeOK'
    <3>1. [at |-> "idle"] \in HandlerPlaces BY DEF HandlerPlaces
    <3>2. books' \subseteq [payment : PaymentIds, match : Results]
      BY <1>7, PlaceShape DEF Book, TypeOK
    <3> QED BY <1>7, <3>1, <3>2 DEF Book, TypeOK
  <2>2. HandlersAreRight' BY <1>7 DEF Book, HandlersAreRight, TypeOK
  <2> QED BY <1>7, <2>1, <2>2 DEF Book, RowsComeTogether, SweepsAreRight,
             SettledMeansClosed, AbandonedHasCase, RecoveredByMoney
<1> QED BY <1>1, <1>2, <1>3, <1>4, <1>5, <1>6, <1>7 DEF HandlerStep

(* The sweeper's steps.                                                    *)
LEMMA SweeperKeeps ==
  ASSUME IntakeInv, NEW s \in Sweepers, SweepStep(s)
  PROVE  IntakeInv'
<1> USE DEF IntakeInv, Sweep, world, debts
<1>0. \A place \in SweepPlaces : [spc EXCEPT ![s] = place] \in [Sweepers -> SweepPlaces]
  BY DEF TypeOK
<1>1. CASE ReadDue(s)
  <2>1. TypeOK'
    <3>1. [at |-> "sweeping"] \in SweepPlaces BY DEF SweepPlaces
    <3>2. todo' \in [Sweepers -> SUBSET Orders] BY <1>1 DEF ReadDue, TypeOK
    <3> QED BY <1>0, <1>1, <3>1, <3>2 DEF ReadDue, TypeOK
  <2>2. SweepsAreRight' BY <1>1 DEF ReadDue, SweepsAreRight, TypeOK
  <2> QED BY <1>1, <2>1, <2>2 DEF ReadDue, RowsComeTogether, HandlersAreRight,
             SettledMeansClosed, AbandonedHasCase, RecoveredByMoney
<1>2. CASE CheckSettled(s)
  <2>1. PICK o \in todo[s] :
          /\ todo' = [todo EXCEPT ![s] = todo[s] \ {o}]
          /\ \/ checkouts' = Resolved({o}, "PAID") /\ UNCHANGED spc
             \/ spc' = [spc EXCEPT ![s] = [at |-> "opening", order |-> o]] /\ UNCHANGED checkouts
    BY <1>2 DEF CheckSettled
  <2>2. TypeOK'
    <3>1. [at |-> "opening", order |-> o] \in SweepPlaces BY <2>1 DEF SweepPlaces, TypeOK
    <3>2. todo' \in [Sweepers -> SUBSET Orders] BY <2>1 DEF TypeOK
    <3>3. spc' \in [Sweepers -> SweepPlaces] BY <1>0, <2>1, <3>1 DEF TypeOK
    <3> QED BY <1>2, <2>1, <3>2, <3>3, ResolvedType DEF CheckSettled, TypeOK
  <2>3. SweepsAreRight' BY <1>2, <2>1 DEF CheckSettled, SweepsAreRight, TypeOK
  <2>4. AbandonedHasCase' BY <1>2, <2>1 DEF CheckSettled, AbandonedHasCase, Resolved
  <2> QED BY <1>2, <2>2, <2>3, <2>4 DEF CheckSettled, RowsComeTogether, HandlersAreRight,
             SettledMeansClosed, RecoveredByMoney
<1>3. CASE OpenAbandonedCase(s)
  <2> DEFINE o == spc[s].order
  <2>1. o \in Orders BY <1>3, SweepShape DEF OpenAbandonedCase
  <2>2. TypeOK'
    <3>1. [at |-> "opened", order |-> o] \in SweepPlaces BY <2>1 DEF SweepPlaces
    <3> QED BY <1>0, <1>3, <3>1 DEF OpenAbandonedCase, TypeOK
  <2>3. \A d \in Orders : /\ ob[d] # "none" => ob'[d] = ob[d] /\ case'[d] = case[d]
                          /\ ob[d] = "none" => \/ ob'[d] = "none" /\ case'[d] = "none"
                                               \/ ob'[d] = "OPEN" /\ case'[d] = "OPEN"
    BY <1>3, <2>1 DEF OpenAbandonedCase, TypeOK, RowsComeTogether
  <2>4. RowsComeTogether' /\ SettledMeansClosed' /\ AbandonedHasCase' /\ RecoveredByMoney'
    BY <1>3, <2>3 DEF OpenAbandonedCase, TypeOK, RowsComeTogether, SettledMeansClosed,
       AbandonedHasCase, RecoveredByMoney, Closed
  <2>5. HandlersAreRight'
    BY <1>3, <2>3 DEF OpenAbandonedCase, HandlersAreRight, TypeOK
  <2>6. SweepsAreRight'
    <3>1. case'[o] # "none" BY <1>3, <2>1 DEF OpenAbandonedCase, TypeOK
    <3>2. spc' = [spc EXCEPT ![s] = [at |-> "opened", order |-> o]]
      BY <1>3 DEF OpenAbandonedCase
    <3> QED BY <2>3, <3>1, <3>2, SweepShape DEF SweepsAreRight, RowsComeTogether, TypeOK
  <2> QED BY <2>2, <2>4, <2>5, <2>6
<1>4. CASE ResolveAbandoned(s)
  <2>1. spc[s].order \in Orders /\ case[spc[s].order] # "none"
    BY <1>4, SweepShape DEF ResolveAbandoned, SweepsAreRight
  <2>2. TypeOK'
    <3>1. [at |-> "sweeping"] \in SweepPlaces BY DEF SweepPlaces
    <3> QED BY <1>0, <1>4, <3>1, ResolvedType DEF ResolveAbandoned, TypeOK
  <2>3. AbandonedHasCase'
    BY <1>4, <2>1 DEF ResolveAbandoned, AbandonedHasCase, Resolved
  <2>4. SweepsAreRight' BY <1>4 DEF ResolveAbandoned, SweepsAreRight, TypeOK
  <2> QED BY <1>4, <2>2, <2>3, <2>4 DEF ResolveAbandoned, RowsComeTogether, HandlersAreRight,
             SettledMeansClosed, RecoveredByMoney
<1>5. CASE SweepDone(s)
  <2>1. TypeOK'
    <3>1. [at |-> "idle"] \in SweepPlaces BY DEF SweepPlaces
    <3> QED BY <1>0, <1>5, <3>1 DEF SweepDone, TypeOK
  <2>2. SweepsAreRight' BY <1>5 DEF SweepDone, SweepsAreRight, TypeOK
  <2> QED BY <1>5, <2>1, <2>2 DEF SweepDone, RowsComeTogether, HandlersAreRight,
             SettledMeansClosed, AbandonedHasCase, RecoveredByMoney
<1> QED BY <1>1, <1>2, <1>3, <1>4, <1>5 DEF SweepStep

(* Everybody else's steps, and the faults.                                 *)
LEMMA WorldKeeps ==
  ASSUME IntakeInv, (\E o \in Orders : OrderStep(o)) \/ (\E p \in Payments : Pay(p)) \/ CutShort
  PROVE  IntakeInv'
<1> USE DEF IntakeInv, world, debts
<1>1. ASSUME NEW o \in Orders, WatchOrder(o) PROVE IntakeInv'
  <2>1. TypeOK' BY <1>1 DEF WatchOrder, TypeOK
  <2>2. AbandonedHasCase' BY <1>1 DEF WatchOrder, AbandonedHasCase, TypeOK
  <2> QED BY <1>1, <2>1, <2>2 DEF WatchOrder, RowsComeTogether, HandlersAreRight,
             SweepsAreRight, SettledMeansClosed, RecoveredByMoney
<1>2. ASSUME NEW o \in Orders, AttemptFails(o) PROVE IntakeInv'
  <2>1. TypeOK' BY <1>2 DEF AttemptFails, TypeOK
  <2> QED BY <1>2, <2>1 DEF AttemptFails, RowsComeTogether, HandlersAreRight,
             SweepsAreRight, SettledMeansClosed, AbandonedHasCase, RecoveredByMoney
<1>3. ASSUME NEW o \in Orders, PayCash(o) PROVE IntakeInv'
  <2>1. TypeOK' BY <1>3 DEF PayCash, TypeOK
  <2>2. RecoveredByMoney' BY <1>3 DEF PayCash, RecoveredByMoney
  <2> QED BY <1>3, <2>1, <2>2 DEF PayCash, RowsComeTogether, HandlersAreRight,
             SweepsAreRight, SettledMeansClosed, AbandonedHasCase
<1>4. ASSUME NEW o \in Orders, Expire(o) PROVE IntakeInv'
  <2>1. TypeOK' BY <1>4 DEF Expire, TypeOK
  <2> QED BY <1>4, <2>1 DEF Expire, RowsComeTogether, HandlersAreRight,
             SweepsAreRight, SettledMeansClosed, AbandonedHasCase, RecoveredByMoney
<1>5. ASSUME NEW o \in Orders, GiveUp(o) PROVE IntakeInv'
  <2>1. TypeOK' BY <1>5 DEF GiveUp, TypeOK, Closed
  <2>2. \A d \in Orders : /\ case'[d] = "none" <=> case[d] = "none"
                          /\ case'[d] = case[d] \/ case'[d] = "GIVEN_UP"
    BY <1>5 DEF GiveUp, TypeOK
  <2>3. RowsComeTogether' /\ SettledMeansClosed' /\ AbandonedHasCase' /\ RecoveredByMoney'
    BY <1>5, <2>2 DEF GiveUp, RowsComeTogether, SettledMeansClosed, AbandonedHasCase,
       RecoveredByMoney, Closed
  <2>4. SweepsAreRight' BY <1>5, <2>2, SweepShape DEF GiveUp, SweepsAreRight
  <2> QED BY <1>5, <2>1, <2>3, <2>4 DEF GiveUp, HandlersAreRight
<1>6. ASSUME NEW p \in Payments, Pay(p) PROVE IntakeInv'
  <2>1. TypeOK' BY <1>6 DEF Pay, TypeOK
  <2>2. \A q \in Payments : money[q] = "captured" => money'[q] = "captured"
    BY <1>6 DEF Pay, TypeOK
  <2>3. RecoveredByMoney' BY <1>6, <2>2 DEF Pay, RecoveredByMoney
  <2>4. HandlersAreRight' BY <1>6, <2>2, PlaceShape DEF Pay, HandlersAreRight
  <2> QED BY <1>6, <2>1, <2>3, <2>4 DEF Pay, RowsComeTogether, SweepsAreRight,
             SettledMeansClosed, AbandonedHasCase
<1>7. ASSUME CutShort PROVE IntakeInv'
  <2>1. TypeOK'
    <3>1. [at |-> "idle"] \in HandlerPlaces /\ [at |-> "idle"] \in SweepPlaces
      BY DEF HandlerPlaces, SweepPlaces
    <3>2. /\ hpc' \in [Handlers -> HandlerPlaces] /\ spc' \in [Sweepers -> SweepPlaces]
          /\ todo' \in [Sweepers -> SUBSET Orders]
      BY <1>7, <3>1 DEF CutShort, TypeOK, Handle, Sweep
    <3>3. faults' \in 0..MaxFaults BY <1>7, IntakeAssumption DEF CutShort, TypeOK
    <3> QED BY <1>7, <3>2, <3>3 DEF CutShort, TypeOK
  <2>2. HandlersAreRight'
    BY <1>7 DEF CutShort, HandlersAreRight, Handle, TypeOK
  <2>3. SweepsAreRight'
    BY <1>7 DEF CutShort, SweepsAreRight, Sweep, TypeOK
  <2> QED BY <1>7, <2>1, <2>2, <2>3 DEF CutShort, RowsComeTogether, SettledMeansClosed,
             AbandonedHasCase, RecoveredByMoney
<1> QED BY <1>1, <1>2, <1>3, <1>4, <1>5, <1>6, <1>7 DEF OrderStep

LEMMA StepInv == ASSUME IntakeInv, [Next]_vars PROVE IntakeInv'
<1>1. CASE Next BY <1>1, HandlerKeeps, SweeperKeeps, WorldKeeps DEF Next
<1>2. CASE UNCHANGED vars
  BY <1>2 DEF vars, IntakeInv, TypeOK, RowsComeTogether, HandlersAreRight, SweepsAreRight,
     SettledMeansClosed, AbandonedHasCase, RecoveredByMoney
<1> QED BY <1>1, <1>2

LEMMA IntakeInvAlways == Spec => []IntakeInv
BY InitInv, StepInv, PTL DEF Spec

(* Type correctness of the intake.                                         *)
THEOREM TypeCorrect == Spec => []TypeOK
BY IntakeInvAlways, PTL DEF IntakeInv

(* A settled debt never has an open case, for any number of debts, with    *)
(* any handlers and sweepers at work and any of them cut short.            *)
THEOREM SettledAlwaysClosed == Spec => []SettledMeansClosed
BY IntakeInvAlways, PTL DEF IntakeInv

(* A sweep never loses a checkout: one recorded as abandoned has its case. *)
THEOREM AbandonedAlwaysHasCase == Spec => []AbandonedHasCase
BY IntakeInvAlways, PTL DEF IntakeInv

(* Only money that arrived closes a case as recovered.                     *)
THEOREM AlwaysRecoveredByMoney == Spec => []RecoveredByMoney
BY IntakeInvAlways, PTL DEF IntakeInv

(* No failure, redelivery or sweep reopens a closed case.                  *)
THEOREM ClosedForGood == Spec => CasesStayClosed
<1>1. ASSUME IntakeInv, [Next]_vars, NEW o \in Orders, case[o] \in Closed
      PROVE  case'[o] \in Closed
  <2> USE <1>1 DEF IntakeInv, TypeOK, Closed, debts
  <2>1. ASSUME NEW h \in Handlers, OpenCase(h) \/ Settle(h) \/ SettleFromLedger(h)
        PROVE  case'[o] = case[o]
    <3>1. CASE OpenCase(h) BY <3>1 DEF OpenCase
    <3>2. CASE Settle(h) BY <3>2 DEF Settle
    <3>3. CASE SettleFromLedger(h) BY <3>3 DEF SettleFromLedger
    <3> QED BY <2>1, <3>1, <3>2, <3>3
  <2>2. ASSUME NEW s \in Sweepers, OpenAbandonedCase(s)
        PROVE  case'[o] = case[o]
    BY <2>2 DEF OpenAbandonedCase
  <2>3. ASSUME NEW d \in Orders, GiveUp(d) PROVE case'[o] \in Closed
    BY <2>3 DEF GiveUp
  <2>4. ASSUME NEW h \in Handlers, \/ Receive(h) \/ MatchPayment(h) \/ TakeOffList(h) \/ Book(h)
        PROVE  case'[o] = case[o]
    BY <2>4 DEF Receive, MatchPayment, TakeOffList, Book
  <2>5. ASSUME NEW s \in Sweepers,
               ReadDue(s) \/ CheckSettled(s) \/ ResolveAbandoned(s) \/ SweepDone(s)
        PROVE  case'[o] = case[o]
    BY <2>5 DEF ReadDue, CheckSettled, ResolveAbandoned, SweepDone
  <2>6. ASSUME NEW d \in Orders, WatchOrder(d) \/ AttemptFails(d) \/ PayCash(d) \/ Expire(d)
        PROVE  case'[o] = case[o]
    BY <2>6 DEF WatchOrder, AttemptFails, PayCash, Expire
  <2>7. ASSUME NEW p \in Payments, Pay(p) PROVE case'[o] = case[o]
    BY <2>7 DEF Pay
  <2>8. CASE CutShort BY <2>8 DEF CutShort
  <2>9. CASE UNCHANGED vars BY <2>9 DEF vars
  <2> QED BY <2>1, <2>2, <2>3, <2>4, <2>5, <2>6, <2>7, <2>8, <2>9
             DEF Next, HandlerStep, SweepStep, OrderStep
<1>2. IntakeInv /\ [Next]_vars
        => [\A o \in Orders : case[o] \in Closed => case'[o] \in Closed]_vars
  BY <1>1
<1> QED BY <1>2, IntakeInvAlways, PTL DEF Spec, CasesStayClosed

(* A match that is not by an id in the payload settles a debt that is open *)
(* and inside the recovery window, and at levels 3 and 4 one of nearly     *)
(* this amount; a level 4 match is the only such debt there is.            *)
THEOREM GuessIsPlausible ==
  ASSUME NEW rows, NEW pay, NEW since,
         NEW m \in MatchSettlement(rows, pay, since)
  PROVE  /\ m.level >= 2 => m.debt \in OpenRows(rows, since)
         /\ m.level >= 3 => Within(rows[m.debt].due, pay.amount)
         /\ m.level = 4 => Cardinality(Near(rows, OpenRows(rows, since), pay)) = 1
<1> DEFINE named == Named(rows, pay)
           open  == OpenRows(rows, since)
<1>1. CASE named # {}
  BY <1>1 DEF MatchSettlement, Result
<1>2. ASSUME NEW field
      PROVE  Oldest(rows, Reached(rows, pay, since, field)) \subseteq Near(rows, open, pay)
  BY DEF Oldest, Reached, Near
<1>3. CASE named = {}
  <2>1. \/ m \in {Result(2, d) : d \in OfPayer(rows, pay, since)}
        \/ m \in {Result(2, d) : d \in Near(rows, OfPayer(rows, pay, since), pay)}
        \/ m \in {Result(3, d) : d \in Near(rows, open, pay)}
        \/ /\ m \in {Result(4, d) : d \in Near(rows, open, pay)}
           /\ Cardinality(Near(rows, open, pay)) = 1
        \/ m = Unmatched
    BY <1>2, <1>3 DEF MatchSettlement
  <2> QED BY <2>1 DEF Result, Unmatched, OfPayer, Near
<1> QED BY <1>1, <1>3

-----------------------------------------------------------------------------
(* Money that was reported and is neither booked nor in hand.              *)

Lost == Reported \ (Booked \cup InHand)

(* Only a report of captured money is filed under a key that LostOnlyByFault *)
(* looks at, and its handler then has that payment in hand.                *)
LEMMA ReportedIsHandled ==
  ASSUME TypeOK, NEW h \in Handlers, NEW e \in Reports[h],
         e.key[1] \in {"captured", "order_paid"}
  PROVE  e.kind = "settled" /\ e.about = e.key[2]
<1>1. h \in {"hook", "browser", "ledger"} BY IntakeAssumption
<1>2. CASE h = "hook"
  <2>1. \/ \E o \in attempted : e = Event("failed", "failure", o)
        \/ \E source \in {"captured", "order_paid"},
              p \in {q \in Payments : money[q] = "captured"} : e = Event(source, "settled", p)
    BY <1>2 DEF Reports
  <2> QED BY <2>1 DEF Event
<1>3. CASE h = "browser"
  <2>1. \/ \E o \in attempted : e = Event("browser", "failure", o)
        \/ \E p \in {q \in Payments : money[q] # "none"} :
              e = Event("browser", BrowserKind(p), p)
    BY <1>3 DEF Reports
  <2> QED BY <2>1 DEF Event
<1>4. CASE h = "ledger" BY <1>4 DEF Reports
<1> QED BY <1>1, <1>2, <1>3, <1>4

(* A handler that moves lets go of nothing but what it had.                *)
LEMMA HandsAfterMove ==
  ASSUME TypeOK, NEW h \in Handlers, NEW place, Handle(h, place)
  PROVE  /\ \A p \in InHand : p \in InHand' \/ (hpc[h].at # "idle" /\ p = hpc[h].about)
         /\ place.at # "idle" => place.about \in InHand'
<1>1. /\ hpc'[h] = place /\ \A k \in Handlers \ {h} : hpc'[k] = hpc[k]
  BY DEF Handle, TypeOK
<1> QED BY <1>1 DEF InHand

(* A step loses no payment, but for a fault, which can lose one.           *)
LEMMA LossStep ==
  ASSUME IntakeInv, [Next]_vars
  PROVE  \/ Lost' \subseteq Lost /\ faults' = faults
         \/ \E p : Lost' \subseteq Lost \cup {p} /\ faults' = faults + 1
<1> USE DEF IntakeInv
<1>1. ASSUME InHand \subseteq InHand', UNCHANGED <<events, books>>
      PROVE  Lost' \subseteq Lost
  BY <1>1 DEF Lost, Reported, Booked
<1>2. ASSUME UNCHANGED <<events, books, hpc, faults>> PROVE Lost' \subseteq Lost
  BY <1>1, <1>2 DEF InHand
<1>3. ASSUME NEW h \in Handlers, Receive(h) PROVE Lost' \subseteq Lost
  <2>1. PICK e \in Reports[h] :
          /\ events' = events \cup {e.key}
          /\ IF e.kind = "stored" THEN UNCHANGED hpc
             ELSE Handle(h, [at |-> e.kind, about |-> e.about])
    BY <1>3 DEF Receive
  <2>2. e.kind \in {"failure", "settled", "stored"} BY ReportShape
  <2>3. InHand \subseteq InHand' /\ (e.kind = "settled" => e.about \in InHand')
    <3>1. CASE e.kind = "stored" BY <2>1, <3>1 DEF InHand
    <3>2. CASE e.kind # "stored"
      <4>1. hpc[h].at = "idle" BY <1>3 DEF Receive
      <4>2. Handle(h, [at |-> e.kind, about |-> e.about]) BY <2>1, <3>2
      <4> QED BY <2>2, <4>1, <4>2, HandsAfterMove
    <3> QED BY <3>1, <3>2
  <2>4. ASSUME NEW p \in Payments, p \in Reported', p \notin Reported
        PROVE  p \in InHand'
    <3>1. e.key = <<"captured", p>> \/ e.key = <<"order_paid", p>>
      BY <2>1, <2>4 DEF Reported
    <3>2. e.key[1] \in {"captured", "order_paid"} /\ e.key[2] = p
      BY <3>1
    <3> QED BY <2>3, <3>2, ReportedIsHandled
  <2>5. books' = books BY <1>3 DEF Receive
  <2> QED BY <2>3, <2>4, <2>5 DEF Lost, Reported, Booked
<1>4. ASSUME NEW h \in Handlers, OpenCase(h) PROVE Lost' \subseteq Lost
  <2>1. hpc[h].at = "failure" /\ hpc[h].about \notin Payments
    BY <1>4, PlaceShape, IntakeAssumption DEF OpenCase
  <2>2. \A p \in InHand : p \in InHand' \/ p = hpc[h].about
    BY <1>4, HandsAfterMove DEF OpenCase
  <2>3. UNCHANGED <<events, books>> BY <1>4 DEF OpenCase
  <2> QED BY <2>1, <2>2, <2>3 DEF Lost, Reported, Booked
<1>5. ASSUME NEW h \in Handlers, MatchPayment(h) \/ TakeOffList(h) \/ Settle(h)
      PROVE  Lost' \subseteq Lost
  <2>1. PICK place : /\ Handle(h, place) /\ place.at # "idle"
                     /\ place.about = hpc[h].about
    <3>1. CASE MatchPayment(h) BY <3>1 DEF MatchPayment
    <3>2. CASE TakeOffList(h) BY <3>2 DEF TakeOffList, Onward
    <3>3. CASE Settle(h) BY <3>3 DEF Settle, Onward
    <3> QED BY <1>5, <3>1, <3>2, <3>3
  <2>2. InHand \subseteq InHand' BY <2>1, HandsAfterMove
  <2>3. UNCHANGED <<events, books>> BY <1>5 DEF MatchPayment, TakeOffList, Settle
  <2> QED BY <1>1, <2>2, <2>3
<1>6. ASSUME NEW h \in Handlers, SettleFromLedger(h) PROVE Lost' \subseteq Lost
  <2>1. PICK place : Handle(h, place) BY <1>6 DEF SettleFromLedger
  <2>2. InHand \subseteq InHand' BY <1>6, <2>1, HandsAfterMove DEF SettleFromLedger
  <2> QED BY <1>1, <1>6, <2>2 DEF SettleFromLedger
<1>7. ASSUME NEW h \in Handlers, Book(h) PROVE Lost' \subseteq Lost
  <2>1. \A p \in InHand : p \in InHand' \/ p = hpc[h].about
    BY <1>7, HandsAfterMove DEF Book
  <2>2. books \subseteq books' /\ \E b \in books' : b.payment = hpc[h].about
    <3>1. CASE \E b \in books : b.payment = hpc[h].about
      BY <1>7, <3>1 DEF Book
    <3>2. CASE ~\E b \in books : b.payment = hpc[h].about
      <4> DEFINE line == [payment |-> hpc[h].about, match |-> hpc[h].match]
      <4>1. books' = books \cup {line}
        BY <1>7, <3>2 DEF Book
      <4>2. line.payment = hpc[h].about
        OBVIOUS
      <4> HIDE DEF line
      <4> QED BY <4>1, <4>2
    <3> QED BY <3>1, <3>2
  <2>3. Booked \subseteq Booked' /\ hpc[h].about \in Booked' /\ events' = events
    BY <1>7, <2>2 DEF Book, Booked
  <2> QED BY <2>1, <2>3 DEF Lost, Reported
<1>8. ASSUME NEW s \in Sweepers, SweepStep(s) PROVE UNCHANGED <<events, books, hpc, faults>>
  BY <1>8 DEF SweepStep, ReadDue, CheckSettled, OpenAbandonedCase, ResolveAbandoned, SweepDone
<1>9. ASSUME NEW o \in Orders, OrderStep(o) PROVE UNCHANGED <<events, books, hpc, faults>>
  BY <1>9 DEF OrderStep, WatchOrder, AttemptFails, PayCash, Expire, GiveUp
<1>10. ASSUME NEW p \in Payments, Pay(p) PROVE UNCHANGED <<events, books, hpc, faults>>
  BY <1>10 DEF Pay
<1>11. CASE CutShort
  <2>1. faults' = faults + 1 /\ UNCHANGED <<events, books>> BY <1>11 DEF CutShort
  <2>2. CASE UNCHANGED hpc
    <3>1. Lost' \subseteq Lost BY <1>1, <2>1, <2>2 DEF InHand
    <3> QED BY <2>1, <3>1
  <2>3. CASE \E h \in Handlers : Handle(h, [at |-> "idle"])
    <3>1. PICK h \in Handlers : Handle(h, [at |-> "idle"]) BY <2>3
    <3>2. \A p \in InHand : p \in InHand' \/ p = hpc[h].about BY <3>1, HandsAfterMove
    <3>3. Lost' \subseteq Lost \cup {hpc[h].about}
      BY <2>1, <3>2 DEF Lost, Reported, Booked
    <3> QED BY <2>1, <3>3
  <2> QED BY <1>11, <2>2, <2>3 DEF CutShort
<1>12. ASSUME NEW h \in Handlers, HandlerStep(h) PROVE faults' = faults
  BY <1>12 DEF HandlerStep, Receive, OpenCase, MatchPayment, TakeOffList, Settle,
     SettleFromLedger, Book
<1>13. CASE UNCHANGED vars BY <1>2, <1>13 DEF vars
<1> QED BY <1>2, <1>3, <1>4, <1>5, <1>6, <1>7, <1>8, <1>9, <1>10, <1>11, <1>12, <1>13
           DEF Next, HandlerStep

(* For any handlers, sweepers, orders and payments: money that was seen to *)
(* arrive is on the books or in somebody's hands, but for one payment at   *)
(* most for each handler cut short.                                        *)
THEOREM AlwaysLostOnlyByFault == Spec => []LostOnlyByFault
<1> DEFINE I == IsFiniteSet(Lost) /\ Cardinality(Lost) <= faults
<1>1. Init => I
  <2>1. Init => Lost = {} /\ faults = 0 BY DEF Init, Lost, Reported
  <2> QED BY <2>1, FS_EmptySet
<1>2. IntakeInv /\ I /\ [Next]_vars => I'
  <2> SUFFICES ASSUME IntakeInv, I, [Next]_vars PROVE I' OBVIOUS
  <2>1. faults \in Nat /\ Cardinality(Lost) \in Nat
    BY IntakeAssumption, FS_CardinalityType DEF IntakeInv, TypeOK
  <2>2. CASE Lost' \subseteq Lost /\ faults' = faults
    <3>1. IsFiniteSet(Lost') /\ Cardinality(Lost') <= Cardinality(Lost) /\ Cardinality(Lost') \in Nat
      BY <2>2, FS_Subset, FS_CardinalityType
    <3> QED BY <2>1, <2>2, <3>1
  <2>3. ASSUME NEW p, Lost' \subseteq Lost \cup {p}, faults' = faults + 1 PROVE I'
    <3> DEFINE more == Lost \cup {p}
    <3>1. IsFiniteSet(more) /\ Cardinality(more) <= Cardinality(Lost) + 1
      BY <2>1, FS_AddElement
    <3>2. /\ IsFiniteSet(Lost') /\ Cardinality(Lost') <= Cardinality(more)
          /\ Cardinality(Lost') \in Nat /\ Cardinality(more) \in Nat
      <4>1. Lost' \subseteq more BY <2>3
      <4> QED BY <3>1, <4>1, FS_Subset, FS_CardinalityType
    <3> QED BY <2>1, <2>3, <3>1, <3>2
  <2> QED BY <2>2, <2>3, LossStep
<1>3. I => LostOnlyByFault BY DEF LostOnlyByFault, Lost
<1> QED BY <1>1, <1>2, <1>3, IntakeInvAlways, PTL DEF Spec

-----------------------------------------------------------------------------
(* The intake implements DebtBook.                                         *)

(* Rows that come together are both new or both there.                     *)
LEMMA OpeningOpens ==
  ASSUME IntakeInv, NEW o \in Orders,
         ob'   = [ob EXCEPT ![o] = IF ob[o] = "none" THEN "OPEN" ELSE ob[o]],
         case' = [case EXCEPT ![o] = IF case[o] = "none" THEN "OPEN" ELSE case[o]]
  PROVE  Shared!Open(o) \/ UNCHANGED <<ob, case>>
<1>a. /\ ob \in [Orders -> {"none", "OPEN", "SETTLED"}]
      /\ case \in [Orders -> {"none", "OPEN"} \cup Closed]
      /\ ob[o] = "none" <=> case[o] = "none"
  BY DEF IntakeInv, TypeOK, RowsComeTogether
<1>1. CASE ob[o] = "none" BY <1>1, <1>a DEF Shared!Open
<1>2. CASE ob[o] # "none"
  <2>1. ob' = ob /\ case' = case BY <1>2, <1>a
  <2> QED BY <2>1
<1> QED BY <1>1, <1>2

LEMMA SettlingSettles ==
  ASSUME IntakeInv, NEW o \in Orders, ob[o] # "none", NEW s \in {"RECOVERED", "SELF_RECOVERED"},
         ob'   = [ob EXCEPT ![o] = "SETTLED"],
         case' = [case EXCEPT ![o] = IF case[o] = "OPEN" THEN s ELSE case[o]]
  PROVE  Shared!Settle(o)
<1>a. case \in [Orders -> {"none", "OPEN"} \cup Closed] BY DEF IntakeInv, TypeOK
<1>1. CASE case[o] = "OPEN"
  <2>1. case' = [case EXCEPT ![o] = s] BY <1>1
  <2> QED BY <1>1, <2>1 DEF Shared!Settle
<1>2. CASE case[o] # "OPEN"
  <2>1. case' = case BY <1>2, <1>a
  <2> QED BY <1>2, <2>1 DEF Shared!Settle
<1> QED BY <1>1, <1>2

LEMMA BooksStep ==
  ASSUME IntakeInv, [Next]_vars
  PROVE  Shared!Next \/ UNCHANGED <<ob, case>>
<1>1. ASSUME NEW h \in Handlers, OpenCase(h)
      PROVE  Shared!Next \/ UNCHANGED <<ob, case>>
  <2>1. hpc[h].about \in Orders BY <1>1, PlaceShape DEF OpenCase, IntakeInv
  <2> QED BY <1>1, <2>1, OpeningOpens DEF OpenCase, Shared!Next
<1>2. ASSUME NEW h \in Handlers, Settle(h) PROVE Shared!Next
  <2>1. hpc[h].match.debt \in Orders /\ ob[hpc[h].match.debt] # "none"
    BY <1>2 DEF Settle, IntakeInv, HandlersAreRight
  <2>2. PICK s \in {"RECOVERED", "SELF_RECOVERED"} :
          /\ ob'   = [ob EXCEPT ![hpc[h].match.debt] = "SETTLED"]
          /\ case' = [case EXCEPT ![hpc[h].match.debt] =
                        IF case[hpc[h].match.debt] = "OPEN" THEN s
                        ELSE case[hpc[h].match.debt]]
    BY <1>2 DEF Settle
  <2> QED BY <2>1, <2>2, SettlingSettles DEF Shared!Next
<1>3. ASSUME NEW h \in Handlers, SettleFromLedger(h) PROVE Shared!Next
  <2>1. PICK o \in cash :
          /\ case[o] # "none"
          /\ ob'   = [ob EXCEPT ![o] = "SETTLED"]
          /\ case' = [case EXCEPT ![o] = IF case[o] = "OPEN" THEN "RECOVERED" ELSE case[o]]
    BY <1>3 DEF SettleFromLedger
  <2>2. o \in Orders /\ ob[o] # "none"
    BY <2>1 DEF IntakeInv, TypeOK, RowsComeTogether
  <2> QED BY <2>1, <2>2, SettlingSettles DEF Shared!Next
<1>4. ASSUME NEW h \in Handlers, Receive(h) \/ MatchPayment(h) \/ TakeOffList(h) \/ Book(h)
      PROVE  UNCHANGED <<ob, case>>
  BY <1>4 DEF Receive, MatchPayment, TakeOffList, Book, debts
<1>5. ASSUME NEW s \in Sweepers, OpenAbandonedCase(s)
      PROVE  Shared!Next \/ UNCHANGED <<ob, case>>
  <2>1. spc[s].order \in Orders BY <1>5, SweepShape DEF OpenAbandonedCase, IntakeInv
  <2> QED BY <1>5, <2>1, OpeningOpens DEF OpenAbandonedCase, Shared!Next
<1>6. ASSUME NEW s \in Sweepers,
             ReadDue(s) \/ CheckSettled(s) \/ ResolveAbandoned(s) \/ SweepDone(s)
      PROVE  UNCHANGED <<ob, case>>
  BY <1>6 DEF ReadDue, CheckSettled, ResolveAbandoned, SweepDone, debts
<1>7. ASSUME NEW o \in Orders, GiveUp(o) PROVE Shared!Next
  BY <1>7 DEF GiveUp, Shared!Next, Shared!GiveUp
<1>8. ASSUME NEW o \in Orders, WatchOrder(o) \/ AttemptFails(o) \/ PayCash(o) \/ Expire(o)
      PROVE  UNCHANGED <<ob, case>>
  BY <1>8 DEF WatchOrder, AttemptFails, PayCash, Expire, debts
<1>9. ASSUME NEW p \in Payments, Pay(p) PROVE UNCHANGED <<ob, case>>
  BY <1>9 DEF Pay, debts
<1>10. CASE CutShort BY <1>10 DEF CutShort, debts
<1>11. CASE UNCHANGED vars BY <1>11 DEF vars
<1> QED BY <1>1, <1>2, <1>3, <1>4, <1>5, <1>6, <1>7, <1>8, <1>9, <1>10, <1>11
           DEF Next, HandlerStep, SweepStep, OrderStep

(* Every handler, every sweep and every fault of the intake is a step of   *)
(* DebtBook or none: what was read before another commit is still good for *)
(* the write that follows.                                                 *)
THEOREM IntakeAlwaysKeepsTheBooks == Spec => IntakeKeepsTheBooks
<1>1. Init => Shared!Init BY DEF Init, Shared!Init
<1>2. IntakeInv /\ [Next]_vars => [Shared!Next]_(Shared!vars)
  BY BooksStep DEF Shared!vars
<1> QED BY <1>1, <1>2, IntakeInvAlways, PTL DEF Spec, IntakeKeepsTheBooks, Shared!Spec

-----------------------------------------------------------------------------
(* TwoPercent(due) is the whole number nearest to 2% of the debt: nothing  *)
(* is nearer than half a paisa, and a half goes to the even side           *)
(* (round in _within).                                                     *)
LEMMA TwoPercentIsNearest ==
  ASSUME NEW due \in Nat
  PROVE  /\ TwoPercent(due) \in Nat
         /\ due - 25 <= 50 * TwoPercent(due) /\ 50 * TwoPercent(due) <= due + 25
         /\ (50 * TwoPercent(due) = due - 25 \/ 50 * TwoPercent(due) = due + 25)
              => TwoPercent(due) % 2 = 0
<1> DEFINE whole == due \div 50
           rest  == due % 50
<1>1. whole \in Nat /\ rest \in 0..49 /\ due = 50 * whole + rest
  OBVIOUS
<1>2. whole % 2 = 0 \/ (whole + 1) % 2 = 0
  BY <1>1
<1>3. TwoPercent(due) =
        IF rest < 25 \/ (rest = 25 /\ whole % 2 = 0) THEN whole ELSE whole + 1
  BY DEF TwoPercent
<1>4. CASE rest < 25
  <2> HIDE DEF whole, rest
  <2>1. TwoPercent(due) = whole
    BY <1>3, <1>4
  <2> QED BY <1>1, <1>4, <2>1
<1>5. CASE rest = 25 /\ whole % 2 = 0
  <2> HIDE DEF whole, rest
  <2>1. TwoPercent(due) = whole
    BY <1>3, <1>5
  <2> QED BY <1>1, <1>5, <2>1
<1>6. CASE ~(rest < 25 \/ (rest = 25 /\ whole % 2 = 0))
  <2> HIDE DEF whole, rest
  <2>1. TwoPercent(due) = whole + 1
    BY <1>3, <1>6
  <2>2. rest > 25 \/ (rest = 25 /\ (whole + 1) % 2 = 0)
    BY <1>1, <1>2, <1>6
  <2> QED BY <1>1, <2>1, <2>2
<1> QED BY <1>4, <1>5, <1>6

(* What "within 2%" comes to for whole paise (_within): a payment off by a *)
(* single paisa always is, one off by more than 2% and half a paisa never  *)
(* is, everything up to 2% less half a paisa is, and half of a debt of     *)
(* more than two paise is not that debt settling.                          *)
THEOREM ToleranceIsTwoPercent ==
  ASSUME NEW due \in Nat, NEW paid \in Nat, due > 0, paid > 0,
         NEW off \in Nat, off = due - paid \/ off = paid - due
  PROVE  /\ off <= 1 => Within(due, paid)
         /\ 50 * off <= due - 25 => Within(due, paid)
         /\ Within(due, paid) => off = 1 \/ 50 * off <= due + 25
         /\ due > 2 /\ 2 * paid <= due => ~Within(due, paid)
<1> DEFINE near == TwoPercent(due)
           room == IF near > 1 THEN near ELSE 1
<1>1. near \in Nat /\ due - 25 <= 50 * near /\ 50 * near <= due + 25
  BY TwoPercentIsNearest
<1>2. Within(due, paid) <=> due - paid <= room /\ paid - due <= room
  BY DEF Within
<1> HIDE DEF near
<1>3. Within(due, paid) <=> off <= room
  BY <1>1, <1>2
<1> QED BY <1>1, <1>3
=============================================================================
