------------------------------- MODULE Intake -------------------------------
(***************************************************************************)
(* How debts get onto the books and off them: the webhook intake           *)
(* (app/controllers/ingest.py), the browser's reports that take the same   *)
(* path (app/api/checkout.py), the operator's ledger hook, and the         *)
(* abandoned-checkout sweeper (app/workers/sweeper.py), over the tables    *)
(* they share (app/repos/store.py).                                        *)
(*                                                                         *)
(* A debt has its order's id.  Webhooks are handled one at a time on the   *)
(* event loop; the browser's and the operator's requests and the sweeper   *)
(* run in threads.  Every commit is a step, and every read whose result is *)
(* used after another commit.  The gateway and the browser may report what *)
(* has happened at any time, in any order and more than once, or never.    *)
(*                                                                         *)
(* LiveWorker pursues the cases opened here.  Its share in them is left    *)
(* open: it may close a case at any time (GiveUp), and a settlement may or *)
(* may not find that the debtor was written to.                            *)
(***************************************************************************)
EXTENDS Matcher

CONSTANTS Orders, Payments,
          PaymentOf,   \* [Payments -> payments, with the order and ourLink]
          DebtOf,      \* [Orders -> what a row for it says of its debtor]
          Handlers,    \* of "hook", "browser", "ledger"
          Sweepers,    \* of "timer", "button"
          MaxFaults    \* bound on handlers and sweeps cut short

ASSUME IntakeAssumption ==
  /\ Handlers \subseteq {"hook", "browser", "ledger"}
  /\ Sweepers \subseteq {"timer", "button"}
  /\ MaxFaults \in Nat
  /\ Orders \cap Payments = {} /\ NoDebt \notin Orders
  /\ \A p \in Payments :
       /\ PaymentOf[p].order \in Orders /\ PaymentOf[p].ourLink \in BOOLEAN
       /\ PaymentOf[p].amount \in Nat

VARIABLES
  attempted,   \* the world: orders with a failed attempt
  money,       \* the world: a payment is "none", "authorized" or "captured"
  overdue,     \* the world: orders created ABANDON_MINUTES ago or longer
  cash,        \* the world: debts an operator knows to be paid
  events,      \* the dedupe keys in the events table
  checkouts,   \* checkouts.status, "none" before the row exists
  ob,          \* obligations.status, "none" before the row exists
  case,        \* cases.status, "none" before the row exists
  books,       \* the settlements table
  hpc,         \* where each handler is, with its local variables
  spc,         \* where each sweep is
  todo,        \* the checkouts a sweep has read and not yet seen to
  faults

world == <<attempted, money, overdue, cash>>
debts == <<ob, case>>
vars  == <<attempted, money, overdue, cash, events, checkouts, ob, case, books,
           hpc, spc, todo, faults>>

\* GIVEN_UP stands for WRITTEN_OFF and ESCALATED.
Closed     == {"RECOVERED", "SELF_RECOVERED", "GIVEN_UP"}
LedgerId   == [o \in Orders |-> <<"ledger", o>>]
PaymentIds == Payments \cup {LedgerId[o] : o \in Orders}
Results    == [level : 0..5, debt : Orders \cup {NoDebt}]

\* Mutant: a payment that is only held settles its debt as well.
BrowserKindAlwaysSettled(p) == "settled"

\* A browser's report of a payment: one that is only held is stored.
BrowserKind(p) == IF money[p] = "captured" THEN "settled" ELSE "stored"

(* What there is to report, to each handler: the dedupe key, what ingest   *)
(* makes of the event, and the order or payment it is about.  A browser's  *)
(* key is made of the payment id, whatever the payment's state was.        *)
Event(source, kind, about) == [key |-> <<source, about>>, kind |-> kind, about |-> about]

Reports ==
  [h \in {"hook", "browser", "ledger"} |->
     CASE h = "hook" ->
            {Event("failed", "failure", o) : o \in attempted}
            \cup {Event(source, "settled", p) :
                    source \in {"captured", "order_paid"},
                    p \in {q \in Payments : money[q] = "captured"}}
       [] h = "browser" ->
            {Event("browser", "failure", o) : o \in attempted}
            \cup {Event("browser", BrowserKind(p), p) : p \in {q \in Payments : money[q] # "none"}}
       [] OTHER -> {}]

Init ==
  /\ attempted = {} /\ overdue = {} /\ cash = {}
  /\ money = [p \in Payments |-> "none"]
  /\ events = {} /\ books = {} /\ faults = 0
  /\ checkouts = [o \in Orders |-> "none"]
  /\ ob = [o \in Orders |-> "none"] /\ case = [o \in Orders |-> "none"]
  /\ hpc = [h \in Handlers |-> [at |-> "idle"]]
  /\ spc = [s \in Sweepers |-> [at |-> "idle"]]
  /\ todo = [s \in Sweepers |-> {}]

Handle(h, place) == hpc' = [hpc EXCEPT ![h] = place]
Onward(h, at)    == Handle(h, [at |-> at, about |-> hpc[h].about, match |-> hpc[h].match])
Sweep(s, place)  == spc' = [spc EXCEPT ![s] = place]

-----------------------------------------------------------------------------
(* ingest: one event. *)

\* INSERT OR IGNORE on the dedupe key, and its commit, come before anything
\* is done about the event.  An event already there changes nothing.
Receive(h) ==
  /\ hpc[h].at = "idle"
  /\ \E e \in Reports[h] :
       /\ e.key \notin events
       /\ events' = events \cup {e.key}
       /\ IF e.kind = "stored" THEN UNCHANGED hpc
          ELSE Handle(h, [at |-> e.kind, about |-> e.about])
  /\ UNCHANGED <<world, checkouts, debts, books, spc, todo, faults>>

\* _open_case: the rows are inserted when they are new, in one commit.  On a
\* debt that has its case only the attempt count and the class change.
OpenCase(h) ==
  /\ hpc[h].at = "failure"
  /\ LET o == hpc[h].about
     IN  /\ ob'   = [ob EXCEPT ![o] = IF @ = "none" THEN "OPEN" ELSE @]
         /\ case' = [case EXCEPT ![o] = IF @ = "none" THEN "OPEN" ELSE @]
  /\ Handle(h, [at |-> "idle"])
  /\ UNCHANGED <<world, events, checkouts, books, spc, todo, faults>>

\* The obligations, of which some were opened before the recovery window.
Rows(old) == [o \in Orders |->
                [status   |-> ob[o],              opened |-> IF o \in old THEN -1 ELSE 0,
                 customer |-> DebtOf[o].customer, contact |-> DebtOf[o].contact,
                 email    |-> DebtOf[o].email,    due |-> DebtOf[o].due]]

\* _close_settled reads the obligations once, to match the payment.
MatchPayment(h) ==
  /\ hpc[h].at = "settled"
  /\ \E old \in SUBSET Orders :
       \E m \in MatchSettlement(Rows(old), PaymentOf[hpc[h].about], 0) :
          Handle(h, [at |-> "matched", about |-> hpc[h].about, match |-> m])
  /\ UNCHANGED <<world, events, checkouts, debts, books, spc, todo, faults>>

\* resolve_checkout moves a WATCHING row only.
Resolved(os, status) == [o \in Orders |-> IF o \in os /\ checkouts[o] = "WATCHING"
                                          THEN status ELSE checkouts[o]]

\* Mutant: an unmatched payment is not booked.
TakeOffListMatchedOnly(h) ==
  /\ hpc[h].at = "matched"
  /\ LET ids == PaymentOf[hpc[h].about].ids
     IN  checkouts' = Resolved({ids[i] : i \in DOMAIN ids}, "PAID")
  /\ IF hpc[h].match = Unmatched THEN Handle(h, [at |-> "idle"])
     ELSE Onward(h, "settling")
  /\ UNCHANGED <<world, events, debts, books, spc, todo, faults>>

\* Every id of the payment comes off the watch list, matched or not.
TakeOffList(h) ==
  /\ hpc[h].at = "matched"
  /\ LET ids == PaymentOf[hpc[h].about].ids
     IN  checkouts' = Resolved({ids[i] : i \in DOMAIN ids}, "PAID")
  /\ Onward(h, IF hpc[h].match = Unmatched THEN "booking" ELSE "settling")
  /\ UNCHANGED <<world, events, debts, books, spc, todo, faults>>

\* Mutant: a case is closed only when the recovery was ours.
SettleOnlyOurs(h) ==
  /\ hpc[h].at = "settling"
  /\ \E written \in BOOLEAN :
       LET d    == hpc[h].match.debt
           ours == PaymentOf[hpc[h].about].ourLink \/ written
       IN  /\ ob'   = [ob EXCEPT ![d] = "SETTLED"]
           /\ case' = [case EXCEPT ![d] = IF @ = "OPEN" /\ ours THEN "RECOVERED" ELSE @]
  /\ Onward(h, "booking")
  /\ UNCHANGED <<world, events, checkouts, books, spc, todo, faults>>

\* The debt is settled and an OPEN case closed, ours if the payment came
\* through our link or we had written to the debtor.
Settle(h) ==
  /\ hpc[h].at = "settling"
  /\ \E written \in BOOLEAN :
       LET d    == hpc[h].match.debt
           ours == PaymentOf[hpc[h].about].ourLink \/ written
       IN  /\ ob'   = [ob EXCEPT ![d] = "SETTLED"]
           /\ case' = [case EXCEPT ![d] = IF @ # "OPEN" THEN @
                                          ELSE IF ours THEN "RECOVERED" ELSE "SELF_RECOVERED"]
  /\ Onward(h, "booking")
  /\ UNCHANGED <<world, events, checkouts, books, spc, todo, faults>>

\* settle_from_ledger, up to its first commit.
SettleFromLedger(h) ==
  /\ h = "ledger" /\ hpc[h].at = "idle"
  /\ \E o \in cash :
       /\ case[o] # "none"
       /\ ob'   = [ob EXCEPT ![o] = "SETTLED"]
       /\ case' = [case EXCEPT ![o] = IF @ = "OPEN" THEN "RECOVERED" ELSE @]
       /\ Handle(h, [at |-> "booking", about |-> LedgerId[o], match |-> Result(5, o)])
  /\ UNCHANGED <<world, events, checkouts, books, spc, todo, faults>>

\* record_settlement: INSERT OR IGNORE on the payment id, last.
Book(h) ==
  /\ hpc[h].at = "booking"
  /\ books' = IF \E b \in books : b.payment = hpc[h].about THEN books
              ELSE books \cup {[payment |-> hpc[h].about, match |-> hpc[h].match]}
  /\ Handle(h, [at |-> "idle"])
  /\ UNCHANGED <<world, events, checkouts, debts, spc, todo, faults>>

-----------------------------------------------------------------------------
(* The watch list and the sweeper.                                         *)

\* watch_order: the merchant's call, INSERT OR IGNORE.
WatchOrder(o) ==
  /\ checkouts[o] = "none"
  /\ checkouts' = [checkouts EXCEPT ![o] = "WATCHING"]
  /\ UNCHANGED <<world, events, debts, books, hpc, spc, todo, faults>>

\* due_checkouts, read once per sweep.  The button may shorten the window.
ReadDue(s) ==
  /\ spc[s].at = "idle"
  /\ \E due \in {overdue, Orders} :
       /\ s = "timer" => due = overdue
       /\ todo' = [todo EXCEPT ![s] = {o \in due : checkouts[o] = "WATCHING"}]
       /\ todo'[s] # {}
  /\ Sweep(s, [at |-> "sweeping"])
  /\ UNCHANGED <<world, events, checkouts, debts, books, hpc, faults>>

\* Mutant: the checkout is marked before its case is there.
CheckSettledResolvesFirst(s) ==
  /\ spc[s].at = "sweeping"
  /\ \E o \in todo[s] :
       /\ todo' = [todo EXCEPT ![s] = @ \ {o}]
       /\ IF ob[o] = "SETTLED"
            THEN checkouts' = Resolved({o}, "PAID") /\ UNCHANGED spc
            ELSE Sweep(s, [at |-> "opening", order |-> o])
                 /\ checkouts' = Resolved({o}, "ABANDONED")
  /\ UNCHANGED <<world, events, debts, books, hpc, faults>>

\* Mutant: a settled debt is passed over.
CheckSettledNoResolve(s) ==
  /\ spc[s].at = "sweeping"
  /\ \E o \in todo[s] :
       /\ todo' = [todo EXCEPT ![s] = @ \ {o}]
       /\ IF ob[o] = "SETTLED" THEN UNCHANGED spc
          ELSE Sweep(s, [at |-> "opening", order |-> o])
  /\ UNCHANGED <<world, events, checkouts, debts, books, hpc, faults>>

\* One checkout of the list: a debt the ledger calls settled is resolved.
CheckSettled(s) ==
  /\ spc[s].at = "sweeping"
  /\ \E o \in todo[s] :
       /\ todo' = [todo EXCEPT ![s] = @ \ {o}]
       /\ IF ob[o] = "SETTLED"
            THEN checkouts' = Resolved({o}, "PAID") /\ UNCHANGED spc
            ELSE Sweep(s, [at |-> "opening", order |-> o]) /\ UNCHANGED checkouts
  /\ UNCHANGED <<world, events, debts, books, hpc, faults>>

\* Mutant: INSERT OR REPLACE, the case starts afresh.
OpenAbandonedAfresh(s) ==
  /\ spc[s].at = "opening"
  /\ LET o == spc[s].order
     IN  /\ ob'   = [ob EXCEPT ![o] = "OPEN"]
         /\ case' = [case EXCEPT ![o] = "OPEN"]
         /\ Sweep(s, [at |-> "opened", order |-> o])
  /\ UNCHANGED <<world, events, checkouts, books, hpc, todo, faults>>

\* _open_abandoned_case: the rows are inserted when they are new.
OpenAbandonedCase(s) ==
  /\ spc[s].at = "opening"
  /\ LET o == spc[s].order
     IN  /\ ob'   = [ob EXCEPT ![o] = IF @ = "none" THEN "OPEN" ELSE @]
         /\ case' = [case EXCEPT ![o] = IF @ = "none" THEN "OPEN" ELSE @]
         /\ Sweep(s, [at |-> "opened", order |-> o])
  /\ UNCHANGED <<world, events, checkouts, books, hpc, todo, faults>>

ResolveAbandoned(s) ==
  /\ spc[s].at = "opened"
  /\ checkouts' = Resolved({spc[s].order}, "ABANDONED")
  /\ Sweep(s, [at |-> "sweeping"])
  /\ UNCHANGED <<world, events, debts, books, hpc, todo, faults>>

SweepDone(s) ==
  /\ spc[s].at = "sweeping" /\ todo[s] = {}
  /\ Sweep(s, [at |-> "idle"])
  /\ UNCHANGED <<world, events, checkouts, debts, books, hpc, todo, faults>>

\* An exception (a locked database) or the end of the process.  What was
\* committed stays.
CutShort ==
  /\ faults < MaxFaults /\ faults' = faults + 1
  /\ \/ \E h \in Handlers : /\ hpc[h].at # "idle" /\ Handle(h, [at |-> "idle"])
                            /\ UNCHANGED <<spc, todo>>
     \/ \E s \in Sweepers : /\ spc[s].at # "idle" /\ Sweep(s, [at |-> "idle"])
                            /\ todo' = [todo EXCEPT ![s] = {}]
                            /\ UNCHANGED hpc
  /\ UNCHANGED <<world, events, checkouts, debts, books>>

-----------------------------------------------------------------------------
(* The world: customers, time, and the recovery path.                      *)

AttemptFails(o) == /\ o \notin attempted /\ attempted' = attempted \cup {o}
                   /\ UNCHANGED <<money, overdue, cash, events, checkouts, debts,
                                  books, hpc, spc, todo, faults>>

\* A payment is held first and captured later, or captured at once.
Pay(p) == /\ \/ money[p] = "none" /\ money' = [money EXCEPT ![p] = "authorized"]
             \/ money[p] # "captured" /\ money' = [money EXCEPT ![p] = "captured"]
          /\ UNCHANGED <<attempted, overdue, cash, events, checkouts, debts, books,
                         hpc, spc, todo, faults>>

PayCash(o) == /\ o \notin cash /\ cash' = cash \cup {o}
              /\ UNCHANGED <<attempted, money, overdue, events, checkouts, debts,
                             books, hpc, spc, todo, faults>>

Expire(o) == /\ o \notin overdue /\ overdue' = overdue \cup {o}
             /\ UNCHANGED <<attempted, money, cash, events, checkouts, debts, books,
                            hpc, spc, todo, faults>>

\* The live path closes a case in its own time.
GiveUp(o) == /\ case[o] # "none"
             /\ case' = [case EXCEPT ![o] = "GIVEN_UP"]
             /\ UNCHANGED <<world, events, checkouts, ob, books, hpc, spc, todo, faults>>

-----------------------------------------------------------------------------
HandlerStep(h) == \/ Receive(h) \/ OpenCase(h) \/ MatchPayment(h) \/ TakeOffList(h)
                  \/ Settle(h) \/ SettleFromLedger(h) \/ Book(h)

SweepStep(s) == \/ ReadDue(s) \/ CheckSettled(s) \/ OpenAbandonedCase(s)
                \/ ResolveAbandoned(s) \/ SweepDone(s)

OrderStep(o) == \/ WatchOrder(o) \/ AttemptFails(o) \/ PayCash(o) \/ Expire(o)
                \/ GiveUp(o)

Next == \/ \E h \in Handlers : HandlerStep(h)
        \/ \E s \in Sweepers : SweepStep(s)
        \/ \E o \in Orders : OrderStep(o)
        \/ \E p \in Payments : Pay(p)
        \/ CutShort

Spec == Init /\ [][Next]_vars

(* main.py sweeps every minute for as long as it is up, and time passes.   *)
FairSpec == /\ Spec
            /\ \A s \in Sweepers \cap {"timer"} : WF_vars(SweepStep(s))
            /\ \A o \in Orders : WF_vars(Expire(o))

-----------------------------------------------------------------------------
HandlerPlaces == [at : {"idle"}] \cup [at : {"failure"}, about : Orders]
                 \cup [at : {"settled"}, about : Payments]
                 \cup [at : {"matched", "settling"}, about : Payments, match : Results]
                 \cup [at : {"booking"}, about : PaymentIds, match : Results]
SweepPlaces   == [at : {"idle", "sweeping"}] \cup [at : {"opening", "opened"}, order : Orders]

TypeOK ==
  /\ attempted \subseteq Orders /\ overdue \subseteq Orders
  /\ cash \subseteq Orders
  /\ money \in [Payments -> {"none", "authorized", "captured"}]
  /\ events \subseteq {"failed", "captured", "order_paid", "browser"} \X (Orders \cup Payments)
  /\ checkouts \in [Orders -> {"none", "WATCHING", "PAID", "ABANDONED"}]
  /\ ob \in [Orders -> {"none", "OPEN", "SETTLED"}]
  /\ case \in [Orders -> {"none", "OPEN"} \cup Closed]
  /\ books \subseteq [payment : PaymentIds, match : Results]
  /\ hpc \in [Handlers -> HandlerPlaces] /\ spc \in [Sweepers -> SweepPlaces]
  /\ todo \in [Sweepers -> SUBSET Orders]
  /\ faults \in 0..MaxFaults

(* A settled debt has no open case, whatever order failures, settlements   *)
(* and sweeps arrive in: an open case on a settled debt would be decided   *)
(* ALREADY_SETTLED on every pass and never close.                          *)
SettledMeansClosed == \A o \in Orders : ob[o] = "SETTLED" => case[o] \in Closed

(* A checkout that is recorded as abandoned has its case: the case is      *)
(* committed before the checkout is resolved, so a sweep cut short between *)
(* the two is repeated and not forgotten.                                  *)
AbandonedHasCase == \A o \in Orders : checkouts[o] = "ABANDONED" => case[o] # "none"

(* Money that was seen to arrive is on the books, matched or not, or a     *)
(* handler has it in hand; each fault can lose one payment for good,       *)
(* because a redelivery is ignored as a duplicate.                         *)
Reported == {p \in Payments : <<"captured", p>> \in events \/ <<"order_paid", p>> \in events}
InHand   == {hpc[h].about : h \in {k \in Handlers : hpc[k].at # "idle"}}
Booked   == {b.payment : b \in books}
LostOnlyByFault == Cardinality(Reported \ (Booked \cup InHand)) <= faults

(* Only money that arrived closes a case as recovered: an operator's word  *)
(* or a captured payment, never one that is merely held.                   *)
RecoveredByMoney ==
  \A o \in Orders : case[o] \in {"RECOVERED", "SELF_RECOVERED"} =>
                      o \in cash \/ \E p \in Payments : money[p] = "captured"

(* A case that was closed stays closed, through late failures, redelivered *)
(* events, second sweeps and sweeps that were cut short.                   *)
CasesStayClosed == [][\A o \in Orders : case[o] \in Closed => case'[o] \in Closed]_vars

(* Every order on the watch list is taken off it in the end, paid or       *)
(* abandoned, however many sweeps are cut short.                           *)
WatchEnds == \A o \in Orders : checkouts[o] = "WATCHING" ~> checkouts[o] # "WATCHING"

Shared == INSTANCE DebtBook WITH Debts <- Orders, ob <- ob, case <- case

(* The intake keeps what the live path relies on: a handler settles a row  *)
(* that it read three commits earlier, a sweep opens a case for a checkout *)
(* that may have been paid meanwhile, and yet row and case agree.          *)
IntakeKeepsTheBooks == Shared!Spec

-----------------------------------------------------------------------------
(* What the code's comments and tests say, as properties that the runs of  *)
(* the project's findings find violated.                                   *)

(* matcher.py: levels 1 and 2 are certain.  A debt is settled at them only *)
(* by a payment for that debt.                                             *)
CertainMatchIsRight ==
  \A b \in books : b.match.level \in {1, 2} => PaymentOf[b.payment].order = b.match.debt

(* test_abandonment.py: a paid order never becomes a case.  The sweeper    *)
(* opens no case for a checkout that is marked PAID.                       *)
PaidOrderIsNotSwept ==
  [][\A o \in Orders : case[o] = "none" /\ checkouts[o] = "PAID"
        => \A s \in Sweepers : ~(spc[s].at = "opening" /\ spc'[s].at = "opened"
                                 /\ spc[s].order = o)]_vars
=============================================================================
