------------------------------ MODULE Matcher -------------------------------
(***************************************************************************)
(* Which debt a payment settles, and how sure we are: match_settlement of  *)
(* app/services/matcher.py.  Pure: the obligations and a payment in, a     *)
(* level and a debt out.                                                   *)
(*                                                                         *)
(* `rows` maps the ids a debt may have to the obligations table, with      *)
(* status "none" for an id that has no row; a payment is the ids in its    *)
(* payload, strongest first, its payer and its amount, 0 for none.         *)
(***************************************************************************)
EXTENDS Integers, Sequences, FiniteSets

Nobody == "nobody"      \* a field the payload or the row does not have
NoDebt == "no debt"

Result(level, d) == [level |-> level, debt |-> d]
Unmatched        == Result(0, NoDebt)

\* round(due * AMOUNT_TOLERANCE): 2%, an exact half to the even side.
TwoPercent(due) ==
  LET whole == due \div 50
      rest  == due % 50
  IN  IF rest < 25 \/ (rest = 25 /\ whole % 2 = 0) THEN whole ELSE whole + 1

Within(due, paid) ==
  /\ due > 0 /\ paid > 0
  /\ LET room == IF TwoPercent(due) > 1 THEN TwoPercent(due) ELSE 1
     IN  due - paid <= room /\ paid - due <= room

\* The ids of the payment that have a row.
Named(rows, pay) == {i \in DOMAIN pay.ids :
                       pay.ids[i] \in DOMAIN rows /\ rows[pay.ids[i]].status # "none"}

\* _open_obligations: unpaid and inside the recovery window.
OpenRows(rows, since) == {d \in DOMAIN rows :
                            rows[d].status = "OPEN" /\ rows[d].opened >= since}

Near(rows, ds, pay) == {d \in ds : Within(rows[d].due, pay.amount)}

OfPayer(rows, pay, since) ==
  {d \in OpenRows(rows, since) : pay.customer # Nobody /\ rows[d].customer = pay.customer}

\* The open debts of nearly this amount whose phone or email is the payer's.
Reached(rows, pay, since, field) ==
  {d \in Near(rows, OpenRows(rows, since), pay) :
     pay[field] # Nobody /\ rows[d][field] = pay[field]}

Oldest(rows, ds) == {d \in ds : \A e \in ds : rows[d].opened <= rows[e].opened}

(* The ladder.  The results are a set because "the oldest" of debts opened *)
(* at the same instant is whichever the table yields first.                *)
MatchSettlement(rows, pay, since) ==
  LET named == Named(rows, pay)
      mine  == OfPayer(rows, pay, since)
      close == Near(rows, mine, pay)
      phone == Reached(rows, pay, since, "contact")
      mail  == Reached(rows, pay, since, "email")
      alike == Near(rows, OpenRows(rows, since), pay)
  IN  IF named # {}
        THEN {Result(1, pay.ids[i]) : i \in {j \in named : \A k \in named : j <= k}}
      ELSE IF Cardinality(mine) = 1  THEN {Result(2, d) : d \in mine}
      ELSE IF Cardinality(close) = 1 THEN {Result(2, d) : d \in close}
      ELSE IF phone # {} THEN {Result(3, d) : d \in Oldest(rows, phone)}
      ELSE IF mail # {}  THEN {Result(3, d) : d \in Oldest(rows, mail)}
      ELSE IF Cardinality(alike) = 1 THEN {Result(4, d) : d \in alike}
      ELSE {Unmatched}
=============================================================================
