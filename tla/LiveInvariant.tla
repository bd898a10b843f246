--------------------------- MODULE LiveInvariant ----------------------------
(***************************************************************************)
(* The inductive invariants behind LiveWorker's safety.  Hands and those   *)
(* of the first part hold for any number of passes; the rest describes a   *)
(* single pass.                                                            *)
(***************************************************************************)
EXTENDS LiveRefinement

\* Where a pass has a row in hand.
AtRow == {"apply", "climb"}

(* What a pass holds exists, and it holds rows to decide on and actions to *)
(* execute in the matching half of the pass only.                          *)
Hands ==
  \A w \in Passes :
    /\ HandOf(w) \subseteq Used
    /\ todo[w] # {} => pc[w].at \in {"deciding"} \cup AtRow
    /\ queue[w] # {} => pc[w].at \in {"executing"} \cup AtId

(* A case the pass has still to act on has nothing alive, and each case is *)
(* in its hands once.                                                      *)
RowsAreFree ==
  \A w \in Passes :
    /\ \A r \in todo[w] : Live(r.debt) = {}
    /\ \A r, q \in todo[w] : r.debt = q.debt => r = q
    /\ pc[w].at = "apply" => Live(pc[w].row.debt) = {}
    /\ pc[w].at \in AtRow => \A r \in todo[w] : r.debt # pc[w].row.debt

(* An action in the pass's hands, alive or cancelled meanwhile, is the     *)
(* only one of its case that is in hand or alive.                          *)
HandsAreAlone ==
  \A w \in Passes : \A i \in HandOf(w) :
    /\ \A j \in HandOf(w) : act[i].debt = act[j].debt => i = j
    /\ Live(act[i].debt) \subseteq {i}

(* The rung a pass read is the case's rung until the pass writes it.       *)
RowsAreCurrent ==
  \A w \in Passes :
    /\ \A r \in todo[w] : r.rung = rung[r.debt]
    /\ pc[w].at \in AtRow => pc[w].row.rung = rung[pc[w].row.debt]

(* The inductive invariant for one pass: what it read about a case when it *)
(* began still describes that case when it writes, because only the pass   *)
(* itself makes an action come alive.                                      *)
OnePassInv == /\ TypeOK /\ Hands /\ RowsAreFree /\ HandsAreAlone /\ OneLiveAction
              /\ RowsAreCurrent

-----------------------------------------------------------------------------
(* Any number of passes.                                                   *)

(* What a pass has taken out of its queue is not in it, and is not PENDING *)
(* once it is marked: nothing becomes PENDING a second time.               *)
HandsMoveOn ==
  \A w \in Passes :
    /\ pc[w].at \in AtId => pc[w].id \notin queue[w]
    /\ pc[w].at \in AtId \ {"cleared"} => act[pc[w].id].status # "PENDING"

(* What execute_due let through: PassKeepsItsOrders, from the look at the  *)
(* pauses on.                                                              *)
OrdersKept ==
  \A w \in Passes :
    pc[w].at \in {"cleared", "calling", "minting", "sending", "recording"}
      => ~BlocksAction(held[w].pauses, act[pc[w].id].type)

(* A pass that has read a case and may still schedule for it, once.        *)
Claims(w, d) == \/ \E r \in todo[w] : r.debt = d
                \/ pc[w].at = "apply" /\ pc[w].row.debt = d

RowsOnce ==
  \A w \in Passes :
    /\ \A r, q \in todo[w] : r.debt = q.debt => r = q
    /\ pc[w].at \in AtRow => \A r \in todo[w] : r.debt # pc[w].row.debt

(* The actions `made` of d were scheduled since it last had nothing alive, *)
(* by[i] being the pass that made i.  Each pass makes one at most, and one *)
(* that has made one holds no older action of d that it could bring back.  *)
Generation(d, made, by) ==
  /\ PendingOf(d) \subseteq made
  /\ \A i, j \in made : by[i] = by[j] => i = j
  /\ \A i \in made : /\ ~Claims(by[i], d)
                      /\ \A j \in HandOf(by[i]) : act[j].debt = d => j \in made

Generations ==
  \A d \in Debts : \E made \in SUBSET Used : \E by \in [made -> Passes] :
    Generation(d, made, by)

\* Only the sandbox leaves an action UNKNOWN.
NothingUnknown ==
  /\ mode # "sandbox"
  /\ \A w \in Passes : held[w].port # "sandbox"
  /\ \A i \in Used : act[i].status # "UNKNOWN"

(* The passes that are about to record a message on d.                     *)
Recording(d) == {w \in Passes : pc[w].at = "recording" /\ act[pc[w].id].debt = d}

\* Up to the making of a link, and up to the sending of the message.
ToMint == {"cleared", "calling", "minting"}
ToSend == ToMint \cup {"sending"}

On(w, d, places) == pc[w].at \in places /\ act[pc[w].id].debt = d

(* Pass w is past the message of action i, and will send it no more.       *)
SpentFor(w, i) == /\ act[i].status # "PENDING" /\ i \notin queue[w]
                  /\ ~(pc[w].at \in ToSend /\ pc[w].id = i)

(* Each message is one pass's for one action.                              *)
SentFor(d)   == {wi \in Passes \X ActionsOf(d) : SpentFor(wi[1], wi[2])}
SentByEach   == \A d \in Debts : sent[d] <= Cardinality(SentFor(d))

(* Once the merchant's order is paid, no further pass gets past its        *)
(* re-check: the messages that left late and those that still may are one  *)
(* for each pass.                                                          *)
Senders(d)   == {w \in Passes : held[w].port # "sandbox" /\ On(w, d, ToSend)}
LateByEach   == \A d \in Debts :
  /\ late[d] > 0 => KnownPaid(d)
  /\ route[d] = "order" => late[d] + Cardinality(Senders(d)) <= Cardinality(Passes)

-----------------------------------------------------------------------------
(* One pass.  A message on d is ahead while a link action is decided for   *)
(* it, waits, or is in hand and not past the given places.                 *)
Applying(w, d)   == pc[w].at = "apply" /\ pc[w].action \notin Terminal /\ pc[w].row.debt = d
Queued(w, d)     == \E i \in queue[w] : act[i].debt = d

Ahead(d, places) ==
  \/ PendingOf(d) # {}
  \/ \E w \in Passes : Applying(w, d) \/ Queued(w, d) \/ On(w, d, places)

(* A decision that is carried out was right when it was made and is above  *)
(* the rung it was made on.                                                *)
DecidedAbove ==
  \A w \in Passes :
    /\ pc[w].at \in AtRow /\ pc[w].action \notin Terminal => RungOf[pc[w].action] > pc[w].row.rung
    /\ pc[w].at = "climb" => pc[w].action \notin Terminal

(* The rows of a debt and of its case are inserted together, the customer  *)
(* paid before the books say so, and a pass holds rows of cases only.      *)
Books ==
  /\ \A d \in Debts : /\ ob[d] = "none" <=> case[d] = "none"
                      /\ ob[d] = "SETTLED" => route[d] # "unpaid"
  /\ \A w \in Passes : /\ \A r \in todo[w] : case[r.debt] # "none"
                       /\ pc[w].at \in AtRow => case[pc[w].row.debt] # "none"

(* A link that is live on a settled debt was made after the settlement, by *)
(* the one action that was under way then: nothing else is ahead.          *)
SettledLinksAreLast ==
  \A d \in Debts : ob[d] = "SETTLED" /\ (\E l \in links : l[1] = d) => ~Ahead(d, ToMint)

Sending(d, places) == IF \E w \in Passes : On(w, d, places) THEN 1 ELSE 0

SelfRecoveredCount ==
  \A d \in Debts : case[d] = "SELF_RECOVERED" =>
     ob[d] = "SETTLED" /\ sent[d] + Sending(d, {"minting", "sending"}) <= 1 + faults

(* The sandbox makes no link and sends no message.                         *)
SandboxIsSilent ==
  \A w \in Passes : pc[w].at \in {"minting", "sending"} => held[w].port # "sandbox"

(* After a payment of the merchant's order no action gets past the         *)
(* re-check, after any other no link is made anew.                         *)
Sends(d) == IF \E w \in Passes : held[w].port # "sandbox" /\ On(w, d, ToSend) THEN 1 ELSE 0

LateCount ==
  \A d \in Debts :
    /\ late[d] > 0 => KnownPaid(d)
    /\ route[d] = "order" => late[d] + Sends(d) <= 1
    /\ KnownPaid(d) /\ route[d] # "order" => late[d] + Sending(d, {"minting", "sending"}) <= 1

(* A case the engine closed is out of everybody's hands, and stays so.     *)
ClosedIsQuiet ==
  \A d \in Debts : case[d] \in {"WRITTEN_OFF", "ESCALATED"} =>
     /\ ~Ahead(d, AtId)
     /\ \A w \in Passes : /\ \A r \in todo[w] : r.debt # d
                          /\ pc[w].at \in AtRow => pc[w].row.debt # d

HumanCount ==
  /\ \A d \in Debts : aged[d] > 0 => d \in lapsed
  /\ \A d \in Debts : case[d] = "ESCALATED" => sent[d] < MaxContacts7d + faults
  /\ \A w \in Passes : pc[w].at = "apply" /\ pc[w].action = "HUMAN" =>
       sent[pc[w].row.debt] < MaxContacts7d + faults

(* The customer's debts with a message ahead, or one that has left and is  *)
(* not counted yet.                                                        *)
DebtsOf(c)     == {e \in Debts : CustomerOf[e] = c}
Uncounted(c)   == {e \in DebtsOf(c) : Ahead(e, ToSend \cup {"recording"})}
CapCount ==
  \A d \in Debts : LET c == CustomerOf[d]
                   IN  Recent(c) + Cardinality(Uncounted(c))
                         <= MaxContacts7d - 1 + Cardinality(DebtsOf(c))

(* An action that no pass will send a message for any more.                *)
Spent(i) == /\ act[i].status # "PENDING"
            /\ \A w \in Passes : /\ i \notin queue[w]
                                 /\ pc[w].at \in ToSend => pc[w].id # i

(* Each message is a spent action's own.                                   *)
SentBySpent ==
  \A d \in Debts : sent[d] <= Cardinality({i \in ActionsOf(d) : Spent(i)})

SameKind(i, j) == act[i].debt = act[j].debt /\ act[i].type = act[j].type

(* The actions `repeats` were scheduled a second time, a fault for each;   *)
(* of any kind there is one other at most, and it is at or below the       *)
(* case's rung once the pass has climbed.                                  *)
RepeatsAre(repeats) ==
  /\ repeats \subseteq Used /\ IsFiniteSet(repeats) /\ Cardinality(repeats) <= faults
  /\ \A i, j \in Used \ repeats : SameKind(i, j) => i = j
  /\ \A i \in Used \ repeats :
       \/ RungOf[act[i].type] <= rung[act[i].debt]
       \/ \E w \in Passes : /\ pc[w].at = "climb" /\ pc[w].row.debt = act[i].debt
                            /\ pc[w].action = act[i].type

(* The actions `dupes` sent a dry run's link; the dry run's own action of  *)
(* their kind is another one, and is over.                                 *)
Maker(dupes, d, a) ==
  \E j \in Used \ dupes : Spent(j) /\ act[j].debt = d /\ act[j].type = a
DupesAre(dupes) ==
  /\ \A i \in dupes : Spent(i)
  /\ \A l \in links : l[3] => Maker(dupes, l[1], l[2])
  /\ \A w \in Passes : pc[w].at = "sending" /\ pc[w].stub =>
       Maker(dupes, act[pc[w].id].debt, act[pc[w].id].type)

RepeatsByFault ==
  \E repeats \in SUBSET Used : RepeatsAre(repeats) /\
    \E dupes \in SUBSET repeats : DupesAre(dupes) /\ duds <= Cardinality(dupes)
=============================================================================
