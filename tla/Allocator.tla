----------------------------- MODULE Allocator -----------------------------
(***************************************************************************)
(* allocate (app/domain/allocator.py): the contact budget of one tick.     *)
(* `proposals` maps cases, which are numbered in the order of the batch,   *)
(* to decisions; `ev` to the expected value of the decision's first        *)
(* candidate.  Every action that contacts somebody uses one contact        *)
(* (contacts_used in config/default.yaml), the others none.                *)
(***************************************************************************)
EXTENDS Integers, FiniteSets

CONSTANT Budget                     \* global_contact_budget_per_tick
ASSUME BudgetAssumption == Budget \in Nat

Contenders(proposals, contacts) ==
  {c \in DOMAIN proposals : proposals[c].action \in contacts}

\* The contenders that come before c: richer ones, and equals earlier in the batch.
AheadOf(c, contenders, ev) ==
  {b \in contenders : ev[b] > ev[c] \/ (ev[b] = ev[c] /\ b < c)}

Allocate(proposals, ev, contacts) ==
  LET contenders == Contenders(proposals, contacts)
      loses(c)   == /\ c \in contenders
                    /\ Cardinality(AheadOf(c, contenders, ev)) >= Budget
  IN  [c \in DOMAIN proposals |->
         IF loses(c) THEN [proposals[c] EXCEPT !.action = "WAIT"] ELSE proposals[c]]
=============================================================================
