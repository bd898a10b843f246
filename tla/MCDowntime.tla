----------------------------- MODULE MCDowntime -----------------------------
(* An instance of Downtime for TLC: outages that share a method.  Which of *)
(* them is which, and which of its copies a report comes as, decides       *)
(* nothing.                                                                *)
EXTENDS Downtime, TLC

OneMethod == [i \in Outages |-> "upi"]
AnyOrder  == Permutations(Outages) \cup Permutations(Copies)
=============================================================================
