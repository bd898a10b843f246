---------------------------- MODULE MCLiveWorker ----------------------------
(* Instances of LiveWorker, with its refinement and invariants, for TLC. *)
EXTENDS LiveInvariant, TLC

OneCustomer == [d \in Debts |-> "c"]

\* Passes differ in nothing but their names.
AnyPass == Permutations(Passes)

NoPauses == {}
OnePause == {<<"action", "REMIND">>}
=============================================================================
