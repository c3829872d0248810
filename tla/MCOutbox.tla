------------------------------ MODULE MCOutbox ------------------------------
(* Model values and symmetry for the runs of Outbox.                         *)
EXTENDS Outbox, TLC

Symmetry == Permutations(Messages) \cup Permutations(Transitions)
=============================================================================
