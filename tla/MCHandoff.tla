------------------------------ MODULE MCHandoff ------------------------------
(* Model values and symmetry for the runs of Handoff.                        *)
EXTENDS HandoffInvariant, TLC

Symmetry == Permutations(Transitions)
=============================================================================
