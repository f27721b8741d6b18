---------------------------- MODULE MCSmpClient ----------------------------
(* Small instances of SmpClient for TLC. *)
EXTENDS SmpClient, TLC

MCTimeouts == {1}

\* Keys are only compared for equality.
Symmetry == Permutations(Keys)
=============================================================================
