----------------------------- MODULE MCIdentity -----------------------------
(* Model checking of Identity on a four-bit integer. *)
EXTENDS Identity, TLC

MCRequested == {0, 1, 2, 7}

SessionSymmetry == Permutations(Session)
=============================================================================
