----------------------------- MODULE MCServices -----------------------------
(* Services for TLC: addresses and keys are interchangeable. *)
EXTENDS Services, TLC

Symmetry == Permutations(Email) \cup Permutations(Key)
=============================================================================
