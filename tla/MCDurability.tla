----------------------------- MODULE MCDurability -----------------------------
(* Durability on a small instance for TLC.                                   *)
EXTENDS Durability, TLC

\* The requests are interchangeable.
Symmetry == Permutations(Requests)
=============================================================================
