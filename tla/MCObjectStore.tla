----------------------------- MODULE MCObjectStore -----------------------------
(* ObjectStore on a small instance for TLC.                                  *)
EXTENDS ObjectStore, TLC

\* The requests are interchangeable.  Used in runs without liveness only.
Symmetry == Permutations(Requests)
=============================================================================
