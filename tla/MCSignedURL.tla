------------------------------ MODULE MCSignedURL ------------------------------
(* SignedURL on a small instance for TLC.                                    *)
EXTENDS SignedURL, TLC

\* A lifetime of one tick, and one that is over before it begins
MCLifetimes == {-1, 1}
MCOneHour == 2

\* The requests and the tokens are interchangeable (runs without liveness)
Symmetry == Permutations(Requests) \cup Permutations(Tokens)
=============================================================================
