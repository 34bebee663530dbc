-------------------------------- MODULE MCAccess --------------------------------
(* Access on a small instance for TLC.                                       *)
EXTENDS Access, TLC

\* A name that no bucket of the instance has
CONSTANT Elsewhere

\* Keys for every bucket and for none of those there are
MCScopes == {{Elsewhere, AnyBucket}, {Elsewhere}}

\* The requests are interchangeable.
Symmetry == Permutations(Requests)
=============================================================================
