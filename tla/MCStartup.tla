------------------------------- MODULE MCStartup -------------------------------
(* Startup on a small instance for TLC.                                      *)
EXTENDS Startup, TLC

CONSTANT Normal     \* the one address that is in its normal form

CONSTANT Blanks     \* an address of nothing but blanks

\* ADMIN_EMAIL may be given with capitals or spaces
MCNormalForm == [e \in Emails |-> IF e = Blanks THEN Blank ELSE Normal]

\* It is changed to another address
MCDistinct == [e \in Emails |-> e]

\* The servers are interchangeable.  Used in runs without liveness only.
Symmetry == Permutations(Servers)
=============================================================================
