------------------------------- MODULE MCClient -------------------------------
(* Client on a small instance for TLC.                                       *)
EXTENDS Client, TLC

\* Two paths with one base name
MCBase == [f \in Files |-> CHOOSE k \in Keys : TRUE]

\* The commands are interchangeable, and so are the files.
Symmetry == Permutations(Commands) \cup Permutations(Files)
=============================================================================
