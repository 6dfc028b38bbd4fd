------------------------------ MODULE MCService ------------------------------
(* An instance of Service small enough for TLC.                            *)
EXTENDS Service, TLC

Symmetry == Permutations(Urls)

==============================================================================
