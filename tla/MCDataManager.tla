---------------------------- MODULE MCDataManager ----------------------------
(* Instances of DataManager small enough for TLC.                          *)
EXTENDS DataManager, TLC

(* Nothing tells urls of the same kind apart, nor callers.                 *)
Symmetry == Permutations(Urls \ Large) \cup Permutations(Callers)

==============================================================================
