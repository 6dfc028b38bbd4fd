----------------------------- MODULE MCThreadPool -----------------------------
(* Instances of ThreadPool small enough for TLC.                           *)
EXTENDS ThreadPool, TLC

(* Workers run the same code, and so do clients; no property names one.    *)
Symmetry == Permutations(Workers) \cup Permutations(Clients)

==============================================================================
