---------------------------- MODULE MCAsyncWorker ----------------------------
(* Instances of AsyncWorker small enough for TLC.                          *)
EXTENDS AsyncWorker, TLC

(* Producers run the same code and no property names one of them.          *)
Symmetry == Permutations(Producers)

==============================================================================
