------------------------------- MODULE LogPipe -------------------------------
(***************************************************************************)
(* What an asynchronous log worker promises about the messages it accepts, *)
(* with no threads, locks or buffers in sight: accepted messages leave in  *)
(* the order in which they entered, each exactly once, in batches cut from *)
(* the head of the pipe.  The pipe is sealed when its last batch is cut; a *)
(* lossless pipe accepts nothing after that, so nothing can be stranded.   *)
(***************************************************************************)
EXTENDS Naturals, Sequences

CONSTANTS
  Msg,        (* the messages                                        *)
  Lossless    (* TRUE: a sealed pipe refuses further messages        *)

VARIABLES
  pipe,       (* accepted and not yet written out, oldest first      *)
  out,        (* written out, oldest first                           *)
  sealed      (* the last batch has been cut                         *)

vars == << pipe, out, sealed >>

Init ==
  /\ pipe = << >>
  /\ out = << >>
  /\ sealed = FALSE

Accept(m) ==
  /\ ~(Lossless /\ sealed)
  /\ pipe' = Append(pipe, m)
  /\ UNCHANGED << out, sealed >>

Deliver(n) ==
  /\ out' = out \o SubSeq(pipe, 1, n)
  /\ pipe' = SubSeq(pipe, n + 1, Len(pipe))
  /\ UNCHANGED sealed

Seal ==
  /\ sealed' = TRUE
  /\ UNCHANGED << pipe, out >>

Next ==
  \/ \E m \in Msg : Accept(m)
  \/ \E n \in 0 .. Len(pipe) : Deliver(n)
  \/ Seal

Spec == Init /\ [][Next]_vars

==============================================================================
