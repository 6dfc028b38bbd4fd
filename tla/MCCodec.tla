------------------------------- MODULE MCCodec -------------------------------
(* An instance of Codec small enough for TLC: bytes with all, no and some  *)
(* bits, which as characters are padding, a percent sign, and members of   *)
(* both alphabets.                                                         *)
EXTENDS Codec

==============================================================================
