----------------------------- MODULE AsyncBuffer -----------------------------
(***************************************************************************)
(* The growable byte buffer mylog::Buffer (log_src/AsyncBuffer.hpp).       *)
(*                                                                         *)
(* A buffer is a record: its capacity in bytes, the write position and the *)
(* log messages written since the last Reset, oldest first.  read_pos_ is  *)
(* not a field: the constructor and Reset set it to 0, Swap exchanges two  *)
(* zeroes and nothing else assigns it, so every occurrence of it is 0.     *)
(*                                                                         *)
(* Positions are integers here and size_t in the code.  They differ only   *)
(* once write_pos has passed size, that is after Push has copied past the  *)
(* end of the vector; InBounds(b) says that this has not happened.         *)
(***************************************************************************)
EXTENDS Integers, Sequences

CONSTANTS
  BufferSize,     (* initial capacity of a buffer                  *)
  Threshold,      (* capacity from which the growth is linear      *)
  LinearGrowth    (* bytes added by one step of linear growth      *)

(* The three values are unsigned entries of config.conf; each is 0 when the *)
(* entry or the file is missing.                                            *)
ASSUME ConfigAssumption ==
  /\ BufferSize \in Nat
  /\ Threshold \in Nat
  /\ LinearGrowth \in Nat

BufferOf(Msg) == [size : Nat, write_pos : Nat, data : Seq(Msg)]

NewBuffer == [size |-> BufferSize, write_pos |-> 0, data |-> << >>]

IsEmpty(b) == b.write_pos = 0

WriteableSize(b) == b.size - b.write_pos

InBounds(b) == b.write_pos <= b.size

------------------------------------------------------------------------------

(* Faulty: linear growth at the threshold replaces the capacity instead of *)
(* being added to it.                                                      *)
ToBeEnoughReplaces(b, len) ==
  IF len < WriteableSize(b)     THEN b.size
  ELSE IF b.size < Threshold    THEN b.size + b.size
                                ELSE LinearGrowth

(* The capacity after one growth step, taken when len does not leave at    *)
(* least one free byte: it doubles below the threshold and grows linearly  *)
(* from there on.                                                          *)
ToBeEnough(b, len) ==
  IF len < WriteableSize(b)     THEN b.size
  ELSE IF b.size < Threshold    THEN b.size + b.size
                                ELSE LinearGrowth + b.size

(* Faulty: the copy goes to the start of the vector, in front of the rest. *)
PushAtFront(b, m) ==
  [ size      |-> ToBeEnough(b, m.len),
    write_pos |-> b.write_pos + m.len,
    data      |-> << m >> \o b.data ]

(* Make room, copy the message behind what is there, advance write_pos_.   *)
Push(b, m) ==
  [ size      |-> ToBeEnough(b, m.len),
    write_pos |-> b.write_pos + m.len,
    data      |-> Append(b.data, m) ]

Reset(b) == [size |-> b.size, write_pos |-> 0, data |-> << >>]

(* A message of length len is sure to fit an in-bounds buffer after one    *)
(* growth step, whatever the write position is.                            *)
OneStepSuffices(len) ==
  /\ len <= BufferSize
  /\ len <= LinearGrowth

==============================================================================
