------------------------------ MODULE LogMessage ------------------------------
(***************************************************************************)
(* Log messages as the sinks and the backup see them: the text that        *)
(* LogMessage::format returns (log_src/Message.hpp), a unit that nothing   *)
(* but the network takes apart.  It has a header, so it is never empty.    *)
(***************************************************************************)
EXTENDS Naturals

CONSTANTS
  Msg,          (* the messages                                          *)
  Bytes         (* the length of each                                    *)

ASSUME MessageAssumption == Bytes \in [Msg -> Nat \ {0}]

==============================================================================
