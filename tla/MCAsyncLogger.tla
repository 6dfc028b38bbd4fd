---------------------------- MODULE MCAsyncLogger ----------------------------
(* An instance of AsyncLogger small enough for TLC.                        *)
EXTENDS AsyncLogger

CONSTANTS e1, i1, i2, c1, c2

(* One thread logs an error, which fills a rolling file alone, and then    *)
(* another message; a second thread logs a third one.                      *)
MCBytes == [m \in Msg |-> IF m = e1 THEN 2 ELSE 1]
MCLogCalls == [c \in Clients |-> IF c = c1 THEN << e1, i1 >> ELSE << i2 >>]
MCFlushes == << "stdout", "file", "roll" >>

==============================================================================
