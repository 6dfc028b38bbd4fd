--------------------------- MODULE AsyncLoggerProofs ---------------------------
(***************************************************************************)
(* Theorems about AsyncLogger, for any threads, messages, sinks and pool.  *)
(***************************************************************************)
EXTENDS AsyncLogger, LogFlushProofs

------------------------------------------------------------------------------
(* What reaches a file *)

(* Each message of g is one of f, or of a batch b.                         *)
ComesFrom(g, f, b) ==
  \A i \in 1 .. Len(g) :
    \/ \E k \in 1 .. Len(f) : g[i] = f[k]
    \/ \E k \in 1 .. Len(b) : g[i] = b[k]

(* A sequence and its prefixes come from it.                               *)
LEMMA PrefixComesFrom ==
  ASSUME NEW f \in Seq(Msg), NEW g \in Seq(Msg), NEW b, Len(g) <= Len(f),
         \A i \in 1 .. Len(g) : g[i] = f[i]
  PROVE  ComesFrom(g, f, b)
BY DEF ComesFrom

(* What a write appends comes from the batch.                              *)
LEMMA AppendComesFrom ==
  ASSUME NEW f \in Seq(Msg), NEW b \in Seq(Msg), NEW j \in 0 .. Len(b)
  PROVE  ComesFrom(f \o SubSeq(b, 1, j), f, b)
<1> DEFINE part == SubSeq(b, 1, j)
           g == f \o part
<1>1. part \in Seq(Msg) /\ Len(part) = j /\ \A i \in 1 .. j : part[i] = b[i]
  OBVIOUS
<1>2. Len(f) \in Nat /\ Len(b) \in Nat /\ j \in Nat /\ j <= Len(b)
  OBVIOUS
<1> HIDE DEF part
<1>3. /\ Len(g) = Len(f) + j
      /\ \A i \in 1 .. Len(g) : g[i] = IF i <= Len(f) THEN f[i] ELSE part[i - Len(f)]
  BY <1>1
<1> HIDE DEF g
<1>4. SUFFICES ASSUME NEW i \in 1 .. Len(g)
               PROVE  \/ \E k \in 1 .. Len(f) : g[i] = f[k]
                      \/ \E k \in 1 .. Len(b) : g[i] = b[k]
  BY DEF ComesFrom, g, part
<1>5. CASE i <= Len(f)
  BY <1>2, <1>3, <1>5
<1>6. CASE ~(i <= Len(f))
  <2>1. i - Len(f) \in 1 .. j
    BY <1>2, <1>3, <1>6
  <2>2. g[i] = b[i - Len(f)] /\ i - Len(f) \in 1 .. Len(b)
    BY <1>1, <1>2, <1>3, <1>6, <2>1
  <2>3. QED
    BY <2>2
<1>7. QED
  BY <1>5, <1>6

(* No step but a write adds to a file: a prefix of what was in it is left.  *)
LEMMA DataLeft ==
  ASSUME FlushInv,
         FlushStdout \/ FlushNoFile \/ InitLogFile \/ Sync \/ FlushFault \/ CloseAll,
         NEW n \in Names
  PROVE  /\ files[n].data \in Seq(Msg) /\ files'[n].data \in Seq(Msg)
         /\ Len(files'[n].data) <= Len(files[n].data)
         /\ \A i \in 1 .. Len(files'[n].data) : files'[n].data[i] = files[n].data[i]
<1>1. /\ files \in [Names -> File] /\ \A k \in Names : GoodFile(files[k])
      /\ fs_ \in [Sinks -> Names \cup {Null}]
  BY DEF FlushInv, FilesTypeOK, GoodFile
<1>2. files[n].data \in Seq(Msg)
  BY <1>1 DEF File
<1>3. ASSUME files'[n].data = files[n].data
      PROVE  /\ files'[n].data \in Seq(Msg)
             /\ Len(files'[n].data) <= Len(files[n].data)
             /\ \A i \in 1 .. Len(files'[n].data) : files'[n].data[i] = files[n].data[i]
  BY <1>2, <1>3
<1>4. ASSUME Left(files[n], files'[n])
      PROVE  /\ files'[n].data \in Seq(Msg)
             /\ Len(files'[n].data) <= Len(files[n].data)
             /\ \A i \in 1 .. Len(files'[n].data) : files'[n].data[i] = files[n].data[i]
  BY <1>4 DEF Left, GoodFile, File
<1>5. CASE FlushStdout \/ FlushNoFile
  BY <1>2, <1>3, <1>5 DEF FlushStdout, FlushNoFile
<1>6. CASE InitLogFile
  <2>1. CASE UNCHANGED files
    BY <1>2, <1>3, <2>1
  <2>2. CASE Close({fs_["roll"]} \ {Null})
    <3>1. {fs_["roll"]} \ {Null} \subseteq Names
      BY <1>1 DEF Sinks
    <3>2. Left(files[n], files'[n])
      BY <1>1, <2>2, <3>1, CloseLeft
    <3>3. QED
      BY <1>2, <1>4, <3>2
  <2>3. QED
    BY <1>6, <2>1, <2>2 DEF InitLogFile, OpenNext, OpenFailed
<1>7. CASE Sync
  <2>1. PICK k : \E d : files' = [files EXCEPT ![fs_[Current]].os = k, ![fs_[Current]].disk = d]
    BY <1>7 DEF Sync
  <2>2. PICK d : files' = [files EXCEPT ![fs_[Current]].os = k, ![fs_[Current]].disk = d]
    BY <2>1
  <2>3. files'[n].data = files[n].data
    BY <1>1, <2>2 DEF File
  <2>4. QED
    BY <1>2, <1>3, <2>3
<1>8. CASE CloseAll
  <2>1. Close(Opened) /\ Opened \subseteq Names
    BY <1>1, <1>8 DEF CloseAll, Opened
  <2>2. Left(files[n], files'[n])
    BY <1>1, <2>1, CloseLeft
  <2>3. QED
    BY <1>2, <1>4, <2>2
<1>9. CASE FlushFault
  <2>1. PICK safe \in {[k \in Opened |-> files[k].os], [k \in Names |-> files[k].disk]} :
          CutFiles(safe)
    BY <1>9 DEF FlushFault, Kill, PowerCut
  <2>2. Opened \subseteq Names
    BY <1>1 DEF Opened
  <2>3. \A k \in Names : files[k].os \in Nat /\ files[k].disk \in Nat /\ files[k].disk <= files[k].os
    BY <1>1 DEF GoodFile, File
  <2>4. /\ DOMAIN safe \subseteq Names
        /\ \A k \in DOMAIN safe : safe[k] \in Nat /\ files[k].disk <= safe[k]
    BY <2>1, <2>2, <2>3
  <2>5. Left(files[n], files'[n])
    BY <1>1, <2>1, <2>4, CutFilesLeft
  <2>6. QED
    BY <1>2, <1>4, <2>5
<1>10. QED
  BY <1>5, <1>6, <1>7, <1>8, <1>9

(* No step puts anything into a file that was not in it or in the batch    *)
(* which RealFlush is writing.                                             *)
LEMMA NothingInvented ==
  ASSUME FlushInv, FlushStep \/ FlushFault \/ CloseAll
  PROVE  \A n \in Names : ComesFrom(files'[n].data, files[n].data, batch)
<1> TAKE n \in Names
<1>1. /\ files \in [Names -> File] /\ GoodFile(files[n]) /\ files[n].data \in Seq(Msg)
      /\ batch \in Seq(Msg)
  BY DEF FlushInv, FilesTypeOK, GoodFile, File
<1>2. CASE FlushStdout \/ FlushNoFile \/ InitLogFile \/ Sync \/ FlushFault \/ CloseAll
  BY <1>2, DataLeft, PrefixComesFrom
<1>3. CASE Fwrite
  <2>1. PICK j \in 0 .. Len(batch) :
          files' = [files EXCEPT ![fs_[Current]].data = @ \o SubSeq(batch, 1, j)]
    BY <1>3 DEF Fwrite
  <2>2. CASE n = fs_[Current]
    <3>1. files'[n] = [files[n] EXCEPT !.data = @ \o SubSeq(batch, 1, j)]
      BY <1>1, <2>1, <2>2
    <3>2. files'[n] = [data |-> files[n].data \o SubSeq(batch, 1, j), os |-> files[n].os,
                       disk |-> files[n].disk]
      BY <1>1, <3>1, DataReplaced DEF GoodFile
    <3>3. QED
      BY <1>1, <3>2, AppendComesFrom
  <2>3. CASE n # fs_[Current]
    <3>1. files'[n].data = files[n].data
      BY <1>1, <2>1, <2>3
    <3>2. QED
      BY <1>1, <3>1, PrefixComesFrom
  <2>4. QED
    BY <2>2, <2>3
<1>4. QED
  BY <1>2, <1>3 DEF FlushStep

(* Nor anything into the batch, which ends or stays.                       *)
LEMMA BatchStays ==
  ASSUME FlushStep \/ FlushFault \/ CloseAll \/ Start
  PROVE  batch' \in {<< >>, batch}
BY DEF FlushStep, FlushFault, FlushStdout, FlushNoFile, InitLogFile, Fwrite, Sync, Kill,
       PowerCut, CloseAll, Start, Gone, NextSink, GoOn, position

------------------------------------------------------------------------------
(* The inductive invariant *)

(* Being through with a message cannot be undone.                          *)
LEMMA StaysThrough ==
  ASSUME NEW msgs, Through(msgs), sent \subseteq sent'
  PROVE  \A i \in 1 .. Len(msgs) : msgs[i] \in Urgent => msgs[i] \in sent'
BY DEF Through

(* A file stays through with what it has if the batch is.                  *)
LEMMA FilesThrough ==
  ASSUME LoggerInv, FlushStep \/ FlushFault \/ CloseAll, sent' = sent
  PROVE  \A n \in Names : Through(files[n].data)'
<1>1. \A n \in Names : ComesFrom(files'[n].data, files[n].data, batch)
  BY NothingInvented DEF LoggerInv
<1>2. Through(batch) /\ \A n \in Names : Through(files[n].data)
  BY DEF LoggerInv
<1>3. QED
  BY <1>1, <1>2 DEF ComesFrom, Through

(* A batch cut from the pipe, and what is left of the pipe.                *)
LEMMA CutThrough ==
  ASSUME pipe \in Seq(Msg), Through(pipe), NEW n \in 1 .. Len(pipe)
  PROVE  /\ SubSeq(pipe, 1, n) \in Seq(Msg) /\ Through(SubSeq(pipe, 1, n))
         /\ SubSeq(pipe, n + 1, Len(pipe)) \in Seq(Msg)
         /\ Through(SubSeq(pipe, n + 1, Len(pipe)))
<1>1. n \in Nat /\ n <= Len(pipe) /\ Len(pipe) \in Nat
  OBVIOUS
<1>2. /\ SubSeq(pipe, 1, n) \in Seq(Msg) /\ Len(SubSeq(pipe, 1, n)) = n
      /\ \A i \in 1 .. n : SubSeq(pipe, 1, n)[i] = pipe[i]
  BY <1>1
<1>3. /\ SubSeq(pipe, n + 1, Len(pipe)) \in Seq(Msg)
      /\ Len(SubSeq(pipe, n + 1, Len(pipe))) = Len(pipe) - n
      /\ \A i \in 1 .. Len(pipe) - n : SubSeq(pipe, n + 1, Len(pipe))[i] = pipe[n + i]
  BY <1>1
<1>4. Through(SubSeq(pipe, 1, n))
  BY <1>1, <1>2 DEF Through
<1>5. Through(SubSeq(pipe, n + 1, Len(pipe)))
  BY <1>1, <1>3 DEF Through
<1>6. QED
  BY <1>2, <1>3, <1>4, <1>5

(* Every step of the logger is one of the sinks, or leaves them alone.     *)
LEMMA StepsFlush == LoggerInv /\ [Next]_vars => [FlushNext]_flushVars
<1> SUFFICES ASSUME LoggerInv, [Next]_vars, ~UNCHANGED flushVars PROVE FlushNext
  OBVIOUS
<1>1. CASE WorkerBatch
  <2>1. PICK n \in 1 .. Len(pipe) : RealFlush(SubSeq(pipe, 1, n))
    BY <1>1 DEF WorkerBatch
  <2>2. SubSeq(pipe, 1, n) \in Seq(Msg)
    BY CutThrough DEF LoggerInv
  <2>3. QED
    BY <2>1, <2>2 DEF FlushNext
<1>2. CASE SinkStep \/ CloseSinks \/ Crash \/ Restart
  BY <1>2 DEF SinkStep, CloseSinks, Crash, Restart, FlushNext, FlushFault
<1>3. QED
  BY <1>1, <1>2 DEF Next, vars, Log_, Get, Push, RunTask, SendReturns, Exit

(* The initial states satisfy the invariant.                               *)
LEMMA InitLogger == Init => LoggerInv
<1> SUFFICES ASSUME Init PROVE LoggerInv
  OBVIOUS
<1>1. FlushInv
  BY InitInv DEF Init
<1>2. ClientInv
  BY LoggerAssumption DEF Init, ClientInv, LoggerAssumption
<1>3. pipe = << >> /\ batch = << >> /\ \A n \in Names : files[n].data = << >>
  BY DEF Init, W!Init, FlushInit, NoFile
<1>4. pipe \in Seq(Msg) /\ Through(pipe) /\ Through(batch)
      /\ \A n \in Names : Through(files[n].data)
  BY <1>3 DEF Through
<1>5. QED
  BY <1>1, <1>2, <1>4 DEF LoggerInv

(* Every step preserves it.                                                *)
LEMMA NextLogger == LoggerInv /\ [Next]_vars => LoggerInv'
<1> SUFFICES ASSUME LoggerInv, [Next]_vars PROVE LoggerInv'
  OBVIOUS
<1>0. FlushInv' 
  BY StepsFlush, NextInv DEF LoggerInv
<1>a. /\ ClientInv /\ pipe \in Seq(Msg) /\ Through(pipe) /\ Through(batch)
      /\ \A n \in Names : Through(files[n].data)
  BY DEF LoggerInv
<1>b. /\ LogCalls \in [Clients -> Seq(Msg)]
      /\ \A c \in Clients : LogCalls[c] \in Seq(Msg) /\ Len(LogCalls[c]) \in Nat
  BY LoggerAssumption DEF LoggerAssumption
<1>1. ASSUME NEW c \in Clients, Log_(c) PROVE LoggerInv'
  <2> DEFINE m == LogCalls[c][calls[c] + 1]
  <2>1. /\ pc[c] = "idle" /\ calls[c] < Len(LogCalls[c])
        /\ calls' = [calls EXCEPT ![c] = @ + 1]
        /\ pc' = [pc EXCEPT ![c] = IF m \in Urgent THEN "get" ELSE "push"]
        /\ UNCHANGED << files, batch, pipe, sent >>
    BY <1>1 DEF Log_, Goto, flushVars, position, worker
  <2>2. calls'[c] = calls[c] + 1 /\ calls[c] \in Nat /\ calls' \in [Clients -> Nat]
    BY <1>a, <2>1 DEF ClientInv
  <2>3. pc' \in [Clients -> {"idle", "get", "push"}]
    BY <1>a, <2>1 DEF ClientInv
  <2>4. ASSUME NEW d \in Clients
        PROVE  /\ calls'[d] <= Len(LogCalls[d])
               /\ pc'[d] # "idle" => calls'[d] >= 1
               /\ pc'[d] = "push" /\ Current_(d)' \in Urgent => Current_(d)' \in sent'
    <3>1. CASE d = c
      <4>1. calls'[c] <= Len(LogCalls[c]) /\ calls'[c] >= 1
        BY <1>b, <2>1, <2>2
      <4>2. pc'[c] = "push" => ~(m \in Urgent)
        BY <1>a, <2>1 DEF ClientInv
      <4>3. Current_(c)' = m
        BY <2>2 DEF Current_
      <4>4. QED
        BY <3>1, <4>1, <4>2, <4>3
    <3>2. CASE d # c
      BY <1>a, <2>1, <3>2 DEF ClientInv, Current_
    <3>3. QED
      BY <3>1, <3>2
  <2>5. ClientInv'
    BY <2>2, <2>3, <2>4 DEF ClientInv
  <2>6. QED
    BY <1>0, <1>a, <2>1, <2>5 DEF LoggerInv, Through
<1>2. ASSUME NEW c \in Clients, Get(c) PROVE LoggerInv'
  <2>1. /\ pc[c] = "get" /\ Current_(c) \in sent /\ pc' = [pc EXCEPT ![c] = "push"]
        /\ UNCHANGED << calls, files, batch, pipe, sent >>
    BY <1>2 DEF Get, Goto, flushVars, position, worker, pool
  <2>2. ClientInv'
    BY <1>a, <2>1 DEF ClientInv, Current_
  <2>3. QED
    BY <1>0, <1>a, <2>1, <2>2 DEF LoggerInv, Through
<1>3. ASSUME NEW c \in Clients, Push(c) PROVE LoggerInv'
  <2> DEFINE m == Current_(c)
  <2>1. /\ pc[c] = "push" /\ pipe' = Append(pipe, m) /\ pc' = [pc EXCEPT ![c] = "idle"]
        /\ UNCHANGED << calls, files, batch, sent >>
    BY <1>3 DEF Push, Goto, flushVars, position, pool, W!Accept
  <2>2. m \in Msg /\ (m \in Urgent => m \in sent)
    <3>1. calls[c] \in 1 .. Len(LogCalls[c])
      BY <1>a, <1>b, <2>1 DEF ClientInv
    <3>2. QED
      BY <1>a, <1>b, <2>1, <3>1 DEF ClientInv, Current_
  <2> HIDE DEF m
  <2>3. pipe' \in Seq(Msg) /\ Through(pipe)'
    BY <1>a, <2>1, <2>2 DEF Through
  <2>4. ClientInv'
    BY <1>a, <2>1 DEF ClientInv, Current_
  <2>5. QED
    BY <1>0, <1>a, <2>1, <2>3, <2>4 DEF LoggerInv, Through
<1>4. CASE RunTask \/ Exit
  <2>1. UNCHANGED << pc, calls, files, batch, pipe, sent >>
    BY <1>4 DEF RunTask, Exit, flushVars, position, worker, pool, W!Seal
  <2>2. QED
    BY <1>0, <1>a, <2>1 DEF LoggerInv, ClientInv, Through, Current_
<1>5. ASSUME NEW m \in Msg, SendReturns(m) PROVE LoggerInv'
  <2>1. sent \subseteq sent' /\ UNCHANGED << pc, calls, files, batch, pipe >>
    BY <1>5 DEF SendReturns, flushVars, position, worker
  <2>2. QED
    BY <1>0, <1>a, <2>1 DEF LoggerInv, ClientInv, Through, Current_
<1>6. CASE WorkerBatch
  <2>1. PICK n \in 1 .. Len(pipe) : RealFlush(SubSeq(pipe, 1, n)) /\ W!Deliver(n)
    BY <1>6 DEF WorkerBatch
  <2>2. /\ pipe' = SubSeq(pipe, n + 1, Len(pipe)) /\ UNCHANGED << pc, calls, files, sent >>
        /\ batch' \in {<< >>, SubSeq(pipe, 1, n)}
    BY <1>6, <2>1 DEF WorkerBatch, RealFlush, GoOn, pool, W!Deliver
  <2>3. pipe' \in Seq(Msg) /\ Through(pipe)' /\ Through(batch)'
    BY <1>a, <2>2, CutThrough DEF Through
  <2>4. QED
    BY <1>0, <1>a, <2>2, <2>3 DEF LoggerInv, ClientInv, Through, Current_
<1>7. CASE SinkStep \/ CloseSinks
  <2>1. /\ FlushStep \/ CloseAll
        /\ pipe' \in {<< >>, pipe} /\ UNCHANGED << pc, calls, sent >>
    BY <1>7 DEF SinkStep, CloseSinks, pool, worker
  <2>2. Through(batch)'
    BY <1>a, <2>1, BatchStays DEF Through
  <2>3. \A n \in Names : Through(files[n].data)'
    BY <2>1, FilesThrough
  <2>4. ClientInv'
    BY <1>a, <2>1 DEF ClientInv, Current_
  <2>6. pipe' \in Seq(Msg) /\ Through(pipe)'
    <3>1. CASE pipe' = pipe
      BY <1>a, <2>1, <3>1 DEF Through
    <3>2. CASE pipe' = << >>
      BY <3>2 DEF Through
    <3>3. QED
      BY <2>1, <3>1, <3>2
  <2>5. QED
    BY <1>0, <2>2, <2>3, <2>4, <2>6 DEF LoggerInv
<1>8. CASE Crash
  <2>1. /\ FlushFault /\ pc' = [c \in Clients |-> "idle"] /\ pipe' = << >>
        /\ UNCHANGED << calls, sent >>
    BY <1>8 DEF Crash, FlushFault
  <2>2. Through(batch)'
    BY <1>a, <2>1, BatchStays DEF Through
  <2>3. \A n \in Names : Through(files[n].data)'
    BY <2>1, FilesThrough
  <2>4. ClientInv' /\ pipe' \in Seq(Msg) /\ Through(pipe)'
    BY <1>a, <2>1 DEF ClientInv, Through, Current_
  <2>5. QED
    BY <1>0, <2>2, <2>3, <2>4 DEF LoggerInv
<1>9. CASE Restart
  <2>1. UNCHANGED << pc, calls, files, batch, pipe, sent >>
    BY <1>9 DEF Restart, Start, position, pool
  <2>2. QED
    BY <1>0, <1>a, <2>1 DEF LoggerInv, ClientInv, Through, Current_
<1>10. CASE UNCHANGED vars
  <2>1. UNCHANGED << pc, calls, files, batch, pipe, sent >>
    BY <1>10 DEF vars, flushVars, position, pool, worker
  <2>2. QED
    BY <1>0, <1>a, <2>1 DEF LoggerInv, ClientInv, Through, Current_
<1>11. QED
  BY <1>1, <1>2, <1>3, <1>4, <1>5, <1>6, <1>7, <1>8, <1>9, <1>10 DEF Next

------------------------------------------------------------------------------
(* The order of messages *)

(* Order, being ahead and being pushed go down to what is left of a        *)
(* sequence, and to what comes from two.                                   *)
LEMMA PrefixInOrder ==
  ASSUME NEW f \in Seq(Msg), NEW g \in Seq(Msg), InOrder(f), Len(g) <= Len(f),
         \A i \in 1 .. Len(g) : g[i] = f[i]
  PROVE  InOrder(g)
BY DEF InOrder

LEMMA AheadComes ==
  ASSUME NEW f, NEW g, NEW b, NEW t, ComesFrom(g, f, b), Ahead(f, t), Ahead(b, t)
  PROVE  Ahead(g, t)
BY DEF ComesFrom, Ahead

LEMMA PushedComes ==
  ASSUME NEW f, NEW g, NEW b, ComesFrom(g, f, b), Pushed(f), Pushed(b)
  PROVE  Pushed(g)
<1> SUFFICES ASSUME NEW i \in 1 .. Len(g), NEW c \in Clients,
                    NEW k \in 1 .. Len(LogCalls[c]), g[i] = LogCalls[c][k]
             PROVE  k <= calls[c] /\ (pc[c] # "idle" => k # calls[c])
  BY DEF Pushed
<1>1. CASE \E m \in 1 .. Len(f) : g[i] = f[m]
  <2>1. PICK m \in 1 .. Len(f) : f[m] = LogCalls[c][k]
    BY <1>1
  <2>2. QED
    BY <2>1 DEF Pushed
<1>2. CASE \E m \in 1 .. Len(b) : g[i] = b[m]
  <2>1. PICK m \in 1 .. Len(b) : b[m] = LogCalls[c][k]
    BY <1>2
  <2>2. QED
    BY <2>1 DEF Pushed
<1>3. QED
  BY <1>1, <1>2 DEF ComesFrom

(* What has been pushed stays so.                                          *)
LEMMA StaysPushed ==
  ASSUME ClientInv,
         \A c \in Clients : /\ calls'[c] \in Nat /\ calls[c] <= calls'[c]
                            /\ pc'[c] # "idle" => pc[c] # "idle" \/ calls[c] < calls'[c],
         NEW msgs, Pushed(msgs)
  PROVE  \A i \in 1 .. Len(msgs), c \in Clients : \A k \in 1 .. Len(LogCalls[c]) :
           msgs[i] = LogCalls[c][k] => k <= calls'[c] /\ (pc'[c] # "idle" => k # calls'[c])
<1> SUFFICES ASSUME NEW i \in 1 .. Len(msgs), NEW c \in Clients,
                    NEW k \in 1 .. Len(LogCalls[c]), msgs[i] = LogCalls[c][k]
             PROVE  k <= calls'[c] /\ (pc'[c] # "idle" => k # calls'[c])
  OBVIOUS
<1>1. k <= calls[c] /\ (pc[c] # "idle" => k # calls[c])
  BY DEF Pushed
<1>2. calls[c] \in Nat /\ calls'[c] \in Nat /\ k \in Nat
  BY LoggerAssumption DEF ClientInv, LoggerAssumption
<1>3. QED
  BY <1>1, <1>2

(* A sequence in order with another behind it that is ahead of.            *)
LEMMA ConcatInOrder ==
  ASSUME NEW f \in Seq(Msg), NEW p \in Seq(Msg), InOrder(f), InOrder(p), Ahead(f, p)
  PROVE  InOrder(f \o p)
<1> DEFINE g == f \o p
<1>1. /\ Len(g) = Len(f) + Len(p) /\ Len(f) \in Nat /\ Len(p) \in Nat
      /\ \A i \in 1 .. Len(g) : g[i] = IF i <= Len(f) THEN f[i] ELSE p[i - Len(f)]
  OBVIOUS
<1> HIDE DEF g
<1>2. SUFFICES ASSUME NEW i \in 1 .. Len(g), NEW j \in 1 .. Len(g), i < j
               PROVE  Follows(g[i], g[j])
  BY DEF InOrder, g
<1>3. CASE j <= Len(f)
  BY <1>1, <1>2, <1>3 DEF InOrder
<1>4. CASE ~(j <= Len(f))
  <2>1. j - Len(f) \in 1 .. Len(p) /\ g[j] = p[j - Len(f)]
    BY <1>1, <1>2, <1>4
  <2>2. CASE i <= Len(f)
    <3>1. i \in 1 .. Len(f) /\ g[i] = f[i]
      BY <1>1, <2>2
    <3>2. QED
      BY <2>1, <3>1 DEF Ahead
  <2>3. CASE ~(i <= Len(f))
    <3>1. i - Len(f) \in 1 .. Len(p) /\ g[i] = p[i - Len(f)] /\ i - Len(f) < j - Len(f)
      BY <1>1, <1>2, <2>3
    <3>2. QED
      BY <2>1, <3>1 DEF InOrder
  <2>4. QED
    BY <2>2, <2>3
<1>5. QED
  BY <1>3, <1>4

(* The two parts of a sequence in order.                                   *)
LEMMA PartsInOrder ==
  ASSUME NEW s \in Seq(Msg), InOrder(s), NEW n \in 1 .. Len(s)
  PROVE  LET p == SubSeq(s, 1, n)
             q == SubSeq(s, n + 1, Len(s))
         IN /\ p \in Seq(Msg) /\ q \in Seq(Msg)
            /\ InOrder(p) /\ InOrder(q) /\ Ahead(p, q)
            /\ \A f : ComesFrom(p, s, f) /\ ComesFrom(q, s, f)
            /\ \A m : Holds(s, m) => Holds(p, m) \/ Holds(q, m)
<1> DEFINE p == SubSeq(s, 1, n)
           q == SubSeq(s, n + 1, Len(s))
<1>1. n \in Nat /\ n <= Len(s) /\ Len(s) \in Nat
  OBVIOUS
<1>2. p \in Seq(Msg) /\ Len(p) = n /\ \A i \in 1 .. n : p[i] = s[i]
  BY <1>1
<1>3. /\ q \in Seq(Msg) /\ Len(q) = Len(s) - n
      /\ \A i \in 1 .. Len(s) - n : q[i] = s[n + i]
  BY <1>1
<1> HIDE DEF p, q
<1>4. InOrder(p)
  BY <1>1, <1>2, PrefixInOrder
<1>5. InOrder(q)
  <2> SUFFICES ASSUME NEW i \in 1 .. Len(q), NEW j \in 1 .. Len(q), i < j
               PROVE  Follows(q[i], q[j])
    BY DEF InOrder
  <2>1. n + i \in 1 .. Len(s) /\ n + j \in 1 .. Len(s) /\ n + i < n + j
    BY <1>1, <1>3
  <2>2. QED
    BY <1>3, <2>1 DEF InOrder
<1>6. Ahead(p, q)
  <2> SUFFICES ASSUME NEW i \in 1 .. Len(p), NEW j \in 1 .. Len(q)
               PROVE  Follows(p[i], q[j])
    BY DEF Ahead
  <2>1. i \in 1 .. Len(s) /\ n + j \in 1 .. Len(s) /\ i < n + j
    BY <1>1, <1>2, <1>3
  <2>2. QED
    BY <1>2, <1>3, <2>1 DEF InOrder
<1>7. ASSUME NEW f PROVE ComesFrom(p, s, f) /\ ComesFrom(q, s, f)
  <2>1. \A i \in 1 .. Len(p) : i \in 1 .. Len(s)
    BY <1>1, <1>2
  <2>2. \A i \in 1 .. Len(q) : n + i \in 1 .. Len(s)
    BY <1>1, <1>3
  <2>3. QED
    BY <1>2, <1>3, <2>1, <2>2 DEF ComesFrom
<1>8. ASSUME NEW m, Holds(s, m) PROVE Holds(p, m) \/ Holds(q, m)
  <2>1. PICK i \in 1 .. Len(s) : s[i] = m
    BY <1>8 DEF Holds
  <2>2. CASE i <= n
    <3>1. i \in 1 .. Len(p) /\ p[i] = m
      BY <1>1, <1>2, <2>1, <2>2
    <3>2. QED
      BY <3>1 DEF Holds
  <2>3. CASE ~(i <= n)
    <3>1. i - n \in 1 .. Len(q) /\ q[i - n] = m
      <4>1. i - n \in 1 .. Len(s) - n /\ n + (i - n) = i
        BY <1>1, <2>3
      <4>2. QED
        BY <1>3, <2>1, <4>1
    <3>2. QED
      BY <3>1 DEF Holds
  <2>4. QED
    BY <2>2, <2>3
<1>9. QED
  BY <1>2, <1>3, <1>4, <1>5, <1>6, <1>7, <1>8 DEF p, q

(* A sink that has still to write the batch had to before, and no sink has *)
(* to write again what it has written.                                     *)
LEMMA LessToWrite ==
  ASSUME FlushInv, FlushStep
  PROVE  /\ \A s : ToWrite(s)' => ToWrite(s) /\ batch' = batch
         /\ Fwrite => ToWrite(Current) /\ \A s : s = Current => ~ToWrite(s)'
<1>0. at \in 0 .. Len(Flushes) /\ Len(Flushes) \in Nat
  BY FlushAssumption DEF FlushInv, FilesTypeOK, FlushAssumption
<1>1. ASSUME NEW s, ToWrite(s)' PROVE ToWrite(s) /\ batch' = batch
  <2>1. PICK i \in at' .. Len(Flushes) : Flushes[i] = s /\ (i = at' => step' # "sync")
    BY <1>1 DEF ToWrite
  <2>2. at' > 0
    BY <1>1 DEF ToWrite
  <2>3. CASE GoOn(at + 1, batch) /\ at > 0
    <3>1. at' = at + 1 /\ batch' = batch
      BY <1>0, <2>2, <2>3 DEF GoOn
    <3>2. i \in at .. Len(Flushes) /\ i # at
      BY <1>0, <2>1, <3>1
    <3>3. QED
      BY <2>1, <2>3, <3>1, <3>2 DEF ToWrite
  <2>4. CASE InitLogFile
    BY <2>1, <2>4 DEF InitLogFile, ToWrite
  <2>5. CASE Fwrite
    BY <2>1, <2>5 DEF Fwrite, ToWrite
  <2>6. QED
    BY <2>3, <2>4, <2>5 DEF FlushStep, FlushStdout, FlushNoFile, Sync, NextSink
<1>2. ASSUME Fwrite, NEW s, s = Current PROVE ToWrite(Current) /\ ~ToWrite(s)'
  <2>1. at > 0 /\ step = "write" /\ step' = "sync" /\ at' = at
    BY <1>2 DEF Fwrite
  <2>2. ToWrite(Current)
    BY <1>0, <2>1 DEF ToWrite, Current
  <2>3. Current \in Sinks
    BY <2>1 DEF FlushInv, OpenInv
  <2>4. \A i \in at .. Len(Flushes) : Flushes[i] = Flushes[at] => i = at
    BY <1>0, <2>1, <2>3, FlushAssumption DEF FlushAssumption, Current
  <2>5. QED
    BY <1>2, <2>1, <2>2, <2>4 DEF ToWrite, Current
<1>3. QED
  BY <1>1, <1>2

(* Every file stays in order, and ahead of the batch that its sink has     *)
(* still to write.                                                         *)
LEMMA FilesInOrder ==
  ASSUME FlushInv, FlushStep \/ FlushFault \/ CloseAll, FileOrder, InOrder(batch),
         \A n \in Names : ToWrite(SinkOf(n)) => Ahead(files[n].data, batch)
  PROVE  /\ FileOrder'
         /\ \A n \in Names : ToWrite(SinkOf(n))' => Ahead(files'[n].data, batch')
<1>0. /\ files \in [Names -> File] /\ files' \in [Names -> File] /\ batch \in Seq(Msg)
      /\ \A n \in Names : GoodFile(files[n]) /\ files[n].data \in Seq(Msg)
  <2>1. FlushInv'
    BY NextInv DEF FlushNext
  <2>2. QED
    BY <2>1 DEF FlushInv, FilesTypeOK, GoodFile, File
<1>1. ASSUME FlushStdout \/ FlushNoFile \/ InitLogFile \/ Sync \/ FlushFault \/ CloseAll,
             \A s : ToWrite(s)' => ToWrite(s) /\ batch' = batch
      PROVE  /\ FileOrder'
             /\ \A n \in Names : ToWrite(SinkOf(n))' => Ahead(files'[n].data, batch')
  <2>1. ASSUME NEW n \in Names PROVE InOrder(files'[n].data)
    BY <1>1, DataLeft, PrefixInOrder DEF FileOrder
  <2>2. ASSUME NEW n \in Names, ToWrite(SinkOf(n))' PROVE Ahead(files'[n].data, batch')
    <3>1. Ahead(files[n].data, batch) /\ batch' = batch
      BY <1>1, <2>2
    <3>2. /\ files[n].data \in Seq(Msg) /\ files'[n].data \in Seq(Msg)
          /\ Len(files'[n].data) <= Len(files[n].data)
          /\ \A i \in 1 .. Len(files'[n].data) : files'[n].data[i] = files[n].data[i]
      BY <1>1, DataLeft
    <3>3. QED
      BY <3>1, <3>2 DEF Ahead
  <2>3. QED
    BY <2>1, <2>2 DEF FileOrder
<1>2. CASE FlushStdout \/ FlushNoFile \/ InitLogFile \/ Sync
  BY <1>1, <1>2, LessToWrite DEF FlushStep
<1>5. CASE Fwrite
  <2> DEFINE n0 == fs_[Current]
             d == files[n0].data
  <2>1. PICK j \in 0 .. Len(batch) :
          files' = [files EXCEPT ![n0].data = @ \o SubSeq(batch, 1, j)]
    BY <1>5 DEF Fwrite
  <2> DEFINE p == SubSeq(batch, 1, j)
  <2>2. n0 \in Names /\ SinkOf(n0) = Current
    BY <1>5, NamesType DEF Fwrite, FlushInv, OpenInv, SinkOf, Sinks
  <2>3. d \in Seq(Msg) /\ InOrder(d) /\ Ahead(d, batch)
    BY <1>0, <1>5, <2>2, LessToWrite DEF FileOrder, FlushStep
  <2>4. p \in Seq(Msg) /\ Len(p) = j /\ \A i \in 1 .. j : p[i] = batch[i]
    BY <1>0
  <2>5. InOrder(p) /\ Ahead(d, p)
    <3>1. j <= Len(batch) /\ j \in Nat /\ Len(batch) \in Nat
      BY <1>0
    <3>2. InOrder(p)
      <4> HIDE DEF p
      <4>1. QED
        BY <1>0, <2>4, <3>1, PrefixInOrder
    <3>3. Ahead(d, p)
      <4> HIDE DEF p, d
      <4>1. QED
        BY <2>3, <2>4, <3>1 DEF Ahead
    <3>4. QED
      BY <3>2, <3>3
  <2> HIDE DEF p
  <2>6. InOrder(d \o p)
    BY <2>3, <2>4, <2>5, ConcatInOrder
  <2>7. files'[n0] = [data |-> d \o p, os |-> files[n0].os, disk |-> files[n0].disk]
    BY <1>0, <2>1, <2>2, DataReplaced DEF p
  <2> DEFINE e == d \o p
  <2>8. InOrder(files'[n0].data)
    <3>1. files'[n0].data = e
      <4> HIDE DEF d
      <4>1. QED
        BY <2>7
    <3>2. QED
      BY <2>6, <3>1
  <2>9. \A n \in Names : n # n0 => files'[n] = files[n]
    BY <1>0, <2>1
  <2>10. FileOrder'
    BY <2>8, <2>9 DEF FileOrder
  <2>11. ASSUME NEW n \in Names, ToWrite(SinkOf(n))'
         PROVE  Ahead(files'[n].data, batch')
    <3>1. SinkOf(n) # Current
      BY <1>5, <2>11, LessToWrite DEF FlushStep
    <3>2. n # n0
      BY <2>2, <3>1
    <3>3. ToWrite(SinkOf(n)) /\ batch' = batch
      BY <1>5, <2>11, LessToWrite DEF FlushStep
    <3>4. QED
      BY <2>9, <3>2, <3>3
  <2>12. QED
    BY <2>10, <2>11
<1>6. CASE FlushFault \/ CloseAll
  <2>1. at' = 0
    BY <1>6 DEF FlushFault, Kill, PowerCut, CloseAll, Gone
  <2>2. QED
    BY <1>1, <1>6, <2>1 DEF ToWrite
<1>7. QED
  BY <1>2, <1>5, <1>6 DEF FlushStep

(* The message that a client pushes comes after all that has been pushed.  *)
LEMMA PushFollows ==
  ASSUME ClientInv, NEW c \in Clients, pc[c] = "push",
         NEW msgs, Pushed(msgs)
  PROVE  /\ Current_(c) \in Msg
         /\ \A i \in 1 .. Len(msgs) : Follows(msgs[i], Current_(c))
<1>1. calls[c] \in 1 .. Len(LogCalls[c]) /\ calls[c] \in Nat
  BY LoggerAssumption DEF ClientInv, LoggerAssumption
<1>2. Current_(c) \in Msg
  BY <1>1, LoggerAssumption DEF Current_, LoggerAssumption
<1>3. ASSUME NEW i \in 1 .. Len(msgs), NEW d \in Clients,
             NEW k \in 1 .. Len(LogCalls[d]), NEW l \in 1 .. Len(LogCalls[d]),
             msgs[i] = LogCalls[d][k], Current_(c) = LogCalls[d][l]
      PROVE  k < l
  <2>1. d = c /\ l = calls[c]
    BY <1>1, <1>3, LoggerAssumption DEF Current_, LoggerAssumption
  <2>2. k <= calls[c] /\ k # calls[c]
    BY <1>3, <2>1 DEF Pushed
  <2>3. k \in Nat
    BY <2>1, LoggerAssumption DEF LoggerAssumption
  <2>4. QED
    BY <1>1, <2>1, <2>2, <2>3
<1>4. QED
  BY <1>2, <1>3 DEF Follows

(* The initial states satisfy the invariant.                               *)
LEMMA InitOrder == Init => OrderInv
<1> SUFFICES ASSUME Init PROVE OrderInv
  OBVIOUS
<1>1. pipe = << >> /\ batch = << >> /\ at = 0 /\ \A n \in Names : files[n].data = << >>
  BY DEF Init, W!Init, FlushInit, NoFile
<1>2. QED
  BY <1>1 DEF OrderInv, FileOrder, InOrder, Pushed, Ahead, ToWrite

(* Every step preserves it, given the invariant of the logger.             *)
LEMMA NextOrder == LoggerInv /\ OrderInv /\ [Next]_vars => OrderInv'
<1> SUFFICES ASSUME LoggerInv, OrderInv, [Next]_vars PROVE OrderInv'
  OBVIOUS
<1>0. /\ ClientInv /\ FlushInv /\ pipe \in Seq(Msg) /\ batch \in Seq(Msg)
      /\ \A n \in Names : files[n].data \in Seq(Msg)
      /\ InOrder(pipe) /\ InOrder(batch) /\ FileOrder
      /\ Pushed(pipe) /\ Pushed(batch) /\ \A n \in Names : Pushed(files[n].data)
      /\ Ahead(batch, pipe) /\ \A n \in Names : Ahead(files[n].data, pipe)
      /\ \A n \in Names : ToWrite(SinkOf(n)) => Ahead(files[n].data, batch)
  BY DEF LoggerInv, FlushInv, FilesTypeOK, File, OrderInv
<1>a. /\ \A c \in Clients : LogCalls[c] \in Seq(Msg) /\ Len(LogCalls[c]) \in Nat
      /\ \A c \in Clients : pc[c] \in {"idle", "get", "push"} /\ calls[c] \in Nat
  BY <1>0, LoggerAssumption DEF LoggerAssumption, ClientInv
(* A step that leaves everything but the clients alone.                    *)
<1>b. ASSUME UNCHANGED << files, batch, pipe, at, step >>,
             \A c \in Clients : /\ calls'[c] \in Nat /\ calls[c] <= calls'[c]
                                /\ pc'[c] # "idle" => pc[c] # "idle" \/ calls[c] < calls'[c]
      PROVE  OrderInv'
  <2>1. Pushed(pipe)' /\ Pushed(batch)'
    BY <1>0, <1>b, StaysPushed DEF Pushed
  <2>2. ASSUME NEW n \in Names PROVE Pushed(files[n].data)'
    <3> DEFINE d == files[n].data
    <3>1. Pushed(d) /\ files'[n].data = d
      BY <1>0, <1>b
    <3> HIDE DEF d
    <3>2. \A i \in 1 .. Len(d), c \in Clients : \A k \in 1 .. Len(LogCalls[c]) :
            d[i] = LogCalls[c][k] => k <= calls'[c] /\ (pc'[c] # "idle" => k # calls'[c])
      BY <1>0, <1>b, <3>1, StaysPushed
    <3>3. QED
      BY <3>1, <3>2 DEF Pushed
  <2>3. /\ InOrder(pipe)' /\ InOrder(batch)' /\ FileOrder'
        /\ Ahead(batch, pipe)' /\ \A n \in Names : Ahead(files[n].data, pipe)'
        /\ \A n \in Names : ToWrite(SinkOf(n))' => Ahead(files[n].data, batch)'
    BY <1>0, <1>b DEF FileOrder, ToWrite
  <2>4. QED
    BY <2>1, <2>2, <2>3 DEF OrderInv
<1>1. ASSUME NEW c \in Clients, Log_(c) PROVE OrderInv'
  <2>1. UNCHANGED << files, batch, pipe, at, step >>
    BY <1>1 DEF Log_, flushVars, position, worker
  <2>2. /\ calls' = [calls EXCEPT ![c] = @ + 1]
        /\ \E l : pc' = [pc EXCEPT ![c] = l]
    BY <1>1 DEF Log_, Goto
  <2>3. \A d \in Clients : /\ calls'[d] \in Nat /\ calls[d] <= calls'[d]
                           /\ pc'[d] # "idle" => pc[d] # "idle" \/ calls[d] < calls'[d]
    BY <1>0, <1>a, <2>2 DEF ClientInv
  <2>4. QED
    BY <1>b, <2>1, <2>3
<1>2. ASSUME NEW c \in Clients, Get(c) PROVE OrderInv'
  <2>1. UNCHANGED << files, batch, pipe, at, step, calls >>
    BY <1>2 DEF Get, flushVars, position, worker, pool
  <2>2. pc[c] = "get" /\ pc' = [pc EXCEPT ![c] = "push"]
    BY <1>2 DEF Get, Goto
  <2>3. QED
    BY <1>0, <1>a, <1>b, <2>1, <2>2 DEF ClientInv
<1>3. ASSUME NEW c \in Clients, Push(c) PROVE OrderInv'
  <2> DEFINE m == Current_(c)
  <2>1. /\ pc[c] = "push" /\ pipe' = Append(pipe, m) /\ pc' = [pc EXCEPT ![c] = "idle"]
        /\ UNCHANGED << calls, files, batch, at, step >>
    BY <1>3 DEF Push, Goto, flushVars, position, pool, W!Accept
  <2>2. /\ m \in Msg
        /\ \A i \in 1 .. Len(pipe) : Follows(pipe[i], m)
        /\ \A i \in 1 .. Len(batch) : Follows(batch[i], m)
        /\ \A n \in Names : \A i \in 1 .. Len(files[n].data) : Follows(files[n].data[i], m)
    BY <1>0, <2>1, PushFollows
  <2>3. calls[c] \in 1 .. Len(LogCalls[c])
    BY <1>0, <1>a, <2>1 DEF ClientInv
  <2>4. \A d \in Clients : \A k \in 1 .. Len(LogCalls[d]) :
          m = LogCalls[d][k] => d = c /\ k = calls[c]
    BY <2>3, LoggerAssumption DEF LoggerAssumption, Current_
  <2> HIDE DEF m
  <2>5. /\ pipe' \in Seq(Msg) /\ Len(pipe') = Len(pipe) + 1 /\ pipe'[Len(pipe) + 1] = m
        /\ \A i \in 1 .. Len(pipe) : pipe'[i] = pipe[i]
        /\ Len(pipe) \in Nat
    BY <1>0, <2>1, <2>2, AppendProperties
  <2>6. \A i \in 1 .. Len(pipe') : i \in 1 .. Len(pipe) \/ i = Len(pipe) + 1
    BY <2>5
  <2>7. InOrder(pipe')
    <3> SUFFICES ASSUME NEW i \in 1 .. Len(pipe'), NEW j \in 1 .. Len(pipe'), i < j
                 PROVE  Follows(pipe'[i], pipe'[j])
      BY DEF InOrder
    <3>1. i \in 1 .. Len(pipe)
      BY <2>5
    <3>2. QED
      BY <1>0, <2>2, <2>5, <2>6, <3>1 DEF InOrder
  <2>8. ASSUME NEW s, Ahead(s, pipe), \A i \in 1 .. Len(s) : Follows(s[i], m)
        PROVE  Ahead(s, pipe')
    BY <2>5, <2>6, <2>8 DEF Ahead
  <2>9. \A d \in Clients : /\ calls'[d] \in Nat /\ calls[d] <= calls'[d]
                           /\ pc'[d] # "idle" => pc[d] # "idle"
    BY <1>0, <1>a, <2>1 DEF ClientInv
  <2>10. /\ \A i \in 1 .. Len(pipe), d \in Clients : \A k \in 1 .. Len(LogCalls[d]) :
              pipe[i] = LogCalls[d][k] => k <= calls'[d] /\ (pc'[d] # "idle" => k # calls'[d])
         /\ Pushed(batch)'
    BY <1>0, <2>1, <2>9, StaysPushed DEF Pushed
  <2>11. Pushed(pipe)'
    <3>1. \A d \in Clients : \A k \in 1 .. Len(LogCalls[d]) :
            m = LogCalls[d][k] => k <= calls'[d] /\ (pc'[d] # "idle" => k # calls'[d])
      BY <1>0, <1>a, <2>1, <2>4 DEF ClientInv
    <3>2. QED
      BY <2>5, <2>6, <2>10, <3>1 DEF Pushed
  <2>12. \A n \in Names : Pushed(files[n].data)'
    BY <1>0, <2>1, <2>9, StaysPushed DEF Pushed
  <2>13. Ahead(batch, pipe)' /\ \A n \in Names : Ahead(files[n].data, pipe)'
    BY <1>0, <2>1, <2>2, <2>8
  <2>14. \A n \in Names : ToWrite(SinkOf(n))' => Ahead(files[n].data, batch)'
    BY <1>0, <2>1 DEF ToWrite
  <2>15. QED
    BY <1>0, <2>1, <2>7, <2>10, <2>11, <2>12, <2>13, <2>14 DEF OrderInv, FileOrder
<1>4. CASE RunTask \/ Exit \/ \E m \in Msg : SendReturns(m)
  <2>1. UNCHANGED << pc, calls, files, batch, pipe, at, step >>
    BY <1>4 DEF RunTask, Exit, SendReturns, flushVars, position, worker, pool, W!Seal
  <2>2. QED
    BY <1>a, <1>b, <2>1
<1>5. CASE WorkerBatch
  <2>1. PICK n \in 1 .. Len(pipe) : RealFlush(SubSeq(pipe, 1, n)) /\ W!Deliver(n)
    BY <1>5 DEF WorkerBatch
  <2> DEFINE p == SubSeq(pipe, 1, n)
             q == SubSeq(pipe, n + 1, Len(pipe))
  <2>2. batch' = p /\ pipe' = q /\ UNCHANGED << pc, calls, files >>
    <3>1. UNCHANGED << pc, calls, files >> /\ pipe' = q
      BY <1>5, <2>1 DEF WorkerBatch, RealFlush, W!Deliver
    <3>2. Len(Flushes) \in Nat /\ ~(1 > Len(Flushes))
      BY <2>1, FlushAssumption, EmptySeq DEF FlushAssumption, RealFlush
    <3>3. QED
      BY <2>1, <3>1, <3>2 DEF RealFlush, GoOn
  <2>3. /\ p \in Seq(Msg) /\ q \in Seq(Msg) /\ InOrder(p) /\ InOrder(q) /\ Ahead(p, q)
        /\ \A f : ComesFrom(p, pipe, f) /\ ComesFrom(q, pipe, f)
    BY <1>0, PartsInOrder
  <2> HIDE DEF p, q
  <2>4. Pushed(p) /\ Pushed(q)
    BY <1>0, <2>3, PushedComes
  <2>5. \A k \in Names : Ahead(files[k].data, p) /\ Ahead(files[k].data, q)
    <3>1. ASSUME NEW s, Ahead(s, pipe) PROVE Ahead(s, p) /\ Ahead(s, q)
      <4>1. ComesFrom(p, pipe, << >>) /\ ComesFrom(q, pipe, << >>)
        BY <2>3
      <4>2. /\ \A i \in 1 .. Len(p) : \E k \in 1 .. Len(pipe) : p[i] = pipe[k]
            /\ \A i \in 1 .. Len(q) : \E k \in 1 .. Len(pipe) : q[i] = pipe[k]
        BY <4>1 DEF ComesFrom
      <4>3. QED
        BY <3>1, <4>2 DEF Ahead
    <3>2. QED
      BY <1>0, <3>1
  <2>6. Pushed(batch)' /\ Pushed(pipe)' /\ \A k \in Names : Pushed(files[k].data)'
    BY <1>0, <2>2, <2>4 DEF Pushed
  <2>7. QED
    BY <1>0, <2>2, <2>3, <2>5, <2>6 DEF OrderInv, FileOrder
<1>6. CASE SinkStep \/ CloseSinks \/ Crash
  <2>1. FlushStep \/ FlushFault \/ CloseAll
    BY <1>6 DEF SinkStep, CloseSinks, Crash, FlushFault
  <2>2. /\ FileOrder'
        /\ \A n \in Names : ToWrite(SinkOf(n))' => Ahead(files[n].data, batch)'
    BY <1>0, <2>1, FilesInOrder
  <2>3. \A n \in Names : ComesFrom(files'[n].data, files[n].data, batch)
    BY <1>0, <2>1, NothingInvented
  <2>4. batch' \in {<< >>, batch} /\ pipe' \in {<< >>, pipe}
    BY <1>6, <2>1, BatchStays DEF SinkStep, CloseSinks, Crash, worker
  <2>5. calls' = calls /\ \A c \in Clients : pc'[c] # "idle" => pc[c] # "idle"
    BY <1>6 DEF SinkStep, CloseSinks, Crash
  <2>6. InOrder(batch)' /\ InOrder(pipe)' /\ Ahead(batch, pipe)'
    BY <1>0, <2>4 DEF InOrder, Ahead
  <2>7. \A n \in Names : Ahead(files[n].data, pipe)'
    <3>1. \A n \in Names : Ahead(files'[n].data, pipe)
      BY <1>0, <2>3, AheadComes
    <3>2. QED
      BY <2>4, <3>1 DEF Ahead
  <2>8. Pushed(batch)' /\ Pushed(pipe)'
    BY <1>0, <2>4, <2>5 DEF Pushed
  <2>9. \A n \in Names : Pushed(files[n].data)'
    <3>1. \A n \in Names : Pushed(files'[n].data)
      BY <1>0, <2>3, PushedComes
    <3>2. QED
      BY <2>5, <3>1 DEF Pushed
  <2>10. QED
    BY <2>2, <2>6, <2>7, <2>8, <2>9 DEF OrderInv
<1>7. CASE Restart
  <2>1. UNCHANGED << pc, calls, files, batch, pipe, at, step >>
    BY <1>7 DEF Restart, Start, position, pool
  <2>2. QED
    BY <1>a, <1>b, <2>1
<1>8. CASE UNCHANGED vars
  <2>1. UNCHANGED << pc, calls, files, batch, pipe, at, step >>
    BY <1>8 DEF vars, flushVars, position, pool, worker
  <2>2. QED
    BY <1>a, <1>b, <2>1
<1>9. QED
  BY <1>1, <1>2, <1>3, <1>4, <1>5, <1>6, <1>7, <1>8 DEF Next

------------------------------------------------------------------------------
(* What an orderly exit keeps *)

(* As long as no fclose fails, no file loses a message while the process   *)
(* lives, and what fwrite has taken whole is in the file.                  *)
LEMMA FilesHold ==
  ASSUME FlushInv, FlushStep \/ CloseAll, NothingLost
  PROVE  /\ \A n \in Names : \A m : Holds(files[n].data, m) => Holds(files'[n].data, m)
         /\ Fwrite /\ ~failed' =>
              \E n \in FilesOf(Current) : \A m : Holds(batch, m) => Holds(files'[n].data, m)
<1>0. /\ files \in [Names -> File] /\ files' \in [Names -> File] /\ batch \in Seq(Msg)
      /\ \A n \in Names : files[n].data \in Seq(Msg)
      /\ WrittenInv'
  <2>1. FlushInv'
    BY NextInv DEF FlushNext
  <2>2. QED
    BY <2>1 DEF FlushInv, FilesTypeOK, File
<1>1. CASE FlushStdout \/ FlushNoFile \/ InitLogFile \/ Sync \/ CloseAll
  <2>1. ASSUME NEW n \in Names, NEW m, Holds(files[n].data, m)
        PROVE  Holds(files'[n].data, m)
    <3>1. PICK i \in 1 .. Len(files[n].data) : files[n].data[i] = m
      BY <2>1 DEF Holds
    <3>2. /\ \A k \in 1 .. Len(files'[n].data) : files'[n].data[k] = files[n].data[k]
          /\ files[n].data \in Seq(Msg) /\ files'[n].data \in Seq(Msg)
      BY <1>1, DataLeft
    <3>3. Len(files'[n].data) >= Len(files[n].data)
      BY DEF NothingLost
    <3>4. i \in 1 .. Len(files'[n].data)
      BY <3>1, <3>2, <3>3
    <3>5. QED
      BY <3>1, <3>2, <3>4 DEF Holds
  <2>2. ~Fwrite
    <3>1. SUFFICES ASSUME Fwrite PROVE FALSE
      OBVIOUS
    <3>2. at > 0 /\ step = "write" /\ fs_[Current] # Null
      BY <3>1 DEF Fwrite
    <3>3. Current \in {"file", "roll"}
      BY <3>2 DEF FlushInv, OpenInv, Sinks
    <3>4. ~FlushStdout
      BY <3>3 DEF FlushStdout
    <3>5. ~FlushNoFile /\ ~InitLogFile /\ ~Sync /\ ~CloseAll
      BY <3>2 DEF FlushNoFile, InitLogFile, Sync, CloseAll
    <3>6. QED
      BY <1>1, <3>4, <3>5
  <2>3. QED
    BY <2>1, <2>2
<1>4. CASE Fwrite
  <2> DEFINE n0 == fs_[Current]
             d == files[n0].data
  <2>1. PICK j \in 0 .. Len(batch) :
          files' = [files EXCEPT ![n0].data = @ \o SubSeq(batch, 1, j)]
    BY <1>4 DEF Fwrite
  <2> DEFINE p == SubSeq(batch, 1, j)
  <2>2. n0 \in Names /\ n0 \in FilesOf(Current)
    BY <1>4, NamesType DEF Fwrite, FlushInv, OpenInv, FilesOf, Sinks
  <2>3. p \in Seq(Msg) /\ d \in Seq(Msg)
    BY <1>0, <2>2
  <2> HIDE DEF p
  <2>4. files'[n0] = [data |-> d \o p, os |-> files[n0].os, disk |-> files[n0].disk]
    BY <1>0, <2>1, <2>2, DataReplaced DEF p
  <2> HIDE DEF d
  <2>5. files'[n0].data = d \o p
    BY <2>4
  <2>6. /\ Len(d \o p) = Len(d) + Len(p) /\ Len(d) \in Nat /\ Len(p) \in Nat
        /\ \A i \in 1 .. Len(d) : (d \o p)[i] = d[i]
    BY <2>3
  <2>7. \A m : Holds(d, m) => Holds(files'[n0].data, m)
    <3> DEFINE e == d \o p
    <3>1. \A i \in 1 .. Len(d) : i \in 1 .. Len(e) /\ e[i] = d[i]
      BY <2>6
    <3> HIDE DEF e
    <3>2. \A m : Holds(d, m) => Holds(e, m)
      BY <3>1 DEF Holds
    <3>3. QED
      BY <2>5, <3>2 DEF e
  <2>8. \A n \in Names : n # n0 => files'[n] = files[n]
    BY <1>0, <2>1
  <2>9. ASSUME ~failed' PROVE \A m : Holds(batch, m) => Holds(files'[n0].data, m)
    <3>1. at > 0 /\ step' = "sync" /\ UNCHANGED << at, batch, fs_ >>
      BY <1>4 DEF Fwrite
    <3>2. Current' = Current
      BY <3>1 DEF Current
    <3>3. \A i \in 1 .. Len(batch) : \E k \in 1 .. Len(files'[n0].data) :
            files'[n0].data[k] = batch[i]
      BY <1>0, <2>9, <3>1, <3>2 DEF WrittenInv
    <3>4. QED
      BY <3>3 DEF Holds
  <2>10. QED
    BY <2>2, <2>7, <2>8, <2>9 DEF d
<1>5. QED
  BY <1>1, <1>4 DEF FlushStep

(* A sink that has still to write the batch is not passed over, unless its *)
(* fopen has failed: it writes, or still has to.                           *)
LEMMA StillToWrite ==
  ASSUME FlushInv, FlushStep, fs_["file"] # Null, NEW s \in Sinks, ToWrite(s)
  PROVE  \/ Fwrite /\ s = Current
         \/ ToWrite(s)' /\ batch' = batch
<1>0. at \in 0 .. Len(Flushes) /\ Len(Flushes) \in Nat
  BY FlushAssumption DEF FlushInv, FilesTypeOK, FlushAssumption
<1>1. PICK i \in at .. Len(Flushes) : Flushes[i] = s /\ (i = at => step # "sync")
  BY DEF ToWrite
<1>2. at > 0
  BY DEF ToWrite
<1>3. CASE GoOn(at + 1, batch) /\ i # at
  <2>1. at' = at + 1 /\ batch' = batch /\ step' # "sync"
    BY <1>0, <1>1, <1>3 DEF GoOn
  <2>2. i \in at' .. Len(Flushes) /\ at' > 0
    BY <1>0, <1>1, <1>3, <2>1
  <2>3. QED
    BY <1>1, <2>1, <2>2 DEF ToWrite
<1>4. CASE FlushStdout
  <2>1. i # at
    BY <1>1, <1>4 DEF FlushStdout, Current, Sinks
  <2>2. QED
    BY <1>3, <1>4, <2>1 DEF FlushStdout, NextSink
<1>5. CASE FlushNoFile
  BY <1>5 DEF FlushNoFile
<1>6. CASE InitLogFile
  <2>1. at' = at /\ batch' = batch /\ step' # "sync"
    BY <1>6 DEF InitLogFile
  <2>2. QED
    BY <1>1, <1>2, <2>1 DEF ToWrite
<1>7. CASE Fwrite
  <2>1. at' = at /\ batch' = batch
    BY <1>7 DEF Fwrite
  <2>2. CASE i = at
    BY <1>1, <1>7, <2>2 DEF Current
  <2>3. CASE i # at
    BY <1>1, <1>2, <2>1, <2>3 DEF ToWrite
  <2>4. QED
    BY <2>2, <2>3
<1>8. CASE Sync
  <2>1. i # at
    BY <1>1, <1>8 DEF Sync
  <2>2. QED
    BY <1>3, <1>8, <2>1 DEF Sync, NextSink
<1>9. QED
  BY <1>4, <1>5, <1>6, <1>7, <1>8 DEF FlushStep

(* Where a message that a call has returned for is kept.                   *)
Kept(m, s) ==
  \/ Holds(pipe, m)
  \/ ToWrite(s) /\ Holds(batch, m)
  \/ \E n \in FilesOf(s) : Holds(files[n].data, m)

(* The invariant says that every such message is.                          *)
LEMMA KeptParts ==
  KeptInv <=>
    /\ ~running \/ sealed => \A c \in Clients : pc[c] = "idle"
    /\ at = 0 => batch = << >>
    /\ clean => /\ ~failed
                /\ running => fs_["file"] # Null
                /\ ~running => pipe = << >>
                /\ \A m \in returned, s \in Given : Kept(m, s)
BY DEF KeptInv, Kept

(* The initial states satisfy the invariant.                               *)
LEMMA InitKept == Init => KeptInv
<1> SUFFICES ASSUME Init PROVE KeptInv
  OBVIOUS
<1>1. /\ running = TRUE /\ batch = << >> /\ failed = FALSE /\ sealed = FALSE
      /\ returned = {} /\ clean = (fs_["file"] # Null) /\ pc = [c \in Clients |-> "idle"]
  BY DEF Init, FlushInit, W!Init
<1>2. QED
  BY <1>1 DEF KeptInv

(* Every step preserves it, given the invariant of the logger.             *)
LEMMA NextKept == LoggerInv /\ KeptInv /\ [Next]_vars => KeptInv'
<1> SUFFICES ASSUME LoggerInv, KeptInv, [Next]_vars PROVE KeptInv'
  OBVIOUS
<1>0. /\ FlushInv /\ ClientInv /\ pipe \in Seq(Msg) /\ batch \in Seq(Msg)
      /\ ~running => at = 0
      /\ Given \subseteq Sinks /\ Len(Flushes) \in Nat
      /\ \A s \in Sinks : FilesOf(s) \subseteq Names
  <2>1. \A s \in Sinks : FilesOf(s) \subseteq Names
    BY NamesType DEF FilesOf
  <2>2. QED
    BY <2>1, FlushAssumption DEF LoggerInv, FlushInv, FilesTypeOK, OpenInv, Given, FlushAssumption
<1>a. /\ ~running \/ sealed => \A c \in Clients : pc[c] = "idle"
      /\ at = 0 => batch = << >>
      /\ clean => /\ ~failed
                  /\ running => fs_["file"] # Null
                  /\ ~running => pipe = << >>
                  /\ \A m \in returned, s \in Given : Kept(m, s)
  BY KeptParts
(* A step that moves no message keeps each where it is.                    *)
<1>b. ASSUME UNCHANGED << files, batch, pipe, at, step >>
      PROVE  \A m, s : Kept(m, s)' <=> Kept(m, s)
  BY <1>b DEF Kept, ToWrite
<1>c. KeptInv' <=>
        /\ ~running' \/ sealed' => \A c \in Clients : pc'[c] = "idle"
        /\ at' = 0 => batch' = << >>
        /\ clean' => /\ ~failed'
                     /\ running' => fs_'["file"] # Null
                     /\ ~running' => pipe' = << >>
                     /\ \A m \in returned', s \in Given : Kept(m, s)'
  BY DEF KeptInv, Kept
<1>1. ASSUME NEW c \in Clients, Log_(c) \/ Get(c) PROVE KeptInv'
  <2>1. /\ UNCHANGED << running, sealed, failed, fs_, clean, returned >>
        /\ UNCHANGED << files, batch, pipe, at, step >>
    BY <1>1 DEF Log_, Get, flushVars, position, worker
  <2>2. running /\ ~sealed
    BY <1>1, <1>a DEF Log_, Get
  <2>3. QED
    BY <1>a, <1>b, <1>c, <2>1, <2>2
<1>2. ASSUME NEW c \in Clients, Push(c) PROVE KeptInv'
  <2> DEFINE x == Current_(c)
  <2>1. /\ pc[c] = "push" /\ pipe' = Append(pipe, x) /\ returned' = returned \cup {x}
        /\ UNCHANGED << running, sealed, failed, fs_, clean, files, batch, at, step >>
    BY <1>2 DEF Push, flushVars, position, W!Accept
  <2>2. running /\ ~sealed
    BY <1>a, <2>1
  <2>3. x \in Msg
    <3>1. calls[c] \in 1 .. Len(LogCalls[c])
      BY <1>0, <2>1, LoggerAssumption DEF ClientInv, LoggerAssumption
    <3>2. QED
      BY <3>1, LoggerAssumption DEF Current_, LoggerAssumption
  <2> HIDE DEF x
  <2>4. /\ Len(pipe') = Len(pipe) + 1 /\ pipe'[Len(pipe) + 1] = x /\ Len(pipe) \in Nat
        /\ \A i \in 1 .. Len(pipe) : pipe'[i] = pipe[i]
    BY <1>0, <2>1, <2>3, AppendProperties
  <2>5. Holds(pipe', x) /\ \A m : Holds(pipe, m) => Holds(pipe', m)
    BY <2>4 DEF Holds
  <2>6. \A m, s : m = x \/ Kept(m, s) => Kept(m, s)'
    BY <2>1, <2>5 DEF Kept, ToWrite
  <2>7. QED
    BY <1>a, <1>c, <2>1, <2>2, <2>6
<1>3. CASE RunTask \/ Exit \/ \E m \in Msg : SendReturns(m)
  <2>1. /\ UNCHANGED << pc, running, failed, fs_, clean, returned >>
        /\ UNCHANGED << files, batch, pipe, at, step >>
        /\ sealed' # sealed => \A c \in Clients : pc[c] = "idle"
    BY <1>3 DEF RunTask, Exit, SendReturns, flushVars, position, worker, W!Seal
  <2>2. QED
    BY <1>a, <1>b, <1>c, <2>1
<1>4. CASE WorkerBatch
  <2>1. PICK n \in 1 .. Len(pipe) : RealFlush(SubSeq(pipe, 1, n)) /\ W!Deliver(n)
    BY <1>4 DEF WorkerBatch
  <2> DEFINE p == SubSeq(pipe, 1, n)
             q == SubSeq(pipe, n + 1, Len(pipe))
  <2>2. /\ UNCHANGED << pc, running, sealed, fs_, clean, returned, files >>
        /\ pipe' = q /\ running /\ at = 0 /\ ~failed'
    BY <1>4, <2>1 DEF WorkerBatch, RealFlush, GoOn, W!Deliver
  <2>3. Len(Flushes) >= 1
    BY <1>0, <2>1, FlushAssumption, EmptySeq DEF FlushAssumption, RealFlush
  <2>4. batch' = p /\ at' = 1 /\ step' # "sync"
    BY <1>0, <2>1, <2>3 DEF RealFlush, GoOn
  <2>5. \A m : Holds(pipe, m) => Holds(p, m) \/ Holds(q, m)
    <3>1. \A i \in 1 .. Len(pipe) :
            IF i <= n THEN i \in 1 .. Len(p) /\ p[i] = pipe[i]
                      ELSE i - n \in 1 .. Len(q) /\ q[i - n] = pipe[i]
      BY <1>0
    <3> HIDE DEF p, q
    <3>2. QED
      BY <3>1 DEF Holds
  <2> HIDE DEF p, q
  <2>6. \A s \in Given : ToWrite(s)' /\ ~ToWrite(s)
    BY <1>0, <2>2, <2>4 DEF ToWrite, Given
  <2>7. ASSUME NEW m, NEW s \in Given, Kept(m, s) PROVE Kept(m, s)'
    BY <2>2, <2>4, <2>5, <2>6, <2>7 DEF Kept
  <2>8. QED
    BY <1>a, <1>c, <2>2, <2>4, <2>7
<1>5. CASE SinkStep
  <2>1. /\ FlushStep /\ clean' = (clean /\ ~failed' /\ fs_'["file"] # Null /\ NothingLost)
        /\ UNCHANGED << pc, pipe, sealed, returned >>
    BY <1>5 DEF SinkStep, worker
  <2>2. running' = running /\ at > 0
    BY <2>1 DEF FlushStep, FlushStdout, FlushNoFile, InitLogFile, Fwrite, Sync
  <2>3. at' = 0 => batch' = << >>
    BY <1>0, <1>a, <2>1, FlushAssumption DEF FlushStep, FlushStdout, FlushNoFile, InitLogFile, Fwrite, Sync,
       NextSink, GoOn, FlushInv, FilesTypeOK
  <2>4. ASSUME clean', NEW m \in returned, NEW s \in Given PROVE Kept(m, s)'
    <3>a. running
      BY <1>0, <2>2
    <3>b. clean /\ ~failed' /\ NothingLost
      BY <2>1, <2>4, Zenon
    <3>0. running /\ clean /\ ~failed' /\ NothingLost
      BY <3>a, <3>b
    <3>1. /\ clean /\ ~failed' /\ fs_["file"] # Null /\ s \in Sinks
          /\ Kept(m, s)
      BY <1>0, <1>a, <2>4, <3>0
    <3>2. CASE Holds(pipe, m)
      BY <2>1, <3>2 DEF Kept
    <3>3. CASE \E n \in FilesOf(s) : Holds(files[n].data, m)
      <4>1. PICK n \in FilesOf(s) : Holds(files[n].data, m)
        BY <3>3
      <4>2. Holds(files'[n].data, m)
        BY <1>0, <2>1, <3>0, <3>1, <4>1, FilesHold
      <4>3. QED
        BY <4>2 DEF Kept, FilesOf
    <3>4. CASE ToWrite(s) /\ Holds(batch, m)
      <4>1. CASE ToWrite(s)' /\ batch' = batch
        BY <3>4, <4>1 DEF Kept
      <4>2. CASE Fwrite /\ s = Current
        <5>1. PICK n \in FilesOf(s) : Holds(files'[n].data, m)
          BY <1>0, <2>1, <3>0, <3>1, <3>4, <4>2, FilesHold
        <5>2. QED
          BY <5>1 DEF Kept, FilesOf
      <4>3. QED
        BY <1>0, <2>1, <3>1, <3>4, <4>1, <4>2, StillToWrite
    <3>5. QED
      BY <3>1, <3>2, <3>3, <3>4 DEF Kept
  <2>5. QED
    BY <1>0, <1>a, <1>c, <2>1, <2>2, <2>3, <2>4
<1>6. CASE CloseSinks
  <2>1. /\ sealed /\ (~late => pipe = << >>) /\ CloseAll /\ at = 0 /\ pipe' = << >>
        /\ clean' = (clean /\ ~late /\ NothingLost)
        /\ UNCHANGED << pc, sealed, returned >>
    BY <1>6 DEF CloseSinks, CloseAll
  <2>2. /\ running' = FALSE /\ at' = 0 /\ batch' = << >> /\ failed' = FALSE
    BY <2>1 DEF CloseAll, Gone
  <2>3. ASSUME clean', NEW m, NEW s \in Given, Kept(m, s) PROVE Kept(m, s)'
    <3>a. clean' => ~late /\ NothingLost
      BY <2>1, Zenon
    <3>0. ~late /\ NothingLost /\ pipe = << >>
      BY <2>1, <2>3, <3>a
    <3>1. PICK n \in FilesOf(s) : Holds(files[n].data, m)
      BY <2>1, <2>3, <3>0 DEF Kept, ToWrite, Holds
    <3>2. Holds(files'[n].data, m)
      BY <1>0, <2>1, <3>0, <3>1, FilesHold
    <3>3. QED
      BY <3>1, <3>2 DEF Kept, FilesOf
  <2>4. clean' => clean
    BY <2>1, Zenon
  <2>5. QED
    BY <1>a, <1>c, <2>1, <2>2, <2>3, <2>4
<1>7. CASE Crash
  <2>1. ~clean' /\ pc' = [c \in Clients |-> "idle"] /\ Gone
    BY <1>7 DEF Crash, Kill, PowerCut
  <2>2. QED
    BY <1>c, <2>1 DEF Gone
<1>8. CASE Restart
  <2>1. /\ UNCHANGED << pc, failed, returned >> /\ ~running /\ running'
        /\ UNCHANGED << files, batch, pipe, at, step >>
        /\ clean' = (clean /\ fs_'["file"] # Null)
    BY <1>8 DEF Restart, Start, position
  <2>2. QED
    BY <1>a, <1>b, <1>c, <2>1
<1>9. CASE UNCHANGED vars
  <2>1. /\ UNCHANGED << pc, running, sealed, failed, fs_, clean, returned >>
        /\ UNCHANGED << files, batch, pipe, at, step >>
    BY <1>9 DEF vars, flushVars, position, worker
  <2>2. QED
    BY <1>a, <1>b, <1>c, <2>1
<1>10. QED
  BY <1>1, <1>2, <1>3, <1>4, <1>5, <1>6, <1>7, <1>8, <1>9 DEF Next

------------------------------------------------------------------------------
(* Theorems *)

(* The invariant holds throughout.                                         *)
THEOREM LoggerInvariance == Spec => []LoggerInv
<1>1. QED
  BY InitLogger, NextLogger, PTL DEF Spec

(* A logger with its clients, pool and worker uses the sinks as LogFlush   *)
(* allows: only the worker writes, one batch after another (RealFlush).    *)
THEOREM ImplementsFlush == Spec => FlushSpec
<1>1. Init => FlushInit
  BY DEF Init
<1>2. QED
  BY LoggerInvariance, StepsFlush, <1>1, PTL DEF Spec, FlushSpec

(* So what the sinks promise holds of a logger: flushed messages are kept. *)
THEOREM LoggerDurable == Spec => []Durable
<1>1. QED
  BY ImplementsFlush, KeepsDurable, PTL

(* And what was in a file when that was closed without an error stays with *)
(* the kernel, whatever becomes of this process and of later ones.         *)
THEOREM LoggerClosed == Spec => []ClosedSurvives
<1>1. QED
  BY ImplementsFlush, ClosedSurvive, PTL

(* And a rolling file outgrows max_size_ by one batch at most.             *)
THEOREM LoggerRolls == Spec => []RollBound
<1>1. QED
  BY ImplementsFlush, RollsInTime, PTL

(* ERROR and FATAL reach no file before send_backlog has returned for them *)
(* (the wait for the future in serialize), whatever the pool does.         *)
THEOREM SendsFirst == Spec => []UrgentSentFirst
<1>1. LoggerInv => UrgentSentFirst
  BY DEF LoggerInv, UrgentSentFirst, Through
<1>2. QED
  BY LoggerInvariance, <1>1, PTL

(* In every file the messages of one thread are in the order in which it   *)
(* logged them, and none is there twice: serialize pushes before it        *)
(* returns, the worker takes batches from the head, RealFlush ends one     *)
(* before it begins the next.                                              *)
THEOREM FilesKeepOrder == Spec => []FileOrder
<1>1. Init => LoggerInv /\ OrderInv
  BY InitLogger, InitOrder
<1>2. LoggerInv /\ OrderInv /\ [Next]_vars => (LoggerInv /\ OrderInv)'
  BY NextLogger, NextOrder
<1>3. LoggerInv /\ OrderInv => FileOrder
  BY DEF OrderInv
<1>4. QED
  BY <1>1, <1>2, <1>3, PTL DEF Spec

(* After an orderly exit every message whose logging call has returned is  *)
(* in a file of each sink and with the kernel, if in no process a fopen, a *)
(* fwrite or a fclose has failed, none was killed, and each worker thread  *)
(* had run before Stop: such a worker ends with nothing left to write, and *)
(* the sinks are closed after it.                                          *)
THEOREM ExitLosesNothing == Spec => []ExitKeepsAll
<1>1. Init => LoggerInv /\ KeptInv
  BY InitLogger, InitKept
<1>2. LoggerInv /\ KeptInv /\ [Next]_vars => (LoggerInv /\ KeptInv)'
  BY NextLogger, NextKept
<1>3. LoggerInv /\ KeptInv => ExitKeepsAll
  <2> SUFFICES ASSUME LoggerInv, KeptInv, ~running, clean,
                      NEW m \in returned, NEW s \in Given
               PROVE  \E n \in FilesOf(s) : \E i \in 1 .. files[n].os : files[n].data[i] = m
    BY DEF ExitKeepsAll
  <2>1. pipe = << >> /\ at = 0 /\ \A t \in Sinks : fs_[t] = Null
    BY DEF KeptInv, LoggerInv, FlushInv, OpenInv
  <2>2. PICK n \in FilesOf(s) : Holds(files[n].data, m)
    BY <2>1 DEF KeptInv, ToWrite, Holds
  <2>3. n \in Names
    BY NamesType DEF FilesOf
  <2>4. files[n].os = Len(files[n].data)
    BY <2>1, <2>3, NamesType DEF LoggerInv, FlushInv, ClosedFlushed
  <2>5. QED
    BY <2>2, <2>4 DEF Holds
<1>4. QED
  BY <1>1, <1>2, <1>3, PTL DEF Spec

==============================================================================
