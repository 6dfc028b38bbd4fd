----------------------------- MODULE AsyncLogger -----------------------------
(***************************************************************************)
(* What happens to a log message from the call of Debug .. Fatal to the    *)
(* files (log_src/AsyncLogger.hpp): serialize hands ERROR and FATAL to the *)
(* thread pool and waits until send_backlog has returned, then every       *)
(* message goes to the worker, whose batches RealFlush gives to the sinks. *)
(*                                                                         *)
(* The sinks are LogFlush.  The other parts are taken by what they         *)
(* promise: the worker is a LogPipe (AsyncWorker implements it), the pool  *)
(* a queue served by some threads, and a task of send_backlog something    *)
(* that returns (BackupLog!SendReturns) and sends what it was given.       *)
(***************************************************************************)
EXTENDS LogFlush, FiniteSets

CONSTANTS
  Clients,      (* the threads that log                                  *)
  LogCalls,     (* the messages that each of them logs, in order         *)
  Urgent,       (* those of level ERROR or FATAL                         *)
  PoolThreads   (* thread_count                                          *)

ASSUME LoggerAssumption ==
  /\ LogCalls \in [Clients -> Seq(Msg)]
  (* A message stands for one call, whatever its text.                     *)
  /\ \A c, d \in Clients : \A k \in 1 .. Len(LogCalls[c]), l \in 1 .. Len(LogCalls[d]) :
       LogCalls[c][k] = LogCalls[d][l] => c = d /\ k = l
  /\ Urgent \subseteq Msg
  /\ PoolThreads \in Nat \ {0}

VARIABLES
  pc,           (* where each client is in serialize                     *)
  calls,        (* how many of its messages it has begun to log          *)
  m_tasks,      (* the queue of the pool                                 *)
  sending,      (* messages for which send_backlog runs                  *)
  sent,         (* history: messages for which it has returned           *)
  pipe, out, sealed,  (* the worker, see LogPipe                         *)
  late,         (* the scheduler's choice: the worker thread of this     *)
                (* process does not come to run before Stop              *)
  clean,        (* history: no process was killed, no file has failed,   *)
                (* and no worker thread was late                         *)
  returned      (* history: messages whose logging call has returned     *)

pool   == << m_tasks, sending, sent >>
worker == << pipe, out, sealed, late >>
vars == << flushVars, pc, calls, pool, worker, clean, returned >>

W == INSTANCE LogPipe WITH Lossless <- TRUE

Init ==
  /\ FlushInit /\ W!Init
  /\ pc = [c \in Clients |-> "idle"]
  /\ calls = [c \in Clients |-> 0]
  /\ m_tasks = << >> /\ sending = {} /\ sent = {}
  /\ late \in BOOLEAN
  /\ clean = (fs_["file"] # Null)
  /\ returned = {}

Current_(c) == LogCalls[c][calls[c]]
Goto(c, l) == pc' = [pc EXCEPT ![c] = l]

------------------------------------------------------------------------------
(* serialize *)

Log_(c) ==
  /\ running /\ ~sealed
  /\ pc[c] = "idle" /\ calls[c] < Len(LogCalls[c])
  /\ calls' = [calls EXCEPT ![c] = @ + 1]
  /\ LET m == LogCalls[c][calls[c] + 1]
     IN IF m \in Urgent THEN m_tasks' = Append(m_tasks, m) /\ Goto(c, "get")
                        ELSE m_tasks' = m_tasks /\ Goto(c, "push")
  /\ UNCHANGED << flushVars, sending, sent, worker, clean, returned >>

(* A thread of the pool takes the first task.                              *)
RunTask ==
  /\ running /\ m_tasks # << >> /\ Cardinality(sending) < PoolThreads
  /\ sending' = sending \cup {Head(m_tasks)}
  /\ m_tasks' = Tail(m_tasks)
  /\ UNCHANGED << flushVars, pc, calls, sent, worker, clean, returned >>

(* send_backlog returns, whether or not it has reached the server.         *)
SendReturns(m) ==
  /\ m \in sending
  /\ sending' = sending \ {m} /\ sent' = sent \cup {m}
  /\ UNCHANGED << flushVars, pc, calls, m_tasks, worker, clean, returned >>

(* Faulty: the future is not waited for.                                   *)
GetAtOnce(c) ==
  /\ pc[c] = "get"
  /\ Goto(c, "push")
  /\ UNCHANGED << flushVars, calls, pool, worker, clean, returned >>

(* ret.get().                                                              *)
Get(c) ==
  /\ pc[c] = "get" /\ Current_(c) \in sent
  /\ Goto(c, "push")
  /\ UNCHANGED << flushVars, calls, pool, worker, clean, returned >>

(* Faulty: ERROR and FATAL go to the backup only.                          *)
PushOrdinary(c) ==
  /\ pc[c] = "push"
  /\ IF Current_(c) \in Urgent THEN UNCHANGED << pipe, out, sealed >> ELSE W!Accept(Current_(c))
  /\ returned' = returned \cup {Current_(c)}
  /\ Goto(c, "idle")
  /\ UNCHANGED << flushVars, calls, pool, late, clean >>

(* asyncworker->Push.                                                      *)
Push(c) ==
  /\ pc[c] = "push"
  /\ W!Accept(Current_(c))
  /\ returned' = returned \cup {Current_(c)}
  /\ Goto(c, "idle")
  /\ UNCHANGED << flushVars, calls, pool, late, clean >>

------------------------------------------------------------------------------
(* The worker and the end of the process *)

(* A thread that finds stop_ set at its first test writes nothing out.     *)
WorkerBatch ==
  /\ ~late
  /\ \E n \in 1 .. Len(pipe) : RealFlush(SubSeq(pipe, 1, n)) /\ W!Deliver(n)
  /\ UNCHANGED << pc, calls, pool, late, clean, returned >>

(* A fclose that fails leaves a file shorter than it seemed.               *)
NothingLost == \A n \in Names : Len(files'[n].data) >= Len(files[n].data)

SinkStep ==
  /\ FlushStep
  /\ clean' = (clean /\ ~failed' /\ fs_'["file"] # Null /\ NothingLost)
  /\ UNCHANGED << pc, calls, pool, worker, returned >>

(* main returns when the threads that log have ended; the logger's worker  *)
(* is stopped first, its sinks are destroyed after it.                     *)
Exit ==
  /\ running /\ ~sealed
  /\ \A c \in Clients : pc[c] = "idle"
  /\ W!Seal
  /\ UNCHANGED << flushVars, pc, calls, pool, late, clean, returned >>

(* The worker has ended: with all that it was given written out            *)
(* (AsyncWorker!Drained), or with nothing, if its first test of stop_ came *)
(* after Stop.                                                             *)
CloseSinks ==
  /\ sealed /\ (~late => pipe = << >>)
  /\ CloseAll
  /\ pipe' = << >>
  /\ clean' = (clean /\ ~late /\ NothingLost)
  /\ UNCHANGED << pc, calls, pool, out, sealed, late, returned >>

(* A dead process takes its threads and what they held with it.            *)
Crash ==
  /\ Kill \/ PowerCut
  /\ pc' = [c \in Clients |-> "idle"]
  /\ m_tasks' = << >> /\ sending' = {}
  /\ pipe' = << >> /\ clean' = FALSE
  /\ UNCHANGED << calls, sent, out, sealed, late, returned >>

Restart ==
  /\ Start
  /\ sealed' = FALSE /\ late' \in BOOLEAN
  /\ clean' = (clean /\ fs_'["file"] # Null)
  /\ UNCHANGED << pc, calls, pool, pipe, out, returned >>

Next ==
  \/ \E c \in Clients : Log_(c) \/ Get(c) \/ Push(c)
  \/ RunTask \/ (\E m \in Msg : SendReturns(m))
  \/ WorkerBatch \/ SinkStep
  \/ Exit \/ CloseSinks \/ Crash \/ Restart

Spec == Init /\ [][Next]_vars

------------------------------------------------------------------------------
(* Properties *)

(* In every file the messages of one thread are in the order in which it   *)
(* logged them, none twice, across rolls, crashes, and files that a later  *)
(* process opens again.                                                    *)
Follows(m, n) ==
  \A c \in Clients : \A k, l \in 1 .. Len(LogCalls[c]) :
    m = LogCalls[c][k] /\ n = LogCalls[c][l] => k < l
InOrder(msgs) == \A i, j \in 1 .. Len(msgs) : i < j => Follows(msgs[i], msgs[j])
FileOrder == \A n \in Names : InOrder(files[n].data)

(* The invariant from which FileOrder follows: what is in a file is before *)
(* what waits in the pipe, and before the batch until its sink has that.   *)
Ahead(s, t) == \A i \in 1 .. Len(s), j \in 1 .. Len(t) : Follows(s[i], t[j])
Pushed(msgs) ==
  \A i \in 1 .. Len(msgs), c \in Clients : \A k \in 1 .. Len(LogCalls[c]) :
    msgs[i] = LogCalls[c][k] => k <= calls[c] /\ (pc[c] # "idle" => k # calls[c])
ToWrite(s) ==
  at > 0 /\ \E i \in at .. Len(Flushes) : Flushes[i] = s /\ (i = at => step # "sync")
SinkOf(n) == IF n = AppFile THEN "file" ELSE "roll"

OrderInv ==
  /\ InOrder(pipe) /\ InOrder(batch) /\ FileOrder
  /\ Pushed(pipe) /\ Pushed(batch) /\ \A n \in Names : Pushed(files[n].data)
  /\ Ahead(batch, pipe) /\ \A n \in Names : Ahead(files[n].data, pipe)
  /\ \A n \in Names : ToWrite(SinkOf(n)) => Ahead(files[n].data, batch)

(* An ERROR or FATAL message is in no file before send_backlog is through  *)
(* with it, so a crash cannot leave one that was only written locally      *)
(* without an attempt to send it, although a pool in between has its own   *)
(* queue and its own threads.                                              *)
UrgentSentFirst ==
  \A n \in Names : \A i \in 1 .. Len(files[n].data) :
    files[n].data[i] \in Urgent => files[n].data[i] \in sent

(* The invariant from which UrgentSentFirst follows: an urgent message is  *)
(* nowhere beyond the wait for send_backlog unless that has returned.      *)
Through(msgs) == \A i \in 1 .. Len(msgs) : msgs[i] \in Urgent => msgs[i] \in sent

ClientInv ==
  /\ pc \in [Clients -> {"idle", "get", "push"}]
  /\ calls \in [Clients -> Nat]
  /\ \A c \in Clients :
       /\ calls[c] <= Len(LogCalls[c])
       /\ pc[c] # "idle" => calls[c] >= 1
       /\ pc[c] = "push" /\ Current_(c) \in Urgent => Current_(c) \in sent

LoggerInv ==
  /\ FlushInv /\ ClientInv
  /\ pipe \in Seq(Msg) /\ Through(pipe) /\ Through(batch)
  /\ \A n \in Names : Through(files[n].data)

(* The sinks that the builder was given, and what a sequence holds.        *)
Given == Sinks \cap {Flushes[i] : i \in DOMAIN Flushes}
Holds(msgs, m) == \E i \in 1 .. Len(msgs) : msgs[i] = m

(* After an orderly exit all that was logged is in a file of each sink and *)
(* given to the kernel, whatever flush_log is: provided that no process    *)
(* was killed and no fopen, fwrite or fclose has failed, and that the      *)
(* worker thread had come to run before Stop.  A process that logs and     *)
(* exits before that loses all of it, although every call has returned.    *)
ExitKeepsAll ==
  ~running /\ clean =>
    \A m \in returned, s \in Given :
      \E n \in FilesOf(s) : \E i \in 1 .. files[n].os : files[n].data[i] = m

(* The invariant from which it follows: as long as nothing has gone wrong, *)
(* a message is in the pipe, in the batch and yet to be written by a sink, *)
(* or in one of that sink's files.                                         *)
KeptInv ==
  /\ ~running \/ sealed => \A c \in Clients : pc[c] = "idle"
  /\ at = 0 => batch = << >>
  /\ clean => /\ ~failed
              /\ running => fs_["file"] # Null
              /\ ~running => pipe = << >>
              /\ \A m \in returned, s \in Given :
                   \/ Holds(pipe, m)
                   \/ ToWrite(s) /\ Holds(batch, m)
                   \/ \E n \in FilesOf(s) : Holds(files[n].data, m)

==============================================================================
