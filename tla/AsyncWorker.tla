----------------------------- MODULE AsyncWorker -----------------------------
(***************************************************************************)
(* The double-buffered log worker mylog::AsyncWorker                       *)
(* (log_src/AsyncWorker.hpp): any number of producers call Push, one       *)
(* worker thread runs ThreadEntry, and the owner constructs the worker and *)
(* later calls Stop.                                                       *)
(*                                                                         *)
(* A step is one critical section, one access to the atomic stop_, one     *)
(* notification or one access to state that only one thread uses.  stop_   *)
(* is written without the mutex, so testing the predicate of a wait and    *)
(* going to sleep are two steps.  A thread at "waiting" has released the   *)
(* mutex and sleeps on its condition variable; a notification, or a        *)
(* spurious wake-up, sends it back to "lock", where it takes the mutex and *)
(* tests its predicate again.                                              *)
(***************************************************************************)
EXTENDS AsyncBuffer

CONSTANTS
  Producers,   (* the threads that call Push                            *)
  Worker,      (* the thread that runs ThreadEntry                      *)
  Owner,       (* the thread that constructs, and then stops, the object*)
  NoThread,    (* "the mutex is free"                                   *)
  Safe,        (* async_type_ = ASYNC_SAFE (FALSE: ASYNC_UNSAFE)        *)
  Destructor,  (* TRUE: only the destructor calls Stop, when no call of *)
               (* Push is in progress and none can follow, as in this   *)
               (* repository; FALSE: Stop is called on a live object, as*)
               (* the public interface allows and Push expects          *)
  MaxPush,     (* bound: calls of Push by one producer                  *)
  Lengths      (* the lengths of the formatted messages                 *)

(* LogMessage::format always writes brackets and a newline: no message is *)
(* empty.                                                                 *)
ASSUME WorkerAssumption ==
  /\ Worker \notin Producers /\ Owner \notin Producers
  /\ Worker # Owner
  /\ NoThread \notin Producers \cup {Worker, Owner}
  /\ Safe \in BOOLEAN
  /\ Destructor \in BOOLEAN
  /\ MaxPush \in Nat
  /\ Lengths \subseteq Nat \ {0}

VARIABLES
  pc,                  (* where each thread is                              *)
  mutex,               (* the thread that holds mutex_, or NoThread         *)
  stop_,
  buffer_productor_,
  buffer_consumer_,
  msg,                 (* the message of each producer's current call       *)
  pushed,              (* how many calls of Push each producer has made     *)
  out,                 (* what callback_ has been given, oldest first       *)
  swapped              (* history: the worker has swapped the buffers       *)

vars == << pc, mutex, stop_, buffer_productor_, buffer_consumer_,
           msg, pushed, out, swapped >>

Threads == Producers \cup {Worker, Owner}

Message == [from : Producers, seq : 1 .. MaxPush, len : Lengths]

NoMessage == [from |-> NoThread, seq |-> 0, len |-> 0]

ProducerPC == {"idle", "lock", "block", "waiting", "locked", "notify"}
WorkerPC   == {"top", "lock", "block", "waiting", "swap", "flush",
               "drain", "exit"}
OwnerPC    == {"ctor", "running", "notify_all", "join", "stopped", "terminated"}

Init ==
  /\ pc = [t \in Threads |-> IF t = Worker THEN "top"
                             ELSE IF t = Owner THEN "ctor" ELSE "idle"]
  /\ mutex = NoThread
  /\ stop_ = FALSE
  /\ buffer_productor_ = NewBuffer
  /\ buffer_consumer_ = NewBuffer
  /\ msg = [p \in Producers |-> NoMessage]
  /\ pushed = [p \in Producers |-> 0]
  /\ out = << >>
  /\ swapped = FALSE

Goto(t, l) == pc' = [pc EXCEPT ![t] = l]

(* The state that only the worker changes, and that only producers change. *)
workerVars == << buffer_consumer_, out, swapped >>
callVars   == << msg, pushed >>

(* cond_consumer_: only the worker ever waits on it, so notify_one and     *)
(* notify_all do the same: they wake it if it sleeps, and are lost if not. *)
WakeWorker(t, l) ==
  pc' = IF pc[Worker] = "waiting"
          THEN [pc EXCEPT ![t] = l, ![Worker] = "lock"]
          ELSE [pc EXCEPT ![t] = l]

(* The predicate of the wait on cond_productor_.                           *)
MayWrite(p) == msg[p].len <= WriteableSize(buffer_productor_) \/ stop_

(* The predicate of the wait on cond_consumer_.  It looks at the buffer    *)
(* that the worker itself has just reset, not at the one producers fill.   *)
MayRead == ~IsEmpty(buffer_consumer_) \/ stop_

------------------------------------------------------------------------------
(* The owner *)

(* thread_ is declared before callback_: the worker thread may already run *)
(* when the constructor initialises callback_.                             *)
Construct ==
  /\ pc[Owner] = "ctor"
  /\ Goto(Owner, "running")
  /\ UNCHANGED << mutex, stop_, buffer_productor_, workerVars, callVars >>

StopSet ==
  /\ pc[Owner] = "running"
  /\ Destructor => \A p \in Producers : pc[p] = "idle"
  /\ stop_' = TRUE
  /\ Goto(Owner, "notify_all")
  /\ UNCHANGED << mutex, buffer_productor_, workerVars, callVars >>

(* Faulty: Stop sends no notification.                                     *)
StopNotifyNobody ==
  /\ pc[Owner] = "notify_all"
  /\ Goto(Owner, "join")
  /\ UNCHANGED << mutex, stop_, buffer_productor_, workerVars, callVars >>

StopNotify ==
  /\ pc[Owner] = "notify_all"
  /\ WakeWorker(Owner, "join")
  /\ UNCHANGED << mutex, stop_, buffer_productor_, workerVars, callVars >>

StopJoin ==
  /\ pc[Owner] = "join"
  /\ pc[Worker] = "exit"
  /\ Goto(Owner, "stopped")
  /\ UNCHANGED << mutex, stop_, buffer_productor_, workerVars, callVars >>

(* After a Stop on the live object the destructor calls Stop again, which  *)
(* joins a thread that is no longer joinable: that throws, out of a        *)
(* destructor, and std::terminate ends the process.                        *)
DestroyStopped ==
  /\ pc[Owner] = "stopped"
  /\ ~Destructor
  /\ \A p \in Producers : pc[p] = "idle"
  /\ Goto(Owner, "terminated")
  /\ UNCHANGED << mutex, stop_, buffer_productor_, workerVars, callVars >>

------------------------------------------------------------------------------
(* The producers *)

(* Push is called on a constructed object, with a fresh message.           *)
PushCall(p) ==
  /\ pc[p] = "idle"
  /\ pc[Owner] \notin {"ctor", "terminated"}
  /\ Destructor => pc[Owner] = "running"
  /\ pushed[p] < MaxPush
  /\ pushed' = [pushed EXCEPT ![p] = @ + 1]
  /\ \E l \in Lengths :
       msg' = [msg EXCEPT ![p] = [from |-> p, seq |-> pushed[p] + 1, len |-> l]]
  /\ Goto(p, "lock")
  /\ UNCHANGED << mutex, stop_, buffer_productor_, workerVars >>

(* Take the mutex; an ASYNC_SAFE producer then tests its predicate.        *)
PushLock(p) ==
  /\ pc[p] = "lock"
  /\ mutex = NoThread
  /\ mutex' = p
  /\ Goto(p, IF Safe /\ ~MayWrite(p) THEN "block" ELSE "locked")
  /\ UNCHANGED << stop_, buffer_productor_, workerVars, callVars >>

PushBlock(p) ==
  /\ pc[p] = "block"
  /\ mutex' = NoThread
  /\ Goto(p, "waiting")
  /\ UNCHANGED << stop_, buffer_productor_, workerVars, callVars >>

(* An ASYNC_SAFE producer gives its message up once the worker is stopped. *)
PushRefused(p) ==
  /\ pc[p] = "locked"
  /\ Safe /\ stop_
  /\ mutex' = NoThread
  /\ Goto(p, "idle")
  /\ UNCHANGED << stop_, buffer_productor_, workerVars, callVars >>

(* Faulty: the test of stop_ that follows the wait is dropped.             *)
PushWriteUnchecked(p) ==
  /\ pc[p] = "locked"
  /\ buffer_productor_' = Push(buffer_productor_, msg[p])
  /\ mutex' = NoThread
  /\ Goto(p, "notify")
  /\ UNCHANGED << stop_, workerVars, callVars >>

PushWrite(p) ==
  /\ pc[p] = "locked"
  /\ ~(Safe /\ stop_)
  /\ buffer_productor_' = Push(buffer_productor_, msg[p])
  /\ mutex' = NoThread
  /\ Goto(p, "notify")
  /\ UNCHANGED << stop_, workerVars, callVars >>

PushNotify(p) ==
  /\ pc[p] = "notify"
  /\ WakeWorker(p, "idle")
  /\ UNCHANGED << mutex, stop_, buffer_productor_, workerVars, callVars >>

------------------------------------------------------------------------------
(* The worker thread *)

LoopTest ==
  /\ pc[Worker] = "top"
  /\ Goto(Worker, IF stop_ THEN "exit" ELSE "lock")
  /\ UNCHANGED << mutex, stop_, buffer_productor_, workerVars, callVars >>

(* Faulty: the wait has no predicate, so any wake-up goes on to swap.      *)
WorkerLockNoPredicate ==
  /\ pc[Worker] = "lock"
  /\ mutex = NoThread
  /\ mutex' = Worker
  /\ \E l \in {"swap", "block"} : Goto(Worker, l)
  /\ UNCHANGED << stop_, buffer_productor_, workerVars, callVars >>

(* Take the mutex and test the predicate.                                  *)
WorkerLock ==
  /\ pc[Worker] = "lock"
  /\ mutex = NoThread
  /\ mutex' = Worker
  /\ Goto(Worker, IF MayRead THEN "swap" ELSE "block")
  /\ UNCHANGED << stop_, buffer_productor_, workerVars, callVars >>

WorkerBlock ==
  /\ pc[Worker] = "block"
  /\ mutex' = NoThread
  /\ Goto(Worker, "waiting")
  /\ UNCHANGED << stop_, buffer_productor_, workerVars, callVars >>

(* Swap the buffers and release the mutex.  Only an ASYNC_UNSAFE worker    *)
(* notifies cond_productor_, on which only ASYNC_SAFE producers wait.      *)
WorkerSwap ==
  /\ pc[Worker] = "swap"
  /\ buffer_productor_' = buffer_consumer_
  /\ buffer_consumer_' = buffer_productor_
  /\ swapped' = TRUE
  /\ mutex' = NoThread
  /\ LET asleep == {p \in Producers : pc[p] = "waiting"}
     IN  IF ~Safe /\ asleep # {}
           THEN \E p \in asleep :
                  pc' = [pc EXCEPT ![Worker] = "flush", ![p] = "lock"]
           ELSE Goto(Worker, "flush")
  /\ UNCHANGED << stop_, out, callVars >>

(* Faulty: the buffer is not reset after the callback.                     *)
WorkerFlushNoReset ==
  /\ pc[Worker] = "flush"
  /\ out' = out \o buffer_consumer_.data
  /\ Goto(Worker, "drain")
  /\ UNCHANGED << mutex, stop_, buffer_productor_, buffer_consumer_, swapped,
                  callVars >>

(* Faulty: the buffer is reset before callback_ is given it.               *)
WorkerFlushResetFirst ==
  /\ pc[Worker] = "flush"
  /\ buffer_consumer_' = Reset(buffer_consumer_)
  /\ out' = out \o buffer_consumer_'.data
  /\ Goto(Worker, "drain")
  /\ UNCHANGED << mutex, stop_, buffer_productor_, swapped, callVars >>

(* callback_ writes the whole batch out, then the buffer is reset.         *)
WorkerFlush ==
  /\ pc[Worker] = "flush"
  /\ out' = out \o buffer_consumer_.data
  /\ buffer_consumer_' = Reset(buffer_consumer_)
  /\ Goto(Worker, "drain")
  /\ UNCHANGED << mutex, stop_, buffer_productor_, swapped, callVars >>

(* The exit test reads buffer_productor_ without the mutex.                *)
WorkerDrain ==
  /\ pc[Worker] = "drain"
  /\ Goto(Worker, IF stop_ /\ IsEmpty(buffer_productor_) THEN "exit"
                                                         ELSE "top")
  /\ UNCHANGED << mutex, stop_, buffer_productor_, workerVars, callVars >>

------------------------------------------------------------------------------

(* A condition variable may wake a sleeper without a notification.         *)
SpuriousWakeup(t) ==
  /\ pc[t] = "waiting"
  /\ Goto(t, "lock")
  /\ UNCHANGED << mutex, stop_, buffer_productor_, workerVars, callVars >>

OwnerStep == Construct \/ StopSet \/ StopNotify \/ StopJoin \/ DestroyStopped

PushStep(p) ==
  \/ PushLock(p) \/ PushBlock(p) \/ PushRefused(p)
  \/ PushWrite(p) \/ PushNotify(p)

WorkerStep ==
  \/ LoopTest \/ WorkerLock \/ WorkerBlock \/ WorkerSwap
  \/ WorkerFlush \/ WorkerDrain

Next ==
  \/ OwnerStep
  \/ \E p \in Producers : PushCall(p) \/ PushStep(p)
  \/ WorkerStep
  \/ \E t \in Producers \cup {Worker} : SpuriousWakeup(t)

Spec == Init /\ [][Next]_vars

(* Every thread that can run is eventually scheduled.  Nothing makes a     *)
(* producer call Push, the owner call Stop, or a wake-up be spurious.      *)
Fairness ==
  /\ WF_vars(WorkerStep)
  /\ WF_vars(Construct \/ StopNotify \/ StopJoin)
  /\ \A p \in Producers : WF_vars(PushStep(p))

FairSpec == Spec /\ Fairness

------------------------------------------------------------------------------
(* Properties *)

TypeOK ==
  /\ pc \in [Threads -> ProducerPC \cup WorkerPC \cup OwnerPC]
  /\ pc[Worker] \in WorkerPC
  /\ pc[Owner] \in OwnerPC
  /\ \A p \in Producers : pc[p] \in ProducerPC
  /\ mutex \in Threads \cup {NoThread}
  /\ stop_ \in BOOLEAN
  /\ buffer_productor_ \in BufferOf(Message)
  /\ buffer_consumer_ \in BufferOf(Message)
  /\ msg \in [Producers -> Message \cup {NoMessage}]
  /\ pushed \in [Producers -> 0 .. MaxPush]
  /\ out \in Seq(Message)
  /\ swapped \in BOOLEAN

(* Push never copies past the end of the vector, whatever the order in     *)
(* which producers fill the buffer and the worker swaps it away, when the  *)
(* producer waits for room (ASYNC_SAFE) or one growth step is enough for   *)
(* every message (ASYNC_UNSAFE, messages no longer than buffer_size and    *)
(* linear_growth).                                                         *)
InBoundsBoth == InBounds(buffer_productor_) /\ InBounds(buffer_consumer_)

NoOverrun ==
  Safe \/ (\A l \in Lengths : OneStepSuffices(l)) => InBoundsBoth

(* Once the worker has swapped the buffers, nothing is left behind when it *)
(* has ended: an ASYNC_SAFE producer still inside Push gives its message   *)
(* up instead of writing it where nobody reads, and a destructor runs when *)
(* no producer is inside Push.                                             *)
LosesNothing == Safe \/ Destructor

Drained ==
  LosesNothing /\ swapped /\ pc[Worker] = "exit"
    => IsEmpty(buffer_productor_) /\ IsEmpty(buffer_consumer_)

(* callback_ is declared after thread_, so the worker may run before it is *)
(* initialised; still, it never calls callback_ before the constructor is  *)
(* done with it.                                                           *)
CallbackReady == pc[Worker] = "flush" => pc[Owner] # "ctor"

(* Each producer's messages are written out in the order of its calls and  *)
(* none of them twice.                                                     *)
InOrder(msgs) ==
  \A i, j \in 1 .. Len(msgs) :
    i < j /\ msgs[i].from = msgs[j].from => msgs[i].seq < msgs[j].seq

OrderKept == InOrder(out)

(* A worker implements the message pipe: what callback_ is given is what   *)
(* was written, in that order, batch by batch.                             *)
Pipe == INSTANCE LogPipe
          WITH Msg <- Message, Lossless <- LosesNothing,
               pipe <- buffer_consumer_.data \o buffer_productor_.data,
               out <- out, sealed <- swapped

PipeSpec == Pipe!Spec

------------------------------------------------------------------------------
(* The inductive invariant *)

(* Who is inside a critical section; the owner never is.                   *)
Holds(t) == \/ t \in Producers /\ pc[t] \in {"block", "locked"}
            \/ t = Worker /\ pc[t] \in {"block", "swap"}

MutexInv == \A t \in Threads : Holds(t) <=> mutex = t

(* The worker goes past its wait only after Stop has begun, because the    *)
(* only other way out is a buffer that it has itself emptied.              *)
StopInv ==
  /\ stop_ <=> pc[Owner] \notin {"ctor", "running"}
  /\ pc[Worker] \in {"swap", "flush", "drain", "exit"} => stop_
  /\ swapped => stop_ /\ pc[Worker] \in {"flush", "drain", "top", "exit"}
  /\ pc[Worker] \in {"flush", "drain"} => swapped
  /\ Destructor /\ stop_ => \A p \in Producers : pc[p] = "idle"

Empty(b) == b.write_pos = 0 /\ b.data = << >>

BufferInv ==
  /\ pc[Worker] # "flush" => Empty(buffer_consumer_)
  /\ LosesNothing /\ swapped => Empty(buffer_productor_)
  /\ buffer_productor_.size >= BufferSize
  /\ buffer_consumer_.size >= BufferSize
  /\ NoOverrun

CallInv ==
  \A p \in Producers :
    /\ pc[p] # "idle" => msg[p] \in Message
    /\ Safe /\ pc[p] = "locked" => MayWrite(p)

(* Mutual exclusion, the order in which Stop and the worker advance, what  *)
(* the buffers hold and what a producer inside Push knows: the invariant   *)
(* from which NoOverrun, Drained and CallbackReady follow.                 *)
CoreInv == TypeOK /\ MutexInv /\ StopInv /\ BufferInv /\ CallInv

(* The messages of a producer are numbered by its calls, and the one of a  *)
(* call that has not written yet is newer than all that have been written. *)
Unwritten == {"lock", "block", "waiting", "locked"}

Numbered(msgs) ==
  \A i \in 1 .. Len(msgs) :
    LET p == msgs[i].from
    IN msgs[i].seq <= pushed[p] /\ (pc[p] \in Unwritten => msgs[i].seq < pushed[p])

Before(older, newer) ==
  \A i \in 1 .. Len(older), j \in 1 .. Len(newer) :
    older[i].from = newer[j].from => older[i].seq < newer[j].seq

(* What is written out is older than the buffer of the worker, and that    *)
(* is older than the buffer of the producers: OrderKept follows.           *)
OrderInv ==
  /\ \A p \in Producers :
       pc[p] \in Unwritten => msg[p].from = p /\ msg[p].seq = pushed[p]
  /\ InOrder(out) /\ Numbered(out)
  /\ InOrder(buffer_consumer_.data) /\ Numbered(buffer_consumer_.data)
  /\ InOrder(buffer_productor_.data) /\ Numbered(buffer_productor_.data)
  /\ Before(out, buffer_consumer_.data)
  /\ Before(out, buffer_productor_.data)
  /\ Before(buffer_consumer_.data, buffer_productor_.data)

IInv == CoreInv /\ OrderInv

------------------------------------------------------------------------------
(* Liveness *)

(* Stop returns, provided that the worker is not between its test of stop_ *)
(* and its sleep when the notification is sent.                            *)
StopCompletes ==
  pc[Owner] = "notify_all" /\ pc[Worker] # "block" ~> pc[Owner] = "stopped"

(* What is in the buffer when Stop notifies a worker that has entered its  *)
(* wait, or is about to, is written out before the worker ends.            *)
InPipe(m) ==
  \/ \E i \in 1 .. Len(buffer_productor_.data) : buffer_productor_.data[i] = m
  \/ \E i \in 1 .. Len(buffer_consumer_.data) : buffer_consumer_.data[i] = m

WrittenOut(m) == \E i \in 1 .. Len(out) : out[i] = m

ShutdownFlushes ==
  \A m \in Message :
    InPipe(m) /\ pc[Owner] = "notify_all" /\ pc[Worker] \in {"lock", "waiting"}
      ~> WrittenOut(m)

------------------------------------------------------------------------------
(* What a comment says, and the code does not do *)

(* "Notify the consumer to read the data" (AsyncWorker.hpp:39): what is    *)
(* written is read.                                                        *)
NotifiedConsumerReads ==
  \A m \in Message : InPipe(m) ~> WrittenOut(m)

==============================================================================
