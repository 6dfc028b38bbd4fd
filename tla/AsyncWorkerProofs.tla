-------------------------- MODULE AsyncWorkerProofs --------------------------
(***************************************************************************)
(* Theorems about AsyncWorker, for any number of producers and messages,   *)
(* any lengths and any configuration of the buffer.                        *)
(***************************************************************************)
EXTENDS AsyncWorker, SequenceTheorems, TLAPS

------------------------------------------------------------------------------
(* The buffer *)

(* Growing never makes a buffer smaller.                                   *)
LEMMA Grows ==
  ASSUME NEW M, NEW b \in BufferOf(M), NEW len \in Nat
  PROVE  ToBeEnough(b, len) \in Nat /\ ToBeEnough(b, len) >= b.size
BY ConfigAssumption DEF ConfigAssumption, ToBeEnough, BufferOf, WriteableSize

(* Push makes a buffer from a buffer.                                      *)
LEMMA PushType ==
  ASSUME NEW M, NEW b \in BufferOf(M), NEW m \in M, m.len \in Nat
  PROVE  Push(b, m) \in BufferOf(M) /\ Push(b, m).size >= b.size
<1>1. Append(b.data, m) \in Seq(M)
  BY AppendProperties DEF BufferOf
<1>2. ToBeEnough(b, m.len) \in Nat /\ ToBeEnough(b, m.len) >= b.size
  BY Grows
<1>3. QED
  BY <1>1, <1>2 DEF Push, BufferOf

(* Push stays inside the vector if the message fits already, or if one     *)
(* growth step makes enough room for it.                                   *)
LEMMA PushInBounds ==
  ASSUME NEW M, NEW b \in BufferOf(M), NEW m \in M, m.len \in Nat,
         InBounds(b), b.size >= BufferSize,
         m.len <= WriteableSize(b) \/ OneStepSuffices(m.len)
  PROVE  InBounds(Push(b, m))
<1>1. b.size \in Nat /\ b.write_pos \in Nat
  BY DEF BufferOf
<1>2. SUFFICES b.write_pos + m.len <= ToBeEnough(b, m.len)
  BY DEF InBounds, Push
<1>3. CASE m.len <= WriteableSize(b)
  BY <1>1, <1>3, Grows DEF WriteableSize
<1>4. CASE OneStepSuffices(m.len)
  BY <1>1, <1>4, ConfigAssumption
     DEF ConfigAssumption, ToBeEnough, WriteableSize, InBounds, OneStepSuffices
<1>5. QED
  BY <1>3, <1>4

(* Reset empties a buffer and keeps its capacity.                          *)
LEMMA ResetType ==
  ASSUME NEW M, NEW b \in BufferOf(M)
  PROVE  /\ Reset(b) \in BufferOf(M)
         /\ Reset(b).size = b.size
         /\ Empty(Reset(b))
<1>1. << >> \in Seq(M)
  OBVIOUS
<1>2. QED
  BY <1>1 DEF Reset, BufferOf, Empty


------------------------------------------------------------------------------
(* The inductive invariant *)

(* The initial state: nothing is in a buffer, no thread is anywhere.       *)
LEMMA InitCore == Init => CoreInv
<1> SUFFICES ASSUME Init PROVE CoreInv
  OBVIOUS
<1> USE WorkerAssumption, ConfigAssumption
    DEF WorkerAssumption, ConfigAssumption, Init
<1>1. NewBuffer \in BufferOf(Message) /\ Empty(NewBuffer)
  BY DEF NewBuffer, BufferOf, Empty
<1>2. TypeOK
  <2>1. /\ pc \in [Threads -> ProducerPC \cup WorkerPC \cup OwnerPC]
        /\ pc[Worker] \in WorkerPC
        /\ pc[Owner] \in OwnerPC
        /\ \A p \in Producers : pc[p] \in ProducerPC
    BY DEF Threads, ProducerPC, WorkerPC, OwnerPC
  <2>2. << >> \in Seq(Message)
    OBVIOUS
  <2>3. /\ msg \in [Producers -> Message \cup {NoMessage}]
        /\ pushed \in [Producers -> 0 .. MaxPush]
    OBVIOUS
  <2>4. QED
    BY <1>1, <2>1, <2>2, <2>3 DEF TypeOK
<1>3. MutexInv
  BY DEF MutexInv, Holds, Threads
<1>4. StopInv
  BY DEF StopInv, Threads
<1>5. BufferInv
  BY <1>1 DEF BufferInv, NoOverrun, InBoundsBoth, InBounds, NewBuffer, Empty
<1>6. CallInv
  BY DEF CallInv, Threads
<1>7. QED
  BY <1>2, <1>3, <1>4, <1>5, <1>6 DEF CoreInv

(* Every step of every thread preserves the invariant.                     *)
LEMMA NextCore == CoreInv /\ [Next]_vars => CoreInv'
<1> SUFFICES ASSUME CoreInv, [Next]_vars PROVE CoreInv'
  OBVIOUS
<1> USE WorkerAssumption DEF WorkerAssumption, CoreInv, Goto, workerVars, callVars
<1>1. CASE Construct
  <2> USE <1>1 DEF Construct
  <2>1. TypeOK'
    BY DEF TypeOK, Threads, ProducerPC, WorkerPC, OwnerPC
  <2>2. MutexInv'
    BY DEF TypeOK, MutexInv, Holds, Threads
  <2>3. StopInv'
    BY DEF TypeOK, StopInv, Threads
  <2>4. BufferInv'
    BY DEF TypeOK, BufferInv, NoOverrun, InBoundsBoth, Threads
  <2>5. CallInv'
    BY DEF TypeOK, CallInv, MayWrite, Threads
  <2>6. QED
    BY <2>1, <2>2, <2>3, <2>4, <2>5
<1>2. CASE StopSet
  <2> USE <1>2 DEF StopSet
  <2>1. TypeOK'
    BY DEF TypeOK, Threads, ProducerPC, WorkerPC, OwnerPC
  <2>2. MutexInv'
    BY DEF TypeOK, MutexInv, Holds, Threads
  <2>3. StopInv'
    BY DEF TypeOK, StopInv, Threads
  <2>4. BufferInv'
    BY DEF TypeOK, BufferInv, NoOverrun, InBoundsBoth, Threads
  <2>5. CallInv'
    BY DEF TypeOK, CallInv, MayWrite, Threads
  <2>6. QED
    BY <2>1, <2>2, <2>3, <2>4, <2>5
<1>3. CASE StopNotify
  <2> USE <1>3 DEF StopNotify, WakeWorker
  <2>1. TypeOK'
    BY DEF TypeOK, Threads, ProducerPC, WorkerPC, OwnerPC
  <2>2. MutexInv'
    BY DEF TypeOK, MutexInv, Holds, Threads
  <2>3. StopInv'
    BY DEF TypeOK, StopInv, Threads
  <2>4. BufferInv'
    BY DEF TypeOK, BufferInv, NoOverrun, InBoundsBoth, Threads
  <2>5. CallInv'
    BY DEF TypeOK, CallInv, MayWrite, Threads
  <2>6. QED
    BY <2>1, <2>2, <2>3, <2>4, <2>5
<1>4. CASE StopJoin \/ DestroyStopped
  <2> USE <1>4 DEF StopJoin, DestroyStopped
  <2>1. TypeOK'
    BY DEF TypeOK, Threads, ProducerPC, WorkerPC, OwnerPC
  <2>2. MutexInv'
    BY DEF TypeOK, MutexInv, Holds, Threads
  <2>3. StopInv'
    BY DEF TypeOK, StopInv, Threads
  <2>4. BufferInv'
    BY DEF TypeOK, BufferInv, NoOverrun, InBoundsBoth, Threads
  <2>5. CallInv'
    BY DEF TypeOK, CallInv, MayWrite, Threads
  <2>6. QED
    BY <2>1, <2>2, <2>3, <2>4, <2>5
<1>5. ASSUME NEW p \in Producers, PushCall(p) PROVE CoreInv'
  <2> USE <1>5 DEF PushCall
  <2>1. PICK l \in Lengths :
         msg' = [msg EXCEPT ![p] =
                   [from |-> p, seq |-> pushed[p] + 1, len |-> l]]
    OBVIOUS
  <2>2. pushed[p] + 1 \in 1 .. MaxPush
    BY DEF TypeOK
  <2>3. msg'[p] \in Message
    BY <2>1, <2>2 DEF TypeOK, Message
  <2>4. TypeOK'
    BY <2>1, <2>2, <2>3 DEF TypeOK, Threads, ProducerPC, WorkerPC, OwnerPC
  <2>5. MutexInv'
    BY DEF TypeOK, MutexInv, Holds, Threads
  <2>6. StopInv'
    BY DEF TypeOK, StopInv, Threads
  <2>7. BufferInv'
    BY DEF TypeOK, BufferInv, NoOverrun, InBoundsBoth, Threads
  <2>8. CallInv'
    BY <2>3 DEF TypeOK, CallInv, MayWrite, Threads
  <2>9. QED
    BY <2>4, <2>5, <2>6, <2>7, <2>8
<1>6. ASSUME NEW p \in Producers, PushLock(p) PROVE CoreInv'
  <2> USE <1>6 DEF PushLock
  <2>1. TypeOK'
    BY DEF TypeOK, Threads, ProducerPC, WorkerPC, OwnerPC
  <2>2. MutexInv'
    BY DEF TypeOK, MutexInv, Holds, Threads
  <2>3. StopInv'
    BY DEF TypeOK, StopInv, Threads
  <2>4. BufferInv'
    BY DEF TypeOK, BufferInv, NoOverrun, InBoundsBoth, Threads
  <2>5. CallInv'
    BY DEF TypeOK, CallInv, MayWrite, Threads
  <2>6. QED
    BY <2>1, <2>2, <2>3, <2>4, <2>5
<1>7. ASSUME NEW p \in Producers, PushBlock(p) PROVE CoreInv'
  <2> USE <1>7 DEF PushBlock
  <2>1. TypeOK'
    BY DEF TypeOK, Threads, ProducerPC, WorkerPC, OwnerPC
  <2>2. MutexInv'
    BY DEF TypeOK, MutexInv, Holds, Threads
  <2>3. StopInv'
    BY DEF TypeOK, StopInv, Threads
  <2>4. BufferInv'
    BY DEF TypeOK, BufferInv, NoOverrun, InBoundsBoth, Threads
  <2>5. CallInv'
    BY DEF TypeOK, CallInv, MayWrite, Threads
  <2>6. QED
    BY <2>1, <2>2, <2>3, <2>4, <2>5
<1>8. ASSUME NEW p \in Producers, PushRefused(p) PROVE CoreInv'
  <2> USE <1>8 DEF PushRefused
  <2>1. TypeOK'
    BY DEF TypeOK, Threads, ProducerPC, WorkerPC, OwnerPC
  <2>2. MutexInv'
    BY DEF TypeOK, MutexInv, Holds, Threads
  <2>3. StopInv'
    BY DEF TypeOK, StopInv, Threads
  <2>4. BufferInv'
    BY DEF TypeOK, BufferInv, NoOverrun, InBoundsBoth, Threads
  <2>5. CallInv'
    BY DEF TypeOK, CallInv, MayWrite, Threads
  <2>6. QED
    BY <2>1, <2>2, <2>3, <2>4, <2>5
<1>9. ASSUME NEW p \in Producers, PushWrite(p) PROVE CoreInv'
  <2> USE <1>9 DEF PushWrite
  <2>1. /\ msg[p] \in Message
       /\ msg[p].len \in Nat /\ msg[p].len \in Lengths
    BY DEF CallInv, Message
  <2>2. /\ buffer_productor_ \in BufferOf(Message)
       /\ buffer_productor_'.size >= buffer_productor_.size
       /\ buffer_productor_' \in BufferOf(Message)
    BY <2>1, PushType DEF TypeOK
  <2>3. NoOverrun'
    <3>1. SUFFICES ASSUME Safe \/ \A l \in Lengths : OneStepSuffices(l)
                   PROVE  InBounds(buffer_productor_')
      BY DEF NoOverrun, InBoundsBoth, BufferInv
    <3>2. msg[p].len <= WriteableSize(buffer_productor_)
            \/ OneStepSuffices(msg[p].len)
      BY <2>1, <3>1 DEF CallInv, MayWrite
    <3>3. QED
      BY <2>1, <2>2, <3>1, <3>2, PushInBounds
         DEF BufferInv, NoOverrun, InBoundsBoth
  <2>4. TypeOK'
    BY <2>2 DEF TypeOK, Threads, ProducerPC, WorkerPC, OwnerPC
  <2>5. MutexInv'
    BY DEF TypeOK, MutexInv, Holds, Threads
  <2>6. StopInv'
    BY DEF TypeOK, StopInv, Threads
  <2>7. BufferInv'
    BY <2>2, <2>3, ConfigAssumption DEF TypeOK, StopInv, BufferInv,
       BufferOf, LosesNothing, Threads, ConfigAssumption
  <2>8. CallInv'
    BY DEF TypeOK, MutexInv, Holds, CallInv, MayWrite, Threads
  <2>9. QED
    BY <2>4, <2>5, <2>6, <2>7, <2>8
<1>10. ASSUME NEW p \in Producers, PushNotify(p) PROVE CoreInv'
  <2> USE <1>10 DEF PushNotify, WakeWorker
  <2>1. TypeOK'
    BY DEF TypeOK, Threads, ProducerPC, WorkerPC, OwnerPC
  <2>2. MutexInv'
    BY DEF TypeOK, MutexInv, Holds, Threads
  <2>3. StopInv'
    BY DEF TypeOK, StopInv, Threads
  <2>4. BufferInv'
    BY DEF TypeOK, BufferInv, NoOverrun, InBoundsBoth, Threads
  <2>5. CallInv'
    BY DEF TypeOK, CallInv, MayWrite, Threads
  <2>6. QED
    BY <2>1, <2>2, <2>3, <2>4, <2>5
<1>11. CASE LoopTest
  <2> USE <1>11 DEF LoopTest
  <2>1. TypeOK'
    BY DEF TypeOK, Threads, ProducerPC, WorkerPC, OwnerPC
  <2>2. MutexInv'
    BY DEF TypeOK, MutexInv, Holds, Threads
  <2>3. StopInv'
    BY DEF TypeOK, StopInv, Threads
  <2>4. BufferInv'
    BY DEF TypeOK, BufferInv, NoOverrun, InBoundsBoth, Threads
  <2>5. CallInv'
    BY DEF TypeOK, CallInv, MayWrite, Threads
  <2>6. QED
    BY <2>1, <2>2, <2>3, <2>4, <2>5
<1>12. CASE WorkerLock
  <2> USE <1>12 DEF WorkerLock, MayRead, IsEmpty
  <2>1. TypeOK'
    BY DEF TypeOK, Threads, ProducerPC, WorkerPC, OwnerPC
  <2>2. MutexInv'
    BY DEF TypeOK, MutexInv, Holds, Threads
  <2>3. StopInv'
    BY DEF TypeOK, StopInv, BufferInv, Empty, Threads
  <2>4. BufferInv'
    BY DEF TypeOK, BufferInv, NoOverrun, InBoundsBoth, Threads
  <2>5. CallInv'
    BY DEF TypeOK, CallInv, MayWrite, Threads
  <2>6. QED
    BY <2>1, <2>2, <2>3, <2>4, <2>5
<1>13. CASE WorkerBlock
  <2> USE <1>13 DEF WorkerBlock
  <2>1. TypeOK'
    BY DEF TypeOK, Threads, ProducerPC, WorkerPC, OwnerPC
  <2>2. MutexInv'
    BY DEF TypeOK, MutexInv, Holds, Threads
  <2>3. StopInv'
    BY DEF TypeOK, StopInv, Threads
  <2>4. BufferInv'
    BY DEF TypeOK, BufferInv, NoOverrun, InBoundsBoth, Threads
  <2>5. CallInv'
    BY DEF TypeOK, CallInv, MayWrite, Threads
  <2>6. QED
    BY <2>1, <2>2, <2>3, <2>4, <2>5
<1>14. CASE WorkerSwap
  <2> USE <1>14 DEF WorkerSwap
  <2>1. TypeOK'
    BY DEF TypeOK, Threads, ProducerPC, WorkerPC, OwnerPC
  <2>2. MutexInv'
    BY DEF TypeOK, MutexInv, Holds, Threads
  <2>3. StopInv'
    BY DEF TypeOK, StopInv, Threads
  <2>4. BufferInv'
    BY DEF TypeOK, BufferInv, NoOverrun, InBoundsBoth, Threads
  <2>5. CallInv'
    BY DEF TypeOK, MutexInv, Holds, CallInv, MayWrite, Threads
  <2>6. QED
    BY <2>1, <2>2, <2>3, <2>4, <2>5
<1>15. CASE WorkerFlush
  <2> USE <1>15 DEF WorkerFlush
  <2>1. /\ Reset(buffer_consumer_) \in BufferOf(Message)
       /\ Reset(buffer_consumer_).size = buffer_consumer_.size
       /\ Empty(Reset(buffer_consumer_))
    BY ResetType DEF TypeOK
  <2>2. out \o buffer_consumer_.data \in Seq(Message)
    BY ConcatProperties DEF TypeOK, BufferOf
  <2>3. TypeOK'
    BY <2>1, <2>2 DEF TypeOK, Threads, ProducerPC, WorkerPC, OwnerPC
  <2>4. MutexInv'
    BY DEF TypeOK, MutexInv, Holds, Threads
  <2>5. StopInv'
    BY DEF TypeOK, StopInv, Threads
  <2>6. BufferInv'
    BY <2>1 DEF TypeOK, BufferInv, NoOverrun, InBoundsBoth, InBounds,
       BufferOf, Empty, Threads
  <2>7. CallInv'
    BY DEF TypeOK, CallInv, MayWrite, Threads
  <2>8. QED
    BY <2>3, <2>4, <2>5, <2>6, <2>7
<1>16. CASE WorkerDrain
  <2> USE <1>16 DEF WorkerDrain, IsEmpty
  <2>1. TypeOK'
    BY DEF TypeOK, Threads, ProducerPC, WorkerPC, OwnerPC
  <2>2. MutexInv'
    BY DEF TypeOK, MutexInv, Holds, Threads
  <2>3. StopInv'
    BY DEF TypeOK, StopInv, Threads
  <2>4. BufferInv'
    BY DEF TypeOK, BufferInv, NoOverrun, InBoundsBoth, Threads
  <2>5. CallInv'
    BY DEF TypeOK, CallInv, MayWrite, Threads
  <2>6. QED
    BY <2>1, <2>2, <2>3, <2>4, <2>5
<1>17. ASSUME NEW t \in Producers \cup {Worker}, SpuriousWakeup(t) PROVE CoreInv'
  <2> USE <1>17 DEF SpuriousWakeup
  <2>1. TypeOK'
    BY DEF TypeOK, Threads, ProducerPC, WorkerPC, OwnerPC
  <2>2. MutexInv'
    BY DEF TypeOK, MutexInv, Holds, Threads
  <2>3. StopInv'
    BY DEF TypeOK, StopInv, Threads
  <2>4. BufferInv'
    BY DEF TypeOK, BufferInv, NoOverrun, InBoundsBoth, Threads
  <2>5. CallInv'
    BY DEF TypeOK, CallInv, MayWrite, Threads
  <2>6. QED
    BY <2>1, <2>2, <2>3, <2>4, <2>5
<1>18. CASE UNCHANGED vars
  BY <1>18 DEF vars, TypeOK, MutexInv, Holds, StopInv, BufferInv, NoOverrun,
     InBoundsBoth, CallInv, MayWrite
<1>19. QED
  BY <1>1, <1>2, <1>3, <1>4, <1>5, <1>6, <1>7, <1>8, <1>9, <1>10, <1>11,
     <1>12, <1>13, <1>14, <1>15, <1>16, <1>17, <1>18
     DEF Next, OwnerStep, PushStep, WorkerStep

(* It holds in every reachable state.                                      *)
LEMMA CoreInvariance == Spec => []CoreInv
BY InitCore, NextCore, PTL DEF Spec

(* Every variable keeps its type.                                          *)
THEOREM TypeCorrect == Spec => []TypeOK
<1>1. CoreInv => TypeOK
  BY DEF CoreInv
<1>2. QED
  BY <1>1, CoreInvariance, PTL

------------------------------------------------------------------------------
(* What follows from the invariant *)

(* The copy into the buffer stays inside the vector (AsyncBuffer.hpp:21)   *)
(* for every ASYNC_SAFE worker, and for every ASYNC_UNSAFE worker whose    *)
(* messages are no longer than buffer_size and linear_growth.              *)
THEOREM NeverOverruns == Spec => []NoOverrun
<1>1. CoreInv => NoOverrun
  BY DEF CoreInv, BufferInv
<1>2. QED
  BY <1>1, CoreInvariance, PTL

(* A worker that has swapped the buffers ends with both of them empty.     *)
THEOREM EndsDrained == Spec => []Drained
<1>1. CoreInv => Drained
  <2>1. SUFFICES ASSUME CoreInv, LosesNothing, swapped, pc[Worker] = "exit"
                 PROVE  IsEmpty(buffer_productor_) /\ IsEmpty(buffer_consumer_)
    BY DEF Drained
  <2>2. Empty(buffer_productor_) /\ Empty(buffer_consumer_)
    BY <2>1 DEF CoreInv, BufferInv
  <2>3. QED
    BY <2>2 DEF Empty, IsEmpty
<1>2. QED
  BY <1>1, CoreInvariance, PTL

(* The worker calls callback_ only after Stop has begun, hence after the   *)
(* constructor has initialised it (AsyncWorker.hpp:18-19, 57).             *)
THEOREM CallsBackWhenReady == Spec => []CallbackReady
<1>1. CoreInv => CallbackReady
  BY DEF CoreInv, StopInv, CallbackReady
<1>2. QED
  BY <1>1, CoreInvariance, PTL

------------------------------------------------------------------------------
(* The order of the messages *)

(* Two sequences in order, the first older than the second, are in order   *)
(* one after the other, and older than what both of them were older than.  *)
LEMMA ConcatInOrder ==
  ASSUME NEW s \in Seq(Message), NEW t \in Seq(Message), NEW u \in Seq(Message),
         InOrder(s), InOrder(t), Numbered(s), Numbered(t),
         Before(s, t), Before(s, u), Before(t, u)
  PROVE  InOrder(s \o t) /\ Numbered(s \o t) /\ Before(s \o t, u)
<1> DEFINE st == s \o t
<1>1. /\ Len(s) \in Nat /\ Len(t) \in Nat /\ Len(st) = Len(s) + Len(t)
      /\ \A i \in 1 .. Len(st) : \/ i \in 1 .. Len(s) /\ st[i] = s[i]
                                 \/ /\ i > Len(s) /\ i - Len(s) \in 1 .. Len(t)
                                    /\ st[i] = t[i - Len(s)]
  BY ConcatProperties, LenProperties
<1>2. /\ \A i \in 1 .. Len(s) : s[i] \in Message
      /\ \A i \in 1 .. Len(t) : t[i] \in Message
  BY ElementOfSeq
<1> HIDE DEF st
<1>3. InOrder(st)
  <2>1. SUFFICES ASSUME NEW i \in 1 .. Len(st), NEW j \in 1 .. Len(st),
                        i < j, st[i].from = st[j].from
                 PROVE  st[i].seq < st[j].seq
    BY DEF InOrder
  <2>2. CASE j \in 1 .. Len(s) /\ st[j] = s[j]
    <3>1. i \in 1 .. Len(s) /\ st[i] = s[i]
      BY <1>1, <2>1, <2>2
    <3>2. QED
      BY <2>1, <2>2, <3>1 DEF InOrder
  <2>3. CASE j > Len(s) /\ j - Len(s) \in 1 .. Len(t) /\ st[j] = t[j - Len(s)]
    <3>1. CASE i \in 1 .. Len(s) /\ st[i] = s[i]
      BY <2>1, <2>3, <3>1 DEF Before
    <3>2. CASE i > Len(s) /\ i - Len(s) \in 1 .. Len(t) /\ st[i] = t[i - Len(s)]
      <4>1. i - Len(s) < j - Len(s)
        BY <1>1, <2>1
      <4>2. QED
        BY <2>1, <2>3, <3>2, <4>1 DEF InOrder
    <3>3. QED
      BY <1>1, <3>1, <3>2
  <2>4. QED
    BY <1>1, <2>2, <2>3
<1>4. Numbered(st)
  BY <1>1 DEF Numbered
<1>5. Before(st, u)
  BY <1>1 DEF Before
<1>6. QED
  BY <1>3, <1>4, <1>5 DEF st

(* A message that is newer than all of a sequence is appended to it.       *)
LEMMA AppendInOrder ==
  ASSUME NEW s \in Seq(Message), NEW m \in Message, InOrder(s),
         \A i \in 1 .. Len(s) : s[i].from = m.from => s[i].seq < m.seq
  PROVE  /\ InOrder(Append(s, m))
         /\ \A i \in 1 .. Len(Append(s, m)) :
              (i \in 1 .. Len(s) /\ Append(s, m)[i] = s[i]) \/ Append(s, m)[i] = m
<1> DEFINE sm == Append(s, m)
<1>1. /\ Len(s) \in Nat /\ Len(sm) = Len(s) + 1
      /\ \A i \in 1 .. Len(s) : sm[i] = s[i]
      /\ sm[Len(s) + 1] = m
  BY AppendProperties, LenProperties
<1> HIDE DEF sm
<1>2. \A i \in 1 .. Len(sm) : \/ i \in 1 .. Len(s) /\ sm[i] = s[i]
                              \/ i = Len(s) + 1 /\ sm[i] = m
  BY <1>1
<1>3. ASSUME NEW i \in 1 .. Len(sm), NEW j \in 1 .. Len(sm),
             i < j, sm[i].from = sm[j].from
      PROVE  sm[i].seq < sm[j].seq
  <2>1. i \in 1 .. Len(s) /\ sm[i] = s[i]
    BY <1>1, <1>2, <1>3
  <2>2. CASE j \in 1 .. Len(s) /\ sm[j] = s[j]
    BY <1>3, <2>1, <2>2 DEF InOrder
  <2>3. CASE sm[j] = m
    BY <1>3, <2>1, <2>3
  <2>4. QED
    BY <1>2, <2>2, <2>3
<1>4. QED
  BY <1>2, <1>3 DEF InOrder, sm

(* A step that moves no message and begins no call.                        *)
LEMMA KeepsOrder ==
  ASSUME CoreInv, OrderInv, UNCHANGED << buffer_productor_, buffer_consumer_, out, callVars >>,
         \A p \in Producers : pc'[p] \in Unwritten => pc[p] \in Unwritten
  PROVE  OrderInv'
<1>1. /\ out \in Seq(Message)
      /\ buffer_consumer_.data \in Seq(Message)
      /\ buffer_productor_.data \in Seq(Message)
  BY DEF CoreInv, TypeOK, BufferOf
<1>2. \A s \in Seq(Message) : \A i \in 1 .. Len(s) : s[i].from \in Producers
  <2>1. \A m \in Message : m.from \in Producers
    BY DEF Message
  <2>2. QED
    BY <2>1, ElementOfSeq
<1>3. \A s \in Seq(Message) : Numbered(s) => Numbered(s)'
  BY <1>2 DEF Numbered, callVars
<1>4. QED
  BY <1>1, <1>3 DEF OrderInv, InOrder, Before, callVars

(* Nothing has been written, and no call has begun.                        *)
LEMMA InitOrder == Init => OrderInv
BY WorkerAssumption
   DEF WorkerAssumption, Init, OrderInv, Unwritten, InOrder, Numbered, Before, NewBuffer,
       Threads

(* A new call is newer than all that was written; a write puts it behind   *)
(* all that was; swap and callback keep the order of the three.            *)
LEMMA NextOrder == CoreInv /\ OrderInv /\ [Next]_vars => OrderInv'
<1> SUFFICES ASSUME CoreInv, OrderInv, [Next]_vars PROVE OrderInv'
  OBVIOUS
<1> USE WorkerAssumption DEF WorkerAssumption, Goto, workerVars, callVars
<1> DEFINE older == buffer_consumer_.data
           newer == buffer_productor_.data
<1>0. /\ older \in Seq(Message) /\ newer \in Seq(Message) /\ out \in Seq(Message)
      /\ pc \in [Threads -> ProducerPC \cup WorkerPC \cup OwnerPC]
      /\ Producers \subseteq Threads /\ Worker \in Threads /\ Owner \in Threads
      /\ \A m \in Message : m.from \in Producers /\ m.seq \in Nat
      /\ pushed \in [Producers -> 0 .. MaxPush]
      /\ msg \in [Producers -> Message \cup {NoMessage}]
  BY DEF CoreInv, TypeOK, BufferOf, Threads, Message
<1>a. \A s \in Seq(Message) : \A i \in 1 .. Len(s) :
         s[i] \in Message /\ s[i].from \in Producers /\ s[i].seq \in Nat
  BY <1>0, ElementOfSeq
<1>1. CASE OwnerStep
  BY <1>0, <1>1, KeepsOrder
     DEF OwnerStep, Construct, StopSet, StopNotify, StopJoin, DestroyStopped, WakeWorker
<1>2. ASSUME NEW p \in Producers, PushCall(p) PROVE OrderInv'
  <2> USE <1>2 DEF PushCall
  <2>1. /\ pushed'[p] = pushed[p] + 1 /\ pushed[p] \in Nat
        /\ \A q \in Producers \ {p} :
             pushed'[q] = pushed[q] /\ pc'[q] = pc[q] /\ msg'[q] = msg[q]
        /\ msg'[p].from = p /\ msg'[p].seq = pushed'[p]
        /\ out' = out /\ older' = older /\ newer' = newer
    BY <1>0
  <2>2. ASSUME NEW msgs \in Seq(Message), Numbered(msgs)
        PROVE  Numbered(msgs)'
    <3>1. SUFFICES ASSUME NEW i \in 1 .. Len(msgs)
                   PROVE  /\ msgs[i].seq <= pushed'[msgs[i].from]
                          /\ pc'[msgs[i].from] \in Unwritten =>
                               msgs[i].seq < pushed'[msgs[i].from]
      BY DEF Numbered
    <3>2. msgs[i].from \in Producers /\ msgs[i].seq \in Nat
      BY <1>a
    <3>3. /\ msgs[i].seq <= pushed[msgs[i].from]
          /\ pc[msgs[i].from] \in Unwritten => msgs[i].seq < pushed[msgs[i].from]
      BY <2>2 DEF Numbered
    <3>4. QED
      BY <2>1, <3>2, <3>3
  <2>3. \A q \in Producers :
          pc'[q] \in Unwritten => msg'[q].from = q /\ msg'[q].seq = pushed'[q]
    BY <2>1 DEF OrderInv
  <2>4. UNCHANGED << out, buffer_consumer_, buffer_productor_ >>
    OBVIOUS
  <2>5. /\ InOrder(out)' /\ InOrder(older)' /\ InOrder(newer)'
        /\ Before(out, older)' /\ Before(out, newer)' /\ Before(older, newer)'
    BY <2>4 DEF OrderInv, InOrder, Before
  <2>6. Numbered(out)' /\ Numbered(older)' /\ Numbered(newer)'
    <3>1. \A msgs \in {out, older, newer} : Numbered(msgs)'
      BY <1>0, <2>2 DEF OrderInv
    <3>2. QED
      BY <2>4, <3>1 DEF Numbered
  <2>7. QED
    BY <2>3, <2>5, <2>6 DEF OrderInv
<1>3. ASSUME NEW p \in Producers, PushLock(p) \/ PushBlock(p) \/ PushRefused(p) PROVE OrderInv'
  BY <1>0, <1>3, KeepsOrder DEF PushLock, PushBlock, PushRefused, Unwritten
<1>4. ASSUME NEW p \in Producers, PushWrite(p) PROVE OrderInv'
  <2> USE <1>4 DEF PushWrite
  <2> DEFINE m == msg[p]
  <2>1. m \in Message /\ m.from = p /\ m.seq = pushed[p] /\ pc[p] \in Unwritten
    BY DEF CoreInv, CallInv, OrderInv, Unwritten
  <2>2. /\ newer' = Append(newer, m) /\ older' = older /\ out' = out
        /\ pushed' = pushed /\ msg' = msg
        /\ pc'[p] \notin Unwritten /\ \A q \in Producers \ {p} : pc'[q] = pc[q]
    BY <1>0 DEF Push, Unwritten
  <2>3. ASSUME NEW msgs \in Seq(Message), Numbered(msgs), NEW i \in 1 .. Len(msgs)
        PROVE  /\ msgs[i].seq <= pushed'[msgs[i].from]
               /\ pc'[msgs[i].from] \in Unwritten => msgs[i].seq < pushed'[msgs[i].from]
               /\ msgs[i].from = m.from => msgs[i].seq < m.seq
    <3>1. msgs[i].from \in Producers /\ msgs[i].seq \in Nat
      BY <1>a
    <3>2. /\ msgs[i].seq <= pushed[msgs[i].from]
          /\ pc[msgs[i].from] \in Unwritten => msgs[i].seq < pushed[msgs[i].from]
      BY <2>3 DEF Numbered
    <3>3. QED
      BY <2>1, <2>2, <3>1, <3>2
  <2>4. /\ InOrder(Append(newer, m))
        /\ \A i \in 1 .. Len(Append(newer, m)) :
             \/ i \in 1 .. Len(newer) /\ Append(newer, m)[i] = newer[i]
             \/ Append(newer, m)[i] = m
    <3>1. InOrder(newer) /\ Numbered(newer)
      BY DEF OrderInv
    <3>2. \A i \in 1 .. Len(newer) : newer[i].from = m.from => newer[i].seq < m.seq
      BY <1>0, <2>3, <3>1
    <3> HIDE DEF newer, m
    <3>3. QED
      BY <1>0, <2>1, <3>1, <3>2, AppendInOrder
  <2>5. Numbered(newer)'
    <3>1. \A i \in 1 .. Len(newer') :
            (i \in 1 .. Len(newer) /\ newer'[i] = newer[i]) \/ newer'[i] = m
      BY <2>2, <2>4
    <3>2. \A i \in 1 .. Len(newer) :
            /\ newer[i].seq <= pushed'[newer[i].from]
            /\ pc'[newer[i].from] \in Unwritten => newer[i].seq < pushed'[newer[i].from]
      BY <1>0, <2>3 DEF OrderInv
    <3>3. m.seq <= pushed'[m.from] /\ pc'[m.from] \notin Unwritten
      BY <1>0, <2>1, <2>2
    <3> HIDE DEF newer, m
    <3>4. QED
      BY <3>1, <3>2, <3>3 DEF Numbered
  <2>6. Numbered(out)' /\ Numbered(older)'
    BY <1>0, <2>2, <2>3 DEF OrderInv, Numbered
  <2>7. Before(out, newer') /\ Before(older, newer') /\ Before(out, older)
    <3>1. ASSUME NEW msgs \in Seq(Message), Numbered(msgs), Before(msgs, newer)
          PROVE  Before(msgs, newer')
      <4>1. \A i \in 1 .. Len(msgs) : msgs[i].from = m.from => msgs[i].seq < m.seq
        BY <2>3, <3>1
      <4>2. \A i \in 1 .. Len(newer') :
              (i \in 1 .. Len(newer) /\ newer'[i] = newer[i]) \/ newer'[i] = m
        BY <2>2, <2>4
      <4> HIDE DEF newer, m
      <4>3. QED
        BY <3>1, <4>1, <4>2 DEF Before
    <3>2. QED
      BY <1>0, <3>1 DEF OrderInv
  <2>8. \A q \in Producers :
          pc'[q] \in Unwritten => msg'[q].from = q /\ msg'[q].seq = pushed'[q]
    BY <2>2 DEF OrderInv
  <2>9. InOrder(out') /\ InOrder(older') /\ InOrder(newer')
    BY <2>2, <2>4 DEF OrderInv
  <2>10. QED
    BY <2>2, <2>5, <2>6, <2>7, <2>8, <2>9 DEF OrderInv, InOrder, Before
<1>5. ASSUME NEW p \in Producers, PushNotify(p) PROVE OrderInv'
  BY <1>0, <1>5, KeepsOrder DEF PushNotify, WakeWorker, Unwritten
<1>6. CASE LoopTest \/ WorkerLock \/ WorkerBlock \/ WorkerDrain
  BY <1>0, <1>6, KeepsOrder DEF LoopTest, WorkerLock, WorkerBlock, WorkerDrain
<1>7. CASE WorkerSwap
  <2> USE <1>7 DEF WorkerSwap
  <2>1. older = << >>
    BY DEF CoreInv, BufferInv, Empty
  <2>2. /\ older' = newer /\ newer' = << >> /\ out' = out
        /\ pushed' = pushed /\ msg' = msg
    BY <2>1
  <2>3. \A p \in Producers : pc'[p] \in Unwritten => pc[p] \in Unwritten
    BY <1>0 DEF Unwritten
  <2>4. \A s \in Seq(Message) : Numbered(s) => Numbered(s)'
    BY <1>a, <2>2, <2>3 DEF Numbered
  <2>5. InOrder(<< >>) /\ Numbered(<< >>)' /\ \A s : Before(s, << >>)
    BY DEF InOrder, Numbered, Before
  <2>6. QED
    BY <1>0, <2>2, <2>3, <2>4, <2>5 DEF OrderInv, InOrder, Before
<1>8. CASE WorkerFlush
  <2> USE <1>8 DEF WorkerFlush
  <2>1. /\ out' = out \o older /\ older' = << >> /\ newer' = newer
        /\ pushed' = pushed /\ msg' = msg
        /\ \A p \in Producers : pc'[p] = pc[p]
    BY <1>0 DEF Reset
  <2>2. /\ InOrder(out \o older) /\ Numbered(out \o older) /\ Before(out \o older, newer)
    BY <1>0, ConcatInOrder DEF OrderInv
  <2>3. out \o older \in Seq(Message)
    BY <1>0, ConcatProperties
  <2>5. \A s \in Seq(Message) : Numbered(s) => Numbered(s)'
    BY <1>a, <2>1 DEF Numbered
  <2>6. InOrder(<< >>) /\ Numbered(<< >>)' /\ \A s : Before(s, << >>) /\ Before(<< >>, s)
    BY DEF InOrder, Numbered, Before
  <2>7. \A p \in Producers :
          pc'[p] \in Unwritten => msg'[p].from = p /\ msg'[p].seq = pushed'[p]
    BY <2>1 DEF OrderInv
  <2>8. /\ InOrder(out)' /\ InOrder(older)' /\ InOrder(newer)'
        /\ Numbered(out)' /\ Numbered(older)' /\ Numbered(newer)'
    <3>1. /\ InOrder(out') /\ InOrder(older') /\ InOrder(newer')
      BY <2>1, <2>2, <2>6 DEF OrderInv
    <3>2. Numbered(out)' /\ Numbered(older)' /\ Numbered(newer)'
      BY <1>0, <2>1, <2>2, <2>3, <2>5, <2>6 DEF OrderInv, Numbered
    <3>3. QED
      BY <3>1, <3>2 DEF InOrder
  <2>9. Before(out, older)' /\ Before(out, newer)' /\ Before(older, newer)'
    <3>1. Before(out', older') /\ Before(out', newer') /\ Before(older', newer')
      BY <2>1, <2>2, <2>6
    <3>2. QED
      BY <3>1 DEF Before
  <2>10. QED
    BY <2>7, <2>8, <2>9 DEF OrderInv
<1>9. ASSUME NEW t \in Producers \cup {Worker}, SpuriousWakeup(t) PROVE OrderInv'
  BY <1>0, <1>9, KeepsOrder DEF SpuriousWakeup, Unwritten
<1>10. CASE UNCHANGED vars
  BY <1>10, KeepsOrder DEF vars
<1>11. QED
  BY <1>1, <1>2, <1>3, <1>4, <1>5, <1>6, <1>7, <1>8, <1>9, <1>10
     DEF Next, PushStep, WorkerStep

(* The whole invariant holds in every reachable state.                     *)
THEOREM Invariance == Spec => []IInv
<1>1. Init => IInv
  BY InitCore, InitOrder DEF IInv
<1>2. IInv /\ [Next]_vars => IInv'
  BY NextCore, NextOrder DEF IInv
<1>3. QED
  BY <1>1, <1>2, PTL DEF Spec

(* The messages of a producer leave in the order of its calls to Push, and *)
(* none of them twice, for any number of producers, in either mode, and    *)
(* across any number of swaps (AsyncWorker.hpp:28-43, 52-73).              *)
THEOREM KeepsCallOrder == Spec => []OrderKept
<1>1. IInv => OrderKept
  BY DEF IInv, OrderInv, OrderKept
<1>2. QED
  BY <1>1, Invariance, PTL

------------------------------------------------------------------------------
(* The worker implements the pipe *)

(* Appending to the second part of a sequence appends to the whole.        *)
LEMMA ConcatAppend ==
  ASSUME NEW S, NEW s \in Seq(S), NEW t \in Seq(S), NEW m \in S
  PROVE  s \o Append(t, m) = Append(s \o t, m)
<1>1. << m >> \in Seq(S)
  OBVIOUS
<1>2. s \o t \in Seq(S)
  BY ConcatProperties
<1>3. Append(t, m) = t \o << m >> /\ Append(s \o t, m) = (s \o t) \o << m >>
  BY <1>2, AppendIsConcat
<1>4. QED
  BY <1>1, <1>3, ConcatAssociative

(* The first part of a sequence is cut off by its length.                  *)
LEMMA ConcatCut ==
  ASSUME NEW S, NEW s \in Seq(S), NEW t \in Seq(S)
  PROVE  /\ Len(s) \in 0 .. Len(s \o t)
         /\ SubSeq(s \o t, 1, Len(s)) = s
         /\ SubSeq(s \o t, Len(s) + 1, Len(s \o t)) = t
<1> DEFINE st == s \o t
<1>1. /\ st \in Seq(S)
      /\ Len(st) = Len(s) + Len(t)
      /\ \A i \in 1 .. Len(s) + Len(t) :
           st[i] = IF i <= Len(s) THEN s[i] ELSE t[i - Len(s)]
  BY ConcatProperties
<1>2. Len(s) \in Nat /\ Len(t) \in Nat
  BY LenProperties
<1>3. \A i \in 1 .. Len(st) : st[i] \in S
  BY <1>1, ElementOfSeq
<1> HIDE DEF st
<1>4. SubSeq(st, 1, Len(s)) = s
  <2>1. /\ SubSeq(st, 1, Len(s)) \in Seq(S)
        /\ Len(SubSeq(st, 1, Len(s))) = Len(s)
        /\ \A i \in 1 .. Len(s) : SubSeq(st, 1, Len(s))[i] = st[i]
    BY <1>1, <1>2, <1>3, SubSeqProperties
  <2>2. \A i \in 1 .. Len(s) : SubSeq(st, 1, Len(s))[i] = s[i]
    BY <1>1, <1>2, <2>1
  <2>3. QED
    BY <2>1, <2>2, SeqEqual
<1>5. SubSeq(st, Len(s) + 1, Len(st)) = t
  <2> DEFINE u == SubSeq(st, Len(s) + 1, Len(st))
  <2>1. /\ u \in Seq(S)
        /\ Len(u) = Len(t)
        /\ \A i \in 1 .. Len(t) : u[i] = st[Len(s) + i]
    BY <1>1, <1>2, <1>3, SubSeqProperties
  <2> HIDE DEF u
  <2>2. ASSUME NEW i \in 1 .. Len(t) PROVE u[i] = t[i]
    <3>1. /\ Len(s) + i \in 1 .. Len(s) + Len(t)
          /\ ~(Len(s) + i <= Len(s))
          /\ (Len(s) + i) - Len(s) = i
      BY <1>2
    <3>2. st[Len(s) + i] = t[(Len(s) + i) - Len(s)]
      BY <1>1, <3>1
    <3>3. QED
      BY <2>1, <3>1, <3>2
  <2>3. u = t
    BY <2>1, <2>2, SeqEqual
  <2>4. QED
    BY <2>3 DEF u
<1>6. QED
  BY <1>1, <1>2, <1>4, <1>5 DEF st

(* Initially the pipe is empty and open.                                   *)
LEMMA InitPipe == Init => Pipe!Init
BY DEF Init, Pipe!Init, NewBuffer

(* Every step is one of the pipe's, or a stutter: a write accepts, the     *)
(* swap seals (it moves the batch from one buffer to the other, and the    *)
(* pipe, which is both of them, stays), and the callback delivers.         *)
LEMMA NextPipe == CoreInv /\ [Next]_vars => [Pipe!Next]_(Pipe!vars)
<1> SUFFICES ASSUME CoreInv, [Next]_vars PROVE [Pipe!Next]_(Pipe!vars)
  OBVIOUS
<1> DEFINE pipe == buffer_consumer_.data \o buffer_productor_.data
<1> USE DEF workerVars, callVars
<1>0. /\ buffer_consumer_.data \in Seq(Message)
      /\ buffer_productor_.data \in Seq(Message)
      /\ out \in Seq(Message)
  BY DEF CoreInv, TypeOK, BufferOf
<1>1. ASSUME NEW p \in Producers, PushWrite(p) PROVE Pipe!Accept(msg[p])
  <2>1. msg[p] \in Message
    BY <1>1 DEF CoreInv, CallInv, PushWrite
  <2>2. pipe' = Append(pipe, msg[p])
    <3>1. buffer_productor_'.data = Append(buffer_productor_.data, msg[p])
      BY <1>1 DEF PushWrite, Push
    <3>2. buffer_consumer_' = buffer_consumer_
      BY <1>1 DEF PushWrite
    <3>3. buffer_consumer_.data \o Append(buffer_productor_.data, msg[p])
            = Append(pipe, msg[p])
      <4>1. \A s, t \in Seq(Message) : \A m \in Message :
              s \o Append(t, m) = Append(s \o t, m)
        BY ConcatAppend
      <4>2. QED
        BY <1>0, <2>1, <4>1
    <3>4. QED
      BY <3>1, <3>2, <3>3
  <2>3. ~(LosesNothing /\ swapped)
    BY <1>1 DEF PushWrite, CoreInv, TypeOK, StopInv, LosesNothing
  <2>4. QED
    BY <1>1, <2>2, <2>3 DEF Pipe!Accept, PushWrite
<1>2. ASSUME WorkerSwap PROVE Pipe!Seal
  <2>1. buffer_consumer_.data = << >>
    BY <1>2 DEF WorkerSwap, CoreInv, BufferInv, Empty
  <2>2. pipe' = pipe
    BY <1>0, <1>2, <2>1, ConcatEmptySeq DEF WorkerSwap
  <2>3. out' = out /\ swapped' = TRUE
    BY <1>2 DEF WorkerSwap
  <2>4. QED
    BY <2>2, <2>3 DEF Pipe!Seal
<1>3. ASSUME WorkerFlush PROVE Pipe!Deliver(Len(buffer_consumer_.data))
  <2> DEFINE n == Len(buffer_consumer_.data)
  <2>1. n \in 0 .. Len(pipe)
    BY <1>0, ConcatCut
  <2>2. /\ SubSeq(pipe, 1, n) = buffer_consumer_.data
        /\ SubSeq(pipe, n + 1, Len(pipe)) = buffer_productor_.data
    <3>1. \A s, t \in Seq(Message) :
            /\ SubSeq(s \o t, 1, Len(s)) = s
            /\ SubSeq(s \o t, Len(s) + 1, Len(s \o t)) = t
      BY ConcatCut
    <3>2. QED
      BY <1>0, <3>1
  <2>3. pipe' = buffer_productor_.data
    BY <1>0, <1>3, ConcatEmptySeq DEF WorkerFlush, Reset
  <2>4. QED
    BY <1>3, <2>2, <2>3 DEF WorkerFlush, Pipe!Deliver
<1>4. ASSUME UNCHANGED << buffer_consumer_, buffer_productor_, out, swapped >>
      PROVE  UNCHANGED Pipe!vars
  BY <1>4 DEF Pipe!vars
<1>5. CASE OwnerStep
  BY <1>4, <1>5
     DEF OwnerStep, Construct, StopSet, StopNotify, StopJoin, DestroyStopped
<1>6. ASSUME NEW p \in Producers, PushCall(p) \/ PushStep(p)
      PROVE  [Pipe!Next]_(Pipe!vars)
  <2>1. CASE PushWrite(p)
    <3>1. msg[p] \in Message
      BY <2>1 DEF CoreInv, CallInv, PushWrite
    <3>2. QED
      BY <1>1, <2>1, <3>1 DEF Pipe!Next
  <2>2. CASE PushCall(p)
    BY <1>4, <2>2 DEF PushCall
  <2>3. CASE PushLock(p) \/ PushBlock(p) \/ PushRefused(p) \/ PushNotify(p)
    BY <1>4, <2>3 DEF PushLock, PushBlock, PushRefused, PushNotify
  <2>4. QED
    BY <1>6, <2>1, <2>2, <2>3 DEF PushStep
<1>7. CASE WorkerStep
  <2>1. CASE WorkerSwap
    BY <1>2, <2>1 DEF Pipe!Next
  <2>2. CASE WorkerFlush
    <3>1. Len(buffer_consumer_.data) \in 0 .. Len(pipe)
      BY <1>0, ConcatCut
    <3>2. QED
      BY <1>3, <2>2, <3>1 DEF Pipe!Next
  <2>3. CASE LoopTest \/ WorkerLock \/ WorkerBlock \/ WorkerDrain
    BY <1>4, <2>3 DEF LoopTest, WorkerLock, WorkerBlock, WorkerDrain
  <2>4. QED
    BY <1>7, <2>1, <2>2, <2>3 DEF WorkerStep
<1>8. ASSUME NEW t \in Producers \cup {Worker}, SpuriousWakeup(t)
      PROVE  [Pipe!Next]_(Pipe!vars)
  BY <1>4, <1>8 DEF SpuriousWakeup
<1>9. CASE UNCHANGED vars
  BY <1>4, <1>9 DEF vars
<1>10. QED
  BY <1>5, <1>6, <1>7, <1>8, <1>9 DEF Next

(* An AsyncWorker delivers what was written, in order, exactly once, and,  *)
(* when it loses nothing, accepts nothing after its last batch.            *)
THEOREM ImplementsPipe == Spec => PipeSpec
<1>1. Spec => Pipe!Spec
  BY InitPipe, NextPipe, CoreInvariance, PTL DEF Spec, Pipe!Spec
<1>2. QED
  BY <1>1 DEF PipeSpec

==============================================================================
