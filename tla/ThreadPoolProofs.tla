--------------------------- MODULE ThreadPoolProofs ---------------------------
(***************************************************************************)
(* Theorems about ThreadPool, for any numbers of workers, clients and      *)
(* tasks, any m_minThread and m_maxThread, and anything that may be read   *)
(* from m_exitThread before it is set.                                     *)
(***************************************************************************)
EXTENDS ThreadPool, FiniteSetTheorems, TLAPS

------------------------------------------------------------------------------
(* Who moves *)

(* A client, a worker, the manager and the owner are different threads.    *)
LEMMA Roles ==
  /\ Clients \subseteq Threads /\ Workers \subseteq Threads
  /\ Manager \in Threads /\ Owner \in Threads /\ Manager # Owner
  /\ Manager \notin Clients \cup Workers /\ Owner \notin Clients \cup Workers
  /\ \A w \in Workers : w \notin Clients
  /\ NoThread \notin Threads
  /\ Min \in Nat /\ Max \in Nat /\ IsFiniteSet(Workers)
BY PoolAssumption DEF PoolAssumption, Threads

(* One thread moves.                                                       *)
LEMMA ClientMoves ==
  ASSUME PlacesOK, NEW c \in Clients, NEW l \in ClientPC, Goto(c, l)
  PROVE  /\ PlacesOK' /\ pc'[c] = l
         /\ pc'[Manager] = pc[Manager] /\ pc'[Owner] = pc[Owner]
         /\ \A w \in Workers : pc'[w] = pc[w]
         /\ \A d \in Clients \ {c} : pc'[d] = pc[d]
BY Roles DEF PlacesOK, Goto

LEMMA WorkerMoves ==
  ASSUME PlacesOK, NEW w \in Workers, NEW l \in WorkerPC, Goto(w, l)
  PROVE  /\ PlacesOK' /\ pc'[w] = l
         /\ pc'[Manager] = pc[Manager] /\ pc'[Owner] = pc[Owner]
         /\ \A v \in Workers \ {w} : pc'[v] = pc[v]
         /\ \A c \in Clients : pc'[c] = pc[c]
BY Roles DEF PlacesOK, Goto

LEMMA ManagerMoves ==
  ASSUME PlacesOK, NEW l \in ManagerPC, Goto(Manager, l)
  PROVE  /\ PlacesOK' /\ pc'[Manager] = l /\ pc'[Owner] = pc[Owner]
         /\ \A w \in Workers : pc'[w] = pc[w]
         /\ \A c \in Clients : pc'[c] = pc[c]
BY Roles DEF PlacesOK, Goto

LEMMA OwnerMoves ==
  ASSUME PlacesOK, NEW l \in OwnerPC, Goto(Owner, l)
  PROVE  /\ PlacesOK' /\ pc'[Owner] = l /\ pc'[Manager] = pc[Manager]
         /\ \A w \in Workers : pc'[w] = pc[w]
         /\ \A c \in Clients : pc'[c] = pc[c]
BY Roles DEF PlacesOK, Goto

(* A notification moves its thread and wakes sleeping workers.             *)
Wakes(w) == pc'[w] = pc[w] \/ (pc[w] = "waiting" /\ pc'[w] = "relock")

LEMMA OneWoken ==
  ASSUME PlacesOK, NEW c \in Clients, NEW l \in ClientPC, NotifyOne(c, l)
  PROVE  /\ PlacesOK' /\ pc'[c] = l
         /\ pc'[Manager] = pc[Manager] /\ pc'[Owner] = pc[Owner]
         /\ \A w \in Workers : Wakes(w)
         /\ \A d \in Clients \ {c} : pc'[d] = pc[d]
<1>1. CASE Asleep = {}
  <2>1. Goto(c, l)
    BY <1>1 DEF NotifyOne
  <2>2. QED
    BY <2>1, ClientMoves DEF Wakes
<1>2. CASE Asleep # {}
  <2>1. PICK w \in Asleep : pc' = [pc EXCEPT ![c] = l, ![w] = "relock"]
    BY <1>2 DEF NotifyOne
  <2>2. w \in Workers /\ pc[w] = "waiting"
    BY <2>1 DEF Asleep
  <2>3. "relock" \in WorkerPC
    BY DEF WorkerPC
  <2>4. c \in Threads /\ w \in Threads /\ c # w /\ w \notin {Manager, Owner} /\ w \notin Clients
    BY <2>2, Roles
  <2>5. /\ pc'[c] = l /\ pc'[w] = "relock"
        /\ \A u \in Threads \ {c, w} : pc'[u] = pc[u]
    BY <2>1, <2>4 DEF PlacesOK
  <2>6. PlacesOK'
    BY <2>1, <2>2, <2>3, <2>4, <2>5, Roles DEF PlacesOK
  <2>7. QED
    BY <2>2, <2>4, <2>5, <2>6, Roles DEF Wakes
<1>3. QED
  BY <1>1, <1>2

LEMMA ManagerWakesAll ==
  ASSUME PlacesOK, NEW l \in ManagerPC, NotifyAll(Manager, l)
  PROVE  /\ PlacesOK' /\ pc'[Manager] = l /\ pc'[Owner] = pc[Owner]
         /\ \A w \in Workers : Wakes(w)
         /\ \A c \in Clients : pc'[c] = pc[c]
<1>1. "relock" \in WorkerPC
  BY DEF WorkerPC
<1>2. \A u \in Threads :
        pc'[u] = IF u = Manager THEN l
                 ELSE IF u \in Workers /\ pc[u] = "waiting" THEN "relock" ELSE pc[u]
  BY DEF NotifyAll, Asleep
<1>3. PlacesOK'
  <2>1. pc' = [u \in Threads |-> pc'[u]]
    BY DEF NotifyAll
  <2>2. QED
    BY <1>1, <1>2, <2>1, Roles DEF PlacesOK
<1>4. QED
  BY <1>2, <1>3, Roles DEF Wakes

LEMMA OwnerWakesAll ==
  ASSUME PlacesOK, NEW l \in OwnerPC, NotifyAll(Owner, l)
  PROVE  /\ PlacesOK' /\ pc'[Owner] = l /\ pc'[Manager] = pc[Manager]
         /\ \A w \in Workers : Wakes(w)
         /\ \A c \in Clients : pc'[c] = pc[c]
<1>1. "relock" \in WorkerPC
  BY DEF WorkerPC
<1>2. \A u \in Threads :
        pc'[u] = IF u = Owner THEN l
                 ELSE IF u \in Workers /\ pc[u] = "waiting" THEN "relock" ELSE pc[u]
  BY DEF NotifyAll, Asleep
<1>3. PlacesOK'
  <2>1. pc' = [u \in Threads |-> pc'[u]]
    BY DEF NotifyAll
  <2>2. QED
    BY <1>1, <1>2, <2>1, Roles DEF PlacesOK
<1>4. QED
  BY <1>2, <1>3, Roles DEF Wakes

------------------------------------------------------------------------------
(* Counting *)

(* How often a task is in a sequence.                                      *)
LEMMA CountType ==
  ASSUME NEW s \in Seq(Task), NEW t
  PROVE  /\ Count(s, t) \in Nat
         /\ IsFiniteSet({i \in 1 .. Len(s) : s[i] = t})
<1>1. Len(s) \in Nat
  OBVIOUS
<1>2. IsFiniteSet(1 .. Len(s))
  BY <1>1, FS_Interval
<1>3. {i \in 1 .. Len(s) : s[i] = t} \in SUBSET (1 .. Len(s))
  OBVIOUS
<1>4. QED
  BY <1>2, <1>3, FS_Subset, FS_CardinalityType DEF Count

LEMMA CountAppend ==
  ASSUME NEW s \in Seq(Task), NEW x \in Task, NEW t
  PROVE  Count(Append(s, x), t) = Count(s, t) + (IF x = t THEN 1 ELSE 0)
<1> DEFINE I == {i \in 1 .. Len(s) : s[i] = t}
<1> DEFINE J == {i \in 1 .. Len(Append(s, x)) : Append(s, x)[i] = t}
<1>1. /\ Len(s) \in Nat /\ Len(Append(s, x)) = Len(s) + 1
      /\ Append(s, x)[Len(s) + 1] = x
      /\ \A i \in 1 .. Len(s) : Append(s, x)[i] = s[i]
  OBVIOUS
<1>2. J = IF x = t THEN I \cup {Len(s) + 1} ELSE I
  BY <1>1
<1>3. IsFiniteSet(I) /\ Len(s) + 1 \notin I
  <2>1. IsFiniteSet(I)
    BY CountType
  <2>2. Len(s) + 1 \notin I
    BY <1>1
  <2>3. QED
    BY <2>1, <2>2
<1>4. Cardinality(I) \in Nat
  BY <1>3, FS_CardinalityType
<1>5. Cardinality(J) = Cardinality(I) + (IF x = t THEN 1 ELSE 0)
  <2> HIDE DEF I, J
  <2>1. Cardinality(I \cup {Len(s) + 1}) = Cardinality(I) + 1
    BY <1>3, FS_AddElement
  <2>2. QED
    BY <1>2, <1>4, <2>1
<1>6. QED
  BY <1>5 DEF Count

LEMMA CountTail ==
  ASSUME NEW s \in Seq(Task), s # << >>, NEW t
  PROVE  Count(s, t) = Count(Tail(s), t) + (IF Head(s) = t THEN 1 ELSE 0)
<1> DEFINE I == {i \in 1 .. Len(s) : s[i] = t}
<1> DEFINE J == {i \in 1 .. Len(Tail(s)) : Tail(s)[i] = t}
<1> DEFINE f == [j \in J |-> j + 1]
<1>1. /\ Len(s) \in Nat /\ Len(s) > 0 /\ Len(Tail(s)) = Len(s) - 1
      /\ Head(s) = s[1] /\ Tail(s) \in Seq(Task)
      /\ \A i \in 1 .. Len(s) - 1 : Tail(s)[i] = s[i + 1]
  OBVIOUS
<1>2. f \in Bijection(J, I \ {1})
  <2>1. f \in [J -> I \ {1}]
    BY <1>1
  <2>2. \A i \in I \ {1} : i - 1 \in J /\ f[i - 1] = i
    BY <1>1
  <2>3. \A i, j \in J : f[i] = f[j] => i = j
    OBVIOUS
  <2> HIDE DEF f, I, J
  <2>4. QED
    BY <2>1, <2>2, <2>3 DEF Bijection, Injection, Surjection, IsInjective
<1>3. IsFiniteSet(I) /\ IsFiniteSet(J)
  BY <1>1, CountType
<1>4. Cardinality(J) = Cardinality(I \ {1})
  <2> HIDE DEF f, I, J
  <2>1. QED
    BY <1>2, <1>3, FS_Bijection DEF ExistsBijection
<1>5. 1 \in I <=> Head(s) = t
  BY <1>1
<1>6. QED
  <2> HIDE DEF I, J
  <2>1. Cardinality(I) \in Nat
    BY <1>3, FS_CardinalityType
  <2>2. Cardinality(I \ {1}) = IF 1 \in I THEN Cardinality(I) - 1 ELSE Cardinality(I)
    BY <1>3, FS_RemoveElement
  <2>3. Cardinality(I) = Cardinality(J) + (IF Head(s) = t THEN 1 ELSE 0)
    BY <1>4, <1>5, <2>1, <2>2
  <2>4. QED
    BY <2>3 DEF Count, I, J

------------------------------------------------------------------------------
(* Steps that leave the queue, the map and the counters alone *)

(* The threads that are started, and those that have begun to exit, can be *)
(* counted.                                                                *)
LEMMA Countable ==
  /\ IsFiniteSet(Live) /\ Cardinality(Live) \in Nat
  /\ IsFiniteSet(Idle) /\ Cardinality(Idle) \in Nat
<1>1. Live \in SUBSET Workers /\ Idle \in SUBSET Workers
  BY DEF Live, Idle
<1>2. QED
  BY <1>1, Roles, FS_Subset, FS_CardinalityType

(* Nobody is told of tasks, and nothing is put into the map.               *)
LEMMA HeldKept ==
  ASSUME HeldInv, UNCHANGED << task, added >>,
         \A c \in Clients : pc'[c] = "add" => pc[c] = "add",
         \A w \in Workers : pc'[w] \in {"begin", "run"} <=> pc[w] \in {"begin", "run"}
  PROVE  HeldInv'
BY DEF HeldInv

LEMMA MapKept ==
  ASSUME MapInv, UNCHANGED << m_ids, m_workers >>,
         \A w \in Workers : pc'[w] # "none" => pc[w] # "none",
         \A w \in m_ids : pc'[w] = pc[w] \/ pc'[w] \in Released,
         pc'[Manager] = "reap" => \A w \in Workers : pc'[w] # "exit_unlock_ids",
         pc[Manager] \in {"insert", "ended"} => pc'[Manager] = pc[Manager],
         pc[Owner] = "destroyed" => pc'[Owner] = "destroyed",
         pc'[Owner] \in {"clear", "destroyed", "terminated"} =>
           pc[Owner] \in {"clear", "destroyed", "terminated"} \/ pc[Manager] = "ended"
  PROVE  MapInv'
<1>1. ASSUME pc'[Owner] # "destroyed"
      PROVE  \E new \in Workers \cup {NoThread} :
               /\ new \in Workers => pc'[Manager] = "insert"
               /\ \A w \in Workers : pc'[w] # "none" => w = new \/ w \in m_workers
  BY <1>1 DEF MapInv
<1>2. QED
  BY <1>1 DEF MapInv

LEMMA TasksKept ==
  ASSUME TasksOnce, UNCHANGED << m_tasks, task, added, done >>,
         \A c \in Clients : pc'[c] = "add" <=> pc[c] = "add"
  PROVE  TasksOnce'
BY DEF TasksOnce, ToAdd, Holders, Count, Task

(* A thread moves between places that no counter tells apart, and the      *)
(* manager does not start a thread.                                        *)
Between(w) ==
  \/ pc'[w] = pc[w]
  \/ /\ pc[w] \in {"top", "lock", "block", "waiting", "relock"}
     /\ pc'[w] \in {"top", "lock", "block", "waiting", "relock", "ended"}
  \/ << pc[w], pc'[w] >> \in
       {<< "exit_count", "exit_id" >>, << "exit_unlock_ids", "exit_unlock" >>,
        << "exit_unlock", "exit_return" >>, << "exit_return", "ended" >>, << "ended", "joined" >>}

Quiet ==
  /\ PlacesOK' /\ mutex' \in Workers \cup {NoThread} /\ m_stop' \in BOOLEAN
  /\ m_exitThread' \in Int /\ idel' \in Int /\ cur' \in Int /\ tojoin' \subseteq Workers
  /\ UNCHANGED << m_idleThread, m_curThread, m_tasks, task, added, done, m_ids, m_workers >>
  /\ \A c \in Clients : pc'[c] = "add" <=> pc[c] = "add"
  /\ \A w \in Workers : Between(w)
  /\ \/ pc'[Manager] = pc[Manager]
     \/ /\ pc[Manager] \notin {"insert", "count_cur", "count_idle", "ended"}
        /\ pc'[Manager] \notin {"insert", "count_cur", "count_idle"}
        /\ pc'[Manager] = "reap" => \A w \in Workers : pc'[w] # "exit_unlock_ids"
        /\ pc'[Manager] = "spawn" => Cardinality(Live) < Max
  /\ \/ pc'[Owner] = pc[Owner]
     \/ /\ pc[Owner] \notin {"clear", "destroyed", "terminated"}
        /\ pc'[Owner] \notin {"destroyed", "terminated"}
        /\ pc'[Owner] = "clear" => pc[Manager] = "ended"

LEMMA QuietInv ==
  ASSUME PoolInv, Quiet
  PROVE  PoolInv'
<1>0. TypeOK /\ HeldInv /\ MapInv /\ CountersMatch /\ RoomInv /\ TasksOnce
  BY DEF PoolInv
<1>1. TypeOK'
  BY <1>0 DEF Quiet, TypeOK
<1>2. HeldInv'
  <2>1. \A w \in Workers : pc'[w] \in {"begin", "run"} <=> pc[w] \in {"begin", "run"}
    BY DEF Quiet, Between
  <2>2. QED
    BY <1>0, <2>1, HeldKept DEF Quiet
<1>3. MapInv'
  <2>1. \A w \in Workers :
          /\ pc'[w] # "none" => pc[w] # "none"
          /\ pc[w] \in Released \cup {"exit_unlock_ids"} =>
               pc'[w] = pc[w] \/ pc'[w] \in Released
          /\ pc'[w] = "exit_unlock_ids" => pc[w] = "exit_unlock_ids"
    BY DEF Quiet, Between, Released
  <2>2. /\ m_ids \subseteq Workers
        /\ \A w \in m_ids : pc'[w] = pc[w] \/ pc'[w] \in Released
    BY <1>0, <2>1 DEF TypeOK, MapInv
  <2>7. pc'[Manager] = "reap" => \A w \in Workers : pc'[w] # "exit_unlock_ids"
    BY <1>0, <2>1 DEF Quiet, MapInv
  <2>3. pc[Manager] \in {"insert", "ended"} => pc'[Manager] = pc[Manager]
    BY DEF Quiet
  <2>4. /\ pc[Owner] = "destroyed" => pc'[Owner] = "destroyed"
        /\ pc'[Owner] \in {"clear", "destroyed", "terminated"} =>
             pc[Owner] \in {"clear", "destroyed", "terminated"} \/ pc[Manager] = "ended"
    BY DEF Quiet
  <2>5. UNCHANGED << m_ids, m_workers >>
    BY DEF Quiet
  <2>6. QED
    BY <1>0, <2>1, <2>2, <2>3, <2>4, <2>5, <2>7, MapKept
<1>4. Live' = Live /\ Idle' = Idle
  BY DEF Quiet, Between, Live, Idle
<1>5. CountersMatch' /\ RoomInv'
  <2>1. /\ Pending({"insert", "count_cur"})' = Pending({"insert", "count_cur"})
        /\ Pending({"insert", "count_cur", "count_idle"})'
             = Pending({"insert", "count_cur", "count_idle"})
    BY DEF Quiet, Pending
  <2>2. UNCHANGED << m_idleThread, m_curThread >>
    BY DEF Quiet
  <2>3. CountersMatch'
    BY <1>0, <1>4, <2>1, <2>2 DEF CountersMatch, Cap
  <2>4. RoomInv'
    BY <1>0, <1>4 DEF Quiet, RoomInv
  <2>5. QED
    BY <2>3, <2>4
<1>6. TasksOnce'
  BY <1>0, TasksKept DEF Quiet
<1>7. QED
  BY <1>1, <1>2, <1>3, <1>5, <1>6 DEF PoolInv

(* The quiet steps of each kind of thread.                                 *)
LEMMA QuietClient ==
  ASSUME PoolInv, NEW c \in Clients, AddNotify(c) \/ AddGet(c)
  PROVE  Quiet
<1>0. TypeOK /\ PlacesOK
  BY DEF PoolInv, TypeOK
<1>1. /\ UNCHANGED << mutex, counters, m_stop, queue, map, locals, tojoin >>
      /\ pc[c] # "add"
  BY DEF AddNotify, AddGet
<1>2. CASE AddNotify(c)
  <2>1. NotifyOne(c, "get") /\ "get" \in ClientPC
    BY <1>2 DEF AddNotify, ClientPC
  <2>2. /\ PlacesOK' /\ pc'[c] = "get"
        /\ pc'[Manager] = pc[Manager] /\ pc'[Owner] = pc[Owner]
        /\ \A w \in Workers : Wakes(w)
        /\ \A d \in Clients \ {c} : pc'[d] = pc[d]
    BY <1>0, <2>1, OneWoken
  <2>3. \A w \in Workers : Between(w)
    BY <2>2 DEF Wakes, Between
  <2>4. QED
    BY <1>0, <1>1, <2>2, <2>3 DEF Quiet, TypeOK, counters, queue, map, locals
<1>3. CASE AddGet(c)
  <2>1. Goto(c, "idle") /\ "idle" \in ClientPC
    BY <1>3 DEF AddGet, ClientPC
  <2>2. /\ PlacesOK' /\ pc'[c] = "idle"
        /\ pc'[Manager] = pc[Manager] /\ pc'[Owner] = pc[Owner]
        /\ \A w \in Workers : pc'[w] = pc[w]
        /\ \A d \in Clients \ {c} : pc'[d] = pc[d]
    BY <1>0, <2>1, ClientMoves
  <2>3. \A w \in Workers : Between(w)
    BY <2>2 DEF Between
  <2>4. QED
    BY <1>0, <1>1, <2>2, <2>3 DEF Quiet, TypeOK, counters, queue, map, locals
<1>4. QED
  BY <1>2, <1>3

(* What a worker does that finds no task.                                  *)
NoTake(w) ==
  /\ m_tasks = << >> /\ UNCHANGED << task, m_tasks >>
  /\ \/ m_stop /\ Goto(w, "top") /\ UNCHANGED mutex
     \/ ~m_stop /\ Goto(w, "block") /\ mutex' = w

Take(w) ==
  /\ m_tasks # << >>
  /\ task' = [task EXCEPT ![w] = Head(m_tasks)]
  /\ m_tasks' = Tail(m_tasks)
  /\ Goto(w, "begin")
  /\ UNCHANGED mutex

LEMMA QuietWorker ==
  ASSUME PoolInv, NEW w \in Workers,
         \/ WorkerTop(w) \/ WorkerBlock(w) \/ ExitCount(w) \/ SpuriousWakeup(w)
         \/ ExitUnlockIds(w) \/ ExitUnlock(w) \/ ExitReturn(w)
         \/ (WorkerLock(w) \/ WorkerStay(w)) /\ NoTake(w)
  PROVE  Quiet
<1>0. TypeOK /\ PlacesOK
  BY DEF PoolInv, TypeOK
<1>1. /\ UNCHANGED << m_idleThread, m_curThread, m_stop, queue, map, locals, tojoin >>
      /\ mutex' \in {mutex, w, NoThread}
      /\ m_exitThread' \in {m_exitThread, m_exitThread - 1}
  BY DEF WorkerTop, WorkerBlock, ExitCount, SpuriousWakeup, WorkerLock, WorkerStay, NoTake,
         ExitUnlockIds, ExitUnlock, ExitReturn, counters, queue
<1>2. PICK l \in WorkerPC :
        /\ Goto(w, l)
        /\ \/ /\ pc[w] \in {"top", "lock", "block", "waiting", "relock"}
              /\ l \in {"top", "lock", "block", "waiting", "relock", "ended"}
           \/ << pc[w], l >> \in
                {<< "exit_count", "exit_id" >>, << "exit_unlock_ids", "exit_unlock" >>,
                 << "exit_unlock", "exit_return" >>, << "exit_return", "ended" >>}
  BY DEF WorkerTop, WorkerBlock, ExitCount, SpuriousWakeup, WorkerLock, WorkerStay, NoTake,
         ExitUnlockIds, ExitUnlock, ExitReturn, WorkerPC
<1>3. /\ PlacesOK' /\ pc'[w] = l
      /\ pc'[Manager] = pc[Manager] /\ pc'[Owner] = pc[Owner]
      /\ \A v \in Workers \ {w} : pc'[v] = pc[v]
      /\ \A c \in Clients : pc'[c] = pc[c]
  BY <1>0, <1>2, WorkerMoves
<1>4. \A v \in Workers : Between(v)
  BY <1>2, <1>3 DEF Between
<1>5. QED
  BY <1>0, <1>1, <1>3, <1>4 DEF Quiet, TypeOK, queue, map, locals

LEMMA QuietManager ==
  ASSUME PoolInv,
         \/ ManagerTop \/ ReadIdle \/ ReadCur \/ SetExit \/ ExitNotify \/ SpinEnd \/ LockIds
  PROVE  Quiet
<1>0. TypeOK /\ PlacesOK /\ CountersMatch
  BY DEF PoolInv, TypeOK
<1>1. /\ UNCHANGED << mutex, m_idleThread, m_curThread, m_stop, queue, map, tojoin >>
      /\ m_exitThread' \in {m_exitThread, 2}
      /\ idel' \in {idel, m_idleThread} /\ cur' \in {cur, m_curThread}
      /\ pc[Manager] \notin {"insert", "count_cur", "count_idle", "ended"}
  BY DEF ManagerTop, ReadIdle, ReadCur, SetExit, ExitNotify, SpinEnd, LockIds, counters, locals
<1>2. PICK l \in ManagerPC :
        /\ Goto(Manager, l) \/ NotifyAll(Manager, l)
        /\ l \notin {"insert", "count_cur", "count_idle"}
        /\ l = "spawn" => pc[Manager] = "read_cur" /\ m_curThread < Max
        /\ l = "reap" => Goto(Manager, l) /\ IdsMutexFree
  BY DEF ManagerTop, ReadIdle, ReadCur, SetExit, ExitNotify, SpinEnd, LockIds, Decide,
         ManagerPC
<1>3. /\ PlacesOK' /\ pc'[Manager] = l /\ pc'[Owner] = pc[Owner]
      /\ \A w \in Workers : Wakes(w)
      /\ \A c \in Clients : pc'[c] = pc[c]
  <2>1. CASE Goto(Manager, l)
    BY <1>0, <2>1, ManagerMoves DEF Wakes
  <2>2. CASE NotifyAll(Manager, l)
    BY <1>0, <2>2, ManagerWakesAll
  <2>3. QED
    BY <1>2, <2>1, <2>2
<1>4. \A w \in Workers : Between(w)
  BY <1>3 DEF Wakes, Between
<1>5. l = "spawn" => Cardinality(Live) < Max
  BY <1>0, <1>2, Countable DEF CountersMatch, Pending
<1>6. l = "reap" => \A w \in Workers : pc'[w] # "exit_unlock_ids"
  BY <1>0, <1>2, ManagerMoves DEF IdsMutexFree
<1>7. QED
  BY <1>0, <1>1, <1>2, <1>3, <1>4, <1>5, <1>6 DEF Quiet, TypeOK, queue, map

LEMMA QuietOwner ==
  ASSUME PoolInv,
         \/ DestroyStop \/ DestroyNotify \/ DestroyJoin \/ DestroyJoined \/ DestroyJoinManager
  PROVE  Quiet
<1>0. TypeOK /\ PlacesOK
  BY DEF PoolInv, TypeOK
<1>1. /\ UNCHANGED << mutex, counters, queue, map, locals >>
      /\ m_stop' \in {m_stop, TRUE}
      /\ tojoin' \subseteq tojoin \cup m_workers
      /\ pc[Owner] \notin {"clear", "destroyed", "terminated"}
  BY DEF DestroyStop, DestroyNotify, DestroyJoin, DestroyJoined, DestroyJoinManager
<1>2. CASE DestroyJoin
  <2>1. PICK w \in tojoin :
          pc[w] = "ended" /\ Goto(w, "joined") /\ tojoin' = tojoin \ {w} /\ m_stop' = m_stop
    BY <1>2 DEF DestroyJoin
  <2>2. w \in Workers /\ "joined" \in WorkerPC
    BY <1>0, <2>1 DEF TypeOK, WorkerPC
  <2>3. /\ PlacesOK' /\ pc'[w] = "joined"
        /\ pc'[Manager] = pc[Manager] /\ pc'[Owner] = pc[Owner]
        /\ \A v \in Workers \ {w} : pc'[v] = pc[v]
        /\ \A c \in Clients : pc'[c] = pc[c]
    BY <1>0, <2>1, <2>2, WorkerMoves
  <2>4. \A v \in Workers : Between(v)
    BY <2>1, <2>3 DEF Between
  <2>5. QED
    BY <1>0, <1>1, <2>1, <2>3, <2>4 DEF Quiet, TypeOK, counters, queue, map, locals
<1>3. CASE ~DestroyJoin
  <2>1. PICK l \in OwnerPC :
          /\ Goto(Owner, l) \/ NotifyAll(Owner, l)
          /\ l \notin {"destroyed", "terminated"}
          /\ l = "clear" => pc[Manager] = "ended"
    BY <1>3 DEF DestroyStop, DestroyNotify, DestroyJoined, DestroyJoinManager, OwnerPC
  <2>2. /\ PlacesOK' /\ pc'[Owner] = l /\ pc'[Manager] = pc[Manager]
        /\ \A w \in Workers : Wakes(w)
        /\ \A c \in Clients : pc'[c] = pc[c]
    <3>1. CASE Goto(Owner, l)
      BY <1>0, <3>1, OwnerMoves DEF Wakes
    <3>2. CASE NotifyAll(Owner, l)
      BY <1>0, <3>2, OwnerWakesAll
    <3>3. QED
      BY <2>1, <3>1, <3>2
  <2>3. \A w \in Workers : Between(w)
    BY <2>2 DEF Wakes, Between
  <2>4. m_stop' \in BOOLEAN
    BY <1>0, <1>1 DEF TypeOK
  <2>5. QED
    BY <1>0, <1>1, <2>1, <2>2, <2>3, <2>4 DEF Quiet, TypeOK, counters, queue, map, locals
<1>4. QED
  BY <1>2, <1>3

------------------------------------------------------------------------------
(* The other steps of clients and workers *)

(* The counters are not touched, and there is nothing to count.            *)
LEMMA CountsKept ==
  ASSUME CountersMatch, RoomInv, Live' = Live, Idle' = Idle, pc'[Manager] = pc[Manager],
         UNCHANGED << m_idleThread, m_curThread >>
  PROVE  CountersMatch' /\ RoomInv'
<1>1. \A L : Pending(L)' = Pending(L)
  BY DEF Pending
<1>2. CountersMatch'
  BY <1>1 DEF CountersMatch, Cap
<1>3. QED
  BY <1>2 DEF RoomInv

(* The workers that have a task.                                           *)
LEMMA Holding ==
  ASSUME NEW t
  PROVE  IsFiniteSet(Holders(t)) /\ Cardinality(Holders(t)) \in Nat
<1>1. Holders(t) \in SUBSET Workers
  BY DEF Holders
<1>2. QED
  BY <1>1, Roles, FS_Subset, FS_CardinalityType

(* A client begins to add a task.                                          *)
LEMMA AddCallInv ==
  ASSUME PoolInv, NEW c \in Clients, AddCall(c)
  PROVE  PoolInv'
<1>0. TypeOK /\ PlacesOK /\ HeldInv /\ MapInv /\ CountersMatch /\ RoomInv /\ TasksOnce
  BY DEF PoolInv, TypeOK
<1>1. /\ pc[c] = "idle" /\ added[c] < MaxTasks
      /\ added' = [added EXCEPT ![c] = @ + 1]
      /\ Goto(c, "add")
      /\ UNCHANGED << mutex, counters, m_stop, m_tasks, task, done, map, locals, tojoin >>
  BY DEF AddCall
<1>2. "add" \in ClientPC
  BY DEF ClientPC
<1>3. /\ PlacesOK' /\ pc'[c] = "add"
      /\ pc'[Manager] = pc[Manager] /\ pc'[Owner] = pc[Owner]
      /\ \A w \in Workers : pc'[w] = pc[w]
      /\ \A d \in Clients \ {c} : pc'[d] = pc[d]
  BY <1>0, <1>1, <1>2, ClientMoves
<1>4. /\ added[c] \in Nat /\ added'[c] = added[c] + 1 /\ added'[c] \in 0 .. MaxTasks
      /\ \A d \in Clients \ {c} : added'[d] = added[d]
      /\ added' \in [Clients -> 0 .. MaxTasks]
  BY <1>0, <1>1, PoolAssumption DEF TypeOK, PoolAssumption
<1>5. TypeOK'
  BY <1>0, <1>1, <1>3, <1>4 DEF TypeOK, counters, map, locals
<1>6. HeldInv'
  BY <1>0, <1>1, <1>3, <1>4 DEF HeldInv
<1>7. MapInv'
  BY <1>0, <1>1, <1>3, MapKept DEF MapInv, Released, map, TypeOK
<1>8. CountersMatch' /\ RoomInv'
  <2>1. Live' = Live /\ Idle' = Idle
    BY <1>1, <1>3 DEF Live, Idle, map
  <2>2. QED
    BY <1>0, <1>1, <1>3, <2>1, CountsKept DEF counters
<1>9. TasksOnce'
  <2> SUFFICES ASSUME NEW t \in Task
      PROVE  ToAdd(t)' + Count(m_tasks, t) + Cardinality(Holders(t)) + Count(done, t)
               = IF t.seq <= added'[t.from] THEN 1 ELSE 0
    BY <1>1 DEF TasksOnce, Holders
  <2>1. t.from \in Clients /\ t.seq \in Nat /\ added[t.from] \in Nat
    BY <1>0 DEF Task, TypeOK
  <2>2. /\ Count(m_tasks, t) \in Nat /\ Count(done, t) \in Nat
        /\ Cardinality(Holders(t)) \in Nat
    BY <1>0, CountType, Holding DEF TypeOK
  <2>3. ToAdd(t) + Count(m_tasks, t) + Cardinality(Holders(t)) + Count(done, t)
          = IF t.seq <= added[t.from] THEN 1 ELSE 0
    BY <1>0 DEF TasksOnce
  <2>4. CASE t.from # c
    BY <1>3, <1>4, <2>1, <2>3, <2>4 DEF ToAdd
  <2>5. CASE t.from = c
    <3>1. ToAdd(t) = 0
      BY <1>1, <2>5 DEF ToAdd
    <3>2. ToAdd(t)' = IF t.seq = added[c] + 1 THEN 1 ELSE 0
      BY <1>3, <1>4, <2>5 DEF ToAdd
    <3> DEFINE n == Count(m_tasks, t) + Cardinality(Holders(t)) + Count(done, t)
    <3>3. n = IF t.seq <= added[c] THEN 1 ELSE 0
      BY <2>2, <2>3, <2>5, <3>1
    <3>4. added[c] \in Nat /\ added'[t.from] = added[c] + 1
      BY <1>4, <2>5
    <3>5. ToAdd(t)' + n = IF t.seq <= added[c] + 1 THEN 1 ELSE 0
      <4> HIDE DEF n
      <4>1. QED
        BY <2>1, <3>2, <3>3, <3>4
    <3>6. QED
      BY <2>2, <3>2, <3>4, <3>5
  <2>6. QED
    BY <2>4, <2>5
<1>10. QED
  BY <1>5, <1>6, <1>7, <1>8, <1>9 DEF PoolInv

(* The task is in the queue.                                               *)
LEMMA AddTaskInv ==
  ASSUME PoolInv, NEW c \in Clients, AddTask(c)
  PROVE  PoolInv'
<1>0. TypeOK /\ PlacesOK /\ HeldInv /\ MapInv /\ CountersMatch /\ RoomInv /\ TasksOnce
  BY DEF PoolInv, TypeOK
<1> DEFINE x == [from |-> c, seq |-> added[c]]
<1>1. /\ pc[c] = "add"
      /\ m_tasks' = Append(m_tasks, x)
      /\ Goto(c, "notify")
      /\ UNCHANGED << mutex, counters, m_stop, task, added, done, map, locals, tojoin >>
  BY DEF AddTask
<1>2. "notify" \in ClientPC
  BY DEF ClientPC
<1>3. /\ PlacesOK' /\ pc'[c] = "notify"
      /\ pc'[Manager] = pc[Manager] /\ pc'[Owner] = pc[Owner]
      /\ \A w \in Workers : pc'[w] = pc[w]
      /\ \A d \in Clients \ {c} : pc'[d] = pc[d]
  BY <1>0, <1>1, <1>2, ClientMoves
<1>4. x \in Task /\ x.from = c /\ x.seq = added[c]
  <2>1. added[c] \in 1 .. MaxTasks
    BY <1>0, <1>1, PoolAssumption DEF TypeOK, HeldInv, PoolAssumption
  <2>2. QED
    BY <2>1 DEF Task
<1> HIDE DEF x
<1>5. TypeOK'
  <2>1. m_tasks' \in Seq(Task)
    BY <1>0, <1>1, <1>4 DEF TypeOK
  <2>2. QED
    BY <1>0, <1>1, <1>3, <2>1 DEF TypeOK, counters, map, locals
<1>6. HeldInv'
  BY <1>0, <1>1, <1>3 DEF HeldInv
<1>7. MapInv'
  BY <1>0, <1>1, <1>3, MapKept DEF MapInv, Released, map, TypeOK
<1>8. CountersMatch' /\ RoomInv'
  <2>1. Live' = Live /\ Idle' = Idle
    BY <1>1, <1>3 DEF Live, Idle, map
  <2>2. QED
    BY <1>0, <1>1, <1>3, <2>1, CountsKept DEF counters
<1>9. TasksOnce'
  <2> SUFFICES ASSUME NEW t \in Task
      PROVE  ToAdd(t)' + Count(m_tasks', t) + Cardinality(Holders(t)) + Count(done, t)
               = IF t.seq <= added[t.from] THEN 1 ELSE 0
    BY <1>1 DEF TasksOnce, Holders
  <2>1. t.from \in Clients
    BY DEF Task
  <2>2. /\ Count(m_tasks, t) \in Nat /\ Count(done, t) \in Nat
        /\ Cardinality(Holders(t)) \in Nat
    BY <1>0, CountType, Holding DEF TypeOK
  <2>3. ToAdd(t) + Count(m_tasks, t) + Cardinality(Holders(t)) + Count(done, t)
          = IF t.seq <= added[t.from] THEN 1 ELSE 0
    BY <1>0 DEF TasksOnce
  <2>4. Count(m_tasks', t) = Count(m_tasks, t) + (IF x = t THEN 1 ELSE 0)
    BY <1>0, <1>1, <1>4, CountAppend DEF TypeOK
  <2>5. x = t <=> t.from = c /\ t.seq = added[c]
    BY DEF Task, x
  <2>6. /\ ToAdd(t) = IF pc[t.from] = "add" /\ t.seq = added[t.from] THEN 1 ELSE 0
        /\ ToAdd(t)' = IF pc'[t.from] = "add" /\ t.seq = added[t.from] THEN 1 ELSE 0
    BY <1>1 DEF ToAdd
  <2>7. ToAdd(t) = ToAdd(t)' + (IF x = t THEN 1 ELSE 0)
    BY <1>1, <1>3, <2>1, <2>5, <2>6
  <2>8. ToAdd(t)' \in Nat
    BY <2>6
  <2>9. QED
    BY <2>2, <2>3, <2>4, <2>7, <2>8
<1>10. QED
  BY <1>5, <1>6, <1>7, <1>8, <1>9 DEF PoolInv

(* A worker takes the first task of the queue.                             *)
LEMMA TakeInv ==
  ASSUME PoolInv, NEW w \in Workers, WorkerLock(w) \/ WorkerStay(w), Take(w)
  PROVE  PoolInv'
<1>0. TypeOK /\ PlacesOK /\ HeldInv /\ MapInv /\ CountersMatch /\ RoomInv /\ TasksOnce
  BY DEF PoolInv, TypeOK
<1> DEFINE x == Head(m_tasks)
<1>1. /\ pc[w] \in {"lock", "relock"} /\ m_tasks # << >>
      /\ task' = [task EXCEPT ![w] = x] /\ m_tasks' = Tail(m_tasks)
      /\ Goto(w, "begin")
      /\ UNCHANGED << mutex, counters, m_stop, added, done, map, locals, tojoin >>
  BY DEF Take, WorkerLock, WorkerStay
<1>2. "begin" \in WorkerPC
  BY DEF WorkerPC
<1>3. /\ PlacesOK' /\ pc'[w] = "begin"
      /\ pc'[Manager] = pc[Manager] /\ pc'[Owner] = pc[Owner]
      /\ \A v \in Workers \ {w} : pc'[v] = pc[v]
      /\ \A c \in Clients : pc'[c] = pc[c]
  BY <1>0, <1>1, <1>2, WorkerMoves
<1>4. x \in Task /\ m_tasks \in Seq(Task) /\ m_tasks' \in Seq(Task)
  BY <1>0, <1>1 DEF TypeOK
<1> HIDE DEF x
<1>5. task[w] = NoTask /\ task' \in [Workers -> Task \cup {NoTask}] /\ task'[w] = x
      /\ \A v \in Workers \ {w} : task'[v] = task[v]
  BY <1>0, <1>1, <1>4 DEF HeldInv, TypeOK
<1>6. TypeOK'
  BY <1>0, <1>1, <1>3, <1>4, <1>5 DEF TypeOK, counters, map, locals
<1>7. HeldInv'
  BY <1>0, <1>1, <1>3, <1>4, <1>5 DEF HeldInv
<1>8. MapInv'
  BY <1>0, <1>1, <1>3, MapKept DEF MapInv, Released, map, TypeOK
<1>9. CountersMatch' /\ RoomInv'
  <2>1. Live' = Live /\ Idle' = Idle
    BY <1>1, <1>3 DEF Live, Idle, map
  <2>2. QED
    BY <1>0, <1>1, <1>3, <2>1, CountsKept DEF counters
<1>10. TasksOnce'
  <2> SUFFICES ASSUME NEW t \in Task
      PROVE  ToAdd(t)' + Count(m_tasks', t) + Cardinality(Holders(t)') + Count(done, t)
               = IF t.seq <= added[t.from] THEN 1 ELSE 0
    BY <1>1 DEF TasksOnce
  <2>1. t.from \in Clients /\ NoTask # t
    BY Roles DEF Task, NoTask, Threads
  <2>2. /\ Count(m_tasks', t) \in Nat /\ Count(done, t) \in Nat
        /\ Cardinality(Holders(t)) \in Nat /\ IsFiniteSet(Holders(t))
    BY <1>0, <1>4, CountType, Holding DEF TypeOK
  <2>3. ToAdd(t) + Count(m_tasks, t) + Cardinality(Holders(t)) + Count(done, t)
          = IF t.seq <= added[t.from] THEN 1 ELSE 0
    BY <1>0 DEF TasksOnce
  <2>4. Count(m_tasks, t) = Count(m_tasks', t) + (IF x = t THEN 1 ELSE 0)
    BY <1>1, <1>4, CountTail DEF x
  <2>5. Holders(t)' = IF x = t THEN Holders(t) \cup {w} ELSE Holders(t)
    BY <1>5, <2>1 DEF Holders
  <2>6. w \notin Holders(t)
    BY <1>5, <2>1 DEF Holders
  <2>7. Cardinality(Holders(t) \cup {w}) = Cardinality(Holders(t)) + 1
    BY <2>2, <2>6, FS_AddElement
  <2>8. Cardinality(Holders(t)') = Cardinality(Holders(t)) + (IF x = t THEN 1 ELSE 0)
    BY <2>2, <2>5, <2>7
  <2>9. ToAdd(t)' = ToAdd(t) /\ ToAdd(t) \in Nat
    BY <1>1, <1>3, <2>1 DEF ToAdd
  <2>10. QED
    BY <2>2, <2>3, <2>4, <2>8, <2>9
<1>11. QED
  BY <1>6, <1>7, <1>8, <1>9, <1>10 DEF PoolInv

(* A worker runs its task.                                                 *)
LEMMA TaskRunInv ==
  ASSUME PoolInv, NEW w \in Workers, TaskRun(w)
  PROVE  PoolInv'
<1>0. TypeOK /\ PlacesOK /\ HeldInv /\ MapInv /\ CountersMatch /\ RoomInv /\ TasksOnce
  BY DEF PoolInv, TypeOK
<1> DEFINE x == task[w]
<1>1. /\ pc[w] = "run"
      /\ done' = Append(done, x) /\ task' = [task EXCEPT ![w] = NoTask]
      /\ Goto(w, "finish")
      /\ UNCHANGED << mutex, counters, m_stop, m_tasks, added, map, locals, tojoin >>
  BY DEF TaskRun
<1>2. "finish" \in WorkerPC
  BY DEF WorkerPC
<1>3. /\ PlacesOK' /\ pc'[w] = "finish"
      /\ pc'[Manager] = pc[Manager] /\ pc'[Owner] = pc[Owner]
      /\ \A v \in Workers \ {w} : pc'[v] = pc[v]
      /\ \A c \in Clients : pc'[c] = pc[c]
  BY <1>0, <1>1, <1>2, WorkerMoves
<1>4. x \in Task /\ done \in Seq(Task)
  BY <1>0, <1>1 DEF TypeOK, HeldInv
<1>5. done' \in Seq(Task)
  BY <1>1, <1>4
<1>6. /\ task' \in [Workers -> Task \cup {NoTask}] /\ task'[w] = NoTask
      /\ \A v \in Workers \ {w} : task'[v] = task[v]
  BY <1>0, <1>1 DEF TypeOK
<1>7. TypeOK'
  BY <1>0, <1>1, <1>3, <1>5, <1>6 DEF TypeOK, counters, map, locals
<1>8. HeldInv'
  BY <1>0, <1>1, <1>3, <1>6 DEF HeldInv
<1>9. MapInv'
  BY <1>0, <1>1, <1>3, MapKept DEF MapInv, Released, map, TypeOK
<1>10. CountersMatch' /\ RoomInv'
  <2>1. Live' = Live /\ Idle' = Idle
    BY <1>1, <1>3 DEF Live, Idle, map
  <2>2. QED
    BY <1>0, <1>1, <1>3, <2>1, CountsKept DEF counters
<1>11. TasksOnce'
  <2> SUFFICES ASSUME NEW t \in Task
      PROVE  ToAdd(t)' + Count(m_tasks, t) + Cardinality(Holders(t)') + Count(done', t)
               = IF t.seq <= added[t.from] THEN 1 ELSE 0
    BY <1>1 DEF TasksOnce
  <2>1. t.from \in Clients /\ NoTask # t
    BY Roles DEF Task, NoTask, Threads
  <2>2. /\ Count(m_tasks, t) \in Nat /\ Count(done, t) \in Nat
        /\ Cardinality(Holders(t)) \in Nat /\ IsFiniteSet(Holders(t))
    BY <1>0, CountType, Holding DEF TypeOK
  <2>3. ToAdd(t) + Count(m_tasks, t) + Cardinality(Holders(t)) + Count(done, t)
          = IF t.seq <= added[t.from] THEN 1 ELSE 0
    BY <1>0 DEF TasksOnce
  <2>4. Count(done', t) = Count(done, t) + (IF x = t THEN 1 ELSE 0)
    BY <1>1, <1>4, CountAppend
  <2>5. Holders(t)' = IF x = t THEN Holders(t) \ {w} ELSE Holders(t)
    BY <1>6, <2>1 DEF Holders
  <2>6. x = t <=> w \in Holders(t)
    BY DEF Holders
  <2>7. Cardinality(Holders(t) \ {w}) = IF w \in Holders(t) THEN Cardinality(Holders(t)) - 1
                                                            ELSE Cardinality(Holders(t))
    BY <2>2, FS_RemoveElement
  <2> HIDE DEF x
  <2>8. Cardinality(Holders(t)) = Cardinality(Holders(t)') + (IF x = t THEN 1 ELSE 0)
    BY <2>2, <2>5, <2>6, <2>7
  <2>9. Cardinality(Holders(t)') \in Int
    BY <2>2, <2>5, <2>7
  <2>10. ToAdd(t)' = ToAdd(t) /\ ToAdd(t) \in Nat
    BY <1>1, <1>3, <2>1 DEF ToAdd
  <2>11. QED
    BY <2>2, <2>3, <2>4, <2>8, <2>9, <2>10
<1>12. QED
  BY <1>7, <1>8, <1>9, <1>10, <1>11 DEF PoolInv

(* What a worker does to the counters, which leaves the queue alone.       *)
LEMMA WorkerCounts ==
  ASSUME PoolInv, NEW w \in Workers,
         WorkerExit(w) \/ ExitIdle(w) \/ ExitId(w) \/ TaskBegin(w) \/ TaskFinish(w)
  PROVE  /\ TypeOK' /\ HeldInv' /\ MapInv' /\ TasksOnce'
         /\ pc'[Manager] = pc[Manager] /\ \A v \in Workers \ {w} : pc'[v] = pc[v]
         /\ m_ids' = m_ids \/ m_ids' = m_ids \cup {w}
         /\ w \notin m_ids
         /\ << pc[w], pc'[w] >> \in {<< "relock", "exit_idle" >>, << "exit_idle", "exit_count" >>,
              << "exit_id", "exit_unlock_ids" >>, << "begin", "run" >>, << "finish", "top" >>}
<1>0. TypeOK /\ PlacesOK /\ HeldInv /\ MapInv /\ TasksOnce
  BY DEF PoolInv, TypeOK
<1>1. /\ UNCHANGED << m_stop, queue, m_workers, locals, tojoin >>
      /\ mutex' \in {mutex, w, NoThread}
      /\ m_idleThread' \in {m_idleThread, m_idleThread - 1, m_idleThread + 1}
      /\ m_curThread' \in {m_curThread, m_curThread - 1} /\ m_exitThread' = m_exitThread
      /\ m_ids' = m_ids \/ (pc[w] = "exit_id" /\ m_ids' = m_ids \cup {w})
  BY DEF WorkerExit, ExitIdle, ExitId, TaskBegin, TaskFinish, counters, map
<1>2. PICK l \in WorkerPC :
        /\ Goto(w, l)
        /\ << pc[w], l >> \in {<< "relock", "exit_idle" >>, << "exit_idle", "exit_count" >>,
             << "exit_id", "exit_unlock_ids" >>, << "begin", "run" >>, << "finish", "top" >>}
  BY DEF WorkerExit, ExitIdle, ExitId, TaskBegin, TaskFinish, WorkerPC
<1>3. /\ PlacesOK' /\ pc'[w] = l
      /\ pc'[Manager] = pc[Manager] /\ pc'[Owner] = pc[Owner]
      /\ \A v \in Workers \ {w} : pc'[v] = pc[v]
      /\ \A c \in Clients : pc'[c] = pc[c]
  BY <1>0, <1>2, WorkerMoves
<1>4. /\ pc[w] \notin Released \cup {"none", "exit_unlock_ids"} /\ pc'[w] # "none"
      /\ pc[w] = "exit_id" <=> pc'[w] = "exit_unlock_ids"
      /\ pc'[w] \in {"begin", "run"} <=> pc[w] \in {"begin", "run"}
  BY <1>2, <1>3 DEF Released
<1>5. w \notin m_ids
  BY <1>0, <1>4 DEF MapInv
<1>6. TypeOK'
  BY <1>0, <1>1, <1>3 DEF TypeOK, queue, locals
<1>7. HeldInv'
  BY <1>0, <1>1, <1>3, <1>4 DEF HeldInv, queue
<1>8. MapInv'
  <2>1. \A v \in m_ids' : pc'[v] \in Released \cup {"exit_unlock_ids"}
    BY <1>0, <1>1, <1>3, <1>4, <1>5 DEF MapInv, TypeOK
  <2>5. pc'[Manager] = "reap" => \A v \in Workers : pc'[v] # "exit_unlock_ids"
    <3>1. pc'[w] = "exit_unlock_ids" => ExitId(w)
      BY <1>3, <1>4 DEF WorkerExit, ExitIdle, TaskBegin, TaskFinish
    <3>2. pc'[w] = "exit_unlock_ids" => pc'[Manager] # "reap"
      BY <1>3, <3>1 DEF ExitId, IdsMutexFree
    <3>3. QED
      BY <1>0, <1>3, <3>2 DEF MapInv
  <2>2. \A v \in Workers : pc'[v] # "none" => pc[v] # "none"
    BY <1>3, <1>4
  <2>3. ASSUME pc'[Owner] # "destroyed"
        PROVE  \E new \in Workers \cup {NoThread} :
                 /\ new \in Workers => pc'[Manager] = "insert"
                 /\ \A v \in Workers : pc'[v] # "none" => v = new \/ v \in m_workers'
    BY <1>0, <1>1, <1>3, <2>2, <2>3 DEF MapInv
  <2>4. QED
    BY <1>0, <1>3, <2>1, <2>3, <2>5 DEF MapInv
<1>9. TasksOnce'
  BY <1>0, <1>1, <1>3, TasksKept DEF queue
<1>10. QED
  BY <1>1, <1>2, <1>3, <1>5, <1>6, <1>7, <1>8, <1>9

(* One thread more or less, counted or not yet.                            *)
LEMMA WorkerCountsInv ==
  ASSUME PoolInv, NEW w \in Workers,
         WorkerExit(w) \/ ExitIdle(w) \/ ExitId(w) \/ TaskBegin(w) \/ TaskFinish(w)
  PROVE  PoolInv'
<1>0. TypeOK /\ CountersMatch /\ RoomInv
  BY DEF PoolInv
<1>1. /\ TypeOK' /\ HeldInv' /\ MapInv' /\ TasksOnce'
      /\ pc'[Manager] = pc[Manager] /\ \A v \in Workers \ {w} : pc'[v] = pc[v]
      /\ m_ids' = m_ids \/ m_ids' = m_ids \cup {w}
      /\ w \notin m_ids
      /\ << pc[w], pc'[w] >> \in {<< "relock", "exit_idle" >>, << "exit_idle", "exit_count" >>,
           << "exit_id", "exit_unlock_ids" >>, << "begin", "run" >>, << "finish", "top" >>}
  BY WorkerCounts
<1>2. \A L : Pending(L)' = Pending(L)
  BY <1>1 DEF Pending
<1>3. Pending({"insert", "count_cur"}) \in Int
      /\ Pending({"insert", "count_cur", "count_idle"}) \in Int
  BY DEF Pending
<1>4. /\ IsFiniteSet(Live) /\ Cardinality(Live) \in Nat
      /\ IsFiniteSet(Idle) /\ Cardinality(Idle) \in Nat
  BY Countable
<1>5. /\ m_curThread = Cardinality(Live) - Pending({"insert", "count_cur"})
      /\ m_idleThread = Cardinality(Idle) - Pending({"insert", "count_cur", "count_idle"})
      /\ Cardinality(Live) <= Cap /\ Cap \in Nat
      /\ pc[Manager] = "spawn" => Cardinality(Live) < Max
  BY <1>0, Roles DEF CountersMatch, RoomInv, Cap
<1>6. SUFFICES /\ m_curThread' - Cardinality(Live)' = m_curThread - Cardinality(Live)
               /\ m_idleThread' - Cardinality(Idle)' = m_idleThread - Cardinality(Idle)
               /\ Cardinality(Live)' <= Cardinality(Live) /\ Cardinality(Live)' \in Nat
               /\ m_idleThread' \in Int /\ m_curThread' \in Int /\ Cardinality(Idle)' \in Nat
  <2>1. CountersMatch'
    BY <1>2, <1>3, <1>4, <1>5, <1>6 DEF CountersMatch, Cap
  <2>2. RoomInv'
    BY <1>1, <1>4, <1>5, <1>6, Roles DEF RoomInv
  <2>3. QED
    BY <1>1, <2>1, <2>2 DEF PoolInv
<1>7. m_idleThread \in Int /\ m_curThread \in Int
  BY <1>0 DEF TypeOK
<1>8. /\ Live' \subseteq Workers /\ Idle' \subseteq Workers
      /\ Live \subseteq Workers /\ Idle \subseteq Workers
      /\ \A v \in Workers \ {w} : (v \in Live' <=> v \in Live) /\ (v \in Idle' <=> v \in Idle)
  BY <1>1 DEF Live, Idle
<1>9. CASE WorkerExit(w)
  <2>1. /\ pc[w] = "relock" /\ pc'[w] = "exit_idle" /\ m_ids' = m_ids
        /\ m_curThread' = m_curThread - 1 /\ m_idleThread' = m_idleThread
    BY <1>1, <1>9 DEF WorkerExit, map
  <2>2. w \in Live /\ w \notin Live' /\ w \in Idle /\ w \in Idle'
    BY <1>1, <2>1 DEF Live, Idle
  <2>3. Live' = Live \ {w} /\ Idle' = Idle
    BY <1>8, <2>2
  <2>4. Cardinality(Live)' = Cardinality(Live) - 1
    BY <1>4, <2>2, <2>3, FS_RemoveElement
  <2>5. Cardinality(Live)' \in Nat
    BY <1>4, <2>3, FS_RemoveElement, FS_CardinalityType
  <2>6. QED
    BY <1>4, <1>7, <2>1, <2>3, <2>4, <2>5
<1>10. CASE ExitId(w)
  <2>1. /\ pc[w] = "exit_id" /\ m_ids' = m_ids \cup {w}
        /\ UNCHANGED << m_curThread, m_idleThread >>
    BY <1>10 DEF ExitId, counters
  <2>2. w \notin Live /\ w \notin Live' /\ w \notin Idle /\ w \notin Idle'
    BY <2>1 DEF Live, Idle
  <2>3. Live' = Live /\ Idle' = Idle
    BY <1>8, <2>2
  <2>4. QED
    BY <1>4, <1>7, <2>1, <2>3
<1>11. CASE ExitIdle(w) \/ TaskBegin(w)
  <2>1. /\ pc[w] \in {"exit_idle", "begin"} /\ m_ids' = m_ids
        /\ pc[w] = "begin" => pc'[w] = "run"
        /\ pc[w] = "exit_idle" => pc'[w] = "exit_count"
        /\ m_curThread' = m_curThread /\ m_idleThread' = m_idleThread - 1
    BY <1>1, <1>11 DEF ExitIdle, TaskBegin, map
  <2>2. (w \in Live <=> w \in Live') /\ w \in Idle /\ w \notin Idle'
    BY <1>1, <2>1 DEF Live, Idle
  <2>3. Live' = Live /\ Idle' = Idle \ {w}
    BY <1>8, <2>2
  <2>4. Cardinality(Idle)' = Cardinality(Idle) - 1
    BY <1>4, <2>2, <2>3, FS_RemoveElement
  <2>5. Cardinality(Idle)' \in Nat
    BY <1>4, <2>3, FS_RemoveElement, FS_CardinalityType
  <2>6. QED
    BY <1>4, <1>7, <2>1, <2>3, <2>4, <2>5
<1>12. CASE TaskFinish(w)
  <2>1. /\ pc[w] = "finish" /\ m_ids' = m_ids /\ pc'[w] = "top"
        /\ m_curThread' = m_curThread /\ m_idleThread' = m_idleThread + 1
    BY <1>1, <1>12 DEF TaskFinish, map
  <2>2. w \in Live /\ w \in Live' /\ w \notin Idle /\ w \in Idle'
    BY <1>1, <2>1 DEF Live, Idle
  <2>3. Live' = Live /\ Idle' = Idle \cup {w}
    BY <1>8, <2>2
  <2>4. Cardinality(Idle)' = Cardinality(Idle) + 1
    BY <1>4, <2>2, <2>3, FS_AddElement
  <2>5. QED
    BY <1>4, <1>7, <2>1, <2>3, <2>4
<1>13. QED
  BY <1>9, <1>10, <1>11, <1>12

------------------------------------------------------------------------------
(* The other steps of the manager and the owner *)

(* Threads that have ended are joined and forgotten.                       *)
LEMMA ReapInv ==
  ASSUME PoolInv, Reap
  PROVE  PoolInv'
<1>0. TypeOK /\ PlacesOK /\ HeldInv /\ MapInv /\ CountersMatch /\ RoomInv /\ TasksOnce
  BY DEF PoolInv, TypeOK
<1>1. /\ pc[Manager] = "reap" /\ \A w \in m_ids : pc[w] \in {"ended", "joined"}
      /\ m_workers' = m_workers \ m_ids /\ tojoin' = tojoin \ m_ids /\ m_ids' = {}
      /\ pc' = [t \in Threads |-> IF t = Manager THEN "top"
                                  ELSE IF t \in m_ids \cap m_workers THEN "none"
                                  ELSE pc[t]]
      /\ UNCHANGED << mutex, counters, m_stop, queue, locals >>
  BY DEF Reap
<1>2. pc[Owner] \notin {"clear", "destroyed", "terminated"}
  BY <1>0, <1>1 DEF MapInv
<1>3. \A w \in Workers : pc[w] # "none" => w \in m_workers
  BY <1>0, <1>1, <1>2, Roles DEF MapInv, Threads
<1>4. m_ids \subseteq Workers /\ m_ids \subseteq m_workers
  BY <1>0, <1>1, <1>3 DEF TypeOK
<1>5. /\ pc'[Manager] = "top" /\ pc'[Owner] = pc[Owner]
      /\ \A w \in Workers : pc'[w] = IF w \in m_ids THEN "none" ELSE pc[w]
      /\ \A c \in Clients : pc'[c] = pc[c]
  BY <1>1, <1>4, Roles
<1>6. PlacesOK'
  <2>1. pc' = [t \in Threads |-> pc'[t]]
    BY <1>1
  <2>2. "none" \in WorkerPC /\ "top" \in ManagerPC
    BY DEF WorkerPC, ManagerPC
  <2>3. /\ \A w \in Workers : pc'[w] \in WorkerPC
        /\ \A c \in Clients : pc'[c] \in ClientPC
        /\ pc'[Manager] \in ManagerPC /\ pc'[Owner] \in OwnerPC
    BY <1>0, <1>5, <2>2 DEF PlacesOK
  <2>4. \A t \in Threads : pc'[t] \in ClientPC \cup WorkerPC \cup ManagerPC \cup OwnerPC
    BY <2>3 DEF Threads
  <2>5. QED
    BY <2>1, <2>3, <2>4 DEF PlacesOK
<1>7. TypeOK'
  BY <1>0, <1>1, <1>6 DEF TypeOK, counters, queue, locals
<1>8. HeldInv'
  BY <1>0, <1>1, <1>4, <1>5 DEF HeldInv, queue
<1>9. MapInv'
  BY <1>0, <1>1, <1>2, <1>3, <1>5 DEF MapInv
<1>10. Live' = Live /\ Idle' = Idle
  BY <1>1, <1>5 DEF Live, Idle
<1>11. CountersMatch' /\ RoomInv'
  BY <1>0, <1>1, <1>5, <1>10 DEF CountersMatch, RoomInv, Pending, Cap, counters
<1>12. TasksOnce'
  BY <1>0, <1>1, <1>5, TasksKept DEF queue
<1>13. QED
  BY <1>7, <1>8, <1>9, <1>11, <1>12 DEF PoolInv

(* A thread is started.                                                    *)
LEMMA SpawnInv ==
  ASSUME PoolInv, Spawn
  PROVE  PoolInv'
<1>0. TypeOK /\ PlacesOK /\ HeldInv /\ MapInv /\ CountersMatch /\ RoomInv /\ TasksOnce
  BY DEF PoolInv, TypeOK
<1>1. /\ pc[Manager] = "spawn"
      /\ UNCHANGED << mutex, counters, m_stop, queue, map, locals, tojoin >>
  BY DEF Spawn
<1>2. PICK w \in Workers :
        /\ pc[w] = "none" /\ w \notin m_workers
        /\ pc' = [pc EXCEPT ![Manager] = "insert", ![w] = "top"]
  BY DEF Spawn
<1>3. "insert" \in ManagerPC /\ "top" \in WorkerPC
  BY DEF ManagerPC, WorkerPC
<1>4. /\ pc'[Manager] = "insert" /\ pc'[w] = "top"
      /\ \A u \in Threads \ {Manager, w} : pc'[u] = pc[u]
  BY <1>0, <1>2, Roles DEF PlacesOK
<1>5. PlacesOK'
  BY <1>0, <1>2, <1>3, <1>4, Roles DEF PlacesOK
<1>6. /\ pc'[Owner] = pc[Owner]
      /\ \A v \in Workers \ {w} : pc'[v] = pc[v]
      /\ \A c \in Clients : pc'[c] = pc[c]
  BY <1>4, Roles
<1>7. w \notin m_ids /\ pc[Owner] \notin {"clear", "destroyed", "terminated"}
  BY <1>0, <1>1, <1>2 DEF MapInv, Released
<1>8. TypeOK'
  BY <1>0, <1>1, <1>5 DEF TypeOK, counters, queue, map, locals
<1>9. HeldInv'
  BY <1>0, <1>1, <1>2, <1>4, <1>6 DEF HeldInv, queue
<1>10. MapInv'
  <2>1. \A v \in Workers : pc[v] # "none" => v \in m_workers
    BY <1>0, <1>1, <1>7, Roles DEF MapInv, Threads
  <2>2. \A v \in m_ids : pc'[v] \in Released \cup {"exit_unlock_ids"}
    BY <1>0, <1>6, <1>7 DEF MapInv, TypeOK
  <2>3. \A v \in Workers : pc'[v] # "none" => v = w \/ v \in m_workers
    BY <1>6, <2>1
  <2>4. QED
    BY <1>1, <1>4, <1>6, <1>7, <2>2, <2>3 DEF MapInv, map
<1>11. Live' = Live \cup {w} /\ w \notin Live /\ Idle' = Idle \cup {w} /\ w \notin Idle
  BY <1>1, <1>2, <1>4, <1>6, <1>7 DEF Live, Idle, map
<1>12. CountersMatch' /\ RoomInv'
  <2>1. /\ Cardinality(Live)' = Cardinality(Live) + 1
        /\ Cardinality(Idle)' = Cardinality(Idle) + 1
    BY <1>11, Countable, FS_AddElement
  <2>2. /\ m_curThread = Cardinality(Live) /\ m_idleThread = Cardinality(Idle)
        /\ Cardinality(Live) < Max
        /\ Cardinality(Live) \in Nat /\ Cardinality(Idle) \in Nat
    BY <1>0, <1>1, Countable DEF CountersMatch, RoomInv, Pending
  <2>3. /\ Pending({"insert", "count_cur"})' = 1
        /\ Pending({"insert", "count_cur", "count_idle"})' = 1
    BY <1>4 DEF Pending
  <2>4. Cardinality(Live) + 1 <= Cap
    BY <2>2, Roles DEF Cap
  <2>5. UNCHANGED << m_curThread, m_idleThread >>
    BY <1>1 DEF counters
  <2>6. Cardinality(Live)' <= Cap'
    BY <2>1, <2>4 DEF Cap
  <2>7. CountersMatch'
    BY <2>1, <2>2, <2>3, <2>5, <2>6 DEF CountersMatch
  <2>8. QED
    BY <1>4, <2>7 DEF RoomInv
<1>13. TasksOnce'
  BY <1>0, <1>1, <1>6, TasksKept DEF queue
<1>14. QED
  BY <1>8, <1>9, <1>10, <1>12, <1>13 DEF PoolInv

(* The thread is put into the map, and counted.                            *)
LEMMA InsertInv ==
  ASSUME PoolInv, Insert \/ CountCur \/ CountIdle
  PROVE  PoolInv'
<1>0. TypeOK /\ PlacesOK /\ HeldInv /\ MapInv /\ CountersMatch /\ RoomInv /\ TasksOnce
  BY DEF PoolInv, TypeOK
<1>1. /\ UNCHANGED << mutex, m_exitThread, m_stop, queue, m_ids, locals >>
      /\ tojoin' \subseteq tojoin \cup m_workers'
  BY DEF Insert, CountCur, CountIdle, counters, map
<1>2. PICK l \in ManagerPC :
        Goto(Manager, l) /\ << pc[Manager], l >> \in
          {<< "insert", "count_cur" >>, << "count_cur", "count_idle" >>, << "count_idle", "top" >>}
  BY DEF Insert, CountCur, CountIdle, ManagerPC
<1>3. /\ PlacesOK' /\ pc'[Manager] = l /\ pc'[Owner] = pc[Owner]
      /\ \A w \in Workers : pc'[w] = pc[w]
      /\ \A c \in Clients : pc'[c] = pc[c]
  BY <1>0, <1>2, ManagerMoves
<1>4. m_workers' \subseteq Workers /\ m_workers \subseteq m_workers'
  BY <1>0 DEF TypeOK, Insert, CountCur, CountIdle, map
<1>5. /\ m_curThread' = m_curThread + (IF pc[Manager] = "count_cur" THEN 1 ELSE 0)
      /\ m_idleThread' = m_idleThread + (IF pc[Manager] = "count_idle" THEN 1 ELSE 0)
  BY <1>0 DEF Insert, CountCur, CountIdle, counters, TypeOK
<1>6. TypeOK'
  <2>1. m_curThread' \in Int /\ m_idleThread' \in Int
    BY <1>0, <1>5 DEF TypeOK
  <2>2. QED
    BY <1>0, <1>1, <1>3, <1>4, <2>1 DEF TypeOK, queue, locals
<1>7. HeldInv'
  BY <1>0, <1>1, <1>3 DEF HeldInv, queue
<1>8. MapInv'
  <2>1. ASSUME pc'[Owner] # "destroyed", NEW w \in Workers, pc'[w] # "none"
        PROVE  w \in m_workers'
    <3>1. PICK new \in Workers \cup {NoThread} :
            /\ new \in Workers => pc[Manager] = "insert"
            /\ \A v \in Workers : pc[v] # "none" => v = new \/ v \in m_workers
      BY <1>0, <1>3, <2>1 DEF MapInv
    <3>2. CASE pc[Manager] = "insert"
      <4>1. PICK v \in Workers \ m_workers :
              pc[v] # "none" /\ m_workers' = m_workers \cup {v}
        BY <3>2 DEF Insert, CountCur, CountIdle
      <4>2. QED
        BY <1>3, <2>1, <3>1, <4>1
    <3>3. CASE pc[Manager] # "insert"
      BY <1>3, <1>4, <2>1, <3>1, <3>3, Roles DEF Threads
    <3>4. QED
      BY <3>2, <3>3
  <2>2. /\ \A w \in m_ids : pc'[w] \in Released \cup {"exit_unlock_ids"}
        /\ pc'[Manager] # "reap"
    BY <1>0, <1>2, <1>3 DEF MapInv, TypeOK
  <2>3. pc[Owner] \notin {"clear", "destroyed", "terminated"}
    BY <1>0, <1>2 DEF MapInv
  <2>4. QED
    BY <1>1, <1>3, <2>1, <2>2, <2>3, Roles DEF MapInv, Threads
<1>9. CountersMatch' /\ RoomInv'
  <2>1. Live' = Live /\ Idle' = Idle
    BY <1>1, <1>3 DEF Live, Idle
  <2>2. /\ Pending({"insert", "count_cur"})
             = Pending({"insert", "count_cur"})' + (IF pc[Manager] = "count_cur" THEN 1 ELSE 0)
        /\ Pending({"insert", "count_cur", "count_idle"})
             = Pending({"insert", "count_cur", "count_idle"})'
                 + (IF pc[Manager] = "count_idle" THEN 1 ELSE 0)
        /\ Pending({"insert", "count_cur"})' \in Nat
        /\ Pending({"insert", "count_cur", "count_idle"})' \in Nat
    BY <1>2, <1>3 DEF Pending
  <2>3. /\ Cardinality(Live)' = Cardinality(Live) /\ Cardinality(Idle)' = Cardinality(Idle)
        /\ Cardinality(Live) \in Nat /\ Cardinality(Idle) \in Nat
    BY <2>1, Countable
  <2>4. /\ m_curThread' = Cardinality(Live)' - Pending({"insert", "count_cur"})'
        /\ m_idleThread' = Cardinality(Idle)'
                             - Pending({"insert", "count_cur", "count_idle"})'
    BY <1>0, <1>5, <2>2, <2>3 DEF CountersMatch
  <2>5. CountersMatch'
    BY <1>0, <2>3, <2>4 DEF CountersMatch, Cap
  <2>6. RoomInv'
    BY <1>2, <1>3 DEF RoomInv
  <2>7. QED
    BY <2>5, <2>6
<1>10. TasksOnce'
  BY <1>0, <1>1, <1>3, TasksKept DEF queue
<1>11. QED
  BY <1>6, <1>7, <1>8, <1>9, <1>10 DEF PoolInv

(* The map is cleared.                                                     *)
LEMMA ClearInv ==
  ASSUME PoolInv, DestroyClear
  PROVE  PoolInv'
<1>0. TypeOK /\ PlacesOK /\ HeldInv /\ MapInv /\ CountersMatch /\ RoomInv /\ TasksOnce
  BY DEF PoolInv, TypeOK
<1>1. /\ pc[Owner] = "clear" /\ m_workers' \in {{}, m_workers}
      /\ UNCHANGED << mutex, counters, m_stop, queue, m_ids, locals, tojoin >>
  BY DEF DestroyClear
<1>2. PICK l \in {"destroyed", "terminated"} :
        Goto(Owner, l) /\ (l = "terminated" => m_workers' = m_workers)
  BY DEF DestroyClear
<1>3. /\ PlacesOK' /\ pc'[Owner] = l /\ pc'[Manager] = pc[Manager]
      /\ \A w \in Workers : pc'[w] = pc[w]
      /\ \A c \in Clients : pc'[c] = pc[c]
  <2>1. l \in OwnerPC
    BY DEF OwnerPC
  <2>2. QED
    BY <1>0, <1>2, <2>1, OwnerMoves
<1>4. TypeOK'
  BY <1>0, <1>1, <1>3 DEF TypeOK, counters, queue, locals
<1>5. HeldInv'
  BY <1>0, <1>1, <1>3 DEF HeldInv, queue
<1>6. MapInv'
  <2>1. m_ids \subseteq Workers
    BY <1>0 DEF TypeOK
  <2>2. pc'[Owner] # "destroyed" => m_workers' = m_workers
    BY <1>2, <1>3
  <2>3. QED
    BY <1>0, <1>1, <1>3, <2>1, <2>2 DEF MapInv
<1>7. CountersMatch' /\ RoomInv'
  <2>1. Live' = Live /\ Idle' = Idle
    BY <1>1, <1>3 DEF Live, Idle
  <2>2. QED
    BY <1>0, <1>1, <1>3, <2>1, CountsKept DEF counters
<1>8. TasksOnce'
  BY <1>0, <1>1, <1>3, TasksKept DEF queue
<1>9. QED
  BY <1>4, <1>5, <1>6, <1>7, <1>8 DEF PoolInv

------------------------------------------------------------------------------
(* The inductive invariant *)

(* The initial states satisfy it.                                          *)
LEMMA InitPool == Init => PoolInv
<1> SUFFICES ASSUME Init PROVE PoolInv
  OBVIOUS
<1>1. PICK W \in SUBSET Workers, x \in InitExit :
        /\ Cardinality(W) = Min
        /\ pc = [t \in Threads |-> IF t \in W \/ t = Manager THEN "top"
                                   ELSE IF t \in Workers THEN "none"
                                   ELSE IF t = Owner THEN "up" ELSE "idle"]
        /\ mutex = NoThread
        /\ m_idleThread = Min /\ m_curThread = Min /\ m_exitThread = x /\ m_stop = FALSE
        /\ m_tasks = << >> /\ m_ids = {} /\ m_workers = W
        /\ task = [w \in Workers |-> NoTask]
        /\ added = [c \in Clients |-> 0]
        /\ done = << >> /\ idel = 0 /\ cur = 0 /\ tojoin = {}
  BY DEF Init
<1>2. /\ pc[Manager] = "top" /\ pc[Owner] = "up"
      /\ \A w \in Workers : pc[w] = IF w \in W THEN "top" ELSE "none"
      /\ \A c \in Clients : pc[c] = "idle"
  BY <1>1, Roles
<1>3. /\ "top" \in ManagerPC /\ "up" \in OwnerPC /\ "idle" \in ClientPC
      /\ "top" \in WorkerPC /\ "none" \in WorkerPC
  BY DEF ManagerPC, OwnerPC, ClientPC, WorkerPC
<1>4. PlacesOK
  <2>1. pc = [t \in Threads |-> pc[t]]
    BY <1>1
  <2>2. \A t \in Threads : pc[t] \in ClientPC \cup WorkerPC \cup ManagerPC \cup OwnerPC
    BY <1>2, <1>3 DEF Threads
  <2>3. QED
    BY <1>2, <1>3, <2>1, <2>2 DEF PlacesOK
<1>5. Min \in Int /\ x \in Int /\ MaxTasks \in Nat
  BY PoolAssumption DEF PoolAssumption
<1>6. TypeOK
  <2>1. m_stop \in BOOLEAN
    BY <1>1
  <2>2. added \in [Clients -> 0 .. MaxTasks] /\ task \in [Workers -> Task \cup {NoTask}]
    BY <1>1, <1>5
  <2>3. m_tasks \in Seq(Task) /\ done \in Seq(Task)
    BY <1>1
  <2>4. QED
    BY <1>1, <1>4, <1>5, <2>1, <2>2, <2>3 DEF TypeOK
<1>7. HeldInv
  BY <1>1, <1>2 DEF HeldInv
<1>8. MapInv
  <2>1. NoThread \notin Workers
    BY Roles DEF Threads
  <2>2. \A w \in Workers : pc[w] # "none" => w \in m_workers
    BY <1>1, <1>2
  <2>3. QED
    BY <1>1, <1>2, <2>1, <2>2 DEF MapInv
<1>9. CountersMatch /\ RoomInv
  <2>1. Live = W /\ Idle = W
    BY <1>1, <1>2 DEF Live, Idle
  <2>2. /\ Pending({"insert", "count_cur"}) = 0
        /\ Pending({"insert", "count_cur", "count_idle"}) = 0
    BY <1>2 DEF Pending
  <2>3. QED
    BY <1>1, <1>2, <2>1, <2>2, Roles DEF CountersMatch, RoomInv, Cap
<1>10. TasksOnce
  <2> SUFFICES ASSUME NEW t \in Task
      PROVE  ToAdd(t) + Count(m_tasks, t) + Cardinality(Holders(t)) + Count(done, t)
               = IF t.seq <= added[t.from] THEN 1 ELSE 0
    BY DEF TasksOnce
  <2>1. t.from \in Clients /\ t.seq \in Nat /\ t.seq > 0 /\ NoTask # t
    BY Roles DEF Task, NoTask, Threads
  <2>2. {i \in 1 .. Len(<< >>) : << >>[i] = t} = {} /\ Holders(t) = {}
    BY <1>1, <2>1 DEF Holders
  <2>3. Count(m_tasks, t) = 0 /\ Count(done, t) = 0 /\ Cardinality(Holders(t)) = 0
    BY <1>1, <2>2, FS_EmptySet DEF Count
  <2>4. ToAdd(t) = 0 /\ added[t.from] = 0
    BY <1>1, <1>2, <2>1 DEF ToAdd
  <2>5. QED
    BY <2>1, <2>3, <2>4
<1>11. QED
  BY <1>6, <1>7, <1>8, <1>9, <1>10 DEF PoolInv

(* Every step keeps it.                                                    *)
LEMMA NextPool == PoolInv /\ [Next]_vars => PoolInv'
<1> SUFFICES ASSUME PoolInv, [Next]_vars PROVE PoolInv'
  OBVIOUS
<1>1. ASSUME NEW c \in Clients, AddCall(c) \/ ClientStep(c)
      PROVE  PoolInv'
  BY <1>1, AddCallInv, AddTaskInv, QuietClient, QuietInv DEF ClientStep
<1>2. ASSUME NEW w \in Workers, WorkerStep(w) \/ SpuriousWakeup(w)
      PROVE  PoolInv'
  <2>1. (WorkerLock(w) \/ WorkerStay(w)) => NoTake(w) \/ Take(w)
    BY DEF WorkerLock, WorkerStay, TakeOrBlock, NoTake, Take
  <2>2. QED
    BY <1>2, <2>1, TakeInv, TaskRunInv, WorkerCountsInv, QuietWorker, QuietInv DEF WorkerStep
<1>3. ASSUME ManagerStep
      PROVE  PoolInv'
  BY <1>3, ReapInv, SpawnInv, InsertInv, QuietManager, QuietInv DEF ManagerStep
<1>4. ASSUME DestroyStop \/ OwnerStep
      PROVE  PoolInv'
  BY <1>4, ClearInv, QuietOwner, QuietInv DEF OwnerStep
<1>5. CASE UNCHANGED vars
  <2>1. TypeOK /\ PlacesOK
    BY DEF PoolInv, TypeOK
  <2>2. Quiet
    BY <1>5, <2>1 DEF Quiet, TypeOK, PlacesOK, Between, vars, counters, queue, map, locals
  <2>3. QED
    BY <2>2, QuietInv
<1>6. QED
  BY <1>1, <1>2, <1>3, <1>4, <1>5 DEF Next

(* No thread is in the way of the destructor's walk, or becomes so, when a *)
(* step brings nobody back and takes nobody out of the walk unjoined.      *)
LEMMA WalkKept ==
  ASSUME WalkInv, UNCHANGED m_stop, pc'[Owner] = pc[Owner],
         \A w \in Workers : Gone(w) => Gone(w)',
         \A w \in tojoin \ tojoin' : Gone(w)',
         pc[Owner] # "join" => tojoin' \subseteq tojoin,
         pc[Owner] # "up" /\ pc[Manager] \in {"insert", "count_cur", "count_idle", "top", "ended"}
           => pc'[Manager] \in {"insert", "count_cur", "count_idle", "top", "ended"}
  PROVE  WalkInv'
<1>1. ASSUME pc'[Owner] \in {"join", "join_manager", "clear"}
      PROVE  \E late \in Workers \cup {NoThread} :
               /\ late \in Workers =>
                    pc'[Manager] \in {"insert", "count_cur", "count_idle", "top", "ended"}
               /\ \A w \in Workers : Gone(w)' \/ w \in tojoin' \/ w = late
  <2>1. PICK late \in Workers \cup {NoThread} :
          /\ late \in Workers =>
               pc[Manager] \in {"insert", "count_cur", "count_idle", "top", "ended"}
          /\ \A w \in Workers : Gone(w) \/ w \in tojoin \/ w = late
    BY <1>1 DEF WalkInv
  <2>2. \A w \in Workers : Gone(w)' \/ w \in tojoin' \/ w = late
    BY <2>1
  <2>3. late \in Workers =>
          pc'[Manager] \in {"insert", "count_cur", "count_idle", "top", "ended"}
    BY <1>1, <2>1
  <2>4. QED
    BY <2>2, <2>3
<1>2. QED
  BY <1>1 DEF WalkInv

(* The destructor misses at most one thread.                               *)
LEMMA InitWalk == Init => WalkInv
BY Roles DEF Init, WalkInv

LEMMA NextWalk == PoolInv /\ WalkInv /\ [Next]_vars => WalkInv'
<1> SUFFICES ASSUME PoolInv, WalkInv, [Next]_vars PROVE WalkInv'
  OBVIOUS
<1>0. TypeOK /\ PlacesOK /\ MapInv
  BY DEF PoolInv, TypeOK
<1>1. ASSUME NEW c \in Clients, AddCall(c) \/ ClientStep(c)
      PROVE  WalkInv'
  <2>1. UNCHANGED << m_stop, tojoin >>
    BY <1>1 DEF ClientStep, AddCall, AddTask, AddNotify, AddGet
  <2>2. PICK l \in ClientPC : Goto(c, l) \/ NotifyOne(c, l)
    BY <1>1 DEF ClientStep, AddCall, AddTask, AddNotify, AddGet, ClientPC
  <2>3. /\ pc'[Manager] = pc[Manager] /\ pc'[Owner] = pc[Owner]
        /\ \A w \in Workers : Wakes(w)
    <3>1. CASE Goto(c, l)
      BY <1>0, <3>1, ClientMoves DEF Wakes
    <3>2. CASE NotifyOne(c, l)
      BY <1>0, <3>2, OneWoken
    <3>3. QED
      BY <2>2, <3>1, <3>2
  <2>4. \A w \in Workers : Gone(w) => Gone(w)'
    BY <2>3 DEF Gone, Wakes
  <2>5. QED
    BY <2>1, <2>3, <2>4, WalkKept
<1>2. ASSUME NEW w \in Workers, WorkerStep(w) \/ SpuriousWakeup(w)
      PROVE  WalkInv'
  <2>1. UNCHANGED << m_stop, tojoin >>
    BY <1>2 DEF WorkerStep, WorkerTop, WorkerLock, WorkerBlock, WorkerStay, WorkerExit, ExitIdle,
                ExitCount, ExitId, ExitUnlockIds, ExitUnlock, ExitReturn, TaskBegin, TaskRun,
                TaskFinish, SpuriousWakeup
  <2>2. ~Gone(w) /\ \E l \in WorkerPC : Goto(w, l)
    BY <1>2 DEF WorkerStep, WorkerTop, WorkerLock, WorkerBlock, WorkerStay, TakeOrBlock,
                WorkerExit, ExitIdle, ExitCount, ExitId, ExitUnlockIds, ExitUnlock, ExitReturn,
                TaskBegin, TaskRun, TaskFinish, SpuriousWakeup, Gone, WorkerPC
  <2>3. /\ pc'[Manager] = pc[Manager] /\ pc'[Owner] = pc[Owner]
        /\ \A v \in Workers \ {w} : pc'[v] = pc[v]
    BY <1>0, <2>2, WorkerMoves
  <2>4. \A v \in Workers : Gone(v) => Gone(v)'
    BY <2>2, <2>3 DEF Gone
  <2>5. QED
    BY <2>1, <2>3, <2>4, WalkKept
<1>3. ASSUME \/ ManagerTop \/ ReadIdle \/ ReadCur \/ SetExit \/ ExitNotify \/ SpinEnd
             \/ LockIds \/ CountCur \/ CountIdle
      PROVE  WalkInv'
  <2>1. UNCHANGED << m_stop, tojoin >>
    BY <1>3 DEF ManagerTop, ReadIdle, ReadCur, SetExit, ExitNotify, SpinEnd, LockIds, CountCur,
                CountIdle
  <2>2. PICK l \in ManagerPC :
          /\ Goto(Manager, l) \/ NotifyAll(Manager, l)
          /\ pc[Manager] \in {"insert", "count_cur", "count_idle", "top", "ended"} =>
               l \in {"count_idle", "top"} \/ l = IF m_stop THEN "ended" ELSE "read_idle"
    BY <1>3 DEF ManagerTop, ReadIdle, ReadCur, SetExit, ExitNotify, SpinEnd, LockIds, CountCur,
                CountIdle, Decide, ManagerPC
  <2>3. /\ pc'[Manager] = l /\ pc'[Owner] = pc[Owner]
        /\ \A w \in Workers : Wakes(w)
    <3>1. CASE Goto(Manager, l)
      BY <1>0, <3>1, ManagerMoves DEF Wakes
    <3>2. CASE NotifyAll(Manager, l)
      BY <1>0, <3>2, ManagerWakesAll
    <3>3. QED
      BY <2>2, <3>1, <3>2
  <2>4. \A w \in Workers : Gone(w) => Gone(w)'
    BY <2>3 DEF Gone, Wakes
  <2>5. pc[Owner] # "up" => m_stop
    BY DEF WalkInv
  <2>6. QED
    BY <2>1, <2>2, <2>3, <2>4, <2>5, WalkKept
<1>4. CASE Reap
  <2>1. /\ pc[Manager] = "reap" /\ pc'[Owner] = pc[Owner]
        /\ UNCHANGED m_stop /\ tojoin' = tojoin \ m_ids
        /\ \A w \in Workers : pc'[w] \in {pc[w], "none"}
        /\ \A w \in m_ids : w \in m_workers => pc'[w] = "none"
    BY <1>0, <1>4, Roles DEF Reap, TypeOK
  <2>2. /\ pc[Owner] \notin {"clear", "destroyed", "terminated"}
        /\ m_ids \subseteq Workers /\ \A w \in m_ids : pc[w] # "none"
    BY <1>0, <2>1 DEF MapInv, TypeOK, Released
  <2>3. m_ids \subseteq m_workers
    BY <1>0, <2>1, <2>2, Roles DEF MapInv, Threads
  <2>4. \A w \in Workers : Gone(w) => Gone(w)'
    BY <2>1 DEF Gone
  <2>5. \A w \in tojoin \ tojoin' : Gone(w)'
    BY <2>1, <2>3 DEF Gone
  <2>6. QED
    BY <2>1, <2>4, <2>5, WalkKept
<1>5. CASE Insert
  <2>1. /\ Goto(Manager, "count_cur") /\ UNCHANGED m_stop
        /\ tojoin \subseteq tojoin' /\ (pc[Owner] # "join" => tojoin' = tojoin)
    BY <1>5 DEF Insert
  <2>2. /\ pc'[Manager] = "count_cur" /\ pc'[Owner] = pc[Owner]
        /\ \A w \in Workers : pc'[w] = pc[w]
    BY <1>0, <2>1, ManagerMoves DEF ManagerPC
  <2>3. \A w \in Workers : Gone(w) => Gone(w)'
    BY <2>2 DEF Gone
  <2>4. QED
    BY <2>1, <2>2, <2>3, WalkKept
<1>6. CASE Spawn
  <2>1. /\ pc[Manager] = "spawn" /\ UNCHANGED << m_stop, tojoin >>
        /\ pc[Owner] \notin {"clear", "destroyed", "terminated"}
    BY <1>0, <1>6 DEF Spawn, MapInv
  <2>2. PICK w \in Workers : pc' = [pc EXCEPT ![Manager] = "insert", ![w] = "top"]
    BY <1>6 DEF Spawn
  <2>3. /\ pc'[Manager] = "insert" /\ pc'[Owner] = pc[Owner]
        /\ \A v \in Workers \ {w} : pc'[v] = pc[v]
    BY <1>0, <2>2, Roles DEF PlacesOK
  <2>4. ASSUME pc[Owner] \in {"join", "join_manager"}
        PROVE  \A v \in Workers : Gone(v)' \/ v \in tojoin' \/ v = w
    <3>1. \A v \in Workers : Gone(v) \/ v \in tojoin
      BY <2>1, <2>4, Roles DEF WalkInv, Threads
    <3>2. QED
      BY <2>1, <2>3, <3>1 DEF Gone
  <2>5. ASSUME pc'[Owner] \in {"join", "join_manager", "clear"}
        PROVE  \E late \in Workers \cup {NoThread} :
                 /\ late \in Workers =>
                      pc'[Manager] \in {"insert", "count_cur", "count_idle", "top", "ended"}
                 /\ \A v \in Workers : Gone(v)' \/ v \in tojoin' \/ v = late
    BY <2>1, <2>3, <2>4, <2>5
  <2>6. QED
    BY <2>1, <2>3, <2>5 DEF WalkInv
<1>7. ASSUME DestroyStop \/ OwnerStep
      PROVE  WalkInv'
  <2>1. CASE DestroyJoin
    <3>1. PICK w \in tojoin : /\ Goto(w, "joined") /\ tojoin' = tojoin \ {w} /\ UNCHANGED m_stop
      BY <2>1 DEF DestroyJoin
    <3>2. w \in Workers /\ "joined" \in WorkerPC
      BY <1>0, <3>1 DEF TypeOK, WorkerPC
    <3>3. /\ pc'[w] = "joined" /\ pc'[Manager] = pc[Manager] /\ pc'[Owner] = pc[Owner]
          /\ \A v \in Workers \ {w} : pc'[v] = pc[v]
      BY <1>0, <3>1, <3>2, WorkerMoves
    <3>4. /\ \A v \in Workers : Gone(v) => Gone(v)'
          /\ \A v \in tojoin \ tojoin' : Gone(v)'
      BY <3>1, <3>3 DEF Gone
    <3>5. QED
      BY <3>1, <3>3, <3>4, WalkKept
  <2>2. CASE ~DestroyJoin
    <3>1. PICK l \in OwnerPC :
            /\ Goto(Owner, l) \/ NotifyAll(Owner, l)
            /\ << pc[Owner], l >> \in
                 {<< "up", "notify_all" >>, << "notify_all", "join" >>, << "join", "join_manager" >>,
                  << "join_manager", "clear" >>, << "clear", "destroyed" >>,
                  << "clear", "terminated" >>}
            /\ m_stop' = IF l = "notify_all" THEN TRUE ELSE m_stop
            /\ tojoin' = IF l = "join" THEN m_workers ELSE tojoin
            /\ l = "join_manager" => tojoin = {}
            /\ l = "destroyed" => \A w \in m_workers : pc[w] = "joined"
      BY <1>7, <2>2 DEF OwnerStep, DestroyStop, DestroyNotify, DestroyJoined,
                        DestroyJoinManager, DestroyClear, OwnerPC
    <3>2. /\ pc'[Owner] = l /\ pc'[Manager] = pc[Manager]
          /\ \A w \in Workers : Wakes(w)
      <4>1. CASE Goto(Owner, l)
        BY <1>0, <4>1, OwnerMoves DEF Wakes
      <4>2. CASE NotifyAll(Owner, l)
        BY <1>0, <4>2, OwnerWakesAll
      <4>3. QED
        BY <3>1, <4>1, <4>2
    <3>3. \A w \in Workers : (Gone(w) => Gone(w)') /\ (pc[w] = "none" => Gone(w)')
      BY <3>2 DEF Gone, Wakes
    <3>4. PICK new \in Workers \cup {NoThread} :
            /\ new \in Workers => pc[Manager] = "insert"
            /\ \A w \in Workers : pc[w] # "none" => w = new \/ w \in m_workers
      BY <1>0, <3>1 DEF MapInv
    <3>5. CASE l \in {"notify_all", "terminated"}
      BY <3>1, <3>2, <3>5 DEF WalkInv
    <3>6. CASE l = "join"
      <4>1. \A w \in Workers : Gone(w)' \/ w \in tojoin' \/ w = new
        BY <3>1, <3>3, <3>4, <3>6
      <4>2. new \in Workers =>
              pc'[Manager] \in {"insert", "count_cur", "count_idle", "top", "ended"}
        BY <3>2, <3>4
      <4>3. m_stop'
        BY <3>1, <3>6 DEF WalkInv
      <4>4. QED
        BY <3>2, <3>6, <4>1, <4>2, <4>3 DEF WalkInv
    <3>7. CASE l \in {"join_manager", "clear"}
      <4>1. PICK late \in Workers \cup {NoThread} :
              /\ late \in Workers =>
                   pc[Manager] \in {"insert", "count_cur", "count_idle", "top", "ended"}
              /\ \A w \in Workers : Gone(w) \/ w \in tojoin \/ w = late
        BY <3>1, <3>7 DEF WalkInv
      <4>2. \A w \in Workers : Gone(w)' \/ w \in tojoin' \/ w = late
        BY <3>1, <3>3, <3>7, <4>1
      <4>3. tojoin' = {} /\ m_stop'
        BY <3>1, <3>7 DEF WalkInv
      <4>4. QED
        BY <3>2, <3>7, <4>1, <4>2, <4>3 DEF WalkInv
    <3>8. CASE l = "destroyed"
      <4>1. pc[Manager] = "ended"
        BY <1>0, <3>1, <3>8 DEF MapInv
      <4>2. \A w \in Workers : pc[w] = "none" \/ w \in m_workers
        BY <3>4, <4>1, Roles DEF Threads
      <4>3. \A w \in Workers : Gone(w)
        BY <3>1, <3>8, <4>2 DEF Gone
      <4>4. \A w \in Workers : Gone(w)'
        BY <3>3, <4>3
      <4>5. m_stop'
        BY <3>1, <3>8 DEF WalkInv
      <4>6. QED
        BY <3>2, <3>8, <4>4, <4>5 DEF WalkInv
    <3>9. QED
      BY <3>1, <3>5, <3>6, <3>7, <3>8
  <2>3. QED
    BY <2>1, <2>2
<1>8. CASE UNCHANGED vars
  BY <1>8, WalkKept DEF vars, Gone
<1>9. QED
  BY <1>1, <1>2, <1>3, <1>4, <1>5, <1>6, <1>7, <1>8 DEF Next, ManagerStep

------------------------------------------------------------------------------
(* Theorems *)

(* The pool keeps its invariant.                                           *)
THEOREM PoolInvariance == Spec => []PoolInv
BY InitPool, NextPool, PTL DEF Spec

(* Every variable keeps its type.                                          *)
THEOREM PoolTypeCorrect == Spec => []TypeOK
<1>1. PoolInv => TypeOK
  BY DEF PoolInv
<1>2. QED
  BY <1>1, PoolInvariance, PTL

(* Every task that was added is in one place, once: none is lost or run    *)
(* twice while the pool shrinks, grows and is destroyed.                   *)
THEOREM RunsOnce == Spec => []TasksOnce
<1>1. PoolInv => TasksOnce
  BY DEF PoolInv
<1>2. QED
  BY <1>1, PoolInvariance, PTL

(* The counters are right but for updates to come, and there are never     *)
(* more threads than m_maxThread (or m_minThread, if that is larger).      *)
THEOREM CountsThreads == Spec => []CountersMatch
<1>1. PoolInv => CountersMatch
  BY DEF PoolInv
<1>2. QED
  BY <1>1, PoolInvariance, PTL

(* The manager joins threads that are in the map, and none that it waits   *)
(* for with m_idsMutex held wants that mutex.                              *)
THEOREM ReapWaitsForNoLock == Spec => []ReapFindsAll
<1>1. PoolInv => ReapFindsAll
  <2> SUFFICES ASSUME PoolInv, pc[Manager] = "reap", NEW w \in m_ids
               PROVE  w \in m_workers /\ pc[w] \in Released
    BY DEF ReapFindsAll
  <2>1. MapInv /\ w \in Workers
    BY DEF PoolInv, TypeOK
  <2>2. pc[w] \in Released
    BY <2>1 DEF MapInv
  <2>3. pc[Owner] # "destroyed" /\ pc[w] # "none"
    BY <2>1, <2>2 DEF MapInv, Released
  <2>4. w \in m_workers
    BY <2>1, <2>3, Roles DEF MapInv, Threads
  <2>5. QED
    BY <2>2, <2>4
<1>2. QED
  BY <1>1, PoolInvariance, PTL

(* The destructor joins every thread but for at most one, which the manager*)
(* inserts while it runs, and does not return without having joined all.   *)
THEOREM MissesAtMostOne == Spec => []JoinsAllButOne
<1>1. WalkInv => JoinsAllButOne
  BY DEF WalkInv, JoinsAllButOne
<1>2. QED
  BY <1>1, InitWalk, NextWalk, PoolInvariance, PTL DEF Spec

==============================================================================
