------------------------------ MODULE ThreadPool ------------------------------
(***************************************************************************)
(* The thread pool that sends ERROR and FATAL messages to the backup       *)
(* server (log_src/ThreadPool.hpp, ThreadPool.cpp): clients add a task and *)
(* wait for its future (AsyncLogger::serialize), workers run the tasks,    *)
(* a manager thread shrinks and grows the pool, and the owner destroys it. *)
(*                                                                         *)
(* A step is one access to an atomic counter, one notification, one join   *)
(* or one critical section.  A critical section of m_queueMutex is split   *)
(* where it changes counters that the manager reads without the mutex.     *)
(* A thread at "waiting" has released m_queueMutex and sleeps; one at      *)
(* "relock" has been woken and wants the mutex back.                       *)
(*                                                                         *)
(* The constructor is Init: the manager sleeps for a second before it      *)
(* first looks at anything, and the workers are taken to be started by     *)
(* then.  The pool is destroyed when no client uses it any more: main and  *)
(* TestLogger delete it after they have joined the threads that log.       *)
(***************************************************************************)
EXTENDS Integers, Sequences, FiniteSets

CONSTANTS
  Workers,     (* thread ids for workers; an id is reused after its join *)
  Clients,     (* the threads that call serialize                        *)
  Manager,     (* the thread that runs manager                           *)
  Owner,       (* the thread that deletes the pool                       *)
  NoThread,    (* "m_queueMutex is free"                                 *)
  Min, Max,    (* m_minThread, m_maxThread                               *)
  InitExit,    (* what m_exitThread may hold when the pool is constructed*)
  MaxTasks     (* bound: tasks added by one client                       *)

(* max is hardware_concurrency, which may be smaller than thread_count.    *)
(* m_exitThread is not initialised by the constructor.                     *)
Cap == IF Max > Min THEN Max ELSE Min

ASSUME PoolAssumption ==
  /\ Min \in Nat /\ Max \in Nat /\ MaxTasks \in Nat
  /\ IsFiniteSet(Workers) /\ Cardinality(Workers) >= Cap
  /\ Workers \cap Clients = {}
  /\ Manager # Owner
  /\ {Manager, Owner} \cap (Workers \cup Clients) = {}
  /\ NoThread \notin Workers \cup Clients \cup {Manager, Owner}
  /\ InitExit \subseteq Int

VARIABLES
  pc,              (* where each thread is                                *)
  mutex,           (* the worker that holds m_queueMutex between steps    *)
  m_idleThread, m_curThread, m_exitThread,
  m_stop,
  m_tasks,
  m_ids,           (* threads that have exited and wait for their join    *)
  m_workers,       (* the keys of the map of worker threads               *)
  task,            (* the task each worker has taken, or NoTask           *)
  added,           (* how many tasks each client has added                *)
  done,            (* history: the tasks run so far, in completion order  *)
  idel, cur,       (* the manager's local copies of the counters          *)
  tojoin           (* the workers the destructor's loop has yet to reach  *)

counters == << m_idleThread, m_curThread, m_exitThread >>
queue    == << m_tasks, task, added, done >>
map      == << m_ids, m_workers >>
locals   == << idel, cur >>
vars == << pc, mutex, counters, m_stop, queue, map, locals, tojoin >>

Threads == Workers \cup Clients \cup {Manager, Owner}

Task   == [from : Clients, seq : 1 .. MaxTasks]
NoTask == [from |-> NoThread, seq |-> 0]

ClientPC  == {"idle", "add", "notify", "get"}
WorkerPC  == {"none", "top", "lock", "block", "waiting", "relock", "exit_idle",
              "exit_count", "exit_id", "exit_unlock_ids", "exit_unlock",
              "exit_return", "begin", "run", "finish", "ended", "joined"}
ManagerPC == {"top", "read_idle", "read_cur", "set_exit", "notify_all", "spin",
              "lock_ids", "reap", "spawn", "insert", "count_cur",
              "count_idle", "ended"}
OwnerPC   == {"up", "notify_all", "join", "join_manager", "clear", "destroyed",
              "terminated"}

Init ==
  \E W \in SUBSET Workers, x \in InitExit :
    /\ Cardinality(W) = Min
    /\ pc = [t \in Threads |-> IF t \in W \/ t = Manager THEN "top"
                               ELSE IF t \in Workers THEN "none"
                               ELSE IF t = Owner THEN "up" ELSE "idle"]
    /\ mutex = NoThread
    /\ m_idleThread = Min
    /\ m_curThread = Min
    /\ m_exitThread = x
    /\ m_stop = FALSE
    /\ m_tasks = << >>
    /\ m_ids = {}
    /\ m_workers = W
    /\ task = [w \in Workers |-> NoTask]
    /\ added = [c \in Clients |-> 0]
    /\ done = << >>
    /\ idel = 0 /\ cur = 0
    /\ tojoin = {}

Goto(t, l) == pc' = [pc EXCEPT ![t] = l]

Asleep == {w \in Workers : pc[w] = "waiting"}

(* notify_one wakes one sleeping worker, if there is one.                  *)
NotifyOne(t, l) ==
  IF Asleep = {}
    THEN Goto(t, l)
    ELSE \E w \in Asleep : pc' = [pc EXCEPT ![t] = l, ![w] = "relock"]

NotifyAll(t, l) ==
  pc' = [u \in Threads |-> IF u = t THEN l
                           ELSE IF u \in Asleep THEN "relock" ELSE pc[u]]

Finished(t) == \E i \in 1 .. Len(done) : done[i] = t

------------------------------------------------------------------------------
(* The clients: addTask(send_backlog, data), then ret.get() *)

AddCall(c) ==
  /\ pc[c] = "idle"
  /\ pc[Owner] = "up"
  /\ added[c] < MaxTasks
  /\ added' = [added EXCEPT ![c] = @ + 1]
  /\ Goto(c, "add")
  /\ UNCHANGED << mutex, counters, m_stop, m_tasks, task, done, map, locals,
                  tojoin >>

AddTask(c) ==
  /\ pc[c] = "add"
  /\ mutex = NoThread
  /\ m_tasks' = Append(m_tasks, [from |-> c, seq |-> added[c]])
  /\ Goto(c, "notify")
  /\ UNCHANGED << mutex, counters, m_stop, task, added, done, map, locals,
                  tojoin >>

(* Faulty: nobody is told of the new task.                                 *)
AddNotifyNobody(c) ==
  /\ pc[c] = "notify"
  /\ Goto(c, "get")
  /\ UNCHANGED << mutex, counters, m_stop, queue, map, locals, tojoin >>

AddNotify(c) ==
  /\ pc[c] = "notify"
  /\ NotifyOne(c, "get")
  /\ UNCHANGED << mutex, counters, m_stop, queue, map, locals, tojoin >>

AddGet(c) ==
  /\ pc[c] = "get"
  /\ Finished([from |-> c, seq |-> added[c]])
  /\ Goto(c, "idle")
  /\ UNCHANGED << mutex, counters, m_stop, queue, map, locals, tojoin >>

------------------------------------------------------------------------------
(* The workers *)

WorkerTop(w) ==
  /\ pc[w] = "top"
  /\ Goto(w, IF m_stop THEN "ended" ELSE "lock")
  /\ UNCHANGED << mutex, counters, m_stop, queue, map, locals, tojoin >>

(* Faulty: the task that is taken is not popped.                           *)
TakeNoPop(w) ==
  /\ m_tasks # << >>
  /\ task' = [task EXCEPT ![w] = Head(m_tasks)]
  /\ Goto(w, "begin")
  /\ UNCHANGED << mutex, m_tasks >>

(* With m_queueMutex held: take the first task if there is one; else leave *)
(* the critical section if the pool stops, and go to sleep if not.         *)
TakeOrBlock(w) ==
  \/ /\ m_tasks # << >>
     /\ task' = [task EXCEPT ![w] = Head(m_tasks)]
     /\ m_tasks' = Tail(m_tasks)
     /\ Goto(w, "begin")
     /\ UNCHANGED mutex
  \/ /\ m_tasks = << >>
     /\ m_stop
     /\ Goto(w, "top")
     /\ UNCHANGED << mutex, task, m_tasks >>
  \/ /\ m_tasks = << >>
     /\ ~m_stop
     /\ Goto(w, "block")
     /\ mutex' = w
     /\ UNCHANGED << task, m_tasks >>

WorkerLock(w) ==
  /\ pc[w] = "lock"
  /\ mutex = NoThread
  /\ TakeOrBlock(w)
  /\ UNCHANGED << counters, m_stop, added, done, map, locals, tojoin >>

WorkerBlock(w) ==
  /\ pc[w] = "block"
  /\ mutex' = NoThread
  /\ Goto(w, "waiting")
  /\ UNCHANGED << counters, m_stop, queue, map, locals, tojoin >>

(* A woken worker with nothing to exit for looks at the queue again.       *)
WorkerStay(w) ==
  /\ pc[w] = "relock"
  /\ mutex = NoThread
  /\ m_exitThread <= 0
  /\ TakeOrBlock(w)
  /\ UNCHANGED << counters, m_stop, added, done, map, locals, tojoin >>

(* Faulty: the counter of live threads is left alone on exit.              *)
WorkerExitUncounted(w) ==
  /\ pc[w] = "relock"
  /\ mutex = NoThread
  /\ m_exitThread > 0
  /\ mutex' = w
  /\ Goto(w, "exit_idle")
  /\ UNCHANGED << counters, m_stop, queue, map, locals, tojoin >>

(* A woken worker exits if it finds m_exitThread positive, whether or not  *)
(* there is a task in the queue; it holds the mutex until it returns.      *)
WorkerExit(w) ==
  /\ pc[w] = "relock"
  /\ mutex = NoThread
  /\ m_exitThread > 0
  /\ mutex' = w
  /\ m_curThread' = m_curThread - 1
  /\ Goto(w, "exit_idle")
  /\ UNCHANGED << m_idleThread, m_exitThread, m_stop, queue, map, locals, tojoin >>

ExitIdle(w) ==
  /\ pc[w] = "exit_idle"
  /\ m_idleThread' = m_idleThread - 1
  /\ Goto(w, "exit_count")
  /\ UNCHANGED << mutex, m_curThread, m_exitThread, m_stop, queue, map, locals,
                  tojoin >>

(* Faulty: the thread lists itself before it is done, without m_idsMutex.  *)
ExitCountLists(w) ==
  /\ pc[w] = "exit_count"
  /\ m_exitThread' = m_exitThread - 1
  /\ m_ids' = m_ids \cup {w}
  /\ Goto(w, "exit_id")
  /\ UNCHANGED << mutex, m_idleThread, m_curThread, m_stop, queue, m_workers,
                  locals, tojoin >>

ExitCount(w) ==
  /\ pc[w] = "exit_count"
  /\ m_exitThread' = m_exitThread - 1
  /\ Goto(w, "exit_id")
  /\ UNCHANGED << mutex, m_idleThread, m_curThread, m_stop, queue, map, locals,
                  tojoin >>

(* m_idsMutex is held by a worker at "exit_unlock_ids" and by the manager  *)
(* at "reap".                                                              *)
IdsMutexFree ==
  pc[Manager] # "reap" /\ \A v \in Workers : pc[v] # "exit_unlock_ids"

(* Lock m_idsMutex and list the thread, which from here on the manager may *)
(* find in m_ids while the thread still holds both mutexes.                *)
ExitId(w) ==
  /\ pc[w] = "exit_id"
  /\ IdsMutexFree
  /\ m_ids' = m_ids \cup {w}
  /\ Goto(w, "exit_unlock_ids")
  /\ UNCHANGED << mutex, counters, m_stop, queue, m_workers, locals, tojoin >>

(* The guards are destroyed in reverse order: m_idsMutex is released, then *)
(* m_queueMutex, and the thread returns.                                   *)
ExitUnlockIds(w) ==
  /\ pc[w] = "exit_unlock_ids"
  /\ Goto(w, "exit_unlock")
  /\ UNCHANGED << mutex, counters, m_stop, queue, map, locals, tojoin >>

ExitUnlock(w) ==
  /\ pc[w] = "exit_unlock"
  /\ mutex' = NoThread
  /\ Goto(w, "exit_return")
  /\ UNCHANGED << counters, m_stop, queue, map, locals, tojoin >>

ExitReturn(w) ==
  /\ pc[w] = "exit_return"
  /\ Goto(w, "ended")
  /\ UNCHANGED << mutex, counters, m_stop, queue, map, locals, tojoin >>

TaskBegin(w) ==
  /\ pc[w] = "begin"
  /\ m_idleThread' = m_idleThread - 1
  /\ Goto(w, "run")
  /\ UNCHANGED << mutex, m_curThread, m_exitThread, m_stop, queue, map, locals,
                  tojoin >>

TaskRun(w) ==
  /\ pc[w] = "run"
  /\ done' = Append(done, task[w])
  /\ task' = [task EXCEPT ![w] = NoTask]
  /\ Goto(w, "finish")
  /\ UNCHANGED << mutex, counters, m_stop, m_tasks, added, map, locals, tojoin >>

TaskFinish(w) ==
  /\ pc[w] = "finish"
  /\ m_idleThread' = m_idleThread + 1
  /\ Goto(w, "top")
  /\ UNCHANGED << mutex, m_curThread, m_exitThread, m_stop, queue, map, locals,
                  tojoin >>

SpuriousWakeup(w) ==
  /\ pc[w] = "waiting"
  /\ Goto(w, "relock")
  /\ UNCHANGED << mutex, counters, m_stop, queue, map, locals, tojoin >>

------------------------------------------------------------------------------
(* The manager *)

(* Test m_stop, then sleep for a second.                                   *)
ManagerTop ==
  /\ pc[Manager] = "top"
  /\ Goto(Manager, IF m_stop THEN "ended" ELSE "read_idle")
  /\ UNCHANGED << mutex, counters, m_stop, queue, map, locals, tojoin >>

ReadIdle ==
  /\ pc[Manager] = "read_idle"
  /\ idel' = m_idleThread
  /\ Goto(Manager, "read_cur")
  /\ UNCHANGED << mutex, counters, m_stop, queue, map, cur, tojoin >>

(* Too many idle threads, too few, or neither.                             *)
Decide(i, k) ==
  IF i > k \div 2 /\ k > Min THEN "set_exit"
  ELSE IF i = 0 /\ k < Max /\ ~m_stop THEN "spawn" ELSE "top"

ReadCur ==
  /\ pc[Manager] = "read_cur"
  /\ cur' = m_curThread
  /\ Goto(Manager, Decide(idel, m_curThread))
  /\ UNCHANGED << mutex, counters, m_stop, queue, map, idel, tojoin >>

SetExit ==
  /\ pc[Manager] = "set_exit"
  /\ m_exitThread' = 2
  /\ Goto(Manager, "notify_all")
  /\ UNCHANGED << mutex, m_idleThread, m_curThread, m_stop, queue, map, locals,
                  tojoin >>

ExitNotify ==
  /\ pc[Manager] = "notify_all"
  /\ NotifyAll(Manager, "spin")
  /\ UNCHANGED << mutex, counters, m_stop, queue, map, locals, tojoin >>

(* The loop reads m_ids without m_idsMutex.                                *)
SpinEnd ==
  /\ pc[Manager] = "spin"
  /\ m_ids # {} \/ m_exitThread <= 0
  /\ Goto(Manager, "lock_ids")
  /\ UNCHANGED << mutex, counters, m_stop, queue, map, locals, tojoin >>

LockIds ==
  /\ pc[Manager] = "lock_ids"
  /\ IdsMutexFree
  /\ Goto(Manager, "reap")
  /\ UNCHANGED << mutex, counters, m_stop, queue, map, locals, tojoin >>

(* Faulty: the list is not cleared.                                        *)
ReapKeepsIds ==
  /\ pc[Manager] = "reap"
  /\ \A w \in m_ids : pc[w] \in {"ended", "joined"}
  /\ m_workers' = m_workers \ m_ids
  /\ tojoin' = tojoin \ m_ids
  /\ pc' = [t \in Threads |-> IF t = Manager THEN "top"
                              ELSE IF t \in m_ids \cap m_workers THEN "none"
                              ELSE pc[t]]
  /\ UNCHANGED << mutex, counters, m_stop, queue, m_ids, locals >>

(* With m_idsMutex held, join every thread listed in m_ids that the        *)
(* destructor has not joined, which waits for it to end, and erase it.     *)
Reap ==
  /\ pc[Manager] = "reap"
  /\ \A w \in m_ids : pc[w] \in {"ended", "joined"}
  /\ m_workers' = m_workers \ m_ids
  /\ tojoin' = tojoin \ m_ids
  /\ m_ids' = {}
  /\ pc' = [t \in Threads |-> IF t = Manager THEN "top"
                              ELSE IF t \in m_ids \cap m_workers THEN "none"
                              ELSE pc[t]]
  /\ UNCHANGED << mutex, counters, m_stop, queue, locals >>

(* The new thread may run before it is in the map and in the counters.     *)
Spawn ==
  /\ pc[Manager] = "spawn"
  /\ \E w \in Workers :
       /\ pc[w] = "none" /\ w \notin m_workers
       /\ pc' = [pc EXCEPT ![Manager] = "insert", ![w] = "top"]
  /\ UNCHANGED << mutex, counters, m_stop, queue, map, locals, tojoin >>

(* The destructor's loop over the map may or may not come across a thread  *)
(* that is inserted while it runs.                                         *)
Insert ==
  /\ pc[Manager] = "insert"
  /\ \E w \in Workers \ m_workers :
       /\ pc[w] # "none"
       /\ m_workers' = m_workers \cup {w}
       /\ tojoin' \in IF pc[Owner] = "join"
                        THEN {tojoin, tojoin \cup {w}} ELSE {tojoin}
  /\ Goto(Manager, "count_cur")
  /\ UNCHANGED << mutex, counters, m_stop, queue, m_ids, locals >>

CountCur ==
  /\ pc[Manager] = "count_cur"
  /\ m_curThread' = m_curThread + 1
  /\ Goto(Manager, "count_idle")
  /\ UNCHANGED << mutex, m_idleThread, m_exitThread, m_stop, queue, map, locals,
                  tojoin >>

CountIdle ==
  /\ pc[Manager] = "count_idle"
  /\ m_idleThread' = m_idleThread + 1
  /\ Goto(Manager, "top")
  /\ UNCHANGED << mutex, m_curThread, m_exitThread, m_stop, queue, map, locals,
                  tojoin >>

------------------------------------------------------------------------------
(* The destructor *)

DestroyStop ==
  /\ pc[Owner] = "up"
  /\ \A c \in Clients : pc[c] = "idle"
  /\ m_stop' = TRUE
  /\ Goto(Owner, "notify_all")
  /\ UNCHANGED << mutex, counters, queue, map, locals, tojoin >>

(* Faulty: only one of the sleeping workers is woken.                      *)
DestroyNotifyOne ==
  /\ pc[Owner] = "notify_all"
  /\ NotifyOne(Owner, "join")
  /\ tojoin' = m_workers
  /\ UNCHANGED << mutex, counters, m_stop, queue, map, locals >>

DestroyNotify ==
  /\ pc[Owner] = "notify_all"
  /\ NotifyAll(Owner, "join")
  /\ tojoin' = m_workers
  /\ UNCHANGED << mutex, counters, m_stop, queue, map, locals >>

(* Faulty: the loop ends after one join.                                   *)
DestroyJoinFirst ==
  /\ pc[Owner] = "join"
  /\ \E w \in tojoin : pc[w] = "ended" /\ Goto(w, "joined")
  /\ tojoin' = {}
  /\ UNCHANGED << mutex, counters, m_stop, queue, map, locals >>

(* A thread that is joined is no longer joinable.                          *)
DestroyJoin ==
  /\ pc[Owner] = "join"
  /\ \E w \in tojoin :
       /\ pc[w] = "ended"
       /\ Goto(w, "joined")
       /\ tojoin' = tojoin \ {w}
  /\ UNCHANGED << mutex, counters, m_stop, queue, map, locals >>

DestroyJoined ==
  /\ pc[Owner] = "join"
  /\ tojoin = {}
  /\ Goto(Owner, "join_manager")
  /\ UNCHANGED << mutex, counters, m_stop, queue, map, locals, tojoin >>

DestroyJoinManager ==
  /\ pc[Owner] = "join_manager"
  /\ pc[Manager] = "ended"
  /\ Goto(Owner, "clear")
  /\ UNCHANGED << mutex, counters, m_stop, queue, map, locals, tojoin >>

(* Clearing the map destroys the thread objects in it: if one of them is   *)
(* still joinable, std::terminate ends the process.  (What other threads   *)
(* may still do in the model after that is of no interest.)                *)
DestroyClear ==
  /\ pc[Owner] = "clear"
  /\ \/ /\ \A w \in m_workers : pc[w] = "joined"
        /\ m_workers' = {}
        /\ Goto(Owner, "destroyed")
     \/ /\ \E w \in m_workers : pc[w] # "joined"
        /\ Goto(Owner, "terminated")
        /\ UNCHANGED m_workers
  /\ UNCHANGED << mutex, counters, m_stop, queue, m_ids, locals, tojoin >>

------------------------------------------------------------------------------

ClientStep(c) == AddTask(c) \/ AddNotify(c) \/ AddGet(c)

WorkerStep(w) ==
  \/ WorkerTop(w) \/ WorkerLock(w) \/ WorkerBlock(w) \/ WorkerStay(w)
  \/ WorkerExit(w) \/ ExitIdle(w) \/ ExitCount(w) \/ ExitId(w)
  \/ ExitUnlockIds(w) \/ ExitUnlock(w) \/ ExitReturn(w)
  \/ TaskBegin(w) \/ TaskRun(w) \/ TaskFinish(w)

ManagerStep ==
  \/ ManagerTop \/ ReadIdle \/ ReadCur
  \/ SetExit \/ ExitNotify \/ SpinEnd \/ LockIds \/ Reap
  \/ Spawn \/ Insert \/ CountCur \/ CountIdle

OwnerStep ==
  \/ DestroyNotify \/ DestroyJoin \/ DestroyJoined
  \/ DestroyJoinManager \/ DestroyClear

Next ==
  \/ \E c \in Clients : AddCall(c) \/ ClientStep(c)
  \/ \E w \in Workers : WorkerStep(w) \/ SpuriousWakeup(w)
  \/ ManagerStep
  \/ DestroyStop \/ OwnerStep

Spec == Init /\ [][Next]_vars

(* Threads that can run are scheduled, tasks end, and spurious wake-ups do *)
(* not go on for ever.  Nothing makes a client add a task or the owner     *)
(* destroy the pool.                                                       *)
Fairness ==
  /\ \A c \in Clients : WF_vars(ClientStep(c))
  /\ \A w \in Workers : WF_vars(WorkerStep(w))
  /\ WF_vars(ManagerStep)
  /\ WF_vars(OwnerStep)
  /\ <>[][\A w \in Workers : ~SpuriousWakeup(w)]_vars

FairSpec == Spec /\ Fairness

------------------------------------------------------------------------------
(* Properties *)

PlacesOK ==
  /\ pc \in [Threads -> ClientPC \cup WorkerPC \cup ManagerPC \cup OwnerPC]
  /\ \A w \in Workers : pc[w] \in WorkerPC
  /\ \A c \in Clients : pc[c] \in ClientPC
  /\ pc[Manager] \in ManagerPC
  /\ pc[Owner] \in OwnerPC

TypeOK ==
  /\ PlacesOK
  /\ mutex \in Workers \cup {NoThread}
  /\ m_idleThread \in Int /\ m_curThread \in Int /\ m_exitThread \in Int
  /\ m_stop \in BOOLEAN
  /\ m_tasks \in Seq(Task)
  /\ m_ids \subseteq Workers /\ m_workers \subseteq Workers
  /\ task \in [Workers -> Task \cup {NoTask}]
  /\ added \in [Clients -> 0 .. MaxTasks]
  /\ done \in Seq(Task)
  /\ idel \in Int /\ cur \in Int
  /\ tojoin \subseteq Workers

(* Every task a client has added is in exactly one place, once: not yet in *)
(* the queue, in the queue, with a worker, or done.                        *)
Count(s, t) == Cardinality({i \in 1 .. Len(s) : s[i] = t})

ToAdd(t) == IF pc[t.from] = "add" /\ t.seq = added[t.from] THEN 1 ELSE 0

Holders(t) == {w \in Workers : task[w] = t}

TasksOnce ==
  \A t \in Task :
    ToAdd(t) + Count(m_tasks, t) + Cardinality(Holders(t)) + Count(done, t)
      = IF t.seq <= added[t.from] THEN 1 ELSE 0

(* The counters say how many threads there are, up to the updates that are *)
(* still to come: an exiting worker takes itself out of m_curThread first  *)
(* and out of m_idleThread next, the manager counts a thread after it has  *)
(* started it, and a thread that ends because the pool stops stays counted.*)
(* However reads and updates interleave, at most m_maxThread threads have  *)
(* not begun to exit.                                                      *)
Live == {w \in Workers :
           /\ pc[w] \notin {"none", "exit_idle", "exit_count", "exit_id"}
           /\ w \notin m_ids}

Idle == {w \in Workers :
           /\ pc[w] \notin {"none", "run", "finish", "exit_count", "exit_id"}
           /\ w \notin m_ids}

Pending(L) == IF pc[Manager] \in L THEN 1 ELSE 0

CountersMatch ==
  /\ m_curThread = Cardinality(Live) - Pending({"insert", "count_cur"})
  /\ m_idleThread = Cardinality(Idle)
                      - Pending({"insert", "count_cur", "count_idle"})
  /\ Cardinality(Live) <= Cap

(* The thread ids the manager is about to join are in the map, so that     *)
(* clearing the list forgets no thread; and none of those threads wants or *)
(* has m_idsMutex, which the manager holds until the last of them has      *)
(* ended: what is left for them is to release m_queueMutex and return.     *)
Released == {"exit_unlock", "exit_return", "ended", "joined"}

ReapFindsAll ==
  pc[Manager] = "reap" => \A w \in m_ids : w \in m_workers /\ pc[w] \in Released

(* No task is stranded: left in the queue, its client waiting for it, when *)
(* every worker sleeps, every notification has been sent, and the manager, *)
(* at the head of its loop, will neither shrink nor grow the pool.         *)
Stranded ==
  /\ m_tasks # << >> /\ ~m_stop
  /\ \A w \in Workers : pc[w] \in {"none", "waiting", "ended"}
  /\ \A c \in Clients : pc[c] \in {"idle", "get"}
  /\ pc[Manager] = "top" /\ Decide(m_idleThread, m_curThread) = "top"

NoneStranded == ~Stranded

(* Whatever the manager starts, inserts and erases while the destructor    *)
(* walks the map: when the map is cleared every thread has been joined but *)
(* for at most one, which the manager inserted too late for the walk; and  *)
(* the destructor has returned only if there was no such thread, so that   *)
(* no thread uses the pool after it is gone.                               *)
Gone(w) == pc[w] \in {"none", "joined"}

JoinsAllButOne ==
  /\ pc[Owner] = "clear" =>
       \E late \in Workers \cup {NoThread} : \A w \in Workers \ {late} : Gone(w)
  /\ pc[Owner] = "destroyed" => \A w \in Workers : Gone(w)

------------------------------------------------------------------------------
(* The inductive invariant *)

(* A client counts its task before it adds it; a worker has a task while   *)
(* it begins and runs it.                                                  *)
HeldInv ==
  /\ \A c \in Clients : pc[c] = "add" => added[c] > 0
  /\ \A w \in Workers :
       IF pc[w] \in {"begin", "run"} THEN task[w] \in Task ELSE task[w] = NoTask

(* The map has every thread that was started, but the one that the manager *)
(* is about to insert.                                                     *)
MapInv ==
  /\ \A w \in m_ids : pc[w] \in Released \cup {"exit_unlock_ids"}
  /\ pc[Manager] = "reap" => \A w \in Workers : pc[w] # "exit_unlock_ids"
  /\ pc[Owner] \in {"clear", "destroyed", "terminated"} => pc[Manager] = "ended"
  /\ pc[Owner] # "destroyed" =>
       \E new \in Workers \cup {NoThread} :
         /\ new \in Workers => pc[Manager] = "insert"
         /\ \A w \in Workers : pc[w] # "none" => w = new \/ w \in m_workers

(* The manager starts a thread only when there is room for one.            *)
RoomInv == pc[Manager] = "spawn" => Cardinality(Live) < Max

PoolInv ==
  /\ TypeOK /\ HeldInv /\ MapInv
  /\ CountersMatch /\ RoomInv /\ TasksOnce

(* From the start of the destructor's walk on, what it has not joined it   *)
(* has yet to reach, but for one thread that the manager starts, after     *)
(* which the manager goes to its end.                                      *)
WalkInv ==
  /\ pc[Owner] # "up" => m_stop
  /\ pc[Owner] \in {"join", "join_manager", "clear"} =>
       \E late \in Workers \cup {NoThread} :
         /\ late \in Workers =>
              pc[Manager] \in {"insert", "count_cur", "count_idle", "top", "ended"}
         /\ \A w \in Workers : Gone(w) \/ w \in tojoin \/ w = late
  /\ pc[Owner] \in {"join_manager", "clear"} => tojoin = {}
  /\ pc[Owner] = "destroyed" => \A w \in Workers : Gone(w)

------------------------------------------------------------------------------
(* Liveness *)

(* serialize returns: a task that is added is run, unless an exit is asked *)
(* for before it has been, for the worker that is woken for the task may   *)
(* then exit instead, and no other is woken.                               *)
ServedInTheEnd ==
  \A c \in Clients : pc[c] = "add" ~> (pc[c] = "idle" \/ m_exitThread > 0)

(* The destructor comes to its end, if, when it notifies, no worker is     *)
(* between its test of m_stop and its sleep, and the manager neither waits *)
(* for exits nor is about to ask for some (it reads the counters before it *)
(* tests m_stop again).                                                    *)
WillWaitForExits ==
  \/ pc[Manager] \in {"set_exit", "notify_all", "spin"}
  \/ pc[Manager] \in {"read_idle", "read_cur"} /\ m_curThread > Min

DestroyCompletes ==
  /\ pc[Owner] = "notify_all"
  /\ \A w \in Workers : pc[w] # "block"
  /\ ~WillWaitForExits
  ~> pc[Owner] \in {"destroyed", "terminated"}

==============================================================================
