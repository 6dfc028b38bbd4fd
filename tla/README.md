# A verification project for AsyncLog_CloudStorage

AsyncLog_CloudStorage is an asynchronous logging library (`log_system/log_src`)
and an HTTP file-storage server that uses it (`src/server`). This directory
models the parts of both that are concurrent, that have to survive a crash, or
that compute something. TLC checks the models on small instances; TLAPS proves
their safety properties for every value of the constants.

Paths below are relative to the repository. `AW`, `TP`, `DM`, `SV` abbreviate
`log_system/log_src/AsyncWorker.hpp`, `log_system/log_src/ThreadPool.cpp`,
`src/server/DataManager.hpp` and `src/server/Service.hpp`.

    tlc -config MCAsyncWorker_safe.cfg MCAsyncWorker.tla     # one run of section 3
    tlapm AsyncWorkerProofs.tla                              # one module of section 4

## 1. Inventory

### Components, their state and their operations

| component | state | operations |
|---|---|---|
| **AsyncBuffer** (`AsyncBuffer.hpp`) | `buffer_`, `write_pos_`, `read_pos_` (always 0) | `Push`, `ToBeEnough`, `Reset`, `Swap`, `IsEmpty`, sizes |
| **AsyncWorker** (`AsyncWorker.hpp`) | two buffers, `mutex_`, `stop_`, two condition variables, `thread_`, `callback_` | constructor, `Push`, `Stop`, destructor, `ThreadEntry` |
| **ThreadPool** (`ThreadPool.hpp/.cpp`) | `m_tasks` under `m_queueMutex`; atomics `m_curThread`, `m_idleThread`, `m_exitThread`, `m_stop`; `m_ids` under `m_idsMutex`; the map `m_workers` under nothing | constructor, `addTask`, `worker`, `manager`, destructor |
| **AsyncLogger**, **LoggerBuilder** | name, flushes, one worker | `Debug` .. `Fatal`, `serialize`, `Flush`, `RealFlush`, `Build` |
| **LogFlush** (`LogFlush.hpp`) | `FILE *`, current size, file counter | `Flush` to stdout, to a file, to rolling files; destructors |
| **backup** (`backlog_code/`) | one socket per message; on the server a thread per connection and one log file | `send_backlog`, `TcpServer::service`, `start_service`, `backup_log` |
| **DataManager** (`DataManager.hpp`) | `table_` under a read-write lock, `storage_file_` | `InitLoad`, `Insert`, `Update`, `Storage`, three lookups |
| **HTTP service** (`Service.hpp`, `main.cpp`) | none of its own: the files in two directories, the DataManager, libevent's buffers | `Upload`, `Download`, `ListShow` |
| **codecs** (`base64.cpp`, server `Util.hpp`) | - | `base64_encode`, `base64_decode`, `UrlDecode` |
| **LoggerManager** (`Manager.hpp`) | map of loggers, the default logger, `mutex_` | `AddLogger`, `GetLogger`, `LoggerExist` |
| **Configuration** (`Config.hpp`, log `Util.hpp`) | values read once | getters |
| zstd wrapper, `TestLogger` | - | a library wrapper, a benchmark |

### How they interact

A thread that logs runs `serialize`: it formats the message; for ERROR and FATAL
it gives `send_backlog` to the thread pool and *waits for the result*
(`ret.get()`); then it calls `AsyncWorker::Push`. The worker thread swaps the
two buffers and gives the full one to `RealFlush`, which calls every `LogFlush`.
The HTTP service runs on one thread, libevent's loop. `Upload` decodes the file
name, writes a file, then calls `DataManager::Insert`, which changes the table
under the write lock and then writes *the whole table* to `storage_file_` with no
lock held. `Download` decodes the path, looks it up, unpacks a compressed file
into the directory of the uncompressed ones, hands the file to libevent, which
*maps* it, and removes the unpacked copy. The response is sent after the handler
has returned. All of the server's code logs.

### What is hard, and what correct means

* **AsyncWorker.** `stop_` is set and both condition variables are notified
  without the mutex, so tests and sleeps interleave with them; `thread_` is
  declared before `callback_`; the worker waits on *its own* buffer. Correct: a
  copy never leaves the vector; messages are written out in order, each once;
  nobody writes where no one reads any more; `Stop` returns.
* **ThreadPool.** Three counters that different threads update one after the
  other, a woken worker that may exit instead of working, a manager that spawns
  and joins while the destructor joins too. Correct: a task runs exactly once, or
  waits in a place where somebody will find it; the counters mean what the
  manager manager takes them to mean; nobody is joined who waits for the lock that the
  joining thread holds; the destructor leaves no thread behind (it can leave one).
* **LogFlush and the logger.** What a crash may lose depends on `flush_log`; a
  failed `fwrite` has written a part; names of rolling files can come back in a
  later process; a message passes a queue, a connection, a buffer and three
  sinks. Correct: what `flush_log` promises is kept; a file has the messages of a
  thread in their order and once each; what has been closed stays; an exit loses
  nothing if nothing went wrong before; an ERROR is sent before it is written.
* **backup.** One `read` of at most 1024 bytes per connection, five attempts to
  connect without a pause, a server that may be gone at any time. Correct: what
  is in the backup file is there once and uncut; the caller gets away.
* **DataManager.** The only copy on disk is truncated and rewritten on each
  change; the snapshot and the write are outside the lock; errors of opening and
  writing turn into `true`; a torn file is loaded as far as it parses. Correct: a
  record whose `Insert` has returned is found now and after a restart, unless a
  crash in the middle of a write has lost it, which the code cannot make good; and
  the file never contains what the table does not.
* **HTTP service.** Two directories share one space of urls; a download writes
  and removes files in one of them; responses are sent from mapped files that
  later requests change; an upload without a header ends the process. Correct: a
  record leads to the body it was stored with; a response has the body of the
  record its ETag was made from; one reply per request.
* **codecs.** The last group, two alphabets, two kinds of padding, line breaks,
  escapes at the end of the text. Correct: what was encoded comes back.

`PROJECT.json` lists these as hazards, each at its line and with the properties
that cover it.

## 2. The modules

    AsyncBuffer --> AsyncWorker ==implements==> LogPipe
                                                   |  instance
    LogMessage --> LogFlush <==implements== AsyncLogger <-- (ThreadPool, BackupLog
               \-> BackupLog                                 by what they promise)
    DataManager --> Service
    Codec

An arrow is EXTENDS unless it says otherwise. `AsyncWorker`, `ThreadPool`,
`DataManager`, `Service`, `LogFlush`, `AsyncLogger`, `BackupLog` and `Codec` each
have a module `...Proofs` beside them, which section 4 describes.

### AsyncBuffer.tla

`mylog::Buffer` as a record `[size, write_pos, data]`; `data` is the sequence of
messages, each with its length in bytes. `ToBeEnough`, `Push`, `Reset` are
operators. `Swap` exchanges two records and is inside `WorkerSwap`. Bytes are
not modelled, lengths and positions are. `size_t` never wraps before a copy has
left the vector, which `InBounds` excludes where it is claimed.

### LogPipe.tla

What the worker promises: `Accept`, `Deliver` a batch from the head, `Seal`. A
`Lossless` pipe accepts nothing once it has been sealed.

### AsyncWorker.tla

One action per critical section, atomic access or notification:

| code | actions |
|---|---|
| constructor (AW:16-19, members 65-73) | `Init`, `Construct` (the worker thread may run first) |
| `Push` (AW:28-42) | `PushCall`, `PushLock` (mutex, predicate), `PushBlock` (sleep), `PushRefused`, `PushWrite`, `PushNotify` |
| `ThreadEntry` (AW:44-62) | `LoopTest`, `WorkerLock`, `WorkerBlock`, `WorkerSwap`, `WorkerFlush`, `WorkerDrain` |
| `Stop`, destructor (AW:20-26) | `StopSet`, `StopNotify`, `StopJoin`; `DestroyStopped` (a destructor after a `Stop` joins again and ends the process) |

The test of a predicate and the sleep are two steps because `stop_` changes
without the mutex. `PushLock`, with the mutex held, reads `stop_` once for the
predicate; `PushRefused` and `PushWrite` read it again, as the code does
(AW:34). `PushWrite` takes that read, the copy and the unlock as one step: a
`stop_` that is set in between is seen only by steps that need the mutex, or by
the worker's tests, which give the same result as if it had been set after the
unlock. `WorkerDrain` reads the producers' buffer without the mutex (AW:59); the
value it sees is one the buffer has at some step, the finest the model has.

The constant `Destructor` is TRUE when only the destructor calls `Stop`, so that
no `Push` is in progress (what `main.cpp` and `TestLogger.cpp` do), and FALSE
when the public `Stop` is called on a live object, which `Push` is written for
(AW:34). After the latter the destructor calls `Stop` a second time, and the
second `join` throws: the state is "terminated". `Safe` is the `AsyncType`.

### ThreadPool.tla

| code | actions |
|---|---|
| constructor (TP:8-17) | `Init`. It takes far less than the second that the manager sleeps first |
| `addTask` and `ret.get()` | `AddCall`, `AddTask`, `AddNotify`, `AddGet` |
| `worker` (TP:92-135) | `WorkerTop`, `WorkerLock`, `WorkerBlock`, `WorkerStay`, `WorkerExit`, `ExitIdle`, `ExitCount`, `ExitId` (listed), `ExitUnlockIds`, `ExitUnlock`, `ExitReturn`, `TaskBegin`, `TaskRun`, `TaskFinish` |
| `manager` (TP:50-90) | `ManagerTop`, `ReadIdle`, `ReadCur`, `SetExit`, `ExitNotify`, `SpinEnd`, `LockIds`, `Reap`, `Spawn`, `Insert`, `CountCur`, `CountIdle` |
| destructor (TP:19-42) | `DestroyStop`, `DestroyNotify`, `DestroyJoin`, `DestroyJoined`, `DestroyJoinManager`, `DestroyClear` |

A worker that exits lists itself while it holds both mutexes. The manager, which
reads `m_ids` without a mutex, may see it from then on; it gets `m_idsMutex` when
the worker has released that (`IdsMutexFree`), and its join waits until the worker
has released `m_queueMutex` too and returned. `DestroyClear` ends the process
("terminated") if a thread in the map has not been joined.

The destructor iterates over `m_workers` while the manager inserts and erases:
the model lets the iteration see an inserted thread or miss it. The undefined
behaviour of the container itself is not modelled. A thread id is free again
after its join. The task's body, `send_backlog`, is a step that ends
(`BackupLog!SendReturns` is why it does).

### LogMessage.tla, LogFlush.tla

A message is known by its name; `Bytes` gives its length. A file is
`[data, os, disk]`: what the program has written to the stream, and the prefixes
of it that the kernel, and the disk, have *for certain*. stdio and the kernel may
have passed on more than that, so `Kill` keeps any prefix from `os` up, and
`PowerCut` any from `disk` up. All three of `fflush`, `fsync` and `fclose` may
fail, and no caller acts on it: a failed `fflush` hands on any part of the stream,
a failed `fsync` leaves `disk` where it was, and a failed `fclose` (`Close`) leaves
what the kernel had, or any more of it, and drops the rest. `closed` has what each
file held when it was last closed without an error.

| code | actions |
|---|---|
| constructor of `FileFlush` (`LogFlush.hpp`:29-36) | `FlushInit`, `Start` (a failed `fopen` leaves `fs_` null) |
| `RealFlush` (`AsyncLogger.hpp`:114-121) | `RealFlush`, then each sink in turn (`GoOn`, `NextSink`) |
| `StdoutFlush::Flush` | `FlushStdout` |
| `FileFlush::Flush` | `FlushNoFile`, or `Fwrite` and `Sync` |
| `RollFileFlush::Flush` | `InitLogFile` (with `OpenNext`, `OpenFailed`), `Fwrite`, `Sync` |
| destructors | `CloseAll` (`Close` of all that is open) |
| the process is killed, the machine loses power | `Kill`, `PowerCut` |

`Sync` is what `flush_log` asks for: nothing, `fflush`, or `fflush` and `fsync`.
A message is `kept` when no call of its `Flush` has failed (`Succeeded`). One
assumption about the operating system is made here: an `fsync` that succeeds
covers what an earlier one has failed on. (Where a kernel drops dirty pages after
a failed `fsync`, earlier batches, for which the code was told of an error and
ignored it, are lost.)
A failed `fopen` of a rolling file leaves a null stream that the next line
writes through: only `Kill` is possible then. A batch is whole messages; what a
failed `fwrite` or a cut leaves in the middle of a message counts as not there.
The name of a rolling file is the clock's digits, without separators, and a
counter that begins at 1 in every process (`LogFlush.hpp`:127-140), so a later
process may open a file of an earlier one: `OpenNext` picks any stamp.

### AsyncLogger.tla

The life of a message: `Log_` (`Debug` .. `Fatal`, `serialize` up to `addTask`),
`RunTask` and `SendReturns` (the pool and `send_backlog`), `Get` (the future),
`Push`, `WorkerBatch`, `SinkStep`; then `Exit` and `CloseSinks` (the members of
the logger are destroyed in this order), `Crash`, `Restart`. It EXTENDS
`LogFlush` for the sinks and has an instance of `LogPipe` for the worker, whose
implementation by `AsyncWorker` is proved, with a destructor that is called when
no `Push` is in progress. `LogPipe` does not promise that a worker ends drained.
`AsyncWorker!Drained` says so of a worker that has swapped; one that does not come
to run before `Stop` ends with everything still buffered. So a process begins
with a choice, `late`: a late worker writes nothing, and `CloseSinks` then drops
the pipe. A batch is any prefix of the pipe: how much the
worker has found in its buffer when it swaps is up to the schedule.

### BackupLog.tla

| code | actions |
|---|---|
| `send_backlog` (`SendBackupLog.hpp`:17-45) | `SendBacklog`, `Connect`, `ConnectFails`, `Write`, `Close` |
| TCP | `Arrive`: in order, in one piece or several |
| `TcpServer` (`ServerBackupLog.hpp`) | `InitService`, `Accept`, `Read`, `ReadNothing`, `ReadFails`, `ReadOverflow` |
| `backup_log` (`ServerBackupLog.cpp`:48-66) | `Log` |
| the server is killed, or fails an assertion | `ServerDies` |

A read that fills the buffer writes the terminator behind its end: it hits
padding (`Read`) or ends the process (`ReadOverflow`). A failed `read` ends the
thread (`ReadFails`); a failed `fflush` or `fclose` leaves any part of the message
in the file, and the server goes on (`Log`). `failed` names the messages to which
this has happened.

### DataManager.tla

| code | actions |
|---|---|
| constructor, `InitLoad` (DM:66-127) | `Init`, `Restart` with `Load` |
| `NewStorageInfo`, `Insert`, `Update` (DM:15-36, 184-221) | `NewVersion`, `Put`, `Return` |
| `Storage` (DM:138-176) | `GetAll`, `OpenFails` |
| `FileUtil::SetContent` (server `Util.hpp`:228-244) | `Open` (truncates), `Write`, `WriteFails` |
| the process is killed | `Crash` |

A `StorageInfo` is its url and a version, `last` is the newest version there has
been of each url; a url is `Large` if the size of its file does not fit an int.
The text reaches the file in one system call, at `write` or at `close` depending
on its length; a crash or an error can cut it short (`PartlyWritten`). `Load` of a
torn file returns any subset of the records in it, because `InitLoad` ignores the
parser's result; the half record that the parser also leaves, and that goes into
the table under an empty url, is left out. A second caller that writes a shorter
text in front of a longer one leaves a tail, which JsonCpp's default reader
ignores.

`acked` is never taken back. `lost` has the urls whose acknowledged record did not
come back when a torn file was last loaded, until a newer one is acknowledged;
every other acknowledged record must still be there.

### Service.tla

EXTENDS `DataManager` with the one caller that the server has, the event loop,
and adds the two directories of stored files, the handlers, and the responses
that are being sent.

| code | actions |
|---|---|
| `Upload` (SV:107-193) | `Upload` (truncates the file), `WriteContent`, `Insert`, `Storing` (the steps of `DataManager::Storage`), `Success` |
| `Download` (SV:295-396) | `DownloadUnknown`, `DownloadLow`, or `DownloadDeep`, `Unpack`, `Reply`, `Remove` |
| an upload whose headers throw (SV:130-137) | `UploadThrows`: the process ends |
| `ListShow`, requests that are refused with a reply | `Answer` |
| the event loop, `main` | `HandlerReturns`, `Send`, `Begin` |
| the process is killed | `Die` |

`disk` has the body under each name of each directory: 0 for no file, the
version of the record it was uploaded with, or `Torn`. `evbuffer_add_file`
maps the file, so a response that is `mapped` changes with the file
(`SetFile`); after `remove` the mapping stays and the name is free. The ETag is
the name, the size and the modification time in seconds (SV:285-294), so it does
not tell two uploads of equal size in one second apart. The model follows the
record from which the ETag was made, by its version, and not the text.

### Codec.tla

Characters are codes, strings are sequences. `base64_encode` with both
alphabets, `InsertLinebreaks`, `base64_decode` with and without removing line
breaks, `FromHex`, `ToHex`, `UrlDecode`, written with recursive *functions* so
that theorems can be stated about them. `Invalid` is an exception or a failed
assertion. The reference definitions speak of single bits.

### MC modules

`MCAsyncWorker`, `MCThreadPool`, `MCDataManager`, `MCService` add symmetry sets,
`MCAsyncLogger`, `MCBackupLog`, `MCCodec` values of constants. Symmetry is used
only by runs without liveness properties.

## 3. The runs

| run | bounds | what it shows |
|---|---|---|
| `worker_safe` | 2 producers, 2 messages each, lengths 1 and 2, capacity 2, ASYNC_SAFE, public `Stop` | `IInv`, `NoOverrun`, `Drained` (a producer woken or scheduled late gives its message up), `CallbackReady`, `OrderKept`, `PipeSpec` (it implements `LogPipe`), `StopCompletes` and `ShutdownFlushes` with producers blocked for ever among the behaviours |
| `worker_unsafe` | the same, ASYNC_UNSAFE, so pushes go on between swap, callback, reset and exit | buffers that grow stay in bounds (`NoOverrun`), and what is written out is what was pushed, in order and once (`PipeSpec`) |
| `worker_never_read` | 1 producer, 1 message | *violation*: a message is written and nobody reads it until `Stop` |
| `pool_elastic` | 1 to 2 threads, 4 ids, 3 clients, a task each | the pool grows, shrinks, reuses ids, and is destroyed while its manager works: `PoolInv`, `TasksOnce`, `CountersMatch`, `ReapFindsAll`, `JoinsAllButOne` |
| `pool_live` | 1 to 2 threads, 4 ids, 1 client, 1 task | `ServedInTheEnd`, `DestroyCompletes` |
| `pool_stranded` | 2 to 3 threads, 2 clients, 2 tasks each | *violation*: a stale `m_exitThread` strands a task |
| `store_concurrent` | 2 callers, 2 urls, 3 versions, failures of open and write, crashes and restarts | `FileNotAhead` |
| `store_restart` | 1 caller, crashes, one file too large for an int | *violation*: the server does not come up again |
| `server_files` | 2 urls, 2 versions, 3 uploads, 2 responses being sent, failing files, crashes | `Served`, `BodyMatchesETag`, `OneReply`; and of the store with the caller it really has, `AckedOnDisk`, `LookupFindsAcked`, `FileIsTable` |
| `logger_delivery` | 2 threads, 3 messages, 3 sinks, `flush_log` 1 and 2, two processes, all failures, late workers | `Durable`, `ClosedSurvives`, `RollBound`, `FileOrder`, `UrgentSentFirst`, `ExitKeepsAll` |
| `backup_faults` | 2 messages, a buffer of 2, 3 attempts, all failures | `LoggedOnce`, `WholeUnlessSplit`, `SendReturns`, `SentIsLogged` |
| `codec_bytes` | all strings up to 5 over 6 bytes, line lengths 1 to 5 | `EncodeIsBits`, `DecodeIsBits`, `NameComesBack`, `PathComesBack` |

`server_files` and `backup_faults` also check the type invariants `ServiceTypeOK`
and `BackupTypeOK`; that of the worker is a part of `IInv`, that of the pool of
`PoolInv`, that of the store of `ServiceTypeOK`, and that of the files is proved
(`FilesTyped`).

### Why these bounds are enough

*Worker.* Two producers give every order of two critical sections and every
pairing of a sleeping with a running producer; lengths 1 and 2 on a capacity of
2 reach "fits", "fits exactly" (which grows the buffer), and "does not fit"
(which blocks); the threshold 4 is passed after one doubling, so both growth
rules are taken. Two messages each make an order to break.
*Pool.* A minimum of 1 and a maximum of 2 let the pool grow, be asked for two
exits, get both or only one (which leaves `m_exitThread` stale). Four ids are
enough for two threads, one that is being joined and one that is being started
while the destructor walks the map. Three clients keep a queue while two tasks
run. `pool_live` is the same pool with one client, which suffices for a spawn (one
task makes the only thread busy) and for exits after it. `pool_stranded` needs a
pool whose minimum is 2: one worker exits, one takes the role of the sleeper, one
is woken in vain.
*Store.* Two versions make "old" and "new", a third a write between two others;
two urls make torn files with a part of the records.
*Server.* A third upload lets a url go to one directory, to the other, and back;
two urls make a torn or forgotten record next to a good one; two responses, one
older than an upload and one newer.
*Logger.* The error of two bytes fills a rolling file (`MaxSize` 2) alone, the
others two together, so a roll happens before, after and between messages of one
thread. `flush_log` 0 is left out of the run (not of the theorems): a step
with 0 leaves the file as one with 1 does whose `fflush` fails without handing
anything on, and `Durable`, the only property that sees the difference, asks
nothing for 0. One stamp for the names makes every second process append to a file of
the first. One pool thread makes the queue matter.
*Backup.* One message fits the buffer exactly, which is the edge of the
terminator, and one does not fit. Three attempts are a first, a middle and a last.
*Codec.* 37, 46 and 61 are the percent sign and the two padding characters, 57,
95 and 251 have digits, an URL-alphabet character and high bits; five
characters are a full group and an incomplete one for both codecs.

Deadlock checking is off throughout: a stopped worker, a destroyed pool, a
logger whose process has ended, a store that has used up its versions and a
codec's input really are at rest.

### Fairness

`AsyncWorker`: weak fairness of the worker, of the owner's steps after it has
decided to stop, and of each producer inside `Push`. The OS schedules
threads that can run; nothing obliges a client to call `Push` or `Stop`. A mutex
needs no strong fairness here because each producer makes a bounded number of
calls, so nobody can take it for ever. `ThreadPool`: likewise for clients,
workers, manager and owner; in addition spurious wake-ups are finite in number,
since infinitely many would keep the mutex busy for ever. A spurious wake-up is
never *required* to happen, so no liveness result rests on one. `BackupLog`: the
threads of the pool and of the server are scheduled and what has been written
arrives; nobody is obliged to start a server, and a server may die for ever.
`DataManager` (in `store_restart` only): a process that has crashed is started
again. The other specifications state safety and have no fairness.

### What disagrees with the documentation

The `findings` of `PROJECT.json` quote each line. In short:

* AW:50: the worker's predicate reads `buffer_consumer_`, which is empty then.
  A notification sends it back to sleep; logs are written only at `Stop`. This
  also makes the invariant simple: the worker is past its wait only after
  `Stop` has begun.
* TP:105: a worker that is woken for a task exits if `m_exitThread` is still
  positive from an earlier shrink, and passes the wake-up on to nobody.
* DM:118: a size is written as Int64 and read with `asInt`, which throws above
  2147483647. One upload of 2 GiB makes every later start fail.

Seen while modelling and true of the models, with no run of their own:

* Worker: an ASYNC_SAFE producer that finds no room is notified by nobody (AW:53
  notifies only for ASYNC_UNSAFE, whose producers never wait); a `Stop` before
  the worker's first test of `stop_` loses every message; the destructor of an
  object that was stopped before joins a second time, which ends the process; `ToBeEnough` grows
  once, so a message longer than that step is copied past the end of the vector,
  and it grows on an exact fit.
* Pool: `m_stop` is set outside the mutex (TP:21), so a worker about to sleep
  misses the notification and the destructor waits for ever; the manager that
  spins for exits (TP:63) waits for ever once the pool stops, for a worker that
  ends then does not list itself; `m_exitThread` is not initialised; a shrink
  takes two threads and can leave the pool below its minimum.
  The comment at TP:24, "wait for all worker threads to end", is true but for one
  thread: one that the manager, having read `m_stop` before it was set, starts and
  inserts when the walk has passed. It is in the map and not joined, so `clear`
  (TP:39) ends the process. `JoinsAllButOne` says that there is never a second
  one, and that a destructor which returns has joined all.
* Store: the file is truncated before it is written (server `Util.hpp`:230), so
  a crash leaves an empty or cut file as the only copy, against the promise at
  DM:45. The next start loads what it can parse of it, and the next `Insert`
  makes that the file: all records acknowledged until then may be gone (`lost`).
  Further, `Storage` returns true after a failed write; a file that cannot be read
  is ignored and later overwritten; snapshot and write are outside the lock, so
  two concurrent `Insert`s can leave the older snapshot in the file (the shipped
  server has one thread that calls `Insert`).
* Server: an upload without the header `FileName` or `StorageType`, or with a
  name that is not base64, ends the process (SV:130-137: `std::string` of a null
  pointer and `base64_decode` throw, and nothing catches);
  nobody looks at what `GetOneByURL` returns, so an unknown url is
  answered with 200 and no body (SV:302, against the comment at SV:336); nobody
  looks at what `UnCompress` returns (SV:321), so after a failure an older file
  of the same name is sent; a file that could not be unpacked, with none in its
  place, is answered with 500 *and* 404 (SV:332); a file in `deep_storage` is
  written to and removed from `low_storage` under the same name, and a response
  still being sent changes with it.
* Sinks: the results of `fclose`, `fsync` and most `fflush` calls are ignored
  (`LogFlush.hpp`:39-40, 65-68, 100-101, 106, 115): on a full disk a file that was
  rolled or closed lacks its tail, and nobody is told.
* Backup: one `read`, so a message that arrives in pieces, or has more than 1024
  bytes, is cut; a read of exactly 1024 bytes writes behind the buffer
  (`ServerBackupLog.hpp`:113). A failed `fflush` or `fclose`
  (`ServerBackupLog.cpp`:64-65) loses the message while the server goes on,
  although the comment at `ServerBackupLog.cpp`:46 says that the program ends when
  a file operation fails.

Seen while reading: `UnSerialize` always returns false (server `Util.hpp`:347);
`mtime_` and `atime_` are swapped (DM:25-26), so the ETag holds the access time;
a matching If-Range is answered with 206 and the whole file (SV:389), for Range
is never read; a file whose name contains "deep" is listed as deep storage
(SV:213); the shipped configuration of the log system is read with every size 0
when `config.conf` is missing; a comment at `AsyncLogger.hpp`:107 says that
nothing stops the pool, which its destructor does.

## 4. The proofs

Every theorem below holds for all values of the constants that satisfy the
`ASSUME` of its module. Those assumptions give types, and say that names of
threads, files and null values differ. Where more is needed it is said. The
proofs follow one pattern: an inductive invariant, a lemma that the initial
states have it, lemmas that the actions keep it, and theorems that follow
from it.

### The worker (`AsyncWorkerProofs`)

| theorem | statement |
|---|---|
| `Invariance`, `TypeCorrect` | `Spec => []IInv`, `Spec => []TypeOK` |
| `NeverOverruns` | `Spec => []NoOverrun` |
| `EndsDrained` | `Spec => []Drained` |
| `CallsBackWhenReady` | `Spec => []CallbackReady` |
| `KeepsCallOrder` | `Spec => []OrderKept` |
| `ImplementsPipe` | `Spec => PipeSpec` |

They hold for any producers, both types, both kinds of stop, all lengths,
capacities and thresholds, 0 included. None of the properties is inductive.
`NoOverrun` needs that an ASYNC_SAFE producer at `locked` still has the room it
tested for, or stop has begun (`CallInv`), which needs that nobody else changes
the buffer while it holds the mutex (`MutexInv`); and that a swap puts an
*empty* buffer in place that is no smaller than `BufferSize` (`BufferInv`).
`Drained` and `CallbackReady` need that the worker passes its wait only once
`stop_` is set (`StopInv`), which in turn needs that its own buffer is empty
whenever it tests the predicate. `ConcatAppend` and `ConcatCut` relate the two
buffers' concatenation to the pipe, and `NextPipe` maps every step to `Accept`,
`Deliver`, `Seal` or a stutter.

`IInv` is `CoreInv`, which the above is about, and `OrderInv`, from which
`OrderKept` follows. A message is copied when its producer holds the mutex, long
before it is written out, so the order of `out` alone is not inductive. `OrderInv`
adds that the order holds in each buffer, that whatever is written out is before
what is in the buffers, and the worker's buffer before the producers' (`Before`),
and that a producer on its way to the copy has a number that no buffer has yet.
From `CoreInv` it takes, besides types, that the worker swaps only when its own
buffer is empty.

### The pool (`ThreadPoolProofs`)

| theorem | statement |
|---|---|
| `PoolInvariance`, `PoolTypeCorrect` | `Spec => []PoolInv`, `Spec => []TypeOK` |
| `RunsOnce` | `Spec => []TasksOnce` |
| `CountsThreads` | `Spec => []CountersMatch` |
| `ReapWaitsForNoLock` | `Spec => []ReapFindsAll` |
| `MissesAtMostOne` | `Spec => []JoinsAllButOne` |

They hold for any number of clients, workers and tasks, any minimum and maximum,
and whatever `m_exitThread` holds at the start. `PoolInv` adds three things to
the properties. A worker has a task exactly while it begins and runs it
(`HeldInv`). The map has every thread that was started, but for the one the
manager is about to insert; ids in `m_ids` are of threads that hold `m_idsMutex`
or have released it, and while the manager holds that mutex no worker does; the
map is cleared after the manager's end (`MapInv`): without this a thread that is
joined but not in the map would be counted for ever. The manager starts a thread
only when there is room for one (`RoomInv`), which is true after it has decided
on stale counters because only the manager itself adds threads. Steps that leave
the queue, the map and the two counters alone are proved together (`Quiet`); the
others change a set by one element, or move one task.

`ReapFindsAll` matters because the manager joins with `m_idsMutex` held: a thread
that it joins may still run, and hold `m_queueMutex`, but has nothing left to do
that waits for the manager. `MissesAtMostOne` is proved from `PoolInv` and
`WalkInv`: from the start of the walk on, a thread that is neither joined nor yet
to be reached is the one that the manager had started or was about to; after it
the manager only counts and finds `m_stop` set.

### The store (`DataManagerProofs`)

| theorem | statement | condition in the property |
|---|---|---|
| `Invariance`, `TypeCorrect` | `Spec => []IInv`, `Spec => []TypeOK` | |
| `KeepsAcked` | `Spec => []AckedOnDisk` | one caller, no failures; crashes allowed; but for what did not come back from a torn file |
| `FileMirrorsTable` | `Spec => []FileIsTable` | the same |
| `NeverAhead` | `Spec => []FileNotAhead` | until the first crash; any callers and failures |
| `FindsAcked` | `Spec => []LookupFindsAcked` | any callers and failures until the first crash; then as for `KeepsAcked` |

The conditions are needed. A failed open is reported as success, so with failures
an acknowledged record need not be in the file; a second caller can write an
older snapshot last; a restart from a torn file loads less than the file holds.
`acked` only grows, and only a restart from a torn file puts anything into `lost`:
so the two theorems say that an acknowledged record is lost only by a crash between
`Open` and the end of `Write`, that one which has come back from that stays, and
that one acknowledged after it is found. Where "JSON for persistence" (DM:45) is
read as more than that, `lost` says how it fails.
`IInv` adds that while the process runs the table is ahead of every snapshot and
of every record in progress (`TableInv`), that calls are in progress only while
it runs (`DownInv`), that no record has a version that was not given out
(`LastInv`), and that the only caller's snapshot is the table from the moment it
is taken, the file is torn while it writes, and whole and equal to the table when
it returns (`SavedInv`).

### The server (`ServiceProofs`)

| theorem | statement |
|---|---|
| `ServiceInvariance`, `ServiceTypeCorrect` | `ServiceSpec => []ServiceInv`, `=> []ServiceTypeOK` |
| `UsesStore` | `ServiceSpec => Spec`: the server is a user of the store as `DataManager` specifies it |
| `ServiceKeepsAcked`, `ServiceFindsAcked`, `ServiceMirrorsTable` | so `[]AckedOnDisk`, `[]LookupFindsAcked` and `[]FileIsTable` hold of the server |
| `RecordsServed` | `ServiceSpec => []Served` |
| `BodiesMatch` | `ServiceSpec => []BodyMatchesETag` |
| `AnswersOnce` | `ServiceSpec => []OneReply` |

They hold for any urls, uploads, and responses being sent, with stored files that
fail (`DiskMayFail`). The last three speak, as `KeepsAcked` does, of a
`storage_file_` that does not fail. `ServiceInv` needs
that not only the table but also *the file* leads to the right bodies, because a
restart goes back to it, and that between two requests they agree on what the
table has (`StoreInv`); that a response which maps a file is about the very
record the file belongs to, or the unpacked copy is about to be removed
(`PendingInv`); and what a handler knows at each of its steps (`HandlerInv`):
the file of an upload is in `dirty` until its record is saved, and while a
compressed file is unpacked and sent its url's record is in `deep_storage`.
`Rewritten` is the lemma for the steps that write to a file which others may be
reading.

### Sinks and logger (`LogFlushProofs`, `AsyncLoggerProofs`)

| theorem | statement |
|---|---|
| `FlushInvariance`, `FilesTyped` | `FlushSpec => []FlushInv`, `FlushSpec => []FilesTypeOK` |
| `KeepsDurable` | `FlushSpec => []Durable` |
| `ClosedSurvive` | `FlushSpec => []ClosedSurvives` |
| `LoggerInvariance` | `Spec => []LoggerInv` |
| `ImplementsFlush` | `Spec => FlushSpec`: a logger uses its sinks as `LogFlush` specifies |
| `LoggerDurable`, `LoggerClosed` | so `[]Durable` and `[]ClosedSurvives` hold of the logger |
| `RollsInTime` | `FlushSpec => []RollBound` |
| `LoggerRolls` | so `[]RollBound` holds of the logger |
| `SendsFirst` | `Spec => []UrgentSentFirst` |
| `FilesKeepOrder` | `Spec => []FileOrder` |
| `ExitLosesNothing` | `Spec => []ExitKeepsAll` |

They hold for any list of sinks, messages, clients, size of the pool, and number
of processes. `FlushInv` is `FilesTypeOK` (with the order of the two prefixes of
a file), the sink whose turn it is has its file open (`OpenInv`), what has been
written without error is in the stream before `Sync` (`WrittenInv`), only a file
that is open has anything the kernel may lack (`ClosedFlushed`: what a failed
`fclose` did not write is gone, and the file is as long as what is left), and the
two properties. `ClosedSurvives` is about later processes: a file with an old name
is opened in append mode, written to, cut by a kill or a failed `fclose`, and what
an earlier process had closed without an error is still there.
`LoggerInv` says where a message can be on its way, and that a message
of level ERROR or FATAL that has come as far as the pipe has been sent.

`RollBound` is proved from `RollInv`: what this process has put into the open file
is no longer than `cur_size_` says. `Length` is a fold, which takes the positions
of a sequence in an order of its own: `LengthIsSum` turns it into a sum, `AnyFirst`
shows that the order does not matter, and `LengthConcat` that the lengths of two
pieces add up.
`FileOrder` is proved from `OrderInv`: the pipe, the batch and every file are in
order; a file is before the pipe, and before the batch *until its sink has
written that* (`Ahead`, `ToWrite`), which is why a failed `fwrite` of a part or a
crash in the middle of a batch does not matter; and nothing that a client has not
pushed is anywhere (`Pushed`). `ExitKeepsAll` is proved from `KeptInv`: as long as
nothing has gone wrong, each message whose call has returned is, for each sink,
in the pipe, in a batch which that sink is yet to write, or in one of its files.
At the exit of a process whose worker was not late the first two are empty, and
`ClosedFlushed` does the rest. `clean` is what "nothing has gone wrong" means: no
kill, no failed `fopen`, `fwrite` or `fclose`, no late worker. It is not assumed of
the code that things go well; the states in which they do not are in the model,
and `ExitKeepsAll` is silent about them.

Two assumptions serve these three. The list of sinks has each kind that writes
files at most once, for the state is kept by kind (two sinks with the same file
would write it twice). A message stands for one call, so that "twice" and
"before" mean something; texts may be equal.

### Backup (`BackupLogProofs`)

`Invariance`, `TypeCorrect` (`BackupTypeOK`), `NeverTwice` (`LoggedOnce`) and
`NeverCut` (`WholeUnlessSplit`), for any messages, buffer size and number of
attempts, with a network and a server that may fail. The invariant says what the
sender, the connection and the server's thread have of a message at each stage:
what is in the connection and what has been read never exceed the message, and
nothing of it is on the server twice. A message for which a `read`, `fflush` or
`fclose` of the server has failed may be cut (`failed`), and is still there at most
once.

### Codecs (`CodecProofs`)

| theorem | statement |
|---|---|
| `ChunkComesBack`, `EscapeComesBack` | a group of one, two or three bytes, and an escape, are decoded to what was encoded |
| `NamesComeBack` | `CodecSpec => []NameComesBack` |
| `PathsComeBack` | `CodecSpec => []PathComesBack` |
| `EncodesAllBits` | `CodecSpec => []EncodeIsBits` |
| `DecodesAllBits` | `CodecSpec => []DecodeIsBits` |

They hold for inputs of any length over any set of bytes. The states of
`CodecSpec` are the inputs, one byte longer at each step, so the only invariant
needed is the input's type; all the work is in what the functions compute.

`FlattenSeq` and `UrlDecode` are recursive functions. What they compute is found in
two steps. First, the function that the definition chooses exists, because
an entry depends only on entries with a smaller (or larger) index: `FlattenJoins`
and `Unwound` turn the definitions into equations (`Joins`, `Unwinds`). Then
induction over the natural numbers (`Induct`, which takes a set rather than an
operator and follows from the well-foundedness of `<`) gives what a reader
expects: a flattened sequence consists of its pieces one after the other (`Cuts`),
and `UrlDecode` takes one byte off whatever is left. The rest is about positions:
character `i` of the text of a name belongs to chunk `i \div 4`, byte `i` to chunk
`i \div 3`, and within a chunk both come back. Line breaks are in front of
characters at known places; removing them takes exactly these out, since no
character of the text is a line break. The two theorems about bits follow the same
way with bit numbers.

### Only model-checked

* Liveness: `StopCompletes`, `ShutdownFlushes`, `ServedInTheEnd`,
  `DestroyCompletes`, `SendReturns`, `SentIsLogged`. The prover has no rules for
  fairness and ENABLED.
* The three violations: a counterexample of one instance is all there is to show.

Every invariant and every safety property that a run checks is stated by a theorem.

## 5. What is not modelled

* **LoggerManager.** `AddLogger` tests and inserts under two locks, but
  `map::insert` keeps the first entry, so the two are harmless; the rest are
  lookups under the mutex.
* **Configuration.** Read once; its values are the constants of the modules.
* **zstd wrapper.** The library gives back what it was given. What the wrapper
  adds is in `Service`: a failure to open or read, and text that is not compressed
  and is unpacked to itself. A file that is cut in the middle of the compressed
  text counts as torn.
* **TestLogger**, `Util.hpp` of the log system beyond what the sinks use, and the
  wording and layout of messages, of the list page and of the headers other than
  the ETag.
* `GetOneByStoragePath`, which nobody calls.
* Descriptors that run out, `pthread_create` and `evbuffer_add_file` that fail,
  and memory that runs out.
* The undefined behaviour of two threads inside one `std::unordered_map` or
  vector (the pool's destructor with its manager; the manager's unlocked test of
  `m_ids`): the models take such an access for one atomic step.
