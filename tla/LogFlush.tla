------------------------------- MODULE LogFlush -------------------------------
(***************************************************************************)
(* Where log batches go (log_src/LogFlush.hpp, RealFlush of                *)
(* AsyncLogger.hpp): a FileFlush appends to one file, a RollFileFlush to a *)
(* file that it replaces when max_size_ has been reached, a StdoutFlush    *)
(* keeps nothing.  The worker thread gives every batch to each of them.    *)
(*                                                                         *)
(* A file has three layers: what the program has written to the stream,    *)
(* how much of it the kernel has for certain, and how much of that is on   *)
(* disk for certain.  stdio and the kernel may have handed on more: what a *)
(* killed process or a power cut leaves is chosen when it happens.  A      *)
(* batch is a sequence of messages, whole messages only.                   *)
(***************************************************************************)
EXTENDS LogMessage, Sequences, Functions
LOCAL INSTANCE FiniteSetsExt

CONSTANTS
  Flushes,      (* the order in which the builder was given the sinks    *)
  MaxSize,      (* max_size_                                             *)
  FlushLogs,    (* values that flush_log may have in config.conf         *)
  LogName,      (* filename_ of the FileFlush                            *)
  Stamps,       (* what the clock adds to the name of a rolling file     *)
  MaxCnt,       (* bound: rolling files opened by one process            *)
  MaxStarts,    (* bound: processes started, one after another           *)
  Null,         (* fs_ == nullptr                                        *)
  FlushMayFail, (* fopen, fwrite, fflush, fsync and fclose may fail      *)
  PowerMayFail  (* the machine, and not only the process, may go down    *)

Sinks == {"file", "roll"}
AppFile == [stamp |-> LogName, cnt |-> 0]
RollFiles == [stamp : Stamps, cnt : 1 .. MaxCnt]
Names == {AppFile} \cup RollFiles

ASSUME FlushAssumption ==
  /\ Flushes \in Seq(Sinks \cup {"stdout"})
  (* The state below is kept by kind: the builder is given one of each.    *)
  /\ \A i, j \in 1 .. Len(Flushes) : Flushes[i] = Flushes[j] /\ Flushes[i] \in Sinks => i = j
  /\ MaxSize \in Nat /\ MaxCnt \in Nat /\ MaxStarts \in Nat \ {0} /\ FlushLogs \subseteq Nat
  /\ LogName \notin Stamps
  /\ Null \notin Names
  /\ FlushMayFail \in BOOLEAN /\ PowerMayFail \in BOOLEAN

VARIABLES
  running,      (* the process runs                                      *)
  starts,       (* how many there have been                              *)
  flush_log,
  fs_,          (* the file each sink has open, or Null                  *)
  cur_size_, cnt_,
  files,        (* every file: its messages, and its two prefixes        *)
  at, step,     (* RealFlush: the sink (0: none), where its Flush is     *)
  batch,        (* the batch that is being written                       *)
  failed,       (* the fwrite of this batch has failed                   *)
  kept,         (* history: messages a sink's Flush has returned for,    *)
                (* with no error of fwrite, fflush or fsync              *)
  closed,       (* history: messages in each file when it was last       *)
                (* closed without an error                               *)
  since,        (* history: how much was in the rolling file when opened *)
  powerLost     (* history: there has been a power cut                   *)

config   == << flush_log, starts >>
rolling  == << cur_size_, cnt_, since >>
position == << at, step, batch, failed >>
flushVars == << running, config, fs_, rolling, files, position, kept, closed, powerLost >>

File == [data : Seq(Msg), os : Nat, disk : Nat]
NoFile == [data |-> << >>, os |-> 0, disk |-> 0]

Length(msgs) == FoldFunction(LAMBDA m, n : Bytes[m] + n, 0, msgs)

FlushInit ==
  /\ running = TRUE /\ starts = 1
  /\ flush_log \in FlushLogs
  /\ fs_ \in [Sinks -> {AppFile, Null}]
  /\ fs_["roll"] = Null /\ (fs_["file"] = Null => FlushMayFail)
  /\ cur_size_ = 0 /\ cnt_ = 1 /\ since = 0
  /\ files = [n \in Names |-> NoFile]
  /\ at = 0 /\ step = "open" /\ batch = << >> /\ failed = FALSE
  /\ kept = [s \in Sinks |-> {}] /\ closed = [n \in Names |-> {}]
  /\ powerLost = FALSE

(* The first k messages of f are left, and the kernel has them.            *)
Cut(f, k) == [data |-> SubSeq(f.data, 1, k), os |-> k, disk |-> f.disk]

(* Of each of some files no less is left than its first safe[n] messages.  *)
CutFiles(safe) ==
  \E k \in [DOMAIN safe -> 0 .. Max({Len(files[n].data) : n \in Names})] :
    /\ \A n \in DOMAIN safe : k[n] \in safe[n] .. Len(files[n].data)
    /\ files' = [n \in Names |-> IF n \in DOMAIN safe THEN Cut(files[n], k[n]) ELSE files[n]]

Opened == {fs_[s] : s \in Sinks} \ {Null}

(* fclose writes the stream out.  Nobody looks at its result: on an error  *)
(* what the kernel has not taken is lost.                                  *)
Messages(f) == {f.data[i] : i \in 1 .. Len(f.data)}

Close(names) ==
  /\ CutFiles([n \in names |-> IF FlushMayFail THEN files[n].os ELSE Len(files[n].data)])
  /\ closed' = [n \in Names |->
       IF n \in names /\ Len(files'[n].data) = Len(files[n].data)
         THEN Messages(files[n]) ELSE closed[n]]

Current == Flushes[at]

(* The loop of RealFlush comes to the i-th sink, or ends.                  *)
GoOn(i, b) ==
  /\ at' = IF i > Len(Flushes) THEN 0 ELSE i
  /\ batch' = IF i > Len(Flushes) THEN << >> ELSE b
  /\ step' = IF i <= Len(Flushes) /\ Flushes[i] = "file" THEN "write" ELSE "open"
  /\ failed' = FALSE
NextSink == GoOn(at + 1, batch)

------------------------------------------------------------------------------

RealFlush(b) ==
  /\ running /\ at = 0
  /\ Flushes # << >> /\ b # << >>
  /\ GoOn(1, b)
  /\ UNCHANGED << running, config, fs_, rolling, files, kept, closed, powerLost >>

FlushStdout ==
  /\ at > 0 /\ Current = "stdout"
  /\ NextSink
  /\ UNCHANGED << running, config, fs_, rolling, files, kept, closed, powerLost >>

(* FileFlush::Flush gives up silently if the constructor's fopen failed.   *)
FlushNoFile ==
  /\ at > 0 /\ Current = "file" /\ fs_["file"] = Null
  /\ NextSink
  /\ UNCHANGED << running, config, fs_, rolling, files, kept, closed, powerLost >>

(* Faulty: the old stream is not written out before it is replaced.        *)
OpenNextUnclosed(n) ==
  /\ n.cnt = cnt_
  /\ files' = files
  /\ closed' = [m \in Names |-> IF m = fs_["roll"] THEN Messages(files[m]) ELSE closed[m]]
  /\ fs_' = [fs_ EXCEPT !["roll"] = n]
  /\ since' = Len(files[n].data)

(* fclose of the old file; fopen in append mode of a file that may exist:  *)
(* names have no separators and cnt_ starts again with every process.      *)
OpenNext(n) ==
  /\ n.cnt = cnt_
  /\ Close({fs_["roll"]} \ {Null})
  /\ fs_' = [fs_ EXCEPT !["roll"] = n]
  /\ since' = Len(files'[n].data)

OpenFailed ==
  /\ FlushMayFail
  /\ Close({fs_["roll"]} \ {Null})
  /\ fs_' = [fs_ EXCEPT !["roll"] = Null]
  /\ since' = since

(* Faulty: the file is replaced only when it has grown past its limit.     *)
InitLogFileLate ==
  /\ at > 0 /\ Current = "roll" /\ step = "open"
  /\ IF fs_["roll"] = Null \/ cur_size_ > MaxSize
       THEN /\ cnt_ <= MaxCnt
            /\ (\E n \in RollFiles : OpenNext(n)) \/ OpenFailed
            /\ cur_size_' = 0 /\ cnt_' = cnt_ + 1
       ELSE UNCHANGED << files, closed, fs_, rolling >>
  /\ step' = "write"
  /\ UNCHANGED << running, config, at, batch, failed, kept, powerLost >>

InitLogFile ==
  /\ at > 0 /\ Current = "roll" /\ step = "open"
  /\ IF fs_["roll"] = Null \/ cur_size_ >= MaxSize
       THEN /\ cnt_ <= MaxCnt
            /\ (\E n \in RollFiles : OpenNext(n)) \/ OpenFailed
            /\ cur_size_' = 0 /\ cnt_' = cnt_ + 1
       ELSE UNCHANGED << files, closed, fs_, rolling >>
  /\ step' = "write"
  /\ UNCHANGED << running, config, at, batch, failed, kept, powerLost >>

(* Faulty: after an error the whole batch is written again.                *)
FwriteAgain ==
  /\ at > 0 /\ step = "write" /\ fs_[Current] # Null
  /\ failed' = FALSE
  /\ \E j \in 0 .. Len(batch) :
       /\ j > 0 => FlushMayFail
       /\ files' = [files EXCEPT ![fs_[Current]].data = @ \o SubSeq(batch, 1, j) \o batch]
  /\ cur_size_' = IF Current = "roll" THEN cur_size_ + Length(batch) ELSE cur_size_
  /\ step' = "sync"
  /\ UNCHANGED << running, config, fs_, cnt_, since, at, batch, kept, closed, powerLost >>

(* fwrite; on an error the stream has taken only a part of the batch.      *)
Fwrite ==
  /\ at > 0 /\ step = "write" /\ fs_[Current] # Null
  /\ \E j \in 0 .. Len(batch) :
       /\ failed' = (j < Len(batch))
       /\ failed' => FlushMayFail
       /\ files' = [files EXCEPT ![fs_[Current]].data = @ \o SubSeq(batch, 1, j)]
  /\ cur_size_' = IF Current = "roll" THEN cur_size_ + Length(batch) ELSE cur_size_
  /\ step' = "sync"
  /\ UNCHANGED << running, config, fs_, cnt_, since, at, batch, kept, closed, powerLost >>

(* How far fflush gets: 1 is fflush, 2 is fflush and fsync, else nothing.  *)
FlushedTo(f) ==
  {k \in f.os .. Len(f.data) :
     IF flush_log \in {1, 2} THEN k = Len(f.data) \/ FlushMayFail ELSE k = f.os}

(* And fsync, of what the kernel has.  (One that succeeds is taken to      *)
(* cover what an earlier one has failed on.)                               *)
SyncedTo(f, k) ==
  {d \in {k, f.disk} : IF flush_log = 2 THEN d = k \/ FlushMayFail ELSE d = f.disk}

(* No call on the stream of f has failed for this batch.                   *)
Succeeded(f, k, d) ==
  ~failed /\ (flush_log \in {1, 2} => k = Len(f.data)) /\ (flush_log = 2 => d = k)

(* Faulty: fsync without the fflush before it.                             *)
SyncUnflushed ==
  /\ at > 0 /\ step = "sync"
  /\ LET f == files[fs_[Current]]
     IN \E k \in IF flush_log = 2 THEN {f.os} ELSE FlushedTo(f) :
          \E d \in SyncedTo(f, k) :
            /\ files' = [files EXCEPT ![fs_[Current]].os = k, ![fs_[Current]].disk = d]
            /\ kept' = IF failed \/ d # k THEN kept
                       ELSE [kept EXCEPT ![Current] = @ \cup {batch[i] : i \in DOMAIN batch}]
  /\ NextSink
  /\ UNCHANGED << running, config, fs_, rolling, closed, powerLost >>

(* Errors of fflush and fsync are not looked at, or only printed.          *)
Sync ==
  /\ at > 0 /\ step = "sync"
  /\ LET f == files[fs_[Current]]
     IN \E k \in FlushedTo(f) : \E d \in SyncedTo(f, k) :
          /\ files' = [files EXCEPT ![fs_[Current]].os = k, ![fs_[Current]].disk = d]
          /\ kept' = IF Succeeded(f, k, d)
                       THEN [kept EXCEPT ![Current] = @ \cup {batch[i] : i \in DOMAIN batch}]
                       ELSE kept
  /\ NextSink
  /\ UNCHANGED << running, config, fs_, rolling, closed, powerLost >>

------------------------------------------------------------------------------

(* The process is gone: streams, counters and what was being written.      *)
Gone ==
  /\ running' = FALSE
  /\ fs_' = [s \in Sinks |-> Null]
  /\ cur_size_' = 0 /\ cnt_' = 1 /\ since' = 0
  /\ at' = 0 /\ step' = "open" /\ batch' = << >> /\ failed' = FALSE
  /\ UNCHANGED << config, kept >>

(* Killed; RollFileFlush does it to itself when it writes through a null   *)
(* stream after a failed fopen.                                            *)
Kill ==
  /\ running
  /\ CutFiles([n \in Opened |-> files[n].os])
  /\ UNCHANGED << closed, powerLost >>
  /\ Gone

PowerCut ==
  /\ PowerMayFail /\ running
  /\ CutFiles([n \in Names |-> files[n].disk])
  /\ powerLost' = TRUE /\ closed' = closed
  /\ Gone

(* The destructors close every stream.                                     *)
CloseAll ==
  /\ running /\ at = 0
  /\ Close(Opened)
  /\ powerLost' = powerLost
  /\ Gone

(* A new process: FileFlush opens its file, RollFileFlush nothing yet.     *)
Start ==
  /\ ~running /\ starts < MaxStarts
  /\ running' = TRUE /\ starts' = starts + 1
  /\ \E f \in {AppFile, Null} :
       /\ f = Null => FlushMayFail
       /\ fs_' = [fs_ EXCEPT !["file"] = f]
  /\ UNCHANGED << flush_log, rolling, files, position, kept, closed, powerLost >>

FlushStep ==
  \/ FlushStdout \/ FlushNoFile \/ InitLogFile \/ Fwrite \/ Sync
FlushFault == Kill \/ PowerCut

FlushNext ==
  \/ \E b \in Seq(Msg) : RealFlush(b)
  \/ FlushStep \/ FlushFault \/ CloseAll \/ Start

FlushSpec == FlushInit /\ [][FlushNext]_flushVars

------------------------------------------------------------------------------
(* Properties *)

FilesTypeOK ==
  /\ running \in BOOLEAN /\ powerLost \in BOOLEAN /\ failed \in BOOLEAN
  /\ flush_log \in FlushLogs /\ starts \in 1 .. MaxStarts
  /\ fs_ \in [Sinks -> Names \cup {Null}]
  /\ cnt_ \in 1 .. MaxCnt + 1
  /\ files \in [Names -> File]
  /\ \A n \in Names : files[n].disk <= files[n].os /\ files[n].os <= Len(files[n].data)
  /\ at \in 0 .. Len(Flushes) /\ step \in {"open", "write", "sync"}
  /\ batch \in Seq(Msg)
  /\ kept \in [Sinks -> SUBSET Msg] /\ closed \in [Names -> SUBSET Msg]

(* A message whose Flush has returned and was not told of an error is in a *)
(* file of that sink, in the layer that flush_log promises: on disk for 2, *)
(* whatever happens; in the kernel for 1, which a killed process survives. *)
Promised(f, i) ==
  /\ flush_log = 2 => i <= f.disk
  /\ flush_log = 1 => i <= f.os

FilesOf(s) == IF s = "file" THEN {AppFile} ELSE RollFiles

Durable ==
  \A s \in Sinks : \A m \in kept[s] :
    flush_log = 2 \/ (flush_log = 1 /\ ~powerLost) =>
      \E n \in FilesOf(s) : \E i \in 1 .. Len(files[n].data) :
        files[n].data[i] = m /\ Promised(files[n], i)

(* Killing a process costs what it has not closed, and no more: whatever    *)
(* flush_log is, what was in a file when that was closed without an error  *)
(* stays there and in the kernel, even if a later process opens the file   *)
(* again, writes to it and is killed, or fails to close it.                *)
ClosedSurvives ==
  ~powerLost =>
    \A n \in Names : \A m \in closed[n] :
      \E i \in 1 .. files[n].os : files[n].data[i] = m

(* A rolling file is never written to once this process has put max_size_  *)
(* bytes into it: it exceeds the limit by one batch at most.               *)
RollBound ==
  at > 0 /\ Current = "roll" /\ step = "write" /\ fs_["roll"] # Null =>
    LET data == files[fs_["roll"]].data
    IN Len(data) = since \/ Length(SubSeq(data, since + 1, Len(data))) < MaxSize

(* Only of a file that is open is there anything that the kernel may not   *)
(* have: what a failed fclose has not written out is gone.                 *)
ClosedFlushed ==
  \A n \in Names :
    (\A s \in Sinks : fs_[s] # n) => files[n].os = Len(files[n].data)

(* The invariant from which Durable and ClosedSurvives follow.             *)
OpenInv ==
  /\ fs_["file"] \in {AppFile, Null} /\ fs_["roll"] \in RollFiles \cup {Null}
  /\ at > 0 /\ step # "open" => Current \in Sinks
  /\ at > 0 /\ step = "sync" => fs_[Current] # Null
  /\ ~running => at = 0 /\ \A s \in Sinks : fs_[s] = Null

(* A batch that fwrite has taken is in the file.                           *)
WrittenInv ==
  at > 0 /\ step = "sync" /\ ~failed =>
    LET data == files[fs_[Current]].data
    IN \A i \in 1 .. Len(batch) : \E j \in 1 .. Len(data) : data[j] = batch[i]

(* The invariant from which RollBound follows: cur_size_ is no less than    *)
(* what this process has put into the rolling file, which is looked at     *)
(* before every write.                                                     *)
RollInv ==
  /\ cur_size_ \in Nat /\ since \in Nat
  /\ fs_["roll"] # Null =>
       LET data == files[fs_["roll"]].data
       IN since <= Len(data) /\ Length(SubSeq(data, since + 1, Len(data))) <= cur_size_
  /\ at > 0 /\ Current = "roll" /\ step = "write" /\ fs_["roll"] # Null =>
       Len(files[fs_["roll"]].data) = since \/ cur_size_ < MaxSize

FlushInv ==
  FilesTypeOK /\ OpenInv /\ WrittenInv /\ Durable /\ ClosedFlushed /\ ClosedSurvives

==============================================================================
