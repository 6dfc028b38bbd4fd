----------------------------- MODULE DataManager -----------------------------
(***************************************************************************)
(* The table of stored files and its copy on disk (server/DataManager.hpp, *)
(* FileUtil and JsonUtil of server/Util.hpp).                              *)
(*                                                                         *)
(* Callers run Insert or Update, which differ only in the name: change the *)
(* table under the write lock, then, with no lock held, take a snapshot    *)
(* under the read lock and write it over storage_file_.  The process may   *)
(* crash at any step; a restart runs the constructor.                      *)
(*                                                                         *)
(* A StorageInfo is its url and a version that stands for the other        *)
(* fields: the n-th record put under a url has version n, and 0 means      *)
(* that there is none.  The file is what a reader of it would find: the    *)
(* text of a whole table, whatever follows it, or the torn remains of one. *)
(***************************************************************************)
EXTENDS Naturals

CONSTANTS
  Callers,     (* the threads that call Insert and Update; the program   *)
               (* has one, the thread that runs the HTTP event loop      *)
  Urls,
  Large,       (* the urls of files whose size does not fit an int       *)
  MaxVersion,  (* bound: records stored under one url                    *)
  MayCrash,    (* the process may crash, and is restarted                *)
  MayFail      (* opening, reading or writing the file may fail          *)

ASSUME StoreAssumption ==
  /\ Large \subseteq Urls
  /\ MaxVersion \in Nat
  /\ MayCrash \in BOOLEAN /\ MayFail \in BOOLEAN

VARIABLES
  up,          (* the process runs                                       *)
  crashed,     (* history: it has been killed before                     *)
  table_,
  file,        (* storage_file_                                          *)
  pc,          (* where each caller is                                   *)
  req,         (* the url and version of each caller's record            *)
  arr,         (* each caller's snapshot of the table                    *)
  acked,       (* history: the latest version per url whose Insert has   *)
               (* returned                                               *)
  lost,        (* history: the urls whose version in acked did not come  *)
               (* back when a torn file was last loaded                  *)
  last         (* history: the last version that was given to a record   *)

vars == << up, crashed, table_, file, pc, req, arr, acked, lost, last >>

Version == 0 .. MaxVersion
Table   == [Urls -> Version]
NoTable == [u \in Urls |-> 0]

File == [kind : {"absent", "whole", "torn"}, content : Table]

CallerPC == {"idle", "getall", "open", "write", "return"}

Init ==
  /\ up = TRUE /\ crashed = FALSE
  /\ table_ = NoTable
  /\ file = [kind |-> "absent", content |-> NoTable]
  /\ pc = [c \in Callers |-> "idle"]
  /\ req \in [Callers -> [url : Urls, version : {0}]]
  /\ arr = [c \in Callers |-> NoTable]
  /\ acked = NoTable /\ lost = {}
  /\ last = NoTable

Goto(c, l) == pc' = [pc EXCEPT ![c] = l]

(* What a text can hold that has parts of two tables.                      *)
Mix(s, t) == {m \in Table : \A u \in Urls : m[u] \in {s[u], t[u]}}

------------------------------------------------------------------------------

(* Versions are not used again, not even for a record that was lost.        *)
NewVersion(u) ==
  /\ last[u] < MaxVersion
  /\ last' = [last EXCEPT ![u] = @ + 1]

(* Faulty: the record is put into a table of the caller's own, which then  *)
(* replaces the table.                                                     *)
PutIntoCopy(c) ==
  /\ up /\ pc[c] = "idle"
  /\ \E u \in Urls :
       /\ NewVersion(u)
       /\ table_' = [arr[c] EXCEPT ![u] = last'[u]]
       /\ req' = [req EXCEPT ![c] = [url |-> u, version |-> last'[u]]]
  /\ Goto(c, "getall")
  /\ UNCHANGED << up, crashed, file, arr, acked, lost >>

(* Faulty: a record that replaces an older one is not written to the file. *)
PutUnsaved(c) ==
  /\ up /\ pc[c] = "idle"
  /\ \E u \in Urls :
       /\ NewVersion(u)
       /\ table_' = [table_ EXCEPT ![u] = last'[u]]
       /\ req' = [req EXCEPT ![c] = [url |-> u, version |-> last'[u]]]
       /\ Goto(c, IF table_[u] = 0 THEN "getall" ELSE "return")
  /\ UNCHANGED << up, crashed, file, arr, acked, lost >>

(* table_[info.url_] = info, between wrlock and unlock.                    *)
Put(c) ==
  /\ up /\ pc[c] = "idle"
  /\ \E u \in Urls :
       /\ NewVersion(u)
       /\ table_' = [table_ EXCEPT ![u] = last'[u]]
       /\ req' = [req EXCEPT ![c] = [url |-> u, version |-> last'[u]]]
  /\ Goto(c, "getall")
  /\ UNCHANGED << up, crashed, file, arr, acked, lost >>

(* Faulty: the snapshot has only the caller's own record.                  *)
GetAllOwn(c) ==
  /\ pc[c] = "getall"
  /\ arr' = [arr EXCEPT ![c] =
               [u \in Urls |-> IF u = req[c].url THEN table_[u] ELSE 0]]
  /\ Goto(c, "open")
  /\ UNCHANGED << up, crashed, table_, file, req, acked, lost, last >>

(* Storage: the snapshot, between rdlock and unlock.                       *)
GetAll(c) ==
  /\ pc[c] = "getall"
  /\ arr' = [arr EXCEPT ![c] = table_]
  /\ Goto(c, "open")
  /\ UNCHANGED << up, crashed, table_, file, req, acked, lost, last >>

(* SetContent opens the file, which truncates it.                          *)
Open(c) ==
  /\ pc[c] = "open"
  /\ file' = [kind |-> "torn", content |-> NoTable]
  /\ Goto(c, "write")
  /\ UNCHANGED << up, crashed, table_, req, arr, acked, lost, last >>

(* Storage logs that SetContent failed and returns true all the same.      *)
OpenFails(c) ==
  /\ MayFail
  /\ pc[c] = "open"
  /\ Goto(c, "return")
  /\ UNCHANGED << up, crashed, table_, file, req, arr, acked, lost, last >>

(* The whole text reaches the file in one system call: in write when it is *)
(* long, in close when it fits the stream's buffer.  It starts at the first *)
(* byte, even if another caller has written since Open: the tail of a      *)
(* longer text then remains behind it, and the JSON parser ignores a tail. *)
Write(c) ==
  /\ pc[c] = "write"
  /\ file' = [kind |-> "whole", content |-> arr[c]]
  /\ Goto(c, "return")
  /\ UNCHANGED << up, crashed, table_, req, arr, acked, lost, last >>

(* What an interrupted Write leaves: the beginning of the snapshot, in     *)
(* front of what was there.                                                *)
PartlyWritten(c) ==
  [kind : {"torn"}, content : Mix(arr[c], file.content)]

(* SetContent logs that the stream has gone bad and returns true.          *)
WriteFails(c) ==
  /\ MayFail
  /\ pc[c] = "write"
  /\ file' \in PartlyWritten(c)
  /\ Goto(c, "return")
  /\ UNCHANGED << up, crashed, table_, req, arr, acked, lost, last >>

(* Insert returns true.                                                    *)
Return(c) ==
  /\ pc[c] = "return"
  /\ LET r == req[c]
     IN IF acked[r.url] < r.version
          THEN acked' = [acked EXCEPT ![r.url] = r.version] /\ lost' = lost \ {r.url}
          ELSE UNCHANGED << acked, lost >>
  /\ arr' = [arr EXCEPT ![c] = NoTable]
  /\ Goto(c, "idle")
  /\ UNCHANGED << up, crashed, table_, file, req, last >>

(* The process is killed, possibly in the middle of a Write.               *)
Crash ==
  /\ MayCrash /\ up
  /\ up' = FALSE /\ crashed' = TRUE
  /\ file' \in {file} \cup UNION {PartlyWritten(c) : c \in {d \in Callers : pc[d] = "write"}}
  /\ table_' = NoTable
  /\ pc' = [c \in Callers |-> "idle"]
  /\ arr' = [c \in Callers |-> NoTable]
  /\ UNCHANGED << req, acked, lost, last >>

(* Faulty: a number cut short in a torn file is taken for a version.       *)
LoadGarbage(f) ==
  IF f.kind = "torn"
    THEN {[u \in Urls |-> IF u \in Large THEN 0 ELSE MaxVersion + 1]}
    ELSE {f.content}

(* Faulty: of a file that is whole, too, the parser may keep only some     *)
(* records.                                                                *)
LoadSome(f) == Mix(f.content, NoTable)

(* InitLoad ignores what UnSerialize returns: of a torn file it keeps what *)
(* the parser has built before it gave up, some of the records or none.    *)
(* (A record cut in two goes into the table under an empty url, which no   *)
(* upload has; it is left out.)  If the file cannot be read, InitLoad      *)
(* returns false, and the constructor goes on with an empty table.         *)
Load(f) ==
  (IF f.kind = "torn" THEN Mix(f.content, NoTable) ELSE {f.content})
    \cup (IF MayFail THEN {NoTable} ELSE {})

(* Sizes are written as Int64 and read with asInt, which throws if one     *)
(* does not fit: nothing catches that, and the process ends without having *)
(* come up.                                                                *)
Restart ==
  /\ ~up
  /\ up' = TRUE
  /\ table_' \in Load(file)
  /\ \A u \in Large : table_'[u] = 0
  /\ lost' = IF file.kind = "torn" THEN {u \in Urls : table_'[u] < acked[u]} ELSE lost
  /\ UNCHANGED << crashed, file, pc, req, arr, acked, last >>

Next ==
  \/ \E c \in Callers :
       \/ Put(c) \/ GetAll(c) \/ Open(c) \/ OpenFails(c)
       \/ Write(c) \/ WriteFails(c) \/ Return(c)
  \/ Crash
  \/ Restart

Spec == Init /\ [][Next]_vars

(* A process that has crashed is started again.                            *)
FairSpec == Spec /\ WF_vars(Restart)

(* GetOneByURL: a reader finds a record whenever the table has one.        *)
GetOneByURL(u) == table_[u]

------------------------------------------------------------------------------
(* Properties *)

TypeOK ==
  /\ up \in BOOLEAN /\ crashed \in BOOLEAN
  /\ table_ \in Table
  /\ file \in File
  /\ pc \in [Callers -> CallerPC]
  /\ req \in [Callers -> [url : Urls, version : Version]]
  /\ arr \in [Callers -> Table]
  /\ acked \in Table /\ lost \subseteq Urls /\ last \in Table

(* The program has one caller; Reliable is that no call of the file system *)
(* fails.                                                                  *)
Reliable == ~MayFail /\ \A c, d \in Callers : c = d

(* Between truncating the file and the end of the write; and if the process *)
(* has been killed there, until it is started again.                       *)
Truncated == file.kind = "torn" /\ (~up \/ \E c \in Callers : pc[c] = "write")

(* "JSON for persistence" (DataManager.hpp:45), as far as it goes: unless  *)
(* the file is being written, it has every record whose Insert has         *)
(* returned, through any number of crashes and restarts; but for those     *)
(* that did not come back when a torn file was loaded, after a crash in    *)
(* the middle of that write.                                               *)
AckedOnDisk ==
  Reliable /\ ~Truncated =>
    \A u \in Urls \ lost : acked[u] <= file.content[u]

(* With one caller that is between two calls, a whole file is the table:   *)
(* what a restart would load is what readers are told now.                 *)
FileIsTable ==
  Reliable /\ up /\ (\A c \in Callers : pc[c] = "idle") /\ file.kind = "whole"
    => file.content = table_

(* However callers interleave and whichever of their writes fail, what is  *)
(* in the file is never ahead of the table, although it is written with no *)
(* lock held and a later snapshot may be overwritten by an earlier one.    *)
FileNotAhead ==
  ~crashed => \A u \in Urls : file.content[u] <= table_[u]

(* A reader finds every record whose Insert has returned, or a later one   *)
(* of the same url: in the process that stored it always, although all     *)
(* writes to the file may have failed; and after restarts too if no call   *)
(* of the file system fails, but for those that did not come back when a   *)
(* torn file was loaded.  What did come back stays.                        *)
LookupFindsAcked ==
  up /\ (Reliable \/ ~crashed) =>
    \A u \in Urls \ lost : acked[u] <= GetOneByURL(u)

------------------------------------------------------------------------------
(* The inductive invariant *)

DownInv == ~up => crashed /\ \A c \in Callers : pc[c] = "idle"

(* While the process runs the table is ahead of the snapshots and of the   *)
(* records that are being stored.                                          *)
TableInv ==
  up => \A c \in Callers :
          /\ pc[c] \in {"open", "write"} => \A u \in Urls : arr[c][u] <= table_[u]
          /\ pc[c] # "idle" => req[c].version <= table_[req[c].url]

(* No record has a version that has not been given out.                    *)
LastInv ==
  \A u \in Urls :
    /\ table_[u] <= last[u] /\ file.content[u] <= last[u]
    /\ \A c \in Callers : arr[c][u] <= last[u]

(* What the only caller knows of the table and the file.                   *)
SavedInv ==
  Reliable => \A c \in Callers :
    /\ pc[c] \in {"open", "write"} => arr[c] = table_
    /\ pc[c] = "write" => file.kind = "torn"
    /\ pc[c] = "return" => file.kind = "whole" /\ file.content = table_

(* The invariant from which the others follow.                             *)
IInv ==
  /\ TypeOK /\ DownInv /\ TableInv /\ LastInv /\ SavedInv
  /\ AckedOnDisk /\ FileIsTable /\ FileNotAhead /\ LookupFindsAcked

------------------------------------------------------------------------------
(* What comments say, and the code does not do *)

(* "Restore the data from the file into memory" (DataManager.hpp:86): a    *)
(* store that is started again comes up.                                   *)
RestartLoads == ~up ~> up

==============================================================================
