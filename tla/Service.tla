------------------------------- MODULE Service -------------------------------
(***************************************************************************)
(* The HTTP server (server/Service.hpp): Upload, Download and ListShow run *)
(* one after another on the thread of the event loop, which is the only    *)
(* caller of the DataManager.  A file is stored as it is in low_storage,   *)
(* or compressed in deep_storage; both have the same url, and a compressed *)
(* file is unpacked into low_storage to be downloaded, and removed.        *)
(*                                                                         *)
(* Between two requests the loop sends responses.  The body of a response  *)
(* is the mapped file itself: what is written to the file before the       *)
(* response has been sent is what the client gets.                         *)
(*                                                                         *)
(* The body of an upload is known by the version of its record; Torn is    *)
(* any other text.  Compression and the status of a download (200, or 206  *)
(* when If-Range holds the ETag) do not change which body it is.  The ETag  *)
(* is made from the name, the size and the modification time of a record,  *)
(* in seconds: it does not tell two uploads of one size in one second      *)
(* apart.  What is followed here is the record, not its ETag.              *)
(***************************************************************************)
EXTENDS DataManager, FiniteSets, Functions

CONSTANTS
  Loop,        (* the thread of the event loop                           *)
  Torn, NoRequest,
  DiskMayFail, (* opening, reading or writing stored files may fail      *)
  MaxUploads,  (* bound: uploads in all                                  *)
  MaxPending   (* bound: responses that are being sent                   *)

Dirs  == {"low", "deep"}
Body  == Version \cup {Torn}   (* 0: there is no file                    *)

ASSUME ServiceAssumption ==
  /\ Callers = {Loop}
  /\ Torn \notin Nat
  /\ DiskMayFail \in BOOLEAN
  /\ MaxUploads \in Nat /\ MaxPending \in Nat

VARIABLES
  disk,        (* the file of each directory and url                     *)
  dirOf,       (* the directory in storage_path_ of each record          *)
  at,          (* where the handler is                                   *)
  cur,         (* its url and directory, or NoRequest                    *)
  failed,      (* history: a file has failed this request                *)
  replies,     (* calls of evhttp_send_reply for this request            *)
  pending,     (* the responses that are being sent                      *)
  dirty        (* history: files whose latest upload was interrupted, or *)
               (* could not be written                                   *)

handler == << at, cur, failed, replies >>
store   == << disk, dirOf, dirty >>
serviceVars == << vars, handler, store, pending >>

Response == [url : Urls, version : Version, body : Body, mapped : BOOLEAN, ok : BOOLEAN]

ServiceInit ==
  /\ Init
  /\ disk = [d \in Dirs |-> [u \in Urls |-> 0]]
  /\ dirOf \in [Urls -> [1 .. MaxVersion -> {"low"}]]
  /\ at = "idle"
  /\ cur = NoRequest /\ failed = FALSE /\ replies = 0
  /\ pending = {}
  /\ dirty = {}

Ready == up /\ at = "idle" /\ pc[Loop] = "idle"

(* The file is written: it is also the body of the responses that map it.  *)
SetFile(d, u, b) ==
  /\ disk' = [disk EXCEPT ![d][u] = b]
  /\ pending' = {IF d = "low" /\ p.url = u /\ p.mapped THEN [p EXCEPT !.body = b] ELSE p :
                   p \in pending}

------------------------------------------------------------------------------
(* Upload *)

(* SetContent truncates the file.                                          *)
Upload(u, d) ==
  /\ Ready /\ last[u] < MaxVersion /\ FoldFunction(+, 0, last) < MaxUploads
  /\ at' = "write" /\ cur' = [url |-> u, dir |-> d]
  /\ SetFile(d, u, Torn)
  /\ dirty' = dirty \cup {<< d, u >>}
  /\ UNCHANGED << vars, dirOf, failed, replies >>

(* SetContent returns true even if the write has failed.                   *)
WriteContent ==
  /\ at = "write"
  /\ failed' \in {FALSE, DiskMayFail}
  /\ SetFile(cur.dir, cur.url, IF failed' THEN Torn ELSE last[cur.url] + 1)
  /\ at' = "insert"
  /\ UNCHANGED << vars, dirOf, dirty, cur, replies >>

(* NewStorageInfo, and the first step of data_->Insert.                    *)
Insert ==
  /\ at = "insert"
  /\ Put(Loop) /\ req'[Loop].url = cur.url
  /\ dirOf' = [dirOf EXCEPT ![cur.url][last'[cur.url]] = cur.dir]
  /\ at' = "store"
  /\ UNCHANGED << disk, dirty, cur, failed, replies, pending >>

Storing ==
  /\ at = "store"
  /\ GetAll(Loop) \/ Open(Loop) \/ OpenFails(Loop) \/ Write(Loop) \/ WriteFails(Loop)
  /\ UNCHANGED << handler, store, pending >>

Success ==
  /\ at = "store"
  /\ Return(Loop)
  /\ at' = "done" /\ replies' = replies + 1
  /\ dirty' = IF failed THEN dirty ELSE dirty \ {<< cur.dir, cur.url >>}
  /\ UNCHANGED << disk, dirOf, cur, failed, pending >>

------------------------------------------------------------------------------
(* Download *)

Respond(u, b, mapped, ok) ==
  pending' = pending \cup
    {[url |-> u, version |-> table_[u], body |-> b, mapped |-> mapped, ok |-> ok]}

(* Nobody looks at what GetOneByURL returns: the path of an unknown file   *)
(* becomes the directory low_storage, which exists and is open for         *)
(* reading, and the response is 200 without a body.                        *)
DownloadUnknown(u) ==
  /\ Ready /\ table_[u] = 0 /\ Cardinality(pending) < MaxPending
  /\ Respond(u, 0, FALSE, TRUE)
  /\ at' = "done" /\ replies' = replies + 1
  /\ UNCHANGED << vars, store, cur, failed >>

(* Faulty: the file is removed once it is mapped, as an unpacked one is.   *)
DownloadLowRemoved(u) ==
  /\ Ready /\ table_[u] > 0 /\ dirOf[u][table_[u]] = "low"
  /\ Cardinality(pending) < MaxPending /\ disk["low"][u] # 0
  /\ Respond(u, disk["low"][u], TRUE, TRUE)
  /\ cur' = [url |-> u, dir |-> "low"] /\ at' = "remove" /\ replies' = replies + 1
  /\ UNCHANGED << vars, store, failed >>

(* One reply: the file, or 404.                                            *)
DownloadLow(u) ==
  /\ Ready /\ table_[u] > 0 /\ dirOf[u][table_[u]] = "low"
  /\ Cardinality(pending) < MaxPending
  /\ IF disk["low"][u] = 0 THEN pending' = pending
                           ELSE Respond(u, disk["low"][u], TRUE, TRUE)
  /\ at' = "done" /\ replies' = replies + 1
  /\ UNCHANGED << vars, store, cur, failed >>

(* Faulty: a file that is there already is taken for the unpacked one.     *)
DownloadDeepCached(u) ==
  /\ Ready /\ table_[u] > 0 /\ dirOf[u][table_[u]] = "deep"
  /\ Cardinality(pending) < MaxPending
  /\ IF disk["low"][u] = 0
       THEN SetFile("low", u, Torn) /\ at' = "unpack"
       ELSE UNCHANGED << disk, pending >> /\ at' = "reply"
  /\ cur' = [url |-> u, dir |-> "deep"]
  /\ UNCHANGED << vars, dirOf, dirty, failed, replies >>

(* GetContent of the stored file; a file that is there may still fail.     *)
GetContent(u, ok) ==
  /\ IF ok THEN disk["deep"][u] # 0 ELSE DiskMayFail \/ disk["deep"][u] = 0
  /\ failed' = (~ok /\ disk["deep"][u] # 0)

(* It opens the file in low_storage, or returns false.                     *)
UnCompress(u) ==
  \/ /\ GetContent(u, TRUE)
     /\ SetFile("low", u, Torn) /\ at' = "unpack"
  \/ /\ GetContent(u, FALSE)
     /\ UNCHANGED << disk, pending >> /\ at' = "reply"

(* Nobody looks at what UnCompress returns.                                *)
DownloadDeep(u) ==
  /\ Ready /\ table_[u] > 0 /\ dirOf[u][table_[u]] = "deep"
  /\ Cardinality(pending) < MaxPending
  /\ UnCompress(u)
  /\ cur' = [url |-> u, dir |-> "deep"]
  /\ UNCHANGED << vars, dirOf, dirty, replies >>

(* What is not compressed text unpacks to itself.                          *)
Unpack ==
  /\ at = "unpack"
  /\ failed' \in {FALSE, DiskMayFail}
  /\ SetFile("low", cur.url, IF failed' THEN Torn ELSE disk["deep"][cur.url])
  /\ at' = "reply"
  /\ UNCHANGED << vars, dirOf, dirty, cur, replies >>

(* 500 for a file that could not be unpacked does not return: 404 follows. *)
Reply ==
  /\ at = "reply"
  /\ IF disk["low"][cur.url] = 0
       THEN pending' = pending /\ replies' = replies + 2 /\ at' = "done"
       ELSE /\ Respond(cur.url, disk["low"][cur.url], TRUE, ~failed)
            /\ replies' = replies + 1 /\ at' = "remove"
  /\ UNCHANGED << vars, store, cur, failed >>

(* Faulty: the stored file is removed, not the unpacked one.               *)
RemoveStored ==
  /\ at = "remove" /\ at' = "done"
  /\ disk' = [disk EXCEPT !["deep"][cur.url] = 0, !["low"][cur.url] = 0]
  /\ UNCHANGED << vars, dirOf, dirty, cur, failed, replies, pending >>

(* remove: the name goes, and what is mapped stays.                        *)
Remove ==
  /\ at = "remove" /\ at' = "done"
  /\ disk' = [disk EXCEPT !["low"][cur.url] = 0]
  /\ pending' = {IF p.url = cur.url THEN [p EXCEPT !.mapped = FALSE] ELSE p : p \in pending}
  /\ UNCHANGED << vars, dirOf, dirty, cur, failed, replies >>

------------------------------------------------------------------------------
(* Other requests, the event loop, and the process *)

(* ListShow, which shows what GetAll returns; requests that GenHandler and *)
(* Upload refuse with a reply (no body, no known storage type, no such     *)
(* path); and a file that cannot be opened: one reply each.                *)
Answer ==
  /\ Ready
  /\ at' = "done" /\ replies' = replies + 1
  /\ UNCHANGED << vars, store, pending, cur, failed >>

(* The handler returns to the event loop.                                  *)
HandlerReturns ==
  /\ at = "done"
  /\ at' = "idle" /\ cur' = NoRequest /\ failed' = FALSE /\ replies' = 0
  /\ UNCHANGED << vars, store, pending >>

Send ==
  /\ Ready
  /\ \E p \in pending : pending' = pending \ {p}
  /\ UNCHANGED << vars, handler, store >>

Die ==
  /\ Crash
  /\ at' = "idle" /\ cur' = NoRequest /\ failed' = FALSE /\ replies' = 0
  /\ pending' = {}
  /\ UNCHANGED store

(* Upload, of a request without one of the headers FileName and            *)
(* StorageType, or with a name that is not base64: std::string(nullptr)    *)
(* and base64_decode throw, nothing catches it, and the process ends       *)
(* before Upload has written anything.                                     *)
UploadThrows == Ready /\ Die

Begin == Restart /\ UNCHANGED << handler, store, pending >>

ServiceNext ==
  \/ \E u \in Urls : \/ \E d \in Dirs : Upload(u, d)
                     \/ DownloadUnknown(u) \/ DownloadLow(u) \/ DownloadDeep(u)
  \/ WriteContent \/ Insert \/ Storing \/ Success
  \/ Unpack \/ Reply \/ Remove
  \/ Answer \/ HandlerReturns \/ Send \/ UploadThrows \/ Die \/ Begin

ServiceSpec == ServiceInit /\ [][ServiceNext]_serviceVars

------------------------------------------------------------------------------
(* Properties *)

ServiceTypeOK ==
  /\ TypeOK
  /\ disk \in [Dirs -> [Urls -> Body]]
  /\ dirOf \in [Urls -> [1 .. MaxVersion -> Dirs]]
  /\ at \in {"idle", "write", "insert", "store", "unpack", "reply", "remove", "done"}
  /\ cur \in [url : Urls, dir : Dirs] \cup {NoRequest}
  /\ failed \in BOOLEAN
  /\ replies \in 0 .. 2
  /\ pending \subseteq Response
  /\ dirty \subseteq Dirs \X Urls

(* Every record leads to the body with which it was stored, across uploads *)
(* of the same url to the other directory, downloads that write to and     *)
(* remove from low_storage, crashes and restarts that bring back older     *)
(* records; unless the latest upload to that very file did not finish.     *)
Served ==
  Reliable => \A u \in Urls :
    table_[u] > 0 =>
      LET d == dirOf[u][table_[u]]
      IN disk[d][u] = table_[u] \/ << d, u >> \in dirty

(* A response has the body of the record that its ETag was made from, as   *)
(* long as nothing newer has been stored under its url, and no file has    *)
(* failed.                                                                 *)
BodyMatchesETag ==
  Reliable => \A p \in pending :
    p.ok /\ p.version = last[p.url] =>
      \/ p.body = p.version
      \/ << dirOf[p.url][p.version], p.url >> \in dirty

(* A request is answered twice only if a stored file could not be unpacked *)
(* (where a return is missing), never because the handlers lose a file.    *)
OneReply == Reliable /\ ~failed => replies <= 1

------------------------------------------------------------------------------
(* The inductive invariant *)

(* What the handler relies on from one of its steps to the next.           *)
HandlerInv ==
  /\ at # "store" => pc[Loop] = "idle"
  /\ at # "idle" => up
  /\ at \notin {"idle", "done"} => cur \in [url : Urls, dir : Dirs]
  /\ at \in {"write", "insert", "store"} => << cur.dir, cur.url >> \in dirty
  /\ at \in {"write", "insert"} => last[cur.url] < MaxVersion
  /\ at = "insert" /\ ~failed => disk[cur.dir][cur.url] = last[cur.url] + 1
  /\ at = "store" =>
       /\ table_[cur.url] = last[cur.url] /\ last[cur.url] > 0
       /\ dirOf[cur.url][last[cur.url]] = cur.dir
       /\ ~failed => disk[cur.dir][cur.url] = last[cur.url]
       /\ \A p \in pending : p.url = cur.url => p.version # last[p.url]
  /\ at \in {"unpack", "reply", "remove"} =>
       table_[cur.url] > 0 /\ dirOf[cur.url][table_[cur.url]] = "deep"
  /\ at = "reply" /\ ~failed =>
       disk["deep"][cur.url] \in {0, disk["low"][cur.url]}
  /\ at \notin {"remove", "done"} => replies = 0

(* Whatever a restart may load leads to its body, and not only the table.  *)
Leads(u, v) == v > 0 => disk[dirOf[u][v]][u] = v \/ << dirOf[u][v], u >> \in dirty

StoreInv ==
  /\ \A u \in Urls : << "deep", u >> \in dirty => disk["deep"][u] # 0
  /\ Reliable => \A u \in Urls :
       /\ Leads(u, table_[u]) /\ Leads(u, file.content[u])
       /\ up /\ pc[Loop] = "idle" => table_[u] \in {0, file.content[u]}

(* A response that maps a file is about the record that file belongs to.   *)
PendingInv ==
  \A p \in pending :
    /\ up
    /\ p.version <= last[p.url]
    /\ p.version = last[p.url] => p.version = table_[p.url]
    /\ p.mapped => p.version > 0
    /\ p.version = 0 => p.body = 0
    /\ p.mapped /\ p.version = last[p.url] =>
         dirOf[p.url][p.version] = "low" \/ (at = "remove" /\ cur.url = p.url)

ServiceInv ==
  /\ ServiceTypeOK /\ IInv
  /\ HandlerInv /\ StoreInv /\ PendingInv
  /\ BodyMatchesETag /\ OneReply

==============================================================================
