---------------------------- MODULE ServiceProofs ----------------------------
(***************************************************************************)
(* Theorems about Service, for any urls, uploads and responses.            *)
(***************************************************************************)
EXTENDS Service, DataManagerProofs

------------------------------------------------------------------------------
(* The store *)

(* The server uses the DataManager as its only caller: each step is one of *)
(* the DataManager, or leaves it alone.                                    *)
LEMMA StepsStore == [ServiceNext]_serviceVars => [Next]_vars
<1> SUFFICES ASSUME [ServiceNext]_serviceVars, ~UNCHANGED vars PROVE Next
  OBVIOUS
<1>1. Loop \in Callers
  BY ServiceAssumption DEF ServiceAssumption
<1>2. CASE Insert \/ Storing \/ Success
  BY <1>1, <1>2 DEF Insert, Storing, Success, Next
<1>3. CASE UploadThrows \/ Die \/ Begin
  BY <1>3 DEF UploadThrows, Die, Begin, Next
<1>4. QED
  BY <1>2, <1>3 DEF ServiceNext, serviceVars, Upload, DownloadUnknown, DownloadLow,
     DownloadDeep, WriteContent, Unpack, Reply, Remove, Answer, HandlerReturns, Send

(* What the invariant says of the tables.                                  *)
LEMMA TableTypes ==
  ASSUME IInv
  PROVE  \A u \in Urls : /\ table_[u] \in Version /\ last[u] \in Version
                         /\ file.content[u] \in Version
                         /\ table_[u] <= last[u] /\ file.content[u] <= last[u]
BY DEF IInv, TypeOK, LastInv, Table, File

(* Numbers and Torn.                                                       *)
LEMMA BodyTypes == /\ Version \subseteq Nat /\ Version \subseteq Body
                   /\ Torn \in Body /\ Torn \notin Nat /\ 0 \in Version
                   /\ "low" \in Dirs /\ "deep" \in Dirs /\ Callers = {Loop}
BY ServiceAssumption, StoreAssumption
   DEF ServiceAssumption, StoreAssumption, Version, Body, Dirs

(* Writing to a file changes its body, and that of the responses that map  *)
(* it, and nothing else of either.                                         *)
LEMMA SetFileFacts ==
  ASSUME ServiceTypeOK, NEW d \in Dirs, NEW u \in Urls, NEW b \in Body, SetFile(d, u, b)
  PROVE  /\ disk' \in [Dirs -> [Urls -> Body]]
         /\ disk'[d][u] = b
         /\ \A e \in Dirs, v \in Urls : e # d \/ v # u => disk'[e][v] = disk[e][v]
         /\ pending' \subseteq Response
         /\ \A q \in pending' : \E p \in pending :
              /\ p \in Response
              /\ q.url = p.url /\ q.version = p.version
              /\ q.mapped = p.mapped /\ q.ok = p.ok
              /\ q.body = IF d = "low" /\ p.url = u /\ p.mapped THEN b ELSE p.body
<1>1. /\ disk \in [Dirs -> [Urls -> Body]]
      /\ disk' = [disk EXCEPT ![d][u] = b]
      /\ pending \subseteq Response
  BY DEF ServiceTypeOK, SetFile
<1>2. ASSUME NEW p \in pending
      PROVE  LET q == IF d = "low" /\ p.url = u /\ p.mapped THEN [p EXCEPT !.body = b] ELSE p
             IN /\ q \in Response /\ p \in Response
                /\ q.url = p.url /\ q.version = p.version
                /\ q.mapped = p.mapped /\ q.ok = p.ok
                /\ q.body = IF d = "low" /\ p.url = u /\ p.mapped THEN b ELSE p.body
  BY <1>1, <1>2 DEF Response
<1>3. \A q \in pending' : \E p \in pending :
        q = IF d = "low" /\ p.url = u /\ p.mapped THEN [p EXCEPT !.body = b] ELSE p
  BY DEF SetFile
<1>4. QED
  BY <1>1, <1>2, <1>3

(* Steps that leave records and files alone, and add no response, keep     *)
(* what is said of responses.                                              *)
LEMMA PendingKept ==
  ASSUME PendingInv, BodyMatchesETag, pending' \subseteq pending,
         UNCHANGED << up, table_, last, dirOf >>, dirty \subseteq dirty',
         at = "remove" => UNCHANGED << at, cur >>
  PROVE  PendingInv' /\ BodyMatchesETag'
BY DEF PendingInv, BodyMatchesETag, Reliable

(* Likewise for the files and the records that a restart may load.         *)
LEMMA StoreKept ==
  ASSUME StoreInv, UNCHANGED << up, table_, file, pc, disk, dirOf, dirty >>
  PROVE  StoreInv'
BY DEF StoreInv, Leads, Reliable

(* A file may be written that belongs to the latest upload, or that is in  *)
(* low_storage while the record of its url leads to deep_storage.          *)
LEMMA Rewritten ==
  ASSUME ServiceInv, NEW d \in Dirs, NEW u \in Urls, NEW b \in Body, SetFile(d, u, b),
         UNCHANGED << up, table_, file, pc, last, dirOf >>, up,
         dirty \subseteq dirty', dirty' \subseteq dirty \cup {<< d, u >>},
         at # "remove", d = "deep" => b # 0,
         \/ << d, u >> \in dirty'
         \/ d = "low" /\ pc[Loop] = "idle" /\ table_[u] > 0 /\ dirOf[u][table_[u]] = "deep"
  PROVE  StoreInv' /\ PendingInv' /\ BodyMatchesETag'
<1>0. ServiceTypeOK /\ IInv /\ HandlerInv /\ StoreInv /\ PendingInv /\ BodyMatchesETag
  BY DEF ServiceInv
<1> DEFINE Old(q, p) == /\ p \in Response
                        /\ q.url = p.url /\ q.version = p.version
                        /\ q.mapped = p.mapped /\ q.ok = p.ok
                        /\ q.body = IF d = "low" /\ p.url = u /\ p.mapped THEN b ELSE p.body
<1>1. /\ disk' \in [Dirs -> [Urls -> Body]]
      /\ disk'[d][u] = b
      /\ \A e \in Dirs, v \in Urls : e # d \/ v # u => disk'[e][v] = disk[e][v]
      /\ \A q \in pending' : \E p \in pending : Old(q, p)
  BY <1>0, SetFileFacts
<1> HIDE DEF Old
<1>2. StoreInv'
  <2>1. ASSUME NEW v \in Urls, << "deep", v >> \in dirty' PROVE disk'["deep"][v] # 0
    BY <1>0, <1>1, <2>1, BodyTypes DEF StoreInv
  <2>2. ASSUME NEW v \in Urls, NEW n \in Version, Leads(v, n),
               v = u /\ << d, u >> \notin dirty' => n \in {0, table_[u]}
        PROVE  Leads(v, n)'
    <3>1. SUFFICES ASSUME n > 0 PROVE disk'[dirOf[v][n]][v] = n \/ << dirOf[v][n], v >> \in dirty'
      BY DEF Leads
    <3>2. dirOf[v][n] \in Dirs
      BY <1>0, <3>1, StoreAssumption DEF ServiceTypeOK, Version, StoreAssumption
    <3>3. QED
      BY <1>1, <2>2, <3>1, <3>2 DEF Leads
  <2>3. ASSUME NEW v \in Urls, Reliable
        PROVE  /\ Leads(v, table_[v])' /\ Leads(v, file.content[v])'
               /\ up /\ pc[Loop] = "idle" => table_[v] \in {0, file.content[v]}
    <3>1. /\ Leads(v, table_[v]) /\ Leads(v, file.content[v])
          /\ up /\ pc[Loop] = "idle" => table_[v] \in {0, file.content[v]}
      BY <1>0, <2>3 DEF StoreInv
    <3>2. table_[v] \in Version /\ file.content[v] \in Version
      BY <1>0, TableTypes
    <3>3. v = u /\ << d, u >> \notin dirty' => file.content[v] \in {0, table_[u]}
      BY <3>1, <3>2, BodyTypes
    <3>4. /\ \A n \in Version : n = table_[v] => Leads(v, n)'
          /\ \A n \in Version : n = file.content[v] => Leads(v, n)'
      BY <2>2, <3>1, <3>3
    <3>5. QED
      BY <3>1, <3>2, <3>4 DEF Leads
  <2>4. QED
    BY <2>1, <2>3 DEF StoreInv, Reliable
<1>3. PendingInv' /\ BodyMatchesETag'
  <2>1. SUFFICES ASSUME NEW q \in pending'
        PROVE  /\ up' /\ q.version <= last'[q.url]
               /\ q.version = last'[q.url] => q.version = table_'[q.url]
               /\ q.mapped => q.version > 0
               /\ q.version = 0 => q.body = 0
               /\ q.mapped /\ q.version = last'[q.url] => dirOf'[q.url][q.version] = "low"
               /\ Reliable /\ q.ok /\ q.version = last'[q.url] =>
                    q.body = q.version \/ << dirOf'[q.url][q.version], q.url >> \in dirty'
    BY DEF PendingInv, BodyMatchesETag, Reliable
  <2>2. PICK p \in pending : Old(q, p)
    BY <1>1
  <2>3. QED
    BY <1>0, <2>2 DEF PendingInv, BodyMatchesETag, Old
<1>4. QED
  BY <1>2, <1>3

------------------------------------------------------------------------------
(* The inductive invariant *)

(* The initial states satisfy it.                                          *)
LEMMA InitService == ServiceInit => ServiceInv
<1> SUFFICES ASSUME ServiceInit PROVE ServiceInv
  OBVIOUS
<1>1. IInv
  BY InitIInv DEF ServiceInit
<1>2. ServiceTypeOK
  <2>1. TypeOK
    BY <1>1 DEF IInv
  <2>2. dirOf \in [Urls -> [1 .. MaxVersion -> Dirs]]
    BY BodyTypes DEF ServiceInit
  <2>3. disk \in [Dirs -> [Urls -> Body]]
    BY BodyTypes DEF ServiceInit
  <2>4. cur \in [url : Urls, dir : Dirs] \cup {NoRequest}
    BY DEF ServiceInit
  <2>5. /\ at = "idle" /\ failed = FALSE /\ replies = 0
        /\ pending = {} /\ dirty = {}
    BY DEF ServiceInit
  <2>6. pending \subseteq Response /\ dirty \subseteq Dirs \X Urls
    BY <2>5
  <2>7. failed \in BOOLEAN
    BY <2>5
  <2>8. replies \in 0 .. 2
    BY <2>5
  <2>9. QED
    BY <2>1, <2>2, <2>3, <2>4, <2>5, <2>6, <2>7, <2>8 DEF ServiceTypeOK
<1>3. HandlerInv
  BY BodyTypes DEF ServiceInit, Init, HandlerInv
<1>4. StoreInv
  BY NoTableType DEF ServiceInit, Init, StoreInv, Leads
<1>5. PendingInv /\ BodyMatchesETag /\ OneReply
  BY DEF ServiceInit, PendingInv, BodyMatchesETag, OneReply
<1>6. QED
  BY <1>1, <1>2, <1>3, <1>4, <1>5 DEF ServiceInv

(* An upload begins: its file is one of those that may be torn.            *)
LEMMA UploadInv ==
  ASSUME ServiceInv, NEW u \in Urls, NEW d \in Dirs, Upload(u, d), IInv'
  PROVE  ServiceInv'
<1>0. ServiceTypeOK /\ HandlerInv
  BY DEF ServiceInv
<1>1. /\ up /\ at = "idle" /\ pc[Loop] = "idle" /\ last[u] < MaxVersion
      /\ at' = "write" /\ cur' = [url |-> u, dir |-> d]
      /\ SetFile(d, u, Torn)
      /\ dirty' = dirty \cup {<< d, u >>}
      /\ UNCHANGED << up, table_, file, pc, last, dirOf, failed, replies >>
  BY DEF Upload, Ready, vars
<1>2. Torn \in Body /\ Torn # 0
  BY BodyTypes
<1>3. disk' \in [Dirs -> [Urls -> Body]] /\ pending' \subseteq Response
  BY <1>0, <1>1, <1>2, SetFileFacts
<1>4. ServiceTypeOK'
  BY <1>0, <1>1, <1>3 DEF ServiceTypeOK, IInv
<1>5. HandlerInv' /\ OneReply'
  BY <1>0, <1>1 DEF HandlerInv, OneReply
<1>6. StoreInv' /\ PendingInv' /\ BodyMatchesETag'
  BY <1>1, <1>2, Rewritten
<1>7. QED
  BY <1>4, <1>5, <1>6 DEF ServiceInv

(* The upload is written, or the write fails.                              *)
LEMMA WriteContentInv ==
  ASSUME ServiceInv, WriteContent, IInv'
  PROVE  ServiceInv'
<1>0. ServiceTypeOK /\ IInv /\ HandlerInv
  BY DEF ServiceInv
<1> DEFINE b == IF failed' THEN Torn ELSE last[cur.url] + 1
<1>1. /\ at = "write" /\ at' = "insert"
      /\ SetFile(cur.dir, cur.url, b)
      /\ UNCHANGED << up, table_, file, pc, last, dirOf, dirty, cur, replies >>
  BY DEF WriteContent, vars
<1>2. failed' \in BOOLEAN
  BY ServiceAssumption DEF WriteContent, ServiceAssumption
<1>3. /\ cur \in [url : Urls, dir : Dirs] /\ cur.url \in Urls /\ cur.dir \in Dirs
      /\ << cur.dir, cur.url >> \in dirty /\ pc[Loop] = "idle" /\ up
      /\ last[cur.url] < MaxVersion /\ replies = 0
  BY <1>0, <1>1 DEF HandlerInv
<1>4. last[cur.url] + 1 \in Version /\ last[cur.url] + 1 # 0
  BY <1>0, <1>3, TableTypes, StoreAssumption DEF Version, StoreAssumption
<1>5. b \in Body /\ b # 0
  BY <1>4, BodyTypes
<1> HIDE DEF b
<1>6. /\ disk' \in [Dirs -> [Urls -> Body]] /\ pending' \subseteq Response
      /\ disk'[cur.dir][cur.url] = b
  BY <1>0, <1>1, <1>3, <1>5, SetFileFacts
<1>7. ServiceTypeOK'
  BY <1>0, <1>1, <1>2, <1>6 DEF ServiceTypeOK, IInv
<1>8. HandlerInv' /\ OneReply'
  BY <1>0, <1>1, <1>3, <1>6 DEF HandlerInv, OneReply, b
<1>9. StoreInv' /\ PendingInv' /\ BodyMatchesETag'
  BY <1>1, <1>3, <1>5, Rewritten
<1>10. QED
  BY <1>7, <1>8, <1>9 DEF ServiceInv

(* The record of the upload is put into the table.                         *)
LEMMA InsertInv ==
  ASSUME ServiceInv, Insert, IInv'
  PROVE  ServiceInv'
<1>0. ServiceTypeOK /\ IInv /\ HandlerInv /\ StoreInv /\ PendingInv /\ BodyMatchesETag
  BY DEF ServiceInv
<1>1. /\ at = "insert" /\ at' = "store"
      /\ dirOf' = [dirOf EXCEPT ![cur.url][last'[cur.url]] = cur.dir]
      /\ UNCHANGED << up, file, disk, dirty, cur, failed, replies, pending >>
      /\ up /\ pc[Loop] = "idle" /\ pc' = [pc EXCEPT ![Loop] = "getall"]
  BY DEF Insert, Put, Goto
<1>2. /\ cur \in [url : Urls, dir : Dirs] /\ cur.url \in Urls /\ cur.dir \in Dirs
      /\ << cur.dir, cur.url >> \in dirty /\ replies = 0
      /\ ~failed => disk[cur.dir][cur.url] = last[cur.url] + 1
  BY <1>0, <1>1 DEF HandlerInv
<1>3. PICK u \in Urls :
        /\ last[u] < MaxVersion
        /\ last' = [last EXCEPT ![u] = @ + 1]
        /\ table_' = [table_ EXCEPT ![u] = last'[u]]
        /\ req' = [req EXCEPT ![Loop] = [url |-> u, version |-> last'[u]]]
        /\ req'[Loop].url = cur.url
  BY DEF Insert, Put, NewVersion
<1>4. u = cur.url
  BY <1>0, <1>3, BodyTypes DEF IInv, TypeOK
<1>5. /\ last[u] \in Nat /\ last'[u] = last[u] + 1 /\ last'[u] \in 1 .. MaxVersion
      /\ table_'[u] = last'[u]
      /\ \A v \in Urls : v # u => last'[v] = last[v] /\ table_'[v] = table_[v]
  BY <1>0, <1>3, TableTypes, StoreAssumption
     DEF IInv, TypeOK, Table, Version, StoreAssumption
<1>6. /\ dirOf' \in [Urls -> [1 .. MaxVersion -> Dirs]]
      /\ dirOf'[u][last'[u]] = cur.dir
      /\ \A v \in Urls : \A n \in 1 .. MaxVersion :
           v # u \/ n # last'[u] => dirOf'[v][n] = dirOf[v][n]
  BY <1>0, <1>1, <1>2, <1>4, <1>5 DEF ServiceTypeOK
<1>7. ServiceTypeOK'
  BY <1>0, <1>1, <1>6 DEF ServiceTypeOK, IInv
<1>8. \A p \in pending : p.url \in Urls /\ p.version \in Version /\ p.version <= last[p.url]
  BY <1>0 DEF ServiceTypeOK, Response, PendingInv
<1>9. \A p \in pending : p.version <= last'[p.url] /\ (p.version = last'[p.url] => p.url # u)
  <2>1. TAKE p \in pending
  <2>2. p.version \in Nat /\ last[p.url] \in Nat
    BY <1>0, <1>8, BodyTypes, TableTypes
  <2>3. QED
    BY <1>5, <1>8, <2>2
<1>10. HandlerInv' /\ OneReply'
  BY <1>0, <1>1, <1>2, <1>4, <1>5, <1>6, <1>9, BodyTypes DEF HandlerInv, OneReply, IInv, TypeOK
<1>11. ASSUME NEW v \in Urls, NEW n \in Version, Leads(v, n), n <= last[v]
       PROVE  Leads(v, n)'
  BY <1>1, <1>5, <1>6, <1>11, StoreAssumption DEF Leads, Version, StoreAssumption
<1>12. StoreInv'
  <2>1. ASSUME NEW v \in Urls, Reliable
        PROVE  Leads(v, table_[v])' /\ Leads(v, file.content[v])'
    <3>1. Leads(v, table_[v]) /\ Leads(v, file.content[v])
      BY <1>0, <2>1 DEF StoreInv
    <3>2. /\ table_[v] \in Version /\ file.content[v] \in Version
          /\ table_[v] <= last[v] /\ file.content[v] <= last[v]
      BY <1>0, TableTypes
    <3>3. Leads(v, file.content[v])'
      BY <1>1, <1>11, <3>1, <3>2 DEF Leads
    <3>4. CASE v = u
      BY <1>1, <1>2, <1>4, <1>5, <1>6, <3>3, <3>4 DEF Leads
    <3>5. CASE v # u
      BY <1>5, <1>11, <3>1, <3>2, <3>3, <3>5 DEF Leads
    <3>6. QED
      BY <3>4, <3>5
  <2>2. pc'[Loop] # "idle"
    BY <1>0, <1>1, BodyTypes DEF IInv, TypeOK
  <2>3. QED
    BY <1>0, <1>1, <2>1, <2>2 DEF StoreInv, Reliable
<1>13. PendingInv' /\ BodyMatchesETag'
  <2>1. ASSUME NEW p \in pending, p.version = last'[p.url]
        PROVE  /\ p.version = last[p.url] /\ table_'[p.url] = table_[p.url]
               /\ p.version > 0 => dirOf'[p.url][p.version] = dirOf[p.url][p.version]
    BY <1>5, <1>6, <1>8, <1>9, <2>1, StoreAssumption DEF Version, StoreAssumption
  <2>2. PendingInv'
    BY <1>0, <1>1, <1>8, <1>9, <2>1, BodyTypes DEF PendingInv
  <2>3. ASSUME NEW p \in pending
        PROVE  p.version > 0 \/ p.body = p.version
    <3>1. p.version \in Nat
      BY <1>8, BodyTypes
    <3>2. p.version = 0 => p.body = 0
      BY <1>0 DEF PendingInv
    <3>3. QED
      BY <3>1, <3>2
  <2>4. QED
    BY <1>0, <1>1, <2>1, <2>2, <2>3 DEF BodyMatchesETag, Reliable
<1>14. QED
  BY <1>7, <1>10, <1>12, <1>13 DEF ServiceInv

(* A snapshot is taken, or written to the file.                            *)
LEMMA StoringInv ==
  ASSUME ServiceInv, Storing, IInv'
  PROVE  ServiceInv'
<1>0. ServiceTypeOK /\ IInv /\ HandlerInv /\ StoreInv /\ PendingInv /\ BodyMatchesETag
      /\ OneReply
  BY DEF ServiceInv
<1>1. at = "store" /\ UNCHANGED << handler, store, pending >>
  BY DEF Storing
<1>2. /\ UNCHANGED << up, table_, last >>
      /\ pc' \in {[pc EXCEPT ![Loop] = "open"], [pc EXCEPT ![Loop] = "write"],
                  [pc EXCEPT ![Loop] = "return"]}
  BY DEF Storing, GetAll, Open, OpenFails, Write, WriteFails, Goto
<1>3. pc'[Loop] # "idle"
  BY <1>0, <1>2, BodyTypes DEF IInv, TypeOK
<1>4. ServiceTypeOK'
  BY <1>0, <1>1 DEF ServiceTypeOK, IInv, handler, store
<1>5. HandlerInv' /\ OneReply'
  BY <1>0, <1>1, <1>2 DEF HandlerInv, OneReply, handler, store
<1>6. StoreInv'
  <2>1. ASSUME NEW u \in Urls, Reliable
        PROVE  file'.content[u] \in {0, table_[u], file.content[u]}
    <3>1. CASE Write(Loop)
      BY <1>0, <2>1, <3>1, BodyTypes DEF Write, IInv, SavedInv
    <3>2. CASE Open(Loop)
      BY <3>2, NoTableType DEF Open
    <3>3. CASE GetAll(Loop)
      BY <3>3 DEF GetAll
    <3>4. QED
      BY <2>1, <3>1, <3>2, <3>3 DEF Storing, OpenFails, WriteFails, Reliable
  <2>2. ASSUME NEW u \in Urls, Reliable
        PROVE  Leads(u, table_[u])' /\ Leads(u, file.content[u])'
    <3>1. Leads(u, table_[u]) /\ Leads(u, file.content[u])
      BY <1>0, <2>2 DEF StoreInv
    <3>2. QED
      BY <1>1, <1>2, <2>1, <2>2, <3>1 DEF Leads, store
  <2>3. QED
    BY <1>0, <1>1, <1>3, <2>2 DEF StoreInv, Reliable, store
<1>7. PendingInv' /\ BodyMatchesETag'
  BY <1>0, <1>1, <1>2, PendingKept DEF handler, store
<1>8. QED
  BY <1>4, <1>5, <1>6, <1>7 DEF ServiceInv

(* The upload is finished: its file is no longer one of those that may be  *)
(* torn, and the table has been saved.                                     *)
LEMMA SuccessInv ==
  ASSUME ServiceInv, Success, IInv'
  PROVE  ServiceInv'
<1>0. ServiceTypeOK /\ IInv /\ HandlerInv /\ StoreInv /\ PendingInv /\ BodyMatchesETag
  BY DEF ServiceInv
<1>1. /\ at = "store" /\ at' = "done" /\ replies' = replies + 1
      /\ dirty' = IF failed THEN dirty ELSE dirty \ {<< cur.dir, cur.url >>}
      /\ UNCHANGED << up, table_, file, last, disk, dirOf, cur, failed, pending >>
      /\ pc[Loop] = "return" /\ pc' = [pc EXCEPT ![Loop] = "idle"]
  BY DEF Success, Return, Goto
<1>2. /\ pc'[Loop] = "idle" /\ up /\ replies = 0
      /\ cur \in [url : Urls, dir : Dirs] /\ cur.url \in Urls /\ cur.dir \in Dirs
      /\ table_[cur.url] = last[cur.url]
      /\ dirOf[cur.url][last[cur.url]] = cur.dir
      /\ << cur.dir, cur.url >> \in dirty
      /\ ~failed => disk[cur.dir][cur.url] = last[cur.url]
      /\ \A p \in pending : p.url = cur.url => p.version # last[p.url]
  BY <1>0, <1>1, BodyTypes DEF HandlerInv, IInv, TypeOK
<1>3. ServiceTypeOK'
  BY <1>0, <1>1, <1>2 DEF ServiceTypeOK, IInv
<1>4. HandlerInv' /\ OneReply'
  BY <1>1, <1>2 DEF HandlerInv, OneReply
<1>5. StoreInv'
  <2>1. Reliable => file.content = table_
    BY <1>0, <1>1, BodyTypes DEF IInv, SavedInv
  <2>2. ASSUME NEW u \in Urls, Reliable
        PROVE  Leads(u, table_[u])'
    <3>1. Leads(u, table_[u])
      BY <1>0, <2>2 DEF StoreInv
    <3>2. CASE u = cur.url
      BY <1>1, <1>2, <3>1, <3>2 DEF Leads
    <3>3. CASE u # cur.url
      BY <1>1, <3>1, <3>3 DEF Leads
    <3>4. QED
      BY <3>2, <3>3
  <2>3. QED
    BY <1>0, <1>1, <2>1, <2>2 DEF StoreInv, Reliable, Leads
<1>6. PendingInv'
  BY <1>0, <1>1 DEF PendingInv
<1>7. BodyMatchesETag'
  BY <1>0, <1>1, <1>2 DEF BodyMatchesETag, Reliable
<1>8. QED
  BY <1>3, <1>4, <1>5, <1>6, <1>7 DEF ServiceInv

(* A new response about a record of the table keeps what is said of        *)
(* responses, if its body belongs to that record.                          *)
LEMMA Responded ==
  ASSUME ServiceInv, NEW u \in Urls, NEW b \in Body, NEW mapped \in BOOLEAN, NEW ok \in BOOLEAN,
         Respond(u, b, mapped, ok), up, at # "remove",
         UNCHANGED << up, table_, last, dirOf, dirty >>,
         mapped => table_[u] > 0,
         table_[u] = 0 => b = 0,
         mapped => dirOf[u][table_[u]] = "low" \/ (at' = "remove" /\ cur'.url = u),
         Reliable /\ ok => b = table_[u] \/ << dirOf[u][table_[u]], u >> \in dirty
  PROVE  PendingInv' /\ BodyMatchesETag' /\ pending' \subseteq Response
<1>0. IInv /\ ServiceTypeOK /\ PendingInv /\ BodyMatchesETag
  BY DEF ServiceInv
<1> DEFINE r == [url |-> u, version |-> table_[u], body |-> b, mapped |-> mapped, ok |-> ok]
<1>1. /\ r.url = u /\ r.version = table_[u] /\ r.body = b
      /\ r.mapped = mapped /\ r.ok = ok
  OBVIOUS
<1>2. r \in Response
  <2>1. table_[u] \in Version
    BY <1>0, TableTypes
  <2>2. QED
    BY <2>1 DEF Response
<1>3. pending' = pending \cup {r} /\ pending \subseteq Response
  BY <1>0 DEF Respond, ServiceTypeOK
<1> HIDE DEF r
<1>4. table_[u] <= last[u]
  BY <1>0, TableTypes
<1>5. PendingInv'
  <2>1. ASSUME NEW p \in pending
        PROVE  /\ p.version <= last[p.url]
               /\ p.version = last[p.url] => p.version = table_[p.url]
               /\ p.mapped => p.version > 0
               /\ p.version = 0 => p.body = 0
               /\ p.mapped /\ p.version = last[p.url] => dirOf[p.url][p.version] = "low"
    BY <1>0 DEF PendingInv
  <2>2. QED
    BY <1>1, <1>3, <1>4, <2>1 DEF PendingInv
<1>6. BodyMatchesETag'
  BY <1>0, <1>1, <1>3 DEF BodyMatchesETag, Reliable
<1>7. QED
  BY <1>2, <1>3, <1>5, <1>6

(* A download of an unknown file.                                          *)
LEMMA DownloadUnknownInv ==
  ASSUME ServiceInv, NEW u \in Urls, DownloadUnknown(u), IInv'
  PROVE  ServiceInv'
<1>0. ServiceTypeOK /\ HandlerInv /\ StoreInv
  BY DEF ServiceInv
<1>1. /\ up /\ at = "idle" /\ pc[Loop] = "idle" /\ table_[u] = 0
      /\ Respond(u, 0, FALSE, TRUE)
      /\ at' = "done" /\ replies' = replies + 1 /\ replies = 0
      /\ UNCHANGED << up, table_, file, pc, last, disk, dirOf, dirty, cur, failed >>
  BY <1>0 DEF DownloadUnknown, Ready, vars, store, HandlerInv
<1>2. PendingInv' /\ BodyMatchesETag' /\ pending' \subseteq Response
  BY <1>1, BodyTypes, Responded
<1>3. ServiceTypeOK'
  BY <1>0, <1>1, <1>2 DEF ServiceTypeOK, IInv
<1>4. HandlerInv' /\ OneReply' /\ StoreInv'
  BY <1>0, <1>1, StoreKept DEF HandlerInv, OneReply
<1>5. QED
  BY <1>2, <1>3, <1>4 DEF ServiceInv

(* A download from low_storage.                                            *)
LEMMA DownloadLowInv ==
  ASSUME ServiceInv, NEW u \in Urls, DownloadLow(u), IInv'
  PROVE  ServiceInv'
<1>0. ServiceTypeOK /\ IInv /\ HandlerInv /\ StoreInv /\ PendingInv /\ BodyMatchesETag
  BY DEF ServiceInv
<1>1. /\ up /\ at = "idle" /\ pc[Loop] = "idle" /\ table_[u] > 0
      /\ dirOf[u][table_[u]] = "low"
      /\ \/ pending' = pending
         \/ Respond(u, disk["low"][u], TRUE, TRUE)
      /\ at' = "done" /\ replies' = replies + 1 /\ replies = 0
      /\ UNCHANGED << up, table_, file, pc, last, disk, dirOf, dirty, cur, failed >>
  BY <1>0 DEF DownloadLow, Ready, vars, store, HandlerInv
<1>2. PendingInv' /\ BodyMatchesETag' /\ pending' \subseteq Response
  <2>1. CASE pending' = pending
    BY <1>0, <1>1, <2>1, PendingKept DEF ServiceTypeOK
  <2>2. CASE Respond(u, disk["low"][u], TRUE, TRUE)
    <3>1. disk["low"][u] \in Body
      BY <1>0, BodyTypes DEF ServiceTypeOK
    <3>2. Reliable => disk["low"][u] = table_[u] \/ << dirOf[u][table_[u]], u >> \in dirty
      BY <1>0, <1>1 DEF StoreInv, Leads
    <3>3. table_[u] # 0
      BY <1>1
    <3>4. QED
      BY <1>1, <2>2, <3>1, <3>2, <3>3, Responded
  <2>3. QED
    BY <1>1, <2>1, <2>2
<1>3. ServiceTypeOK'
  BY <1>0, <1>1, <1>2 DEF ServiceTypeOK, IInv
<1>4. HandlerInv' /\ OneReply' /\ StoreInv'
  BY <1>0, <1>1, StoreKept DEF HandlerInv, OneReply
<1>5. QED
  BY <1>2, <1>3, <1>4 DEF ServiceInv

(* A download from deep_storage: the unpacked file is opened, or not.      *)
LEMMA DownloadDeepInv ==
  ASSUME ServiceInv, NEW u \in Urls, DownloadDeep(u), IInv'
  PROVE  ServiceInv'
<1>0. ServiceTypeOK /\ IInv /\ HandlerInv /\ StoreInv /\ PendingInv /\ BodyMatchesETag
      /\ OneReply
  BY DEF ServiceInv
<1>1. /\ up /\ at = "idle" /\ pc[Loop] = "idle" /\ table_[u] > 0
      /\ dirOf[u][table_[u]] = "deep"
      /\ cur' = [url |-> u, dir |-> "deep"] /\ replies = 0
      /\ UNCHANGED << up, table_, file, pc, last, dirOf, dirty, replies >>
  BY <1>0 DEF DownloadDeep, Ready, vars, HandlerInv
<1>2. /\ cur' \in [url : Urls, dir : Dirs] /\ cur'.url = u
  BY <1>1, BodyTypes
<1>3. CASE GetContent(u, TRUE) /\ SetFile("low", u, Torn) /\ at' = "unpack"
  <2>1. failed' = FALSE
    BY <1>3 DEF GetContent
  <2>2. Torn \in Body
    BY BodyTypes
  <2>3. disk' \in [Dirs -> [Urls -> Body]] /\ pending' \subseteq Response
    BY <1>0, <1>3, <2>2, BodyTypes, SetFileFacts
  <2>4. ServiceTypeOK'
    BY <1>0, <1>1, <1>2, <1>3, <2>1, <2>3 DEF ServiceTypeOK, IInv
  <2>5. HandlerInv' /\ OneReply'
    BY <1>0, <1>1, <1>2, <1>3, <2>1 DEF HandlerInv, OneReply
  <2>6. StoreInv' /\ PendingInv' /\ BodyMatchesETag'
    BY <1>1, <1>3, <2>2, BodyTypes, Rewritten
  <2>7. QED
    BY <2>4, <2>5, <2>6 DEF ServiceInv
<1>4. CASE GetContent(u, FALSE) /\ UNCHANGED << disk, pending >> /\ at' = "reply"
  <2>1. failed' = (disk["deep"][u] # 0)
    BY <1>4 DEF GetContent
  <2>2. failed' \in BOOLEAN
    BY <2>1
  <2>3. ServiceTypeOK'
    BY <1>0, <1>1, <1>2, <1>4, <2>2 DEF ServiceTypeOK, IInv
  <2>4. ~failed' => disk["deep"][u] = 0
    BY <2>1
  <2>5. HandlerInv' /\ OneReply'
    BY <1>0, <1>1, <1>2, <1>4, <2>4 DEF HandlerInv, OneReply
  <2>6. StoreInv' /\ PendingInv' /\ BodyMatchesETag'
    BY <1>0, <1>1, <1>4, StoreKept, PendingKept
  <2>7. QED
    BY <2>3, <2>5, <2>6 DEF ServiceInv
<1>5. QED
  BY <1>3, <1>4 DEF DownloadDeep, UnCompress

(* The file is unpacked, or it fails.                                      *)
LEMMA UnpackInv ==
  ASSUME ServiceInv, Unpack, IInv'
  PROVE  ServiceInv'
<1>0. ServiceTypeOK /\ HandlerInv
  BY DEF ServiceInv
<1> DEFINE b == IF failed' THEN Torn ELSE disk["deep"][cur.url]
<1>1. /\ at = "unpack" /\ at' = "reply"
      /\ SetFile("low", cur.url, b)
      /\ UNCHANGED << up, table_, file, pc, last, dirOf, dirty, cur, replies >>
  BY DEF Unpack, vars
<1>2. failed' \in BOOLEAN
  BY ServiceAssumption DEF Unpack, ServiceAssumption
<1>3. /\ cur \in [url : Urls, dir : Dirs] /\ cur.url \in Urls
      /\ table_[cur.url] > 0 /\ dirOf[cur.url][table_[cur.url]] = "deep"
      /\ pc[Loop] = "idle" /\ up /\ replies = 0
  BY <1>0, <1>1 DEF HandlerInv
<1>4. b \in Body
  BY <1>0, <1>3, BodyTypes DEF ServiceTypeOK
<1>5. /\ ~failed' => b = disk["deep"][cur.url]
  OBVIOUS
<1> HIDE DEF b
<1>6. /\ disk' \in [Dirs -> [Urls -> Body]] /\ pending' \subseteq Response
      /\ disk'["low"][cur.url] = b
      /\ disk'["deep"][cur.url] = disk["deep"][cur.url]
  BY <1>0, <1>1, <1>3, <1>4, BodyTypes, SetFileFacts
<1>7. ServiceTypeOK'
  BY <1>0, <1>1, <1>2, <1>6 DEF ServiceTypeOK, IInv
<1>8. HandlerInv' /\ OneReply'
  BY <1>0, <1>1, <1>3, <1>5, <1>6 DEF HandlerInv, OneReply
<1>9. StoreInv' /\ PendingInv' /\ BodyMatchesETag'
  BY <1>1, <1>3, <1>4, BodyTypes, Rewritten
<1>10. QED
  BY <1>7, <1>8, <1>9 DEF ServiceInv

(* The answer to a download from deep_storage.                             *)
LEMMA ReplyInv ==
  ASSUME ServiceInv, Reply, IInv'
  PROVE  ServiceInv'
<1>0. ServiceTypeOK /\ IInv /\ HandlerInv /\ StoreInv /\ PendingInv /\ BodyMatchesETag
  BY DEF ServiceInv
<1>1. /\ at = "reply" /\ up /\ pc[Loop] = "idle" /\ replies = 0
      /\ cur \in [url : Urls, dir : Dirs] /\ cur.url \in Urls
      /\ table_[cur.url] > 0 /\ dirOf[cur.url][table_[cur.url]] = "deep"
      /\ ~failed => disk["deep"][cur.url] \in {0, disk["low"][cur.url]}
      /\ UNCHANGED << up, table_, file, pc, last, disk, dirOf, dirty, cur, failed >>
  BY <1>0 DEF Reply, HandlerInv, vars, store
<1>2. StoreInv'
  BY <1>0, <1>1, StoreKept
<1>3. /\ table_[cur.url] # 0
      /\ Reliable /\ ~failed =>
           /\ disk["low"][cur.url] # 0
           /\ \/ disk["low"][cur.url] = table_[cur.url]
              \/ << "deep", cur.url >> \in dirty
  <2>1. table_[cur.url] # 0
    BY <1>1
  <2>2. Reliable => \/ disk["deep"][cur.url] = table_[cur.url]
                    \/ << "deep", cur.url >> \in dirty
    BY <1>0, <1>1 DEF StoreInv, Leads
  <2>3. Reliable => disk["deep"][cur.url] # 0
    BY <1>0, <1>1, <2>1, <2>2 DEF StoreInv
  <2>4. QED
    BY <1>1, <2>1, <2>2, <2>3
<1>4. CASE disk["low"][cur.url] = 0
  <2>1. pending' = pending /\ replies' = 2 /\ at' = "done"
    BY <1>1, <1>4 DEF Reply
  <2>2. PendingInv' /\ BodyMatchesETag'
    BY <1>0, <1>1, <2>1, PendingKept
  <2>3. OneReply'
    BY <1>1, <1>3, <1>4 DEF OneReply, Reliable
  <2>4. ServiceTypeOK' /\ HandlerInv'
    BY <1>0, <1>1, <2>1 DEF ServiceTypeOK, HandlerInv, IInv
  <2>5. QED
    BY <1>2, <2>2, <2>3, <2>4 DEF ServiceInv
<1>5. CASE disk["low"][cur.url] # 0
  <2>1. /\ Respond(cur.url, disk["low"][cur.url], TRUE, ~failed)
        /\ replies' = replies + 1 /\ at' = "remove"
    BY <1>5 DEF Reply
  <2>2. disk["low"][cur.url] \in Body
    BY <1>0, <1>1, BodyTypes DEF ServiceTypeOK
  <2>3. (~failed) \in BOOLEAN
    OBVIOUS
  <2>4. Reliable /\ ~failed => \/ disk["low"][cur.url] = table_[cur.url]
                               \/ << dirOf[cur.url][table_[cur.url]], cur.url >> \in dirty
    BY <1>1, <1>3
  <2>5. PendingInv' /\ BodyMatchesETag' /\ pending' \subseteq Response
    BY <1>1, <1>3, <2>1, <2>2, <2>3, <2>4, Responded
  <2>6. ServiceTypeOK' /\ HandlerInv' /\ OneReply'
    BY <1>0, <1>1, <2>1, <2>5 DEF ServiceTypeOK, HandlerInv, OneReply, IInv
  <2>7. QED
    BY <1>2, <2>5, <2>6 DEF ServiceInv
<1>6. QED
  BY <1>4, <1>5

(* The unpacked file is removed, of which nobody makes a copy.             *)
LEMMA RemoveInv ==
  ASSUME ServiceInv, Remove, IInv'
  PROVE  ServiceInv'
<1>0. ServiceTypeOK /\ IInv /\ HandlerInv /\ StoreInv /\ PendingInv /\ BodyMatchesETag
      /\ OneReply
  BY DEF ServiceInv
<1>1. /\ at = "remove" /\ at' = "done" /\ up /\ pc[Loop] = "idle"
      /\ cur \in [url : Urls, dir : Dirs] /\ cur.url \in Urls
      /\ table_[cur.url] > 0 /\ dirOf[cur.url][table_[cur.url]] = "deep"
      /\ disk' = [disk EXCEPT !["low"][cur.url] = 0]
      /\ pending' = {IF p.url = cur.url THEN [p EXCEPT !.mapped = FALSE] ELSE p : p \in pending}
      /\ UNCHANGED << up, table_, file, pc, last, dirOf, dirty, cur, failed, replies >>
  BY <1>0 DEF Remove, HandlerInv, vars
<1>2. /\ disk' \in [Dirs -> [Urls -> Body]]
      /\ \A u \in Urls : disk'["deep"][u] = disk["deep"][u]
      /\ \A e \in Dirs, u \in Urls : u # cur.url => disk'[e][u] = disk[e][u]
  BY <1>0, <1>1, BodyTypes DEF ServiceTypeOK
<1> DEFINE Old(q, p) == /\ q \in Response
                        /\ q.url = p.url /\ q.version = p.version
                        /\ q.ok = p.ok /\ q.body = p.body
                        /\ q.mapped = (p.mapped /\ p.url # cur.url)
<1>3. \A q \in pending' : \E p \in pending : Old(q, p)
  <2>1. ASSUME NEW p \in pending
        PROVE  Old(IF p.url = cur.url THEN [p EXCEPT !.mapped = FALSE] ELSE p, p)
    <3>1. p \in Response
      BY <1>0 DEF ServiceTypeOK
    <3>2. CASE p.url = cur.url
      <4>1. [p EXCEPT !.mapped = FALSE] \in Response
        BY <3>1 DEF Response
      <4>2. QED
        BY <3>1, <3>2, <4>1 DEF Response
    <3>3. CASE p.url # cur.url
      <4>1. p.mapped \in BOOLEAN
        BY <3>1 DEF Response
      <4>2. QED
        BY <3>1, <3>3, <4>1
    <3>4. QED
      BY <3>2, <3>3
  <2>2. \A q \in pending' : \E p \in pending :
          q = IF p.url = cur.url THEN [p EXCEPT !.mapped = FALSE] ELSE p
    BY <1>1
  <2> HIDE DEF Old
  <2>3. QED
    BY <2>1, <2>2
<1>4. ServiceTypeOK'
  <2>1. pending' \subseteq Response
    BY <1>3
  <2>2. QED
    BY <1>0, <1>1, <1>2, <2>1 DEF ServiceTypeOK, IInv
<1> HIDE DEF Old
<1>5. HandlerInv' /\ OneReply'
  BY <1>0, <1>1 DEF HandlerInv, OneReply
<1>6. StoreInv'
  <2>1. ASSUME NEW u \in Urls, NEW n \in Version, Leads(u, n),
               u = cur.url => n \in {0, table_[u]}
        PROVE  Leads(u, n)'
    <3>1. SUFFICES ASSUME n > 0 PROVE disk'[dirOf[u][n]][u] = n \/ << dirOf[u][n], u >> \in dirty
      BY <1>1 DEF Leads
    <3>2. dirOf[u][n] \in Dirs
      BY <1>0, <3>1, StoreAssumption DEF ServiceTypeOK, Version, StoreAssumption
    <3>3. QED
      BY <1>1, <1>2, <2>1, <3>1, <3>2 DEF Leads
  <2>2. ASSUME NEW u \in Urls, Reliable
        PROVE  /\ Leads(u, table_[u])' /\ Leads(u, file.content[u])'
               /\ table_[u] \in {0, file.content[u]}
    <3>1. /\ Leads(u, table_[u]) /\ Leads(u, file.content[u])
          /\ table_[u] \in {0, file.content[u]}
      BY <1>0, <1>1, <2>2 DEF StoreInv
    <3>2. table_[u] \in Version /\ file.content[u] \in Version
      BY <1>0, TableTypes
    <3>3. u = cur.url => file.content[u] = table_[u]
      BY <1>1, <3>1, <3>2, BodyTypes
    <3>4. /\ \A n \in Version : n = table_[u] => Leads(u, n)'
          /\ \A n \in Version : n = file.content[u] => Leads(u, n)'
      BY <2>1, <3>1, <3>3
    <3>5. QED
      BY <1>1, <3>1, <3>2, <3>4 DEF Leads
  <2>3. QED
    BY <1>0, <1>1, <1>2, <2>2 DEF StoreInv, Reliable
<1>7. PendingInv' /\ BodyMatchesETag'
  <2>1. SUFFICES ASSUME NEW q \in pending'
        PROVE  /\ up' /\ q.version <= last'[q.url]
               /\ q.version = last'[q.url] => q.version = table_'[q.url]
               /\ q.mapped => q.version > 0
               /\ q.version = 0 => q.body = 0
               /\ q.mapped /\ q.version = last'[q.url] => dirOf'[q.url][q.version] = "low"
               /\ Reliable /\ q.ok /\ q.version = last'[q.url] =>
                    q.body = q.version \/ << dirOf'[q.url][q.version], q.url >> \in dirty'
    BY DEF PendingInv, BodyMatchesETag, Reliable
  <2>2. PICK p \in pending : Old(q, p)
    BY <1>3
  <2>3. QED
    BY <1>0, <1>1, <2>2 DEF PendingInv, BodyMatchesETag, Old
<1>8. QED
  BY <1>4, <1>5, <1>6, <1>7 DEF ServiceInv

(* The other steps of the running server: a request that is only answered, *)
(* the return to the event loop, and a response that has been sent.        *)
LEMMA OthersInv ==
  ASSUME ServiceInv, Answer \/ HandlerReturns \/ Send, IInv'
  PROVE  ServiceInv'
<1>0. ServiceTypeOK /\ IInv /\ HandlerInv /\ StoreInv /\ PendingInv /\ BodyMatchesETag
      /\ OneReply
  BY DEF ServiceInv
<1>1. /\ UNCHANGED << up, table_, file, pc, last, disk, dirOf, dirty >>
      /\ pending' \subseteq pending /\ at # "remove"
  BY DEF Answer, HandlerReturns, Send, Ready, vars, store
<1>2. \/ at = "idle" /\ at' = "done" /\ up /\ replies' = replies + 1 /\ UNCHANGED << cur, failed >>
      \/ at' = "idle" /\ cur' = NoRequest /\ failed' = FALSE /\ replies' = 0
      \/ UNCHANGED << at, cur, failed, replies >>
  BY DEF Answer, HandlerReturns, Send, Ready, handler
<1>3. failed' \in BOOLEAN
  BY <1>0, <1>2 DEF ServiceTypeOK
<1>4. at = "idle" => replies = 0
  BY <1>0 DEF HandlerInv
<1>5. ServiceTypeOK'
  BY <1>0, <1>1, <1>2, <1>3, <1>4 DEF ServiceTypeOK, IInv
<1>6. HandlerInv' /\ OneReply'
  <2>1. at # "store" \/ UNCHANGED << at, pending >>
    BY DEF Answer, HandlerReturns, Send, Ready, handler
  <2>2. QED
    BY <1>0, <1>1, <1>2, <1>4, <2>1 DEF HandlerInv, OneReply, Reliable
<1>7. StoreInv' /\ PendingInv' /\ BodyMatchesETag'
  BY <1>0, <1>1, StoreKept, PendingKept
<1>8. QED
  BY <1>5, <1>6, <1>7 DEF ServiceInv

(* The process is killed: what the file then has is of the table, or was   *)
(* in it.                                                                  *)
LEMMA DieInv ==
  ASSUME ServiceInv, Die, IInv'
  PROVE  ServiceInv'
<1>0. ServiceTypeOK /\ IInv /\ HandlerInv /\ StoreInv /\ PendingInv /\ BodyMatchesETag
  BY DEF ServiceInv
<1>1. /\ up' = FALSE /\ table_' = NoTable
      /\ pc' = [c \in Callers |-> "idle"]
      /\ at' = "idle" /\ cur' = NoRequest /\ failed' = FALSE /\ replies' = 0 /\ pending' = {}
      /\ UNCHANGED << last, disk, dirOf, dirty >>
  BY DEF Die, Crash, store
<1>2. failed' \in BOOLEAN
  BY <1>1
<1>3. ServiceTypeOK'
  BY <1>0, <1>1, <1>2 DEF ServiceTypeOK, IInv
<1>4. HandlerInv' /\ OneReply' /\ PendingInv' /\ BodyMatchesETag'
  BY <1>1, BodyTypes DEF HandlerInv, OneReply, PendingInv, BodyMatchesETag
<1>5. StoreInv'
  <2>1. ASSUME NEW u \in Urls, Reliable
        PROVE  file'.content[u] \in {table_[u], file.content[u]}
    <3>1. CASE file' = file
      BY <3>1
    <3>2. CASE pc[Loop] = "write" /\ file' \in PartlyWritten(Loop)
      <4>1. arr[Loop] = table_
        BY <1>0, <2>1, <3>2, BodyTypes DEF IInv, SavedInv
      <4>2. QED
        BY <1>0, <3>2, <4>1, BodyTypes, PartlyType DEF IInv
    <3>3. QED
      BY <3>1, <3>2, BodyTypes DEF Die, Crash
  <2>2. ASSUME NEW u \in Urls, Reliable
        PROVE  Leads(u, table_[u])' /\ Leads(u, file.content[u])'
    <3>1. Leads(u, table_[u]) /\ Leads(u, file.content[u])
      BY <1>0, <2>2 DEF StoreInv
    <3>2. table_'[u] = 0
      BY <1>1, <2>2, NoTableType
    <3>3. QED
      BY <1>1, <2>1, <2>2, <3>1, <3>2 DEF Leads
  <2>3. QED
    BY <1>0, <1>1, <2>2 DEF StoreInv, Reliable
<1>6. QED
  BY <1>3, <1>4, <1>5 DEF ServiceInv

(* The process is started again: every record that it loads is in the file. *)
LEMMA BeginInv ==
  ASSUME ServiceInv, Begin, IInv'
  PROVE  ServiceInv'
<1>0. ServiceTypeOK /\ IInv /\ HandlerInv /\ StoreInv /\ PendingInv /\ BodyMatchesETag
      /\ OneReply
  BY DEF ServiceInv
<1>1. /\ ~up /\ table_' \in Load(file)
      /\ UNCHANGED << file, pc, last, disk, dirOf, dirty, at, cur, failed, replies, pending >>
  BY DEF Begin, Restart, handler, store
<1>2. at = "idle" /\ pending = {}
  BY <1>0, <1>1 DEF HandlerInv, PendingInv
<1>3. ServiceTypeOK'
  BY <1>0, <1>1 DEF ServiceTypeOK, IInv
<1>4. HandlerInv' /\ OneReply' /\ PendingInv' /\ BodyMatchesETag'
  BY <1>0, <1>1, <1>2 DEF HandlerInv, OneReply, PendingInv, BodyMatchesETag
<1>5. StoreInv'
  <2>1. file \in File
    BY <1>0 DEF IInv, TypeOK
  <2>2. \A u \in Urls : table_'[u] \in {0, file.content[u]}
    BY <1>1, <2>1, LoadType
  <2>3. ASSUME NEW u \in Urls, Reliable
        PROVE  Leads(u, table_[u])' /\ Leads(u, file.content[u])'
    <3>1. Leads(u, file.content[u])
      BY <1>0, <2>3 DEF StoreInv
    <3>2. QED
      BY <1>1, <2>2, <2>3, <3>1 DEF Leads
  <2>4. QED
    BY <1>0, <1>1, <2>2, <2>3 DEF StoreInv, Reliable
<1>6. QED
  BY <1>3, <1>4, <1>5 DEF ServiceInv

(* Every step keeps the invariant.                                         *)
LEMMA NextService == ServiceInv /\ [ServiceNext]_serviceVars => ServiceInv'
<1> SUFFICES ASSUME ServiceInv, [ServiceNext]_serviceVars PROVE ServiceInv'
  OBVIOUS
<1>1. IInv'
  BY StepsStore, NextIInv DEF ServiceInv
<1>2. CASE UNCHANGED serviceVars
  <2>1. UNCHANGED << up, table_, file, pc, last, disk, dirOf, dirty, at, cur, failed,
                     replies, pending >>
    BY <1>2 DEF serviceVars, vars, handler, store
  <2>2. StoreInv' /\ PendingInv' /\ BodyMatchesETag'
    BY <2>1, StoreKept, PendingKept DEF ServiceInv
  <2>3. HandlerInv' /\ OneReply'
    BY <2>1 DEF ServiceInv, HandlerInv, OneReply
  <2>4. ServiceTypeOK'
    BY <1>1, <2>1 DEF ServiceInv, ServiceTypeOK, IInv
  <2>5. QED
    BY <1>1, <2>2, <2>3, <2>4 DEF ServiceInv
<1>3. CASE ServiceNext
  BY <1>1, <1>3, UploadInv, WriteContentInv, InsertInv, StoringInv, SuccessInv,
     DownloadUnknownInv, DownloadLowInv, DownloadDeepInv, UnpackInv, ReplyInv, RemoveInv,
     OthersInv, DieInv, BeginInv DEF ServiceNext, UploadThrows
<1>4. QED
  BY <1>2, <1>3

------------------------------------------------------------------------------
(* Theorems *)

(* The server keeps its invariant.                                         *)
THEOREM ServiceInvariance == ServiceSpec => []ServiceInv
BY InitService, NextService, PTL DEF ServiceSpec

(* Every variable keeps its type.                                          *)
THEOREM ServiceTypeCorrect == ServiceSpec => []ServiceTypeOK
<1>1. ServiceInv => ServiceTypeOK
  BY DEF ServiceInv
<1>2. QED
  BY <1>1, ServiceInvariance, PTL

(* Every record leads to the body it was stored with, for any uploads to   *)
(* either directory, downloads, crashes and restarts.                      *)
THEOREM RecordsServed == ServiceSpec => []Served
<1>1. ServiceInv => Served
  BY DEF ServiceInv, StoreInv, Leads, Served
<1>2. QED
  BY <1>1, ServiceInvariance, PTL

(* A response has the body of the record that its ETag was made from,      *)
(* until a newer file is stored under its url.                             *)
THEOREM BodiesMatch == ServiceSpec => []BodyMatchesETag
<1>1. ServiceInv => BodyMatchesETag
  BY DEF ServiceInv
<1>2. QED
  BY <1>1, ServiceInvariance, PTL

(* No request is answered twice, unless a stored file has failed.          *)
THEOREM AnswersOnce == ServiceSpec => []OneReply
<1>1. ServiceInv => OneReply
  BY DEF ServiceInv
<1>2. QED
  BY <1>1, ServiceInvariance, PTL

(* The server uses the DataManager as the DataManager allows: with it as   *)
(* the caller the store behaves as DataManager says, and what is proved of *)
(* the store holds of the server.                                          *)
THEOREM UsesStore == ServiceSpec => Spec
<1>1. ServiceInit => Init
  BY DEF ServiceInit
<1>2. QED
  BY <1>1, StepsStore, PTL DEF ServiceSpec, Spec

(* While storage_file_ is not being written it has every record whose      *)
(* upload has been answered, but for those that did not come back when a   *)
(* restart found it torn.                                                  *)
THEOREM ServiceKeepsAcked == ServiceSpec => []AckedOnDisk
BY UsesStore, KeepsAcked, PTL

(* Between two requests a whole storage_file_ is the table.                *)
THEOREM ServiceMirrorsTable == ServiceSpec => []FileIsTable
BY UsesStore, FileMirrorsTable, PTL

(* And a download finds each of them in the table.                         *)
THEOREM ServiceFindsAcked == ServiceSpec => []LookupFindsAcked
BY UsesStore, FindsAcked, PTL

==============================================================================
