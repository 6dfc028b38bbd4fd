-------------------------- MODULE DataManagerProofs --------------------------
(***************************************************************************)
(* Theorems about DataManager, for any sets of callers and urls, any       *)
(* number of records, crashes and failures.                                *)
(***************************************************************************)
EXTENDS DataManager, TLAPS

------------------------------------------------------------------------------
(* Tables and files *)

(* A mixture of two tables is a table, with values from either.            *)
LEMMA MixType ==
  ASSUME NEW s \in Table, NEW t \in Table, NEW m \in Mix(s, t)
  PROVE  m \in Table /\ \A u \in Urls : m[u] = s[u] \/ m[u] = t[u]
BY DEF Mix

(* There is a table without records.                                       *)
LEMMA NoTableType == NoTable \in Table /\ \A u \in Urls : NoTable[u] = 0
BY StoreAssumption DEF StoreAssumption, NoTable, Table, Version

(* What InitLoad makes of a file is a table with records of that file, and *)
(* all of them if the file is whole and can be read.                       *)
LEMMA LoadType ==
  ASSUME NEW f \in File, NEW t \in Load(f)
  PROVE  /\ t \in Table
         /\ \A u \in Urls : t[u] \in {0, f.content[u]}
         /\ ~MayFail /\ f.kind = "whole" => t = f.content
<1>1. f.content \in Table
  BY DEF File
<1>2. QED
  BY <1>1, NoTableType, MixType DEF Load

(* An interrupted write leaves a torn file.                                *)
LEMMA PartlyType ==
  ASSUME TypeOK, NEW c \in Callers, NEW f \in PartlyWritten(c)
  PROVE  /\ f \in File /\ f.kind = "torn"
         /\ \A u \in Urls : f.content[u] \in {arr[c][u], file.content[u]}
<1>1. arr[c] \in Table /\ file.content \in Table
  BY DEF TypeOK, File
<1>2. f.kind = "torn" /\ f.content \in Mix(arr[c], file.content)
      /\ f = [kind |-> f.kind, content |-> f.content]
  BY DEF PartlyWritten
<1>3. f.content \in Table
  BY <1>1, <1>2, MixType
<1>4. QED
  BY <1>1, <1>2, <1>3, MixType DEF File

------------------------------------------------------------------------------
(* The inductive invariant *)

(* The initial states satisfy it.                                          *)
LEMMA InitIInv == Init => IInv
<1> SUFFICES ASSUME Init PROVE IInv
  OBVIOUS
<1>1. TypeOK
  <2>1. {0} \subseteq Version
    BY StoreAssumption DEF StoreAssumption, Version
  <2>2. req \in [Callers -> [url : Urls, version : Version]]
    BY <2>1 DEF Init
  <2>3. QED
    BY <2>2, NoTableType DEF Init, TypeOK, File, CallerPC
<1>2. QED
  BY <1>1, NoTableType
     DEF Init, IInv, DownInv, TableInv, LastInv, SavedInv, AckedOnDisk, FileIsTable,
         FileNotAhead, LookupFindsAcked, GetOneByURL

(* Every step preserves it.                                                *)
LEMMA NextIInv == IInv /\ [Next]_vars => IInv'
<1> SUFFICES ASSUME IInv, [Next]_vars PROVE IInv'
  OBVIOUS
<1> USE DEF Goto
<1>1. ASSUME NEW c \in Callers, Put(c) PROVE IInv'
  <2>1. PICK u \in Urls :
          /\ last[u] < MaxVersion
          /\ last' = [last EXCEPT ![u] = @ + 1]
          /\ table_' = [table_ EXCEPT ![u] = last'[u]]
          /\ req' = [req EXCEPT ![c] = [url |-> u, version |-> last'[u]]]
    BY <1>1 DEF Put, NewVersion
  <2>2. /\ up /\ pc[c] = "idle"
        /\ pc' = [pc EXCEPT ![c] = "getall"]
        /\ UNCHANGED << up, crashed, file, arr, acked, lost >>
    BY <1>1 DEF Put
  <2>3. last[u] \in Nat /\ last'[u] = last[u] + 1 /\ last'[u] \in Version
    BY <2>1, StoreAssumption DEF IInv, TypeOK, Table, Version, StoreAssumption
  <2>4. \A v \in Urls : table_[v] \in Nat /\ table_'[v] >= table_[v]
    BY <2>1, <2>3 DEF IInv, TypeOK, LastInv, Table, Version
  <2>0. LastInv'
    BY <2>1, <2>2, <2>3 DEF IInv, TypeOK, LastInv, Table, Version, File
  <2>5. TypeOK'
    BY <2>1, <2>2, <2>3 DEF IInv, TypeOK, Table, CallerPC
  <2>6. DownInv' /\ SavedInv' /\ AckedOnDisk' /\ FileIsTable'
    BY <2>1, <2>2 DEF IInv, TypeOK, DownInv, SavedInv, AckedOnDisk, FileIsTable, Reliable, Truncated
  <2>10. LookupFindsAcked'
    BY <2>1, <2>2, <2>3, <2>4 DEF IInv, TypeOK, LookupFindsAcked, GetOneByURL, Reliable, Table, Version
  <2>7. TableInv'
    BY <2>1, <2>2, <2>3, <2>4 DEF IInv, TypeOK, TableInv, Table, Version
  <2>8. FileNotAhead'
    <3>1. \A v \in Urls : file.content[v] \in Nat
      BY DEF IInv, TypeOK, File, Table, Version
    <3>2. table_' \in Table
      BY <2>5 DEF TypeOK
    <3>3. \A v \in Urls : table_'[v] \in Nat
      BY <3>2 DEF Table, Version
    <3>4. file' = file /\ crashed' = crashed
      BY <2>2
    <3>5. QED
      BY <2>4, <3>1, <3>3, <3>4 DEF IInv, FileNotAhead
  <2>9. QED
    BY <2>0, <2>5, <2>6, <2>7, <2>8, <2>10 DEF IInv
<1>2. ASSUME NEW c \in Callers, GetAll(c) PROVE IInv'
  <2>1. TypeOK'
    BY <1>2 DEF GetAll, IInv, TypeOK, CallerPC
  <2>2. up /\ \A u \in Urls : table_[u] \in Nat
    BY <1>2 DEF GetAll, IInv, DownInv, TypeOK, Table, Version
  <2>3. DownInv' /\ TableInv'
    BY <1>2, <2>2 DEF GetAll, IInv, TypeOK, DownInv, TableInv
  <2>4. SavedInv' /\ FileIsTable' /\ FileNotAhead'
    BY <1>2 DEF GetAll, IInv, TypeOK, SavedInv, FileIsTable, FileNotAhead, Reliable
  <2>6. AckedOnDisk' /\ LookupFindsAcked'
    BY <1>2 DEF GetAll, IInv, TypeOK, AckedOnDisk, Truncated, LookupFindsAcked, GetOneByURL, Reliable
  <2>0. LastInv'
    BY <1>2 DEF GetAll, IInv, TypeOK, LastInv
  <2>5. QED
    BY <2>0, <2>1, <2>3, <2>4, <2>6 DEF IInv
<1>3. ASSUME NEW c \in Callers, Open(c) PROVE IInv'
  <2>1. TypeOK'
    BY <1>3, NoTableType DEF Open, IInv, TypeOK, CallerPC, File
  <2>2. DownInv' /\ TableInv'
    BY <1>3 DEF Open, IInv, TypeOK, DownInv, TableInv
  <2>3. SavedInv' /\ AckedOnDisk' /\ FileIsTable'
    BY <1>3 DEF Open, IInv, TypeOK, SavedInv, AckedOnDisk, Truncated, FileIsTable, Reliable
  <2>6. LookupFindsAcked'
    BY <1>3 DEF Open, IInv, LookupFindsAcked, GetOneByURL, Reliable
  <2>4. FileNotAhead'
    BY <1>3, NoTableType DEF Open, IInv, TypeOK, FileNotAhead, Table, Version
  <2>0. LastInv'
    BY <1>3, NoTableType DEF Open, IInv, TypeOK, LastInv, Table, Version
  <2>5. QED
    BY <2>0, <2>1, <2>2, <2>3, <2>4, <2>6 DEF IInv
<1>4. ASSUME NEW c \in Callers, OpenFails(c) PROVE IInv'
  <2>1. TypeOK'
    BY <1>4 DEF OpenFails, IInv, TypeOK, CallerPC
  <2>2. DownInv' /\ TableInv' /\ FileNotAhead'
    BY <1>4 DEF OpenFails, IInv, TypeOK, DownInv, TableInv, FileNotAhead
  <2>3. SavedInv' /\ AckedOnDisk' /\ FileIsTable'
    BY <1>4 DEF OpenFails, SavedInv, AckedOnDisk, FileIsTable, Reliable
  <2>5. LookupFindsAcked'
    BY <1>4 DEF OpenFails, IInv, LookupFindsAcked, GetOneByURL, Reliable
  <2>0. LastInv'
    BY <1>4 DEF OpenFails, IInv, LastInv
  <2>4. QED
    BY <2>0, <2>1, <2>2, <2>3, <2>5 DEF IInv
<1>5. ASSUME NEW c \in Callers, Write(c) PROVE IInv'
  <2>1. TypeOK'
    BY <1>5 DEF Write, IInv, TypeOK, CallerPC, File
  <2>2. DownInv' /\ TableInv'
    BY <1>5 DEF Write, IInv, TypeOK, DownInv, TableInv
  <2>3. up /\ \A u \in Urls : arr[c][u] <= table_[u]
    BY <1>5 DEF Write, IInv, DownInv, TableInv
  <2>8. LookupFindsAcked'
    BY <1>5 DEF Write, IInv, LookupFindsAcked, GetOneByURL, Reliable
  <2>4. FileNotAhead'
    BY <1>5, <2>3 DEF Write, FileNotAhead
  <2>5. Reliable => arr[c] = table_
    BY <1>5 DEF Write, IInv, SavedInv
  <2>6. SavedInv' /\ AckedOnDisk' /\ FileIsTable'
    BY <1>5, <2>3, <2>5
       DEF Write, IInv, TypeOK, SavedInv, AckedOnDisk, FileIsTable, Reliable,
           LookupFindsAcked, GetOneByURL
  <2>0. LastInv'
    BY <1>5 DEF Write, IInv, LastInv
  <2>7. QED
    BY <2>0, <2>1, <2>2, <2>4, <2>6, <2>8 DEF IInv
<1>6. ASSUME NEW c \in Callers, WriteFails(c) PROVE IInv'
  <2>1. TypeOK
    BY DEF IInv
  <2>2. /\ file' \in File
        /\ \A u \in Urls : file'.content[u] \in {arr[c][u], file.content[u]}
    BY <1>6, <2>1, PartlyType DEF WriteFails
  <2>3. TypeOK'
    BY <1>6, <2>2 DEF WriteFails, IInv, TypeOK, CallerPC
  <2>4. DownInv' /\ TableInv'
    BY <1>6 DEF WriteFails, IInv, TypeOK, DownInv, TableInv
  <2>5. \A u \in Urls : arr[c][u] <= table_[u]
    BY <1>6 DEF WriteFails, IInv, DownInv, TableInv
  <2>6. FileNotAhead'
    BY <1>6, <2>2, <2>5 DEF WriteFails, IInv, FileNotAhead
  <2>7. SavedInv' /\ AckedOnDisk' /\ FileIsTable'
    BY <1>6 DEF WriteFails, SavedInv, AckedOnDisk, FileIsTable, Reliable
  <2>9. LookupFindsAcked'
    BY <1>6 DEF WriteFails, IInv, LookupFindsAcked, GetOneByURL, Reliable
  <2>0. LastInv'
    BY <1>6, <2>2 DEF WriteFails, IInv, LastInv
  <2>8. QED
    BY <2>0, <2>3, <2>4, <2>6, <2>7, <2>9 DEF IInv
<1>7. ASSUME NEW c \in Callers, Return(c) PROVE IInv'
  <2>1. /\ up /\ req[c].url \in Urls /\ req[c].version \in Version
        /\ req[c].version <= table_[req[c].url]
    BY <1>7 DEF Return, IInv, TypeOK, DownInv, TableInv
  <2>2. /\ pc' = [pc EXCEPT ![c] = "idle"]
        /\ arr' = [arr EXCEPT ![c] = NoTable]
        /\ UNCHANGED << up, crashed, table_, file, req, last >>
    BY <1>7 DEF Return
  <2>3. /\ acked' \in Table /\ lost' \subseteq Urls
        /\ \A u \in Urls :
             \/ acked'[u] <= table_[u]
             \/ acked'[u] = acked[u] /\ (u \in lost' <=> u \in lost)
    BY <1>7, <2>1 DEF Return, IInv, TypeOK, Table, Version
  <2>9. LookupFindsAcked'
    BY <2>2, <2>3 DEF IInv, LookupFindsAcked, GetOneByURL, Reliable
  <2>4. TypeOK'
    BY <2>2, <2>3, NoTableType DEF IInv, TypeOK, CallerPC
  <2>5. DownInv' /\ TableInv' /\ FileNotAhead'
    BY <2>2, <2>3 DEF IInv, TypeOK, DownInv, TableInv, FileNotAhead
  <2>6. Reliable => file.kind = "whole" /\ file.content = table_
    BY <1>7 DEF Return, IInv, SavedInv
  <2>7. SavedInv' /\ AckedOnDisk' /\ FileIsTable'
    BY <2>1, <2>2, <2>6, <2>9
       DEF IInv, TypeOK, SavedInv, AckedOnDisk, FileIsTable, Reliable,
           LookupFindsAcked, GetOneByURL
  <2>0. LastInv'
    BY <2>2, NoTableType DEF IInv, TypeOK, LastInv, Table, Version
  <2>8. QED
    BY <2>0, <2>4, <2>5, <2>7, <2>9 DEF IInv
<1>8. ASSUME Crash PROVE IInv'
  <2>1. TypeOK
    BY DEF IInv
  <2>2. /\ file' = file \/ (file' \in File /\ file'.kind = "torn")
        /\ \A u \in Urls :
             file'.content[u] = file.content[u]
               \/ \E c \in Callers : file'.content[u] = arr[c][u]
    BY <1>8, <2>1, PartlyType DEF Crash
  <2>3. TypeOK'
    BY <1>8, <2>2, NoTableType DEF Crash, IInv, TypeOK, CallerPC
  <2>4. DownInv' /\ TableInv' /\ SavedInv' /\ FileNotAhead' /\ LookupFindsAcked'
    BY <1>8 DEF Crash, DownInv, TableInv, SavedInv, FileNotAhead, LookupFindsAcked
  <2>5. AckedOnDisk' /\ FileIsTable'
    BY <1>8, <2>2 DEF Crash, IInv, AckedOnDisk, SavedInv, Truncated, FileIsTable, Reliable
  <2>0. LastInv'
    <3>1. /\ table_' = NoTable /\ last' = last
          /\ arr' = [c \in Callers |-> NoTable]
      BY <1>8 DEF Crash
    <3>2. /\ \A u \in Urls : last[u] \in Nat /\ table_'[u] = 0
          /\ \A c \in Callers, u \in Urls : arr'[c][u] = 0
      BY <3>1, NoTableType DEF IInv, TypeOK, Table, Version
    <3>3. QED
      BY <2>2, <3>1, <3>2 DEF IInv, LastInv
  <2>6. QED
    BY <2>0, <2>3, <2>4, <2>5 DEF IInv
<1>9. ASSUME Restart PROVE IInv'
  <2>1. /\ ~up /\ up' = TRUE /\ table_' \in Load(file)
        /\ lost' = IF file.kind = "torn" THEN {u \in Urls : table_'[u] < acked[u]} ELSE lost
        /\ UNCHANGED << crashed, file, pc, req, arr, acked, last >>
    BY <1>9 DEF Restart
  <2>2. /\ table_' \in Table
        /\ \A u \in Urls : table_'[u] \in {0, file.content[u]}
        /\ ~MayFail /\ file.kind = "whole" => table_' = file.content
    BY <2>1, LoadType DEF IInv, TypeOK
  <2>3. /\ lost' \subseteq Urls
        /\ file.kind # "torn" => lost' = lost
        /\ file.kind = "torn" => \A u \in Urls \ lost' : ~(table_'[u] < acked[u])
    BY <2>1 DEF IInv, TypeOK
  <2>9. Reliable /\ file.kind # "torn" => table_' = file.content
    BY <2>2, <2>1, NoTableType DEF Reliable, Load
  <2>4. crashed /\ \A c \in Callers : pc[c] = "idle"
    BY <2>1 DEF IInv, DownInv
  <2>5. TypeOK'
    BY <2>1, <2>2, <2>3 DEF IInv, TypeOK
  <2>6. DownInv' /\ TableInv' /\ SavedInv' /\ FileNotAhead'
    BY <2>1, <2>4 DEF DownInv, TableInv, SavedInv, FileNotAhead
  <2>7. AckedOnDisk' /\ FileIsTable' /\ LookupFindsAcked'
    <3>1. \A u \in Urls : /\ table_'[u] \in Nat /\ acked[u] \in Nat
                          /\ file.content[u] \in Nat
      BY <2>2, <2>3 DEF IInv, TypeOK, Table, Version, File
    <3>2. \A u \in Urls : table_'[u] <= file.content[u]
      BY <2>2, <3>1
    <3>3. Reliable => \A u \in Urls \ lost' : acked[u] <= table_'[u]
      <4>1. CASE file.kind = "torn"
        BY <2>3, <3>1, <4>1
      <4>2. CASE file.kind # "torn"
        BY <2>3, <2>9, <4>2 DEF IInv, AckedOnDisk, Truncated
      <4>3. QED
        BY <4>1, <4>2
    <3>4. Reliable' <=> Reliable
      BY <2>1 DEF Reliable
    <3>5. LookupFindsAcked'
      BY <2>1, <2>4, <3>3, <3>4 DEF LookupFindsAcked, GetOneByURL
    <3>6. AckedOnDisk'
      BY <2>1, <3>1, <3>2, <3>3, <3>4 DEF AckedOnDisk
    <3>7. FileIsTable'
      BY <2>1, <2>9, <3>4 DEF FileIsTable
    <3>8. QED
      BY <3>5, <3>6, <3>7
  <2>0. LastInv'
    BY <2>1, <2>2 DEF IInv, TypeOK, LastInv, Table, Version
  <2>8. QED
    BY <2>0, <2>5, <2>6, <2>7 DEF IInv
<1>10. ASSUME UNCHANGED vars PROVE IInv'
  BY <1>10 DEF vars, IInv, TypeOK, DownInv, TableInv, LastInv, SavedInv, AckedOnDisk,
               Truncated, FileIsTable, FileNotAhead, LookupFindsAcked, GetOneByURL, Reliable
<1>11. QED
  BY <1>1, <1>2, <1>3, <1>4, <1>5, <1>6, <1>7, <1>8, <1>9, <1>10 DEF Next

------------------------------------------------------------------------------
(* The theorems *)

(* In every state of the store the table is ahead of all snapshots and     *)
(* acknowledgements, and the only caller knows what the file holds.        *)
THEOREM Invariance == Spec => []IInv
BY InitIInv, NextIInv, PTL DEF Spec

(* Every variable keeps its type.                                          *)
THEOREM TypeCorrect == Spec => []TypeOK
<1>1. IInv => TypeOK
  BY DEF IInv
<1>2. QED
  BY <1>1, Invariance, PTL

(* With one caller and a file system that does not fail, the file has      *)
(* every record whose Insert has returned whenever it is not being written, *)
(* however often the process has crashed; all that crashes can take is what *)
(* did not come back when a torn file was loaded.                          *)
THEOREM KeepsAcked == Spec => []AckedOnDisk
<1>1. IInv => AckedOnDisk
  BY DEF IInv
<1>2. QED
  BY <1>1, Invariance, PTL

(* Under the same conditions a whole file is the table between two calls.  *)
THEOREM FileMirrorsTable == Spec => []FileIsTable
<1>1. IInv => FileIsTable
  BY DEF IInv
<1>2. QED
  BY <1>1, Invariance, PTL

(* With any number of callers and failing writes, the file contains nothing *)
(* that the table does not.                                                 *)
THEOREM NeverAhead == Spec => []FileNotAhead
<1>1. IInv => FileNotAhead
  BY DEF IInv
<1>2. QED
  BY <1>1, Invariance, PTL

(* Readers find what has been acknowledged: in the first process whatever  *)
(* fails; under the conditions of KeepsAcked, and but for what it leaves   *)
(* out, after any number of restarts.                                      *)
THEOREM FindsAcked == Spec => []LookupFindsAcked
<1>1. IInv => LookupFindsAcked
  BY DEF IInv
<1>2. QED
  BY <1>1, Invariance, PTL

==============================================================================
