--------------------------- MODULE BackupLogProofs ---------------------------
(***************************************************************************)
(* Theorems about BackupLog, for any messages, any size of the buffer and  *)
(* any number of attempts, failures and restarts of the server.            *)
(***************************************************************************)
EXTENDS BackupLog, TLAPS

(* A file to which a record is appended keeps what it had.                 *)
LEMMA AppendKeeps ==
  ASSUME NEW S, NEW s \in Seq(S), NEW e \in S
  PROVE  /\ Append(s, e) \in Seq(S) /\ Len(Append(s, e)) = Len(s) + 1
         /\ \A i \in 1 .. Len(s) : Append(s, e)[i] = s[i]
         /\ Append(s, e)[Len(s) + 1] = e
OBVIOUS

(* The records of the file have messages in them.                          *)
LEMMA LogRecords ==
  ASSUME BackupTypeOK
  PROVE  \A i \in 1 .. Len(logfile) : logfile[i].msg \in Msg
<1> DEFINE S == [msg : Msg, len : Nat]
<1>1. logfile \in Seq(S)
  BY DEF BackupTypeOK
<1>2. \A r \in S : r.msg \in Msg
  OBVIOUS
<1> HIDE DEF S
<1>3. QED
  BY <1>1, <1>2

(* The initial states satisfy the invariant.                               *)
LEMMA InitInv == BackupInit => BackupInv
<1> SUFFICES ASSUME BackupInit PROVE BackupInv
  OBVIOUS
<1>1. BackupTypeOK
  BY BackupAssumption DEF BackupInit, BackupTypeOK, BackupAssumption
<1>2. SenderInv /\ NetInv /\ ServeInv
  BY BackupAssumption DEF BackupInit, SenderInv, NetInv, ServeInv, BackupAssumption
<1>3. LoggedOnce /\ WholeUnlessSplit
  BY DEF BackupInit, LoggedOnce, WholeUnlessSplit, Complete
<1>4. QED
  BY <1>1, <1>2, <1>3 DEF BackupInv

(* Every step preserves it.                                                *)
LEMMA NextInv == BackupInv /\ [BackupNext]_backupVars => BackupInv'
<1> SUFFICES ASSUME BackupInv, [BackupNext]_backupVars PROVE BackupInv'
  OBVIOUS
<1> USE DEF Become, Serve
<1>0. /\ BackupTypeOK /\ SenderInv /\ NetInv /\ ServeInv
      /\ LoggedOnce /\ WholeUnlessSplit
      /\ \A m \in Msg : Bytes[m] \in Nat \ {0}
      /\ BufSize \in Nat \ {0} /\ Cnt \in Nat \ {0}
  BY BackupAssumption, MessageAssumption DEF BackupInv, BackupAssumption, MessageAssumption
<1>a. \A i \in 1 .. Len(logfile) : logfile[i].msg \in Msg
  BY <1>0, LogRecords
(* The records stay valid when the state of one unlogged message changes.  *)
<1>b. ASSUME NEW m \in Msg, conn[m] # "ended", NEW l, l # "logging",
             conn' = [conn EXCEPT ![m] = l],
             UNCHANGED << sent, split, got, logfile >>
      PROVE  ServeInv'
  <2>1. \A i \in 1 .. Len(logfile) : conn'[logfile[i].msg] = "ended"
    BY <1>0, <1>a, <1>b DEF BackupTypeOK, ServeInv
  <2>2. \A k \in Msg : conn'[k] = "logging" => conn[k] = "logging"
    BY <1>0, <1>b DEF BackupTypeOK
  <2>3. QED
    BY <1>0, <1>b, <2>1, <2>2 DEF ServeInv, Complete
<1>1. ASSUME NEW m \in Msg, SendBacklog(m) PROVE BackupInv'
  BY <1>0, <1>1 DEF SendBacklog, net, remote, BackupInv, BackupTypeOK, SenderInv, NetInv,
                    ServeInv, LoggedOnce, WholeUnlessSplit, Complete
<1>2. ASSUME NEW m \in Msg, Connect(m) PROVE BackupInv'
  <2>1. BackupTypeOK' /\ SenderInv' /\ NetInv'
    BY <1>0, <1>2 DEF Connect, net, BackupTypeOK, SenderInv, NetInv
  <2>2. ServeInv'
    BY <1>0, <1>2, <1>b DEF Connect, net, SenderInv
  <2>3. LoggedOnce' /\ WholeUnlessSplit'
    BY <1>0, <1>2 DEF Connect, net, LoggedOnce, WholeUnlessSplit, Complete
  <2>4. QED
    BY <2>1, <2>2, <2>3 DEF BackupInv
<1>3. ASSUME NEW m \in Msg, ConnectFails(m) PROVE BackupInv'
  <2>1. BackupTypeOK' /\ SenderInv' /\ NetInv'
    BY <1>0, <1>3 DEF ConnectFails, net, remote, BackupTypeOK, SenderInv, NetInv
  <2>2. ServeInv' /\ LoggedOnce' /\ WholeUnlessSplit'
    BY <1>0, <1>3 DEF ConnectFails, net, remote, ServeInv, LoggedOnce, WholeUnlessSplit, Complete
  <2>3. QED
    BY <2>1, <2>2 DEF BackupInv
<1>4. ASSUME NEW m \in Msg, Write(m) PROVE BackupInv'
  <2>1. /\ sender[m] = "write" /\ sent[m] = 0 /\ arrived[m] = 0
        /\ sent' = sent \/ sent' = [sent EXCEPT ![m] = Bytes[m]]
        /\ sender' = [sender EXCEPT ![m] = "close"]
        /\ UNCHANGED << tries, net, remote >>
    BY <1>0, <1>4 DEF Write, BackupTypeOK, SenderInv, NetInv
  <2>a. sent' \in [Msg -> Nat] /\ \A k \in Msg : k # m => sent'[k] = sent[k]
    BY <1>0, <2>1 DEF BackupTypeOK
  <2>b. sent'[m] \in {0, Bytes[m]}
    BY <1>0, <2>1 DEF BackupTypeOK
  <2>c. SenderInv'
    BY <1>0, <2>1, <2>a DEF net, remote, BackupTypeOK, SenderInv
  <2>d. NetInv'
    <3> SUFFICES ASSUME NEW k \in Msg
                 PROVE  /\ sent'[k] \in {0, Bytes[k]} /\ arrived[k] <= sent'[k]
                        /\ k \notin split => arrived[k] \in {0, sent'[k]}
      BY <2>1 DEF net, NetInv
    <3>1. CASE k = m
      BY <1>0, <2>1, <2>b, <3>1
    <3>2. CASE k # m
      BY <1>0, <2>a, <3>2 DEF NetInv
    <3>3. QED
      BY <3>1, <3>2
  <2>2. BackupTypeOK' /\ SenderInv' /\ NetInv'
    BY <1>0, <2>1, <2>a, <2>c, <2>d DEF net, remote, BackupTypeOK
  <2>3. \A k \in Msg : sent[k] \in Nat /\ sent[k] <= sent'[k] /\ sent'[k] \in Nat
    <3>1. sent \in [Msg -> Nat]
      BY <1>0 DEF BackupTypeOK
    <3>2. sent[m] <= sent'[m]
      BY <2>1, <2>a
    <3>3. QED
      BY <2>a, <3>1, <3>2
  <2>4. ServeInv'
    BY <1>0, <2>1, <2>3 DEF net, remote, BackupTypeOK, ServeInv, Complete
  <2>5. LoggedOnce' /\ WholeUnlessSplit'
    BY <1>0, <1>a, <2>1, <2>3 DEF net, remote, LoggedOnce, WholeUnlessSplit, Complete
  <2>6. QED
    BY <2>2, <2>4, <2>5 DEF BackupInv
<1>5. ASSUME NEW m \in Msg, Close(m) PROVE BackupInv'
  <2>1. BackupTypeOK' /\ SenderInv' /\ NetInv'
    BY <1>0, <1>5 DEF Close, net, remote, BackupTypeOK, SenderInv, NetInv
  <2>2. ServeInv' /\ LoggedOnce' /\ WholeUnlessSplit'
    BY <1>0, <1>5 DEF Close, net, remote, ServeInv, LoggedOnce, WholeUnlessSplit, Complete
  <2>3. QED
    BY <2>1, <2>2 DEF BackupInv
<1>6. ASSUME NEW m \in Msg, Arrive(m) PROVE BackupInv'
  <2>1. PICK k \in arrived[m] + 1 .. sent[m] :
          /\ arrived' = [arrived EXCEPT ![m] = k]
          /\ split' = IF k < sent[m] THEN split \cup {m} ELSE split
    BY <1>6 DEF Arrive
  <2>2. conn[m] \in {"queued", "reading"} /\ UNCHANGED << client, remote >>
    BY <1>6 DEF Arrive
  <2>3. BackupTypeOK' /\ SenderInv' /\ NetInv'
    BY <1>0, <2>1, <2>2 DEF client, remote, BackupTypeOK, SenderInv, NetInv
  <2>4. ServeInv' /\ LoggedOnce' /\ WholeUnlessSplit'
    BY <1>0, <2>1, <2>2 DEF client, remote, BackupTypeOK, ServeInv, LoggedOnce, WholeUnlessSplit, Complete
  <2>5. QED
    BY <2>3, <2>4 DEF BackupInv
<1>7. ASSUME NEW m \in Msg, Accept(m) PROVE BackupInv'
  <2>1. BackupTypeOK' /\ SenderInv' /\ NetInv'
    BY <1>0, <1>7 DEF Accept, client, net, BackupTypeOK, SenderInv, NetInv
  <2>2. ServeInv' /\ LoggedOnce' /\ WholeUnlessSplit'
    <3>1. ServeInv'
      BY <1>7, <1>b DEF Accept, client, net
    <3>2. QED
      BY <1>0, <1>7, <3>1 DEF Accept, client, net, LoggedOnce, WholeUnlessSplit, Complete
  <2>3. QED
    BY <2>1, <2>2 DEF BackupInv
<1>8. ASSUME NEW m \in Msg, Read(m) PROVE BackupInv'
  <2>1. /\ conn[m] = "reading" /\ arrived[m] > 0
        /\ got' = [got EXCEPT ![m] = IF arrived[m] < BufSize THEN arrived[m] ELSE BufSize]
        /\ conn' = [conn EXCEPT ![m] = "logging"]
        /\ UNCHANGED << client, net, server, failed, logfile >>
    BY <1>8 DEF Read
  <2>2. BackupTypeOK' /\ SenderInv' /\ NetInv'
    BY <1>0, <2>1 DEF client, net, BackupTypeOK, SenderInv, NetInv
  <2>3. /\ got'[m] \in 1 .. sent[m]
        /\ m \in split \/ got'[m] = Bytes[m] \/ (got'[m] = BufSize /\ Bytes[m] > BufSize)
    BY <1>0, <2>1 DEF BackupTypeOK, NetInv
  <2>4. ServeInv'
    <3>1. \A i \in 1 .. Len(logfile) : conn'[logfile[i].msg] = "ended"
      BY <1>0, <1>a, <2>1 DEF BackupTypeOK, ServeInv
    <3>2. \A k \in Msg : k # m => conn'[k] = conn[k] /\ got'[k] = got[k]
      BY <1>0, <2>1 DEF BackupTypeOK
    <3>3. QED
      BY <1>0, <2>1, <2>3, <3>1, <3>2 DEF client, net, ServeInv, Complete
  <2>5. LoggedOnce' /\ WholeUnlessSplit'
    BY <1>0, <2>1 DEF client, net, LoggedOnce, WholeUnlessSplit, Complete
  <2>6. QED
    BY <2>2, <2>4, <2>5 DEF BackupInv
<1>9. ASSUME NEW m \in Msg, ReadNothing(m) PROVE BackupInv'
  <2>1. BackupTypeOK' /\ SenderInv' /\ NetInv'
    BY <1>0, <1>9 DEF ReadNothing, client, net, BackupTypeOK, SenderInv, NetInv
  <2>2. ServeInv' /\ LoggedOnce' /\ WholeUnlessSplit'
    <3>1. ServeInv'
      BY <1>9, <1>b DEF ReadNothing, client, net
    <3>2. QED
      BY <1>0, <1>9, <3>1 DEF ReadNothing, client, net, LoggedOnce, WholeUnlessSplit, Complete
  <2>3. QED
    BY <2>1, <2>2 DEF BackupInv
<1>15. ASSUME NEW m \in Msg, ReadFails(m) PROVE BackupInv'
  <2>1. BackupTypeOK' /\ SenderInv' /\ NetInv'
    BY <1>0, <1>15 DEF ReadFails, client, net, BackupTypeOK, SenderInv, NetInv
  <2>2. ServeInv' /\ LoggedOnce' /\ WholeUnlessSplit'
    <3>1. ServeInv'
      BY <1>15, <1>b DEF ReadFails, client, net
    <3>2. QED
      BY <1>0, <1>15, <3>1 DEF ReadFails, client, net, LoggedOnce, WholeUnlessSplit, Complete
  <2>3. QED
    BY <2>1, <2>2 DEF BackupInv
<1>10. ASSUME NEW m \in Msg, Log(m) PROVE BackupInv'
  <2>0. PICK k \in 0 .. got[m] :
          /\ logfile' = Written(m, k)
          /\ failed' = IF k < got[m] THEN failed \cup {m} ELSE failed
    BY <1>10 DEF Log
  <2>1. /\ conn[m] = "logging" /\ conn' = [conn EXCEPT ![m] = "ended"]
        /\ UNCHANGED << client, net, server, got >>
    BY <1>10 DEF Log
  <2>k. k \in Nat /\ k <= got[m] /\ got[m] \in Nat /\ got[m] \in 1 .. sent[m]
        /\ Complete(m, got[m])
    BY <1>0, <2>0, <2>1 DEF BackupTypeOK, ServeInv
  <2>a. failed' \subseteq Msg /\ failed \subseteq failed' /\ (k # got[m] => m \in failed')
    BY <1>0, <2>0, <2>k DEF BackupTypeOK
  <2>b. CASE k = 0
    <3>1. logfile' = logfile
      BY <2>0, <2>b DEF Written
    <3>2. BackupTypeOK' /\ SenderInv' /\ NetInv'
      BY <1>0, <2>1, <2>a, <3>1 DEF client, net, BackupTypeOK, SenderInv, NetInv
    <3>3. ServeInv'
      <4>1. UNCHANGED << sent, split, got, logfile >>
        BY <2>1, <3>1 DEF client, net
      <4>2. QED
        BY <1>b, <2>1, <4>1
    <3>4. LoggedOnce'
      BY <1>0, <2>1, <3>1 DEF client, LoggedOnce
    <3>5. WholeUnlessSplit'
      BY <1>0, <2>1, <2>a, <3>1 DEF net, WholeUnlessSplit, Complete
    <3>6. QED
      BY <3>2, <3>3, <3>4, <3>5 DEF BackupInv
  <2>c. CASE k # 0
    <3> DEFINE e == [msg |-> m, len |-> k]
    <3>1. logfile' = Append(logfile, e) /\ k \in 1 .. sent[m]
      BY <1>0, <2>0, <2>c, <2>k DEF Written, BackupTypeOK
    <3>2. e \in [msg : Msg, len : Nat] /\ e.msg = m /\ e.len = k
      BY <2>k
    <3>3. /\ logfile \in Seq([msg : Msg, len : Nat])
          /\ logfile' \in Seq([msg : Msg, len : Nat]) /\ Len(logfile') = Len(logfile) + 1
          /\ \A i \in 1 .. Len(logfile) : logfile'[i] = logfile[i]
          /\ logfile'[Len(logfile) + 1] = e
      BY <1>0, <3>1, <3>2, AppendKeeps DEF BackupTypeOK
    <3> HIDE DEF e
    <3>4. \A i \in 1 .. Len(logfile) : logfile[i].msg \in Msg /\ logfile[i].msg # m
      BY <1>0, <1>a, <2>1, <3>3 DEF ServeInv
    <3>5. BackupTypeOK' /\ SenderInv' /\ NetInv'
      BY <1>0, <2>1, <2>a, <3>3 DEF client, net, BackupTypeOK, SenderInv, NetInv
    <3>6. \A i \in 1 .. Len(logfile') :
            \/ i \in 1 .. Len(logfile) /\ logfile'[i] = logfile[i]
            \/ i = Len(logfile) + 1 /\ logfile'[i] = e
      BY <3>3
    <3>8. ServeInv'
      <4>1. \A l \in Msg : conn'[l] = "logging" => conn[l] = "logging"
        BY <1>0, <2>1 DEF BackupTypeOK
      <4>2. \A i \in 1 .. Len(logfile') : conn'[logfile'[i].msg] = "ended"
        BY <1>0, <2>1, <3>2, <3>4, <3>6 DEF ServeInv, BackupTypeOK
      <4>3. QED
        BY <1>0, <2>1, <4>1, <4>2 DEF client, net, ServeInv, Complete
    <3>9. LoggedOnce'
      <4>1. \A i \in 1 .. Len(logfile') : logfile'[i].len \in 1 .. sent[logfile'[i].msg]
        BY <1>0, <3>1, <3>2, <3>6 DEF LoggedOnce
      <4>2. \A i, j \in 1 .. Len(logfile') : logfile'[i].msg = logfile'[j].msg => i = j
        BY <1>0, <3>2, <3>4, <3>6 DEF LoggedOnce
      <4>3. QED
        BY <2>1, <4>1, <4>2 DEF client, LoggedOnce
    <3>10. WholeUnlessSplit'
      <4>1. m \in failed' \/ Complete(m, k)
        BY <2>k, <2>a
      <4>2. \A i \in 1 .. Len(logfile') :
              logfile'[i].msg \in failed' \/ Complete(logfile'[i].msg, logfile'[i].len)
        BY <1>0, <2>a, <3>2, <3>6, <4>1 DEF WholeUnlessSplit
      <4>3. QED
        BY <2>1, <4>2 DEF net, WholeUnlessSplit, Complete
    <3>11. QED
      BY <3>5, <3>8, <3>9, <3>10 DEF BackupInv
  <2>d. QED
    BY <2>b, <2>c
<1>11. ASSUME Die PROVE BackupInv'
  <2>1. BackupTypeOK' /\ SenderInv' /\ NetInv'
    BY <1>0, <1>11 DEF Die, client, net, BackupTypeOK, SenderInv, NetInv
  <2>2. ServeInv'
    <3>1. \A k \in Msg : /\ conn'[k] # "logging"
                         /\ conn[k] = "ended" => conn'[k] = "ended"
      BY <1>0, <1>11 DEF Die, BackupTypeOK
    <3>2. \A i \in 1 .. Len(logfile) : logfile[i].msg \in Msg
      BY <1>a
    <3>3. QED
      BY <1>0, <1>11, <3>1, <3>2 DEF Die, client, net, ServeInv
  <2>3. LoggedOnce' /\ WholeUnlessSplit'
    BY <1>0, <1>11 DEF Die, client, net, LoggedOnce, WholeUnlessSplit, Complete
  <2>4. QED
    BY <2>1, <2>2, <2>3 DEF BackupInv
<1>12. ASSUME InitService PROVE BackupInv'
  BY <1>0, <1>12 DEF InitService, client, net, BackupInv, BackupTypeOK, SenderInv, NetInv,
                     ServeInv, LoggedOnce, WholeUnlessSplit, Complete
<1>13. ASSUME UNCHANGED backupVars PROVE BackupInv'
  BY <1>0, <1>13 DEF backupVars, client, net, remote, BackupInv, BackupTypeOK, SenderInv,
                     NetInv, ServeInv, LoggedOnce, WholeUnlessSplit, Complete
<1>14. QED
  BY <1>1, <1>2, <1>3, <1>4, <1>5, <1>6, <1>7, <1>8, <1>9, <1>10, <1>11, <1>12, <1>13,
     <1>15 DEF BackupNext, BackupStep, SendStep, ServeStep, ReadOverflow, ServerDies

------------------------------------------------------------------------------
(* The theorems *)

(* How far a message has come on its way to the backup file.               *)
THEOREM Invariance == BackupSpec => []BackupInv
BY InitInv, NextInv, PTL DEF BackupSpec

(* Every variable keeps its type, the number of attempts its limit.        *)
THEOREM TypeCorrect == BackupSpec => []BackupTypeOK
<1>1. BackupInv => BackupTypeOK
  BY DEF BackupInv
<1>2. QED
  BY <1>1, Invariance, PTL

(* A message is in the backup file at most once, however often connect has *)
(* been tried and the server has died.                                     *)
THEOREM NeverTwice == BackupSpec => []LoggedOnce
<1>1. BackupInv => LoggedOnce
  BY DEF BackupInv
<1>2. QED
  BY <1>1, Invariance, PTL

(* What is in it is whole, unless the network or the buffer has cut it, or *)
(* a call of the server has failed for it.                                 *)
THEOREM NeverCut == BackupSpec => []WholeUnlessSplit
<1>1. BackupInv => WholeUnlessSplit
  BY DEF BackupInv
<1>2. QED
  BY <1>1, Invariance, PTL

==============================================================================
