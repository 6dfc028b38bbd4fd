------------------------------ MODULE BackupLog ------------------------------
(***************************************************************************)
(* The remote copy of ERROR and FATAL messages: send_backlog, run by a     *)
(* thread of the pool (backlog_code/SendBackupLog.hpp), one connection per *)
(* message, and the server that appends what it reads to one file          *)
(* (ServerBackupLog.hpp, ServerBackupLog.cpp), a thread per connection.    *)
(*                                                                         *)
(* A message is its number of bytes here.  The network delivers the bytes  *)
(* of a connection in order, in one piece or several.  The server reads a  *)
(* connection once.                                                        *)
(***************************************************************************)
EXTENDS LogMessage, Sequences

CONSTANTS
  BufSize,      (* sizeof(buf) in service                                *)
  Cnt,          (* attempts to connect: cnt in send_backlog              *)
  NetMayFail,   (* connect, write and read may fail although the server  *)
                (* is up                                                 *)
  ServerMayFail (* the server may die, bind or listen may fail, and so   *)
                (* may fflush and fclose of the backup file              *)

ASSUME BackupAssumption ==
  /\ BufSize \in Nat \ {0} /\ Cnt \in Nat \ {0}
  /\ NetMayFail \in BOOLEAN /\ ServerMayFail \in BOOLEAN

VARIABLES
  sender,       (* where send_backlog is with each message               *)
  tries,        (* how often its connect has failed                      *)
  sent,         (* bytes that write has given to the network             *)
  arrived,      (* bytes that have reached the server's side             *)
  split,        (* history: messages that arrived in several pieces      *)
  server,       (* "up", or "down": not running, or without a port       *)
  conn,         (* the server's end of each connection                   *)
  got,          (* bytes read by the thread that serves it               *)
  failed,       (* history: messages for which a call of the server has  *)
                (* failed without its noticing, or with a print only     *)
  logfile       (* the backup file: messages, and how much of each       *)

client == << sender, tries, sent >>
net    == << arrived, split >>
remote == << server, conn, got, failed, logfile >>
backupVars == << client, net, remote >>

BackupInit ==
  /\ sender = [m \in Msg |-> "none"]
  /\ tries = [m \in Msg |-> 0]
  /\ sent = [m \in Msg |-> 0] /\ arrived = [m \in Msg |-> 0]
  /\ split = {}
  /\ server \in {"up", "down"}
  /\ conn = [m \in Msg |-> "none"]
  /\ got = [m \in Msg |-> 0] /\ failed = {}
  /\ logfile = << >>

Become(m, s) == sender' = [sender EXCEPT ![m] = s]
Serve(m, s) == conn' = [conn EXCEPT ![m] = s]

------------------------------------------------------------------------------
(* send_backlog *)

SendBacklog(m) ==
  /\ sender[m] = "none"
  /\ Become(m, "connect")
  /\ UNCHANGED << tries, sent, net, remote >>

Connect(m) ==
  /\ sender[m] = "connect" /\ server = "up"
  /\ Become(m, "write")
  /\ Serve(m, "queued")
  /\ UNCHANGED << tries, sent, net, server, got, failed, logfile >>

(* Faulty: the counter of attempts is left alone.                          *)
ConnectFailsUncounted(m) ==
  /\ sender[m] = "connect"
  /\ server = "up" => NetMayFail
  /\ Become(m, "connect") /\ tries' = tries
  /\ UNCHANGED << sent, net, remote >>

(* Faulty: one attempt too many.                                           *)
ConnectFailsOnce(m) ==
  /\ sender[m] = "connect"
  /\ server = "up" => NetMayFail
  /\ tries' = [tries EXCEPT ![m] = @ + 1]
  /\ Become(m, IF tries[m] + 1 > Cnt THEN "done" ELSE "connect")
  /\ UNCHANGED << sent, net, remote >>

(* The loop tries again at once, and gives up when cnt has come to 0.      *)
ConnectFails(m) ==
  /\ sender[m] = "connect"
  /\ server = "up" => NetMayFail
  /\ tries' = [tries EXCEPT ![m] = @ + 1]
  /\ Become(m, IF tries[m] + 1 >= Cnt THEN "done" ELSE "connect")
  /\ UNCHANGED << sent, net, remote >>

(* An error of write is only printed.                                      *)
Write(m) ==
  /\ sender[m] = "write"
  /\ \/ sent' = [sent EXCEPT ![m] = Bytes[m]]
     \/ (conn[m] = "dropped" \/ NetMayFail) /\ sent' = sent
  /\ Become(m, "close")
  /\ UNCHANGED << tries, net, remote >>

Close(m) ==
  /\ sender[m] = "close"
  /\ Become(m, "done")
  /\ UNCHANGED << tries, sent, net, remote >>

(* The network.                                                            *)
Arrive(m) ==
  /\ conn[m] \in {"queued", "reading"}
  /\ \E k \in arrived[m] + 1 .. sent[m] :
       /\ arrived' = [arrived EXCEPT ![m] = k]
       /\ split' = IF k < sent[m] THEN split \cup {m} ELSE split
  /\ UNCHANGED << client, remote >>

------------------------------------------------------------------------------
(* The server *)

(* accept, and a detached thread for the connection.                       *)
Accept(m) ==
  /\ server = "up" /\ conn[m] = "queued"
  /\ Serve(m, "reading")
  /\ UNCHANGED << client, net, server, got, failed, logfile >>

(* Faulty: one byte of the buffer is kept for the terminator.              *)
ReadShort(m) ==
  /\ conn[m] = "reading" /\ arrived[m] > 0
  /\ got' = [got EXCEPT ![m] = IF arrived[m] < BufSize THEN arrived[m]
                                                      ELSE BufSize - 1]
  /\ Serve(m, "logging")
  /\ UNCHANGED << client, net, server, failed, logfile >>

(* One read of what has arrived, as far as it fits the buffer.             *)
Read(m) ==
  /\ conn[m] = "reading" /\ arrived[m] > 0
  /\ got' = [got EXCEPT ![m] = IF arrived[m] < BufSize THEN arrived[m]
                                                      ELSE BufSize]
  /\ Serve(m, "logging")
  /\ UNCHANGED << client, net, server, failed, logfile >>

(* The process of the server ends, and its connections with it.            *)
Die ==
  /\ server' = "down"
  /\ conn' = [m \in Msg |-> IF conn[m] \in {"none", "ended"} THEN conn[m] ELSE "dropped"]
  /\ UNCHANGED << client, net, got, failed, logfile >>

(* buf[r_ret] = 0 after a read that has filled buf is behind its end: it   *)
(* hits padding, which is Read, or the guard of the stack.                 *)
ReadOverflow(m) ==
  /\ conn[m] = "reading" /\ arrived[m] >= BufSize
  /\ Die

(* Faulty: a client that has closed its end is not read from.              *)
ReadNothingEarly(m) ==
  /\ conn[m] = "reading" /\ sender[m] = "done"
  /\ Serve(m, "ended")
  /\ UNCHANGED << client, net, server, got, failed, logfile >>

(* The client has closed the connection without a byte.                    *)
ReadNothing(m) ==
  /\ conn[m] = "reading" /\ sender[m] = "done" /\ sent[m] = 0
  /\ Serve(m, "ended")
  /\ UNCHANGED << client, net, server, got, failed, logfile >>

(* An error of read is printed, and the thread ends: what has arrived is   *)
(* not looked at.                                                          *)
ReadFails(m) ==
  /\ NetMayFail /\ conn[m] = "reading"
  /\ Serve(m, "ended") /\ failed' = failed \cup {m}
  /\ UNCHANGED << client, net, server, got, logfile >>

(* What is left of a message of which k bytes come to be in the file.      *)
Written(m, k) == IF k = 0 THEN logfile ELSE Append(logfile, [msg |-> m, len |-> k])

(* Faulty: the thread reads in a loop, and logs each time.                 *)
LogInLoop(m) ==
  /\ conn[m] = "logging" /\ Len(logfile) < BufSize + 1
  /\ logfile' = Written(m, got[m]) /\ failed' = failed
  /\ Serve(m, "reading")
  /\ UNCHANGED << client, net, server, got >>

(* backup_log: fwrite fills the stream, fflush appends it in one system    *)
(* call, then the thread ends.  Nobody looks at what fflush and fclose     *)
(* return: if the disk is full a part of the message, or nothing, is in    *)
(* the file.                                                               *)
Log(m) ==
  /\ conn[m] = "logging"
  /\ \E k \in 0 .. got[m] :
       /\ k < got[m] => ServerMayFail
       /\ logfile' = Written(m, k)
       /\ failed' = IF k < got[m] THEN failed \cup {m} ELSE failed
  /\ Serve(m, "ended")
  /\ UNCHANGED << client, net, server, got >>

(* Killed, or ended by assert(false) in backup_log.                        *)
ServerDies == ServerMayFail /\ server = "up" /\ Die

(* Only a server that could bind and listen is of use: init_service prints *)
(* the errors of both and goes on.                                         *)
InitService ==
  /\ server = "down"
  /\ server' = "up"
  /\ UNCHANGED << client, net, conn, got, failed, logfile >>

------------------------------------------------------------------------------

SendStep(m) == Connect(m) \/ ConnectFails(m) \/ Write(m) \/ Close(m)
ServeStep(m) == Accept(m) \/ Read(m) \/ ReadNothing(m) \/ Log(m)

BackupStep ==
  \/ \E m \in Msg : SendStep(m) \/ Arrive(m) \/ ServeStep(m)
  \/ (\E m \in Msg : ReadFails(m) \/ ReadOverflow(m)) \/ ServerDies \/ InitService

BackupNext == (\E m \in Msg : SendBacklog(m)) \/ BackupStep

BackupSpec == BackupInit /\ [][BackupNext]_backupVars

(* The threads of the pool and of the server are scheduled, and what was   *)
(* written arrives.  Nothing obliges a call to fail, or anyone to start a  *)
(* server.                                                                 *)
BackupFairSpec ==
  BackupSpec /\ \A m \in Msg : /\ WF_backupVars(SendStep(m))
                               /\ WF_backupVars(Arrive(m))
                               /\ WF_backupVars(ServeStep(m))

------------------------------------------------------------------------------
(* Properties *)

BackupTypeOK ==
  /\ sender \in [Msg -> {"none", "connect", "write", "close", "done"}]
  /\ tries \in [Msg -> 0 .. Cnt]
  /\ sent \in [Msg -> Nat] /\ arrived \in [Msg -> Nat] /\ got \in [Msg -> Nat]
  /\ split \subseteq Msg /\ failed \subseteq Msg
  /\ server \in {"up", "down"}
  /\ conn \in [Msg -> {"none", "queued", "reading", "logging", "ended", "dropped"}]
  /\ logfile \in Seq([msg : Msg, len : Nat])

(* However often connect has been tried, a message is in the backup file   *)
(* at most once, never without a byte, and only if it was written.         *)
LoggedOnce ==
  /\ \A i, j \in 1 .. Len(logfile) : logfile[i].msg = logfile[j].msg => i = j
  /\ \A i \in 1 .. Len(logfile) : logfile[i].len \in 1 .. sent[logfile[i].msg]

(* What is in the backup file is the whole message unless the network has  *)
(* cut it in pieces, it does not fit the buffer, or a call of the server   *)
(* has failed for it.                                                      *)
Complete(m, len) ==
  m \in split \/ len = Bytes[m] \/ (len = BufSize /\ Bytes[m] > BufSize)

WholeUnlessSplit ==
  \A i \in 1 .. Len(logfile) :
    logfile[i].msg \in failed \/ Complete(logfile[i].msg, logfile[i].len)

(* The invariant from which these follow: how far a message can have come  *)
(* in each state of its sender, and of the thread that serves it.          *)
SenderInv ==
  \A m \in Msg :
    /\ sender[m] \in {"none", "connect"} => conn[m] = "none" /\ tries[m] < Cnt
    /\ sender[m] \in {"none", "connect", "write"} => sent[m] = 0

NetInv ==
  \A m \in Msg :
    /\ sent[m] \in {0, Bytes[m]} /\ arrived[m] <= sent[m]
    /\ m \notin split => arrived[m] \in {0, sent[m]}

ServeInv ==
  /\ \A m \in Msg : conn[m] = "logging" =>
       /\ got[m] \in 1 .. sent[m]
       /\ Complete(m, got[m])
  /\ \A i \in 1 .. Len(logfile) : conn[logfile[i].msg] = "ended"

BackupInv ==
  /\ BackupTypeOK /\ SenderInv /\ NetInv /\ ServeInv
  /\ LoggedOnce /\ WholeUnlessSplit

(* send_backlog returns, whatever the server does.                         *)
SendReturns == \A m \in Msg : sender[m] = "connect" ~> sender[m] = "done"

(* What was sent is in the backup file in the end, and all of it if it     *)
(* came in one piece and fits the buffer: unless the server has died, or   *)
(* its read, fflush or fclose has failed.  The comment of backup_log       *)
(* (ServerBackupLog.cpp:46) says that it ends when a file operation fails; *)
(* it goes on after the last two, and the message is lost.                 *)
SentIsLogged ==
  \A m \in Msg :
    sent[m] > 0 ~>
      \/ \E i \in 1 .. Len(logfile) :
           logfile[i].msg = m /\ Complete(m, logfile[i].len)
      \/ conn[m] = "dropped" \/ m \in failed

==============================================================================
