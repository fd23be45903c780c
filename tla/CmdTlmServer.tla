---------------------------- MODULE CmdTlmServer ----------------------------
(***************************************************************************)
(* src/interface/cmdTlmServer.c and tcpServer.c: the TCP/IP server between *)
(* the controller and one client at a time (the GUI or the CSC).           *)
(*                                                                         *)
(* Three threads share serverInfo_t without a lock: the controller, which  *)
(* starts and closes the server and fills the message queues; the server   *)
(* thread, which accepts a client and reads its commands; the telemetry    *)
(* thread, which empties the message queues into the socket.  A step reads *)
(* or writes one shared field, except where a comment says otherwise.      *)
(***************************************************************************)
EXTENDS Integers, Sequences

CONSTANTS MaxConn,     \* bound: how many clients connect
          MaxCmd,      \* bound: how many commands they send
          MaxTlm,      \* bound: how many telemetry messages are queued
          MaxCrash,    \* bound: how often the process dies
          QueueMax,    \* mq_maxmsg of each message queue
          CmdSize,     \* capacity of the command buffer
          Commander,   \* the values of the field commander that clients send
          HasTimeout,  \* timeout > 0; otherwise poll() waits for ever
          Privileged   \* may the process open a queue of mode 0

Queue == {"cmdStatus", "tlm"}

ASSUME BoundAssumption == {MaxConn, MaxCmd, MaxTlm, MaxCrash} \subseteq Nat
ASSUME QueueAssumption == QueueMax \in [Queue -> Nat \ {0}]
ASSUME CmdSizeAssumption == CmdSize \in Nat \ {0}
ASSUME CommanderAssumption == Commander \subseteq {"GUI", "CSC", "other"}
ASSUME BooleanAssumption == {HasTimeout, Privileged} \subseteq BOOLEAN

VARIABLES
  info,              \* the shared fields of serverInfo_t
  held,              \* what the process has opened or allocated for it
  linked,            \* the message queues that exist in the kernel
  msgQueue,          \* and the messages in them
  cmdMsgBuffer,      \* the command buffer (module CircularBuffer)
  pc,                \* what each thread does next
  cmdMsg,            \* the server thread's last command
  lastServerStatus,  \* local to the telemetry thread, as are
  msg,               \* the message it has popped
  target,            \* and the socket it is about to send it to
  executing,         \* the command the controller executes
  life,              \* how far each client's connection has got
  hungUp,            \* the clients that have closed their end
  inbox, outbox,     \* the bytes on the way to the server, to each client
  full,              \* the connections without room for a message, until the client reads
  sent, produced,    \* how many commands and telemetry messages there were
  crashed

infoVars == <<info, held, linked>>
localVars == <<cmdMsg, lastServerStatus, msg, target>>
netVars == <<life, hungUp, inbox, outbox, full, sent>>
ctrlVars == <<executing, produced, crashed>>
vars == <<infoVars, msgQueue, cmdMsgBuffer, pc, localVars, netVars, ctrlVars>>

Conn == 1 .. MaxConn
NoSocket == 0
NoMsg == [kind |-> "none", n |-> 0]
NoCmd == [commander |-> "other", n |-> 0]
Message == [kind : {"OK", "NotOK"}, n : 1 .. MaxCmd] \cup [kind : {"tlm"}, n : 1 .. MaxTlm]
Command == [commander : Commander, n : 1 .. MaxCmd]

Threads == {"controller", "server", "telemetry"}
Goto(t, from, to) == pc[t] = from /\ pc' = [pc EXCEPT ![t] = to]

\* cmdTlmServer_initServerInfo()
InitialInfo == [serverStatus |-> "Disconnected", socketConnect |-> NoSocket,
                isCloseConnDetected |-> FALSE, isReadyServer |-> FALSE,
                isReadyTlm |-> FALSE, isCommander |-> FALSE]

Init ==
  /\ info = InitialInfo
  /\ held = {}
  /\ linked = {}
  /\ msgQueue = [q \in Queue |-> <<>>]
  /\ cmdMsgBuffer = <<>>
  /\ pc = [controller |-> "closed", server |-> "none", telemetry |-> "none"]
  /\ cmdMsg = NoCmd
  /\ lastServerStatus = "Disconnected"
  /\ msg = NoMsg
  /\ target = NoSocket
  /\ executing = NoCmd
  /\ life = [c \in Conn |-> "none"]
  /\ hungUp = {}
  /\ inbox = [c \in Conn |-> <<>>]
  /\ outbox = [c \in Conn |-> <<>>]
  /\ full = {}
  /\ sent = 0
  /\ produced = 0
  /\ crashed = 0

-----------------------------------------------------------------------------
(* cmdTlmServer_basicClose(): whether a queue is closed and unlinked is    *)
(* decided by the memory allocated after it was opened.                    *)

\* Giving up after the first pointer that is NULL.
Kept_EarlyReturn(h) ==
  h \ ({"listen", "nameTlm", "nameCmdStatus"}
       \cup IF "memTlm" \in h
            THEN {"memTlm", "queueTlm", "memCmdStatus", "queueCmdStatus"} ELSE {})
\* What is left of the resources h.
Kept(h) ==
  h \ ({"listen", "nameTlm", "nameCmdStatus"}
       \cup (IF "memTlm" \in h THEN {"memTlm", "queueTlm"} ELSE {})
       \cup (IF "memCmdStatus" \in h THEN {"memCmdStatus", "queueCmdStatus"} ELSE {}))

Descriptor(q) == IF q = "tlm" THEN "queueTlm" ELSE "queueCmdStatus"
Unlinked(h) == {q \in Queue : Descriptor(q) \in h \ Kept(h)}

\* The connection in use is closed, the requests not accepted yet are refused.
Disconnect == [c \in Conn |-> IF c = info.socketConnect \/ life[c] = "pending"
                              THEN "closed" ELSE life[c]]

BasicClose ==
  /\ info' = [info EXCEPT !.socketConnect = NoSocket]
  /\ held' = Kept(held)
  /\ linked' = linked \ Unlinked(held)
  /\ msgQueue' = [q \in Queue |-> IF q \in Unlinked(held) THEN <<>> ELSE msgQueue[q]]
  /\ life' = Disconnect
  /\ UNCHANGED <<hungUp, inbox, outbox, full, sent>>

-----------------------------------------------------------------------------
(* The controller.                                                         *)

\* mq_open(): a queue left by a process that died has mode 0.
CanOpen(q) == q \in linked => Privileged
Names == {"nameTlm", "nameCmdStatus"}
CmdStatusPart == {"queueCmdStatus", "memCmdStatus"}
TlmPart == {"queueTlm", "memTlm"}

\* cmdTlmServer_init(): tcpServer_open(), then cmdTlmServer_prepareMsgQueue().
InitServer ==
  /\ \A q \in Queue : CanOpen(q)
  /\ Goto("controller", "closed", "ready")
  /\ info' = InitialInfo
  /\ held' = {"listen"} \cup Names \cup CmdStatusPart \cup TlmPart
  /\ linked' = Queue
  /\ UNCHANGED <<msgQueue, cmdMsgBuffer, localVars, netVars, ctrlVars>>

\* It fails, with the resources it got so far: no name or queue without the
\* listening socket, no telemetry queue without the one of the status.
InitServerFails(got) ==
  /\ got \in {{}, {"listen"} \cup Names, {"listen"} \cup Names \cup CmdStatusPart}
  /\ CmdStatusPart \subseteq got => CanOpen("cmdStatus")
  /\ Goto("controller", "closed", IF got = {} THEN "closed" ELSE "failed")
  /\ info' = InitialInfo
  /\ held' = got
  /\ linked' = IF CmdStatusPart \subseteq got THEN linked \cup {"cmdStatus"} ELSE linked
  /\ UNCHANGED <<msgQueue, cmdMsgBuffer, localVars, netVars, ctrlVars>>

\* cmdTlmServer_runInNewThread(): two threads, or none when the second cannot
\* be created; then the flags they wait for.
CreateServer ==
  /\ pc["controller"] = "ready"
  /\ pc' = [pc EXCEPT !["controller"] = "create", !["server"] = "wait"]
  /\ UNCHANGED <<infoVars, msgQueue, cmdMsgBuffer, localVars, netVars, ctrlVars>>

CreateTlm ==
  /\ pc["controller"] = "create"
  /\ \/ pc' = [pc EXCEPT !["controller"] = "setServer", !["telemetry"] = "wait"]
     \/ pc' = [pc EXCEPT !["controller"] = "ready", !["server"] = "none"]
  /\ lastServerStatus' = "Disconnected"
  /\ UNCHANGED <<infoVars, msgQueue, cmdMsgBuffer, cmdMsg, msg, target, netVars, ctrlVars>>

SetReadyServer ==
  /\ Goto("controller", "setServer", "setTlm")
  /\ info' = [info EXCEPT !.isReadyServer = TRUE]
  /\ UNCHANGED <<held, linked, msgQueue, cmdMsgBuffer, localVars, netVars, ctrlVars>>

SetReadyTlm ==
  /\ Goto("controller", "setTlm", "running")
  /\ info' = [info EXCEPT !.isReadyTlm = TRUE]
  /\ UNCHANGED <<held, linked, msgQueue, cmdMsgBuffer, localVars, netVars, ctrlVars>>

\* The control loop gives the control to the GUI or to the CSC, if there
\* is one ...
SetCommander ==
  /\ pc["controller"] = "running"
  /\ "CSC" \in Commander
  /\ info' = [info EXCEPT !.isCommander = ~@]
  /\ UNCHANGED <<held, linked, msgQueue, cmdMsgBuffer, pc, localVars, netVars, ctrlVars>>

\* ... takes a command ...
GetCommand ==
  /\ pc["controller"] = "running"
  /\ executing = NoCmd
  /\ cmdMsgBuffer # <<>>
  /\ executing' = Head(cmdMsgBuffer)
  /\ cmdMsgBuffer' = Tail(cmdMsgBuffer)
  /\ UNCHANGED <<infoVars, msgQueue, pc, localVars, netVars, produced, crashed>>

\* mq_send() on a non-blocking queue: when it is full, the message is lost.
Sent(q, m) == [msgQueue EXCEPT ![q] = IF Len(@) < QueueMax[q] THEN Append(@, m) ELSE @]

\* ... and reports on it: cmdTlmServer_sendCmdStatusToMsgQueue().
SendCmdStatusToMsgQueue ==
  /\ pc["controller"] = "running"
  /\ executing # NoCmd
  /\ msgQueue' = Sent("cmdStatus", [kind |-> "OK", n |-> executing.n])
  /\ executing' = NoCmd
  /\ UNCHANGED <<infoVars, cmdMsgBuffer, pc, localVars, netVars, produced, crashed>>

\* cmdTlmServer_sendTlmToMsgQueue()
SendTlmToMsgQueue ==
  /\ pc["controller"] = "running"
  /\ produced < MaxTlm
  /\ produced' = produced + 1
  /\ msgQueue' = Sent("tlm", [kind |-> "tlm", n |-> produced + 1])
  /\ UNCHANGED <<infoVars, cmdMsgBuffer, pc, localVars, netVars, executing, crashed>>

\* cmdTlmServer_close(): cmdTlmServer_exitThread() for the telemetry thread,
\* then for the server thread, then what the server thread may have left.
Close ==
  /\ \/ Goto("controller", "running", "joinTlm")
        /\ info' = [info EXCEPT !.isReadyTlm = FALSE]
     \/ Goto("controller", "ready", "release")
        /\ UNCHANGED info
  /\ UNCHANGED <<held, linked, msgQueue, cmdMsgBuffer, localVars, netVars, ctrlVars>>

\* Without waiting for the thread.
JoinTlm_NotAwaited ==
  /\ Goto("controller", "joinTlm", "stopServer")
  /\ UNCHANGED <<infoVars, msgQueue, cmdMsgBuffer, localVars, netVars, ctrlVars>>
JoinTlm ==
  /\ pc["controller"] = "joinTlm"
  /\ pc["telemetry"] = "ended"
  /\ pc' = [pc EXCEPT !["controller"] = "stopServer", !["telemetry"] = "none"]
  /\ UNCHANGED <<infoVars, msgQueue, cmdMsgBuffer, localVars, netVars, ctrlVars>>

\* Waiting for a thread that was not told to stop.
StopServer_ForgetsFlag ==
  /\ Goto("controller", "stopServer", "joinServer")
  /\ UNCHANGED <<infoVars, msgQueue, cmdMsgBuffer, localVars, netVars, ctrlVars>>
StopServer ==
  /\ Goto("controller", "stopServer", "joinServer")
  /\ info' = [info EXCEPT !.isReadyServer = FALSE]
  /\ UNCHANGED <<held, linked, msgQueue, cmdMsgBuffer, localVars, netVars, ctrlVars>>

\* The resources released under a thread that still runs.
JoinServer_NotAwaited ==
  /\ Goto("controller", "joinServer", "release")
  /\ UNCHANGED <<infoVars, msgQueue, cmdMsgBuffer, localVars, netVars, ctrlVars>>
JoinServer ==
  /\ pc["controller"] = "joinServer"
  /\ pc["server"] = "ended"
  /\ pc' = [pc EXCEPT !["controller"] = "release", !["server"] = "none"]
  /\ UNCHANGED <<infoVars, msgQueue, cmdMsgBuffer, localVars, netVars, ctrlVars>>

\* The last call of cmdTlmServer_close(), and of a cmdTlmServer_init() that fails.
Release ==
  /\ \/ Goto("controller", "release", "closed")
     \/ Goto("controller", "failed", "closed")
  /\ BasicClose
  /\ UNCHANGED <<cmdMsgBuffer, localVars, ctrlVars>>

\* The process dies; the kernel closes its descriptors and keeps its queues.
Crash ==
  /\ crashed < MaxCrash
  /\ pc["controller"] # "closed"
  /\ crashed' = crashed + 1
  /\ pc' = [controller |-> "closed", server |-> "none", telemetry |-> "none"]
  /\ info' = InitialInfo
  /\ held' = {}
  /\ cmdMsgBuffer' = <<>>
  /\ executing' = NoCmd
  /\ cmdMsg' = NoCmd
  /\ lastServerStatus' = "Disconnected"
  /\ msg' = NoMsg
  /\ target' = NoSocket
  /\ life' = [c \in Conn |-> IF life[c] = "none" THEN "none" ELSE "closed"]
  /\ UNCHANGED <<linked, msgQueue, hungUp, inbox, outbox, full, sent, produced>>

\* What the controller decides to do, and what it does then.
ControllerCall ==
  \/ InitServer \/ \E got \in SUBSET ({"listen"} \cup Names \cup CmdStatusPart) : InitServerFails(got)
  \/ CreateServer \/ SetCommander \/ SendTlmToMsgQueue \/ Close

ControllerStep ==
  \/ CreateTlm \/ SetReadyServer \/ SetReadyTlm
  \/ GetCommand \/ SendCmdStatusToMsgQueue
  \/ JoinTlm \/ StopServer \/ JoinServer \/ Release

-----------------------------------------------------------------------------
(* The server thread: cmdTlmServer_run().  It alone writes serverStatus    *)
(* while it runs, so reading it is not a step of its own.                  *)

StartServer ==
  /\ info.isReadyServer
  /\ Goto("server", "wait", "loop")
  /\ UNCHANGED <<infoVars, msgQueue, cmdMsgBuffer, localVars, netVars, ctrlVars>>

ServerLoop ==
  /\ info.isReadyServer
  /\ Goto("server", "loop", IF info.serverStatus = "Disconnected" THEN "accept" ELSE "check")
  /\ UNCHANGED <<infoVars, msgQueue, cmdMsgBuffer, localVars, netVars, ctrlVars>>

\* tcpServer_accept() gets the oldest request, perhaps of a client already gone ...
Accept(c) ==
  /\ life[c] = "pending"
  /\ \A d \in Conn : life[d] = "pending" => c <= d
  /\ Goto("server", "accept", "accepted")
  /\ info' = [info EXCEPT !.socketConnect = c]
  /\ life' = [life EXCEPT ![c] = "accepted"]
  /\ UNCHANGED <<held, linked, msgQueue, cmdMsgBuffer, localVars, hungUp, inbox, outbox,
                 full, sent, ctrlVars>>

\* ... or returns -1: the timeout is over, or poll() or accept() has failed.
AcceptNothing ==
  /\ HasTimeout \/ \E c \in Conn : life[c] = "pending"
  /\ Goto("server", "accept", "loop")
  /\ UNCHANGED <<infoVars, msgQueue, cmdMsgBuffer, localVars, netVars, ctrlVars>>

\* setsockopt(TCP_NODELAY) succeeds.
Connected ==
  /\ Goto("server", "accepted", "loop")
  /\ info' = [info EXCEPT !.serverStatus = "Connected"]
  /\ UNCHANGED <<held, linked, msgQueue, cmdMsgBuffer, localVars, netVars, ctrlVars>>

\* The connection replaced without a close().
CloseSocket_Leaks(from) ==
  /\ Goto("server", from, "reset")
  /\ info' = [info EXCEPT !.socketConnect = NoSocket]
  /\ UNCHANGED <<held, linked, msgQueue, cmdMsgBuffer, localVars, netVars, ctrlVars>>
\* cmdTlmServer_closeConn(): a descriptor closed and -1 are alike to send().
CloseSocket(from) ==
  /\ Goto("server", from, "reset")
  /\ info' = [info EXCEPT !.socketConnect = NoSocket]
  /\ life' = [life EXCEPT ![info.socketConnect] = "closed"]
  /\ UNCHANGED <<held, linked, msgQueue, cmdMsgBuffer, localVars, hungUp, inbox, outbox,
                 full, sent, ctrlVars>>

\* The status still says that there is a client.
Disconnected_Forgotten ==
  /\ Goto("server", "reset", "loop")
  /\ UNCHANGED <<infoVars, msgQueue, cmdMsgBuffer, localVars, netVars, ctrlVars>>
Disconnected ==
  /\ Goto("server", "reset", "loop")
  /\ info' = [info EXCEPT !.serverStatus = "Disconnected"]
  /\ UNCHANGED <<held, linked, msgQueue, cmdMsgBuffer, localVars, netVars, ctrlVars>>

\* The flag of the telemetry thread is never looked at.
CheckFlag_Ignored ==
  /\ Goto("server", "check", "recv")
  /\ UNCHANGED <<infoVars, msgQueue, cmdMsgBuffer, localVars, netVars, ctrlVars>>
CheckFlag ==
  /\ Goto("server", "check", IF info.isCloseConnDetected THEN "closeConn" ELSE "recv")
  /\ UNCHANGED <<infoVars, msgQueue, cmdMsgBuffer, localVars, netVars, ctrlVars>>

\* cmdTlmServer_recv(): a command ...
Recv ==
  LET c == info.socketConnect
  IN  /\ Goto("server", "recv", "dispatch")
      /\ c # NoSocket /\ inbox[c] # <<>>
      /\ cmdMsg' = Head(inbox[c])
      /\ inbox' = [inbox EXCEPT ![c] = Tail(@)]
      /\ UNCHANGED <<infoVars, msgQueue, cmdMsgBuffer, lastServerStatus, msg, target,
                     life, hungUp, outbox, full, sent, ctrlVars>>

\* The end of the connection taken for an error.
RecvEnd_Ignored ==
  /\ info.socketConnect \in hungUp
  /\ inbox[info.socketConnect] = <<>>
  /\ Goto("server", "recv", "loop")
  /\ UNCHANGED <<infoVars, msgQueue, cmdMsgBuffer, localVars, netVars, ctrlVars>>
\* ... the end of the connection, once every command has been read ...
RecvEnd ==
  /\ info.socketConnect \in hungUp
  /\ inbox[info.socketConnect] = <<>>
  /\ Goto("server", "recv", "closeConn")
  /\ UNCHANGED <<infoVars, msgQueue, cmdMsgBuffer, localVars, netVars, ctrlVars>>

\* ... or a timeout or an error, which the thread ignores.
RecvNothing ==
  LET c == info.socketConnect
  IN  /\ HasTimeout \/ c \in hungUp \/ (c # NoSocket /\ inbox[c] # <<>>)
      /\ Goto("server", "recv", "loop")
      /\ UNCHANGED <<infoVars, msgQueue, cmdMsgBuffer, localVars, netVars, ctrlVars>>

isCmdAuthorized(cmd) == \/ cmd.commander = "GUI"
                        \/ cmd.commander = "CSC" /\ info.isCommander

Overwritten(b, cmd) == Append(IF Len(b) = CmdSize THEN Tail(b) ELSE b, cmd)

\* A refused command that reaches the command buffer all the same.
Dispatch_StoresRefused ==
  /\ Goto("server", "dispatch", "loop")
  /\ cmdMsg' = NoCmd
  /\ cmdMsgBuffer' = Overwritten(cmdMsgBuffer, cmdMsg)
  /\ msgQueue' = IF isCmdAuthorized(cmdMsg) THEN msgQueue
                 ELSE Sent("cmdStatus", [kind |-> "NotOK", n |-> cmdMsg.n])
  /\ UNCHANGED <<infoVars, lastServerStatus, msg, target, netVars, ctrlVars>>
\* An authorized command goes to the command buffer, where it may overwrite the
\* oldest one; the client is told of any other, if the queue is not full.
Dispatch ==
  /\ Goto("server", "dispatch", "loop")
  /\ cmdMsg' = NoCmd
  /\ IF isCmdAuthorized(cmdMsg)
     THEN /\ cmdMsgBuffer' = Overwritten(cmdMsgBuffer, cmdMsg)
          /\ UNCHANGED msgQueue
     ELSE /\ msgQueue' = Sent("cmdStatus", [kind |-> "NotOK", n |-> cmdMsg.n])
          /\ UNCHANGED cmdMsgBuffer
  /\ UNCHANGED <<infoVars, lastServerStatus, msg, target, netVars, ctrlVars>>

ExitServer ==
  /\ ~info.isReadyServer
  /\ Goto("server", "loop", "exit")
  /\ BasicClose
  /\ UNCHANGED <<cmdMsgBuffer, localVars, ctrlVars>>

EndServer ==
  /\ Goto("server", "exit", "ended")
  /\ info' = [info EXCEPT !.serverStatus = "Exit"]
  /\ UNCHANGED <<held, linked, msgQueue, cmdMsgBuffer, localVars, netVars, ctrlVars>>

ServerStep ==
  \/ StartServer \/ ServerLoop \/ ExitServer \/ EndServer
  \/ (\E c \in Conn : Accept(c)) \/ AcceptNothing
  \/ Connected \/ CloseSocket("accepted") \/ CloseSocket("closeConn") \/ Disconnected
  \/ CheckFlag \/ Recv \/ RecvEnd \/ RecvNothing \/ Dispatch

-----------------------------------------------------------------------------
(* The telemetry thread: cmdTlmServer_sendTlmAndCmdStatus().               *)

StartTlm ==
  /\ info.isReadyTlm
  /\ Goto("telemetry", "wait", "loop")
  /\ UNCHANGED <<infoVars, msgQueue, cmdMsgBuffer, localVars, netVars, ctrlVars>>

TlmLoop ==
  /\ info.isReadyTlm
  /\ Goto("telemetry", "loop",
          IF lastServerStatus = "Disconnected" /\ info.serverStatus = "Connected"
          THEN "clear" ELSE "sample")
  /\ UNCHANGED <<infoVars, msgQueue, cmdMsgBuffer, localVars, netVars, ctrlVars>>

EndTlm ==
  /\ ~info.isReadyTlm
  /\ Goto("telemetry", "loop", "ended")
  /\ UNCHANGED <<infoVars, msgQueue, cmdMsgBuffer, localVars, netVars, ctrlVars>>

ClearFlag ==
  /\ Goto("telemetry", "clear", "sample")
  /\ info' = [info EXCEPT !.isCloseConnDetected = FALSE]
  /\ UNCHANGED <<held, linked, msgQueue, cmdMsgBuffer, localVars, netVars, ctrlVars>>

\* The status is read a second time.  While the flag is set nothing is sent,
\* and nobody else changes the flag.
SampleStatus ==
  /\ Goto("telemetry", "sample", IF info.isCloseConnDetected THEN "loop" ELSE "cmdStatus")
  /\ lastServerStatus' = info.serverStatus
  /\ UNCHANGED <<infoVars, msgQueue, cmdMsgBuffer, cmdMsg, msg, target, netVars, ctrlVars>>

\* What follows the turn of queue q.
After(q) == IF q = "cmdStatus" THEN "tlm" ELSE "loop"

\* A message that stays in the queue.
Pop_Peeks(q) ==
  /\ Goto("telemetry", q, IF msgQueue[q] = <<>> THEN After(q) ELSE "check")
  /\ msg' = IF msgQueue[q] = <<>> THEN NoMsg ELSE Head(msgQueue[q])
  /\ UNCHANGED <<infoVars, msgQueue, cmdMsgBuffer, cmdMsg, lastServerStatus, target,
                 netVars, ctrlVars>>
\* mq_receive()
Pop(q) ==
  /\ IF msgQueue[q] = <<>>
     THEN /\ Goto("telemetry", q, After(q))
          /\ UNCHANGED <<msg, msgQueue>>
     ELSE /\ Goto("telemetry", q, "check")
          /\ msg' = Head(msgQueue[q])
          /\ msgQueue' = [msgQueue EXCEPT ![q] = Tail(@)]
  /\ UNCHANGED <<infoVars, cmdMsgBuffer, cmdMsg, lastServerStatus, target, netVars, ctrlVars>>

AfterMsg == IF msg.kind = "tlm" THEN "loop" ELSE "tlm"

\* Without a client the message is dropped.
CheckStatus ==
  /\ IF info.serverStatus = "Connected"
     THEN Goto("telemetry", "check", "socket") /\ UNCHANGED msg
     ELSE Goto("telemetry", "check", AfterMsg) /\ msg' = NoMsg
  /\ UNCHANGED <<infoVars, msgQueue, cmdMsgBuffer, cmdMsg, lastServerStatus, target,
                 netVars, ctrlVars>>

ReadSocket ==
  /\ Goto("telemetry", "socket", "send")
  /\ target' = info.socketConnect
  /\ UNCHANGED <<infoVars, msgQueue, cmdMsgBuffer, cmdMsg, lastServerStatus, msg,
                 netVars, ctrlVars>>

\* Where send() may put the message: the socket read, or, when that one has been
\* closed since, the next client's, which may have got the same number.
Receiver(c) ==
  \/ c = target /\ life[c] = "accepted"
  \/ /\ target # NoSocket /\ life[target] = "closed"
     /\ c = info.socketConnect /\ c # NoSocket

\* Nothing keeps send() waiting once the client has hung up.
Room(c) == c \notin full \/ c \in hungUp

\* send() is on a blocking socket: without room it waits, for as long as it takes,
\* in the connection it was called for, even if the server thread closes that one.
SendBlocks ==
  /\ Goto("telemetry", "send", "blocked")
  /\ \E c \in Conn : Receiver(c) /\ ~Room(c) /\ target' = c
  /\ UNCHANGED <<infoVars, msgQueue, cmdMsgBuffer, cmdMsg, lastServerStatus, msg,
                 netVars, ctrlVars>>

\* With room it returns, and may have taken the last of it; sending to a client
\* that has hung up succeeds at first.
Send ==
  /\ pc["telemetry"] \in {"send", "blocked"}
  /\ pc' = [pc EXCEPT !["telemetry"] = AfterMsg]
  /\ \E c \in Conn : /\ IF pc["telemetry"] = "blocked" THEN c = target ELSE Receiver(c)
                     /\ Room(c)
                     /\ outbox' = IF c \in hungUp THEN outbox
                                  ELSE [outbox EXCEPT ![c] = Append(@, msg)]
                     /\ full' \in {full, full \cup ({c} \ hungUp)}
  /\ msg' = NoMsg
  /\ target' = NoSocket
  /\ UNCHANGED <<infoVars, msgQueue, cmdMsgBuffer, cmdMsg, lastServerStatus,
                 life, hungUp, inbox, sent, ctrlVars>>

SendFails ==
  /\ \/ pc["telemetry"] = "send" /\ (target \in Conn => life[target] = "closed")
     \/ pc["telemetry"] \in {"send", "blocked"} /\ target \in hungUp
  /\ pc' = [pc EXCEPT !["telemetry"] = "report"]
  /\ msg' = NoMsg
  /\ target' = NoSocket
  /\ UNCHANGED <<infoVars, msgQueue, cmdMsgBuffer, cmdMsg, lastServerStatus,
                 netVars, ctrlVars>>

ReportClosed ==
  /\ Goto("telemetry", "report", "loop")
  /\ info' = [info EXCEPT !.isCloseConnDetected = TRUE]
  /\ UNCHANGED <<held, linked, msgQueue, cmdMsgBuffer, localVars, netVars, ctrlVars>>

TelemetryStep ==
  \/ StartTlm \/ TlmLoop \/ EndTlm \/ ClearFlag \/ SampleStatus
  \/ \E q \in Queue : Pop(q)
  \/ CheckStatus \/ ReadSocket \/ Send \/ SendBlocks \/ SendFails \/ ReportClosed

-----------------------------------------------------------------------------
(* The clients.                                                            *)

Connect(c) ==
  /\ "listen" \in held
  /\ life[c] = "none"
  /\ \A d \in Conn : d < c => life[d] # "none"
  /\ life' = [life EXCEPT ![c] = "pending"]
  /\ UNCHANGED <<infoVars, msgQueue, cmdMsgBuffer, pc, localVars, hungUp, inbox, outbox,
                 full, sent, ctrlVars>>

SendCommand(c, commander) ==
  /\ life[c] \in {"pending", "accepted"} /\ c \notin hungUp
  /\ sent < MaxCmd
  /\ sent' = sent + 1
  /\ inbox' = [inbox EXCEPT ![c] = Append(@, [commander |-> commander, n |-> sent + 1])]
  /\ UNCHANGED <<infoVars, msgQueue, cmdMsgBuffer, pc, localVars, life, hungUp, outbox, full,
                 ctrlVars>>

\* The client reads what has been sent to it: nothing obliges it to.
ReadMessages(c) ==
  /\ c \in full \ hungUp
  /\ full' = full \ {c}
  /\ UNCHANGED <<infoVars, msgQueue, cmdMsgBuffer, pc, localVars, life, hungUp, inbox, outbox,
                 sent, ctrlVars>>

HangUp(c) ==
  /\ life[c] \in {"pending", "accepted"} \/ c \in full
  /\ c \notin hungUp
  /\ hungUp' = hungUp \cup {c}
  /\ UNCHANGED <<infoVars, msgQueue, cmdMsgBuffer, pc, localVars, life, inbox, outbox,
                 full, sent, ctrlVars>>

ClientStep == \E c \in Conn : \/ Connect(c)
                              \/ \E commander \in Commander : SendCommand(c, commander)
                              \/ ReadMessages(c) \/ HangUp(c)

-----------------------------------------------------------------------------
Next == ControllerCall \/ ControllerStep \/ ServerStep \/ TelemetryStep \/ ClientStep \/ Crash

Spec == Init /\ [][Next]_vars

\* The threads are scheduled, and poll(), accept() and recv() do not report an
\* error for ever while there is something to accept or to receive.  A send()
\* that waits for room has no step to take: nothing is assumed of the clients.
Fairness ==
  /\ WF_vars(ControllerStep)
  /\ WF_vars(ServerStep)
  /\ WF_vars(TelemetryStep)
  /\ SF_vars(\E c \in Conn : Accept(c))
  /\ SF_vars(Recv)
  /\ SF_vars(RecvEnd)

FairSpec == Spec /\ Fairness

-----------------------------------------------------------------------------
Resource == {"listen"} \cup Names \cup CmdStatusPart \cup TlmPart

\* The fields, the queues and the locals stay within what the code allows, and
\* each thread is at a step of its code.
TypeOK ==
  /\ info \in [serverStatus : {"Disconnected", "Connected", "Exit"},
               socketConnect : Conn \cup {NoSocket}, isCloseConnDetected : BOOLEAN,
               isReadyServer : BOOLEAN, isReadyTlm : BOOLEAN, isCommander : BOOLEAN]
  /\ held \subseteq Resource
  /\ linked \subseteq Queue
  /\ \A q \in Queue : msgQueue[q] \in Seq(Message) /\ Len(msgQueue[q]) <= QueueMax[q]
  /\ cmdMsgBuffer \in Seq(Command) /\ Len(cmdMsgBuffer) <= CmdSize
  /\ pc["controller"] \in {"closed", "failed", "ready", "create", "setServer", "setTlm",
                           "running", "joinTlm", "stopServer", "joinServer", "release"}
  /\ pc["server"] \in {"none", "wait", "loop", "accept", "accepted", "check", "recv",
                       "dispatch", "closeConn", "reset", "exit", "ended"}
  /\ pc["telemetry"] \in Queue \cup {"none", "wait", "loop", "clear", "sample", "check",
                                     "socket", "send", "blocked", "report", "ended"}
  /\ cmdMsg \in Command \cup {NoCmd}
  /\ executing \in Command \cup {NoCmd}
  /\ lastServerStatus \in {"Disconnected", "Connected"}
  /\ msg \in Message \cup {NoMsg}
  /\ target \in Conn \cup {NoSocket}
  /\ life \in [Conn -> {"none", "pending", "accepted", "closed"}]
  /\ hungUp \subseteq Conn
  /\ inbox \in [Conn -> Seq(Command)]
  /\ outbox \in [Conn -> Seq(Message)]
  /\ full \subseteq Conn
  /\ sent \in 0 .. MaxCmd
  /\ produced \in 0 .. MaxTlm
  /\ crashed \in 0 .. MaxCrash

\* No descriptor is lost: a connection is open exactly while it is the one in
\* use, and when the server is closed, or its start has failed half-way, nothing
\* is held any more, no queue is left in the kernel unless the process once died.
NothingLeaks ==
  /\ \A c \in Conn : life[c] = "accepted" <=> c = info.socketConnect
  /\ pc["controller"] = "closed" => held = {} /\ info.socketConnect = NoSocket
  /\ pc["controller"] = "closed" /\ crashed = 0 => linked = {}

\* The threads never outlive what they use: the telemetry thread is gone before
\* anyone closes the queues, the server thread before its listening socket is.
TlmLoopPc == Queue \cup {"loop", "clear", "sample", "check", "socket", "send", "blocked",
                        "report"}
ServerLoopPc == {"loop", "accept", "accepted", "check", "recv", "dispatch", "closeConn", "reset"}
InUse ==
  /\ pc["telemetry"] \in TlmLoopPc => CmdStatusPart \cup TlmPart \subseteq held
  /\ pc["server"] \in ServerLoopPc => held = Resource
  /\ pc["server"] \in {"check", "recv", "dispatch", "closeConn"} =>
       info.socketConnect # NoSocket


\* The numbers of a sequence of commands, and of the messages of some kinds, 0
\* where there is another.
CmdNumbers(s) == [i \in DOMAIN s |-> s[i].n]
Numbers(s, kinds) == [i \in DOMAIN s |-> IF s[i].kind \in kinds THEN s[i].n ELSE 0]
StatusKinds == {"OK", "NotOK"}

\* Where a command is, or the status that answers it: on its way from or to a
\* client, or at a place of the server's own.
Place == ({"inbox", "outbox"} \X Conn)
         \cup ({"cmdMsg", "cmdMsgBuffer", "executing", "queue", "msg"} \X {NoSocket})
Trail(p) ==
  CASE p[1] = "inbox" -> CmdNumbers(inbox[p[2]])
    [] p[1] = "cmdMsg" -> CmdNumbers(<<cmdMsg>>)
    [] p[1] = "cmdMsgBuffer" -> CmdNumbers(cmdMsgBuffer)
    [] p[1] = "executing" -> CmdNumbers(<<executing>>)
    [] p[1] = "queue" -> Numbers(msgQueue["cmdStatus"], StatusKinds)
    [] p[1] = "msg" -> Numbers(<<msg>>, StatusKinds)
    [] p[1] = "outbox" -> Numbers(outbox[p[2]], StatusKinds)

\* A command has one fate: it is on its way, waiting, executing or answered, by
\* one OK or one NotOK and to one client, across every interleaving of the
\* server thread, the controller and the telemetry thread.
OneFate ==
  \A p \in Place : \A i \in DOMAIN Trail(p) :
    Trail(p)[i] # 0 =>
      \A q \in Place : \A j \in DOMAIN Trail(q) :
        Trail(q)[j] = Trail(p)[i] => q = p /\ j = i

\* The way of a telemetry message backwards: what the clients have got, one after
\* the other, what is about to be sent, what is queued.
TlmLine(k) == Numbers(IF k \in Conn THEN outbox[k]
                      ELSE IF k = MaxConn + 1 THEN <<msg>> ELSE msgQueue["tlm"], {"tlm"})

\* Telemetry may be lost, but what the clients get, one after the other, is in
\* the order in which the controller queued it, and no message comes twice, even
\* when the connection changes under the hands of the telemetry thread.
TlmInOrder ==
  \A k \in 1 .. MaxConn + 2 : \A i \in DOMAIN TlmLine(k) :
    TlmLine(k)[i] # 0 =>
      \A l \in k .. MaxConn + 2 : \A j \in DOMAIN TlmLine(l) :
        TlmLine(l)[j] # 0 /\ (k < l \/ i < j) => TlmLine(k)[i] < TlmLine(l)[j]

\* A client that hangs up is noticed, by its end of file or by a failed send,
\* and its connection is closed.
HungUpClosed == \A c \in Conn : life[c] = "accepted" /\ c \in hungUp ~> life[c] = "closed"

\* While the server runs, a client that asks for a connection gets it as soon as
\* no other client keeps it.
ClientAccepted ==
  \A c \in Conn : life[c] = "pending" ~>
    \/ life[c] # "pending"
    \/ ~info.isReadyServer
    \/ \E d \in Conn : life[d] = "accepted" /\ d \notin hungUp

\* What the code relies on and does not ask of a client: it reads again, or hangs
\* up, after a while, so that no send() waits for ever.
ClientsRead == \A c \in Conn : []<>Room(c)

\* cmdTlmServer_close() returns, if both threads had got as far as their loops and
\* the clients read: the join waits for a send() that waits for the client.
ThreadsStarted == {pc["server"], pc["telemetry"]} \cap {"wait"} = {}
CloseReturns ==
  ClientsRead => (pc["controller"] = "joinTlm" /\ ThreadsStarted ~> pc["controller"] = "closed")

\* isCloseConnDetected never blocks the queues for good: a flag that was set for
\* an earlier connection is cleared, or ends this one.  If the clients read, the
\* status of a command and the telemetry leave the queues.
QueuesDrain ==
  ClientsRead =>
    \A q \in Queue : msgQueue[q] # <<>> /\ info.serverStatus = "Connected" ~>
      msgQueue[q] = <<>> \/ info.serverStatus # "Connected" \/ ~info.isReadyTlm

-----------------------------------------------------------------------------
(* What the documentation says, and the code does not do.                  *)

\* "Is the close of connection detected when sending the data to the connected
\* socket or not" (cmdTlmServer.h line 37): while it runs, the server thread
\* closes only connections whose client has hung up.
GoodConnectionKept ==
  [][\A c \in Conn : life[c] = "accepted" /\ life'[c] = "closed" /\ pc["server"] = "closeConn"
       => c \in hungUp]_vars

\* "Close the server thoroughly.  This is used in the shutdown process."
\* (cmdTlmServer.h line 95): once both threads have got as far as their loops, the
\* server that is told to close is closed in the end, whatever the client does.
CloseIsThorough ==
  pc["controller"] = "joinTlm" /\ ThreadsStarted ~> pc["controller"] = "closed"
=============================================================================
