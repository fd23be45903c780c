-------------------------- MODULE CmdTlmServerProofs --------------------------
(***************************************************************************)
(* Proofs about CmdTlmServer, for any number of clients, commands,         *)
(* messages and crashes, and any sizes of the queues and the buffer.       *)
(*                                                                         *)
(* What the process holds and which connection is in use follow from where *)
(* the three threads are, and where one thread can be from where the       *)
(* controller is: that is Steps, from which come the types, that nothing   *)
(* leaks and that nothing is used after its release.  On it rest Fates and *)
(* Line, that follow commands and telemetry from place to place.           *)
(***************************************************************************)
EXTENDS CmdTlmServer, SequenceTheorems, TLAPS

ControllerPc == {"closed", "failed", "ready", "create", "setServer", "setTlm",
                 "running", "joinTlm", "stopServer", "joinServer", "release"}
ServerPc == {"none", "wait", "exit", "ended"} \cup ServerLoopPc
TelemetryPc == {"none", "wait", "ended"} \cup TlmLoopPc
Info == [serverStatus : {"Disconnected", "Connected", "Exit"},
         socketConnect : Conn \cup {NoSocket}, isCloseConnDetected : BOOLEAN,
         isReadyServer : BOOLEAN, isReadyTlm : BOOLEAN, isCommander : BOOLEAN]

\* The parts of TypeOK, for the threads, for the fields that tell what they hold,
\* and for what they carry.
PcTyped ==
  /\ pc = [t \in Threads |-> pc[t]]
  /\ pc["controller"] \in ControllerPc
  /\ pc["server"] \in ServerPc
  /\ pc["telemetry"] \in TelemetryPc
InfoTyped ==
  /\ info \in Info
  /\ life \in [Conn -> {"none", "pending", "accepted", "closed"}]
  /\ crashed \in 0 .. MaxCrash
DataTyped ==
  /\ msgQueue \in [Queue -> Seq(Message)]
  /\ \A q \in Queue : Len(msgQueue[q]) <= QueueMax[q]
  /\ cmdMsgBuffer \in Seq(Command) /\ Len(cmdMsgBuffer) <= CmdSize
  /\ cmdMsg \in Command \cup {NoCmd}
  /\ executing \in Command \cup {NoCmd}
  /\ lastServerStatus \in {"Disconnected", "Connected"}
  /\ msg \in Message \cup {NoMsg}
  /\ target \in Conn \cup {NoSocket}
  /\ hungUp \subseteq Conn
  /\ inbox \in [Conn -> Seq(Command)]
  /\ outbox \in [Conn -> Seq(Message)]
  /\ full \subseteq Conn
  /\ sent \in 0 .. MaxCmd
  /\ produced \in 0 .. MaxTlm

ServerLives == pc["server"] \in {"wait"} \cup ServerLoopPc
NoThread == pc["server"] = "none" /\ pc["telemetry"] = "none"

\* Which threads there are, by how far the controller is in starting or in
\* joining them (cmdTlmServer_runInNewThread(), cmdTlmServer_close()).
ThreadsOK ==
  /\ pc["controller"] \in {"closed", "failed", "ready", "release"} => NoThread
  /\ pc["controller"] = "create" => pc["server"] = "wait" /\ pc["telemetry"] = "none"
  /\ pc["controller"] = "setServer" => pc["server"] = "wait" /\ pc["telemetry"] = "wait"
  /\ pc["controller"] = "setTlm" => ServerLives /\ pc["telemetry"] = "wait"
  /\ pc["controller"] = "running" =>
       ServerLives /\ pc["telemetry"] \in {"wait"} \cup TlmLoopPc
  /\ pc["controller"] = "joinTlm" => ServerLives /\ pc["telemetry"] # "none"
  /\ pc["controller"] = "stopServer" => ServerLives /\ pc["telemetry"] = "none"
  /\ pc["controller"] = "joinServer" => pc["server"] # "none" /\ pc["telemetry"] = "none"
FlagsOK ==
  /\ info.isReadyServer <=> pc["controller"] \in {"setTlm", "running", "joinTlm", "stopServer"}
  /\ info.isReadyTlm <=> pc["controller"] = "running"

\* What is held: all of it until the server thread has left its loop.
HeldOK ==
  /\ pc["controller"] \in {"ready", "create", "setServer", "setTlm", "running", "joinTlm",
                           "stopServer"} => held = Resource
  /\ pc["controller"] = "joinServer" =>
       held = IF pc["server"] \in {"exit", "ended"} THEN {} ELSE Resource
  /\ pc["controller"] = "release" => held \in {Resource, {}}
  /\ pc["controller"] = "failed" =>
       held \in {{"listen"} \cup Names, {"listen"} \cup Names \cup CmdStatusPart}
  /\ pc["controller"] = "closed" => held = {}
LinkedOK ==
  /\ linked \subseteq Queue
  /\ crashed = 0 => linked = {q \in Queue : Descriptor(q) \in held}

\* The connection and the status, by where the server thread is.
SocketOK ==
  /\ pc["server"] \in {"none", "wait", "accept", "reset", "exit", "ended"} =>
       info.socketConnect = NoSocket
  /\ pc["server"] \in {"accepted", "check", "recv", "dispatch", "closeConn"} =>
       info.socketConnect # NoSocket
  /\ pc["server"] = "loop" => (info.socketConnect = NoSocket <=> info.serverStatus = "Disconnected")
  /\ pc["server"] \in {"wait", "accept", "accepted"} => info.serverStatus = "Disconnected"
  /\ pc["server"] \in {"check", "recv", "dispatch", "closeConn"} => info.serverStatus = "Connected"
  /\ pc["server"] \in {"loop", "reset", "exit"} => info.serverStatus # "Exit"
  /\ pc["controller"] = "ready" => info.serverStatus = "Disconnected"
LifeOK == \A c \in Conn : life[c] = "accepted" <=> c = info.socketConnect

Steps == PcTyped /\ InfoTyped /\ ThreadsOK /\ FlagsOK /\ HeldOK /\ LinkedOK /\ SocketOK /\ LifeOK

\* What a thread holds in its hands is there, and each queue has its own messages.
InHand ==
  /\ pc["server"] = "dispatch" => cmdMsg \in Command
  /\ pc["telemetry"] \in {"check", "socket", "send", "blocked"} => msg \in Message
  /\ \A i \in DOMAIN msgQueue["cmdStatus"] : msgQueue["cmdStatus"][i].kind # "tlm"
  /\ \A i \in DOMAIN msgQueue["tlm"] : msgQueue["tlm"][i].kind = "tlm"

\* The numbers given to commands are those sent, to telemetry those produced.
SentOK == \A p \in Place : \A i \in DOMAIN Trail(p) : Trail(p)[i] \in 0 .. sent
ProducedOK == \A k \in 1 .. MaxConn + 2 : \A i \in DOMAIN TlmLine(k) : TlmLine(k)[i] \in 0 .. produced

\* Clients are accepted in the order they came, and get nothing before.
TurnsOK ==
  /\ \A c, d \in Conn : c < d =>
       /\ life[c] = "none" => life[d] = "none"
       /\ life[c] \in {"pending", "accepted"} => life[d] \in {"none", "pending"}
  /\ \A c \in Conn : life[c] \in {"none", "pending"} => outbox[c] = <<>>

\* While send() waits for room, in a connection that may be closed meanwhile, no
\* later client gets anything.
BlockedOK ==
  pc["telemetry"] = "blocked" =>
    /\ target \in Conn /\ life[target] \notin {"none", "pending"}
    /\ \A d \in Conn : target < d => outbox[d] = <<>>

ServerInvariant == /\ Steps /\ DataTyped /\ InHand
                   /\ SentOK /\ OneFate
                   /\ TurnsOK /\ BlockedOK /\ ProducedOK /\ TlmInOrder

-----------------------------------------------------------------------------
(* Steps: the threads, and what they hold.                                 *)

\* Initially there is nothing (Init).
LEMMA InitSteps == Init => Steps
<1> SUFFICES ASSUME Init PROVE Steps
  OBVIOUS
<1>1. PcTyped
  BY DEF Init, PcTyped, Threads, ControllerPc, ServerPc, TelemetryPc
<1>2. InfoTyped
  BY BoundAssumption DEF Init, InitialInfo, InfoTyped, Info
<1>3. ThreadsOK /\ FlagsOK /\ HeldOK /\ SocketOK
  BY DEF Init, InitialInfo, ThreadsOK, NoThread, FlagsOK, HeldOK, SocketOK
<1>4. LinkedOK /\ LifeOK
  BY DEF Init, InitialInfo, LinkedOK, LifeOK, Descriptor, Conn, NoSocket
<1> QED BY <1>1, <1>2, <1>3, <1>4 DEF Steps

\* An assignment to one field of serverInfo_t leaves the others.
LEMMA SocketAssigned ==
  ASSUME NEW i \in Info, NEW j, NEW c \in Conn \cup {NoSocket}, j = [i EXCEPT !.socketConnect = c]
  PROVE  /\ j \in Info /\ j.socketConnect = c /\ j.serverStatus = i.serverStatus
         /\ j.isReadyServer = i.isReadyServer /\ j.isReadyTlm = i.isReadyTlm
BY DEF Info

\* The same of isCloseConnDetected.
LEMMA FlagAssigned ==
  ASSUME NEW i \in Info, NEW j, NEW b \in BOOLEAN, j = [i EXCEPT !.isCloseConnDetected = b]
  PROVE  /\ j \in Info /\ j.socketConnect = i.socketConnect /\ j.serverStatus = i.serverStatus
         /\ j.isReadyServer = i.isReadyServer /\ j.isReadyTlm = i.isReadyTlm
BY DEF Info

\* The same of isReadyTlm.
LEMMA ReadyTlmAssigned ==
  ASSUME NEW i \in Info, NEW j, NEW b \in BOOLEAN, j = [i EXCEPT !.isReadyTlm = b]
  PROVE  /\ j \in Info /\ j.socketConnect = i.socketConnect /\ j.serverStatus = i.serverStatus
         /\ j.isReadyServer = i.isReadyServer /\ j.isReadyTlm = b
BY DEF Info

\* The telemetry thread writes no field but isCloseConnDetected.
LEMMA TelemetrySteps ==
  ASSUME Steps, TelemetryStep
  PROVE  Steps'
<1> USE DEF Steps, PcTyped, InfoTyped, ThreadsOK, NoThread, ServerLives, FlagsOK,
            HeldOK, LinkedOK, SocketOK, LifeOK, Goto, Threads, ControllerPc, ServerPc,
            TelemetryPc, ServerLoopPc, TlmLoopPc, Info, infoVars, localVars, netVars,
            ctrlVars
<1>1. CASE StartTlm
  BY ZenonT(90), <1>1 DEF StartTlm
<1>2. CASE TlmLoop
  BY ZenonT(90), <1>2 DEF TlmLoop
<1>3. CASE EndTlm
  BY ZenonT(90), <1>3 DEF EndTlm
<1>4. CASE ClearFlag
  <2>1. Goto("telemetry", "clear", "sample") /\ UNCHANGED <<held, linked, life, crashed>>
    BY <1>4 DEF ClearFlag
  <2>2. info \in Info /\ info' = [info EXCEPT !.isCloseConnDetected = FALSE]
    BY <1>4 DEF ClearFlag
  <2>3. /\ info' \in Info /\ info'.socketConnect = info.socketConnect
        /\ info'.serverStatus = info.serverStatus
        /\ info'.isReadyServer = info.isReadyServer /\ info'.isReadyTlm = info.isReadyTlm
    <3> HIDE DEF Info
    <3> QED BY <2>2, FlagAssigned
  <2> HIDE DEF Info
  <2>4. PcTyped' /\ InfoTyped'
    BY <2>1, <2>3
  <2>5. ThreadsOK' /\ FlagsOK' /\ HeldOK'
    BY <2>1, <2>3
  <2>6. SocketOK' /\ LinkedOK' /\ LifeOK'
    BY <2>1, <2>3
  <2> QED BY <2>4, <2>5, <2>6
<1>5. CASE SampleStatus
  BY ZenonT(90), <1>5 DEF SampleStatus, Queue
<1>6. CASE \E q \in Queue : Pop(q)
  BY <1>6 DEF Pop, After, Queue
<1>7. CASE CheckStatus
  BY <1>7 DEF CheckStatus, AfterMsg, Queue
<1>8. CASE ReadSocket
  BY ZenonT(90), <1>8 DEF ReadSocket
<1>9. CASE Send
  BY ZenonT(90), <1>9 DEF Send, AfterMsg, Queue
<1>10. CASE SendFails
  BY ZenonT(90), <1>10 DEF SendFails
<1>11. CASE ReportClosed
  BY ZenonT(90), <1>11 DEF ReportClosed
<1>12. CASE SendBlocks
  BY ZenonT(90), <1>12 DEF SendBlocks
<1> QED BY <1>1, <1>2, <1>3, <1>4, <1>5, <1>6, <1>7, <1>8, <1>9, <1>10, <1>11, <1>12 DEF
           TelemetryStep


\* Whatever is held when cmdTlmServer_basicClose() is called, nothing is after it,
\* and the queues that were opened are unlinked.
LEMMA NothingKept ==
  ASSUME NEW h \in {Resource, {}, {"listen"} \cup Names, {"listen"} \cup Names \cup CmdStatusPart}
  PROVE  Kept(h) = {} /\ Unlinked(h) = {q \in Queue : Descriptor(q) \in h}
BY DEF Kept, Unlinked, Resource, Names, CmdStatusPart, TlmPart

\* What cmdTlmServer_basicClose() leaves: no connection, open or waiting.
LEMMA BasicCloseLeaves ==
  ASSUME Steps, BasicClose,
         held \in {Resource, {}, {"listen"} \cup Names, {"listen"} \cup Names \cup CmdStatusPart}
  PROVE  /\ info' \in Info /\ info'.socketConnect = NoSocket
         /\ info'.serverStatus = info.serverStatus
         /\ info'.isReadyServer = info.isReadyServer /\ info'.isReadyTlm = info.isReadyTlm
         /\ held' = {}
         /\ linked' \subseteq Queue /\ (crashed = 0 => linked' = {})
         /\ life' \in [Conn -> {"none", "closed"}]
<1>1. /\ info' \in Info /\ info'.socketConnect = NoSocket
      /\ info'.serverStatus = info.serverStatus
      /\ info'.isReadyServer = info.isReadyServer /\ info'.isReadyTlm = info.isReadyTlm
  <2>1. info \in Info /\ info' = [info EXCEPT !.socketConnect = NoSocket]
    BY DEF BasicClose, Steps, InfoTyped
  <2> QED BY <2>1, SocketAssigned
<1>2. held' = {} /\ linked' = linked \ {q \in Queue : Descriptor(q) \in held}
  BY NothingKept DEF BasicClose
<1>3. life' \in [Conn -> {"none", "closed"}]
  BY DEF BasicClose, Disconnect, Steps, InfoTyped, LifeOK
<1> QED BY <1>1, <1>2, <1>3 DEF Steps, LinkedOK

\* The server thread: its connection, its status, and what it releases when it ends.
LEMMA ServerSteps ==
  ASSUME Steps, ServerStep
  PROVE  Steps'
<1> USE DEF Steps, PcTyped, InfoTyped, ThreadsOK, NoThread, ServerLives, FlagsOK,
            HeldOK, LinkedOK, SocketOK, LifeOK, Goto, Threads, ControllerPc, ServerPc,
            TelemetryPc, ServerLoopPc, TlmLoopPc, Info, infoVars, localVars, netVars,
            ctrlVars
<1>1. CASE StartServer
  BY ZenonT(90), <1>1 DEF StartServer
<1>2. CASE ServerLoop
  BY ZenonT(90), <1>2 DEF ServerLoop
<1>3. CASE ExitServer
  <2>1. Goto("server", "loop", "exit") /\ ~info.isReadyServer /\ UNCHANGED crashed /\ BasicClose
    BY <1>3 DEF ExitServer
  <2>2. held = Resource /\ pc["controller"] = "joinServer"
    BY <2>1
  <2>3. /\ info' \in Info /\ info'.socketConnect = NoSocket
        /\ info'.serverStatus = info.serverStatus
        /\ info'.isReadyServer = info.isReadyServer /\ info'.isReadyTlm = info.isReadyTlm
        /\ held' = {}
        /\ linked' \subseteq Queue /\ (crashed = 0 => linked' = {})
        /\ life' \in [Conn -> {"none", "closed"}]
    <3>1. Steps
      OBVIOUS
    <3> HIDE DEF Steps
    <3> QED BY <2>1, <2>2, <3>1, BasicCloseLeaves
  <2> HIDE DEF Info
  <2>11. PcTyped'
    BY <2>1, <2>2, <2>3 DEF Conn, NoSocket
  <2>12. InfoTyped'
    BY <2>1, <2>2, <2>3 DEF Conn, NoSocket
  <2>13. ThreadsOK'
    BY <2>1, <2>2, <2>3 DEF Conn, NoSocket
  <2>14. FlagsOK'
    BY <2>1, <2>2, <2>3 DEF Conn, NoSocket
  <2>15. HeldOK'
    BY <2>1, <2>2, <2>3 DEF Conn, NoSocket
  <2>16. LinkedOK'
    BY <2>1, <2>2, <2>3 DEF Conn, NoSocket
  <2>17. SocketOK'
    BY <2>1, <2>2, <2>3 DEF Conn, NoSocket
  <2>18. LifeOK'
    BY <2>1, <2>2, <2>3 DEF Conn, NoSocket
  <2> QED BY <2>11, <2>12, <2>13, <2>14, <2>15, <2>16, <2>17, <2>18
<1>4. CASE EndServer
  BY <1>4 DEF EndServer
<1>5. CASE \E c \in Conn : Accept(c)
  <2>1. PICK c \in Conn : Accept(c)
    BY <1>5
  <2>2. /\ Goto("server", "accept", "accepted") /\ UNCHANGED <<held, linked, crashed>>
        /\ life' = [life EXCEPT ![c] = "accepted"] /\ c # NoSocket /\ NoSocket \notin Conn
    BY <2>1 DEF Accept, Conn, NoSocket
  <2>3. /\ info' \in Info /\ info'.socketConnect = c
        /\ info'.serverStatus = info.serverStatus
        /\ info'.isReadyServer = info.isReadyServer /\ info'.isReadyTlm = info.isReadyTlm
    BY <2>1, SocketAssigned DEF Accept
  <2> HIDE DEF Info
  <2>11. PcTyped'
    BY <2>2, <2>3
  <2>12. InfoTyped'
    BY <2>2, <2>3
  <2>13. ThreadsOK'
    BY <2>2, <2>3
  <2>14. FlagsOK'
    BY <2>2, <2>3
  <2>15. HeldOK'
    BY <2>2, <2>3
  <2>16. LinkedOK'
    BY <2>2, <2>3
  <2>17. SocketOK'
    BY <2>2, <2>3
  <2>18. LifeOK'
    BY <2>2, <2>3
  <2> QED BY <2>11, <2>12, <2>13, <2>14, <2>15, <2>16, <2>17, <2>18
<1>6. CASE AcceptNothing
  BY ZenonT(90), <1>6 DEF AcceptNothing
<1>7. CASE Connected
  BY <1>7 DEF Connected
<1>8. CASE CloseSocket("accepted")
  <2>1. /\ Goto("server", "accepted", "reset") /\ UNCHANGED <<held, linked, crashed>>
        /\ life' = [life EXCEPT ![info.socketConnect] = "closed"]
        /\ NoSocket \notin Conn
    BY <1>8 DEF CloseSocket, Conn, NoSocket
  <2>2. /\ info' \in Info /\ info'.socketConnect = NoSocket
        /\ info'.serverStatus = info.serverStatus
        /\ info'.isReadyServer = info.isReadyServer /\ info'.isReadyTlm = info.isReadyTlm
    BY <1>8, SocketAssigned DEF CloseSocket
  <2> QED BY ZenonT(90), <2>1, <2>2
<1>9. CASE CloseSocket("closeConn")
  <2>1. /\ Goto("server", "closeConn", "reset") /\ UNCHANGED <<held, linked, crashed>>
        /\ life' = [life EXCEPT ![info.socketConnect] = "closed"]
        /\ NoSocket \notin Conn
    BY <1>9 DEF CloseSocket, Conn, NoSocket
  <2>2. /\ info' \in Info /\ info'.socketConnect = NoSocket
        /\ info'.serverStatus = info.serverStatus
        /\ info'.isReadyServer = info.isReadyServer /\ info'.isReadyTlm = info.isReadyTlm
    BY <1>9, SocketAssigned DEF CloseSocket
  <2> QED BY ZenonT(90), <2>1, <2>2
<1>10. CASE Disconnected
  BY ZenonT(90), <1>10 DEF Disconnected
<1>11. CASE CheckFlag
  BY ZenonT(90), <1>11 DEF CheckFlag
<1>12. CASE Recv
  BY ZenonT(90), <1>12 DEF Recv
<1>13. CASE RecvEnd
  BY ZenonT(90), <1>13 DEF RecvEnd
<1>14. CASE RecvNothing
  BY ZenonT(90), <1>14 DEF RecvNothing
<1>15. CASE Dispatch
  BY ZenonT(90), <1>15 DEF Dispatch
<1> QED BY <1>1, <1>2, <1>3, <1>4, <1>5, <1>6, <1>7, <1>8, <1>9, <1>10, <1>11, <1>12,
           <1>13, <1>14, <1>15 DEF ServerStep

\* The controller: it starts and joins the threads, and releases the rest.
LEMMA ControllerSteps ==
  ASSUME Steps, ControllerCall \/ ControllerStep
  PROVE  Steps'
<1> USE DEF Steps, PcTyped, InfoTyped, ThreadsOK, NoThread, ServerLives, FlagsOK,
            HeldOK, LinkedOK, SocketOK, LifeOK, Goto, Threads, ControllerPc, ServerPc,
            TelemetryPc, ServerLoopPc, TlmLoopPc, Info, infoVars, localVars, netVars,
            ctrlVars
<1>1. CASE InitServer
  BY ZenonT(90), <1>1 DEF InitServer, InitialInfo, Resource, Names, CmdStatusPart, TlmPart, Descriptor, Queue
<1>2. CASE \E got \in SUBSET ({"listen"} \cup Names \cup CmdStatusPart) : InitServerFails(got)
  <2>1. PICK got \in SUBSET ({"listen"} \cup Names \cup CmdStatusPart) : InitServerFails(got)
    BY <1>2
  <2>2. /\ got \in {{}, {"listen"} \cup Names, {"listen"} \cup Names \cup CmdStatusPart}
        /\ Goto("controller", "closed", IF got = {} THEN "closed" ELSE "failed")
        /\ held' = got
        /\ linked' = IF CmdStatusPart \subseteq got THEN linked \cup {"cmdStatus"} ELSE linked
        /\ UNCHANGED <<life, crashed>>
    BY <2>1 DEF InitServerFails
  <2>3. /\ info' \in Info /\ info'.socketConnect = NoSocket
        /\ info'.serverStatus = "Disconnected" /\ ~info'.isReadyServer /\ ~info'.isReadyTlm
    BY <2>1 DEF InitServerFails, InitialInfo
  <2>4. linked' \subseteq Queue /\ (crashed = 0 => linked' = {q \in Queue : Descriptor(q) \in got})
    <3>1. crashed = 0 => linked = {}
      BY <2>2
    <3> QED BY <2>2, <3>1 DEF Queue, Descriptor, Names, CmdStatusPart
  <2> HIDE DEF LinkedOK
  <2>5. LinkedOK'
    BY <2>2, <2>4 DEF LinkedOK
  <2>6. got # {} => got \in {{"listen"} \cup Names, {"listen"} \cup Names \cup CmdStatusPart}
    BY <2>2
  <2> QED BY ZenonT(90), <2>2, <2>3, <2>5, <2>6
<1>3. CASE CreateServer
  BY <1>3 DEF CreateServer
<1>4. CASE SetCommander
  BY ZenonT(90), <1>4 DEF SetCommander
<1>5. CASE SendTlmToMsgQueue
  BY <1>5 DEF SendTlmToMsgQueue
<1>6. CASE Close
  <2>1. UNCHANGED <<held, linked, life, crashed>>
    BY <1>6 DEF Close
  <2>2. CASE Goto("controller", "running", "joinTlm") /\ info' = [info EXCEPT !.isReadyTlm = FALSE]
    <3>1. /\ info' \in Info /\ info'.socketConnect = info.socketConnect
          /\ info'.serverStatus = info.serverStatus
          /\ info'.isReadyServer = info.isReadyServer /\ info'.isReadyTlm = FALSE
      BY <2>2, ReadyTlmAssigned
    <3>2. Goto("controller", "running", "joinTlm")
      BY <2>2
    <3> HIDE DEF Info
    <3>11. PcTyped'
      BY <2>1, <3>1, <3>2
    <3>12. InfoTyped'
      BY <2>1, <3>1, <3>2
    <3>13. ThreadsOK'
      BY <2>1, <3>1, <3>2 DEF Queue
    <3>14. FlagsOK'
      BY <2>1, <3>1, <3>2
    <3>15. HeldOK'
      BY <2>1, <3>1, <3>2
    <3>16. LinkedOK'
      BY <2>1, <3>1, <3>2
    <3>17. SocketOK'
      BY <2>1, <3>1, <3>2
    <3>18. LifeOK'
      BY <2>1, <3>1, <3>2
    <3> QED BY <3>11, <3>12, <3>13, <3>14, <3>15, <3>16, <3>17, <3>18
  <2>3. CASE Goto("controller", "ready", "release") /\ UNCHANGED info
    BY <2>1, <2>3
  <2> QED BY <1>6, <2>2, <2>3 DEF Close
<1>7. CASE CreateTlm
  BY <1>7 DEF CreateTlm
<1>8. CASE SetReadyServer
  BY <1>8 DEF SetReadyServer
<1>9. CASE SetReadyTlm
  BY <1>9 DEF SetReadyTlm
<1>10. CASE GetCommand
  BY <1>10 DEF GetCommand
<1>11. CASE SendCmdStatusToMsgQueue
  BY <1>11 DEF SendCmdStatusToMsgQueue
<1>12. CASE JoinTlm
  BY ZenonT(90), <1>12 DEF JoinTlm
<1>13. CASE StopServer
  BY ZenonT(90), <1>13 DEF StopServer
<1>14. CASE JoinServer
  BY <1>14 DEF JoinServer
<1>15. CASE Release
  <2>1. /\ pc["controller"] \in {"release", "failed"}
        /\ pc' = [pc EXCEPT !["controller"] = "closed"]
        /\ UNCHANGED crashed /\ BasicClose
    BY <1>15 DEF Release
  <2>2. held \in {Resource, {}, {"listen"} \cup Names, {"listen"} \cup Names \cup CmdStatusPart}
    BY <2>1
  <2>3. /\ info' \in Info /\ info'.socketConnect = NoSocket
        /\ info'.serverStatus = info.serverStatus
        /\ info'.isReadyServer = info.isReadyServer /\ info'.isReadyTlm = info.isReadyTlm
        /\ held' = {}
        /\ linked' \subseteq Queue /\ (crashed = 0 => linked' = {})
        /\ life' \in [Conn -> {"none", "closed"}]
    <3>1. Steps
      OBVIOUS
    <3> HIDE DEF Steps
    <3> QED BY <2>1, <2>2, <3>1, BasicCloseLeaves
  <2> HIDE DEF Info
  <2>11. PcTyped'
    BY <2>1, <2>2, <2>3 DEF Conn, NoSocket
  <2>12. InfoTyped'
    BY <2>1, <2>2, <2>3 DEF Conn, NoSocket
  <2>13. ThreadsOK'
    BY <2>1, <2>2, <2>3 DEF Conn, NoSocket
  <2>14. FlagsOK'
    BY <2>1, <2>2, <2>3 DEF Conn, NoSocket
  <2>15. HeldOK'
    BY <2>1, <2>2, <2>3 DEF Conn, NoSocket
  <2>16. LinkedOK'
    BY <2>1, <2>2, <2>3 DEF Conn, NoSocket
  <2>17. SocketOK'
    BY <2>1, <2>2, <2>3 DEF Conn, NoSocket
  <2>18. LifeOK'
    BY <2>1, <2>2, <2>3 DEF Conn, NoSocket
  <2> QED BY <2>11, <2>12, <2>13, <2>14, <2>15, <2>16, <2>17, <2>18
<1> QED BY <1>1, <1>2, <1>3, <1>4, <1>5, <1>6, <1>7, <1>8, <1>9, <1>10, <1>11, <1>12,
           <1>13, <1>14, <1>15 DEF ControllerCall, ControllerStep

\* The clients come and go; no thread moves.
LEMMA ClientSteps ==
  ASSUME Steps, ClientStep
  PROVE  Steps'
<1> USE DEF Steps, PcTyped, InfoTyped, ThreadsOK, NoThread, ServerLives, FlagsOK,
            HeldOK, LinkedOK, SocketOK, LifeOK, Goto, Threads, ControllerPc, ServerPc,
            TelemetryPc, ServerLoopPc, TlmLoopPc, Info, infoVars, localVars, netVars,
            ctrlVars
<1>1. CASE \E c \in Conn : Connect(c)
  BY <1>1 DEF Connect
<1>2. CASE \E c \in Conn, commander \in Commander : SendCommand(c, commander)
  BY <1>2 DEF SendCommand
<1>3. CASE \E c \in Conn : ReadMessages(c) \/ HangUp(c)
  BY <1>3 DEF ReadMessages, HangUp
<1> QED BY <1>1, <1>2, <1>3 DEF ClientStep

\* A process that dies leaves no thread, no descriptor and no connection.
LEMMA CrashSteps ==
  ASSUME Steps, Crash
  PROVE  Steps'
<1>1. PcTyped'
  BY DEF Crash, PcTyped, Threads, ControllerPc, ServerPc, TelemetryPc
<1>2. InfoTyped'
  BY BoundAssumption DEF Crash, Steps, InfoTyped, InitialInfo, Info
<1>3. ThreadsOK' /\ FlagsOK' /\ HeldOK' /\ SocketOK'
  BY DEF Crash, InitialInfo, ThreadsOK, NoThread, FlagsOK, HeldOK, SocketOK
<1>4. LinkedOK' /\ LifeOK'
  BY DEF Crash, Steps, InfoTyped, InitialInfo, LinkedOK, LifeOK, Conn, NoSocket
<1> QED BY <1>1, <1>2, <1>3, <1>4 DEF Steps

\* Every step of every thread, of the clients and of the kernel.
LEMMA NextSteps ==
  ASSUME Steps, [Next]_vars
  PROVE  Steps'
<1>1. CASE UNCHANGED vars
  BY <1>1 DEF vars, infoVars, netVars, ctrlVars, Steps, PcTyped, InfoTyped, ThreadsOK, NoThread,
              ServerLives, FlagsOK, HeldOK, LinkedOK, SocketOK, LifeOK
<1>2. CASE Next
  BY <1>2, ControllerSteps, ServerSteps, TelemetrySteps, ClientSteps, CrashSteps DEF Next
<1> QED BY <1>1, <1>2

\* The threads keep in step, whatever happens.
LEMMA AlwaysSteps == Spec => []Steps
BY InitSteps, NextSteps, PTL DEF Spec

\* No connection is lost and nothing stays held or linked after a close, for any
\* way of starting, failing, closing and dying: by then there is no thread, and
\* the last cmdTlmServer_basicClose() has met all the memory it goes by.
THEOREM NothingIsLeaked == Spec => []NothingLeaks
<1>1. Steps => NothingLeaks
  BY DEF Steps, ThreadsOK, NoThread, HeldOK, LinkedOK, SocketOK, LifeOK, NothingLeaks
<1> QED BY <1>1, AlwaysSteps, PTL

\* Neither thread uses what another has released: the server thread releases what
\* it shares with the telemetry thread only when that one has been joined.
THEOREM ResourcesInUse == Spec => []InUse
<1>1. Steps => InUse
  BY DEF Steps, PcTyped, ControllerPc, TelemetryPc, ServerPc, ThreadsOK, NoThread, ServerLives,
         HeldOK, SocketOK, InUse, Resource, TlmLoopPc, ServerLoopPc, Queue
<1> QED BY <1>1, AlwaysSteps, PTL

-----------------------------------------------------------------------------
(* What the steps carry: the commands, the statuses and the telemetry.     *)

carryVars == <<msgQueue, cmdMsgBuffer, cmdMsg, executing, msg, inbox, outbox, sent, produced>>
InSend == {"check", "socket", "send", "blocked"}

\* A step that carries nothing, and no thread takes anything in hand.
Quiet ==
  /\ UNCHANGED carryVars
  /\ pc'["server"] = "dispatch" => pc["server"] = "dispatch"
  /\ pc'["telemetry"] \in InSend => pc["telemetry"] \in InSend

\* The calls that carry something.
Carrying ==
  \/ GetCommand \/ SendCmdStatusToMsgQueue \/ SendTlmToMsgQueue \/ Release
  \/ Recv \/ Dispatch \/ ExitServer
  \/ (\E q \in Queue : Pop(q)) \/ CheckStatus \/ Send \/ SendFails
  \/ (\E c \in Conn, commander \in Commander : SendCommand(c, commander))
  \/ Crash

\* Every step of Next is of one of the two kinds.
LEMMA QuietOrCarrying ==
  ASSUME Steps, [Next]_vars
  PROVE  Quiet \/ Carrying
<1> USE DEF Quiet, carryVars, InSend, Goto, infoVars, localVars, netVars, ctrlVars
<1>0. pc = [t \in Threads |-> pc[t]]
  BY DEF Steps, PcTyped
<1> USE DEF Threads
<1>1. CASE UNCHANGED vars
  BY <1>1 DEF vars
<1>2. CASE ControllerCall
  <2>1. CASE InitServer \/ CreateServer \/ SetCommander \/ Close
    BY <1>0, <2>1 DEF InitServer, CreateServer, SetCommander, Close
  <2>2. CASE \E got \in SUBSET ({"listen"} \cup Names \cup CmdStatusPart) : InitServerFails(got)
    BY <1>0, <2>2 DEF InitServerFails
  <2> QED BY <1>2, <2>1, <2>2 DEF ControllerCall, Carrying
<1>3. CASE ControllerStep
  <2>1. CASE CreateTlm \/ SetReadyServer \/ SetReadyTlm
    BY <1>0, <2>1 DEF CreateTlm, SetReadyServer, SetReadyTlm
  <2>2. CASE JoinTlm \/ StopServer \/ JoinServer
    BY <1>0, <2>2 DEF JoinTlm, StopServer, JoinServer
  <2> QED BY <1>3, <2>1, <2>2 DEF ControllerStep, Carrying
<1>4. CASE ServerStep
  <2>1. CASE StartServer \/ ServerLoop \/ EndServer \/ AcceptNothing
    BY <1>0, <2>1 DEF StartServer, ServerLoop, EndServer, AcceptNothing
  <2>2. CASE (\E c \in Conn : Accept(c)) \/ Connected \/ Disconnected
    BY <1>0, <2>2 DEF Accept, Connected, Disconnected
  <2>3. CASE CloseSocket("accepted") \/ CloseSocket("closeConn") \/ CheckFlag \/ RecvEnd \/ RecvNothing
    BY <1>0, <2>3 DEF CloseSocket, CheckFlag, RecvEnd, RecvNothing
  <2> QED BY <1>4, <2>1, <2>2, <2>3 DEF ServerStep, Carrying
<1>5. CASE TelemetryStep
  <2>1. CASE StartTlm \/ TlmLoop \/ EndTlm \/ ClearFlag \/ SampleStatus \/ ReadSocket \/ ReportClosed
    BY <1>0, <2>1 DEF StartTlm, TlmLoop, EndTlm, ClearFlag, SampleStatus, ReadSocket, ReportClosed
  <2>2. CASE SendBlocks
    BY <1>0, <2>2 DEF SendBlocks
  <2> QED BY <1>5, <2>1, <2>2 DEF TelemetryStep, Carrying
<1>6. CASE ClientStep
  <2>1. CASE \E c \in Conn : Connect(c) \/ ReadMessages(c) \/ HangUp(c)
    BY <1>0, <2>1 DEF Connect, ReadMessages, HangUp
  <2> QED BY <1>6, <2>1 DEF ClientStep, Carrying
<1> QED BY <1>1, <1>2, <1>3, <1>4, <1>5, <1>6 DEF Next, Carrying

\* What is left when the first element is taken.
LEMMA HeadTaken ==
  ASSUME NEW S, NEW s \in Seq(S), s # <<>>
  PROVE  /\ Head(s) = s[1] /\ Head(s) \in S
         /\ Tail(s) \in Seq(S) /\ Len(s) \in Nat /\ Len(Tail(s)) = Len(s) - 1
         /\ \A i \in DOMAIN Tail(s) : i + 1 \in DOMAIN s /\ Tail(s)[i] = s[i + 1]
OBVIOUS

\* A message sent to a queue is its last one, or lost (mq_send()).
LEMMA SentMessage ==
  ASSUME DataTyped, NEW q \in Queue, NEW m \in Message
  PROVE  /\ Sent(q, m) \in [Queue -> Seq(Message)]
         /\ \A r \in Queue : r # q => Sent(q, m)[r] = msgQueue[r]
         /\ \/ Sent(q, m)[q] = msgQueue[q]
            \/ /\ Sent(q, m)[q] = Append(msgQueue[q], m)
               /\ Len(msgQueue[q]) < QueueMax[q]
BY DEF Sent, DataTyped

\* What the local variables and the clients' ends hold, whatever the step.
LEMMA LocalsTyped ==
  ASSUME Steps, DataTyped, [Next]_vars
  PROVE  /\ lastServerStatus' \in {"Disconnected", "Connected"}
         /\ target' \in Conn \cup {NoSocket}
         /\ hungUp' \subseteq Conn /\ full' \subseteq Conn
<1> USE DEF DataTyped, localVars, netVars
<1>1. CASE UNCHANGED vars
  BY <1>1 DEF vars
<1>2. CASE ControllerCall
  BY <1>2 DEF ControllerCall, InitServer, InitServerFails, CreateServer, SetCommander,
              SendTlmToMsgQueue, Close
<1>3. CASE ControllerStep
  BY <1>3 DEF ControllerStep, CreateTlm, SetReadyServer, SetReadyTlm, GetCommand,
              SendCmdStatusToMsgQueue, JoinTlm, StopServer, JoinServer, Release, BasicClose
<1>4. CASE ServerStep
  BY <1>4 DEF ServerStep, StartServer, ServerLoop, ExitServer, BasicClose, EndServer, Accept,
              AcceptNothing, Connected, CloseSocket, Disconnected, CheckFlag, Recv, RecvEnd,
              RecvNothing, Dispatch
<1>5. CASE TelemetryStep
  <2>1. CASE SampleStatus
    <3>1. info.serverStatus \in {"Disconnected", "Connected"}
      <4>1. ServerLives
        BY <2>1 DEF SampleStatus, Goto, Steps, PcTyped, ControllerPc, ThreadsOK, NoThread
      <4> QED BY <4>1 DEF Steps, SocketOK, ServerLives, ServerLoopPc, InfoTyped, Info
    <3> QED BY <2>1, <3>1 DEF SampleStatus
  <2>2. CASE ReadSocket
    BY <2>2 DEF ReadSocket, Steps, InfoTyped, Info
  <2>3. CASE StartTlm \/ TlmLoop \/ EndTlm \/ ClearFlag \/ ReportClosed
    BY <2>3 DEF StartTlm, TlmLoop, EndTlm, ClearFlag, ReportClosed
  <2>4. CASE (\E q \in Queue : Pop(q)) \/ CheckStatus \/ Send \/ SendBlocks \/ SendFails
    BY <2>4 DEF Pop, CheckStatus, Send, SendBlocks, SendFails
  <2> QED BY <1>5, <2>1, <2>2, <2>3, <2>4 DEF TelemetryStep
<1>6. CASE ClientStep
  BY <1>6 DEF ClientStep, Connect, SendCommand, ReadMessages, HangUp
<1>7. CASE Crash
  BY <1>7 DEF Crash
<1> QED BY <1>1, <1>2, <1>3, <1>4, <1>5, <1>6, <1>7 DEF Next

\* A command written over the oldest one of a full buffer.
LEMMA OverwrittenTyped ==
  ASSUME NEW b \in Seq(Command), Len(b) <= CmdSize, NEW cmd \in Command
  PROVE  Overwritten(b, cmd) \in Seq(Command) /\ Len(Overwritten(b, cmd)) <= CmdSize
<1>1. CASE Len(b) = CmdSize
  <2>1. b # <<>> /\ Tail(b) \in Seq(Command) /\ Len(Tail(b)) = Len(b) - 1
    BY <1>1, CmdSizeAssumption
  <2> QED BY <1>1, <2>1, CmdSizeAssumption DEF Overwritten
<1>2. CASE Len(b) # CmdSize
  BY <1>2, CmdSizeAssumption DEF Overwritten
<1> QED BY <1>1, <1>2

QueuesTyped ==
  /\ msgQueue \in [Queue -> Seq(Message)]
  /\ \A q \in Queue : Len(msgQueue[q]) <= QueueMax[q]
  /\ \A i \in DOMAIN msgQueue["cmdStatus"] : msgQueue["cmdStatus"][i].kind # "tlm"
  /\ \A i \in DOMAIN msgQueue["tlm"] : msgQueue["tlm"][i].kind = "tlm"

\* The message queues, at every step: a status is sent to one, telemetry to the
\* other, both are closed and unlinked together with their messages.
LEMMA QueueSteps ==
  ASSUME Steps, DataTyped, InHand, [Next]_vars
  PROVE  QueuesTyped'
<1>0. QueuesTyped
  BY DEF DataTyped, InHand, QueuesTyped
<1>1. CASE msgQueue' = msgQueue
  BY <1>0, <1>1 DEF QueuesTyped
<1>2. CASE \E q \in Queue : Pop(q) /\ msgQueue[q] # <<>>
  <2>1. PICK q \in Queue : Pop(q) /\ msgQueue[q] # <<>>
    BY <1>2
  <2>2. msgQueue' = [msgQueue EXCEPT ![q] = Tail(@)]
    BY <2>1 DEF Pop
  <2>3. /\ Tail(msgQueue[q]) \in Seq(Message) /\ Len(Tail(msgQueue[q])) = Len(msgQueue[q]) - 1
        /\ \A i \in DOMAIN Tail(msgQueue[q]) :
             i + 1 \in DOMAIN msgQueue[q] /\ Tail(msgQueue[q])[i] = msgQueue[q][i + 1]
    BY <1>0, <2>1 DEF QueuesTyped
  <2> QED BY <1>0, <2>2, <2>3, QueueAssumption DEF QueuesTyped, Queue
<1>3. CASE \E q \in Queue, m \in Message : msgQueue' = Sent(q, m) /\ (q = "tlm" <=> m.kind = "tlm")
  <2>1. PICK q \in Queue, m \in Message : msgQueue' = Sent(q, m) /\ (q = "tlm" <=> m.kind = "tlm")
    BY <1>3
  <2>2. /\ msgQueue' \in [Queue -> Seq(Message)]
        /\ \A r \in Queue : r # q => msgQueue'[r] = msgQueue[r]
        /\ \/ msgQueue'[q] = msgQueue[q]
           \/ msgQueue'[q] = Append(msgQueue[q], m) /\ Len(msgQueue[q]) < QueueMax[q]
    BY <2>1, SentMessage
  <2>3. CASE msgQueue'[q] = msgQueue[q]
    BY <1>0, <2>2, <2>3 DEF QueuesTyped, Queue
  <2>4. CASE msgQueue'[q] = Append(msgQueue[q], m) /\ Len(msgQueue[q]) < QueueMax[q]
    <3>1. /\ Len(msgQueue'[q]) = Len(msgQueue[q]) + 1
          /\ \A i \in DOMAIN msgQueue'[q] :
               IF i \in DOMAIN msgQueue[q] THEN msgQueue'[q][i] = msgQueue[q][i] ELSE msgQueue'[q][i] = m
      BY <1>0, <2>4 DEF QueuesTyped
    <3>5. Len(msgQueue[q]) \in Nat /\ QueueMax \in [Queue -> Nat]
      BY <1>0, QueueAssumption DEF QueuesTyped
    <3>2. \A r \in Queue : Len(msgQueue'[r]) <= QueueMax[r]
      <4>1. Len(msgQueue'[q]) <= QueueMax[q]
        BY <2>4, <3>1, <3>5
      <4> QED BY <1>0, <2>2, <4>1 DEF QueuesTyped
    <3>3. CASE q = "tlm"
      <4>1. msgQueue'["cmdStatus"] = msgQueue["cmdStatus"]
        BY <2>2, <3>3 DEF Queue
      <4>2. \A i \in DOMAIN msgQueue'["tlm"] : msgQueue'["tlm"][i].kind = "tlm"
        BY <1>0, <2>1, <3>1, <3>3 DEF QueuesTyped
      <4> QED BY <1>0, <2>2, <3>2, <4>1, <4>2 DEF QueuesTyped
    <3>4. CASE q = "cmdStatus"
      BY ZenonT(90), <1>0, <2>1, <2>2, <3>1, <3>2, <3>4 DEF QueuesTyped, Queue
    <3> QED BY <3>3, <3>4 DEF Queue
  <2> QED BY <2>2, <2>3, <2>4
<1>4. CASE \E S \in SUBSET Queue : msgQueue' = [q \in Queue |-> IF q \in S THEN <<>> ELSE msgQueue[q]]
  BY <1>0, <1>4, QueueAssumption DEF QueuesTyped, Queue
<1>5. CASE Quiet
  BY <1>1, <1>5 DEF Quiet, carryVars
<1>6. CASE Carrying
  <2>1. CASE GetCommand \/ Recv \/ CheckStatus \/ Send \/ SendFails \/ Crash
    BY <1>1, <2>1 DEF GetCommand, Recv, CheckStatus, Send, SendFails, Crash
  <2>2. CASE \E c \in Conn, commander \in Commander : SendCommand(c, commander)
    BY <1>1, <2>2 DEF SendCommand
  <2>3. CASE SendCmdStatusToMsgQueue
    <3>1. [kind |-> "OK", n |-> executing.n] \in Message
      BY <2>3 DEF SendCmdStatusToMsgQueue, DataTyped, Command, Message
    <3> QED BY <1>3, <2>3, <3>1 DEF SendCmdStatusToMsgQueue, Queue
  <2>4. CASE SendTlmToMsgQueue
    <3>1. [kind |-> "tlm", n |-> produced + 1] \in Message
      BY <2>4, BoundAssumption DEF SendTlmToMsgQueue, DataTyped, Message
    <3> QED BY <1>3, <2>4, <3>1 DEF SendTlmToMsgQueue, Queue
  <2>5. CASE Dispatch
    <3>1. [kind |-> "NotOK", n |-> cmdMsg.n] \in Message
      BY <2>5 DEF Dispatch, Goto, InHand, Command, Message
    <3> QED BY <1>1, <1>3, <2>5, <3>1 DEF Dispatch, Queue
  <2>6. CASE Release \/ ExitServer
    BY <1>4, <2>6 DEF Release, ExitServer, BasicClose, Unlinked
  <2>7. CASE \E q \in Queue : Pop(q)
    BY <1>1, <1>2, <2>7 DEF Pop
  <2> QED BY <1>6, <2>1, <2>2, <2>3, <2>4, <2>5, <2>6, <2>7 DEF Carrying
<1> QED BY <1>5, <1>6, QuietOrCarrying

\* What is carried is of its type, and in hand where a thread goes on to use it.
CarriedTyped ==
  /\ cmdMsgBuffer \in Seq(Command) /\ Len(cmdMsgBuffer) <= CmdSize
  /\ cmdMsg \in Command \cup {NoCmd} /\ executing \in Command \cup {NoCmd}
  /\ msg \in Message \cup {NoMsg}
  /\ inbox \in [Conn -> Seq(Command)] /\ outbox \in [Conn -> Seq(Message)]
  /\ sent \in 0 .. MaxCmd /\ produced \in 0 .. MaxTlm
  /\ pc["server"] = "dispatch" => cmdMsg \in Command
  /\ pc["telemetry"] \in InSend => msg \in Message

\* A message passes from one place to the next with its type.
LEMMA CarriedSteps ==
  ASSUME Steps, DataTyped, InHand, [Next]_vars
  PROVE  CarriedTyped'
<1>0. CarriedTyped /\ pc = [t \in Threads |-> pc[t]]
  BY DEF DataTyped, InHand, CarriedTyped, Steps, PcTyped, InSend
<1> USE DEF CarriedTyped, InSend, Goto, Threads, localVars, netVars, ctrlVars
<1>1. CASE Quiet
  BY <1>0, <1>1 DEF Quiet, carryVars
<1>2. CASE GetCommand
  <2>1. Head(cmdMsgBuffer) \in Command /\ Tail(cmdMsgBuffer) \in Seq(Command)
        /\ Len(Tail(cmdMsgBuffer)) <= CmdSize
    BY <1>0, <1>2, HeadTaken, CmdSizeAssumption DEF GetCommand
  <2> QED BY <1>0, <1>2, <2>1 DEF GetCommand
<1>3. CASE SendCmdStatusToMsgQueue
  BY <1>0, <1>3 DEF SendCmdStatusToMsgQueue
<1>4. CASE SendTlmToMsgQueue
  BY <1>0, <1>4, BoundAssumption DEF SendTlmToMsgQueue
<1>5. CASE Release \/ ExitServer
  BY <1>0, <1>5 DEF Release, ExitServer, BasicClose
<1>6. CASE Recv
  <2>1. info.socketConnect \in Conn
    BY <1>6 DEF Recv, Steps, InfoTyped, Info
  <2> QED BY <1>0, <1>6, <2>1 DEF Recv
<1>7. CASE Dispatch
  BY <1>0, <1>7, OverwrittenTyped DEF Dispatch
<1>8. CASE \E q \in Queue : Pop(q)
  BY <1>0, <1>8 DEF Pop, After, DataTyped, Queue
<1>9. CASE CheckStatus
  BY <1>0, <1>9 DEF CheckStatus, AfterMsg
<1>10. CASE Send
  BY <1>0, <1>10 DEF Send, AfterMsg
<1>11. CASE SendFails
  BY <1>0, <1>11 DEF SendFails
<1>12. CASE \E c \in Conn, commander \in Commander : SendCommand(c, commander)
  <2>1. PICK c \in Conn, commander \in Commander : SendCommand(c, commander)
    BY <1>12
  <2>2. sent' \in 0 .. MaxCmd /\ [commander |-> commander, n |-> sent + 1] \in Command
    BY <1>0, <2>1, BoundAssumption DEF SendCommand, Command
  <2> QED BY <1>0, <2>1, <2>2 DEF SendCommand
<1>13. CASE Crash
  <2>1. <<>> \in Seq(Command) /\ Len(<<>>) <= CmdSize
    BY CmdSizeAssumption
  <2> QED BY <1>0, <1>13, <2>1 DEF Crash
<1> QED BY <1>1, <1>2, <1>3, <1>4, <1>5, <1>6, <1>7, <1>8, <1>9, <1>10, <1>11, <1>12, <1>13,
           QuietOrCarrying DEF Carrying

\* Each of the three parts of the data stays typed.
LEMMA DataSteps ==
  ASSUME Steps, DataTyped, InHand, [Next]_vars
  PROVE  DataTyped' /\ InHand'
BY LocalsTyped, QueueSteps, CarriedSteps DEF QueuesTyped, CarriedTyped, DataTyped, InHand, InSend

\* At the start nothing is under way.
LEMMA InitData == Init => DataTyped /\ InHand
<1> SUFFICES ASSUME Init PROVE DataTyped /\ InHand
  OBVIOUS
<1>1. <<>> \in Seq(Command) /\ <<>> \in Seq(Message) /\ Len(<<>>) = 0 /\ DOMAIN <<>> = {}
  OBVIOUS
<1> QED BY <1>1, BoundAssumption, QueueAssumption, CmdSizeAssumption DEF Init, DataTyped, InHand, Queue

\* What is under way stays typed, whatever happens.
LEMMA AlwaysData == Spec => [](Steps /\ DataTyped /\ InHand)
<1>1. Steps /\ DataTyped /\ InHand /\ [Next]_vars => (Steps /\ DataTyped /\ InHand)'
  BY NextSteps, DataSteps
<1> QED BY InitSteps, InitData, <1>1, PTL DEF Spec

\* Every field, queue, buffer and local variable stays within what the code
\* allows; the telemetry thread never samples the status of a server that has
\* ended, as it is joined first.
THEOREM ServerTyped == Spec => []TypeOK
<1>1. Steps /\ DataTyped => TypeOK
  <2> SUFFICES ASSUME Steps, DataTyped PROVE TypeOK
    OBVIOUS
  <2>1. held \subseteq Resource
    BY DEF Steps, HeldOK, PcTyped, ControllerPc, Resource, Names, CmdStatusPart, TlmPart
  <2> QED BY <2>1 DEF Steps, PcTyped, InfoTyped, LinkedOK, DataTyped, TypeOK, Info, ControllerPc, ServerPc,
             ServerLoopPc, TelemetryPc, TlmLoopPc
<1> QED BY <1>1, AlwaysData, PTL

-----------------------------------------------------------------------------
(* OneFate: a command moves from place to place, from the front of one to  *)
(* the end of another.                                                     *)

\* The numbers at the places P are at most n, and each is in one place only.
Fates(P, L, n) ==
  /\ \A p \in P : \A i \in DOMAIN L[p] : L[p][i] \in 0 .. n
  /\ \A p \in P : \A i \in DOMAIN L[p] : L[p][i] # 0 =>
       \A q \in P : \A j \in DOMAIN L[q] : L[q][j] = L[p][i] => q = p /\ j = i

\* A number that is lost leaves the fates of the others as they are.
LEMMA FatesLost ==
  ASSUME NEW P, NEW L, NEW M, NEW n, Fates(P, L, n), n \in Nat,
         \A p \in P : \A i \in DOMAIN M[p] : M[p][i] = 0 \/ (i \in DOMAIN L[p] /\ M[p][i] = L[p][i])
  PROVE  Fates(P, M, n)
BY DEF Fates

\* The front of u becomes number k of w, where the first e numbers may be lost.
Moved(P, L, M, u, w, k, e) ==
  /\ u \in P /\ w \in P /\ u # w
  /\ \A p \in P : DOMAIN M[p] \subseteq Nat \ {0}
  /\ \A p \in P \ {u, w} : M[p] = L[p]
  /\ 1 \in DOMAIN L[u]
  /\ \A i \in DOMAIN M[u] : M[u][i] = 0 \/ (i + 1 \in DOMAIN L[u] /\ M[u][i] = L[u][i + 1])
  /\ \A i \in DOMAIN M[w] : \/ M[w][i] = 0
                            \/ i + e \in DOMAIN L[w] /\ M[w][i] = L[w][i + e]
                            \/ i = k /\ M[w][i] = L[u][1]

\* A number that passes from one place to another keeps its only fate.
LEMMA FatesMoved ==
  ASSUME NEW P, NEW L, NEW M, NEW n, Fates(P, L, n), n \in Nat,
         NEW u, NEW w, NEW k, NEW e \in Nat, Moved(P, L, M, u, w, k, e)
  PROVE  Fates(P, M, n)
<1> USE DEF Moved
<1>1. \A p \in P : \A i \in DOMAIN M[p] :
        \/ M[p][i] = 0
        \/ p = w /\ i = k /\ M[p][i] = L[u][1]
        \/ /\ i + (IF p = u THEN 1 ELSE IF p = w THEN e ELSE 0) \in DOMAIN L[p]
           /\ M[p][i] = L[p][i + (IF p = u THEN 1 ELSE IF p = w THEN e ELSE 0)]
  <2> TAKE p \in P
  <2> TAKE i \in DOMAIN M[p]
  <2>1. i \in Nat
    OBVIOUS
  <2>2. CASE p = u
    BY <2>1, <2>2
  <2>3. CASE p = w
    BY <2>1, <2>3
  <2>4. CASE p \notin {u, w}
    BY <2>1, <2>4
  <2> QED BY <2>2, <2>3, <2>4
<1>2. ASSUME NEW p \in P, NEW i \in DOMAIN M[p]
      PROVE  M[p][i] \in 0 .. n
  BY <1>1, <1>2 DEF Fates
<1>3. ASSUME NEW p \in P, NEW i \in DOMAIN M[p], M[p][i] # 0,
             NEW q \in P, NEW j \in DOMAIN M[q], M[q][j] = M[p][i]
      PROVE  q = p /\ j = i
  <2> DEFINE f == i + (IF p = u THEN 1 ELSE IF p = w THEN e ELSE 0)
             g == j + (IF q = u THEN 1 ELSE IF q = w THEN e ELSE 0)
  <2>0. i \in Nat \ {0} /\ j \in Nat \ {0}
    BY <1>3
  <2>1. CASE p = w /\ i = k /\ M[p][i] = L[u][1]
    <3>1. CASE g \in DOMAIN L[q] /\ M[q][j] = L[q][g]
      <4>1. q = u /\ g = 1
        BY <1>3, <2>1, <3>1 DEF Fates
      <4> QED BY <2>0, <4>1
    <3> QED BY <1>1, <1>3, <2>1, <3>1
  <2>2. CASE f \in DOMAIN L[p] /\ M[p][i] = L[p][f]
    <3>1. CASE g \in DOMAIN L[q] /\ M[q][j] = L[q][g]
      <4>1. q = p /\ g = f
        <5> HIDE DEF f, g
        <5> QED BY <1>3, <2>2, <3>1 DEF Fates
      <4> QED BY <2>0, <4>1
    <3>2. CASE q = w /\ j = k /\ M[q][j] = L[u][1]
      <4>1. p = u /\ f = 1
        BY <1>3, <2>2, <3>2 DEF Fates
      <4> QED BY <2>0, <4>1
    <3> QED BY <1>1, <1>3, <3>1, <3>2
  <2> QED BY <1>1, <1>3, <2>1, <2>2
<1> QED BY <1>2, <1>3 DEF Fates

\* A number x greater than all is added to w, as number k.
Added(P, L, M, w, k, x) ==
  /\ w \in P
  /\ \A p \in P \ {w} : M[p] = L[p]
  /\ \A i \in DOMAIN M[w] : \/ i \in DOMAIN L[w] /\ i # k /\ M[w][i] = L[w][i]
                            \/ i = k /\ M[w][i] = x

\* A number given for the first time is found nowhere else.
LEMMA FatesNew ==
  ASSUME NEW P, NEW L, NEW M, NEW n, Fates(P, L, n), n \in Nat,
         NEW w, NEW k, NEW x, x = n + 1, Added(P, L, M, w, k, x)
  PROVE  Fates(P, M, x)
<1> USE DEF Added
<1>1. \A p \in P : \A i \in DOMAIN M[p] :
        \/ i \in DOMAIN L[p] /\ M[p][i] = L[p][i] /\ M[p][i] \in 0 .. n
        \/ p = w /\ i = k /\ M[p][i] = x
  BY DEF Fates
<1> QED BY <1>1 DEF Fates

\* The numbers of a sequence without its first element, of one with another, and
\* of a single one.
LEMMA CmdNumbersOf ==
  ASSUME NEW s \in Seq(Command)
  PROVE  /\ DOMAIN CmdNumbers(s) = 1 .. Len(s)
         /\ s # <<>> =>
              /\ 1 \in DOMAIN CmdNumbers(s) /\ CmdNumbers(s)[1] = Head(s).n
              /\ DOMAIN CmdNumbers(Tail(s)) = 1 .. Len(s) - 1
              /\ \A i \in DOMAIN CmdNumbers(Tail(s)) :
                   /\ i + 1 \in DOMAIN CmdNumbers(s)
                   /\ CmdNumbers(Tail(s))[i] = CmdNumbers(s)[i + 1]
         /\ \A cmd \in Command :
              /\ DOMAIN CmdNumbers(Append(s, cmd)) = 1 .. Len(s) + 1
              /\ \A i \in DOMAIN CmdNumbers(Append(s, cmd)) :
                   \/ /\ i # Len(s) + 1 /\ i \in DOMAIN CmdNumbers(s)
                      /\ CmdNumbers(Append(s, cmd))[i] = CmdNumbers(s)[i]
                   \/ i = Len(s) + 1 /\ CmdNumbers(Append(s, cmd))[i] = cmd.n
<1>1. DOMAIN CmdNumbers(s) = 1 .. Len(s)
  BY DEF CmdNumbers
<1>2. ASSUME s # <<>>
      PROVE  /\ 1 \in DOMAIN CmdNumbers(s) /\ CmdNumbers(s)[1] = Head(s).n
             /\ DOMAIN CmdNumbers(Tail(s)) = 1 .. Len(s) - 1
             /\ \A i \in DOMAIN CmdNumbers(Tail(s)) :
                  /\ i + 1 \in DOMAIN CmdNumbers(s)
                  /\ CmdNumbers(Tail(s))[i] = CmdNumbers(s)[i + 1]
  BY <1>2, HeadTaken DEF CmdNumbers
<1>3. ASSUME NEW cmd \in Command
      PROVE  /\ DOMAIN CmdNumbers(Append(s, cmd)) = 1 .. Len(s) + 1
             /\ \A i \in DOMAIN CmdNumbers(Append(s, cmd)) :
                  \/ /\ i # Len(s) + 1 /\ i \in DOMAIN CmdNumbers(s)
                     /\ CmdNumbers(Append(s, cmd))[i] = CmdNumbers(s)[i]
                  \/ i = Len(s) + 1 /\ CmdNumbers(Append(s, cmd))[i] = cmd.n
  BY DEF CmdNumbers
<1> QED BY <1>1, <1>2, <1>3

\* The same of the numbers of messages.
LEMMA NumbersOf ==
  ASSUME NEW s \in Seq(Message), NEW kinds
  PROVE  /\ DOMAIN Numbers(s, kinds) = 1 .. Len(s)
         /\ s # <<>> =>
              /\ 1 \in DOMAIN Numbers(s, kinds)
              /\ Numbers(s, kinds)[1] = IF Head(s).kind \in kinds THEN Head(s).n ELSE 0
              /\ DOMAIN Numbers(Tail(s), kinds) = 1 .. Len(s) - 1
              /\ \A i \in DOMAIN Numbers(Tail(s), kinds) :
                   /\ i + 1 \in DOMAIN Numbers(s, kinds)
                   /\ Numbers(Tail(s), kinds)[i] = Numbers(s, kinds)[i + 1]
         /\ \A m \in Message :
              /\ DOMAIN Numbers(Append(s, m), kinds) = 1 .. Len(s) + 1
              /\ \A i \in DOMAIN Numbers(Append(s, m), kinds) :
                   \/ /\ i # Len(s) + 1 /\ i \in DOMAIN Numbers(s, kinds)
                      /\ Numbers(Append(s, m), kinds)[i] = Numbers(s, kinds)[i]
                   \/ /\ i = Len(s) + 1
                      /\ Numbers(Append(s, m), kinds)[i] = IF m.kind \in kinds THEN m.n ELSE 0
<1>1. DOMAIN Numbers(s, kinds) = 1 .. Len(s)
  BY DEF Numbers
<1>2. ASSUME s # <<>>
      PROVE  /\ 1 \in DOMAIN Numbers(s, kinds)
             /\ Numbers(s, kinds)[1] = IF Head(s).kind \in kinds THEN Head(s).n ELSE 0
             /\ DOMAIN Numbers(Tail(s), kinds) = 1 .. Len(s) - 1
             /\ \A i \in DOMAIN Numbers(Tail(s), kinds) :
                  /\ i + 1 \in DOMAIN Numbers(s, kinds)
                  /\ Numbers(Tail(s), kinds)[i] = Numbers(s, kinds)[i + 1]
  BY <1>2, HeadTaken DEF Numbers
<1>3. ASSUME NEW m \in Message
      PROVE  /\ DOMAIN Numbers(Append(s, m), kinds) = 1 .. Len(s) + 1
             /\ \A i \in DOMAIN Numbers(Append(s, m), kinds) :
                  \/ /\ i # Len(s) + 1 /\ i \in DOMAIN Numbers(s, kinds)
                     /\ Numbers(Append(s, m), kinds)[i] = Numbers(s, kinds)[i]
                  \/ /\ i = Len(s) + 1
                     /\ Numbers(Append(s, m), kinds)[i] = IF m.kind \in kinds THEN m.n ELSE 0
  BY DEF Numbers
<1> QED BY <1>1, <1>2, <1>3

\* The numbers of a variable that holds one command or one message.
LEMMA OneNumber ==
  /\ \A cmd : DOMAIN CmdNumbers(<<cmd>>) = {1} /\ CmdNumbers(<<cmd>>)[1] = cmd.n
  /\ \A m, kinds : /\ DOMAIN Numbers(<<m>>, kinds) = {1}
                   /\ Numbers(<<m>>, kinds)[1] = IF m.kind \in kinds THEN m.n ELSE 0
BY DEF CmdNumbers, Numbers

\* The places, one by one.
In(c) == <<"inbox", c>>
Out(c) == <<"outbox", c>>
At(place) == <<place, NoSocket>>
OwnPlace == {"cmdMsg", "cmdMsgBuffer", "executing", "queue", "msg"}

\* They are all places there are, and no two of them are one.
LEMMA PlaceCases ==
  /\ \A c \in Conn : In(c) \in Place /\ Out(c) \in Place
  /\ \A x \in OwnPlace : At(x) \in Place
  /\ \A p \in Place : (\E c \in Conn : p = In(c) \/ p = Out(c)) \/ (\E x \in OwnPlace : p = At(x))
  /\ \A c, d \in Conn : In(c) # Out(d) /\ (In(c) = In(d) => c = d) /\ (Out(c) = Out(d) => c = d)
  /\ \A c \in Conn, x \in OwnPlace : In(c) # At(x) /\ Out(c) # At(x)
  /\ \A x, y \in OwnPlace : At(x) = At(y) => x = y
<1>1. \A c \in Conn : In(c) \in Place /\ Out(c) \in Place
  BY DEF Place, In, Out
<1>2. \A x \in OwnPlace : At(x) \in Place
  BY DEF Place, At, OwnPlace
<1>3. \A p \in Place : (\E c \in Conn : p = In(c) \/ p = Out(c)) \/ (\E x \in OwnPlace : p = At(x))
  BY DEF Place, In, Out, At, OwnPlace
<1>4. \A c, d \in Conn : In(c) # Out(d) /\ (In(c) = In(d) => c = d) /\ (Out(c) = Out(d) => c = d)
  BY DEF In, Out
<1>5. \A c \in Conn, x \in OwnPlace : In(c) # At(x) /\ Out(c) # At(x)
  BY DEF In, Out, At, OwnPlace
<1>6. \A x, y \in OwnPlace : At(x) = At(y) => x = y
  BY DEF At
<1> QED BY <1>1, <1>2, <1>3, <1>4, <1>5, <1>6

Trails == [p \in Place |-> Trail(p)]
TrailsAre ==
  /\ \A c \in Conn : /\ Trails[In(c)] = CmdNumbers(inbox[c])
                     /\ Trails[Out(c)] = Numbers(outbox[c], StatusKinds)
  /\ Trails[At("cmdMsg")] = CmdNumbers(<<cmdMsg>>)
  /\ Trails[At("cmdMsgBuffer")] = CmdNumbers(cmdMsgBuffer)
  /\ Trails[At("executing")] = CmdNumbers(<<executing>>)
  /\ Trails[At("queue")] = Numbers(msgQueue["cmdStatus"], StatusKinds)
  /\ Trails[At("msg")] = Numbers(<<msg>>, StatusKinds)

\* Now, and after any step.
LEMMA TrailsExpand == TrailsAre /\ TrailsAre'
<1>1. TrailsAre
  <2>1. \A c \in Conn : Trails[In(c)] = CmdNumbers(inbox[c])
    BY PlaceCases DEF Trails, Trail, In
  <2>2. \A c \in Conn : Trails[Out(c)] = Numbers(outbox[c], StatusKinds)
    BY PlaceCases DEF Trails, Trail, Out
  <2>3. \A x \in OwnPlace : Trails[At(x)] = Trail(At(x))
    BY PlaceCases DEF Trails
  <2>4. /\ Trail(At("cmdMsg")) = CmdNumbers(<<cmdMsg>>)
        /\ Trail(At("cmdMsgBuffer")) = CmdNumbers(cmdMsgBuffer)
        /\ Trail(At("executing")) = CmdNumbers(<<executing>>)
    BY DEF Trail, At
  <2>5. /\ Trail(At("queue")) = Numbers(msgQueue["cmdStatus"], StatusKinds)
        /\ Trail(At("msg")) = Numbers(<<msg>>, StatusKinds)
    BY DEF Trail, At
  <2> QED BY <2>1, <2>2, <2>3, <2>4, <2>5 DEF TrailsAre, OwnPlace
<1>2. TrailsAre'
  BY <1>1, PTL
<1> QED BY <1>1, <1>2

\* OneFate, in the form the lemmas about fates speak of.
LEMMA FatesAre ==
  /\ SentOK /\ OneFate <=> Fates(Place, Trails, sent)
  /\ SentOK' /\ OneFate' <=> Fates(Place, Trails', sent')
BY DEF SentOK, OneFate, Fates, Trails

\* Sequences start at 1.
Numbered == \A p \in Place : DOMAIN Trails[p] \subseteq Nat \ {0}

\* What is typed is numbered from 1.
LEMMA TrailDomains == (DataTyped => Numbered) /\ (DataTyped' => Numbered')
<1>0. ASSUME DataTyped PROVE Numbered
  <2>1. \A c \in Conn : DOMAIN Trails[In(c)] \subseteq Nat \ {0} /\ DOMAIN Trails[Out(c)] \subseteq Nat \ {0}
    <3>1. \A c \in Conn : inbox[c] \in Seq(Command) /\ outbox[c] \in Seq(Message)
      BY <1>0 DEF DataTyped
    <3>2. \A c \in Conn : /\ DOMAIN CmdNumbers(inbox[c]) = 1 .. Len(inbox[c])
                          /\ DOMAIN Numbers(outbox[c], StatusKinds) = 1 .. Len(outbox[c])
      BY <3>1, CmdNumbersOf, NumbersOf
    <3> QED BY <3>2, TrailsExpand DEF TrailsAre
  <2>2. \A x \in OwnPlace : DOMAIN Trails[At(x)] \subseteq Nat \ {0}
    <3>1. cmdMsgBuffer \in Seq(Command) /\ msgQueue["cmdStatus"] \in Seq(Message)
      BY <1>0 DEF DataTyped, Queue
    <3> QED BY <3>1, TrailsExpand, OneNumber DEF TrailsAre, CmdNumbers, Numbers, OwnPlace
  <2> QED BY <2>1, <2>2, PlaceCases DEF Numbered
<1> HIDE DEF DataTyped, Numbered
<1>1. (DataTyped => Numbered)'
  BY <1>0, PTL
<1> QED BY <1>0, <1>1

\* Only the place of a step is looked at: what every other one is unchanged by.
LEMMA Elsewhere ==
  ASSUME NEW X,
         \A c \in Conn : /\ In(c) \in X \/ inbox'[c] = inbox[c]
                         /\ Out(c) \in X \/ outbox'[c] = outbox[c],
         At("cmdMsg") \in X \/ cmdMsg' = cmdMsg,
         At("cmdMsgBuffer") \in X \/ cmdMsgBuffer' = cmdMsgBuffer,
         At("executing") \in X \/ executing' = executing,
         At("queue") \in X \/ msgQueue'["cmdStatus"] = msgQueue["cmdStatus"],
         At("msg") \in X \/ msg' = msg
  PROVE  \A p \in Place \ X : Trails'[p] = Trails[p]
<1>1. \A c \in Conn : /\ In(c) \in X \/ Trails'[In(c)] = Trails[In(c)]
                      /\ Out(c) \in X \/ Trails'[Out(c)] = Trails[Out(c)]
  BY TrailsExpand DEF TrailsAre
<1>2. \A x \in OwnPlace : At(x) \in X \/ Trails'[At(x)] = Trails[At(x)]
  BY TrailsExpand DEF TrailsAre, OwnPlace
<1> QED BY <1>1, <1>2, PlaceCases

\* Taking a command to execute.
LEMMA GetCommandFate ==
  ASSUME DataTyped, DataTyped', Fates(Place, Trails, sent), GetCommand
  PROVE  Fates(Place, Trails', sent')
<1> DEFINE u == At("cmdMsgBuffer")
           w == At("executing")
<1>1. u \in Place /\ w \in Place /\ u # w
  BY PlaceCases DEF OwnPlace
<1>2. /\ cmdMsgBuffer \in Seq(Command) /\ cmdMsgBuffer # <<>>
      /\ cmdMsgBuffer' = Tail(cmdMsgBuffer) /\ executing' = Head(cmdMsgBuffer)
      /\ UNCHANGED <<msgQueue, inbox, outbox, cmdMsg, msg, sent>>
      /\ sent \in Nat
  BY DEF GetCommand, DataTyped, localVars, netVars
<1>3. \A p \in Place \ {u, w} : Trails'[p] = Trails[p]
  BY <1>2, Elsewhere
<1>4. /\ Trails[u] = CmdNumbers(cmdMsgBuffer) /\ Trails'[u] = CmdNumbers(Tail(cmdMsgBuffer))
      /\ Trails'[w] = CmdNumbers(<<Head(cmdMsgBuffer)>>)
  BY <1>2, TrailsExpand DEF TrailsAre
<1>5. /\ 1 \in DOMAIN Trails[u]
      /\ \A i \in DOMAIN Trails'[u] : i + 1 \in DOMAIN Trails[u] /\ Trails'[u][i] = Trails[u][i + 1]
  BY <1>2, <1>4, CmdNumbersOf
<1>6. \A i \in DOMAIN Trails'[w] : i = 1 /\ Trails'[w][i] = Trails[u][1]
  BY <1>2, <1>4, CmdNumbersOf, OneNumber
<1>7. Moved(Place, Trails, Trails', u, w, 1, 0)
  BY <1>1, <1>3, <1>5, <1>6, TrailDomains DEF Moved, Numbered
<1> HIDE DEF u, w
<1> QED BY <1>2, <1>7, FatesMoved

\* Receiving one.
LEMMA RecvFate ==
  ASSUME Steps, DataTyped, DataTyped', Fates(Place, Trails, sent), Recv
  PROVE  Fates(Place, Trails', sent')
<1> DEFINE c == info.socketConnect
           u == In(c)
           w == At("cmdMsg")
<1>0. c \in Conn
  BY DEF Recv, Steps, InfoTyped, Info
<1>1. u \in Place /\ w \in Place /\ u # w /\ \A d \in Conn : d # c => In(d) # u
  BY <1>0, PlaceCases DEF OwnPlace
<1>2. /\ inbox[c] \in Seq(Command) /\ inbox[c] # <<>>
      /\ inbox' = [inbox EXCEPT ![c] = Tail(@)] /\ cmdMsg' = Head(inbox[c])
      /\ UNCHANGED <<msgQueue, cmdMsgBuffer, outbox, executing, msg, sent>>
      /\ sent \in Nat /\ inbox \in [Conn -> Seq(Command)]
  BY <1>0 DEF Recv, DataTyped, ctrlVars
<1> HIDE DEF c
<1>3. \A p \in Place \ {u, w} : Trails'[p] = Trails[p]
  <2>1. \A d \in Conn : In(d) \in {u, w} \/ inbox'[d] = inbox[d]
    BY <1>2
  <2> QED BY <1>2, <2>1, Elsewhere
<1>4. /\ Trails[u] = CmdNumbers(inbox[c]) /\ Trails'[u] = CmdNumbers(Tail(inbox[c]))
      /\ Trails'[w] = CmdNumbers(<<Head(inbox[c])>>)
  BY <1>0, <1>2, TrailsExpand DEF TrailsAre
<1>5. /\ 1 \in DOMAIN Trails[u]
      /\ \A i \in DOMAIN Trails'[u] : i + 1 \in DOMAIN Trails[u] /\ Trails'[u][i] = Trails[u][i + 1]
  BY <1>2, <1>4, CmdNumbersOf
<1>6. \A i \in DOMAIN Trails'[w] : i = 1 /\ Trails'[w][i] = Trails[u][1]
  BY <1>2, <1>4, CmdNumbersOf, OneNumber
<1>7. Moved(Place, Trails, Trails', u, w, 1, 0)
  BY <1>1, <1>3, <1>5, <1>6, TrailDomains DEF Moved, Numbered
<1> HIDE DEF u, w
<1> QED BY <1>2, <1>7, FatesMoved

\* A command, executed or refused, becomes the status sent to the queue.
LEMMA StatusFate ==
  ASSUME DataTyped, DataTyped', Fates(Place, Trails, sent), NEW m \in Message,
         m.kind \in StatusKinds, msgQueue' = Sent("cmdStatus", m),
         NEW x \in {"executing", "cmdMsg"},
         x = "executing" => m.n = executing.n /\ executing' = NoCmd /\ cmdMsg' = cmdMsg,
         x = "cmdMsg" => m.n = cmdMsg.n /\ cmdMsg' = NoCmd /\ executing' = executing,
         UNCHANGED <<cmdMsgBuffer, inbox, outbox, msg, sent>>
  PROVE  Fates(Place, Trails', sent')
<1> DEFINE u == At(x)
           w == At("queue")
           q == msgQueue["cmdStatus"]
<1>1. u \in Place /\ w \in Place /\ u # w
  BY PlaceCases DEF OwnPlace
<1>2. sent \in Nat /\ q \in Seq(Message)
  BY DEF DataTyped, Queue
<1>3. \A p \in Place \ {u, w} : Trails'[p] = Trails[p]
  BY Elsewhere
<1>4. /\ DOMAIN Trails[u] = {1} /\ Trails[u][1] = m.n
      /\ DOMAIN Trails'[u] = {1} /\ Trails'[u][1] = 0
  BY TrailsExpand, OneNumber DEF TrailsAre, NoCmd
<1>5. Trails[w] = Numbers(q, StatusKinds)
  BY TrailsExpand DEF TrailsAre
<1>6. msgQueue'["cmdStatus"] = q \/ msgQueue'["cmdStatus"] = Append(q, m)
  BY SentMessage DEF Queue
<1>7. CASE msgQueue'["cmdStatus"] = q
  <2>1. Trails'[w] = Trails[w]
    BY <1>5, <1>7, TrailsExpand DEF TrailsAre
  <2> HIDE DEF u, w
  <2>2. \A p \in Place : \A i \in DOMAIN Trails'[p] :
          Trails'[p][i] = 0 \/ (i \in DOMAIN Trails[p] /\ Trails'[p][i] = Trails[p][i])
    BY <1>3, <1>4, <2>1
  <2> QED BY <1>2, <2>2, FatesLost
<1>8. CASE msgQueue'["cmdStatus"] = Append(q, m)
  <2>1. Trails'[w] = Numbers(Append(q, m), StatusKinds)
    BY <1>8, TrailsExpand DEF TrailsAre
  <2>2. \A i \in DOMAIN Trails'[w] : \/ i + 0 \in DOMAIN Trails[w] /\ Trails'[w][i] = Trails[w][i + 0]
                                     \/ i = Len(q) + 1 /\ Trails'[w][i] = Trails[u][1]
    <3> HIDE DEF q, u, w
    <3>1. /\ DOMAIN Numbers(q, StatusKinds) = 1 .. Len(q)
          /\ \A i \in DOMAIN Trails'[w] :
               \/ i \in 1 .. Len(q) /\ Trails'[w][i] = Trails[w][i]
               \/ i = Len(q) + 1 /\ Trails'[w][i] = m.n
      BY <1>2, <1>5, <2>1, NumbersOf
    <3> QED BY <1>4, <1>5, <3>1
  <2>3. Moved(Place, Trails, Trails', u, w, Len(q) + 1, 0)
    BY <1>1, <1>3, <1>4, <2>2, TrailDomains DEF Moved, Numbered
  <2> HIDE DEF u, w, q
  <2> QED BY <1>2, <2>3, FatesMoved
<1> QED BY <1>6, <1>7, <1>8

\* An authorized command goes to the end of the command buffer, when that one is
\* full over the oldest command.
LEMMA BufferFate ==
  ASSUME DataTyped, DataTyped', cmdMsg \in Command, Fates(Place, Trails, sent),
         cmdMsgBuffer' = Overwritten(cmdMsgBuffer, cmdMsg), cmdMsg' = NoCmd,
         UNCHANGED <<msgQueue, executing, inbox, outbox, msg, sent>>
  PROVE  Fates(Place, Trails', sent')
<1> DEFINE u == At("cmdMsg")
           w == At("cmdMsgBuffer")
           b == cmdMsgBuffer
           e == IF Len(b) = CmdSize THEN 1 ELSE 0
           kept == IF Len(b) = CmdSize THEN Tail(b) ELSE b
<1>1. u \in Place /\ w \in Place /\ u # w
  BY PlaceCases DEF OwnPlace
<1>2. sent \in Nat /\ b \in Seq(Command) /\ (Len(b) = CmdSize => b # <<>>)
  BY CmdSizeAssumption DEF DataTyped
<1>3. \A p \in Place \ {u, w} : Trails'[p] = Trails[p]
  BY Elsewhere
<1>4. /\ DOMAIN Trails[u] = {1} /\ Trails[u][1] = cmdMsg.n
      /\ DOMAIN Trails'[u] = {1} /\ Trails'[u][1] = 0
  BY TrailsExpand, OneNumber DEF TrailsAre, NoCmd
<1>5. Trails[w] = CmdNumbers(b) /\ Trails'[w] = CmdNumbers(Append(kept, cmdMsg))
  BY TrailsExpand DEF TrailsAre, Overwritten
<1>6. /\ kept \in Seq(Command)
      /\ \A i \in DOMAIN CmdNumbers(kept) : i + e \in DOMAIN CmdNumbers(b)
                                            /\ CmdNumbers(kept)[i] = CmdNumbers(b)[i + e]
  <2>1. CASE Len(b) = CmdSize
    BY <1>2, <2>1, CmdNumbersOf, HeadTaken
  <2>2. CASE Len(b) # CmdSize
    BY <1>2, <2>2, CmdNumbersOf
  <2> QED BY <2>1, <2>2
<1> HIDE DEF u, w, b, e, kept
<1>7. \A i \in DOMAIN Trails'[w] : \/ i + e \in DOMAIN Trails[w] /\ Trails'[w][i] = Trails[w][i + e]
                                   \/ i = Len(kept) + 1 /\ Trails'[w][i] = Trails[u][1]
  BY <1>4, <1>5, <1>6, CmdNumbersOf
<1>8. Moved(Place, Trails, Trails', u, w, Len(kept) + 1, e)
  BY <1>1, <1>3, <1>4, <1>7, TrailDomains DEF Moved, Numbered
<1>9. e \in Nat
  BY DEF e
<1> QED BY <1>2, <1>8, <1>9, FatesMoved

\* The telemetry thread takes a status from the queue ...
LEMMA PopFate ==
  ASSUME DataTyped, DataTyped', InHand, Fates(Place, Trails, sent), NEW q \in Queue,
         Pop(q), msgQueue[q] # <<>>
  PROVE  Fates(Place, Trails', sent')
<1> DEFINE u == At("queue")
           w == At("msg")
           s == msgQueue["cmdStatus"]
<1>1. u \in Place /\ w \in Place /\ u # w
  BY PlaceCases DEF OwnPlace
<1>2. /\ sent \in Nat /\ s \in Seq(Message) /\ msgQueue \in [Queue -> Seq(Message)]
      /\ msgQueue' = [msgQueue EXCEPT ![q] = Tail(@)] /\ msg' = Head(msgQueue[q])
      /\ UNCHANGED <<cmdMsgBuffer, cmdMsg, executing, inbox, outbox, sent>>
  BY DEF Pop, DataTyped, Queue, netVars, ctrlVars
<1>3. \A p \in Place \ {u, w} : Trails'[p] = Trails[p]
  BY <1>2, Elsewhere
<1>4. Trails[u] = Numbers(s, StatusKinds) /\ Trails'[w] = Numbers(<<Head(msgQueue[q])>>, StatusKinds)
  BY <1>2, TrailsExpand DEF TrailsAre
<1>5. CASE q = "cmdStatus"
  <2>1. s # <<>> /\ Trails'[u] = Numbers(Tail(s), StatusKinds)
    BY <1>2, <1>5, TrailsExpand DEF TrailsAre
  <2>2. Head(s).kind \in StatusKinds
    <3>1. Head(s) \in Message
      BY <1>2, <2>1, HeadTaken
    <3>2. Head(s).kind # "tlm"
      BY <1>2, <2>1, HeadTaken DEF InHand
    <3> QED BY <3>1, <3>2 DEF Message, StatusKinds
  <2> HIDE DEF u, w, s
  <2>3. /\ 1 \in DOMAIN Trails[u]
        /\ \A i \in DOMAIN Trails'[u] : i + 1 \in DOMAIN Trails[u] /\ Trails'[u][i] = Trails[u][i + 1]
    BY <1>2, <1>4, <2>1, NumbersOf
  <2>4. \A i \in DOMAIN Trails'[w] : i = 1 /\ Trails'[w][i] = Trails[u][1]
    BY <1>2, <1>4, <1>5, <2>1, <2>2, NumbersOf, OneNumber DEF s
  <2>5. Moved(Place, Trails, Trails', u, w, 1, 0)
    BY <1>1, <1>3, <2>3, <2>4, TrailDomains DEF Moved, Numbered
  <2> QED BY <1>2, <2>5, FatesMoved
<1>6. CASE q = "tlm"
  <2>1. Trails'[u] = Trails[u]
    BY <1>2, <1>6, TrailsExpand DEF TrailsAre, Queue
  <2>2. Head(msgQueue[q]).kind \notin StatusKinds
    BY <1>2, <1>6, HeadTaken DEF InHand, StatusKinds
  <2>3. \A i \in DOMAIN Trails'[w] : Trails'[w][i] = 0
    BY <1>4, <2>2, OneNumber
  <2> HIDE DEF u, w
  <2>4. \A p \in Place : \A i \in DOMAIN Trails'[p] :
          Trails'[p][i] = 0 \/ (i \in DOMAIN Trails[p] /\ Trails'[p][i] = Trails[p][i])
    BY <1>3, <2>1, <2>3
  <2> QED BY <1>2, <2>4, FatesLost
<1> QED BY <1>5, <1>6 DEF Queue

\* ... and sends it to a client.
LEMMA SendFate ==
  ASSUME DataTyped, DataTyped', InHand, Fates(Place, Trails, sent), Send
  PROVE  Fates(Place, Trails', sent')
<1>0. PICK c \in Conn : outbox' = IF c \in hungUp THEN outbox
                                  ELSE [outbox EXCEPT ![c] = Append(@, msg)]
  BY DEF Send
<1> DEFINE u == At("msg")
           w == Out(c)
           s == outbox[c]
<1>1. u \in Place /\ w \in Place /\ u # w /\ \A d \in Conn : d # c => Out(d) # w
  BY PlaceCases DEF OwnPlace
<1>2. /\ sent \in Nat /\ s \in Seq(Message) /\ outbox \in [Conn -> Seq(Message)] /\ msg \in Message
      /\ msg' = NoMsg
      /\ UNCHANGED <<msgQueue, cmdMsgBuffer, cmdMsg, executing, inbox, sent>>
  BY DEF Send, Goto, InHand, DataTyped, ctrlVars
<1>3. \A p \in Place \ {u, w} : Trails'[p] = Trails[p]
  <2>1. \A d \in Conn : Out(d) \in {u, w} \/ outbox'[d] = outbox[d]
    BY <1>0, <1>2
  <2> QED BY <1>2, <2>1, Elsewhere
<1>4. /\ DOMAIN Trails[u] = {1} /\ Trails[u][1] = IF msg.kind \in StatusKinds THEN msg.n ELSE 0
      /\ DOMAIN Trails'[u] = {1} /\ Trails'[u][1] = 0
  BY <1>2, TrailsExpand, OneNumber DEF TrailsAre, NoMsg
<1>5. Trails[w] = Numbers(s, StatusKinds)
  BY TrailsExpand DEF TrailsAre
<1>6. CASE c \in hungUp
  <2>1. Trails'[w] = Trails[w]
    BY <1>0, <1>5, <1>6, TrailsExpand DEF TrailsAre
  <2> HIDE DEF u, w
  <2>2. \A p \in Place : \A i \in DOMAIN Trails'[p] :
          Trails'[p][i] = 0 \/ (i \in DOMAIN Trails[p] /\ Trails'[p][i] = Trails[p][i])
    BY <1>3, <1>4, <2>1
  <2> QED BY <1>2, <2>2, FatesLost
<1>7. CASE c \notin hungUp
  <2>1. Trails'[w] = Numbers(Append(s, msg), StatusKinds)
    BY <1>0, <1>2, <1>7, TrailsExpand DEF TrailsAre
  <2> HIDE DEF u, w, s
  <2>2. \A i \in DOMAIN Trails'[w] : \/ i + 0 \in DOMAIN Trails[w] /\ Trails'[w][i] = Trails[w][i + 0]
                                     \/ i = Len(s) + 1 /\ Trails'[w][i] = Trails[u][1]
    <3>1. /\ DOMAIN Numbers(s, StatusKinds) = 1 .. Len(s)
          /\ \A i \in DOMAIN Trails'[w] :
               \/ i \in 1 .. Len(s) /\ Trails'[w][i] = Trails[w][i]
               \/ i = Len(s) + 1 /\ Trails'[w][i] = IF msg.kind \in StatusKinds THEN msg.n ELSE 0
      BY <1>2, <1>5, <2>1, NumbersOf
    <3> QED BY <1>4, <1>5, <3>1
  <2>3. Moved(Place, Trails, Trails', u, w, Len(s) + 1, 0)
    BY <1>1, <1>3, <1>4, <2>2, TrailDomains DEF Moved, Numbered
  <2> QED BY <1>2, <2>3, FatesMoved
<1> QED BY <1>6, <1>7

\* A client sends a command: its number is new.
LEMMA SendCommandFate ==
  ASSUME DataTyped, Fates(Place, Trails, sent), NEW c \in Conn, NEW commander \in Commander,
         SendCommand(c, commander)
  PROVE  Fates(Place, Trails', sent')
<1> DEFINE w == In(c)
           s == inbox[c]
           cmd == [commander |-> commander, n |-> sent + 1]
<1>1. w \in Place /\ \A d \in Conn : d # c => In(d) # w
  BY PlaceCases
<1>2. /\ sent \in Nat /\ sent' = sent + 1 /\ s \in Seq(Command) /\ inbox \in [Conn -> Seq(Command)]
      /\ cmd \in Command /\ inbox' = [inbox EXCEPT ![c] = Append(@, cmd)]
      /\ UNCHANGED <<msgQueue, cmdMsgBuffer, cmdMsg, executing, outbox, msg>>
  <2>1. /\ sent \in 0 .. MaxCmd /\ sent < MaxCmd /\ sent' = sent + 1
        /\ inbox \in [Conn -> Seq(Command)] /\ inbox' = [inbox EXCEPT ![c] = Append(@, cmd)]
        /\ UNCHANGED <<msgQueue, cmdMsgBuffer, cmdMsg, executing, outbox, msg>>
    BY DEF SendCommand, DataTyped, localVars, ctrlVars
  <2>2. sent \in Nat /\ sent + 1 \in 1 .. MaxCmd
    BY <2>1, BoundAssumption
  <2>3. cmd \in Command
    BY <2>2 DEF Command
  <2> QED BY <2>1, <2>2, <2>3
<1>3. \A p \in Place \ {w} : Trails'[p] = Trails[p]
  <2>1. \A d \in Conn : In(d) \in {w} \/ inbox'[d] = inbox[d]
    BY <1>2
  <2> QED BY <1>2, <2>1, Elsewhere
<1>4. Trails[w] = CmdNumbers(s) /\ Trails'[w] = CmdNumbers(Append(s, cmd))
  BY <1>2, TrailsExpand DEF TrailsAre
<1>5. cmd.n = sent + 1
  OBVIOUS
<1> HIDE DEF w, s, cmd
<1>6. \A i \in DOMAIN Trails'[w] :
        \/ i \in DOMAIN Trails[w] /\ i # Len(s) + 1 /\ Trails'[w][i] = Trails[w][i]
        \/ i = Len(s) + 1 /\ Trails'[w][i] = sent + 1
  BY <1>2, <1>4, <1>5, CmdNumbersOf
<1>7. Added(Place, Trails, Trails', w, Len(s) + 1, sent')
  BY <1>1, <1>2, <1>3, <1>6 DEF Added
<1> QED BY <1>2, <1>7, FatesNew

\* What is lost with a queue that is closed, a message that is dropped or a
\* process that dies.
LEMMA LossFate ==
  ASSUME DataTyped, Fates(Place, Trails, sent),
         UNCHANGED <<inbox, outbox, sent>>,
         cmdMsg' \in {cmdMsg, NoCmd}, executing' \in {executing, NoCmd},
         cmdMsgBuffer' \in {cmdMsgBuffer, <<>>},
         msgQueue'["cmdStatus"] \in {msgQueue["cmdStatus"], <<>>},
         msg' \in {msg, NoMsg}
  PROVE  Fates(Place, Trails', sent')
<1> DEFINE Less(p) == \A i \in DOMAIN Trails'[p] :
                        Trails'[p][i] = 0 \/ (i \in DOMAIN Trails[p] /\ Trails'[p][i] = Trails[p][i])
<1>1. \A c \in Conn : Less(In(c)) /\ Less(Out(c))
  BY TrailsExpand DEF TrailsAre
<1>2. DOMAIN CmdNumbers(<<>>) = {} /\ DOMAIN Numbers(<<>>, StatusKinds) = {}
  BY DEF CmdNumbers, Numbers
<1>3. Less(At("cmdMsg")) /\ Less(At("executing"))
  BY TrailsExpand, OneNumber DEF TrailsAre, NoCmd
<1>4. Less(At("cmdMsgBuffer")) /\ Less(At("queue"))
  BY <1>2, TrailsExpand DEF TrailsAre
<1>5. Less(At("msg"))
  BY TrailsExpand, OneNumber DEF TrailsAre, NoMsg
<1>6. \A p \in Place : Less(p)
  <2> HIDE DEF Less
  <2> QED BY <1>1, <1>3, <1>4, <1>5, PlaceCases DEF OwnPlace
<1>7. sent \in Nat
  BY DEF DataTyped
<1> QED BY <1>6, <1>7, FatesLost

\* No step gives a command a second fate: each loses a number, gives the next one,
\* or moves one from the front of a place.
LEMMA FateSteps ==
  ASSUME Steps, DataTyped, InHand, SentOK, OneFate, [Next]_vars
  PROVE  SentOK' /\ OneFate'
<1>0. DataTyped' /\ Fates(Place, Trails, sent)
  BY DataSteps, FatesAre
<1> SUFFICES Fates(Place, Trails', sent')
  BY FatesAre
<1> USE <1>0 DEF localVars, netVars, ctrlVars
<1>1. CASE Quiet
  BY <1>1, LossFate DEF Quiet, carryVars
<1>2. CASE GetCommand
  BY <1>2, GetCommandFate
<1>3. CASE SendCmdStatusToMsgQueue
  <2>1. [kind |-> "OK", n |-> executing.n] \in Message
    BY <1>3 DEF SendCmdStatusToMsgQueue, DataTyped, Command, Message
  <2> QED BY <1>3, <2>1, StatusFate DEF SendCmdStatusToMsgQueue, StatusKinds
<1>4. CASE SendTlmToMsgQueue
  <2>1. msgQueue'["cmdStatus"] = msgQueue["cmdStatus"]
    BY <1>4 DEF SendTlmToMsgQueue, Sent, DataTyped, Queue
  <2> QED BY <1>4, <2>1, LossFate DEF SendTlmToMsgQueue
<1>5. CASE Release \/ ExitServer
  <2>1. msgQueue'["cmdStatus"] \in {msgQueue["cmdStatus"], <<>>}
    BY <1>5 DEF Release, ExitServer, BasicClose, Queue
  <2> QED BY <1>5, <2>1, LossFate DEF Release, ExitServer, BasicClose
<1>6. CASE Recv
  BY <1>6, RecvFate
<1>7. CASE Dispatch
  <2>1. cmdMsg \in Command
    BY <1>7 DEF Dispatch, Goto, InHand
  <2>2. CASE isCmdAuthorized(cmdMsg)
    BY <1>7, <2>1, <2>2, BufferFate DEF Dispatch
  <2>3. CASE ~isCmdAuthorized(cmdMsg)
    <3>1. [kind |-> "NotOK", n |-> cmdMsg.n] \in Message
      BY <2>1 DEF Command, Message
    <3> QED BY <1>7, <2>3, <3>1, StatusFate DEF Dispatch, StatusKinds
  <2> QED BY <2>2, <2>3
<1>8. CASE \E q \in Queue : Pop(q)
  <2>1. PICK q \in Queue : Pop(q)
    BY <1>8
  <2>2. CASE msgQueue[q] = <<>>
    BY <2>1, <2>2, LossFate DEF Pop
  <2>3. CASE msgQueue[q] # <<>>
    BY <2>1, <2>3, PopFate
  <2> QED BY <2>2, <2>3
<1>9. CASE CheckStatus \/ SendFails
  BY <1>9, LossFate DEF CheckStatus, SendFails
<1>10. CASE Send
  BY <1>10, SendFate
<1>11. CASE \E c \in Conn, commander \in Commander : SendCommand(c, commander)
  BY <1>11, SendCommandFate
<1>12. CASE Crash
  BY <1>12, LossFate DEF Crash
<1> QED BY <1>1, <1>2, <1>3, <1>4, <1>5, <1>6, <1>7, <1>8, <1>9, <1>10, <1>11, <1>12,
           QuietOrCarrying DEF Carrying

\* At the start no command has been sent.
LEMMA InitFate == Init => SentOK /\ OneFate
<1> SUFFICES ASSUME Init PROVE Fates(Place, Trails, sent)
  BY FatesAre
<1>1. DOMAIN CmdNumbers(<<>>) = {} /\ DOMAIN Numbers(<<>>, StatusKinds) = {}
  BY DEF CmdNumbers, Numbers
<1>2. \A c \in Conn : DOMAIN Trails[In(c)] = {} /\ DOMAIN Trails[Out(c)] = {}
  BY <1>1, TrailsExpand DEF Init, TrailsAre
<1>3. /\ DOMAIN Trails[At("cmdMsgBuffer")] = {} /\ DOMAIN Trails[At("queue")] = {}
      /\ DOMAIN Trails[At("cmdMsg")] = {1} /\ Trails[At("cmdMsg")][1] = 0
      /\ DOMAIN Trails[At("executing")] = {1} /\ Trails[At("executing")][1] = 0
      /\ DOMAIN Trails[At("msg")] = {1} /\ Trails[At("msg")][1] = 0
  BY <1>1, TrailsExpand, OneNumber DEF Init, TrailsAre, NoCmd, NoMsg, Queue
<1>4. \A p \in Place : \A i \in DOMAIN Trails[p] : Trails[p][i] = 0
  BY <1>2, <1>3, PlaceCases DEF OwnPlace
<1>5. sent = 0
  BY DEF Init
<1> QED BY <1>4, <1>5 DEF Fates

\* Every command has one fate, and no status is ever given twice or to two
\* clients: a number leaves the front of one place as it enters the next one.
THEOREM CommandsHaveOneFate == Spec => []OneFate
<1> DEFINE Inv == Steps /\ DataTyped /\ InHand /\ SentOK /\ OneFate
<1>1. Init => Inv
  BY InitSteps, InitData, InitFate
<1>2. Inv /\ [Next]_vars => Inv'
  BY NextSteps, DataSteps, FateSteps
<1>3. Inv => OneFate
  OBVIOUS
<1> QED BY <1>1, <1>2, <1>3, PTL DEF Spec

-----------------------------------------------------------------------------
(* TlmInOrder: telemetry moves along a line, of which the clients that     *)
(* have been accepted are one end and the queue is the other.              *)

\* The numbers on the lines 1 to top are at most n, and increase along them.
Sorted(top, L, n) ==
  /\ \A k \in 1 .. top : \A i \in DOMAIN L[k] : L[k][i] \in 0 .. n
  /\ \A k \in 1 .. top : \A i \in DOMAIN L[k] : L[k][i] # 0 =>
       \A l \in k .. top : \A j \in DOMAIN L[l] :
         L[l][j] # 0 /\ (k < l \/ i < j) => L[k][i] < L[l][j]

\* Telemetry that is lost leaves the rest in order.
LEMMA SortedLost ==
  ASSUME NEW top \in Nat, NEW L, NEW M, NEW n, Sorted(top, L, n), n \in Nat,
         \A k \in 1 .. top : \A i \in DOMAIN M[k] :
           M[k][i] = 0 \/ (i \in DOMAIN L[k] /\ M[k][i] = L[k][i])
  PROVE  Sorted(top, M, n)
BY DEF Sorted

\* The first of line u becomes the last of line w, with nothing on those between.
LEMMA SortedMoved ==
  ASSUME NEW top \in Nat, NEW L, NEW M, NEW n, Sorted(top, L, n), n \in Nat,
         NEW u, NEW w, NEW k, Moved(1 .. top, L, M, u, w, k, 0), w < u, k \in Nat,
         \A i \in DOMAIN M[w] : i <= k,
         \A l \in 1 .. top : w < l /\ l < u => DOMAIN M[l] = {}
  PROVE  Sorted(top, M, n)
<1> DEFINE same(l, i) == i \in DOMAIN L[l] /\ M[l][i] = L[l][i]
<1>0. u \in 1 .. top /\ w \in 1 .. top /\ 1 \in DOMAIN L[u]
  BY DEF Moved
<1>1. \A l \in 1 .. top : DOMAIN M[l] \subseteq Nat \ {0}
  BY DEF Moved
<1>2. ASSUME NEW l \in 1 .. top, NEW i \in DOMAIN M[l], M[l][i] # 0
      PROVE  \/ l \notin {u, w} /\ same(l, i)
             \/ l = u /\ i + 1 \in DOMAIN L[u] /\ M[l][i] = L[u][i + 1]
             \/ l = w /\ same(l, i)
             \/ l = w /\ i = k /\ M[l][i] = L[u][1]
  <2>1. i \in Nat
    BY <1>1
  <2>2. CASE l = u
    BY <1>2, <2>2 DEF Moved
  <2>3. CASE l = w
    BY <1>2, <2>1, <2>3 DEF Moved
  <2>4. CASE l \notin {u, w}
    BY <1>2, <2>4 DEF Moved
  <2> QED BY <2>2, <2>3, <2>4
<1>3. ASSUME NEW l \in 1 .. top, NEW i \in DOMAIN M[l]
      PROVE  M[l][i] \in 0 .. n
  BY <1>0, <1>2 DEF Sorted
<1>4. ASSUME NEW a \in 1 .. top, NEW i \in DOMAIN M[a], M[a][i] # 0,
             NEW b \in a .. top, NEW j \in DOMAIN M[b], M[b][j] # 0, a < b \/ i < j
      PROVE  M[a][i] < M[b][j]
  <2>0. i \in Nat \ {0} /\ j \in Nat \ {0} /\ b \in 1 .. top
    BY <1>1
  <2>1. \A f \in DOMAIN L[a], g \in DOMAIN L[b] :
          L[a][f] # 0 /\ L[b][g] # 0 /\ (a < b \/ f < g) => L[a][f] < L[b][g]
    BY <2>0 DEF Sorted
  <2>2. CASE a = u
    BY <1>0, <1>2, <1>4, <2>0, <2>1, <2>2
  <2>3. CASE a = w /\ same(a, i)
    <3>1. CASE b = w /\ j = k /\ M[b][j] = L[u][1]
      BY <1>0, <1>4, <2>0, <2>3, <3>1 DEF Sorted
    <3>2. CASE same(b, j)
      BY <1>4, <2>1, <2>3, <3>2
    <3>3. CASE b = u /\ j + 1 \in DOMAIN L[u] /\ M[b][j] = L[u][j + 1]
      BY <1>4, <2>0, <2>1, <2>3, <3>3
    <3> QED BY <1>2, <1>4, <2>0, <3>1, <3>2, <3>3
  <2>4. CASE a = w /\ i = k /\ M[a][i] = L[u][1]
    <3>1. b # w
      BY <1>4, <2>0, <2>4
    <3>2. CASE b = u
      <4>1. j + 1 \in DOMAIN L[u] /\ M[b][j] = L[u][j + 1]
        BY <1>2, <1>4, <2>0, <3>1, <3>2
      <4> QED BY <1>0, <1>4, <2>0, <2>4, <3>2, <4>1 DEF Sorted
    <3>3. CASE b # u
      <4>1. same(b, j)
        BY <1>2, <1>4, <2>0, <3>1, <3>3
      <4>2. b \in u .. top /\ u < b
        BY <1>0, <1>4, <2>0, <2>4, <3>1, <3>3
      <4> QED BY <1>0, <1>4, <2>4, <4>1, <4>2 DEF Sorted
    <3> QED BY <3>2, <3>3
  <2>5. CASE a \notin {u, w}
    <3>0. same(a, i)
      BY <1>2, <1>4, <2>5
    <3>1. CASE same(b, j)
      BY <1>4, <2>1, <3>0, <3>1
    <3>2. CASE b = u /\ j + 1 \in DOMAIN L[u] /\ M[b][j] = L[u][j + 1]
      BY <1>4, <2>0, <2>1, <2>5, <3>0, <3>2
    <3>3. CASE b = w /\ j = k /\ M[b][j] = L[u][1]
      <4>1. u \in a .. top /\ a < u
        BY <1>0, <1>4, <2>0, <2>5, <3>3
      <4> QED BY <1>0, <1>4, <3>0, <3>3, <4>1 DEF Sorted
    <3> QED BY <1>2, <1>4, <2>0, <3>1, <3>2, <3>3
  <2> QED BY <1>2, <1>4, <2>2, <2>3, <2>4, <2>5
<1> QED BY <1>3, <1>4 DEF Sorted

\* A number greater than all is the last of the last line.
LEMMA SortedAdded ==
  ASSUME NEW top \in Nat, NEW L, NEW M, NEW n, Sorted(top, L, n), n \in Nat,
         NEW k, NEW x, x = n + 1, Added(1 .. top, L, M, top, k, x), k \in Nat,
         \A i \in DOMAIN M[top] : i \in Nat /\ i <= k
  PROVE  Sorted(top, M, x)
<1>1. \A l \in 1 .. top : \A i \in DOMAIN M[l] :
        \/ i \in DOMAIN L[l] /\ M[l][i] = L[l][i] /\ M[l][i] \in 0 .. n /\ (l = top => i # k)
        \/ l = top /\ i = k /\ M[l][i] = x
  BY DEF Added, Sorted
<1> QED BY <1>1 DEF Sorted

Lines == [k \in 1 .. MaxConn + 2 |-> TlmLine(k)]
LinesAre ==
  /\ \A c \in Conn : Lines[c] = Numbers(outbox[c], {"tlm"})
  /\ Lines[MaxConn + 1] = Numbers(<<msg>>, {"tlm"})
  /\ Lines[MaxConn + 2] = Numbers(msgQueue["tlm"], {"tlm"})

\* Now, and after any step.
LEMMA LinesExpand == LinesAre /\ LinesAre'
<1>0. MaxConn \in Nat
  BY BoundAssumption
<1>1. \A c \in Conn : Lines[c] = Numbers(outbox[c], {"tlm"}) /\ Lines'[c] = Numbers(outbox'[c], {"tlm"})
  BY <1>0 DEF Lines, TlmLine, Conn
<1>2. MaxConn + 1 \notin Conn /\ MaxConn + 2 \notin Conn /\ MaxConn + 2 # MaxConn + 1
  BY <1>0 DEF Conn
<1>3. /\ Lines[MaxConn + 1] = Numbers(<<msg>>, {"tlm"})
      /\ Lines'[MaxConn + 1] = Numbers(<<msg'>>, {"tlm"})
  BY <1>0, <1>2 DEF Lines, TlmLine
<1>4. /\ Lines[MaxConn + 2] = Numbers(msgQueue["tlm"], {"tlm"})
      /\ Lines'[MaxConn + 2] = Numbers(msgQueue'["tlm"], {"tlm"})
  BY <1>0, <1>2 DEF Lines, TlmLine
<1> QED BY <1>1, <1>3, <1>4 DEF LinesAre

\* TlmInOrder, in the form the lemmas about order speak of.
LEMMA SortedAre ==
  /\ ProducedOK /\ TlmInOrder <=> Sorted(MaxConn + 2, Lines, produced)
  /\ ProducedOK' /\ TlmInOrder' <=> Sorted(MaxConn + 2, Lines', produced')
<1>1. \A k \in 1 .. MaxConn + 2 :
        Lines[k] = TlmLine(k) /\ Lines'[k] = TlmLine(k)' /\ k .. MaxConn + 2 \subseteq 1 .. MaxConn + 2
  BY BoundAssumption DEF Lines
<1>2. ProducedOK /\ TlmInOrder <=> Sorted(MaxConn + 2, Lines, produced)
  BY <1>1 DEF ProducedOK, TlmInOrder, Sorted
<1>3. ProducedOK' /\ TlmInOrder' <=> Sorted(MaxConn + 2, Lines', produced')
  BY <1>1 DEF ProducedOK, TlmInOrder, Sorted
<1> QED BY <1>2, <1>3

\* A line is that of a client, of the telemetry thread, or of the queue.
LEMMA LineCases ==
  \A k \in 1 .. MaxConn + 2 : k \in Conn \/ k = MaxConn + 1 \/ k = MaxConn + 2
BY BoundAssumption DEF Conn

\* The clients take turns: the server accepts the oldest one, once the one before
\* is closed, and only a client that is accepted is sent anything.
LEMMA TurnSteps ==
  ASSUME Steps, DataTyped, InHand, TurnsOK, BlockedOK, [Next]_vars
  PROVE  TurnsOK'
<1> USE DEF TurnsOK, infoVars, localVars, netVars, ctrlVars
<1>0. /\ life \in [Conn -> {"none", "pending", "accepted", "closed"}]
      /\ \A c \in Conn : life[c] = "accepted" <=> c = info.socketConnect
      /\ Conn \subseteq Nat /\ NoSocket \notin Conn
  BY DEF Steps, InfoTyped, LifeOK, Conn, NoSocket
<1>1. CASE UNCHANGED <<life, outbox>>
  BY <1>1
<1>2. CASE \E c \in Conn : Accept(c)
  <2>1. PICK c \in Conn : Accept(c)
    BY <1>2
  <2>2. /\ life[c] = "pending" /\ life' = [life EXCEPT ![c] = "accepted"] /\ outbox' = outbox
        /\ \A d \in Conn : life[d] = "pending" => c <= d
    BY <2>1 DEF Accept
  <2>3. \A d \in Conn : life[d] # "accepted"
    BY <1>0, <2>1 DEF Accept, Goto, Steps, SocketOK
  <2> QED BY <1>0, <2>2, <2>3
<1>3. CASE CloseSocket("accepted") \/ CloseSocket("closeConn")
  <2>1. outbox' = outbox /\ life' = [life EXCEPT ![info.socketConnect] = "closed"]
    BY <1>3 DEF CloseSocket
  <2> QED BY <1>0, <2>1
<1>4. CASE Release \/ ExitServer
  <2>1. outbox' = outbox /\ life' = [c \in Conn |-> IF c = info.socketConnect \/ life[c] = "pending"
                                                   THEN "closed" ELSE life[c]]
    BY <1>4 DEF Release, ExitServer, BasicClose, Disconnect
  <2> QED BY <1>0, <2>1
<1>5. CASE \E c \in Conn : Connect(c)
  BY <1>0, <1>5 DEF Connect
<1>6. CASE Send
  <2>1. PICK c \in Conn : /\ IF pc["telemetry"] = "blocked" THEN c = target ELSE Receiver(c)
                          /\ outbox' = IF c \in hungUp THEN outbox
                                       ELSE [outbox EXCEPT ![c] = Append(@, msg)]
    BY <1>6 DEF Send
  <2>2. life[c] \notin {"none", "pending"}
    BY <1>0, <2>1 DEF Receiver, BlockedOK
  <2>3. \A d \in Conn : d # c => outbox'[d] = outbox[d]
    BY <2>1 DEF DataTyped
  <2> QED BY <1>6, <2>2, <2>3 DEF Send
<1>7. CASE Crash
  <2>1. outbox' = outbox /\ life' = [c \in Conn |-> IF life[c] = "none" THEN "none" ELSE "closed"]
    BY <1>7 DEF Crash
  <2> QED BY <1>0, <2>1
<1>8. CASE UNCHANGED vars
  BY <1>1, <1>8 DEF vars
<1>9. CASE ControllerCall
  BY <1>1, <1>9 DEF ControllerCall, InitServer, InitServerFails, CreateServer, SetCommander,
                    SendTlmToMsgQueue, Close
<1>10. CASE ControllerStep
  BY <1>1, <1>4, <1>10 DEF ControllerStep, CreateTlm, SetReadyServer, SetReadyTlm, GetCommand,
              SendCmdStatusToMsgQueue, JoinTlm, StopServer, JoinServer
<1>11. CASE ServerStep
  <2>1. CASE StartServer \/ ServerLoop \/ EndServer \/ AcceptNothing \/ Connected \/ Disconnected
    BY <1>1, <2>1 DEF StartServer, ServerLoop, EndServer, AcceptNothing, Connected, Disconnected
  <2>2. CASE CheckFlag \/ Recv \/ RecvEnd \/ RecvNothing \/ Dispatch
    BY <1>1, <2>2 DEF CheckFlag, Recv, RecvEnd, RecvNothing, Dispatch
  <2> QED BY <1>2, <1>3, <1>4, <1>11, <2>1, <2>2 DEF ServerStep
<1>12. CASE TelemetryStep
  <2>1. CASE StartTlm \/ TlmLoop \/ EndTlm \/ ClearFlag \/ SampleStatus \/ ReadSocket \/ ReportClosed
    BY <1>1, <2>1 DEF StartTlm, TlmLoop, EndTlm, ClearFlag, SampleStatus, ReadSocket, ReportClosed
  <2>2. CASE (\E q \in Queue : Pop(q)) \/ CheckStatus \/ SendBlocks \/ SendFails
    BY <1>1, <2>2 DEF Pop, CheckStatus, SendBlocks, SendFails
  <2> QED BY <1>6, <1>12, <2>1, <2>2 DEF TelemetryStep
<1>13. CASE ClientStep
  <2>1. CASE \E c \in Conn : HangUp(c) \/ \E commander \in Commander : SendCommand(c, commander)
    BY <1>1, <2>1 DEF HangUp, SendCommand
  <2>2. CASE \E c \in Conn : ReadMessages(c)
    BY <1>1, <2>2 DEF ReadMessages
  <2> QED BY <1>5, <1>13, <2>1, <2>2 DEF ClientStep
<1> QED BY <1>7, <1>8, <1>9, <1>10, <1>11, <1>12, <1>13 DEF Next

\* A thread that waits in send() keeps its socket and is alone in sending; the
\* connection can only be closed.
LEMMA BlockedSteps ==
  ASSUME Steps, TurnsOK, BlockedOK, [Next]_vars
  PROVE  BlockedOK'
<1> USE DEF infoVars, localVars, netVars, ctrlVars, Goto
<1>0. /\ life \in [Conn -> {"none", "pending", "accepted", "closed"}]
      /\ pc = [t \in Threads |-> pc[t]]
      /\ \A c \in Conn : life[c] = "accepted" <=> c = info.socketConnect
  BY DEF Steps, InfoTyped, LifeOK, PcTyped
<1> DEFINE Stays == /\ UNCHANGED <<outbox, target>>
                    /\ pc'["telemetry"] = "blocked" => pc["telemetry"] = "blocked"
           Goes == \A c \in Conn : life[c] \notin {"none", "pending"} => life'[c] \notin {"none", "pending"}
<1>1. CASE Stays /\ Goes
  BY <1>1 DEF BlockedOK
<1>2. CASE Stays /\ UNCHANGED life
  BY <1>1, <1>2
<1> USE DEF Threads
<1>3. CASE UNCHANGED vars
  BY <1>2, <1>3 DEF vars
<1>4. CASE ControllerCall
  BY <1>0, <1>2, <1>4 DEF ControllerCall, InitServer, InitServerFails, CreateServer, SetCommander,
                          SendTlmToMsgQueue, Close
<1>5. CASE Release \/ ExitServer
  <2>1. Stays
    BY <1>0, <1>5 DEF Release, ExitServer, BasicClose
  <2>2. Goes
    BY <1>0, <1>5 DEF Release, ExitServer, BasicClose, Disconnect
  <2> QED BY <1>1, <2>1, <2>2
<1>6. CASE ControllerStep
  <2>1. CASE CreateTlm \/ SetReadyServer \/ SetReadyTlm \/ GetCommand \/ SendCmdStatusToMsgQueue
    BY <1>0, <1>2, <2>1 DEF CreateTlm, SetReadyServer, SetReadyTlm, GetCommand, SendCmdStatusToMsgQueue
  <2>2. CASE JoinTlm \/ StopServer \/ JoinServer
    BY <1>0, <1>2, <2>2 DEF JoinTlm, StopServer, JoinServer
  <2> QED BY <1>5, <1>6, <2>1, <2>2 DEF ControllerStep
<1>7. CASE ServerStep
  <2>1. CASE StartServer \/ ServerLoop \/ EndServer \/ AcceptNothing \/ Connected \/ Disconnected
    BY <1>0, <1>2, <2>1 DEF StartServer, ServerLoop, EndServer, AcceptNothing, Connected, Disconnected
  <2>2. CASE CheckFlag \/ Recv \/ RecvEnd \/ RecvNothing \/ Dispatch
    BY <1>0, <1>2, <2>2 DEF CheckFlag, Recv, RecvEnd, RecvNothing, Dispatch
  <2>3. CASE (\E c \in Conn : Accept(c)) \/ CloseSocket("accepted") \/ CloseSocket("closeConn")
    <3>1. Stays
      BY <1>0, <2>3 DEF Accept, CloseSocket
    <3>2. Goes
      BY <1>0, <2>3 DEF Accept, CloseSocket
    <3> QED BY <1>1, <3>1, <3>2
  <2> QED BY <1>5, <1>7, <2>1, <2>2, <2>3 DEF ServerStep
<1>8. CASE TelemetryStep
  <2>1. CASE SendBlocks
    <3>1. PICK c \in Conn : Receiver(c) /\ target' = c
      BY <2>1 DEF SendBlocks
    <3>2. UNCHANGED <<life, outbox>>
      BY <2>1 DEF SendBlocks
    <3>3. life[c] = "accepted"
      BY <1>0, <3>1 DEF Receiver
    <3> QED BY <3>1, <3>2, <3>3 DEF BlockedOK, TurnsOK
  <2>2. CASE StartTlm \/ TlmLoop \/ EndTlm \/ ClearFlag \/ SampleStatus \/ ReadSocket \/ ReportClosed
    BY <1>0, <2>2 DEF BlockedOK, StartTlm, TlmLoop, EndTlm, ClearFlag, SampleStatus, ReadSocket, ReportClosed
  <2>3. CASE (\E q \in Queue : Pop(q)) \/ CheckStatus \/ Send \/ SendFails
    BY <1>0, <2>3 DEF BlockedOK, Pop, After, CheckStatus, Send, SendFails, AfterMsg, Queue
  <2> QED BY <1>8, <2>1, <2>2, <2>3 DEF TelemetryStep
<1>9. CASE ClientStep
  <2>1. CASE \E c \in Conn : \/ ReadMessages(c) \/ HangUp(c)
                            \/ \E commander \in Commander : SendCommand(c, commander)
    BY <1>2, <2>1 DEF ReadMessages, HangUp, SendCommand
  <2>2. CASE \E c \in Conn : Connect(c)
    BY <1>0, <1>1, <2>2 DEF Connect
  <2> QED BY <1>9, <2>1, <2>2 DEF ClientStep
<1>10. CASE Crash
  BY <1>10 DEF Crash, BlockedOK
<1> QED BY <1>3, <1>4, <1>6, <1>7, <1>8, <1>9, <1>10 DEF Next

\* What is typed is numbered from 1.
LEMMA LineDomains ==
  ASSUME DataTyped' PROVE \A k \in 1 .. MaxConn + 2 : DOMAIN Lines'[k] \subseteq Nat \ {0}
<1>1. msgQueue'["tlm"] \in Seq(Message) /\ \A c \in Conn : outbox'[c] \in Seq(Message)
  BY DEF DataTyped, Queue
<1>2. /\ DOMAIN Numbers(msgQueue'["tlm"], {"tlm"}) = 1 .. Len(msgQueue'["tlm"])
      /\ \A c \in Conn : DOMAIN Numbers(outbox'[c], {"tlm"}) = 1 .. Len(outbox'[c])
      /\ DOMAIN Numbers(<<msg'>>, {"tlm"}) = {1}
  BY <1>1, NumbersOf, OneNumber
<1> QED BY <1>2, LinesExpand, LineCases DEF LinesAre

\* Telemetry that is dropped, or lost with a queue that is closed.
LEMMA LossLine ==
  ASSUME DataTyped, Sorted(MaxConn + 2, Lines, produced), UNCHANGED <<outbox, produced>>,
         msg' = msg \/ msg'.kind # "tlm",
         msgQueue'["tlm"] \in {msgQueue["tlm"], <<>>}
  PROVE  Sorted(MaxConn + 2, Lines', produced')
<1> DEFINE Less(k) == \A i \in DOMAIN Lines'[k] :
                        Lines'[k][i] = 0 \/ (i \in DOMAIN Lines[k] /\ Lines'[k][i] = Lines[k][i])
<1>1. \A c \in Conn : Less(c)
  BY LinesExpand DEF LinesAre
<1>2. Less(MaxConn + 1)
  BY LinesExpand, OneNumber DEF LinesAre
<1>3. Less(MaxConn + 2)
  <2>1. DOMAIN Numbers(<<>>, {"tlm"}) = {}
    BY DEF Numbers
  <2> QED BY <2>1, LinesExpand DEF LinesAre
<1>4. \A k \in 1 .. MaxConn + 2 : Less(k)
  <2> HIDE DEF Less
  <2> QED BY <1>1, <1>2, <1>3, LineCases
<1>5. produced \in Nat /\ MaxConn + 2 \in Nat
  BY BoundAssumption DEF DataTyped
<1> QED BY <1>4, <1>5, SortedLost

\* The controller queues telemetry: its number is new.
LEMMA SendTlmLine ==
  ASSUME DataTyped, DataTyped', Sorted(MaxConn + 2, Lines, produced), SendTlmToMsgQueue
  PROVE  Sorted(MaxConn + 2, Lines', produced')
<1> DEFINE top == MaxConn + 2
           m == [kind |-> "tlm", n |-> produced + 1]
           s == msgQueue["tlm"]
<1>1. /\ produced \in Nat /\ produced' = produced + 1 /\ m \in Message /\ s \in Seq(Message)
      /\ top \in Nat /\ top \in 1 .. top
  <2>1. produced \in Nat /\ produced + 1 \in 1 .. MaxTlm /\ s \in Seq(Message)
    BY BoundAssumption DEF SendTlmToMsgQueue, DataTyped, Queue
  <2>2. m \in Message
    BY <2>1 DEF Message
  <2> QED BY <2>1, <2>2, BoundAssumption DEF SendTlmToMsgQueue
<1>2. \A k \in 1 .. top : k # top => Lines'[k] = Lines[k]
  BY LinesExpand, LineCases DEF LinesAre, SendTlmToMsgQueue, localVars, netVars
<1>3. msgQueue'["tlm"] = s \/ msgQueue'["tlm"] = Append(s, m)
  BY <1>1, SentMessage DEF SendTlmToMsgQueue, Queue
<1>4. CASE msgQueue'["tlm"] = s
  <2>1. \A k \in 1 .. top : Lines'[k] = Lines[k]
    BY <1>2, <1>4, LinesExpand DEF LinesAre
  <2> QED BY <1>1, <2>1 DEF Sorted
<1>5. CASE msgQueue'["tlm"] = Append(s, m)
  <2>1. Lines[top] = Numbers(s, {"tlm"}) /\ Lines'[top] = Numbers(Append(s, m), {"tlm"})
    BY <1>5, LinesExpand DEF LinesAre
  <2>2. m.kind = "tlm" /\ m.n = produced'
    BY <1>1
  <2> HIDE DEF top, m, s
  <2>3. \A i \in DOMAIN Lines'[top] :
          /\ i \in Nat /\ i <= Len(s) + 1
          /\ \/ i \in DOMAIN Lines[top] /\ i # Len(s) + 1 /\ Lines'[top][i] = Lines[top][i]
             \/ i = Len(s) + 1 /\ Lines'[top][i] = produced'
    BY <1>1, <2>1, <2>2, NumbersOf
  <2>4. Added(1 .. top, Lines, Lines', top, Len(s) + 1, produced')
    BY <1>1, <1>2, <2>3 DEF Added
  <2>5. Len(s) + 1 \in Nat
    BY <1>1
  <2> QED BY <1>1, <2>3, <2>4, <2>5, SortedAdded DEF top
<1> QED BY <1>3, <1>4, <1>5

\* The telemetry thread takes the first one from the queue ...
LEMMA PopLine ==
  ASSUME DataTyped, DataTyped', InHand, Sorted(MaxConn + 2, Lines, produced),
         Pop("tlm"), msgQueue["tlm"] # <<>>
  PROVE  Sorted(MaxConn + 2, Lines', produced')
<1> DEFINE u == MaxConn + 2
           w == MaxConn + 1
           s == msgQueue["tlm"]
<1>1. /\ produced \in Nat /\ s \in Seq(Message) /\ s # <<>> /\ msgQueue'["tlm"] = Tail(s)
      /\ msg' = Head(s) /\ UNCHANGED <<outbox, produced>>
  BY DEF Pop, DataTyped, Queue, netVars, ctrlVars
<1>2. u \in 1 .. u /\ w \in 1 .. u /\ w < u /\ w # u /\ \A l \in 1 .. u : ~(w < l /\ l < u)
  BY BoundAssumption
<1>3. \A k \in 1 .. u : k \notin {u, w} => Lines'[k] = Lines[k]
  BY <1>1, LinesExpand, LineCases DEF LinesAre
<1>4. /\ Lines[u] = Numbers(s, {"tlm"}) /\ Lines'[u] = Numbers(Tail(s), {"tlm"})
      /\ Lines'[w] = Numbers(<<Head(s)>>, {"tlm"})
  BY <1>1, LinesExpand DEF LinesAre
<1>5. Head(s).kind = "tlm"
  BY <1>1, HeadTaken DEF InHand
<1>6. \A k \in 1 .. u : DOMAIN Lines'[k] \subseteq Nat \ {0}
  BY LineDomains
<1> HIDE DEF u, w, s
<1>7. /\ 1 \in DOMAIN Lines[u]
      /\ \A i \in DOMAIN Lines'[u] : i + 1 \in DOMAIN Lines[u] /\ Lines'[u][i] = Lines[u][i + 1]
  BY <1>1, <1>4, NumbersOf
<1>8. \A i \in DOMAIN Lines'[w] : i = 1 /\ Lines'[w][i] = Lines[u][1]
  BY <1>1, <1>4, <1>5, NumbersOf, OneNumber
<1>9. Moved(1 .. u, Lines, Lines', u, w, 1, 0)
  BY <1>2, <1>3, <1>6, <1>7, <1>8 DEF Moved
<1>10. u \in Nat
  BY BoundAssumption DEF u
<1> QED BY <1>1, <1>2, <1>8, <1>9, <1>10, SortedMoved DEF u

\* ... and sends it to the client in use, which is the last that got anything.
LEMMA SendLine ==
  ASSUME Steps, DataTyped, DataTyped', InHand, TurnsOK, BlockedOK,
         Sorted(MaxConn + 2, Lines, produced), Send
  PROVE  Sorted(MaxConn + 2, Lines', produced')
<1>0. PICK c \in Conn : /\ IF pc["telemetry"] = "blocked" THEN c = target ELSE Receiver(c)
                        /\ outbox' = IF c \in hungUp THEN outbox
                                     ELSE [outbox EXCEPT ![c] = Append(@, msg)]
  BY DEF Send
<1> DEFINE top == MaxConn + 2
           u == MaxConn + 1
           s == outbox[c]
<1>1. /\ produced \in Nat /\ s \in Seq(Message) /\ outbox \in [Conn -> Seq(Message)] /\ msg \in Message
      /\ msg' = NoMsg /\ UNCHANGED <<msgQueue, produced>>
  BY DEF Send, Goto, InHand, DataTyped, ctrlVars
<1>2. CASE c \in hungUp
  BY <1>0, <1>1, <1>2, LossLine DEF NoMsg
<1>3. CASE c \notin hungUp
  <2>1. outbox' = [outbox EXCEPT ![c] = Append(@, msg)]
    BY <1>0, <1>3
  <2>2. top \in Nat /\ u \in 1 .. top /\ c \in 1 .. top /\ c < u
    BY BoundAssumption DEF Conn
  <2>3. \A d \in Conn : c < d => outbox'[d] = <<>>
    <3>2. \A d \in Conn : c < d => outbox[d] = <<>>
      <4>1. CASE pc["telemetry"] = "blocked"
        BY <1>0, <4>1 DEF BlockedOK
      <4>2. CASE pc["telemetry"] # "blocked"
        <5>1. life[c] = "accepted"
          BY <1>0, <4>2 DEF Receiver, Steps, LifeOK
        <5> QED BY <5>1 DEF TurnsOK
      <4> QED BY <4>1, <4>2
    <3>3. \A d \in Conn : c < d => d # c
      BY DEF Conn
    <3> QED BY <1>1, <2>1, <3>2, <3>3
  <2>4. \A l \in 1 .. top : c < l /\ l < u => DOMAIN Lines'[l] = {}
    <3>1. DOMAIN Numbers(<<>>, {"tlm"}) = {}
      BY DEF Numbers
    <3> QED BY <2>2, <2>3, <3>1, LinesExpand, LineCases, BoundAssumption DEF LinesAre, Conn
  <2>5. \A k \in 1 .. top : k \notin {u, c} => Lines'[k] = Lines[k]
    <3>1. \A d \in Conn : d # c => outbox'[d] = outbox[d]
      BY <1>1, <2>1
    <3> QED BY <1>1, <3>1, LinesExpand, LineCases DEF LinesAre
  <2>6. /\ DOMAIN Lines[u] = {1} /\ Lines[u][1] = IF msg.kind = "tlm" THEN msg.n ELSE 0
        /\ DOMAIN Lines'[u] = {1} /\ Lines'[u][1] = 0
    BY <1>1, LinesExpand, OneNumber DEF LinesAre, NoMsg
  <2>7. Lines[c] = Numbers(s, {"tlm"}) /\ Lines'[c] = Numbers(Append(s, msg), {"tlm"})
    BY <1>1, <2>1, LinesExpand DEF LinesAre
  <2>8. \A k \in 1 .. top : DOMAIN Lines'[k] \subseteq Nat \ {0}
    BY LineDomains
  <2> HIDE DEF top, u, s
  <2>9. \A i \in DOMAIN Lines'[c] :
          /\ i <= Len(s) + 1
          /\ \/ i + 0 \in DOMAIN Lines[c] /\ Lines'[c][i] = Lines[c][i + 0]
             \/ i = Len(s) + 1 /\ Lines'[c][i] = Lines[u][1]
    <3>1. /\ DOMAIN Numbers(s, {"tlm"}) = 1 .. Len(s) /\ Len(s) \in Nat
          /\ \A i \in DOMAIN Lines'[c] :
               \/ i \in 1 .. Len(s) /\ Lines'[c][i] = Lines[c][i]
               \/ i = Len(s) + 1 /\ Lines'[c][i] = IF msg.kind = "tlm" THEN msg.n ELSE 0
      BY <1>1, <2>7, NumbersOf
    <3> QED BY <2>6, <2>7, <3>1
  <2>10. Moved(1 .. top, Lines, Lines', u, c, Len(s) + 1, 0)
    BY <2>2, <2>5, <2>6, <2>8, <2>9 DEF Moved
  <2>11. Len(s) + 1 \in Nat
    BY <1>1
  <2> QED BY <1>1, <2>2, <2>4, <2>9, <2>10, <2>11, SortedMoved DEF top
<1> QED BY <1>2, <1>3

\* No step brings telemetry out of order: each loses a message, appends the newest
\* to the queue, or moves one from the front of a line to the end of an earlier one.
LEMMA LineSteps ==
  ASSUME Steps, DataTyped, InHand, TurnsOK, BlockedOK, ProducedOK, TlmInOrder, [Next]_vars
  PROVE  ProducedOK' /\ TlmInOrder'
<1>0. DataTyped' /\ Sorted(MaxConn + 2, Lines, produced)
  BY DataSteps, SortedAre
<1> SUFFICES Sorted(MaxConn + 2, Lines', produced')
  BY SortedAre
<1> USE <1>0 DEF localVars, netVars, ctrlVars
<1>1. CASE Quiet
  BY <1>1, LossLine DEF Quiet, carryVars
<1>2. CASE GetCommand \/ Recv \/ CheckStatus \/ SendFails \/ Crash
  BY <1>2, LossLine DEF GetCommand, Recv, CheckStatus, SendFails, Crash, NoMsg
<1>3. CASE \E c \in Conn, commander \in Commander : SendCommand(c, commander)
  BY <1>3, LossLine DEF SendCommand
<1>4. CASE SendCmdStatusToMsgQueue \/ Dispatch
  <2>1. msgQueue'["tlm"] = msgQueue["tlm"]
    BY <1>4 DEF SendCmdStatusToMsgQueue, Dispatch, Sent, DataTyped, Queue
  <2> QED BY <1>4, <2>1, LossLine DEF SendCmdStatusToMsgQueue, Dispatch
<1>5. CASE SendTlmToMsgQueue
  BY <1>5, SendTlmLine
<1>6. CASE Release \/ ExitServer
  <2>1. msgQueue'["tlm"] \in {msgQueue["tlm"], <<>>}
    BY <1>6 DEF Release, ExitServer, BasicClose, Queue
  <2> QED BY <1>6, <2>1, LossLine DEF Release, ExitServer, BasicClose
<1>7. CASE \E q \in Queue : Pop(q)
  <2>1. PICK q \in Queue : Pop(q)
    BY <1>7
  <2>2. CASE msgQueue[q] = <<>>
    BY <2>1, <2>2, LossLine DEF Pop
  <2>3. CASE msgQueue[q] # <<>> /\ q = "tlm"
    BY <2>1, <2>3, PopLine
  <2>4. CASE msgQueue[q] # <<>> /\ q = "cmdStatus"
    <3>1. msgQueue'["tlm"] = msgQueue["tlm"] /\ msg' = Head(msgQueue["cmdStatus"])
      BY <2>1, <2>4 DEF Pop, DataTyped, Queue
    <3>2. msg'.kind # "tlm"
      BY SMTT(60), <2>4, <3>1, HeadTaken DEF InHand, DataTyped, Queue
    <3> QED BY <2>1, <2>4, <3>1, <3>2, LossLine DEF Pop
  <2> QED BY <2>1, <2>2, <2>3, <2>4 DEF Queue
<1>8. CASE Send
  BY <1>8, SendLine
<1> QED BY <1>1, <1>2, <1>3, <1>4, <1>5, <1>6, <1>7, <1>8, QuietOrCarrying DEF Carrying

\* At the start no telemetry has been produced.
LEMMA InitLine == Init => TurnsOK /\ BlockedOK /\ ProducedOK /\ TlmInOrder
<1> SUFFICES ASSUME Init PROVE TurnsOK /\ BlockedOK /\ Sorted(MaxConn + 2, Lines, produced)
  BY SortedAre
<1>1. TurnsOK /\ BlockedOK
  BY DEF Init, TurnsOK, BlockedOK
<1>2. DOMAIN Numbers(<<>>, {"tlm"}) = {}
  BY DEF Numbers
<1>3. /\ \A c \in Conn : DOMAIN Lines[c] = {}
      /\ DOMAIN Lines[MaxConn + 1] = {1} /\ Lines[MaxConn + 1][1] = 0
      /\ DOMAIN Lines[MaxConn + 2] = {}
  BY <1>2, LinesExpand, OneNumber DEF Init, LinesAre, NoMsg, Queue
<1>4. \A k \in 1 .. MaxConn + 2 : \A i \in DOMAIN Lines[k] : Lines[k][i] = 0
  BY <1>3, LineCases
<1>5. produced = 0
  BY DEF Init
<1> QED BY <1>1, <1>4, <1>5 DEF Sorted

\* Whatever is lost on the way, the clients get the telemetry in the order in
\* which it was queued, also when a message is sent to the next client because
\* the connection it was meant for has been replaced.
THEOREM TelemetryIsInOrder == Spec => []TlmInOrder
<1> DEFINE Inv == Steps /\ DataTyped /\ InHand /\ TurnsOK /\ BlockedOK /\ ProducedOK /\ TlmInOrder
<1>1. Init => Inv
  BY InitSteps, InitData, InitLine
<1>2. Inv /\ [Next]_vars => Inv'
  BY NextSteps, DataSteps, TurnSteps, BlockedSteps, LineSteps
<1>3. Inv => TlmInOrder
  OBVIOUS
<1> QED BY <1>1, <1>2, <1>3, PTL DEF Spec
=============================================================================
