------------------------------- MODULE Framing -------------------------------
(***************************************************************************)
(* src/interface/cmdTlmServer.c: TCP carries a stream of bytes, and the    *)
(* server takes what one recv() returns for one command.  A command has    *)
(* two parts here, which the network may deliver together, apart, or with  *)
(* those of other commands.                                                *)
(***************************************************************************)
EXTENDS Integers, Sequences

CONSTANT MaxSent      \* bound: how many commands the clients send

ASSUME SentAssumption == MaxSent \in Nat

VARIABLES sent,       \* how many commands were sent, numbered from 1
          inFlight,   \* the parts on their way
          arrived,    \* and those in the socket
          cmdMsg,     \* the command read last: which command each part is of
          got,        \* the commands passed on
          first,      \* history: the command that found the connection idle last,
          gotBefore,  \* how many were passed on before,
          torn        \* and has a part of one been all there was to read

frameVars == <<sent, inFlight, arrived, cmdMsg, got, first, gotBefore, torn>>

PartsOf(i) == <<[of |-> i, part |-> "head"], [of |-> i, part |-> "tail"]>>
\* sizeof(commandStreamStructure_t), or that of a pointer to one.
SizeOfCommand_Pointer == 1
SizeOfCommand == 2

FrameInit ==
  /\ sent = 0
  /\ inFlight = <<>> /\ arrived = <<>>
  /\ cmdMsg = [head |-> 0, tail |-> 0]
  /\ got = <<>>
  /\ first = 1
  /\ gotBefore = 0
  /\ torn = FALSE

Idle == inFlight = <<>> /\ arrived = <<>>

SendOne ==
  /\ sent < MaxSent
  /\ sent' = sent + 1
  /\ inFlight' = inFlight \o PartsOf(sent')
  /\ IF Idle THEN first' = sent' /\ gotBefore' = Len(got) /\ torn' = FALSE
     ELSE UNCHANGED <<first, gotBefore, torn>>
  /\ UNCHANGED <<arrived, cmdMsg, got>>

Deliver(n) ==
  /\ n <= Len(inFlight)
  /\ arrived' = arrived \o SubSeq(inFlight, 1, n)
  /\ inFlight' = SubSeq(inFlight, n + 1, Len(inFlight))
  /\ UNCHANGED <<sent, cmdMsg, got, first, gotBefore, torn>>

\* cmdTlmServer_recv(), and the command goes to the buffer whatever it returned
\* above 0.  What recv() did not write of cmdMsg, a local of the loop, is still
\* there from the last command or of no meaning (0).
RecvCommand ==
  /\ arrived # <<>>
  /\ LET n == IF Len(arrived) < SizeOfCommand THEN Len(arrived) ELSE SizeOfCommand
     IN  /\ \E rest \in {cmdMsg.tail, 0} :
              cmdMsg' = [head |-> arrived[1].of, tail |-> IF n = 2 THEN arrived[2].of ELSE rest]
         /\ torn' = (torn \/ Len(arrived) < 2)
         /\ arrived' = SubSeq(arrived, n + 1, Len(arrived))
  /\ got' = Append(got, cmdMsg')
  /\ UNCHANGED <<sent, inFlight, first, gotBefore>>

\* cmdTlmServer_closeConn(): what was on its way is gone, and the next client
\* finds an idle connection.
Reconnect ==
  /\ ~Idle
  /\ inFlight' = <<>> /\ arrived' = <<>>
  /\ UNCHANGED <<sent, cmdMsg, got, first, gotBefore, torn>>

FrameNext ==
  \/ SendOne \/ RecvCommand \/ Reconnect
  \/ \E n \in 1 .. 2 * MaxSent : Deliver(n)

FrameSpec == FrameInit /\ [][FrameNext]_frameVars

-----------------------------------------------------------------------------
\* As long as no command is read in parts, the commands passed on are those sent,
\* in order, however many arrive together.  And a command that was torn spoils
\* only those that follow it closely: once a client waits until all was read, or a
\* new one connects, the server reads whole commands again.
FramesKept ==
  ~torn => \A i \in gotBefore + 1 .. Len(got) :
             got[i].head = first + i - gotBefore - 1 /\ got[i].tail = got[i].head
=============================================================================
