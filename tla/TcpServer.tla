------------------------------ MODULE TcpServer ------------------------------
(***************************************************************************)
(* src/interface/tcpServer.c: tcpServer_open() walks over the addresses of *)
(* the machine until it can bind one, and may fail at every call.  Its     *)
(* callers share the table of open descriptors, in which a number that one *)
(* of them closes is soon another's.                                       *)
(***************************************************************************)
EXTENDS Integers

CONSTANTS Caller,     \* the threads that open and close servers
          Descriptor, \* the numbers of descriptors
          MaxAddr     \* bound: how many addresses getaddrinfo() finds

None == -1
ASSUME DescriptorAssumption == Descriptor \subseteq Nat
ASSUME AddrAssumption == MaxAddr \in Nat

VARIABLES open,       \* the descriptors in use
          bound, listening,   \* and how far they have got
          socketDesc, \* each caller's
          potentialAddr,      \* how many addresses it has not tried
          tcpPc

tcpVars == <<open, bound, listening, socketDesc, potentialAddr, tcpPc>>

TcpInit ==
  /\ open = {} /\ bound = {} /\ listening = {}
  /\ socketDesc = [c \in Caller |-> None]
  /\ potentialAddr = [c \in Caller |-> 0]
  /\ tcpPc = [c \in Caller |-> "closed"]

Step(c, from, to) == tcpPc[c] = from /\ tcpPc' = [tcpPc EXCEPT ![c] = to]
\* close()
Closed(fd) ==
  /\ open' = open \ {fd}
  /\ bound' = bound \ {fd}
  /\ listening' = listening \ {fd}

Open(c, n) ==
  /\ Step(c, "closed", "socket")
  /\ potentialAddr' = [potentialAddr EXCEPT ![c] = n]
  /\ UNCHANGED <<open, bound, listening, socketDesc>>

Socket(c, fd) ==
  /\ potentialAddr[c] > 0 /\ fd \notin open
  /\ Step(c, "socket", "bind")
  /\ open' = open \cup {fd}
  /\ socketDesc' = [socketDesc EXCEPT ![c] = fd]
  /\ UNCHANGED <<bound, listening, potentialAddr>>

SocketFails(c) ==
  /\ potentialAddr[c] > 0
  /\ Step(c, "socket", "socket")
  /\ potentialAddr' = [potentialAddr EXCEPT ![c] = @ - 1]
  /\ socketDesc' = [socketDesc EXCEPT ![c] = None]
  /\ UNCHANGED <<open, bound, listening>>

Bind(c) ==
  /\ Step(c, "bind", "listen")
  /\ bound' = bound \cup {socketDesc[c]}
  /\ UNCHANGED <<open, listening, socketDesc, potentialAddr>>

\* The next address is tried with the descriptor still open.
BindFails_Leaks(c) ==
  /\ Step(c, "bind", "socket")
  /\ potentialAddr' = [potentialAddr EXCEPT ![c] = @ - 1]
  /\ socketDesc' = [socketDesc EXCEPT ![c] = None]
  /\ UNCHANGED <<open, bound, listening>>
\* socketDesc keeps a number that means nothing any more.
BindFails(c) ==
  /\ Step(c, "bind", "socket")
  /\ Closed(socketDesc[c])
  /\ potentialAddr' = [potentialAddr EXCEPT ![c] = @ - 1]
  /\ UNCHANGED socketDesc

NoAddress(c) ==
  /\ potentialAddr[c] = 0
  /\ Step(c, "socket", "closed")
  /\ socketDesc' = [socketDesc EXCEPT ![c] = None]
  /\ UNCHANGED <<open, bound, listening, potentialAddr>>

Listen(c) ==
  /\ Step(c, "listen", "open")
  /\ listening' = listening \cup {socketDesc[c]}
  /\ UNCHANGED <<open, bound, socketDesc, potentialAddr>>

ListenFails(c) ==
  /\ Step(c, "listen", "closed")
  /\ Closed(socketDesc[c])
  /\ socketDesc' = [socketDesc EXCEPT ![c] = None]
  /\ UNCHANGED potentialAddr

\* tcpServer_getSocketConnect(), which a client uses; it exits when it fails.
GetSocketConnect(c, fd) ==
  /\ fd \notin open
  /\ Step(c, "closed", "client")
  /\ open' = open \cup {fd}
  /\ socketDesc' = [socketDesc EXCEPT ![c] = fd]
  /\ UNCHANGED <<bound, listening, potentialAddr>>

\* tcpServer_close()
Close(c) ==
  /\ Step(c, "open", "closed") \/ Step(c, "client", "closed")
  /\ Closed(socketDesc[c])
  /\ socketDesc' = [socketDesc EXCEPT ![c] = None]
  /\ UNCHANGED potentialAddr

CallerNext(c) ==
  \/ \E n \in 0 .. MaxAddr : Open(c, n)
  \/ \E fd \in Descriptor : Socket(c, fd)
  \/ SocketFails(c) \/ Bind(c) \/ BindFails(c) \/ NoAddress(c)
  \/ Listen(c) \/ ListenFails(c) \/ Close(c)
  \/ \E fd \in Descriptor : GetSocketConnect(c, fd)

TcpNext == \E c \in Caller : CallerNext(c)

TcpSpec == TcpInit /\ [][TcpNext]_tcpVars

-----------------------------------------------------------------------------
Holds(c) == tcpPc[c] \in {"bind", "listen", "open", "client"}

\* Every open descriptor belongs to the one caller that holds it, whichever calls
\* failed before: none is left open by an address that did not work, none is shared
\* or closed under its owner, and a server that is open is bound and listens.
OwnDescriptors ==
  /\ open = {socketDesc[c] : c \in {x \in Caller : Holds(x)}}
  /\ \A c, d \in Caller : Holds(c) /\ Holds(d) /\ c # d => socketDesc[c] # socketDesc[d]
  /\ \A c \in Caller : tcpPc[c] = "open" => socketDesc[c] \in bound \cap listening
=============================================================================
