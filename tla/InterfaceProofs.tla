---------------------------- MODULE InterfaceProofs ----------------------------
(***************************************************************************)
(* Proofs about the network interface: TcpServer and Framing.              *)
(*                                                                         *)
(* For any callers, any descriptors and any number of addresses:           *)
(* tcpServer_open() and tcpServer_close() keep account of descriptors.     *)
(*                                                                         *)
(* For any number of commands: as long as nothing was torn, what is in the *)
(* socket and what is on its way make up whole commands, of which the      *)
(* first is the one after those passed on: Whole.                          *)
(***************************************************************************)
EXTENDS TcpServer, Framing, SequenceTheorems, TLAPS

-----------------------------------------------------------------------------
(* The descriptors of the TCP server.                                      *)

\* Where a caller may be, and where it holds a descriptor.
Pc == {"closed", "socket", "bind", "listen", "open", "client"}
Holding == {"bind", "listen", "open", "client"}

TcpTypeOK ==
  /\ open \subseteq Descriptor /\ bound \subseteq open /\ listening \subseteq open
  /\ socketDesc \in [Caller -> Descriptor \cup {None}]
  /\ potentialAddr \in [Caller -> Int]
  /\ tcpPc \in [Caller -> Pc]

\* A server that has been bound stays so, until its own caller closes it.
Progress ==
  \A c \in Caller : /\ tcpPc[c] \in {"listen", "open"} => socketDesc[c] \in bound
                    /\ tcpPc[c] = "open" => socketDesc[c] \in listening

\* OwnDescriptors without a set of images: what is held is open, what is open is
\* held, by one caller each.
Owned ==
  /\ \A c \in Caller : Holds(c) => socketDesc[c] \in open
  /\ \A fd \in open : \E c \in Caller : Holds(c) /\ socketDesc[c] = fd
  /\ \A c, d \in Caller : Holds(c) /\ Holds(d) /\ c # d => socketDesc[c] # socketDesc[d]

TcpInvariant == TcpTypeOK /\ Progress /\ Owned

\* The invariant is what the run checks, and more.
LEMMA InvariantImpliesOwn == TcpInvariant => OwnDescriptors
BY DEF TcpInvariant, TcpTypeOK, Progress, Owned, OwnDescriptors, Holds

\* At the start nothing is open (TcpInit).
LEMMA TcpInitInvariant == TcpInit => TcpInvariant
BY DEF TcpInit, TcpInvariant, TcpTypeOK, Progress, Owned, Holds, Pc, None

\* A step that opens or closes nothing keeps who holds what.
LEMMA KeepsHolding ==
  ASSUME TcpInvariant, NEW c \in Caller, NEW from \in Pc, NEW to \in Pc, Step(c, from, to),
         from \in Holding <=> to \in Holding,
         UNCHANGED open,
         \A x \in Caller : Holds(x) => socketDesc'[x] = socketDesc[x]
  PROVE  Owned'
BY DEF TcpInvariant, TcpTypeOK, Owned, Holds, Holding, Step, Pc

\* Closing one's own descriptor takes it from nobody else.
LEMMA ClosingKeeps ==
  ASSUME TcpInvariant, NEW c \in Caller, NEW from \in Holding,
         NEW to \in {"closed", "socket"}, Step(c, from, to), Closed(socketDesc[c]),
         \A x \in Caller \ {c} : socketDesc'[x] = socketDesc[x],
         socketDesc' \in [Caller -> Descriptor \cup {None}],
         potentialAddr' \in [Caller -> Int]
  PROVE  TcpInvariant'
<1>1. TcpTypeOK'
  BY DEF TcpInvariant, TcpTypeOK, Closed, Step, Pc
<1>2. \A x \in Caller \ {c} : tcpPc'[x] = tcpPc[x]
  BY DEF TcpInvariant, TcpTypeOK, Step
<1>3. tcpPc'[c] = to /\ tcpPc[c] = from
  BY DEF TcpInvariant, TcpTypeOK, Step
<1>4. Progress'
  BY <1>2, <1>3 DEF TcpInvariant, Progress, Owned, Holds, Holding, Closed
<1>5. Owned'
  BY <1>2, <1>3 DEF TcpInvariant, Owned, Holds, Holding, Closed
<1> QED
  BY <1>1, <1>4, <1>5 DEF TcpInvariant

\* No step of any caller disturbs it, those that fail included (CallerNext).
LEMMA TcpStepInvariant ==
  ASSUME TcpInvariant, [TcpNext]_tcpVars
  PROVE  TcpInvariant'
<1> USE DescriptorAssumption, AddrAssumption DEF Pc, Holding
<1>1. ASSUME NEW c \in Caller, NEW n \in 0 .. MaxAddr, Open(c, n)
      PROVE  TcpInvariant'
  <2>1. Owned'
    BY <1>1, KeepsHolding DEF Open
  <2> QED
    BY <1>1, <2>1 DEF TcpInvariant, TcpTypeOK, Progress, Open, Step
<1>2. ASSUME NEW c \in Caller, NEW fd \in Descriptor, Socket(c, fd)
      PROVE  TcpInvariant'
  <2>1. TcpTypeOK'
    BY <1>2 DEF TcpInvariant, TcpTypeOK, Socket, Step
  <2>2. \A x \in Caller \ {c} : tcpPc'[x] = tcpPc[x] /\ socketDesc'[x] = socketDesc[x]
    BY <1>2 DEF TcpInvariant, TcpTypeOK, Socket, Step
  <2>3. tcpPc[c] = "socket" /\ tcpPc'[c] = "bind" /\ socketDesc'[c] = fd
    BY <1>2 DEF TcpInvariant, TcpTypeOK, Socket, Step
  <2>4. Progress'
    BY <1>2, <2>2, <2>3 DEF TcpInvariant, Progress, Socket
  <2>5. Owned'
    BY <1>2, <2>2, <2>3 DEF TcpInvariant, Owned, Holds, Socket
  <2> QED
    BY <2>1, <2>4, <2>5 DEF TcpInvariant
<1>3. ASSUME NEW c \in Caller, SocketFails(c)
      PROVE  TcpInvariant'
  <2>1. Owned'
    BY <1>3, KeepsHolding DEF SocketFails, TcpInvariant, TcpTypeOK, Holds, Step
  <2> QED
    BY <1>3, <2>1 DEF TcpInvariant, TcpTypeOK, Progress, SocketFails, Step
<1>4. ASSUME NEW c \in Caller, Bind(c)
      PROVE  TcpInvariant'
  <2>1. Owned'
    BY <1>4, KeepsHolding DEF Bind
  <2>2. socketDesc[c] \in open
    BY <1>4 DEF TcpInvariant, Owned, Holds, Bind, Step
  <2> QED
    BY <1>4, <2>1, <2>2 DEF TcpInvariant, TcpTypeOK, Progress, Bind, Step
<1>5. ASSUME NEW c \in Caller, BindFails(c)
      PROVE  TcpInvariant'
  <2>1. /\ Step(c, "bind", "socket") /\ Closed(socketDesc[c])
        /\ socketDesc' = socketDesc
        /\ potentialAddr' \in [Caller -> Int]
    BY <1>5 DEF BindFails, TcpInvariant, TcpTypeOK
  <2> QED
    BY <2>1, ClosingKeeps DEF TcpInvariant, TcpTypeOK
<1>6. ASSUME NEW c \in Caller, NoAddress(c)
      PROVE  TcpInvariant'
  <2>1. Owned'
    BY <1>6, KeepsHolding DEF NoAddress, TcpInvariant, TcpTypeOK, Holds, Step
  <2> QED
    BY <1>6, <2>1 DEF TcpInvariant, TcpTypeOK, Progress, NoAddress, Step
<1>7. ASSUME NEW c \in Caller, Listen(c)
      PROVE  TcpInvariant'
  <2>1. Owned'
    BY <1>7, KeepsHolding DEF Listen
  <2>2. socketDesc[c] \in open
    BY <1>7 DEF TcpInvariant, Owned, Holds, Listen, Step
  <2> QED
    BY <1>7, <2>1, <2>2 DEF TcpInvariant, TcpTypeOK, Progress, Listen, Step
<1>8. ASSUME NEW c \in Caller, ListenFails(c)
      PROVE  TcpInvariant'
  BY <1>8, ClosingKeeps DEF ListenFails, TcpInvariant, TcpTypeOK
<1>9. ASSUME NEW c \in Caller, Close(c)
      PROVE  TcpInvariant'
  BY <1>9, ClosingKeeps DEF Close, TcpInvariant, TcpTypeOK
<1>11. ASSUME NEW c \in Caller, NEW fd \in Descriptor, GetSocketConnect(c, fd)
       PROVE  TcpInvariant'
  <2>1. TcpTypeOK'
    BY <1>11 DEF TcpInvariant, TcpTypeOK, GetSocketConnect, Step
  <2>2. \A x \in Caller \ {c} : tcpPc'[x] = tcpPc[x] /\ socketDesc'[x] = socketDesc[x]
    BY <1>11 DEF TcpInvariant, TcpTypeOK, GetSocketConnect, Step
  <2>3. tcpPc[c] = "closed" /\ tcpPc'[c] = "client" /\ socketDesc'[c] = fd
    BY <1>11 DEF TcpInvariant, TcpTypeOK, GetSocketConnect, Step
  <2>4. Progress'
    BY <1>11, <2>2, <2>3 DEF TcpInvariant, Progress, GetSocketConnect
  <2>5. Owned'
    BY <1>11, <2>2, <2>3 DEF TcpInvariant, Owned, Holds, GetSocketConnect
  <2> QED
    BY <2>1, <2>4, <2>5 DEF TcpInvariant
<1>10. CASE UNCHANGED tcpVars
  BY <1>10 DEF tcpVars, TcpInvariant, TcpTypeOK, Progress, Owned, Holds
<1> QED
  BY <1>1, <1>2, <1>3, <1>4, <1>5, <1>6, <1>7, <1>8, <1>9, <1>10, <1>11 DEF TcpNext, CallerNext

\* Whatever calls of tcpServer_open() fail, every open descriptor belongs to the one
\* caller that holds it, and a server that is open is bound and listens.
THEOREM DescriptorsAreOwned == TcpSpec => []OwnDescriptors
BY TcpInitInvariant, TcpStepInvariant, InvariantImpliesOwn, PTL DEF TcpSpec

-----------------------------------------------------------------------------
(* The commands in the stream.                                             *)

CommandPart == [of : Nat, part : {"head", "tail"}]
Received == [head : Nat, tail : Nat]

FrameTypeOK ==
  /\ sent \in Nat /\ first \in Nat /\ gotBefore \in Nat
  /\ inFlight \in Seq(CommandPart) /\ arrived \in Seq(CommandPart)
  /\ cmdMsg \in Received
  /\ got \in Seq(Received) /\ gotBefore <= Len(got)

\* The stream s holds the two parts of each command from next to last, or nothing.
Whole(s, next, last) ==
  /\ Len(s) # 0 => Len(s) = 2 * (last + 1 - next)
  /\ \A k \in Nat \ {0} : 2 * k <= Len(s) =>
       s[2 * k - 1].of = next + k - 1 /\ s[2 * k].of = next + k - 1

\* The parts still to be read, the ones in the socket first, and which command
\* they begin with.
Stream == arrived \o inFlight
NextOne == first + Len(got) - gotBefore

FrameInvariant ==
  /\ FrameTypeOK
  /\ ~torn => Whole(Stream, NextOne, sent)
  /\ FramesKept

\* An empty stream has no torn command.
LEMMA NothingIsWhole == ASSUME NEW next, NEW last PROVE Whole(<<>>, next, last)
BY DEF Whole

\* A command added at the end.
LEMMA WholeAdded ==
  ASSUME NEW s \in Seq(CommandPart), NEW next \in Nat, NEW last \in Nat, Whole(s, next, last),
         Len(s) # 0 \/ next = last + 1
  PROVE  Whole(s \o PartsOf(last + 1), next, last + 1)
<1> DEFINE t == s \o PartsOf(last + 1)
<1>1. PartsOf(last + 1) \in Seq(CommandPart) /\ Len(PartsOf(last + 1)) = 2
  BY DEF PartsOf, CommandPart
<1>2. PartsOf(last + 1)[1].of = last + 1 /\ PartsOf(last + 1)[2].of = last + 1
  BY DEF PartsOf
<1>3. /\ Len(s) \in Nat /\ Len(t) = Len(s) + 2
      /\ \A i \in 1 .. Len(s) + 2 : t[i] = IF i <= Len(s) THEN s[i] ELSE PartsOf(last + 1)[i - Len(s)]
  <2> DEFINE P == PartsOf(last + 1)
  <2>1. P \in Seq(CommandPart) /\ Len(P) = 2 /\ t = s \o P
    BY <1>1
  <2> HIDE DEF P, t
  <2>2. /\ Len(s \o P) = Len(s) + Len(P)
        /\ \A i \in 1 .. Len(s) + Len(P) : (s \o P)[i] = IF i <= Len(s) THEN s[i] ELSE P[i - Len(s)]
    BY <2>1, ConcatProperties
  <2>3. Len(s) \in Nat
    BY LenProperties
  <2>4. 1 .. Len(s) + Len(P) = 1 .. Len(s) + 2 /\ Len(t) = Len(s) + 2
    BY <2>1, <2>2
  <2> QED BY <2>1, <2>2, <2>3, <2>4, Zenon DEF P
<1>4. Len(s) = 2 * (last + 1 - next)
  BY DEF Whole
<1> HIDE DEF t
<1>5. ASSUME NEW k \in Nat \ {0}, 2 * k <= Len(t)
      PROVE  t[2 * k - 1].of = next + k - 1 /\ t[2 * k].of = next + k - 1
  <2>1. CASE 2 * k <= Len(s)
    <3>1. t[2 * k - 1] = s[2 * k - 1] /\ t[2 * k] = s[2 * k]
      BY <1>3, <2>1
    <3> QED BY <2>1, <3>1 DEF Whole
  <2>2. CASE 2 * k > Len(s)
    <3>1. k = last + 2 - next
      BY <1>3, <1>4, <1>5, <2>2
    <3>2. 2 * k - 1 = Len(s) + 1 /\ 2 * k = Len(s) + 2 /\ next + k - 1 = last + 1
      BY <1>4, <3>1
    <3>3. t[Len(s) + 1] = PartsOf(last + 1)[1] /\ t[Len(s) + 2] = PartsOf(last + 1)[2]
      <4>1. Len(s) + 1 - Len(s) = 1 /\ Len(s) + 2 - Len(s) = 2
        BY <1>3
      <4> QED BY <1>3, <4>1
    <3> QED BY <1>2, <3>2, <3>3
  <2> QED BY <1>3, <2>1, <2>2
<1>6. Len(t) = 2 * (last + 1 + 1 - next)
  BY <1>3, <1>4
<1> QED BY <1>5, <1>6 DEF Whole, t

\* A command taken from the front.
LEMMA WholeTaken ==
  ASSUME NEW s \in Seq(CommandPart), NEW next \in Nat, NEW last \in Nat, Whole(s, next, last),
         Len(s) >= 2
  PROVE  /\ s[1].of = next /\ s[2].of = next
         /\ Whole(SubSeq(s, 3, Len(s)), next + 1, last)
<1> DEFINE t == SubSeq(s, 3, Len(s))
<1>0. Len(s) \in Nat /\ Len(s) = 2 * (last + 1 - next)
  BY DEF Whole
<1>1. s[1].of = next /\ s[2].of = next
  <2>1. 1 \in Nat \ {0} /\ 2 * 1 <= Len(s)
    BY <1>0
  <2>2. s[2 * 1 - 1].of = next + 1 - 1 /\ s[2 * 1].of = next + 1 - 1
    BY <2>1, Zenon DEF Whole
  <2> QED BY <2>2
<1>2. Len(t) = Len(s) - 2 /\ \A i \in 1 .. Len(s) - 2 : t[i] = s[i + 2]
  BY <1>0
<1> HIDE DEF t
<1>3. ASSUME NEW k \in Nat \ {0}, 2 * k <= Len(t)
      PROVE  t[2 * k - 1].of = next + 1 + k - 1 /\ t[2 * k].of = next + 1 + k - 1
  <2>1. 2 * (k + 1) <= Len(s) /\ 2 * k - 1 \in 1 .. Len(s) - 2 /\ 2 * k \in 1 .. Len(s) - 2
    BY <1>0, <1>2, <1>3
  <2>2. 2 * k - 1 + 2 = 2 * (k + 1) - 1 /\ 2 * k + 2 = 2 * (k + 1)
    OBVIOUS
  <2>3. t[2 * k - 1] = s[2 * (k + 1) - 1] /\ t[2 * k] = s[2 * (k + 1)]
    BY <1>2, <2>1, <2>2
  <2>4. s[2 * (k + 1) - 1].of = next + (k + 1) - 1 /\ s[2 * (k + 1)].of = next + (k + 1) - 1
    <3>1. k + 1 \in Nat \ {0}
      OBVIOUS
    <3> QED BY <2>1, <3>1, Zenon DEF Whole
  <2> QED BY <2>3, <2>4
<1>4. Len(t) = 2 * (last + 1 - (next + 1))
  BY <1>0, <1>2
<1> QED BY <1>1, <1>3, <1>4 DEF Whole, t

\* At the start nothing is sent.
LEMMA FrameStarts == FrameInit => FrameInvariant
<1> SUFFICES ASSUME FrameInit PROVE FrameInvariant
  OBVIOUS
<1>1. FrameTypeOK
  <2>1. <<>> \in Seq(CommandPart) /\ <<>> \in Seq(Received) /\ Len(<<>>) = 0
    OBVIOUS
  <2> QED BY <2>1 DEF FrameInit, FrameTypeOK, Received
<1>2. Stream = <<>>
  <2>1. <<>> \in Seq(CommandPart)
    OBVIOUS
  <2> QED BY <2>1, ConcatEmptySeq DEF FrameInit, Stream
<1>3. FramesKept
  BY DEF FrameInit, FramesKept
<1> QED BY <1>1, <1>2, <1>3, NothingIsWhole DEF FrameInvariant

\* A client sends a command.
LEMMA SendOneKeeps ==
  ASSUME FrameInvariant, SendOne
  PROVE  FrameInvariant'
<1>0. FrameTypeOK /\ sent + 1 \in Nat /\ PartsOf(sent + 1) \in Seq(CommandPart)
  BY DEF FrameInvariant, FrameTypeOK, PartsOf, CommandPart
<1>1. /\ sent' = sent + 1 /\ inFlight' = inFlight \o PartsOf(sent + 1)
      /\ UNCHANGED <<arrived, cmdMsg, got>>
  BY DEF SendOne
<1>2. inFlight' \in Seq(CommandPart)
  BY <1>0, <1>1, ConcatProperties DEF FrameTypeOK
<1>3. Stream \in Seq(CommandPart) /\ Stream' = Stream \o PartsOf(sent + 1)
  BY SMTT(60), <1>0, <1>1, ConcatProperties, ConcatAssociative DEF Stream, FrameTypeOK
<1>4. CASE Idle
  <2>1. first' = sent + 1 /\ gotBefore' = Len(got)
    BY <1>1, <1>4 DEF SendOne
  <2>2. FrameTypeOK'
    BY <1>0, <1>1, <1>2, <2>1 DEF FrameTypeOK
  <2>3. NextOne' = sent + 1
    BY <1>0, <1>1, <2>1 DEF NextOne, FrameTypeOK
  <2>4. Stream = <<>> /\ Len(Stream) = 0
    BY <1>0, <1>4, ConcatEmptySeq DEF Idle, Stream, FrameTypeOK
  <2>5. Whole(Stream', NextOne', sent')
    <3>1. Whole(Stream, sent + 1, sent)
      BY <2>4, NothingIsWhole
    <3> QED BY <1>0, <1>1, <1>3, <2>3, <2>4, <3>1, WholeAdded DEF FrameTypeOK
  <2>6. FramesKept'
    BY <1>0, <1>1, <2>1 DEF FramesKept, FrameTypeOK
  <2> QED BY <2>2, <2>5, <2>6 DEF FrameInvariant
<1>5. CASE ~Idle
  <2>1. UNCHANGED <<first, gotBefore, torn>> /\ NextOne' = NextOne /\ NextOne \in Nat
    BY <1>0, <1>1, <1>5 DEF SendOne, NextOne, FrameTypeOK
  <2>2. FrameTypeOK'
    BY <1>0, <1>1, <1>2, <2>1 DEF FrameTypeOK
  <2>3. Len(Stream) # 0
    BY <1>0, <1>5, ConcatProperties, EmptySeq DEF Idle, Stream, FrameTypeOK
  <2>4. ~torn => Whole(Stream', NextOne', sent')
    BY <1>0, <1>1, <1>3, <2>1, <2>3, WholeAdded DEF FrameInvariant, FrameTypeOK
  <2>5. FramesKept'
    BY <1>1, <2>1 DEF FramesKept, FrameInvariant
  <2> QED BY <2>1, <2>2, <2>4, <2>5 DEF FrameInvariant
<1> QED BY <1>4, <1>5

\* The network delivers some parts: the stream is the same.
LEMMA DeliverKeeps ==
  ASSUME FrameInvariant, NEW n \in Nat \ {0}, Deliver(n)
  PROVE  FrameInvariant'
<1>1. /\ inFlight \in Seq(CommandPart) /\ arrived \in Seq(CommandPart) /\ n <= Len(inFlight)
      /\ arrived' = arrived \o SubSeq(inFlight, 1, n)
      /\ inFlight' = SubSeq(inFlight, n + 1, Len(inFlight))
      /\ UNCHANGED <<sent, cmdMsg, got, first, gotBefore, torn>>
  BY DEF Deliver, FrameInvariant, FrameTypeOK
<1>2. SubSeq(inFlight, 1, n) \in Seq(CommandPart) /\ SubSeq(inFlight, n + 1, Len(inFlight)) \in Seq(CommandPart)
  BY <1>1
<1>3. FrameTypeOK'
  BY <1>1, <1>2, ConcatProperties DEF FrameInvariant, FrameTypeOK
<1>4. SubSeq(inFlight, 1, n) \o SubSeq(inFlight, n + 1, Len(inFlight)) = inFlight
  <2>1. SubSeq(inFlight, 1, Len(inFlight)) = inFlight
    BY <1>1, SubSeqFull
  <2>2. Len(inFlight) \in Nat /\ 1 \in 1 .. Len(inFlight) + 1 /\ n \in 1 - 1 .. Len(inFlight)
        /\ Len(inFlight) \in n .. Len(inFlight)
    BY <1>1
  <2> QED BY <1>1, <2>1, <2>2, ConcatAdjacentSubSeq
<1>5. Stream' = Stream
  <2> DEFINE a == SubSeq(inFlight, 1, n)
             b == SubSeq(inFlight, n + 1, Len(inFlight))
  <2>1. Stream' = (arrived \o a) \o b /\ Stream = arrived \o (a \o b)
    BY <1>1, <1>4 DEF Stream
  <2>2. a \in Seq(CommandPart) /\ b \in Seq(CommandPart) /\ arrived \in Seq(CommandPart)
    BY <1>1, <1>2
  <2> HIDE DEF a, b
  <2> QED BY <2>1, <2>2, ConcatAssociative
<1>6. NextOne' = NextOne /\ FramesKept'
  BY <1>1 DEF NextOne, FramesKept, FrameInvariant
<1> QED BY <1>1, <1>3, <1>5, <1>6 DEF FrameInvariant

\* What is left of a sequence without its first two elements.
LEMMA AllButTwo ==
  ASSUME NEW S, NEW s \in Seq(S), Len(s) >= 2
  PROVE  /\ SubSeq(s, 3, Len(s)) \in Seq(S) /\ Len(SubSeq(s, 3, Len(s))) = Len(s) - 2
         /\ \A i \in 1 .. Len(s) - 2 : SubSeq(s, 3, Len(s))[i] = s[i + 2]
<1>1. Len(s) \in Int /\ 3 \in Int /\ \A i \in 3 .. Len(s) : s[i] \in S
  OBVIOUS
<1>2. /\ SubSeq(s, 3, Len(s)) \in Seq(S)
      /\ Len(SubSeq(s, 3, Len(s))) = IF 3 <= Len(s) THEN Len(s) - 3 + 1 ELSE 0
      /\ \A i \in 1 .. Len(s) - 3 + 1 : SubSeq(s, 3, Len(s))[i] = s[3 + i - 1]
  BY <1>1, SubSeqProperties
<1>3. Len(SubSeq(s, 3, Len(s))) = Len(s) - 2
  <2> DEFINE l == Len(s)
             x == Len(SubSeq(s, 3, Len(s)))
  <2>1. l \in Int /\ l >= 2 /\ x = IF 3 <= l THEN l - 3 + 1 ELSE 0
    BY <1>1, <1>2, Zenon
  <2> HIDE DEF l, x
  <2>2. x = l - 2
    BY <2>1
  <2> QED BY <2>2 DEF l, x
<1>4. ASSUME NEW i \in 1 .. Len(s) - 2
      PROVE  SubSeq(s, 3, Len(s))[i] = s[i + 2]
  <2>1. i \in 1 .. Len(s) - 3 + 1 /\ 3 + i - 1 = i + 2
    BY <1>1
  <2> QED BY <1>2, <2>1
<1> QED BY <1>2, <1>3, <1>4

\* What recv() takes of l parts: one command at most, all if there is less.
LEMMA AtMostTwo ==
  ASSUME NEW l \in Nat \ {0}, NEW n, n = IF l < 2 THEN l ELSE 2
  PROVE  n \in {1, 2} /\ n <= l /\ (l >= 2 => n = 2) /\ (n = 2 => l >= 2)
OBVIOUS

\* The server reads what is there, at most one command.
LEMMA RecvCommandKeeps ==
  ASSUME FrameInvariant, RecvCommand
  PROVE  FrameInvariant'
<1> DEFINE n == IF Len(arrived) < SizeOfCommand THEN Len(arrived) ELSE SizeOfCommand
<1>0. FrameTypeOK /\ arrived \in Seq(CommandPart) /\ arrived # <<>> /\ Len(arrived) \in Nat \ {0}
  BY EmptySeq DEF RecvCommand, FrameInvariant, FrameTypeOK
<1>1. PICK rest \in {cmdMsg.tail, 0} :
        /\ cmdMsg' = [head |-> arrived[1].of, tail |-> IF n = 2 THEN arrived[2].of ELSE rest]
        /\ torn' = (torn \/ Len(arrived) < 2)
        /\ arrived' = SubSeq(arrived, n + 1, Len(arrived))
  BY DEF RecvCommand
<1>2. got' = Append(got, cmdMsg') /\ UNCHANGED <<sent, inFlight, first, gotBefore>>
  BY DEF RecvCommand
<1>3. n \in {1, 2} /\ n <= Len(arrived) /\ (~(Len(arrived) < 2) => n = 2 /\ Len(arrived) >= 2)
  <2>1. n = IF Len(arrived) < 2 THEN Len(arrived) ELSE 2
    BY DEF SizeOfCommand
  <2> HIDE DEF n
  <2> QED BY <1>0, <2>1, AtMostTwo
<1> HIDE DEF n
<1>4. cmdMsg' \in Received
  <2>1. arrived[1] \in CommandPart /\ (n = 2 => arrived[2] \in CommandPart)
    BY <1>0, <1>3
  <2>2. rest \in Nat
    BY <1>0 DEF FrameTypeOK, Received
  <2> QED BY <1>1, <2>1, <2>2 DEF CommandPart, Received
<1>5. arrived' \in Seq(CommandPart)
  BY <1>0, <1>1, <1>3
<1>6. /\ got' \in Seq(Received) /\ Len(got') = Len(got) + 1 /\ Len(got) \in Nat
      /\ got'[Len(got) + 1] = cmdMsg' /\ \A i \in 1 .. Len(got) : got'[i] = got[i]
  BY <1>0, <1>2, <1>4 DEF FrameTypeOK
<1>7. FrameTypeOK'
  BY <1>0, <1>2, <1>4, <1>5, <1>6 DEF FrameTypeOK
<1>8. CASE torn'
  BY <1>7, <1>8 DEF FrameInvariant, FramesKept
<1>9. CASE ~torn'
  <2>1. ~torn /\ n = 2 /\ Len(arrived) >= 2
    BY <1>0, <1>1, <1>3, <1>9
  <2>2. NextOne \in Nat /\ NextOne' = NextOne + 1
    BY <1>0, <1>2, <1>6 DEF NextOne, FrameTypeOK
  <2>3. /\ Stream \in Seq(CommandPart) /\ Len(Stream) = Len(arrived) + Len(inFlight)
        /\ \A i \in 1 .. Len(arrived) : Stream[i] = arrived[i]
        /\ Len(inFlight) \in Nat /\ Len(Stream) >= 2
    BY <1>0, <2>1, ConcatProperties DEF Stream, FrameTypeOK
  <2>4. Stream' = SubSeq(Stream, 3, Len(Stream))
    <3> DEFINE a == SubSeq(arrived, 3, Len(arrived))
               r == SubSeq(Stream, 3, Len(Stream))
    <3>1. a \in Seq(CommandPart) /\ Len(a) = Len(arrived) - 2
          /\ \A i \in 1 .. Len(arrived) - 2 : a[i] = arrived[i + 2]
      BY <1>0, <2>1, AllButTwo
    <3>2. r \in Seq(CommandPart) /\ Len(r) = Len(Stream) - 2
          /\ \A i \in 1 .. Len(Stream) - 2 : r[i] = Stream[i + 2]
      BY <2>3, AllButTwo
    <3>3. Stream' = a \o inFlight
      BY <1>1, <1>2, <2>1 DEF Stream
    <3> HIDE DEF a, r
    <3>4. /\ a \o inFlight \in Seq(CommandPart) /\ Len(a \o inFlight) = Len(a) + Len(inFlight)
          /\ \A i \in 1 .. Len(a) + Len(inFlight) :
               (a \o inFlight)[i] = IF i <= Len(a) THEN a[i] ELSE inFlight[i - Len(a)]
      BY <1>0, <3>1, ConcatProperties DEF FrameTypeOK
    <3>5. \A i \in 1 .. Len(arrived) + Len(inFlight) :
            Stream[i] = IF i <= Len(arrived) THEN arrived[i] ELSE inFlight[i - Len(arrived)]
      BY <1>0, ConcatProperties DEF Stream, FrameTypeOK
    <3>6. ASSUME NEW i \in 1 .. Len(r) PROVE (a \o inFlight)[i] = r[i]
      <4>1. i \in 1 .. Len(a) + Len(inFlight) /\ i + 2 \in 1 .. Len(arrived) + Len(inFlight)
            /\ r[i] = Stream[i + 2]
        BY <2>3, <3>1, <3>2
      <4>2. i + 2 - Len(arrived) = i - Len(a) /\ (i <= Len(a) <=> i + 2 <= Len(arrived))
        BY <1>0, <3>1
      <4>3. i <= Len(a) => a[i] = arrived[i + 2]
        BY <3>1
      <4> QED BY <3>4, <3>5, <4>1, <4>2, <4>3
    <3>7. Len(a \o inFlight) = Len(r)
      BY <1>0, <2>3, <3>1, <3>2, <3>4
    <3>8. a \o inFlight = r
      BY <3>2, <3>4, <3>6, <3>7, SeqEqual
    <3> QED BY <3>3, <3>8 DEF r
  <2>5. /\ Stream[1].of = NextOne /\ Stream[2].of = NextOne
        /\ Whole(Stream', NextOne', sent')
    <3>1. Whole(Stream, NextOne, sent) /\ sent \in Nat
      BY <1>0, <2>1 DEF FrameInvariant, FrameTypeOK
    <3> QED BY <1>2, <2>2, <2>3, <2>4, <3>1, WholeTaken
  <2>6. cmdMsg'.head = NextOne /\ cmdMsg'.tail = NextOne
    <3>1. Stream[1] = arrived[1] /\ Stream[2] = arrived[2]
      BY <1>0, <2>1, <2>3
    <3> QED BY <1>1, <2>1, <2>5, <3>1
  <2>7. FramesKept'
    <3>1. ASSUME NEW i \in gotBefore + 1 .. Len(got')
          PROVE  got'[i].head = first + i - gotBefore - 1 /\ got'[i].tail = got'[i].head
      <4>0. gotBefore \in Nat /\ first \in Nat /\ i \in Nat
        BY <1>0, <1>6 DEF FrameTypeOK
      <4>1. CASE i <= Len(got)
        <5>1. i \in gotBefore + 1 .. Len(got) /\ got'[i] = got[i]
          BY <1>6, <4>0, <4>1
        <5> QED BY <2>1, <5>1 DEF FrameInvariant, FramesKept
      <4>2. CASE i > Len(got)
        <5>1. i = Len(got) + 1
          BY <1>6, <4>0, <4>2
        <5>2. NextOne = first + i - gotBefore - 1
          BY <1>6, <4>0, <5>1 DEF NextOne
        <5> QED BY <1>6, <2>6, <5>1, <5>2
      <4> QED BY <1>6, <4>0, <4>1, <4>2
    <3> QED BY <1>2, <3>1 DEF FramesKept
  <2> QED BY <1>7, <2>5, <2>7 DEF FrameInvariant
<1> QED BY <1>8, <1>9

\* No step breaks the invariant.
LEMMA FrameSteps ==
  ASSUME FrameInvariant, [FrameNext]_frameVars
  PROVE  FrameInvariant'
<1>1. CASE UNCHANGED frameVars
  BY <1>1 DEF frameVars, FrameInvariant, FrameTypeOK, FramesKept, Stream, NextOne
<1>2. CASE Reconnect
  <2>1. inFlight' = <<>> /\ arrived' = <<>> /\ UNCHANGED <<sent, cmdMsg, got, first, gotBefore, torn>>
    BY <1>2 DEF Reconnect
  <2>2. FrameTypeOK' /\ FramesKept'
    BY <2>1 DEF FrameInvariant, FrameTypeOK, FramesKept
  <2>3. Stream' = <<>>
    <3>1. <<>> \in Seq(CommandPart)
      OBVIOUS
    <3> QED BY <2>1, <3>1, ConcatEmptySeq DEF Stream
  <2> QED BY <2>2, <2>3, NothingIsWhole DEF FrameInvariant
<1>3. CASE \E n \in 1 .. 2 * MaxSent : Deliver(n)
  BY <1>3, DeliverKeeps, SentAssumption
<1> QED BY <1>1, <1>2, <1>3, SendOneKeeps, RecvCommandKeeps DEF FrameNext

\* While no command is read in parts, however the network splits or joins them,
\* the server passes on the commands that were sent, in order; and a torn one
\* spoils only those before the connection is next idle (cmdTlmServer_recv()).
THEOREM FramesAreKept == FrameSpec => []FramesKept
<1>1. FrameInvariant => FramesKept
  BY DEF FrameInvariant
<1> QED BY FrameStarts, FrameSteps, <1>1, PTL DEF FrameSpec
=============================================================================
