--------------------------- MODULE MCCmdTlmServer ---------------------------
(***************************************************************************)
(* TLC instances of CmdTlmServer.                                          *)
(***************************************************************************)
EXTENDS CmdTlmServer

OneEach == [q \in Queue |-> 1]
=============================================================================
