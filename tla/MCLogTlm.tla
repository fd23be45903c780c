------------------------------ MODULE MCLogTlm ------------------------------
(***************************************************************************)
(* TLC instances of LogTlm and LogOrder.                                   *)
(***************************************************************************)
EXTENDS LogOrder

\* The flusher thread runs until the process ends.
OneThreadSpec == Init /\ [][Next /\ ~CloseThread]_vars
=============================================================================
