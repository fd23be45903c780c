-------------------------- MODULE MCCircularBuffer --------------------------
(***************************************************************************)
(* TLC instance of CircularBuffer: a server thread and a controller (any   *)
(* thread may call any operation), two distinguishable commands, and a     *)
(* ring that wraps after Size + 1 puts.                                    *)
(***************************************************************************)
EXTENDS CircularBuffer
=============================================================================
