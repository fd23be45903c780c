---------------------------- MODULE TelemetryLog ----------------------------
(***************************************************************************)
(* What logTlm.h promises to the controller that logs its telemetry: the   *)
(* records it writes are kept in memory and reach the log file in the      *)
(* order they were written, each of them once.  Records are lost only when *)
(* the file is closed (by the caller or after an I/O error) and when a new *)
(* log is opened.                                                          *)
(***************************************************************************)
EXTENDS Sequences, Integers

CONSTANTS Record   \* the telemetry records, numbered as they are written

VARIABLES disk,    \* what is in the files of the log, the rotated ones first
          memory,  \* accepted records that are not on the disk yet
          open     \* is there a log to write to

vars == <<disk, memory, open>>

Init == /\ disk = <<>>
        /\ memory = <<>>
        /\ open = FALSE

Open == /\ disk' = <<>>
        /\ memory' = <<>>
        /\ open' = TRUE

\* A record is written once, and after those before it.
Write(r) == /\ open
            /\ \A i \in DOMAIN disk : disk[i] < r
            /\ \A i \in DOMAIN memory : memory[i] < r
            /\ memory' = Append(memory, r)
            /\ UNCHANGED <<disk, open>>

\* Some of the oldest records move from the memory to the disk.
Drain(n) == /\ open
            /\ disk' = disk \o SubSeq(memory, 1, n)
            /\ memory' = SubSeq(memory, n + 1, Len(memory))
            /\ UNCHANGED open

\* The log stops, perhaps in the middle of a drain.
Stop(n) == /\ open
           /\ disk' = disk \o SubSeq(memory, 1, n)
           /\ memory' = <<>>
           /\ open' = FALSE

Next == \/ Open
        \/ \E r \in Record : Write(r)
        \/ \E n \in 0 .. Len(memory) : Drain(n) \/ Stop(n)

Spec == Init /\ [][Next]_vars
=============================================================================
