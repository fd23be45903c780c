------------------------------ MODULE LogOrder ------------------------------
(***************************************************************************)
(* In which order the records of LogTlm reach the disk.                    *)
(*                                                                         *)
(* The abstract log, TelemetryLog, keeps one queue of records; logTlm.c    *)
(* has two buffers, files that rotate, and two threads.  It implements the *)
(* abstract log as long as the controller does not overtake the flusher.   *)
(***************************************************************************)
EXTENDS LogTlm

\* A controller whose period is long, as in testLogTlmThread.cpp: it writes the
\* last record of a buffer, and closes the thread, only after
\* logTlm_isFlushing() would say no and the thread is back in its loop.
FlusherAtRest ==
  /\ pc["flusher"] \in {"none", "wait", "loop", "snapshot"}
  /\ \A b \in Buffer : ~isFull[b]
Pace == (Write /\ countBufferCurrent = BufferMax - 1) \/ CloseThread => FlusherAtRest
PacedNext == Next /\ Pace
PacedSpec == Init /\ [][PacedNext]_vars

-----------------------------------------------------------------------------
(* The log the files and the buffers stand for.                            *)

\* How much of a buffer the call under way has written.
Written(b) == IF \E p \in Process : job[p].buffer = b
              THEN job[CHOOSE p \in Process : job[p].buffer = b].done ELSE 0
InFull(b) == IF isFull[b] THEN SubSeq(buffer[b], Written(b) + 1, BufferMax) ELSE <<>>
\* Between marking its buffer and switching to the other, the controller has none.
InCurrent == IF pBufferCurrent = NULL \/ pc["controller"] = "switch" THEN <<>>
             ELSE IF isFull[pBufferCurrent] THEN <<>>
             ELSE SubSeq(buffer[pBufferCurrent], Written(pBufferCurrent) + 1, countBufferCurrent)

LogOpen == pFile \/ \E p \in Process : pc[p] \in {"rename", "reopen"}
InMemory == IF LogOpen THEN InFull(1) \o InFull(2) \o InCurrent ELSE <<>>

\* The files one after the other: those that are rotated have FileMax records each.
OnDisk ==
  LET old == Len(rotated) * FileMax
  IN  [i \in 1 .. old + Len(file) |->
         IF i <= old THEN rotated[(i - 1) \div FileMax + 1][((i - 1) % FileMax) + 1]
         ELSE file[i - old]]

Log == INSTANCE TelemetryLog WITH
         Record <- 1 .. MaxRecord, disk <- OnDisk, memory <- InMemory, open <- LogOpen

\* No record is lost, repeated or reordered on its way to the files, across
\* partial buffers, rotations and I/O errors, as long as nobody overtakes the
\* flusher.
LogsInOrder == Log!Spec
=============================================================================
