---------------------------- MODULE LogOrderProofs ----------------------------
(***************************************************************************)
(* LogTlm implements TelemetryLog for a paced controller (LogIsInOrder),   *)
(* for any sizes of the buffers and the files.                             *)
(*                                                                         *)
(* What the proof rests on, next to the invariants of LogTlmProofs:        *)
(*   Control  the pace as the steps see it: who may have a full buffer,    *)
(*            which buffer that is, and how far each flush is;             *)
(*   Copied   the record being written is in its slot before it counts;    *)
(*   Older    it is newer than all that is in the log.                     *)
(* The log that the state stands for is cut out of buffers and files, so   *)
(* most steps are shown in three parts: what the disk, the memory and the  *)
(* current buffer look like (Views), that a step leaves those alone, or    *)
(* how many records it moves.                                              *)
(***************************************************************************)
EXTENDS LogTlmProofs, LogOrder

-----------------------------------------------------------------------------
(* The pace.                                                               *)

\* Where the controller is between testing for space and giving the buffer away.
Handing == {"which", "lockMark", "mark"}
InSwitch == Handing \cup {"switch"}
\* The last record of a buffer is being written.
AtEnd ==
  \/ pc["controller"] = "copy" /\ countBufferCurrent = BufferMax - 1
  \/ pc["controller"] = "increment" /\ read = BufferMax - 1
  \/ pc["controller"] = "test" /\ countBufferCurrent = BufferMax
  \/ pc["controller"] \in Handing
InClear == InFlush \cup {"lockClear", "clear"}

\* The pace: nothing waits for the flusher while the last record is written, nor
\* without the flusher.
Paced ==
  /\ AtEnd => FlusherAtRest
  /\ pc["controller"] # "stop" /\ pc["flusher"] \notin {"assign", "zero"}
  /\ isThreadReady => pc["flusher"] \notin {"none", "ended"}
  /\ pc["controller"] \in Handing => isThreadReady
  /\ pc["controller"] = "setReady" => pc["flusher"] = "wait" /\ ~isThreadReady
  /\ ~isThreadReady => \A b \in Buffer : ~isFull[b]

\* Only the buffer that the controller has left is full.
LeftFull ==
  \A b \in Buffer : isFull[b] =>
    /\ pBufferCurrent \in Buffer
    /\ b = IF pc["controller"] = "switch" THEN pBufferCurrent ELSE Other(pBufferCurrent)

\* Between calls there is space in the current buffer, once there is a buffer.
Space ==
  /\ countBufferCurrent = BufferMax =>
       pc["controller"] \in {"test", "args"} \cup InSwitch \cup InFlush
  /\ pc["controller"] \in InSwitch => countBufferCurrent = BufferMax
  /\ pc["controller"] = "increment" => read = countBufferCurrent
  /\ pc["controller"] \in {"lockMark", "mark", "switch"} => read = pBufferCurrent
  /\ pc["controller"] \in {"copy", "increment", "test", "args"} \cup InSwitch \cup InFlush =>
       pBufferCurrent \in Buffer
  /\ pc["flusher"] \in InClear \cup {"reassign"} => pBufferCurrent \in Buffer
  /\ LogOpen => pBufferCurrent \in Buffer

\* What a call writes, and how far it is.
DoneAt(p) ==
  /\ pc[p] = "write" => job[p].done = 0
  /\ pc[p] \in {"count", "flushed", "lockClear", "clear"} /\ LogOpen => job[p].done = job[p].count
Jobs ==
  /\ IF pc["controller"] \in InFlush
     THEN job["controller"].buffer = pBufferCurrent /\ job["controller"].count = countBufferCurrent
     ELSE job["controller"].buffer = NULL
  /\ IF pc["flusher"] \in InClear
     THEN doFlush = {job["flusher"].buffer} /\ job["flusher"].count = BufferMax
     ELSE job["flusher"].buffer = NULL
  /\ \A p \in Process : DoneAt(p)

\* What a paced controller keeps true.
Control == Paced /\ LeftFull /\ Space /\ Jobs
\* The invariants of LogTlmProofs.
Known == Rotation /\ Exclusion

\* The state as functions, for every step.
LEMMA Functions ==
  ASSUME Known
  PROVE  /\ pc = [p \in Process |-> pc[p]]
         /\ job \in [Process -> JobType]
         /\ isFull \in [Buffer -> BOOLEAN]
         /\ pBufferCurrent \in Buffer \cup {NULL}
         /\ countBufferCurrent \in 0 .. BufferMax
         /\ BufferMax \in Nat \ {0}
BY BufferAssumption DEF Known, Rotation, Exclusion, Typed, MemoryOK, MemoryTyped, DiskOK, JobTyped

\* Whoever works on a buffer, the other does not.
LEMMA OneWorks ==
  ASSUME Known, Control
  PROVE  /\ pc["controller"] \in InFlush \cup {"args", "open", "lockReset", "reset"} =>
              \A b \in Buffer : ~isFull[b]
         /\ pc["flusher"] \in InClear =>
              /\ isFull[job["flusher"].buffer] /\ job["flusher"].buffer \in Buffer
              /\ pc["controller"] \notin InFlush \cup {"args", "open", "lockReset", "reset"}
<1> USE DEF Known, Exclusion, Control
<1>1. pc["controller"] \in InFlush \cup {"args", "open", "lockReset", "reset"} =>
              \A b \in Buffer : ~isFull[b]
  BY DEF ControllerOwns, Paced
<1>2. pc["flusher"] \in InClear => isFull[job["flusher"].buffer] /\ job["flusher"].buffer \in Buffer
  BY DEF FlusherOwns, InClear, Typed
<1> QED BY <1>1, <1>2

\* A step of logTlm_flushToFile().
LEMMA FlushControl ==
  ASSUME Known, Control, NEW p \in Process, FlushToFile(p)
  PROVE  /\ pc[p] \in InFlush /\ pc'[p] \in InFlush
         /\ \A q \in Process \ {p} : pc'[q] = pc[q] /\ job'[q] = job[q]
         /\ UNCHANGED <<buffer, pBufferCurrent, countBufferCurrent, isFull, lock, isThreadReady,
                        op, data, read, doFlush>>
         /\ job'[p].buffer = job[p].buffer /\ job'[p].count = job[p].count
         /\ LogOpen' => LogOpen
         /\ DoneAt(p)'
<1>1. /\ pc[p] \in InFlush /\ pc'[p] \in InFlush
      /\ \A q \in Process \ {p} : pc'[q] = pc[q]
      /\ UNCHANGED <<buffer, pBufferCurrent, countBufferCurrent, isFull, lock, isThreadReady,
                      op, data, read, doFlush>>
  BY GotoMoves DEF Known, memoryVars, writeVars, FlushToFile, FlushWrite, FlushWriteFails,
                   FlushNoFile, RotateClose, RotateRename, RotateOpen, FlushRest, FlushCount, InFlush
<1>2. \A q \in Process \ {p} : pc'[q] \notin InFlush
  BY <1>1, ExclusionExcludes DEF FileExclusive, Known, Process
<1>3. LogOpen <=> pFile \/ pc[p] \in {"rename", "reopen"}
  BY <1>1, <1>2 DEF LogOpen, InFlush
<1>4. LogOpen' <=> pFile' \/ pc'[p] \in {"rename", "reopen"}
  BY <1>1, <1>2 DEF LogOpen, InFlush
<1>5. /\ job \in [Process -> JobType] /\ job[p] \in JobType /\ FileAt(pc[p], job[p])
      /\ DiskTyped /\ DiskOK
  BY <1>1, Functions DEF Known, Rotation, DiskOK, FlushOK
<1>6. /\ job[p].count \in 0 .. BufferMax /\ job[p].done \in 0 .. BufferMax
      /\ job[p].numToFile \in 0 .. BufferMax
  BY <1>5 DEF JobType
<1>7. DoneAt(p) /\ BufferMax \in Nat
  BY BufferAssumption DEF Control, Jobs
<1> SUFFICES /\ \A q \in Process \ {p} : job'[q] = job[q]
             /\ job'[p].buffer = job[p].buffer /\ job'[p].count = job[p].count
             /\ LogOpen' => LogOpen
             /\ DoneAt(p)'
  BY <1>1
<1>11. CASE FlushWrite(p)
  <2> DEFINE n == NumToFile(job[p].count)
  <2>1. /\ pc[p] = "write" /\ pc'[p] = IF n = spaceAvailable THEN "rotate" ELSE "count"
        /\ pFile /\ job' = [job EXCEPT ![p].numToFile = n, ![p].done = n]
    BY <1>11, GotoMoves DEF FlushWrite, Known
  <2>2. pc'[p] = "count" => n = job[p].count
    BY <2>1 DEF NumToFile
  <2>3. job'[p].done = n /\ job'[p].count = job[p].count /\ job'[p].buffer = job[p].buffer
        /\ \A q \in Process \ {p} : job'[q] = job[q]
    BY <1>5, <2>1 DEF JobType
  <2> HIDE DEF n
  <2>4. pc'[p] \in {"rotate", "count"}
    BY <2>1
  <2> QED BY <1>3, <2>1, <2>2, <2>3, <2>4 DEF DoneAt
<1>12. CASE FlushWriteFails(p)
  <2>1. pFile /\ ~pFile' /\ job' = job /\ pc[p] = "write" /\ pc'[p] = "flushed"
    BY <1>12, GotoMoves DEF FlushWriteFails, Known
  <2> QED BY <1>3, <1>4, <2>1 DEF DoneAt
<1>13. CASE FlushNoFile(p)
  <2>1. ~pFile /\ ~pFile' /\ job' = job /\ pc[p] = "write" /\ pc'[p] = "flushed"
    BY <1>13, GotoMoves DEF FlushNoFile, Known, diskVars
  <2> QED BY <1>3, <1>4, <2>1 DEF DoneAt
<1>14. CASE RotateClose(p)
  <2>1. ~pFile' /\ job' = job /\ pc[p] = "rotate" /\ pc'[p] \in {"rename", "flushed"}
    BY <1>14, GotoMoves DEF RotateClose, Known
  <2>2. pFile
    BY <1>5, <2>1 DEF FileAt
  <2> QED BY <1>3, <1>4, <2>1, <2>2 DEF DoneAt
<1>15. CASE RotateRename(p)
  <2>1. pFile' = pFile /\ job' = job /\ pc[p] = "rename" /\ pc'[p] \in {"reopen", "flushed"}
    BY <1>15, GotoMoves DEF RotateRename, Known
  <2>2. ~pFile
    BY <1>5, <2>1 DEF FileAt
  <2> QED BY <1>3, <1>4, <2>1, <2>2 DEF DoneAt
<1>16. CASE RotateOpen(p)
  <2>1. pc[p] = "reopen" /\ Filled(job[p]) /\ ~pFile /\ job[p].done <= job[p].count
    BY <1>5, <1>16, GotoMoves DEF RotateOpen, Known, FileAt, Filled
  <2>2. CASE /\ pc'[p] = (IF job[p].done < job[p].count THEN "rest" ELSE "count")
             /\ job' = [job EXCEPT ![p].isRotated = TRUE]
    <3>1. job'[p].done = job[p].done /\ job'[p].count = job[p].count /\ job'[p].buffer = job[p].buffer
          /\ \A q \in Process \ {p} : job'[q] = job[q]
      BY <1>5, <2>2 DEF JobType
    <3>2. pc'[p] \in {"rest", "count"} /\ (pc'[p] = "count" => job[p].done = job[p].count)
      BY <1>6, <1>7, <2>1, <2>2
    <3> QED BY <1>3, <2>1, <3>1, <3>2 DEF DoneAt
  <2>3. CASE pc'[p] = "flushed" /\ pFile' = pFile /\ job' = job
    BY <1>3, <1>4, <2>1, <2>3 DEF DoneAt
  <2> QED BY <1>16, <2>2, <2>3, GotoMoves DEF RotateOpen, Known
<1>17. CASE FlushRest(p)
  <2>1. pc[p] = "rest" /\ pFile
    BY <1>5, <1>17, GotoMoves DEF FlushRest, Known, FileAt
  <2>2. CASE pc'[p] = "count" /\ job' = [job EXCEPT ![p].done = job[p].count]
    <3>1. job'[p].done = job[p].count /\ job'[p].count = job[p].count /\ job'[p].buffer = job[p].buffer
          /\ \A q \in Process \ {p} : job'[q] = job[q]
      BY <1>5, <2>2 DEF JobType
    <3> QED BY <1>3, <2>1, <2>2, <3>1 DEF DoneAt
  <2>3. CASE pc'[p] = "flushed" /\ ~pFile' /\ job' = job
    BY <1>3, <1>4, <2>1, <2>3 DEF DoneAt
  <2> QED BY <1>17, <2>2, <2>3, GotoMoves DEF FlushRest, Known
<1>18. CASE FlushCount(p)
  <2>1. pFile' = pFile /\ job' = job /\ pc[p] = "count" /\ pc'[p] = "flushed"
    BY <1>18, GotoMoves DEF FlushCount, Known
  <2> QED BY <1>3, <1>4, <1>7, <2>1 DEF DoneAt
<1> QED BY <1>11, <1>12, <1>13, <1>14, <1>15, <1>16, <1>17, <1>18 DEF FlushToFile

\* The controller keeps it; what a flush keeps is FlushKeepsControl.
LEMMA ControllerControl ==
  ASSUME Known, Control, ControllerCall \/ ControllerStep, Pace
  PROVE  Control' \/ \E p \in Process : FlushToFile(p)
<1> USE DEF Control, Paced, LeftFull, Space, Jobs, DoneAt, AtEnd, FlusherAtRest, Handing, InSwitch, InClear,
            InFlush, LogOpen, Goto, Return, memoryVars, diskVars, writeVars, Process, Buffer, Other, NULL,
            ReadyIsTrue, FlusherOwns, ControllerOwns, Pace
<1>1. /\ pc = [p \in Process |-> pc[p]]
      /\ job \in [Process -> JobType]
      /\ isFull \in [Buffer -> BOOLEAN]
      /\ pBufferCurrent \in Buffer \cup {NULL}
      /\ countBufferCurrent \in 0 .. BufferMax
      /\ BufferMax \in Nat \ {0}
  BY Functions
<1>2. ReadyIsTrue /\ FlusherOwns /\ ControllerOwns
  BY DEF Known, Exclusion
<1>3. CASE Write
  BY <1>1, <1>2, <1>3 DEF Write
<1>4. CASE WriteCopy
  BY <1>1, <1>2, <1>4 DEF WriteCopy
<1>5. CASE WriteIncrement
  BY <1>1, <1>2, <1>5 DEF WriteIncrement
<1>6. CASE WriteReturn
  BY <1>1, <1>2, <1>6 DEF WriteReturn
<1>7. CASE WriteFlush
  BY <1>1, <1>2, <1>7 DEF WriteFlush
<1>8. CASE WriteFull
  BY <1>1, <1>2, <1>8 DEF WriteFull
<1>9. CASE WriteWhich
  BY <1>1, <1>2, <1>9 DEF WriteWhich
<1>10. CASE MarkFull
  BY <1>1, <1>2, <1>10 DEF MarkFull
<1>11. CASE WriteSwitch
  BY <1>1, <1>2, <1>11 DEF WriteSwitch
<1>12. CASE WriteStop
  BY <1>1, <1>2, <1>12 DEF WriteStop
<1>13. CASE Flush
  BY <1>1, <1>2, <1>13 DEF Flush
<1>14. CASE Open
  BY <1>1, <1>2, <1>14 DEF Open
<1>15. CASE StillFlushing
  BY <1>1, <1>2, <1>15 DEF StillFlushing
<1>16. CASE IsFlushing
  BY <1>1, <1>2, <1>16 DEF IsFlushing, Known, Rotation, MemoryOK, WriteOK
<1>17. CASE FlushArgs
  <2>1. job' = [job EXCEPT !["controller"] = FlushCall(pBufferCurrent, countBufferCurrent)]
    BY <1>17 DEF FlushArgs
  <2>2. /\ job'["controller"].buffer = pBufferCurrent
        /\ job'["controller"].count = countBufferCurrent
        /\ job'["controller"].done = 0
        /\ job'["flusher"] = job["flusher"]
    BY <1>1, <2>1 DEF FlushCall
  <2> QED BY <1>1, <1>2, <1>17, <2>2 DEF FlushArgs, ControllerOwns
<1>18. CASE FlushReturn
  <2>1. job' = [job EXCEPT !["controller"] = NoJob]
    BY <1>18 DEF FlushReturn
  <2>2. job'["controller"].buffer = NULL /\ job'["flusher"] = job["flusher"]
    BY <1>1, <2>1 DEF FlushCall, NoJob
  <2> QED BY <1>1, <1>2, <1>18, <2>2 DEF FlushReturn, ControllerOwns
<1>19. CASE OpenFile
  <2>1. \A b \in Buffer : ~isFull[b]
    BY <1>19, OneWorks DEF OpenFile
  <2>2. pc["flusher"] \notin InClear
    BY <2>1, OneWorks
  <2> QED BY <1>1, <1>2, <1>19, <2>1, <2>2 DEF OpenFile
<1>20. CASE OpenFails
  BY <1>1, <1>2, <1>20 DEF OpenFails
<1>21. CASE ResetFull
  BY <1>1, <1>2, <1>21 DEF ResetFull
<1>22. CASE Close
  BY <1>1, <1>2, <1>22 DEF Close
<1>23. CASE RunFlushInNewThread
  BY <1>1, <1>2, <1>23 DEF RunFlushInNewThread
<1>24. CASE SetReady
  BY <1>1, <1>2, <1>24 DEF SetReady
<1>25. CASE CloseThread
  BY <1>1, <1>2, <1>25 DEF CloseThread
<1>26. CASE Join
  BY <1>1, <1>2, <1>26 DEF Join
<1>27. CASE Lock("controller", "lockMark", "mark")
  BY <1>1, <1>2, <1>27 DEF Lock
<1>28. CASE Lock("controller", "tryLock", "isFlushing")
  BY <1>1, <1>2, <1>28 DEF Lock
<1>29. CASE Lock("controller", "lockReset", "reset")
  BY <1>1, <1>2, <1>29 DEF Lock
<1> QED BY <1>3, <1>4, <1>5, <1>6, <1>7, <1>8, <1>9, <1>10, <1>11, <1>12,
          <1>13, <1>14, <1>15, <1>16, <1>17, <1>18, <1>19, <1>20, <1>21,
          <1>22, <1>23, <1>24, <1>25, <1>26, <1>27, <1>28, <1>29
       DEF ControllerCall, ControllerStep

\* So does the flusher.
LEMMA FlusherControl ==
  ASSUME Known, Control, FlusherStep, Pace
  PROVE  Control' \/ \E p \in Process : FlushToFile(p)
<1> USE DEF Control, Paced, LeftFull, Space, Jobs, DoneAt, AtEnd, FlusherAtRest, Handing, InSwitch, InClear,
            InFlush, LogOpen, Goto, Return, memoryVars, diskVars, writeVars, Process, Buffer, Other, NULL,
            ReadyIsTrue, FlusherOwns, ControllerOwns, Pace
<1>1. /\ pc = [p \in Process |-> pc[p]]
      /\ job \in [Process -> JobType]
      /\ isFull \in [Buffer -> BOOLEAN]
      /\ pBufferCurrent \in Buffer \cup {NULL}
      /\ countBufferCurrent \in 0 .. BufferMax
      /\ BufferMax \in Nat \ {0}
  BY Functions
<1>2. ReadyIsTrue /\ FlusherOwns /\ ControllerOwns
  BY DEF Known, Exclusion
<1>3. CASE Start
  BY <1>1, <1>2, <1>3 DEF Start
<1>4. CASE End
  BY <1>1, <1>2, <1>4 DEF End
<1>5. CASE TryLock
  BY <1>1, <1>2, <1>5 DEF TryLock, Lock
<1>6. CASE Snapshot
  <2> HIDE DEF ReadyIsTrue, FlusherOwns, ControllerOwns, Pace
  <2> DEFINE j == IF FullBuffers = {} THEN NoJob ELSE NextJob(FullBuffers)
  <2>1. pc["flusher"] = "snapshot" /\ job' = [job EXCEPT !["flusher"] = j]
    BY <1>6 DEF Snapshot
  <2>2. CASE FullBuffers = {}
    <3>1. job'["flusher"].buffer = NULL /\ job'["controller"] = job["controller"]
      BY <1>1, <2>1, <2>2 DEF FlushCall, NoJob
    <3> QED BY <1>1, <1>6, <2>2, <3>1 DEF Snapshot
  <2>3. CASE FullBuffers # {}
    <3>1. PICK b \in Buffer : FullBuffers = {b}
      BY <1>1, <2>3 DEF FullBuffers
    <3>2. /\ job'["flusher"].buffer = b /\ job'["flusher"].count = BufferMax
          /\ job'["flusher"].done = 0 /\ job'["controller"] = job["controller"]
      <4>1. NextJob({b}) = FlushCall(b, BufferMax)
        BY DEF NextJob
      <4> QED BY <1>1, <2>1, <2>3, <3>1, <4>1 DEF FlushCall
    <3>3. isFull[b]
      BY <3>1 DEF FullBuffers
    <3>4. doFlush' = {b} /\ pc' = [pc EXCEPT !["flusher"] = "write"]
      BY <1>6, <2>3, <3>1 DEF Snapshot
    <3> HIDE DEF j
    <3>5. UNCHANGED <<buffer, pBufferCurrent, countBufferCurrent, isFull, isThreadReady, pFile, read>>
      BY <1>6 DEF Snapshot
    <3>6. pc'["controller"] = pc["controller"] /\ pc'["flusher"] = "write"
      BY <1>1, <3>4
    <3>7. Paced'
      BY <2>1, <3>3, <3>5, <3>6
    <3>8. LeftFull'
      BY <3>5, <3>6
    <3>9. Space'
      BY <1>1, <2>1, <3>3, <3>5, <3>6
    <3>10. Jobs'
      BY <2>1, <3>2, <3>4, <3>5, <3>6
    <3> QED BY <3>7, <3>8, <3>9, <3>10
  <2> QED BY <2>2, <2>3
<1>7. CASE Flushed
  BY <1>1, <1>2, <1>7 DEF Flushed
<1>8. CASE ClearFull
  <2> HIDE DEF ReadyIsTrue, FlusherOwns, ControllerOwns, Pace
  <2>1. doFlush = {job["flusher"].buffer} /\ pc["flusher"] = "clear"
    BY <1>8 DEF ClearFull
  <2>2. job' = [job EXCEPT !["flusher"] = NoJob] /\ pc' = [pc EXCEPT !["flusher"] = "reassign"]
    BY <1>8, <2>1 DEF ClearFull
  <2>3. job'["flusher"].buffer = NULL /\ job'["controller"] = job["controller"]
    BY <1>1, <2>2 DEF FlushCall, NoJob
  <2>4. /\ \A b \in Buffer : isFull'[b] => isFull[b]
        /\ UNCHANGED <<buffer, pBufferCurrent, countBufferCurrent, isThreadReady, pFile, data, read>>
    BY <1>1, <1>8 DEF ClearFull
  <2> QED BY <1>1, <1>2, <2>1, <2>2, <2>3, <2>4
<1>9. CASE Reassign
  BY <1>1, <1>2, <1>9 DEF Reassign
<1>10. CASE Assign
  BY <1>1, <1>2, <1>10 DEF Assign
<1>11. CASE ZeroCount
  BY <1>1, <1>2, <1>11 DEF ZeroCount
<1>12. CASE Lock("flusher", "lockClear", "clear")
  BY <1>1, <1>2, <1>12 DEF Lock
<1> QED BY <1>3, <1>4, <1>5, <1>6, <1>7, <1>8, <1>9, <1>10, <1>11, <1>12 DEF FlusherStep

-----------------------------------------------------------------------------
(* The files.                                                              *)

\* Dividing by the size of a file, for the record k of the log.
LEMMA FileOfRecord ==
  ASSUME NEW k \in Nat, NEW n \in Nat
  PROVE  /\ n * FileMax \in Nat /\ (n + 1) * FileMax = n * FileMax + FileMax
         /\ k < n * FileMax => k \div FileMax \in 0 .. n - 1 /\ k % FileMax \in 0 .. FileMax - 1
         /\ n * FileMax <= k /\ k < n * FileMax + FileMax =>
              k \div FileMax = n /\ k % FileMax = k - n * FileMax
<1>1. FileMax \in Nat \ {0}
  BY FileAssumption, BufferAssumption
<1>2. n * FileMax \in Nat /\ (n + 1) * FileMax = n * FileMax + FileMax
  BY <1>1, SMTT(60)
<1>3. k \div FileMax \in Nat /\ k % FileMax \in 0 .. FileMax - 1
  <2>1. k \div FileMax \in Nat
    BY <1>1, SMTT(60)
  <2>2. k % FileMax \in 0 .. FileMax - 1
    BY <1>1, SMTT(60)
  <2> QED BY <2>1, <2>2
<1>4. ASSUME k < n * FileMax PROVE k \div FileMax < n
  BY <1>1, <1>4, SMTT(60)
<1>5. ASSUME n * FileMax <= k, k < n * FileMax + FileMax
      PROVE  k \div FileMax = n /\ k % FileMax = k - n * FileMax
  <2> DEFINE j == k - n * FileMax
  <2>1. j \in 0 .. FileMax - 1 /\ k = n * FileMax + j
    BY <1>1, <1>2, <1>5
  <2> HIDE DEF j
  <2>2. k \div FileMax = n /\ k % FileMax = j
    BY <1>1, <2>1, SMTT(60)
  <2> QED BY <2>2 DEF j
<1> QED
  <2>1. k < n * FileMax => k \div FileMax \in 0 .. n - 1
    BY <1>3, <1>4
  <2> QED BY <1>2, <1>3, <1>5, <2>1

\* What is on the disk: the rotated files, then the open one.
DiskView ==
  LET old == Len(rotated) * FileMax
  IN  /\ OnDisk \in Seq(Record) /\ Len(OnDisk) = old + Len(file)
      /\ \A i \in 1 .. old : OnDisk[i] = rotated[(i - 1) \div FileMax + 1][((i - 1) % FileMax) + 1]
      /\ \A i \in 1 .. Len(file) : OnDisk[old + i] = file[i]

\* So it is when the rotated files are full.
LEMMA DiskIs == DiskTyped /\ RotatedFull => DiskView
<1> SUFFICES ASSUME DiskTyped, RotatedFull PROVE DiskView
  OBVIOUS
<1> DEFINE old == Len(rotated) * FileMax
           at(i) == IF i <= old THEN rotated[(i - 1) \div FileMax + 1][((i - 1) % FileMax) + 1]
                    ELSE file[i - old]
           n == old + Len(file)
<1>1. /\ file \in Seq(Record) /\ Len(file) \in Nat
      /\ rotated \in Seq(Seq(Record)) /\ Len(rotated) \in Nat
      /\ FileMax \in Nat \ {0}
  BY FileAssumption, BufferAssumption, LenProperties DEF DiskTyped
<1>2. old \in Nat
  BY <1>1, FileOfRecord
<1> HIDE DEF old
<1>3. n \in Nat
  BY <1>1, <1>2
<1>4. ASSUME NEW i \in 1 .. n PROVE at(i) \in Record
  <2>1. CASE i <= old
    <3> DEFINE k == i - 1
    <3>1. i \in Nat /\ 1 <= i
      BY <1>3
    <3>2. k \in Nat /\ k < old
      BY <1>2, <2>1, <3>1
    <3>3. k \div FileMax \in 0 .. Len(rotated) - 1 /\ k % FileMax \in 0 .. FileMax - 1
      BY <1>1, <3>2, FileOfRecord DEF old
    <3> HIDE DEF k
    <3>4. k \div FileMax + 1 \in 1 .. Len(rotated) /\ (k % FileMax) + 1 \in 1 .. FileMax
      BY <1>1, <3>3
    <3>5. /\ rotated[k \div FileMax + 1] \in Seq(Record)
          /\ Len(rotated[k \div FileMax + 1]) = FileMax
      BY <1>1, <3>4, ElementOfSeq DEF RotatedFull
    <3>6. rotated[k \div FileMax + 1][(k % FileMax) + 1] \in Record
      BY <3>4, <3>5, ElementOfSeq
    <3> QED BY <2>1, <3>6 DEF k
  <2>2. CASE ~(i <= old)
    <3>1. i - old \in 1 .. Len(file)
      BY <1>1, <1>2, <2>2
    <3> QED BY <1>1, <2>2, <3>1, ElementOfSeq
  <2> QED BY <2>1, <2>2
<1>5. OnDisk = [i \in 1 .. n |-> at(i)]
  BY DEF OnDisk, old
<1> HIDE DEF n
<1>6. OnDisk \in [1 .. n -> Record]
  BY <1>4, <1>5
<1>7. OnDisk \in Seq(Record) /\ Len(OnDisk) = n
  <2>1. OnDisk \in Seq(Record)
    BY <1>3, <1>6, SeqDef
  <2> QED BY <1>3, <1>6, <2>1, LenProperties
<1>8. /\ \A i \in 1 .. old : OnDisk[i] = at(i)
      /\ \A i \in 1 .. Len(file) : OnDisk[old + i] = at(old + i)
  BY <1>1, <1>2, <1>3, <1>5 DEF n
<1>9. ASSUME NEW i \in 1 .. Len(file) PROVE at(old + i) = file[i]
  BY <1>1, <1>2
<1> QED
  <2>1. \A i \in 1 .. old : at(i) = rotated[(i - 1) \div FileMax + 1][((i - 1) % FileMax) + 1]
    BY <1>2
  <2> QED BY <1>7, <1>8, <1>9, <2>1 DEF DiskView, n, old

\* What is appended to the file is appended to the log.
LEMMA DiskAppend ==
  ASSUME DiskTyped, RotatedFull, DiskTyped', RotatedFull', DiskView',
         NEW s \in Seq(Record), file' = file \o s, rotated' = rotated
  PROVE  OnDisk' = OnDisk \o s
<1> DEFINE old == Len(rotated) * FileMax
<1>1. DiskView
  BY DiskIs
<1>2. /\ file \in Seq(Record) /\ Len(file) \in Nat /\ Len(s) \in Nat
      /\ Len(rotated) \in Nat /\ old \in Nat
  BY FileOfRecord, LenProperties DEF DiskTyped
<1>3. /\ Len(file') = Len(file) + Len(s)
      /\ \A i \in 1 .. Len(file) + Len(s) : file'[i] = IF i <= Len(file) THEN file[i] ELSE s[i - Len(file)]
  BY <1>2, ConcatProperties
<1>4. /\ OnDisk' \in Seq(Record) /\ Len(OnDisk') = old + Len(file')
      /\ \A i \in 1 .. old : OnDisk'[i] = rotated[(i - 1) \div FileMax + 1][((i - 1) % FileMax) + 1]
      /\ \A i \in 1 .. Len(file') : OnDisk'[old + i] = file'[i]
  BY DEF DiskView
<1>5. /\ OnDisk \in Seq(Record) /\ Len(OnDisk) = old + Len(file)
      /\ \A i \in 1 .. old : OnDisk[i] = rotated[(i - 1) \div FileMax + 1][((i - 1) % FileMax) + 1]
      /\ \A i \in 1 .. Len(file) : OnDisk[old + i] = file[i]
  BY <1>1 DEF DiskView
<1> HIDE DEF old
<1>6. /\ OnDisk \o s \in Seq(Record) /\ Len(OnDisk \o s) = Len(OnDisk) + Len(s)
      /\ \A i \in 1 .. Len(OnDisk) + Len(s) :
           (OnDisk \o s)[i] = IF i <= Len(OnDisk) THEN OnDisk[i] ELSE s[i - Len(OnDisk)]
  <2>1. OnDisk \in Seq(Record)
    BY <1>5
  <2> QED BY <2>1, ConcatProperties
<1>7. ASSUME NEW i \in 1 .. Len(OnDisk') PROVE OnDisk'[i] = (OnDisk \o s)[i]
  <2>1. i \in 1 .. Len(OnDisk) + Len(s)
    BY <1>2, <1>3, <1>4, <1>5
  <2>2. CASE i \in 1 .. old
    BY <1>2, <1>4, <1>5, <1>6, <2>1, <2>2
  <2>3. CASE i \notin 1 .. old
    <3> DEFINE j == i - old
    <3>1. j \in 1 .. Len(file') /\ i = old + j
      BY <1>2, <1>3, <1>4, <2>3
    <3> HIDE DEF j
    <3>2. OnDisk'[i] = IF j <= Len(file) THEN file[j] ELSE s[j - Len(file)]
      BY <1>3, <1>4, <3>1
    <3>3. j <= Len(file) => OnDisk[i] = file[j]
      BY <1>2, <1>5, <3>1
    <3>4. i <= Len(OnDisk) <=> j <= Len(file)
      BY <1>2, <1>5, <3>1
    <3>5. i - Len(OnDisk) = j - Len(file)
      BY <1>2, <1>5, <3>1
    <3> QED BY <1>6, <2>1, <3>2, <3>3, <3>4, <3>5
  <2> QED BY <2>2, <2>3
<1>8. Len(OnDisk') = Len(OnDisk \o s)
  BY <1>2, <1>3, <1>4, <1>5, <1>6
<1> QED BY <1>4, <1>6, <1>7, <1>8, SeqEqual

\* A rotation moves nothing.
LEMMA DiskRotate ==
  ASSUME DiskTyped, RotatedFull, DiskTyped', RotatedFull', DiskView',
         Len(file) = FileMax, rotated' = Append(rotated, file), file' = <<>>
  PROVE  OnDisk' = OnDisk
<1> DEFINE n == Len(rotated)
           old == n * FileMax
<1>1. DiskView
  BY DiskIs
<1>2. /\ file \in Seq(Record) /\ Len(file) \in Nat /\ FileMax \in Nat
      /\ rotated \in Seq(Seq(Record)) /\ n \in Nat /\ old \in Nat
  BY FileAssumption, FileOfRecord, LenProperties DEF DiskTyped
<1>3. /\ Len(rotated') = n + 1 /\ Len(file') = 0
      /\ \A i \in 1 .. n : rotated'[i] = rotated[i]
      /\ rotated'[n + 1] = file
  BY <1>2, AppendProperties
<1>4. Len(rotated') * FileMax = old + FileMax
  BY <1>2, <1>3, FileOfRecord
<1> DEFINE r == Len(rotated') * FileMax
<1>5. /\ OnDisk' \in Seq(Record) /\ Len(OnDisk') = r + Len(file')
      /\ \A i \in 1 .. r : OnDisk'[i] = rotated'[(i - 1) \div FileMax + 1][((i - 1) % FileMax) + 1]
  BY DEF DiskView
<1>6. r = old + FileMax
  BY <1>4
<1> HIDE DEF old, r
<1>7. /\ OnDisk' \in Seq(Record) /\ Len(OnDisk') = old + FileMax
      /\ \A i \in 1 .. old + FileMax :
           OnDisk'[i] = rotated'[(i - 1) \div FileMax + 1][((i - 1) % FileMax) + 1]
  <2>1. r + Len(file') = r
    BY <1>2, <1>3, <1>6
  <2> QED BY <1>5, <1>6, <2>1, Zenon
<1>8. /\ OnDisk \in Seq(Record) /\ Len(OnDisk) = old + FileMax
      /\ \A i \in 1 .. old : OnDisk[i] = rotated[(i - 1) \div FileMax + 1][((i - 1) % FileMax) + 1]
      /\ \A i \in 1 .. FileMax : OnDisk[old + i] = file[i]
  <2>1. /\ OnDisk \in Seq(Record) /\ Len(OnDisk) = old + Len(file)
        /\ \A i \in 1 .. old : OnDisk[i] = rotated[(i - 1) \div FileMax + 1][((i - 1) % FileMax) + 1]
        /\ \A i \in 1 .. Len(file) : OnDisk[old + i] = file[i]
    BY <1>1 DEF DiskView, old
  <2> QED BY <2>1
<1>9. ASSUME NEW i \in 1 .. Len(OnDisk') PROVE OnDisk'[i] = OnDisk[i]
  <2> DEFINE k == i - 1
  <2>1. k \in Nat /\ i = k + 1 /\ i \in 1 .. old + FileMax
    BY <1>2, <1>7
  <2>2. CASE i <= old
    <3>1. k < old
      BY <1>2, <2>1, <2>2
    <3>2. k \div FileMax \in 0 .. n - 1
      BY <1>2, <2>1, <3>1, FileOfRecord DEF old
    <3> HIDE DEF k
    <3>3. k \div FileMax + 1 \in 1 .. n
      BY <1>2, <3>2
    <3>4. i - 1 = k /\ i \in 1 .. old
      BY <1>2, <2>1, <2>2
    <3>5. OnDisk'[i] = rotated'[k \div FileMax + 1][(k % FileMax) + 1]
      BY <1>7, <2>1, <3>4
    <3>6. OnDisk[i] = rotated[k \div FileMax + 1][(k % FileMax) + 1]
      BY <1>8, <3>4
    <3> QED BY <1>3, <3>3, <3>5, <3>6
  <2>3. CASE ~(i <= old)
    <3>1. old <= k /\ k < old + FileMax
      BY <1>2, <2>1, <2>3
    <3>2. k \div FileMax = n /\ k % FileMax = k - old
      BY <1>2, <2>1, <3>1, FileOfRecord DEF old
    <3> HIDE DEF k
    <3>3. i - 1 = k /\ k - old + 1 = i - old /\ i - old \in 1 .. FileMax /\ old + (i - old) = i
      BY <1>2, <2>1, <2>3
    <3>4. OnDisk'[i] = rotated'[k \div FileMax + 1][(k % FileMax) + 1]
      BY <1>7, <2>1, <3>3
    <3>5. OnDisk'[i] = file[i - old]
      BY <1>3, <3>2, <3>3, <3>4
    <3>6. OnDisk[i] = file[i - old]
      BY <1>8, <3>3
    <3> QED BY <3>5, <3>6
  <2> QED BY <2>2, <2>3
<1> QED BY <1>7, <1>8, <1>9, SeqEqual

-----------------------------------------------------------------------------
(* The buffers.                                                            *)

\* The records of a sequence from w + 1 to m.
LEMMA PartIs ==
  ASSUME NEW s \in Seq(Record), NEW w \in Nat, NEW m \in Nat, w <= m, m <= Len(s)
  PROVE  /\ SubSeq(s, w + 1, m) \in Seq(Record)
         /\ Len(SubSeq(s, w + 1, m)) = m - w
         /\ \A i \in 1 .. m - w : SubSeq(s, w + 1, m)[i] = s[w + i]
<1> DEFINE from == w + 1
           a == SubSeq(s, from, m)
<1>1. Len(s) \in Nat
  BY LenProperties
<1>2. from \in Int /\ from = w + 1
  OBVIOUS
<1> HIDE DEF from
<1>3. \A i \in from .. m : s[i] \in Record
  BY <1>1, <1>2, ElementOfSeq
<1>4. /\ a \in Seq(Record) /\ Len(a) = IF from <= m THEN m - from + 1 ELSE 0
      /\ \A i \in 1 .. m - from + 1 : a[i] = s[from + i - 1]
  BY <1>2, <1>3, SubSeqProperties
<1> HIDE DEF a
<1>5. Len(a) = m - w /\ m - from + 1 = m - w
  BY <1>2, <1>4
<1>6. ASSUME NEW i \in 1 .. m - w PROVE a[i] = s[w + i]
  <2>1. from + i - 1 = w + i
    BY <1>2
  <2> QED BY <1>4, <1>5, <2>1
<1> QED BY <1>4, <1>5, <1>6 DEF a, from

\* What is left of the records of s up to m after w of them, then t.
IsLeft(all, s, w, m, t) == all = SubSeq(s, w + 1, m) \o t

\* A part of a sequence whose first n records are taken away.
LEMMA TakePart ==
  ASSUME NEW s \in Seq(Record), NEW t \in Seq(Record), NEW m \in Nat, NEW w \in Nat, NEW n \in Nat,
         w + n <= m, m <= Len(s),
         NEW all \in Seq(Record), IsLeft(all, s, w, m, t)
  PROVE  /\ n \in 0 .. Len(all)
         /\ SubSeq(all, 1, n) = SubSeq(s, w + 1, w + n)
         /\ IsLeft(SubSeq(all, n + 1, Len(all)), s, w + n, m, t)
<1> DEFINE a == SubSeq(s, w + 1, m)
           c == w + n
           rest == SubSeq(s, c + 1, m)
           left == m - c
<1>1. /\ Len(s) \in Nat /\ Len(t) \in Nat
      /\ c \in Nat /\ left \in Nat /\ w <= m /\ w <= c /\ c <= m /\ c <= Len(s)
      /\ m - w = n + left /\ m - c = left /\ c - w = n
  <2>1. Len(s) \in Nat /\ Len(t) \in Nat
    BY LenProperties
  <2> QED BY <2>1
<1>2. a \in Seq(Record) /\ Len(a) = n + left /\ \A i \in 1 .. n + left : a[i] = s[w + i]
  BY <1>1, PartIs
<1> HIDE DEF c, left
<1>3. rest \in Seq(Record) /\ Len(rest) = left /\ \A i \in 1 .. left : rest[i] = s[c + i]
  <2>1. c \in Nat /\ c <= m /\ m - c = left
    BY <1>1
  <2>2. /\ rest \in Seq(Record) /\ Len(rest) = m - c
        /\ \A i \in 1 .. m - c : rest[i] = s[c + i]
    BY <2>1, PartIs
  <2> HIDE DEF rest
  <2> QED BY <2>1, <2>2
<1>4. all = a \o t
  BY DEF IsLeft, a
<1> HIDE DEF a, rest
<1>5. /\ all \in Seq(Record) /\ Len(all) = Len(a) + Len(t)
      /\ \A i \in 1 .. Len(a) + Len(t) : all[i] = IF i <= Len(a) THEN a[i] ELSE t[i - Len(a)]
  <2>1. a \in Seq(Record) /\ t \in Seq(Record)
    BY <1>2
  <2>2. /\ a \o t \in Seq(Record) /\ Len(a \o t) = Len(a) + Len(t)
        /\ \A i \in 1 .. Len(a) + Len(t) : (a \o t)[i] = IF i <= Len(a) THEN a[i] ELSE t[i - Len(a)]
    BY <2>1, ConcatProperties
  <2> QED BY <1>4, <2>2, Zenon
<1>6. /\ rest \o t \in Seq(Record) /\ Len(rest \o t) = Len(rest) + Len(t)
      /\ \A i \in 1 .. Len(rest) + Len(t) :
           (rest \o t)[i] = IF i <= Len(rest) THEN rest[i] ELSE t[i - Len(rest)]
  BY <1>3, ConcatProperties
<1>7. Len(all) \in Nat /\ n <= Len(all) /\ Len(all) - n = left + Len(t)
  BY <1>1, <1>2, <1>5
<1>8. SubSeq(all, 1, n) = SubSeq(s, w + 1, w + n)
  <2> DEFINE x == SubSeq(all, 0 + 1, n)
             y == SubSeq(s, w + 1, c)
  <2>1. x \in Seq(Record) /\ Len(x) = n - 0 /\ \A i \in 1 .. n - 0 : x[i] = all[0 + i]
    BY <1>5, <1>7, PartIs
  <2>2. y \in Seq(Record) /\ Len(y) = n /\ \A i \in 1 .. n : y[i] = s[w + i]
    BY <1>1, PartIs
  <2> HIDE DEF x, y
  <2>3. Len(x) = n
    BY <2>1
  <2>4. ASSUME NEW i \in 1 .. n PROVE x[i] = y[i]
    <3>1. x[i] = all[i] /\ y[i] = s[w + i]
      BY <2>1, <2>2
    <3>2. all[i] = s[w + i]
      BY <1>1, <1>2, <1>5
    <3> QED BY <3>1, <3>2
  <2>5. x = y
    BY <2>1, <2>2, <2>3, <2>4, SeqEqual
  <2> QED BY <2>5 DEF x, y, c
<1>9. SubSeq(all, n + 1, Len(all)) = rest \o t
  <2> DEFINE x == SubSeq(all, n + 1, Len(all))
             y == rest \o t
  <2>1. /\ x \in Seq(Record) /\ Len(x) = left + Len(t)
        /\ \A i \in 1 .. left + Len(t) : x[i] = all[n + i]
    <3>1. /\ all \in Seq(Record) /\ Len(all) \in Nat
          /\ n <= Len(all) /\ Len(all) <= Len(all)
      BY <1>5, <1>7
    <3>2. /\ x \in Seq(Record) /\ Len(x) = Len(all) - n
          /\ \A i \in 1 .. Len(all) - n : x[i] = all[n + i]
      BY <3>1, PartIs
    <3> HIDE DEF x
    <3> QED BY <1>7, <3>2
  <2>2. y \in Seq(Record) /\ Len(y) = left + Len(t)
    BY <1>3, <1>6
  <2>3. ASSUME NEW i \in 1 .. left + Len(t) PROVE x[i] = y[i]
    <3>1. x[i] = all[n + i]
      BY <2>1
    <3>2. CASE i <= left
      <4>1. /\ n + i \in 1 .. n + left /\ n + i \in 1 .. Len(a) + Len(t)
            /\ n + i <= Len(a)
        <5>1. Len(a) = n + left
          BY <1>2
        <5>2. i \in Nat /\ 1 <= i
          BY <1>1
        <5> HIDE DEF a
        <5> QED BY <1>1, <3>2, <5>1, <5>2
      <4>2. w + (n + i) = c + i
        BY DEF c
      <4>3. y[i] = s[c + i]
        BY <1>1, <1>3, <1>6, <3>2
      <4>4. all[n + i] = a[n + i]
        BY <1>5, <4>1
      <4> QED BY <1>2, <3>1, <4>1, <4>2, <4>3, <4>4
    <3>3. CASE ~(i <= left)
      <4>1. all[n + i] = t[n + i - (n + left)]
        BY <1>1, <1>2, <1>5, <3>3
      <4>2. n + i - (n + left) = i - left
        BY <1>1
      <4>3. y[i] = t[i - left]
        BY <1>1, <1>3, <1>6, <3>3
      <4> QED BY <3>1, <4>1, <4>2, <4>3
    <3> QED BY <3>2, <3>3
  <2> HIDE DEF x, y
  <2> QED
    <3>1. x = y
      BY <2>1, <2>2, <2>3, SeqEqual
    <3> QED BY <3>1 DEF x, y
<1>10. n \in 0 .. Len(all)
  BY <1>7
<1> QED BY <1>5, <1>8, <1>9, <1>10 DEF IsLeft, rest, c

\* How much of a buffer the calls under way have written.
WrittenView ==
  \A b \in Buffer :
    /\ \A p \in Process : job[p].buffer = b => Written(b) = job[p].done
    /\ (\A p \in Process : job[p].buffer # b) => Written(b) = 0
    /\ Written(b) \in 0 .. BufferMax

\* No two calls write the same buffer.
LEMMA WrittenIs == Known /\ Control => WrittenView
<1> SUFFICES ASSUME Known, Control, NEW b \in Buffer
             PROVE  /\ \A p \in Process : job[p].buffer = b => Written(b) = job[p].done
                    /\ (\A p \in Process : job[p].buffer # b) => Written(b) = 0
                    /\ Written(b) \in 0 .. BufferMax
  BY DEF WrittenView
<1>1. b # NULL
  BY DEF Buffer, NULL
<1>2. ~(job["controller"].buffer = b /\ job["flusher"].buffer = b)
  <2>1. job["controller"].buffer = b => pc["controller"] \in InFlush
    BY <1>1 DEF Control, Jobs
  <2>2. job["flusher"].buffer = b => pc["flusher"] \in InClear
    BY <1>1 DEF Control, Jobs
  <2> QED BY <2>1, <2>2, OneWorks
<1>3. \A p \in Process : job[p].done \in 0 .. BufferMax
  BY Functions DEF JobType
<1>4. ASSUME NEW p \in Process, job[p].buffer = b PROVE Written(b) = job[p].done
  <2>1. \A q \in Process : job[q].buffer = b => q = p
    BY <1>2, <1>4 DEF Process
  <2>2. p = CHOOSE q \in Process : job[q].buffer = b
    BY <1>4, <2>1
  <2> QED BY <1>4, <2>2 DEF Written
<1>5. ASSUME \A p \in Process : job[p].buffer # b PROVE Written(b) = 0
  BY <1>5 DEF Written
<1>6. 0 \in 0 .. BufferMax
  BY BufferAssumption
<1> QED BY <1>3, <1>4, <1>5, <1>6

\* What is in memory: the full buffer, if there is one, then the current one.
MemoryView ==
  /\ \A b \in Buffer : buffer[b] \in Seq(Record) /\ Len(buffer[b]) = BufferMax
  /\ InCurrent \in Seq(Record) /\ InMemory \in Seq(Record)
  /\ ~LogOpen => InMemory = <<>>
  /\ LogOpen /\ (\A b \in Buffer : ~isFull[b]) => InMemory = InCurrent
  /\ \A b \in Buffer : LogOpen /\ isFull[b] =>
       InMemory = SubSeq(buffer[b], Written(b) + 1, BufferMax) \o InCurrent
  /\ pc["controller"] = "switch" => InCurrent = <<>>
  /\ pBufferCurrent \in Buffer /\ pc["controller"] # "switch" =>
       /\ ~isFull[pBufferCurrent]
       /\ InCurrent = SubSeq(buffer[pBufferCurrent], Written(pBufferCurrent) + 1, countBufferCurrent)

\* At most one buffer is full, and it is not the current one.
LEMMA MemoryIs == Known /\ Control => MemoryView
<1> SUFFICES ASSUME Known, Control PROVE MemoryView
  OBVIOUS
<1>1. /\ WrittenView /\ BufferMax \in Nat /\ countBufferCurrent \in 0 .. BufferMax
      /\ pBufferCurrent \in Buffer \cup {NULL} /\ isFull \in [Buffer -> BOOLEAN]
  BY WrittenIs, Functions
<1>2. ASSUME NEW b \in Buffer PROVE buffer[b] \in Seq(Record) /\ Len(buffer[b]) = BufferMax
  <2>1. buffer[b] \in [1 .. BufferMax -> Record]
    BY DEF Known, Rotation, MemoryOK, MemoryTyped
  <2>2. buffer[b] \in Seq(Record)
    BY <1>1, <2>1, SeqDef
  <2> QED BY <1>1, <2>1, <2>2, LenProperties
<1>3. ASSUME NEW b \in Buffer, NEW n \in 0 .. BufferMax
      PROVE  SubSeq(buffer[b], Written(b) + 1, n) \in Seq(Record)
  <2>1. Written(b) + 1 \in Int /\ n \in Int /\ \A i \in Written(b) + 1 .. n : buffer[b][i] \in Record
    <3>1. Written(b) \in 0 .. BufferMax
      BY <1>1 DEF WrittenView
    <3>2. \A i \in Written(b) + 1 .. n : i \in 1 .. Len(buffer[b])
      BY <1>1, <1>2, <3>1
    <3> QED BY <1>1, <1>2, <3>1, <3>2, ElementOfSeq
  <2> QED BY <2>1, SubSeqProperties
<1>4. \A b \in Buffer : InFull(b) \in Seq(Record)
  <2>1. BufferMax \in 0 .. BufferMax
    BY <1>1
  <2> QED BY <1>3, <2>1, EmptySeq DEF InFull
<1>5. pBufferCurrent \in Buffer /\ pc["controller"] # "switch" => ~isFull[pBufferCurrent]
  BY DEF Control, LeftFull, Other, Buffer
<1>6. pBufferCurrent \in Buffer /\ pc["controller"] # "switch" =>
        InCurrent = SubSeq(buffer[pBufferCurrent], Written(pBufferCurrent) + 1, countBufferCurrent)
  <2>1. pBufferCurrent \in Buffer => pBufferCurrent # NULL
    BY DEF Buffer, NULL
  <2> QED BY <1>5, <2>1, Zenon DEF InCurrent
<1>7. InCurrent \in Seq(Record)
  BY <1>1, <1>3, <1>6, EmptySeq DEF InCurrent
<1>8. \A b, c \in Buffer : isFull[b] /\ isFull[c] => b = c
  BY DEF Control, LeftFull
<1>9. \A b \in Buffer : ~isFull[b] => InFull(b) = <<>>
  BY DEF InFull
<1>10. 1 \in Buffer /\ 2 \in Buffer /\ \A b \in Buffer : b = 1 \/ b = 2
  BY DEF Buffer
<1>11. LogOpen => InMemory = InFull(1) \o InFull(2) \o InCurrent
  BY DEF InMemory
<1>12. ASSUME NEW s \in Seq(Record) PROVE s \o <<>> = s /\ <<>> \o s = s
  BY ConcatEmptySeq
<1>13. LogOpen /\ (\A b \in Buffer : ~isFull[b]) => InMemory = InCurrent
  <2>1. <<>> \in Seq(Record)
    BY EmptySeq
  <2> QED BY <1>7, <1>9, <1>10, <1>11, <1>12, <2>1
<1>14. ASSUME NEW b \in Buffer, LogOpen, isFull[b] PROVE InMemory = InFull(b) \o InCurrent
  <2>1. CASE b = 1
    <3>1. InFull(2) = <<>>
      BY <1>8, <1>9, <1>10, <1>14, <2>1
    <3>2. InFull(1) \o <<>> = InFull(1)
      BY <1>4, <1>10, <1>12
    <3> QED BY <1>11, <1>14, <2>1, <3>1, <3>2
  <2>2. CASE b = 2
    <3>1. InFull(1) = <<>>
      BY <1>8, <1>9, <1>10, <1>14, <2>2
    <3>2. <<>> \o InFull(2) = InFull(2)
      BY <1>4, <1>10, <1>12
    <3> QED BY <1>11, <1>14, <2>2, <3>1, <3>2
  <2> QED BY <1>10, <2>1, <2>2
<1>15. InMemory \in Seq(Record)
  <2>1. ~LogOpen => InMemory = <<>> /\ <<>> \in Seq(Record)
    BY EmptySeq DEF InMemory
  <2>2. \A b \in Buffer : InFull(b) \o InCurrent \in Seq(Record)
    BY <1>4, <1>7, ConcatProperties
  <2> QED BY <1>7, <1>13, <1>14, <2>1, <2>2
<1>16. \A b \in Buffer : isFull[b] => InFull(b) = SubSeq(buffer[b], Written(b) + 1, BufferMax)
  BY DEF InFull
<1>17. pc["controller"] = "switch" => InCurrent = <<>>
  BY DEF InCurrent
<1>18. ~LogOpen => InMemory = <<>>
  BY DEF InMemory
<1> QED BY <1>2, <1>5, <1>6, <1>7, <1>13, <1>14, <1>15, <1>16, <1>17, <1>18 DEF MemoryView

-----------------------------------------------------------------------------
(* What a step does not change.                                            *)

\* The log as it is seen, before and after a step.
Views == WrittenView /\ MemoryView /\ DiskView

\* What the invariants say of it.
LEMMA ViewsHold == Known /\ Control => Views
BY WrittenIs, MemoryIs, DiskIs DEF Views, Known, Rotation, DiskOK

\* The same after a step.
LEMMA ViewsHoldNext == (Known /\ Control)' => Views'
BY ViewsHold, PTL

\* What the log is seen by.
LEMMA Unseen ==
  ASSUME UNCHANGED <<buffer, pBufferCurrent, countBufferCurrent, isFull, job, pFile, file, rotated>>,
         \A p \in Process : \/ pc'[p] = pc[p]
                            \/ {pc[p], pc'[p]} \cap {"rename", "reopen", "switch"} = {}
  PROVE  UNCHANGED Log!vars
<1>1. \A b \in Buffer : Written(b)' = Written(b)
  BY DEF Written
<1>2. LogOpen' = LogOpen
  BY DEF LogOpen
<1>3. pc'["controller"] = "switch" <=> pc["controller"] = "switch"
  BY DEF Process
<1>4. OnDisk' = OnDisk
  BY DEF OnDisk
<1>5. InMemory' = InMemory
  BY <1>2, <1>3 DEF InMemory, InFull, InCurrent, Written
<1> QED BY <1>2, <1>4, <1>5 DEF Log!vars

\* What a flush has still to write, and what is behind it.
Behind(p) == IF p = "flusher" THEN InCurrent ELSE <<>>
FlushView ==
  \A p \in Process : pc[p] \in InFlush =>
    /\ job[p].buffer \in Buffer /\ job[p].count \in 0 .. BufferMax
    /\ Behind(p) \in Seq(Record)
    /\ LogOpen => InMemory =
         SubSeq(buffer[job[p].buffer], job[p].done + 1, job[p].count) \o Behind(p)

\* A flush is of the oldest records in memory.
LEMMA FlushIs == Known /\ Control => FlushView
<1> SUFFICES ASSUME Known, Control, NEW p \in Process, pc[p] \in InFlush
             PROVE  /\ job[p].buffer \in Buffer /\ job[p].count \in 0 .. BufferMax
                    /\ Behind(p) \in Seq(Record)
                    /\ LogOpen => InMemory =
                         SubSeq(buffer[job[p].buffer], job[p].done + 1, job[p].count) \o Behind(p)
  BY DEF FlushView
<1>1. WrittenView /\ MemoryView
  BY ViewsHold DEF Views
<1>2. job[p].count \in 0 .. BufferMax
  BY Functions DEF JobType
<1>3. CASE p = "flusher"
  <2>1. /\ pc["flusher"] \in InClear
        /\ isFull[job[p].buffer] /\ job[p].buffer \in Buffer
    BY <1>3, OneWorks DEF InClear
  <2>2. job[p].count = BufferMax
    BY <1>3, <2>1 DEF Control, Jobs
  <2>3. Written(job[p].buffer) = job[p].done
    BY <1>1, <2>1 DEF WrittenView
  <2>4. InCurrent \in Seq(Record)
    BY <1>1 DEF MemoryView
  <2>5. LogOpen => InMemory = SubSeq(buffer[job[p].buffer], job[p].done + 1, BufferMax) \o InCurrent
    BY <1>1, <2>1, <2>3 DEF MemoryView
  <2> QED BY <1>2, <1>3, <2>1, <2>2, <2>4, <2>5 DEF Behind
<1>4. CASE p = "controller"
  <2>1. \A b \in Buffer : ~isFull[b]
    BY <1>4, OneWorks
  <2>2. /\ job[p].buffer = pBufferCurrent /\ job[p].count = countBufferCurrent
        /\ pBufferCurrent \in Buffer
    BY <1>4 DEF Control, Jobs, Space
  <2>3. Written(pBufferCurrent) = job[p].done
    BY <1>1, <2>2 DEF WrittenView
  <2>4. pc["controller"] # "switch"
    BY <1>4 DEF InFlush
  <2>5. InCurrent = SubSeq(buffer[job[p].buffer], job[p].done + 1, job[p].count)
    BY <1>1, <2>2, <2>3, <2>4 DEF MemoryView
  <2>6. LogOpen => InMemory = InCurrent
    BY <1>1, <2>1 DEF MemoryView
  <2>7. InCurrent \o <<>> = InCurrent /\ <<>> \in Seq(Record)
    BY <1>1, ConcatEmptySeq, EmptySeq DEF MemoryView
  <2>8. Behind(p) = <<>>
    BY <1>4 DEF Behind
  <2> QED BY <1>2, <2>2, <2>5, <2>6, <2>7, <2>8
<1> QED BY <1>3, <1>4 DEF Process

\* The same after a step.
LEMMA FlushIsNext == (Known /\ Control)' => FlushView'
BY FlushIs, PTL

\* The current buffer is seen alike while the flusher is not in it.
LEMMA CurrentKept ==
  ASSUME Views, Views', UNCHANGED <<buffer, pBufferCurrent, countBufferCurrent>>,
         pc'["controller"] = pc["controller"], job'["controller"] = job["controller"],
         pBufferCurrent \in Buffer \cup {NULL},
         pBufferCurrent \in Buffer /\ pc["controller"] # "switch" =>
           job["flusher"].buffer # pBufferCurrent /\ job'["flusher"].buffer # pBufferCurrent
  PROVE  InCurrent' = InCurrent
<1>1. CASE pc["controller"] = "switch"
  BY <1>1 DEF Views, MemoryView
<1>2. CASE pBufferCurrent = NULL
  BY <1>2 DEF InCurrent
<1>3. CASE pc["controller"] # "switch" /\ pBufferCurrent \in Buffer
  <2>1. Written(pBufferCurrent)' = Written(pBufferCurrent)
    <3>1. CASE job["controller"].buffer = pBufferCurrent
      <4>1. Written(pBufferCurrent) = job["controller"].done
        BY <1>3, <3>1 DEF Views, WrittenView, Process
      <4>2. Written(pBufferCurrent)' = job'["controller"].done
        BY <1>3, <3>1 DEF Views, WrittenView, Process
      <4> QED BY <4>1, <4>2
    <3>2. CASE job["controller"].buffer # pBufferCurrent
      <4>1. Written(pBufferCurrent) = 0
        BY <1>3, <3>2 DEF Views, WrittenView, Process
      <4>2. Written(pBufferCurrent)' = 0
        BY <1>3, <3>2 DEF Views, WrittenView, Process
      <4> QED BY <4>1, <4>2
    <3> QED BY <3>1, <3>2
  <2> QED BY <1>3, <2>1 DEF Views, MemoryView
<1> QED BY <1>1, <1>2, <1>3

\* Nothing overtakes a flush.
LEMMA BehindSame ==
  ASSUME Known, Control, (Known /\ Control)', NEW p \in Process, FlushToFile(p)
  PROVE  Behind(p)' = Behind(p)
<1>1. CASE p = "flusher"
  <2>1. Views /\ Views'
    BY ViewsHold, ViewsHoldNext
  <2>2. /\ pc["flusher"] \in InFlush /\ pc'["controller"] = pc["controller"]
        /\ job'["controller"] = job["controller"]
        /\ job'["flusher"].buffer = job["flusher"].buffer
        /\ UNCHANGED <<buffer, pBufferCurrent, countBufferCurrent>>
    BY <1>1, FlushControl DEF Process
  <2>3. isFull[job["flusher"].buffer] /\ pBufferCurrent \in Buffer \cup {NULL}
    BY <2>2, OneWorks, Functions DEF InClear
  <2>4. pBufferCurrent \in Buffer /\ pc["controller"] # "switch" => ~isFull[pBufferCurrent]
    BY <2>1 DEF Views, MemoryView
  <2>5. InCurrent' = InCurrent
    BY <2>1, <2>2, <2>3, <2>4, CurrentKept
  <2> QED BY <1>1, <2>5 DEF Behind
<1>2. CASE p = "controller"
  BY <1>2 DEF Behind
<1> QED BY <1>1, <1>2 DEF Process

-----------------------------------------------------------------------------
(* A flush.                                                                *)

\* A piece of the buffer reaches the file: the oldest records of the log.
LEMMA FlushDrains ==
  ASSUME Known, Control, (Known /\ Control)', NEW p \in Process, FlushToFile(p), LogOpen,
         NEW n \in Nat, job[p].done + n <= job[p].count,
         file' = file \o SubSeq(buffer[job[p].buffer], job[p].done + 1, job[p].done + n),
         rotated' = rotated
  PROVE  /\ n \in 0 .. Len(InMemory)
         /\ OnDisk' = OnDisk \o SubSeq(InMemory, 1, n)
         /\ LogOpen' /\ job'[p].done = job[p].done + n =>
              InMemory' = SubSeq(InMemory, n + 1, Len(InMemory))
         /\ ~LogOpen' => InMemory' = <<>>
<1> DEFINE b == job[p].buffer
           w == job[p].done
           m == job[p].count
           s == buffer[b]
<1>1. Views /\ Views' /\ FlushView /\ FlushView'
  BY ViewsHold, ViewsHoldNext, FlushIs, FlushIsNext
<1>2. /\ pc[p] \in InFlush /\ pc'[p] \in InFlush
      /\ buffer' = buffer /\ job'[p].buffer = b /\ job'[p].count = m
  BY FlushControl
<1>3. /\ b \in Buffer /\ m \in 0 .. BufferMax /\ Behind(p) \in Seq(Record)
      /\ InMemory = SubSeq(s, w + 1, m) \o Behind(p)
  BY <1>1, <1>2 DEF FlushView
<1>4. s \in Seq(Record) /\ Len(s) = BufferMax
  BY <1>1, <1>3 DEF Views, MemoryView
<1>5. w \in Nat /\ m \in Nat /\ m <= Len(s) /\ BufferMax \in Nat
  BY <1>3, <1>4, Functions DEF JobType
<1> HIDE DEF b, w, m, s
<1>6. /\ n \in 0 .. Len(InMemory)
      /\ SubSeq(InMemory, 1, n) = SubSeq(s, w + 1, w + n)
      /\ IsLeft(SubSeq(InMemory, n + 1, Len(InMemory)), s, w + n, m, Behind(p))
  <2>1. w + n <= m
    BY DEF w, m
  <2>2. InMemory \in Seq(Record) /\ IsLeft(InMemory, s, w, m, Behind(p))
    BY <1>1, <1>3 DEF Views, MemoryView, IsLeft
  <2>3. s \in Seq(Record) /\ m \in Nat /\ w \in Nat /\ m <= Len(s) /\ Behind(p) \in Seq(Record)
    BY <1>3, <1>4, <1>5
  <2> QED BY <2>1, <2>2, <2>3, TakePart, ZenonT(60)
<1>7. OnDisk' = OnDisk \o SubSeq(InMemory, 1, n)
  <2>1. file' = file \o SubSeq(s, w + 1, w + n)
    BY DEF s, b, w
  <2>2. SubSeq(s, w + 1, w + n) \in Seq(Record)
    <3>1. w + n \in Nat /\ w <= w + n /\ w + n <= Len(s)
      <4>1. w + n <= m
        BY DEF w, m
      <4> QED BY <1>4, <1>5, <4>1
    <3> QED BY <1>4, <1>5, <3>1, PartIs
  <2>3. DiskTyped /\ RotatedFull /\ DiskTyped' /\ RotatedFull' /\ DiskView'
    BY <1>1 DEF Known, Rotation, DiskOK, Views
  <2> QED BY <1>6, <2>1, <2>2, <2>3, DiskAppend
<1>8. ASSUME LogOpen', job'[p].done = w + n
      PROVE  InMemory' = SubSeq(InMemory, n + 1, Len(InMemory))
  <2>1. InMemory' = SubSeq(buffer'[job'[p].buffer], job'[p].done + 1, job'[p].count) \o Behind(p)'
    BY <1>1, <1>2, <1>8 DEF FlushView
  <2>2. Behind(p)' = Behind(p)
    BY BehindSame
  <2> QED BY <1>2, <1>6, <1>8, <2>1, <2>2 DEF s, IsLeft
<1>9. ~LogOpen' => InMemory' = <<>>
  BY <1>1 DEF Views, MemoryView
<1> QED BY <1>6, <1>7, <1>8, <1>9 DEF w

\* What such a step is to the log.
Drained == \E n \in 0 .. Len(InMemory) : Log!Drain(n) \/ Log!Stop(n)

\* The file is given up.
LEMMA GivesUp ==
  ASSUME Views, Views', OnDisk' = OnDisk, ~LogOpen'
  PROVE  Drained \/ UNCHANGED Log!vars
<1>1. InMemory' = <<>> /\ LogOpen' = FALSE /\ (~LogOpen => InMemory = <<>> /\ LogOpen = FALSE)
  BY DEF Views, MemoryView, LogOpen
<1>2. CASE LogOpen
  <2>1. SubSeq(InMemory, 1, 0) = <<>>
    BY SubSeqEmpty
  <2>2. OnDisk \o <<>> = OnDisk
    BY ConcatEmptySeq DEF Views, DiskView
  <2>3. 0 \in 0 .. Len(InMemory)
    BY LenProperties DEF Views, MemoryView
  <2>4. Log!Stop(0)
    BY <1>1, <1>2, <2>1, <2>2 DEF Log!Stop
  <2> QED BY <2>3, <2>4 DEF Drained
<1>3. CASE ~LogOpen
  BY <1>1, <1>3 DEF Log!vars
<1> QED BY <1>2, <1>3

\* A step of a flush that leaves the file alone, or gives it up.
LEMMA FlushKeeps ==
  ASSUME Known, Control, (Known /\ Control)', NEW p \in Process, FlushToFile(p),
         OnDisk' = OnDisk, LogOpen, LogOpen' => job'[p].done = job[p].done
  PROVE  Drained \/ UNCHANGED Log!vars
<1>1. Views /\ Views' /\ FlushView /\ FlushView'
  BY ViewsHold, ViewsHoldNext, FlushIs, FlushIsNext
<1>2. CASE LogOpen'
  <2>1. /\ pc[p] \in InFlush /\ pc'[p] \in InFlush
        /\ buffer' = buffer /\ job'[p].buffer = job[p].buffer /\ job'[p].count = job[p].count
    BY FlushControl
  <2>2. InMemory = SubSeq(buffer[job[p].buffer], job[p].done + 1, job[p].count) \o Behind(p)
    BY <1>1, <2>1 DEF FlushView
  <2>3. InMemory' = SubSeq(buffer'[job'[p].buffer], job'[p].done + 1, job'[p].count) \o Behind(p)'
    BY <1>1, <1>2, <2>1 DEF FlushView
  <2>4. InMemory' = InMemory
    BY <1>2, <2>1, <2>2, <2>3, BehindSame
  <2>5. LogOpen' = LogOpen
    BY <1>2 DEF LogOpen
  <2> QED BY <2>4, <2>5 DEF Log!vars
<1>3. CASE ~LogOpen'
  BY <1>1, <1>3, GivesUp
<1> QED BY <1>2, <1>3

\* Every step of logTlm_flushToFile() moves the oldest records to the disk,
\* gives up the file or is not seen.
LEMMA FlushLog ==
  ASSUME Known, Control, (Known /\ Control)', NEW p \in Process, FlushToFile(p)
  PROVE  Drained \/ UNCHANGED Log!vars
<1>1. /\ pc[p] \in InFlush /\ pc'[p] \in InFlush
      /\ \A q \in Process \ {p} : pc'[q] = pc[q] /\ job'[q] = job[q]
      /\ LogOpen' => LogOpen
      /\ job'[p].buffer = job[p].buffer /\ job'[p].count = job[p].count
      /\ UNCHANGED <<buffer, pBufferCurrent, countBufferCurrent, isFull>>
  BY FlushControl
<1>2. \A q \in Process \ {p} : pc'[q] \notin InFlush
  BY <1>1, ExclusionExcludes DEF FileExclusive, Known, Process
<1>3. LogOpen <=> pFile \/ pc[p] \in {"rename", "reopen"}
  BY <1>1, <1>2 DEF LogOpen, InFlush
<1>4. LogOpen' <=> pFile' \/ pc'[p] \in {"rename", "reopen"}
  BY <1>1, <1>2 DEF LogOpen, InFlush
<1>5. /\ job \in [Process -> JobType] /\ job[p] \in JobType /\ FileAt(pc[p], job[p])
      /\ DiskTyped /\ RotatedFull /\ DiskTyped' /\ RotatedFull' /\ DiskView'
  BY <1>1, ViewsHoldNext DEF Known, Rotation, DiskOK, FlushOK, JobTyped, Views
<1>6. /\ job[p].count \in Nat /\ job[p].done \in Nat /\ job[p].numToFile \in Nat
      /\ job[p].count \in 0 .. BufferMax
  BY <1>5, BufferAssumption DEF JobType
<1>7. pc[p] = "write" => job[p].done = 0
  BY DEF Control, Jobs, DoneAt
<1>8. file' = file /\ rotated' = rotated => OnDisk' = OnDisk
  BY DEF OnDisk
<1>9. ASSUME NEW n \in Nat, job[p].done + n <= job[p].count, LogOpen,
             file' = file \o SubSeq(buffer[job[p].buffer], job[p].done + 1, job[p].done + n),
             rotated' = rotated, LogOpen' => job'[p].done = job[p].done + n
      PROVE  Drained
  <2>1. /\ n \in 0 .. Len(InMemory)
        /\ OnDisk' = OnDisk \o SubSeq(InMemory, 1, n)
        /\ LogOpen' => InMemory' = SubSeq(InMemory, n + 1, Len(InMemory))
        /\ ~LogOpen' => InMemory' = <<>>
    BY <1>9, FlushDrains
  <2>2. LogOpen' \in BOOLEAN /\ LogOpen \in BOOLEAN
    BY DEF LogOpen
  <2>3. CASE LogOpen'
    BY <1>9, <2>1, <2>2, <2>3 DEF Drained, Log!Drain
  <2>4. CASE ~LogOpen'
    BY <1>9, <2>1, <2>2, <2>4 DEF Drained, Log!Stop
  <2> QED BY <2>3, <2>4
<1>11. CASE FlushWrite(p)
  <2> DEFINE n == NumToFile(job[p].count)
  <2>1. /\ pc[p] = "write" /\ pFile
        /\ job' = [job EXCEPT ![p].numToFile = n, ![p].done = n]
        /\ file' = file \o SubSeq(buffer[job[p].buffer], 1, n) /\ rotated' = rotated
    BY <1>11, GotoMoves DEF FlushWrite, Known
  <2>2. n \in 0 .. job[p].count
    BY <1>5, <1>6, NumToFileFits
  <2> HIDE DEF n
  <2>3. job'[p].done = n
    BY <1>5, <2>1 DEF JobType
  <2>4. n \in Nat /\ job[p].done = 0 /\ 0 + n = n /\ n <= job[p].count
    BY <1>6, <1>7, <2>1, <2>2
  <2>5. 0 + 1 = 1
    OBVIOUS
  <2> QED BY <1>3, <1>9, <2>1, <2>3, <2>4, <2>5
<1>12. CASE FlushWriteFails(p)
  <2> DEFINE n == NumToFile(job[p].count)
  <2>1. pc[p] = "write" /\ pc'[p] = "flushed" /\ pFile /\ ~pFile' /\ rotated' = rotated
    BY <1>12, GotoMoves DEF FlushWriteFails, Known
  <2>2. n \in 0 .. job[p].count
    BY <1>5, <1>6, NumToFileFits
  <2>3. \/ file' = file
        \/ \E k \in 0 .. n - 1 : file' = file \o SubSeq(buffer[job[p].buffer], 1, k)
    BY <1>12 DEF FlushWriteFails
  <2> HIDE DEF n
  <2>4. LogOpen /\ ~LogOpen'
    BY <1>3, <1>4, <2>1
  <2>5. CASE file' = file
    BY <1>8, <1>12, <2>1, <2>4, <2>5, FlushKeeps
  <2>6. ASSUME NEW k \in 0 .. n - 1, file' = file \o SubSeq(buffer[job[p].buffer], 1, k)
        PROVE  Drained
    <3>1. k \in Nat /\ job[p].done = 0 /\ 0 + k = k /\ k <= job[p].count /\ 0 + 1 = 1
      BY <1>6, <1>7, <2>1, <2>2
    <3> QED BY <1>9, <2>1, <2>4, <2>6, <3>1
  <2> QED BY <2>3, <2>5, <2>6
<1>13. CASE FlushNoFile(p)
  <2>1. /\ ~pFile /\ pc[p] = "write" /\ pc'[p] = "flushed"
        /\ UNCHANGED <<job, pFile, file, rotated>>
    BY <1>13, GotoMoves DEF FlushNoFile, Known, diskVars
  <2> QED BY <1>1, <2>1, Unseen
<1>14. CASE RotateClose(p)
  <2>1. job' = job /\ UNCHANGED <<file, rotated>> /\ pc[p] = "rotate"
    BY <1>14, GotoMoves DEF RotateClose, Known
  <2>2. LogOpen
    BY <1>3, <1>5, <2>1 DEF FileAt
  <2> QED BY <1>8, <1>14, <2>1, <2>2, FlushKeeps
<1>15. CASE RotateRename(p)
  <2>1. /\ job' = job /\ pc[p] = "rename"
        /\ \/ rotated' = Append(rotated, file) /\ file' = <<>>
           \/ UNCHANGED <<rotated, file>>
    BY <1>15, GotoMoves DEF RotateRename, Known
  <2>2. LogOpen /\ Len(file) = FileMax
    BY <1>3, <1>5, <2>1 DEF FileAt
  <2>3. OnDisk' = OnDisk
    BY <1>5, <1>8, <2>1, <2>2, DiskRotate
  <2> QED BY <1>15, <2>1, <2>2, <2>3, FlushKeeps
<1>16. CASE RotateOpen(p)
  <2>1. pc[p] = "reopen" /\ UNCHANGED <<file, rotated>>
        /\ (job' = job \/ job' = [job EXCEPT ![p].isRotated = TRUE])
    BY <1>16, GotoMoves DEF RotateOpen, Known
  <2>2. job'[p].done = job[p].done
    BY <1>5, <2>1 DEF JobType
  <2> QED BY <1>3, <1>8, <1>16, <2>1, <2>2, FlushKeeps
<1>17. CASE FlushRest(p)
  <2> DEFINE left == Rest(job[p])
             w == job[p].done
             m == job[p].count
             s == buffer[job[p].buffer]
  <2>1. /\ pc[p] = "rest" /\ rotated' = rotated
        /\ \/ file' = file \o left /\ job' = [job EXCEPT ![p].done = job[p].count]
           \/ /\ \E k \in 0 .. Len(left) - 1 : file' = file \o SubSeq(left, 1, k)
              /\ pc'[p] = "flushed" /\ ~pFile'
    BY <1>17, GotoMoves DEF FlushRest, Known
  <2>2. /\ LogOpen /\ w <= m /\ left = SubSeq(s, w + 1, m)
        /\ w \in Nat /\ m \in Nat
    BY <1>3, <1>5, <1>6, <2>1 DEF FileAt, Filled, Rest
  <2>3. s \in Seq(Record) /\ Len(s) = BufferMax /\ BufferMax \in Nat
    BY <1>1, ViewsHold, FlushIs, BufferAssumption DEF Views, MemoryView, FlushView
  <2>4. m <= Len(s)
    BY <1>6, <2>3
  <2>5. CASE file' = file \o left /\ job' = [job EXCEPT ![p].done = job[p].count]
    <3> DEFINE n == m - w
    <3>1. n \in Nat /\ w + n <= m /\ w + n = m
      BY <2>2
    <3>2. job'[p].done = m
      BY <1>5, <2>5 DEF JobType
    <3> HIDE DEF n
    <3>3. file' = file \o SubSeq(s, w + 1, w + n)
      BY <2>2, <2>5, <3>1
    <3> QED BY <1>9, <2>1, <2>2, <3>1, <3>2, <3>3
  <2>6. ASSUME NEW k \in 0 .. Len(left) - 1, file' = file \o SubSeq(left, 1, k),
               pc'[p] = "flushed", ~pFile'
        PROVE  Drained
    <3> HIDE DEF s, w, m
    <3>1. Len(left) = m - w /\ left \in Seq(Record)
      BY <2>2, <2>3, <2>4, PartIs
    <3>2. k \in Nat /\ w + k <= m
      BY <2>2, <3>1
    <3>3. SubSeq(left, 1, k) = SubSeq(s, w + 1, w + k)
      <4>1. <<>> \in Seq(Record) /\ left = left \o <<>>
        BY <3>1, EmptySeq, ConcatEmptySeq
      <4>2. left = SubSeq(s, w + 1, m) \o <<>>
        BY <2>2, <4>1
      <4> HIDE DEF left
      <4>3. IsLeft(left, s, w, m, <<>>)
        BY <4>2 DEF IsLeft
      <4> QED BY <2>2, <2>3, <2>4, <3>1, <3>2, <4>1, <4>3, TakePart
    <3>4. ~LogOpen'
      BY <1>4, <2>6
    <3>5. job[p].done + k <= job[p].count
      BY <3>2 DEF w, m
    <3>6. file' = file \o SubSeq(buffer[job[p].buffer], job[p].done + 1, job[p].done + k)
      BY <2>6, <3>3 DEF s, w
    <3> QED BY <1>9, <2>1, <2>2, <3>2, <3>4, <3>5, <3>6
  <2> QED BY <2>1, <2>5, <2>6
<1>18. CASE FlushCount(p)
  <2>1. /\ pc[p] = "count" /\ pc'[p] = "flushed"
        /\ UNCHANGED <<job, pFile, file, rotated>>
    BY <1>18, GotoMoves DEF FlushCount, Known
  <2> QED BY <1>1, <2>1, Unseen
<1> QED BY <1>11, <1>12, <1>13, <1>14, <1>15, <1>16, <1>17, <1>18 DEF FlushToFile

-----------------------------------------------------------------------------
(* The pace is kept.                                                       *)

\* A step of a flush keeps the controller and the flusher at their pace.
LEMMA FlushKeepsControl ==
  ASSUME Known, Control, NEW p \in Process, FlushToFile(p)
  PROVE  Control'
<1>1. /\ pc[p] \in InFlush /\ pc'[p] \in InFlush
      /\ \A q \in Process \ {p} : pc'[q] = pc[q] /\ job'[q] = job[q]
      /\ UNCHANGED <<buffer, pBufferCurrent, countBufferCurrent, isFull, lock, isThreadReady,
                     op, data, read, doFlush>>
      /\ job'[p].buffer = job[p].buffer /\ job'[p].count = job[p].count
      /\ LogOpen' => LogOpen
      /\ DoneAt(p)'
  BY FlushControl
<1>2. Paced'
  BY <1>1 DEF Control, Paced, AtEnd, FlusherAtRest, Handing, InFlush, Process
<1>3. LeftFull'
  BY <1>1 DEF Control, LeftFull, InFlush, Process
<1>4. Space'
  BY <1>1 DEF Control, Space, InSwitch, Handing, InClear, InFlush, Process
<1>5. Jobs'
  <2>1. \A q \in Process \ {p} : DoneAt(q)'
    BY <1>1 DEF Control, Jobs, DoneAt
  <2> QED BY <1>1, <2>1 DEF Control, Jobs, InClear, Process
<1> QED BY <1>2, <1>3, <1>4, <1>5 DEF Control

\* Every step of the paced log keeps it.
LEMMA NextControl == Known /\ Control /\ [PacedNext]_vars => Control'
<1> SUFFICES ASSUME Known, Control, [PacedNext]_vars PROVE Control'
  OBVIOUS
<1>1. ASSUME NEW p \in Process, FlushToFile(p) PROVE Control'
  BY <1>1, FlushKeepsControl
<1>2. CASE PacedNext
  BY <1>1, <1>2, ControllerControl, FlusherControl DEF PacedNext, Next
<1>3. CASE UNCHANGED vars
  BY <1>3 DEF vars, memoryVars, diskVars, writeVars, Control, Paced, LeftFull, Space, Jobs, DoneAt,
              AtEnd, FlusherAtRest, LogOpen
<1> QED BY <1>2, <1>3

\* Initially nothing is full and nobody is at work.
LEMMA InitControl == Init => Control
<1> SUFFICES ASSUME Init PROVE Control
  OBVIOUS
<1>1. /\ pc["controller"] = "idle" /\ pc["flusher"] = "none" /\ ~isThreadReady
      /\ \A b \in Buffer : ~isFull[b]
      /\ \A p \in Process : job[p] = NoJob
      /\ countBufferCurrent = 0 /\ BufferMax \in Nat \ {0} /\ ~LogOpen
  BY BufferAssumption DEF Init, Process, LogOpen
<1>2. NoJob.buffer = NULL
  BY DEF NoJob, FlushCall
<1>3. Paced
  BY <1>1 DEF Paced, AtEnd, Handing
<1>4. LeftFull
  BY <1>1 DEF LeftFull
<1>5. Space
  BY <1>1 DEF Space, InSwitch, Handing, InClear, InFlush
<1>6. Jobs
  BY <1>1, <1>2 DEF Jobs, DoneAt, InClear, InFlush, Process
<1> QED BY <1>3, <1>4, <1>5, <1>6 DEF Control

\* What the controller is writing is a new record, and is in its slot before
\* it is counted.
Copied ==
  /\ pc["controller"] \in {"copy", "increment"} => data > 0
  /\ pc["controller"] = "increment" => buffer[pBufferCurrent][read + 1] = data

\* Nobody changes the slot or the record in between.
LEMMA NextCopied == Known /\ Control /\ Copied /\ [PacedNext]_vars => Copied'
<1> SUFFICES ASSUME Known, Control, Copied, [PacedNext]_vars PROVE Copied'
  OBVIOUS
<1>1. /\ pc = [p \in Process |-> pc[p]] /\ data \in Nat
      /\ buffer \in [Buffer -> [1 .. BufferMax -> Record]]
      /\ countBufferCurrent \in 0 .. BufferMax /\ BufferMax \in Nat
  BY BoundAssumption, Functions DEF Known, Rotation, MemoryOK, MemoryTyped, Record
<1>2. CASE Write
  BY <1>1, <1>2 DEF Write, Goto, Copied, Process
<1>3. CASE WriteCopy
  <2>1. /\ pc["controller"] = "copy" /\ pBufferCurrent \in Buffer
        /\ countBufferCurrent < BufferMax
    BY <1>1, <1>3, GotoMoves DEF WriteCopy, Known, Control, Space, InSwitch, Handing, InFlush, Process
  <2>2. /\ buffer' = [buffer EXCEPT ![pBufferCurrent][countBufferCurrent + 1] = data]
        /\ read' = countBufferCurrent /\ pBufferCurrent' = pBufferCurrent /\ data' = data
    BY <1>3, <2>1 DEF WriteCopy
  <2>3. countBufferCurrent + 1 \in 1 .. BufferMax
    BY <1>1, <2>1
  <2>4. buffer'[pBufferCurrent'][read' + 1] = data'
    BY <1>1, <2>1, <2>2, <2>3
  <2> QED BY <2>1, <2>2, <2>4 DEF Copied
<1>4. CASE \/ Flush \/ Open \/ Close \/ RunFlushInNewThread \/ CloseThread
           \/ WriteIncrement \/ WriteReturn \/ WriteFlush \/ WriteFull \/ WriteWhich
           \/ Lock("controller", "lockMark", "mark") \/ MarkFull
           \/ WriteSwitch \/ WriteStop
           \/ Lock("controller", "tryLock", "isFlushing") \/ StillFlushing \/ IsFlushing
           \/ FlushArgs \/ FlushReturn
           \/ OpenFile \/ OpenFails \/ Lock("controller", "lockReset", "reset") \/ ResetFull
           \/ SetReady \/ Join
  <2>1. pc'["controller"] \notin {"copy", "increment"}
    BY <1>1, <1>4 DEF Flush, Open, Close, RunFlushInNewThread, CloseThread,
         WriteIncrement, WriteReturn, WriteFlush, WriteFull, WriteWhich, Lock, MarkFull, WriteSwitch,
         WriteStop, StillFlushing, IsFlushing, FlushArgs, FlushReturn, OpenFile, OpenFails, ResetFull,
         SetReady, Join, Goto, Return, Process
  <2> QED BY <2>1 DEF Copied
<1>5. ASSUME NEW p \in Process, FlushToFile(p) PROVE Copied'
  <2>1. /\ pc'["controller"] = pc["controller"] \/ pc'["controller"] \in InFlush
        /\ UNCHANGED <<buffer, pBufferCurrent, data, read>>
    BY <1>5, FlushControl DEF Process
  <2> QED BY <2>1 DEF Copied, InFlush
<1>6. CASE \/ Start \/ End \/ TryLock \/ Snapshot \/ Flushed
           \/ Lock("flusher", "lockClear", "clear") \/ ClearFull
           \/ Reassign \/ Assign \/ ZeroCount
  <2>1. pc'["controller"] = pc["controller"] /\ ~Assign
    BY <1>1, <1>6 DEF Start, End, TryLock, Snapshot, Flushed, Lock, ClearFull, Reassign, Assign,
         ZeroCount, Goto, Process, Control, Paced
  <2>2. UNCHANGED <<buffer, pBufferCurrent, data, read>>
    BY <1>6, <2>1 DEF Start, End, TryLock, Snapshot, Flushed, Lock, ClearFull, Reassign,
         ZeroCount, memoryVars, writeVars
  <2> QED BY <2>1, <2>2 DEF Copied
<1>7. CASE UNCHANGED vars
  BY <1>7 DEF vars, memoryVars, writeVars, Copied
<1> QED BY <1>2, <1>3, <1>4, <1>5, <1>6, <1>7
        DEF PacedNext, Next, ControllerCall, ControllerStep, FlusherStep, Process

-----------------------------------------------------------------------------
(* The steps of the controller and of the flusher.                         *)

\* Outside a flush of its own, nothing of the controller's buffer is written.
Unwritten ==
  pBufferCurrent \in Buffer /\ pc["controller"] \notin InFlush \cup {"switch"} =>
    /\ Written(pBufferCurrent) = 0 /\ ~isFull[pBufferCurrent]
    /\ InCurrent = SubSeq(buffer[pBufferCurrent], 1, countBufferCurrent)

\* Every job is of another buffer.
LEMMA UnwrittenIs == Known /\ Control => Unwritten
<1> SUFFICES ASSUME Known, Control, pBufferCurrent \in Buffer,
                    pc["controller"] \notin InFlush, pc["controller"] # "switch"
             PROVE  /\ Written(pBufferCurrent) = 0 /\ ~isFull[pBufferCurrent]
                    /\ InCurrent = SubSeq(buffer[pBufferCurrent], 1, countBufferCurrent)
  BY DEF Unwritten
<1>1. WrittenView /\ MemoryView
  BY ViewsHold DEF Views
<1>2. ~isFull[pBufferCurrent]
  BY <1>1 DEF MemoryView
<1>3. pBufferCurrent # NULL
  BY DEF Buffer, NULL
<1>4. job["controller"].buffer # pBufferCurrent
  BY <1>3 DEF Control, Jobs
<1>5. job["flusher"].buffer # pBufferCurrent
  <2>1. pc["flusher"] \in InClear => isFull[job["flusher"].buffer]
    BY OneWorks
  <2>2. pc["flusher"] \notin InClear => job["flusher"].buffer = NULL
    BY DEF Control, Jobs
  <2> QED BY <1>2, <1>3, <2>1, <2>2
<1>6. Written(pBufferCurrent) = 0
  BY <1>1, <1>4, <1>5 DEF WrittenView, Process
<1>7. 0 + 1 = 1
  OBVIOUS
<1> QED BY <1>1, <1>2, <1>6, <1>7 DEF MemoryView

\* The same after a step.
LEMMA UnwrittenNext == (Known /\ Control)' => Unwritten'
BY UnwrittenIs, PTL

\* A step that leaves the files open as they are.
LEMMA FilesKept ==
  ASSUME UNCHANGED <<pFile, file, rotated>>,
         \A p \in Process : pc'[p] = pc[p] \/ {pc[p], pc'[p]} \cap {"rename", "reopen"} = {}
  PROVE  OnDisk' = OnDisk /\ LogOpen' = LogOpen
BY DEF OnDisk, LogOpen

\* If what is in the current buffer and behind it is kept, so is the memory.
LEMMA MemoryKept ==
  ASSUME Views, Views', OnDisk' = OnDisk, LogOpen' = LogOpen, isFull' = isFull,
         \A b \in Buffer : LogOpen /\ isFull[b] => buffer'[b] = buffer[b] /\ Written(b)' = Written(b),
         LogOpen => InCurrent' = InCurrent
  PROVE  UNCHANGED Log!vars
<1>1. CASE ~LogOpen
  BY <1>1 DEF Views, MemoryView, Log!vars
<1>2. CASE LogOpen /\ \A b \in Buffer : ~isFull[b]
  BY <1>2 DEF Views, MemoryView, Log!vars
<1>3. ASSUME NEW b \in Buffer, LogOpen, isFull[b] PROVE UNCHANGED Log!vars
  <2>1. InMemory = SubSeq(buffer[b], Written(b) + 1, BufferMax) \o InCurrent
    BY <1>3 DEF Views, MemoryView
  <2>2. InMemory' = SubSeq(buffer'[b], Written(b)' + 1, BufferMax) \o InCurrent'
    BY <1>3 DEF Views, MemoryView
  <2>3. InMemory' = InMemory
    BY <1>3, <2>1, <2>2
  <2> QED BY <2>3 DEF Log!vars
<1> QED BY <1>1, <1>2, <1>3

\* The copy goes into a slot that is not counted yet.
LEMMA WriteCopyUnseen ==
  ASSUME Known, Control, (Known /\ Control)', WriteCopy
  PROVE  UNCHANGED Log!vars
<1>1. Views /\ Views' /\ Unwritten /\ Unwritten'
  BY ViewsHold, ViewsHoldNext, UnwrittenIs, UnwrittenNext
<1>2. /\ pc["controller"] = "copy" /\ pc'["flusher"] = pc["flusher"]
      /\ pc'["controller"] \in {"increment", "test"}
  BY GotoMoves DEF WriteCopy, Known, Process
<1>3. /\ pBufferCurrent \in Buffer /\ countBufferCurrent < BufferMax
      /\ countBufferCurrent \in Nat /\ BufferMax \in Nat
  BY <1>2, Functions DEF Control, Space, InSwitch, Handing, InFlush
<1>4. /\ buffer' = [buffer EXCEPT ![pBufferCurrent][countBufferCurrent + 1] = data]
      /\ UNCHANGED <<pBufferCurrent, countBufferCurrent, isFull, job, pFile, file, rotated>>
  BY <1>3 DEF WriteCopy, diskVars
<1>5. OnDisk' = OnDisk /\ LogOpen' = LogOpen
  BY <1>2, <1>4, FilesKept DEF Process
<1>6. /\ InCurrent = SubSeq(buffer[pBufferCurrent], 1, countBufferCurrent)
      /\ InCurrent' = SubSeq(buffer'[pBufferCurrent], 1, countBufferCurrent)
      /\ ~isFull[pBufferCurrent]
  BY <1>1, <1>2, <1>3, <1>4 DEF Unwritten, InFlush
<1>7. \A b \in Buffer : isFull[b] => buffer'[b] = buffer[b] /\ Written(b)' = Written(b)
  BY <1>4, <1>6 DEF Written, Known, Rotation, MemoryOK, MemoryTyped
<1>8. InCurrent' = InCurrent
  <2> DEFINE s == buffer[pBufferCurrent]
             t == buffer'[pBufferCurrent]
             n == countBufferCurrent
             x == SubSeq(s, 0 + 1, n)
             y == SubSeq(t, 0 + 1, n)
  <2>1. s \in Seq(Record) /\ t \in Seq(Record) /\ Len(s) = BufferMax /\ Len(t) = BufferMax
    BY <1>1, <1>3, <1>4 DEF Views, MemoryView
  <2>2. \A i \in 1 .. n : t[i] = s[i]
    BY <1>3, <1>4 DEF Known, Rotation, MemoryOK, MemoryTyped
  <2>3. n \in Nat /\ 0 \in Nat /\ 0 <= n /\ n <= BufferMax
    BY <1>3
  <2> HIDE DEF s, t, n
  <2>4. x \in Seq(Record) /\ Len(x) = n - 0 /\ \A i \in 1 .. n - 0 : x[i] = s[0 + i]
    BY <2>1, <2>3, PartIs
  <2>5. y \in Seq(Record) /\ Len(y) = n - 0 /\ \A i \in 1 .. n - 0 : y[i] = t[0 + i]
    BY <2>1, <2>3, PartIs
  <2> HIDE DEF x, y
  <2>6. \A i \in 1 .. Len(x) : x[i] = y[i]
    BY <2>2, <2>3, <2>4, <2>5
  <2>7. x = y
    BY <2>4, <2>5, <2>6, SeqEqual
  <2>8. 0 + 1 = 1
    OBVIOUS
  <2> QED BY <1>6, <2>7, <2>8 DEF x, y, s, t, n
<1> QED BY <1>1, <1>4, <1>5, <1>7, <1>8, MemoryKept

\* The record is counted, and so it is in the log.
LEMMA WriteIncrementWrites ==
  ASSUME Known, Control, (Known /\ Control)', Copied, WriteIncrement
  PROVE  /\ OnDisk' = OnDisk /\ LogOpen' = LogOpen
         /\ LogOpen => InMemory' = Append(InMemory, data)
<1>1. Views /\ Views' /\ Unwritten /\ Unwritten'
  BY ViewsHold, ViewsHoldNext, UnwrittenIs, UnwrittenNext
<1>2. /\ pc["controller"] = "increment" /\ pc'["controller"] = "test"
      /\ pc'["flusher"] = pc["flusher"]
  BY GotoMoves DEF WriteIncrement, Known, Process
<1>3. /\ pBufferCurrent \in Buffer /\ read = countBufferCurrent /\ countBufferCurrent < BufferMax
      /\ countBufferCurrent \in Nat /\ BufferMax \in Nat /\ data \in Record
      /\ buffer[pBufferCurrent][countBufferCurrent + 1] = data
  <2>1. countBufferCurrent # BufferMax
    BY <1>2 DEF Control, Space, InSwitch, Handing, InFlush
  <2>2. countBufferCurrent \in Nat /\ BufferMax \in Nat /\ countBufferCurrent < BufferMax
    BY <2>1, Functions
  <2>3. pBufferCurrent \in Buffer /\ read = countBufferCurrent
    BY <1>2 DEF Control, Space
  <2>4. data \in Record
    BY DEF Known, Rotation, MemoryOK, MemoryTyped
  <2> QED BY <1>2, <2>2, <2>3, <2>4 DEF Copied
<1>4. /\ countBufferCurrent' = countBufferCurrent + 1
      /\ UNCHANGED <<buffer, pBufferCurrent, isFull, job, pFile, file, rotated>>
  BY <1>3 DEF WriteIncrement, diskVars
<1>5. OnDisk' = OnDisk /\ LogOpen' = LogOpen
  BY <1>2, <1>4, FilesKept DEF Process
<1>6. /\ InCurrent = SubSeq(buffer[pBufferCurrent], 1, countBufferCurrent)
      /\ InCurrent' = SubSeq(buffer[pBufferCurrent], 1, countBufferCurrent + 1)
  BY <1>1, <1>2, <1>3, <1>4 DEF Unwritten, InFlush
<1>7. InCurrent' = InCurrent \o <<data>>
  <2> DEFINE s == buffer[pBufferCurrent]
             n == countBufferCurrent + 1
  <2>1. s \in Seq(Record) /\ Len(s) = BufferMax
    BY <1>1, <1>3 DEF Views, MemoryView
  <2>2. 1 \in 1 .. Len(s) /\ n \in 1 .. Len(s) /\ n - 1 = countBufferCurrent /\ s[n] = data
    BY <1>3, <2>1
  <2> HIDE DEF s, n
  <2>3. SubSeq(s, 1, n) = SubSeq(s, 1, n - 1) \o <<s[n]>>
    BY <2>1, <2>2, SubSeqRecursiveSecond
  <2>4. InCurrent' = SubSeq(s, 1, n) /\ InCurrent = SubSeq(s, 1, n - 1)
    BY <1>6, <2>2 DEF s, n
  <2> QED BY <2>2, <2>3, <2>4
<1>8. ASSUME LogOpen PROVE InMemory' = Append(InMemory, data)
  <2>1. InMemory \in Seq(Record) /\ InCurrent \in Seq(Record) /\ <<data>> \in Seq(Record)
    BY <1>1, <1>3 DEF Views, MemoryView
  <2>2. Append(InMemory, data) = InMemory \o <<data>>
    BY <1>3, <2>1, AppendIsConcat
  <2>3. CASE \A b \in Buffer : ~isFull[b]
    BY <1>1, <1>4, <1>5, <1>7, <1>8, <2>2, <2>3 DEF Views, MemoryView
  <2>4. ASSUME NEW b \in Buffer, isFull[b] PROVE InMemory' = Append(InMemory, data)
    <3> DEFINE old == SubSeq(buffer[b], Written(b) + 1, BufferMax)
    <3>1. Written(b)' = Written(b)
      BY <1>4 DEF Written
    <3>2. InMemory = old \o InCurrent /\ InMemory' = old \o InCurrent'
      BY <1>1, <1>4, <1>5, <1>8, <2>4, <3>1 DEF Views, MemoryView
    <3>3. old \in Seq(Record)
      <4>1. /\ buffer[b] \in Seq(Record) /\ Len(buffer[b]) = BufferMax
            /\ Written(b) \in Nat /\ Written(b) <= BufferMax
        BY <1>1, <1>3, <2>4 DEF Views, MemoryView, WrittenView
      <4> QED BY <1>3, <4>1, PartIs
    <3> HIDE DEF old
    <3>4. (old \o InCurrent) \o <<data>> = old \o (InCurrent \o <<data>>)
      BY <2>1, <3>3, ConcatAssociative
    <3> QED BY <1>7, <2>2, <3>2, <3>4
  <2> QED BY <2>3, <2>4
<1> QED BY <1>5, <1>8

\* The current buffer becomes the full one.
LEMMA MarkFullUnseen ==
  ASSUME Known, Control, (Known /\ Control)', MarkFull
  PROVE  UNCHANGED Log!vars
<1>1. Views /\ Views' /\ Unwritten
  BY ViewsHold, ViewsHoldNext, UnwrittenIs
<1>2. /\ pc["controller"] = "mark" /\ pc'["controller"] \in {"switch", "stop"}
      /\ pc'["flusher"] = pc["flusher"]
  BY GotoMoves DEF MarkFull, Known, Process
<1>3. /\ \A b \in Buffer : ~isFull[b]
      /\ pBufferCurrent \in Buffer /\ read = pBufferCurrent /\ countBufferCurrent = BufferMax
  BY <1>2 DEF Control, Paced, AtEnd, FlusherAtRest, Space, InSwitch, Handing
<1>4. pc'["controller"] = "switch"
  BY <1>2 DEF Control, Paced
<1>5. /\ isFull' = [isFull EXCEPT ![pBufferCurrent] = TRUE]
      /\ UNCHANGED <<buffer, pBufferCurrent, countBufferCurrent, job, pFile, file, rotated>>
  BY <1>3 DEF MarkFull, memoryVars, diskVars
<1>6. OnDisk' = OnDisk /\ LogOpen' = LogOpen
  BY <1>2, <1>5, FilesKept DEF Process
<1>7. Written(pBufferCurrent)' = Written(pBufferCurrent) /\ Written(pBufferCurrent) = 0
  BY <1>1, <1>2, <1>3, <1>5 DEF Written, Unwritten, InFlush
<1>8. /\ InCurrent = SubSeq(buffer[pBufferCurrent], 1, BufferMax)
      /\ InCurrent' = <<>> /\ InCurrent \in Seq(Record)
  BY <1>1, <1>2, <1>3, <1>4 DEF Unwritten, InFlush, Views, MemoryView
<1>9. isFull'[pBufferCurrent]
  BY <1>3, <1>5, Functions
<1>10. ASSUME LogOpen PROVE InMemory' = InMemory
  <2>1. InMemory = InCurrent
    BY <1>1, <1>3, <1>10 DEF Views, MemoryView
  <2>2. InMemory' = SubSeq(buffer[pBufferCurrent], 0 + 1, BufferMax) \o <<>>
    BY <1>1, <1>3, <1>5, <1>6, <1>7, <1>8, <1>9, <1>10 DEF Views, MemoryView
  <2>3. InCurrent \o <<>> = InCurrent /\ 0 + 1 = 1
    BY <1>8, ConcatEmptySeq
  <2> QED BY <1>8, <2>1, <2>2, <2>3
<1>11. ~LogOpen => InMemory' = InMemory
  BY <1>1, <1>6 DEF Views, MemoryView
<1> QED BY <1>6, <1>10, <1>11 DEF Log!vars

\* The controller turns to the other buffer, which is empty.
LEMMA WriteSwitchUnseen ==
  ASSUME Known, Control, (Known /\ Control)', WriteSwitch
  PROVE  UNCHANGED Log!vars
<1>1. Views /\ Views'
  BY ViewsHold, ViewsHoldNext
<1>2. /\ pc["controller"] = "switch" /\ pc'["controller"] = "idle"
      /\ pc'["flusher"] = pc["flusher"]
  BY GotoMoves DEF WriteSwitch, Return, Known, Process
<1>3. /\ pBufferCurrent' \in Buffer /\ countBufferCurrent' = 0
      /\ UNCHANGED <<buffer, isFull, job, pFile, file, rotated>>
  BY <1>2 DEF WriteSwitch, Control, Space, InSwitch, diskVars, Buffer, Other
<1>4. OnDisk' = OnDisk /\ LogOpen' = LogOpen
  BY <1>2, <1>3, FilesKept DEF Process
<1>5. InCurrent = <<>>
  BY <1>1, <1>2 DEF Views, MemoryView
<1>6. InCurrent' = <<>>
  <2>1. InCurrent' = SubSeq(buffer'[pBufferCurrent'], Written(pBufferCurrent)' + 1, 0)
    BY <1>1, <1>2, <1>3 DEF Views, MemoryView
  <2>2. Written(pBufferCurrent)' \in Nat
    BY <1>1, <1>3, BufferAssumption DEF Views, WrittenView
  <2> QED BY <2>1, <2>2, SubSeqEmpty
<1>7. \A b \in Buffer : Written(b)' = Written(b)
  BY <1>3 DEF Written
<1> QED BY <1>1, <1>3, <1>4, <1>5, <1>6, <1>7, MemoryKept

\* A flush of the controller begins with its current buffer, as it is.
LEMMA FlushArgsUnseen ==
  ASSUME Known, Control, (Known /\ Control)', FlushArgs
  PROVE  UNCHANGED Log!vars
<1>1. Views /\ Views' /\ Unwritten
  BY ViewsHold, ViewsHoldNext, UnwrittenIs
<1>2. /\ pc["controller"] = "args" /\ pc'["controller"] = "write"
      /\ pc'["flusher"] = pc["flusher"]
  BY GotoMoves DEF FlushArgs, Known, Process
<1>3. /\ \A b \in Buffer : ~isFull[b]
      /\ pBufferCurrent \in Buffer
  BY <1>2, OneWorks DEF Control, Space
<1>4. UNCHANGED <<buffer, pBufferCurrent, countBufferCurrent, isFull, pFile, file, rotated>>
  BY DEF FlushArgs, memoryVars, diskVars
<1>5. job'["controller"].buffer = pBufferCurrent /\ job'["controller"].done = 0
  <2>1. job' = [job EXCEPT !["controller"] = FlushCall(pBufferCurrent, countBufferCurrent)]
    BY DEF FlushArgs
  <2> QED BY <2>1, Functions DEF FlushCall, Process
<1>6. OnDisk' = OnDisk /\ LogOpen' = LogOpen
  BY <1>2, <1>4, FilesKept DEF Process
<1>7. InCurrent' = InCurrent
  <2>1. Written(pBufferCurrent)' = 0
    BY <1>1, <1>3, <1>4, <1>5 DEF Views, WrittenView, Process
  <2>2. InCurrent' = SubSeq(buffer[pBufferCurrent], 0 + 1, countBufferCurrent)
    BY <1>1, <1>2, <1>3, <1>4, <2>1 DEF Views, MemoryView
  <2>3. InCurrent = SubSeq(buffer[pBufferCurrent], 1, countBufferCurrent) /\ 0 + 1 = 1
    BY <1>1, <1>2, <1>3 DEF Unwritten, InFlush
  <2> QED BY <2>2, <2>3
<1> QED BY <1>1, <1>3, <1>4, <1>6, <1>7, MemoryKept

\* What the controller has flushed is on the disk, or the file is closed.
LEMMA FlushReturnUnseen ==
  ASSUME Known, Control, (Known /\ Control)', FlushReturn
  PROVE  UNCHANGED Log!vars
<1>1. Views /\ Views'
  BY ViewsHold, ViewsHoldNext
<1>2. /\ pc["controller"] = "flushed" /\ pc'["controller"] = "idle"
      /\ pc'["flusher"] = pc["flusher"]
  BY GotoMoves DEF FlushReturn, Return, Known, Process
<1>3. /\ \A b \in Buffer : ~isFull[b]
      /\ pBufferCurrent \in Buffer
      /\ job["controller"].buffer = pBufferCurrent /\ job["controller"].count = countBufferCurrent
      /\ LogOpen => job["controller"].done = job["controller"].count
      /\ countBufferCurrent \in Int
  BY <1>2, OneWorks, Functions DEF Control, Space, Jobs, DoneAt, InFlush, Process
<1>4. /\ UNCHANGED <<buffer, pBufferCurrent, isFull, pFile, file, rotated>>
      /\ countBufferCurrent' = 0
  BY DEF FlushReturn, diskVars
<1>5. OnDisk' = OnDisk /\ LogOpen' = LogOpen
  BY <1>2, <1>4, FilesKept DEF Process
<1>6. ASSUME LogOpen PROVE InCurrent' = InCurrent
  <2>1. Written(pBufferCurrent) = countBufferCurrent
    BY <1>1, <1>3, <1>6 DEF Views, WrittenView, Process
  <2>2. InCurrent = SubSeq(buffer[pBufferCurrent], countBufferCurrent + 1, countBufferCurrent)
    BY <1>1, <1>2, <1>3, <2>1 DEF Views, MemoryView
  <2>3. InCurrent = <<>>
    BY <1>3, <2>2, SubSeqEmpty
  <2>4. InCurrent' = SubSeq(buffer[pBufferCurrent], Written(pBufferCurrent)' + 1, 0)
    BY <1>1, <1>2, <1>3, <1>4 DEF Views, MemoryView
  <2>5. Written(pBufferCurrent)' \in Nat
    BY <1>1, <1>3, <1>4, BufferAssumption DEF Views, WrittenView
  <2> QED BY <2>3, <2>4, <2>5, SubSeqEmpty
<1> QED BY <1>1, <1>3, <1>4, <1>5, <1>6, MemoryKept

\* A new log is empty.
LEMMA OpenFileOpens ==
  ASSUME Known, Control, (Known /\ Control)', OpenFile
  PROVE  Log!Open
<1>1. Views /\ Views'
  BY ViewsHold, ViewsHoldNext
<1>2. pc["controller"] = "open" /\ pc'["controller"] = "lockReset"
  BY GotoMoves DEF OpenFile, Known, Process
<1>3. \A b \in Buffer : ~isFull[b]
  BY <1>2, OneWorks
<1>4. /\ isFull' = isFull /\ pBufferCurrent' \in Buffer /\ countBufferCurrent' = 0
      /\ pFile' = TRUE /\ file' = <<>> /\ rotated' = <<>>
  BY DEF OpenFile, Buffer
<1>5. LogOpen' = TRUE
  BY <1>4 DEF LogOpen
<1>6. InMemory' = <<>>
  <2>1. InMemory' = InCurrent'
    BY <1>1, <1>3, <1>4, <1>5 DEF Views, MemoryView
  <2>2. InCurrent' = SubSeq(buffer'[pBufferCurrent'], Written(pBufferCurrent)' + 1, 0)
    BY <1>1, <1>2, <1>4 DEF Views, MemoryView
  <2>3. Written(pBufferCurrent)' \in Nat
    BY <1>1, <1>4, BufferAssumption DEF Views, WrittenView
  <2> QED BY <2>1, <2>2, <2>3, SubSeqEmpty
<1>7. OnDisk' = <<>>
  <2>1. Len(rotated') = 0 /\ Len(file') = 0
    BY <1>4, EmptySeq
  <2>2. OnDisk' \in Seq(Record) /\ Len(OnDisk') = Len(rotated') * FileMax + Len(file')
    BY <1>1 DEF Views, DiskView
  <2>3. 0 * FileMax + 0 = 0
    BY FileAssumption
  <2> QED BY <2>1, <2>2, <2>3, EmptySeq
<1> QED BY <1>5, <1>6, <1>7 DEF Log!Open

\* A file that is not opened, or that is closed, ends the log.
LEMMA CloseStops ==
  ASSUME Known, Control, (Known /\ Control)', OpenFails \/ Close
  PROVE  Drained \/ UNCHANGED Log!vars
<1>1. Views /\ Views'
  BY ViewsHold, ViewsHoldNext
<1>2. ~pFile' /\ UNCHANGED <<file, rotated>>
  BY DEF OpenFails, Close
<1>3. \A p \in Process : pc'[p] \notin InFlush
  <2>1. CASE OpenFails
    <3>1. pc["controller"] = "open" /\ pc'["controller"] = "idle" /\ pc'["flusher"] = pc["flusher"]
      BY <2>1, GotoMoves DEF OpenFails, Return, Known, Process
    <3>2. pc["flusher"] \notin InFlush
      BY <3>1, OneWorks DEF InClear
    <3> QED BY <3>1, <3>2 DEF InFlush, Process
  <2>2. CASE Close
    BY <2>2 DEF Close, InFlush, Process
  <2> QED BY <2>1, <2>2
<1>4. ~LogOpen'
  BY <1>2, <1>3 DEF LogOpen, InFlush
<1>5. OnDisk' = OnDisk
  BY <1>2 DEF OnDisk
<1> QED BY <1>1, <1>4, <1>5, GivesUp

\* The flusher starts with a full buffer of which nothing is written.
LEMMA SnapshotUnseen ==
  ASSUME Known, Control, (Known /\ Control)', Snapshot
  PROVE  UNCHANGED Log!vars
<1>1. Views /\ Views'
  BY ViewsHold, ViewsHoldNext
<1>2. /\ pc["flusher"] = "snapshot" /\ pc'["flusher"] \in {"loop", "write"}
      /\ pc'["controller"] = pc["controller"]
  BY GotoMoves DEF Snapshot, Known, Process
<1>3. UNCHANGED <<buffer, pBufferCurrent, countBufferCurrent, isFull, pFile, file, rotated>>
  BY DEF Snapshot, memoryVars, diskVars
<1>4. OnDisk' = OnDisk /\ LogOpen' = LogOpen
  BY <1>2, <1>3, FilesKept DEF Process
<1>5. job["flusher"].buffer = NULL
  BY <1>2 DEF Control, Jobs, InClear, InFlush
<1>6. job'["controller"] = job["controller"] /\ NULL \notin Buffer
  BY Functions DEF Snapshot, Process, NULL, Buffer
<1>7. job'["flusher"].buffer = NULL \/ isFull[job'["flusher"].buffer]
  <2>1. pc'["flusher"] \in InClear => isFull'[job'["flusher"].buffer]
    <3>1. FlusherOwns'
      BY DEF Known, Exclusion
    <3> QED BY <3>1 DEF FlusherOwns, InClear
  <2>2. pc'["flusher"] \notin InClear => job'["flusher"].buffer = NULL
    BY DEF Control, Jobs
  <2> QED BY <1>3, <2>1, <2>2
<1>8. InCurrent' = InCurrent
  <2>1. pBufferCurrent \in Buffer /\ pc["controller"] # "switch" => ~isFull[pBufferCurrent]
    BY <1>1 DEF Views, MemoryView
  <2> QED BY <1>1, <1>2, <1>3, <1>5, <1>6, <1>7, <2>1, Functions, CurrentKept
<1>9. ASSUME NEW b \in Buffer, isFull[b] PROVE Written(b)' = Written(b)
  <2>1. job["controller"].buffer # b
    <3>1. pc["controller"] \notin InFlush
      BY <1>9, OneWorks
    <3> QED BY <1>6, <3>1 DEF Control, Jobs
  <2>2. Written(b) = 0
    BY <1>1, <1>5, <1>6, <2>1 DEF Views, WrittenView, Process
  <2>3. CASE job'["flusher"].buffer = b
    <3>1. pc'["flusher"] = "write"
      BY <1>2, <1>6, <2>3 DEF Control, Jobs, InClear, InFlush
    <3>2. job'["flusher"].done = 0
      BY <3>1 DEF Control, Jobs, DoneAt, Process
    <3> QED BY <1>1, <2>2, <2>3, <3>2 DEF Views, WrittenView, Process
  <2>4. CASE job'["flusher"].buffer # b
    BY <1>1, <1>6, <2>1, <2>2, <2>4 DEF Views, WrittenView, Process
  <2> QED BY <2>3, <2>4
<1> QED BY <1>1, <1>3, <1>4, <1>8, <1>9, MemoryKept

\* The buffer that the flusher says is not full any more is on the disk.
LEMMA ClearFullUnseen ==
  ASSUME Known, Control, (Known /\ Control)', ClearFull
  PROVE  UNCHANGED Log!vars
<1>1. Views /\ Views'
  BY ViewsHold, ViewsHoldNext
<1>2. /\ pc["flusher"] = "clear" /\ pc'["flusher"] \in {"reassign", "write"}
      /\ pc'["controller"] = pc["controller"]
  BY GotoMoves DEF ClearFull, Known, Process
<1> DEFINE b == job["flusher"].buffer
<1>3. /\ UNCHANGED <<buffer, pBufferCurrent, countBufferCurrent, pFile, file, rotated>>
      /\ isFull' = [isFull EXCEPT ![b] = FALSE]
      /\ job'["controller"] = job["controller"]
  BY Functions DEF ClearFull, memoryVars, diskVars, Process
<1>4. OnDisk' = OnDisk /\ LogOpen' = LogOpen
  BY <1>2, <1>3, FilesKept DEF Process
<1>5. /\ b \in Buffer /\ isFull[b] /\ pBufferCurrent \in Buffer
      /\ job["flusher"].count = BufferMax /\ doFlush = {b}
      /\ LogOpen => job["flusher"].done = BufferMax
  BY <1>2, OneWorks DEF Control, Space, Jobs, DoneAt, InClear, Process
<1>6. \A c \in Buffer : ~isFull'[c]
  <2>1. \A c \in Buffer : isFull[c] => c = b
    BY <1>5 DEF Control, LeftFull
  <2> QED BY <1>3, <1>5, <2>1, Functions
<1>7. job'["flusher"].buffer = NULL
  <2>1. pc'["flusher"] = "reassign"
    BY <1>2, <1>5, GotoMoves DEF ClearFull, Known, Process
  <2> QED BY <2>1 DEF Control, Jobs, InClear, InFlush
<1>8. InCurrent' = InCurrent
  <2>1. pBufferCurrent \in Buffer /\ pc["controller"] # "switch" => b # pBufferCurrent
    BY <1>1, <1>5 DEF Views, MemoryView
  <2>2. NULL \notin Buffer
    BY DEF NULL, Buffer
  <2> QED BY <1>1, <1>2, <1>3, <1>5, <1>7, <2>1, <2>2, CurrentKept
<1>9. ASSUME LogOpen PROVE InMemory' = InMemory
  <2>1. Written(b) = BufferMax
    BY <1>1, <1>5, <1>9 DEF Views, WrittenView, Process
  <2>2. InMemory = SubSeq(buffer[b], BufferMax + 1, BufferMax) \o InCurrent
    BY <1>1, <1>5, <1>9, <2>1 DEF Views, MemoryView
  <2>3. SubSeq(buffer[b], BufferMax + 1, BufferMax) = <<>>
    BY BufferAssumption, SubSeqEmpty
  <2>4. <<>> \o InCurrent = InCurrent
    BY <1>1, ConcatEmptySeq DEF Views, MemoryView
  <2>5. InMemory' = InCurrent'
    BY <1>1, <1>4, <1>6, <1>9 DEF Views, MemoryView
  <2> QED BY <1>8, <2>2, <2>3, <2>4, <2>5
<1>10. ~LogOpen => InMemory' = InMemory
  BY <1>1, <1>4 DEF Views, MemoryView
<1> QED BY <1>4, <1>9, <1>10 DEF Log!vars

-----------------------------------------------------------------------------
(* The order of the records.                                               *)

\* The calls, and the steps of a call, that touch neither a record nor a file.
QuietStep ==
  \/ Write \/ WriteReturn \/ WriteFlush \/ WriteFull \/ WriteWhich
  \/ Flush \/ Open \/ StillFlushing \/ IsFlushing
  \/ RunFlushInNewThread \/ SetReady \/ CloseThread \/ Join
  \/ Lock("controller", "lockMark", "mark") \/ Lock("controller", "tryLock", "isFlushing")
  \/ Lock("controller", "lockReset", "reset") \/ ResetFull
  \/ Start \/ End \/ TryLock \/ Flushed \/ Lock("flusher", "lockClear", "clear") \/ Reassign

\* The log does not see them.
LEMMA QuietUnseen ==
  ASSUME Known, Control, QuietStep
  PROVE  UNCHANGED Log!vars
<1>1. pc = [p \in Process |-> pc[p]]
  BY Functions
<1>2. UNCHANGED <<buffer, pBufferCurrent, countBufferCurrent, job, pFile, file, rotated>>
  BY DEF QuietStep, Write, WriteReturn, WriteFlush, WriteFull, WriteWhich, Flush, Open, StillFlushing,
         IsFlushing, RunFlushInNewThread, SetReady, CloseThread, Join, Lock, ResetFull, Start, End,
         TryLock, Flushed, Reassign, memoryVars, diskVars
<1>3. isFull' = isFull
  <2>1. CASE ResetFull
    <3>1. pc["controller"] = "reset" /\ isFull' = [b \in Buffer |-> FALSE]
      BY <2>1 DEF ResetFull, Return, Goto
    <3>2. \A b \in Buffer : ~isFull[b]
      BY <3>1, OneWorks
    <3> QED BY <3>1, <3>2, Functions
  <2>2. CASE ~ResetFull
    BY <2>2 DEF QuietStep, Write, WriteReturn, WriteFlush, WriteFull, WriteWhich, Flush, Open,
         StillFlushing, IsFlushing, RunFlushInNewThread, SetReady, CloseThread, Join, Lock, Start, End,
         TryLock, Flushed, Reassign
  <2> QED BY <2>1, <2>2
<1>4. \A p \in Process : \/ pc'[p] = pc[p]
                         \/ {pc[p], pc'[p]} \cap {"rename", "reopen", "switch"} = {}
  BY <1>1 DEF QuietStep, Write, WriteReturn, WriteFlush, WriteFull, WriteWhich, Flush, Open,
         StillFlushing, IsFlushing, RunFlushInNewThread, SetReady, CloseThread, Join, Lock, ResetFull,
         Start, End, TryLock, Flushed, Reassign, Goto, Return, Process
<1> QED BY <1>2, <1>3, <1>4, Unseen

\* What a step is to the log: all but the counting of a record.
LEMMA StepKinds ==
  ASSUME Known, Control, (Known /\ Control)', [PacedNext]_vars, ~WriteIncrement
  PROVE  Drained \/ Log!Open \/ UNCHANGED Log!vars
<1>1. ~WriteStop /\ ~Assign /\ ~ZeroCount
  BY DEF WriteStop, Assign, ZeroCount, Return, Goto, Control, Paced
<1>2. CASE QuietStep
  BY <1>2, QuietUnseen
<1>3. CASE \/ WriteCopy \/ MarkFull \/ WriteSwitch \/ FlushArgs \/ FlushReturn
           \/ Snapshot \/ ClearFull
  BY <1>3, WriteCopyUnseen, MarkFullUnseen, WriteSwitchUnseen, FlushArgsUnseen, FlushReturnUnseen,
     SnapshotUnseen, ClearFullUnseen
<1>4. CASE OpenFile
  BY <1>4, OpenFileOpens
<1>5. CASE OpenFails \/ Close
  BY <1>5, CloseStops
<1>6. ASSUME NEW p \in Process, FlushToFile(p) PROVE Drained \/ UNCHANGED Log!vars
  BY <1>6, FlushLog
<1>7. CASE UNCHANGED vars
  BY <1>7, Unseen DEF vars, memoryVars, diskVars
<1>8. PacedNext \/ UNCHANGED vars
  OBVIOUS
<1>9. CASE Next
  <2>1. CASE ControllerCall
    BY <2>1, <1>2, <1>5 DEF ControllerCall, QuietStep
  <2>2. CASE ControllerStep
    <3>1. CASE FlushToFile("controller")
      BY <3>1, <1>6 DEF Process
    <3> QED BY <2>2, <3>1, <1>1, <1>2, <1>3, <1>4, <1>5 DEF ControllerStep, QuietStep
  <2>3. CASE FlusherStep
    <3>1. CASE FlushToFile("flusher")
      BY <3>1, <1>6 DEF Process
    <3> QED BY <2>3, <3>1, <1>1, <1>2, <1>3 DEF FlusherStep, QuietStep
  <2> QED BY <1>9, <2>1, <2>2, <2>3 DEF Next
<1> QED BY <1>7, <1>8, <1>9 DEF PacedNext

\* The record the controller is writing is newer than those in the log.
Newest == IF pc["controller"] \in {"copy", "increment"} THEN data - 1 ELSE data
UpTo(s, n) == \A i \in DOMAIN s : s[i] <= n
Older == UpTo(OnDisk, Newest) /\ UpTo(InMemory, Newest)

\* It only grows, and by the record that is counted.
LEMMA NewestGrows ==
  ASSUME Known, Control, [PacedNext]_vars
  PROVE  /\ Newest \in Int /\ Newest' \in Int /\ Newest <= Newest'
         /\ WriteIncrement => Newest = data - 1 /\ Newest' = data
<1>1. pc = [p \in Process |-> pc[p]] /\ data \in Int
  BY BoundAssumption, Functions DEF Known, Rotation, MemoryOK, MemoryTyped, Record
<1> DEFINE Writing == pc["controller"] \in {"copy", "increment"}
<1>2. CASE Write
  BY <1>1, <1>2 DEF Write, WriteIncrement, Goto, Newest, Process
<1>3. CASE WriteCopy
  <2>1. pc["controller"] = "copy" /\ pc'["controller"] \in {"increment", "test"} /\ data' = data
    BY <1>1, <1>3 DEF WriteCopy, Goto, Process
  <2>2. ~WriteIncrement
    BY <2>1 DEF WriteIncrement, Goto
  <2> QED BY <1>1, <2>1, <2>2 DEF Newest
<1>4. CASE WriteIncrement
  BY <1>1, <1>4 DEF WriteIncrement, Goto, Newest, Process
<1>5. CASE /\ ~WriteIncrement /\ data' = data
           /\ (pc'["controller"] \in {"copy", "increment"} <=> pc["controller"] \in {"copy", "increment"})
  BY <1>1, <1>5 DEF Newest
<1>6. CASE /\ ~WriteIncrement
           /\ \/ Flush \/ Open \/ Close \/ RunFlushInNewThread \/ CloseThread
              \/ WriteReturn \/ WriteFlush \/ WriteFull \/ WriteWhich
              \/ Lock("controller", "lockMark", "mark") \/ MarkFull
              \/ WriteSwitch \/ WriteStop
              \/ Lock("controller", "tryLock", "isFlushing") \/ StillFlushing \/ IsFlushing
              \/ FlushArgs \/ FlushReturn
              \/ OpenFile \/ OpenFails \/ Lock("controller", "lockReset", "reset") \/ ResetFull
              \/ SetReady \/ Join
  <2>1. data' = data
    BY <1>6 DEF Flush, Open, Close, RunFlushInNewThread, CloseThread,
         WriteReturn, WriteFlush, WriteFull, WriteWhich, Lock, MarkFull, WriteSwitch,
         WriteStop, StillFlushing, IsFlushing, FlushArgs, FlushReturn, OpenFile, OpenFails, ResetFull,
         SetReady, Join, writeVars
  <2>2. pc'["controller"] \notin {"copy", "increment"} /\ pc["controller"] \notin {"copy", "increment"}
    BY <1>1, <1>6 DEF Flush, Open, Close, RunFlushInNewThread, CloseThread,
         WriteReturn, WriteFlush, WriteFull, WriteWhich, Lock, MarkFull, WriteSwitch,
         WriteStop, StillFlushing, IsFlushing, FlushArgs, FlushReturn, OpenFile, OpenFails, ResetFull,
         SetReady, Join, Goto, Return, Process
  <2> QED BY <1>5, <1>6, <2>1, <2>2
<1>7. ASSUME NEW p \in Process, FlushToFile(p), ~WriteIncrement
      PROVE  Newest' = Newest /\ Newest \in Int
  <2>1. /\ data' = data
        /\ \/ pc'["controller"] = pc["controller"]
           \/ pc'["controller"] \in InFlush /\ pc["controller"] \in InFlush
    BY <1>7, FlushControl DEF Process
  <2> QED BY <1>1, <2>1 DEF Newest, InFlush
<1>8. CASE /\ ~WriteIncrement
           /\ \/ Start \/ End \/ TryLock \/ Snapshot \/ Flushed
              \/ Lock("flusher", "lockClear", "clear") \/ ClearFull
              \/ Reassign \/ Assign \/ ZeroCount
  <2>1. pc'["controller"] = pc["controller"] /\ data' = data
    BY <1>1, <1>8 DEF Start, End, TryLock, Snapshot, Flushed, Lock, ClearFull, Reassign, Assign,
         ZeroCount, Goto, Process, writeVars
  <2> QED BY <1>5, <1>8, <2>1
<1>9. CASE UNCHANGED vars
  <2>1. pc' = pc /\ data' = data
    BY <1>9 DEF vars, writeVars
  <2>2. ~WriteIncrement
    BY <1>1, <2>1 DEF WriteIncrement, Goto, Process
  <2> QED BY <1>5, <2>1, <2>2
<1>10. CASE PacedNext /\ ~WriteIncrement
  <2>1. ControllerCall \/ ControllerStep \/ FlusherStep
    BY <1>10 DEF PacedNext, Next
  <2>2. ASSUME FlushToFile("controller") \/ FlushToFile("flusher")
        PROVE  Newest' = Newest /\ Newest \in Int
    BY <1>7, <1>10, <2>2 DEF Process
  <2> QED BY <1>2, <1>3, <1>6, <1>8, <1>10, <2>1, <2>2 DEF ControllerCall, ControllerStep, FlusherStep
<1> QED BY <1>4, <1>9, <1>10

\* Sequences of records up to the record n.
LEMMA UpToParts ==
  ASSUME NEW s \in Seq(Record), NEW n \in Int, UpTo(s, n)
  PROVE  /\ \A m \in Int : n <= m => UpTo(s, m)
         /\ \A t \in Seq(Record) : UpTo(t, n) => UpTo(s \o t, n)
         /\ \A w, m \in Nat : w <= m /\ m <= Len(s) => UpTo(SubSeq(s, w + 1, m), n)
<1>1. Len(s) \in Nat /\ DOMAIN s = 1 .. Len(s) /\ \A i \in 1 .. Len(s) : s[i] \in Int /\ s[i] <= n
  <2>1. Len(s) \in Nat /\ DOMAIN s = 1 .. Len(s)
    BY LenProperties
  <2>2. ASSUME NEW i \in 1 .. Len(s) PROVE s[i] \in Int
    <3>1. s[i] \in Record
      BY ElementOfSeq
    <3> QED BY <3>1, BoundAssumption DEF Record
  <2> QED BY <2>1, <2>2 DEF UpTo
<1>2. ASSUME NEW m \in Int, n <= m PROVE UpTo(s, m)
  BY <1>1, <1>2 DEF UpTo
<1>3. ASSUME NEW t \in Seq(Record), UpTo(t, n) PROVE UpTo(s \o t, n)
  <2> DEFINE both == s \o t
  <2>1. Len(t) \in Nat /\ DOMAIN t = 1 .. Len(t)
    BY LenProperties
  <2>2. both \in Seq(Record) /\ Len(both) = Len(s) + Len(t)
        /\ \A i \in 1 .. Len(s) + Len(t) : both[i] = IF i <= Len(s) THEN s[i] ELSE t[i - Len(s)]
    BY ConcatProperties
  <2> HIDE DEF both
  <2>3. DOMAIN both = 1 .. Len(s) + Len(t)
    BY <2>2, LenProperties
  <2>4. ASSUME NEW i \in 1 .. Len(s) + Len(t) PROVE both[i] <= n
    <3>1. CASE i <= Len(s)
      BY <1>1, <2>1, <2>2, <3>1
    <3>2. CASE ~(i <= Len(s))
      <4>1. i - Len(s) \in 1 .. Len(t) /\ both[i] = t[i - Len(s)]
        BY <1>1, <2>1, <2>2, <3>2
      <4> QED BY <1>3, <2>1, <4>1 DEF UpTo
    <3> QED BY <3>1, <3>2
  <2> QED BY <2>3, <2>4 DEF UpTo, both
<1>4. ASSUME NEW w \in Nat, NEW m \in Nat, w <= m, m <= Len(s)
      PROVE  UpTo(SubSeq(s, w + 1, m), n)
  <2> DEFINE part == SubSeq(s, w + 1, m)
  <2>1. /\ part \in Seq(Record) /\ Len(part) = m - w
        /\ \A i \in 1 .. m - w : part[i] = s[w + i]
    BY <1>4, PartIs
  <2> HIDE DEF part
  <2>2. DOMAIN part = 1 .. m - w
    BY <2>1, LenProperties
  <2>3. ASSUME NEW i \in 1 .. m - w PROVE part[i] <= n
    BY <1>1, <1>4, <2>1
  <2> QED BY <2>2, <2>3 DEF UpTo, part
<1> QED BY <1>2, <1>3, <1>4

\* The records that leave the memory for the disk are no newer.
LEMMA DrainedOlder ==
  ASSUME Views, Older, Newest \in Int, Drained
  PROVE  UpTo(OnDisk', Newest) /\ UpTo(InMemory', Newest)
<1>1. PICK n \in 0 .. Len(InMemory) : Log!Drain(n) \/ Log!Stop(n)
  BY DEF Drained
<1>2. OnDisk \in Seq(Record) /\ InMemory \in Seq(Record) /\ Len(InMemory) \in Nat
  BY LenProperties DEF Views, DiskView, MemoryView
<1>3. /\ 0 \in Nat /\ n \in Nat /\ Len(InMemory) \in Nat
      /\ 0 <= n /\ n <= Len(InMemory) /\ Len(InMemory) <= Len(InMemory)
  BY <1>2
<1>4. UpTo(OnDisk', Newest)
  <2> DEFINE part == SubSeq(InMemory, 0 + 1, n)
  <2>1. part \in Seq(Record)
    BY <1>2, <1>3, PartIs
  <2>2. UpTo(part, Newest)
    BY <1>2, <1>3, UpToParts DEF Older
  <2>3. UpTo(OnDisk \o part, Newest)
    BY <1>2, <2>1, <2>2, UpToParts DEF Older
  <2>4. OnDisk' = OnDisk \o SubSeq(InMemory, 1, n) /\ 0 + 1 = 1
    BY <1>1 DEF Log!Drain, Log!Stop
  <2> QED BY <2>3, <2>4
<1>5. UpTo(InMemory', Newest)
  <2>1. CASE Log!Drain(n)
    <3>1. InMemory' = SubSeq(InMemory, n + 1, Len(InMemory))
      BY <2>1 DEF Log!Drain
    <3> QED BY <1>2, <1>3, <3>1, UpToParts DEF Older
  <2>2. CASE Log!Stop(n)
    BY <2>2 DEF Log!Stop, UpTo
  <2> QED BY <1>1, <2>1, <2>2
<1> QED BY <1>4, <1>5

\* The records in the log stay older than the one being written.
LEMMA NextOlder ==
  Known /\ Control /\ Copied /\ Older /\ [PacedNext]_vars /\ (Known /\ Control)' => Older'
<1> SUFFICES ASSUME Known, Control, Copied, Older, [PacedNext]_vars, (Known /\ Control)' PROVE Older'
  OBVIOUS
<1>1. Views /\ Views'
  BY ViewsHold, ViewsHoldNext
<1>2. Newest \in Int /\ Newest' \in Int /\ Newest <= Newest'
  BY NewestGrows
<1>3. /\ OnDisk \in Seq(Record) /\ InMemory \in Seq(Record)
      /\ OnDisk' \in Seq(Record) /\ InMemory' \in Seq(Record)
  BY <1>1 DEF Views, DiskView, MemoryView
<1>4. ASSUME UpTo(OnDisk', Newest), UpTo(InMemory', Newest) PROVE Older'
  <2>1. UpTo(OnDisk', Newest')
    BY <1>2, <1>3, <1>4, UpToParts
  <2>2. UpTo(InMemory', Newest')
    BY <1>2, <1>3, <1>4, UpToParts
  <2>3. UpTo(OnDisk, Newest)' /\ UpTo(InMemory, Newest)'
    BY <2>1, <2>2 DEF UpTo
  <2> QED BY <2>3 DEF Older
<1>5. CASE WriteIncrement
  <2>1. Newest = data - 1 /\ Newest' = data
    BY <1>5, NewestGrows
  <2>2. /\ OnDisk' = OnDisk /\ LogOpen' = LogOpen
        /\ LogOpen => InMemory' = Append(InMemory, data)
    BY <1>5, WriteIncrementWrites
  <2>3. UpTo(OnDisk', Newest') /\ UpTo(InMemory, Newest')
    <3>1. UpTo(OnDisk, Newest')
      BY <1>2, <1>3, UpToParts DEF Older
    <3>2. UpTo(InMemory, Newest')
      BY <1>2, <1>3, UpToParts DEF Older
    <3> QED BY <2>2, <3>1, <3>2
  <2>4. UpTo(InMemory', Newest')
    <3>1. CASE LogOpen
      <4>1. <<data>> \in Seq(Record) /\ data \in Record /\ data \in Int
        BY BoundAssumption DEF Known, Rotation, MemoryOK, MemoryTyped, Record
      <4>2. UpTo(<<data>>, Newest')
        BY <2>1, <4>1 DEF UpTo
      <4>3. Append(InMemory, data) = InMemory \o <<data>>
        BY <1>3, <4>1, AppendIsConcat
      <4>4. UpTo(InMemory \o <<data>>, Newest')
        BY <1>2, <1>3, <2>3, <4>1, <4>2, UpToParts
      <4> QED BY <2>2, <3>1, <4>3, <4>4
    <3>2. CASE ~LogOpen
      BY <1>1, <2>2, <3>2 DEF Views, MemoryView, UpTo
    <3> QED BY <3>1, <3>2
  <2>5. UpTo(OnDisk, Newest)' /\ UpTo(InMemory, Newest)'
    BY <2>3, <2>4 DEF UpTo
  <2> QED BY <2>5 DEF Older
<1>6. CASE ~WriteIncrement
  <2>1. CASE Drained
    BY <1>1, <1>2, <1>4, <2>1, DrainedOlder
  <2>2. CASE Log!Open
    BY <1>4, <2>2 DEF Log!Open, UpTo
  <2>3. CASE UNCHANGED Log!vars
    BY <1>4, <2>3 DEF Log!vars, Older, UpTo
  <2> QED BY <1>6, <2>1, <2>2, <2>3, StepKinds
<1> QED BY <1>5, <1>6

\* Before the log is opened there is nothing in it.
LEMMA InitRefines == Init => Log!Init
<1> SUFFICES ASSUME Init PROVE Log!Init
  OBVIOUS
<1>1. LogOpen = FALSE
  BY DEF Init, LogOpen, Process
<1>2. InMemory = <<>>
  BY <1>1 DEF InMemory
<1>3. OnDisk = <<>>
  <2>1. Len(rotated) = 0 /\ Len(file) = 0 /\ 0 * FileMax + 0 = 0
    BY FileAssumption, EmptySeq DEF Init
  <2>2. DiskTyped /\ RotatedFull
    BY InitRotation DEF Rotation, DiskOK
  <2>3. OnDisk \in Seq(Record) /\ Len(OnDisk) = Len(rotated) * FileMax + Len(file)
    BY <2>2, DiskIs DEF DiskView
  <2> QED BY <2>1, <2>3, EmptySeq
<1> QED BY <1>1, <1>2, <1>3 DEF Log!Init

\* At first nothing is being written.
LEMMA InitOlder == Init => Copied /\ Older
<1> SUFFICES ASSUME Init PROVE Copied /\ Older
  OBVIOUS
<1>1. pc["controller"] = "idle"
  BY DEF Init
<1>2. OnDisk = <<>> /\ InMemory = <<>>
  BY InitRefines DEF Log!Init
<1> QED BY <1>1, <1>2 DEF Copied, Older, UpTo

\* Every step of the paced log is a step of the abstract one.
LEMMA StepRefines ==
  Known /\ Control /\ Copied /\ Older /\ [PacedNext]_vars /\ (Known /\ Control)'
    => [Log!Next]_(Log!vars)
<1> SUFFICES ASSUME Known, Control, Copied, Older, [PacedNext]_vars, (Known /\ Control)'
             PROVE  [Log!Next]_(Log!vars)
  OBVIOUS
<1>1. CASE WriteIncrement
  <2>1. Newest = data - 1 /\ Newest' = data
    BY <1>1, NewestGrows
  <2>2. /\ OnDisk' = OnDisk /\ LogOpen' = LogOpen
        /\ LogOpen => InMemory' = Append(InMemory, data)
    BY <1>1, WriteIncrementWrites
  <2>3. CASE LogOpen
    <3>1. data \in 1 .. MaxRecord /\ data \in Int
      BY <1>1, BoundAssumption
         DEF WriteIncrement, Goto, Copied, Known, Rotation, MemoryOK, MemoryTyped, Record
    <3>2. Views
      BY ViewsHold
    <3>3. ASSUME NEW s \in Seq(Record), UpTo(s, data - 1) PROVE \A i \in DOMAIN s : s[i] < data
      <4> SUFFICES ASSUME NEW i \in DOMAIN s PROVE s[i] < data
        OBVIOUS
      <4>1. i \in 1 .. Len(s)
        BY LenProperties
      <4>2. s[i] \in Record
        BY <4>1, ElementOfSeq
      <4> QED BY <3>1, <3>3, <4>2, BoundAssumption DEF UpTo, Record
    <3>4. \A i \in DOMAIN OnDisk : OnDisk[i] < data
      BY <2>1, <3>2, <3>3 DEF Older, Views, DiskView
    <3>5. \A i \in DOMAIN InMemory : InMemory[i] < data
      BY <2>1, <3>2, <3>3 DEF Older, Views, MemoryView
    <3>6. Log!Write(data)
      BY <2>2, <2>3, <3>4, <3>5 DEF Log!Write
    <3> QED BY <3>1, <3>6 DEF Log!Next
  <2>4. CASE ~LogOpen
    <3>1. Views /\ Views'
      BY ViewsHold, ViewsHoldNext
    <3>2. InMemory' = InMemory
      BY <2>2, <2>4, <3>1 DEF Views, MemoryView
    <3> QED BY <2>2, <3>2 DEF Log!vars
  <2> QED BY <2>3, <2>4
<1>2. CASE ~WriteIncrement
  <2>1. CASE Drained
    BY <2>1 DEF Drained, Log!Next
  <2>2. CASE Log!Open
    BY <2>2 DEF Log!Next
  <2> QED BY <1>2, <2>1, <2>2, StepKinds
<1> QED BY <1>1, <1>2

\* All that a paced controller keeps true.
LEMMA PacedIsInOrder == PacedSpec => [](Known /\ Control /\ Copied /\ Older)
<1>1. Init => Known /\ Control /\ Copied /\ Older
  BY InitRotation, InitExclusion, InitControl, InitOlder DEF Known
<1>2. Known /\ Control /\ Copied /\ Older /\ [PacedNext]_vars => (Known /\ Control /\ Copied /\ Older)'
  <2> SUFFICES ASSUME Known, Control, Copied, Older, [PacedNext]_vars
               PROVE  Known' /\ Control' /\ Copied' /\ Older'
    OBVIOUS
  <2>1. [Next]_vars
    BY DEF PacedNext
  <2>2. Exclusion'
    BY <2>1, NextExclusion DEF Known
  <2>3. FileExclusive'
    BY <2>2, ExclusionExcludes, PTL
  <2>4. Known'
    BY <2>1, <2>2, <2>3, NextRotation DEF Known
  <2>5. Control' /\ Copied'
    BY NextControl, NextCopied
  <2>6. Older'
    BY <2>4, <2>5, NextOlder
  <2> QED BY <2>4, <2>5, <2>6
<1> QED BY <1>1, <1>2, PTL DEF PacedSpec

\* The two buffers, the rotating files and the two threads of logTlm.c implement
\* a log that writes every record once and in order, for every size of a buffer
\* and of a file, as long as the controller keeps the pace.
THEOREM LogIsInOrder == PacedSpec => LogsInOrder
<1>1. PacedSpec => Log!Init
  BY InitRefines DEF PacedSpec
<1> QED BY <1>1, PacedIsInOrder, StepRefines, PTL DEF PacedSpec, LogsInOrder, Log!Spec
=============================================================================
