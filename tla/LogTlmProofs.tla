---------------------------- MODULE LogTlmProofs ----------------------------
(***************************************************************************)
(* Proofs about LogTlm.                                                    *)
(*                                                                         *)
(* First, the two threads never meet in logTlm_flushToFile().              *)
(* FileExclusive is not inductive: that nobody is flushing when a thread   *)
(* starts to flush follows from what the flags say at that moment, and     *)
(* from what each thread knows about them for as long as it flushes        *)
(* (Exclusion).                                                            *)
(*                                                                         *)
(* Then, rotated files have exactly recordPerFile records, and the types.  *)
(* RotationExact speaks of files that are at rest; what the file holds in  *)
(* each step of logTlm_flushToFile() is FlushOK, and that it is so rests   *)
(* on there being one thread in it.  LogOrderProofs builds on both.        *)
(***************************************************************************)
EXTENDS LogTlm, SequenceTheorems, TLAPS

\* The values the argument depends on.
Job == [buffer : Int, count : Int, numToFile : Int, done : Int,
        isRotated : BOOLEAN]
Typed ==
  /\ pc = [p \in Process |-> pc[p]]
  /\ isFull \in [Buffer -> BOOLEAN]
  /\ pBufferCurrent \in Int
  /\ countBufferCurrent \in Int
  /\ read \in Int
  /\ countFile \in Int
  /\ doFlush \subseteq Buffer
  /\ job \in [Process -> Job]

\* Between two calls the controller knows from isThreadReady whether there is
\* a thread; the two differ only while it starts or joins one.
ReadyIsTrue ==
  ~isThreadReady => pc["flusher"] = "none" \/ pc["controller"] \in {"setReady", "join"}

\* What the flusher works on is full until it says otherwise.
FlusherOwns ==
  pc["flusher"] \in InFlush \cup {"lockClear", "clear"} =>
    /\ job["flusher"].buffer \in doFlush
    /\ \A b \in doFlush : isFull[b]

\* The controller flushes, or opens a file, only if there is no thread or nothing
\* for the thread to do.
ControllerOwns ==
  pc["controller"] \in InFlush \cup {"args", "open", "lockReset", "reset"} =>
    pc["flusher"] = "none" \/ \A b \in Buffer : ~isFull[b]

Exclusion == Typed /\ ReadyIsTrue /\ FlusherOwns /\ ControllerOwns

-----------------------------------------------------------------------------
\* What logTlm_flushToFile() will write is a number, and stays one.
LEMMA NumToFileIsInt ==
  ASSUME Typed, NEW n \in Int
  PROVE  NumToFile(n) \in Int
BY FileAssumption DEF Typed, NumToFile, spaceAvailable

\* The arguments of a call are typed.
LEMMA FlushCallIsJob ==
  ASSUME NEW b \in Int, NEW n \in Int
  PROVE  FlushCall(b, n) \in Job /\ FlushCall(b, n).buffer = b
BY DEF FlushCall, Job

\* The job of a thread that has none (NoJob).
LEMMA NoJobIsJob == NoJob \in Job
BY FlushCallIsJob DEF NoJob, NULL

\* The next buffer the flusher turns to is one of those it has to flush.
LEMMA NextJobIsOne ==
  ASSUME NEW bs \in SUBSET Buffer, bs # {}
  PROVE  NextJob(bs) \in Job /\ NextJob(bs).buffer \in bs
<1> DEFINE first == CHOOSE b \in bs : \A c \in bs : b <= c
<1>1. 1 \in bs => \E b \in bs : \A c \in bs : b <= c
  <2>1. \A c \in bs : 1 <= c
    BY DEF Buffer
  <2> QED BY <2>1
<1>2. 1 \notin bs => \E b \in bs : \A c \in bs : b <= c
  <2>1. 1 \notin bs => bs = {2}
    BY DEF Buffer
  <2> QED BY <2>1
<1>3. first \in bs
  <2>1. \E b \in bs : \A c \in bs : b <= c
    BY <1>1, <1>2
  <2> QED BY <2>1
<1>4. BufferMax \in Int
  BY BufferAssumption
<1> HIDE DEF first
<1>5. FlushCall(first, BufferMax) \in Job /\ FlushCall(first, BufferMax).buffer = first
  BY <1>3, <1>4, FlushCallIsJob DEF Buffer
<1> QED BY <1>3, <1>5 DEF NextJob, first

\* Initially nobody flushes.
LEMMA InitExclusion == Init => Exclusion
BY FlushCallIsJob DEF Init, NULL, Exclusion, Typed, ReadyIsTrue, FlusherOwns, ControllerOwns,
                      InFlush, Process, NoJob

\* A call keeps its buffer while it counts what it has written.
LEMMA ProgressIsJob ==
  ASSUME NEW j \in Job, NEW n \in Int
  PROVE  /\ [j EXCEPT !.done = n] \in Job /\ [j EXCEPT !.done = n].buffer = j.buffer
         /\ [j EXCEPT !.isRotated = TRUE] \in Job
         /\ [j EXCEPT !.isRotated = TRUE].buffer = j.buffer
         /\ [j EXCEPT !.numToFile = n, !.done = n] \in Job
         /\ [j EXCEPT !.numToFile = n, !.done = n].buffer = j.buffer
BY DEF Job

\* A thread that stays in logTlm_flushToFile(), with the same buffer and the
\* flags left alone, disturbs nothing.
LEMMA StaysInFlush ==
  ASSUME Exclusion, NEW p \in Process, NEW from \in InFlush, NEW to \in InFlush,
         Goto(p, from, to),
         NEW j \in Job, j.buffer = job[p].buffer, job' = [job EXCEPT ![p] = j],
         countFile' \in Int,
         UNCHANGED <<isFull, isThreadReady, pBufferCurrent, countBufferCurrent, read, doFlush>>
  PROVE  Exclusion'
<1>1. Typed'
  BY DEF Exclusion, Typed, Goto
<1>2. /\ \A q \in Process : pc'[q] = IF q = p THEN to ELSE pc[q]
      /\ \A q \in Process : job'[q].buffer = job[q].buffer
  BY DEF Exclusion, Typed, Goto
<1>3. CASE p = "controller"
  BY <1>1, <1>2, <1>3 DEF Exclusion, ReadyIsTrue, FlusherOwns, ControllerOwns, InFlush,
                          Process, Goto
<1>4. CASE p = "flusher"
  BY <1>1, <1>2, <1>4 DEF Exclusion, ReadyIsTrue, FlusherOwns, ControllerOwns, InFlush,
                          Process, Goto
<1> QED BY <1>3, <1>4 DEF Process

\* The same when the call goes on as it was.
LEMMA StaysUnchanged ==
  ASSUME Exclusion, NEW p \in Process, NEW from \in InFlush, NEW to \in InFlush,
         Goto(p, from, to), countFile' \in Int,
         UNCHANGED <<isFull, isThreadReady, pBufferCurrent, countBufferCurrent, read, doFlush, job>>
  PROVE  Exclusion'
<1>1. job[p] \in Job /\ job' = [job EXCEPT ![p] = job[p]]
  BY DEF Exclusion, Typed
<1> QED BY <1>1, StaysInFlush

\* A step of logTlm_flushToFile() leaves its thread in it and the flags alone.
LEMMA FlushStep ==
  ASSUME Exclusion, NEW p \in Process, FlushToFile(p)
  PROVE  Exclusion'
<1> USE DEF memoryVars, diskVars, writeVars
<1>1. Typed /\ job[p] \in Job /\ countFile \in Int
  BY DEF Exclusion, Typed
<1>2. CASE FlushWrite(p)
  <2> DEFINE n == NumToFile(job[p].count)
             to == IF n = spaceAvailable THEN "rotate" ELSE "count"
             j == [job[p] EXCEPT !.numToFile = n, !.done = n]
  <2>1. n \in Int
    BY <1>1, NumToFileIsInt DEF Job
  <2>2. j \in Job /\ j.buffer = job[p].buffer
    BY <1>1, <2>1, ProgressIsJob
  <2>3. Goto(p, "write", to) /\ "write" \in InFlush /\ to \in InFlush
    BY <1>2 DEF FlushWrite, InFlush
  <2>4. /\ job' = [job EXCEPT ![p] = j]
        /\ countFile' \in Int
        /\ UNCHANGED <<isFull, isThreadReady, pBufferCurrent, countBufferCurrent, read, doFlush>>
    BY <1>1, <1>2 DEF FlushWrite
  <2> HIDE DEF n, to, j
  <2> QED BY <2>2, <2>3, <2>4, StaysInFlush
<1>3. CASE FlushWriteFails(p)
  BY <1>1, <1>3, StaysUnchanged DEF FlushWriteFails, InFlush
<1>4. CASE FlushNoFile(p)
  BY <1>1, <1>4, StaysUnchanged DEF FlushNoFile, InFlush
<1>5. CASE RotateClose(p)
  BY <1>1, <1>5, StaysUnchanged DEF RotateClose, InFlush
<1>6. CASE RotateRename(p)
  BY <1>1, <1>6, StaysUnchanged DEF RotateRename, InFlush
<1>7. CASE RotateOpen(p)
  <2>1. CASE Goto(p, "reopen", "flushed") /\ UNCHANGED job
    BY <1>1, <1>7, <2>1, StaysUnchanged DEF RotateOpen, InFlush
  <2>2. CASE job' = [job EXCEPT ![p].isRotated = TRUE]
             /\ Goto(p, "reopen", IF job[p].done < job[p].count THEN "rest" ELSE "count")
    <3> DEFINE to == IF job[p].done < job[p].count THEN "rest" ELSE "count"
               j == [job[p] EXCEPT !.isRotated = TRUE]
    <3>1. j \in Job /\ j.buffer = job[p].buffer
      BY <1>1, ProgressIsJob
    <3>2. Goto(p, "reopen", to) /\ "reopen" \in InFlush /\ to \in InFlush
      BY <2>2 DEF InFlush
    <3>3. /\ job' = [job EXCEPT ![p] = j]
          /\ countFile' \in Int
          /\ UNCHANGED <<isFull, isThreadReady, pBufferCurrent, countBufferCurrent, read, doFlush>>
      BY <1>1, <1>7, <2>2 DEF RotateOpen
    <3> HIDE DEF to, j
    <3> QED BY <3>1, <3>2, <3>3, StaysInFlush
  <2> QED BY <1>7, <2>1, <2>2 DEF RotateOpen
<1>8. CASE FlushRest(p)
  <2>1. CASE Goto(p, "rest", "flushed") /\ UNCHANGED job
    BY <1>1, <1>8, <2>1, StaysUnchanged DEF FlushRest, InFlush
  <2>2. CASE Goto(p, "rest", "count") /\ job' = [job EXCEPT ![p].done = job[p].count]
    <3> DEFINE j == [job[p] EXCEPT !.done = job[p].count]
    <3>1. j \in Job /\ j.buffer = job[p].buffer
      BY <1>1, ProgressIsJob DEF Job
    <3>2. Goto(p, "rest", "count") /\ "rest" \in InFlush /\ "count" \in InFlush
      BY <2>2 DEF InFlush
    <3>3. /\ job' = [job EXCEPT ![p] = j]
          /\ countFile' \in Int
          /\ UNCHANGED <<isFull, isThreadReady, pBufferCurrent, countBufferCurrent, read, doFlush>>
      BY <1>1, <1>8, <2>2 DEF FlushRest
    <3> HIDE DEF j
    <3> QED BY <3>1, <3>2, <3>3, StaysInFlush
  <2> QED BY <1>8, <2>1, <2>2 DEF FlushRest
<1>9. CASE FlushCount(p)
  <2>1. FileCount(job[p]) \in Int
    BY <1>1 DEF FileCount, Job
  <2> QED BY <1>9, <2>1, StaysUnchanged DEF FlushCount, InFlush
<1> QED BY <1>2, <1>3, <1>4, <1>5, <1>6, <1>7, <1>8, <1>9 DEF FlushToFile

\* No other step of the controller lets it into the flush while the thread is there.
LEMMA ControllerExclusion ==
  ASSUME Exclusion, ControllerCall \/ ControllerStep
  PROVE  Exclusion'
<1> USE DEF Exclusion, Typed, ReadyIsTrue, FlusherOwns, ControllerOwns, InFlush, Goto,
            Return, memoryVars, diskVars, writeVars, Process, Buffer, Other
<1>1. CASE Write
  BY <1>1 DEF Write
<1>2. CASE WriteCopy
  <2>1. read' \in Int
    BY <1>2 DEF WriteCopy
  <2> QED BY <1>2, <2>1 DEF WriteCopy
<1>3. CASE WriteIncrement
  <2>1. countBufferCurrent' \in Int /\ read' \in Int
    BY <1>3 DEF WriteIncrement
  <2> QED BY <1>3, <2>1 DEF WriteIncrement
<1>4. CASE WriteReturn
  BY <1>4 DEF WriteReturn
<1>5. CASE WriteFlush
  BY <1>5 DEF WriteFlush
<1>6. CASE WriteFull
  BY <1>6 DEF WriteFull
<1>7. CASE WriteWhich
  <2>1. read' \in Int
    BY <1>7 DEF WriteWhich
  <2> QED BY <1>7, <2>1 DEF WriteWhich
<1>8. CASE MarkFull
  BY <1>8 DEF MarkFull
<1>9. CASE WriteSwitch
  <2>1. countBufferCurrent' \in Int /\ pBufferCurrent' \in Int /\ read' \in Int
    BY <1>9 DEF WriteSwitch
  <2> QED BY <1>9, <2>1 DEF WriteSwitch
<1>10. CASE WriteStop
  <2>1. pBufferCurrent' \in Int /\ read' \in Int
    BY <1>10 DEF WriteStop, NULL
  <2> QED BY <1>10, <2>1 DEF WriteStop
<1>11. CASE Flush
  BY <1>11 DEF Flush
<1>12. CASE Open
  BY <1>12 DEF Open
<1>13. CASE StillFlushing
  BY <1>13 DEF StillFlushing
<1>14. CASE IsFlushing
  BY <1>14 DEF IsFlushing
<1>15. CASE FlushArgs
  BY <1>15, FlushCallIsJob DEF FlushArgs
<1>16. CASE FlushReturn
  <2>1. NoJob \in Job
    BY NoJobIsJob
  <2>2. countBufferCurrent' \in Int
    BY <1>16 DEF FlushReturn
  <2> QED BY <1>16, <2>1, <2>2 DEF FlushReturn
<1>17. CASE OpenFile
  <2>1. countBufferCurrent' \in Int /\ countFile' \in Int /\ pBufferCurrent' \in Int
    BY <1>17 DEF OpenFile
  <2> QED BY <1>17, <2>1 DEF OpenFile
<1>18. CASE OpenFails
  BY <1>18 DEF OpenFails
<1>19. CASE ResetFull
  BY <1>19 DEF ResetFull
<1>20. CASE Close
  BY <1>20 DEF Close
<1>21. CASE RunFlushInNewThread
  BY <1>21 DEF RunFlushInNewThread
<1>22. CASE SetReady
  BY <1>22 DEF SetReady
<1>23. CASE CloseThread
  BY <1>23 DEF CloseThread
<1>24. CASE Join
  BY <1>24 DEF Join
<1>25. CASE Lock("controller", "lockMark", "mark")
  BY <1>25 DEF Lock
<1>26. CASE Lock("controller", "tryLock", "isFlushing")
  BY <1>26 DEF Lock
<1>27. CASE Lock("controller", "lockReset", "reset")
  BY <1>27 DEF Lock
<1>28. CASE FlushToFile("controller")
  BY <1>28, FlushStep
<1> QED BY <1>1, <1>2, <1>3, <1>4, <1>5, <1>6, <1>7, <1>8, <1>9, <1>10, <1>11, <1>12, <1>13, <1>14,
           <1>15, <1>16, <1>17, <1>18, <1>19, <1>20, <1>21, <1>22, <1>23, <1>24, <1>25, <1>26, <1>27, <1>28
           DEF ControllerCall, ControllerStep

\* The flusher starts on what is full, and says that it is not full any more
\* only once it is done with it.
LEMMA FlusherExclusion ==
  ASSUME Exclusion, FlusherStep
  PROVE  Exclusion'
<1> USE DEF Exclusion, Typed, ReadyIsTrue, FlusherOwns, ControllerOwns, InFlush, Goto,
            memoryVars, diskVars, writeVars, Process, Buffer
<1>1. CASE Start
  BY <1>1 DEF Start
<1>2. CASE End
  BY <1>2 DEF End
<1>3. CASE TryLock
  BY <1>3 DEF TryLock, Lock
<1>4. CASE Snapshot
  <2>1. NoJob \in Job
    BY NoJobIsJob
  <2>2. FullBuffers \in SUBSET Buffer /\ \A b \in FullBuffers : isFull[b]
    BY DEF FullBuffers
  <2>3. FullBuffers # {} => NextJob(FullBuffers) \in Job /\ NextJob(FullBuffers).buffer \in FullBuffers
    BY <2>2, NextJobIsOne
  <2>4. CASE FullBuffers = {}
    BY <1>4, <2>1, <2>4 DEF Snapshot
  <2>5. CASE FullBuffers # {}
    BY <1>4, <2>2, <2>3, <2>5 DEF Snapshot
  <2> QED BY <2>4, <2>5
<1>5. CASE Flushed
  BY <1>5 DEF Flushed
<1>6. CASE ClearFull
  <2> DEFINE left == doFlush \ {job["flusher"].buffer}
  <2>1. NoJob \in Job
    BY NoJobIsJob
  <2>2. left \in SUBSET Buffer
    OBVIOUS
  <2>3. left # {} => NextJob(left) \in Job /\ NextJob(left).buffer \in left
    BY <2>2, NextJobIsOne
  <2>4. CASE left = {}
    BY <1>6, <2>1, <2>4 DEF ClearFull
  <2>5. CASE left # {}
    BY <1>6, <2>2, <2>3, <2>5 DEF ClearFull
  <2> QED BY <2>4, <2>5
<1>7. CASE Reassign
  BY <1>7 DEF Reassign
<1>8. CASE Assign
  <2>1. pBufferCurrent' \in Int
    BY <1>8 DEF Assign
  <2> QED BY <1>8, <2>1 DEF Assign
<1>9. CASE ZeroCount
  <2>1. countBufferCurrent' \in Int
    BY <1>9 DEF ZeroCount
  <2> QED BY <1>9, <2>1 DEF ZeroCount
<1>10. CASE Lock("flusher", "lockClear", "clear")
  BY <1>10 DEF Lock
<1>11. CASE FlushToFile("flusher")
  BY <1>11, FlushStep
<1> QED BY <1>1, <1>2, <1>3, <1>4, <1>5, <1>6, <1>7, <1>8, <1>9, <1>10, <1>11 DEF FlusherStep

\* Every step keeps the two out of each other's way.
LEMMA NextExclusion == Exclusion /\ [Next]_vars => Exclusion'
<1> SUFFICES ASSUME Exclusion, [Next]_vars PROVE Exclusion'
  OBVIOUS
<1>1. CASE Next
  BY <1>1, ControllerExclusion, FlusherExclusion DEF Next
<1>2. CASE UNCHANGED vars
  BY <1>2 DEF vars, memoryVars, diskVars, writeVars, Exclusion, Typed, ReadyIsTrue, FlusherOwns,
              ControllerOwns
<1> QED BY <1>1, <1>2

\* logTlm_flushToFile() takes no mutex, and yet the two threads are never both
\* in it: for any buffer size, file size and number of records and I/O errors.
THEOREM FileIsExclusive == Spec => []FileExclusive
<1>1. Exclusion => FileExclusive
  BY DEF Exclusion, Typed, FlusherOwns, ControllerOwns, FileExclusive, InFlush, Buffer
<1> QED BY <1>1, InitExclusion, NextExclusion, PTL DEF Spec

-----------------------------------------------------------------------------
(* The rotation of the files, and the types.                               *)

ControllerPc == InFlush \cup
  {"idle", "copy", "increment", "test", "which", "lockMark", "mark", "switch", "stop",
   "tryLock", "isFlushing", "args", "open", "lockReset", "reset", "setReady", "join"}
FlusherPc == InFlush \cup
  {"none", "wait", "loop", "snapshot", "lockClear", "clear", "reassign", "assign", "zero",
   "ended"}
Record == 0 .. MaxRecord

\* The parts of TypeOK.
PcTyped == pc["controller"] \in ControllerPc /\ pc["flusher"] \in FlusherPc
MemoryTyped ==
  /\ buffer \in [Buffer -> [1 .. BufferMax -> Record]]
  /\ pBufferCurrent \in Buffer \cup {NULL}
  /\ countBufferCurrent \in 0 .. BufferMax
  /\ isFull \in [Buffer -> BOOLEAN]
  /\ lock \in Process \cup {NoProcess}
  /\ isThreadReady \in BOOLEAN
  /\ op \in {"none", "write", "flush", "open"}
  /\ data \in Record
  /\ read \in 0 .. BufferMax \cup Buffer
  /\ doFlush \subseteq Buffer
DiskTyped ==
  /\ pFile \in BOOLEAN
  /\ file \in Seq(Record)
  /\ rotated \in Seq(Seq(Record))
  /\ countFile \in 0 .. FileMax - 1
  /\ fault \in 0 .. MaxFault
JobType == [buffer : Buffer \cup {NULL}, count : 0 .. BufferMax, numToFile : 0 .. BufferMax,
            done : 0 .. BufferMax, isRotated : BOOLEAN]
JobTyped == job \in [Process -> JobType]

\* What the controller has tested is so until it uses it: its buffer, the space in
\* it, and which buffer it was.
WriteOK ==
  /\ \/ pc["controller"] \in {"copy", "increment", "test", "which", "args"}
     \/ pc["controller"] \in {"tryLock", "isFlushing"} /\ op = "flush"
     => pBufferCurrent \in Buffer
  /\ pc["controller"] = "increment" => read \in 0 .. BufferMax - 1
  /\ pc["controller"] \in {"lockMark", "mark", "switch", "stop"} => read \in Buffer
  /\ pc["controller"] \in InFlush => job["controller"].buffer \in Buffer

\* The first write has filled the file, and so it is about to be rotated.
Filled(j) ==
  /\ j.numToFile = FileMax - countFile
  /\ j.done = j.numToFile
  /\ j.numToFile <= j.count

\* The file in each step of a flush with the locals j.
FileAt(at, j) ==
  /\ at = "write"  => ~j.isRotated
  /\ at = "rotate" => ~j.isRotated /\ pFile /\ Len(file) = FileMax /\ Filled(j)
  /\ at = "rename" => ~j.isRotated /\ ~pFile /\ Len(file) = FileMax /\ Filled(j)
  /\ at = "reopen" => ~j.isRotated /\ ~pFile /\ Len(file) = 0 /\ Filled(j)
  /\ at = "rest"   => j.isRotated /\ pFile /\ Len(file) = 0 /\ Filled(j)
  /\ at = "count"  => pFile /\ Len(file) = FileCount(j) /\ FileCount(j) \in 0 .. FileMax - 1
  /\ at \in {"write", "flushed"} /\ pFile => Len(file) = countFile
FlushOK(p) == pc[p] \in InFlush => FileAt(pc[p], job[p])

Resting == (\A p \in Process : pc[p] \notin InFlush) => (pFile => Len(file) = countFile)
RotatedFull == \A i \in 1 .. Len(rotated) : Len(rotated[i]) = FileMax

MemoryOK == PcTyped /\ MemoryTyped /\ WriteOK
DiskOK == /\ DiskTyped /\ JobTyped /\ Resting /\ RotatedFull
          /\ \A p \in Process : FlushOK(p)
Rotation == MemoryOK /\ DiskOK

-----------------------------------------------------------------------------
\* TypeOK is its parts.
LEMMA PartsOfTypeOK == PcTyped /\ MemoryTyped /\ DiskTyped /\ JobTyped => TypeOK
BY DEF PcTyped, MemoryTyped, DiskTyped, JobTyped, TypeOK, ControllerPc, FlusherPc, Record, JobType

\* FileExclusive is a part of what is inductive.
LEMMA ExclusionExcludes == Exclusion => FileExclusive
BY DEF Exclusion, Typed, FlusherOwns, ControllerOwns, FileExclusive, InFlush, Buffer

\* A thread is where its last step has led it (Goto).
LEMMA GotoMoves ==
  ASSUME Exclusion, NEW p \in Process, NEW from, NEW to, Goto(p, from, to)
  PROVE  /\ pc[p] = from /\ pc'[p] = to
         /\ \A q \in Process \ {p} : pc'[q] = pc[q]
BY DEF Exclusion, Typed, Goto

-----------------------------------------------------------------------------
(* What a step may do to the file, by the part the step has in a flush.    *)

\* A step outside logTlm_flushToFile(), which touches neither file nor job.
LEMMA OutsideFlush ==
  ASSUME DiskOK, UNCHANGED <<pFile, file, rotated, countFile, fault, job>>,
         \A p \in Process : pc'[p] = pc[p] \/ (pc[p] \notin InFlush /\ pc'[p] \notin InFlush)
  PROVE  DiskOK'
<1>1. DiskTyped' /\ JobTyped' /\ RotatedFull'
  BY DEF DiskOK, DiskTyped, JobTyped, RotatedFull
<1>2. Resting'
  BY DEF DiskOK, Resting
<1>3. ASSUME NEW p \in Process
      PROVE  FlushOK(p)'
  BY DEF DiskOK, FlushOK, FileAt, Filled, FileCount
<1> QED
  BY <1>1, <1>2, <1>3 DEF DiskOK

\* A thread that enters logTlm_flushToFile() finds the file at rest.
LEMMA EntersFlush ==
  ASSUME DiskOK, FileExclusive, FileExclusive',
         UNCHANGED <<pFile, file, rotated, countFile, fault>>,
         NEW p \in Process, pc[p] \notin InFlush, pc'[p] = "write",
         \A q \in Process \ {p} : pc'[q] = pc[q],
         job' \in [Process -> JobType], ~job'[p].isRotated
  PROVE  DiskOK'
<1>1. DiskTyped' /\ JobTyped' /\ RotatedFull'
  BY DEF DiskOK, DiskTyped, JobTyped, RotatedFull
<1>2. \A q \in Process \ {p} : pc'[q] \notin InFlush /\ pc[q] \notin InFlush
  BY DEF FileExclusive, InFlush, Process
<1>3. pFile => Len(file) = countFile
  BY <1>2 DEF DiskOK, Resting
<1>4. FlushOK(p)'
  BY <1>3 DEF FlushOK, FileAt
<1> QED
  BY <1>1, <1>2, <1>4 DEF DiskOK, Resting, FlushOK, InFlush

\* A thread that leaves it, from the last step, leaves the file at rest.
LEMMA LeavesFlush ==
  ASSUME DiskOK, FileExclusive, UNCHANGED <<pFile, file, rotated, countFile, fault>>,
         NEW p \in Process, pc[p] = "flushed", pc'[p] \notin InFlush,
         \A q \in Process \ {p} : pc'[q] = pc[q],
         job' \in [Process -> JobType]
  PROVE  DiskOK'
<1>1. DiskTyped' /\ JobTyped' /\ RotatedFull'
  BY DEF DiskOK, DiskTyped, JobTyped, RotatedFull
<1>2. \A q \in Process : pc'[q] \notin InFlush
  BY DEF FileExclusive, InFlush, Process
<1>3. pFile => Len(file) = countFile
  BY DEF DiskOK, FlushOK, FileAt, InFlush
<1> QED
  BY <1>1, <1>2, <1>3 DEF DiskOK, Resting, FlushOK

\* A thread inside it answers for the file alone, as the other is outside.
LEMMA InsideFlush ==
  ASSUME DiskOK, FileExclusive, NEW p \in Process, pc[p] \in InFlush, pc'[p] \in InFlush,
         \A q \in Process \ {p} : pc'[q] = pc[q],
         DiskTyped', JobTyped', RotatedFull', FlushOK(p)'
  PROVE  DiskOK'
<1>1. \A q \in Process \ {p} : pc'[q] \notin InFlush
  BY DEF FileExclusive, InFlush, Process
<1> QED
  BY <1>1 DEF DiskOK, Resting, FlushOK

-----------------------------------------------------------------------------
(* The steps of logTlm_flushToFile().                                      *)

\* Who flushes has a buffer to flush, and its records are records.
LEMMA FlushedBuffer ==
  ASSUME MemoryOK, Exclusion, DiskOK, NEW p \in Process, pc[p] \in InFlush
  PROVE  /\ job[p] \in JobType
         /\ job[p].buffer \in Buffer
         /\ \A i \in 1 .. BufferMax : buffer[job[p].buffer][i] \in Record
<1>1. job[p] \in JobType
  BY DEF DiskOK, JobTyped
<1>2. CASE p = "controller"
  BY <1>1, <1>2 DEF MemoryOK, WriteOK, MemoryTyped
<1>3. CASE p = "flusher"
  BY ZenonT(90), <1>1, <1>3 DEF MemoryOK, MemoryTyped, Exclusion, Typed, FlusherOwns
<1> QED BY <1>2, <1>3 DEF Process

\* What fits in the file is not more than there is (NumToFile).
LEMMA NumToFileFits ==
  ASSUME DiskTyped, NEW n \in 0 .. BufferMax
  PROVE  /\ spaceAvailable \in 1 .. FileMax
         /\ NumToFile(n) \in 0 .. n
         /\ NumToFile(n) <= spaceAvailable
BY FileAssumption, BufferAssumption DEF DiskTyped, NumToFile, spaceAvailable

\* A part of a buffer appended to the file.
LEMMA AppendPart ==
  ASSUME DiskTyped, NEW b \in Buffer, NEW m \in 1 .. BufferMax + 1, NEW n \in 0 .. BufferMax,
         \A i \in 1 .. BufferMax : buffer[b][i] \in Record
  PROVE  /\ file \o SubSeq(buffer[b], m, n) \in Seq(Record)
         /\ Len(SubSeq(buffer[b], m, n)) = IF m <= n THEN n - m + 1 ELSE 0
         /\ Len(file \o SubSeq(buffer[b], m, n)) =
              Len(file) + (IF m <= n THEN n - m + 1 ELSE 0)
<1>1. \A i \in m .. n : buffer[b][i] \in Record
  BY BufferAssumption
<1>2. m \in Int /\ n \in Int
  BY BufferAssumption
<1>3. /\ SubSeq(buffer[b], m, n) \in Seq(Record)
      /\ Len(SubSeq(buffer[b], m, n)) = IF m <= n THEN n - m + 1 ELSE 0
  BY <1>1, <1>2, SubSeqProperties
<1> QED
  BY <1>3, ConcatProperties DEF DiskTyped

\* The first write brings the file to what countFile will be, or fills it.
LEMMA FlushWriteDisk ==
  ASSUME MemoryOK, DiskOK, Exclusion, NEW p \in Process, FlushWrite(p)
  PROVE  DiskOK'
<1> DEFINE n == NumToFile(job[p].count)
<1>1. pc[p] = "write" /\ pc[p] \in InFlush /\ pFile
  BY GotoMoves DEF FlushWrite, InFlush
<1>2. /\ pc'[p] = IF n = spaceAvailable THEN "rotate" ELSE "count"
      /\ \A q \in Process \ {p} : pc'[q] = pc[q]
  BY GotoMoves DEF FlushWrite
<1>3. /\ job[p] \in JobType /\ job[p].buffer \in Buffer
      /\ \A i \in 1 .. BufferMax : buffer[job[p].buffer][i] \in Record
  BY <1>1, FlushedBuffer
<1>4. DiskTyped /\ ~job[p].isRotated /\ Len(file) = countFile
  BY <1>1 DEF DiskOK, FlushOK, FileAt
<1>5. n \in 0 .. job[p].count /\ n <= spaceAvailable /\ spaceAvailable \in 1 .. FileMax
  BY <1>3, <1>4, NumToFileFits DEF JobType
<1>6. n \in 1 .. job[p].count /\ n \in 1 .. BufferMax
  BY <1>3, <1>5, BufferAssumption DEF FlushWrite, JobType
<1>7. file' \in Seq(Record) /\ Len(file') = countFile + n
  <2>1. file' = file \o SubSeq(buffer[job[p].buffer], 1, n)
    BY DEF FlushWrite
  <2>2. 1 \in 1 .. BufferMax + 1 /\ n \in 0 .. BufferMax /\ 1 <= n /\ n - 1 + 1 = n
    BY <1>6, BufferAssumption
  <2> HIDE DEF n
  <2>3. /\ file \o SubSeq(buffer[job[p].buffer], 1, n) \in Seq(Record)
        /\ Len(file \o SubSeq(buffer[job[p].buffer], 1, n)) = Len(file) + (n - 1 + 1)
    BY <1>3, <1>4, <2>2, AppendPart
  <2> QED BY <1>4, <2>1, <2>2, <2>3
<1>8. DiskTyped'
  BY <1>4, <1>7 DEF FlushWrite, DiskTyped
<1>9. /\ JobTyped'
      /\ job'[p].numToFile = n /\ job'[p].done = n /\ job'[p].count = job[p].count
      /\ ~job'[p].isRotated
  <2> DEFINE j == [job[p] EXCEPT !.numToFile = n, !.done = n]
  <2>1. job' = [job EXCEPT ![p] = j]
    BY DEF FlushWrite
  <2>2. n \in 0 .. BufferMax
    BY <1>6
  <2> HIDE DEF n
  <2>3. /\ j \in JobType /\ j.numToFile = n /\ j.done = n /\ j.count = job[p].count
        /\ ~j.isRotated
    BY <1>3, <1>4, <2>2 DEF JobType
  <2> HIDE DEF j
  <2> QED BY <2>1, <2>3 DEF DiskOK, JobTyped
<1>10. RotatedFull'
  BY DEF DiskOK, RotatedFull, FlushWrite
<1>11. pc'[p] \in InFlush /\ FlushOK(p)'
  <2>1. countFile' = countFile /\ pFile'
    BY <1>1 DEF FlushWrite
  <2>2. spaceAvailable = FileMax - countFile /\ countFile \in 0 .. FileMax - 1
    BY <1>4 DEF spaceAvailable, DiskTyped
  <2> HIDE DEF n
  <2>3. CASE n = spaceAvailable
    <3>1. Len(file') = FileMax /\ Filled(job[p])'
      BY <1>5, <1>6, <1>7, <1>9, <2>1, <2>2, <2>3, FileAssumption DEF Filled
    <3> QED BY <1>2, <1>9, <2>1, <2>3, <3>1 DEF FlushOK, FileAt, InFlush
  <2>4. CASE n # spaceAvailable
    <3>1. FileCount(job[p])' = countFile + n /\ countFile + n \in 0 .. FileMax - 1
      BY <1>5, <1>6, <1>9, <2>1, <2>2, <2>4, FileAssumption DEF FileCount
    <3> QED BY <1>2, <1>7, <1>9, <2>1, <2>4, <3>1 DEF FlushOK, FileAt, InFlush
  <2> QED BY <2>3, <2>4
<1> QED
  BY <1>1, <1>2, <1>8, <1>9, <1>10, <1>11, InsideFlush, ExclusionExcludes

\* A failed call closes the file or leaves it closed, whatever it wrote before;
\* its thread is done with the flush.
LEMMA FlushGivesUp ==
  ASSUME DiskOK, Exclusion, NEW p \in Process, NEW from \in InFlush, Goto(p, from, "flushed"),
         pFile' = FALSE, file' \in Seq(Record), fault' \in 0 .. MaxFault,
         UNCHANGED <<rotated, countFile, job>>
  PROVE  DiskOK'
<1>1. /\ pc[p] \in InFlush /\ pc'[p] = "flushed" /\ pc'[p] \in InFlush
      /\ \A q \in Process \ {p} : pc'[q] = pc[q]
  BY GotoMoves DEF InFlush
<1>2. DiskTyped' /\ JobTyped' /\ RotatedFull'
  BY DEF DiskOK, DiskTyped, JobTyped, RotatedFull
<1>3. FlushOK(p)'
  BY <1>1 DEF FlushOK, FileAt
<1> QED
  BY <1>1, <1>2, <1>3, InsideFlush, ExclusionExcludes

\* The number of faults stays inside its bound.
LEMMA FaultBounded ==
  ASSUME DiskTyped, Fault
  PROVE  fault' \in 0 .. MaxFault
BY BoundAssumption DEF DiskTyped, Fault

\* The first write fails, or there is nothing to write.
LEMMA FlushWriteFailsDisk ==
  ASSUME MemoryOK, DiskOK, Exclusion, NEW p \in Process, FlushWriteFails(p)
  PROVE  DiskOK'
<1> DEFINE n == NumToFile(job[p].count)
<1>1. pc[p] = "write" /\ pc[p] \in InFlush /\ "write" \in InFlush
  BY GotoMoves DEF FlushWriteFails, InFlush
<1>2. DiskTyped /\ fault \in 0 .. MaxFault /\ file \in Seq(Record)
  BY DEF DiskOK, DiskTyped
<1>3. /\ job[p] \in JobType /\ job[p].buffer \in Buffer
      /\ \A i \in 1 .. BufferMax : buffer[job[p].buffer][i] \in Record
  BY <1>1, FlushedBuffer
<1>4. n \in 0 .. BufferMax
  BY <1>2, <1>3, NumToFileFits, BufferAssumption DEF JobType
<1>5. file' \in Seq(Record) /\ fault' \in 0 .. MaxFault
  <2>1. CASE UNCHANGED <<file, fault>>
    BY <1>2, <2>1
  <2>2. ASSUME NEW k \in 0 .. n - 1, Fault,
               file' = file \o SubSeq(buffer[job[p].buffer], 1, k)
        PROVE  file' \in Seq(Record) /\ fault' \in 0 .. MaxFault
    <3>1. k \in 0 .. BufferMax /\ 1 \in 1 .. BufferMax + 1
      BY <1>4, BufferAssumption
    <3>2. file \o SubSeq(buffer[job[p].buffer], 1, k) \in Seq(Record)
      BY <1>2, <1>3, <3>1, AppendPart
    <3> QED BY <1>2, <2>2, <3>2, FaultBounded
  <2> QED BY <2>1, <2>2 DEF FlushWriteFails
<1> QED
  BY <1>1, <1>5, FlushGivesUp DEF FlushWriteFails

\* Without a file there is nothing to do.
LEMMA FlushNoFileDisk ==
  ASSUME DiskOK, Exclusion, NEW p \in Process, FlushNoFile(p)
  PROVE  DiskOK'
<1>1. DiskTyped /\ pFile = FALSE /\ "write" \in InFlush
  BY DEF DiskOK, DiskTyped, FlushNoFile, InFlush
<1> QED
  BY <1>1, FlushGivesUp DEF FlushNoFile, diskVars, DiskTyped

\* The file that is closed for the rotation is full.
LEMMA RotateCloseDisk ==
  ASSUME DiskOK, Exclusion, NEW p \in Process, RotateClose(p)
  PROVE  DiskOK'
<1>1. DiskTyped /\ "rotate" \in InFlush
  BY DEF DiskOK, InFlush
<1>2. CASE Goto(p, "rotate", "rename") /\ UNCHANGED fault
  <2>1. /\ pc[p] = "rotate" /\ pc'[p] = "rename" /\ \A q \in Process \ {p} : pc'[q] = pc[q]
        /\ pc[p] \in InFlush /\ pc'[p] \in InFlush
    BY <1>2, GotoMoves DEF InFlush
  <2>2. DiskTyped' /\ JobTyped' /\ RotatedFull'
    BY <1>2 DEF RotateClose, DiskOK, DiskTyped, JobTyped, RotatedFull
  <2>3. FlushOK(p)'
    BY <2>1 DEF RotateClose, DiskOK, FlushOK, FileAt, Filled, InFlush
  <2> QED
    BY <2>1, <2>2, <2>3, InsideFlush, ExclusionExcludes
<1>3. CASE Goto(p, "rotate", "flushed") /\ Fault
  BY <1>1, <1>3, FlushGivesUp, FaultBounded DEF RotateClose, DiskTyped
<1> QED
  BY <1>2, <1>3 DEF RotateClose

\* A file is renamed only when it is full.
LEMMA RotateRenameDisk ==
  ASSUME DiskOK, Exclusion, NEW p \in Process, RotateRename(p)
  PROVE  DiskOK'
<1>1. DiskTyped /\ "rename" \in InFlush
  BY DEF DiskOK, InFlush
<1>2. pc[p] = "rename" /\ pc[p] \in InFlush
  BY GotoMoves DEF RotateRename, InFlush
<1>3. pFile = FALSE /\ Len(file) = FileMax
  BY <1>1, <1>2 DEF DiskOK, FlushOK, FileAt, DiskTyped
<1>4. CASE /\ Goto(p, "rename", "reopen")
           /\ rotated' = Append(rotated, file)
           /\ file' = <<>>
           /\ UNCHANGED fault
  <2>1. /\ pc'[p] = "reopen" /\ \A q \in Process \ {p} : pc'[q] = pc[q]
        /\ pc'[p] \in InFlush
    BY <1>4, GotoMoves DEF InFlush
  <2>2. /\ rotated' \in Seq(Seq(Record))
        /\ Len(rotated') = Len(rotated) + 1
        /\ \A i \in 1 .. Len(rotated) : rotated'[i] = rotated[i]
        /\ rotated'[Len(rotated) + 1] = file
    BY <1>1, <1>4, AppendProperties DEF DiskTyped
  <2>3. file' \in Seq(Record) /\ Len(file') = 0
    BY <1>4, EmptySeq
  <2>4. DiskTyped' /\ JobTyped'
    BY <1>4, <2>2, <2>3 DEF RotateRename, DiskOK, DiskTyped, JobTyped
  <2>5. RotatedFull'
    <3>1. Len(rotated) \in Nat
      BY <1>1, LenProperties DEF DiskTyped
    <3> QED BY <1>3, <2>2, <3>1 DEF DiskOK, RotatedFull
  <2>6. FlushOK(p)'
    BY <1>2, <1>3, <2>1, <2>3 DEF RotateRename, DiskOK, FlushOK, FileAt, Filled
  <2> QED
    BY <1>2, <2>1, <2>4, <2>5, <2>6, InsideFlush, ExclusionExcludes
<1>5. CASE /\ Goto(p, "rename", "flushed")
           /\ Fault
           /\ UNCHANGED <<rotated, file>>
  BY <1>1, <1>3, <1>5, FlushGivesUp, FaultBounded DEF RotateRename, DiskTyped
<1> QED
  BY <1>4, <1>5 DEF RotateRename

\* The new file is empty; countFile still tells how full the old one was before.
LEMMA RotateOpenDisk ==
  ASSUME DiskOK, Exclusion, NEW p \in Process, RotateOpen(p)
  PROVE  DiskOK'
<1>1. DiskTyped /\ "reopen" \in InFlush /\ job[p] \in JobType
  BY DEF DiskOK, InFlush, JobTyped
<1>2. pc[p] = "reopen" /\ pc[p] \in InFlush
  BY GotoMoves DEF RotateOpen, InFlush
<1>3. pFile = FALSE /\ Len(file) = 0 /\ Filled(job[p])
  BY <1>1, <1>2 DEF DiskOK, FlushOK, FileAt, DiskTyped
<1>4. CASE /\ Goto(p, "reopen", IF job[p].done < job[p].count THEN "rest" ELSE "count")
           /\ pFile' = TRUE
           /\ job' = [job EXCEPT ![p].isRotated = TRUE]
           /\ UNCHANGED fault
  <2> DEFINE j == [job[p] EXCEPT !.isRotated = TRUE]
  <2>1. /\ pc'[p] = IF job[p].done < job[p].count THEN "rest" ELSE "count"
        /\ \A q \in Process \ {p} : pc'[q] = pc[q]
        /\ pc'[p] \in InFlush
    BY <1>4, GotoMoves DEF InFlush
  <2>2. /\ j \in JobType /\ j.isRotated /\ j.done = job[p].done
        /\ j.count = job[p].count /\ j.numToFile = job[p].numToFile
    BY <1>1 DEF JobType
  <2>3. job' = [job EXCEPT ![p] = j]
    BY <1>4
  <2> HIDE DEF j
  <2>4. JobTyped' /\ job'[p] = j
    BY <2>2, <2>3 DEF DiskOK, JobTyped
  <2>5. DiskTyped' /\ RotatedFull' /\ countFile' = countFile /\ file' = file
    BY <1>4 DEF RotateOpen, DiskOK, DiskTyped, RotatedFull
  <2>6. FlushOK(p)'
    <3>1. CASE job[p].done < job[p].count
      BY <1>3, <1>4, <2>1, <2>2, <2>4, <2>5, <3>1 DEF FlushOK, FileAt, Filled
    <3>2. CASE ~(job[p].done < job[p].count)
      <4>1. j.count - j.numToFile = 0
        BY <1>1, <1>3, <2>2, <3>2 DEF Filled, JobType
      <4>2. FileCount(job[p])' = 0 /\ 0 \in 0 .. FileMax - 1
        BY <2>2, <2>4, <4>1, FileAssumption, BufferAssumption DEF FileCount
      <4> QED BY <1>3, <1>4, <2>1, <2>5, <3>2, <4>2 DEF FlushOK, FileAt
    <3> QED BY <3>1, <3>2
  <2> QED
    BY <1>2, <2>1, <2>4, <2>5, <2>6, InsideFlush, ExclusionExcludes
<1>5. CASE /\ Goto(p, "reopen", "flushed")
           /\ Fault
           /\ UNCHANGED <<pFile, job>>
  BY <1>1, <1>3, <1>5, FlushGivesUp, FaultBounded DEF RotateOpen, DiskTyped
<1> QED
  BY <1>4, <1>5 DEF RotateOpen

\* What is left goes into the empty file, and leaves space in it.
LEMMA FlushRestDisk ==
  ASSUME MemoryOK, DiskOK, Exclusion, NEW p \in Process, FlushRest(p)
  PROVE  DiskOK'
<1> DEFINE j == job[p]
           left == SubSeq(buffer[j.buffer], j.numToFile + 1, j.count)
<1>1. DiskTyped /\ "rest" \in InFlush /\ j \in JobType /\ fault \in 0 .. MaxFault
  BY DEF DiskOK, InFlush, JobTyped, DiskTyped
<1>2. pc[p] = "rest" /\ pc[p] \in InFlush
  BY GotoMoves DEF FlushRest, InFlush
<1>3. pFile /\ Len(file) = 0 /\ j.isRotated /\ Filled(j)
  BY <1>2 DEF DiskOK, FlushOK, FileAt
<1>4. /\ j.buffer \in Buffer
      /\ \A i \in 1 .. BufferMax : buffer[j.buffer][i] \in Record
  BY <1>2, FlushedBuffer
<1>5. /\ j.numToFile \in 1 .. j.count /\ j.count \in 0 .. BufferMax
      /\ j.count - j.numToFile \in 0 .. FileMax - 1
  BY <1>1, <1>3, FileAssumption, BufferAssumption DEF Filled, JobType, DiskTyped
<1>6. Len(left) = j.count - j.numToFile
  <2>1. j.numToFile + 1 \in 1 .. BufferMax + 1
    BY <1>5, BufferAssumption
  <2>2. Len(left) = IF j.numToFile + 1 <= j.count THEN j.count - (j.numToFile + 1) + 1 ELSE 0
    BY <1>1, <1>4, <1>5, <2>1, AppendPart
  <2> QED BY <1>5, <2>2
<1>7. file \o left \in Seq(Record) /\ Len(file \o left) = j.count - j.numToFile
  <2>1. j.numToFile + 1 \in 1 .. BufferMax + 1
    BY <1>5, BufferAssumption
  <2>2. /\ file \o left \in Seq(Record)
        /\ Len(file \o left) =
             Len(file) + (IF j.numToFile + 1 <= j.count THEN j.count - (j.numToFile + 1) + 1 ELSE 0)
    BY <1>1, <1>4, <1>5, <2>1, AppendPart
  <2> QED BY <1>3, <1>5, <2>2
<1>8. CASE /\ Goto(p, "rest", "count")
           /\ file' = file \o left
           /\ job' = [job EXCEPT ![p].done = job[p].count]
           /\ UNCHANGED <<pFile, fault>>
  <2> DEFINE k == [j EXCEPT !.done = j.count]
  <2>1. /\ pc'[p] = "count" /\ pc'[p] \in InFlush
        /\ \A q \in Process \ {p} : pc'[q] = pc[q]
    BY <1>8, GotoMoves DEF InFlush
  <2>2. /\ k \in JobType /\ k.isRotated
        /\ k.count = j.count /\ k.numToFile = j.numToFile
    BY <1>1, <1>3 DEF JobType
  <2>3. job' = [job EXCEPT ![p] = k]
    BY <1>8
  <2> HIDE DEF k, left
  <2>4. JobTyped' /\ job'[p] = k
    BY <2>2, <2>3 DEF DiskOK, JobTyped
  <2>5. /\ DiskTyped' /\ RotatedFull'
        /\ countFile' = countFile /\ Len(file') = j.count - j.numToFile
    BY <1>7, <1>8 DEF FlushRest, DiskOK, DiskTyped, RotatedFull
  <2>6. FlushOK(p)'
    <3>1. FileCount(job[p])' = j.count - j.numToFile
      BY <2>2, <2>4 DEF FileCount
    <3> QED BY <1>3, <1>5, <1>8, <2>1, <2>5, <3>1 DEF FlushOK, FileAt
  <2> QED
    BY <1>2, <2>1, <2>4, <2>5, <2>6, InsideFlush, ExclusionExcludes
<1>9. CASE /\ Goto(p, "rest", "flushed")
           /\ Fault
           /\ \E k \in 0 .. Len(left) - 1 : file' = file \o SubSeq(left, 1, k)
           /\ pFile' = FALSE
           /\ UNCHANGED job
  <2>1. PICK k \in 0 .. Len(left) - 1 : file' = file \o SubSeq(left, 1, k)
    BY <1>9
  <2>2. left \in Seq(Record)
    <3>1. \A i \in j.numToFile + 1 .. j.count : buffer[j.buffer][i] \in Record
      <4>1. \A i \in j.numToFile + 1 .. j.count : i \in 1 .. BufferMax
        BY <1>5, BufferAssumption
      <4> QED BY <1>4, <4>1
    <3>2. j.numToFile + 1 \in Int /\ j.count \in Int
      BY <1>5
    <3> QED BY <3>1, <3>2, SubSeqProperties
  <2> HIDE DEF left
  <2>3. SubSeq(left, 1, k) \in Seq(Record)
    <3>1. k \in Int /\ \A i \in 1 .. k : left[i] \in Record
      BY <1>5, <1>6, <2>1, <2>2, ElementOfSeq
    <3> QED BY <3>1, SubSeqProperties
  <2>4. file' \in Seq(Record)
    BY <1>1, <2>1, <2>3, ConcatProperties DEF DiskTyped
  <2> QED
    BY <1>1, <1>9, <2>4, FlushGivesUp, FaultBounded DEF FlushRest
<1> QED
  BY <1>8, <1>9 DEF FlushRest, Rest

\* countFile becomes what the file holds.
LEMMA FlushCountDisk ==
  ASSUME DiskOK, Exclusion, NEW p \in Process, FlushCount(p)
  PROVE  DiskOK'
<1>1. /\ pc[p] = "count" /\ pc[p] \in InFlush /\ pc'[p] = "flushed" /\ pc'[p] \in InFlush
      /\ \A q \in Process \ {p} : pc'[q] = pc[q]
  BY GotoMoves DEF FlushCount, InFlush
<1>2. Len(file) = FileCount(job[p]) /\ FileCount(job[p]) \in 0 .. FileMax - 1
  BY <1>1 DEF DiskOK, FlushOK, FileAt
<1>3. DiskTyped' /\ JobTyped' /\ RotatedFull'
  BY <1>2 DEF FlushCount, DiskOK, DiskTyped, JobTyped, RotatedFull
<1>4. FlushOK(p)'
  BY <1>1, <1>2 DEF FlushCount, FlushOK, FileAt
<1> QED
  BY <1>1, <1>3, <1>4, InsideFlush, ExclusionExcludes

\* Every step of a flush knows what the file holds after it.
LEMMA FlushDisk ==
  ASSUME MemoryOK, DiskOK, Exclusion, NEW p \in Process, FlushToFile(p)
  PROVE  DiskOK'
BY FlushWriteDisk, FlushWriteFailsDisk, FlushNoFileDisk, RotateCloseDisk, RotateRenameDisk,
   RotateOpenDisk, FlushRestDisk, FlushCountDisk DEF FlushToFile

-----------------------------------------------------------------------------
(* The steps outside logTlm_flushToFile(), and the file.                   *)

\* One thread moves outside the flush; the other stays where it is.
LEMMA MovesOutside ==
  ASSUME DiskOK, Exclusion, NEW p \in Process, NEW from, NEW to, Goto(p, from, to),
         from \notin InFlush, to \notin InFlush,
         UNCHANGED <<pFile, file, rotated, countFile, fault, job>>
  PROVE  DiskOK'
<1>1. \A q \in Process : pc'[q] = pc[q] \/ (pc[q] \notin InFlush /\ pc'[q] \notin InFlush)
  BY GotoMoves
<1> QED BY <1>1, OutsideFlush

\* A file is opened or closed between two flushes, and nobody is in one.
LEMMA RestsAgain ==
  ASSUME DiskOK, \A q \in Process : pc[q] \notin InFlush /\ pc'[q] \notin InFlush,
         UNCHANGED job, DiskTyped', RotatedFull', pFile' => Len(file') = countFile'
  PROVE  DiskOK'
<1>1. Resting' /\ \A q \in Process : FlushOK(q)'
  BY DEF Resting, FlushOK
<1>2. JobTyped'
  BY DEF DiskOK, JobTyped
<1> QED BY <1>1, <1>2 DEF DiskOK

\* logTlm_open() touches the file only when the thread is not flushing.
LEMMA OpenAlone ==
  ASSUME Exclusion, pc["controller"] = "open"
  PROVE  \A q \in Process : pc[q] \notin InFlush
BY DEF Exclusion, Typed, FlusherOwns, ControllerOwns, InFlush, Process, Buffer

\* The job of a call with arguments inside their bounds.
LEMMA FlushCallTyped ==
  ASSUME NEW b \in Buffer \cup {NULL}, NEW n \in 0 .. BufferMax
  PROVE  FlushCall(b, n) \in JobType /\ ~FlushCall(b, n).isRotated
                                    /\ FlushCall(b, n).buffer = b
BY BufferAssumption DEF FlushCall, JobType

\* The job of a thread that is not flushing, and of one that goes to the next buffer.
LEMMA NoJobTyped == NoJob \in JobType /\ ~NoJob.isRotated
BY FlushCallTyped, BufferAssumption DEF NoJob

\* The flush of the next buffer is a job, for any buffers that are marked.
LEMMA NextJobTyped ==
  ASSUME NEW bs \in SUBSET Buffer, bs # {}
  PROVE  NextJob(bs) \in JobType /\ ~NextJob(bs).isRotated
<1> DEFINE first == CHOOSE b \in bs : \A c \in bs : b <= c
<1>1. NextJob(bs) = FlushCall(first, BufferMax)
  BY DEF NextJob
<1>2. first \in bs
  <2>1. NextJob(bs).buffer \in bs
    BY NextJobIsOne
  <2> HIDE DEF first
  <2>2. FlushCall(first, BufferMax).buffer = first
    BY DEF FlushCall
  <2> QED BY <1>1, <2>1, <2>2
<1> HIDE DEF first
<1> QED
  BY <1>1, <1>2, FlushCallTyped, BufferAssumption

\* A thread outside the flush may change its own job.
LEMMA StaysOutside ==
  ASSUME DiskOK, NEW p \in Process, pc[p] \notin InFlush, pc'[p] \notin InFlush,
         \A q \in Process \ {p} : pc'[q] = pc[q],
         UNCHANGED <<pFile, file, rotated, countFile, fault>>, FileExclusive,
         job' \in [Process -> JobType], \A q \in Process \ {p} : job'[q] = job[q]
  PROVE  DiskOK'
<1>1. DiskTyped' /\ JobTyped' /\ RotatedFull' /\ Resting'
  BY DEF DiskOK, DiskTyped, JobTyped, RotatedFull, Resting
<1>2. ASSUME NEW q \in Process PROVE FlushOK(q)'
  BY DEF DiskOK, FlushOK, FileAt, Filled, FileCount
<1> QED BY <1>1, <1>2 DEF DiskOK

\* The controller's steps keep what is known of the file.
LEMMA ControllerDisk ==
  ASSUME MemoryOK, DiskOK, Exclusion, FileExclusive', ControllerCall \/ ControllerStep
  PROVE  DiskOK'
<1>1. FileExclusive /\ DiskTyped /\ job \in [Process -> JobType] /\ "controller" \in Process
  BY ExclusionExcludes DEF DiskOK, JobTyped, Process
<1>2. CASE Write
  BY <1>1, <1>2, MovesOutside DEF Write, Return, InFlush, diskVars
<1>3. CASE WriteCopy
  BY <1>1, <1>3, MovesOutside DEF WriteCopy, Return, InFlush, diskVars
<1>4. CASE WriteIncrement
  BY <1>1, <1>4, MovesOutside DEF WriteIncrement, Return, InFlush, diskVars
<1>5. CASE WriteReturn
  BY <1>1, <1>5, MovesOutside DEF WriteReturn, Return, InFlush, diskVars
<1>6. CASE WriteFlush
  BY <1>1, <1>6, MovesOutside DEF WriteFlush, Return, InFlush, diskVars
<1>7. CASE WriteFull
  BY <1>1, <1>7, MovesOutside DEF WriteFull, Return, InFlush, diskVars
<1>8. CASE WriteWhich
  BY <1>1, <1>8, MovesOutside DEF WriteWhich, Return, InFlush, diskVars
<1>9. CASE MarkFull
  BY <1>1, <1>9, MovesOutside DEF MarkFull, Return, InFlush, diskVars
<1>10. CASE WriteSwitch
  BY <1>1, <1>10, MovesOutside DEF WriteSwitch, Return, InFlush, diskVars
<1>11. CASE WriteStop
  BY <1>1, <1>11, MovesOutside DEF WriteStop, Return, InFlush, diskVars
<1>12. CASE Flush
  BY <1>1, <1>12, MovesOutside DEF Flush, Return, InFlush, diskVars
<1>13. CASE Open
  BY <1>1, <1>13, MovesOutside DEF Open, Return, InFlush, diskVars
<1>14. CASE StillFlushing
  BY <1>1, <1>14, MovesOutside DEF StillFlushing, Return, InFlush, diskVars
<1>15. CASE IsFlushing
  BY <1>1, <1>15, MovesOutside DEF IsFlushing, Return, InFlush, diskVars
<1>16. CASE ResetFull
  BY <1>1, <1>16, MovesOutside DEF ResetFull, Return, InFlush, diskVars
<1>17. CASE SetReady
  BY <1>1, <1>17, MovesOutside DEF SetReady, Return, InFlush, diskVars
<1>18. CASE CloseThread
  BY <1>1, <1>18, MovesOutside DEF CloseThread, Return, InFlush, diskVars
<1>19. CASE Lock("controller", "lockMark", "mark")
  BY <1>1, <1>19, MovesOutside DEF Lock, InFlush, diskVars
<1>20. CASE Lock("controller", "tryLock", "isFlushing")
  BY <1>1, <1>20, MovesOutside DEF Lock, InFlush, diskVars
<1>21. CASE Lock("controller", "lockReset", "reset")
  BY <1>1, <1>21, MovesOutside DEF Lock, InFlush, diskVars
<1>22. CASE RunFlushInNewThread
  <2>1. \A q \in Process : pc[q] \notin InFlush /\ pc'[q] \notin InFlush
    BY <1>22 DEF RunFlushInNewThread, Process, InFlush
  <2> QED BY <1>22, <2>1, OutsideFlush DEF RunFlushInNewThread, diskVars
<1>23. CASE Join
  <2>1. \A q \in Process : pc[q] \notin InFlush /\ pc'[q] \notin InFlush
    BY <1>23 DEF Join, Process, InFlush
  <2> QED BY <1>23, <2>1, OutsideFlush DEF Join, diskVars
<1>24. CASE FlushArgs
  <2> DEFINE j == FlushCall(pBufferCurrent, countBufferCurrent)
  <2>1. pc["controller"] = "args" /\ pc'["controller"] = "write"
        /\ \A q \in Process \ {"controller"} : pc'[q] = pc[q]
    BY <1>1, <1>24, GotoMoves DEF FlushArgs
  <2>2. j \in JobType /\ ~j.isRotated
    BY FlushCallTyped DEF MemoryOK, MemoryTyped
  <2>3. job' = [job EXCEPT !["controller"] = j]
        /\ UNCHANGED <<pFile, file, rotated, countFile, fault>>
    BY <1>24 DEF FlushArgs, diskVars
  <2> HIDE DEF j
  <2>4. job' \in [Process -> JobType] /\ job'["controller"] = j
    BY <1>1, <2>2, <2>3
  <2>5. "args" \notin InFlush
    BY DEF InFlush
  <2> QED BY <1>1, <2>1, <2>2, <2>3, <2>4, <2>5, EntersFlush
<1>25. CASE FlushReturn
  <2>1. pc["controller"] = "flushed" /\ pc'["controller"] = "idle"
        /\ \A q \in Process \ {"controller"} : pc'[q] = pc[q]
    BY <1>1, <1>25, GotoMoves DEF FlushReturn, Return
  <2>2. job' \in [Process -> JobType] /\ UNCHANGED <<pFile, file, rotated, countFile, fault>>
    BY <1>1, <1>25, NoJobTyped DEF FlushReturn, diskVars
  <2>3. "idle" \notin InFlush
    BY DEF InFlush
  <2> QED BY <1>1, <2>1, <2>2, <2>3, LeavesFlush
<1>26. CASE OpenFile
  <2>1. pc["controller"] = "open" /\ pc'["controller"] = "lockReset"
        /\ \A q \in Process \ {"controller"} : pc'[q] = pc[q]
    BY <1>1, <1>26, GotoMoves DEF OpenFile
  <2>2. \A q \in Process : pc[q] \notin InFlush /\ pc'[q] \notin InFlush
    BY <2>1, OpenAlone DEF InFlush
  <2>3. file' \in Seq(Record) /\ Len(file') = 0
        /\ rotated' \in Seq(Seq(Record)) /\ Len(rotated') = 0
    BY <1>26, EmptySeq DEF OpenFile
  <2>4. DiskTyped' /\ RotatedFull' /\ countFile' = 0
    BY <1>1, <1>26, <2>3, FileAssumption, BufferAssumption DEF OpenFile, DiskTyped, RotatedFull
  <2> QED BY <1>26, <2>2, <2>3, <2>4, RestsAgain DEF OpenFile
<1>27. CASE OpenFails
  <2>1. pc["controller"] = "open" /\ pc'["controller"] = "idle"
        /\ \A q \in Process \ {"controller"} : pc'[q] = pc[q]
    BY <1>1, <1>27, GotoMoves DEF OpenFails, Return
  <2>2. \A q \in Process : pc[q] \notin InFlush /\ pc'[q] \notin InFlush
    BY <2>1, OpenAlone DEF InFlush
  <2>3. fault' \in 0 .. MaxFault
    BY <1>1, <1>27, FaultBounded DEF OpenFails
  <2>4. DiskTyped' /\ RotatedFull'
    BY <1>1, <1>27, <2>3 DEF OpenFails, DiskTyped, DiskOK, RotatedFull
  <2> QED BY <1>27, <2>2, <2>4, RestsAgain DEF OpenFails
<1>28. CASE Close
  <2>1. \A q \in Process : pc[q] \notin InFlush /\ pc'[q] \notin InFlush
    BY <1>28 DEF Close, Process, InFlush
  <2>2. DiskTyped' /\ RotatedFull'
    BY <1>1, <1>28 DEF Close, DiskTyped, DiskOK, RotatedFull
  <2> QED BY <1>28, <2>1, <2>2, RestsAgain DEF Close
<1>29. CASE FlushToFile("controller")
  BY <1>1, <1>29, FlushDisk
<1> QED BY <1>2, <1>3, <1>4, <1>5, <1>6, <1>7, <1>8, <1>9, <1>10, <1>11, <1>12, <1>13,
           <1>14, <1>15, <1>16, <1>17, <1>18, <1>19, <1>20, <1>21, <1>22, <1>23, <1>24, <1>25,
           <1>26, <1>27, <1>28, <1>29 DEF ControllerCall, ControllerStep

\* The flusher's steps keep what is known of the file.
LEMMA FlusherDisk ==
  ASSUME MemoryOK, DiskOK, Exclusion, FileExclusive', FlusherStep
  PROVE  DiskOK'
<1>1. FileExclusive /\ DiskTyped /\ job \in [Process -> JobType] /\ "flusher" \in Process
  BY ExclusionExcludes DEF DiskOK, JobTyped, Process
<1>2. CASE Start
  BY <1>1, <1>2, MovesOutside DEF Start, InFlush, diskVars
<1>3. CASE End
  BY <1>1, <1>3, MovesOutside DEF End, InFlush, diskVars
<1>4. CASE Reassign
  BY <1>1, <1>4, MovesOutside DEF Reassign, InFlush, diskVars
<1>5. CASE Assign
  BY <1>1, <1>5, MovesOutside DEF Assign, InFlush, diskVars
<1>6. CASE ZeroCount
  BY <1>1, <1>6, MovesOutside DEF ZeroCount, InFlush, diskVars
<1>7. CASE TryLock
  BY <1>1, <1>7, MovesOutside DEF TryLock, Lock, InFlush, diskVars
<1>8. CASE Lock("flusher", "lockClear", "clear")
  BY <1>1, <1>8, MovesOutside DEF Lock, InFlush, diskVars
<1>9. CASE Snapshot
  <2>1. FullBuffers \in SUBSET Buffer
    BY DEF FullBuffers
  <2>2. /\ pc["flusher"] = "snapshot"
        /\ pc'["flusher"] = IF FullBuffers = {} THEN "loop" ELSE "write"
        /\ \A q \in Process \ {"flusher"} : pc'[q] = pc[q]
        /\ UNCHANGED <<pFile, file, rotated, countFile, fault>>
    BY <1>1, <1>9, GotoMoves DEF Snapshot, diskVars
  <2>3. "snapshot" \notin InFlush /\ "loop" \notin InFlush
    BY DEF InFlush
  <2> DEFINE j == IF FullBuffers = {} THEN NoJob ELSE NextJob(FullBuffers)
  <2>4. j \in JobType /\ ~j.isRotated
    BY <2>1, NoJobTyped, NextJobTyped
  <2>5. job' = [job EXCEPT !["flusher"] = j]
    BY <1>9 DEF Snapshot
  <2> HIDE DEF j
  <2>6. job' \in [Process -> JobType] /\ job'["flusher"] = j
        /\ \A q \in Process \ {"flusher"} : job'[q] = job[q]
    BY <1>1, <2>4, <2>5
  <2>7. CASE FullBuffers = {}
    BY <1>1, <2>2, <2>3, <2>6, <2>7, StaysOutside
  <2>8. CASE FullBuffers # {}
    BY <1>1, <2>2, <2>3, <2>4, <2>6, <2>8, EntersFlush
  <2> QED BY <2>7, <2>8
<1>10. CASE ClearFull
  <2> DEFINE left == doFlush \ {job["flusher"].buffer}
  <2>1. left \in SUBSET Buffer
    BY DEF MemoryOK, MemoryTyped
  <2>2. /\ pc["flusher"] = "clear"
        /\ pc'["flusher"] = IF left = {} THEN "reassign" ELSE "write"
        /\ \A q \in Process \ {"flusher"} : pc'[q] = pc[q]
        /\ UNCHANGED <<pFile, file, rotated, countFile, fault>>
    BY <1>1, <1>10, GotoMoves DEF ClearFull, diskVars
  <2>3. "clear" \notin InFlush /\ "reassign" \notin InFlush
    BY DEF InFlush
  <2> DEFINE j == IF left = {} THEN NoJob ELSE NextJob(left)
  <2>4. j \in JobType /\ ~j.isRotated
    BY <2>1, NoJobTyped, NextJobTyped
  <2>5. job' = [job EXCEPT !["flusher"] = j]
    BY <1>10 DEF ClearFull
  <2> HIDE DEF j, left
  <2>6. job' \in [Process -> JobType] /\ job'["flusher"] = j
        /\ \A q \in Process \ {"flusher"} : job'[q] = job[q]
    BY <1>1, <2>4, <2>5
  <2>7. CASE left = {}
    BY <1>1, <2>2, <2>3, <2>6, <2>7, StaysOutside
  <2>8. CASE left # {}
    BY <1>1, <2>2, <2>3, <2>4, <2>6, <2>8, EntersFlush
  <2> QED BY <2>7, <2>8
<1>11. CASE Flushed
  <2>1. pc["flusher"] = "flushed" /\ pc'["flusher"] = "lockClear"
        /\ \A q \in Process \ {"flusher"} : pc'[q] = pc[q]
    BY <1>1, <1>11, GotoMoves DEF Flushed
  <2>2. UNCHANGED <<pFile, file, rotated, countFile, fault>> /\ job' = job
    BY <1>11 DEF Flushed, diskVars
  <2>3. "lockClear" \notin InFlush
    BY DEF InFlush
  <2>4. job' \in [Process -> JobType]
    BY <1>1, <2>2
  <2> QED BY <1>1, <2>1, <2>2, <2>3, <2>4, LeavesFlush
<1>12. CASE FlushToFile("flusher")
  BY <1>1, <1>12, FlushDisk
<1> QED BY <1>2, <1>3, <1>4, <1>5, <1>6, <1>7, <1>8, <1>9, <1>10, <1>11, <1>12 DEF
           FlusherStep

-----------------------------------------------------------------------------
(* The buffers, and what each thread knows about them.                     *)

\* A step of a flush leaves the buffers alone, and its thread with its buffer.
LEMMA FlushMemory ==
  ASSUME MemoryOK, DiskOK, Exclusion, NEW p \in Process, FlushToFile(p)
  PROVE  MemoryOK'
<1>1. /\ pc[p] \in InFlush /\ pc'[p] \in InFlush
      /\ \A q \in Process \ {p} : pc'[q] = pc[q]
      /\ UNCHANGED <<memoryVars, isFull, lock, isThreadReady, op, writeVars, doFlush>>
  BY GotoMoves DEF FlushToFile, FlushWrite, FlushWriteFails, FlushNoFile, RotateClose, RotateRename,
                   RotateOpen, FlushRest, FlushCount, InFlush
<1>2. job'["controller"].buffer = job["controller"].buffer
  <2>1. JobTyped
    BY DEF DiskOK
  <2>2. CASE FlushWrite(p)
    BY <2>1, <2>2 DEF FlushWrite, JobTyped, JobType, Process
  <2>3. CASE RotateOpen(p)
    BY <2>1, <2>3 DEF RotateOpen, JobTyped, JobType, Process
  <2>4. CASE FlushRest(p)
    BY <2>1, <2>4 DEF FlushRest, JobTyped, JobType, Process
  <2>5. CASE FlushWriteFails(p) \/ FlushNoFile(p) \/ RotateClose(p) \/ RotateRename(p) \/ FlushCount(p)
    BY <2>5 DEF FlushWriteFails, FlushNoFile, RotateClose, RotateRename, FlushCount, diskVars
  <2> QED
    BY <2>2, <2>3, <2>4, <2>5 DEF FlushToFile
<1>3. MemoryTyped'
  BY <1>1 DEF MemoryOK, MemoryTyped, memoryVars, writeVars
<1>4. PcTyped'
  BY <1>1 DEF MemoryOK, PcTyped, ControllerPc, FlusherPc, Process
<1>5. WriteOK'
  BY <1>1, <1>2 DEF MemoryOK, WriteOK, memoryVars, writeVars, Process, InFlush
<1> QED BY <1>3, <1>4, <1>5 DEF MemoryOK

\* The controller's steps keep the counts and slots in their buffers.
LEMMA ControllerMemory ==
  ASSUME MemoryOK, DiskOK, Exclusion, ControllerCall \/ ControllerStep
  PROVE  MemoryOK'
<1> USE DEF MemoryOK, PcTyped, MemoryTyped, WriteOK, ControllerPc, FlusherPc, InFlush, Goto,
            Return, memoryVars, diskVars, writeVars, Process, Buffer, Other, Record, NULL
<1>1. /\ pc = [p \in Process |-> pc[p]]
      /\ BufferMax \in Nat \ {0} /\ MaxRecord \in Nat
  BY BufferAssumption, BoundAssumption DEF Exclusion, Typed
<1>2. CASE Write
  BY <1>1, <1>2 DEF Write
<1>3. CASE WriteCopy
  <2>1. pc["controller"] = "copy" /\ pBufferCurrent \in Buffer /\ data \in Record
    BY <1>1, <1>3 DEF WriteCopy
  <2>2. buffer' \in [Buffer -> [1 .. BufferMax -> Record]]
    <3>1. CASE countBufferCurrent < BufferMax
      <4> DEFINE slots == [buffer[pBufferCurrent] EXCEPT ![countBufferCurrent + 1] = data]
      <4>1. slots \in [1 .. BufferMax -> Record]
        BY <2>1, <3>1
      <4>2. buffer' = [buffer EXCEPT ![pBufferCurrent] = slots]
        BY <1>3, <3>1 DEF WriteCopy
      <4> HIDE DEF slots
      <4> QED BY <2>1, <4>1, <4>2
    <3>2. CASE ~(countBufferCurrent < BufferMax)
      BY <1>3, <3>2 DEF WriteCopy
    <3> QED BY <3>1, <3>2
  <2>3. /\ read' \in 0 .. BufferMax \cup Buffer
        /\ pc'["controller"] = "increment" => read' \in 0 .. BufferMax - 1
    BY <1>1, <1>3, <2>1 DEF WriteCopy
  <2> QED BY <1>1, <1>3, <2>1, <2>2, <2>3 DEF WriteCopy
<1>4. CASE WriteIncrement
  BY <1>1, <1>4 DEF WriteIncrement
<1>5. CASE WriteReturn
  BY <1>1, <1>5 DEF WriteReturn
<1>6. CASE WriteFlush
  BY <1>1, <1>6 DEF WriteFlush
<1>7. CASE WriteFull
  BY <1>1, <1>7 DEF WriteFull
<1>8. CASE WriteWhich
  BY <1>1, <1>8 DEF WriteWhich
<1>9. CASE MarkFull
  BY <1>1, <1>9 DEF MarkFull
<1>10. CASE WriteSwitch
  BY <1>1, <1>10 DEF WriteSwitch
<1>11. CASE WriteStop
  BY <1>1, <1>11 DEF WriteStop
<1>12. CASE Flush
  BY <1>1, <1>12 DEF Flush
<1>13. CASE Open
  BY <1>1, <1>13 DEF Open
<1>14. CASE StillFlushing
  BY <1>1, <1>14 DEF StillFlushing
<1>15. CASE IsFlushing
  BY <1>1, <1>15 DEF IsFlushing
<1>16. CASE FlushReturn
  BY <1>1, <1>16 DEF FlushReturn
<1>17. CASE OpenFile
  BY <1>1, <1>17 DEF OpenFile
<1>18. CASE OpenFails
  BY <1>1, <1>18 DEF OpenFails
<1>19. CASE ResetFull
  BY <1>1, <1>19 DEF ResetFull
<1>20. CASE Close
  BY <1>1, <1>20 DEF Close
<1>21. CASE RunFlushInNewThread
  BY <1>1, <1>21 DEF RunFlushInNewThread
<1>22. CASE SetReady
  BY <1>1, <1>22 DEF SetReady
<1>23. CASE CloseThread
  BY <1>1, <1>23 DEF CloseThread
<1>24. CASE Join
  BY <1>1, <1>24 DEF Join
<1>25. CASE FlushArgs
  <2>1. job'["controller"].buffer = pBufferCurrent
    <3>1. /\ "controller" \in Process
          /\ FlushCall(pBufferCurrent, countBufferCurrent).buffer = pBufferCurrent
      BY DEF FlushCall
    <3> QED BY <1>25, <3>1 DEF FlushArgs, DiskOK, JobTyped
  <2> QED BY <1>1, <1>25, <2>1 DEF FlushArgs
<1>26. CASE Lock("controller", "lockMark", "mark")
  BY <1>1, <1>26 DEF Lock
<1>27. CASE Lock("controller", "tryLock", "isFlushing")
  BY <1>1, <1>27 DEF Lock
<1>28. CASE Lock("controller", "lockReset", "reset")
  BY <1>1, <1>28 DEF Lock
<1>29. CASE FlushToFile("controller")
  BY <1>1, <1>29, FlushMemory
<1> QED BY <1>2, <1>3, <1>4, <1>5, <1>6, <1>7, <1>8, <1>9, <1>10, <1>11, <1>12, <1>13,
           <1>14, <1>15, <1>16, <1>17, <1>18, <1>19, <1>20, <1>21, <1>22, <1>23, <1>24, <1>25,
           <1>26, <1>27, <1>28, <1>29 DEF ControllerCall, ControllerStep

\* The flusher's steps keep them too: it gives the controller a buffer, never takes one.
LEMMA FlusherMemory ==
  ASSUME MemoryOK, DiskOK, Exclusion, FlusherStep
  PROVE  MemoryOK'
<1> USE DEF MemoryOK, PcTyped, MemoryTyped, WriteOK, ControllerPc, FlusherPc, InFlush, Goto,
            memoryVars, diskVars, writeVars, Process, Buffer, Record, NULL
<1>1. /\ pc = [p \in Process |-> pc[p]]
      /\ BufferMax \in Nat \ {0} /\ MaxRecord \in Nat
      /\ job \in [Process -> JobType]
  BY BufferAssumption, BoundAssumption DEF Exclusion, Typed, DiskOK, JobTyped
<1>2. CASE Start
  BY <1>1, <1>2 DEF Start
<1>3. CASE End
  BY <1>1, <1>3 DEF End
<1>4. CASE Flushed
  BY <1>1, <1>4 DEF Flushed
<1>5. CASE Reassign
  BY <1>1, <1>5 DEF Reassign
<1>6. CASE Assign
  BY <1>1, <1>6 DEF Assign
<1>7. CASE ZeroCount
  BY <1>1, <1>7 DEF ZeroCount
<1>8. CASE TryLock
  BY <1>1, <1>8 DEF TryLock, Lock
<1>9. CASE Lock("flusher", "lockClear", "clear")
  BY <1>1, <1>9 DEF Lock
<1>10. CASE Snapshot
  BY <1>1, <1>10 DEF Snapshot, FullBuffers
<1>11. CASE ClearFull
  BY <1>1, <1>11 DEF ClearFull
<1>12. CASE FlushToFile("flusher")
  BY <1>1, <1>12, FlushMemory
<1> QED BY <1>2, <1>3, <1>4, <1>5, <1>6, <1>7, <1>8, <1>9, <1>10, <1>11, <1>12 DEF
           FlusherStep

-----------------------------------------------------------------------------
\* Initially the buffers are empty and no file is open.
LEMMA InitRotation == Init => Rotation
<1> SUFFICES ASSUME Init PROVE Rotation
  OBVIOUS
<1>1. BufferMax \in Nat \ {0} /\ FileMax \in Nat \ {0} /\ MaxRecord \in Nat /\ MaxFault \in Nat
  BY BufferAssumption, FileAssumption, BoundAssumption
<1>2. MemoryOK
  <2>1. [i \in 1 .. BufferMax |-> 0] \in [1 .. BufferMax -> Record] /\ 0 \in Record
    BY <1>1 DEF Record
  <2>2. buffer \in [Buffer -> [1 .. BufferMax -> Record]]
    BY <2>1 DEF Init
  <2>3. MemoryTyped
    <3>1. /\ pBufferCurrent = NULL /\ countBufferCurrent = 0 /\ data = 0 /\ read = 0
          /\ lock = NoProcess /\ isThreadReady = FALSE /\ op = "none" /\ doFlush = {}
          /\ isFull \in [Buffer -> BOOLEAN]
      BY DEF Init
    <3>2. 0 \in 0 .. BufferMax
      BY <1>1
    <3> QED BY <2>1, <2>2, <3>1, <3>2 DEF MemoryTyped
  <2>4. PcTyped /\ WriteOK
    BY DEF Init, PcTyped, WriteOK, ControllerPc, FlusherPc, InFlush
  <2> QED BY <2>3, <2>4 DEF MemoryOK
<1>3. DiskTyped /\ RotatedFull
  <2>1. file \in Seq(Record) /\ rotated \in Seq(Seq(Record)) /\ Len(rotated) = 0
    BY EmptySeq DEF Init
  <2>2. pFile \in BOOLEAN /\ countFile \in 0 .. FileMax - 1 /\ fault \in 0 .. MaxFault
    <3>1. pFile = FALSE /\ countFile = 0 /\ fault = 0
      BY DEF Init
    <3>2. 0 \in 0 .. FileMax - 1
      BY <1>1
    <3>3. 0 \in 0 .. MaxFault
      BY <1>1
    <3> QED BY <3>1, <3>2, <3>3
  <2> QED BY <2>1, <2>2 DEF DiskTyped, RotatedFull
<1>4. JobTyped
  BY NoJobTyped DEF Init, JobTyped
<1>5. Resting /\ \A p \in Process : FlushOK(p)
  BY DEF Init, Resting, FlushOK, InFlush, Process
<1> QED BY <1>2, <1>3, <1>4, <1>5 DEF Rotation, DiskOK

\* Every step keeps it, given that the two threads keep out of each other's way.
LEMMA NextRotation == Rotation /\ Exclusion /\ FileExclusive' /\ [Next]_vars => Rotation'
<1> SUFFICES ASSUME MemoryOK, DiskOK, Exclusion, FileExclusive', [Next]_vars
             PROVE  MemoryOK' /\ DiskOK'
  BY DEF Rotation
<1>1. CASE ControllerCall \/ ControllerStep
  BY <1>1, ControllerMemory, ControllerDisk
<1>2. CASE FlusherStep
  BY <1>2, FlusherMemory, FlusherDisk
<1>3. CASE UNCHANGED vars
  <2>1. UNCHANGED <<memoryVars, isFull, lock, isThreadReady, pc, job, op, writeVars, doFlush>>
        /\ UNCHANGED <<pFile, file, rotated, countFile, fault>>
    BY <1>3 DEF vars, diskVars
  <2>2. MemoryOK'
    BY <2>1 DEF MemoryOK, PcTyped, MemoryTyped, WriteOK, memoryVars, writeVars
  <2> QED BY <2>1, <2>2, OutsideFlush
<1> QED BY <1>1, <1>2, <1>3 DEF Next

\* The inductive invariant of the log: what the file holds in every step, while
\* only one thread can be in the steps that touch it.
LEMMA LogInvariant == Spec => [](Rotation /\ Exclusion)
<1>1. Init => Rotation /\ Exclusion
  BY InitRotation, InitExclusion
<1>2. Rotation /\ Exclusion /\ [Next]_vars => (Rotation /\ Exclusion)'
  <2>1. Exclusion /\ [Next]_vars => Exclusion'
    BY NextExclusion
  <2>2. Exclusion' => FileExclusive'
    BY ExclusionExcludes, PTL
  <2> QED BY <2>1, <2>2, NextRotation
<1> QED BY <1>1, <1>2, PTL DEF Spec

\* Every count, slot and step of the log stays inside its range, for any buffer
\* and file size and any number of records and I/O errors.
THEOREM LogTyped == Spec => []TypeOK
<1>1. Rotation => TypeOK
  BY PartsOfTypeOK DEF Rotation, MemoryOK, DiskOK
<1> QED BY <1>1, LogInvariant, PTL

\* Every rotated file holds exactly recordPerFile records, and countFile is what
\* the open file holds whenever no flush is under way: whatever the sizes of the
\* flushes, wherever an fwrite(), fclose(), rename() or fopen() fails.
THEOREM RotationIsExact == Spec => []RotationExact
<1>1. Rotation => RotationExact
  BY DEF Rotation, DiskOK, Resting, RotatedFull, RotationExact
<1> QED BY <1>1, LogInvariant, PTL
=============================================================================
