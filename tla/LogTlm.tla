------------------------------- MODULE LogTlm -------------------------------
(***************************************************************************)
(* src/logTlm.c: the telemetry log.  The controller calls logTlm_write()   *)
(* in its control loop; records are collected in one of two buffers and a  *)
(* full buffer is flushed to a rotating file, by the controller itself or, *)
(* after logTlm_runFlushInNewThread(), by the flusher thread.              *)
(*                                                                         *)
(* Only isFull is protected by the mutex: pBufferCurrent,                  *)
(* countBufferCurrent and pFile are read and written by both threads.  A   *)
(* step is one access to them, or several that the other thread's accesses *)
(* between them cannot tell from one.                                      *)
(***************************************************************************)
EXTENDS Integers, Sequences

CONSTANTS BufferMax,   \* sizeBuffer of logTlm_createBuffer()
          FileMax,     \* recordPerFile of logTlm_open()
          MaxRecord,   \* bound: how many records the controller writes
          MaxFault     \* bound: how many I/O calls fail

ASSUME BufferAssumption == BufferMax \in Nat \ {0}
\* The test at the head of logTlm_open().
ASSUME FileAssumption == FileMax \in Nat /\ FileMax >= BufferMax
ASSUME BoundAssumption == MaxRecord \in Nat /\ MaxFault \in Nat

Process == {"controller", "flusher"}
NoProcess == "nobody"
Buffer == {1, 2}
NULL == 0

VARIABLES
  buffer,              \* pBuffer1 and pBuffer2: slot -> number of the record
  pBufferCurrent,      \* 1, 2 or NULL
  countBufferCurrent,
  isFull,              \* isFullBuffer1 and isFullBuffer2
  lock,
  isThreadReady,
  pFile,               \* is the file open (pFile # NULL)
  file,                \* the records in the file under its own name
  rotated,             \* the contents of the files renamed to .0, .1, ...
  countFile,
  pc,                  \* what each thread does next
  job,                 \* the arguments and locals of its logTlm_flushToFile()
  op,                  \* which call the controller is in, where it matters
  data,                \* the record the controller last asked to write
  read,                \* what its logTlm_write() has read and still uses: the
                       \* counter (line 296), later the current buffer (line 314)
  doFlush,             \* the flusher's doFlushBuffer1 and doFlushBuffer2
  fault                \* how many I/O calls have failed

memoryVars == <<buffer, pBufferCurrent, countBufferCurrent>>
diskVars == <<pFile, file, rotated, countFile, fault>>
writeVars == <<data, read>>
vars == <<memoryVars, isFull, lock, isThreadReady, diskVars, pc, job, op, writeVars, doFlush>>

\* logTlm_flushToFile(b, n) before its first write.
FlushCall(b, n) ==
  [buffer |-> b, count |-> n, numToFile |-> 0, done |-> 0, isRotated |-> FALSE]
NoJob == FlushCall(NULL, 0)
Other(b) == 3 - b

\* The buffers exist (logTlm_createBuffer()), no file is open, no thread runs.
Init ==
  /\ buffer = [b \in Buffer |-> [i \in 1 .. BufferMax |-> 0]]
  /\ pBufferCurrent = NULL
  /\ countBufferCurrent = 0
  /\ isFull = [b \in Buffer |-> FALSE]
  /\ lock = NoProcess
  /\ isThreadReady = FALSE
  /\ pFile = FALSE
  /\ file = <<>>
  /\ rotated = <<>>
  /\ countFile = 0
  /\ pc = [controller |-> "idle", flusher |-> "none"]
  /\ job = [p \in Process |-> NoJob]
  /\ op = "none"
  /\ data = 0
  /\ read = 0
  /\ doFlush = {}
  /\ fault = 0

Goto(p, from, to) == pc[p] = from /\ pc' = [pc EXCEPT ![p] = to]
Fault == fault < MaxFault /\ fault' = fault + 1

\* logTlm_lock(), or a pthread_mutex_trylock() that succeeds.
Lock(p, from, to) ==
  /\ lock = NoProcess
  /\ Goto(p, from, to)
  /\ lock' = p
  /\ UNCHANGED <<memoryVars, isFull, isThreadReady, diskVars, job, op, writeVars, doFlush>>

-----------------------------------------------------------------------------
(* logTlm_flushToFile(), called by either thread.                          *)

spaceAvailable == FileMax - countFile
NumToFile(n) == IF n <= spaceAvailable THEN n ELSE spaceAvailable

\* The first fwrite(); it reports 0 for an error and also when there is nothing
\* to write, and logTlm_writeToFile() then closes the file.
FlushWrite(p) ==
  LET b == job[p].buffer
      n == NumToFile(job[p].count)
  IN  /\ pFile
      /\ n > 0
      /\ Goto(p, "write", IF n = spaceAvailable THEN "rotate" ELSE "count")
      /\ file' = file \o SubSeq(buffer[b], 1, n)
      /\ job' = [job EXCEPT ![p].numToFile = n, ![p].done = n]
      /\ UNCHANGED <<memoryVars, isFull, lock, isThreadReady, pFile, rotated, countFile,
                     fault, op, writeVars, doFlush>>

FlushWriteFails(p) ==
  LET b == job[p].buffer
      n == NumToFile(job[p].count)
  IN  /\ pFile
      /\ Goto(p, "write", "flushed")
      /\ \/ n = 0 /\ UNCHANGED <<file, fault>>
         \/ \E k \in 0 .. n - 1 : /\ Fault
                                  /\ file' = file \o SubSeq(buffer[b], 1, k)
      /\ pFile' = FALSE
      /\ UNCHANGED <<memoryVars, isFull, lock, isThreadReady, rotated, countFile,
                     job, op, writeVars, doFlush>>

FlushNoFile(p) ==
  /\ ~pFile
  /\ Goto(p, "write", "flushed")
  /\ UNCHANGED <<memoryVars, isFull, lock, isThreadReady, diskVars, job, op, writeVars, doFlush>>

\* logTlm_rotateFile(): fclose() ...
RotateClose(p) ==
  /\ \/ Goto(p, "rotate", "rename") /\ UNCHANGED fault
     \/ Goto(p, "rotate", "flushed") /\ Fault
  /\ pFile' = FALSE
  /\ UNCHANGED <<memoryVars, isFull, lock, isThreadReady, file, rotated, countFile,
                 job, op, writeVars, doFlush>>

\* ... rename() ...
RotateRename(p) ==
  /\ \/ /\ Goto(p, "rename", "reopen")
        /\ rotated' = Append(rotated, file)
        /\ file' = <<>>
        /\ UNCHANGED fault
     \/ /\ Goto(p, "rename", "flushed")
        /\ Fault
        /\ UNCHANGED <<rotated, file>>
  /\ UNCHANGED <<memoryVars, isFull, lock, isThreadReady, pFile, countFile,
                 job, op, writeVars, doFlush>>

\* ... and fopen().
RotateOpen(p) ==
  /\ \/ /\ Goto(p, "reopen", IF job[p].done < job[p].count THEN "rest" ELSE "count")
        /\ pFile' = TRUE
        /\ job' = [job EXCEPT ![p].isRotated = TRUE]
        /\ UNCHANGED fault
     \/ /\ Goto(p, "reopen", "flushed")
        /\ Fault
        /\ UNCHANGED <<pFile, job>>
  /\ UNCHANGED <<memoryVars, isFull, lock, isThreadReady, file, rotated, countFile,
                 op, writeVars, doFlush>>

\* What did not fit in the old file goes to the new one.
\* The rest taken from the start of the buffer.
Rest_FromStart(j) == SubSeq(buffer[j.buffer], 1, j.count - j.numToFile)
Rest(j) == SubSeq(buffer[j.buffer], j.numToFile + 1, j.count)

FlushRest(p) ==
  LET left == Rest(job[p])
  IN  /\ \/ /\ Goto(p, "rest", "count")
            /\ file' = file \o left
            /\ job' = [job EXCEPT ![p].done = job[p].count]
            /\ UNCHANGED <<pFile, fault>>
         \/ /\ Goto(p, "rest", "flushed")
            /\ Fault
            /\ \E k \in 0 .. Len(left) - 1 : file' = file \o SubSeq(left, 1, k)
            /\ pFile' = FALSE
            /\ UNCHANGED job
      /\ UNCHANGED <<memoryVars, isFull, lock, isThreadReady, rotated, countFile,
                     op, writeVars, doFlush>>

\* The counter when a rotation is forgotten.
FileCount_NoRotation(j) == countFile + j.numToFile
FileCount(j) == IF j.isRotated THEN j.count - j.numToFile ELSE countFile + j.numToFile

FlushCount(p) ==
  /\ Goto(p, "count", "flushed")
  /\ countFile' = FileCount(job[p])
  /\ UNCHANGED <<memoryVars, isFull, lock, isThreadReady, pFile, file, rotated, fault,
                 job, op, writeVars, doFlush>>

FlushToFile(p) == \/ FlushWrite(p)
                  \/ FlushWriteFails(p)
                  \/ FlushNoFile(p)
                  \/ RotateClose(p)
                  \/ RotateRename(p)
                  \/ RotateOpen(p)
                  \/ FlushRest(p)
                  \/ FlushCount(p)

-----------------------------------------------------------------------------
(* The controller: one API call after another.                             *)

Return(from) == Goto("controller", from, "idle")

\* logTlm_write(): without a buffer or a file it returns -2 and does nothing.
Write ==
  /\ pBufferCurrent # NULL
  /\ pFile
  /\ data < MaxRecord
  /\ Goto("controller", "idle", "copy")
  /\ data' = data + 1
  /\ op' = "write"
  /\ UNCHANGED <<memoryVars, isFull, lock, isThreadReady, diskVars, job, read, doFlush>>

\* The copy that checks the space with <= instead of <.
WriteCopy_OffByOne ==
  /\ Goto("controller", "copy", "increment")
  /\ buffer' = [buffer EXCEPT ![pBufferCurrent] =
                  [i \in DOMAIN @ |-> IF i = countBufferCurrent + 1 THEN data ELSE @[i]]]
  /\ read' = countBufferCurrent
  /\ UNCHANGED <<pBufferCurrent, countBufferCurrent, isFull, lock, isThreadReady, diskVars,
                 job, op, data, doFlush>>
\* The copy, if there is space for it ...
WriteCopy ==
  /\ IF countBufferCurrent < BufferMax
     THEN /\ Goto("controller", "copy", "increment")
          /\ buffer' = [buffer EXCEPT ![pBufferCurrent][countBufferCurrent + 1] = data]
          /\ read' = countBufferCurrent
     ELSE /\ Goto("controller", "copy", "test")
          /\ UNCHANGED <<buffer, read>>
  /\ UNCHANGED <<pBufferCurrent, countBufferCurrent, isFull, lock, isThreadReady, diskVars,
                 job, op, data, doFlush>>

\* ... and "countBufferCurrent += 1".
WriteIncrement ==
  /\ Goto("controller", "increment", "test")
  /\ countBufferCurrent' = read + 1
  /\ read' = 0
  /\ UNCHANGED <<buffer, pBufferCurrent, isFull, lock, isThreadReady, diskVars, job, op,
                 data, doFlush>>

\* The second read of the counter: return 0 while there is space, else hand the
\* buffer to the thread or, without a thread, flush it at once.
WriteReturn ==
  /\ countBufferCurrent < BufferMax
  /\ Return("test")
  /\ op' = "none"
  /\ UNCHANGED <<memoryVars, isFull, lock, isThreadReady, diskVars, job, writeVars, doFlush>>

WriteFlush ==
  /\ countBufferCurrent >= BufferMax
  /\ ~isThreadReady
  /\ Goto("controller", "test", "args")
  /\ UNCHANGED <<memoryVars, isFull, lock, isThreadReady, diskVars, job, op, writeVars, doFlush>>

WriteFull ==
  /\ countBufferCurrent >= BufferMax
  /\ isThreadReady
  /\ Goto("controller", "test", "which")
  /\ UNCHANGED <<memoryVars, isFull, lock, isThreadReady, diskVars, job, op, writeVars, doFlush>>

\* "if (pBufferCurrent == pBuffer1)": from here on the code knows which it was.
WriteWhich ==
  /\ Goto("controller", "which", "lockMark")
  /\ read' = pBufferCurrent
  /\ UNCHANGED <<memoryVars, isFull, lock, isThreadReady, diskVars, job, op, data, doFlush>>

\* The critical section: mark this buffer, look at the other one.
MarkFull ==
  /\ Goto("controller", "mark", IF isFull[Other(read)] THEN "stop" ELSE "switch")
  /\ isFull' = [isFull EXCEPT ![read] = TRUE]
  /\ lock' = NoProcess
  /\ UNCHANGED <<memoryVars, isThreadReady, diskVars, job, op, writeVars, doFlush>>

WriteSwitch ==
  /\ Return("switch")
  /\ pBufferCurrent' = Other(read)
  /\ countBufferCurrent' = 0
  /\ read' = 0
  /\ op' = "none"
  /\ UNCHANGED <<buffer, isFull, lock, isThreadReady, diskVars, job, data, doFlush>>

\* Both buffers are full: return -1 and leave no current buffer.
WriteStop ==
  /\ Return("stop")
  /\ pBufferCurrent' = NULL
  /\ read' = 0
  /\ op' = "none"
  /\ UNCHANGED <<buffer, countBufferCurrent, isFull, lock, isThreadReady, diskVars,
                 job, data, doFlush>>

\* logTlm_flush() and logTlm_open() ask logTlm_isFlushing() first, which returns
\* false at once when there is no thread.
Flush ==
  /\ pFile
  /\ pBufferCurrent # NULL
  /\ Goto("controller", "idle", IF isThreadReady THEN "tryLock" ELSE "args")
  /\ op' = "flush"
  /\ UNCHANGED <<memoryVars, isFull, lock, isThreadReady, diskVars, job, writeVars, doFlush>>

Open ==
  /\ Goto("controller", "idle", IF isThreadReady THEN "tryLock" ELSE "open")
  /\ op' = "open"
  /\ UNCHANGED <<memoryVars, isFull, lock, isThreadReady, diskVars, job, writeVars, doFlush>>

\* logTlm_isFlushing() that says no while the mutex is taken.
StillFlushing_Ignored ==
  /\ lock # NoProcess
  /\ Goto("controller", "tryLock", IF op = "flush" THEN "args" ELSE "open")
  /\ UNCHANGED <<memoryVars, isFull, lock, isThreadReady, diskVars, job, op, writeVars, doFlush>>
\* logTlm_isFlushing(): the mutex is taken, so assume a flush; return -1.
StillFlushing ==
  /\ lock # NoProcess
  /\ Return("tryLock")
  /\ op' = "none"
  /\ UNCHANGED <<memoryVars, isFull, lock, isThreadReady, diskVars, job, writeVars, doFlush>>

\* Its critical section, and what the caller makes of the answer.
IsFlushing ==
  /\ \/ /\ \E b \in Buffer : isFull[b]
        /\ Return("isFlushing")
        /\ op' = "none"
     \/ /\ \A b \in Buffer : ~isFull[b]
        /\ Goto("controller", "isFlushing", IF op = "flush" THEN "args" ELSE "open")
        /\ UNCHANGED op
  /\ lock' = NoProcess
  /\ UNCHANGED <<memoryVars, isFull, isThreadReady, diskVars, job, writeVars, doFlush>>

\* logTlm_flushToFile(pBufferCurrent, countBufferCurrent), outside the mutex.
FlushArgs ==
  /\ Goto("controller", "args", "write")
  /\ job' = [job EXCEPT !["controller"] = FlushCall(pBufferCurrent, countBufferCurrent)]
  /\ UNCHANGED <<memoryVars, isFull, lock, isThreadReady, diskVars, op, writeVars, doFlush>>

\* The controller's own flush is over, even if the file was closed by an error.
FlushReturn ==
  /\ Return("flushed")
  /\ countBufferCurrent' = 0
  /\ job' = [job EXCEPT !["controller"] = NoJob]
  /\ op' = "none"
  /\ UNCHANGED <<buffer, pBufferCurrent, isFull, lock, isThreadReady, diskVars, writeVars, doFlush>>

\* logTlm_open() closes the old file and starts a new log under a new name.
OpenFile ==
  /\ Goto("controller", "open", "lockReset")
  /\ pFile' = TRUE
  /\ file' = <<>>
  /\ rotated' = <<>>
  /\ countFile' = 0
  /\ countBufferCurrent' = 0
  /\ pBufferCurrent' = 1
  /\ UNCHANGED <<buffer, isFull, lock, isThreadReady, fault, job, op, writeVars, doFlush>>

\* fclose() of the old file or fopen() of the new one has failed.
OpenFails ==
  /\ Return("open")
  /\ Fault
  /\ pFile' = FALSE
  /\ op' = "none"
  /\ UNCHANGED <<memoryVars, isFull, lock, isThreadReady, file, rotated, countFile,
                 job, writeVars, doFlush>>

ResetFull ==
  /\ Return("reset")
  /\ isFull' = [b \in Buffer |-> FALSE]
  /\ lock' = NoProcess
  /\ op' = "none"
  /\ UNCHANGED <<memoryVars, isThreadReady, diskVars, job, writeVars, doFlush>>

\* logTlm_close() looks at no flag.  That no thread runs is what its callers see
\* to, as the tests do; the code does not ask for it.
Close ==
  /\ pc["controller"] = "idle"
  /\ pc["flusher"] = "none"
  /\ pFile
  /\ pFile' = FALSE
  /\ UNCHANGED <<memoryVars, isFull, lock, isThreadReady, file, rotated, countFile,
                 fault, pc, job, op, writeVars, doFlush>>

\* logTlm_runFlushInNewThread(): the thread exists before it is told to run.
RunFlushInNewThread ==
  /\ pc["controller"] = "idle"
  /\ pc["flusher"] = "none"
  /\ pc' = [controller |-> "setReady", flusher |-> "wait"]
  /\ UNCHANGED <<memoryVars, isFull, lock, isThreadReady, diskVars, job, op, writeVars, doFlush>>

SetReady ==
  /\ Return("setReady")
  /\ isThreadReady' = TRUE
  /\ UNCHANGED <<memoryVars, isFull, lock, diskVars, job, op, writeVars, doFlush>>

\* The join without telling the thread to stop.
CloseThread_ForgetsFlag ==
  /\ isThreadReady
  /\ Goto("controller", "idle", "join")
  /\ UNCHANGED <<memoryVars, isFull, lock, isThreadReady, diskVars, job, op, writeVars, doFlush>>

\* logTlm_closeThread(): tell the thread to stop, then pthread_join().
CloseThread ==
  /\ isThreadReady
  /\ Goto("controller", "idle", "join")
  /\ isThreadReady' = FALSE
  /\ UNCHANGED <<memoryVars, isFull, lock, diskVars, job, op, writeVars, doFlush>>

Join ==
  /\ pc["controller"] = "join"
  /\ pc["flusher"] = "ended"
  /\ pc' = [controller |-> "idle", flusher |-> "none"]
  /\ UNCHANGED <<memoryVars, isFull, lock, isThreadReady, diskVars, job, op, writeVars, doFlush>>

\* The calls it may make, and the steps inside a call.
ControllerCall == Write \/ Flush \/ Open \/ Close \/ RunFlushInNewThread \/ CloseThread

ControllerStep ==
  \/ WriteCopy \/ WriteIncrement \/ WriteReturn \/ WriteFlush \/ WriteFull \/ WriteWhich
  \/ Lock("controller", "lockMark", "mark") \/ MarkFull
  \/ WriteSwitch \/ WriteStop
  \/ Lock("controller", "tryLock", "isFlushing") \/ StillFlushing \/ IsFlushing
  \/ FlushArgs \/ FlushToFile("controller") \/ FlushReturn
  \/ OpenFile \/ OpenFails \/ Lock("controller", "lockReset", "reset") \/ ResetFull
  \/ SetReady \/ Join

-----------------------------------------------------------------------------
(* The flusher: logTlm_run().                                              *)

Start ==
  /\ isThreadReady
  /\ Goto("flusher", "wait", "loop")
  /\ UNCHANGED <<memoryVars, isFull, lock, isThreadReady, diskVars, job, op, writeVars, doFlush>>

End ==
  /\ ~isThreadReady
  /\ Goto("flusher", "loop", "ended")
  /\ UNCHANGED <<memoryVars, isFull, lock, isThreadReady, diskVars, job, op, writeVars, doFlush>>

\* The loop condition holds; a failed trylock or a snapshot without a full
\* buffer only makes the thread sleep and loop again.
TryLock == isThreadReady /\ Lock("flusher", "loop", "snapshot")

\* The thread flushes buffer 1 before buffer 2.
NextJob(bs) == FlushCall(CHOOSE b \in bs : \A c \in bs : b <= c, BufferMax)

\* A snapshot that looks at isFullBuffer1 only.
FullBuffers_OnlyFirst == {b \in {1} : isFull[b]}
FullBuffers == {b \in Buffer : isFull[b]}

\* The flags cleared with the snapshot, before the flush.
Snapshot_ClearsEarly ==
  /\ Goto("flusher", "snapshot", IF FullBuffers = {} THEN "loop" ELSE "write")
  /\ doFlush' = FullBuffers
  /\ job' = [job EXCEPT !["flusher"] = IF FullBuffers = {} THEN NoJob ELSE NextJob(FullBuffers)]
  /\ isFull' = [b \in Buffer |-> FALSE]
  /\ lock' = NoProcess
  /\ UNCHANGED <<memoryVars, isThreadReady, diskVars, op, writeVars>>
Snapshot ==
  /\ Goto("flusher", "snapshot", IF FullBuffers = {} THEN "loop" ELSE "write")
  /\ doFlush' = FullBuffers
  /\ job' = [job EXCEPT !["flusher"] = IF FullBuffers = {} THEN NoJob ELSE NextJob(FullBuffers)]
  /\ lock' = NoProcess
  /\ UNCHANGED <<memoryVars, isFull, isThreadReady, diskVars, op, writeVars>>

Flushed ==
  /\ Goto("flusher", "flushed", "lockClear")
  /\ UNCHANGED <<memoryVars, isFull, lock, isThreadReady, diskVars, job, op, writeVars, doFlush>>

\* The flag cleared, the mutex kept.
ClearFull_NoUnlock ==
  LET b == job["flusher"].buffer
      left == doFlush \ {b}
  IN  /\ Goto("flusher", "clear", IF left = {} THEN "reassign" ELSE "write")
      /\ isFull' = [isFull EXCEPT ![b] = FALSE]
      /\ doFlush' = left
      /\ job' = [job EXCEPT !["flusher"] = IF left = {} THEN NoJob ELSE NextJob(left)]
      /\ UNCHANGED <<memoryVars, lock, isThreadReady, diskVars, op, writeVars>>
ClearFull ==
  LET b == job["flusher"].buffer
      left == doFlush \ {b}
  IN  /\ Goto("flusher", "clear", IF left = {} THEN "reassign" ELSE "write")
      /\ isFull' = [isFull EXCEPT ![b] = FALSE]
      /\ lock' = NoProcess
      /\ doFlush' = left
      /\ job' = [job EXCEPT !["flusher"] = IF left = {} THEN NoJob ELSE NextJob(left)]
      /\ UNCHANGED <<memoryVars, isThreadReady, diskVars, op, writeVars>>

\* Give the controller a buffer again if it has none: three separate accesses.
Reassign ==
  /\ Goto("flusher", "reassign", IF pBufferCurrent = NULL THEN "assign" ELSE "loop")
  /\ UNCHANGED <<memoryVars, isFull, lock, isThreadReady, diskVars, job, op, writeVars, doFlush>>

Assign ==
  /\ Goto("flusher", "assign", "zero")
  /\ pBufferCurrent' = 1
  /\ UNCHANGED <<buffer, countBufferCurrent, isFull, lock, isThreadReady, diskVars,
                 job, op, writeVars, doFlush>>

ZeroCount ==
  /\ Goto("flusher", "zero", "loop")
  /\ countBufferCurrent' = 0
  /\ UNCHANGED <<buffer, pBufferCurrent, isFull, lock, isThreadReady, diskVars,
                 job, op, writeVars, doFlush>>

FlusherStep ==
  \/ Start \/ End \/ TryLock \/ Snapshot
  \/ FlushToFile("flusher") \/ Flushed
  \/ Lock("flusher", "lockClear", "clear") \/ ClearFull
  \/ Reassign \/ Assign \/ ZeroCount

-----------------------------------------------------------------------------
Next == ControllerCall \/ ControllerStep \/ FlusherStep

Spec == Init /\ [][Next]_vars

\* Both threads are scheduled.  The mutex is held for a few instructions at a
\* time, so a thread that keeps asking for it gets it in the end.
Fairness ==
  /\ WF_vars(ControllerStep)
  /\ WF_vars(FlusherStep)
  /\ SF_vars(TryLock)
  /\ SF_vars(Lock("controller", "lockMark", "mark"))
  /\ SF_vars(Lock("controller", "lockReset", "reset"))
  /\ SF_vars(Lock("flusher", "lockClear", "clear"))

FairSpec == Spec /\ Fairness

-----------------------------------------------------------------------------
InFlush == {"write", "rotate", "rename", "reopen", "rest", "count", "flushed"}

\* Every count and every slot stays inside its buffer, every thread at a step
\* of its own code.
TypeOK ==
  /\ buffer \in [Buffer -> [1 .. BufferMax -> 0 .. MaxRecord]]
  /\ pBufferCurrent \in Buffer \cup {NULL}
  /\ countBufferCurrent \in 0 .. BufferMax
  /\ isFull \in [Buffer -> BOOLEAN]
  /\ lock \in Process \cup {NoProcess}
  /\ isThreadReady \in BOOLEAN
  /\ pFile \in BOOLEAN
  /\ file \in Seq(0 .. MaxRecord)
  /\ rotated \in Seq(Seq(0 .. MaxRecord))
  /\ countFile \in 0 .. FileMax - 1
  /\ pc["controller"] \in InFlush \cup
       {"idle", "copy", "increment", "test", "which", "lockMark", "mark", "switch",
        "stop", "tryLock", "isFlushing", "args", "open", "lockReset", "reset", "setReady", "join"}
  /\ pc["flusher"] \in InFlush \cup
       {"none", "wait", "loop", "snapshot", "lockClear", "clear", "reassign",
        "assign", "zero", "ended"}
  /\ job \in [Process -> [buffer : Buffer \cup {NULL}, count : 0 .. BufferMax,
                          numToFile : 0 .. BufferMax, done : 0 .. BufferMax,
                          isRotated : BOOLEAN]]
  /\ op \in {"none", "write", "flush", "open"}
  /\ data \in 0 .. MaxRecord
  /\ read \in 0 .. BufferMax \cup Buffer
  /\ doFlush \subseteq Buffer
  /\ fault \in 0 .. MaxFault

\* The two threads are never both in logTlm_flushToFile(), although each decides
\* on its own and holds no mutex there: pFile, countFile and the file itself
\* have no other protection.
FileExclusive == ~(pc["controller"] \in InFlush /\ pc["flusher"] \in InFlush)

\* Every rotated file holds exactly recordPerFile records, whatever the sizes
\* of the flushes that filled it; countFile agrees with the open file whenever
\* no flush is under way.
RotationExact ==
  /\ \A i \in 1 .. Len(rotated) : Len(rotated[i]) = FileMax
  /\ pFile /\ (\A p \in Process : pc[p] \notin InFlush) => Len(file) = countFile

\* A full buffer is handed over once: as long as it is full and the thread
\* runs, the thread will get to it and empty it.
BufferFlushed ==
  \A b \in Buffer : isFull[b] /\ isThreadReady ~> ~isFull[b] \/ ~isThreadReady

\* The calls of the control loop come back: the controller never waits for the
\* flusher, only for the mutex.
CallReturns == op # "none" ~> op = "none"

\* logTlm_closeThread() returns, if the thread had got as far as its loop.
ThreadJoins == pc["controller"] = "join" /\ pc["flusher"] # "wait" ~> pc["controller"] = "idle"

-----------------------------------------------------------------------------
(* What the documentation and the tests say, and the code does not do.     *)

\* "Close the running thread. This is used in the shutdown process." (logTlm.h
\* line 50): it closes the thread whenever it is called.
CloseThreadReturns == pc["controller"] = "join" ~> pc["controller"] = "idle"

\* After -1 the test waits for the flush and expects a current buffer again
\* (testLogTlmThread.cpp line 71), as the comment at line 511 of logTlm.c intends.
BufferComesBack ==
  pFile /\ pBufferCurrent = NULL /\ isThreadReady ~> pBufferCurrent # NULL \/ ~isThreadReady

\* "2 buffers to avoid the lost of data" (versionHistory.md line 47): the records
\* of a full buffer stay there until it has been flushed.
FullBufferKept ==
  [][\A b \in Buffer : isFull[b] /\ isFull'[b] => buffer'[b] = buffer[b]]_vars
=============================================================================
