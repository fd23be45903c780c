------------------------------ MODULE LogBuffers ------------------------------
(***************************************************************************)
(* src/logTlm.c: the life of the log's buffers, which a caller creates,    *)
(* opens a log with, and frees, and does again with other sizes.  Memory   *)
(* may be refused, and what one log left in the static variables is there  *)
(* for the next.  The caller stops the thread and closes the file before   *)
(* it frees the buffers.  A turn of the thread is one step: LogTlm has the *)
(* interleavings, and begins where LogOpen leaves off.                     *)
(***************************************************************************)
EXTENDS Integers

CONSTANT MaxSize      \* bound: of sizeBuffer and recordPerFile

ASSUME MaxSizeAssumption == MaxSize \in Nat

VARIABLES memory,     \* the elements pBuffer1 and pBuffer2 point to, 0 for NULL
          current,    \* pBufferCurrent: 1, 2 or 0 for NULL
          counter,    \* countBufferCurrent
          countBufferMax, countFileMax,
          full,       \* the buffers whose flag is set
          fileOpen, threadReady,
          created,    \* was the caller told that there are buffers
          filled      \* history: how many records of this log each buffer has got

bufferVars == <<memory, current, counter, countBufferMax, countFileMax, full, fileOpen,
                threadReady, created, filled>>

Pair == {1, 2}
\* The value of the pointer pBuffer1 or pBuffer2.
Pointer(b) == IF memory[b] = 0 THEN 0 ELSE b

BufferInit ==
  /\ memory = [b \in Pair |-> 0]
  /\ current = 0 /\ counter = 0
  /\ countBufferMax = 0 /\ countFileMax = 0
  /\ full = {}
  /\ fileOpen = FALSE /\ threadReady = FALSE /\ created = FALSE
  /\ filled = [b \in Pair |-> 0]

\* logTlm_createBuffer() that says 0.  Without memory for buffer 1 it does not ask
\* for the second, finds nothing to free in the test that follows, and goes on.
CreateBuffer(size) ==
  /\ ~created
  /\ \/ memory' = [b \in Pair |-> size]
     \/ memory' = [b \in Pair |-> 0]
  /\ created' = TRUE
  /\ countBufferMax' = size
  /\ filled' = [b \in Pair |-> 0]
  /\ UNCHANGED <<current, counter, countFileMax, full, fileOpen, threadReady>>

\* It says -1: there is no memory for buffer 2, and buffer 1 is freed, or
\* pthread_mutex_init() fails, and what was allocated stays with the pointers.
CreateBufferFails(size) ==
  /\ ~created
  /\ \/ memory' = [b \in Pair |-> size]
     \/ memory' = [b \in Pair |-> 0]
  /\ UNCHANGED <<current, counter, countBufferMax, countFileMax, full, fileOpen, threadReady,
                 created, filled>>

\* logTlm_freeBuffer(): the flags and the counts stay.
FreeBuffer ==
  /\ created /\ ~fileOpen /\ ~threadReady
  /\ memory' = [b \in Pair |-> 0]
  /\ current' = 0
  /\ created' = FALSE
  /\ UNCHANGED <<counter, countBufferMax, countFileMax, full, fileOpen, threadReady, filled>>

\* logTlm_isFlushing(), with nobody at the mutex.
stillFlushing == threadReady /\ full # {}

\* logTlm_open() that trusts its caller with the flags.
LogOpen_KeepsFlags(recordPerFile) ==
  /\ created /\ recordPerFile > 0 /\ recordPerFile >= countBufferMax /\ ~stillFlushing
  /\ fileOpen' = TRUE
  /\ countFileMax' = recordPerFile
  /\ counter' = 0
  /\ current' = Pointer(1)
  /\ filled' = [b \in Pair |-> 0]
  /\ UNCHANGED <<memory, countBufferMax, full, threadReady, created>>
LogOpen(recordPerFile) ==
  /\ created /\ recordPerFile > 0 /\ recordPerFile >= countBufferMax /\ ~stillFlushing
  /\ fileOpen' = TRUE
  /\ countFileMax' = recordPerFile
  /\ counter' = 0
  /\ current' = Pointer(1)
  /\ full' = {}
  /\ filled' = [b \in Pair |-> 0]
  /\ UNCHANGED <<memory, countBufferMax, threadReady, created>>

\* logTlm_close(), by the caller, when a flush fails, or before fopen() fails.
LogClose ==
  /\ fileOpen /\ fileOpen' = FALSE
  /\ UNCHANGED <<memory, current, counter, countBufferMax, countFileMax, full, threadReady,
                 created, filled>>

\* logTlm_write() of a record that fits, with or without the thread.
LogWrite ==
  /\ current # 0 /\ fileOpen
  /\ LET n == IF counter < countBufferMax THEN counter + 1 ELSE counter
         other == 3 - current
     IN  /\ filled' = [filled EXCEPT ![current] = n]
         /\ CASE n < countBufferMax -> counter' = n /\ UNCHANGED <<full, current>>
              [] n >= countBufferMax /\ ~threadReady -> counter' = 0 /\ UNCHANGED <<full, current>>
              [] OTHER ->
                   /\ full' = full \cup {current}
                   /\ IF other \in full THEN current' = 0 /\ counter' = n
                      ELSE current' = Pointer(other) /\ counter' = 0
  /\ UNCHANGED <<memory, countBufferMax, countFileMax, fileOpen, threadReady, created>>

LogFlush ==
  /\ fileOpen /\ current # 0 /\ ~stillFlushing
  /\ counter' = 0
  /\ UNCHANGED <<memory, current, countBufferMax, countFileMax, full, fileOpen, threadReady,
                 created, filled>>

\* logTlm_runFlushInNewThread() and logTlm_closeThread(), which flushes nothing.
StartThread ==
  /\ created /\ ~threadReady /\ threadReady' = TRUE
  /\ UNCHANGED <<memory, current, counter, countBufferMax, countFileMax, full, fileOpen,
                 created, filled>>
StopThread ==
  /\ threadReady /\ threadReady' = FALSE
  /\ UNCHANGED <<memory, current, counter, countBufferMax, countFileMax, full, fileOpen,
                 created, filled>>

\* It flushes countBufferMax records of each full buffer, if there is a file.
ThreadTurn ==
  /\ threadReady /\ full # {}
  /\ full' = {}
  /\ IF current = 0 THEN current' = Pointer(1) /\ counter' = 0
     ELSE UNCHANGED <<current, counter>>
  /\ UNCHANGED <<memory, countBufferMax, countFileMax, fileOpen, threadReady, created, filled>>

BufferNext ==
  \/ \E size \in 1 .. MaxSize :
       CreateBuffer(size) \/ CreateBufferFails(size) \/ LogOpen(size)
  \/ FreeBuffer \/ LogClose \/ LogWrite \/ LogFlush
  \/ StartThread \/ StopThread \/ ThreadTurn

BufferSpec == BufferInit /\ [][BufferNext]_bufferVars

-----------------------------------------------------------------------------
\* Whatever earlier logs, of other sizes, have left behind, and even when
\* logTlm_createBuffer() has said 0 without memory: records are copied to memory
\* that exists and has room, a flush takes no more than a file has room for, and
\* the thread flushes only buffers filled with records of the log that is open.
LogMemory ==
  fileOpen =>
    /\ countBufferMax <= countFileMax
    /\ current # 0 => memory[current] = countBufferMax /\ counter <= countBufferMax
    /\ \A b \in full : memory[b] = countBufferMax /\ filled[b] = countBufferMax
=============================================================================
