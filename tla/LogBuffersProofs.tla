--------------------------- MODULE LogBuffersProofs ---------------------------
(***************************************************************************)
(* Theorem about the life of the log's buffers: LogMemory, for every bound *)
(* on their sizes.  It is not inductive, as it says nothing while no file  *)
(* is open: BufferInvariant adds what memory the pointers have meanwhile,  *)
(* and that nobody writes to a buffer the thread will flush.               *)
(***************************************************************************)
EXTENDS LogBuffers, TLAPS

BufferTyped ==
  /\ memory \in [Pair -> Nat]
  /\ current \in Pair \cup {0}
  /\ counter \in Nat
  /\ countBufferMax \in Nat /\ countFileMax \in Nat
  /\ full \subseteq Pair
  /\ filled \in [Pair -> Nat]

\* The caller opens a log only with buffers, which both have the size it asked
\* for or are both missing.
BothOrNone ==
  /\ fileOpen => created
  /\ created => countBufferMax > 0
  /\ \A b \in Pair : created => memory[b] \in {0, countBufferMax}
  /\ memory[1] = memory[2]

\* Nobody writes to a buffer that waits for the thread.
CurrentNotFull == current \notin full

BufferInvariant == BufferTyped /\ BothOrNone /\ CurrentNotFull /\ LogMemory

\* BufferInvariant holds of the static variables at the start (BufferInit).
LEMMA InitBuffers == BufferInit => BufferInvariant
  BY DEF BufferInit, BufferInvariant, BufferTyped, BothOrNone, CurrentNotFull, LogMemory, Pair

\* No call disturbs it (BufferNext).
LEMMA NextBuffers == BufferInvariant /\ [BufferNext]_bufferVars => BufferInvariant'
<1> SUFFICES ASSUME BufferInvariant, [BufferNext]_bufferVars
             PROVE  BufferInvariant'
  OBVIOUS
<1> USE MaxSizeAssumption
<1>1. ASSUME NEW size \in 1 .. MaxSize, CreateBuffer(size)
      PROVE  BufferInvariant'
  BY <1>1 DEF CreateBuffer, BufferInvariant, BufferTyped, BothOrNone, CurrentNotFull, LogMemory, Pair
<1>10. ASSUME NEW size \in 1 .. MaxSize, CreateBufferFails(size)
       PROVE  BufferInvariant'
  BY <1>10 DEF CreateBufferFails, BufferInvariant, BufferTyped, BothOrNone, CurrentNotFull,
               LogMemory, Pair
<1>2. ASSUME NEW size \in 1 .. MaxSize, LogOpen(size)
      PROVE  BufferInvariant'
  BY <1>2 DEF LogOpen, Pointer, BufferInvariant, BufferTyped, BothOrNone, CurrentNotFull, LogMemory, Pair
<1>3. CASE FreeBuffer
  BY <1>3 DEF FreeBuffer, BufferInvariant, BufferTyped, BothOrNone, CurrentNotFull, LogMemory, Pair
<1>4. CASE LogClose
  BY <1>4 DEF LogClose, BufferInvariant, BufferTyped, BothOrNone, CurrentNotFull, LogMemory, Pair
<1>5. CASE LogWrite
  <2> DEFINE n == IF counter < countBufferMax THEN counter + 1 ELSE counter
             other == 3 - current
  <2>1. /\ fileOpen /\ created /\ current \in Pair /\ other \in Pair
        /\ memory[current] = countBufferMax /\ memory[other] = countBufferMax
        /\ n \in Nat /\ n <= countBufferMax
    BY <1>5 DEF LogWrite, BufferInvariant, BufferTyped, BothOrNone, CurrentNotFull, LogMemory, Pair
  <2>2. filled' = [filled EXCEPT ![current] = n]
    BY <1>5 DEF LogWrite
  <2>3. \/ counter' = n /\ UNCHANGED <<full, current>>
        \/ counter' = 0 /\ UNCHANGED <<full, current>>
        \/ /\ n = countBufferMax
           /\ full' = full \cup {current}
           /\ current' = 0 \/ (current' = other /\ other \notin full)
           /\ counter' \in {0, n}
    <3>1. CASE n < countBufferMax
      BY <1>5, <3>1 DEF LogWrite
    <3>2. CASE n >= countBufferMax /\ ~threadReady
      BY <1>5, <3>2 DEF LogWrite
    <3>3. CASE ~(n < countBufferMax) /\ ~(n >= countBufferMax /\ ~threadReady)
      <4>1. /\ full' = full \cup {current}
            /\ IF other \in full THEN current' = 0 /\ counter' = n
               ELSE current' = Pointer(other) /\ counter' = 0
        BY <1>5, <3>3 DEF LogWrite
      <4>2. n = countBufferMax
        BY <2>1, <3>3 DEF BufferInvariant, BufferTyped
      <4> QED
        BY <4>1, <4>2 DEF Pointer
    <3> QED
      BY <3>1, <3>2, <3>3
  <2>4. UNCHANGED <<memory, countBufferMax, countFileMax, fileOpen, threadReady, created>>
    BY <1>5 DEF LogWrite
  <2>5. current \notin full
    BY DEF BufferInvariant, CurrentNotFull
  <2> HIDE DEF n, other
  <2>6. BufferTyped'
    BY <2>1, <2>2, <2>3, <2>4 DEF BufferInvariant, BufferTyped
  <2>7. BothOrNone'
    BY <2>4 DEF BufferInvariant, BothOrNone
  <2>9. CurrentNotFull'
    <3>1. other # current
      BY <2>1 DEF other, Pair
    <3>2. 0 \notin full \cup {current}
      BY <2>1 DEF BufferInvariant, BufferTyped, Pair
    <3> QED
      BY <2>3, <2>5, <3>1, <3>2 DEF CurrentNotFull
  <2>8. LogMemory'
    BY <2>1, <2>2, <2>3, <2>4, <2>5 DEF BufferInvariant, BufferTyped, LogMemory
  <2> QED
    BY <2>6, <2>7, <2>8, <2>9 DEF BufferInvariant
<1>6. CASE LogFlush
  BY <1>6 DEF LogFlush, BufferInvariant, BufferTyped, BothOrNone, CurrentNotFull, LogMemory, Pair
<1>7. CASE StartThread \/ StopThread
  <2>1. UNCHANGED <<memory, current, counter, countBufferMax, countFileMax, full, fileOpen,
                    created, filled>>
    BY <1>7 DEF StartThread, StopThread
  <2> QED
    BY <2>1 DEF BufferInvariant, BufferTyped, BothOrNone, CurrentNotFull, LogMemory, Pair
<1>8. CASE ThreadTurn
  BY <1>8 DEF ThreadTurn, Pointer, BufferInvariant, BufferTyped, BothOrNone, CurrentNotFull, LogMemory, Pair
<1>9. CASE UNCHANGED bufferVars
  BY <1>9 DEF bufferVars, BufferInvariant, BufferTyped, BothOrNone, CurrentNotFull, LogMemory, Pair
<1> QED
  BY <1>1, <1>2, <1>3, <1>4, <1>5, <1>6, <1>7, <1>8, <1>9, <1>10
  DEF BufferNext

\* Records go to memory that has room, and the thread flushes only records of the
\* log that is open, whatever the sizes and refusals of earlier logs
\* (logTlm_createBuffer(), logTlm_open(), logTlm_write()).
THEOREM LogMemoryIsSafe == BufferSpec => []LogMemory
<1>1. BufferInit => BufferInvariant
  BY InitBuffers
<1>2. BufferInvariant /\ [BufferNext]_bufferVars => BufferInvariant'
  BY NextBuffers
<1>3. BufferInvariant => LogMemory
  BY DEF BufferInvariant
<1> QED
  BY <1>1, <1>2, <1>3, PTL DEF BufferSpec
=============================================================================
