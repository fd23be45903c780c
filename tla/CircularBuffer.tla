--------------------------- MODULE CircularBuffer ---------------------------
(***************************************************************************)
(* src/circular_buffer.c: the ring of Size + 1 slots that carries commands *)
(* from the server threads to the controller.  Any number of threads call  *)
(* circular_buf_put(), circular_buf_get() and circular_buf_size(); each    *)
(* access to the shared fields is a step of its own, and only the mutex    *)
(* keeps the steps of two operations apart.                                *)
(***************************************************************************)
EXTENDS Integers, Sequences

CONSTANTS Size,       \* the size given to circular_buf_init()
          Thread,     \* the threads that use the buffer
          Data,       \* the commands (commandStreamStructure_t)
          NoThread,   \* "the mutex is free"
          Unwritten   \* the content of a slot that malloc() left uninitialised

ASSUME SizeAssumption == Size \in Nat \ {0}
ASSUME ThreadAssumption == NoThread \notin Thread

VARIABLES buffer,   \* the slots
          head,     \* where the next put stores
          tail,     \* where the next get reads
          lock,     \* the thread that holds the mutex
          call,     \* the operation each thread executes
          pc,       \* the next step of that operation
          ret       \* its local result (lostData, the command read, the size)

vars == <<buffer, head, tail, lock, call, pc, ret>>

max == Size + 1
Index == 0 .. Size

NoCall == [op |-> "none"]
Call == [op : {"put"}, data : Data] \cup {[op |-> "get"], [op |-> "size"]}

Pending == <<>>
Stored(lostData) == <<"put", lostData>>
Got(d) == <<"get", d>>
Empty == <<"empty">>
SizeIs(n) == <<"size", n>>

\* A pointer advanced without the wraparound.
Next1_NoWrap(i) == i + 1
\* "if (++i == max) i = 0"
Next1(i) == IF i + 1 = max THEN 0 ELSE i + 1

\* Full read without the wraparound of line 23.
isFull_NoWrap == head + 1 = tail
isFull == Next1(head) = tail
isEmpty == head = tail

\* circular_buf_init() and circular_buf_reset()
Init == /\ buffer = [i \in Index |-> Unwritten]
        /\ head = 0
        /\ tail = 0
        /\ lock = NoThread
        /\ call = [t \in Thread |-> NoCall]
        /\ pc = [t \in Thread |-> "idle"]
        /\ ret = [t \in Thread |-> Pending]

Goto(t, from, to) == pc[t] = from /\ pc' = [pc EXCEPT ![t] = to]

Invoke(t, c) == /\ Goto(t, "idle", "lock")
                /\ call' = [call EXCEPT ![t] = c]
                /\ UNCHANGED <<buffer, head, tail, lock, ret>>

\* The mutex taken without waiting for its holder.
HoldLock_NoMutex(t) == /\ Goto(t, "lock", call[t].op)
                       /\ lock' = t
                       /\ UNCHANGED <<buffer, head, tail, call, ret>>
HoldLock(t) == /\ lock = NoThread
               /\ Goto(t, "lock", call[t].op)
               /\ lock' = t
               /\ UNCHANGED <<buffer, head, tail, call, ret>>

-----------------------------------------------------------------------------
\* circular_buf_put(): lostData is computed before the store.
PutStore(t) == /\ Goto(t, "put", "tail")
               /\ ret' = [ret EXCEPT ![t] = Stored(isFull)]
               /\ buffer' = [buffer EXCEPT ![head] = call[t].data]
               /\ UNCHANGED <<head, tail, lock, call>>

\* advance_pointer(): a full buffer gives up its oldest slot ...
AdvanceTail(t) == /\ Goto(t, "tail", "head")
                  /\ tail' = IF isFull THEN Next1(tail) ELSE tail
                  /\ UNCHANGED <<buffer, head, lock, call, ret>>

\* ... before the head moves past the slot just written.
AdvanceHead(t) == /\ Goto(t, "head", "unlock")
                  /\ head' = Next1(head)
                  /\ UNCHANGED <<buffer, tail, lock, call, ret>>

\* circular_buf_get(): an early return that forgets the mutex.
GetEmpty_NoUnlock(t) == /\ isEmpty
                        /\ Goto(t, "get", "idle")
                        /\ call' = [call EXCEPT ![t] = NoCall]
                        /\ UNCHANGED <<buffer, head, tail, lock, ret>>
GetEmpty(t) == /\ isEmpty
               /\ Goto(t, "get", "unlock")
               /\ ret' = [ret EXCEPT ![t] = Empty]
               /\ UNCHANGED <<buffer, head, tail, lock, call>>

GetRead(t) == /\ ~isEmpty
              /\ Goto(t, "get", "retreat")
              /\ ret' = [ret EXCEPT ![t] = Got(buffer[tail])]
              /\ UNCHANGED <<buffer, head, tail, lock, call>>

RetreatPointer(t) == /\ Goto(t, "retreat", "unlock")
                     /\ tail' = Next1(tail)
                     /\ UNCHANGED <<buffer, head, lock, call, ret>>

\* circular_buf_size(): the capacity when full, else the distance from tail to head.
SizeNow == IF isFull THEN max - 1
           ELSE IF head >= tail THEN head - tail
           ELSE max + head - tail

GetSize(t) == /\ Goto(t, "size", "unlock")
              /\ ret' = [ret EXCEPT ![t] = SizeIs(SizeNow)]
              /\ UNCHANGED <<buffer, head, tail, lock, call>>

ReleaseLock(t) == /\ Goto(t, "unlock", "idle")
                  /\ lock' = NoThread
                  /\ call' = [call EXCEPT ![t] = NoCall]
                  /\ ret' = [ret EXCEPT ![t] = Pending]
                  /\ UNCHANGED <<buffer, head, tail>>

-----------------------------------------------------------------------------
Step(t) == \/ PutStore(t)
           \/ AdvanceTail(t)
           \/ AdvanceHead(t)
           \/ GetEmpty(t)
           \/ GetRead(t)
           \/ RetreatPointer(t)
           \/ GetSize(t)
           \/ ReleaseLock(t)

Next == \E t \in Thread :
          \/ \E c \in Call : Invoke(t, c)
          \/ HoldLock(t)
          \/ Step(t)

Spec == Init /\ [][Next]_vars

\* A thread inside an operation keeps running; waiting for the mutex is not
\* assumed to succeed for each thread, the mutex being unfair.
FairSpec == Spec /\ \A t \in Thread : WF_vars(Step(t))

-----------------------------------------------------------------------------
Inside == {"put", "tail", "head", "get", "retreat", "size", "unlock"}
Result == {Pending, Empty} \cup {Stored(b) : b \in BOOLEAN}
          \cup {Got(d) : d \in Data \cup {Unwritten}} \cup {SizeIs(n) : n \in 0 .. Size}

\* The pointers stay inside the ring, and every thread is at a step of the code.
TypeOK ==
  /\ buffer \in [Index -> Data \cup {Unwritten}]
  /\ head \in Index
  /\ tail \in Index
  /\ lock \in Thread \cup {NoThread}
  /\ call \in [Thread -> Call \cup {NoCall}]
  /\ pc \in [Thread -> {"idle", "lock"} \cup Inside]
  /\ ret \in [Thread -> Result]

(***************************************************************************)
(* What the mutex buys.  A thread is between hold_lock() and               *)
(* release_lock() exactly when it is the holder; its local result agrees   *)
(* with the ring although it was computed steps ago; and the put that      *)
(* overwrites is the only one whose tail has run past the head's successor.*)
(***************************************************************************)
CallOK(t) ==
  /\ pc[t] = "idle" <=> call[t] = NoCall
  /\ pc[t] \in {"put", "tail", "head"} => call[t].op = "put"
  /\ pc[t] \in {"get", "retreat"} => call[t].op = "get"
  /\ pc[t] = "size" => call[t].op = "size"

InsideOK(t) ==
  /\ pc[t] = "tail" => /\ ret[t] = Stored(isFull)
                       /\ buffer[head] = call[t].data
  /\ pc[t] = "head" => /\ buffer[head] = call[t].data
                       /\ \/ ret[t] = Stored(FALSE) /\ ~isFull
                          \/ ret[t] = Stored(TRUE) /\ tail = Next1(Next1(head))
  /\ pc[t] = "retreat" => ~isEmpty /\ ret[t] = Got(buffer[tail])

\* No two threads are ever inside the ring, and what one computed there under
\* the mutex is still true when it uses it: the lostData of line 154 at the
\* pointer updates of lines 39-47, the slot read at line 170 at line 171.
RingInvariant ==
  /\ TypeOK
  /\ \A t \in Thread :
       /\ pc[t] \in Inside <=> lock = t
       /\ ret[t] = Pending <=> pc[t] \in {"idle", "lock", "put", "get", "size"}
       /\ CallOK(t)
       /\ InsideOK(t)

(***************************************************************************)
(* The queue the ring stands for.  While a put that overwrites is between  *)
(* its two pointer updates, the slot tail has just left still counts.      *)
(***************************************************************************)
Prev1(i) == IF i = 0 THEN Size ELSE i - 1
Overwriting == \E t \in Thread : pc[t] = "head" /\ ret[t] = Stored(TRUE)
First == IF Overwriting THEN Prev1(tail) ELSE tail
Distance(from, to) == IF to >= from THEN to - from ELSE to - from + max
Slot(i) == IF i >= max THEN i - max ELSE i
Slots(b, from, to) == [i \in 1 .. Distance(from, to) |-> b[Slot(from + i - 1)]]
Contents == Slots(buffer, First, head)
Visible == [t \in Thread |-> IF pc[t] = "unlock" THEN ret[t] ELSE Pending]

Abstract == INSTANCE CommandQueue WITH queue <- Contents, reply <- Visible

\* However the threads interleave, the buffer behaves as the drop-oldest
\* FIFO queue of circular_buffer.h: no command is lost except the oldest of a
\* full buffer, none is returned twice, out of order or before it was stored,
\* and lostData, isBufEmpty and the size are true when the operation takes effect.
Linearizable == Abstract!Spec

\* Whoever holds the mutex releases it, on every path through the operations:
\* otherwise the server thread and the controller would both stop forever.
LockReleased == \A t \in Thread : (lock = t) ~> (lock # t)
=============================================================================
