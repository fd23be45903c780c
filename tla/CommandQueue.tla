---------------------------- MODULE CommandQueue ----------------------------
(***************************************************************************)
(* What circular_buffer.h promises to the threads that share the command   *)
(* buffer: a FIFO queue of at most Size commands.  A put never waits; when *)
(* the queue is full it deletes the oldest command and says so.  A get     *)
(* pops the oldest command or says that there is none.  Every operation    *)
(* takes effect in one instant between its call and its return.            *)
(***************************************************************************)
EXTENDS Integers, Sequences

CONSTANTS Size,    \* capacity given to circular_buf_init()
          Thread,  \* the threads that use the buffer
          Data     \* the commands (commandStreamStructure_t)

VARIABLES queue,   \* the stored commands, oldest first
          call,    \* the operation each thread is executing
          reply    \* what that operation returns, Pending before it took effect

vars == <<queue, call, reply>>

NoCall == [op |-> "none"]
Call == [op : {"put"}, data : Data] \cup {[op |-> "get"], [op |-> "size"]}

Pending == <<>>
Stored(lostData) == <<"put", lostData>>
Got(d) == <<"get", d>>
Empty == <<"empty">>
SizeIs(n) == <<"size", n>>

Init == /\ queue = <<>>
        /\ call = [t \in Thread |-> NoCall]
        /\ reply = [t \in Thread |-> Pending]

Invoke(t, c) == /\ call[t] = NoCall
                /\ call' = [call EXCEPT ![t] = c]
                /\ UNCHANGED <<queue, reply>>

Perform(t, r) == /\ call[t] # NoCall
                 /\ reply[t] = Pending
                 /\ reply' = [reply EXCEPT ![t] = r]
                 /\ UNCHANGED call

\* "Add data to the buffer. Delete old data to make room, if necessary."
Put(t) == LET isFull == Len(queue) = Size
          IN  /\ call[t].op = "put"
              /\ Perform(t, Stored(isFull))
              /\ queue' = Append(IF isFull THEN Tail(queue) ELSE queue, call[t].data)

\* "Pop and return the oldest data from the buffer."
Get(t) == /\ call[t].op = "get"
          /\ queue # <<>>
          /\ Perform(t, Got(Head(queue)))
          /\ queue' = Tail(queue)

GetEmpty(t) == /\ call[t].op = "get"
               /\ queue = <<>>
               /\ Perform(t, Empty)
               /\ UNCHANGED queue

GetSize(t) == /\ call[t].op = "size"
              /\ Perform(t, SizeIs(Len(queue)))
              /\ UNCHANGED queue

Return(t) == /\ reply[t] # Pending
             /\ call' = [call EXCEPT ![t] = NoCall]
             /\ reply' = [reply EXCEPT ![t] = Pending]
             /\ UNCHANGED queue

Next == \E t \in Thread :
          \/ \E c \in Call : Invoke(t, c)
          \/ Put(t)
          \/ Get(t)
          \/ GetEmpty(t)
          \/ GetSize(t)
          \/ Return(t)

Spec == Init /\ [][Next]_vars
=============================================================================
