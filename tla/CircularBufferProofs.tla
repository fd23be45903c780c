------------------------ MODULE CircularBufferProofs ------------------------
(***************************************************************************)
(* Proofs about CircularBuffer, for every capacity and every set of        *)
(* threads and commands.                                                   *)
(***************************************************************************)
EXTENDS CircularBuffer, SequenceTheorems, TLAPS

-----------------------------------------------------------------------------
(* Facts about the pointers and about the results of the operations.       *)

\* A pointer advanced by one stays inside the ring and really moves.
LEMMA PointerStays ==
  ASSUME NEW i \in Index
  PROVE  Next1(i) \in Index /\ Next1(i) # i
BY SizeAssumption DEF Index, Next1, max

\* No two kinds of result are confused, and none with "not there yet".
LEMMA ResultsDiffer ==
  /\ \A b : Stored(b) # Pending /\ Stored(b) # Empty
  /\ \A d : Got(d) # Pending /\ Got(d) # Empty
  /\ \A n : SizeIs(n) # Pending /\ SizeIs(n) # Empty
  /\ Empty # Pending
  /\ Stored(TRUE) # Stored(FALSE)
BY DEF Stored, Pending, Empty, Got, SizeIs

\* The length circular_buf_size() computes lies between 0 and the capacity.
LEMMA SizeInRange ==
  ASSUME head \in Index, tail \in Index
  PROVE  SizeNow \in 0 .. Size
BY SizeAssumption DEF SizeNow, isFull, Next1, Index, max

-----------------------------------------------------------------------------
ThreadOK(t) ==
  /\ pc[t] \in Inside <=> lock = t
  /\ ret[t] = Pending <=> pc[t] \in {"idle", "lock", "put", "get", "size"}
  /\ CallOK(t)
  /\ InsideOK(t)

\* The initial state of the ring satisfies the invariant.
LEMMA InitRing == Init => RingInvariant
<1> SUFFICES ASSUME Init PROVE RingInvariant
  OBVIOUS
<1>1. TypeOK
  BY SizeAssumption DEF Init, TypeOK, Index, Result
<1>2. ASSUME NEW t \in Thread PROVE ThreadOK(t)
  BY ThreadAssumption DEF Init, ThreadOK, Inside, InsideOK, CallOK
<1> QED BY <1>1, <1>2 DEF RingInvariant, ThreadOK

\* A step inside the mutex, or the one that leaves it, preserves the invariant
\* as soon as it preserves the types and the holder's own part of it: nobody
\* else is inside.
LEMMA HolderSuffices ==
  ASSUME RingInvariant, NEW t \in Thread, lock = t, lock' \in {t, NoThread},
         TypeOK', ThreadOK(t)',
         \A u \in Thread \ {t} : /\ pc'[u] = pc[u]
                                 /\ call'[u] = call[u]
                                 /\ ret'[u] = ret[u]
  PROVE  RingInvariant'
<1>1. ASSUME NEW u \in Thread \ {t} PROVE ThreadOK(u)'
  <2>1. pc'[u] \notin Inside /\ lock' # u
    BY ThreadAssumption DEF RingInvariant
  <2>2. InsideOK(u)'
    BY <2>1 DEF InsideOK, Inside
  <2>3. CallOK(u)' /\ (ret'[u] = Pending <=> pc'[u] \in {"idle", "lock", "put", "get", "size"})
    BY DEF RingInvariant, CallOK
  <2> QED BY <2>1, <2>2, <2>3 DEF ThreadOK
<1> QED BY <1>1 DEF RingInvariant, ThreadOK

\* Every step of every thread preserves the invariant.
LEMMA StepRing == RingInvariant /\ [Next]_vars => RingInvariant'
<1> SUFFICES ASSUME RingInvariant, [Next]_vars PROVE RingInvariant'
  OBVIOUS
<1>t. TypeOK /\ \A t \in Thread : ThreadOK(t)
  BY DEF RingInvariant, ThreadOK
<1>a. CASE UNCHANGED vars
  BY <1>a DEF vars, RingInvariant, TypeOK, CallOK, InsideOK, isFull, isEmpty
<1>b. CASE Next
  <2> PICK t \in Thread : \/ \E c \in Call : Invoke(t, c)
                          \/ HoldLock(t)
                          \/ Step(t)
    BY <1>b DEF Next
  <2>1. CASE \E c \in Call : Invoke(t, c)
    <3> PICK c \in Call : Invoke(t, c)
      BY <2>1
    <3>1. TypeOK'
      BY <1>t DEF TypeOK, Invoke, Goto
    <3>2. c # NoCall
      BY DEF Call, NoCall
    <3>3. ASSUME NEW u \in Thread PROVE ThreadOK(u)'
      BY <1>t, <3>2 DEF ThreadOK, TypeOK, Invoke, Goto, CallOK, Inside, InsideOK, isFull, isEmpty
    <3> QED BY <3>1, <3>3 DEF RingInvariant, ThreadOK
  <2>2. CASE HoldLock(t)
    <3>1. call[t].op \in {"put", "get", "size"}
      BY <1>t, <2>2 DEF HoldLock, Goto, TypeOK, ThreadOK, CallOK, Call
    <3>2. TypeOK'
      BY <1>t, <2>2, <3>1 DEF TypeOK, HoldLock, Goto, Inside
    <3>3. ASSUME NEW u \in Thread PROVE ThreadOK(u)'
      BY <1>t, <2>2, <3>1, ThreadAssumption
         DEF ThreadOK, TypeOK, HoldLock, Goto, CallOK, Inside, InsideOK, isFull, isEmpty
    <3> QED BY <3>2, <3>3 DEF RingInvariant, ThreadOK
  <2>3. ASSUME Step(t) PROVE RingInvariant'
    <3>1. lock = t /\ pc[t] \in Inside
      BY <1>t, <2>3 DEF ThreadOK, Inside, Step, Goto, PutStore, AdvanceTail, AdvanceHead,
         GetEmpty, GetRead, RetreatPointer, GetSize, ReleaseLock
    <3>2. /\ lock' \in {t, NoThread}
          /\ \A u \in Thread \ {t} : /\ pc'[u] = pc[u]
                                     /\ call'[u] = call[u]
                                     /\ ret'[u] = ret[u]
      BY <1>t, <2>3, <3>1 DEF TypeOK, Step, Goto, PutStore, AdvanceTail, AdvanceHead,
         GetEmpty, GetRead, RetreatPointer, GetSize, ReleaseLock
    <3>3. CASE PutStore(t)
      <4>1. call[t].op = "put" /\ call[t].data \in Data
        BY <1>t, <3>3 DEF ThreadOK, CallOK, PutStore, Goto, TypeOK, Call, NoCall
      <4>2. ret'[t] = Stored(isFull) /\ Stored(isFull) \in Result
        BY <1>t, <3>3 DEF PutStore, TypeOK, Result, isFull
      <4>3. TypeOK'
        BY <1>t, <3>3, <4>1, <4>2 DEF PutStore, Goto, TypeOK, Inside
      <4>4. ThreadOK(t)'
        BY <1>t, <3>3, <3>1, <4>1, <4>2, ResultsDiffer
           DEF PutStore, Goto, TypeOK, ThreadOK, CallOK, Inside, InsideOK, isFull
      <4> QED BY <3>1, <3>2, <4>3, <4>4, HolderSuffices
    <3>4. CASE AdvanceTail(t)
      <4>1. TypeOK'
        BY <1>t, <3>4, PointerStays DEF AdvanceTail, Goto, TypeOK, Inside
      <4>2. isFull => ~isFull' /\ tail' = Next1(Next1(head))
        BY <1>t, <3>4, PointerStays DEF AdvanceTail, TypeOK, isFull
      <4>3. ~isFull => ~isFull'
        BY <3>4 DEF AdvanceTail, isFull
      <4>4. ThreadOK(t)'
        <5>1. InsideOK(t)'
          BY <1>t, <3>4, <4>2, <4>3 DEF AdvanceTail, Goto, TypeOK, ThreadOK, InsideOK, isFull, Stored
        <5> QED BY <1>t, <3>4, <3>1, <5>1, ResultsDiffer
                DEF AdvanceTail, Goto, TypeOK, ThreadOK, CallOK, Inside, InsideOK
      <4> QED BY <3>1, <3>2, <4>1, <4>4, HolderSuffices
    <3>5. CASE AdvanceHead(t)
      <4>1. TypeOK'
        BY <1>t, <3>5, PointerStays DEF AdvanceHead, Goto, TypeOK, Inside
      <4>2. ThreadOK(t)'
        BY <1>t, <3>5, <3>1 DEF AdvanceHead, Goto, TypeOK, ThreadOK, CallOK, Inside, InsideOK
      <4> QED BY <3>1, <3>2, <4>1, <4>2, HolderSuffices
    <3>6. CASE GetEmpty(t)
      <4>1. TypeOK'
        BY <1>t, <3>6 DEF GetEmpty, Goto, TypeOK, Inside, Result
      <4>2. ThreadOK(t)'
        BY <1>t, <3>6, <3>1, ResultsDiffer
           DEF GetEmpty, Goto, TypeOK, ThreadOK, CallOK, Inside, InsideOK
      <4> QED BY <3>1, <3>2, <4>1, <4>2, HolderSuffices
    <3>7. CASE GetRead(t)
      <4>1. Got(buffer[tail]) \in Result
        BY <1>t DEF TypeOK, Result
      <4>2. TypeOK'
        BY <1>t, <3>7, <4>1 DEF GetRead, Goto, TypeOK, Inside
      <4>3. ThreadOK(t)'
        BY <1>t, <3>7, <3>1, ResultsDiffer
           DEF GetRead, Goto, TypeOK, ThreadOK, CallOK, Inside, InsideOK, isEmpty
      <4> QED BY <3>1, <3>2, <4>2, <4>3, HolderSuffices
    <3>8. CASE RetreatPointer(t)
      <4>1. TypeOK'
        BY <1>t, <3>8, PointerStays DEF RetreatPointer, Goto, TypeOK, Inside
      <4>2. ThreadOK(t)'
        BY <1>t, <3>8, <3>1 DEF RetreatPointer, Goto, TypeOK, ThreadOK, CallOK, Inside, InsideOK
      <4> QED BY <3>1, <3>2, <4>1, <4>2, HolderSuffices
    <3>9. CASE GetSize(t)
      <4>1. SizeIs(SizeNow) \in Result
        BY <1>t, SizeInRange DEF TypeOK, Result
      <4>2. TypeOK'
        BY <1>t, <3>9, <4>1 DEF GetSize, Goto, TypeOK, Inside
      <4>3. ThreadOK(t)'
        BY <1>t, <3>9, <3>1, ResultsDiffer
           DEF GetSize, Goto, TypeOK, ThreadOK, CallOK, Inside, InsideOK
      <4> QED BY <3>1, <3>2, <4>2, <4>3, HolderSuffices
    <3>10. CASE ReleaseLock(t)
      <4>1. TypeOK'
        BY <1>t, <3>10 DEF ReleaseLock, Goto, TypeOK, Result
      <4>2. ThreadOK(t)'
        BY <1>t, <3>10, <3>1, ThreadAssumption
           DEF ReleaseLock, Goto, TypeOK, ThreadOK, CallOK, Inside, InsideOK
      <4> QED BY <3>1, <3>2, <4>1, <4>2, HolderSuffices
    <3> QED BY <2>3, <3>3, <3>4, <3>5, <3>6, <3>7, <3>8, <3>9, <3>10 DEF Step
  <2> QED BY <2>1, <2>2, <2>3
<1> QED BY <1>a, <1>b

\* The invariant holds in every reachable state, whatever the capacity and
\* however many threads interleave.
THEOREM RingIsSafe == Spec => []RingInvariant
BY InitRing, StepRing, PTL DEF Spec

\* In particular head and tail never leave the ring (advance_pointer(),
\* retreat_pointer()), and no result is one its operation cannot have.
THEOREM RingIsTyped == Spec => []TypeOK
<1>1. RingInvariant => TypeOK
  BY DEF RingInvariant
<1> QED BY <1>1, RingIsSafe, PTL

-----------------------------------------------------------------------------
(* The queue that a range of slots stands for.                             *)

Value == Data \cup {Unwritten}
Ring == [Index -> Value]

\* The slots from one pointer up to another are a sequence of values.
LEMMA SlotsIsSeq ==
  ASSUME NEW b \in Ring, NEW f \in Index, NEW h \in Index
  PROVE  /\ Distance(f, h) \in 0 .. Size
         /\ Slots(b, f, h) \in Seq(Value)
         /\ Len(Slots(b, f, h)) = Distance(f, h)
         /\ \A i \in 1 .. Distance(f, h) : /\ Slot(f + i - 1) \in Index \ {h}
                                           /\ Slots(b, f, h)[i] = b[Slot(f + i - 1)]
<1>1. Distance(f, h) \in 0 .. Size
  BY SizeAssumption DEF Distance, Index, max
<1>2. \A i \in 1 .. Distance(f, h) : Slot(f + i - 1) \in Index \ {h}
  BY SizeAssumption DEF Slot, Distance, Index, max
<1>3. Slots(b, f, h) \in [1 .. Distance(f, h) -> Value]
  BY <1>2 DEF Slots, Ring
<1>4. Slots(b, f, h) \in Seq(Value) /\ Len(Slots(b, f, h)) = Distance(f, h)
  BY <1>1, <1>3
<1> QED BY <1>1, <1>2, <1>4 DEF Slots

\* The slot at the head is not among them.
LEMMA HeadIsFree ==
  ASSUME NEW b \in Ring, NEW f \in Index, NEW h \in Index, NEW v \in Value
  PROVE  Slots([b EXCEPT ![h] = v], f, h) = Slots(b, f, h)
<1>1. ASSUME NEW i \in 1 .. Distance(f, h)
      PROVE  [b EXCEPT ![h] = v][Slot(f + i - 1)] = b[Slot(f + i - 1)]
  BY SlotsIsSeq DEF Ring
<1> QED BY <1>1 DEF Slots

\* Moving the head appends the slot it leaves, if that does not make the ring
\* look empty.
LEMMA HeadAppends ==
  ASSUME NEW b \in Ring, NEW f \in Index, NEW h \in Index, Next1(h) # f
  PROVE  /\ Distance(f, h) < Size
         /\ Slots(b, f, Next1(h)) = Append(Slots(b, f, h), b[h])
<1> DEFINE s == Slots(b, f, h)
           r == Slots(b, f, Next1(h))
<1>1. Next1(h) \in Index /\ b[h] \in Value
  BY PointerStays DEF Ring
<1>2. Distance(f, h) \in Nat /\ Distance(f, Next1(h)) = Distance(f, h) + 1
  BY SizeAssumption DEF Distance, Next1, Index, max
<1>3. /\ Distance(f, Next1(h)) \in 0 .. Size
      /\ r \in Seq(Value) /\ Len(r) = Distance(f, Next1(h))
      /\ \A i \in 1 .. Distance(f, Next1(h)) : r[i] = b[Slot(f + i - 1)]
  BY <1>1, SlotsIsSeq
<1>4. /\ s \in Seq(Value) /\ Len(s) = Distance(f, h)
      /\ \A i \in 1 .. Distance(f, h) : s[i] = b[Slot(f + i - 1)]
  BY SlotsIsSeq
<1>5. Slot(f + Distance(f, h)) = h
  BY SizeAssumption DEF Slot, Distance, Index, max
<1>6. /\ Append(s, b[h]) \in Seq(Value)
      /\ Len(Append(s, b[h])) = Distance(f, h) + 1
      /\ \A i \in 1 .. Distance(f, h) : Append(s, b[h])[i] = b[Slot(f + i - 1)]
      /\ Append(s, b[h])[Distance(f, h) + 1] = b[h]
  BY <1>1, <1>4, AppendProperties
<1>7. ASSUME NEW i \in 1 .. Len(r) PROVE r[i] = Append(s, b[h])[i]
  <2>1. CASE i = Distance(f, h) + 1
    BY <2>1, <1>2, <1>3, <1>5, <1>6 DEF Index
  <2>2. CASE i \in 1 .. Distance(f, h)
    BY <2>2, <1>2, <1>3, <1>6
  <2>3. i = Distance(f, h) + 1 \/ i \in 1 .. Distance(f, h)
    BY <1>2, <1>3
  <2> QED BY <2>1, <2>2, <2>3
<1>8. r = Append(s, b[h])
  BY <1>2, <1>3, <1>6, <1>7, SeqEqual
<1> QED BY <1>2, <1>3, <1>8, SizeAssumption

\* Moving the tail removes the first slot.
LEMMA TailRemoves ==
  ASSUME NEW b \in Ring, NEW f \in Index, NEW h \in Index, f # h
  PROVE  /\ Slots(b, f, h) # <<>>
         /\ Head(Slots(b, f, h)) = b[f]
         /\ Slots(b, Next1(f), h) = Tail(Slots(b, f, h))
<1> DEFINE s == Slots(b, f, h)
           r == Slots(b, Next1(f), h)
<1>1. Next1(f) \in Index
  BY PointerStays
<1>2. Distance(f, h) \in Nat \ {0} /\ Distance(Next1(f), h) = Distance(f, h) - 1
  BY SizeAssumption DEF Distance, Next1, Index, max
<1>3. /\ r \in Seq(Value) /\ Len(r) = Distance(Next1(f), h)
      /\ \A i \in 1 .. Distance(Next1(f), h) : r[i] = b[Slot(Next1(f) + i - 1)]
  BY <1>1, SlotsIsSeq
<1>4. /\ s \in Seq(Value) /\ Len(s) = Distance(f, h)
      /\ \A i \in 1 .. Distance(f, h) : s[i] = b[Slot(f + i - 1)]
  BY SlotsIsSeq
<1>5. s # <<>>
  BY <1>2, <1>4, EmptySeq
<1>6. s[1] = b[f]
  BY <1>2, <1>4, SizeAssumption DEF Slot, Index, max
<1>7. /\ Tail(s) \in Seq(Value) /\ Len(Tail(s)) = Len(s) - 1
      /\ \A i \in 1 .. Len(Tail(s)) : Tail(s)[i] = s[i + 1]
      /\ Head(s) = s[1]
  BY <1>4, <1>5, HeadTailProperties
<1>8. ASSUME NEW i \in 1 .. Len(r) PROVE r[i] = Tail(s)[i]
  <2>1. Slot(Next1(f) + i - 1) = Slot(f + (i + 1) - 1)
    BY <1>2, <1>3, SizeAssumption DEF Slot, Next1, Index, max, Distance
  <2>2. i \in 1 .. Distance(Next1(f), h) /\ i + 1 \in 1 .. Distance(f, h)
    BY <1>2, <1>3
  <2> QED BY <2>1, <2>2, <1>2, <1>3, <1>4, <1>7
<1>9. r = Tail(s)
  BY <1>2, <1>3, <1>4, <1>7, <1>8, SeqEqual
<1> QED BY <1>5, <1>6, <1>7, <1>9

-----------------------------------------------------------------------------
(* The ring implements the queue.                                          *)

\* Only the holder can be the one that overwrites.
LEMMA OverwritingIsHolder ==
  ASSUME RingInvariant, NEW t \in Thread, pc[t] \in Inside
  PROVE  Overwriting <=> pc[t] = "head" /\ ret[t] = Stored(TRUE)
BY DEF RingInvariant, Overwriting, Inside

\* The initial ring stands for the empty queue.
LEMMA InitRefines == Init => Abstract!Init
<1> SUFFICES ASSUME Init PROVE Abstract!Init
  OBVIOUS
<1>1. buffer \in Ring /\ 0 \in Index
  BY SizeAssumption DEF Init, Ring, Value, Index
<1>2. First = 0 /\ head = 0
  BY DEF Init, First, Overwriting
<1>3. Len(Contents) = 0 /\ Contents \in Seq(Value)
  BY <1>1, <1>2, SlotsIsSeq DEF Distance, Contents
<1>4. Contents = <<>>
  BY <1>3
<1>5. Visible = [t \in Thread |-> Pending]
  BY DEF Init, Visible
<1> QED BY <1>4, <1>5 DEF Abstract!Init, Init, NoCall, Abstract!NoCall, Pending, Abstract!Pending

\* Every step of the ring is a step of the queue or invisible to it: a put
\* takes effect when the head moves, a get when the tail moves or when the ring
\* is seen empty, a size when it is computed, and the return at the unlock.
LEMMA StepRefines ==
  RingInvariant /\ RingInvariant' /\ [Next]_vars => [Abstract!Next]_(Abstract!vars)
<1> SUFFICES ASSUME RingInvariant, RingInvariant', [Next]_vars
             PROVE  [Abstract!Next]_(Abstract!vars)
  OBVIOUS
<1> USE DEF Abstract!vars, Pending, Abstract!Pending, NoCall, Abstract!NoCall
<1>t. /\ TypeOK /\ \A t \in Thread : ThreadOK(t)
      /\ TypeOK' /\ \A t \in Thread : ThreadOK(t)'
  BY DEF RingInvariant, ThreadOK
<1>f. /\ First \in Index /\ head \in Index /\ tail \in Index /\ buffer \in Ring
      /\ Prev1(Next1(tail)) = tail
  BY <1>t, SizeAssumption DEF TypeOK, First, Prev1, Next1, max, Index, Ring, Value
<1>a. CASE UNCHANGED vars
  BY <1>a DEF vars, Contents, Visible, First, Overwriting, Slots
<1>b. CASE Next
  <2> PICK t \in Thread : \/ \E c \in Call : Invoke(t, c)
                          \/ HoldLock(t)
                          \/ Step(t)
    BY <1>b DEF Next
  <2>1. ASSUME NEW c \in Call, Invoke(t, c) PROVE Abstract!Invoke(t, c)
    <3>1. call[t] = NoCall
      BY <1>t, <2>1 DEF Invoke, Goto, ThreadOK, CallOK
    <3>2. Overwriting' <=> Overwriting
      BY <1>t, <2>1 DEF Overwriting, Invoke, Goto, TypeOK
    <3>3. Contents' = Contents
      BY <2>1, <3>2 DEF Contents, First, Invoke
    <3>4. Visible' = Visible
      BY <1>t, <2>1 DEF Visible, Invoke, Goto, TypeOK
    <3> QED BY <2>1, <3>1, <3>3, <3>4 DEF Invoke, Abstract!Invoke
  <2>2. ASSUME HoldLock(t) PROVE UNCHANGED Abstract!vars
    <3>0. call[t].op \in {"put", "get", "size"}
      BY <1>t, <2>2 DEF HoldLock, Goto, TypeOK, ThreadOK, CallOK, Call
    <3>1. Overwriting' <=> Overwriting
      BY <1>t, <2>2, <3>0 DEF Overwriting, HoldLock, Goto, TypeOK
    <3>2. Contents' = Contents
      BY <2>2, <3>1 DEF Contents, First, HoldLock
    <3>3. Visible' = Visible
      BY <1>t, <2>2, <3>0 DEF Visible, HoldLock, Goto, TypeOK
    <3> QED BY <2>2, <3>2, <3>3 DEF HoldLock
  <2>3. ASSUME PutStore(t) PROVE UNCHANGED Abstract!vars
    <3>1. ~Overwriting /\ ~Overwriting'
      BY <1>t, <2>3, OverwritingIsHolder DEF PutStore, Goto, TypeOK, Overwriting, Inside
    <3>2. Contents' = Contents
      <4>1. call[t].data \in Value
        BY <1>t, <2>3 DEF ThreadOK, CallOK, PutStore, Goto, TypeOK, Call, NoCall, Value
      <4>2. Slots(buffer', tail, head) = Slots(buffer, tail, head)
        BY <1>f, <2>3, <4>1, HeadIsFree DEF PutStore
      <4> QED BY <2>3, <3>1, <4>2 DEF Contents, First, PutStore
    <3>3. Visible' = Visible
      BY <1>t, <2>3 DEF Visible, PutStore, Goto, TypeOK
    <3> QED BY <2>3, <3>2, <3>3 DEF PutStore
  <2>4. ASSUME AdvanceTail(t) PROVE UNCHANGED Abstract!vars
    <3>1. ~Overwriting
      BY <1>t, <2>4, OverwritingIsHolder DEF AdvanceTail, Goto, Inside
    <3>2. Overwriting' <=> isFull
      <4>1. ret[t] = Stored(isFull)
        BY <1>t, <2>4 DEF AdvanceTail, Goto, ThreadOK, InsideOK
      <4>2. \A u \in Thread \ {t} : pc[u] # "head"
        BY <1>t, <2>4 DEF AdvanceTail, Goto, ThreadOK, Inside
      <4>3. Stored(isFull) = Stored(TRUE) <=> isFull
        BY DEF Stored, isFull
      <4> QED BY <1>t, <2>4, <4>1, <4>2, <4>3 DEF AdvanceTail, Goto, TypeOK, Overwriting
    <3>3. First' = First
      BY <1>f, <2>4, <3>1, <3>2 DEF First, AdvanceTail
    <3>4. Contents' = Contents
      BY <2>4, <3>3 DEF Contents, AdvanceTail
    <3>5. Visible' = Visible
      BY <1>t, <2>4 DEF Visible, AdvanceTail, Goto, TypeOK
    <3> QED BY <2>4, <3>4, <3>5 DEF AdvanceTail
  <2>5. ASSUME AdvanceHead(t) PROVE Abstract!Put(t)
    <3>1. ~Overwriting'
      BY <1>t, <2>5 DEF AdvanceHead, Goto, TypeOK, ThreadOK, Overwriting, Inside
    <3>2. /\ Visible[t] = Pending
          /\ Visible' = [Visible EXCEPT ![t] = ret[t]]
      BY <1>t, <2>5 DEF Visible, AdvanceHead, Goto, TypeOK
    <3>3. call[t].op = "put" /\ call[t] # NoCall /\ call[t].data = buffer[head]
      BY <1>t, <2>5 DEF ThreadOK, CallOK, InsideOK, AdvanceHead, Goto
    <3>4. Contents' = Slots(buffer, tail, Next1(head))
      BY <2>5, <3>1 DEF Contents, First, AdvanceHead
    <3>5. CASE ret[t] = Stored(FALSE) /\ ~isFull
      <4>1. ~Overwriting
        BY <1>t, <2>5, <3>5, OverwritingIsHolder, ResultsDiffer DEF AdvanceHead, Goto, Inside
      <4>2. Contents = Slots(buffer, tail, head)
        BY <4>1 DEF Contents, First
      <4>3. /\ Distance(tail, head) < Size /\ Len(Contents) = Distance(tail, head)
            /\ Contents' = Append(Contents, buffer[head])
        BY ZenonT(90), <1>f, <3>4, <3>5, <4>2, HeadAppends, SlotsIsSeq DEF isFull
      <4>4. (Len(Contents) = Size) = FALSE
        BY <4>3, <1>f, SlotsIsSeq, SizeAssumption
      <4> QED BY <2>5, <3>2, <3>3, <3>5, <4>3, <4>4
              DEF Abstract!Put, Abstract!Perform, AdvanceHead, Stored, Abstract!Stored
    <3>6. CASE ret[t] = Stored(TRUE) /\ tail = Next1(Next1(head))
      <4>1. Overwriting
        BY <2>5, <3>6 DEF AdvanceHead, Goto, Overwriting
      <4>2. First = Next1(head) /\ Next1(First) = tail /\ First # head
        BY <1>f, <3>6, <4>1, SizeAssumption DEF First, Prev1, Next1, Index, max
      <4>3. Len(Contents) = Size
        <5>1. Distance(First, head) = Size
          BY <1>f, <4>2, SizeAssumption DEF Distance, Next1, Index, max
        <5> QED BY <1>f, <5>1, SlotsIsSeq DEF Contents
      <4>4. Tail(Contents) = Slots(buffer, tail, head)
        BY <1>f, <4>2, TailRemoves DEF Contents
      <4>5. Next1(head) # tail
        BY <1>f, <3>6, PointerStays
      <4>6. Contents' = Append(Tail(Contents), buffer[head])
        BY <1>f, <3>4, <4>4, <4>5, HeadAppends
      <4>7. (Len(Contents) = Size) = TRUE
        BY <4>3
      <4> QED BY <2>5, <3>2, <3>3, <3>6, <4>6, <4>7
              DEF Abstract!Put, Abstract!Perform, AdvanceHead, Stored, Abstract!Stored
    <3> QED BY <1>t, <2>5, <3>5, <3>6 DEF ThreadOK, InsideOK, AdvanceHead, Goto
  <2>6. ASSUME GetEmpty(t) PROVE Abstract!GetEmpty(t)
    <3>1. ~Overwriting /\ ~Overwriting'
      BY <1>t, <2>6, OverwritingIsHolder
         DEF GetEmpty, Goto, TypeOK, ThreadOK, Overwriting, Inside
    <3>2. /\ Visible[t] = Pending
          /\ Visible' = [Visible EXCEPT ![t] = Empty]
      BY <1>t, <2>6 DEF Visible, GetEmpty, Goto, TypeOK
    <3>3. call[t].op = "get" /\ call[t] # NoCall
      BY <1>t, <2>6 DEF ThreadOK, CallOK, GetEmpty, Goto
    <3>4. Contents' = Contents /\ Contents = Slots(buffer, tail, head)
      BY <2>6, <3>1 DEF Contents, First, GetEmpty
    <3>5. Distance(tail, head) = 0
      BY <1>f, <2>6 DEF Distance, GetEmpty, isEmpty, Index
    <3>6. Contents = <<>>
      BY <1>f, <3>4, <3>5, SlotsIsSeq, EmptySeq
    <3> QED BY <2>6, <3>2, <3>3, <3>4, <3>6
            DEF Abstract!GetEmpty, Abstract!Perform, GetEmpty, Empty, Abstract!Empty
  <2>7. ASSUME GetRead(t) PROVE UNCHANGED Abstract!vars
    <3>1. ~Overwriting /\ ~Overwriting'
      BY <1>t, <2>7, OverwritingIsHolder
         DEF GetRead, Goto, TypeOK, ThreadOK, Overwriting, Inside
    <3>2. Contents' = Contents
      BY <2>7, <3>1 DEF Contents, First, GetRead
    <3>3. Visible' = Visible
      BY <1>t, <2>7 DEF Visible, GetRead, Goto, TypeOK
    <3> QED BY <2>7, <3>2, <3>3 DEF GetRead
  <2>8. ASSUME RetreatPointer(t) PROVE Abstract!Get(t)
    <3>1. ~Overwriting /\ ~Overwriting'
      BY <1>t, <2>8, OverwritingIsHolder
         DEF RetreatPointer, Goto, TypeOK, ThreadOK, Overwriting, Inside
    <3>2. /\ Visible[t] = Pending
          /\ Visible' = [Visible EXCEPT ![t] = ret[t]]
      BY <1>t, <2>8 DEF Visible, RetreatPointer, Goto, TypeOK
    <3>3. call[t].op = "get" /\ call[t] # NoCall
      BY <1>t, <2>8 DEF ThreadOK, CallOK, RetreatPointer, Goto
    <3>4. ret[t] = Got(buffer[tail]) /\ tail # head
      BY <1>t, <2>8 DEF ThreadOK, InsideOK, RetreatPointer, Goto, isEmpty
    <3>5. Contents = Slots(buffer, tail, head) /\ Contents' = Slots(buffer, Next1(tail), head)
      BY <2>8, <3>1 DEF Contents, First, RetreatPointer
    <3>6. /\ Contents # <<>> /\ Head(Contents) = buffer[tail]
          /\ Contents' = Tail(Contents)
      BY <1>f, <3>4, <3>5, TailRemoves
    <3> QED BY <2>8, <3>2, <3>3, <3>4, <3>6
            DEF Abstract!Get, Abstract!Perform, RetreatPointer, Got, Abstract!Got
  <2>9. ASSUME GetSize(t) PROVE Abstract!GetSize(t)
    <3>1. ~Overwriting /\ ~Overwriting'
      BY <1>t, <2>9, OverwritingIsHolder
         DEF GetSize, Goto, TypeOK, ThreadOK, Overwriting, Inside
    <3>2. /\ Visible[t] = Pending
          /\ Visible' = [Visible EXCEPT ![t] = SizeIs(SizeNow)]
      BY <1>t, <2>9 DEF Visible, GetSize, Goto, TypeOK
    <3>3. call[t].op = "size" /\ call[t] # NoCall
      BY <1>t, <2>9 DEF ThreadOK, CallOK, GetSize, Goto
    <3>4. Contents' = Contents /\ Contents = Slots(buffer, tail, head)
      BY <2>9, <3>1 DEF Contents, First, GetSize
    <3>5. SizeNow = Distance(tail, head)
      BY <1>f, SizeAssumption DEF SizeNow, Distance, isFull, Next1, Index, max
    <3>6. SizeNow = Len(Contents)
      BY <1>f, <3>4, <3>5, SlotsIsSeq
    <3> QED BY <2>9, <3>2, <3>3, <3>4, <3>6
            DEF Abstract!GetSize, Abstract!Perform, GetSize, SizeIs, Abstract!SizeIs
  <2>10. ASSUME ReleaseLock(t) PROVE Abstract!Return(t)
    <3>1. ~Overwriting /\ ~Overwriting'
      BY <1>t, <2>10, OverwritingIsHolder
         DEF ReleaseLock, Goto, TypeOK, ThreadOK, Overwriting, Inside
    <3>2. /\ Visible[t] # Pending
          /\ Visible' = [Visible EXCEPT ![t] = Pending]
      BY <1>t, <2>10 DEF Visible, ReleaseLock, Goto, TypeOK, ThreadOK
    <3>3. Contents' = Contents
      BY <2>10, <3>1 DEF Contents, First, ReleaseLock
    <3> QED BY <2>10, <3>2, <3>3 DEF Abstract!Return, ReleaseLock
  <2>11. Abstract!Call = Call
    BY DEF Call, Abstract!Call
  <2> QED BY <2>1, <2>2, <2>3, <2>4, <2>5, <2>6, <2>7, <2>8, <2>9, <2>10, <2>11
          DEF Step, Abstract!Next
<1> QED BY <1>a, <1>b

\* Every behaviour of the ring, for every capacity, any number of threads and
\* any commands, is a behaviour of the drop-oldest FIFO queue.
THEOREM RingIsLinearizable == Spec => Linearizable
<1>1. Spec => Abstract!Init
  BY InitRefines DEF Spec
<1> QED BY <1>1, RingIsSafe, StepRefines, PTL DEF Spec, Linearizable, Abstract!Spec
=============================================================================
