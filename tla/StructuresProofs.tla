-------------------------- MODULE StructuresProofs --------------------------
(***************************************************************************)
(* The ring buffer of queue_spsc.h implements a bounded first-in first-out *)
(* queue, for every number of slots and whatever is queued, until the      *)
(* producer clears it with the consumer halfway through an operation.      *)
(*                                                                         *)
(* The pipe of pipe.cpp hands on the characters in the order they were     *)
(* written, for every size and every set of characters, provided one       *)
(* thread writes and one reads.                                            *)
(*                                                                         *)
(* The kernel heap of mmngr_heap.cpp keeps what its callers hold apart and *)
(* misses no place, for a heap, a header and requests of every size.       *)
(*                                                                         *)
(* The areas of an address space (mmngr_virtual.cpp, vm_contract.cpp) stay *)
(* apart, a block of memory backs one page or one table, none is lost but  *)
(* for want of a table, and legal page faults are served, for every memory *)
(* and every set of areas.                                                 *)
(*                                                                         *)
(* A thread of process.cpp finds its own trap frame on its stack, for any  *)
(* number of processes, threads and tables and whatever the scheduler runs *)
(* meanwhile, while creations do not overlap.                              *)
(***************************************************************************)
EXTENDS QueueSpsc, Pipe, Heap, AddressSpace, Processes, CountingSemaphoreProofs, SequenceTheorems

\* What the producer has tested or stored still holds when it publishes.
ProducerInv ==
  /\ producer \in {"store", "publish"} =>
       element \in Element /\ Distance(tail_index) < max_count - 1
  /\ producer = "publish" => buffer[tail_index] = element

\* What the consumer has tested or read still holds when it moves the head.
ConsumerInv ==
  /\ consumer \in {"remove", "peek"} => head_index # tail_index
  /\ consumer = "clear" => Distance(saw_tail) <= Distance(tail_index)

\* What holds while no clearing by the producer has met the consumer halfway;
\* what is queued was inserted.
Uncrossed ==
  /\ TypeOK
  /\ ProducerInv
  /\ ConsumerInv
  /\ \A i \in 0 .. Distance(tail_index) - 1 : buffer[Slot(i)] \in Element

\* The inductive invariant.
QueueInv == TypeOK /\ (~crossed => Uncrossed)

-----------------------------------------------------------------------------
\* The remainder of queue_spsc_insert and queue_spsc_remove (36, 49) wraps the
\* index at the end of the buffer.
LEMMA AfterWraps ==
  \A i \in Index : After(i) = IF i + 1 = max_count THEN 0 ELSE i + 1
<1> SUFFICES ASSUME NEW i \in Index
             PROVE  After(i) = IF i + 1 = max_count THEN 0 ELSE i + 1
  OBVIOUS
<1>1. max_count \in Nat /\ max_count > 0 /\ i \in Nat /\ i < max_count
  BY QueueSpscAssumption DEF Index
<1>2. CASE i + 1 = max_count
  BY <1>1, <1>2, max_count % max_count = 0 DEF After
<1>3. CASE i + 1 # max_count
  BY <1>1, <1>3 DEF After
<1> QED BY <1>2, <1>3

\* Distances lie within the ring, and only the head's own is 0.
LEMMA DistanceFacts ==
  ASSUME TypeOK, NEW t \in Index
  PROVE  /\ Distance(t) \in Index
         /\ Distance(t) = 0 <=> t = head_index
         /\ After(t) \in Index
         /\ After(t) # head_index <=> Distance(t) < max_count - 1
         /\ After(t) # head_index => Distance(After(t)) = Distance(t) + 1
BY AfterWraps, QueueSpscAssumption DEF TypeOK, Index, Distance

\* The i-th slot is in the buffer, at distance i from the head.
LEMMA SlotFacts ==
  ASSUME TypeOK, NEW i \in Index
  PROVE  /\ Slot(i) \in Index
         /\ Distance(Slot(i)) = i
         /\ \A j \in Index : Slot(i) = Slot(j) => i = j
BY QueueSpscAssumption DEF TypeOK, Index, Distance, Slot

\* The queue is a sequence as long as the distance from head to tail.
LEMMA SlotsAreQueued ==
  ASSUME TypeOK
  PROVE  Items \in Seq(Element \cup {None}) /\ Len(Items) = Distance(tail_index)
<1>1. tail_index \in Index /\ Distance(tail_index) \in Index
  BY DistanceFacts DEF TypeOK
<1>2. ASSUME NEW i \in 1 .. Distance(tail_index)
      PROVE  buffer[Slot(i - 1)] \in Element \cup {None}
  <2>1. i - 1 \in Index
    BY <1>1, QueueSpscAssumption DEF Index
  <2> QED BY <2>1, SlotFacts DEF TypeOK
<1>3. Distance(tail_index) \in Nat
  BY <1>1, QueueSpscAssumption DEF Index
<1> QED BY <1>2, <1>3 DEF Items

-----------------------------------------------------------------------------
\* The empty queue of queue_spsc_init (23-29) satisfies the invariant.
LEMMA InitEstablishes == Init => Uncrossed
<1> SUFFICES ASSUME Init PROVE Uncrossed
  OBVIOUS
<1>1. 0 \in Index
  BY QueueSpscAssumption DEF Index
<1>2. TypeOK
  BY <1>1 DEF Init, TypeOK
<1>3. Distance(tail_index) = 0
  BY DEF Init, Distance
<1> QED BY <1>2, <1>3 DEF Init, Uncrossed, ProducerInv, ConsumerInv

-----------------------------------------------------------------------------
(* Each action keeps the invariant and is a step of the queue or none. *)

\* The steps that only look at the indices.
LEMMA LookingKeeps ==
  ASSUME Uncrossed,
         \/ \E e \in Element : InsertCheck(e)
         \/ ClearWriter \/ RemoveCheck \/ PeekCheck \/ PeekRead \/ ClearReader
         \/ UNCHANGED vars
  PROVE  Uncrossed' /\ UNCHANGED Items
<1>1. UNCHANGED <<buffer, head_index, tail_index>>
  BY DEF InsertCheck, ClearWriter, RemoveCheck, PeekCheck, PeekRead, ClearReader, vars
<1>2. /\ \A t : Distance(t)' = Distance(t') /\ \A i : Slot(i)' = Slot(i')
      /\ UNCHANGED Items
  BY <1>1 DEF Distance, Slot, Items
<1>3. TypeOK /\ tail_index \in Index /\ head_index \in Index
  BY DEF Uncrossed, TypeOK
<1>4. TypeOK'
  <2>1. ASSUME NEW e \in Element, InsertCheck(e) PROVE TypeOK'
    BY <1>3, <2>1 DEF InsertCheck, TypeOK, consumerVars
  <2>2. CASE ClearWriter
    BY <1>3, <2>2 DEF ClearWriter, TypeOK, consumerVars
  <2>3. CASE RemoveCheck \/ PeekCheck \/ ClearReader
    BY <1>3, <2>3 DEF RemoveCheck, PeekCheck, ClearReader, TypeOK, producerVars
  <2>4. CASE PeekRead
    BY <1>3, <2>4 DEF PeekRead, TypeOK, producerVars
  <2>5. CASE UNCHANGED vars
    BY <1>3, <2>5 DEF vars, TypeOK, producerVars, consumerVars
  <2> QED BY <2>1, <2>2, <2>3, <2>4, <2>5
<1>5. ProducerInv'
  <2>1. ASSUME NEW e \in Element, InsertCheck(e) PROVE ProducerInv'
    BY <1>1, <1>2, <1>3, <2>1, DistanceFacts DEF InsertCheck, ProducerInv, Uncrossed, consumerVars
  <2>2. CASE ClearWriter
    BY <1>1, <1>2, <2>2 DEF ClearWriter, ProducerInv, Uncrossed, consumerVars
  <2>3. CASE RemoveCheck \/ PeekCheck \/ PeekRead \/ ClearReader
    BY <1>1, <1>2, <2>3
       DEF RemoveCheck, PeekCheck, PeekRead, ClearReader, ProducerInv, Uncrossed, producerVars
  <2>4. CASE UNCHANGED vars
    BY <1>1, <1>2, <2>4 DEF vars, ProducerInv, Uncrossed, producerVars, consumerVars
  <2> QED BY <2>1, <2>2, <2>3, <2>4
<1>6. ConsumerInv'
  <2>1. CASE (\E e \in Element : InsertCheck(e)) \/ ClearWriter \/ UNCHANGED vars
    BY <1>1, <1>2, <2>1 DEF InsertCheck, ClearWriter, vars, ConsumerInv, Uncrossed, consumerVars
  <2>2. CASE RemoveCheck \/ PeekCheck \/ PeekRead
    BY <1>1, <1>2, <2>2 DEF RemoveCheck, PeekCheck, PeekRead, ConsumerInv, Uncrossed
  <2>3. CASE ClearReader
    BY <1>1, <1>2, <1>3, <2>3, DistanceFacts DEF ClearReader, ConsumerInv, Index
  <2> QED BY <2>1, <2>2, <2>3
<1>7. (\A i \in 0 .. Distance(tail_index) - 1 : buffer[Slot(i)] \in Element)'
  BY <1>1, <1>2 DEF Uncrossed
<1> QED BY <1>2, <1>4, <1>5, <1>6, <1>7 DEF Uncrossed

\* The element is stored in a slot that is not queued.
LEMMA InsertStoreKeeps ==
  ASSUME Uncrossed, InsertStore
  PROVE  Uncrossed' /\ UNCHANGED Items
<1>1. /\ UNCHANGED <<head_index, tail_index, element, saw_head, crossed, consumerVars>>
      /\ buffer' = [buffer EXCEPT ![tail_index] = element]
      /\ producer = "store" /\ producer' = "publish"
  BY DEF InsertStore
<1>2. TypeOK /\ tail_index \in Index /\ head_index \in Index
  BY DEF Uncrossed, TypeOK
<1>3. element \in Element /\ Distance(tail_index) < max_count - 1
  BY <1>1 DEF Uncrossed, ProducerInv
<1>4. TypeOK' /\ buffer'[tail_index] = element
  BY <1>1, <1>2, <1>3 DEF TypeOK, consumerVars
<1>5. /\ \A t : Distance(t)' = Distance(t') /\ \A i : Slot(i)' = Slot(i')
  BY <1>1 DEF Distance, Slot
<1>6. Distance(tail_index) \in Index
  BY <1>2, DistanceFacts
<1>7. ASSUME NEW i \in 0 .. Distance(tail_index) - 1
      PROVE  buffer'[Slot(i)] = buffer[Slot(i)]
  <2>1. i \in Index /\ i # Distance(tail_index)
    BY <1>6, QueueSpscAssumption DEF Index
  <2>2. Slot(i) \in Index /\ Slot(i) # tail_index
    BY <1>2, <2>1, SlotFacts
  <2> QED BY <1>1, <1>2, <2>2 DEF TypeOK
<1>8. Items' = Items
  <2>1. \A i \in 1 .. Distance(tail_index) : i - 1 \in 0 .. Distance(tail_index) - 1
    BY <1>6, QueueSpscAssumption DEF Index
  <2> QED BY <1>1, <1>5, <1>7, <2>1 DEF Items
<1>9. ProducerInv' /\ ConsumerInv'
  BY <1>1, <1>3, <1>4, <1>5 DEF Uncrossed, ProducerInv, ConsumerInv, consumerVars
<1>10. (\A i \in 0 .. Distance(tail_index) - 1 : buffer[Slot(i)] \in Element)'
  BY <1>1, <1>5, <1>7 DEF Uncrossed
<1> QED BY <1>4, <1>8, <1>9, <1>10 DEF Uncrossed

\* The element becomes the last of the queue.
LEMMA InsertPublishKeeps ==
  ASSUME Uncrossed, InsertPublish
  PROVE  Uncrossed' /\ Fifo!Put(element)
<1> DEFINE d == Distance(tail_index)
<1>1. /\ UNCHANGED <<buffer, head_index, element, saw_head, crossed, consumerVars>>
      /\ tail_index' = After(tail_index)
      /\ producer = "publish" /\ producer' = "idle"
  BY DEF InsertPublish
<1>2. TypeOK /\ tail_index \in Index /\ head_index \in Index
  BY DEF Uncrossed, TypeOK
<1>3. element \in Element /\ d < max_count - 1 /\ buffer[tail_index] = element
  BY <1>1 DEF Uncrossed, ProducerInv
<1>4. /\ d \in Index /\ After(tail_index) \in Index
      /\ Distance(After(tail_index)) = d + 1
  BY <1>2, <1>3, DistanceFacts
<1>5. TypeOK'
  BY <1>1, <1>2, <1>4 DEF TypeOK, consumerVars
<1>6. /\ \A t : Distance(t)' = Distance(t') /\ \A i : Slot(i)' = Slot(i')
  BY <1>1 DEF Distance, Slot
<1>7. Distance(tail_index)' = d + 1
  BY <1>1, <1>4, <1>6
<1>8. Slot(d) = tail_index
  BY <1>2, QueueSpscAssumption DEF Distance, Slot, Index
<1>9. ProducerInv'
  BY <1>1 DEF ProducerInv
<1>10. ConsumerInv'
  <2>1. consumer \in {"remove", "peek"} => head_index # After(tail_index)
    BY <1>2, <1>3, DistanceFacts
  <2>2. consumer = "clear" => Distance(saw_tail) <= d + 1
    <3>1. saw_tail \in Index /\ (consumer = "clear" => Distance(saw_tail) <= d)
      BY DEF Uncrossed, TypeOK, ConsumerInv
    <3> QED BY <1>2, <1>4, <3>1, DistanceFacts, QueueSpscAssumption DEF Index
  <2> QED BY <1>1, <1>6, <1>7, <2>1, <2>2 DEF ConsumerInv, consumerVars
<1>11. (\A i \in 0 .. Distance(tail_index) - 1 : buffer[Slot(i)] \in Element)'
  <2>1. \A i \in 0 .. d : i = d \/ i \in 0 .. d - 1
    BY <1>4, QueueSpscAssumption DEF Index
  <2>2. \A i \in 0 .. d : buffer[Slot(i)] \in Element
    BY <1>3, <1>8, <2>1 DEF Uncrossed
  <2>3. 0 .. (d + 1) - 1 = 0 .. d
    BY <1>4, QueueSpscAssumption DEF Index
  <2> HIDE DEF d
  <2> QED BY <1>1, <1>6, <1>7, <2>2, <2>3
<1>12. Fifo!Put(element)
  <2>1. Items \in Seq(Element \cup {None}) /\ Len(Items) = d
    BY <1>2, <1>4, SlotsAreQueued
  <2>2. Items' = Append(Items, element)
    <3>1. Items' = [i \in 1 .. d + 1 |-> buffer[Slot(i - 1)]]
      BY <1>1, <1>6, <1>7 DEF Items
    <3>2. Append(Items, element) = [i \in 1 .. d + 1 |-> IF i = d + 1 THEN element ELSE Items[i]]
      BY <1>3, <2>1, AppendIs
    <3>3. ASSUME NEW i \in 1 .. d + 1
          PROVE  buffer[Slot(i - 1)] = IF i = d + 1 THEN element ELSE Items[i]
      BY <1>3, <1>4, <1>8, QueueSpscAssumption DEF Items, Index
    <3> HIDE DEF d
    <3> QED BY <3>1, <3>2, <3>3
  <2> QED BY <1>3, <2>1, <2>2 DEF Fifo!Put
<1> QED BY <1>5, <1>9, <1>10, <1>11, <1>12 DEF Uncrossed

\* The head moves k places towards the tail: the first k elements are gone.
LEMMA HeadMoves ==
  ASSUME Uncrossed, NEW h \in Index, head_index' = h,
         UNCHANGED <<buffer, tail_index>>,
         Distance(h) <= Distance(tail_index)
  PROVE  LET k == Distance(h)
         IN  /\ Distance(tail_index)' = Distance(tail_index) - k
             /\ Items' = SubSeq(Items, k + 1, Len(Items))
             /\ (\A i \in 0 .. Distance(tail_index) - 1 : buffer[Slot(i)] \in Element)'
<1> DEFINE k == Distance(h)
           d == Distance(tail_index)
<1>1. TypeOK /\ head_index \in Index /\ tail_index \in Index
  BY DEF Uncrossed, TypeOK
<1>2. k \in Index /\ d \in Index /\ k <= d
  BY <1>1, DistanceFacts
<1>3. Distance(tail_index)' = d - k
  BY <1>1, <1>2, QueueSpscAssumption DEF Distance, Index
<1>4. ASSUME NEW i \in Nat, i + k < max_count
      PROVE  Slot(i)' = Slot(i + k)
  BY <1>1, <1>2, <1>4, QueueSpscAssumption DEF Slot, Distance, Index
<1>5. Items \in Seq(Element \cup {None}) /\ Len(Items) = d
  BY <1>1, SlotsAreQueued
<1>6. Items' = [i \in 1 .. d - k |-> Items[i + k]]
  <2>1. Items' = [i \in 1 .. d - k |-> buffer[Slot(i - 1)']]
    BY <1>3 DEF Items
  <2>2. ASSUME NEW i \in 1 .. d - k
        PROVE  /\ Slot(i - 1)' = Slot((i + k) - 1)
               /\ Items[i + k] = buffer[Slot((i + k) - 1)]
    <3>1. /\ i - 1 \in Nat /\ (i - 1) + k < max_count
          /\ (i - 1) + k = (i + k) - 1 /\ i + k \in 1 .. d
      BY <1>2, QueueSpscAssumption DEF Index
    <3> HIDE DEF k, d
    <3>2. Slot(i - 1)' = Slot((i + k) - 1)
      BY <3>1, <1>4
    <3>3. Items[i + k] = buffer[Slot((i + k) - 1)]
      BY <3>1 DEF Items, d
    <3> QED BY <3>2, <3>3
  <2> HIDE DEF k, d
  <2> QED BY <2>1, <2>2
<1>7. Items' = SubSeq(Items, k + 1, Len(Items))
  <2>1. k \in 0 .. Len(Items)
    BY <1>2, <1>5 DEF Index
  <2> HIDE DEF k, d
  <2> QED BY <1>5, <1>6, <2>1, SubSeqIs
<1>8. (\A i \in 0 .. Distance(tail_index) - 1 : buffer[Slot(i)] \in Element)'
  <2>1. ASSUME NEW i \in 0 .. (d - k) - 1 PROVE buffer[Slot(i)'] \in Element
    <3>1. i \in Nat /\ i + k < max_count /\ i + k \in 0 .. d - 1
      BY <1>2, QueueSpscAssumption DEF Index
    <3> HIDE DEF k, d
    <3>2. Slot(i)' = Slot(i + k)
      BY <3>1, <1>4
    <3> QED BY <3>1, <3>2 DEF Uncrossed, d
  <2> HIDE DEF k, d
  <2> QED BY <1>3, <2>1
<1> QED BY <1>3, <1>7, <1>8

\* The first element leaves the queue.
LEMMA RemoveAdvanceKeeps ==
  ASSUME Uncrossed, RemoveAdvance
  PROVE  Uncrossed' /\ Fifo!Take
<1> DEFINE d == Distance(tail_index)
<1>1. /\ UNCHANGED <<buffer, tail_index, saw_tail, peeked, producerVars>>
      /\ head_index' = After(head_index)
      /\ consumer = "remove" /\ consumer' = "idle"
  BY DEF RemoveAdvance
<1>2. TypeOK /\ tail_index \in Index /\ head_index \in Index /\ head_index # tail_index
  BY <1>1 DEF Uncrossed, TypeOK, ConsumerInv
<1>3. d \in Index /\ d > 0 /\ After(head_index) \in Index
  BY <1>2, DistanceFacts, QueueSpscAssumption DEF Index
<1>4. Distance(After(head_index)) = 1
  BY <1>2, <1>3, AfterWraps, QueueSpscAssumption DEF Distance, Index
<1>5. /\ Distance(tail_index)' = d - 1
      /\ Items' = SubSeq(Items, 1 + 1, Len(Items))
      /\ (\A i \in 0 .. Distance(tail_index) - 1 : buffer[Slot(i)] \in Element)'
  <2>1. 1 <= d
    BY <1>3 DEF Index
  <2> HIDE DEF d
  <2> QED BY <1>1, <1>3, <1>4, <2>1, HeadMoves DEF d
<1>6. TypeOK'
  BY <1>1, <1>2, <1>3 DEF TypeOK, producerVars
<1>7. ProducerInv'
  <2>2. producer \in {"store", "publish"} => d - 1 < max_count - 1
    BY <1>3, QueueSpscAssumption DEF Index
  <2> HIDE DEF d
  <2> QED BY <1>1, <1>5, <2>2 DEF Uncrossed, ProducerInv, producerVars
<1>8. ConsumerInv'
  BY <1>1 DEF ConsumerInv
<1>9. Fifo!Take
  <2>1. Items \in Seq(Element \cup {None}) /\ Len(Items) = d
    BY <1>2, SlotsAreQueued
  <2>2. Items # <<>>
    BY <1>3, <2>1, EmptySeq
  <2> QED BY <1>5, <2>1, <2>2, TailIsSubSeq DEF Fifo!Take
<1> QED BY <1>5, <1>6, <1>7, <1>8, <1>9 DEF Uncrossed

\* The reader empties the queue of what it saw.
LEMMA ClearReaderStoreKeeps ==
  ASSUME Uncrossed, ClearReaderStore
  PROVE  Uncrossed' /\ (Fifo!Drop \/ UNCHANGED Items)
<1> DEFINE k == Distance(saw_tail)
           d == Distance(tail_index)
<1>1. /\ UNCHANGED <<buffer, tail_index, saw_tail, peeked, producerVars>>
      /\ head_index' = saw_tail
      /\ consumer = "clear" /\ consumer' = "idle"
  BY DEF ClearReaderStore
<1>2. TypeOK /\ tail_index \in Index /\ saw_tail \in Index /\ k <= d
  BY <1>1 DEF Uncrossed, TypeOK, ConsumerInv
<1>3. k \in Index /\ d \in Index
  BY <1>2, DistanceFacts
<1>4. /\ Distance(tail_index)' = d - k
      /\ Items' = SubSeq(Items, k + 1, Len(Items))
      /\ (\A i \in 0 .. Distance(tail_index) - 1 : buffer[Slot(i)] \in Element)'
  BY <1>1, <1>2, HeadMoves
<1>5. TypeOK'
  BY <1>1, <1>2 DEF TypeOK, producerVars
<1>6. ProducerInv'
  <2>2. producer \in {"store", "publish"} => d < max_count - 1 /\ d - k < max_count - 1
    BY <1>3, QueueSpscAssumption DEF Index, Uncrossed, ProducerInv
  <2> HIDE DEF d, k
  <2> QED BY <1>1, <1>4, <2>2 DEF Uncrossed, ProducerInv, producerVars
<1>7. ConsumerInv'
  BY <1>1 DEF ConsumerInv
<1>8. Fifo!Drop \/ UNCHANGED Items
  <2>1. Items \in Seq(Element \cup {None}) /\ Len(Items) = d
    BY <1>2, SlotsAreQueued
  <2>2. CASE k = 0
    BY <1>4, <2>1, <2>2, SubSeqFull
  <2>3. CASE k # 0
    <3>1. k \in 1 .. Len(Items)
      BY <1>2, <1>3, <2>1, <2>3 DEF Index
    <3> HIDE DEF d, k
    <3> QED BY <1>4, <3>1 DEF Fifo!Drop
  <2> QED BY <2>2, <2>3
<1> QED BY <1>4, <1>5, <1>6, <1>7, <1>8 DEF Uncrossed

\* The writer empties the queue, with the reader between its calls.
LEMMA ClearWriterStoreKeeps ==
  ASSUME Uncrossed, ClearWriterStore, ~crossed'
  PROVE  Uncrossed' /\ (Fifo!Drop \/ UNCHANGED Items)
<1> DEFINE d == Distance(tail_index)
<1>1. /\ UNCHANGED <<buffer, head_index, element, saw_head, consumerVars>>
      /\ producer = "clear" /\ producer' = "idle" /\ crossed' \in BOOLEAN
      /\ tail_index' = head_index /\ consumer = "idle"
  BY DEF ClearWriterStore
<1>2. TypeOK /\ tail_index \in Index /\ head_index \in Index
  BY DEF Uncrossed, TypeOK
<1>3. TypeOK' /\ ProducerInv' /\ ConsumerInv'
  BY <1>1, <1>2 DEF TypeOK, ProducerInv, ConsumerInv, consumerVars
<1>4. Distance(tail_index)' = 0
  BY <1>1, <1>2, QueueSpscAssumption DEF Distance, Index
<1>5. (\A i \in 0 .. Distance(tail_index) - 1 : buffer[Slot(i)] \in Element)'
  BY <1>4
<1>6. Items' = <<>>
  BY <1>4 DEF Items
<1>7. Fifo!Drop \/ UNCHANGED Items
  <2>1. Items \in Seq(Element \cup {None}) /\ Len(Items) \in Nat
    BY <1>2, SlotsAreQueued, LenProperties
  <2>2. SubSeq(Items, Len(Items) + 1, Len(Items)) = <<>>
    BY <2>1, SubSeqEmpty
  <2>3. CASE Items = <<>>
    BY <1>6, <2>3
  <2>4. CASE Items # <<>>
    <3>1. Len(Items) \in 1 .. Len(Items)
      BY <2>1, <2>4, EmptySeq
    <3> QED BY <1>6, <2>2, <3>1 DEF Fifo!Drop
  <2> QED BY <2>3, <2>4
<1> QED BY <1>3, <1>5, <1>7 DEF Uncrossed

-----------------------------------------------------------------------------
\* While no clearing has crossed the consumer every step keeps what holds
\* then, and is a step of the abstract queue or none.
LEMMA UncrossedKeeps ==
  ASSUME Uncrossed, ~crossed', [Next]_vars
  PROVE  Uncrossed' /\ [Fifo!FifoNext]_Items
<1>1. CASE InsertStore
  BY <1>1, InsertStoreKeeps
<1>2. CASE InsertPublish
  <2>1. element \in Element
    BY <1>2 DEF InsertPublish, Uncrossed, ProducerInv
  <2> QED BY <1>2, <2>1, InsertPublishKeeps DEF Fifo!FifoNext
<1>3. CASE RemoveAdvance
  BY <1>3, RemoveAdvanceKeeps DEF Fifo!FifoNext
<1>4. CASE ClearReaderStore
  BY <1>4, ClearReaderStoreKeeps DEF Fifo!FifoNext
<1>5. CASE ClearWriterStore
  BY <1>5, ClearWriterStoreKeeps DEF Fifo!FifoNext
<1>6. CASE \/ \E e \in Element : InsertCheck(e)
           \/ ClearWriter \/ RemoveCheck \/ PeekCheck \/ PeekRead \/ ClearReader
           \/ UNCHANGED vars
  BY <1>6, LookingKeeps
<1> QED
  BY <1>1, <1>2, <1>3, <1>4, <1>5, <1>6 DEF Next, Producer, Consumer

\* The indices stay in the buffer even where a clearing has crossed the
\* consumer, and what has crossed stays so.
LEMMA AnyStepKeeps ==
  ASSUME TypeOK, [Next]_vars
  PROVE  TypeOK' /\ (crossed => crossed')
<1>1. head_index \in Index /\ tail_index \in Index /\ saw_tail \in Index /\ saw_head \in Index
  BY DEF TypeOK
<1>2. After(head_index) \in Index /\ After(tail_index) \in Index
  BY <1>1, DistanceFacts
<1>3. CASE InsertStore \/ InsertPublish \/ ClearWriter \/ ClearWriterStore
  BY <1>1, <1>2, <1>3
     DEF TypeOK, InsertStore, InsertPublish, ClearWriter, ClearWriterStore, consumerVars
<1>4. ASSUME NEW e \in Element, InsertCheck(e) PROVE TypeOK' /\ (crossed => crossed')
  BY <1>4 DEF TypeOK, InsertCheck, consumerVars
<1>5. CASE RemoveCheck \/ RemoveAdvance \/ PeekCheck \/ PeekRead
  BY <1>1, <1>2, <1>5 DEF TypeOK, RemoveCheck, RemoveAdvance, PeekCheck, PeekRead, producerVars
<1>6. CASE ClearReader \/ ClearReaderStore
  BY <1>1, <1>6 DEF TypeOK, ClearReader, ClearReaderStore, producerVars
<1>7. CASE UNCHANGED vars
  BY <1>7 DEF TypeOK, vars, producerVars, consumerVars
<1> QED BY <1>3, <1>4, <1>5, <1>6, <1>7 DEF Next, Producer, Consumer

\* Every step keeps the inductive invariant.
LEMMA StepKeeps ==
  ASSUME QueueInv, [Next]_vars
  PROVE  QueueInv' /\ (~crossed' => [Fifo!FifoNext]_Items)
<1>1. TypeOK' /\ (crossed => crossed')
  BY AnyStepKeeps DEF QueueInv
<1>2. CASE ~crossed'
  BY <1>1, <1>2, UncrossedKeeps DEF QueueInv
<1> QED BY <1>1, <1>2 DEF QueueInv

\* A peek reads the first of the queue.
LEMMA PeekReadsOldest ==
  ASSUME Uncrossed, [Next]_vars, consumer = "peek", consumer' = "idle"
  PROVE  Items # <<>> /\ peeked' = Head(Items)
<1>1. PeekRead
  BY DEF Next, Producer, Consumer, InsertStore, InsertPublish, ClearWriter,
         ClearWriterStore, InsertCheck, RemoveCheck, RemoveAdvance, PeekCheck,
         ClearReader, ClearReaderStore, vars, consumerVars
<1>2. /\ TypeOK /\ head_index \in Index /\ tail_index \in Index
      /\ head_index # tail_index
  BY DEF Uncrossed, TypeOK, ConsumerInv
<1>3. Distance(tail_index) \in Nat /\ Distance(tail_index) > 0
  BY <1>2, DistanceFacts, QueueSpscAssumption DEF Index
<1>4. Items \in Seq(Element \cup {None}) /\ Len(Items) > 0
  BY <1>2, <1>3, SlotsAreQueued
<1>5. Items # <<>> /\ Head(Items) = Items[1]
  BY <1>4, EmptySeq
<1>6. Items[1] = buffer[Slot(0)]
  BY <1>3 DEF Items
<1>7. Slot(0) = head_index
  BY <1>2, QueueSpscAssumption DEF Slot, Index
<1> QED BY <1>1, <1>5, <1>6, <1>7 DEF PeekRead

\* queue_spsc_init makes an empty queue.
LEMMA EmptyAtFirst == Init => Fifo!FifoInit
<1> SUFFICES ASSUME Init PROVE Items = <<>>
  BY DEF Fifo!FifoInit
<1>1. Distance(tail_index) = 0
  BY DEF Init, Distance
<1> QED BY <1>1 DEF Items

-----------------------------------------------------------------------------
\* The indices stay in the buffer, and what producer and consumer have tested
\* stays true until they act on it (queue_spsc.h 31-79), as long as no clearing
\* by the producer meets the consumer halfway.
THEOREM Invariance == Spec => []QueueInv
<1>1. Init => QueueInv
  BY InitEstablishes DEF QueueInv, Uncrossed
<1>2. QueueInv /\ [Next]_vars => QueueInv'
  BY StepKeeps
<1> QED BY <1>1, <1>2, PTL DEF Spec

\* queue_spsc.h is a first-in first-out queue of max_count - 1 elements, up to
\* the first clearing by the producer that meets the consumer halfway.
THEOREM QueueIsFifo == Spec => ImplementsFifo
<1>1. Init => Fifo!FifoInit
  BY EmptyAtFirst
<1>2. QueueInv /\ [Next]_vars => [crossed' \/ Fifo!FifoNext]_Items
  BY StepKeeps
<1>3. Spec => []QueueInv
  BY Invariance
<1> QED BY <1>1, <1>2, <1>3, PTL DEF Spec, ImplementsFifo

\* queue_spsc_peek (56-62) returns the oldest element although the producer
\* may run between its test and its read, up to then.
THEOREM PeekIsOldest == Spec => PeekSeesOldest
<1>1. QueueInv /\ [Next]_vars
        => [~crossed /\ consumer = "peek" /\ consumer' = "idle"
              => Items # <<>> /\ peeked' = Head(Items)]_vars
  BY PeekReadsOldest DEF QueueInv
<1>2. Spec => []QueueInv
  BY Invariance
<1> QED BY <1>1, <1>2, PTL DEF Spec, PeekSeesOldest

-----------------------------------------------------------------------------
(* The pipe *)

\* Two threads at one end use the same place (pipe.cpp 82).
theWriter == CHOOSE t : t \in Writer
theReader == CHOOSE t : t \in Reader
OneAtEachEnd == Writer = {theWriter} /\ Reader = {theReader}


LEMMA TwoEnds ==
  ASSUME OneAtEachEnd
  PROVE  /\ Writer = {theWriter} /\ Reader = {theReader} /\ theWriter # theReader
         /\ Client = {theWriter, theReader}
         /\ slots \in Semaphore /\ messages \in Semaphore /\ slots # messages
         /\ Semaphore = {slots, messages} /\ size \in Nat /\ size > 0
<1>1. Writer = {theWriter} /\ Reader = {theReader}
  BY DEF OneAtEachEnd, theWriter, theReader
<1>2. Writer \cap Reader = {} /\ Client = Writer \cup Reader
  BY PipeAssumption
<1>3. theWriter # theReader /\ Client = {theWriter, theReader}
  BY <1>1, <1>2
<1> QED BY <1>1, <1>3, PipeAssumption

-----------------------------------------------------------------------------
(* The inductive invariant *)

PipeTypeOK ==
  /\ SemaphoreTypeOK
  /\ data \in [Place -> Char] /\ read_pos \in Place /\ write_pos \in Place
  /\ DOMAIN pc = Client
  /\ pc[theWriter] \in {"idle", "store", "advance", "signal"}
  /\ pc[theReader] \in {"idle", "load", "advance", "signal"}
  /\ char \in [Client -> Char]
  /\ content \in Seq(Char)

\* The writer waits for a place, the reader for a message, and only while there is none.
EndsLined ==
  /\ queue[slots] \in {<<>>, <<theWriter>>} /\ queue[messages] \in {<<>>, <<theReader>>}
  /\ queue[slots] = <<theWriter>> => pc[theWriter] = "store"
  /\ queue[messages] = <<theReader>> => pc[theReader] = "load"
  /\ NoIdlePermit

\* A place is free, taken by the writer, holds a character, or is taken by the
\* reader; a character is announced, about to be, or taken by the reader.
Storing == IF pc[theWriter] = "store" /\ queue[slots] = <<>> THEN 1 ELSE 0
Announcing == IF pc[theWriter] \in {"advance", "signal"} THEN 1 ELSE 0
Loading == IF pc[theReader] = "load" /\ queue[messages] = <<>> THEN 1 ELSE 0
Loaded == IF pc[theReader] \in {"advance", "signal"} THEN 1 ELSE 0
PlacesCounted ==
  /\ value[slots] + Storing + Len(content) + Loaded = size
  /\ value[messages] + Announcing + Loading = Len(content)

\* The place k further than p.
Further(p, k) == IF p + k < size THEN p + k ELSE p + k - size

\* Where the next character is taken from and where the next one goes, also
\* between the access and the advance.
LoadPlace == IF pc[theReader] = "advance" THEN Further(read_pos, 1) ELSE read_pos
StorePlace == IF pc[theWriter] = "advance" THEN Further(write_pos, 1) ELSE write_pos
RingHolds ==
  /\ StorePlace = Further(LoadPlace, Len(content))
  /\ \A i \in 1 .. Len(content) : content[i] = data[Further(LoadPlace, i - 1)]

PipeInv == PipeTypeOK /\ EndsLined /\ PlacesCounted /\ RingHolds

-----------------------------------------------------------------------------
(* Places *)

\* The remainder of pipe_write and pipe_read wraps the position at the end.
LEMMA NextPlace ==
  ASSUME NEW p \in Place
  PROVE  (p + 1) % size = Further(p, 1)
<1>1. size \in Nat /\ size > 0 /\ p \in Nat /\ p < size
  BY PipeAssumption DEF Place
<1>2. CASE p + 1 = size
  BY <1>1, <1>2, size % size = 0 DEF Further
<1>3. CASE p + 1 # size
  BY <1>1, <1>3 DEF Further
<1> QED BY <1>2, <1>3

LEMMA FurtherIsPlace ==
  \A p \in Place, k \in 0 .. size : Further(p, k) \in Place
BY PipeAssumption DEF Further, Place

LEMMA FurtherByOne ==
  \A p \in Place, k \in 0 .. size - 1 :
    Further(Further(p, 1), k) = Further(p, k + 1) /\ Further(Further(p, k), 1) = Further(p, k + 1)
BY PipeAssumption DEF Further, Place

LEMMA FurtherApart ==
  \A p \in Place, j, k \in 0 .. size - 1 : Further(p, j) = Further(p, k) => j = k
BY PipeAssumption DEF Further, Place

LEMMA OneNode ==
  ASSUME NEW t
  PROVE  Nodes(<<t>>) = {t} /\ <<t>> # <<>> /\ RemoveFrontNode(<<t>>) = <<>>
         /\ InsertBackNode(<<>>, t) = <<t>>
  BY DEF Nodes, RemoveFrontNode, InsertBackNode

LEMMA AtEnds ==
  ASSUME OneAtEachEnd, PipeInv
  PROVE  /\ theWriter \notin Queued <=> queue[slots] = <<>>
         /\ theReader \notin Queued <=> queue[messages] = <<>>
<1>1. Queued = Nodes(queue[slots]) \cup Nodes(queue[messages])
  BY PipeAssumption DEF Queued
<1>2. /\ Nodes(<<theWriter>>) = {theWriter} /\ Nodes(<<theReader>>) = {theReader} /\ Nodes(<<>>) = {}
      /\ <<theWriter>> # <<>> /\ <<theReader>> # <<>>
  BY OneNode, EmptyLine
<1> QED BY <1>1, <1>2, TwoEnds DEF PipeInv, EndsLined

LEMMA CountFacts ==
  ASSUME OneAtEachEnd, PipeInv
  PROVE  /\ value[slots] \in Nat /\ value[messages] \in Nat /\ Len(content) \in Nat
         /\ Len(content) <= size
         /\ pc[theWriter] = "store" /\ theWriter \notin Queued => Len(content) < size
         /\ pc[theReader] = "load" /\ theReader \notin Queued => Len(content) > 0
<1>1. value[slots] \in Nat /\ value[messages] \in Nat /\ Len(content) \in Nat /\ size \in Nat
  BY TwoEnds DEF PipeInv, PipeTypeOK, SemaphoreTypeOK
<1> QED BY <1>1, AtEnds DEF PipeInv, PlacesCounted, Storing, Announcing, Loading, Loaded

LEMMA CountTypes ==
  Storing \in Nat /\ Announcing \in Nat /\ Loading \in Nat /\ Loaded \in Nat
BY DEF Storing, Announcing, Loading, Loaded

LEMMA InitPipe == ASSUME OneAtEachEnd, PipeInit PROVE PipeInv
<1>1. /\ size \in Nat /\ size > 0 /\ theWriter \in Client /\ theReader \in Client
      /\ slots \in Semaphore /\ messages \in Semaphore
  BY TwoEnds
<1>2. /\ value \in [Semaphore -> Nat] /\ queue = [s \in Semaphore |-> <<>>]
      /\ value[slots] = size /\ value[messages] = 0
  BY PipeAssumption, CountingSemaphoreAssumption DEF PipeInit, SemaphoreInit
<1>3. SemaphoreTypeOK
  BY <1>2 DEF SemaphoreTypeOK
<1>4. pc[theWriter] = "idle" /\ pc[theReader] = "idle" /\ DOMAIN pc = Client
  BY <1>1 DEF PipeInit
<1>5. content = <<>> /\ Len(content) = 0 /\ read_pos = 0 /\ write_pos = 0
  BY DEF PipeInit
<1>6. 0 \in Place
  BY <1>1 DEF Place
<1>7. PipeTypeOK
  BY <1>3, <1>4, <1>5, <1>6 DEF PipeTypeOK, PipeInit
<1>8. EndsLined
  BY <1>1, <1>2, <1>4 DEF EndsLined, NoIdlePermit
<1>9. PlacesCounted
  BY <1>1, <1>2, <1>4, <1>5 DEF PlacesCounted, Storing, Announcing, Loading, Loaded
<1>10. RingHolds
  BY <1>1, <1>4, <1>5 DEF RingHolds, LoadPlace, StorePlace, Further
<1> QED BY <1>7, <1>8, <1>9, <1>10 DEF PipeInv

-----------------------------------------------------------------------------
(* The semaphores as the ends use them *)

\* An end takes a permit or gets in line.
LEMMA EndWaits ==
  ASSUME OneAtEachEnd, PipeInv, NEW s \in Semaphore, NEW t \in Client, Wait(t, s),
         s = slots => t = theWriter, s = messages => t = theReader
  PROVE  /\ SemaphoreTypeOK' /\ NoIdlePermit'
         /\ \A o \in Semaphore : o # s => value'[o] = value[o] /\ queue'[o] = queue[o]
         /\ queue[s] = <<>>
         /\ \/ value[s] > 0 /\ value'[s] = value[s] - 1 /\ queue'[s] = <<>>
            \/ value[s] = 0 /\ value'[s] = 0 /\ queue'[s] = <<t>>
<1>1. t \notin Queued
  BY DEF Wait
<1>2. queue[s] = <<>>
  BY <1>1, TwoEnds, AtEnds
<1>3. /\ SemaphoreTypeOK' /\ SemaphoreTypeOK
      /\ \A o \in Semaphore : o # s => value'[o] = value[o] /\ queue'[o] = queue[o]
      /\ \/ value[s] > 0 /\ value'[s] = value[s] - 1 /\ queue'[s] = queue[s]
         \/ value[s] = 0 /\ value'[s] = 0 /\ queue'[s] = InsertBackNode(queue[s], t)
  BY WaitEffect DEF PipeInv, PipeTypeOK
<1>4. InsertBackNode(queue[s], t) = <<t>>
  BY <1>2, OneNode
<1>5. NoIdlePermit'
  BY <1>2, <1>3 DEF PipeInv, EndsLined, NoIdlePermit
<1> QED BY <1>2, <1>3, <1>4, <1>5

\* A signal lets the other end on, or leaves a permit.
LEMMA EndSignals ==
  ASSUME OneAtEachEnd, PipeInv, NEW s \in Semaphore, Signal(s)
  PROVE  /\ SemaphoreTypeOK' /\ NoIdlePermit'
         /\ \A o \in Semaphore : o # s => value'[o] = value[o] /\ queue'[o] = queue[o]
         /\ queue'[s] = <<>>
         /\ \/ queue[s] # <<>> /\ value'[s] = value[s] /\ value[s] = 0
            \/ queue[s] = <<>> /\ value'[s] = value[s] + 1
<1>1. /\ SemaphoreTypeOK' /\ SemaphoreTypeOK
      /\ \A o \in Semaphore : o # s => value'[o] = value[o] /\ queue'[o] = queue[o]
      /\ \/ queue[s] # <<>> /\ queue'[s] = RemoveFrontNode(queue[s]) /\ value'[s] = value[s]
         \/ queue[s] = <<>> /\ queue'[s] = <<>> /\ value'[s] = value[s] + 1
  BY SignalEffect DEF PipeInv, PipeTypeOK
<1>2. queue[s] # <<>> => RemoveFrontNode(queue[s]) = <<>>
  BY TwoEnds, OneNode DEF PipeInv, EndsLined
<1>3. queue[s] # <<>> => value[s] = 0
  BY <1>1 DEF PipeInv, EndsLined, NoIdlePermit, SemaphoreTypeOK
<1>4. NoIdlePermit'
  BY <1>1, <1>2, <1>3 DEF PipeInv, EndsLined, NoIdlePermit
<1> QED BY <1>1, <1>2, <1>3, <1>4

-----------------------------------------------------------------------------
(* The writer's steps *)

LEMMA WriteWaitKeeps ==
  ASSUME OneAtEachEnd, PipeInv, NEW e \in Char, WriteWait(theWriter, e)
  PROVE  PipeInv'
<1>1. /\ theWriter \in Client /\ theReader \in Client /\ theWriter # theReader
      /\ slots \in Semaphore /\ messages \in Semaphore /\ slots # messages
  BY TwoEnds
<1>2. /\ pc[theWriter] = "idle" /\ Wait(theWriter, slots) /\ char' = [char EXCEPT ![theWriter] = e]
      /\ pc' = [pc EXCEPT ![theWriter] = "store"] /\ content' = content
      /\ data' = data /\ read_pos' = read_pos /\ write_pos' = write_pos
  BY DEF WriteWait, At, Goto, ring
<1>3. DOMAIN pc' = Client /\ pc'[theWriter] = "store" /\ pc'[theReader] = pc[theReader]
  BY <1>1, <1>2 DEF PipeInv, PipeTypeOK
<1>4. /\ SemaphoreTypeOK' /\ NoIdlePermit'
      /\ value'[messages] = value[messages] /\ queue'[messages] = queue[messages]
      /\ \/ value[slots] > 0 /\ value'[slots] = value[slots] - 1 /\ queue'[slots] = <<>>
         \/ value[slots] = 0 /\ value'[slots] = 0 /\ queue'[slots] = <<theWriter>>
  BY <1>1, <1>2, EndWaits
<1>5. <<theWriter>> # <<>>
  BY OneNode
<1>6. PipeTypeOK'
  BY <1>2, <1>3, <1>4 DEF PipeInv, PipeTypeOK
<1>7. EndsLined'
  BY <1>3, <1>4 DEF PipeInv, EndsLined
<1>8. PlacesCounted'
  <2>1. /\ Storing = 0 /\ Announcing' = Announcing /\ Loading' = Loading /\ Loaded' = Loaded
        /\ Announcing = 0 /\ Loading \in {0, 1} /\ Loaded \in {0, 1}
    BY <1>2, <1>3, <1>4 DEF Storing, Announcing, Loading, Loaded
  <2>2. queue'[slots] = <<>> => Storing' = 1
    BY <1>3 DEF Storing
  <2>3. queue'[slots] = <<theWriter>> => Storing' = 0
    BY <1>5 DEF Storing
  <2>4. /\ value[slots] + Storing + Len(content) + Loaded = size
        /\ value[messages] + Announcing + Loading = Len(content)
    BY DEF PipeInv, PlacesCounted
  <2>5. value[slots] \in Nat /\ value[messages] \in Nat /\ Len(content) \in Nat
    BY CountFacts
  <2>6. value'[slots] + Storing' = value[slots] + Storing
    BY <1>4, <2>1, <2>2, <2>3, <2>5
  <2> QED BY <1>2, <1>4, <2>1, <2>4, <2>6 DEF PlacesCounted
<1>9. RingHolds'
  BY <1>2, <1>3 DEF PipeInv, RingHolds, LoadPlace, StorePlace
<1> QED BY <1>6, <1>7, <1>8, <1>9 DEF PipeInv

\* The character goes to the place behind the last, which no character holds.
LEMMA StoreKeeps ==
  ASSUME OneAtEachEnd, PipeInv, Store(theWriter)
  PROVE  PipeInv'
<1>1. theWriter \in Client /\ theReader \in Client /\ theWriter # theReader /\ size \in Nat /\ size > 0
  BY TwoEnds
<1>2. /\ pc[theWriter] = "store" /\ theWriter \notin Queued
      /\ data' = [data EXCEPT ![write_pos] = char[theWriter]]
      /\ pc' = [pc EXCEPT ![theWriter] = "advance"] /\ content' = Append(content, char[theWriter])
      /\ read_pos' = read_pos /\ write_pos' = write_pos /\ char' = char
      /\ value' = value /\ queue' = queue
  BY DEF Store, At, Goto, semaphores
<1>3. DOMAIN pc' = Client /\ pc'[theWriter] = "advance" /\ pc'[theReader] = pc[theReader]
  BY <1>1, <1>2 DEF PipeInv, PipeTypeOK
<1>4. queue[slots] = <<>> /\ Len(content) \in Nat /\ Len(content) < size
  BY <1>2, AtEnds, CountFacts
<1>5. content \in Seq(Char) /\ char[theWriter] \in Char
  BY <1>1 DEF PipeInv, PipeTypeOK
<1>6. /\ content' \in Seq(Char) /\ Len(content') = Len(content) + 1
      /\ content'[Len(content) + 1] = char[theWriter]
      /\ \A i \in 1 .. Len(content) : content'[i] = content[i]
  BY <1>2, <1>5
<1>7. PipeTypeOK'
  BY <1>2, <1>3, <1>5, <1>6 DEF PipeInv, PipeTypeOK, SemaphoreTypeOK
<1>8. EndsLined'
  BY <1>2, <1>3, <1>4 DEF PipeInv, EndsLined, NoIdlePermit
<1>9. PlacesCounted'
  <2>1. /\ Storing = 1 /\ Storing' = 0 /\ Announcing = 0 /\ Announcing' = 1
        /\ Loading' = Loading /\ Loaded' = Loaded /\ Loading \in {0, 1} /\ Loaded \in {0, 1}
    BY <1>2, <1>3, <1>4 DEF Storing, Announcing, Loading, Loaded
  <2>2. /\ value[slots] + Storing + Len(content) + Loaded = size
        /\ value[messages] + Announcing + Loading = Len(content)
    BY DEF PipeInv, PlacesCounted
  <2>3. value[slots] \in Nat /\ value[messages] \in Nat /\ Len(content) \in Nat
    BY CountFacts
  <2>4. value'[slots] + Storing' + Len(content') + Loaded' = size
    <3>1. value[slots] + 1 + Len(content) + Loaded = size /\ Loaded \in Nat
      BY <2>1, <2>2, CountTypes
    <3>2. value[slots] + 0 + (Len(content) + 1) + Loaded = size
      BY <1>1, <2>3, <3>1
    <3> QED BY <1>2, <1>6, <2>1, <3>2
  <2>5. value'[messages] + Announcing' + Loading' = Len(content')
    <3>1. value[messages] + 0 + Loading = Len(content)
      BY <2>1, <2>2
    <3>2. value[messages] + 1 + Loading = Len(content) + 1
      BY <2>1, <2>3, <3>1
    <3>3. value'[messages] = value[messages] /\ Len(content') = Len(content) + 1
      BY <1>2, <1>6
    <3> QED BY <2>1, <3>2, <3>3
  <2> QED BY <2>4, <2>5 DEF PlacesCounted
<1>10. LoadPlace \in Place /\ LoadPlace' = LoadPlace
  BY <1>1, <1>2, <1>3, 1 \in 0 .. size, FurtherIsPlace DEF PipeInv, PipeTypeOK, LoadPlace
<1>11. write_pos = Further(LoadPlace, Len(content)) /\ write_pos \in Place
  BY <1>2 DEF PipeInv, PipeTypeOK, RingHolds, StorePlace
<1>12. StorePlace' = Further(LoadPlace', Len(content'))
  <2>1. Len(content) \in 0 .. size - 1
    BY <1>1, <1>4
  <2>2. StorePlace' = Further(write_pos, 1)
    BY <1>2, <1>3 DEF StorePlace
  <2> QED BY <1>6, <1>10, <1>11, <2>1, <2>2, FurtherByOne
<1>13. ASSUME NEW i \in 1 .. Len(content') PROVE content'[i] = data'[Further(LoadPlace', i - 1)]
  <2>1. CASE i = Len(content) + 1
    BY <1>2, <1>4, <1>6, <1>10, <1>11, <2>1 DEF PipeInv, PipeTypeOK
  <2>2. CASE i # Len(content) + 1
    <3>1. /\ i \in 1 .. Len(content) /\ i - 1 # Len(content)
          /\ i - 1 \in 0 .. size - 1 /\ i - 1 \in 0 .. size /\ Len(content) \in 0 .. size - 1
      BY <1>1, <1>4, <1>6, <2>2
    <3>2. Further(LoadPlace, i - 1) # write_pos
      BY <1>10, <1>11, <3>1, FurtherApart
    <3>3. Further(LoadPlace, i - 1) \in Place
      BY <1>10, <3>1, FurtherIsPlace
    <3>4. data'[Further(LoadPlace, i - 1)] = data[Further(LoadPlace, i - 1)]
      BY <1>2, <3>2, <3>3 DEF PipeInv, PipeTypeOK
    <3> QED BY <1>6, <1>10, <3>1, <3>4 DEF PipeInv, RingHolds
  <2> QED BY <2>1, <2>2
<1> QED BY <1>7, <1>8, <1>9, <1>12, <1>13 DEF PipeInv, RingHolds

LEMMA WriteAdvanceKeeps ==
  ASSUME OneAtEachEnd, PipeInv, WriteAdvance(theWriter)
  PROVE  PipeInv'
<1>1. theWriter \in Client /\ theReader \in Client /\ theWriter # theReader /\ size \in Nat /\ size > 0
  BY TwoEnds
<1>2. /\ pc[theWriter] = "advance" /\ data' = data /\ write_pos' = (write_pos + 1) % size
      /\ pc' = [pc EXCEPT ![theWriter] = "signal"] /\ content' = content
      /\ read_pos' = read_pos /\ char' = char /\ value' = value /\ queue' = queue
  BY DEF WriteAdvance, At, Goto, semaphores
<1>3. DOMAIN pc' = Client /\ pc'[theWriter] = "signal" /\ pc'[theReader] = pc[theReader]
  BY <1>1, <1>2 DEF PipeInv, PipeTypeOK
<1>4. write_pos' = Further(write_pos, 1) /\ write_pos' \in Place
  BY <1>1, <1>2, NextPlace, 1 \in 0 .. size, FurtherIsPlace DEF PipeInv, PipeTypeOK
<1>5. PipeTypeOK'
  BY <1>2, <1>3, <1>4 DEF PipeInv, PipeTypeOK, SemaphoreTypeOK
<1>6. EndsLined'
  BY <1>2, <1>3 DEF PipeInv, EndsLined, NoIdlePermit
<1>7. PlacesCounted'
  BY <1>2, <1>3 DEF PipeInv, PlacesCounted, Storing, Announcing, Loading, Loaded
<1>8. LoadPlace' = LoadPlace /\ StorePlace' = StorePlace
  BY <1>2, <1>3, <1>4 DEF LoadPlace, StorePlace
<1> QED BY <1>2, <1>5, <1>6, <1>7, <1>8 DEF PipeInv, RingHolds

LEMMA WriteSignalKeeps ==
  ASSUME OneAtEachEnd, PipeInv, WriteSignal(theWriter)
  PROVE  PipeInv'
<1>1. /\ theWriter \in Client /\ theReader \in Client /\ theWriter # theReader
      /\ slots \in Semaphore /\ messages \in Semaphore /\ slots # messages
  BY TwoEnds
<1>2. /\ pc[theWriter] = "signal" /\ data' = data /\ write_pos' = write_pos /\ Signal(messages)
      /\ pc' = [pc EXCEPT ![theWriter] = "idle"] /\ content' = content
      /\ read_pos' = read_pos /\ char' = char
  BY DEF WriteSignal, At, Goto, ring
<1>3. DOMAIN pc' = Client /\ pc'[theWriter] = "idle" /\ pc'[theReader] = pc[theReader]
  BY <1>1, <1>2 DEF PipeInv, PipeTypeOK
<1>4. /\ SemaphoreTypeOK' /\ NoIdlePermit'
      /\ value'[slots] = value[slots] /\ queue'[slots] = queue[slots]
      /\ queue'[messages] = <<>>
      /\ \/ queue[messages] # <<>> /\ value'[messages] = value[messages]
         \/ queue[messages] = <<>> /\ value'[messages] = value[messages] + 1
  BY <1>1, <1>2, EndSignals
<1>5. PipeTypeOK'
  BY <1>2, <1>3, <1>4 DEF PipeInv, PipeTypeOK
<1>6. EndsLined'
  BY <1>2, <1>3, <1>4, OneNode DEF PipeInv, EndsLined
<1>7. queue[messages] # <<>> => pc[theReader] = "load"
  BY DEF PipeInv, EndsLined
<1>8. PlacesCounted'
  BY <1>2, <1>3, <1>4, <1>7, CountFacts DEF PipeInv, PlacesCounted, Storing, Announcing, Loading, Loaded
<1>9. RingHolds'
  BY <1>2, <1>3 DEF PipeInv, RingHolds, LoadPlace, StorePlace
<1> QED BY <1>5, <1>6, <1>8, <1>9 DEF PipeInv

-----------------------------------------------------------------------------
(* The reader's steps *)

LEMMA ReadWaitKeeps ==
  ASSUME OneAtEachEnd, PipeInv, ReadWait(theReader)
  PROVE  PipeInv'
<1>1. /\ theWriter \in Client /\ theReader \in Client /\ theWriter # theReader
      /\ slots \in Semaphore /\ messages \in Semaphore /\ slots # messages
  BY TwoEnds
<1>2. /\ pc[theReader] = "idle" /\ Wait(theReader, messages) /\ char' = char
      /\ pc' = [pc EXCEPT ![theReader] = "load"] /\ content' = content
      /\ data' = data /\ read_pos' = read_pos /\ write_pos' = write_pos
  BY DEF ReadWait, At, Goto, ring
<1>3. DOMAIN pc' = Client /\ pc'[theReader] = "load" /\ pc'[theWriter] = pc[theWriter]
  BY <1>1, <1>2 DEF PipeInv, PipeTypeOK
<1>4. /\ SemaphoreTypeOK' /\ NoIdlePermit'
      /\ value'[slots] = value[slots] /\ queue'[slots] = queue[slots]
      /\ \/ value[messages] > 0 /\ value'[messages] = value[messages] - 1 /\ queue'[messages] = <<>>
         \/ value[messages] = 0 /\ value'[messages] = 0 /\ queue'[messages] = <<theReader>>
  BY <1>1, <1>2, EndWaits
<1>5. <<theReader>> # <<>>
  BY OneNode
<1>6. PipeTypeOK'
  BY <1>2, <1>3, <1>4 DEF PipeInv, PipeTypeOK
<1>7. EndsLined'
  BY <1>3, <1>4 DEF PipeInv, EndsLined
<1>8. PlacesCounted'
  <2>1. /\ Loading = 0 /\ Announcing' = Announcing /\ Storing' = Storing /\ Loaded' = Loaded
        /\ Loaded = 0 /\ Storing \in {0, 1} /\ Announcing \in {0, 1}
    BY <1>2, <1>3, <1>4 DEF Storing, Announcing, Loading, Loaded
  <2>2. queue'[messages] = <<>> => Loading' = 1
    BY <1>3 DEF Loading
  <2>3. queue'[messages] = <<theReader>> => Loading' = 0
    BY <1>5 DEF Loading
  <2>4. /\ value[slots] + Storing + Len(content) + Loaded = size
        /\ value[messages] + Announcing + Loading = Len(content)
    BY DEF PipeInv, PlacesCounted
  <2>5. value[slots] \in Nat /\ value[messages] \in Nat /\ Len(content) \in Nat /\ value'[messages] \in Nat
    BY <1>1, <1>4, CountFacts DEF SemaphoreTypeOK
  <2>6. value'[messages] + Loading' = value[messages] + Loading
    BY <1>4, <2>1, <2>2, <2>3, <2>5
  <2>7. Loading' \in {0, 1}
    BY DEF Loading
  <2>8. value'[slots] + Storing' + Len(content') + Loaded' = size
    BY <1>2, <1>4, <2>1, <2>4, <2>5
  <2>9. value'[messages] + Announcing' + Loading' = Len(content')
    BY <1>2, <2>1, <2>4, <2>5, <2>6, <2>7, CountTypes
  <2> QED BY <2>8, <2>9 DEF PlacesCounted
<1>9. RingHolds'
  BY <1>2, <1>3 DEF PipeInv, RingHolds, LoadPlace, StorePlace
<1> QED BY <1>6, <1>7, <1>8, <1>9 DEF PipeInv

\* What the reader takes is the oldest character.
LEMMA LoadTakesOldest ==
  ASSUME OneAtEachEnd, PipeInv, Load(theReader)
  PROVE  content # <<>> /\ char'[theReader] = Head(content)
<1>1. /\ pc[theReader] = "load" /\ theReader \notin Queued
      /\ char' = [char EXCEPT ![theReader] = data[read_pos]]
  BY DEF Load, At
<1>2. char'[theReader] = data[read_pos]
  BY <1>1, TwoEnds DEF PipeInv, PipeTypeOK
<1>3. Len(content) \in Nat /\ Len(content) > 0
  BY <1>1, CountFacts
<1>4. content # <<>> /\ Head(content) = content[1]
  BY <1>3 DEF PipeInv, PipeTypeOK
<1>5. content[1] = data[Further(read_pos, 0)]
  <2>1. LoadPlace = read_pos
    BY <1>1 DEF LoadPlace
  <2>2. 1 \in 1 .. Len(content) /\ 1 - 1 = 0
    BY <1>3
  <2> QED BY <2>1, <2>2 DEF PipeInv, RingHolds
<1>6. Further(read_pos, 0) = read_pos
  BY PipeAssumption DEF PipeInv, PipeTypeOK, Further, Place
<1> QED BY <1>2, <1>4, <1>5, <1>6

LEMMA LoadKeeps ==
  ASSUME OneAtEachEnd, PipeInv, Load(theReader)
  PROVE  PipeInv'
<1>1. theWriter \in Client /\ theReader \in Client /\ theWriter # theReader /\ size \in Nat /\ size > 0
  BY TwoEnds
<1>2. /\ pc[theReader] = "load" /\ theReader \notin Queued
      /\ char' = [char EXCEPT ![theReader] = data[read_pos]]
      /\ pc' = [pc EXCEPT ![theReader] = "advance"] /\ content' = SubSeq(content, 2, Len(content))
      /\ data' = data /\ read_pos' = read_pos /\ write_pos' = write_pos
      /\ value' = value /\ queue' = queue
  BY DEF Load, At, Goto, semaphores, ring
<1>3. DOMAIN pc' = Client /\ pc'[theReader] = "advance" /\ pc'[theWriter] = pc[theWriter]
  BY <1>1, <1>2 DEF PipeInv, PipeTypeOK
<1>4. queue[messages] = <<>> /\ Len(content) \in Nat /\ Len(content) > 0 /\ Len(content) <= size
  BY <1>2, AtEnds, CountFacts
<1>5. /\ content' \in Seq(Char) /\ Len(content') = Len(content) - 1
      /\ \A i \in 1 .. Len(content) - 1 : content'[i] = content[i + 1]
  <2>1. content \in Seq(Char)
    BY DEF PipeInv, PipeTypeOK
  <2>2. content # <<>>
    BY <1>4
  <2>3. content' = Tail(content)
    BY <1>2, <2>1, <2>2, TailIsSubSeq
  <2> QED BY <1>4, <2>1, <2>2, <2>3
<1>6. PipeTypeOK'
  BY <1>2, <1>3, <1>5 DEF PipeInv, PipeTypeOK, SemaphoreTypeOK
<1>7. EndsLined'
  BY <1>2, <1>3, <1>4, OneNode DEF PipeInv, EndsLined, NoIdlePermit
<1>8. PlacesCounted'
  <2>1. /\ Loading = 1 /\ Loading' = 0 /\ Loaded = 0 /\ Loaded' = 1
        /\ Announcing' = Announcing /\ Storing' = Storing /\ Storing \in {0, 1} /\ Announcing \in {0, 1}
    BY <1>2, <1>3, <1>4 DEF Storing, Announcing, Loading, Loaded
  <2>2. /\ value[slots] + Storing + Len(content) + Loaded = size
        /\ value[messages] + Announcing + Loading = Len(content)
    BY DEF PipeInv, PlacesCounted
  <2>3. value[slots] \in Nat /\ value[messages] \in Nat
    BY CountFacts
  <2>4. value' = value /\ Len(content') = Len(content) - 1 /\ Len(content) \in Nat
    BY <1>2, <1>4, <1>5
  <2>5. value'[slots] + Storing' + Len(content') + Loaded' = size
    BY <2>1, <2>2, <2>3, <2>4
  <2>6. value'[messages] + Announcing' + Loading' = Len(content')
    BY <2>1, <2>2, <2>3, <2>4
  <2> QED BY <2>5, <2>6 DEF PlacesCounted
<1>9. LoadPlace = read_pos /\ LoadPlace' = Further(read_pos, 1) /\ read_pos \in Place
  BY <1>2, <1>3 DEF LoadPlace, PipeInv, PipeTypeOK
<1>10. StorePlace' = StorePlace
  BY <1>2, <1>3 DEF StorePlace
<1>11. StorePlace = Further(read_pos, Len(content))
  BY <1>9 DEF PipeInv, RingHolds
<1>12. Further(Further(read_pos, 1), Len(content) - 1) = Further(read_pos, Len(content))
  <2>1. Len(content) - 1 \in 0 .. size - 1 /\ (Len(content) - 1) + 1 = Len(content)
    BY <1>1, <1>4
  <2> QED BY <1>9, <2>1, FurtherByOne
<1>13. ASSUME NEW i \in 1 .. Len(content') PROVE content'[i] = data'[Further(LoadPlace', i - 1)]
  <2>1. /\ i \in 1 .. Len(content) - 1 /\ i + 1 \in 1 .. Len(content)
        /\ i - 1 \in 0 .. size - 1 /\ (i - 1) + 1 = i /\ (i + 1) - 1 = i
    BY <1>1, <1>4, <1>5
  <2>2. content[i + 1] = data[Further(read_pos, i)]
    BY <1>9, <2>1 DEF PipeInv, RingHolds
  <2>3. Further(Further(read_pos, 1), i - 1) = Further(read_pos, i)
    BY <1>9, <2>1, FurtherByOne
  <2> QED BY <1>2, <1>5, <1>9, <2>1, <2>2, <2>3
<1> QED BY <1>5, <1>6, <1>7, <1>8, <1>9, <1>10, <1>11, <1>12, <1>13 DEF PipeInv, RingHolds

LEMMA ReadAdvanceKeeps ==
  ASSUME OneAtEachEnd, PipeInv, ReadAdvance(theReader)
  PROVE  PipeInv'
<1>1. theWriter \in Client /\ theReader \in Client /\ theWriter # theReader /\ size \in Nat /\ size > 0
  BY TwoEnds
<1>2. /\ pc[theReader] = "advance" /\ data' = data /\ read_pos' = (read_pos + 1) % size
      /\ pc' = [pc EXCEPT ![theReader] = "signal"] /\ content' = content
      /\ write_pos' = write_pos /\ char' = char /\ value' = value /\ queue' = queue
  BY DEF ReadAdvance, At, Goto, semaphores
<1>3. DOMAIN pc' = Client /\ pc'[theReader] = "signal" /\ pc'[theWriter] = pc[theWriter]
  BY <1>1, <1>2 DEF PipeInv, PipeTypeOK
<1>4. read_pos' = Further(read_pos, 1) /\ read_pos' \in Place
  BY <1>1, <1>2, NextPlace, 1 \in 0 .. size, FurtherIsPlace DEF PipeInv, PipeTypeOK
<1>5. PipeTypeOK'
  BY <1>2, <1>3, <1>4 DEF PipeInv, PipeTypeOK, SemaphoreTypeOK
<1>6. EndsLined'
  BY <1>2, <1>3 DEF PipeInv, EndsLined, NoIdlePermit
<1>7. PlacesCounted'
  BY <1>2, <1>3 DEF PipeInv, PlacesCounted, Storing, Announcing, Loading, Loaded
<1>8. LoadPlace' = LoadPlace /\ StorePlace' = StorePlace
  BY <1>2, <1>3, <1>4 DEF LoadPlace, StorePlace
<1> QED BY <1>2, <1>5, <1>6, <1>7, <1>8 DEF PipeInv, RingHolds

LEMMA ReadSignalKeeps ==
  ASSUME OneAtEachEnd, PipeInv, ReadSignal(theReader)
  PROVE  PipeInv'
<1>1. /\ theWriter \in Client /\ theReader \in Client /\ theWriter # theReader
      /\ slots \in Semaphore /\ messages \in Semaphore /\ slots # messages
  BY TwoEnds
<1>2. /\ pc[theReader] = "signal" /\ data' = data /\ write_pos' = write_pos /\ Signal(slots)
      /\ pc' = [pc EXCEPT ![theReader] = "idle"] /\ content' = content
      /\ read_pos' = read_pos /\ char' = char
  BY DEF ReadSignal, At, Goto, ring
<1>3. DOMAIN pc' = Client /\ pc'[theReader] = "idle" /\ pc'[theWriter] = pc[theWriter]
  BY <1>1, <1>2 DEF PipeInv, PipeTypeOK
<1>4. /\ SemaphoreTypeOK' /\ NoIdlePermit'
      /\ value'[messages] = value[messages] /\ queue'[messages] = queue[messages]
      /\ queue'[slots] = <<>>
      /\ \/ queue[slots] # <<>> /\ value'[slots] = value[slots]
         \/ queue[slots] = <<>> /\ value'[slots] = value[slots] + 1
  BY <1>1, <1>2, EndSignals
<1>5. PipeTypeOK'
  BY <1>2, <1>3, <1>4 DEF PipeInv, PipeTypeOK
<1>6. EndsLined'
  BY <1>2, <1>3, <1>4, OneNode DEF PipeInv, EndsLined
<1>7. queue[slots] # <<>> => pc[theWriter] = "store"
  BY DEF PipeInv, EndsLined
<1>8. PlacesCounted'
  <2>1. /\ Loaded = 1 /\ Loaded' = 0 /\ Loading = 0 /\ Loading' = 0
        /\ Announcing' = Announcing /\ Announcing \in {0, 1}
    BY <1>2, <1>3 DEF Announcing, Loading, Loaded
  <2>2. queue[slots] # <<>> => Storing = 0 /\ Storing' = 1
    BY <1>3, <1>4, <1>7 DEF Storing
  <2>3. queue[slots] = <<>> => Storing' = Storing
    BY <1>3, <1>4 DEF Storing
  <2>4. Storing \in {0, 1} /\ Storing' \in {0, 1}
    BY DEF Storing
  <2>5. /\ value[slots] + Storing + Len(content) + Loaded = size
        /\ value[messages] + Announcing + Loading = Len(content)
    BY DEF PipeInv, PlacesCounted
  <2>6. /\ value[slots] \in Nat /\ value[messages] \in Nat /\ Len(content) \in Nat
        /\ value'[slots] \in Nat
    BY <1>1, <1>4, CountFacts DEF SemaphoreTypeOK
  <2>7. value'[slots] + Storing' = value[slots] + Storing + 1
    BY <1>4, <2>2, <2>3, <2>4, <2>6
  <2>8. value'[slots] + Storing' + Len(content') + Loaded' = size
    <3>1. value[slots] + Storing + Len(content) + 1 = size
      BY <2>1, <2>5
    <3>2. (value[slots] + Storing + 1) + Len(content) + 0 = size
      BY <2>4, <2>6, <3>1
    <3> QED BY <1>2, <2>1, <2>7, <3>2
  <2>9. value'[messages] + Announcing' + Loading' = Len(content')
    BY <1>2, <1>4, <2>1, <2>5, <2>6
  <2> QED BY <2>8, <2>9 DEF PlacesCounted
<1>9. RingHolds'
  BY <1>2, <1>3 DEF PipeInv, RingHolds, LoadPlace, StorePlace
<1> QED BY <1>5, <1>6, <1>8, <1>9 DEF PipeInv

-----------------------------------------------------------------------------
LEMMA StepPipe ==
  ASSUME OneAtEachEnd, PipeInv, [PipeNext]_pipeVars
  PROVE  PipeInv'
<1>1. ASSUME UNCHANGED pipeVars PROVE PipeInv'
  BY <1>1 DEF pipeVars, semaphores, ring, PipeInv, PipeTypeOK, SemaphoreTypeOK, EndsLined, NoIdlePermit,
              PlacesCounted, Storing, Announcing, Loading, Loaded, RingHolds, LoadPlace, StorePlace
<1>2. ASSUME WriterStep(theWriter) PROVE PipeInv'
  BY <1>2, WriteWaitKeeps, StoreKeeps, WriteAdvanceKeeps, WriteSignalKeeps DEF WriterStep
<1>3. ASSUME ReaderStep(theReader) PROVE PipeInv'
  BY <1>3, ReadWaitKeeps, LoadKeeps, ReadAdvanceKeeps, ReadSignalKeeps DEF ReaderStep
<1> QED BY <1>1, <1>2, <1>3, TwoEnds DEF PipeNext

\* Only a load leads the reader from one label to the other.
LEMMA StepDelivers ==
  ASSUME OneAtEachEnd, PipeInv, [PipeNext]_pipeVars, NEW t \in Reader, pc[t] = "load", pc'[t] = "advance"
  PROVE  content # <<>> /\ char'[t] = Head(content)
<1>1. t = theReader /\ theReader \in Client /\ theWriter # theReader
  BY TwoEnds
<1>2. pc'[theReader] # pc[theReader] /\ DOMAIN pc = Client
  BY <1>1 DEF PipeInv, PipeTypeOK
<1>3. ~ UNCHANGED pipeVars
  BY <1>2 DEF pipeVars
<1>4. ~ WriterStep(theWriter)
  BY <1>1, <1>2, TwoEnds DEF WriterStep, WriteWait, Store, WriteAdvance, WriteSignal, Goto
<1>5. Load(theReader) \/ ~ReaderStep(theReader)
  BY <1>1, <1>2 DEF ReaderStep, ReadWait, ReadAdvance, ReadSignal, At
<1>6. Load(theReader)
  BY <1>3, <1>4, <1>5, TwoEnds DEF PipeNext
<1> QED BY <1>1, <1>6, LoadTakesOldest

\* A read of a pipe with one writer and one reader returns the oldest character
\* written and not yet read, whatever its size and however the two interleave.
THEOREM PipeDeliversInOrder == OneAtEachEnd /\ PipeSpec => DeliversInOrder
<1> DEFINE Inv == OneAtEachEnd /\ PipeInv
<1>1. OneAtEachEnd /\ PipeInit => Inv
  BY InitPipe
<1>2. Inv /\ [PipeNext]_pipeVars => Inv'
  <2>1. OneAtEachEnd <=> OneAtEachEnd'
    BY DEF OneAtEachEnd, theWriter, theReader
  <2> QED BY <2>1, StepPipe
<1>3. Inv /\ [PipeNext]_pipeVars
        => [\A r \in Reader : pc[r] = "load" /\ pc'[r] = "advance"
                                => content # <<>> /\ char'[r] = Head(content)]_pipeVars
  BY StepDelivers
<1> QED BY <1>1, <1>2, <1>3, PTL DEF PipeSpec, DeliversInOrder

-----------------------------------------------------------------------------
(* The heap *)

\* The ends a block at b may have, among the headers of u
EndsIn(u, b) == {e \in DOMAIN u \cup {Size} : e > b}

\* The headers of u start at the heap's start and leave place for each other.
BlocksApart(u) ==
  /\ u \in [DOMAIN u -> BOOLEAN]
  /\ DOMAIN u \subseteq Nat /\ 0 \in DOMAIN u
  /\ \A b \in DOMAIN u : b < Size /\ \A e \in EndsIn(u, b) : b + H < e

\* What is held is what lies behind the used headers of u, and no more than
\* their blocks have room for.
BlocksHold(u, hl) ==
  /\ DOMAIN hl \subseteq Nat
  /\ \A a \in DOMAIN hl : /\ a - H \in DOMAIN u /\ u[a - H]
                          /\ hl[a] \in Nat \ {0}
                          /\ \A e \in EndsIn(u, a - H) : a + hl[a] <= e
  /\ \A h \in DOMAIN u : u[h] => h + H \in DOMAIN hl

\* The inductive invariant of the heap.
HeapInv == BlocksApart(used) /\ BlocksHold(used, held) /\ CountsBlocks

LEMMA MinFacts ==
  ASSUME NEW S \in SUBSET Nat, S # {}
  PROVE  Min(S) \in S /\ \A y \in S : Min(S) <= y
<1> DEFINE least(x) == \A y \in S : x <= y
<1>1. \E x \in S : least(x)
  BY LeastElement
<1>2. Min(S) = CHOOSE x \in S : least(x)
  BY DEF Min
<1> HIDE DEF least
<1>3. Min(S) \in S /\ least(Min(S))
  BY <1>1, <1>2
<1> QED BY <1>3 DEF least

LEMMA GreatestElement ==
  ASSUME NEW n \in Nat, NEW S \in SUBSET (0 .. n), S # {}
  PROVE  \E x \in S : \A y \in S : y <= x
<1> DEFINE R == {n - x : x \in S}
<1>1. R \in SUBSET Nat /\ R # {}
  <2>1. \A x \in S : n - x \in Nat
    OBVIOUS
  <2> QED BY <2>1
<1>2. PICK p \in R : \A q \in R : p <= q
  BY <1>1, LeastElement
<1>3. PICK x \in S : p = n - x
  OBVIOUS
<1>4. \A y \in S : n - x <= n - y
  BY <1>2, <1>3
<1>5. \A y \in S : y <= x
  BY <1>4
<1> QED BY <1>5

LEMMA FiniteBlocks ==
  ASSUME NEW u, BlocksApart(u)
  PROVE  IsFiniteSet(DOMAIN u)
<1>1. DOMAIN u \in SUBSET (0 .. Size)
  BY HeapAssumption DEF BlocksApart
<1>2. IsFiniteSet(0 .. Size)
  BY HeapAssumption, FS_Interval
<1> QED BY <1>1, <1>2, FS_Subset

\* The counting of the merges and splits arrives at the number of blocks.
LEMMA Recounted ==
  ASSUME HeapInv, NEW u, BlocksApart(u)
  PROVE  Recount(u) = Cardinality(DOMAIN u)
<1> DEFINE N == DOMAIN u
<1>1. IsFiniteSet(Header) /\ IsFiniteSet(N)
  BY FiniteBlocks DEF HeapInv, Header
<1>2. /\ Cardinality(N \ Header) = Cardinality(N) - Cardinality(N \cap Header)
      /\ Cardinality(Header \ N) = Cardinality(Header) - Cardinality(Header \cap N)
  BY <1>1, FS_Difference
<1>3. IsFiniteSet(N \cap Header) /\ N \cap Header = Header \cap N
  BY <1>1, FS_Subset
<1>4. /\ Cardinality(N) \in Nat /\ Cardinality(Header) \in Nat
      /\ Cardinality(N \cap Header) \in Nat
  BY <1>1, <1>3, FS_CardinalityType
<1>5. current_blocks = Cardinality(Header)
  BY DEF HeapInv, CountsBlocks
<1>6. Recount(u) = Cardinality(Header) + Cardinality(N \ Header) - Cardinality(Header \ N)
  BY <1>5 DEF Recount
<1> HIDE DEF N
<1>7. ASSUME NEW k \in Nat, NEW m \in Nat, NEW j \in Nat
      PROVE  m + (k - j) - (m - j) = k
  OBVIOUS
<1>8. Recount(u) = Cardinality(N)
  <2>1. Recount(u) = Cardinality(Header)
                     + (Cardinality(N) - Cardinality(N \cap Header))
                     - (Cardinality(Header) - Cardinality(N \cap Header))
    BY <1>2, <1>3, <1>6, Zenon
  <2> QED BY <1>4, <1>7, <2>1
<1> QED BY <1>8 DEF N

\* Merging unused blocks away disturbs nobody.
LEMMA UnusedMerged ==
  ASSUME NEW u, NEW hl, BlocksApart(u), BlocksHold(u, hl),
         NEW D \in SUBSET DOMAIN u, 0 \in D, \A h \in DOMAIN u : u[h] => h \in D
  PROVE  LET v == [h \in D |-> u[h]]
         IN  BlocksApart(v) /\ BlocksHold(v, hl)
<1> DEFINE v == [h \in D |-> u[h]]
<1>1. \A b : EndsIn(v, b) \subseteq EndsIn(u, b)
  <2>1. DOMAIN v \subseteq DOMAIN u
    OBVIOUS
  <2> QED BY <2>1 DEF EndsIn
<1>2. BlocksApart(v)
  BY <1>1 DEF BlocksApart
<1>3. BlocksHold(v, hl)
  BY <1>1 DEF BlocksHold
<1> QED BY <1>2, <1>3

\* The merging search stops at the first block of each run, the first block of
\* all included.
LEMMA SearchKeeps ==
  ASSUME BlocksApart(used), NEW n \in Nat \ {0}
  PROVE  0 \in Searched(n)
<1>1. 0 \in Header /\ used[0] \in BOOLEAN /\ 0 < n
  BY DEF BlocksApart, Header
<1>2. \A h \in Header : End(h) # 0
  <2> TAKE h \in Header
  <2>1. Ends(h) \in SUBSET Nat /\ Size \in Ends(h) /\ h \in Nat
    BY HeapAssumption DEF Ends, Header, BlocksApart
  <2>2. End(h) \in Ends(h)
    BY <2>1, MinFacts DEF End
  <2> QED BY <2>1, <2>2 DEF Ends
<1> QED BY <1>1, <1>2 DEF Searched, RunStarts

LEMMA DefragKeeps ==
  ASSUME HeapInv
  PROVE  LET v == Restrict(used, Searched(Size))
         IN  BlocksApart(v) /\ BlocksHold(v, held)
<1>1. Size \in Nat \ {0}
  BY HeapAssumption
<1>2. 0 \in Searched(Size) /\ Searched(Size) \in SUBSET DOMAIN used
  BY <1>1, SearchKeeps DEF HeapInv, Searched, Header
<1>3. \A h \in DOMAIN used : used[h] => h \in Searched(Size)
  BY DEF HeapInv, BlocksApart, Searched, Header
<1>4. BlocksApart(used) /\ BlocksHold(used, held)
  BY DEF HeapInv
<1> QED BY <1>2, <1>3, <1>4, UnusedMerged DEF Restrict

\* heap_alloc takes an unused block and the unused ones behind it.
LEMMA AllottedKeeps ==
  ASSUME HeapInv, NEW r \in Requests, Fitting(r) # {}
  PROVE  LET a == Min(Fitting(r)) + H
         IN  /\ a \notin DOMAIN held
             /\ BlocksApart(Allotted(r))
             /\ BlocksHold(Allotted(r), Taken(held, a, r))
<1> DEFINE b == Min(Fitting(r))
           e == FitEnd(b, r)
           c == b + H + r
           kept == Searched(b + 1) \cup {h \in Header : h >= e}
           new  == IF Split(b, r, e) THEN {c} ELSE {}
           v == Allotted(r)
           hl == Taken(held, b + H, r)
<1>1. BlocksApart(used) /\ BlocksHold(used, held) /\ Header = DOMAIN used
  BY DEF HeapInv, Header
<1>2. H \in Nat \ {0} /\ Size \in Nat /\ r \in Nat \ {0}
  BY HeapAssumption
<1>3. b \in Fitting(r)
  <2>1. Fitting(r) \in SUBSET Nat
    BY <1>1 DEF Fitting, RunStarts, BlocksApart
  <2> QED BY <2>1, MinFacts
<1> HIDE DEF b
<1>4. b \in Nat /\ b \in Header /\ ~used[b] /\ b \in RunStarts
  BY <1>1, <1>3 DEF Fitting, RunStarts, BlocksApart
<1>5. e \in Reach(b) /\ Room(b, e) >= r
  <2> DEFINE S == {x \in Reach(b) : Room(b, x) >= r}
  <2>1. S # {}
    BY <1>3 DEF Fitting
  <2>2. S \in SUBSET Nat
    BY <1>1, <1>2 DEF Reach, Ends, BlocksApart
  <2>3. Min(S) \in S
    BY <2>1, <2>2, MinFacts
  <2> QED BY <2>3 DEF FitEnd
<1> HIDE DEF e
<1>6. /\ e \in Nat /\ e \in EndsIn(used, b) /\ e - b - H >= r
      /\ \A h \in Header : b < h /\ h < e => ~used[h]
  BY <1>1, <1>2, <1>5 DEF Reach, Ends, EndsIn, Room, BlocksApart
<1>7. v = [h \in kept \cup new |-> IF h = b THEN TRUE
                                    ELSE IF h \in new THEN FALSE ELSE used[h]]
  BY DEF Allotted, b, e
<1>8. /\ kept \subseteq Header /\ 0 \in kept /\ b \in kept
      /\ \A h \in Header : used[h] => h \in kept
      /\ \A h \in kept : h <= b \/ h >= e
  <2>1. 0 \in Searched(b + 1)
    BY <1>1, <1>4, SearchKeeps
  <2>2. \A h \in Header : h \in Nat
    BY <1>1 DEF BlocksApart
  <2> QED BY <1>1, <1>4, <1>6, <2>1, <2>2 DEF Searched
<1>9. c \in Nat /\ (new = {} \/ (new = {c} /\ c + H < e)) /\ c <= e
  BY <1>2, <1>4, <1>6 DEF Split, Room
<1> HIDE DEF kept, new, c, v
<1>10. DOMAIN v = kept \cup new
  BY <1>7
<1>11. \A h \in Header : h \in Nat /\ h < Size
  BY <1>1 DEF BlocksApart
<1>12. \A h \in Header : \A x \in Header \cup {Size} : x > h => h + H < x
  BY <1>1 DEF BlocksApart, EndsIn
<1>13. c = b + H + r /\ e <= Size
  BY <1>2, <1>6, <1>11 DEF c, EndsIn, Header
<1>14. BlocksApart(v)
  <2>1. v \in [DOMAIN v -> BOOLEAN]
    <3>1. \A h \in kept : used[h] \in BOOLEAN
      BY <1>1, <1>8 DEF BlocksApart
    <3> QED BY <1>7, <1>8, <3>1
  <2>2. DOMAIN v \subseteq Nat /\ 0 \in DOMAIN v
    BY <1>8, <1>9, <1>10, <1>11
  <2>3. ASSUME NEW h \in DOMAIN v
        PROVE  h < Size
    <3>1. CASE h \in kept
      BY <1>8, <1>11, <3>1
    <3>2. CASE h \in new
      BY <1>2, <1>6, <1>9, <1>13, <3>2
    <3> QED BY <1>10, <2>3, <3>1, <3>2
  <2>4. ASSUME NEW h \in DOMAIN v, NEW x \in DOMAIN v \cup {Size}, x > h
        PROVE  h + H < x
    <3>1. CASE h \in kept /\ x \in kept \cup {Size}
      BY <1>8, <1>12, <2>4, <3>1
    <3>2. CASE h \in kept /\ x \in new
      <4>1. x = c /\ h \in Nat /\ (h <= b \/ h >= e)
        BY <1>8, <1>9, <1>11, <3>2
      <4> QED BY <1>2, <1>4, <1>6, <1>9, <1>13, <2>4, <4>1
    <3>3. CASE h \in new /\ x \in kept \cup {Size}
      <4>1. h = c /\ c + H < e /\ x \in Nat /\ (x <= b \/ x >= e)
        BY <1>2, <1>8, <1>9, <1>11, <1>13, <3>3
      <4> QED BY <1>2, <1>4, <1>6, <1>9, <1>13, <2>4, <4>1
    <3>4. CASE h \in new /\ x \in new
      BY <1>9, <2>4, <3>4
    <3> QED BY <1>10, <3>1, <3>2, <3>3, <3>4
  <2> QED BY <2>1, <2>2, <2>3, <2>4 DEF BlocksApart, EndsIn
<1>15. b + H \notin DOMAIN held
  <2>1. ASSUME b + H \in DOMAIN held PROVE FALSE
    <3>1. PICK a \in DOMAIN held : a = b + H
      BY <2>1
    <3>2. a - H = b
      BY <1>2, <1>4, <3>1
    <3>3. used[a - H]
      BY <1>1 DEF BlocksHold
    <3> QED BY <1>4, <3>2, <3>3
  <2> QED BY <2>1
<1>16. BlocksHold(v, hl)
  <2>1. DOMAIN hl = DOMAIN held \cup {b + H}
    BY DEF Taken
  <2>2. DOMAIN hl \subseteq Nat
    BY <1>1, <1>2, <1>4, <2>1 DEF BlocksHold
  <2>3. hl[b + H] = r /\ \A a \in DOMAIN held : hl[a] = held[a]
    BY <1>15 DEF Taken
  <2> HIDE DEF hl
  <2>4. ASSUME NEW a \in DOMAIN held
        PROVE  /\ a - H \in DOMAIN v /\ v[a - H] /\ hl[a] \in Nat \ {0}
               /\ \A x \in EndsIn(v, a - H) : a + hl[a] <= x
    <3>1. /\ a \in Nat /\ a - H \in Header /\ used[a - H] /\ held[a] \in Nat \ {0}
          /\ \A x \in EndsIn(used, a - H) : a + held[a] <= x
      BY <1>1 DEF BlocksHold
    <3>2. a - H \in kept /\ a - H # b /\ a - H \notin new
      <4>1. a - H \in kept /\ a - H # b
        BY <1>4, <1>8, <3>1
      <4>2. a - H <= b \/ a - H >= e
        BY <1>8, <4>1
      <4>3. ASSUME new = {c}, c + H < e PROVE a - H # c
        BY <1>2, <1>4, <1>6, <1>9, <1>13, <4>2, <4>3
      <4> QED BY <1>9, <4>1, <4>3
    <3>3. a - H \in DOMAIN v /\ v[a - H]
      BY <1>7, <1>10, <3>1, <3>2
    <3>4. ASSUME NEW x \in EndsIn(v, a - H)
          PROVE  a + held[a] <= x
      <4>1. x > a - H /\ x \in kept \cup new \cup {Size}
        BY <1>10 DEF EndsIn
      <4>2. CASE x \in kept \cup {Size}
        BY <1>1, <1>8, <3>1, <4>1, <4>2 DEF EndsIn
      <4>3. CASE x \in new
        <5>1. x = c /\ (a - H <= b \/ a - H >= e)
          BY <1>8, <1>9, <3>2, <4>3
        <5>2. a - H < b
          BY <1>2, <1>4, <1>6, <1>9, <3>1, <3>2, <4>1, <5>1
        <5>3. a + held[a] <= b
          BY <1>1, <1>4, <3>1, <5>2 DEF EndsIn
        <5> QED BY <1>2, <1>4, <1>13, <3>1, <5>1, <5>3
      <4> QED BY <4>1, <4>2, <4>3
    <3> QED BY <2>3, <3>1, <3>3, <3>4
  <2>5. /\ b + H - H = b /\ b \in DOMAIN v /\ v[b] /\ hl[b + H] \in Nat \ {0}
    BY <1>2, <1>4, <1>7, <1>8, <1>10, <2>3
  <2>6. ASSUME NEW x \in EndsIn(v, b)
        PROVE  b + H + hl[b + H] <= x
    <3>1. x > b /\ x \in kept \cup new \cup {Size}
      BY <1>10 DEF EndsIn
    <3>2. CASE x \in kept
      <4>1. x >= e /\ x \in Nat
        BY <1>4, <1>8, <1>11, <3>1, <3>2
      <4> QED BY <1>2, <1>4, <1>6, <2>3, <4>1
    <3>3. CASE x \in new
      BY <1>2, <1>4, <1>9, <1>13, <2>3, <3>3
    <3>4. CASE x = Size
      BY <1>2, <1>4, <1>6, <1>13, <2>3, <3>4
    <3> QED BY <3>1, <3>2, <3>3, <3>4
  <2>7. ASSUME NEW h \in DOMAIN v, v[h]
        PROVE  h + H \in DOMAIN hl
    <3>1. CASE h = b
      BY <2>1, <3>1
    <3>2. CASE h # b
      <4>1. h \in kept /\ used[h]
        BY <1>7, <1>10, <2>7, <3>2
      <4> QED BY <1>1, <1>8, <2>1, <4>1 DEF BlocksHold
    <3> QED BY <3>1, <3>2
  <2>8. ASSUME NEW a \in DOMAIN hl
        PROVE  /\ a - H \in DOMAIN v /\ v[a - H] /\ hl[a] \in Nat \ {0}
               /\ \A x \in EndsIn(v, a - H) : a + hl[a] <= x
    <3>1. CASE a = b + H
      <4>1. a - H = b
        BY <1>2, <1>4, <3>1
      <4> QED BY <2>5, <2>6, <3>1, <4>1
    <3>2. CASE a \in DOMAIN held
      BY <2>4, <3>2
    <3> QED BY <2>1, <3>1, <3>2
  <2> QED BY <2>2, <2>7, <2>8 DEF BlocksHold
<1> QED BY <1>14, <1>15, <1>16 DEF v, b

\* heap_free merges at most the one unused block behind the freed one.
LEMMA FreeKeeps ==
  ASSUME NEW u, NEW hl, BlocksApart(u), BlocksHold(u, hl), NEW a \in DOMAIN hl
  PROVE  LET v == AfterFree(u, a - H)
         IN  BlocksApart(v) /\ BlocksHold(v, Restrict(hl, DOMAIN hl \ {a}))
<1> DEFINE b == a - H
           D == DOMAIN u \ {h \in Following(u, b) : ~u[h]}
           v == AfterFree(u, b)
           rest == Restrict(hl, DOMAIN hl \ {a})
<1>1. v = [h \in D |-> h # b /\ u[h]]
  BY DEF AfterFree
<1>2. /\ H \in Nat \ {0} /\ Size \in Nat
      /\ a \in Nat /\ b \in DOMAIN u /\ b \in Nat
  BY HeapAssumption DEF BlocksHold, BlocksApart
<1>3. /\ D \subseteq DOMAIN u
      /\ 0 \in D
      /\ \A h \in DOMAIN u : u[h] => h \in D
  BY <1>2 DEF Following, BlocksApart
<1>4. DOMAIN v = D /\ \A h \in D : v[h] = (h # b /\ u[h])
  BY <1>1
<1>5. DOMAIN rest = DOMAIN hl \ {a} /\ \A x \in DOMAIN rest : rest[x] = hl[x]
  BY DEF Restrict
<1>6. v \in [DOMAIN v -> BOOLEAN]
  BY <1>1
<1> HIDE DEF v, D, rest
<1>7. \A h : EndsIn(v, h) \subseteq EndsIn(u, h)
  BY <1>3, <1>4 DEF EndsIn
<1>8. BlocksApart(v)
  BY <1>3, <1>4, <1>6, <1>7 DEF BlocksApart
<1>9. ASSUME NEW x \in DOMAIN rest
      PROVE  /\ x - H \in DOMAIN v /\ v[x - H] /\ rest[x] \in Nat \ {0}
             /\ \A e \in EndsIn(v, x - H) : x + rest[x] <= e
  <2>1. /\ x \in Nat /\ x - H \in DOMAIN u /\ u[x - H] /\ hl[x] \in Nat \ {0}
        /\ \A e \in EndsIn(u, x - H) : x + hl[x] <= e
    BY <1>5 DEF BlocksHold
  <2>2. x # a
    BY <1>5
  <2>3. x - H # b
    BY <1>2, <2>1, <2>2
  <2> QED BY <1>3, <1>4, <1>5, <1>7, <2>1, <2>3
<1>10. ASSUME NEW h \in DOMAIN v, v[h]
       PROVE  h + H \in DOMAIN rest
  <2>1. h \in DOMAIN u /\ h # b /\ u[h] /\ h \in Nat
    BY <1>3, <1>4, <1>10 DEF BlocksApart
  <2>2. h + H # a
    BY <1>2, <2>1
  <2> QED BY <1>5, <2>1, <2>2 DEF BlocksHold
<1>11. BlocksHold(v, rest)
  BY <1>5, <1>9, <1>10 DEF BlocksHold
<1> QED BY <1>8, <1>11 DEF v, rest

LEMMA HeapStarts == HeapInit => HeapInv
<1> SUFFICES ASSUME HeapInit PROVE HeapInv
  OBVIOUS
<1>1. /\ DOMAIN used = {0} /\ used = [h \in {0} |-> FALSE]
      /\ DOMAIN held = {} /\ current_blocks = 1
  BY DEF HeapInit
<1>2. BlocksApart(used)
  BY <1>1, HeapAssumption DEF BlocksApart, EndsIn
<1>3. BlocksHold(used, held)
  BY <1>1 DEF BlocksHold
<1>4. CountsBlocks
  BY <1>1, FS_Singleton DEF CountsBlocks, Header
<1> QED BY <1>2, <1>3, <1>4 DEF HeapInv

\* What every operation that changes the list of blocks has to show
LEMMA InvBecomes ==
  ASSUME HeapInv, NEW u, HeapBecomes(u), BlocksApart(u), BlocksHold(u, held')
  PROVE  HeapInv'
<1>1. used' = u /\ current_blocks' = Cardinality(DOMAIN u)
  BY Recounted DEF HeapBecomes
<1> QED BY <1>1 DEF HeapInv, BlocksApart, BlocksHold, EndsIn, CountsBlocks, Header

\* A search that fails has merged every run, as heap_defrag does.
LEMMA FailedSearch ==
  ASSUME HeapInv, NEW r \in Requests, Fitting(r) = {},
         HeapBecomes(AfterAlloc(r)), UNCHANGED held
  PROVE  HeapInv'
<1>1. AfterAlloc(r) = Restrict(used, Searched(Size))
  BY DEF AfterAlloc
<1> QED BY <1>1, DefragKeeps, InvBecomes

LEMMA MallocKeeps ==
  ASSUME HeapInv, NEW r \in Requests, Malloc(r)
  PROVE  HeapInv'
<1>1. CASE Fitting(r) = {}
  BY <1>1, FailedSearch DEF Malloc
<1>2. CASE Fitting(r) # {}
  <2>1. HeapBecomes(Allotted(r)) /\ held' = Taken(held, Min(Fitting(r)) + H, r)
    BY <1>2 DEF Malloc, AfterAlloc
  <2> QED BY <1>2, <2>1, AllottedKeeps, InvBecomes
<1> QED BY <1>1, <1>2

LEMMA FreeKeepsInv ==
  ASSUME HeapInv, NEW a \in DOMAIN held, Free(a)
  PROVE  HeapInv'
<1>1. BlocksApart(used) /\ BlocksHold(used, held)
  BY DEF HeapInv
<1> QED BY <1>1, FreeKeeps, InvBecomes DEF Free

\* The new block is taken before the old one is freed.
LEMMA ReallocKeeps ==
  ASSUME HeapInv, NEW a \in DOMAIN held, NEW r \in Requests, Realloc(a, r)
  PROVE  HeapInv'
<1>1. CASE Fitting(r) = {}
  BY <1>1, FailedSearch DEF Realloc
<1>2. CASE Fitting(r) # {}
  <2> DEFINE new == Min(Fitting(r)) + H
             both == Taken(held, new, r)
  <2>1. /\ HeapBecomes(AfterFree(Allotted(r), a - H))
        /\ held' = Taken(Restrict(held, DOMAIN held \ {a}), new, r)
    BY <1>2 DEF Realloc
  <2>2. new \notin DOMAIN held /\ BlocksApart(Allotted(r)) /\ BlocksHold(Allotted(r), both)
    BY <1>2, AllottedKeeps
  <2> HIDE DEF new
  <2>3. a \in DOMAIN both /\ a # new
    BY <2>2 DEF Taken
  <2>4. held' = Restrict(both, DOMAIN both \ {a})
    BY <2>1, <2>2, <2>3 DEF Taken, Restrict
  <2> HIDE DEF both
  <2>5. LET v == AfterFree(Allotted(r), a - H)
        IN  BlocksApart(v) /\ BlocksHold(v, Restrict(both, DOMAIN both \ {a}))
    BY <2>2, <2>3, FreeKeeps
  <2> QED BY <2>1, <2>4, <2>5, InvBecomes
<1> QED BY <1>1, <1>2

LEMMA ReallocSameKeeps ==
  ASSUME HeapInv, NEW a \in DOMAIN held, NEW r \in Requests, ReallocSame(a, r)
  PROVE  HeapInv'
<1>1. BlocksApart(used) /\ BlocksHold(used, held) /\ CountsBlocks
  BY DEF HeapInv
<1>2. H \in Nat \ {0} /\ Size \in Nat /\ r \in Nat \ {0} /\ a \in Nat /\ a - H \in Header
  BY <1>1, HeapAssumption DEF BlocksHold, Header
<1>3. Ends(a - H) = EndsIn(used, a - H) /\ Ends(a - H) \in SUBSET Nat /\ Size \in Ends(a - H)
  BY <1>1, <1>2 DEF Ends, EndsIn, Header, BlocksApart
<1>4. End(a - H) \in Nat /\ \A e \in EndsIn(used, a - H) : End(a - H) <= e
  BY <1>3, MinFacts DEF End
<1>5. a + r = End(a - H)
  BY <1>2, <1>4 DEF ReallocSame, Room
<1>6. used' = used /\ current_blocks' = current_blocks /\ held' = [held EXCEPT ![a] = r]
  BY DEF ReallocSame
<1>7. BlocksHold(used, held')
  BY <1>1, <1>2, <1>4, <1>5, <1>6 DEF BlocksHold
<1> QED BY <1>1, <1>6, <1>7 DEF HeapInv, BlocksApart, BlocksHold, EndsIn, CountsBlocks, Header

LEMMA HeapStepKeeps == HeapInv /\ [HeapNext]_heapVars => HeapInv'
<1> SUFFICES ASSUME HeapInv, [HeapNext]_heapVars PROVE HeapInv'
  OBVIOUS
<1>1. CASE \E r \in Requests : Malloc(r)
  BY <1>1, MallocKeeps
<1>2. CASE \E a \in DOMAIN held : Free(a)
  BY <1>2, FreeKeepsInv
<1>3. CASE \E a \in DOMAIN held : \E r \in Requests : Realloc(a, r)
  BY <1>3, ReallocKeeps
<1>4. CASE \E a \in DOMAIN held : \E r \in Requests : ReallocSame(a, r)
  BY <1>4, ReallocSameKeeps
<1>5. CASE Defrag
  BY <1>5, DefragKeeps, InvBecomes DEF Defrag
<1>6. CASE UNCHANGED heapVars
  BY <1>6 DEF heapVars, HeapInv, BlocksApart, BlocksHold, EndsIn, CountsBlocks, Header
<1> QED BY <1>1, <1>2, <1>3, <1>4, <1>5, <1>6 DEF HeapNext

-----------------------------------------------------------------------------
(* What the invariant says to the callers *)

LEMMA HeldApart == HeapInv => AllocationsApart
<1> SUFFICES ASSUME HeapInv PROVE AllocationsApart
  OBVIOUS
<1>1. /\ BlocksApart(used) /\ BlocksHold(used, held) /\ Header = DOMAIN used
      /\ H \in Nat \ {0} /\ Size \in Nat
  BY HeapAssumption DEF HeapInv, Header
<1>2. ASSUME NEW a \in DOMAIN held
      PROVE  /\ a \in Nat /\ held[a] \in Nat /\ a - H \in Header /\ a - H \in Nat
             /\ a + held[a] <= Size
             /\ \A h \in Header : h > a - H => a + held[a] <= h
  BY <1>1 DEF BlocksApart, BlocksHold, EndsIn
<1>3. \A h \in Header : \A g \in Header : h \in Nat /\ g \in Nat /\ (h < g => h + H < g)
  BY <1>1 DEF BlocksApart, EndsIn
<1>4. ASSUME NEW a \in DOMAIN held
      PROVE  Bytes(a, held[a]) \subseteq 0 .. Size - 1
  BY <1>1, <1>2 DEF Bytes
<1>5. ASSUME NEW a \in DOMAIN held, NEW b \in DOMAIN held \ {a}
      PROVE  Bytes(a, held[a]) \cap Bytes(b, held[b]) = {}
  <2>1. a - H < b - H \/ b - H < a - H
    BY <1>1, <1>2
  <2>2. a + held[a] <= b - H \/ b + held[b] <= a - H
    BY <1>2, <2>1
  <2> QED BY <1>1, <1>2, <2>2 DEF Bytes
<1>6. ASSUME NEW a \in DOMAIN held, NEW h \in Header
      PROVE  Bytes(a, held[a]) \cap Bytes(h, H) = {}
  <2>1. h \in Nat /\ (h < a - H => h + H < a - H)
    BY <1>2, <1>3
  <2>2. h + H <= a \/ a + held[a] <= h
    BY <1>1, <1>2, <2>1
  <2> QED BY <1>1, <1>2, <2>1, <2>2 DEF Bytes
<1> QED BY <1>4, <1>5, <1>6 DEF AllocationsApart

LEMMA NoneLost == HeapInv => UsedBlocksAreHeld
<1> SUFFICES ASSUME HeapInv PROVE UsedBlocksAreHeld
  OBVIOUS
<1>1. BlocksApart(used) /\ BlocksHold(used, held) /\ Header = DOMAIN used /\ H \in Nat
  BY HeapAssumption DEF HeapInv, Header
<1>2. ASSUME NEW h \in Header, used[h]
      PROVE  \E a \in DOMAIN held : h = a - H
  <2>1. PICK a \in DOMAIN held : a = h + H
    BY <1>1, <1>2 DEF BlocksHold
  <2>2. h \in Nat
    BY <1>1 DEF BlocksApart
  <2> QED BY <1>1, <2>1, <2>2
<1>3. \A a \in DOMAIN held : a - H \in Header /\ used[a - H]
  BY <1>1 DEF BlocksHold
<1> QED BY <1>2, <1>3 DEF UsedBlocksAreHeld

\* Where a place lies outside the used blocks, the run of unused blocks around
\* it starts at a block the search stops at, and reaches far enough.
LEMMA PlaceFound ==
  ASSUME HeapInv, NEW r \in Requests, NEW x \in 0 .. Size - H - r,
         \A h \in Header : used[h] => (h .. End(h) - 1) \cap Bytes(x, H + r) = {}
  PROVE  Fitting(r) # {}
<1>1. /\ BlocksApart(used) /\ Header = DOMAIN used
      /\ H \in Nat \ {0} /\ Size \in Nat /\ r \in Nat \ {0}
  BY HeapAssumption DEF HeapInv, Header
<1>2. x \in Nat /\ x + H + r <= Size
  BY <1>1
<1>3. Header \in SUBSET Nat /\ 0 \in Header /\ \A h \in Header : h < Size /\ used[h] \in BOOLEAN
  BY <1>1 DEF BlocksApart
<1>4. ASSUME NEW h \in Header
      PROVE  /\ Size \in Ends(h) /\ Ends(h) \in SUBSET Nat
             /\ End(h) \in Ends(h) /\ \A y \in Ends(h) : End(h) <= y
  <2>1. Size \in Ends(h) /\ Ends(h) \in SUBSET Nat
    BY <1>1, <1>3 DEF Ends
  <2> QED BY <2>1, MinFacts DEF End
<1>5. PICK b0 \in Header : b0 <= x /\ \A h \in Header : h <= x => h <= b0
  <2> DEFINE S == {h \in Header : h <= x}
  <2>1. S \in SUBSET (0 .. x) /\ 0 \in S
    <3>1. \A h \in Header : h \in Nat
      BY <1>3
    <3>2. 0 \in S
      BY <1>2, <1>3
    <3>3. \A y \in S : y \in 0 .. x
      BY <1>2, <3>1
    <3> QED BY <3>2, <3>3
  <2> HIDE DEF S
  <2>2. \E y \in S : \A z \in S : z <= y
    BY <1>2, <2>1, GreatestElement
  <2> QED BY <2>2 DEF S
<1>6. ~used[b0]
  <2>1. End(b0) > x
    BY <1>1, <1>2, <1>3, <1>4, <1>5 DEF Ends
  <2>2. x \in b0 .. End(b0) - 1 /\ x \in Bytes(x, H + r)
    BY <1>1, <1>2, <1>3, <1>4, <1>5, <2>1 DEF Bytes
  <2> QED BY <2>2
<1> DEFINE R == {b \in Header : b <= b0 /\ \A h \in Header : b <= h /\ h <= b0 => ~used[h]}
<1>7. PICK b \in R : \A y \in R : b <= y
  <2>1. b0 \in R
    BY <1>3, <1>6
  <2>2. R \in SUBSET Nat
    BY <1>3
  <2> QED BY <2>1, <2>2, LeastElement
<1>8. b \in Header /\ b \in Nat /\ b <= b0 /\ \A h \in Header : b <= h /\ h <= b0 => ~used[h]
  BY <1>3, <1>7
<1>9. b \in RunStarts
  <2>1. ~used[b]
    BY <1>3, <1>8
  <2>2. ASSUME NEW h \in Header, End(h) = b, ~used[h]
        PROVE  FALSE
    <3>1. h < b /\ \A g \in Header : g > h => b <= g
      BY <1>3, <1>4, <2>2 DEF Ends
    <3>2. \A g \in Header : h <= g /\ g <= b0 => ~used[g]
      <4> TAKE g \in Header
      <4>1. h \in Nat /\ g \in Nat
        BY <1>3
      <4> QED BY <1>8, <2>2, <3>1, <4>1
    <3>3. h \in R
      BY <1>3, <1>8, <3>1, <3>2
    <3> QED BY <1>3, <1>7, <1>8, <3>1, <3>3
  <2> QED BY <1>8, <2>1, <2>2 DEF RunStarts
<1> HIDE DEF R
<1>10. PICK e \in Ends(b) : e >= x + H + r
                            /\ \A y \in Ends(b) : y >= x + H + r => e <= y
  <2> DEFINE S == {y \in Ends(b) : y >= x + H + r}
  <2>1. Size \in S /\ S \in SUBSET Nat
    BY <1>2, <1>4, <1>8
  <2> HIDE DEF S
  <2>2. \E y \in S : \A z \in S : y <= z
    BY <2>1, LeastElement
  <2> QED BY <2>2 DEF S
<1>11. e \in Nat /\ e \in Header \cup {Size}
  BY <1>4, <1>8, <1>10 DEF Ends
<1>12. ASSUME NEW h \in Header, b < h, h < e
       PROVE  ~used[h]
  <2>1. h \in Nat
    BY <1>3
  <2>2. CASE h <= b0
    BY <1>8, <1>12, <2>1, <2>2
  <2>3. CASE h > b0
    <3>1. h > x
      BY <1>2, <1>3, <1>5, <2>1, <2>3
    <3>2. h < x + H + r
      BY <1>1, <1>2, <1>10, <1>11, <1>12, <2>1 DEF Ends
    <3>3. End(h) \in Nat /\ End(h) > h
      BY <1>4 DEF Ends
    <3>4. h \in h .. End(h) - 1 /\ h \in Bytes(x, H + r)
      BY <1>1, <1>2, <2>1, <3>1, <3>2, <3>3 DEF Bytes
    <3> QED BY <3>4
  <2> QED BY <1>3, <2>1, <2>2, <2>3
<1>13. e \in Reach(b) /\ Room(b, e) >= r
  <2>1. e \in Reach(b)
    BY <1>10, <1>12 DEF Reach
  <2>2. b <= x
    BY <1>2, <1>3, <1>5, <1>8
  <2> QED BY <1>1, <1>2, <1>8, <1>10, <1>11, <2>1, <2>2 DEF Room
<1> QED BY <1>9, <1>13 DEF Fitting

\* HeapInv is inductive for HeapSpec.
THEOREM HeapInvariance == HeapSpec => []HeapInv
<1> QED BY HeapStarts, HeapStepKeeps, PTL DEF HeapSpec

\* For a heap and a header of any size, and requests of any sizes: what the
\* callers hold never overlaps, no block is lost to its owner, the blocks are
\* counted right, and no place is missed (mmngr_heap.cpp).
THEOREM HeapAlwaysSound == HeapSpec => []HeapSound
<1>1. HeapInv => FindsEveryPlace
  BY PlaceFound DEF FindsEveryPlace
<1>2. HeapInv => HeapSound
  BY <1>1, HeldApart, NoneLost DEF HeapInv, HeapSound
<1> QED BY <1>2, HeapInvariance, PTL

-----------------------------------------------------------------------------
(* Processes *)

\* Every directory gives the same page for a buffer, since all of them have the
\* table of the page cache; a page is given to one buffer, and blocks in use
\* are not given again.
MemoryInv ==
  /\ 0 \in blocks.bitmap /\ blocks.bitmap \subseteq Nat
  /\ DOMAIN dirs \subseteq blocks.bitmap \ {0} /\ DOMAIN tables \subseteq blocks.bitmap
  /\ 1 \in DOMAIN dirs /\ cr3 \in DOMAIN dirs /\ 2 \in DOMAIN tables
  /\ \A d \in DOMAIN dirs : dirs[d][CacheTable] = 2
  /\ DOMAIN tables[2] = StackBuffer
  /\ \A b \in StackBuffer : tables[2][b] # 0 => tables[2][b] \in blocks.bitmap \cap Block
  /\ \A b, x \in StackBuffer : tables[2][b] = tables[2][x] /\ tables[2][b] # 0 => b = x
  /\ \A b \in alloced : tables[2][b] # 0
  /\ alloced \subseteq StackBuffer
  /\ DOMAIN holds = Block

CreationStep ==
  {Idle}
    \cup [at : {"mark", "insert", "tail"}, proc : Nat, stack : Nat]
    \cup [at : {"switch", "write", "restore"}, proc : Nat, stack : Nat, tcb : Nat, old_dir : Nat]

Pcb == [page_dir : Nat, threads : Seq(Nat)]

ProcessesTyped ==
  /\ procs \in Seq(Pcb) /\ Len(procs) > 0
  /\ Directory(1) = 1
  /\ \A p \in DOMAIN procs : Directory(p) # 0 => Directory(p) \in DOMAIN dirs
  /\ doing \in [Creator -> CreationStep]
  /\ running \in Creator

\* The last thread of process p is still being created.
Unwritten(p, t) ==
  \E c \in Creator : /\ doing[c].at \in {"tail", "switch", "write"}
                     /\ doing[c].proc = p /\ t = Len(procs[p].threads)

\* Thread t of process p has a stack.
HasStack(p, t) ==
  /\ p \in DOMAIN procs /\ t \in DOMAIN procs[p].threads
  /\ \A c \in Creator : doing[c].at = "tail" => doing[c].proc # p \/ t # Len(procs[p].threads)

\* One creator at most is busy, with a buffer that nobody else has.
CreationInv ==
  \A c \in Creator : doing[c] # Idle =>
    /\ \A d \in Creator : doing[d] # Idle => d = c
    /\ doing[c].proc \in DOMAIN procs
    /\ doing[c].stack \in StackBuffer
    /\ doing[c].at = "mark" => doing[c].stack \notin alloced
    /\ doing[c].at # "mark" => doing[c].stack \in alloced
    /\ doing[c].at \in {"mark", "insert", "tail"} =>
         \A p, t : HasStack(p, t) => procs[p].threads[t] # doing[c].stack
    /\ doing[c].at = "tail" => procs[doing[c].proc].threads # <<>>
    /\ doing[c].at \in {"switch", "write", "restore"} =>
         /\ doing[c].old_dir \in DOMAIN dirs
         /\ doing[c].tcb = Len(procs[doing[c].proc].threads)
         /\ doing[c].tcb \in DOMAIN procs[doing[c].proc].threads
         /\ procs[doing[c].proc].threads[doing[c].tcb] = doing[c].stack

\* The stacks of threads are marked and no two threads have the same.
StacksApart ==
  /\ \A p, t : HasStack(p, t) => procs[p].threads[t] \in alloced
  /\ \A p, t, q, u : HasStack(p, t) /\ HasStack(q, u) /\ procs[p].threads[t] = procs[q].threads[u]
                       => p = q /\ t = u

\* Every stack that has been written still holds what was written for its thread.
StacksKept ==
  \A p, t : HasStack(p, t) /\ ~Unwritten(p, t) => holds[tables[2][procs[p].threads[t]]] = <<p, t>>

CreationsInv == MemoryInv /\ ProcessesTyped /\ CreationInv /\ StacksApart /\ StacksKept

ProcessesInv == ~overlapped => CreationsInv

-----------------------------------------------------------------------------
LEMMA WholeWords ==
  (MaxBlocks \div Word) * Word \in Nat /\ (MaxBlocks \div Word) * Word <= MaxBlocks
  BY PhysicalMemoryAssumption

\* The block that is given is one that is free.
LEMMA NextIsFree ==
  ASSUME NEW m, NextBlock(m) # 0
  PROVE  NextBlock(m) \in Block \ m.bitmap
<1> DEFINE free == (0 .. (MaxBlocks \div Word) * Word - 1) \ m.bitmap
<1>1. NextBlock(m) = FirstFree(m) /\ FirstFree(m) # 0
  BY DEF NextBlock
<1>2. free # {} /\ FirstFree(m) = CHOOSE b \in free : \A c \in free : b <= c
  BY <1>1 DEF FirstFree
<1>3. free \in SUBSET Nat
  OBVIOUS
<1>4. FirstFree(m) \in free
  BY <1>2, <1>3, LeastNat
<1>5. MaxBlocks \in Nat /\ \A b \in free : b \in 0 .. MaxBlocks - 1
  BY WholeWords, PhysicalMemoryAssumption
<1> QED BY <1>1, <1>4, <1>5 DEF Block

LEMMA AllocatedAdds ==
  ASSUME NEW m
  PROVE  Allocated(m).bitmap = IF NextBlock(m) = 0 THEN m.bitmap ELSE m.bitmap \cup {NextBlock(m)}
  BY DEF Allocated

LEMMA FirstBufferFree == FreeStacks # {} => FirstFreeBuffer \in StackBuffer \ alloced
<1> SUFFICES ASSUME FreeStacks # {} PROVE FirstFreeBuffer \in FreeStacks
  BY DEF FreeStacks
<1>1. FreeStacks \in SUBSET Nat
  BY ProcessesAssumption DEF FreeStacks
<1> QED BY <1>1, LeastNat DEF FirstFreeBuffer

\* All directories give the pages of buffers alike.
LEMMA PagesAlike ==
  ASSUME MemoryInv, NEW d \in DOMAIN dirs, NEW b
  PROVE  PageOf(d, b) = tables[2][b]
  BY DEF MemoryInv, PageOf

LEMMA DirectoriesAreNumbers == MemoryInv => cr3 \in Nat
  BY DEF MemoryInv

LEMMA SwitchedIsThere ==
  ASSUME MemoryInv, NEW d, d # 0 => d \in DOMAIN dirs
  PROVE  Switched(d) \in DOMAIN dirs
  BY DEF MemoryInv, Switched

\* Where nothing is said of doing, a creator is at the beginning.
LEMMA StepTypes ==
  ASSUME ProcessesTyped, NEW c \in Creator
  PROVE  /\ doing[c] \in CreationStep
         /\ doing[c].at = "idle" <=> doing[c] = Idle
  BY DEF ProcessesTyped, CreationStep, Idle

\* While c creates a thread every other creator is at the beginning.
LEMMA OthersIdle ==
  ASSUME ProcessesTyped, CreationInv, NEW c \in Creator, doing[c] # Idle
  PROVE  \A d \in Creator : d # c => doing[d] = Idle /\ doing[d].at = "idle"
  BY StepTypes DEF CreationInv

\* What a step leaves of the creations of the others, and what its own creator
\* has to keep.
LEMMA MovesAlone ==
  ASSUME ProcessesTyped, CreationInv, NEW c \in Creator, doing[c] # Idle,
         NEW s \in CreationStep, Moves(c, s)
  PROVE  /\ doing' \in [Creator -> CreationStep]
         /\ doing'[c] = s
         /\ \A d \in Creator : d # c => doing'[d] = Idle /\ doing'[d].at = "idle"
  BY OthersIdle DEF Moves, ProcessesTyped

\* Stacks that were apart still are when no thread gets another one.
LEMMA StacksStay ==
  ASSUME StacksApart, alloced \subseteq alloced',
         \A p, t : HasStack(p, t)' => HasStack(p, t) /\ procs'[p].threads[t] = procs[p].threads[t]
  PROVE  StacksApart'
<1>1. \A p, t : HasStack(p, t)' => procs'[p].threads[t] \in alloced'
  BY DEF StacksApart
<1>2. ASSUME NEW p, NEW t, NEW q, NEW u, HasStack(p, t)', HasStack(q, u)',
             procs'[p].threads[t] = procs'[q].threads[u]
      PROVE  p = q /\ t = u
  <2>1. HasStack(p, t) /\ HasStack(q, u) /\ procs[p].threads[t] = procs[q].threads[u]
    BY <1>2
  <2> QED BY <2>1 DEF StacksApart
<1> QED BY <1>1, <1>2 DEF StacksApart

-----------------------------------------------------------------------------
LEMMA ReserveKeeps ==
  ASSUME CreationsInv, NEW c \in Creator, ReserveStack(c)
  PROVE  CreationsInv'
<1> DEFINE b == doing[c].stack
           q == doing[c].proc
<1>1. MemoryInv /\ ProcessesTyped /\ CreationInv /\ StacksApart /\ StacksKept
  BY DEF CreationsInv
<1>2. doing[c].at = "mark" /\ running = c /\ UNCHANGED <<dirs, procs, cr3, running, holds, overlapped>>
  BY DEF ReserveStack, Runs
<1>3. doing[c] # Idle /\ doing[c] \in [at : {"mark", "insert", "tail"}, proc : Nat, stack : Nat]
  BY <1>1, <1>2, StepTypes DEF Idle, CreationStep
<1>4. q \in DOMAIN procs /\ b \in StackBuffer \ alloced
      /\ \A p, t : HasStack(p, t) => procs[p].threads[t] # b
  BY <1>1, <1>2, <1>3 DEF CreationInv
<1>5. cr3 \in DOMAIN dirs /\ dirs[cr3][CacheTable] = 2 /\ PageOf(cr3, b) = tables[2][b]
  BY <1>1, PagesAlike DEF MemoryInv
<1>6. \A d \in Creator : d # c => doing[d] = Idle /\ doing[d].at = "idle"
  BY <1>1, <1>3, OthersIdle
<1>7. PICK page : page = IF tables[2][b] # 0 THEN tables[2][b] ELSE NextBlock(blocks)
  OBVIOUS
<1>8. blocks' = (IF tables[2][b] # 0 THEN blocks ELSE Allocated(blocks))
  BY <1>5 DEF ReserveStack
<1>9. CASE page = 0
  <2>1. Moves(c, Idle) /\ tables' = tables /\ alloced' = alloced
    BY <1>5, <1>7, <1>9 DEF ReserveStack
  <2>2. blocks' = blocks
    BY <1>7, <1>8, <1>9 DEF Allocated
  <2>3. /\ doing' \in [Creator -> CreationStep]
        /\ \A d \in Creator : doing'[d] = Idle /\ doing'[d].at = "idle"
    BY <1>1, <1>3, <1>6, <2>1, MovesAlone DEF CreationStep, Idle
  <2>4. \A p, t : (HasStack(p, t)' <=> HasStack(p, t)) /\ ~Unwritten(p, t)
    BY <1>2, <1>6, <2>3 DEF HasStack, Unwritten
  <2>5. MemoryInv' /\ ProcessesTyped'
    BY <1>1, <1>2, <2>1, <2>2, <2>3 DEF MemoryInv, ProcessesTyped, Directory
  <2>6. CreationInv'
    BY <2>3 DEF CreationInv
  <2>7. StacksApart' /\ StacksKept'
    BY <1>1, <1>2, <2>1, <2>4 DEF StacksApart, StacksKept
  <2> QED BY <2>5, <2>6, <2>7 DEF CreationsInv
<1>10. CASE page # 0
  <2> DEFINE s == [doing[c] EXCEPT !.at = "insert"]
  <2>1. Moves(c, s) /\ alloced' = alloced \cup {b}
        /\ tables' = [tables EXCEPT ![2][b] = page]
    BY <1>5, <1>7, <1>10 DEF ReserveStack
  <2>2. s \in CreationStep /\ s.at = "insert" /\ s.proc = q /\ s.stack = b /\ s # Idle
    BY <1>3 DEF CreationStep, Idle
  <2> HIDE DEF s
  <2>3. /\ doing' \in [Creator -> CreationStep] /\ doing'[c] = s
        /\ \A d \in Creator : d # c => doing'[d] = Idle /\ doing'[d].at = "idle"
    BY <1>1, <1>3, <2>1, <2>2, MovesAlone
  <2>4. \A p, t : (HasStack(p, t)' <=> HasStack(p, t)) /\ ~Unwritten(p, t)
    BY <1>2, <1>6, <2>2, <2>3 DEF HasStack, Unwritten
  <2>5. /\ page \in blocks'.bitmap \cap Block /\ blocks.bitmap \subseteq blocks'.bitmap
        /\ blocks'.bitmap \subseteq Nat
    <3>1. CASE tables[2][b] # 0
      BY <1>1, <1>4, <1>7, <1>8, <3>1 DEF MemoryInv
    <3>2. CASE tables[2][b] = 0
      <4>1. page = NextBlock(blocks) /\ page \in Block /\ blocks' = Allocated(blocks)
        BY <1>7, <1>8, <1>10, <3>2, NextIsFree
      <4>2. blocks'.bitmap = blocks.bitmap \cup {page}
        BY <1>10, <4>1, AllocatedAdds
      <4> QED BY <1>1, <4>1, <4>2 DEF MemoryInv, Block
    <3> QED BY <3>1, <3>2
  <2>6. \A x \in StackBuffer : x # b => tables[2][x] # page
    <3> SUFFICES ASSUME NEW x \in StackBuffer, x # b, tables[2][x] = page
                 PROVE  FALSE
      OBVIOUS
    <3>1. page \in blocks.bitmap
      BY <1>1, <1>10 DEF MemoryInv
    <3> QED BY <1>1, <1>4, <1>7, <1>10, <3>1, NextIsFree DEF MemoryInv
  <2>7. DOMAIN tables' = DOMAIN tables /\ 2 \in DOMAIN tables' /\ DOMAIN tables'[2] = StackBuffer
        /\ \A x \in StackBuffer : tables'[2][x] = IF x = b THEN page ELSE tables[2][x]
    BY <1>1, <1>4, <2>1 DEF MemoryInv
  <2>8. MemoryInv'
    BY <1>1, <1>2, <1>4, <1>10, <2>1, <2>5, <2>6, <2>7 DEF MemoryInv
  <2>9. ProcessesTyped'
    BY <1>1, <1>2, <2>3 DEF ProcessesTyped, Directory
  <2>10. CreationInv'
    <3> SUFFICES ASSUME NEW d \in Creator, doing'[d] # Idle
                 PROVE  (CreationInv!(d)!2)'
      BY DEF CreationInv
    <3>1. d = c
      BY <2>3
    <3> QED BY <1>2, <1>4, <2>1, <2>2, <2>3, <2>4, <3>1
  <2>11. StacksApart'
    BY <1>1, <1>2, <2>1, <2>4, SMTT(30) DEF StacksApart
  <2>12. StacksKept'
    <3> SUFFICES ASSUME NEW p, NEW t, HasStack(p, t)'
                 PROVE  holds'[tables'[2][procs'[p].threads[t]]] = <<p, t>>
      BY DEF StacksKept
    <3>1. HasStack(p, t) /\ procs'[p].threads[t] \in StackBuffer /\ procs'[p].threads[t] # b
      BY <1>1, <1>2, <1>4, <2>4 DEF StacksApart, MemoryInv
    <3>2. holds[tables[2][procs[p].threads[t]]] = <<p, t>>
      BY <1>1, <2>4, <3>1 DEF StacksKept
    <3>3. tables'[2][procs[p].threads[t]] = tables[2][procs[p].threads[t]]
      BY <1>2, <2>7, <3>1
    <3> QED BY <1>2, <3>2, <3>3
  <2> QED BY <2>8, <2>9, <2>10, <2>11, <2>12 DEF CreationsInv
<1> QED BY <1>9, <1>10

LEMMA InsertThreadKeeps ==
  ASSUME CreationsInv, NEW c \in Creator, InsertThread(c)
  PROVE  CreationsInv'
<1> DEFINE q == doing[c].proc
           s == [doing[c] EXCEPT !.at = "tail"]
<1>1. MemoryInv /\ ProcessesTyped /\ CreationInv /\ StacksApart /\ StacksKept
  BY DEF CreationsInv
<1>2. /\ doing[c].at = "insert" /\ Moves(c, s)
      /\ procs' = [procs EXCEPT ![q].threads = Append(@, NoBuffer)]
      /\ UNCHANGED <<blocks, dirs, tables, cr3, running, alloced, holds, overlapped>>
  BY DEF InsertThread, Runs
<1>3. doing[c] # Idle /\ doing[c] \in [at : {"mark", "insert", "tail"}, proc : Nat, stack : Nat]
  BY <1>1, <1>2, StepTypes DEF Idle, CreationStep
<1>4. q \in DOMAIN procs /\ doing[c].stack \in alloced /\ doing[c].stack \in StackBuffer
      /\ \A p, t : HasStack(p, t) => procs[p].threads[t] # doing[c].stack
  BY <1>1, <1>2, <1>3 DEF CreationInv
<1>5. \A d \in Creator : d # c => doing[d] = Idle /\ doing[d].at = "idle"
  BY <1>1, <1>3, OthersIdle
<1>6. s \in CreationStep /\ s.at = "tail" /\ s.proc = q /\ s.stack = doing[c].stack /\ s # Idle
  BY <1>3 DEF CreationStep, Idle
<1> HIDE DEF s
<1>7. /\ doing' \in [Creator -> CreationStep] /\ doing'[c] = s
      /\ \A d \in Creator : d # c => doing'[d] = Idle /\ doing'[d].at = "idle"
  BY <1>1, <1>2, <1>3, <1>6, MovesAlone
<1>8. procs[q] \in Pcb
  BY <1>1, <1>4 DEF ProcessesTyped
<1>9. /\ Append(procs[q].threads, NoBuffer) \in Seq(Nat)
      /\ Len(Append(procs[q].threads, NoBuffer)) = Len(procs[q].threads) + 1
      /\ \A t \in DOMAIN procs[q].threads : Append(procs[q].threads, NoBuffer)[t] = procs[q].threads[t]
      /\ \A t : t \in DOMAIN Append(procs[q].threads, NoBuffer) /\ t # Len(procs[q].threads) + 1
                  <=> t \in DOMAIN procs[q].threads
  BY <1>8 DEF Pcb, NoBuffer
<1>10. /\ procs' \in Seq(Pcb) /\ Len(procs') = Len(procs) /\ DOMAIN procs' = DOMAIN procs
       /\ \A p \in DOMAIN procs : procs'[p].page_dir = procs[p].page_dir
                                  /\ (p # q => procs'[p] = procs[p])
       /\ procs'[q].threads = Append(procs[q].threads, NoBuffer)
  <2> DEFINE row == [procs[q] EXCEPT !.threads = Append(@, NoBuffer)]
  <2>1. row \in Pcb /\ row.page_dir = procs[q].page_dir
        /\ row.threads = Append(procs[q].threads, NoBuffer)
    BY <1>8, <1>9 DEF Pcb
  <2>2. procs' = [procs EXCEPT ![q] = row]
    BY <1>2
  <2> HIDE DEF row
  <2>3. procs \in Seq(Pcb)
    BY <1>1 DEF ProcessesTyped
  <2> QED BY <1>4, <2>1, <2>2, <2>3
<1>11. \A p, t : /\ (HasStack(p, t)' <=> HasStack(p, t)) /\ ~Unwritten(p, t)
                 /\ HasStack(p, t) => procs'[p].threads[t] = procs[p].threads[t]
  <2> SUFFICES ASSUME NEW p, NEW t
               PROVE  /\ (HasStack(p, t)' <=> HasStack(p, t)) /\ ~Unwritten(p, t)
                      /\ HasStack(p, t) => procs'[p].threads[t] = procs[p].threads[t]
    OBVIOUS
  <2>1. HasStack(p, t) <=> p \in DOMAIN procs /\ t \in DOMAIN procs[p].threads
    BY <1>2, <1>5 DEF HasStack
  <2>2. HasStack(p, t)' <=> p \in DOMAIN procs' /\ t \in DOMAIN procs'[p].threads
                            /\ (q # p \/ t # Len(procs'[p].threads))
    BY <1>6, <1>7 DEF HasStack
  <2>3. ~Unwritten(p, t)
    BY <1>2, <1>5 DEF Unwritten
  <2>4. CASE p = q
    BY <1>4, <1>9, <1>10, <2>1, <2>2, <2>3, <2>4
  <2>5. CASE p # q
    BY <1>10, <2>1, <2>2, <2>3, <2>5
  <2> QED BY <2>4, <2>5
<1>12. MemoryInv'
  BY <1>1, <1>2 DEF MemoryInv
<1>13. ProcessesTyped'
  BY <1>1, <1>2, <1>7, <1>10 DEF ProcessesTyped, Directory
<1>14. CreationInv'
  <2> SUFFICES ASSUME NEW d \in Creator, doing'[d] # Idle
               PROVE  (CreationInv!(d)!2)'
    BY DEF CreationInv
  <2>1. d = c
    BY <1>7
  <2>2. procs'[q].threads # <<>>
    <3>1. Len(procs'[q].threads) # 0
      BY <1>8, <1>9, <1>10 DEF Pcb
    <3> QED BY <3>1, Len(<<>>) = 0
  <2>3. ASSUME NEW p, NEW t, HasStack(p, t)'
        PROVE  procs'[p].threads[t] # doing[c].stack
    BY <1>4, <1>11, <2>3
  <2>4. DOMAIN procs' = DOMAIN procs /\ alloced' = alloced
    BY <1>2, <1>10
  <2>5. doing'[c].at = "tail" /\ doing'[c].proc = q /\ doing'[c].stack = doing[c].stack
    BY <1>6, <1>7
  <2> QED BY <1>4, <1>7, <2>1, <2>2, <2>3, <2>4, <2>5
<1>15. StacksApart'
  BY <1>1, <1>2, <1>11, StacksStay
<1>16. StacksKept'
  BY <1>1, <1>2, <1>11 DEF StacksKept
<1> QED BY <1>12, <1>13, <1>14, <1>15, <1>16 DEF CreationsInv

LEMMA FillThreadKeeps ==
  ASSUME CreationsInv, NEW c \in Creator, FillThread(c)
  PROVE  CreationsInv'
<1> DEFINE q == doing[c].proc
           b == doing[c].stack
           last == Len(procs[q].threads)
           s == [at |-> "switch", proc |-> q, stack |-> b, tcb |-> last, old_dir |-> cr3]
<1>1. MemoryInv /\ ProcessesTyped /\ CreationInv /\ StacksApart /\ StacksKept
  BY DEF CreationsInv
<1>2. /\ doing[c].at = "tail" /\ Moves(c, s)
      /\ procs' = [procs EXCEPT ![q].threads[last] = b]
      /\ UNCHANGED <<blocks, dirs, tables, cr3, running, alloced, holds, overlapped>>
  BY DEF FillThread, Runs
<1>3. doing[c] # Idle /\ doing[c] \in [at : {"mark", "insert", "tail"}, proc : Nat, stack : Nat]
  BY <1>1, <1>2, StepTypes DEF Idle, CreationStep
<1>4. q \in DOMAIN procs /\ b \in alloced /\ b \in StackBuffer /\ procs[q].threads # <<>>
      /\ \A p, t : HasStack(p, t) => procs[p].threads[t] # b
  BY <1>1, <1>2, <1>3 DEF CreationInv
<1>5. \A d \in Creator : d # c => doing[d] = Idle /\ doing[d].at = "idle"
  BY <1>1, <1>3, OthersIdle
<1>6. procs[q] \in Pcb /\ procs \in Seq(Pcb) /\ last \in DOMAIN procs[q].threads
  <2>1. procs[q] \in Pcb /\ procs \in Seq(Pcb)
    BY <1>1, <1>4 DEF ProcessesTyped
  <2>2. procs[q].threads \in Seq(Nat) /\ procs[q].threads # <<>>
    BY <1>4, <2>1 DEF Pcb
  <2>3. last \in 1 .. last
    BY <2>2, EmptySeq
  <2> QED BY <2>1, <2>2, <2>3
<1>7. s \in CreationStep /\ s.at = "switch" /\ s.proc = q /\ s.stack = b /\ s.tcb = last
      /\ s.old_dir = cr3 /\ s # Idle
  <2>1. cr3 \in Nat
    BY <1>1, DirectoriesAreNumbers
  <2>2. last \in Nat
    BY <1>6 DEF Pcb
  <2> QED BY <1>3, <2>1, <2>2 DEF CreationStep, Idle
<1> HIDE DEF s
<1>8. /\ doing' \in [Creator -> CreationStep] /\ doing'[c] = s
      /\ \A d \in Creator : d # c => doing'[d] = Idle /\ doing'[d].at = "idle"
  BY <1>1, <1>2, <1>3, <1>7, MovesAlone
<1>9. /\ procs' \in Seq(Pcb) /\ Len(procs') = Len(procs) /\ DOMAIN procs' = DOMAIN procs
      /\ \A p \in DOMAIN procs : procs'[p].page_dir = procs[p].page_dir
                                 /\ (p # q => procs'[p] = procs[p])
      /\ procs'[q].threads = [procs[q].threads EXCEPT ![last] = b]
      /\ Len(procs'[q].threads) = last /\ DOMAIN procs'[q].threads = DOMAIN procs[q].threads
  <2> DEFINE row == [procs[q] EXCEPT !.threads[last] = b]
             stacks == [procs[q].threads EXCEPT ![last] = b]
  <2>1. stacks \in Seq(Nat) /\ Len(stacks) = last /\ DOMAIN stacks = DOMAIN procs[q].threads
    BY <1>3, <1>6 DEF Pcb
  <2>2. row = [procs[q] EXCEPT !.threads = stacks]
    OBVIOUS
  <2>3. row \in Pcb /\ row.page_dir = procs[q].page_dir /\ row.threads = stacks
    BY <1>6, <2>1, <2>2 DEF Pcb
  <2>4. procs' = [procs EXCEPT ![q] = row]
    BY <1>2
  <2> HIDE DEF row, stacks
  <2>5. procs' \in Seq(Pcb) /\ Len(procs') = Len(procs) /\ DOMAIN procs' = DOMAIN procs
        /\ \A p \in DOMAIN procs : procs'[p] = IF p = q THEN row ELSE procs[p]
    BY <1>4, <1>6, <2>3, <2>4
  <2>6. procs'[q].threads = stacks
    BY <1>4, <2>3, <2>5
  <2> QED BY <2>1, <2>3, <2>5, <2>6 DEF stacks
<1>10. \A p, t : /\ HasStack(p, t)' <=> HasStack(p, t) \/ (p = q /\ t = last)
                 /\ HasStack(p, t) => procs'[p].threads[t] = procs[p].threads[t]
                                      /\ ~(p = q /\ t = last)
                 /\ Unwritten(p, t)' <=> p = q /\ t = last
                 /\ HasStack(p, t) => ~Unwritten(p, t)
  <2> SUFFICES ASSUME NEW p, NEW t
               PROVE  /\ HasStack(p, t)' <=> HasStack(p, t) \/ (p = q /\ t = last)
                      /\ HasStack(p, t) => procs'[p].threads[t] = procs[p].threads[t]
                                           /\ ~(p = q /\ t = last)
                      /\ Unwritten(p, t)' <=> p = q /\ t = last
                      /\ HasStack(p, t) => ~Unwritten(p, t)
    OBVIOUS
  <2>1. HasStack(p, t) <=> p \in DOMAIN procs /\ t \in DOMAIN procs[p].threads /\ ~(p = q /\ t = last)
    BY <1>2, <1>5 DEF HasStack
  <2>2. HasStack(p, t)' <=> p \in DOMAIN procs' /\ t \in DOMAIN procs'[p].threads
    BY <1>7, <1>8 DEF HasStack
  <2>3. Unwritten(p, t) <=> p = q /\ t = last
    BY <1>2, <1>5 DEF Unwritten
  <2>4. Unwritten(p, t)' <=> p = q /\ t = last
    <3>1. Unwritten(p, t)' <=> p = q /\ t = Len(procs'[p].threads)
      BY <1>7, <1>8 DEF Unwritten
    <3> QED BY <1>9, <3>1
  <2>5. CASE p = q
    BY <1>4, <1>6, <1>9, <2>1, <2>2, <2>3, <2>4, <2>5
  <2>6. CASE p # q
    BY <1>9, <2>1, <2>2, <2>3, <2>4, <2>6
  <2> QED BY <2>5, <2>6
<1>11. procs'[q].threads[last] = b
  BY <1>6, <1>9 DEF Pcb
<1>12. MemoryInv'
  BY <1>1, <1>2 DEF MemoryInv
<1>13. ProcessesTyped'
  BY <1>1, <1>2, <1>8, <1>9 DEF ProcessesTyped, Directory
<1>14. CreationInv'
  <2> SUFFICES ASSUME NEW d \in Creator, doing'[d] # Idle
               PROVE  (CreationInv!(d)!2)'
    BY DEF CreationInv
  <2>1. d = c
    BY <1>8
  <2>2. cr3 \in DOMAIN dirs
    BY <1>1 DEF MemoryInv
  <2> QED BY <1>2, <1>4, <1>6, <1>7, <1>8, <1>9, <1>11, <2>1, <2>2
<1>15. StacksApart'
  <2>1. ASSUME NEW p, NEW t, HasStack(p, t)'
        PROVE  procs'[p].threads[t] \in alloced'
    <3>1. CASE HasStack(p, t)
      BY <1>1, <1>2, <1>10, <3>1 DEF StacksApart
    <3>2. CASE p = q /\ t = last
      BY <1>2, <1>4, <1>11, <3>2
    <3> QED BY <1>10, <2>1, <3>1, <3>2
  <2>2. ASSUME NEW p, NEW t, NEW r, NEW u, HasStack(p, t)', HasStack(r, u)',
               procs'[p].threads[t] = procs'[r].threads[u]
        PROVE  p = r /\ t = u
    <3>1. (HasStack(p, t) \/ (p = q /\ t = last)) /\ (HasStack(r, u) \/ (r = q /\ u = last))
      BY <1>10, <2>2
    <3>2. CASE HasStack(p, t) /\ HasStack(r, u)
      <4>1. procs[p].threads[t] = procs[r].threads[u]
        BY <1>10, <2>2, <3>2
      <4> QED BY <1>1, <3>2, <4>1 DEF StacksApart
    <3>3. CASE HasStack(p, t) /\ r = q /\ u = last
      BY <1>4, <1>10, <1>11, <2>2, <3>3, SMTT(30)
    <3>4. CASE p = q /\ t = last /\ HasStack(r, u)
      BY <1>4, <1>10, <1>11, <2>2, <3>4, SMTT(30)
    <3> QED BY <3>1, <3>2, <3>3, <3>4
  <2> QED BY <2>1, <2>2 DEF StacksApart
<1>16. StacksKept'
  <2> SUFFICES ASSUME NEW p, NEW t, HasStack(p, t)', ~Unwritten(p, t)'
               PROVE  holds'[tables'[2][procs'[p].threads[t]]] = <<p, t>>
    BY DEF StacksKept
  <2>1. HasStack(p, t) /\ ~Unwritten(p, t) /\ procs'[p].threads[t] = procs[p].threads[t]
    BY <1>10
  <2> QED BY <1>1, <1>2, <2>1 DEF StacksKept
<1> QED BY <1>12, <1>13, <1>14, <1>15, <1>16 DEF CreationsInv

\* What the three steps with a directory to come back to know of their creation.
LEMMA CreationFacts ==
  ASSUME CreationsInv, NEW c \in Creator, doing[c].at \in {"switch", "write", "restore"}
  PROVE  /\ doing[c] \in [at : {"switch", "write", "restore"}, proc : Nat, stack : Nat,
                          tcb : Nat, old_dir : Nat]
         /\ doing[c] # Idle
         /\ \A d \in Creator : d # c => doing[d] = Idle /\ doing[d].at = "idle"
         /\ doing[c].proc \in DOMAIN procs /\ doing[c].stack \in alloced \cap StackBuffer
         /\ doing[c].old_dir \in DOMAIN dirs
         /\ doing[c].tcb = Len(procs[doing[c].proc].threads)
         /\ doing[c].tcb \in DOMAIN procs[doing[c].proc].threads
         /\ procs[doing[c].proc].threads[doing[c].tcb] = doing[c].stack
<1>1. ProcessesTyped /\ CreationInv
  BY DEF CreationsInv
<1>2. doing[c] \in CreationStep /\ doing[c] # Idle
  BY <1>1, StepTypes DEF Idle
<1>3. doing[c] \in [at : {"switch", "write", "restore"}, proc : Nat, stack : Nat,
                    tcb : Nat, old_dir : Nat]
  BY <1>2 DEF CreationStep, Idle
<1>4. \A d \in Creator : d # c => doing[d] = Idle /\ doing[d].at = "idle"
  BY <1>1, <1>2, OthersIdle
<1> QED BY <1>1, <1>2, <1>3, <1>4 DEF CreationInv

LEMMA LoadDirectoryKeeps ==
  ASSUME CreationsInv, NEW c \in Creator, LoadDirectory(c)
  PROVE  CreationsInv'
<1> DEFINE s == [doing[c] EXCEPT !.at = "write"]
<1>1. MemoryInv /\ ProcessesTyped /\ CreationInv /\ StacksApart /\ StacksKept
  BY DEF CreationsInv
<1>2. /\ doing[c].at = "switch" /\ Moves(c, s)
      /\ cr3' = Switched(Directory(doing[c].proc))
      /\ UNCHANGED <<blocks, dirs, tables, procs, running, alloced, holds, overlapped>>
  BY DEF LoadDirectory, Runs
<1>3. /\ doing[c] \in [at : {"switch", "write", "restore"}, proc : Nat, stack : Nat,
                       tcb : Nat, old_dir : Nat]
      /\ doing[c] # Idle
      /\ \A d \in Creator : d # c => doing[d] = Idle /\ doing[d].at = "idle"
  BY <1>2, CreationFacts
<1>4. /\ doing[c].proc \in DOMAIN procs /\ doing[c].stack \in alloced \cap StackBuffer
      /\ doing[c].old_dir \in DOMAIN dirs
      /\ doing[c].tcb = Len(procs[doing[c].proc].threads)
      /\ doing[c].tcb \in DOMAIN procs[doing[c].proc].threads
      /\ procs[doing[c].proc].threads[doing[c].tcb] = doing[c].stack
  BY <1>2, CreationFacts
<1>5. /\ s \in CreationStep /\ s.at = "write" /\ s.proc = doing[c].proc /\ s.stack = doing[c].stack
      /\ s.tcb = doing[c].tcb /\ s.old_dir = doing[c].old_dir /\ s # Idle
  BY <1>3 DEF CreationStep, Idle
<1> HIDE DEF s
<1>6. /\ doing' \in [Creator -> CreationStep] /\ doing'[c] = s
      /\ \A d \in Creator : d # c => doing'[d] = Idle /\ doing'[d].at = "idle"
  BY <1>1, <1>2, <1>3, <1>5, MovesAlone
<1>7. \A p, t : (HasStack(p, t)' <=> HasStack(p, t)) /\ (Unwritten(p, t)' <=> Unwritten(p, t))
  BY <1>2, <1>3, <1>5, <1>6 DEF HasStack, Unwritten
<1>8. cr3' \in DOMAIN dirs
  BY <1>1, <1>2, <1>4, SwitchedIsThere DEF ProcessesTyped
<1>9. MemoryInv' /\ ProcessesTyped'
  BY <1>1, <1>2, <1>6, <1>8 DEF MemoryInv, ProcessesTyped, Directory
<1>10. CreationInv'
  <2> SUFFICES ASSUME NEW d \in Creator, doing'[d] # Idle
               PROVE  (CreationInv!(d)!2)'
    BY DEF CreationInv
  <2>1. d = c
    BY <1>6
  <2> QED BY <1>2, <1>4, <1>5, <1>6, <2>1
<1>11. StacksApart' /\ StacksKept'
  BY <1>1, <1>2, <1>7 DEF StacksApart, StacksKept
<1> QED BY <1>9, <1>10, <1>11 DEF CreationsInv

LEMMA WriteStackKeeps ==
  ASSUME CreationsInv, NEW c \in Creator, WriteStack(c)
  PROVE  CreationsInv'
<1> DEFINE s == [doing[c] EXCEPT !.at = "restore"]
           q == doing[c].proc
           u == doing[c].tcb
           b == doing[c].stack
<1>1. MemoryInv /\ ProcessesTyped /\ CreationInv /\ StacksApart /\ StacksKept
  BY DEF CreationsInv
<1>2. /\ doing[c].at = "write" /\ Moves(c, s)
      /\ UNCHANGED <<blocks, dirs, tables, procs, cr3, running, alloced, overlapped>>
  BY DEF WriteStack, Runs
<1>3. /\ doing[c] \in [at : {"switch", "write", "restore"}, proc : Nat, stack : Nat,
                       tcb : Nat, old_dir : Nat]
      /\ doing[c] # Idle
      /\ \A d \in Creator : d # c => doing[d] = Idle /\ doing[d].at = "idle"
  BY <1>2, CreationFacts
<1>4. /\ q \in DOMAIN procs /\ b \in alloced \cap StackBuffer
      /\ doing[c].old_dir \in DOMAIN dirs
      /\ u = Len(procs[q].threads) /\ u \in DOMAIN procs[q].threads
      /\ procs[q].threads[u] = b
  BY <1>2, CreationFacts
<1>5. /\ s \in CreationStep /\ s.at = "restore" /\ s.proc = q /\ s.stack = b
      /\ s.tcb = u /\ s.old_dir = doing[c].old_dir /\ s # Idle
  BY <1>3 DEF CreationStep, Idle
<1> HIDE DEF s
<1>6. /\ doing' \in [Creator -> CreationStep] /\ doing'[c] = s
      /\ \A d \in Creator : d # c => doing'[d] = Idle /\ doing'[d].at = "idle"
  BY <1>1, <1>2, <1>3, <1>5, MovesAlone
<1>7. \A p, t : /\ HasStack(p, t)' <=> HasStack(p, t)
                /\ Unwritten(p, t) <=> p = q /\ t = u
  BY <1>2, <1>3, <1>4, <1>5, <1>6 DEF HasStack, Unwritten
<1>8. tables[2][b] \in Block /\ tables[2][b] # 0 /\ holds' = [holds EXCEPT ![tables[2][b]] = <<q, u>>]
  <2>1. PageOf(cr3, b) = tables[2][b] /\ tables[2][b] # 0 /\ tables[2][b] \in Block
    BY <1>1, <1>4, PagesAlike DEF MemoryInv
  <2> QED BY <2>1 DEF WriteStack
<1>9. MemoryInv' /\ ProcessesTyped'
  BY <1>1, <1>2, <1>6, <1>8 DEF MemoryInv, ProcessesTyped, Directory
<1>10. CreationInv'
  <2> SUFFICES ASSUME NEW d \in Creator, doing'[d] # Idle
               PROVE  (CreationInv!(d)!2)'
    BY DEF CreationInv
  <2>1. d = c
    BY <1>6
  <2> QED BY <1>2, <1>4, <1>5, <1>6, <2>1
<1>11. StacksApart'
  BY <1>1, <1>2, <1>7 DEF StacksApart
<1>12. StacksKept'
  <2> SUFFICES ASSUME NEW p, NEW t, HasStack(p, t)
               PROVE  holds'[tables[2][procs[p].threads[t]]] = <<p, t>>
    BY <1>2, <1>7 DEF StacksKept
  <2>1. procs[p].threads[t] \in alloced
    BY <1>1 DEF StacksApart
  <2>2. tables[2][procs[p].threads[t]] \in Block
    BY <1>1, <2>1, SMTT(30) DEF MemoryInv
  <2>3. CASE p = q /\ t = u
    BY <1>1, <1>4, <1>8, <2>3 DEF MemoryInv
  <2>4. CASE ~(p = q /\ t = u)
    <3>1. HasStack(q, u)
      BY <1>2, <1>3, <1>4 DEF HasStack
    <3>2. procs[p].threads[t] # b
      BY <1>1, <1>4, <2>4, <3>1 DEF StacksApart
    <3>3. tables[2][procs[p].threads[t]] # tables[2][b]
      BY <1>1, <1>4, <1>8, <2>1, <3>2 DEF MemoryInv
    <3>4. holds[tables[2][procs[p].threads[t]]] = <<p, t>>
      BY <1>1, <1>7, <2>4 DEF StacksKept
    <3> QED BY <1>1, <1>8, <2>2, <3>3, <3>4 DEF MemoryInv
  <2> QED BY <2>3, <2>4
<1> QED BY <1>9, <1>10, <1>11, <1>12 DEF CreationsInv

LEMMA RestoreDirectoryKeeps ==
  ASSUME CreationsInv, NEW c \in Creator, RestoreDirectory(c)
  PROVE  CreationsInv'
<1>1. MemoryInv /\ ProcessesTyped /\ CreationInv /\ StacksApart /\ StacksKept
  BY DEF CreationsInv
<1>2. /\ doing[c].at = "restore" /\ Moves(c, Idle) /\ cr3' = Switched(doing[c].old_dir)
      /\ UNCHANGED <<blocks, dirs, tables, procs, running, alloced, holds, overlapped>>
  BY DEF RestoreDirectory, Runs
<1>3. /\ doing[c] # Idle /\ doing[c].old_dir \in DOMAIN dirs
      /\ \A d \in Creator : d # c => doing[d] = Idle /\ doing[d].at = "idle"
  BY <1>2, CreationFacts
<1>4. /\ doing' \in [Creator -> CreationStep]
      /\ \A d \in Creator : doing'[d] = Idle /\ doing'[d].at = "idle"
  BY <1>1, <1>2, <1>3, MovesAlone DEF CreationStep, Idle
<1>5. \A p, t : (HasStack(p, t)' <=> HasStack(p, t)) /\ ~Unwritten(p, t)
  BY <1>2, <1>3, <1>4 DEF HasStack, Unwritten
<1>6. cr3' \in DOMAIN dirs
  BY <1>1, <1>2, <1>3, SwitchedIsThere
<1>7. MemoryInv' /\ ProcessesTyped'
  BY <1>1, <1>2, <1>4, <1>6 DEF MemoryInv, ProcessesTyped, Directory
<1>8. CreationInv'
  BY <1>4 DEF CreationInv
<1>9. StacksApart' /\ StacksKept'
  BY <1>1, <1>2, <1>5 DEF StacksApart, StacksKept
<1> QED BY <1>7, <1>8, <1>9 DEF CreationsInv

LEMMA ProcessCreateKeeps ==
  ASSUME CreationsInv, NEW c \in Creator, process_create(c)
  PROVE  CreationsInv'
<1>1. MemoryInv /\ ProcessesTyped /\ CreationInv /\ StacksApart /\ StacksKept
  BY DEF CreationsInv
<1>2. PICK d : d = NextBlock(blocks)
  OBVIOUS
<1>3. /\ blocks' = Allocated(blocks)
      /\ dirs' = IF d = 0 THEN dirs
                 ELSE [e \in DOMAIN dirs \cup {d} |-> IF e = d THEN dirs[1] ELSE dirs[e]]
      /\ procs' = Append(procs, [page_dir |-> d, threads |-> <<>>])
      /\ UNCHANGED <<tables, cr3, running, doing, alloced, holds, overlapped>>
  BY <1>1, <1>2 DEF process_create, CopyOf, ProcessesTyped
<1>4. d # 0 => d \in Block \ blocks.bitmap /\ d \in Nat
  BY <1>2, NextIsFree DEF Block
<1>5. blocks'.bitmap = (IF d = 0 THEN blocks.bitmap ELSE blocks.bitmap \cup {d})
  BY <1>2, <1>3, AllocatedAdds
<1>6. /\ DOMAIN dirs' = (IF d = 0 THEN DOMAIN dirs ELSE DOMAIN dirs \cup {d})
      /\ \A e \in DOMAIN dirs' : dirs'[e][CacheTable] = 2
  BY <1>1, <1>3 DEF MemoryInv
<1>7. [page_dir |-> d, threads |-> <<>>] \in Pcb /\ d \in Nat
  BY <1>4 DEF Pcb
<1>8. /\ procs' \in Seq(Pcb) /\ Len(procs') = Len(procs) + 1 /\ Len(procs) \in Nat
      /\ DOMAIN procs' = DOMAIN procs \cup {Len(procs) + 1}
      /\ \A p \in DOMAIN procs : procs'[p] = procs[p]
      /\ procs'[Len(procs) + 1].page_dir = d /\ procs'[Len(procs) + 1].threads = <<>>
      /\ 1 \in DOMAIN procs
  BY <1>1, <1>3, <1>7 DEF ProcessesTyped
<1>9. MemoryInv'
  BY <1>1, <1>3, <1>4, <1>5, <1>6 DEF MemoryInv
<1>10. ProcessesTyped'
  <2>1. \A p \in DOMAIN procs' : Directory(p)' # 0 => Directory(p)' \in DOMAIN dirs'
    <3> SUFFICES ASSUME NEW p \in DOMAIN procs', procs'[p].page_dir # 0
                 PROVE  procs'[p].page_dir \in DOMAIN dirs'
      BY DEF Directory
    <3>1. CASE p \in DOMAIN procs
      BY <1>1, <1>6, <1>8, <3>1 DEF ProcessesTyped, Directory
    <3>2. CASE p = Len(procs) + 1
      BY <1>6, <1>8, <3>2
    <3> QED BY <1>8, <3>1, <3>2
  <2>2. Directory(1)' = 1
    BY <1>1, <1>8 DEF ProcessesTyped, Directory
  <2> QED BY <1>1, <1>3, <1>8, <2>1, <2>2 DEF ProcessesTyped
<1>11. \A p, t : /\ HasStack(p, t)' <=> HasStack(p, t)
                 /\ HasStack(p, t) => procs'[p].threads[t] = procs[p].threads[t]
                 /\ HasStack(p, t) => (Unwritten(p, t)' <=> Unwritten(p, t))
  <2> SUFFICES ASSUME NEW p, NEW t
               PROVE  /\ HasStack(p, t)' <=> HasStack(p, t)
                      /\ HasStack(p, t) => procs'[p].threads[t] = procs[p].threads[t]
                      /\ HasStack(p, t) => (Unwritten(p, t)' <=> Unwritten(p, t))
    OBVIOUS
  <2>1. CASE p \in DOMAIN procs
    <3>1. procs'[p] = procs[p] /\ p \in DOMAIN procs'
      BY <1>8, <2>1
    <3> QED BY <1>3, <2>1, <3>1 DEF HasStack, Unwritten
  <2>2. CASE p \notin DOMAIN procs
    <3>1. ~HasStack(p, t)
      BY <2>2 DEF HasStack
    <3>2. p \in DOMAIN procs' => t \notin DOMAIN procs'[p].threads
      BY <1>8, <2>2
    <3> QED BY <3>1, <3>2 DEF HasStack
  <2> QED BY <2>1, <2>2
<1>12. CreationInv'
  <2> SUFFICES ASSUME NEW e \in Creator, doing[e] # Idle
               PROVE  (CreationInv!(e)!2)'
    BY <1>3 DEF CreationInv
  <2>1. CreationInv!(e)!2
    BY <1>1 DEF CreationInv
  <2>2. procs'[doing[e].proc] = procs[doing[e].proc] /\ doing[e].proc \in DOMAIN procs'
    BY <1>8, <2>1
  <2>3. ASSUME NEW p, NEW t, HasStack(p, t)', \A r, v : HasStack(r, v) => procs[r].threads[v] # doing[e].stack
        PROVE  procs'[p].threads[t] # doing[e].stack
    BY <1>11, <2>3
  <2>4. doing' = doing /\ alloced' = alloced /\ DOMAIN dirs \subseteq DOMAIN dirs'
    BY <1>3, <1>6
  <2> QED BY <2>1, <2>2, <2>3, <2>4
<1>13. StacksApart'
  BY <1>1, <1>3, <1>11, StacksStay
<1>14. StacksKept'
  <2> SUFFICES ASSUME NEW p, NEW t, HasStack(p, t)', ~Unwritten(p, t)'
               PROVE  holds'[tables'[2][procs'[p].threads[t]]] = <<p, t>>
    BY DEF StacksKept
  <2>1. HasStack(p, t) /\ ~Unwritten(p, t) /\ procs'[p].threads[t] = procs[p].threads[t]
    BY <1>11
  <2> QED BY <1>1, <1>3, <2>1 DEF StacksKept
<1> QED BY <1>9, <1>10, <1>12, <1>13, <1>14 DEF CreationsInv

LEMMA TableFaultKeeps ==
  ASSUME CreationsInv, NEW c \in Creator, NEW t \in Table, TableFault(c, t)
  PROVE  CreationsInv'
<1>1. MemoryInv /\ ProcessesTyped /\ CreationInv /\ StacksApart /\ StacksKept
  BY DEF CreationsInv
<1>2. PICK b : b = NextBlock(blocks)
  OBVIOUS
<1>3. /\ b # 0 /\ dirs[cr3][t] = 0 /\ blocks' = Allocated(blocks)
      /\ dirs' = [dirs EXCEPT ![cr3][t] = b]
      /\ tables' = [e \in DOMAIN tables \cup {b} |-> IF e = b THEN [x \in StackBuffer |-> 0] ELSE tables[e]]
      /\ UNCHANGED <<procs, cr3, running, doing, alloced, holds, overlapped>>
  BY <1>2 DEF TableFault
<1>4. b \in Block \ blocks.bitmap /\ b \in Nat /\ b # 2
  BY <1>1, <1>2, <1>3, NextIsFree DEF Block, MemoryInv
<1>5. blocks'.bitmap = blocks.bitmap \cup {b}
  BY <1>2, <1>3, AllocatedAdds
<1>6. DOMAIN dirs' = DOMAIN dirs /\ \A d \in DOMAIN dirs : dirs'[d][CacheTable] = 2
  <2>1. cr3 \in DOMAIN dirs /\ \A d \in DOMAIN dirs : dirs[d][CacheTable] = 2
    BY <1>1 DEF MemoryInv
  <2>2. t # CacheTable
    BY <1>3, <2>1
  <2> QED BY <1>3, <2>1, <2>2
<1>7. DOMAIN tables' = DOMAIN tables \cup {b} /\ tables'[2] = tables[2]
  BY <1>1, <1>3, <1>4 DEF MemoryInv
<1>8. MemoryInv'
  BY <1>1, <1>3, <1>4, <1>5, <1>6, <1>7 DEF MemoryInv
<1>9. ProcessesTyped'
  BY <1>1, <1>3, <1>6 DEF ProcessesTyped, Directory
<1>10. \A p, u : (HasStack(p, u)' <=> HasStack(p, u)) /\ (Unwritten(p, u)' <=> Unwritten(p, u))
  BY <1>3 DEF HasStack, Unwritten
<1>11. CreationInv'
  BY <1>1, <1>3, <1>6, <1>10 DEF CreationInv
<1>12. StacksApart'
  BY <1>1, <1>3, <1>10, StacksStay
<1>13. StacksKept'
  BY <1>1, <1>3, <1>7, <1>10 DEF StacksKept
<1> QED BY <1>8, <1>9, <1>11, <1>12, <1>13 DEF CreationsInv

LEMMA FindStackKeeps ==
  ASSUME CreationsInv, NEW c \in Creator, NEW p \in 1 .. MaxProcesses, FindStack(c, p), ~overlapped'
  PROVE  CreationsInv'
<1>1. MemoryInv /\ ProcessesTyped /\ CreationInv /\ StacksApart /\ StacksKept
  BY DEF CreationsInv
<1>2. /\ p \in DOMAIN procs /\ \A d \in Creator : doing[d] = Idle /\ doing[d].at = "idle"
      /\ UNCHANGED <<blocks, dirs, tables, procs, cr3, running, alloced, holds>>
  <2>1. overlapped' = (overlapped \/ \E d \in Creator : doing[d] # Idle)
    BY DEF FindStack
  <2>2. \A d \in Creator : doing[d] = Idle
    BY <2>1, Zenon
  <2>3. \A d \in Creator : doing[d].at = "idle"
    BY <2>2 DEF Idle
  <2> QED BY <2>2, <2>3 DEF FindStack
<1>3. CASE doing' = doing
  <2>1. \A q, t : (HasStack(q, t)' <=> HasStack(q, t)) /\ (Unwritten(q, t)' <=> Unwritten(q, t))
    BY <1>2, <1>3 DEF HasStack, Unwritten
  <2>2. MemoryInv' /\ ProcessesTyped'
    BY <1>1, <1>2, <1>3 DEF MemoryInv, ProcessesTyped, Directory
  <2>3. CreationInv'
    BY <1>2, <1>3 DEF CreationInv
  <2>4. StacksApart' /\ StacksKept'
    BY <1>1, <1>2, <2>1 DEF StacksApart, StacksKept
  <2> QED BY <2>2, <2>3, <2>4 DEF CreationsInv
<1>4. CASE doing' # doing
  <2> DEFINE s == [at |-> "mark", proc |-> p, stack |-> FirstFreeBuffer]
  <2>1. FreeStacks # {} /\ Moves(c, s)
    BY <1>4 DEF FindStack
  <2>2. FirstFreeBuffer \in StackBuffer \ alloced /\ FirstFreeBuffer \in Nat
    BY <2>1, FirstBufferFree, ProcessesAssumption
  <2>3. s \in CreationStep /\ s.at = "mark" /\ s.proc = p /\ s.stack = FirstFreeBuffer /\ s # Idle
    BY <2>2 DEF CreationStep, Idle
  <2> HIDE DEF s
  <2>4. /\ doing' \in [Creator -> CreationStep] /\ doing'[c] = s
        /\ \A d \in Creator : d # c => doing'[d] = Idle /\ doing'[d].at = "idle"
    BY <1>1, <1>2, <2>1, <2>3 DEF Moves, ProcessesTyped
  <2>5. \A q, t : (HasStack(q, t)' <=> HasStack(q, t)) /\ ~Unwritten(q, t)
    BY <1>2, <2>3, <2>4 DEF HasStack, Unwritten
  <2>6. MemoryInv' /\ ProcessesTyped'
    BY <1>1, <1>2, <2>4 DEF MemoryInv, ProcessesTyped, Directory
  <2>7. \A q, t : HasStack(q, t)' => procs'[q].threads[t] # FirstFreeBuffer
    BY <1>1, <1>2, <2>2, <2>5 DEF StacksApart
  <2>8. CreationInv'
    <3> SUFFICES ASSUME NEW d \in Creator, doing'[d] # Idle
                 PROVE  (CreationInv!(d)!2)'
      BY DEF CreationInv
    <3>1. d = c
      BY <2>4
    <3> QED BY <1>2, <2>2, <2>3, <2>4, <2>7, <3>1
  <2>9. StacksApart' /\ StacksKept'
    BY <1>1, <1>2, <2>5 DEF StacksApart, StacksKept
  <2> QED BY <2>6, <2>8, <2>9 DEF CreationsInv
<1> QED BY <1>3, <1>4

LEMMA PreemptKeeps ==
  ASSUME CreationsInv, NEW c \in Creator, Preempt(c)
  PROVE  CreationsInv'
<1>1. MemoryInv /\ ProcessesTyped /\ CreationInv /\ StacksApart /\ StacksKept
  BY DEF CreationsInv
<1>2. /\ Home[c] \in DOMAIN procs /\ running' = c /\ cr3' = Switched(Directory(Home[c]))
      /\ UNCHANGED <<blocks, dirs, tables, procs, doing, alloced, holds, overlapped>>
  BY DEF Preempt
<1>3. cr3' \in DOMAIN dirs
  BY <1>1, <1>2, SwitchedIsThere DEF ProcessesTyped
<1>4. \A p, t : (HasStack(p, t)' <=> HasStack(p, t)) /\ (Unwritten(p, t)' <=> Unwritten(p, t))
  BY <1>2 DEF HasStack, Unwritten
<1>5. MemoryInv' /\ ProcessesTyped'
  BY <1>1, <1>2, <1>3 DEF MemoryInv, ProcessesTyped, Directory
<1>6. CreationInv'
  BY <1>1, <1>2, <1>4 DEF CreationInv
<1>7. StacksApart' /\ StacksKept'
  BY <1>1, <1>2, <1>4 DEF StacksApart, StacksKept
<1> QED BY <1>5, <1>6, <1>7 DEF CreationsInv

LEMMA ProcessesStart == ProcessesInit => ProcessesInv
<1> SUFFICES ASSUME ProcessesInit PROVE CreationsInv
  BY DEF ProcessesInv
<1>1. /\ blocks = [bitmap |-> {0, 1, 2}, used |-> 3] /\ cr3 = 1 /\ alloced = {}
      /\ dirs = [d \in {1} |-> [t \in Table |-> IF t = CacheTable THEN 2 ELSE 0]]
      /\ tables = [b \in {2} |-> [x \in StackBuffer |-> 0]]
      /\ procs = <<[page_dir |-> 1, threads |-> <<>>]>>
      /\ doing = [c \in Creator |-> Idle] /\ holds = [b \in Block |-> <<>>]
  BY DEF ProcessesInit
<1>2. MemoryInv
  BY <1>1, ProcessesAssumption DEF MemoryInv
<1>3. running \in Creator
  BY ProcessesAssumption DEF ProcessesInit
<1>4. procs \in Seq(Pcb) /\ Len(procs) = 1 /\ procs[1].page_dir = 1 /\ procs[1].threads = <<>>
      /\ DOMAIN procs = {1}
  BY <1>1 DEF Pcb
<1>5. ProcessesTyped
  BY <1>1, <1>3, <1>4 DEF ProcessesTyped, CreationStep, Directory
<1>6. CreationInv
  BY <1>1 DEF CreationInv
<1>7. \A p, t : ~HasStack(p, t)
  BY <1>4 DEF HasStack
<1> QED BY <1>2, <1>5, <1>6, <1>7 DEF CreationsInv, StacksApart, StacksKept

LEMMA CreationsStep == ProcessesInv /\ [ProcessesNext]_processVars => ProcessesInv'
<1> SUFFICES ASSUME ProcessesInv, [ProcessesNext]_processVars, ~overlapped'
             PROVE  CreationsInv'
  BY DEF ProcessesInv
<1>1. CASE UNCHANGED processVars
  <2>1. CreationsInv
    BY <1>1 DEF ProcessesInv, processVars
  <2> QED BY <1>1, <2>1 DEF processVars, CreationsInv, MemoryInv, ProcessesTyped, Directory, CreationInv,
            StacksApart, StacksKept, HasStack, Unwritten
<1>2. CASE ProcessesNext
  <2>1. PICK c \in Creator :
          \/ ThreadStep(c) \/ Preempt(c) \/ process_create(c)
          \/ \E p \in 1 .. MaxProcesses : FindStack(c, p)
          \/ \E t \in Table : TableFault(c, t)
    BY <1>2 DEF ProcessesNext
  <2>2. ~overlapped
    BY <2>1 DEF ThreadStep, ReserveStack, InsertThread, FillThread, LoadDirectory, WriteStack,
                RestoreDirectory, Preempt, process_create, FindStack, TableFault
  <2>3. CreationsInv
    BY <2>2 DEF ProcessesInv
  <2>4. CASE ThreadStep(c)
    BY <2>3, <2>4, ReserveKeeps, InsertThreadKeeps, FillThreadKeeps, LoadDirectoryKeeps,
       WriteStackKeeps, RestoreDirectoryKeeps DEF ThreadStep
  <2> QED BY <2>1, <2>3, <2>4, PreemptKeeps, ProcessCreateKeeps, FindStackKeeps, TableFaultKeeps
<1> QED BY <1>1, <1>2

\* Whatever the scheduler runs between the steps of thread_create
\* (process.cpp), the inductive invariant holds.
THEOREM ProcessesInvariance == ProcessesSpec => []ProcessesInv
<1>1. ProcessesInit => ProcessesInv
  BY ProcessesStart
<1>2. ProcessesInv /\ [ProcessesNext]_processVars => ProcessesInv'
  BY CreationsStep
<1> QED BY <1>1, <1>2, PTL DEF ProcessesSpec

LEMMA OwnStacks == ProcessesInv => StartsOnOwnStack
<1> SUFFICES ASSUME ProcessesInv, ~overlapped, NEW pt \in Created, Directory(pt[1]) # 0
             PROVE  holds[PageOf(Directory(pt[1]), procs[pt[1]].threads[pt[2]])] = pt
  BY DEF StartsOnOwnStack
<1>1. MemoryInv /\ ProcessesTyped /\ CreationInv /\ StacksApart /\ StacksKept
  BY DEF CreationsInv, ProcessesInv
<1>2. PICK p \in DOMAIN procs, t \in 1 .. MaxThreads :
        /\ pt = <<p, t>> /\ t \in DOMAIN procs[p].threads
        /\ \A c \in Creator : doing[c] # Idle => doing[c].proc # p \/ t < Len(procs[p].threads)
  BY DEF Created
<1>3. procs[p].threads \in Seq(Nat)
  <2>1. procs \in Seq(Pcb)
    BY <1>1 DEF ProcessesTyped
  <2>2. procs[p] \in Pcb
    BY <2>1
  <2> QED BY <2>2 DEF Pcb
<1>4. HasStack(p, t) /\ ~Unwritten(p, t)
  <2>1. \A c \in Creator : doing[c].at # "idle" => doing[c].proc # p \/ t # Len(procs[p].threads)
    BY <1>2, <1>3 DEF Idle
  <2> QED BY <1>2, <2>1 DEF HasStack, Unwritten
<1>5. holds[tables[2][procs[p].threads[t]]] = <<p, t>>
  BY <1>1, <1>4 DEF StacksKept
<1>6. PageOf(Directory(p), procs[p].threads[t]) = tables[2][procs[p].threads[t]]
  BY <1>1, <1>2, PagesAlike DEF ProcessesTyped
<1> QED BY <1>2, <1>5, <1>6

\* A new thread finds its own trap frame at the top of its stack, in the
\* directory of its process (process.cpp thread_create).
THEOREM NewThreadsStartOnOwnStack == ProcessesSpec => []StartsOnOwnStack
  BY ProcessesInvariance, OwnStacks, PTL

-----------------------------------------------------------------------------
(* The address space *)

\* The areas of c lie in order between the guards.
Ordered(c) ==
  /\ c \in Seq(Area) /\ Len(c) >= 2
  /\ c[1] = Guard(Low) /\ c[Len(c)] = Guard(High - 1)
  /\ \A i \in 1..Len(c) : Low <= c[i].start /\ c[i].start < c[i].end /\ c[i].end <= High
  /\ \A i, j \in 1..Len(c) : i < j => c[i].end <= c[j].start

LEMMA OrderedFacts ==
  ASSUME NEW c, Ordered(c)
  PROVE  /\ c \in Seq(Area) /\ Len(c) \in Nat /\ Len(c) >= 2 /\ 1 \in 1..Len(c)
         /\ c[1].start = Low /\ c[Len(c)].start = High - 1
         /\ \A i \in 1..Len(c) : c[i].start \in Nat /\ c[i].end \in Nat /\ c[i].start < c[i].end
         /\ \A i \in 1..Len(c) : Low <= c[i].start /\ c[i].end <= High
         /\ \A i, j \in 1..Len(c) : i < j => c[i].end <= c[j].start
<1>1. c \in Seq(Area) /\ Len(c) \in Nat /\ Len(c) >= 2 /\ 1 \in 1..Len(c)
  BY DEF Ordered
<1>2. c[1].start = Low /\ c[Len(c)].start = High - 1
  BY DEF Ordered, Guard
<1>3. \A i \in 1..Len(c) : c[i].start \in Nat /\ c[i].end \in Nat
  <2> TAKE i \in 1..Len(c)
  <2>1. c[i] \in Area
    BY <1>1
  <2> QED BY <2>1 DEF Area
<1>4. \A i \in 1..Len(c) : c[i].start < c[i].end /\ Low <= c[i].start /\ c[i].end <= High
  BY DEF Ordered
<1>5. \A i, j \in 1..Len(c) : i < j => c[i].end <= c[j].start
  BY DEF Ordered
<1> QED BY <1>1, <1>2, <1>3, <1>4, <1>5

\* What starts before a page comes first in the contract.
LEMMA Segment ==
  ASSUME NEW n \in Nat, NEW S \in SUBSET (1..n), \A i, j \in 1..n : i < j /\ j \in S => i \in S
  PROVE  Cardinality(S) \in 0..n /\ S = 1..Cardinality(S)
<1>1. CASE S = {}
  BY <1>1, FS_EmptySet
<1>2. CASE S # {}
  <2>1. S \in SUBSET (0..n)
    OBVIOUS
  <2>2. PICK m \in S : \A y \in S : y <= m
    BY <1>2, <2>1, GreatestElement
  <2>3. S = 1..m /\ m \in 1..n
    <3>1. m \in 1..n /\ \A y \in S : y \in 1..m
      BY <2>2
    <3>2. \A y \in 1..m : y = m \/ (y < m /\ y \in 1..n)
      BY <3>1
    <3>3. \A y \in 1..m : y \in S
      BY <2>2, <3>1, <3>2
    <3> QED BY <3>1, <3>3
  <2>4. Cardinality(1..m) = m
    BY <2>3, FS_Interval
  <2> QED BY <2>3, <2>4
<1> QED BY <1>1, <1>2

LEMMA SearchFacts ==
  ASSUME NEW c, Ordered(c), NEW p \in Int
  PROVE  /\ LastBefore(c, p) \in 0..Len(c)
         /\ \A i \in 1..Len(c) : c[i].start < p <=> i <= LastBefore(c, p)
<1> DEFINE S == {i \in 1..Len(c) : c[i].start < p}
<1>1. Len(c) \in Nat /\ S \in SUBSET (1..Len(c))
  BY OrderedFacts
<1>2. \A i \in 1..Len(c) : c[i].start \in Nat
  BY OrderedFacts
<1>3. ASSUME NEW i \in 1..Len(c), NEW j \in 1..Len(c), i < j
      PROVE  c[i].start < c[j].start
  <2>1. /\ c[i].start \in Nat /\ c[i].end \in Nat /\ c[j].start \in Nat
        /\ c[i].start < c[i].end /\ c[i].end <= c[j].start
    BY <1>3, OrderedFacts
  <2> QED BY <2>1
<1>4. \A i, j \in 1..Len(c) : i < j /\ j \in S => i \in S
  BY <1>2, <1>3
<1>5. LastBefore(c, p) = Cardinality(S)
  BY DEF LastBefore
<1> HIDE DEF S
<1>6. Cardinality(S) \in 0..Len(c) /\ S = 1..Cardinality(S)
  BY <1>1, <1>4, Segment
<1>7. \A i \in 1..Len(c) : i \in S <=> i <= Cardinality(S)
  BY <1>6
<1> QED BY <1>5, <1>6, <1>7 DEF S

\* The search finds the area that holds a page, or that there is none.
LEMMA FindFacts ==
  ASSUME NEW c, Ordered(c), NEW p \in Low .. High - 1
  PROVE  \/ /\ FindArea(c, p) = NoArea
            /\ \A i \in 1..Len(c) : ~(c[i].start <= p /\ p < c[i].end)
         \/ \E i \in 1..Len(c) : FindArea(c, p) = c[i] /\ c[i].start <= p /\ p < c[i].end
<1> DEFINE k == LastBefore(c, p)
<1>1. p \in Int /\ ~(p < Low \/ p >= High) /\ Low \in Nat /\ High \in Nat
  BY VmContractAssumption
<1>2. k \in 0..Len(c) /\ \A i \in 1..Len(c) : c[i].start < p <=> i <= k
  BY <1>1, SearchFacts
<1>3. /\ Len(c) \in Nat /\ 1 \in 1..Len(c) /\ c[1].start = Low
      /\ \A i \in 1..Len(c) : c[i].start \in Nat /\ c[i].end \in Nat /\ c[i].start < c[i].end
      /\ \A i, j \in 1..Len(c) : i < j => c[i].end <= c[j].start
  BY OrderedFacts
<1> HIDE DEF k
<1>4. CASE StartsAt(c, p)
  <2>1. PICK j \in 1..Len(c) : c[j].start = p
    BY <1>4 DEF StartsAt
  <2>2. \A i \in 1..Len(c) : i < j => c[i].start < p
    <3> TAKE i \in 1..Len(c)
    <3> HAVE i < j
    <3>1. /\ c[i].start \in Nat /\ c[i].end \in Nat /\ c[i].start < c[i].end
          /\ c[i].end <= c[j].start /\ c[j].start = p
      BY <1>3, <2>1
    <3> QED BY <1>1, <3>1
  <2>3. k = j - 1
    <3>1. ~(j <= k)
      BY <1>2, <2>1, <1>3
    <3>2. j - 1 = 0 \/ j - 1 \in 1..Len(c)
      BY <2>1, <1>3
    <3>3. j - 1 <= k
      BY <1>2, <2>1, <2>2, <3>2
    <3> QED BY <1>2, <1>3, <2>1, <3>1, <3>3
  <2>4. FindArea(c, p) = c[j]
    BY <1>1, <1>4, <2>3 DEF FindArea, k
  <2> QED BY <1>1, <1>3, <2>1, <2>4
<1>5. CASE ~StartsAt(c, p)
  <2>1. \A i \in 1..Len(c) : c[i].start # p
    BY <1>5 DEF StartsAt
  <2>2. k \in 1..Len(c)
    BY <1>1, <1>2, <1>3, <2>1
  <2>3. FindArea(c, p) = IF p <= c[k].end - 1 THEN c[k] ELSE NoArea
    BY <1>1, <1>5 DEF FindArea, k
  <2>4. CASE p <= c[k].end - 1
    BY <1>1, <1>2, <1>3, <2>2, <2>3, <2>4
  <2>5. CASE ~(p <= c[k].end - 1)
    <3>1. c[k].end <= p
      BY <1>1, <1>3, <2>2, <2>5
    <3>2. ASSUME NEW i \in 1..Len(c)
          PROVE  ~(c[i].start <= p /\ p < c[i].end)
      <4>1. CASE i < k
        BY <1>1, <1>3, <2>2, <3>1, <4>1
      <4>2. CASE i = k
        BY <1>1, <1>3, <2>2, <3>1, <4>2
      <4>3. CASE i > k
        <5>1. ~(c[i].start < p) /\ c[i].start # p
          BY <1>2, <2>1, <2>2, <4>3
        <5> QED BY <1>1, <1>3, <5>1
      <4> QED BY <2>2, <4>1, <4>2, <4>3
    <3> QED BY <2>3, <2>5, <3>2
  <2> QED BY <2>4, <2>5
<1> QED BY <1>4, <1>5

LEMMA OrderedIsInOrder ==
  ASSUME NEW c, Ordered(c)
  PROVE  ContractInOrder(c)
<1>1. \A i, j \in 1..Len(c) : i < j => c[i].end <= c[j].start
  BY DEF Ordered
<1>2. ASSUME NEW p \in Low .. High - 1
      PROVE  LET holding == {i \in 1..Len(c) : c[i].start <= p /\ p < c[i].end}
             IN  IF holding = {} THEN FindArea(c, p) = NoArea
                                 ELSE \E i \in holding : FindArea(c, p) = c[i]
  BY FindFacts
<1> QED BY <1>1, <1>2 DEF ContractInOrder

\* A page is in one area at most.
LEMMA OneArea ==
  ASSUME NEW c, Ordered(c), NEW p \in Low .. High - 1,
         NEW i \in 1..Len(c), c[i].start <= p, p < c[i].end,
         NEW j \in 1..Len(c), c[j].start <= p, p < c[j].end
  PROVE  i = j
<1>1. /\ Len(c) \in Nat /\ Low \in Nat /\ High \in Nat
      /\ c[i].start \in Nat /\ c[i].end \in Nat /\ c[j].start \in Nat /\ c[j].end \in Nat
      /\ i < j => c[i].end <= c[j].start
      /\ j < i => c[j].end <= c[i].start
  BY OrderedFacts, VmContractAssumption
<1> QED BY <1>1

\* An area goes between the last one before it and the next.
LEMMA InsertedOrdered ==
  ASSUME NEW c, Ordered(c), NEW a \in Area, MayAdd(c, a)
  PROVE  /\ Ordered(Inserted(c, a))
         /\ \A i \in 1..Len(Inserted(c, a)) :
              Inserted(c, a)[i] = a \/ \E j \in 1..Len(c) : Inserted(c, a)[i] = c[j]
         /\ \E i \in 1..Len(Inserted(c, a)) : Inserted(c, a)[i] = a
         /\ \A j \in 1..Len(c) : \E i \in 1..Len(Inserted(c, a)) : Inserted(c, a)[i] = c[j]
<1> DEFINE k == LastBefore(c, a.start)
           r == Inserted(c, a)
           n == Len(c)
<1>1. /\ a.start \in Nat /\ a.end \in Nat /\ a.start < a.end /\ a.start >= Low /\ a.end - 1 < High
      /\ ~StartsAt(c, a.start) /\ ~Intersects(c[k], a) /\ ~Intersects(c[k + 1], a)
      /\ Low \in Nat /\ High \in Nat
  BY VmContractAssumption DEF MayAdd, Area
<1>2. k \in 0..n /\ \A i \in 1..n : c[i].start < a.start <=> i <= k
  <2>1. a.start \in Int
    BY <1>1
  <2> QED BY <2>1, SearchFacts
<1>3. /\ c \in Seq(Area) /\ n \in Nat /\ n >= 2
      /\ c[1] = Guard(Low) /\ c[n] = Guard(High - 1)
      /\ c[1].start = Low /\ c[n].start = High - 1
      /\ \A i \in 1..n : /\ c[i].start \in Nat /\ c[i].end \in Nat /\ c[i].start < c[i].end
                         /\ Low <= c[i].start /\ c[i].end <= High
      /\ \A i, j \in 1..n : i < j => c[i].end <= c[j].start
  <2>1. c[1] = Guard(Low) /\ c[n] = Guard(High - 1)
    BY DEF Ordered
  <2> QED BY <2>1, OrderedFacts
<1>4. k \in 1..n - 1
  <2>1. c[1].start # a.start /\ c[n].start # a.start
    BY <1>1, <1>3 DEF StartsAt
  <2>2. 1 <= k
    BY <1>1, <1>2, <1>3, <2>1
  <2>3. ~(n <= k)
    BY <1>1, <1>2, <1>3, <2>1
  <2> QED BY <1>2, <1>3, <2>2, <2>3
<1>5. c[k].end <= a.start
  <2>1. k \in 1..n /\ c[k].start < a.start
    BY <1>2, <1>3, <1>4
  <2>2. /\ c[k].start \in Nat /\ c[k].end \in Nat /\ a.start \in Nat /\ a.end \in Nat
        /\ a.start < a.end
    BY <1>1, <1>3, <2>1
  <2>3. ~(c[k].start > a.end - 1)
    BY <2>1, <2>2
  <2>4. c[k].end - 1 < a.start
    <3>1. ~Intersects(c[k], a)
      BY <1>1
    <3> QED BY <2>3, <3>1 DEF Intersects
  <2> QED BY <2>2, <2>4
<1>6. a.end <= c[k + 1].start
  <2>1. k + 1 \in 1..n /\ ~(k + 1 <= k)
    BY <1>3, <1>4
  <2>2. ~(c[k + 1].start < a.start)
    BY <1>2, <2>1
  <2>3. /\ c[k + 1].start \in Nat /\ c[k + 1].end \in Nat /\ c[k + 1].start < c[k + 1].end
        /\ a.start \in Nat /\ a.end \in Nat
    BY <1>1, <1>3, <2>1
  <2>4. ~(c[k + 1].end - 1 < a.start)
    BY <2>2, <2>3
  <2>5. c[k + 1].start > a.end - 1
    <3>1. ~Intersects(c[k + 1], a)
      BY <1>1
    <3> QED BY <2>4, <3>1 DEF Intersects
  <2> QED BY <2>3, <2>5
<1>7. r = SubSeq(c, 1, k) \o <<a>> \o SubSeq(c, k + 1, n)
  BY DEF Inserted
<1> HIDE DEF k, r
<1>8. /\ r \in Seq(Area) /\ Len(r) = n + 1
      /\ \A i \in 1..k : r[i] = c[i]
      /\ r[k + 1] = a
      /\ \A i \in k + 2 .. n + 1 : r[i] = c[i - 1]
  <2>1. /\ SubSeq(c, 1, k) \in Seq(Area) /\ Len(SubSeq(c, 1, k)) = k
        /\ \A i \in 1..k : SubSeq(c, 1, k)[i] = c[i]
    BY <1>3, <1>4
  <2>2. /\ SubSeq(c, k + 1, n) \in Seq(Area) /\ Len(SubSeq(c, k + 1, n)) = n - k
        /\ \A i \in 1..n - k : SubSeq(c, k + 1, n)[i] = c[k + i]
    BY <1>3, <1>4
  <2> DEFINE l == SubSeq(c, 1, k)
             u == SubSeq(c, k + 1, n)
  <2>3. r = (l \o <<a>>) \o u
    BY <1>7
  <2>4. l \in Seq(Area) /\ Len(l) = k /\ u \in Seq(Area) /\ Len(u) = n - k
    BY <2>1, <2>2
  <2> HIDE DEF l, u
  <2>5. r \in Seq(Area) /\ Len(r) = n + 1
    BY <1>3, <1>4, <2>3, <2>4
  <2>6. (\A i \in 1..k : r[i] = l[i]) /\ r[k + 1] = a
    BY <1>3, <1>4, <2>3, <2>4
  <2>7. \A i \in k + 2 .. n + 1 : r[i] = u[i - k - 1]
    BY <1>3, <1>4, <2>3, <2>4
  <2>8. \A i \in k + 2 .. n + 1 : r[i] = c[i - 1]
    <3> TAKE i \in k + 2 .. n + 1
    <3>1. i - k - 1 \in 1..n - k /\ k + (i - k - 1) = i - 1
      BY <1>3, <1>4
    <3> QED BY <2>2, <2>7, <3>1 DEF u
  <2> QED BY <2>1, <2>5, <2>6, <2>8 DEF l
<1>9. \A i \in 1..n + 1 : \/ i \in 1..k /\ i \in 1..n
                          \/ i = k + 1
                          \/ i \in k + 2 .. n + 1 /\ i - 1 \in k + 1 .. n /\ i - 1 \in 1..n
  BY <1>3, <1>4
<1>10. \A i \in 1..n + 1 : r[i] = a \/ \E j \in 1..n : r[i] = c[j]
  BY <1>8, <1>9
<1>11. r[1] = Guard(Low) /\ r[Len(r)] = Guard(High - 1)
  BY <1>3, <1>4, <1>8
<1>12. \A i \in 1..n + 1 : Low <= r[i].start /\ r[i].start < r[i].end /\ r[i].end <= High
  <2> TAKE i \in 1..n + 1
  <2>1. Low <= a.start /\ a.start < a.end /\ a.end <= High
    BY <1>1
  <2>2. \A j \in 1..n : Low <= c[j].start /\ c[j].start < c[j].end /\ c[j].end <= High
    BY <1>3
  <2> QED BY <1>10, <2>1, <2>2
<1>13. ASSUME NEW i \in 1..n + 1, NEW j \in 1..n + 1, i < j
       PROVE  r[i].end <= r[j].start
  <2>0. \A x \in 1..k : c[x].end <= a.start
    <3> TAKE x \in 1..k
    <3>1. x = k \/ (x < k /\ x \in 1..n /\ k \in 1..n)
      BY <1>3, <1>4
    <3>2. x < k => c[x].end <= c[k].start /\ c[k].start < c[k].end
      BY <1>3, <3>1
    <3>3. x \in 1..n /\ k \in 1..n
      BY <1>3, <1>4
    <3>4. /\ c[x].end \in Nat /\ c[k].end \in Nat /\ c[k].start \in Nat /\ a.start \in Nat
          /\ x < k => c[x].end <= c[k].start /\ c[k].start < c[k].end
      BY <1>1, <1>3, <3>2, <3>3
    <3>5. CASE x = k
      BY <1>5, <3>5
    <3>6. CASE x < k
      BY <1>5, <3>4, <3>6
    <3> QED BY <3>1, <3>5, <3>6
  <2>1. \A x \in k + 1 .. n : a.end <= c[x].start
    <3> TAKE x \in k + 1 .. n
    <3>1. x = k + 1 \/ (k + 1 < x /\ x \in 1..n /\ k + 1 \in 1..n)
      BY <1>3, <1>4
    <3>2. k + 1 < x => c[k + 1].end <= c[x].start /\ c[k + 1].start < c[k + 1].end
      BY <1>3, <3>1
    <3>3. x \in 1..n /\ k + 1 \in 1..n
      BY <1>3, <1>4
    <3>4. /\ c[x].start \in Nat /\ c[k + 1].end \in Nat /\ c[k + 1].start \in Nat /\ a.end \in Nat
          /\ k + 1 < x => c[k + 1].end <= c[x].start /\ c[k + 1].start < c[k + 1].end
      BY <1>1, <1>3, <3>2, <3>3
    <3>5. CASE x = k + 1
      BY <1>6, <3>5
    <3>6. CASE k + 1 < x
      BY <1>6, <3>4, <3>6
    <3> QED BY <3>1, <3>5, <3>6
  <2>2. CASE i \in 1..k /\ j \in 1..k
    <3>1. i \in 1..n /\ j \in 1..n /\ r[i] = c[i] /\ r[j] = c[j]
      BY <1>3, <1>4, <1>8, <2>2
    <3> QED BY <1>3, <1>13, <3>1
  <2>3. CASE i \in 1..k /\ j = k + 1
    BY <1>8, <2>0, <2>3
  <2>4. CASE i \in 1..k /\ j \in k + 2 .. n + 1
    <3>1. i \in 1..n /\ j - 1 \in 1..n /\ i < j - 1
      BY <1>3, <1>4, <2>4
    <3> QED BY <1>3, <1>8, <2>4, <3>1
  <2>5. CASE i = k + 1 /\ j \in k + 2 .. n + 1
    <3>1. j - 1 \in k + 1 .. n
      BY <1>3, <1>4, <2>5
    <3> QED BY <1>8, <2>1, <2>5, <3>1
  <2>6. CASE i \in k + 2 .. n + 1 /\ j \in k + 2 .. n + 1
    <3>1. i - 1 \in 1..n /\ j - 1 \in 1..n /\ i - 1 < j - 1
      BY <1>3, <1>4, <1>13, <2>6
    <3> QED BY <1>3, <1>8, <2>6, <3>1
  <2> QED BY <1>3, <1>4, <1>9, <1>13, <2>2, <2>3, <2>4, <2>5, <2>6
<1>14. Ordered(r)
  BY <1>3, <1>8, <1>11, <1>12, <1>13 DEF Ordered
<1>15. \E i \in 1..Len(r) : r[i] = a
  <2>1. k + 1 \in 1..Len(r)
    BY <1>3, <1>4, <1>8
  <2> QED BY <1>8, <2>1
<1>16. ASSUME NEW j \in 1..n
       PROVE  \E i \in 1..Len(r) : r[i] = c[j]
  <2>1. CASE j \in 1..k
    <3>1. j \in 1..Len(r)
      BY <1>3, <1>8
    <3> QED BY <1>8, <2>1, <3>1
  <2>2. CASE j \notin 1..k
    <3>1. j + 1 \in k + 2 .. n + 1 /\ j + 1 \in 1..Len(r) /\ (j + 1) - 1 = j
      BY <1>3, <1>4, <1>8, <2>2
    <3> QED BY <1>8, <3>1
  <2> QED BY <2>1, <2>2
<1> QED BY <1>8, <1>10, <1>14, <1>15, <1>16 DEF r

\* What is added holds no page of what was there.
LEMMA InsertedApart ==
  ASSUME NEW c, Ordered(c), NEW a \in Area, MayAdd(c, a),
         NEW j \in 1..Len(c), NEW p \in Low .. High - 1,
         c[j].start <= p, p < c[j].end, a.start <= p, p < a.end
  PROVE  FALSE
<1>1. PICK r : r = Inserted(c, a)
  OBVIOUS
<1>2. Ordered(r)
  BY <1>1, InsertedOrdered
<1>3. PICK i \in 1..Len(r) : r[i] = a
  BY <1>1, InsertedOrdered
<1>4. PICK m \in 1..Len(r) : r[m] = c[j]
  BY <1>1, InsertedOrdered
<1>5. i = m
  BY <1>2, <1>3, <1>4, OneArea
<1>6. c[j].start = a.start
  BY <1>3, <1>4, <1>5
<1> QED BY <1>6 DEF MayAdd, StartsAt

-----------------------------------------------------------------------------
(* The paging functions *)

Entry == [present : BOOLEAN, frame : Nat]
Tables == {TableOf(p) : p \in Page}

SpaceTyped(s) ==
  /\ s.memory.bitmap \subseteq Block
  /\ s.memory.used = Cardinality(s.memory.bitmap)
  /\ s.directory \in [Tables -> Nat] /\ s.page_table \in [Page -> Entry]

\* D are the pages of devices.
BackedIn(s, D) == {p \in Page : s.page_table[p].present /\ p \notin D}
TablesIn(s) == {s.directory[t] : t \in Tables} \ {0}

\* The blocks in use that back no page
NotOfPages(s) == BootBlocks \cup TablesIn(s) \cup s.leaked

\* A block backs one page or one table; inhand are the blocks that a call has
\* taken and given to nobody yet.
SpaceApart(s, D, inhand) ==
  /\ \A p, q \in BackedIn(s, D) : s.page_table[p].frame = s.page_table[q].frame => p = q
  /\ \A t, u \in Tables : s.directory[t] # 0 /\ s.directory[t] = s.directory[u] => t = u
  /\ \A p \in BackedIn(s, D) : s.page_table[p].frame \notin NotOfPages(s)
  /\ \A p \in Page : s.page_table[p].present /\ p \in D => s.page_table[p].frame = p
  /\ \A f \in inhand : f \notin NotOfPages(s) /\ \A p \in BackedIn(s, D) : s.page_table[p].frame # f

SpaceAccounted(s, D, inhand) ==
  s.memory.bitmap = NotOfPages(s) \cup {s.page_table[p].frame : p \in BackedIn(s, D)} \cup inhand

SpaceSound(s, D, inhand) ==
  SpaceTyped(s) /\ SpaceApart(s, D, inhand) /\ SpaceAccounted(s, D, inhand)

\* Only what the paging functions read and write of a space matters.
SameMaps(r, s) == r.directory = s.directory /\ r.page_table = s.page_table

\* pmmngr_alloc_block gives a block that was free.
LEMMA BlockTaken ==
  ASSUME NEW s, NEW D, NEW F, SpaceSound(s, D, F), NextBlock(s.memory) # 0,
         NEW r, r.memory = Allocated(s.memory), SameMaps(r, s), r.leaked = s.leaked
  PROVE  /\ SpaceSound(r, D, F \cup {NextBlock(s.memory)})
         /\ NextBlock(s.memory) \in Block /\ NextBlock(s.memory) \notin F
<1> DEFINE b == NextBlock(s.memory)
<1>1. b \in Block /\ b \notin s.memory.bitmap
  BY NextIsFree
<1>2. r.memory.bitmap = s.memory.bitmap \cup {b} /\ r.memory.used = s.memory.used + 1
  BY DEF Allocated
<1> HIDE DEF b
<1>3. IsFiniteSet(s.memory.bitmap)
  <2>1. IsFiniteSet(Block)
    BY FS_Interval, PhysicalMemoryAssumption DEF Block
  <2> QED BY <2>1, FS_Subset DEF SpaceSound, SpaceTyped
<1>4. SpaceTyped(r)
  <2>1. Cardinality(s.memory.bitmap \cup {b}) = Cardinality(s.memory.bitmap) + 1
    BY <1>1, <1>3, FS_AddElement
  <2> QED BY <1>1, <1>2, <2>1 DEF SpaceSound, SpaceTyped, SameMaps
<1>5. /\ BackedIn(r, D) = BackedIn(s, D) /\ NotOfPages(r) = NotOfPages(s)
      /\ r.page_table = s.page_table /\ r.directory = s.directory
  BY DEF SameMaps, BackedIn, NotOfPages, TablesIn
<1>6. b \notin NotOfPages(s) /\ (\A p \in BackedIn(s, D) : s.page_table[p].frame # b) /\ b \notin F
  BY <1>1 DEF SpaceSound, SpaceAccounted
<1>7. SpaceApart(r, D, F \cup {b})
  BY <1>5, <1>6 DEF SpaceSound, SpaceApart
<1>8. SpaceAccounted(r, D, F \cup {b})
  BY <1>2, <1>5 DEF SpaceSound, SpaceAccounted
<1> QED BY <1>1, <1>4, <1>6, <1>7, <1>8 DEF SpaceSound, b

\* vmmngr_create_table: a block in hand becomes a table.
LEMMA TableMade ==
  ASSUME NEW s, NEW D, NEW F, NEW b \in Block, b # 0, b \notin F, SpaceSound(s, D, F \cup {b}),
         NEW t \in Tables, s.directory[t] = 0,
         NEW r, r.memory = s.memory, r.page_table = s.page_table, r.leaked = s.leaked,
         r.directory = [s.directory EXCEPT ![t] = b]
  PROVE  SpaceSound(r, D, F)
<1>1. b \in Nat
  BY PhysicalMemoryAssumption DEF Block
<1>2. s.directory \in [Tables -> Nat]
  BY DEF SpaceSound, SpaceTyped
<1>3. /\ r.directory \in [Tables -> Nat] /\ r.directory[t] = b
      /\ \A u \in Tables : u # t => r.directory[u] = s.directory[u]
  BY <1>1, <1>2
<1>4. SpaceTyped(r)
  BY <1>3 DEF SpaceSound, SpaceTyped
<1>5. TablesIn(r) = TablesIn(s) \cup {b}
  <2>1. \A x \in TablesIn(r) : x \in TablesIn(s) \cup {b}
    BY <1>3 DEF TablesIn
  <2>2. b \in TablesIn(r)
    BY <1>3 DEF TablesIn
  <2>3. ASSUME NEW x \in TablesIn(s)
        PROVE  x \in TablesIn(r)
    <3>1. PICK u \in Tables : x = s.directory[u] /\ x # 0
      BY DEF TablesIn
    <3>2. u # t
      BY <3>1
    <3> QED BY <1>3, <3>1, <3>2 DEF TablesIn
  <2> QED BY <2>1, <2>2, <2>3
<1>6. BackedIn(r, D) = BackedIn(s, D) /\ NotOfPages(r) = NotOfPages(s) \cup {b}
  BY <1>5 DEF BackedIn, NotOfPages
<1>7. /\ b \notin NotOfPages(s)
      /\ \A p \in BackedIn(s, D) : s.page_table[p].frame # b
  BY DEF SpaceSound, SpaceApart
<1>8. \A u \in Tables : s.directory[u] # b
  BY <1>7 DEF NotOfPages, TablesIn
<1>9. SpaceApart(r, D, F)
  <2>1. \A u, v \in Tables : r.directory[u] # 0 /\ r.directory[u] = r.directory[v] => u = v
    BY <1>3, <1>8 DEF SpaceSound, SpaceApart
  <2> QED BY <1>6, <1>7, <2>1 DEF SpaceSound, SpaceApart
<1>10. SpaceAccounted(r, D, F)
  BY <1>6 DEF SpaceSound, SpaceAccounted
<1> QED BY <1>4, <1>9, <1>10 DEF SpaceSound

\* A block in hand comes to back a page that had none.
LEMMA PageBacked ==
  ASSUME NEW s, NEW D, NEW b \in Block, SpaceSound(s, D, {b}),
         NEW p \in Page, p \notin D, ~s.page_table[p].present,
         NEW r, r.memory = s.memory, r.directory = s.directory, r.leaked = s.leaked,
         r.page_table = [s.page_table EXCEPT ![p] = [present |-> TRUE, frame |-> b]]
  PROVE  SpaceSound(r, D, {})
<1>1. b \in Nat
  BY PhysicalMemoryAssumption DEF Block
<1>2. s.page_table \in [Page -> Entry] /\ [present |-> TRUE, frame |-> b] \in Entry
  BY <1>1 DEF SpaceSound, SpaceTyped, Entry
<1>3. /\ r.page_table \in [Page -> Entry]
      /\ r.page_table[p].present = TRUE /\ r.page_table[p].frame = b
      /\ \A q \in Page : q # p => r.page_table[q] = s.page_table[q]
  BY <1>2
<1>4. SpaceTyped(r)
  BY <1>3 DEF SpaceSound, SpaceTyped
<1>5. BackedIn(r, D) = BackedIn(s, D) \cup {p} /\ p \notin BackedIn(s, D)
  BY <1>3 DEF BackedIn
<1>6. NotOfPages(r) = NotOfPages(s)
  BY DEF NotOfPages, TablesIn
<1>7. \A q \in BackedIn(s, D) : q \in Page /\ q # p /\ r.page_table[q].frame = s.page_table[q].frame
  BY <1>3, <1>5 DEF BackedIn
<1>8. b \notin NotOfPages(s) /\ \A q \in BackedIn(s, D) : s.page_table[q].frame # b
  BY DEF SpaceSound, SpaceApart
<1>9. SpaceApart(r, D, {})
  <2>1. \A q, x \in BackedIn(r, D) : r.page_table[q].frame = r.page_table[x].frame => q = x
    BY <1>3, <1>5, <1>7, <1>8 DEF SpaceSound, SpaceApart
  <2>2. \A q \in BackedIn(r, D) : r.page_table[q].frame \notin NotOfPages(r)
    BY <1>3, <1>5, <1>6, <1>7, <1>8 DEF SpaceSound, SpaceApart
  <2>3. \A q \in Page : r.page_table[q].present /\ q \in D => r.page_table[q].frame = q
    BY <1>3 DEF SpaceSound, SpaceApart
  <2> QED BY <2>1, <2>2, <2>3 DEF SpaceSound, SpaceApart
<1>10. {r.page_table[q].frame : q \in BackedIn(r, D)} = {s.page_table[q].frame : q \in BackedIn(s, D)} \cup {b}
  BY <1>3, <1>5, <1>7
<1>11. SpaceAccounted(r, D, {})
  BY <1>6, <1>10 DEF SpaceSound, SpaceAccounted
<1> QED BY <1>4, <1>9, <1>11 DEF SpaceSound

\* A device's page is mapped to itself, and a page that is there again to its
\* own block.
LEMMA PageMapped ==
  ASSUME NEW s, NEW D, NEW F, SpaceSound(s, D, F), NEW p \in Page, NEW f \in Nat,
         IF p \notin D THEN s.page_table[p].present /\ f = s.page_table[p].frame ELSE f = p,
         NEW r, r.memory = s.memory, r.directory = s.directory, r.leaked = s.leaked,
         r.page_table = [s.page_table EXCEPT ![p] = [present |-> TRUE, frame |-> f]]
  PROVE  SpaceSound(r, D, F)
<1>1. s.page_table \in [Page -> Entry] /\ [present |-> TRUE, frame |-> f] \in Entry
  BY DEF SpaceSound, SpaceTyped, Entry
<1>2. /\ r.page_table \in [Page -> Entry]
      /\ r.page_table[p].present = TRUE /\ r.page_table[p].frame = f
      /\ \A q \in Page : q # p => r.page_table[q] = s.page_table[q]
  BY <1>1
<1>3. SpaceTyped(r)
  BY <1>2 DEF SpaceSound, SpaceTyped
<1>4. BackedIn(r, D) = BackedIn(s, D) /\ NotOfPages(r) = NotOfPages(s)
  BY <1>2 DEF BackedIn, NotOfPages, TablesIn
<1>5. \A q \in BackedIn(s, D) : r.page_table[q].frame = s.page_table[q].frame
  BY <1>2 DEF BackedIn
<1>6. \A q \in Page : r.page_table[q].present /\ q \in D => r.page_table[q].frame = q
  BY <1>2 DEF SpaceSound, SpaceApart
<1>7. SpaceApart(r, D, F)
  BY <1>4, <1>5, <1>6 DEF SpaceSound, SpaceApart
<1>8. SpaceAccounted(r, D, F)
  BY <1>4, <1>5 DEF SpaceSound, SpaceAccounted
<1> QED BY <1>3, <1>7, <1>8 DEF SpaceSound

\* A block in hand is lost.
LEMMA BlockLost ==
  ASSUME NEW s, NEW D, NEW b, SpaceSound(s, D, {b}),
         NEW r, r.memory = s.memory, SameMaps(r, s), r.leaked = s.leaked \cup {b}
  PROVE  SpaceSound(r, D, {})
<1>1. /\ BackedIn(r, D) = BackedIn(s, D) /\ NotOfPages(r) = NotOfPages(s) \cup {b}
      /\ r.page_table = s.page_table /\ r.directory = s.directory
  BY DEF SameMaps, BackedIn, NotOfPages, TablesIn
<1>2. SpaceTyped(r)
  BY <1>1 DEF SpaceSound, SpaceTyped
<1>3. SpaceApart(r, D, {})
  BY <1>1 DEF SpaceSound, SpaceApart
<1>4. SpaceAccounted(r, D, {})
  BY <1>1 DEF SpaceSound, SpaceAccounted
<1> QED BY <1>2, <1>3, <1>4 DEF SpaceSound

LEMMA RemoveOne ==
  ASSUME NEW S, IsFiniteSet(S), NEW x \in S
  PROVE  Cardinality(S \ {x}) = Cardinality(S) - 1
BY FS_RemoveElement

\* vmmngr_free_page of a page that has a block
LEMMA PageFreed ==
  ASSUME NEW s, NEW D, SpaceSound(s, D, {}), NEW p \in Page, p \notin D, s.page_table[p].present,
         NEW r, r.memory = Freed(s.memory, s.page_table[p].frame),
         r.directory = s.directory, r.leaked = s.leaked,
         r.page_table = [s.page_table EXCEPT ![p].present = FALSE]
  PROVE  SpaceSound(r, D, {})
<1> DEFINE f == s.page_table[p].frame
<1>1. s.page_table \in [Page -> Entry] /\ p \in BackedIn(s, D)
  BY DEF SpaceSound, SpaceTyped, BackedIn
<1>2. [s.page_table[p] EXCEPT !.present = FALSE] \in Entry
      /\ [s.page_table[p] EXCEPT !.present = FALSE].present = FALSE
  BY <1>1 DEF Entry
<1>3. /\ r.page_table \in [Page -> Entry] /\ r.page_table[p].present = FALSE
      /\ \A q \in Page : q # p => r.page_table[q] = s.page_table[q]
  BY <1>1, <1>2
<1>4. f \in s.memory.bitmap
  BY <1>1 DEF SpaceSound, SpaceAccounted
<1>5. r.memory.bitmap = s.memory.bitmap \ {f} /\ r.memory.used = s.memory.used - 1
  BY <1>4 DEF Freed
<1>6. IsFiniteSet(s.memory.bitmap)
  <2>1. IsFiniteSet(Block)
    BY FS_Interval, PhysicalMemoryAssumption DEF Block
  <2> QED BY <2>1, FS_Subset DEF SpaceSound, SpaceTyped
<1>7. Cardinality(s.memory.bitmap \ {f}) = Cardinality(s.memory.bitmap) - 1
  BY <1>4, <1>6, RemoveOne
<1>8. SpaceTyped(r)
  BY <1>3, <1>5, <1>7 DEF SpaceSound, SpaceTyped
<1>9. BackedIn(r, D) = BackedIn(s, D) \ {p} /\ NotOfPages(r) = NotOfPages(s)
  BY <1>3 DEF BackedIn, NotOfPages, TablesIn
<1>10. \A q \in BackedIn(r, D) : q \in BackedIn(s, D) /\ q # p /\ r.page_table[q].frame = s.page_table[q].frame
  BY <1>3, <1>9 DEF BackedIn
<1>11. SpaceApart(r, D, {})
  <2>1. \A q, x \in BackedIn(r, D) : r.page_table[q].frame = r.page_table[x].frame => q = x
    BY <1>10 DEF SpaceSound, SpaceApart
  <2>2. \A q \in BackedIn(r, D) : r.page_table[q].frame \notin NotOfPages(r)
    BY <1>9, <1>10 DEF SpaceSound, SpaceApart
  <2>3. \A q \in Page : r.page_table[q].present /\ q \in D => r.page_table[q].frame = q
    BY <1>3 DEF SpaceSound, SpaceApart
  <2> QED BY <2>1, <2>2, <2>3 DEF SpaceSound, SpaceApart
<1>12. {r.page_table[q].frame : q \in BackedIn(r, D)} = {s.page_table[q].frame : q \in BackedIn(s, D)} \ {f}
  <2>1. \A q \in BackedIn(s, D) : q # p => s.page_table[q].frame # f
    BY <1>1 DEF SpaceSound, SpaceApart
  <2>2. \A q \in BackedIn(s, D) : q # p => q \in BackedIn(r, D)
    BY <1>9
  <2> QED BY <1>10, <2>1, <2>2
<1>13. f \notin NotOfPages(s)
  BY <1>1 DEF SpaceSound, SpaceApart
<1> HIDE DEF f
<1>14. SpaceAccounted(r, D, {})
  BY <1>5, <1>9, <1>12, <1>13 DEF SpaceSound, SpaceAccounted
<1> QED BY <1>8, <1>11, <1>14 DEF SpaceSound

IsSpace(s) ==
  s = [memory |-> s.memory, directory |-> s.directory,
       page_table |-> s.page_table, leaked |-> s.leaked]

\* What a call leaves of pages that are there, and of a memory that is full
Keeps(r, s) ==
  /\ \A q \in Page : s.page_table[q].present => r.page_table[q].present
  /\ NextBlock(s.memory) = 0 => r.memory = s.memory

\* Only pages of P have come.
Adds(r, s, P) ==
  \A q \in Page : r.page_table[q].present => s.page_table[q].present \/ q \in P

\* A page is there, or there is no memory.
Given(s, p) == s.page_table[p].present \/ NextBlock(s.memory) = 0

\* A page gets its entry.
WithEntry(w, p, f) ==
  [memory |-> w.memory, directory |-> w.directory, leaked |-> w.leaked,
   page_table |-> [w.page_table EXCEPT ![p] = [present |-> TRUE, frame |-> f]]]

\* vmmngr_map_page: there is no block for the table, or the page gets its
\* entry in a space that has the table.
LEMMA MapPageCases ==
  ASSUME NEW s, NEW D, NEW F, IsSpace(s), SpaceSound(s, D, F), NEW p \in Page, NEW f,
         NEW r, r = MapPage(s, p, f)
  PROVE  \/ r = s /\ NextBlock(s.memory) = 0
         \/ \E w : /\ SpaceSound(w, D, F)
                   /\ w.page_table = s.page_table /\ w.leaked = s.leaked
                   /\ NextBlock(s.memory) = 0 => w.memory = s.memory
                   /\ r = WithEntry(w, p, f)
<1> DEFINE t == TableOf(p)
<1>1. t \in Tables /\ s.directory \in [Tables -> Nat]
  BY DEF Tables, SpaceSound, SpaceTyped
<1>2. CASE s.directory[t] # 0
  <2>1. r = [s EXCEPT !.memory = s.memory, !.directory[t] = s.directory[t],
                      !.page_table[p] = [present |-> TRUE, frame |-> f]]
    BY <1>2 DEF MapPage
  <2>2. [s.directory EXCEPT ![t] = s.directory[t]] = s.directory
    BY <1>1
  <2>3. r = WithEntry(s, p, f)
    BY <2>1, <2>2 DEF IsSpace, WithEntry
  <2> QED BY <2>3
<1>3. CASE s.directory[t] = 0 /\ NextBlock(s.memory) = 0
  <2>1. r = s
    BY <1>3 DEF MapPage
  <2> QED BY <1>3, <2>1
<1>4. CASE s.directory[t] = 0 /\ NextBlock(s.memory) # 0
  <2> DEFINE b == NextBlock(s.memory)
             u == [memory |-> Allocated(s.memory), directory |-> s.directory,
                   page_table |-> s.page_table, leaked |-> s.leaked]
             w == [memory |-> Allocated(s.memory), directory |-> [s.directory EXCEPT ![t] = b],
                   page_table |-> s.page_table, leaked |-> s.leaked]
  <2>1. r = [s EXCEPT !.memory = Allocated(s.memory), !.directory[t] = b,
                      !.page_table[p] = [present |-> TRUE, frame |-> f]]
    BY <1>4 DEF MapPage
  <2>2. r = WithEntry(w, p, f)
    BY <2>1 DEF IsSpace, WithEntry
  <2>3. SameMaps(u, s) /\ u.memory = Allocated(s.memory) /\ u.leaked = s.leaked
    BY DEF SameMaps
  <2>4. SpaceSound(u, D, F \cup {b}) /\ b \in Block /\ b \notin F
    BY <1>4, <2>3, BlockTaken
  <2>5. /\ w.memory = u.memory /\ w.page_table = u.page_table /\ w.leaked = u.leaked
        /\ w.directory = [u.directory EXCEPT ![t] = b] /\ u.directory[t] = 0
    BY <1>4
  <2>6. w.page_table = s.page_table /\ w.leaked = s.leaked /\ b # 0
    BY <1>4
  <2> HIDE DEF u, w, b, t
  <2>7. SpaceSound(w, D, F)
    BY <1>1, <2>4, <2>5, <2>6, TableMade
  <2> QED BY <1>4, <2>2, <2>6, <2>7
<1> QED BY <1>2, <1>3, <1>4

LEMMA SetEntry ==
  ASSUME NEW w, SpaceTyped(w), NEW p \in Page, NEW f
  PROVE  /\ WithEntry(w, p, f).page_table[p].present
         /\ \A q \in Page : w.page_table[q].present => WithEntry(w, p, f).page_table[q].present
         /\ \A q \in Page : WithEntry(w, p, f).page_table[q].present
                           => w.page_table[q].present \/ q = p
<1>1. w.page_table \in [Page -> Entry]
  BY DEF SpaceTyped
<1> DEFINE e == [w.page_table EXCEPT ![p] = [present |-> TRUE, frame |-> f]]
<1>2. /\ e[p].present /\ \A q \in Page : w.page_table[q].present => e[q].present
      /\ \A q \in Page : e[q].present => w.page_table[q].present \/ q = p
  BY <1>1
<1> HIDE DEF e
<1>3. WithEntry(w, p, f) = [memory |-> w.memory, directory |-> w.directory, leaked |-> w.leaked,
                           page_table |-> e]
  BY DEF WithEntry, e
<1> QED BY <1>2, <1>3

\* A page that is mapped: what a call has made of space s
Serves(r, s, D, F, p) ==
  IsSpace(r) /\ SpaceSound(r, D, F) /\ Keeps(r, s) /\ Adds(r, s, {p}) /\ Given(r, p)

\* Mapping a device's page, or a page that is there
LEMMA MapPageFacts ==
  ASSUME NEW s, NEW D, NEW F, IsSpace(s), SpaceSound(s, D, F), NEW p \in Page, NEW f \in Nat,
         IF p \notin D THEN s.page_table[p].present /\ f = s.page_table[p].frame ELSE f = p,
         NEW r, r = MapPage(s, p, f)
  PROVE  Serves(r, s, D, F, p)
<1>1. CASE r = s /\ NextBlock(s.memory) = 0
  BY <1>1 DEF Serves, Keeps, Given, Adds
<1>2. CASE ~(r = s /\ NextBlock(s.memory) = 0)
  <2>0. PICK w : /\ SpaceSound(w, D, F)
                 /\ w.page_table = s.page_table /\ w.leaked = s.leaked
                 /\ NextBlock(s.memory) = 0 => w.memory = s.memory
                 /\ r = WithEntry(w, p, f)
    BY <1>2, MapPageCases
  <2>1. SpaceTyped(w)
    BY <2>0 DEF SpaceSound
  <2>2. /\ IsSpace(r) /\ r.memory = w.memory /\ r.directory = w.directory /\ r.leaked = w.leaked
        /\ r.page_table = [w.page_table EXCEPT ![p] = [present |-> TRUE, frame |-> f]]
        /\ r.page_table[p].present
        /\ \A q \in Page : w.page_table[q].present => r.page_table[q].present
        /\ \A q \in Page : r.page_table[q].present => w.page_table[q].present \/ q = p
    <3>1. /\ IsSpace(r) /\ r.memory = w.memory /\ r.directory = w.directory /\ r.leaked = w.leaked
          /\ r.page_table = [w.page_table EXCEPT ![p] = [present |-> TRUE, frame |-> f]]
      BY <2>0 DEF IsSpace, WithEntry
    <3>2. /\ r.page_table[p].present
          /\ \A q \in Page : w.page_table[q].present => r.page_table[q].present
          /\ \A q \in Page : r.page_table[q].present => w.page_table[q].present \/ q = p
      BY <2>0, <2>1, SetEntry
    <3> QED BY <3>1, <3>2
  <2>3. SpaceSound(r, D, F)
    <3>1. IF p \notin D THEN w.page_table[p].present /\ f = w.page_table[p].frame ELSE f = p
      BY <2>0
    <3> QED BY <2>0, <2>2, <3>1, PageMapped
  <2>4. Keeps(r, s)
    BY <2>0, <2>2 DEF Keeps
  <2>5. Given(r, p)
    BY <2>2 DEF Given
  <2>6. Adds(r, s, {p})
    BY <2>0, <2>2 DEF Adds
  <2> QED BY <2>2, <2>3, <2>4, <2>5, <2>6 DEF Serves
<1> QED BY <1>1, <1>2

\* A page gets a new block, or the block is lost, or there is none.
LEMMA MapNewBlockFacts ==
  ASSUME NEW s, NEW D, IsSpace(s), SpaceSound(s, D, {}), NEW p \in Page, p \notin D, ~s.page_table[p].present,
         NEW r, r = MapNewBlock(s, p)
  PROVE  Serves(r, s, D, {}, p)
<1>1. CASE NextBlock(s.memory) = 0
  <2>1. r = s
    BY <1>1 DEF MapNewBlock
  <2> QED BY <1>1, <2>1 DEF Serves, Keeps, Given, Adds
<1>2. CASE NextBlock(s.memory) # 0
  <2>1. PICK b : b = NextBlock(s.memory)
    OBVIOUS
  <2>2. PICK u : u = [s EXCEPT !.memory = Allocated(@)]
    OBVIOUS
  <2>3. PICK m : m = MapPage(u, p, b)
    OBVIOUS
  <2>4. r = IF m.page_table[p].present THEN m ELSE [m EXCEPT !.leaked = @ \cup {b}]
    BY <1>2, <2>1, <2>2, <2>3 DEF MapNewBlock
  <2>5. /\ IsSpace(u) /\ u.memory = Allocated(s.memory) /\ SameMaps(u, s) /\ u.leaked = s.leaked
        /\ u.page_table = s.page_table
    BY <2>2 DEF IsSpace, SameMaps
  <2>6. SpaceSound(u, D, {b}) /\ b \in Block
    <3>1. SpaceSound(u, D, {} \cup {b}) /\ b \in Block
      BY <1>2, <2>1, <2>5, BlockTaken
    <3>2. {} \cup {b} = {b}
      OBVIOUS
    <3> QED BY <3>1, <3>2
  <2>7. CASE m = u /\ NextBlock(u.memory) = 0
    <3>1. ~m.page_table[p].present
      BY <2>5, <2>7
    <3>2. r = [u EXCEPT !.leaked = @ \cup {b}]
      BY <2>4, <2>7, <3>1
    <3>3. /\ IsSpace(r) /\ r.memory = u.memory /\ SameMaps(r, u) /\ r.leaked = u.leaked \cup {b}
          /\ r.page_table = u.page_table
      BY <2>5, <3>2 DEF IsSpace, SameMaps
    <3>4. SpaceSound(r, D, {})
      BY <2>6, <3>3, BlockLost
    <3>5. Keeps(r, s)
      BY <1>2, <2>5, <3>3 DEF Keeps
    <3>6. Given(r, p)
      BY <2>7, <3>3 DEF Given
    <3>7. Adds(r, s, {p})
      BY <2>5, <3>3 DEF Adds
    <3> QED BY <3>3, <3>4, <3>5, <3>6, <3>7 DEF Serves
  <2>8. CASE ~(m = u /\ NextBlock(u.memory) = 0)
    <3>0. PICK w : /\ SpaceSound(w, D, {b})
                   /\ w.page_table = u.page_table /\ w.leaked = u.leaked
                   /\ NextBlock(u.memory) = 0 => w.memory = u.memory
                   /\ m = WithEntry(w, p, b)
      BY <2>3, <2>5, <2>6, <2>8, MapPageCases
    <3>1. SpaceTyped(w)
      BY <3>0 DEF SpaceSound
    <3>2. /\ IsSpace(m) /\ m.memory = w.memory /\ m.directory = w.directory /\ m.leaked = w.leaked
          /\ m.page_table = [w.page_table EXCEPT ![p] = [present |-> TRUE, frame |-> b]]
          /\ m.page_table[p].present
          /\ \A q \in Page : w.page_table[q].present => m.page_table[q].present
          /\ \A q \in Page : m.page_table[q].present => w.page_table[q].present \/ q = p
      <4>1. /\ IsSpace(m) /\ m.memory = w.memory /\ m.directory = w.directory /\ m.leaked = w.leaked
            /\ m.page_table = [w.page_table EXCEPT ![p] = [present |-> TRUE, frame |-> b]]
        BY <3>0 DEF IsSpace, WithEntry
      <4>2. /\ m.page_table[p].present
            /\ \A q \in Page : w.page_table[q].present => m.page_table[q].present
            /\ \A q \in Page : m.page_table[q].present => w.page_table[q].present \/ q = p
        BY <3>0, <3>1, SetEntry
      <4> QED BY <4>1, <4>2
    <3>3. r = m
      BY <2>4, <3>2
    <3>4. SpaceSound(m, D, {})
      <4>1. ~w.page_table[p].present
        BY <2>5, <3>0
      <4> QED BY <2>6, <3>0, <3>2, <4>1, PageBacked
    <3>5. Keeps(m, s)
      BY <1>2, <2>5, <3>0, <3>2 DEF Keeps
    <3>6. Given(m, p)
      BY <3>2 DEF Given
    <3>7. Adds(m, s, {p})
      BY <2>5, <3>0, <3>2 DEF Adds
    <3> QED BY <3>2, <3>3, <3>4, <3>5, <3>6, <3>7 DEF Serves
  <2> QED BY <2>7, <2>8
<1> QED BY <1>1, <1>2

\* vmmngr_alloc_page_f
LEMMA AllocPageFacts ==
  ASSUME NEW s, NEW D, IsSpace(s), SpaceSound(s, D, {}), NEW p \in Page,
         p \in D <=> ~(p < Mmio)
  PROVE  Serves(AllocPageF(s, p), s, D, {}, p)
<1>0. p \in Nat /\ s.page_table \in [Page -> Entry]
  BY VmContractAssumption DEF Page, SpaceSound, SpaceTyped
<1>1. CASE s.page_table[p].present
  <2> DEFINE f == s.page_table[p].frame
  <2>1. f \in Nat
    BY <1>0 DEF Entry
  <2>2. IF p \notin D THEN s.page_table[p].present /\ f = s.page_table[p].frame ELSE f = p
    BY <1>1 DEF SpaceSound, SpaceApart
  <2>3. AllocPageF(s, p) = MapPage(s, p, f)
    BY <1>1 DEF AllocPageF
  <2> HIDE DEF f
  <2> QED BY <2>1, <2>2, <2>3, MapPageFacts
<1>2. CASE ~s.page_table[p].present /\ p < Mmio
  <2>1. AllocPageF(s, p) = MapNewBlock(s, p)
    BY <1>2 DEF AllocPageF
  <2> QED BY <1>2, <2>1, MapNewBlockFacts
<1>3. CASE ~s.page_table[p].present /\ ~(p < Mmio)
  <2>1. AllocPageF(s, p) = MapPage(s, p, p)
    BY <1>3 DEF AllocPageF
  <2> QED BY <1>0, <1>3, <2>1, MapPageFacts
<1> QED BY <1>1, <1>2, <1>3

\* The pages of an area are a device's because of the area, or of where they are.
FitsArea(p, area, D) ==
  p \in D <=> ("identity" \in area.flags \/ ~(p < Mmio))

LEMMA ServePageFacts ==
  ASSUME NEW s, NEW D, IsSpace(s), SpaceSound(s, D, {}), NEW p \in Page,
         NEW area, FitsArea(p, area, D)
  PROVE  Serves(ServePage(s, area, p), s, D, {}, p)
<1>0. p \in Nat
  BY VmContractAssumption DEF Page
<1>1. CASE "identity" \in area.flags
  <2>1. ServePage(s, area, p) = MapPage(s, p, p)
    BY <1>1 DEF ServePage
  <2>2. p \in D
    BY <1>1 DEF FitsArea
  <2> QED BY <1>0, <2>1, <2>2, MapPageFacts
<1>2. CASE "identity" \notin area.flags
  <2>1. ServePage(s, area, p) = AllocPageF(s, p)
    BY <1>2 DEF ServePage
  <2>2. p \in D <=> ~(p < Mmio)
    BY <1>2 DEF FitsArea
  <2> QED BY <2>1, <2>2, AllocPageFacts
<1> QED BY <1>1, <1>2

-----------------------------------------------------------------------------
(* A whole area *)

\* What Served does page after page
Rising(g, s, area, m) ==
  /\ g = [n \in 0..m |-> g[n]]
  /\ g[0] = s
  /\ \A n \in 0..m : n # 0 => g[n] = ServePage(g[n - 1], area, area.start + n - 1)

LEMMA RisingExists ==
  ASSUME NEW s, NEW area, area.start \in Nat, NEW k \in Nat
  PROVE  \E g : Rising(g, s, area, k)
<1> DEFINE S == {m \in 0..k : \E g : Rising(g, s, area, m)}
<1>1. 0 \in S
  <2> DEFINE g == [n \in 0..0 |-> s]
  <2>1. g = [n \in 0..0 |-> g[n]] /\ g[0] = s /\ \A n \in 0..0 : ~(n # 0)
    OBVIOUS
  <2> HIDE DEF g
  <2>2. Rising(g, s, area, 0)
    BY <2>1 DEF Rising
  <2> QED BY <2>2
<1>2. ASSUME NEW m \in S, m < k
      PROVE  m + 1 \in S
  <2>1. PICK g : Rising(g, s, area, m)
    OBVIOUS
  <2> DEFINE last == ServePage(g[m], area, area.start + (m + 1) - 1)
             h == [n \in 0..m + 1 |-> IF n = m + 1 THEN last ELSE g[n]]
  <2>2. m \in 0..k /\ m + 1 \in 0..k
    BY <1>2
  <2> HIDE DEF last
  <2>3. h = [n \in 0..m + 1 |-> h[n]] /\ h[m + 1] = last /\ \A n \in 0..m : h[n] = g[n]
    BY <2>2
  <2> HIDE DEF h
  <2>4. h[0] = s
    <3>1. 0 \in 0..m /\ g[0] = s
      BY <2>1, <2>2 DEF Rising
    <3> QED BY <2>3, <3>1
  <2>5. ASSUME NEW n \in 0..m + 1, n # 0
        PROVE  h[n] = ServePage(h[n - 1], area, area.start + n - 1)
    <3>1. CASE n = m + 1
      <4>1. n - 1 = m /\ m \in 0..m
        BY <2>2, <3>1
      <4>2. h[n - 1] = g[m]
        BY <2>3, <4>1
      <4> QED BY <2>3, <3>1, <4>2 DEF last
    <3>2. CASE n # m + 1
      <4>1. n \in 0..m /\ n - 1 \in 0..m
        BY <2>2, <2>5, <3>2
      <4>2. h[n] = g[n] /\ h[n - 1] = g[n - 1]
        BY <2>3, <4>1
      <4>3. g[n] = ServePage(g[n - 1], area, area.start + n - 1)
        BY <2>1, <2>5, <4>1 DEF Rising
      <4> QED BY <4>2, <4>3
    <3> QED BY <3>1, <3>2
  <2>6. Rising(h, s, area, m + 1)
    BY <2>3, <2>4, <2>5 DEF Rising
  <2> QED BY <2>2, <2>6
<1> HIDE DEF S
<1>3. S \in SUBSET (0..k)
  BY DEF S
<1>4. k \in S
  BY <1>1, <1>2, <1>3, Ladder
<1> QED BY <1>4 DEF S

LEMMA ServedAll ==
  ASSUME NEW s, NEW area, area.start \in Nat, area.end \in Nat, area.start <= area.end,
         "immediate" \in area.flags, NEW p
  PROVE  \E g : Rising(g, s, area, area.end - area.start) /\ Served(s, area, p) = g[area.end - area.start]
<1> DEFINE k == area.end - area.start
           after[n \in 0..k] ==
             IF n = 0 THEN s ELSE ServePage(after[n - 1], area, area.start + n - 1)
<1>1. Served(s, area, p) = after[k]
  BY DEF Served
<1>2. k \in Nat
  OBVIOUS
<1>3. \E g : g = [n \in 0..k |-> IF n = 0 THEN s ELSE ServePage(g[n - 1], area, area.start + n - 1)]
  <2>1. PICK g : Rising(g, s, area, k)
    BY <1>2, RisingExists
  <2> HIDE DEF k
  <2>2. \A n \in 0..k : g[n] = IF n = 0 THEN s ELSE ServePage(g[n - 1], area, area.start + n - 1)
    BY <1>2, <2>1 DEF Rising
  <2>3. g = [n \in 0..k |-> g[n]]
    BY <2>1 DEF Rising
  <2>4. g = [n \in 0..k |-> IF n = 0 THEN s ELSE ServePage(g[n - 1], area, area.start + n - 1)]
    BY <2>2, <2>3
  <2> QED BY <2>4
<1> HIDE DEF k
<1>4. after = [n \in 0..k |-> IF n = 0 THEN s ELSE ServePage(after[n - 1], area, area.start + n - 1)]
  BY <1>3
<1>5. PICK g : g = after
  OBVIOUS
<1> HIDE DEF after
<1>6. Rising(g, s, area, k)
  BY <1>2, <1>4, <1>5 DEF Rising
<1>7. Served(s, area, p) = g[k]
  BY <1>1, <1>5
<1> QED BY <1>6, <1>7 DEF k

LEMMA KeepsGiven ==
  ASSUME NEW r, NEW s, Keeps(r, s), NEW q \in Page, Given(s, q)
  PROVE  Given(r, q)
BY DEF Keeps, Given

LEMMA KeepsOn ==
  ASSUME NEW r, NEW s, NEW x, Keeps(r, s), Keeps(s, x)
  PROVE  Keeps(r, x)
BY DEF Keeps

\* The pages of an area before the k-th are given.
AreaGiven(s, area, k) == \A n \in 0 .. k - 1 : Given(s, area.start + n)

LEMMA RisingFacts ==
  ASSUME NEW s, NEW D, IsSpace(s), SpaceSound(s, D, {}), NEW area, area.start \in Nat, Low <= area.start,
         NEW k \in Nat, area.start + k <= High,
         \A n \in 0 .. k - 1 : FitsArea(area.start + n, area, D),
         NEW g, Rising(g, s, area, k)
  PROVE  /\ IsSpace(g[k]) /\ SpaceSound(g[k], D, {}) /\ Keeps(g[k], s)
         /\ AreaGiven(g[k], area, k)
         /\ Adds(g[k], s, area.start .. area.start + k - 1)
<1> DEFINE S == {n \in 0..k : /\ IsSpace(g[n]) /\ SpaceSound(g[n], D, {}) /\ Keeps(g[n], s)
                              /\ AreaGiven(g[n], area, n)
                              /\ Adds(g[n], s, area.start .. area.start + n - 1)}
<1>0. Low \in Nat /\ High \in Nat /\ Mmio \in Int
  BY VmContractAssumption, AddressSpaceAssumption
<1>1. 0 \in S
  <2>1. g[0] = s
    BY DEF Rising
  <2>2. Keeps(s, s) /\ AreaGiven(s, area, 0) /\ Adds(s, s, area.start .. area.start + 0 - 1)
    BY DEF Keeps, AreaGiven, Adds
  <2> QED BY <2>1, <2>2
<1>2. ASSUME NEW n \in S, n < k
      PROVE  n + 1 \in S
  <2>1. /\ IsSpace(g[n]) /\ SpaceSound(g[n], D, {}) /\ Keeps(g[n], s)
        /\ AreaGiven(g[n], area, n) /\ Adds(g[n], s, area.start .. area.start + n - 1)
    OBVIOUS
  <2>2. n \in 0..k /\ n + 1 \in 0..k /\ n + 1 # 0 /\ (n + 1) - 1 = n
    BY <1>2
  <2>3. g[n + 1] = ServePage(g[n], area, area.start + n)
    <3>1. g[n + 1] = ServePage(g[(n + 1) - 1], area, area.start + (n + 1) - 1)
      BY <2>2 DEF Rising
    <3>2. area.start + (n + 1) - 1 = area.start + n
      BY <2>2
    <3> QED BY <2>2, <3>1, <3>2
  <2>4. area.start + n \in Page
    BY <1>0, <1>2, <2>2 DEF Page
  <2>5. FitsArea(area.start + n, area, D)
    <3>1. n \in 0 .. k - 1
      BY <1>2, <2>2
    <3> QED BY <3>1
  <2>6. Serves(g[n + 1], g[n], D, {}, area.start + n)
    BY <2>1, <2>3, <2>4, <2>5, ServePageFacts
  <2>7. Keeps(g[n + 1], s)
    BY <2>1, <2>6, KeepsOn DEF Serves
  <2>8. AreaGiven(g[n + 1], area, n + 1)
    <3> SUFFICES ASSUME NEW m \in 0 .. (n + 1) - 1
                 PROVE  Given(g[n + 1], area.start + m)
      BY DEF AreaGiven
    <3>1. CASE m = n
      BY <2>6, <3>1 DEF Serves
    <3>2. CASE m # n
      <4>1. m \in 0 .. n - 1
        BY <2>2, <3>2
      <4>2. area.start + m \in Page
        BY <1>0, <1>2, <2>2, <4>1 DEF Page
      <4>3. Given(g[n], area.start + m)
        BY <2>1, <4>1 DEF AreaGiven
      <4>4. Keeps(g[n + 1], g[n])
        BY <2>6 DEF Serves
      <4> QED BY <4>2, <4>3, <4>4, KeepsGiven
    <3> QED BY <3>1, <3>2
  <2>9. Adds(g[n + 1], s, area.start .. area.start + (n + 1) - 1)
    <3>1. Adds(g[n + 1], g[n], {area.start + n})
      BY <2>6 DEF Serves
    <3>2. /\ area.start + n \in area.start .. area.start + (n + 1) - 1
          /\ \A q \in area.start .. area.start + n - 1 : q \in area.start .. area.start + (n + 1) - 1
      BY <2>2
    <3> QED BY <2>1, <3>1, <3>2 DEF Adds
  <2> QED BY <2>2, <2>6, <2>7, <2>8, <2>9 DEF Serves
<1> HIDE DEF S
<1>3. S \in SUBSET (0..k)
  BY DEF S
<1>4. k \in S
  BY <1>1, <1>2, <1>3, Ladder
<1> QED BY <1>4 DEF S

\* The mapping part of page_fault_bottom
LEMMA ServedFacts ==
  ASSUME NEW s, NEW D, IsSpace(s), SpaceSound(s, D, {}), NEW area \in Area,
         Low <= area.start, area.start < area.end, area.end <= High,
         \A q \in area.start .. area.end - 1 : FitsArea(q, area, D),
         NEW p \in Nat, area.start <= p, p < area.end
  PROVE  /\ SpaceSound(Served(s, area, p), D, {})
         /\ Keeps(Served(s, area, p), s)
         /\ Adds(Served(s, area, p), s, area.start .. area.end - 1)
         /\ Given(Served(s, area, p), p)
<1>0. /\ Low \in Nat /\ High \in Nat /\ Mmio \in Int
      /\ area.start \in Nat /\ area.end \in Nat
  BY VmContractAssumption, AddressSpaceAssumption DEF Area
<1>1. CASE "immediate" \in area.flags
  <2>1. area.end - area.start \in Nat /\ area.start + (area.end - area.start) <= High
    BY <1>0
  <2>2. PICK g : /\ Rising(g, s, area, area.end - area.start)
                 /\ Served(s, area, p) = g[area.end - area.start]
    BY <1>0, <1>1, ServedAll
  <2>3. PICK k \in Nat : k = area.end - area.start
    BY <2>1
  <2>4. /\ IsSpace(g[k]) /\ SpaceSound(g[k], D, {}) /\ Keeps(g[k], s)
        /\ AreaGiven(g[k], area, k) /\ Adds(g[k], s, area.start .. area.start + k - 1)
    <3>1. \A n \in 0 .. k - 1 : area.start + n \in area.start .. area.end - 1
      BY <1>0, <2>3
    <3>2. area.start + k <= High
      BY <2>1, <2>3
    <3>3. \A n \in 0 .. k - 1 : FitsArea(area.start + n, area, D)
      BY <3>1
    <3> QED BY <1>0, <2>2, <2>3, <3>2, <3>3, RisingFacts
  <2>5. p - area.start \in 0 .. k - 1 /\ area.start + (p - area.start) = p
    BY <1>0, <2>3
  <2>6. Given(g[k], p)
    BY <2>4, <2>5 DEF AreaGiven
  <2>7. area.start + k - 1 = area.end - 1
    BY <1>0, <2>3
  <2> QED BY <2>2, <2>3, <2>4, <2>6, <2>7
<1>2. CASE "immediate" \notin area.flags
  <2>1. Served(s, area, p) = ServePage(s, area, p)
    BY <1>2 DEF Served
  <2>2. p \in Page /\ p \in area.start .. area.end - 1
    BY <1>0 DEF Page
  <2>3. FitsArea(p, area, D)
    BY <2>2
  <2>4. Serves(ServePage(s, area, p), s, D, {}, p)
    BY <2>2, <2>3, ServePageFacts
  <2>5. Adds(ServePage(s, area, p), s, {p})
    BY <2>4 DEF Serves
  <2>6. Adds(ServePage(s, area, p), s, area.start .. area.end - 1)
    BY <2>2, <2>5 DEF Adds
  <2> QED BY <2>1, <2>4, <2>6 DEF Serves
<1> QED BY <1>1, <1>2

-----------------------------------------------------------------------------
(* Memory at boot *)

Counted(m) == m.bitmap \subseteq Block /\ 0 \in m.bitmap /\ m.used = Cardinality(m.bitmap)

LEMMA BlocksFinite ==
  ASSUME NEW S \in SUBSET Block
  PROVE  IsFiniteSet(S) /\ Cardinality(S) \in Nat
<1>1. IsFiniteSet(Block)
  BY FS_Interval, PhysicalMemoryAssumption DEF Block
<1>2. IsFiniteSet(S)
  BY <1>1, FS_Subset
<1> QED BY <1>2, FS_CardinalityType

LEMMA InitCounted == Counted(PmmngrInit)
<1>1. 0 \in Block /\ Cardinality(Block) = MaxBlocks
  <2>1. MaxBlocks - 1 \in Int /\ ~(0 > MaxBlocks - 1) /\ (MaxBlocks - 1) - 0 + 1 = MaxBlocks
    BY PhysicalMemoryAssumption
  <2> QED BY <2>1, FS_Interval DEF Block
<1> QED BY <1>1 DEF Counted, PmmngrInit

LEMMA FreeRegionCounted ==
  ASSUME NEW m, Counted(m), NEW base \in Nat, NEW length \in Nat
  PROVE  Counted(FreeRegion(m, base, length))
<1> DEFINE freed == Run(base, length, m.bitmap)
           rest  == m.bitmap \ freed
<1>1. freed \subseteq m.bitmap
  <2>1. \A b \in freed : b \in base .. b /\ base .. b \subseteq m.bitmap
    BY DEF Run
  <2> QED BY <2>1
<1>2. FreeRegion(m, base, length)
        = [bitmap |-> rest \cup {0}, used |-> m.used - Cardinality(freed) + Cardinality({0} \ rest)]
  BY DEF FreeRegion
<1>3. 0 \in Block
  BY PhysicalMemoryAssumption DEF Block
<1> HIDE DEF freed
<1>4. /\ IsFiniteSet(m.bitmap) /\ Cardinality(m.bitmap) \in Nat
      /\ IsFiniteSet(freed) /\ Cardinality(freed) \in Nat
      /\ IsFiniteSet(rest) /\ Cardinality(rest) \in Nat
  <2>1. m.bitmap \in SUBSET Block /\ freed \in SUBSET Block /\ rest \in SUBSET Block
    BY <1>1 DEF Counted
  <2> QED BY <2>1, BlocksFinite
<1>5. Cardinality(rest) = Cardinality(m.bitmap) - Cardinality(freed)
  <2>1. m.bitmap \cap freed = freed
    BY <1>1
  <2> QED BY <1>4, <2>1, FS_Difference
<1> HIDE DEF rest
<1>6. Cardinality(rest \cup {0}) = Cardinality(rest) + Cardinality({0} \ rest)
  <2>1. CASE 0 \in rest
    <3>1. {0} \ rest = {} /\ rest \cup {0} = rest
      BY <2>1
    <3> QED BY <1>4, <3>1, FS_EmptySet
  <2>2. CASE 0 \notin rest
    <3>1. {0} \ rest = {0}
      BY <2>2
    <3>2. Cardinality({0}) = 1
      BY FS_Singleton
    <3> QED BY <1>4, <2>2, <3>1, <3>2, FS_AddElement
  <2> QED BY <2>1, <2>2
<1>7. rest \cup {0} \subseteq Block /\ m.used = Cardinality(m.bitmap)
  BY <1>3 DEF Counted, rest
<1> QED BY <1>2, <1>4, <1>5, <1>6, <1>7 DEF Counted

LEMMA ReserveRegionCounted ==
  ASSUME NEW m, Counted(m), NEW base \in Nat, NEW length \in Nat
  PROVE  Counted(ReserveRegion(m, base, length))
<1> DEFINE taken == Run(base, length, Block \ m.bitmap)
<1>1. taken \subseteq Block \ m.bitmap
  <2>1. \A b \in taken : b \in base .. b /\ base .. b \subseteq Block \ m.bitmap
    BY DEF Run
  <2> QED BY <2>1
<1>2. ReserveRegion(m, base, length)
        = [bitmap |-> m.bitmap \cup taken, used |-> m.used + Cardinality(taken)]
  BY DEF ReserveRegion
<1> HIDE DEF taken
<1>3. /\ IsFiniteSet(m.bitmap) /\ Cardinality(m.bitmap) \in Nat
      /\ IsFiniteSet(taken) /\ Cardinality(taken) \in Nat
  <2>1. m.bitmap \in SUBSET Block /\ taken \in SUBSET Block
    BY <1>1 DEF Counted
  <2> QED BY <2>1, BlocksFinite
<1>4. Cardinality(m.bitmap \cup taken) = Cardinality(m.bitmap) + Cardinality(taken)
  <2>1. m.bitmap \cap taken = {} /\ Cardinality({}) = 0
    BY <1>1, FS_EmptySet
  <2>2. Cardinality(m.bitmap \cup taken)
          = Cardinality(m.bitmap) + Cardinality(taken) - Cardinality(m.bitmap \cap taken)
    BY <1>3, FS_Union
  <2>3. Cardinality(m.bitmap \cap taken) = 0
    BY <2>1, Zenon
  <2> QED BY <1>3, <2>2, <2>3
<1> QED BY <1>1, <1>2, <1>4 DEF Counted

LEMMA AllocatedCounted ==
  ASSUME NEW m, Counted(m)
  PROVE  Counted(Allocated(m))
<1>1. CASE NextBlock(m) = 0
  BY <1>1 DEF Allocated
<1>2. CASE NextBlock(m) # 0
  <2> DEFINE b == NextBlock(m)
  <2>1. b \in Block \ m.bitmap
    BY <1>2, NextIsFree
  <2>2. Allocated(m) = [bitmap |-> m.bitmap \cup {b}, used |-> m.used + 1]
    BY <1>2 DEF Allocated
  <2> HIDE DEF b
  <2>3. IsFiniteSet(m.bitmap)
    BY BlocksFinite DEF Counted
  <2>4. Cardinality(m.bitmap \cup {b}) = Cardinality(m.bitmap) + 1
    BY <2>1, <2>3, FS_AddElement
  <2> QED BY <2>1, <2>2, <2>4 DEF Counted
<1> QED BY <1>1, <1>2

LEMMA BootFacts == Counted(Allocated(BootMemory))
<1>1. {FreeStart, FreeLength, KernelStart, KernelLength} \subseteq Nat
  BY AddressSpaceAssumption
<1>2. Counted(FreeRegion(PmmngrInit, FreeStart, FreeLength))
  BY <1>1, InitCounted, FreeRegionCounted
<1>3. Counted(BootMemory)
  BY <1>1, <1>2, ReserveRegionCounted DEF BootMemory
<1> QED BY <1>3, AllocatedCounted

-----------------------------------------------------------------------------
(* The whole of it *)

\* The pages of devices, and those that may come at all
Devices(c) ==
  {p \in Page : \/ p >= Mmio
                \/ \E i \in 1..Len(c) : "identity" \in c[i].flags /\ c[i].start <= p /\ p < c[i].end}

CachePage == {CacheStart + b : b \in Buffer}

Mapped(c) == {p \in Page : \E i \in 1..Len(c) : c[i].start <= p /\ p < c[i].end} \cup CachePage

PagingInv ==
  /\ Ordered(contract)
  /\ \A i \in 1..Len(contract) : contract[i] \in Areas \/ contract[i].flags = {}
  /\ SpaceSound(Space, Devices(contract), {})
  /\ \A p \in Page : page_table[p].present => p \in Mapped(contract)
  /\ alloced_bitmap \subseteq Buffer
  /\ \A b \in alloced_bitmap \ {CacheBuffers - 1} : page_table[CacheStart + b].present
  /\ contract_spinlock = 0 \/ mapFailed

LEMMA CachePages ==
  ASSUME NEW b \in Buffer
  PROVE  CacheStart + b \in CachePage /\ CacheStart + b \in Page /\ CacheStart + b < Mmio
<1>1. /\ CacheStart \in Nat /\ CacheBuffers \in Nat /\ Low \in Nat /\ High \in Nat
      /\ Mmio \in Low .. High - 1
      /\ CacheStart .. CacheStart + CacheBuffers - 1 \subseteq Low .. Mmio - 1
  BY AddressSpaceAssumption, VmContractAssumption
<1>2. CacheStart + b \in CacheStart .. CacheStart + CacheBuffers - 1
  BY <1>1 DEF Buffer
<1>3. CacheStart + b \in Low .. Mmio - 1
  BY <1>1, <1>2
<1> QED BY <1>1, <1>3 DEF CachePage, Page

\* The page cache holds no device.
LEMMA CacheIsNoDevice ==
  ASSUME PagingInv, NEW b \in Buffer
  PROVE  CacheStart + b \notin Devices(contract)
<1>1. CacheStart + b < Mmio /\ CacheStart + b \in Page
  BY CachePages
<1>2. Mmio \in Nat /\ CacheStart + b \in Nat /\ CacheStart + b \in CacheStart .. CacheStart + CacheBuffers - 1
  BY AddressSpaceAssumption, VmContractAssumption DEF Buffer
<1>3. ASSUME NEW i \in 1..Len(contract), "identity" \in contract[i].flags
      PROVE  ~(contract[i].start <= CacheStart + b /\ CacheStart + b < contract[i].end)
  <2>1. contract[i] \in Areas
    BY <1>3 DEF PagingInv
  <2> QED BY <1>2, <1>3, <2>1, IdentityAssumption
<1> QED BY <1>1, <1>2, <1>3 DEF Devices

LEMMA DevicesBound ==
  ASSUME PagingInv, NEW p \in Devices(contract)
  PROVE  p \notin Block
<1>1. Mmio \in Nat /\ MaxBlocks \in Nat /\ MaxBlocks <= Mmio /\ p \in Nat
  BY AddressSpaceAssumption, VmContractAssumption, PhysicalMemoryAssumption DEF Devices, Page
<1>2. CASE p >= Mmio
  BY <1>1, <1>2 DEF Block
<1>3. CASE ~(p >= Mmio)
  <2>1. PICK i \in 1..Len(contract) : "identity" \in contract[i].flags /\ contract[i].start <= p
    BY <1>3 DEF Devices
  <2>2. contract[i] \in Areas
    BY <2>1 DEF PagingInv
  <2>3. contract[i].start >= MaxBlocks
    BY <2>1, <2>2, IdentityAssumption
  <2>4. contract[i].start \in Nat
    BY OrderedFacts DEF PagingInv
  <2> QED BY <1>1, <2>1, <2>3, <2>4 DEF Block
<1> QED BY <1>2, <1>3

LEMMA DevicesFound ==
  ASSUME PagingInv
  PROVE  DevicePage = Devices(contract)
<1> SUFFICES ASSUME NEW p \in Page
             PROVE  p >= Mmio \/ "identity" \in FindArea(contract, p).flags
                      <=> p \in Devices(contract)
  BY DEF DevicePage, Devices
<1>0. Ordered(contract) /\ p \in Low .. High - 1
  BY DEF PagingInv, Page
<1>1. CASE FindArea(contract, p) = NoArea /\ \A i \in 1..Len(contract) : ~(contract[i].start <= p /\ p < contract[i].end)
  <2>1. FindArea(contract, p).flags = {}
    BY <1>1 DEF NoArea
  <2> QED BY <1>1, <2>1 DEF Devices
<1>2. ASSUME NEW i \in 1..Len(contract),
             FindArea(contract, p) = contract[i], contract[i].start <= p, p < contract[i].end
      PROVE  p >= Mmio \/ "identity" \in FindArea(contract, p).flags <=> p \in Devices(contract)
  <2>1. \A j \in 1..Len(contract) : contract[j].start <= p /\ p < contract[j].end => j = i
    BY <1>0, <1>2, OneArea
  <2> QED BY <1>2, <2>1 DEF Devices
<1> QED BY <1>0, <1>1, <1>2, FindFacts

\* Which absent pages are devices' does not matter.
LEMMA SameDevices ==
  ASSUME NEW s, NEW D, NEW E, SpaceSound(s, D, {}),
         \A p \in Page : s.page_table[p].present => (p \in E <=> p \in D)
  PROVE  SpaceSound(s, E, {})
<1>1. BackedIn(s, E) = BackedIn(s, D)
  BY DEF BackedIn
<1>2. SpaceApart(s, E, {})
  BY <1>1 DEF SpaceSound, SpaceApart
<1>3. SpaceAccounted(s, E, {})
  BY <1>1 DEF SpaceSound, SpaceAccounted
<1> QED BY <1>2, <1>3 DEF SpaceSound

LEMMA SoundFromInv ==
  ASSUME PagingInv
  PROVE  AddressSpaceSound
<1> DEFINE D == Devices(contract)
<1>1. /\ Space.memory = memory /\ Space.directory = directory
      /\ Space.page_table = page_table /\ Space.leaked = leaked
  BY DEF Space
<1>2. /\ SpaceTyped(Space) /\ SpaceApart(Space, D, {}) /\ SpaceAccounted(Space, D, {})
  BY DEF PagingInv, SpaceSound
<1>3. DevicePage = D
  BY DevicesFound
<1>4. D \subseteq Page
  BY DEF Devices
<1> HIDE DEF D
<1>5. Backed = BackedIn(Space, D) /\ Present = {p \in Page : page_table[p].present}
  BY <1>1, <1>3 DEF Backed, Present, BackedIn
<1>6. DOMAIN directory = Tables /\ TableFrames = TablesIn(Space)
  <2>1. DOMAIN directory = Tables
    BY <1>1, <1>2 DEF SpaceTyped
  <2> QED BY <1>1, <2>1 DEF TableFrames, TablesIn
<1>7. AreasInOrder
  BY OrderedIsInOrder DEF PagingInv, AreasInOrder
<1>8. FramesExclusive
  <2>1. \A p, q \in Backed : p # q => page_table[p].frame # page_table[q].frame
    BY <1>1, <1>2, <1>5 DEF SpaceApart
  <2>2. \A t, u \in DOMAIN directory : t # u => directory[t] = 0 \/ directory[t] # directory[u]
    BY <1>1, <1>2, <1>6 DEF SpaceApart
  <2>3. \A p \in Backed : page_table[p].frame \notin TableFrames \cup BootBlocks \cup leaked
    BY <1>1, <1>2, <1>5, <1>6 DEF SpaceApart, NotOfPages
  <2>4. \A p \in Present \cap DevicePage : page_table[p].frame = p /\ p \notin Block
    BY <1>1, <1>2, <1>3, <1>5, DevicesBound DEF SpaceApart, D
  <2> QED BY <2>1, <2>2, <2>3, <2>4 DEF FramesExclusive
<1>9. FramesAccounted
  <2>1. memory.used = Cardinality(memory.bitmap)
    BY <1>1, <1>2 DEF SpaceTyped
  <2>2. memory.bitmap = (BootBlocks \cup TableFrames \cup leaked)
                          \cup {page_table[p].frame : p \in Backed} \cup {}
    BY <1>1, <1>2, <1>5, <1>6 DEF SpaceAccounted, NotOfPages
  <2> QED BY <2>1, <2>2 DEF FramesAccounted
<1> QED BY <1>7, <1>8, <1>9 DEF AddressSpaceSound

LEMMA PagingStart ==
  ASSUME PagingInit
  PROVE  PagingInv
<1>1. /\ contract = ContractInit /\ contract_spinlock = 0 /\ memory = Allocated(BootMemory)
      /\ directory = [t \in Tables |-> 0]
      /\ page_table = [p \in Page |-> [present |-> FALSE, frame |-> 0]]
      /\ alloced_bitmap = {CacheBuffers - 1} /\ leaked = {}
  BY DEF PagingInit, Tables
<1>2. Low \in Nat /\ High \in Nat /\ Low + 1 < High /\ CacheBuffers \in Nat \ {0}
  BY VmContractAssumption, AddressSpaceAssumption
<1>3. /\ Len(contract) = 2 /\ contract \in Seq(Area)
      /\ contract[1] = Guard(Low) /\ contract[2] = Guard(High - 1)
  <2>1. Guard(Low) \in Area /\ Guard(High - 1) \in Area
    BY <1>2 DEF Guard, Area
  <2> HIDE DEF Guard
  <2> QED BY <1>1, <2>1 DEF ContractInit
<1>4. \A i \in 1..2 : i = 1 \/ i = 2
  OBVIOUS
<1>5. Guard(Low).start = Low /\ Guard(Low).end = Low + 1 /\ Guard(Low).flags = {}
      /\ Guard(High - 1).start = High - 1 /\ Guard(High - 1).end = High - 1 + 1
      /\ Guard(High - 1).flags = {}
  BY DEF Guard
<1>6. Ordered(contract)
  BY <1>2, <1>3, <1>4, <1>5 DEF Ordered
<1>7. \A i \in 1..Len(contract) : contract[i].flags = {}
  BY <1>3, <1>4, <1>5
<1>8. \A p \in Page : ~page_table[p].present
  BY <1>1
<1>9. SpaceSound(Space, Devices(contract), {})
  <2> DEFINE D == Devices(contract)
  <2>1. /\ Space.memory = memory /\ Space.directory = directory
        /\ Space.page_table = page_table /\ Space.leaked = leaked
    BY DEF Space
  <2> HIDE DEF D
  <2>2. BackedIn(Space, D) = {}
    BY <1>8, <2>1 DEF BackedIn
  <2>3. TablesIn(Space) = {} /\ NotOfPages(Space) = BootBlocks
    BY <1>1, <2>1 DEF TablesIn, NotOfPages
  <2>4. memory.bitmap = BootBlocks /\ Counted(memory)
    BY <1>1, BootFacts DEF BootBlocks
  <2>5. SpaceTyped(Space)
    <3>1. directory \in [Tables -> Nat] /\ page_table \in [Page -> Entry]
      BY <1>1 DEF Entry
    <3> QED BY <2>1, <2>4, <3>1 DEF SpaceTyped, Counted
  <2>6. SpaceApart(Space, D, {})
    BY <1>1, <1>8, <2>1, <2>2 DEF SpaceApart
  <2>7. SpaceAccounted(Space, D, {})
    BY <2>1, <2>2, <2>3, <2>4 DEF SpaceAccounted
  <2> QED BY <2>5, <2>6, <2>7 DEF SpaceSound, D
<1>10. CacheBuffers - 1 \in Buffer
  BY <1>2 DEF Buffer
<1> QED BY <1>1, <1>6, <1>7, <1>8, <1>9, <1>10 DEF PagingInv

\* An area that is added makes devices of pages that are not there.
LEMMA MmapKeeps ==
  ASSUME PagingInv, NEW a \in Areas, Mmap(a)
  PROVE  PagingInv'
<1>0. Ordered(contract) /\ a \in Area
  BY AddressSpaceAssumption DEF PagingInv
<1>1. /\ memory' = memory /\ directory' = directory /\ page_table' = page_table
      /\ leaked' = leaked /\ alloced_bitmap' = alloced_bitmap
      /\ Space' = Space
  BY DEF Mmap, paging, Space
<1>2. contract_spinlock' = 0 \/ mapFailed'
  BY DEF Mmap
<1>3. CASE ~MayAdd(contract, a)
  <2>1. contract' = contract
    BY <1>3 DEF Mmap
  <2> QED BY <1>1, <1>2, <2>1 DEF PagingInv
<1>4. CASE MayAdd(contract, a)
  <2> DEFINE c == contract
             r == contract'
  <2>1. r = Inserted(c, a)
    BY <1>4 DEF Mmap
  <2>2. /\ Ordered(r)
        /\ \A i \in 1..Len(r) : r[i] = a \/ \E j \in 1..Len(c) : r[i] = c[j]
    BY <1>0, <1>4, <2>1, InsertedOrdered
  <2>3. /\ \E i \in 1..Len(r) : r[i] = a
        /\ \A j \in 1..Len(c) : \E i \in 1..Len(r) : r[i] = c[j]
        /\ \A j \in 1..Len(c) : \A p \in Page :
             ~(c[j].start <= p /\ p < c[j].end /\ a.start <= p /\ p < a.end)
    <3>1. \A p \in Page : p \in Low .. High - 1
      BY DEF Page
    <3>2. /\ \E i \in 1..Len(r) : r[i] = a
          /\ \A j \in 1..Len(c) : \E i \in 1..Len(r) : r[i] = c[j]
      BY <1>0, <1>4, <2>1, InsertedOrdered
    <3> QED BY <1>0, <1>4, <3>1, <3>2, InsertedApart
  <2>4. \A i \in 1..Len(r) : r[i] \in Areas \/ r[i].flags = {}
    BY <2>2 DEF PagingInv
  <2>5. Mapped(c) \subseteq Mapped(r)
    BY <2>3 DEF Mapped
  <2>6. \A p \in Page : page_table[p].present => (p \in Devices(r) <=> p \in Devices(c))
    <3> SUFFICES ASSUME NEW p \in Page, page_table[p].present
                 PROVE  p \in Devices(r) <=> p \in Devices(c)
      OBVIOUS
    <3>1. p \in Devices(c) => p \in Devices(r)
      BY <2>3 DEF Devices
    <3>2. ASSUME "identity" \in a.flags
          PROVE  ~(a.start <= p /\ p < a.end)
      <4>1. p \in Mapped(c)
        BY DEF PagingInv
      <4>2. CASE p \in CachePage
        <5>1. PICK b \in Buffer : p = CacheStart + b
          BY <4>2 DEF CachePage
        <5>2. p \in CacheStart .. CacheStart + CacheBuffers - 1
          BY <5>1, AddressSpaceAssumption DEF Buffer
        <5> QED BY <3>2, <5>2, IdentityAssumption
      <4>3. CASE p \notin CachePage
        BY <2>3, <4>1, <4>3 DEF Mapped
      <4> QED BY <4>2, <4>3
    <3>3. p \in Devices(r) => p \in Devices(c)
      BY <2>2, <3>2 DEF Devices
    <3> QED BY <3>1, <3>3
  <2>7. SpaceSound(Space, Devices(c), {})
    BY DEF PagingInv
  <2>8. SpaceSound(Space, Devices(r), {})
    <3>1. Space.page_table = page_table
      BY DEF Space
    <3> QED BY <2>6, <2>7, <3>1, SameDevices
  <2>9. \A p \in Page : page_table[p].present => p \in Mapped(r)
    BY <2>5 DEF PagingInv
  <2> QED BY <1>1, <1>2, <2>2, <2>4, <2>8, <2>9 DEF PagingInv
<1> QED BY <1>3, <1>4

LEMMA SameSpace ==
  ASSUME NEW s, NEW D, SpaceSound(s, D, {}),
         NEW r, r.memory = s.memory, SameMaps(r, s), r.leaked = s.leaked
  PROVE  SpaceSound(r, D, {})
<1>1. BackedIn(r, D) = BackedIn(s, D) /\ NotOfPages(r) = NotOfPages(s)
  BY DEF SameMaps, BackedIn, NotOfPages, TablesIn
<1>2. SpaceTyped(r)
  BY DEF SpaceSound, SpaceTyped, SameMaps
<1>3. SpaceApart(r, D, {})
  BY <1>1 DEF SpaceSound, SpaceApart, SameMaps
<1>4. SpaceAccounted(r, D, {})
  BY <1>1 DEF SpaceSound, SpaceAccounted, SameMaps
<1> QED BY <1>2, <1>3, <1>4 DEF SpaceSound

LEMMA SpaceFields ==
  /\ IsSpace(Space)
  /\ Space.memory = memory /\ Space.directory = directory
  /\ Space.page_table = page_table /\ Space.leaked = leaked
  /\ Space'.memory = memory' /\ Space'.directory = directory'
  /\ Space'.page_table = page_table' /\ Space'.leaked = leaked'
BY DEF Space, IsSpace

\* What is left when the paging functions have worked and no area is added
LEMMA BecomesKeeps ==
  ASSUME PagingInv, NEW s, Becomes(s), contract' = contract,
         contract_spinlock' = contract_spinlock, mapFailed' = mapFailed,
         SpaceSound(s, Devices(contract), {}),
         \A p \in Page : s.page_table[p].present => p \in Mapped(contract),
         alloced_bitmap' \subseteq Buffer,
         \A b \in alloced_bitmap' \ {CacheBuffers - 1} : s.page_table[CacheStart + b].present
  PROVE  PagingInv'
<1>1. /\ memory' = s.memory /\ directory' = s.directory
      /\ page_table' = s.page_table /\ leaked' = s.leaked
  BY DEF Becomes
<1>2. Devices(contract') = Devices(contract) /\ Mapped(contract') = Mapped(contract)
  OBVIOUS
<1>3. SpaceSound(Space', Devices(contract'), {})
  <2>1. Space'.memory = s.memory /\ SameMaps(Space', s) /\ Space'.leaked = s.leaked
    BY <1>1, SpaceFields DEF SameMaps
  <2> QED BY <1>2, <2>1, SameSpace
<1>4. Ordered(contract') /\ \A i \in 1..Len(contract') : contract'[i] \in Areas \/ contract'[i].flags = {}
  BY DEF PagingInv
<1>5. contract_spinlock' = 0 \/ mapFailed'
  BY DEF PagingInv
<1>6. \A p \in Page : page_table'[p].present => p \in Mapped(contract')
  BY <1>1, <1>2
<1>7. \A b \in alloced_bitmap' \ {CacheBuffers - 1} : page_table'[CacheStart + b].present
  BY <1>1
<1> QED BY <1>3, <1>4, <1>5, <1>6, <1>7 DEF PagingInv

LEMMA FaultServes ==
  ASSUME PagingInv, NEW p \in Page, FindArea(contract, p) # NoArea
  PROVE  LET s == Served(Space, FindArea(contract, p), p)
         IN  /\ SpaceSound(s, Devices(contract), {})
             /\ \A q \in Page : s.page_table[q].present => q \in Mapped(contract)
             /\ \A q \in Page : page_table[q].present => s.page_table[q].present
             /\ s.page_table[p].present \/ NextBlock(s.memory) = 0
<1> DEFINE D == Devices(contract)
<1>0. Ordered(contract) /\ p \in Low .. High - 1 /\ Low \in Nat /\ High \in Nat /\ p \in Nat
  BY VmContractAssumption DEF PagingInv, Page
<1>1. PICK i \in 1..Len(contract) :
        FindArea(contract, p) = contract[i] /\ contract[i].start <= p /\ p < contract[i].end
  BY <1>0, FindFacts
<1>2. PICK area : area = contract[i]
  OBVIOUS
<1>3. /\ area \in Area /\ area.start \in Nat /\ area.end \in Nat
      /\ Low <= area.start /\ area.start < area.end /\ area.end <= High
      /\ area.start <= p /\ p < area.end
  <2>1. contract[i] \in Area
    BY <1>0 DEF Ordered
  <2> QED BY <1>0, <1>1, <1>2, <2>1, OrderedFacts
<1>4. ASSUME NEW q \in area.start .. area.end - 1
      PROVE  /\ q \in Page /\ contract[i].start <= q /\ q < contract[i].end
             /\ FitsArea(q, area, D)
  <2>1. /\ q \in Page /\ q \in Low .. High - 1 /\ contract[i].start <= q /\ q < contract[i].end
        /\ Mmio \in Nat /\ q \in Nat
    BY <1>0, <1>2, <1>3, AddressSpaceAssumption, SMTT(30) DEF Page
  <2>2. \A j \in 1..Len(contract) : contract[j].start <= q /\ q < contract[j].end => j = i
    BY <1>0, <2>1, OneArea
  <2>3. q \in D <=> ("identity" \in area.flags \/ q >= Mmio)
    BY <1>2, <2>1, <2>2 DEF Devices
  <2>4. q >= Mmio <=> ~(q < Mmio)
    BY <2>1
  <2> QED BY <2>1, <2>3, <2>4 DEF FitsArea
<1> HIDE DEF D
<1>5. IsSpace(Space) /\ SpaceSound(Space, D, {}) /\ Space.page_table = page_table
  BY SpaceFields DEF PagingInv, D
<1>6. PICK s : s = Served(Space, area, p)
  OBVIOUS
<1>7. /\ SpaceSound(s, D, {}) /\ Keeps(s, Space)
      /\ Adds(s, Space, area.start .. area.end - 1) /\ Given(s, p)
  BY <1>0, <1>3, <1>4, <1>5, <1>6, ServedFacts
<1>8. ASSUME NEW q \in Page, s.page_table[q].present
      PROVE  q \in Mapped(contract)
  <2>1. page_table[q].present \/ q \in area.start .. area.end - 1
    BY <1>5, <1>7, <1>8 DEF Adds
  <2>2. CASE page_table[q].present
    BY <2>2 DEF PagingInv
  <2>3. CASE q \in area.start .. area.end - 1
    BY <1>4, <2>3 DEF Mapped
  <2> QED BY <2>1, <2>2, <2>3
<1>9. \A q \in Page : page_table[q].present => s.page_table[q].present
  BY <1>5, <1>7 DEF Keeps
<1>10. s.page_table[p].present \/ NextBlock(s.memory) = 0
  BY <1>7 DEF Given
<1>11. s = Served(Space, FindArea(contract, p), p)
  BY <1>1, <1>2, <1>6
<1> QED BY <1>7, <1>8, <1>9, <1>10, <1>11 DEF D

LEMMA FaultKeeps ==
  ASSUME PagingInv, NEW p \in Page, NEW write \in BOOLEAN, Fault(p, write)
  PROVE  PagingInv'
<1>1. /\ contract' = contract /\ contract_spinlock' = contract_spinlock
      /\ alloced_bitmap' = alloced_bitmap /\ mapFailed' = mapFailed
  BY DEF Fault
<1>2. CASE contract_spinlock = 0 /\ Legal(p, write)
  <2>1. PICK s : s = Served(Space, FindArea(contract, p), p)
    OBVIOUS
  <2>2. Becomes(s)
    BY <1>2, <2>1 DEF Fault
  <2>3. FindArea(contract, p) # NoArea
    BY <1>2 DEF Legal
  <2>4. /\ SpaceSound(s, Devices(contract), {})
        /\ \A q \in Page : s.page_table[q].present => q \in Mapped(contract)
        /\ \A q \in Page : page_table[q].present => s.page_table[q].present
    BY <2>1, <2>3, FaultServes
  <2>5. /\ alloced_bitmap' \subseteq Buffer
        /\ \A b \in alloced_bitmap' \ {CacheBuffers - 1} : s.page_table[CacheStart + b].present
    <3>1. alloced_bitmap \subseteq Buffer
      BY DEF PagingInv
    <3>2. \A b \in Buffer : CacheStart + b \in Page
      BY CachePages
    <3> QED BY <1>1, <2>4, <3>1, <3>2 DEF PagingInv
  <2> QED BY <1>1, <2>2, <2>4, <2>5, BecomesKeeps
<1>3. CASE ~(contract_spinlock = 0 /\ Legal(p, write))
  <2>1. /\ memory' = memory /\ directory' = directory /\ page_table' = page_table
        /\ leaked' = leaked /\ Space' = Space
    BY <1>3 DEF Fault, paging, Space
  <2> QED BY <1>1, <2>1 DEF PagingInv
<1> QED BY <1>2, <1>3

LEMMA ReserveAnonymousKeeps ==
  ASSUME PagingInv, ReserveAnonymous
  PROVE  PagingInv'
<1>1. PICK b : b = Min(Buffer \ alloced_bitmap)
  OBVIOUS
<1>2. PICK p : p = CacheStart + b
  OBVIOUS
<1>3. PICK s : s = AllocPageF(Space, p)
  OBVIOUS
<1>4. /\ Becomes(s)
      /\ alloced_bitmap' = IF s.page_table[p].present THEN alloced_bitmap \cup {b} ELSE alloced_bitmap
      /\ contract' = contract /\ contract_spinlock' = contract_spinlock /\ mapFailed' = mapFailed
  BY <1>1, <1>2, <1>3 DEF ReserveAnonymous
<1>5. b \in Buffer
  <2>1. Buffer \ alloced_bitmap \in SUBSET Nat /\ Buffer \ alloced_bitmap # {}
    BY AddressSpaceAssumption DEF Buffer, ReserveAnonymous
  <2> QED BY <1>1, <2>1, MinFacts
<1>6. p \in CachePage /\ p \in Page /\ p < Mmio /\ p \notin Devices(contract)
  BY <1>2, <1>5, CachePages, CacheIsNoDevice
<1>7. Serves(s, Space, Devices(contract), {}, p)
  <2>1. IsSpace(Space) /\ SpaceSound(Space, Devices(contract), {})
    BY SpaceFields DEF PagingInv
  <2> QED BY <1>3, <1>6, <2>1, AllocPageFacts
<1>8. Space.page_table = page_table
  BY SpaceFields
<1>9. \A q \in Page : s.page_table[q].present => q \in Mapped(contract)
  BY <1>6, <1>7, <1>8 DEF Serves, Adds, PagingInv, Mapped
<1>10. /\ alloced_bitmap' \subseteq Buffer
       /\ \A x \in alloced_bitmap' \ {CacheBuffers - 1} : s.page_table[CacheStart + x].present
  <2>1. alloced_bitmap \subseteq Buffer
    BY DEF PagingInv
  <2>2. \A x \in Buffer : CacheStart + x \in Page
    BY CachePages
  <2>3. \A x \in alloced_bitmap \ {CacheBuffers - 1} : s.page_table[CacheStart + x].present
    BY <1>7, <1>8, <2>1, <2>2 DEF Serves, Keeps, PagingInv
  <2> QED BY <1>2, <1>4, <1>5, <2>1, <2>3
<1> QED BY <1>4, <1>7, <1>9, <1>10, BecomesKeeps DEF Serves

LEMMA ReleaseAnonymousKeeps ==
  ASSUME PagingInv, NEW b \in Buffer, ReleaseAnonymous(b)
  PROVE  PagingInv'
<1>1. PICK p : p = CacheStart + b
  OBVIOUS
<1>2. PICK s : s = FreePage(Space, p)
  OBVIOUS
<1>3. /\ Becomes(s) /\ b \in alloced_bitmap \ {CacheBuffers - 1}
      /\ alloced_bitmap' = alloced_bitmap \ {b}
      /\ contract' = contract /\ contract_spinlock' = contract_spinlock /\ mapFailed' = mapFailed
  BY <1>1, <1>2 DEF ReleaseAnonymous
<1>4. p \in Page /\ p \notin Devices(contract) /\ page_table[p].present
  BY <1>1, <1>3, CachePages, CacheIsNoDevice DEF PagingInv
<1>5. SpaceSound(Space, Devices(contract), {}) /\ Space.page_table = page_table
  BY SpaceFields DEF PagingInv
<1>6. page_table[p].frame # 0
  <2>1. p \in BackedIn(Space, Devices(contract))
    BY <1>4, <1>5 DEF BackedIn
  <2>2. 0 \in NotOfPages(Space)
    BY BootFacts DEF NotOfPages, BootBlocks, Counted
  <2> QED BY <1>5, <2>1, <2>2 DEF SpaceSound, SpaceApart
<1>7. /\ s.memory = Freed(Space.memory, Space.page_table[p].frame)
      /\ s.directory = Space.directory /\ s.leaked = Space.leaked
      /\ s.page_table = [Space.page_table EXCEPT ![p].present = FALSE]
  BY <1>2, <1>5, <1>6 DEF FreePage, Space
<1>8. SpaceSound(s, Devices(contract), {})
  BY <1>4, <1>5, <1>7, PageFreed
<1>9. \A q \in Page : q # p => s.page_table[q] = page_table[q]
  BY <1>5, <1>7 DEF SpaceSound, SpaceTyped
<1>10. ~s.page_table[p].present
  BY <1>4, <1>5, <1>7 DEF SpaceSound, SpaceTyped, Entry
<1>11. \A q \in Page : s.page_table[q].present => q \in Mapped(contract)
  BY <1>9, <1>10 DEF PagingInv
<1>12. /\ alloced_bitmap' \subseteq Buffer
       /\ \A x \in alloced_bitmap' \ {CacheBuffers - 1} : s.page_table[CacheStart + x].present
  <2>1. alloced_bitmap \subseteq Buffer
    BY DEF PagingInv
  <2>2. \A x \in Buffer \ {b} : CacheStart + x \in Page /\ CacheStart + x # p
    <3>1. \A x \in Buffer \ {b} : CacheStart + x # CacheStart + b
      BY AddressSpaceAssumption DEF Buffer
    <3> QED BY <1>1, <3>1, CachePages
  <2> QED BY <1>3, <1>9, <2>1, <2>2 DEF PagingInv
<1> QED BY <1>3, <1>8, <1>11, <1>12, BecomesKeeps

\* The invariant of the address space of a process
THEOREM AddressSpaceInvariance == PagingSpec => []PagingInv
<1>1. ASSUME PagingInv, PagingNext
      PROVE  PagingInv'
  <2>1. ASSUME NEW a \in Areas, Mmap(a)
        PROVE  PagingInv'
    BY <1>1, <2>1, MmapKeeps
  <2>2. ASSUME NEW p \in Page, NEW write \in BOOLEAN, Fault(p, write)
        PROVE  PagingInv'
    BY <1>1, <2>2, FaultKeeps
  <2>3. ASSUME ReserveAnonymous
        PROVE  PagingInv'
    BY <1>1, <2>3, ReserveAnonymousKeeps
  <2>4. ASSUME NEW b \in Buffer, ReleaseAnonymous(b)
        PROVE  PagingInv'
    BY <1>1, <2>4, ReleaseAnonymousKeeps
  <2> QED BY <1>1, <2>1, <2>2, <2>3, <2>4 DEF PagingNext
<1>2. ASSUME PagingInv, UNCHANGED pagingVars
      PROVE  PagingInv'
  <2>1. /\ contract' = contract /\ contract_spinlock' = contract_spinlock
        /\ memory' = memory /\ directory' = directory /\ page_table' = page_table
        /\ alloced_bitmap' = alloced_bitmap /\ leaked' = leaked /\ mapFailed' = mapFailed
    BY <1>2 DEF pagingVars
  <2>2. Space' = Space
    BY <2>1 DEF Space
  <2> QED BY <1>2, <2>1, <2>2 DEF PagingInv
<1> QED BY <1>1, <1>2, PagingStart, PTL DEF PagingSpec

\* The areas of a process stay in order, no block is used twice, and none is
\* lost but for want of a table (vmmngr_alloc_page_f 272-302, page_fault_bottom
\* 95-152).
THEOREM AddressSpaceAlwaysSound == PagingSpec => []AddressSpaceSound
<1>1. PagingInv => AddressSpaceSound
  BY SoundFromInv
<1> QED BY <1>1, AddressSpaceInvariance, PTL

\* A legal page fault brings its page in, or memory has run out
\* (page_fault_bottom 95-152).
THEOREM LegalFaultsAlwaysServed == PagingSpec => LegalFaultsServed
<1>1. ASSUME PagingInv, NEW p \in Page, NEW write \in BOOLEAN,
             ~mapFailed, Legal(p, write), Fault(p, write)
      PROVE  ~panicked' /\ (page_table'[p].present \/ NextBlock(memory') = 0)
  <2>1. contract_spinlock = 0
    BY <1>1 DEF PagingInv
  <2>2. PICK s : s = Served(Space, FindArea(contract, p), p)
    OBVIOUS
  <2>3. Becomes(s) /\ panicked' = panicked /\ ~panicked
    BY <1>1, <2>1, <2>2 DEF Fault
  <2>4. FindArea(contract, p) # NoArea
    BY <1>1 DEF Legal
  <2>5. s.page_table[p].present \/ NextBlock(s.memory) = 0
    BY <1>1, <2>2, <2>4, FaultServes
  <2> QED BY <2>3, <2>5 DEF Becomes
<1> DEFINE Good == \A p \in Page, write \in BOOLEAN :
                     ~mapFailed /\ Legal(p, write) /\ Fault(p, write)
                       => ~panicked' /\ (page_table'[p].present \/ NextBlock(memory') = 0)
<1>2. PagingInv => Good
  BY <1>1
<1>3. PagingInv => [Good]_pagingVars
  BY <1>2
<1>4. LegalFaultsServed <=> [][Good]_pagingVars
  BY DEF LegalFaultsServed
<1> HIDE DEF Good
<1> QED BY <1>3, <1>4, AddressSpaceInvariance, PTL
=============================================================================
