----------------------------- MODULE QueueSpsc -----------------------------
(***************************************************************************)
(* The lock-free ring buffer of queue_spsc.h, between one producer and one *)
(* consumer that interleave anywhere: each reads the other's index in one  *)
(* step and acts on what it read in later ones.                            *)
(***************************************************************************)
EXTENDS Naturals, Sequences

CONSTANTS
  Element,         (* what is queued                                      *)
  None,            (* T(): the value of a slot nobody wrote               *)
  max_count,       (* slots in the buffer                                 *)
  Clearer          (* who calls queue_spsc_clear                          *)

ASSUME QueueSpscAssumption ==
  /\ max_count \in Nat \ {0} /\ None \notin Element
  /\ Clearer \subseteq {"producer", "consumer"}

Index == 0 .. max_count - 1

VARIABLES
  buffer, head_index, tail_index,
  producer,        (* where the producer is                               *)
  element,         (* the element it is inserting                         *)
  saw_head,        (* the head index it read to clear the queue           *)
  consumer,        (* where the consumer is                               *)
  saw_tail,        (* the tail index it read to clear the queue           *)
  peeked,          (* what its last peek returned                         *)
  crossed          (* whether a clearing by the producer has met the      *)
                   (* consumer halfway                                    *)

producerVars == <<producer, element, saw_head, crossed>>
consumerVars == <<consumer, saw_tail, peeked>>
vars == <<buffer, head_index, tail_index, producerVars, consumerVars>>

\* The slot after slot i.
After(i) == (i + 1) % max_count

-----------------------------------------------------------------------------
(* The producer *)

\* Faulty form of InsertCheck: the last free slot is used as well.
InsertUnchecked(e) ==
  /\ producer = "idle"
  /\ element' = e /\ producer' = "store"
  /\ UNCHANGED <<buffer, head_index, tail_index, saw_head, crossed, consumerVars>>

\* queue_spsc_insert: the test that the queue is not full; else it returns
\* false and nothing changes.
InsertCheck(e) ==
  /\ producer = "idle"
  /\ After(tail_index) # head_index
  /\ element' = e /\ producer' = "store"
  /\ UNCHANGED <<buffer, head_index, tail_index, saw_head, crossed, consumerVars>>

\* The element is stored in the free slot at the tail...
InsertStore ==
  /\ producer = "store"
  /\ buffer' = [buffer EXCEPT ![tail_index] = element]
  /\ producer' = "publish"
  /\ UNCHANGED <<head_index, tail_index, element, saw_head, crossed, consumerVars>>

\* ... and the tail moves past it.
InsertPublish ==
  /\ producer = "publish"
  /\ tail_index' = After(tail_index)
  /\ producer' = "idle"
  /\ UNCHANGED <<buffer, head_index, element, saw_head, crossed, consumerVars>>

\* queue_spsc_clear(q, false) reads the head...
ClearWriter ==
  /\ "producer" \in Clearer /\ producer = "idle"
  /\ saw_head' = head_index /\ producer' = "clear"
  /\ UNCHANGED <<buffer, head_index, tail_index, element, crossed, consumerVars>>

\* ... and moves the tail there.  Nothing holds the consumer back: it may have
\* moved the head meanwhile, or stand between its own test and its store.
ClearWriterStore ==
  /\ producer = "clear"
  /\ tail_index' = saw_head /\ producer' = "idle"
  /\ crossed' = (crossed \/ consumer # "idle" \/ head_index # saw_head)
  /\ UNCHANGED <<buffer, head_index, element, saw_head, consumerVars>>

-----------------------------------------------------------------------------
(* The consumer *)

\* queue_spsc_remove: the test that the queue is not empty.
RemoveCheck ==
  /\ consumer = "idle"
  /\ head_index # tail_index
  /\ consumer' = "remove"
  /\ UNCHANGED <<buffer, head_index, tail_index, saw_tail, peeked, producerVars>>

\* The head moves past the element.
RemoveAdvance ==
  /\ consumer = "remove"
  /\ head_index' = After(head_index)
  /\ consumer' = "idle"
  /\ UNCHANGED <<buffer, tail_index, saw_tail, peeked, producerVars>>

\* queue_spsc_peek, queue_spsc_is_empty: the test; an empty queue yields T().
PeekCheck ==
  /\ consumer = "idle"
  /\ IF tail_index # head_index THEN consumer' = "peek" /\ UNCHANGED peeked
                                ELSE peeked' = None /\ UNCHANGED consumer
  /\ UNCHANGED <<buffer, head_index, tail_index, saw_tail, producerVars>>

PeekRead ==
  /\ consumer = "peek"
  /\ peeked' = buffer[head_index]
  /\ consumer' = "idle"
  /\ UNCHANGED <<buffer, head_index, tail_index, saw_tail, producerVars>>

\* queue_spsc_clear(q, true) reads the tail...
ClearReader ==
  /\ "consumer" \in Clearer /\ consumer = "idle"
  /\ saw_tail' = tail_index /\ consumer' = "clear"
  /\ UNCHANGED <<buffer, head_index, tail_index, peeked, producerVars>>

\* ... and moves the head there.
ClearReaderStore ==
  /\ consumer = "clear"
  /\ head_index' = saw_tail /\ consumer' = "idle"
  /\ UNCHANGED <<buffer, tail_index, saw_tail, peeked, producerVars>>

-----------------------------------------------------------------------------
\* queue_spsc_init
Init ==
  /\ buffer = [i \in Index |-> None]
  /\ head_index = 0 /\ tail_index = 0
  /\ producer = "idle" /\ element = None /\ saw_head = 0
  /\ consumer = "idle" /\ saw_tail = 0 /\ peeked = None
  /\ crossed = FALSE

Producer ==
  \/ InsertStore \/ InsertPublish \/ ClearWriter \/ ClearWriterStore
  \/ \E e \in Element : InsertCheck(e)

Consumer ==
  \/ RemoveCheck \/ RemoveAdvance \/ PeekCheck \/ PeekRead
  \/ ClearReader \/ ClearReaderStore

Next == Producer \/ Consumer

Spec == Init /\ [][Next]_vars

-----------------------------------------------------------------------------
(* Properties *)

\* How many elements are queued from the head to slot t, and which.
Distance(t) == IF head_index <= t THEN t - head_index
                                  ELSE (t + max_count) - head_index
Slot(i) == IF head_index + i < max_count THEN head_index + i
                                         ELSE (head_index + i) - max_count
Items == [i \in 1..Distance(tail_index) |-> buffer[Slot(i - 1)]]

\* The variables hold values of their kinds.
TypeOK ==
  /\ buffer \in [Index -> Element \cup {None}]
  /\ head_index \in Index /\ tail_index \in Index
  /\ saw_head \in Index /\ saw_tail \in Index
  /\ producer \in {"idle", "store", "publish", "clear"}
  /\ consumer \in {"idle", "remove", "peek", "clear"}
  /\ element \in Element \cup {None} /\ peeked \in Element \cup {None}
  /\ crossed \in BOOLEAN

\* The ring buffer is a first-in first-out queue of max_count - 1 elements,
\* whatever the order in which producer and consumer read the indices and
\* clear the queue, until a clearing by the producer meets the consumer halfway
\* (queue_spsc_clear leaves the consumer free to run).
Fifo == INSTANCE BoundedFifo WITH Capacity <- max_count - 1, items <- Items
ImplementsFifo == Fifo!FifoInit /\ [][crossed' \/ Fifo!FifoNext]_Items

\* A peek of a non-empty queue returns its oldest element, though the producer
\* may run between the test and the read, until then.
PeekSeesOldest ==
  [][~crossed /\ consumer = "peek" /\ consumer' = "idle"
       => Items # <<>> /\ peeked' = Head(Items)]_vars
=============================================================================
