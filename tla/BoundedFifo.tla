---------------------------- MODULE BoundedFifo ----------------------------
(***************************************************************************)
(* What a bounded queue promises: elements come out in the order they went *)
(* in, each once, and there are never more than Capacity of them.          *)
(***************************************************************************)
EXTENDS Naturals, Sequences

CONSTANTS Element, Capacity

VARIABLE items

Put(e) == Len(items) < Capacity /\ items' = Append(items, e)

Take == items # <<>> /\ items' = Tail(items)

\* The reader empties the queue of what it saw.
Drop == \E k \in 1..Len(items) : items' = SubSeq(items, k + 1, Len(items))

FifoInit == items = <<>>
FifoNext == Take \/ Drop \/ \E e \in Element : Put(e)
FifoSpec == FifoInit /\ [][FifoNext]_items
=============================================================================
