---------------------------- MODULE KernelLists ----------------------------
(***************************************************************************)
(* The operations of dl_list.h on a list seen as the sequence of its       *)
(* nodes, head first.  The kernel keeps one node per thread and moves it   *)
(* between the lists, so a node is named by its thread.                    *)
(***************************************************************************)
EXTENDS Naturals, Sequences, FiniteSets

\* The nodes linked in list l.
Nodes(l) == { l[i] : i \in 1..Len(l) }

\* No node is linked twice.
NoDuplicates(l) == \A i, j \in 1..Len(l) : l[i] = l[j] => i = j

\* dl_list_remove_front_node
RemoveFrontNode(l) == IF l = <<>> THEN <<>> ELSE Tail(l)

\* Faulty forms, for the mutation of the model: a node is inserted at the
\* wrong end, the head stays where it is.
InsertFrontNode(l, n) == <<n>> \o l
HeadStays(l) == l

\* dl_list_insert_back_node
InsertBackNode(l, n) == Append(l, n)

\* dl_list_head_to_tail
HeadToTail(l) == IF Len(l) < 2 THEN l ELSE Append(Tail(l), Head(l))

\* The place of a node in the list.
Position(l, n) == CHOOSE i \in 1..Len(l) : l[i] = n

(***************************************************************************)
(* dl_list_remove_node, for a node of the list.  (A list of one element is *)
(* emptied whatever node is given; for another node in no list of its own  *)
(* the code follows null or foreign links, so callers must own the node.)  *)
(***************************************************************************)
RemoveNode(l, n) ==
  IF Len(l) < 2
  THEN <<>>
  ELSE SubSeq(l, 1, Position(l, n) - 1) \o SubSeq(l, Position(l, n) + 1, Len(l))

\* The elements of a finite set of numbers in increasing order: the order in
\* which a loop over a list meets the positions in S.
Ascending(S) ==
  [i \in 1..Cardinality(S) |->
     CHOOSE k \in S : Cardinality({j \in S : j <= k}) = i]

\* The nodes of list l at the positions K, in the order of l.
Picked(l, K) == [i \in 1..Len(Ascending(K)) |-> l[Ascending(K)[i]]]
=============================================================================
