---------------------------- MODULE Containers ----------------------------
(***************************************************************************)
(* The containers of list.h, queue.h, vector.h, ordered_vector.h and       *)
(* queue_mpmc.h as they lie in memory: nodes and pointers, arrays with     *)
(* room to spare, a ring.  A call is one step: the first four have no      *)
(* concurrent users, and queue_mpmc runs under the critical section.       *)
(***************************************************************************)
EXTENDS Integers, FiniteSets, Sequences, TLC

CONSTANTS
  Item,            (* what is kept: numbers, for the order                *)
  Nothing,         (* what a place holds that nothing was written to      *)
  Node,            (* storage for list and queue nodes                    *)
  null,            (* the null pointer                                    *)
  List,            (* the lists and queues                                *)
  MaxLength,       (* bound: the items of a vector                        *)
  Slots            (* slots of the queue_mpmc                             *)

ASSUME ContainersAssumption ==
  /\ Item \subseteq Nat /\ Nothing \notin Nat /\ null \notin Node
  /\ MaxLength \in Nat /\ Slots \in Nat \ {0}
  /\ {"vector", "ordered", "mpmc"} \cap List = {}

VARIABLES
  cell,            (* Node -> data and next                               *)
  list,            (* List -> head, tail, count                           *)
  loose,           (* a node that was unlinked and not deleted, or null   *)
  vector,          (* data, count, r_size                                 *)
  ordered,         (* the ordered_vector: data, count, r_size             *)
  mpmc,            (* the queue_mpmc: buffer, head_index, tail_index      *)
  call             (* the last call and its result                        *)

listVars == <<cell, list, loose>>
containerVars == <<listVars, vector, ordered, mpmc, call>>

Called(op, on, item, returned) ==
  call' = [op |-> op, on |-> on, item |-> item, returned |-> returned]

-----------------------------------------------------------------------------
(* list.h and queue.h *)

Blank == [data |-> Nothing, next |-> null]

\* The nodes from the head on, as many as the count says, and their items.
Chain(l) ==
  LET at[i \in 1..list[l].count] ==
        IF i = 1 THEN list[l].head ELSE cell[at[i - 1]].next
  IN at
ListItems(l) == [i \in 1..list[l].count |-> cell[Chain(l)[i]].data]

InUse == {loose} \cup UNION {{Chain(l)[i] : i \in 1..list[l].count} : l \in List}
Unused == Node \ InUse

\* What new returns; which unused node it is makes no difference.
NewNode == CHOOSE n \in Unused : TRUE

ArraysUnchanged == UNCHANGED <<vector, ordered, mpmc>>

\* list l gets the node n, whose content the caller has set, at its end.
LinkBack(l, n, linked) ==
  IF list[l].count = 0
    THEN /\ cell' = linked
         /\ list' = [list EXCEPT ![l] = [head |-> n, tail |-> n, count |-> 1]]
    ELSE /\ cell' = [linked EXCEPT ![list[l].tail].next = n]
         /\ list' = [list EXCEPT ![l] = [head |-> @.head, tail |-> n, count |-> @.count + 1]]

list_insert_back(l, e) ==
  /\ Unused # {}
  /\ LinkBack(l, NewNode, [cell EXCEPT ![NewNode] = [data |-> e, next |-> null]])
  /\ Called("append", l, e, Nothing)
  /\ UNCHANGED loose /\ ArraysUnchanged

list_insert_back_node(l) ==
  /\ loose # null
  /\ LinkBack(l, loose, [cell EXCEPT ![loose].next = null])
  /\ Called("append", l, cell[loose].data, Nothing)
  /\ loose' = null /\ ArraysUnchanged

list_insert_front(l, e) ==
  /\ Unused # {}
  /\ cell' = [cell EXCEPT ![NewNode] = [data |-> e, next |-> list[l].head]]
  /\ list' = [list EXCEPT ![l] =
       [head |-> NewNode, tail |-> IF @.count = 0 THEN NewNode ELSE @.tail, count |-> @.count + 1]]
  /\ Called("prepend", l, e, Nothing)
  /\ UNCHANGED loose /\ ArraysUnchanged

Empty == [head |-> null, tail |-> null, count |-> 0]

\* What is left of list l without its first node.
Beheaded(l) ==
  IF list[l].count = 1 THEN Empty
  ELSE [head |-> cell[list[l].head].next, tail |-> list[l].tail, count |-> list[l].count - 1]

\* list_remove_front deletes the node, list_remove_front_node hands it out.
list_remove_front(l) ==
  /\ list[l].count > 0
  /\ list' = [list EXCEPT ![l] = Beheaded(l)]
  /\ LET n == list[l].head
     IN \/ cell' = [cell EXCEPT ![n] = Blank] /\ UNCHANGED loose
        \/ loose = null /\ loose' = n /\ cell' = [cell EXCEPT ![n].next = null]
  /\ Called("drop", l, Nothing, Nothing)
  /\ ArraysUnchanged

\* list_get_prev: the first node whose successor holds e, and the only node of
\* a list of one.  It runs off the end when no successor holds e.
HasPrev(l, e) ==
  IF list[l].count = 1 THEN ListItems(l)[1] = e
  ELSE \E i \in 2..list[l].count : ListItems(l)[i] = e
Prev(l, e) ==
  IF list[l].count = 1 THEN list[l].head
  ELSE Chain(l)[CHOOSE i \in 1 .. list[l].count - 1 :
                  /\ ListItems(l)[i + 1] = e
                  /\ \A j \in 2..i : ListItems(l)[j] # e]

\* Faulty form of RemoveAfter: the tail stays at the node that goes.
RemoveAfterKeepsTail(l, prev) ==
  LET n == IF list[l].count = 1 THEN prev ELSE cell[prev].next
  IN /\ list' = [list EXCEPT ![l] = IF @.count = 1 THEN Empty ELSE [@ EXCEPT !.count = @ - 1]]
     /\ cell' = [cell EXCEPT ![prev].next = cell[n].next, ![n] = Blank]
     /\ UNCHANGED loose

\* list_remove and list_remove_node after list_get_prev: the node after prev
\* goes, or prev itself when it is alone; a second element cannot be the head.
RemoveAfter(l, prev) ==
  LET n == IF list[l].count = 1 THEN prev ELSE cell[prev].next
      left == [head |-> list[l].head, tail |-> IF n = list[l].tail THEN prev ELSE list[l].tail,
               count |-> list[l].count - 1]
      unlinked == IF list[l].count = 1 THEN cell
                  ELSE [cell EXCEPT ![prev].next = cell[n].next]
  IN /\ list' = [list EXCEPT ![l] =
                   IF @.count = 1 THEN Empty
                   ELSE IF left.count = 1 THEN [left EXCEPT !.tail = left.head] ELSE left]
     /\ \/ cell' = [unlinked EXCEPT ![n] = Blank] /\ UNCHANGED loose
        \/ loose = null /\ loose' = n /\ cell' = [unlinked EXCEPT ![n].next = null]

list_remove(l, e) ==
  /\ HasPrev(l, e)
  /\ RemoveAfter(l, Prev(l, e))
  /\ Called("take", l, e, Nothing)
  /\ ArraysUnchanged

\* list_merge_back: the tail of an empty l1 would be followed, and the tail of an
\* empty l2 be left as the tail.
list_merge_back(l1, l2) ==
  /\ l1 # l2 /\ list[l1].count > 0 /\ list[l2].count > 0
  /\ cell' = [cell EXCEPT ![list[l1].tail].next = list[l2].head]
  /\ list' = [list EXCEPT ![l1] = [head |-> @.head, tail |-> list[l2].tail,
                                   count |-> @.count + list[l2].count],
                          ![l2] = Empty]
  /\ Called("merge", l1, l2, Nothing)
  /\ UNCHANGED loose /\ ArraysUnchanged

list_head_to_tail(l) ==
  /\ list[l].count > 1
  /\ cell' = [cell EXCEPT ![list[l].tail].next = list[l].head, ![list[l].head].next = null]
  /\ list' = [list EXCEPT ![l] = [head |-> cell[@.head].next, tail |-> @.head, count |-> @.count]]
  /\ Called("rotate", l, Nothing, Nothing)
  /\ UNCHANGED loose /\ ArraysUnchanged

list_clear(l) ==
  /\ list[l].count > 0
  /\ cell' = [n \in Node \cup {null} |->
                IF \E i \in 1..list[l].count : Chain(l)[i] = n THEN Blank ELSE cell[n]]
  /\ list' = [list EXCEPT ![l] = Empty]
  /\ Called("clear", l, Nothing, Nothing)
  /\ UNCHANGED loose /\ ArraysUnchanged

\* queue.h is a list of which the front is looked at and removed.
queue_peek(l) ==
  /\ list[l].count > 0
  /\ Called("peek", l, Nothing, cell[list[l].head].data)
  /\ UNCHANGED listVars /\ ArraysUnchanged

ListStep ==
  \E l \in List :
    \/ list_insert_back_node(l) \/ list_head_to_tail(l) \/ list_clear(l)
    \/ list_remove_front(l) \/ queue_peek(l)
    \/ \E e \in Item : list_insert_back(l, e) \/ list_insert_front(l, e) \/ list_remove(l, e)
    \/ \E m \in List : list_merge_back(l, m)

-----------------------------------------------------------------------------
(* vector.h *)

\* vector_reserve: the array grows and keeps what it holds.
Grown(v, size) ==
  [v EXCEPT !.r_size = size,
            !.data = [i \in 0 .. size - 1 |-> IF i < v.r_size THEN v.data[i] ELSE Nothing]]

\* A vector with room for one more: full, it doubles.
Roomy(v) == IF v.count = v.r_size THEN Grown(v, 2 * v.count) ELSE v

vector_insert_back(e) ==
  /\ vector.count < MaxLength
  /\ LET v == Roomy(vector)
     IN vector' = [v EXCEPT !.data[v.count] = e, !.count = @ + 1]
  /\ Called("append", "vector", e, Nothing)
  /\ UNCHANGED <<listVars, ordered, mpmc>>

\* An entry is overwritten through vector_at.
vector_at(i, e) ==
  /\ i < vector.count
  /\ vector' = [vector EXCEPT !.data[i] = e]
  /\ Called("replace", "vector", i, e)
  /\ UNCHANGED <<listVars, ordered, mpmc>>

\* vector_find_first with a predicate that holds for e only.
vector_find_first(e) ==
  LET hit(i) == i < vector.count /\ vector.data[i] = e
      Hits == {i \in 0 .. vector.r_size - 1 : hit(i)}
  IN /\ Called("find", "vector", e,
              IF Hits = {} THEN -1 ELSE CHOOSE i \in Hits : \A j \in Hits : i <= j)
     /\ UNCHANGED <<listVars, vector, ordered, mpmc>>

VectorStep ==
  \E e \in Item :
    \/ vector_insert_back(e) \/ vector_find_first(e)
    \/ \E i \in 0..MaxLength : vector_at(i, e)

-----------------------------------------------------------------------------
(* ordered_vector.h *)

\* The items greater than e move one place up, e goes below them.
ordered_vector_insert(e) ==
  LET v == Roomy(ordered)
      Greater == {i \in 0 .. v.count - 1 : e < v.data[i]}
      place == v.count - Cardinality(Greater)
  IN /\ v.count < MaxLength
     /\ ordered' = [v EXCEPT
          !.count = @ + 1,
          !.data = [i \in 0 .. v.r_size - 1 |->
                      IF i = place THEN e
                      ELSE IF place < i /\ i <= v.count THEN v.data[i - 1] ELSE v.data[i]]]
     /\ Called("enter", "ordered", e, Nothing)
     /\ UNCHANGED <<listVars, vector, mpmc>>

\* The items after index move one place down; the last place keeps a copy.
ordered_vector_remove(index) ==
  /\ index < ordered.count
  /\ ordered' = [ordered EXCEPT
       !.count = @ - 1,
       !.data = [i \in DOMAIN @ |->
                   IF index <= i /\ i < ordered.count - 1 THEN @[i + 1] ELSE @[i]]]
  /\ Called("erase", "ordered", index, Nothing)
  /\ UNCHANGED <<listVars, vector, mpmc>>

\* The binary search between first and last, both included.
FoundAt(e) ==
  LET find[w \in (0 .. ordered.count) \X (-1 .. ordered.count - 1)] ==
        LET first == w[1]
            last == w[2]
            mid == (first + last) \div 2
        IN IF first > last THEN -1
           ELSE IF e < ordered.data[mid] THEN find[<<first, mid - 1>>]
           ELSE IF e > ordered.data[mid] THEN find[<<mid + 1, last>>]
           ELSE mid
  IN find[<<0, ordered.count - 1>>]

\* ordered_vector_find.  The indices are unsigned: an empty vector, or an item
\* below all, would take last below zero; the contracts of vm_contract.cpp never
\* ask, for they hold an area at each end.
ordered_vector_find(e) ==
  /\ ordered.count > 0 /\ ordered.data[0] <= e
  /\ Called("find", "ordered", e, FoundAt(e))
  /\ UNCHANGED <<listVars, vector, ordered, mpmc>>

OrderedStep ==
  \/ \E e \in Item : ordered_vector_insert(e) \/ ordered_vector_find(e)
  \/ \E i \in 0..MaxLength : ordered_vector_remove(i)

-----------------------------------------------------------------------------
(* queue_mpmc.h *)

RingSlot == 0 .. Slots - 1
SlotAfter(i) == (i + 1) % Slots

queue_mpmc_insert(e) ==
  /\ \/ /\ SlotAfter(mpmc.tail_index) # mpmc.head_index
        /\ mpmc' = [mpmc EXCEPT !.buffer[mpmc.tail_index] = e, !.tail_index = SlotAfter(@)]
        /\ Called("append", "mpmc", e, TRUE)
     \/ /\ SlotAfter(mpmc.tail_index) = mpmc.head_index
        /\ Called("refuse", "mpmc", e, FALSE)
        /\ UNCHANGED mpmc
  /\ UNCHANGED <<listVars, vector, ordered>>

queue_mpmc_remove ==
  /\ mpmc.head_index # mpmc.tail_index
  /\ mpmc' = [mpmc EXCEPT !.head_index = SlotAfter(@)]
  /\ Called("drop", "mpmc", Nothing, TRUE)
  /\ UNCHANGED <<listVars, vector, ordered>>

\* An empty queue yields an object nobody initialised; queue_mpmc_is_empty is
\* asked first.
queue_mpmc_peek ==
  /\ mpmc.tail_index # mpmc.head_index
  /\ Called("peek", "mpmc", Nothing, mpmc.buffer[mpmc.head_index])
  /\ UNCHANGED <<listVars, vector, ordered, mpmc>>

queue_mpmc_clear(reader_caller) ==
  /\ mpmc' = IF reader_caller THEN [mpmc EXCEPT !.head_index = mpmc.tail_index]
                              ELSE [mpmc EXCEPT !.tail_index = mpmc.head_index]
  /\ Called("clear", "mpmc", Nothing, Nothing)
  /\ UNCHANGED <<listVars, vector, ordered>>

RingStep ==
  \/ queue_mpmc_remove \/ queue_mpmc_peek
  \/ \E e \in Item : queue_mpmc_insert(e)
  \/ \E reader_caller \in BOOLEAN : queue_mpmc_clear(reader_caller)

-----------------------------------------------------------------------------
\* list_init, queue_init, vector_init(v, 0), ordered_vector_init, queue_mpmc_init
ContainersInit ==
  /\ cell = [n \in Node \cup {null} |-> Blank]
  /\ list = [l \in List |-> Empty]
  /\ loose = null
  /\ vector = [data |-> [i \in {0} |-> Nothing], count |-> 0, r_size |-> 1]
  /\ ordered = [data |-> [i \in {0} |-> Nothing], count |-> 0, r_size |-> 1]
  /\ mpmc = [buffer |-> [i \in RingSlot |-> Nothing], head_index |-> 0, tail_index |-> 0]
  /\ call = [op |-> "init", on |-> Nothing, item |-> Nothing, returned |-> Nothing]

ContainersNext == ListStep \/ VectorStep \/ OrderedStep \/ RingStep

ContainersSpec == ContainersInit /\ [][ContainersNext]_containerVars

-----------------------------------------------------------------------------
(* Properties *)

RingItems ==
  [i \in 1 .. (mpmc.tail_index + Slots - mpmc.head_index) % Slots |->
     mpmc.buffer[(mpmc.head_index + i - 1) % Slots]]
ArrayItems(v) == [i \in 1..v.count |-> v.data[i - 1]]

Contents ==
  [c \in List \cup {"vector", "ordered", "mpmc"} |->
     IF c \in List THEN ListItems(c)
     ELSE IF c = "mpmc" THEN RingItems
     ELSE ArrayItems(IF c = "vector" THEN vector ELSE ordered)]

Promise == INSTANCE ItemSequences WITH
             Container <- List \cup {"vector", "ordered", "mpmc"}, content <- Contents

\* Behind its pointers, its spare places or its wrapped indices every container
\* is the sequence that its calls make of it, and no call disturbs another
\* container; lookups find an item exactly when it is there.
ImplementsSequences == Promise!SequencesSpec
=============================================================================
