----------------------------- MODULE VmContract -----------------------------
(***************************************************************************)
(* The memory contract of a process (vm_contract.cpp, vm_area.cpp): its    *)
(* areas in an ordered vector, between two guards that no area replaces.   *)
(* Addresses are counted in pages: vm_area_create accepts aligned ones     *)
(* only.                                                                   *)
(***************************************************************************)
EXTENDS Integers, Sequences, FiniteSets

CONSTANTS
  Low, High,   (* lowest_addr, inclusive, and highest_addr, exclusive      *)
  Flag         (* the flags of areas the page fault looks at               *)

ASSUME VmContractAssumption == Low \in Nat /\ High \in Nat /\ Low + 1 < High

Area == [start : Nat, end : Nat, flags : SUBSET Flag]
NoArea == [start |-> 0, end |-> 0, flags |-> {}]

Guard(p) == [start |-> p, end |-> p + 1, flags |-> {}]

\* vm_contract_init
ContractInit == <<Guard(Low), Guard(High - 1)>>

\* vm_area_intersects
Intersects(a, b) == ~(b.end - 1 < a.start \/ b.start > a.end - 1)

\* Where the binary searches of vm_contract_add_area and vm_contract_find_area
\* end: the last area that starts before page p.
LastBefore(c, p) == Cardinality({i \in 1..Len(c) : c[i].start < p})

StartsAt(c, p) == \E i \in 1..Len(c) : c[i].start = p

\* Faulty form of MayAdd: the area that follows is not looked at.
MayAddAfter(c, a) ==
  /\ a.start < a.end /\ a.start >= Low /\ a.end - 1 < High
  /\ ~StartsAt(c, a.start)
  /\ ~Intersects(c[LastBefore(c, a.start)], a)

\* The tests of vm_area_create and vm_contract_add_area.
MayAdd(c, a) ==
  /\ a.start < a.end /\ a.start >= Low /\ a.end - 1 < High
  /\ ~StartsAt(c, a.start)
  /\ LET last == LastBefore(c, a.start)
     IN  ~Intersects(c[last], a) /\ ~Intersects(c[last + 1], a)

\* ordered_vector_insert
Inserted(c, a) ==
  LET last == LastBefore(c, a.start)
  IN  SubSeq(c, 1, last) \o <<a>> \o SubSeq(c, last + 1, Len(c))

\* vm_contract_find_area
FindArea(c, p) ==
  IF p < Low \/ p >= High THEN NoArea
  ELSE IF StartsAt(c, p) THEN c[LastBefore(c, p) + 1]
  ELSE LET area == c[LastBefore(c, p)]
       IN  IF p <= area.end - 1 THEN area ELSE NoArea

-----------------------------------------------------------------------------
\* The areas are in order and do not overlap, and the search finds the area of
\* a page, or none just when the page is in none.
ContractInOrder(c) ==
  /\ \A i, j \in 1..Len(c) : i < j => c[i].end <= c[j].start
  /\ \A p \in Low .. High - 1 :
       LET holding == {i \in 1..Len(c) : c[i].start <= p /\ p < c[i].end}
       IN  IF holding = {} THEN FindArea(c, p) = NoArea
                           ELSE \E i \in holding : FindArea(c, p) = c[i]
=============================================================================
