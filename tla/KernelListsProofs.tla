------------------------ MODULE KernelListsProofs ------------------------
(* Facts about the list operations of KernelLists, for every list, and the *)
(* facts about numbers and sequences that the other proofs share.          *)
EXTENDS KernelLists, FiniteSetTheorems, FunctionTheorems,
        WellFoundedInduction, SequenceTheorems, TLAPS

\* dl_list_remove_front_node takes the head and nothing else off the list.
LEMMA RemoveFrontNodeFacts ==
  ASSUME NEW S, NEW l \in Seq(S), l # <<>>, NoDuplicates(l)
  PROVE  /\ RemoveFrontNode(l) \in Seq(S)
         /\ NoDuplicates(RemoveFrontNode(l))
         /\ Nodes(RemoveFrontNode(l)) = Nodes(l) \ {Head(l)}
<1> DEFINE m == RemoveFrontNode(l)
<1>1. /\ m \in Seq(S) /\ Len(m) = Len(l) - 1 /\ Len(l) \in Nat \ {0}
      /\ \A i \in 1..Len(m) : i + 1 \in 1..Len(l) /\ m[i] = l[i + 1]
      /\ Head(l) = l[1]
  BY DEF RemoveFrontNode
<1> HIDE DEF m
<1>2. NoDuplicates(m)
  BY <1>1 DEF NoDuplicates
<1>3. Nodes(m) \subseteq Nodes(l) \ {Head(l)}
  <2>1. ASSUME NEW i \in 1..Len(m)
        PROVE  m[i] \in Nodes(l) /\ m[i] # Head(l)
    <3>1. 1 \in 1..Len(l) /\ i + 1 # 1 /\ i + 1 \in 1..Len(l) /\ m[i] = l[i + 1]
      BY <1>1
    <3> QED BY <1>1, <3>1 DEF Nodes, NoDuplicates
  <2> QED BY <2>1 DEF Nodes
<1>4. ASSUME NEW i \in 1..Len(l), i # 1
      PROVE  l[i] \in Nodes(m)
  <2>1. i - 1 \in 1..Len(m) /\ m[i - 1] = l[i]
    BY <1>1, <1>4
  <2> QED BY <2>1 DEF Nodes
<1>5. Nodes(l) \ {Head(l)} \subseteq Nodes(m)
  BY <1>1, <1>4 DEF Nodes
<1> QED BY <1>1, <1>2, <1>3, <1>5 DEF m

\* dl_list_insert_back_node adds a node that was not linked.
LEMMA InsertBackNodeFacts ==
  ASSUME NEW S, NEW l \in Seq(S), NEW n \in S, n \notin Nodes(l),
         NoDuplicates(l)
  PROVE  /\ InsertBackNode(l, n) \in Seq(S)
         /\ NoDuplicates(InsertBackNode(l, n))
         /\ Nodes(InsertBackNode(l, n)) = Nodes(l) \cup {n}
         /\ l # <<>> => Head(InsertBackNode(l, n)) = Head(l)
  BY DEF InsertBackNode, NoDuplicates, Nodes

\* dl_list_head_to_tail keeps the nodes of the list.
LEMMA HeadToTailFacts ==
  ASSUME NEW S, NEW l \in Seq(S), NoDuplicates(l)
  PROVE  /\ HeadToTail(l) \in Seq(S)
         /\ NoDuplicates(HeadToTail(l))
         /\ Nodes(HeadToTail(l)) = Nodes(l)
<1>1. CASE Len(l) < 2
  BY <1>1 DEF HeadToTail
<1>2. CASE Len(l) >= 2
  <2> DEFINE m == HeadToTail(l)
  <2>1. /\ m \in Seq(S) /\ Len(m) = Len(l)
        /\ \A i \in 1 .. Len(l) - 1 : m[i] = l[i + 1]
        /\ m[Len(l)] = l[1]
    BY <1>2 DEF HeadToTail
  <2>2. \A i \in 1..Len(l) : /\ i # Len(l) => m[i] = l[i + 1]
                             /\ i = Len(l) => m[i] = l[1]
    BY <2>1
  <2> HIDE DEF m
  <2>3. NoDuplicates(m)
    BY <2>1, <2>2 DEF NoDuplicates
  <2>4. ASSUME NEW i \in 1..Len(m)
        PROVE  \E j \in 1..Len(l) : m[i] = l[j]
    <3>1. CASE i = Len(l)
      BY <1>2, <2>1, <3>1
    <3>2. CASE i # Len(l)
      <4>1. i + 1 \in 1..Len(l) /\ m[i] = l[i + 1]
        BY <2>1, <2>2, <3>2
      <4> QED BY <4>1
    <3> QED BY <3>1, <3>2
  <2>5. \A i \in 1..Len(l) : \E j \in 1..Len(m) : m[j] = l[i]
    <3> TAKE i \in 1..Len(l)
    <3>1. CASE i = 1
      BY <1>2, <2>1, <3>1
    <3>2. CASE i # 1
      <4>1. i - 1 \in 1 .. Len(l) - 1 /\ m[i - 1] = l[i]
        BY <2>1, <3>2
      <4> QED BY <2>1, <4>1
    <3> QED BY <3>1, <3>2
  <2>6. Nodes(m) \subseteq Nodes(l)
    BY <2>4 DEF Nodes
  <2>7. Nodes(l) \subseteq Nodes(m)
    BY <2>5 DEF Nodes
  <2> QED BY <2>1, <2>3, <2>6, <2>7 DEF m
<1> QED BY <1>1, <1>2

\* dl_list_remove_node takes the given node and nothing else off the list,
\* and keeps its head when that is another node.
LEMMA RemoveNodeFacts ==
  ASSUME NEW S, NEW l \in Seq(S), NEW n \in Nodes(l), NoDuplicates(l)
  PROVE  /\ RemoveNode(l, n) \in Seq(S)
         /\ NoDuplicates(RemoveNode(l, n))
         /\ Nodes(RemoveNode(l, n)) = Nodes(l) \ {n}
         /\ n # Head(l) => Head(RemoveNode(l, n)) = Head(l)
<1> DEFINE at == Position(l, n)
           m  == RemoveNode(l, n)
<1>1. at \in 1..Len(l) /\ l[at] = n
  BY DEF Nodes, Position
<1>2. CASE Len(l) < 2
  BY <1>1, <1>2 DEF RemoveNode, Nodes, NoDuplicates
<1>3. CASE Len(l) >= 2
  <2> DEFINE f == SubSeq(l, 1, at - 1)
             g == SubSeq(l, at + 1, Len(l))
  <2>1. m = f \o g
    <3>1. ~(Len(l) < 2)
      BY <1>3
    <3> QED BY <3>1, Zenon DEF RemoveNode
  <2> HIDE DEF at, m
  <2>2. /\ f \in Seq(S) /\ Len(f) = at - 1
        /\ \A i \in 1 .. at - 1 : f[i] = l[i]
    BY <1>1
  <2>3. /\ g \in Seq(S) /\ Len(g) = Len(l) - at
        /\ \A i \in 1 .. Len(l) - at : g[i] = l[at + i]
    BY <1>1
  <2> HIDE DEF f, g
  <2>4. m \in Seq(S) /\ Len(m) = Len(l) - 1
    <3>1. m \in Seq(S) /\ Len(m) = Len(f) + Len(g)
      BY <2>1, <2>2, <2>3, ConcatProperties
    <3> QED BY <1>1, <2>2, <2>3, <3>1
  <2>5. \A i \in 1..Len(m) : /\ i < at => m[i] = l[i]
                             /\ i >= at => m[i] = l[i + 1]
    <3> TAKE i \in 1..Len(m)
    <3>1. m[i] = IF i <= Len(f) THEN f[i] ELSE g[i - Len(f)]
      <4>1. i \in 1 .. Len(f) + Len(g)
        BY <1>1, <2>2, <2>3, <2>4
      <4> QED BY <2>1, <2>2, <2>3, <4>1
    <3>2. CASE i < at
      BY <1>1, <2>2, <2>4, <3>1, <3>2
    <3>3. CASE i >= at
      <4>1. /\ i - Len(f) \in 1 .. Len(l) - at
            /\ at + (i - Len(f)) = i + 1
            /\ ~(i <= Len(f))
        BY <1>1, <2>2, <2>4, <3>3
      <4>2. m[i] = g[i - Len(f)]
        BY <3>1, <4>1
      <4>3. m[i] = l[i + 1]
        BY <2>3, <4>1, <4>2
      <4> QED BY <1>1, <2>4, <3>3, <4>3
    <3> QED BY <1>1, <3>2, <3>3
  <2> DEFINE from(i) == IF i < at THEN i ELSE i + 1
  <2>5a. \A i \in 1..Len(m) : from(i) \in 1..Len(l) /\ m[i] = l[from(i)]
    BY <1>1, <2>4, <2>5
  <2>5b. \A i, j \in 1..Len(m) : from(i) = from(j) => i = j
    BY <1>1, <2>4
  <2>5c. \A i \in 1..Len(m) : from(i) # at
    BY <1>1, <2>4
  <2> HIDE DEF from
  <2>6. NoDuplicates(m)
    BY <2>5a, <2>5b DEF NoDuplicates
  <2>7. Nodes(m) \subseteq Nodes(l) \ {n}
    BY <1>1, <2>5a, <2>5c DEF Nodes, NoDuplicates
  <2>8. ASSUME NEW i \in 1..Len(l), i # at
        PROVE  l[i] \in Nodes(m)
    <3>1. CASE i < at
      BY <1>1, <2>4, <2>5, <3>1 DEF Nodes
    <3>2. CASE i > at
      <4>1. i - 1 \in 1..Len(m) /\ m[i - 1] = l[i]
        BY <1>1, <2>4, <2>5, <3>2
      <4> QED BY <4>1 DEF Nodes
    <3> QED BY <1>1, <2>8, <3>1, <3>2
  <2>9. Nodes(m) = Nodes(l) \ {n}
    <3>1. Nodes(l) \ {n} \subseteq Nodes(m)
      BY <1>1, <2>8 DEF Nodes
    <3> QED BY <2>7, <3>1
  <2>10. n # Head(l) => Head(m) = Head(l)
    BY <1>1, <1>3, <2>4, <2>5
  <2> QED BY <2>4, <2>6, <2>9, <2>10 DEF m
<1> QED BY <1>2, <1>3

(***************************************************************************)
(* The loop order over a finite set of positions visits each of them once. *)
(***************************************************************************)
LEMMA AscendingFacts ==
  ASSUME NEW S \in SUBSET Nat, IsFiniteSet(S)
  PROVE  /\ Ascending(S) \in Seq(S)
         /\ \A k \in S : \E i \in 1..Len(Ascending(S)) : Ascending(S)[i] = k
         /\ \A i, j \in 1..Len(Ascending(S)) :
              i < j => Ascending(S)[i] < Ascending(S)[j]
<1> DEFINE rank(k) == Cardinality({j \in S : j <= k})
           n == Cardinality(S)
           a == Ascending(S)
<1>1. n \in Nat
  BY FS_CardinalityType
<1>2. \A k \in S : IsFiniteSet({j \in S : j <= k}) /\ rank(k) \in 1..n
  <2> TAKE k \in S
  <2>1. IsFiniteSet({j \in S : j <= k}) /\ rank(k) <= n /\ rank(k) \in Nat
    <3>1. {j \in S : j <= k} \subseteq S
      OBVIOUS
    <3> QED BY <3>1, FS_Subset, FS_CardinalityType
  <2>2. rank(k) # 0
    <3>1. k \in {j \in S : j <= k}
      OBVIOUS
    <3> QED BY <2>1, <3>1, FS_EmptySet
  <2> QED BY <1>1, <2>1, <2>2
<1>3. ASSUME NEW k \in S, NEW m \in S, k < m
      PROVE  rank(k) < rank(m)
  <2> DEFINE T == {j \in S : j <= k}
             U == {j \in S : j <= m}
  <2>1. T \subseteq U /\ T # U
    <3>1. m \in U /\ m \notin T
      BY <1>3
    <3>2. \A j \in S : j <= k => j <= m
      BY <1>3
    <3> QED BY <3>1, <3>2
  <2>2. IsFiniteSet(U) /\ rank(k) \in Nat /\ rank(m) \in Nat
    BY <1>2
  <2>3. Cardinality(T) <= Cardinality(U)
    BY <2>1, <2>2, FS_Subset
  <2>4. Cardinality(T) # Cardinality(U)
    BY <2>1, <2>2, FS_Subset
  <2> QED BY <2>2, <2>3, <2>4
<1>4. \A k, m \in S : rank(k) = rank(m) => k = m
  <2> SUFFICES ASSUME NEW k \in S, NEW m \in S, k # m
               PROVE  rank(k) # rank(m)
    OBVIOUS
  <2>1. k < m \/ m < k
    OBVIOUS
  <2>2. rank(k) \in Nat /\ rank(m) \in Nat
    BY <1>2
  <2> HIDE DEF rank
  <2> QED BY <1>3, <2>1, <2>2
<1>5. \A i \in 1..n : \E k \in S : rank(k) = i
  <2> DEFINE r == [k \in S |-> rank(k)]
             R == Range(r)
  <2>1. r \in Injection(S, 1..n)
    <3>1. r \in [S -> 1..n]
      BY <1>2
    <3>2. \A k, m \in S : r[k] = r[m] => k = m
      BY <1>4
    <3> QED BY <3>1, <3>2 DEF Injection, IsInjective
  <2>2. R \subseteq 1..n
    BY <1>2 DEF Range
  <2>3. IsFiniteSet(1..n) /\ Cardinality(1..n) = n
    BY <1>1, FS_Interval
  <2>4. r \in Bijection(S, R)
    BY <2>1, Fun_InjMeansBijImage
  <2>5. Cardinality(R) = n
    BY <2>4, FS_Bijection DEF ExistsBijection
  <2>6. R = 1..n
    BY <2>2, <2>3, <2>5, FS_Subset
  <2> QED BY <2>6 DEF Range
<1>6. \A i \in 1..n : a[i] \in S /\ rank(a[i]) = i
  <2> TAKE i \in 1..n
  <2>1. a[i] = CHOOSE k \in S : rank(k) = i
    BY DEF Ascending
  <2> HIDE DEF a, rank
  <2> QED BY <1>5, <2>1
<1>7. a \in Seq(S) /\ Len(a) = n
  <2>1. a = [i \in 1..n |-> a[i]]
    BY DEF Ascending
  <2> HIDE DEF a
  <2>2. a \in [1..n -> S]
    BY <1>6, <2>1
  <2> QED BY <1>1, <2>2
<1> HIDE DEF a, rank, n
<1>8. \A k \in S : rank(k) \in 1..n /\ a[rank(k)] = k
  BY <1>2, <1>4, <1>6
<1>9. ASSUME NEW i \in 1..n, NEW j \in 1..n, i < j
      PROVE  a[i] < a[j]
  <2>1. /\ a[i] \in S /\ a[j] \in S /\ a[i] \in Nat /\ a[j] \in Nat
        /\ rank(a[i]) = i /\ rank(a[j]) = j
    BY <1>6
  <2>2. a[i] # a[j]
    BY <1>1, <1>9, <2>1
  <2>3. ~(a[j] < a[i])
    <3> SUFFICES ASSUME a[j] < a[i]
                 PROVE  FALSE
      OBVIOUS
    <3>1. rank(a[j]) < rank(a[i])
      BY <1>3, <2>1
    <3> QED BY <1>1, <1>9, <2>1, <3>1
  <2> QED BY <2>1, <2>2, <2>3
<1> QED BY <1>7, <1>8, <1>9 DEF a

\* A non-empty set of numbers has a least element.
LEMMA LeastElement ==
  ASSUME NEW S \in SUBSET Nat, S # {}
  PROVE  \E p \in S : \A q \in S : p <= q
<1> DEFINE less == {ss \in Nat \X Nat : ss[1] < ss[2]}
<1>1. IsWellFoundedOn(less, Nat)
  BY ONLY NatLessThanWellFounded DEF OpToRel
<1>2. \E p \in S : \A q \in S : <<q, p>> \notin less
  <2> HIDE DEF less
  <2> QED BY <1>1, WFMin
<1>3. \A p, q \in Nat : <<q, p>> \notin less => p <= q
  OBVIOUS
<1>4. \A p, q \in S : p \in Nat /\ q \in Nat
  OBVIOUS
<1> HIDE DEF less
<1> QED BY <1>2, <1>3, <1>4

\* The least element, as it is chosen, is one.
LEMMA LeastNat ==
  ASSUME NEW S \in SUBSET Nat, S # {}
  PROVE  (CHOOSE x \in S : \A y \in S : x <= y) \in S
<1> DEFINE least(x) == \A y \in S : x <= y
<1>1. \E x \in S : least(x)
  BY LeastElement
<1> HIDE DEF least
<1>2. (CHOOSE x \in S : least(x)) \in S
  BY <1>1
<1> QED BY <1>2 DEF least

\* A set that holds 0 and, with each number below k, the next one holds k.
LEMMA Ladder ==
  ASSUME NEW k \in Nat, NEW S \in SUBSET (0..k), 0 \in S, \A n \in S : n < k => n + 1 \in S
  PROVE  k \in S
<1> SUFFICES ASSUME k \notin S
             PROVE  FALSE
  OBVIOUS
<1>1. (0..k) \ S \in SUBSET Nat /\ (0..k) \ S # {}
  OBVIOUS
<1>2. PICK m \in (0..k) \ S : \A q \in (0..k) \ S : m <= q
  BY <1>1, LeastElement
<1>3. m # 0 /\ m - 1 \in 0..k /\ m - 1 < k /\ ~(m <= m - 1)
  BY <1>2
<1>4. m - 1 \in S
  BY <1>2, <1>3
<1>5. (m - 1) + 1 \in S /\ (m - 1) + 1 = m
  BY <1>3, <1>4
<1> QED BY <1>2, <1>5

\* What a sequence is after an element came in or some went out.
LEMMA AppendIs ==
  ASSUME NEW S, NEW s \in Seq(S), NEW e
  PROVE  Append(s, e) = [i \in 1 .. Len(s) + 1 |-> IF i = Len(s) + 1 THEN e ELSE s[i]]
<1> DEFINE T == S \cup {e}
           f == [i \in 1 .. Len(s) + 1 |-> IF i = Len(s) + 1 THEN e ELSE s[i]]
<1>1. Len(s) \in Nat /\ s \in Seq(T) /\ e \in T
  BY SeqMonotonic, LenProperties
<1>2. /\ Append(s, e) \in Seq(T) /\ Len(Append(s, e)) = Len(s) + 1
      /\ \A i \in 1 .. Len(s) : Append(s, e)[i] = s[i]
      /\ Append(s, e)[Len(s) + 1] = e
  BY <1>1, AppendProperties
<1>3. f \in Seq(T) /\ Len(f) = Len(s) + 1
  BY <1>1, ElementOfSeq
<1>4. ASSUME NEW i \in 1 .. Len(s) + 1 PROVE Append(s, e)[i] = f[i]
  BY <1>1, <1>2
<1> HIDE DEF f, T
<1>5. Append(s, e) = f
  BY <1>2, <1>3, <1>4, SeqEqual
<1> QED BY <1>5 DEF f

\* What is left when the first k elements are taken off.
LEMMA SubSeqIs ==
  ASSUME NEW S, NEW s \in Seq(S), NEW k \in 0 .. Len(s)
  PROVE  SubSeq(s, k + 1, Len(s)) = [i \in 1 .. Len(s) - k |-> s[i + k]]
OBVIOUS

\* What is left when the first element is taken off.
LEMMA TailIs ==
  ASSUME NEW S, NEW s \in Seq(S), s # <<>>
  PROVE  Tail(s) = [i \in 1 .. Len(s) - 1 |-> s[i + 1]]
<1>1. Len(s) \in Nat /\ 1 \in 0 .. Len(s)
  BY EmptySeq, LenProperties
<1>2. Tail(s) = SubSeq(s, 1 + 1, Len(s))
  BY TailIsSubSeq
<1> QED BY <1>1, <1>2, SubSeqIs

\* Picking nodes out of a list keeps their order.
LEMMA PickedFacts ==
  ASSUME NEW S, NEW l \in Seq(S), NoDuplicates(l), NEW K \in SUBSET (1..Len(l))
  PROVE  LET m == Picked(l, K)
         IN  /\ m \in Seq(S) /\ Len(m) = Len(Ascending(K))
             /\ NoDuplicates(m)
             /\ Nodes(m) = {l[k] : k \in K}
             /\ \A i \in 1..Len(m) : Ascending(K)[i] \in K
             /\ \A i, j \in 1..Len(m) :
                  i <= j => Ascending(K)[i] <= Ascending(K)[j]
<1> DEFINE a == Ascending(K)
           m == Picked(l, K)
<1>1. K \in SUBSET Nat /\ IsFiniteSet(K)
  <2>1. Len(l) \in Nat
    OBVIOUS
  <2>2. IsFiniteSet(1..Len(l))
    BY <2>1, FS_Interval
  <2>3. K \subseteq 1..Len(l)
    OBVIOUS
  <2>4. IsFiniteSet(K)
    BY <2>2, <2>3, FS_Subset
  <2>5. K \subseteq Nat
    BY <2>1, <2>3
  <2> QED BY <2>4, <2>5
<1>2. /\ a \in Seq(K)
      /\ \A k \in K : \E i \in 1..Len(a) : a[i] = k
      /\ \A i, j \in 1..Len(a) : i < j => a[i] < a[j]
  BY <1>1, AscendingFacts
<1> HIDE DEF a
<1>3. \A i \in 1..Len(a) : a[i] \in K /\ a[i] \in 1..Len(l) /\ l[a[i]] \in S
  <2> TAKE i \in 1..Len(a)
  <2>1. a[i] \in K
    BY <1>2
  <2>2. a[i] \in 1..Len(l)
    BY <2>1
  <2> QED BY <2>1, <2>2
<1>4. Len(a) \in Nat
  BY <1>2
<1>5. m = [i \in 1..Len(a) |-> l[a[i]]]
  BY DEF Picked, a
<1> HIDE DEF m
<1>6. /\ m \in Seq(S) /\ Len(m) = Len(a)
      /\ \A i \in 1..Len(m) : m[i] = l[a[i]]
  <2>1. m \in [1..Len(a) -> S]
    BY <1>3, <1>5
  <2>2. m \in Seq(S) /\ Len(m) = Len(a)
    BY <1>4, <2>1
  <2> QED BY <1>5, <2>2
<1>7. \A i, j \in 1..Len(m) : i <= j => a[i] <= a[j]
  <2> TAKE i, j \in 1..Len(m)
  <2>1. a[i] \in Nat /\ a[j] \in Nat /\ i \in Nat /\ j \in Nat
    BY <1>3, <1>4, <1>6
  <2>2. i < j => a[i] < a[j]
    BY <1>2, <1>6
  <2> QED BY <2>1, <2>2
<1>8. NoDuplicates(m)
  <2> SUFFICES ASSUME NEW i \in 1..Len(m), NEW j \in 1..Len(m), m[i] = m[j]
               PROVE  i = j
    BY DEF NoDuplicates
  <2>1. a[i] = a[j]
    <3>1. a[i] \in 1..Len(l) /\ a[j] \in 1..Len(l)
      BY <1>3, <1>6
    <3>2. l[a[i]] = l[a[j]]
      BY <1>6
    <3> QED BY <3>1, <3>2 DEF NoDuplicates
  <2>2. /\ a[i] \in Nat /\ a[j] \in Nat /\ i \in Nat /\ j \in Nat
        /\ i < j => a[i] < a[j]
        /\ j < i => a[j] < a[i]
    BY <1>2, <1>3, <1>4, <1>6
  <2> QED BY <2>1, <2>2
<1>9. Nodes(m) = {l[k] : k \in K}
  <2>1. Nodes(m) \subseteq {l[k] : k \in K}
    <3> SUFFICES ASSUME NEW i \in 1..Len(m)
                 PROVE  m[i] \in {l[k] : k \in K}
      BY DEF Nodes
    <3>1. m[i] = l[a[i]] /\ a[i] \in K
      BY <1>3, <1>6
    <3> QED BY <3>1
  <2>2. ASSUME NEW k \in K
        PROVE  l[k] \in Nodes(m)
    <3>1. PICK i \in 1..Len(a) : a[i] = k
      BY <1>2
    <3>2. i \in 1..Len(m) /\ m[i] = l[k]
      BY <1>6, <3>1
    <3> QED BY <3>2 DEF Nodes
  <2> QED BY <2>1, <2>2
<1> QED BY <1>3, <1>6, <1>7, <1>8, <1>9 DEF a, m

\* Inserting the nodes of one list behind those of another.
LEMMA ConcatFacts ==
  ASSUME NEW S, NEW l \in Seq(S), NEW m \in Seq(S),
         NoDuplicates(l), NoDuplicates(m), Nodes(l) \cap Nodes(m) = {}
  PROVE  /\ l \o m \in Seq(S)
         /\ NoDuplicates(l \o m)
         /\ Nodes(l \o m) = Nodes(l) \cup Nodes(m)
         /\ l # <<>> => Head(l \o m) = Head(l)
<1> DEFINE c == l \o m
<1>1. /\ c \in Seq(S) /\ Len(c) = Len(l) + Len(m)
      /\ \A i \in 1..Len(l) : c[i] = l[i]
      /\ \A i \in 1..Len(c) : i > Len(l) => /\ c[i] = m[i - Len(l)]
                                          /\ i - Len(l) \in 1..Len(m)
  OBVIOUS
<1>2. Len(l) \in Nat /\ Len(m) \in Nat
  OBVIOUS
<1> HIDE DEF c
<1>3. \A j \in 1..Len(m) : j + Len(l) \in 1..Len(c) /\ c[j + Len(l)] = m[j]
  <2> TAKE j \in 1..Len(m)
  <2>1. /\ j + Len(l) \in 1..Len(c) /\ j + Len(l) > Len(l)
        /\ (j + Len(l)) - Len(l) = j
    BY <1>1, <1>2
  <2> QED BY <1>1, <2>1
<1>4. \A i \in 1..Len(c) : i <= Len(l) => i \in 1..Len(l) /\ c[i] = l[i]
  BY <1>1, <1>2
<1>5. NoDuplicates(c)
  <2> SUFFICES ASSUME NEW i \in 1..Len(c), NEW j \in 1..Len(c), c[i] = c[j]
               PROVE  i = j
    BY DEF NoDuplicates
  <2>1. CASE i <= Len(l) /\ j <= Len(l)
    BY <1>4, <2>1 DEF NoDuplicates
  <2>2. CASE i > Len(l) /\ j > Len(l)
    <3> DEFINE x == i - Len(l)
               y == j - Len(l)
    <3>1. x \in 1..Len(m) /\ y \in 1..Len(m) /\ m[x] = m[y]
      BY <1>1, <2>2
    <3> HIDE DEF x, y
    <3>2. x = y
      BY <3>1 DEF NoDuplicates
    <3> QED BY <1>1, <1>2, <3>2 DEF x, y
  <2>3. ~(i <= Len(l) /\ j > Len(l)) /\ ~(j <= Len(l) /\ i > Len(l))
    <3>1. \A k \in 1..Len(c) : k <= Len(l) => c[k] \in Nodes(l)
      BY <1>4 DEF Nodes
    <3>2. \A k \in 1..Len(c) : k > Len(l) => c[k] \in Nodes(m)
      BY <1>1 DEF Nodes
    <3> QED BY <3>1, <3>2
  <2> QED BY <1>1, <1>2, <2>1, <2>2, <2>3
<1>6. Nodes(c) = Nodes(l) \cup Nodes(m)
  <2>1. Nodes(c) \subseteq Nodes(l) \cup Nodes(m)
    <3> SUFFICES ASSUME NEW i \in 1..Len(c)
                 PROVE  c[i] \in Nodes(l) \cup Nodes(m)
      BY DEF Nodes
    <3>1. i <= Len(l) \/ i > Len(l)
      BY <1>1, <1>2
    <3> QED BY <1>1, <1>4, <3>1 DEF Nodes
  <2>2. Nodes(l) \subseteq Nodes(c)
    BY <1>1, <1>2 DEF Nodes
  <2>3. Nodes(m) \subseteq Nodes(c)
    BY <1>3 DEF Nodes
  <2> QED BY <2>1, <2>2, <2>3
<1>7. l # <<>> => Head(c) = Head(l)
  BY <1>1, <1>2
<1> QED BY <1>1, <1>5, <1>6, <1>7 DEF c
============================================================================
