------------------------------ MODULE FatProofs ------------------------------
(***************************************************************************)
(* That the volume of Fat32 stays sound, for every disk that was sound     *)
(* when it was mounted, every set of names and any number of calls.  The   *)
(* proofs follow three rigid witnesses from state to state: the            *)
(* directories D that are reached, the places V of the entries in them,    *)
(* and the chain of clusters chain[h] of each first cluster h.             *)
(***************************************************************************)
EXTENDS Fat32, KernelListsProofs

-----------------------------------------------------------------------------
(* A volume: FAT f, clusters d, directories D, entries V, chains *)

\* s is a chain that ends, among the clusters the driver reads aright.
Path(f, s) ==
  /\ s \in Seq(Cluster) /\ s # <<>>
  /\ \A i \in 1 .. Len(s) : s[i] < SectorEntries
  /\ \A i \in 1 .. Len(s) - 1 : f[s[i]] = s[i + 1]
  /\ f[s[Len(s)]] = FAT_EOF
  /\ \A i, j \in 1 .. Len(s) : s[i] = s[j] => i = j

\* Each cluster of H heads a chain of its own.
Chains(f, H, chain) ==
  /\ \A h \in H : Path(f, chain[h]) /\ chain[h][1] = h
  /\ \A g, h \in H : g # h => ToSet(chain[g]) \cap ToSet(chain[h]) = {}

SlotOf(d, p) == d[p.cluster][p.index]
NameOf(d, p) == RetrievedName(SlotOf(d, p).name)
Shown(d, p) == p.index \in Listed(d[p.cluster]) /\ ~IsDots(SlotOf(d, p))

\* An entry leads to a directory, unless its cluster x was not initialised yet.
Leads(d, x, p) == IsDirectory(SlotOf(d, p)) /\ SlotOf(d, p).first # x

\* The directories of T have all their subdirectories in T.
Closed(d, x, chain, T, V) ==
  \A p \in V, c \in T : p.cluster \in ToSet(chain[c]) /\ Leads(d, x, p) => SlotOf(d, p).first \in T

\* D is what is reached from R, V the entries in it.
Tree(d, x, chain, R, D, V) ==
  /\ R \subseteq D /\ D \subseteq Cluster
  /\ V = {p \in Place : (\E c \in D : p.cluster \in ToSet(chain[c])) /\ Shown(d, p)}
  /\ \A p \in V : Leads(d, x, p) => SlotOf(d, p).first \in D
  /\ \A T \in SUBSET D : R \subseteq T /\ Closed(d, x, chain, T, V) => T = D

IsSlot(s) ==
  /\ s = [name |-> s.name, first |-> s.first, attributes |-> s.attributes]
  /\ s.name = [i \in 1 .. NameLength + ExtensionLength |-> s.name[i]]
IsBlock(b) == b = [i \in SlotIndex |-> b[i]] /\ \A i \in SlotIndex : IsSlot(b[i])

\* In the clusters of a directory no entry is hidden by an end slot.
Unhidden(b) == \A i \in Used(b) : IsDots(b[i]) \/ i \in Listed(b)
Blocks(d, chain, D) == \A c \in D : \A b \in ToSet(chain[c]) : IsBlock(d[b]) /\ Unhidden(d[b])

\* No two entries have one chain, or one name, nor that of the call under way.
Owned(d, V, Y) ==
  /\ \A p, q \in V : SlotOf(d, p).first = SlotOf(d, q).first => p = q
  /\ \A p \in V : SlotOf(d, p).first \notin Y
Named(d, V, M) ==
  /\ \A p, q \in V : NameOf(d, p) = NameOf(d, q) => p = q
  /\ \A p \in V : NameOf(d, p) \notin M

-----------------------------------------------------------------------------
(* What the call under way holds *)

Hidden == IF Doing("initialise") THEN call.first ELSE 0
\* The clusters whose chains hang on the call alone.
Pending ==
  CASE Doing("enter") -> {call.first}
    [] Doing("free") -> {call.next}
    [] Doing("place") -> {call.slot.first}
    [] OTHER -> {}
PendingName == IF Doing("enter") \/ Doing("place") THEN {call.name} ELSE {}
Roots == {root_dir_first_cluster} \cup IF Doing("place") /\ IsDirectory(call.slot) THEN {call.slot.first} ELSE {}
Heads(V) == {root_dir_first_cluster} \cup Pending \cup {SlotOf(data, p).first : p \in V}

EmptyAt(d, p) ==
  /\ IsDeleted(SlotOf(d, p)) \/ IsEnd(SlotOf(d, p))
  /\ \A j \in 0 .. p.index - 1 : ~IsEnd(d[p.cluster][j])

IsNode(v) ==
  v = [place |-> v.place, layout |-> v.layout, layout_loaded |-> v.layout_loaded,
       attributes |-> v.attributes, children |-> v.children]

\* A node is what a slot says, its layout the beginning of the chain.
NodeFits(v, slot, chain) ==
  /\ IsNode(v)
  /\ v.attributes = fat_to_vfs_attributes(slot.attributes)
  /\ \E m \in 1 .. Len(chain[slot.first]) :
       v.layout = SubSeq(chain[slot.first], 1, m) /\ (v.layout_loaded => m = Len(chain[slot.first]))

Content(n, h, chain) ==
  n \in DOMAIN contents /\ contents[n] = [i \in 1 .. Len(chain[h]) |-> data[chain[h][i]]]

Creation == 
  /\ call = [op |-> call.op, name |-> call.name, dir |-> call.dir, first |-> call.first,
             attributes |-> call.attributes, place |-> call.place]
  /\ call.name \in Name /\ call.dir \in DOMAIN nodes
  /\ call.attributes = Attributes(call.name)
  /\ call.first \in Cluster /\ call.first < SectorEntries

CallHolds(D, V, chain) ==
  /\ call.op \in {"none", "unmounted", "enter", "initialise", "free", "place"}
  /\ Doing("none") => call = Idle
  /\ Doing("unmounted") => call = Unmounted /\ nodes = <<>>
  /\ Doing("enter") =>
       /\ Creation /\ chain[call.first] = <<call.first>>
       /\ call.place \in Place /\ EmptyAt(data, call.place)
       /\ \E c \in D : call.place.cluster \in ToSet(chain[c])
  /\ Doing("initialise") =>
       /\ Creation /\ chain[call.first] = <<call.first>>
       /\ call.place \in V /\ SlotAt(call.place) = NewSlot
  /\ Doing("free") => call = [op |-> "free", next |-> call.next]
  /\ Doing("place") =>
       /\ call = [op |-> "place", name |-> call.name, dir |-> call.dir, slot |-> call.slot]
       /\ {call.name, call.dir} \subseteq DOMAIN nodes /\ call.name # call.dir
       /\ NodeFits(nodes[call.name], call.slot, chain) /\ nodes[call.name].place \notin V
       /\ IsSlot(call.slot) /\ call.slot.name[1] \notin {"00", "E5", "."}
       /\ RetrievedName(call.slot.name) = call.name
       /\ IsDirectory(nodes[call.dir]) /\ nodes[call.dir].layout_loaded
       /\ \A T \in SUBSET D :
            root_dir_first_cluster \in T /\ Closed(data, 0, chain, T, V)
              => SlotAt(nodes[call.dir].place).first \in T
       /\ ~IsDirectory(call.slot) => Content(call.name, call.slot.first, chain)

Moved(n) == Doing("place") /\ n = call.name
NodesHold(V, chain) ==
  /\ \A n \in DOMAIN nodes : ~Moved(n) =>
       /\ nodes[n].place \in V /\ NameAt(nodes[n].place) = n
       /\ NodeFits(nodes[n], SlotAt(nodes[n].place), chain)
  /\ ~faulted /\ ~Doing("unmounted") =>
       \A p \in V : NameAt(p) \in DOMAIN nodes \/ (Doing("initialise") /\ p = call.place)

ContentsHold(V, chain) ==
  \A p \in V : ~IsDirectory(SlotAt(p)) => Content(NameAt(p), SlotAt(p).first, chain)

\* Every allocated cluster is in a chain.
Accounted(V, chain) ==
  ~faulted => \A c \in Cluster : fat[c] # FreeCluster => \E h \in Heads(V) : c \in ToSet(chain[h])

TypesHold ==
  /\ fat \in [FatEntry -> Nat] /\ fat[0] # FreeCluster /\ fat[1] # FreeCluster
  /\ DOMAIN data = Cluster

VolumeHolds(D, V, chain) ==
  /\ Tree(data, Hidden, chain, Roots, D, V)
  /\ Chains(fat, Heads(V), chain)
  /\ Blocks(data, chain, D)
  /\ Owned(data, V, {root_dir_first_cluster} \cup Pending) /\ root_dir_first_cluster \notin Pending
  /\ Named(data, V, PendingName)

Holds(D, V, chain) ==
  /\ TypesHold /\ VolumeHolds(D, V, chain) /\ Accounted(V, chain)
  /\ CallHolds(D, V, chain)
  /\ NodesHold(V, chain)
  /\ ContentsHold(V, chain)

FatInv == Sound => \E D, V, chain : Holds(D, V, chain)

-----------------------------------------------------------------------------
(* Clusters and chains *)

\* The clusters are numbers between 2 and the end mark of a chain.
LEMMA ClusterFacts ==
  /\ Cluster \subseteq FatEntry /\ FatEntry \subseteq Nat /\ Cluster \subseteq Nat
  /\ FAT_EOF \in Nat /\ 0 \notin Cluster /\ FAT_EOF \notin Cluster
  /\ \A c \in Cluster : c < FAT_EOF
  /\ \A c \in FatEntry : c \notin Cluster => c = 0 \/ c = 1
  /\ root_dir_first_cluster \in Cluster
  /\ IsFiniteSet(Cluster) /\ Cardinality(Cluster) \in Nat
<1>1. Len(InitialFat) \in Nat
  BY FatAssumption
<1>2. IsFiniteSet(Cluster)
  BY <1>1, FS_Interval DEF Cluster
<1>3. Cardinality(Cluster) \in Nat
  BY <1>2, FS_CardinalityType
<1>4. root_dir_first_cluster \in Cluster
  BY FatAssumption
<1> QED BY <1>1, <1>2, <1>3, <1>4 DEF Cluster, FatEntry, FAT_EOF

\* A chain is not longer than there are clusters.
LEMMA PathLength ==
  ASSUME NEW f, NEW s, Path(f, s)
  PROVE  Len(s) \in Nat \ {0} /\ Len(s) <= Cardinality(Cluster)
<1>1. s \in Seq(Cluster) /\ s # <<>> /\ Len(s) \in Nat \ {0}
  BY EmptySeq, LenProperties DEF Path
<1>2. s \in [1 .. Len(s) -> Cluster]
  BY <1>1
<1>3. IsFiniteSet(1 .. Len(s)) /\ Cardinality(1 .. Len(s)) = Len(s)
  BY <1>1, FS_Interval
<1>4. ASSUME ~(Len(s) <= Cardinality(Cluster))
      PROVE  FALSE
  <2>1. Cardinality(Cluster) < Cardinality(1 .. Len(s))
    BY <1>1, <1>3, <1>4, ClusterFacts
  <2>2. \E x, y \in 1 .. Len(s) : x # y /\ s[x] = s[y]
    BY <1>2, <1>3, <2>1, ClusterFacts, FS_PigeonHole
  <2> QED BY <2>2 DEF Path
<1> QED BY <1>1, <1>4

\* The function Continued is made of.
Growing(g, next, n) ==
  g = [k \in 0 .. n |->
         [s \in Seq(Nat) |-> IF k = 0 \/ next[Last(s)] >= FAT_EOF THEN s
                             ELSE g[k - 1][Append(s, next[Last(s)])]]]

\* The function by which a chain grows exists, by induction on its depth.
LEMMA GrowingExists ==
  ASSUME NEW next, NEW n \in Nat
  PROVE  \E g : Growing(g, next, n)
<1> DEFINE Row(g, k) == [s \in Seq(Nat) |-> IF k = 0 \/ next[Last(s)] >= FAT_EOF THEN s
                                             ELSE g[k - 1][Append(s, next[Last(s)])]]
           Good(g, m) == g = [k \in 0 .. m |-> g[k]] /\ \A k \in 0 .. m : g[k] = Row(g, k)
           S == {m \in 0 .. n : \E g : Good(g, m)}
<1>0. ASSUME NEW g, NEW h, NEW k \in Nat, k # 0 => g[k - 1] = h[k - 1]
      PROVE  Row(g, k) = Row(h, k)
  BY <1>0
<1>1. 0 \in S
  <2>1. PICK r : r = Row(<<>>, 0)
    OBVIOUS
  <2>2. PICK g : g = [k \in 0 .. 0 |-> r]
    OBVIOUS
  <2>3. Row(g, 0) = Row(<<>>, 0)
    BY <1>0
  <2>4. g[0] = r /\ \A k \in 0 .. 0 : k = 0
    BY <2>2
  <2>5. g = [k \in 0 .. 0 |-> g[k]]
    BY <2>2
  <2> HIDE DEF Row
  <2>6. Good(g, 0)
    BY <2>1, <2>3, <2>4, <2>5
  <2> QED BY <2>6
<1>2. ASSUME NEW m \in S, m < n
      PROVE  m + 1 \in S
  <2>1. PICK g : Good(g, m)
    OBVIOUS
  <2>2. m \in 0 .. n /\ m + 1 \in 0 .. n
    BY <1>2
  <2>3. PICK r : r = Row(g, m + 1)
    OBVIOUS
  <2>4. PICK h : h = [k \in 0 .. m + 1 |-> IF k = m + 1 THEN r ELSE g[k]]
    OBVIOUS
  <2>5. h[m + 1] = r /\ \A k \in 0 .. m : h[k] = g[k]
    BY <2>2, <2>4
  <2>6. h = [k \in 0 .. m + 1 |-> h[k]]
    BY <2>4
  <2>7. ASSUME NEW k \in 0 .. m + 1
        PROVE  h[k] = Row(h, k)
    <3>1. k \in Nat /\ (k # 0 => k - 1 \in 0 .. m)
      BY <2>2
    <3>2. k # 0 => g[k - 1] = h[k - 1]
      BY <2>5, <3>1
    <3>3. Row(g, k) = Row(h, k)
      BY <1>0, <3>1, <3>2
    <3>4. k # m + 1 => k \in 0 .. m
      BY <2>2
    <3> HIDE DEF Row
    <3> QED BY <2>1, <2>3, <2>5, <3>3, <3>4
  <2> HIDE DEF Row
  <2>8. Good(h, m + 1)
    BY <2>6, <2>7
  <2> QED BY <2>2, <2>8
<1> HIDE DEF Row
<1>3. n \in S
  <2> DEFINE T == S
  <2>1. T \in SUBSET (0 .. n) /\ 0 \in T /\ \A m \in T : m < n => m + 1 \in T
    BY <1>1, <1>2
  <2> HIDE DEF T
  <2>2. n \in T
    BY <2>1, Ladder
  <2> QED BY <2>2 DEF T
<1>4. PICK g : Good(g, n)
  BY <1>3
<1>5. g = [k \in 0 .. n |-> Row(g, k)]
  BY <1>4
<1> QED BY <1>5 DEF Growing, Row

\* A continued chain is that function at its full depth.
LEMMA ContinuedGrows ==
  ASSUME NEW chain, NEW next
  PROVE  \E g : Growing(g, next, Cardinality(Cluster)) /\ Continued(chain, next) = g[Cardinality(Cluster)][chain]
<1> DEFINE n == Cardinality(Cluster)
           grown[k \in 0 .. n] ==
             [s \in Seq(Nat) |-> IF k = 0 \/ next[Last(s)] >= FAT_EOF THEN s
                                 ELSE grown[k - 1][Append(s, next[Last(s)])]]
<1>1. Continued(chain, next) = grown[n][chain]
  BY DEF Continued
<1>2. n \in Nat
  BY ClusterFacts
<1> HIDE DEF n
<1>3. \E g : g = [k \in 0 .. n |->
         [s \in Seq(Nat) |-> IF k = 0 \/ next[Last(s)] >= FAT_EOF THEN s
                             ELSE g[k - 1][Append(s, next[Last(s)])]]]
  BY <1>2, GrowingExists DEF Growing
<1>4. grown = [k \in 0 .. n |->
         [s \in Seq(Nat) |-> IF k = 0 \/ next[Last(s)] >= FAT_EOF THEN s
                             ELSE grown[k - 1][Append(s, next[Last(s)])]]]
  BY <1>3
<1>5. PICK g : g = grown
  OBVIOUS
<1> HIDE DEF grown
<1>6. Growing(g, next, n)
  BY <1>4, <1>5 DEF Growing
<1> QED BY <1>1, <1>5, <1>6 DEF n

\* A sequence of clusters is one of numbers.
LEMMA NatChain ==
  ASSUME NEW s \in Seq(Cluster)
  PROVE  /\ s \in Seq(Nat) /\ Len(s) \in Nat /\ DOMAIN s = 1 .. Len(s)
         /\ \A i \in 1 .. Len(s) : s[i] \in Cluster /\ s[i] \in Nat
<1>1. Cluster \subseteq Nat
  BY ClusterFacts
<1>2. s \in Seq(Nat)
  BY <1>1, SeqMonotonic
<1>3. Len(s) \in Nat /\ DOMAIN s = 1 .. Len(s) /\ \A i \in 1 .. Len(s) : s[i] \in Cluster
  OBVIOUS
<1> QED BY <1>1, <1>2, <1>3

\* The beginning of a chain is continued to the whole.
LEMMA ContinuedIs ==
  ASSUME NEW s \in Seq(Cluster), NEW next, NEW m \in 1 .. Len(s), Len(s) <= Cardinality(Cluster),
         \A i \in 1 .. Len(s) - 1 : next[s[i]] = s[i + 1],
         next[s[Len(s)]] >= FAT_EOF
  PROVE  Continued(SubSeq(s, 1, m), next) = s
<1> DEFINE n == Cardinality(Cluster)
           front(k) == SubSeq(s, 1, k)
<1>1. Len(s) \in Nat /\ n \in Nat /\ s \in Seq(Nat)
  BY ClusterFacts, NatChain
<1>2. ASSUME NEW k \in 1 .. Len(s)
      PROVE  /\ front(k) \in Seq(Nat) /\ Last(front(k)) = s[k]
             /\ k = Len(s) => front(k) = s
             /\ k < Len(s) => k + 1 \in 1 .. Len(s) /\ Append(front(k), s[k + 1]) = front(k + 1)
  <2>1. front(k) \in Seq(Nat) /\ Len(front(k)) = k /\ front(k)[k] = s[k]
    BY <1>1
  <2>2. k = Len(s) => front(k) = s
    BY <1>1
  <2>3. CASE k < Len(s)
    <3>1. k + 1 \in 1 .. Len(s) /\ s[k + 1] \in Nat
      BY <1>1, <2>3
    <3>2. Append(front(k), s[k + 1]) = front(k + 1)
      BY <1>1, <3>1
    <3> QED BY <2>1, <2>2, <3>1, <3>2 DEF Last
  <2> QED BY <1>1, <2>1, <2>2, <2>3 DEF Last
<1> HIDE DEF front
<1>3. PICK g : Growing(g, next, n) /\ \A k \in 1 .. Len(s) : Continued(front(m), next) = g[n][front(m)]
  BY ContinuedGrows
<1>4. ASSUME NEW k \in 0 .. n, NEW t \in Seq(Nat)
      PROVE  g[k][t] = IF k = 0 \/ next[Last(t)] >= FAT_EOF THEN t ELSE g[k - 1][Append(t, next[Last(t)])]
  <2>1. g[k] = [u \in Seq(Nat) |-> IF k = 0 \/ next[Last(u)] >= FAT_EOF THEN u
                                  ELSE g[k - 1][Append(u, next[Last(u)])]]
    BY <1>3 DEF Growing
  <2> QED BY <2>1
<1>5. \A i \in 1 .. Len(s) : i < Len(s) => s[i + 1] < FAT_EOF /\ s[i + 1] \in Nat /\ next[s[i]] = s[i + 1]
  BY <1>1, ClusterFacts
<1> DEFINE S == {k \in 0 .. n : \A i \in 1 .. Len(s) : Len(s) - i <= k => g[k][front(i)] = s}
<1>6. 0 \in S
  <2>1. ASSUME NEW i \in 1 .. Len(s), Len(s) - i <= 0
        PROVE  g[0][front(i)] = s
    <3>1. i = Len(s) /\ 0 \in 0 .. n
      BY <1>1, <2>1
    <3>2. front(i) = s /\ front(i) \in Seq(Nat)
      BY <1>2, <3>1
    <3> QED BY <1>4, <3>1, <3>2
  <2> QED BY <1>1, <2>1
<1>7. ASSUME NEW k \in S, k < n
      PROVE  k + 1 \in S
  <2>1. k \in 0 .. n /\ k + 1 \in 0 .. n /\ (k + 1) - 1 = k /\ k + 1 # 0
    BY <1>1, <1>7
  <2>2. ASSUME NEW i \in 1 .. Len(s), Len(s) - i <= k + 1
        PROVE  g[k + 1][front(i)] = s
    <3>1. front(i) \in Seq(Nat) /\ Last(front(i)) = s[i]
      BY <1>2
    <3>2. g[k + 1][front(i)] =
            IF next[s[i]] >= FAT_EOF THEN front(i) ELSE g[k][Append(front(i), next[s[i]])]
      BY <1>4, <2>1, <3>1
    <3>3. CASE i = Len(s)
      BY <1>2, <3>2, <3>3
    <3>4. CASE i < Len(s)
      <4>1. i + 1 \in 1 .. Len(s) /\ Append(front(i), s[i + 1]) = front(i + 1) /\ Len(s) - (i + 1) <= k
        BY <1>1, <1>2, <2>1, <2>2, <3>4
      <4>2. next[s[i]] = s[i + 1] /\ ~(next[s[i]] >= FAT_EOF)
        BY <1>1, <1>5, <3>4, ClusterFacts
      <4>3. g[k][front(i + 1)] = s
        BY <1>7, <4>1
      <4> QED BY <3>2, <4>1, <4>2, <4>3
    <3> QED BY <1>1, <3>3, <3>4
  <2> QED BY <2>1, <2>2
<1>8. n \in S
  <2> DEFINE T == S
  <2>1. T \in SUBSET (0 .. n) /\ 0 \in T /\ \A k \in T : k < n => k + 1 \in T
    BY <1>6, <1>7
  <2> HIDE DEF T
  <2>2. n \in T
    BY <1>1, <2>1, Ladder
  <2> QED BY <2>2 DEF T
<1>9. Len(s) - m <= n /\ m \in 1 .. Len(s)
  BY <1>1
<1>10. g[n][front(m)] = s
  BY <1>8, <1>9
<1>11. Continued(front(m), next) = s
  BY <1>3, <1>10
<1> QED BY <1>11 DEF front

\* The first element of a chain by itself.
LEMMA OneOfChain ==
  ASSUME NEW s \in Seq(Cluster), Len(s) \in Nat \ {0}
  PROVE  SubSeq(s, 1, 1) = <<s[1]>>
<1>1. SubSeq(s, 1, 1) = [i \in 1 .. 1 |-> s[1]]
  OBVIOUS
<1>2. <<s[1]>> = [i \in 1 .. 1 |-> s[1]]
  OBVIOUS
<1> QED BY ONLY <1>1, <1>2, Zenon

\* The chain of the FAT from the first of its clusters on.
LEMMA ChainIs ==
  ASSUME NEW s, Path(fat, s)
  PROVE  ChainOf(s[1]) = s
<1>1. /\ s \in Seq(Cluster) /\ Len(s) \in Nat \ {0} /\ Len(s) <= Cardinality(Cluster)
      /\ \A i \in 1 .. Len(s) - 1 : fat[s[i]] = s[i + 1]
      /\ fat[s[Len(s)]] = FAT_EOF
  BY PathLength DEF Path
<1>2. PICK next : next = InFat
  OBVIOUS
<1>3. \A i \in 1 .. Len(s) : s[i] \in Cluster /\ s[i] \in Nat
  BY <1>1, NatChain
<1>4. \A c \in Nat : next[c] = IF c \in Cluster /\ fat[c] \in Cluster THEN fat[c] ELSE FAT_EOF
  BY <1>2 DEF InFat
<1>5. \A i \in 1 .. Len(s) - 1 : next[s[i]] = s[i + 1]
  <2> TAKE i \in 1 .. Len(s) - 1
  <2>1. i \in 1 .. Len(s) /\ i + 1 \in 1 .. Len(s) /\ fat[s[i]] = s[i + 1]
    BY <1>1
  <2> QED BY <1>3, <1>4, <2>1
<1>6. next[s[Len(s)]] >= FAT_EOF
  <2>1. Len(s) \in 1 .. Len(s)
    BY <1>1
  <2>2. next[s[Len(s)]] = FAT_EOF
    BY <1>1, <1>3, <1>4, <2>1, ClusterFacts
  <2> QED BY <2>2, ClusterFacts
<1>7. 1 \in 1 .. Len(s) /\ SubSeq(s, 1, 1) = <<s[1]>>
  BY <1>1, OneOfChain
<1>8. Continued(<<s[1]>>, next) = s
  BY <1>1, <1>5, <1>6, <1>7, ContinuedIs
<1> QED BY <1>2, <1>8 DEF ChainOf

\* fat_fs_load_file_layout completes the layout of a node to the whole chain.
LEMMA LoadedIs ==
  ASSUME NEW s, Path(fat, s), NEW m \in 1 .. Len(s)
  PROVE  Loaded(SubSeq(s, 1, m)) = s
<1>1. /\ s \in Seq(Cluster) /\ Len(s) \in Nat \ {0} /\ Len(s) <= Cardinality(Cluster)
      /\ \A i \in 1 .. Len(s) - 1 : fat[s[i]] = s[i + 1]
      /\ fat[s[Len(s)]] = FAT_EOF
      /\ \A i \in 1 .. Len(s) : s[i] < SectorEntries
  BY PathLength DEF Path
<1>2. PICK next : next = [c \in Nat |-> NextCluster(c)]
  OBVIOUS
<1>3. \A i \in 1 .. Len(s) : s[i] \in Nat /\ s[i] \in FatEntry /\ next[s[i]] = fat[s[i]]
  <2> TAKE i \in 1 .. Len(s)
  <2>0. s[i] \in Nat /\ s[i] \in Cluster
    BY <1>1, NatChain
  <2>1. s[i] \in Nat /\ s[i] \in FatEntry /\ s[i] < SectorEntries /\ SectorEntries \in Nat \ {0}
    BY <1>1, <2>0, ClusterFacts, FatAssumption
  <2>2. \A x, y \in Nat : x < y => x \div y = 0
    OBVIOUS
  <2>3. (s[i] \div SectorEntries) * SectorEntries + s[i] = s[i]
    BY <2>1, <2>2
  <2>4. next[s[i]] = NextCluster(s[i])
    BY <1>2, <2>1
  <2> QED BY <2>1, <2>3, <2>4 DEF NextCluster, FatAt
<1>5. \A i \in 1 .. Len(s) - 1 : next[s[i]] = s[i + 1]
  BY <1>1, <1>3
<1>6. next[s[Len(s)]] >= FAT_EOF
  <2>1. Len(s) \in 1 .. Len(s)
    BY <1>1
  <2>2. next[s[Len(s)]] = FAT_EOF
    BY <1>1, <1>3, <2>1
  <2> QED BY <2>2, ClusterFacts
<1>8. Continued(SubSeq(s, 1, m), next) = s
  BY <1>1, <1>5, <1>6, ContinuedIs
<1> QED BY <1>2, <1>8 DEF Loaded

-----------------------------------------------------------------------------
(* What is reached *)

\* The function Reached is made of.
Onward(children, S) == UNION {children[c] : c \in S}
Levels(g, R, children, n) ==
  g = [k \in 0 .. n |->
         IF k = 0 THEN [all |-> R, last |-> R]
         ELSE [all |-> g[k - 1].all \cup Onward(children, g[k - 1].last), last |-> Onward(children, g[k - 1].last)]]

\* The function by which the directories are reached exists.
LEMMA LevelsExist ==
  ASSUME NEW R, NEW children, NEW n \in Nat
  PROVE  \E g : Levels(g, R, children, n)
<1> DEFINE Row(g, k) == IF k = 0 THEN [all |-> R, last |-> R]
                        ELSE [all |-> g[k - 1].all \cup Onward(children, g[k - 1].last),
                              last |-> Onward(children, g[k - 1].last)]
           Good(g, m) == g = [k \in 0 .. m |-> g[k]] /\ \A k \in 0 .. m : g[k] = Row(g, k)
           S == {m \in 0 .. n : \E g : Good(g, m)}
<1>0. ASSUME NEW g, NEW h, NEW k \in Nat, k # 0 => g[k - 1] = h[k - 1]
      PROVE  Row(g, k) = Row(h, k)
  BY <1>0
<1>1. 0 \in S
  <2>1. PICK r : r = Row(<<>>, 0)
    OBVIOUS
  <2>2. PICK g : g = [k \in 0 .. 0 |-> r]
    OBVIOUS
  <2>3. Row(g, 0) = Row(<<>>, 0)
    BY <1>0
  <2>4. g[0] = r /\ \A k \in 0 .. 0 : k = 0
    BY <2>2
  <2>5. g = [k \in 0 .. 0 |-> g[k]]
    BY <2>2
  <2> HIDE DEF Row
  <2>6. Good(g, 0)
    BY <2>1, <2>3, <2>4, <2>5
  <2> QED BY <2>6
<1>2. ASSUME NEW m \in S, m < n
      PROVE  m + 1 \in S
  <2>1. PICK g : Good(g, m)
    OBVIOUS
  <2>2. m \in 0 .. n /\ m + 1 \in 0 .. n
    BY <1>2
  <2>3. PICK r : r = Row(g, m + 1)
    OBVIOUS
  <2>4. PICK h : h = [k \in 0 .. m + 1 |-> IF k = m + 1 THEN r ELSE g[k]]
    OBVIOUS
  <2>5. h[m + 1] = r /\ \A k \in 0 .. m : h[k] = g[k]
    BY <2>2, <2>4
  <2>6. h = [k \in 0 .. m + 1 |-> h[k]]
    BY <2>4
  <2>7. ASSUME NEW k \in 0 .. m + 1
        PROVE  h[k] = Row(h, k)
    <3>1. k \in Nat /\ (k # 0 => k - 1 \in 0 .. m)
      BY <2>2
    <3>2. k # 0 => g[k - 1] = h[k - 1]
      BY <2>5, <3>1
    <3>3. Row(g, k) = Row(h, k)
      BY <1>0, <3>1, <3>2
    <3>4. k # m + 1 => k \in 0 .. m
      BY <2>2
    <3> HIDE DEF Row
    <3> QED BY <2>1, <2>3, <2>5, <3>3, <3>4
  <2> HIDE DEF Row
  <2>8. Good(h, m + 1)
    BY <2>6, <2>7
  <2> QED BY <2>2, <2>8
<1> HIDE DEF Row
<1>3. n \in S
  <2> DEFINE T == S
  <2>1. T \in SUBSET (0 .. n) /\ 0 \in T /\ \A m \in T : m < n => m + 1 \in T
    BY <1>1, <1>2
  <2> HIDE DEF T
  <2>2. n \in T
    BY <2>1, Ladder
  <2> QED BY <2>2 DEF T
<1>4. PICK g : Good(g, n)
  BY <1>3
<1>5. g = [k \in 0 .. n |-> Row(g, k)]
  BY <1>4
<1> QED BY <1>5 DEF Levels, Row

\* What is reached is that function at its full depth.
LEMMA ReachedLevels ==
  ASSUME NEW R, NEW children
  PROVE  \E g : Levels(g, R, children, Cardinality(Cluster)) /\ Reached(R, children) = g[Cardinality(Cluster)].all
<1> DEFINE n == Cardinality(Cluster)
           level[k \in 0 .. n] ==
             IF k = 0 THEN [all |-> R, last |-> R]
             ELSE LET above == level[k - 1]
                      next == UNION {children[c] : c \in above.last}
                  IN [all |-> above.all \cup next, last |-> next]
<1>1. Reached(R, children) = level[n].all
  BY DEF Reached
<1>2. n \in Nat
  BY ClusterFacts
<1> HIDE DEF n
<1>3. \E g : g = [k \in 0 .. n |->
                    IF k = 0 THEN [all |-> R, last |-> R]
                    ELSE LET above == g[k - 1]
                             next == UNION {children[c] : c \in above.last}
                         IN [all |-> above.all \cup next, last |-> next]]
  <2>1. PICK g : Levels(g, R, children, n)
    BY <1>2, LevelsExist
  <2>2. g = [k \in 0 .. n |->
               IF k = 0 THEN [all |-> R, last |-> R]
               ELSE [all |-> g[k - 1].all \cup UNION {children[c] : c \in g[k - 1].last},
                     last |-> UNION {children[c] : c \in g[k - 1].last}]]
    BY <2>1, Zenon DEF Levels, Onward
  <2> QED BY <2>2
<1>4. level = [k \in 0 .. n |->
                 IF k = 0 THEN [all |-> R, last |-> R]
                 ELSE LET above == level[k - 1]
                          next == UNION {children[c] : c \in above.last}
                      IN [all |-> above.all \cup next, last |-> next]]
  BY <1>3
<1>5. PICK g : g = level
  OBVIOUS
<1> HIDE DEF level
<1>6. Levels(g, R, children, n)
  BY <1>4, <1>5 DEF Levels, Onward
<1> QED BY <1>1, <1>5, <1>6 DEF n

\* One level down from a set of directories is monotonic and additive.
LEMMA OnwardFacts ==
  ASSUME NEW children, NEW S, NEW T, NEW X
  PROVE  /\ (\A c \in S : children[c] \subseteq X) => Onward(children, S) \subseteq X
         /\ Onward(children, S) \subseteq X => \A c \in S : children[c] \subseteq X
         /\ S \subseteq T => Onward(children, S) \subseteq Onward(children, T)
         /\ Onward(children, S \cup T) = Onward(children, S) \cup Onward(children, T)
BY DEF Onward

\* What contains R and all children of its members contains what is reached.
LEMMA ReachedWithin ==
  ASSUME NEW R, NEW children, NEW X, R \subseteq X, \A c \in X : children[c] \subseteq X
  PROVE  Reached(R, children) \subseteq X
<1> DEFINE n == Cardinality(Cluster)
<1>1. PICK g : Levels(g, R, children, n) /\ Reached(R, children) = g[n].all
  BY ReachedLevels
<1>2. n \in Nat
  BY ClusterFacts
<1> HIDE DEF n
<1>3. 0 \in 0 .. n /\ g[0] = [all |-> R, last |-> R]
  BY <1>1, <1>2 DEF Levels
<1>4. ASSUME NEW k \in 0 .. n, k < n
      PROVE  g[k + 1] = [all |-> g[k].all \cup Onward(children, g[k].last), last |-> Onward(children, g[k].last)]
  <2>1. k + 1 \in 0 .. n /\ k + 1 # 0 /\ (k + 1) - 1 = k
    BY <1>2, <1>4
  <2> QED BY <1>1, <2>1 DEF Levels
<1> DEFINE S == {k \in 0 .. n : g[k].all \subseteq X /\ g[k].last \subseteq X}
<1>5. 0 \in S
  BY <1>3
<1>6. ASSUME NEW k \in S, k < n
      PROVE  k + 1 \in S
  <2>1. k \in 0 .. n /\ k + 1 \in 0 .. n /\ g[k].all \subseteq X /\ g[k].last \subseteq X
    BY <1>2, <1>6
  <2>2. Onward(children, g[k].last) \subseteq X
    BY <2>1, OnwardFacts
  <2>3. g[k + 1] = [all |-> g[k].all \cup Onward(children, g[k].last), last |-> Onward(children, g[k].last)]
    BY <1>4, <1>6, <2>1
  <2>4. g[k + 1].all \subseteq X /\ g[k + 1].last \subseteq X
    BY <2>1, <2>2, <2>3
  <2> QED BY <2>1, <2>4
<1>7. n \in S
  <2>1. S \in SUBSET (0 .. n)
    OBVIOUS
  <2> HIDE DEF S
  <2> QED BY <1>2, <1>5, <1>6, <2>1, Ladder
<1> QED BY <1>1, <1>7

\* As many levels as there are clusters are enough to reach everything.
LEMMA ReachedCloses ==
  ASSUME NEW R \in SUBSET Cluster, NEW children \in [Cluster -> SUBSET Cluster]
  PROVE  /\ R \subseteq Reached(R, children) /\ Reached(R, children) \subseteq Cluster
         /\ \A c \in Reached(R, children) : children[c] \subseteq Reached(R, children)
<1> DEFINE n == Cardinality(Cluster)
<1>1. PICK g : Levels(g, R, children, n) /\ Reached(R, children) = g[n].all
  BY ReachedLevels
<1>2. n \in Nat /\ IsFiniteSet(Cluster)
  BY ClusterFacts
<1>3. n = Cardinality(Cluster)
  OBVIOUS
<1> HIDE DEF n
<1>4. 0 \in 0 .. n /\ g[0] = [all |-> R, last |-> R]
  BY <1>1, <1>2 DEF Levels
<1>5. ASSUME NEW k \in 0 .. n, k < n
      PROVE  g[k + 1] = [all |-> g[k].all \cup Onward(children, g[k].last), last |-> Onward(children, g[k].last)]
  <2>1. k + 1 \in 0 .. n /\ k + 1 # 0 /\ (k + 1) - 1 = k
    BY <1>2, <1>5
  <2> QED BY <1>1, <2>1 DEF Levels
<1> DEFINE Full(A) == Onward(children, A) \subseteq A
           S == {k \in 0 .. n : /\ R \subseteq g[k].all /\ g[k].all \subseteq Cluster /\ g[k].last \subseteq g[k].all
                                /\ Onward(children, g[k].all) \subseteq g[k].all \cup Onward(children, g[k].last)
                                /\ Full(g[k].all) \/ Cardinality(g[k].all) >= k}
<1>6. 0 \in S
  <2>1. IsFiniteSet(R) /\ Cardinality(R) \in Nat
    BY <1>2, FS_Subset, FS_CardinalityType
  <2> QED BY <1>4, <2>1
<1>7. ASSUME NEW k \in S, k < n
      PROVE  k + 1 \in S
  <2> DEFINE A == g[k].all
             L == g[k].last
             N == Onward(children, L)
             B == A \cup N
  <2>1. /\ k \in 0 .. n /\ k + 1 \in 0 .. n
        /\ R \subseteq A /\ A \subseteq Cluster /\ L \subseteq A
        /\ Onward(children, A) \subseteq A \cup N
        /\ Full(A) \/ Cardinality(A) >= k
    BY <1>2, <1>7
  <2>2. g[k + 1].all = B /\ g[k + 1].last = N
    <3>1. g[k + 1] = [all |-> g[k].all \cup Onward(children, g[k].last), last |-> Onward(children, g[k].last)]
      BY <1>5, <1>7, <2>1
    <3> QED BY <3>1
  <2> HIDE DEF S
  <2>3. N \subseteq Cluster
    BY <2>1 DEF Onward
  <2>4. Onward(children, B) \subseteq B \cup Onward(children, N)
    BY <2>1, OnwardFacts
  <2>5. Full(B) \/ Cardinality(B) >= k + 1
    <3>1. CASE Full(A)
      <4>1. N \subseteq A
        BY <2>1, <3>1, OnwardFacts
      <4>2. B = A
        BY <4>1
      <4> QED BY <3>1, <4>2
    <3>2. CASE ~Full(A)
      <4>1. IsFiniteSet(B) /\ IsFiniteSet(A) /\ Cardinality(B) \in Nat /\ Cardinality(A) \in Nat
        BY <1>2, <2>1, <2>3, FS_Subset, FS_CardinalityType
      <4>2. A # B /\ A \in SUBSET B
        BY <2>1, <3>2
      <4>3. Cardinality(A) <= Cardinality(B) /\ Cardinality(A) # Cardinality(B)
        BY <4>1, <4>2, FS_Subset
      <4>4. Cardinality(A) >= k
        BY <2>1, <3>2
      <4> HIDE DEF A, B
      <4> QED BY <2>1, <4>1, <4>3, <4>4
    <3> QED BY <3>1, <3>2
  <2>6. R \subseteq B /\ B \subseteq Cluster /\ N \subseteq B
    BY <2>1, <2>3
  <2> HIDE DEF A, N, B, L
  <2> QED BY <2>1, <2>2, <2>4, <2>5, <2>6 DEF S
<1>8. n \in S
  <2>1. S \in SUBSET (0 .. n)
    OBVIOUS
  <2> HIDE DEF S
  <2> QED BY <1>2, <1>6, <1>7, <2>1, Ladder
<1> DEFINE A == g[n].all
<1>9. R \subseteq A /\ A \subseteq Cluster /\ (Full(A) \/ Cardinality(A) >= n)
  BY <1>8
<1>10. Full(A)
  <2>1. CASE Cardinality(A) >= n
    <3>1. A \in SUBSET Cluster /\ Cardinality(A) <= Cardinality(Cluster) /\ Cardinality(A) \in Nat
      BY <1>2, <1>9, FS_Subset, FS_CardinalityType
    <3>2. Cardinality(A) = Cardinality(Cluster)
      BY <1>2, <1>3, <2>1, <3>1
    <3>3. A = Cluster
      BY <1>2, <3>1, <3>2, FS_Subset
    <3> HIDE DEF A
    <3> QED BY <3>3 DEF Onward
  <2> QED BY <1>9, <2>1
<1>11. \A c \in A : children[c] \subseteq A
  BY <1>10 DEF Onward
<1> QED BY <1>1, <1>9, <1>11

-----------------------------------------------------------------------------
(* A block of slots *)

InBlock(b, i) == i \in Listed(b) /\ ~IsDots(b[i])

\* The numbers of the slots and of the characters of a name start as used.
LEMMA SlotNumbers ==
  /\ SlotsPerCluster \in Nat /\ SlotsPerCluster > 1
  /\ SlotIndex \subseteq Nat /\ 0 \in SlotIndex /\ 1 \in SlotIndex
  /\ \A i \in SlotIndex, j \in Nat : j <= i => j \in SlotIndex
  /\ NameLength + ExtensionLength \in Nat /\ 1 \in 1 .. NameLength + ExtensionLength
  /\ 2 \in 1 .. NameLength + ExtensionLength
<1>1. SlotsPerCluster \in Nat /\ SlotsPerCluster > 1
  BY FatAssumption
<1>2. NameLength \in Nat \ {0} /\ ExtensionLength \in Nat \ {0}
  BY FatAssumption
<1> QED BY <1>1, <1>2 DEF SlotIndex

\* An entry written to the first empty place of a block is listed there, and
\* nothing else changes.
MayFill(b, i, s) ==
  /\ IsBlock(b) /\ Unhidden(b) /\ i \in SlotIndex
  /\ IsDeleted(b[i]) \/ IsEnd(b[i])
  /\ \A j \in 0 .. i - 1 : ~IsEnd(b[j])
  /\ IsSlot(s) /\ s.name[1] \notin {"00", "E5", "."}
Fills(b, i, s, e) ==
  /\ IsBlock(e) /\ Unhidden(e) /\ e[i] = s /\ ~InBlock(b, i)
  /\ \A j \in SlotIndex : j # i => e[j] = b[j]
  /\ \A j \in SlotIndex : InBlock(e, j) <=> (j = i \/ InBlock(b, j))

\* Writing a used slot over one that may be filled shows that slot besides.
LEMMA BlockFilled ==
  ASSUME NEW b, NEW i, NEW s, MayFill(b, i, s)
  PROVE  Fills(b, i, s, [b EXCEPT ![i] = s])
<1>a. PICK e : e = [b EXCEPT ![i] = s]
  OBVIOUS
<1>0. /\ IsBlock(b) /\ Unhidden(b) /\ i \in SlotIndex
      /\ IsDeleted(b[i]) \/ IsEnd(b[i])
      /\ \A j \in 0 .. i - 1 : ~IsEnd(b[j])
      /\ IsSlot(s) /\ s.name[1] \notin {"00", "E5", "."}
  BY DEF MayFill
<1>1. IsBlock(e) /\ e[i] = s /\ \A j \in SlotIndex : j # i => e[j] = b[j]
  BY <1>a, <1>0 DEF IsBlock
<1>2. ~IsEnd(s) /\ ~IsDeleted(s) /\ ~IsDots(s)
  BY <1>0 DEF IsEnd, IsDeleted, IsDots
<1>3. ~InBlock(b, i)
  BY <1>0, SlotNumbers DEF InBlock, Listed
<1>4. InBlock(e, i)
  <2>1. \A j \in 0 .. i : ~IsEnd(e[j])
    BY <1>0, <1>1, <1>2, SlotNumbers
  <2> QED BY <1>0, <1>1, <1>2, <2>1 DEF InBlock, Listed
<1>5. ASSUME NEW j \in SlotIndex, j # i, InBlock(e, j)
      PROVE  InBlock(b, j)
  <2>1. e[j] = b[j] /\ ~IsDots(b[j]) /\ ~IsDeleted(b[j]) /\ j \in 0 .. j
    BY <1>1, <1>5, SlotNumbers DEF InBlock, Listed
  <2>2. ~IsEnd(b[j])
    BY <1>5, <2>1 DEF InBlock, Listed
  <2>3. j \in Used(b)
    BY <2>1, <2>2 DEF Used
  <2> QED BY <1>0, <2>1, <2>3 DEF Unhidden, InBlock
<1>6. ASSUME NEW j \in SlotIndex, j # i, InBlock(b, j)
      PROVE  InBlock(e, j)
  <2>1. e[j] = b[j] /\ ~IsDots(b[j]) /\ ~IsDeleted(b[j]) /\ \A k \in 0 .. j : ~IsEnd(b[k])
    BY <1>1, <1>6 DEF InBlock, Listed
  <2>2. \A k \in 0 .. j : k \in SlotIndex
    BY SlotNumbers
  <2>3. \A k \in 0 .. j : ~IsEnd(e[k])
    BY <1>1, <1>2, <2>1, <2>2
  <2> QED BY <2>1, <2>3 DEF InBlock, Listed
<1>7. Unhidden(e)
  <2> SUFFICES ASSUME NEW j \in Used(e), ~IsDots(e[j]) PROVE j \in Listed(e)
    BY DEF Unhidden
  <2>1. CASE j = i
    BY <1>4, <2>1 DEF InBlock
  <2>2. CASE j # i
    <3>1. j \in SlotIndex /\ j \in Used(b) /\ ~IsDots(b[j])
      BY <1>1, <2>2 DEF Used
    <3>2. InBlock(b, j)
      BY <1>0, <3>1 DEF Unhidden, InBlock
    <3> QED BY <1>6, <2>2, <3>1, <3>2 DEF InBlock
  <2> QED BY <2>1, <2>2
<1> QED BY <1>a, <1>1, <1>3, <1>4, <1>5, <1>6, <1>7 DEF Fills

\* The mark of a freed slot takes its entry off the list, and no other.
MayFree(b, i) == IsBlock(b) /\ Unhidden(b) /\ i \in SlotIndex /\ InBlock(b, i)
MarkIn(b, i) == IF i < SlotsPerCluster - 1 /\ IsEnd(b[i + 1]) THEN "00" ELSE "E5"
Frees(b, i, e) ==
  /\ IsBlock(e) /\ Unhidden(e)
  /\ \A j \in SlotIndex : j # i => e[j] = b[j]
  /\ \A j \in SlotIndex : InBlock(e, j) <=> (j # i /\ InBlock(b, j))

\* Marking a slot as freed hides that slot and no other.
LEMMA BlockFreed ==
  ASSUME NEW b, NEW i, MayFree(b, i)
  PROVE  Frees(b, i, [b EXCEPT ![i] = Marked(@, MarkIn(b, i))])
<1>a. IsBlock(b) /\ Unhidden(b) /\ i \in SlotIndex /\ InBlock(b, i)
  BY DEF MayFree
<1>b. PICK mark : mark = IF i < SlotsPerCluster - 1 /\ IsEnd(b[i + 1]) THEN "00" ELSE "E5"
  OBVIOUS
<1>c. PICK e : e = [b EXCEPT ![i] = Marked(@, mark)]
  OBVIOUS
<1>d. MarkIn(b, i) = mark
  BY <1>b DEF MarkIn
<1> DEFINE s == Marked(b[i], mark)
<1>0. IsSlot(b[i])
  BY <1>a DEF IsBlock
<1>1. IsSlot(s) /\ s.name[1] = mark
  <2> DEFINE L == 1 .. NameLength + ExtensionLength
             m == [b[i].name EXCEPT ![1] = mark]
  <2>1. b[i].name = [k \in L |-> b[i].name[k]] /\ 1 \in L
    BY <1>0, SlotNumbers DEF IsSlot
  <2>2. b[i] = [name |-> b[i].name, first |-> b[i].first, attributes |-> b[i].attributes]
    BY <1>0 DEF IsSlot
  <2>3. s = [b[i] EXCEPT !.name = m]
    BY <2>1, <2>2 DEF Marked
  <2> HIDE DEF L
  <2>4. m = [k \in L |-> m[k]] /\ m[1] = mark
    BY <2>1
  <2> HIDE DEF s, m
  <2>5. s = [name |-> m, first |-> b[i].first, attributes |-> b[i].attributes]
    BY <2>2, <2>3
  <2>6. s.name = m /\ s = [name |-> s.name, first |-> s.first, attributes |-> s.attributes]
    BY <2>5
  <2> QED BY <2>4, <2>6 DEF IsSlot, L
<1>2. e = [b EXCEPT ![i] = s]
  BY <1>c
<1> HIDE DEF s
<1>3. IsBlock(e) /\ e[i] = s /\ \A j \in SlotIndex : j # i => e[j] = b[j]
  BY <1>a, <1>1, <1>2 DEF IsBlock
<1>4. IsEnd(s) \/ IsDeleted(s)
  BY <1>1, <1>b DEF IsEnd, IsDeleted
<1>5. IsEnd(s) => i + 1 \in SlotIndex /\ IsEnd(b[i + 1])
  BY <1>a, <1>b, <1>1, SlotNumbers DEF IsEnd, SlotIndex
<1>6. i \notin Used(e)
  BY <1>3, <1>4 DEF Used
<1>7. ~InBlock(e, i)
  BY <1>a, <1>3, <1>4, SlotNumbers DEF InBlock, Listed
<1>8. ASSUME NEW j \in SlotIndex, j # i, InBlock(e, j)
      PROVE  InBlock(b, j)
  <2>1. e[j] = b[j] /\ ~IsDots(b[j]) /\ ~IsDeleted(b[j]) /\ j \in 0 .. j
    BY <1>3, <1>8, SlotNumbers DEF InBlock, Listed
  <2>2. ~IsEnd(b[j])
    BY <1>8, <2>1 DEF InBlock, Listed
  <2>3. j \in Used(b)
    BY <2>1, <2>2 DEF Used
  <2> QED BY <1>a, <2>1, <2>3 DEF Unhidden, InBlock
<1>9. ASSUME NEW j \in SlotIndex, j # i, InBlock(b, j)
      PROVE  InBlock(e, j)
  <2>1. e[j] = b[j] /\ ~IsDots(b[j]) /\ ~IsDeleted(b[j]) /\ \A k \in 0 .. j : ~IsEnd(b[k])
    BY <1>3, <1>9 DEF InBlock, Listed
  <2>2. \A k \in 0 .. j : k \in SlotIndex
    BY SlotNumbers
  <2>3. ASSUME NEW k \in 0 .. j PROVE ~IsEnd(e[k])
    <3>1. CASE k # i
      BY <1>3, <2>1, <2>2, <3>1
    <3>2. CASE k = i
      <4>1. i + 1 \in 0 .. j
        BY <1>a, <1>9, <2>3, <3>2, SlotNumbers
      <4>2. ~IsEnd(b[i + 1])
        BY <2>1, <4>1
      <4> QED BY <1>3, <1>5, <3>2, <4>2
    <3> QED BY <3>1, <3>2
  <2> QED BY <2>1, <2>3 DEF InBlock, Listed
<1>10. Unhidden(e)
  <2> SUFFICES ASSUME NEW j \in Used(e), ~IsDots(e[j]) PROVE j \in Listed(e)
    BY DEF Unhidden
  <2>1. j # i /\ j \in SlotIndex
    BY <1>6 DEF Used
  <2>2. j \in Used(b) /\ ~IsDots(b[j])
    BY <1>3, <2>1 DEF Used
  <2>3. InBlock(b, j)
    BY <1>a, <2>2 DEF Unhidden, InBlock
  <2> QED BY <1>9, <2>1, <2>3 DEF InBlock
<1>11. Frees(b, i, e)
  BY <1>3, <1>7, <1>8, <1>9, <1>10 DEF Frees
<1>12. e = [b EXCEPT ![i] = Marked(@, MarkIn(b, i))]
  BY <1>c, <1>d
<1> QED BY <1>11, <1>12

-----------------------------------------------------------------------------
(* The directories of a volume *)

EntriesIn(d, chain, D) == {p \in Place : (\E c \in D : p.cluster \in ToSet(chain[c])) /\ Shown(d, p)}

\* A place is its cluster and its index.
LEMMA PlaceFacts ==
  /\ \A p \in Place : p.cluster \in Cluster /\ p.index \in SlotIndex
  /\ \A p, q \in Place : p.cluster = q.cluster /\ p.index = q.index => p = q
BY DEF Place

\* A place is shown when its block shows it.
LEMMA ShownIs == \A d, p : Shown(d, p) <=> InBlock(d[p.cluster], p.index)
BY DEF Shown, InBlock, SlotOf

\* Nothing written to a directory: it lists what it did.
LEMMA VolumeSame ==
  ASSUME NEW d, NEW e, NEW chain, NEW next, NEW D,
         \A c \in D : next[c] = chain[c] /\ \A b \in ToSet(chain[c]) : e[b] = d[b]
  PROVE  /\ EntriesIn(e, next, D) = EntriesIn(d, chain, D)
         /\ \A p \in EntriesIn(d, chain, D) : SlotOf(e, p) = SlotOf(d, p)
         /\ Blocks(d, chain, D) => Blocks(e, next, D)
<1>1. \A p \in Place, c \in D : p.cluster \in ToSet(chain[c]) => (Shown(e, p) <=> Shown(d, p)) /\ SlotOf(e, p) = SlotOf(d, p)
  BY DEF Shown, SlotOf
<1>2. \A p \in Place : p \in EntriesIn(e, next, D) <=> p \in EntriesIn(d, chain, D)
  BY <1>1 DEF EntriesIn
<1>3. EntriesIn(e, next, D) \subseteq Place /\ EntriesIn(d, chain, D) \subseteq Place
  BY DEF EntriesIn
<1>4. EntriesIn(e, next, D) = EntriesIn(d, chain, D)
  BY <1>2, <1>3
<1>5. \A p \in EntriesIn(d, chain, D) : SlotOf(e, p) = SlotOf(d, p)
  BY <1>1 DEF EntriesIn
<1>6. Blocks(d, chain, D) => Blocks(e, next, D)
  BY DEF Blocks
<1> QED BY <1>4, <1>5, <1>6

\* A slot written to the first empty place of a directory is an entry more.
EntryFits(d, chain, D, p, s) ==
  /\ DOMAIN d = Cluster /\ Blocks(d, chain, D)
  /\ p \in Place /\ (\E c \in D : p.cluster \in ToSet(chain[c])) /\ EmptyAt(d, p)
  /\ IsSlot(s) /\ s.name[1] \notin {"00", "E5", "."}
SameBut(d, e, k) == \A b \in Cluster : b # k => e[b] = d[b]
Entered(d, e, chain, D, p, s) ==
  /\ DOMAIN e = Cluster /\ Blocks(e, chain, D)
  /\ EntriesIn(e, chain, D) = EntriesIn(d, chain, D) \cup {p}
  /\ p \notin EntriesIn(d, chain, D) /\ SlotOf(e, p) = s
  /\ \A q \in EntriesIn(d, chain, D) : SlotOf(e, q) = SlotOf(d, q)
  /\ SameBut(d, e, p.cluster)

\* A slot filled in a block adds its place to the entries of the directories.
LEMMA VolumeFilled ==
  ASSUME NEW d, NEW chain, NEW D, NEW p, NEW s, EntryFits(d, chain, D, p, s)
  PROVE  Entered(d, [d EXCEPT ![p.cluster] = [d[p.cluster] EXCEPT ![p.index] = s]], chain, D, p, s)
<1>a. PICK e : e = [d EXCEPT ![p.cluster] = [d[p.cluster] EXCEPT ![p.index] = s]]
  OBVIOUS
<1>b. /\ DOMAIN d = Cluster /\ Blocks(d, chain, D) /\ p \in Place /\ EmptyAt(d, p)
      /\ IsSlot(s) /\ s.name[1] \notin {"00", "E5", "."}
  BY DEF EntryFits
<1>c. PICK c \in D : p.cluster \in ToSet(chain[c])
  BY DEF EntryFits
<1> DEFINE k == p.cluster
           i == p.index
           b == d[k]
           f == [b EXCEPT ![i] = s]
<1>1. k \in Cluster /\ i \in SlotIndex
  BY <1>b, PlaceFacts
<1>2. IsBlock(b) /\ Unhidden(b)
  BY <1>b, <1>c DEF Blocks
<1>3. (IsDeleted(b[i]) \/ IsEnd(b[i])) /\ \A j \in 0 .. i - 1 : ~IsEnd(b[j])
  BY <1>b DEF EmptyAt, SlotOf
<1>4. e[k] = f /\ DOMAIN e = Cluster /\ \A x \in Cluster : x # k => e[x] = d[x]
  BY <1>a, <1>b, <1>1
<1> HIDE DEF b, f
<1>5. PICK g : g = f
  OBVIOUS
<1>6. g = [b EXCEPT ![i] = s]
  BY <1>5 DEF f
<1> HIDE DEF i
<1>7. /\ IsBlock(g) /\ Unhidden(g) /\ g[i] = s /\ ~InBlock(b, i)
      /\ \A j \in SlotIndex : j # i => g[j] = b[j]
      /\ \A j \in SlotIndex : InBlock(g, j) <=> (j = i \/ InBlock(b, j))
  <2>1. MayFill(b, i, s)
    BY <1>b, <1>1, <1>2, <1>3 DEF MayFill
  <2>2. Fills(b, i, s, [b EXCEPT ![i] = s])
    BY ONLY <2>1, BlockFilled
  <2>3. Fills(b, i, s, g)
    BY <1>6, <2>2
  <2> QED BY ONLY <2>3 DEF Fills
<1>8. e[k] = g /\ d[k] = b
  BY <1>4, <1>5 DEF b
<1> HIDE DEF k, i
<1>9. \A q \in Place : q.cluster # k \/ (q.cluster = k /\ q.index = i /\ q = p) \/ (q.cluster = k /\ q.index # i)
  BY <1>b, PlaceFacts DEF k, i
<1>10. p.cluster = k /\ p.index = i
  BY DEF k, i
<1>11. ASSUME NEW q \in Place
       PROVE  /\ Shown(e, q) <=> (q = p \/ Shown(d, q))
              /\ q # p => SlotOf(e, q) = SlotOf(d, q)
  <2>1. q.cluster \in Cluster /\ q.index \in SlotIndex
    BY PlaceFacts
  <2>2. CASE q.cluster # k
    BY <1>4, <1>10, <2>1, <2>2 DEF Shown, SlotOf
  <2>3. CASE q = p
    BY <1>7, <1>8, <1>10, <1>1, <2>3, ShownIs
  <2>4. CASE q.cluster = k /\ q.index # i
    <3>1. Shown(e, q) <=> InBlock(g, q.index)
      BY <1>8, <2>4, ShownIs
    <3>2. Shown(d, q) <=> InBlock(b, q.index)
      BY <1>8, <2>4, ShownIs
    <3> QED BY <1>7, <1>8, <1>10, <2>1, <2>4, <3>1, <3>2 DEF SlotOf
  <2> QED BY <1>9, <2>2, <2>3, <2>4
<1>12. ~Shown(d, p)
  BY <1>7, <1>8, <1>10, ShownIs
<1>13. EntriesIn(e, chain, D) = EntriesIn(d, chain, D) \cup {p}
  <2>1. \A q \in Place : q \in EntriesIn(e, chain, D) <=> q \in EntriesIn(d, chain, D) \cup {p}
    BY <1>c, <1>11 DEF EntriesIn
  <2>2. EntriesIn(e, chain, D) \subseteq Place /\ EntriesIn(d, chain, D) \cup {p} \subseteq Place
    BY <1>b DEF EntriesIn
  <2> QED BY <2>1, <2>2
<1>14. p \notin EntriesIn(d, chain, D)
  BY <1>12 DEF EntriesIn
<1>15. \A q \in EntriesIn(d, chain, D) : SlotOf(e, q) = SlotOf(d, q)
  BY <1>11, <1>14 DEF EntriesIn
<1>16. Blocks(e, chain, D)
  <2> SUFFICES ASSUME NEW x \in D, NEW y \in ToSet(chain[x]) PROVE IsBlock(e[y]) /\ Unhidden(e[y])
    BY DEF Blocks
  <2>1. IsBlock(d[y]) /\ Unhidden(d[y])
    BY <1>b DEF Blocks
  <2>2. y = k \/ e[y] = d[y]
    BY <1>a, <1>b, <1>10
  <2> QED BY <1>7, <1>8, <2>1, <2>2
<1>17. SlotOf(e, p) = s
  BY <1>7, <1>8, <1>10 DEF SlotOf
<1>18. Entered(d, e, chain, D, p, s)
  BY <1>4, <1>10, <1>13, <1>14, <1>15, <1>16, <1>17 DEF Entered, SameBut
<1> QED BY <1>a, <1>18

\* An entry whose slot is marked as freed is gone.
EntryGoes(d, chain, D, p) == DOMAIN d = Cluster /\ Blocks(d, chain, D) /\ p \in EntriesIn(d, chain, D)
MarkAt(d, p) == MarkIn(d[p.cluster], p.index)
Left(d, e, chain, D, p) ==
  /\ DOMAIN e = Cluster /\ Blocks(e, chain, D)
  /\ EntriesIn(e, chain, D) = EntriesIn(d, chain, D) \ {p}
  /\ \A q \in EntriesIn(d, chain, D) : q # p => SlotOf(e, q) = SlotOf(d, q)
  /\ SameBut(d, e, p.cluster)

\* A slot freed in a block takes its place from the entries of the directories.
LEMMA VolumeFreed ==
  ASSUME NEW d, NEW chain, NEW D, NEW p, EntryGoes(d, chain, D, p)
  PROVE  Left(d, [d EXCEPT ![p.cluster] = [d[p.cluster] EXCEPT ![p.index] = Marked(@, MarkAt(d, p))]], chain, D, p)
<1>m. PICK mark : mark = MarkAt(d, p)
  OBVIOUS
<1>a. PICK e : e = [d EXCEPT ![p.cluster] = [d[p.cluster] EXCEPT ![p.index] = Marked(@, mark)]]
  OBVIOUS
<1>b. DOMAIN d = Cluster /\ Blocks(d, chain, D) /\ p \in EntriesIn(d, chain, D)
  BY DEF EntryGoes
<1> DEFINE k == p.cluster
           i == p.index
           b == d[k]
           f == [b EXCEPT ![i] = Marked(@, mark)]
<1>0. p \in Place /\ Shown(d, p) /\ \E c \in D : k \in ToSet(chain[c])
  BY <1>b DEF EntriesIn
<1>1. k \in Cluster /\ i \in SlotIndex
  BY <1>0, PlaceFacts
<1>2. IsBlock(b) /\ Unhidden(b)
  BY <1>b, <1>0 DEF Blocks
<1>3. InBlock(b, i)
  BY <1>0, ShownIs
<1>4. e[k] = f /\ DOMAIN e = Cluster /\ \A x \in Cluster : x # k => e[x] = d[x]
  BY <1>a, <1>b, <1>1
<1> HIDE DEF f
<1>5. PICK g : g = f
  OBVIOUS
<1>6. g = [b EXCEPT ![i] = Marked(@, mark)]
  BY <1>5 DEF f
<1>61. mark = MarkIn(b, i)
  BY <1>m DEF MarkAt
<1> HIDE DEF b
<1> HIDE DEF i
<1>7. /\ IsBlock(g) /\ Unhidden(g)
      /\ \A j \in SlotIndex : j # i => g[j] = b[j]
      /\ \A j \in SlotIndex : InBlock(g, j) <=> (j # i /\ InBlock(b, j))
  <2>1. MayFree(b, i)
    BY <1>1, <1>2, <1>3 DEF MayFree
  <2>2. Frees(b, i, [b EXCEPT ![i] = Marked(@, MarkIn(b, i))])
    BY ONLY <2>1, BlockFreed
  <2>3. Frees(b, i, g)
    BY <1>6, <1>61, <2>2
  <2> QED BY ONLY <2>3 DEF Frees
<1>8. e[k] = g /\ d[k] = b
  BY <1>4, <1>5 DEF b
<1> HIDE DEF k, i
<1>9. \A q \in Place : q.cluster # k \/ (q.cluster = k /\ q.index = i /\ q = p) \/ (q.cluster = k /\ q.index # i)
  BY <1>0, PlaceFacts DEF k, i
<1>10. p.cluster = k /\ p.index = i
  BY DEF k, i
<1>11. ASSUME NEW q \in Place
       PROVE  /\ Shown(e, q) <=> (q # p /\ Shown(d, q))
              /\ q # p => SlotOf(e, q) = SlotOf(d, q)
  <2>1. q.cluster \in Cluster /\ q.index \in SlotIndex
    BY PlaceFacts
  <2>2. CASE q.cluster # k
    BY <1>4, <1>10, <2>1, <2>2 DEF Shown, SlotOf
  <2>3. CASE q = p
    BY <1>7, <1>8, <1>10, <1>1, <2>3, ShownIs
  <2>4. CASE q.cluster = k /\ q.index # i
    <3>1. Shown(e, q) <=> InBlock(g, q.index)
      BY <1>8, <2>4, ShownIs
    <3>2. Shown(d, q) <=> InBlock(b, q.index)
      BY <1>8, <2>4, ShownIs
    <3> QED BY <1>7, <1>8, <1>10, <2>1, <2>4, <3>1, <3>2 DEF SlotOf
  <2> QED BY <1>9, <2>2, <2>3, <2>4
<1>13. EntriesIn(e, chain, D) = EntriesIn(d, chain, D) \ {p}
  <2>1. \A q \in Place : q \in EntriesIn(e, chain, D) <=> q \in EntriesIn(d, chain, D) \ {p}
    BY <1>11 DEF EntriesIn
  <2>2. EntriesIn(e, chain, D) \subseteq Place /\ EntriesIn(d, chain, D) \subseteq Place
    BY DEF EntriesIn
  <2> QED BY <2>1, <2>2
<1>15. \A q \in EntriesIn(d, chain, D) : q # p => SlotOf(e, q) = SlotOf(d, q)
  BY <1>11 DEF EntriesIn
<1>16. Blocks(e, chain, D)
  <2> SUFFICES ASSUME NEW x \in D, NEW y \in ToSet(chain[x]) PROVE IsBlock(e[y]) /\ Unhidden(e[y])
    BY DEF Blocks
  <2>1. IsBlock(d[y]) /\ Unhidden(d[y])
    BY <1>b DEF Blocks
  <2>2. y = k \/ e[y] = d[y]
    BY <1>a, <1>b, <1>10
  <2> QED BY <1>7, <1>8, <2>1, <2>2
<1>18. Left(d, e, chain, D, p)
  BY <1>4, <1>10, <1>13, <1>15, <1>16 DEF Left, SameBut
<1> QED BY <1>a, <1>m, <1>18

-----------------------------------------------------------------------------
(* The slots that are written *)

\* A name has as many characters as n, whatever they are.
Wide(t, n) == t = [i \in 1 .. n |-> t[i]]

HasBlank(S) == " " \in S

\* A name is a sequence over a set that has the blank besides.
LEMMA SeqOfItsOwn ==
  ASSUME NEW T, NEW name \in Seq(T)
  PROVE  \E S : name \in Seq(S) /\ HasBlank(S)
<1> DEFINE S == {name[i] : i \in 1 .. Len(name)} \cup {" "}
<1>1. Len(name) \in Nat /\ name = [i \in 1 .. Len(name) |-> name[i]]
  BY SeqDef, LenProperties
<1>2. name \in [1 .. Len(name) -> S]
  BY <1>1
<1>3. HasBlank(S)
  BY DEF HasBlank
<1> HIDE DEF S
<1>4. name \in Seq(S)
  BY <1>1, <1>2, SeqDef
<1> QED BY <1>3, <1>4

\* A sequence padded by another and cut has the wanted length.
LEMMA FrontOfConcat ==
  ASSUME NEW S, NEW a \in Seq(S), NEW b \in Seq(S), NEW n \in Nat, n <= Len(b)
  PROVE  LET u == SubSeq(a \o b, 1, n)
         IN /\ u \in Seq(S) /\ Len(u) = n /\ Wide(u, n)
            /\ \A i \in 1 .. n : i <= Len(a) => u[i] = a[i]
<1>1. PICK t : t = a \o b
  OBVIOUS
<1>2. t \in Seq(S) /\ Len(t) = Len(a) + Len(b) /\ Len(a) \in Nat /\ Len(b) \in Nat
      /\ \A i \in 1 .. Len(a) : t[i] = a[i]
  BY <1>1
<1>3. PICK u : u = SubSeq(t, 1, n)
  OBVIOUS
<1>4. u \in Seq(S) /\ Len(u) = n /\ \A i \in 1 .. n : u[i] = t[i]
  BY <1>2, <1>3
<1>5. Wide(u, n)
  BY <1>4 DEF Wide
<1> QED BY <1>1, <1>2, <1>3, <1>4, <1>5

\* Blanks(n) is n blanks.
LEMMA BlanksAre ==
  ASSUME NEW S, HasBlank(S), NEW n \in Nat
  PROVE  Blanks(n) \in Seq(S) /\ Len(Blanks(n)) = n
<1>1. PICK blank \in S : blank = " "
  BY DEF HasBlank
<1>2. Blanks(n) = [i \in 1 .. n |-> blank]
  BY <1>1, Zenon DEF Blanks
<1>3. PICK b : b = [i \in 1 .. n |-> blank]
  OBVIOUS
<1>4. b \in Seq(S) /\ Len(b) = n
  <2>1. b \in [1 .. n -> S]
    BY <1>3
  <2> QED BY ONLY <1>3, <2>1, n \in Nat, SeqDef, LenProperties
<1> QED BY <1>2, <1>3, <1>4, Zenon

\* Padding keeps the characters that fit and has the wanted length.
LEMMA PaddedFacts ==
  ASSUME NEW S, HasBlank(S), NEW chars \in Seq(S), NEW n \in Nat
  PROVE  /\ Padded(chars, n) \in Seq(S) /\ Len(Padded(chars, n)) = n /\ Wide(Padded(chars, n), n)
         /\ \A i \in 1 .. n : i <= Len(chars) => Padded(chars, n)[i] = chars[i]
<1>1. PICK blanks \in Seq(S) : blanks = Blanks(n) /\ Len(blanks) = n
  BY BlanksAre
<1>2. PICK u : u = SubSeq(chars \o blanks, 1, n)
  OBVIOUS
<1>3. u \in Seq(S) /\ Len(u) = n /\ Wide(u, n) /\ \A i \in 1 .. n : i <= Len(chars) => u[i] = chars[i]
  <2>1. n <= n
    OBVIOUS
  <2>2. n <= Len(blanks)
    BY <1>1, <2>1
  <2> QED BY ONLY <1>1, <1>2, chars \in Seq(S), n \in Nat, <2>2, blanks \in Seq(S), FrontOfConcat
<1>4. Padded(chars, n) = u
  BY <1>1, <1>2, Zenon DEF Padded
<1> QED BY <1>3, <1>4, Zenon

\* Two parts of a name make one of their joint length.
LEMMA ConcatWide ==
  ASSUME NEW S, NEW a \in Seq(S), NEW b \in Seq(S)
  PROVE  Wide(a \o b, Len(a) + Len(b))
<1>1. PICK c : c = a \o b
  OBVIOUS
<1>2. c \in Seq(S) /\ Len(c) = Len(a) + Len(b)
  BY <1>1
<1>3. Wide(c, Len(a) + Len(b))
  BY <1>2 DEF Wide
<1> QED BY <1>1, <1>3

\* A short name is as long as the name of a slot.
LEMMA ShortNameWide ==
  ASSUME NEW name \in Name
  PROVE  Wide(ShortName(name), NameLength + ExtensionLength)
<1>0. name \in Seq(STRING)
  BY FatAssumption
<1>1. NameLength \in Nat \ {0} /\ ExtensionLength \in Nat \ {0} /\ NameLength \in Nat /\ ExtensionLength \in Nat
  BY FatAssumption
<1>2. PICK S : name \in Seq(S) /\ HasBlank(S)
  BY <1>0, SeqOfItsOwn
<1>21. name \in Seq(S)
  BY <1>2
<1>3. Blanks(ExtensionLength) \in Seq(S) /\ Len(Blanks(ExtensionLength)) = ExtensionLength
  BY <1>1, <1>2, BlanksAre
<1>4. ASSUME NEW a \in Seq(S), NEW b \in Seq(S), Len(a) = NameLength, Len(b) = ExtensionLength
      PROVE  Wide(a \o b, NameLength + ExtensionLength)
  BY <1>1, <1>4, ConcatWide
<1>5. CASE DotAt(name) = {}
  <2>1. Padded(name, NameLength) \in Seq(S) /\ Len(Padded(name, NameLength)) = NameLength
    BY <1>1, <1>2, PaddedFacts
  <2>2. ShortName(name) = Padded(name, NameLength) \o Blanks(ExtensionLength)
    BY <1>5 DEF ShortName
  <2> QED BY <1>3, <1>4, <2>1, <2>2
<1>6. CASE DotAt(name) # {}
  <2>1. PICK dot : dot = Min(DotAt(name))
    OBVIOUS
  <2>2. DotAt(name) \in SUBSET Nat
    BY DEF DotAt
  <2>3. dot \in DotAt(name)
    BY <1>6, <2>1, <2>2, LeastNat DEF Min
  <2>4. dot \in 2 .. NameLength /\ dot <= Len(name)
    BY <2>3 DEF DotAt
  <2>5. SubSeq(name, 1, dot - 1) \in Seq(S) /\ SubSeq(name, dot + 1, Len(name)) \in Seq(S)
    BY <1>1, <1>21, <2>4
  <2>6. /\ Padded(SubSeq(name, 1, dot - 1), NameLength) \in Seq(S)
        /\ Len(Padded(SubSeq(name, 1, dot - 1), NameLength)) = NameLength
        /\ Padded(SubSeq(name, dot + 1, Len(name)), ExtensionLength) \in Seq(S)
        /\ Len(Padded(SubSeq(name, dot + 1, Len(name)), ExtensionLength)) = ExtensionLength
    BY <1>1, <1>2, <2>5, PaddedFacts
  <2>7. ShortName(name) = Padded(SubSeq(name, 1, dot - 1), NameLength)
                            \o Padded(SubSeq(name, dot + 1, Len(name)), ExtensionLength)
    BY <1>6, <2>1 DEF ShortName
  <2> QED BY <1>4, <2>6, <2>7
<1> QED BY <1>5, <1>6

\* A slot has what it was made of.
LEMMA SlotIs ==
  ASSUME NEW name, NEW first, NEW attributes
  PROVE  LET s == Slot(name, first, attributes)
         IN /\ s.name = name /\ s.first = first /\ s.attributes = attributes
            /\ Wide(name, NameLength + ExtensionLength) => IsSlot(s)
BY DEF Slot, IsSlot, Wide

\* The slot of a legal name is used, and its name is read back from it.
LEMMA SlotOfName ==
  ASSUME NEW name \in Name, NEW first, NEW attributes
  PROVE  LET s == Slot(ShortName(name), first, attributes)
         IN IsSlot(s) /\ s.name[1] \notin {"00", "E5", "."} /\ RetrievedName(s.name) = name
BY ShortNameWide, SlotIs, FatAssumption

\* The two slots of a new directory, and no other, are in use.
LEMMA DotsAre ==
  /\ Wide(Dot, NameLength + ExtensionLength) /\ Dot[1] = "."
  /\ Wide(DotDot, NameLength + ExtensionLength) /\ DotDot[1] = "."
<1>1. NameLength + ExtensionLength \in Nat /\ 1 \in 1 .. NameLength + ExtensionLength
  BY SlotNumbers
<1> DEFINE S == {".", " "}
<1>2. PICK dot \in S : dot = "."
  OBVIOUS
<1>3. HasBlank(S)
  BY DEF HasBlank
<1> HIDE DEF S
<1>4. ASSUME NEW chars \in Seq(S), Len(chars) >= 1, Len(chars) \in Nat, chars[1] = dot
      PROVE  Wide(Padded(chars, NameLength + ExtensionLength), NameLength + ExtensionLength)
             /\ Padded(chars, NameLength + ExtensionLength)[1] = dot
  BY <1>1, <1>3, <1>4, PaddedFacts
<1>5. <<dot>> \in Seq(S) /\ <<dot, dot>> \in Seq(S) /\ Len(<<dot>>) = 1 /\ Len(<<dot, dot>>) = 2
      /\ <<dot>>[1] = dot /\ <<dot, dot>>[1] = dot
  OBVIOUS
<1>6. Dot = Padded(<<dot>>, NameLength + ExtensionLength) /\ DotDot = Padded(<<dot, dot>>, NameLength + ExtensionLength)
  BY <1>2, Zenon DEF Dot, DotDot
<1>7. Wide(Dot, NameLength + ExtensionLength) /\ Dot[1] = dot
  <2>1. PICK chars \in Seq(S) : chars = <<dot>> /\ Len(chars) = 1 /\ chars[1] = dot
    BY <1>5
  <2>2. Len(chars) >= 1 /\ Len(chars) \in Nat
    BY <2>1
  <2>3. Wide(Padded(chars, NameLength + ExtensionLength), NameLength + ExtensionLength)
        /\ Padded(chars, NameLength + ExtensionLength)[1] = dot
    BY <1>4, <2>1, <2>2, Zenon
  <2> QED BY <1>6, <2>1, <2>3, Zenon
<1>8. Wide(DotDot, NameLength + ExtensionLength) /\ DotDot[1] = dot
  <2>1. PICK chars \in Seq(S) : chars = <<dot, dot>> /\ Len(chars) = 2 /\ chars[1] = dot
    BY <1>5
  <2>2. Len(chars) >= 1 /\ Len(chars) \in Nat
    BY <2>1
  <2>3. Wide(Padded(chars, NameLength + ExtensionLength), NameLength + ExtensionLength)
        /\ Padded(chars, NameLength + ExtensionLength)[1] = dot
    BY <1>4, <2>1, <2>2, Zenon
  <2> QED BY <1>6, <2>1, <2>3, Zenon
<1> QED BY <1>2, <1>7, <1>8, Zenon

\* The end slot is a slot, and marked as one.
LEMMA EndSlotIs == IsSlot(EndSlot) /\ IsEnd(EndSlot) /\ EndSlot.name[1] = "00"
<1>1. 1 \in 1 .. NameLength + ExtensionLength
  BY SlotNumbers
<1> QED BY <1>1 DEF EndSlot, IsSlot, IsEnd, Slot

\* A block of end slots shows nothing.
LEMMA BlankFacts ==
  /\ IsBlock(Blank) /\ Unhidden(Blank) /\ \A i \in SlotIndex : ~InBlock(Blank, i)
<1>1. \A i \in SlotIndex : Blank[i] = EndSlot
  BY DEF Blank
<1>2. IsBlock(Blank)
  BY <1>1, EndSlotIs DEF IsBlock, Blank
<1>3. Used(Blank) = {}
  BY <1>1, EndSlotIs DEF Used
<1>4. \A i \in SlotIndex : i \in 0 .. i
  BY SlotNumbers
<1>5. \A i \in SlotIndex : i \notin Listed(Blank)
  BY <1>1, <1>4, EndSlotIs DEF Listed
<1> QED BY <1>2, <1>3, <1>5 DEF Unhidden, InBlock

\* A block of "." and ".." shows no entry.
LEMMA DotsFacts ==
  ASSUME NEW s, NEW t, NEW b, b = [Blank EXCEPT ![0] = s, ![1] = t],
         IsSlot(s), IsSlot(t), IsDots(s), IsDots(t)
  PROVE  IsBlock(b) /\ Unhidden(b) /\ \A i \in SlotIndex : ~InBlock(b, i)
<1>0. PICK x : x = EndSlot
  OBVIOUS
<1>01. b = [i \in SlotIndex |-> IF i = 1 THEN t ELSE IF i = 0 THEN s ELSE x]
  <2>1. Blank = [i \in SlotIndex |-> x]
    BY <1>0, Zenon DEF Blank
  <2> QED BY ONLY <2>1, b = [Blank EXCEPT ![0] = s, ![1] = t]
<1>1. b[0] = s /\ b[1] = t /\ b = [i \in SlotIndex |-> b[i]]
      /\ \A i \in SlotIndex : i # 0 /\ i # 1 => b[i] = EndSlot
  <2>1. 0 \in SlotIndex /\ 1 \in SlotIndex /\ SlotIndex \subseteq Nat
    BY SlotNumbers
  <2>2. b[0] = s /\ b[1] = t /\ b = [i \in SlotIndex |-> b[i]]
        /\ \A i \in SlotIndex : i # 0 /\ i # 1 => b[i] = x
    BY ONLY <1>01, <2>1
  <2> QED BY <1>0, <2>2, Zenon
<1>2. IsBlock(b)
  BY <1>1, EndSlotIs DEF IsBlock
<1>3. \A i \in SlotIndex : IsDots(b[i]) \/ IsEnd(b[i])
  BY <1>1, EndSlotIs
<1>4. Unhidden(b)
  BY <1>3 DEF Unhidden, Used
<1>5. \A i \in SlotIndex : i \in 0 .. i
  BY SlotNumbers
<1>6. \A i \in SlotIndex : ~InBlock(b, i)
  BY <1>3, <1>5 DEF InBlock, Listed
<1> QED BY <1>2, <1>4, <1>6

-----------------------------------------------------------------------------
(* What the driver and the properties see of a volume *)

\* The directories that the directory c holds entries of.
Children(d, x, chain, V, c) ==
  {SlotOf(d, p).first : p \in {q \in V : q.cluster \in ToSet(chain[c]) /\ Leads(d, x, q)}}

\* E is the part of a tree that is reached from S.
Branch(d, x, chain, R, D, V, S, E) ==
  /\ S \subseteq E /\ E \subseteq D /\ EntriesIn(d, chain, E) \subseteq V
  /\ Closed(d, x, chain, E, V)
  /\ Tree(d, x, chain, S, E, EntriesIn(d, chain, E))
  /\ S = R => E = D /\ EntriesIn(d, chain, E) = V
  /\ \A T \in SUBSET D : S \subseteq T /\ Closed(d, x, chain, T, V) => E \subseteq T

\* What is reached from some of the directories of a tree is a tree.
LEMMA ReachedTree ==
  ASSUME NEW d, NEW x, NEW chain, NEW R, NEW D, NEW V, Tree(d, x, chain, R, D, V),
         NEW S \in SUBSET D, NEW children \in [Cluster -> SUBSET Cluster],
         \A c \in D : children[c] = Children(d, x, chain, V, c)
  PROVE  Branch(d, x, chain, R, D, V, S, Reached(S, children))
<1> DEFINE E == Reached(S, children)
           W == EntriesIn(d, chain, E)
<1>1. /\ R \subseteq D /\ D \subseteq Cluster
      /\ V = EntriesIn(d, chain, D)
      /\ \A p \in V : Leads(d, x, p) => SlotOf(d, p).first \in D
      /\ \A T \in SUBSET D : R \subseteq T /\ Closed(d, x, chain, T, V) => T = D
  BY DEF Tree, EntriesIn
<1>2. S \in SUBSET Cluster
  BY <1>1
<1>3. S \subseteq E /\ E \subseteq Cluster /\ \A c \in E : children[c] \subseteq E
  BY <1>2, ReachedCloses
<1>4. \A c \in D : children[c] \subseteq D
  BY <1>1 DEF Children
<1>5. E \subseteq D
  BY <1>4, ReachedWithin
<1>6. ASSUME NEW T \in SUBSET D, S \subseteq T, Closed(d, x, chain, T, V)
      PROVE  E \subseteq T
  <2>1. \A c \in T : children[c] \subseteq T
    BY <1>6 DEF Closed, Children
  <2> QED BY <1>6, <2>1, ReachedWithin
<1> HIDE DEF E
<1>7. W \subseteq V /\ \A p \in V, c \in E : p.cluster \in ToSet(chain[c]) => p \in W
  BY <1>1, <1>5 DEF EntriesIn
<1>8. \A p \in V, c \in E : p.cluster \in ToSet(chain[c]) /\ Leads(d, x, p) => SlotOf(d, p).first \in E
  <2> TAKE p \in V, c \in E
  <2> HAVE p.cluster \in ToSet(chain[c]) /\ Leads(d, x, p)
  <2>1. SlotOf(d, p).first \in children[c]
    BY <1>5 DEF Children
  <2> QED BY <1>3, <2>1
<1>9. Tree(d, x, chain, S, E, W)
  <2>1. \A p \in W : Leads(d, x, p) => SlotOf(d, p).first \in E
    BY <1>7, <1>8 DEF EntriesIn
  <2>2. ASSUME NEW T \in SUBSET E, S \subseteq T, Closed(d, x, chain, T, W)
        PROVE  T = E
    <3>1. Closed(d, x, chain, T, V)
      BY <1>7, <2>2 DEF Closed
    <3>2. T \in SUBSET D
      BY <1>5
    <3> QED BY <1>6, <2>2, <3>1, <3>2
  <2> QED BY <1>3, <2>1, <2>2 DEF Tree, EntriesIn
<1>10. S = R => E = D /\ W = V
  <2>1. Closed(d, x, chain, E, V)
    BY <1>8 DEF Closed
  <2> QED BY <1>1, <1>3, <1>5, <2>1
<1>11. Closed(d, x, chain, E, V)
  BY <1>8 DEF Closed
<1>12. Branch(d, x, chain, R, D, V, S, E)
  BY <1>3, <1>5, <1>6, <1>7, <1>9, <1>10, <1>11 DEF Branch
<1> QED BY <1>12 DEF E

\* A directory of a tree is one of its roots or an entry leads to it.
LEMMA LedTo ==
  ASSUME NEW d, NEW x, NEW chain, NEW R, NEW D, NEW V, Tree(d, x, chain, R, D, V)
  PROVE  \A c \in D : c \in R \/ \E p \in V : Leads(d, x, p) /\ SlotOf(d, p).first = c
<1> DEFINE T == R \cup {SlotOf(d, p).first : p \in {q \in V : Leads(d, x, q)}}
<1>1. T \in SUBSET D /\ R \subseteq T
  BY DEF Tree
<1>2. Closed(d, x, chain, T, V)
  BY DEF Closed
<1>3. T = D
  BY <1>1, <1>2 DEF Tree
<1> QED BY <1>3

\* The cluster that is not initialised is only a directory's when it is hidden.
LEMMA HiddenFacts == Hidden \notin Cluster \/ (Doing("initialise") /\ Hidden = call.first)
BY ClusterFacts DEF Hidden

\* The chains of a volume's FAT are the chains of the heads.
LEMMA HeadChains ==
  ASSUME NEW H, NEW chain, Chains(fat, H, chain)
  PROVE  \A h \in H : /\ ChainOf(h) = chain[h] /\ chain[h] \in Seq(Cluster) /\ h \in ToSet(chain[h])
                      /\ Len(chain[h]) \in Nat \ {0} /\ chain[h][1] = h
                      /\ ToSet(chain[h]) \subseteq Cluster
                      /\ ToSet(chain[h]) = {chain[h][i] : i \in 1 .. Len(chain[h])}
<1> TAKE h \in H
<1>1. Path(fat, chain[h]) /\ chain[h][1] = h
  BY DEF Chains
<1>2. ChainOf(h) = chain[h]
  <2>1. PICK s : s = chain[h]
    OBVIOUS
  <2> QED BY <1>1, <2>1, ChainIs
<1>3. chain[h] \in Seq(Cluster) /\ Len(chain[h]) \in Nat \ {0}
  BY <1>1, PathLength DEF Path
<1>4. ToSet(chain[h]) = {chain[h][i] : i \in 1 .. Len(chain[h])}
  BY <1>3 DEF ToSet
<1>5. \A i \in 1 .. Len(chain[h]) : chain[h][i] \in Cluster
  BY <1>3
<1> QED BY <1>1, <1>2, <1>3, <1>4, <1>5

\* A chain, as a sequence of clusters.
IsChain(s, h) ==
  /\ s \in Seq(Cluster) /\ Len(s) \in Nat \ {0} /\ s[1] = h /\ h \in ToSet(s)
  /\ ToSet(s) \subseteq Cluster /\ ToSet(s) = {s[i] : i \in 1 .. Len(s)}

\* The chain of a head starts there and follows the FAT.
LEMMA HeadChain ==
  ASSUME NEW f, NEW H, NEW chain, Chains(f, H, chain), NEW h \in H
  PROVE  IsChain(chain[h], h) /\ Path(f, chain[h])
<1>1. Path(f, chain[h]) /\ chain[h][1] = h
  BY DEF Chains
<1>2. PICK s : s = chain[h]
  OBVIOUS
<1>3. s \in Seq(Cluster) /\ Len(s) \in Nat \ {0}
  BY <1>1, <1>2, PathLength DEF Path
<1>4. ToSet(s) = {s[i] : i \in 1 .. Len(s)}
  BY <1>3 DEF ToSet
<1>5. IsChain(s, s[1])
  BY <1>3, <1>4 DEF IsChain
<1> QED BY <1>1, <1>2, <1>5

\* The places the driver lists in a directory are the entries in its chain.
LEMMA PlacesInIs ==
  ASSUME NEW chain, NEW D, NEW c \in D, ChainOf(c) = chain[c], ToSet(chain[c]) \subseteq Cluster
  PROVE  /\ PlacesIn(c, Listed) = {p \in EntriesIn(data, chain, D) : p.cluster \in ToSet(chain[c])}
         /\ Blocks(data, chain, D) => PlacesIn(c, Used) = PlacesIn(c, Listed)
<1> DEFINE Here == {p \in EntriesIn(data, chain, D) : p.cluster \in ToSet(chain[c])}
<1>1. ASSUME NEW p \in PlacesIn(c, Listed)
      PROVE  p \in Here
  <2>0. PICK b \in ToSet(chain[c]) :
          \E i \in Listed(data[b]) : p = [cluster |-> b, index |-> i] /\ ~IsDots(data[b][i])
    BY <1>1 DEF PlacesIn
  <2>1. PICK i \in Listed(data[b]) : p = [cluster |-> b, index |-> i] /\ ~IsDots(data[b][i])
    BY <2>0
  <2>2. p \in Place /\ p.cluster = b /\ p.index = i
    BY <2>1 DEF Place, Listed
  <2> QED BY <2>1, <2>2 DEF EntriesIn, Shown, SlotOf
<1>2. ASSUME NEW p \in Here
      PROVE  p \in PlacesIn(c, Listed)
  <2>1. p \in Place /\ p.cluster \in ToSet(ChainOf(c))
    BY DEF EntriesIn
  <2>2. p = [cluster |-> p.cluster, index |-> p.index]
    BY <2>1 DEF Place
  <2>3. p.index \in Listed(data[p.cluster]) /\ ~IsDots(data[p.cluster][p.index])
    BY DEF EntriesIn, Shown, SlotOf
  <2> QED BY <2>1, <2>2, <2>3 DEF PlacesIn
<1>3. ASSUME Blocks(data, chain, D)
      PROVE  PlacesIn(c, Used) = PlacesIn(c, Listed)
  <2>1. ASSUME NEW b \in ToSet(ChainOf(c)), NEW i
        PROVE  i \in Used(data[b]) /\ ~IsDots(data[b][i]) <=> i \in Listed(data[b]) /\ ~IsDots(data[b][i])
    <3>1. Unhidden(data[b])
      BY <1>3 DEF Blocks
    <3>2. i \in Listed(data[b]) => i \in Used(data[b])
      BY SlotNumbers DEF Listed, Used
    <3> QED BY <3>1, <3>2 DEF Unhidden
  <2> QED BY <2>1 DEF PlacesIn
<1> QED BY <1>1, <1>2, <1>3

\* The directories the driver finds in a directory are its children.
LEMMA SubdirectoriesIs ==
  ASSUME NEW chain, NEW R, NEW D, NEW V, Tree(data, Hidden, chain, R, D, V),
         \A c \in D : ChainOf(c) = chain[c] /\ ToSet(chain[c]) \subseteq Cluster
  PROVE  /\ Subdirectories(Listed) \in [Cluster -> SUBSET Cluster]
         /\ \A c \in D : Subdirectories(Listed)[c] = Children(data, Hidden, chain, V, c)
         /\ Subdirectories(Used) \in [Cluster -> SUBSET Cluster]
         /\ Blocks(data, chain, D) => \A c \in D : Subdirectories(Used)[c] = Subdirectories(Listed)[c]
<1>1. V = EntriesIn(data, chain, D) /\ D \subseteq Cluster
  BY DEF Tree, EntriesIn
<1>2. Subdirectories(Listed) \in [Cluster -> SUBSET Cluster] /\ Subdirectories(Used) \in [Cluster -> SUBSET Cluster]
  BY DEF Subdirectories
<1>3. ASSUME NEW c \in D
      PROVE  Subdirectories(Listed)[c] = Children(data, Hidden, chain, V, c)
  <2>1. PlacesIn(c, Listed) = {p \in V : p.cluster \in ToSet(chain[c])}
    BY <1>1, PlacesInIs
  <2>2. Subdirectories(Listed)[c] =
          {SlotAt(p).first : p \in {q \in PlacesIn(c, Listed) : IsDirectory(SlotAt(q)) /\ Erased(SlotAt(q))}} \cap Cluster
    BY <1>1 DEF Subdirectories
  <2>3. \A p : SlotAt(p) = SlotOf(data, p)
    BY DEF SlotAt, SlotOf
  <2>4. \A p \in V : Leads(data, Hidden, p) => SlotOf(data, p).first \in Cluster
    BY <1>1 DEF Tree
  <2>5. \A p \in V : SlotOf(data, p).first \in Cluster =>
          (IsDirectory(SlotOf(data, p)) /\ Erased(SlotOf(data, p)) <=> Leads(data, Hidden, p))
    BY ClusterFacts DEF Leads, Erased, Hidden, Doing
  <2> QED BY <2>1, <2>2, <2>3, <2>4, <2>5 DEF Children
<1>4. ASSUME Blocks(data, chain, D), NEW c \in D
      PROVE  Subdirectories(Used)[c] = Subdirectories(Listed)[c]
  <2>1. PlacesIn(c, Used) = PlacesIn(c, Listed)
    BY <1>4, PlacesInIs
  <2> QED BY <1>1, <2>1 DEF Subdirectories
<1> QED BY <1>2, <1>3, <1>4

\* A chain that follows the FAT ends, over clusters in use.
LEMMA HeadsEnd ==
  ASSUME NEW H, NEW chain, Chains(fat, H, chain), NEW h \in H
  PROVE  Ends(ChainOf(h)) /\ \A c \in ToSet(ChainOf(h)) : fat[c] # FreeCluster
<1> DEFINE s == chain[h]
<1>1. Path(fat, s) /\ ChainOf(h) = s /\ s \in Seq(Cluster) /\ Len(s) \in Nat \ {0} /\ ToSet(s) \subseteq Cluster
      /\ ToSet(s) = {s[i] : i \in 1 .. Len(s)}
  BY HeadChains DEF Chains
<1> HIDE DEF s
<1>2. DOMAIN s = 1 .. Len(s) /\ Last(s) = s[Len(s)]
  BY <1>1 DEF Last
<1>3. IsInjective(s)
  BY <1>1, <1>2 DEF IsInjective, Path
<1>4. ASSUME NEW i \in 1 .. Len(s)
      PROVE  fat[s[i]] # FreeCluster
  <2>1. CASE i = Len(s)
    BY <1>1, <2>1, ClusterFacts DEF Path, FAT_EOF, FreeCluster
  <2>2. CASE i # Len(s)
    <3>1. i \in 1 .. Len(s) - 1 /\ i + 1 \in 1 .. Len(s)
      BY <1>1, <2>2
    <3>2. fat[s[i]] = s[i + 1] /\ s[i + 1] \in Cluster
      BY <1>1, <3>1 DEF Path
    <3> QED BY <3>2, ClusterFacts DEF FreeCluster
  <2> QED BY <2>1, <2>2
<1> QED BY <1>1, <1>2, <1>3, <1>4 DEF Ends, Path

\* The two ways to name the slot and the name at a place.
LEMMA SeenSame ==
  /\ \A p : SlotAt(p) = SlotOf(data, p)
  /\ \A p : NameAt(p) = NameOf(data, p)
BY DEF SlotAt, SlotOf, NameAt, NameOf

\* The conjuncts of VolumeHolds that are used most.
LEMMA VolumeFacts ==
  ASSUME NEW D, NEW V, NEW chain, VolumeHolds(D, V, chain)
  PROVE  /\ D \subseteq Cluster /\ V = EntriesIn(data, chain, D) /\ V \subseteq Place
         /\ D \subseteq Heads(V) /\ root_dir_first_cluster \in D /\ Roots \subseteq D
         /\ \A p \in V : SlotOf(data, p).first \in Heads(V)
         /\ \A p \in V : ~Leads(data, Hidden, p) => SlotOf(data, p).first \notin D
<1>1. Tree(data, Hidden, chain, Roots, D, V)
  BY DEF VolumeHolds
<1>2. D \subseteq Cluster /\ V = EntriesIn(data, chain, D) /\ V \subseteq Place /\ Roots \subseteq D
  BY <1>1 DEF Tree, EntriesIn
<1>3. Roots \subseteq {root_dir_first_cluster} \cup Pending /\ root_dir_first_cluster \in Roots
  BY DEF Roots, Pending, Doing
<1>4. \A c \in D : c \in Roots \/ \E p \in V : Leads(data, Hidden, p) /\ SlotOf(data, p).first = c
  BY <1>1, LedTo
<1>5. D \subseteq Heads(V)
  BY <1>3, <1>4 DEF Heads
<1>6. ASSUME NEW p \in V, ~Leads(data, Hidden, p)
      PROVE  SlotOf(data, p).first \notin D
  <2>1. Owned(data, V, {root_dir_first_cluster} \cup Pending)
    BY DEF VolumeHolds
  <2>2. SlotOf(data, p).first \notin Roots
    BY <1>3, <2>1 DEF Owned
  <2>3. \A q \in V : Leads(data, Hidden, q) => SlotOf(data, q).first # SlotOf(data, p).first
    BY <1>6, <2>1 DEF Owned
  <2> QED BY <1>4, <2>2, <2>3
<1>7. \A p \in V : SlotOf(data, p).first \in Heads(V)
  BY DEF Heads
<1> QED BY <1>2, <1>3, <1>5, <1>6, <1>7

\* The directories reached from c, and the entries in them.
Below(D, V, chain, c, E) ==
  /\ E \subseteq D /\ EntriesFrom(c, Listed) \subseteq V
  /\ EntriesFrom(c, Listed) = EntriesIn(data, chain, E)
  /\ Tree(data, Hidden, chain, {c}, E, EntriesFrom(c, Listed))
  /\ Closed(data, Hidden, chain, E, V)
  /\ \A T \in SUBSET D : c \in T /\ Closed(data, Hidden, chain, T, V) => E \subseteq T
  /\ EntriesFrom(c, Used) = EntriesFrom(c, Listed)
  /\ Roots = {c} => E = D /\ EntriesFrom(c, Listed) = V

\* What is read from a directory on is a set of entries closed below it.
LEMMA FromIs ==
  ASSUME NEW D, NEW V, NEW chain, VolumeHolds(D, V, chain), NEW c \in D
  PROVE  \E E : Below(D, V, chain, c, E)
<1>1. /\ Tree(data, Hidden, chain, Roots, D, V) /\ Chains(fat, Heads(V), chain) /\ Blocks(data, chain, D)
  BY DEF VolumeHolds
<1>2. D \subseteq Heads(V) /\ V = EntriesIn(data, chain, D)
  BY VolumeFacts
<1>3. \A e \in D : ChainOf(e) = chain[e] /\ ToSet(chain[e]) \subseteq Cluster
  BY <1>1, <1>2, HeadChains
<1>4. PICK listed : listed = Subdirectories(Listed)
  OBVIOUS
<1>5. PICK used : used = Subdirectories(Used)
  OBVIOUS
<1>6. /\ listed \in [Cluster -> SUBSET Cluster] /\ used \in [Cluster -> SUBSET Cluster]
      /\ \A e \in D : listed[e] = Children(data, Hidden, chain, V, e)
      /\ \A e \in D : used[e] = Children(data, Hidden, chain, V, e)
  BY <1>1, <1>3, <1>4, <1>5, SubdirectoriesIs
<1> DEFINE E == Reached({c}, listed)
           F == Reached({c}, used)
           W == EntriesIn(data, chain, E)
<1>70. {c} \in SUBSET D
  OBVIOUS
<1>71. /\ Branch(data, Hidden, chain, Roots, D, V, {c}, E)
       /\ Branch(data, Hidden, chain, Roots, D, V, {c}, F)
  BY <1>1, <1>6, <1>70, ReachedTree
<1>7. /\ E \subseteq D /\ W \subseteq V /\ Closed(data, Hidden, chain, E, V) /\ Tree(data, Hidden, chain, {c}, E, W)
      /\ {c} = Roots => E = D /\ W = V
      /\ \A T \in SUBSET D : {c} \subseteq T /\ Closed(data, Hidden, chain, T, V) => E \subseteq T
  BY <1>71 DEF Branch
<1>8. /\ F \subseteq D /\ Closed(data, Hidden, chain, F, V) /\ c \in F
      /\ \A T \in SUBSET D : {c} \subseteq T /\ Closed(data, Hidden, chain, T, V) => F \subseteq T
  BY <1>71 DEF Branch
<1>9. c \in E
  BY <1>7 DEF Tree
<1> HIDE DEF E, F
<1>10. E = F
  <2>1. E \subseteq F
    BY <1>7, <1>8
  <2>2. F \subseteq E
    BY <1>7, <1>8, <1>9
  <2> QED BY <2>1, <2>2
<1>11. \A e \in D : /\ PlacesIn(e, Listed) = {p \in V : p.cluster \in ToSet(chain[e])}
                    /\ PlacesIn(e, Used) = PlacesIn(e, Listed)
  BY <1>1, <1>2, <1>3, PlacesInIs
<1>12. UNION {PlacesIn(e, Listed) : e \in E} = W
  <2>1. \A e \in E : PlacesIn(e, Listed) \subseteq W
    BY <1>2, <1>7, <1>11 DEF EntriesIn
  <2>2. ASSUME NEW p \in W
        PROVE  \E e \in E : p \in PlacesIn(e, Listed)
    <3>1. PICK e \in E : p.cluster \in ToSet(chain[e])
      BY DEF EntriesIn
    <3>2. p \in V
      BY <1>7
    <3>3. e \in D
      BY <1>7
    <3>4. p \in PlacesIn(e, Listed)
      BY <1>11, <3>1, <3>2, <3>3
    <3> QED BY <3>4
  <2> HIDE DEF W
  <2> QED BY <2>1, <2>2
<1>13. UNION {PlacesIn(e, Used) : e \in F} = UNION {PlacesIn(e, Listed) : e \in E}
  BY <1>7, <1>10, <1>11
<1>14. EntriesFrom(c, Listed) = W
  BY <1>4, <1>12 DEF EntriesFrom, E
<1>15. EntriesFrom(c, Used) = W
  BY <1>5, <1>12, <1>13 DEF EntriesFrom, F
<1> HIDE DEF W
<1>16. W = EntriesIn(data, chain, E)
  BY DEF W
<1>17. Below(D, V, chain, c, E)
  BY <1>7, <1>14, <1>15, <1>16 DEF Below
<1> QED BY <1>17


\* What the driver reads from the root on is the entries of the volume.
LEMMA EntriesAre ==
  ASSUME NEW D, NEW V, NEW chain, VolumeHolds(D, V, chain)
  PROVE  /\ Entries \subseteq V /\ PlacesBelow(Used) = Entries
         /\ Roots = {root_dir_first_cluster} => Entries = V
         /\ \E E : Below(D, V, chain, root_dir_first_cluster, E)
<1>1. PICK E : Below(D, V, chain, root_dir_first_cluster, E)
  <2>1. root_dir_first_cluster \in D
    BY VolumeFacts
  <2> QED BY <2>1, FromIs
<1>2. EntriesFrom(root_dir_first_cluster, Listed) = Entries
  BY DEF Entries, PlacesBelow
<1>3. EntriesFrom(root_dir_first_cluster, Used) = PlacesBelow(Used)
  BY DEF PlacesBelow
<1> QED BY <1>1, <1>2, <1>3 DEF Below

-----------------------------------------------------------------------------
(* Where an entry goes *)

\* Before the first empty place of a cluster there is no end slot.
LEMMA FirstEmptyIs ==
  ASSUME NEW T, NEW layout \in Seq(T), EmptyPlaces(layout) # {}
  PROVE  /\ FirstEmpty(layout) \in Place /\ FirstEmpty(layout).cluster \in ToSet(layout)
         /\ EmptyAt(data, FirstEmpty(layout))
<1> DEFINE at(c) == CHOOSE i \in DOMAIN layout : layout[i] = c
           Empty == EmptyPlaces(layout)
<1>1. DOMAIN layout = 1 .. Len(layout) /\ Len(layout) \in Nat
  OBVIOUS
<1>2. \A c \in ToSet(layout) : at(c) \in DOMAIN layout /\ layout[at(c)] = c
  BY DEF ToSet
<1> HIDE DEF at
<1>3. \A p \in Empty : /\ p \in Place /\ p.cluster \in ToSet(layout) /\ p.index \in SlotIndex
                       /\ p.index < SlotsPerCluster - 1 /\ (IsDeleted(SlotAt(p)) \/ IsEnd(SlotAt(p)))
  BY PlaceFacts DEF EmptyPlaces
<1>4. \A p \in Place : (p.cluster \in ToSet(layout) /\ p.index < SlotsPerCluster - 1
                         /\ (IsDeleted(SlotAt(p)) \/ IsEnd(SlotAt(p)))) => p \in Empty
  BY DEF EmptyPlaces
<1>5. \A p, q : Comes(layout, p, q) <=>
        \/ at(p.cluster) < at(q.cluster)
        \/ p.cluster = q.cluster /\ p.index <= q.index
  BY DEF Comes, at
<1> HIDE DEF Empty
<1>6. \A p \in Empty : at(p.cluster) \in Nat /\ p.index \in Nat
  <2> TAKE p \in Empty
  <2>1. p.cluster \in ToSet(layout) /\ p.index \in SlotIndex
    BY <1>3
  <2>2. at(p.cluster) \in 1 .. Len(layout)
    BY <1>1, <1>2, <2>1
  <2>3. at(p.cluster) \in Nat
    BY <1>1, <2>2
  <2> QED BY <2>1, <2>3, SlotNumbers
<1>7. PICK k \in {at(p.cluster) : p \in Empty} : \A l \in {at(p.cluster) : p \in Empty} : k <= l
  <2>1. {at(p.cluster) : p \in Empty} # {} /\ {at(p.cluster) : p \in Empty} \in SUBSET Nat
    BY <1>6 DEF Empty
  <2> QED BY <2>1, LeastElement
<1>8. PICK m \in {p.index : p \in {q \in Empty : at(q.cluster) = k}} :
         \A l \in {p.index : p \in {q \in Empty : at(q.cluster) = k}} : m <= l
  <2>1. {p.index : p \in {q \in Empty : at(q.cluster) = k}} # {}
        /\ {p.index : p \in {q \in Empty : at(q.cluster) = k}} \in SUBSET Nat
    BY <1>6, <1>7
  <2> QED BY <2>1, LeastElement
<1>9. PICK p \in Empty : at(p.cluster) = k /\ p.index = m
  BY <1>8
<1>10. \A q \in Empty : Comes(layout, p, q)
  <2> TAKE q \in Empty
  <2>1. k <= at(q.cluster) /\ at(q.cluster) \in Nat /\ k \in Nat
    BY <1>6, <1>7
  <2>2. CASE at(q.cluster) = k
    <3>1. p.cluster = q.cluster
      BY <1>2, <1>3, <1>9, <2>2
    <3>2. m <= q.index
      BY <1>8, <2>2
    <3> QED BY <1>5, <1>9, <3>1, <3>2
  <2>3. CASE at(q.cluster) # k
    BY <1>5, <1>9, <2>1, <2>3
  <2> QED BY <2>2, <2>3
<1>11. PICK e : e = FirstEmpty(layout)
  OBVIOUS
<1>12. e \in Empty /\ \A q \in Empty : Comes(layout, e, q)
  BY <1>10, <1>11 DEF FirstEmpty, Empty
<1>13. ASSUME NEW j \in 0 .. e.index - 1, IsEnd(data[e.cluster][j])
       PROVE  FALSE
  <2>1. e \in Place /\ e.cluster \in Cluster /\ e.index \in SlotIndex /\ e.index < SlotsPerCluster - 1
        /\ e.cluster \in ToSet(layout) /\ SlotsPerCluster \in Nat /\ e.index \in Nat
    BY <1>3, <1>12, PlaceFacts, SlotNumbers
  <2>2. j \in Nat /\ j < e.index /\ j \in SlotIndex /\ j < SlotsPerCluster - 1
    BY <1>13, <2>1, SlotNumbers
  <2>3. PICK q : q = [cluster |-> e.cluster, index |-> j]
    OBVIOUS
  <2>4. q \in Place /\ q.cluster = e.cluster /\ q.index = j
    BY <2>1, <2>2, <2>3 DEF Place
  <2>5. q \in Empty
    BY <1>4, <1>13, <2>1, <2>2, <2>4 DEF SlotAt
  <2>6. at(e.cluster) \in Nat
    BY <1>6, <1>12
  <2>7. Comes(layout, e, q)
    BY <1>12, <2>5
  <2>8. ~(at(e.cluster) < at(e.cluster)) /\ ~(e.index <= j)
    BY <2>1, <2>2, <2>6
  <2> QED BY <1>5, <2>4, <2>7, <2>8
<1>14. EmptyAt(data, e)
  <2>1. IsDeleted(SlotOf(data, e)) \/ IsEnd(SlotOf(data, e))
    BY <1>3, <1>12 DEF SlotAt, SlotOf
  <2> QED BY <1>13, <2>1 DEF EmptyAt
<1> QED BY <1>3, <1>11, <1>12, <1>14

\* The layout of a directory lies in its chain.
LEMMA LayoutFacts ==
  ASSUME NEW s \in Seq(Cluster), Len(s) \in Nat \ {0}, NEW m \in 1 .. Len(s)
  PROVE  /\ SubSeq(s, 1, m) \in Seq(Cluster) /\ ToSet(SubSeq(s, 1, m)) \subseteq ToSet(s)
         /\ SubSeq(s, 1, m)[1] = s[1] /\ Len(SubSeq(s, 1, m)) = m
         /\ \A i \in 1 .. m : SubSeq(s, 1, m)[i] = s[i]
<1>1. SubSeq(s, 1, m) \in Seq(Cluster) /\ Len(SubSeq(s, 1, m)) = m /\ \A i \in 1 .. m : SubSeq(s, 1, m)[i] = s[i]
  OBVIOUS
<1>2. DOMAIN s = 1 .. Len(s) /\ DOMAIN SubSeq(s, 1, m) = 1 .. m /\ 1 \in 1 .. m
  BY <1>1
<1>3. ToSet(SubSeq(s, 1, m)) \subseteq ToSet(s)
  BY <1>1, <1>2 DEF ToSet
<1> QED BY <1>1, <1>2, <1>3

-----------------------------------------------------------------------------
(* How a tree changes *)

\* An entry does not change, nor where it leads.
Agree(d, e, V) == \A p \in V : SlotOf(e, p) = SlotOf(d, p)

\* Blocks that agree on the entries show the same tree of directories.
LEMMA TreeSame ==
  ASSUME NEW d, NEW e, NEW x, NEW y, NEW chain, NEW next, NEW R, NEW D, NEW V,
         Tree(d, x, chain, R, D, V),
         EntriesIn(e, next, D) = V, Agree(d, e, V),
         \A c \in D : next[c] = chain[c],
         \A p \in V : Leads(d, y, p) <=> Leads(d, x, p)
  PROVE  Tree(e, y, next, R, D, V)
<1>1. R \subseteq D /\ D \subseteq Cluster /\ V = {p \in Place : (\E c \in D : p.cluster \in ToSet(next[c])) /\ Shown(e, p)}
  BY DEF Tree, EntriesIn
<1>2. \A p \in V : (Leads(e, y, p) <=> Leads(d, x, p)) /\ SlotOf(e, p) = SlotOf(d, p)
  BY DEF Agree, Leads
<1>3. \A p \in V : Leads(e, y, p) => SlotOf(e, p).first \in D
  BY <1>2 DEF Tree
<1>4. ASSUME NEW T \in SUBSET D, R \subseteq T, Closed(e, y, next, T, V)
      PROVE  T = D
  <2>1. Closed(d, x, chain, T, V)
    BY <1>2, <1>4 DEF Closed
  <2> QED BY <1>4, <2>1 DEF Tree
<1> QED BY <1>1, <1>3, <1>4 DEF Tree

\* An entry comes in.  It may lead to a root, which is one no longer.
LEMMA TreeEntered ==
  ASSUME NEW d, NEW e, NEW x, NEW y, NEW chain, NEW R, NEW S, NEW D, NEW V, NEW p,
         Tree(d, x, chain, R, D, V),
         EntriesIn(e, chain, D) = V \cup {p}, Agree(d, e, V),
         \A q \in V : Leads(d, y, q) <=> Leads(d, x, q),
         Leads(e, y, p) => SlotOf(e, p).first \in D,
         S \subseteq R,
         \A T \in SUBSET D : S \subseteq T /\ Closed(e, y, chain, T, V \cup {p}) => R \subseteq T
  PROVE  Tree(e, y, chain, S, D, V \cup {p})
<1>1. S \subseteq D /\ D \subseteq Cluster
      /\ V \cup {p} = {q \in Place : (\E c \in D : q.cluster \in ToSet(chain[c])) /\ Shown(e, q)}
  BY DEF Tree, EntriesIn
<1>2. \A q \in V : (Leads(e, y, q) <=> Leads(d, x, q)) /\ SlotOf(e, q) = SlotOf(d, q)
  BY DEF Agree, Leads
<1>3. \A q \in V \cup {p} : Leads(e, y, q) => SlotOf(e, q).first \in D
  BY <1>2 DEF Tree
<1>4. ASSUME NEW T \in SUBSET D, S \subseteq T, Closed(e, y, chain, T, V \cup {p})
      PROVE  T = D
  <2>1. Closed(d, x, chain, T, V)
    BY <1>2, <1>4 DEF Closed
  <2>2. R \subseteq T
    BY <1>4
  <2> QED BY <2>1, <2>2 DEF Tree
<1> QED BY <1>1, <1>3, <1>4 DEF Tree

\* An entry goes; where it led to is a root now.
LEMMA TreeLeft ==
  ASSUME NEW d, NEW e, NEW x, NEW chain, NEW R, NEW D, NEW V, NEW p \in V,
         Tree(d, x, chain, R, D, V),
         EntriesIn(e, chain, D) = V \ {p}, Agree(d, e, V \ {p}),
         NEW S, S = R \cup (IF Leads(d, x, p) THEN {SlotOf(d, p).first} ELSE {})
  PROVE  Tree(e, x, chain, S, D, V \ {p})
<1>1. S \subseteq D /\ D \subseteq Cluster
      /\ V \ {p} = {q \in Place : (\E c \in D : q.cluster \in ToSet(chain[c])) /\ Shown(e, q)}
  BY DEF Tree, EntriesIn
<1>2. \A q \in V \ {p} : (Leads(e, x, q) <=> Leads(d, x, q)) /\ SlotOf(e, q) = SlotOf(d, q)
  BY DEF Agree, Leads
<1>3. \A q \in V \ {p} : Leads(e, x, q) => SlotOf(e, q).first \in D
  BY <1>2 DEF Tree
<1>4. ASSUME NEW T \in SUBSET D, S \subseteq T, Closed(e, x, chain, T, V \ {p})
      PROVE  T = D
  <2>1. Closed(d, x, chain, T, V)
    <3> SUFFICES ASSUME NEW q \in V, NEW c \in T, q.cluster \in ToSet(chain[c]), Leads(d, x, q)
                 PROVE  SlotOf(d, q).first \in T
      BY DEF Closed
    <3>1. CASE q = p
      BY <1>4, <3>1
    <3>2. CASE q # p
      BY <1>2, <1>4, <3>2 DEF Closed
    <3> QED BY <3>1, <3>2
  <2>2. R \subseteq T
    BY <1>4
  <2> QED BY <2>1, <2>2 DEF Tree
<1> QED BY <1>1, <1>3, <1>4 DEF Tree

\* The only entry of an empty directory goes, and the directory with it.
LEMMA TreePruned ==
  ASSUME NEW d, NEW e, NEW x, NEW chain, NEW R, NEW D, NEW V, NEW p \in V, NEW f \in D \ R,
         Tree(d, x, chain, R, D, V),
         f = SlotOf(d, p).first, \A q \in V : SlotOf(d, q).first = f => q = p,
         \A q \in V : q.cluster \notin ToSet(chain[f]),
         EntriesIn(e, chain, D) = V \ {p}, Agree(d, e, V \ {p})
  PROVE  Tree(e, x, chain, R, D \ {f}, V \ {p})
<1> DEFINE E == D \ {f}
<1>1. R \subseteq E /\ E \subseteq Cluster
  BY DEF Tree
<1>2. V \ {p} = {q \in Place : (\E c \in E : q.cluster \in ToSet(chain[c])) /\ Shown(e, q)}
  BY DEF EntriesIn
<1>3. \A q \in V \ {p} : (Leads(e, x, q) <=> Leads(d, x, q)) /\ SlotOf(e, q) = SlotOf(d, q)
  BY DEF Agree, Leads
<1>4. \A q \in V \ {p} : Leads(e, x, q) => SlotOf(e, q).first \in E
  BY <1>3 DEF Tree
<1>5. ASSUME NEW T \in SUBSET E, R \subseteq T, Closed(e, x, chain, T, V \ {p})
      PROVE  T = E
  <2>1. Closed(d, x, chain, T \cup {f}, V)
    <3> SUFFICES ASSUME NEW q \in V, NEW c \in T \cup {f}, q.cluster \in ToSet(chain[c]), Leads(d, x, q)
                 PROVE  SlotOf(d, q).first \in T \cup {f}
      BY DEF Closed
    <3>1. c \in T
      OBVIOUS
    <3>2. CASE q = p
      BY <3>2
    <3>3. CASE q # p
      BY <1>3, <1>5, <3>1, <3>3 DEF Closed
    <3> QED BY <3>2, <3>3
  <2>2. T \cup {f} \in SUBSET D /\ R \subseteq T \cup {f}
    BY <1>5
  <2>3. T \cup {f} = D
    BY <2>1, <2>2 DEF Tree
  <2> QED BY <2>3
<1> QED BY <1>1, <1>2, <1>4, <1>5 DEF Tree

\* An empty directory that was hidden joins the tree.
LEMMA TreeJoined ==
  ASSUME NEW d, NEW e, NEW x, NEW chain, NEW R, NEW D, NEW V, NEW p \in V, NEW f \in Cluster,
         Tree(d, f, chain, R, D, V), x \notin Cluster,
         f = SlotOf(d, p).first, IsDirectory(SlotOf(d, p)),
         EntriesIn(e, chain, D \cup {f}) = V, Agree(d, e, V)
  PROVE  Tree(e, x, chain, R, D \cup {f}, V)
<1> DEFINE E == D \cup {f}
<1>1. R \subseteq E /\ E \subseteq Cluster
  BY DEF Tree
<1>2. V = {q \in Place : (\E c \in E : q.cluster \in ToSet(chain[c])) /\ Shown(e, q)}
  BY DEF EntriesIn
<1>3. \A q \in V : /\ SlotOf(e, q) = SlotOf(d, q)
                   /\ Leads(d, f, q) => Leads(e, x, q) /\ SlotOf(d, q).first \in D
                   /\ Leads(e, x, q) => Leads(d, f, q) \/ SlotOf(d, q).first = f
  <2> TAKE q \in V
  <2>1. SlotOf(e, q) = SlotOf(d, q)
    BY DEF Agree
  <2>2. Leads(d, f, q) => SlotOf(d, q).first \in D /\ D \subseteq Cluster
    BY DEF Tree
  <2> QED BY <2>1, <2>2 DEF Leads
<1>4. \A q \in V : Leads(e, x, q) => SlotOf(e, q).first \in E
  BY <1>3
<1>5. ASSUME NEW T \in SUBSET E, R \subseteq T, Closed(e, x, chain, T, V)
      PROVE  T = E
  <2>1. Closed(d, f, chain, T \cap D, V)
    BY <1>3, <1>5 DEF Closed
  <2>2. T \cap D \in SUBSET D /\ R \subseteq T \cap D
    BY <1>5 DEF Tree
  <2>3. T \cap D = D
    BY <2>1, <2>2 DEF Tree
  <2>4. PICK c \in D : p.cluster \in ToSet(chain[c])
    BY DEF Tree
  <2>5. Leads(e, x, p) /\ SlotOf(e, p).first = f
    BY <1>3 DEF Leads
  <2>6. f \in T
    BY <1>5, <2>3, <2>4, <2>5 DEF Closed
  <2> QED BY <2>3, <2>6
<1> QED BY <1>1, <1>2, <1>4, <1>5 DEF Tree

-----------------------------------------------------------------------------
(* The steps that write nothing *)

\* The invariant after a step, from its parts.
LEMMA Whole ==
  ASSUME NEW D, NEW V, NEW chain,
         TypesHold', VolumeHolds(D, V, chain)', Accounted(V, chain)',
         CallHolds(D, V, chain)', NodesHold(V, chain)', ContentsHold(V, chain)'
  PROVE  FatInv'
BY DEF FatInv, Holds

\* No call holds anything between two calls.
LEMMA Resting ==
  /\ call \in {Idle, Unmounted} =>
       Hidden = 0 /\ Roots = {root_dir_first_cluster} /\ Pending = {} /\ PendingName = {}
  /\ call' \in {Idle, Unmounted} =>
       Hidden' = 0 /\ Roots' = {root_dir_first_cluster} /\ Pending' = {} /\ PendingName' = {}
BY DEF Hidden, Roots, Pending, PendingName, Doing, Idle, Unmounted

\* What the call holds gives way to nothing, and the disk stays as it is.
LEMMA VolumeStays ==
  ASSUME NEW D, NEW V, NEW chain, TypesHold, VolumeHolds(D, V, chain), ContentsHold(V, chain),
         fat' = fat, data' = data, contents' = contents,
         Hidden' = Hidden, Roots' = Roots, Pending' \subseteq Pending, PendingName' \subseteq PendingName
  PROVE  TypesHold' /\ VolumeHolds(D, V, chain)' /\ ContentsHold(V, chain)'
<1>1. TypesHold'
  BY DEF TypesHold
<1>2. /\ Tree(data, Hidden, chain, Roots, D, V) /\ Chains(fat, Heads(V), chain) /\ Blocks(data, chain, D)
      /\ Owned(data, V, {root_dir_first_cluster} \cup Pending) /\ root_dir_first_cluster \notin Pending
      /\ Named(data, V, PendingName)
  BY DEF VolumeHolds
<1>3. Heads(V)' \subseteq Heads(V)
  BY DEF Heads
<1>4. Chains(fat', Heads(V)', chain)
  BY <1>2, <1>3 DEF Chains
<1>5. Owned(data', V, {root_dir_first_cluster} \cup Pending') /\ root_dir_first_cluster \notin Pending'
      /\ Named(data', V, PendingName')
  BY <1>2 DEF Owned, Named
<1>6. VolumeHolds(D, V, chain)'
  BY <1>2, <1>4, <1>5 DEF VolumeHolds
<1>7. ContentsHold(V, chain)'
  BY DEF ContentsHold, Content, SlotAt, NameAt
<1> QED BY <1>1, <1>6, <1>7

\* A mount that cannot read some directories lists no more than one that can.
LEMMA LessIsRead ==
  ASSUME NEW lost
  PROVE  UNION {PlacesIn(c, Listed) : c \in Directories(lost)} \subseteq Entries
<1> DEFINE L == Subdirectories(Listed)
           X == Reached({root_dir_first_cluster}, L)
           left == [c \in Cluster |-> L[c] \ lost]
<1>1. L \in [Cluster -> SUBSET Cluster] /\ {root_dir_first_cluster} \in SUBSET Cluster
  BY ClusterFacts DEF Subdirectories
<1> HIDE DEF L
<1>2. {root_dir_first_cluster} \subseteq X /\ X \subseteq Cluster /\ \A c \in X : L[c] \subseteq X
  BY <1>1, ReachedCloses
<1> HIDE DEF X
<1>3. \A c \in X : left[c] \subseteq X
  BY <1>2
<1>4. {root_dir_first_cluster} \ lost \subseteq X
  BY <1>2
<1> HIDE DEF left
<1>5. Reached({root_dir_first_cluster} \ lost, left) \subseteq X
  BY <1>3, <1>4, ReachedWithin
<1>6. Directories(lost) \subseteq X
  BY <1>5 DEF Directories, left, L
<1>7. Entries = UNION {PlacesIn(c, Listed) : c \in X}
  BY DEF Entries, PlacesBelow, EntriesFrom, X, L
<1> QED BY <1>6, <1>7

\* A node that a mount makes stands for an entry.
LEMMA MountedNode ==
  ASSUME NEW D, NEW V, NEW chain, VolumeHolds(D, V, chain), NEW places \in SUBSET V, NEW lost,
         NEW n \in {NameAt(p) : p \in places}
  PROVE  LET v == TreeOf(places, lost)[n]
         IN v.place \in V /\ NameAt(v.place) = n /\ NodeFits(v, SlotAt(v.place), chain)
<1>1. PICK p : p = CHOOSE q \in places : NameAt(q) = n
  OBVIOUS
<1>2. p \in V /\ NameAt(p) = n
  BY <1>1
<1> DEFINE u == NodeAt(p)
           s == chain[SlotAt(p).first]
<1>3. PICK v : v = IF SlotAt(p).first \in lost THEN [u EXCEPT !.children = 0] ELSE u
  OBVIOUS
<1>4. TreeOf(places, lost)[n] = v
  BY <1>1, <1>3 DEF TreeOf
<1>5. SlotAt(p).first \in Heads(V) /\ Chains(fat, Heads(V), chain)
  BY <1>2, VolumeFacts, SeenSame DEF VolumeHolds
<1>6. s \in Seq(Cluster) /\ Len(s) \in Nat \ {0} /\ s[1] = SlotAt(p).first
  BY <1>5, HeadChains
<1>7. /\ u.place = p /\ u.layout = <<SlotAt(p).first>> /\ u.layout_loaded = FALSE
      /\ u.attributes = fat_to_vfs_attributes(SlotAt(p).attributes) /\ IsNode(u)
  BY DEF NodeAt, IsNode
<1> HIDE DEF s, u
<1>8. /\ v.place = p /\ v.layout = <<SlotAt(p).first>> /\ v.layout_loaded = FALSE
      /\ v.attributes = fat_to_vfs_attributes(SlotAt(p).attributes) /\ IsNode(v)
  BY <1>3, <1>7 DEF IsNode
<1>9. v.layout = SubSeq(s, 1, 1) /\ 1 \in 1 .. Len(s)
  <2>1. SubSeq(s, 1, 1) = <<s[1]>> /\ 1 \in 1 .. Len(s)
    BY <1>6, OneOfChain
  <2> QED BY <1>6, <1>8, <2>1
<1>10. NodeFits(v, SlotAt(p), chain)
  BY <1>8, <1>9 DEF NodeFits, s
<1> QED BY <1>2, <1>4, <1>8, <1>10

\* fat_fs_mount makes a node for each entry it reads.
LEMMA MountKeeps ==
  ASSUME FatInv, Mount \/ MountMisreads
  PROVE  FatInv'
<1>1. /\ call = Unmounted /\ Sound /\ call' = Idle
      /\ fat' = fat /\ data' = data /\ contents' = contents
  BY DEF Mount, MountMisreads, Return, Sound, disk
<1>2. PICK D, V, chain : Holds(D, V, chain)
  BY <1>1 DEF FatInv
<1>3. TypesHold /\ VolumeHolds(D, V, chain) /\ Accounted(V, chain) /\ ContentsHold(V, chain)
  BY <1>2 DEF Holds
<1>4. /\ Hidden' = Hidden /\ Roots' = Roots /\ Pending' = Pending /\ PendingName' = PendingName
      /\ Roots = {root_dir_first_cluster}
  BY <1>1, Resting
<1>5. Entries = V
  BY <1>3, <1>4, EntriesAre
<1>6. PICK places \in SUBSET V :
        /\ \E lost : nodes' = TreeOf(places, lost)
        /\ ~faulted' => ~faulted /\ places = V
  <2>1. CASE Mount
    BY <1>5, <2>1 DEF Mount
  <2>2. CASE MountMisreads
    <3>1. PICK lost : nodes' = TreeOf(UNION {PlacesIn(c, Listed) : c \in Directories(lost)}, lost)
      BY <2>2 DEF MountMisreads
    <3>2. UNION {PlacesIn(c, Listed) : c \in Directories(lost)} \subseteq V
      BY <1>5, LessIsRead
    <3> QED BY <2>2, <3>1, <3>2 DEF MountMisreads
  <2> QED BY <2>1, <2>2
<1>7. PICK lost : nodes' = TreeOf(places, lost)
  BY <1>6
<1>8. TypesHold' /\ VolumeHolds(D, V, chain)' /\ ContentsHold(V, chain)'
  BY <1>1, <1>3, <1>4, VolumeStays
<1>9. Accounted(V, chain)'
  <2>1. Heads(V)' = Heads(V)
    BY <1>1, <1>4 DEF Heads
  <2> QED BY <1>1, <1>3, <1>6, <2>1 DEF Accounted
<1>10. CallHolds(D, V, chain)'
  BY <1>1 DEF CallHolds, Doing, Idle
<1>11. \A p : SlotAt(p)' = SlotAt(p) /\ NameAt(p)' = NameAt(p)
  BY <1>1 DEF SlotAt, NameAt
<1>12. DOMAIN nodes' = {NameAt(p) : p \in places}
  BY <1>7 DEF TreeOf
<1>13. ASSUME NEW n \in DOMAIN nodes'
       PROVE  /\ nodes'[n].place \in V /\ NameAt(nodes'[n].place) = n
              /\ NodeFits(nodes'[n], SlotAt(nodes'[n].place), chain)
  BY <1>3, <1>7, <1>12, MountedNode
<1>14. NodesHold(V, chain)'
  BY <1>6, <1>11, <1>12, <1>13 DEF NodesHold
<1> QED BY <1>8, <1>9, <1>10, <1>14, Whole

\* Opening a node completes its layout to the whole chain.
LEMMA OpenedFits ==
  ASSUME NEW D, NEW V, NEW chain, VolumeHolds(D, V, chain), NodesHold(V, chain),
         NEW n \in DOMAIN nodes, ~Moved(n)
  PROVE  /\ DOMAIN Opened(n) = DOMAIN nodes /\ Opened(n)[n].layout_loaded
         /\ \A k \in DOMAIN nodes : k # n => Opened(n)[k] = nodes[k]
         /\ Opened(n)[n].place = nodes[n].place /\ Opened(n)[n].attributes = nodes[n].attributes
         /\ NodeFits(Opened(n)[n], SlotAt(nodes[n].place), chain)
<1>1. nodes[n].place \in V /\ NodeFits(nodes[n], SlotAt(nodes[n].place), chain)
  BY DEF NodesHold
<1>2. CASE nodes[n].layout_loaded
  BY <1>1, <1>2 DEF Opened
<1>3. CASE ~nodes[n].layout_loaded
  <2> DEFINE slot == SlotAt(nodes[n].place)
             s == chain[slot.first]
  <2>1. slot.first \in Heads(V) /\ Chains(fat, Heads(V), chain)
    BY <1>1, VolumeFacts, SeenSame DEF VolumeHolds
  <2>0. Path(fat, s)
    BY <2>1 DEF Chains
  <2>2. Path(fat, s) /\ s \in Seq(Cluster) /\ Len(s) \in Nat \ {0}
    BY <2>0, <2>1, HeadChains
  <2>3. /\ IsNode(nodes[n]) /\ nodes[n].attributes = fat_to_vfs_attributes(slot.attributes)
        /\ \E m \in 1 .. Len(s) : nodes[n].layout = SubSeq(s, 1, m)
    BY <1>1 DEF NodeFits
  <2> HIDE DEF s, slot
  <2>4. Loaded(nodes[n].layout) = s
    BY <2>2, <2>3, LoadedIs
  <2>5. PICK v : v = [nodes[n] EXCEPT !.layout_loaded = TRUE, !.layout = s]
    OBVIOUS
  <2>6. Opened(n) = [nodes EXCEPT ![n] = v]
    BY <1>3, <2>3, <2>4, <2>5 DEF Opened, IsNode
  <2>7. /\ v.place = nodes[n].place /\ v.attributes = nodes[n].attributes /\ v.layout_loaded = TRUE
        /\ v.layout = s /\ IsNode(v)
    BY <2>3, <2>5 DEF IsNode
  <2>8. SubSeq(s, 1, Len(s)) = s /\ Len(s) \in 1 .. Len(s)
    BY <2>2
  <2>9. NodeFits(v, slot, chain)
    BY <2>3, <2>7, <2>8 DEF NodeFits, s
  <2>10. DOMAIN Opened(n) = DOMAIN nodes /\ Opened(n)[n] = v
         /\ \A k \in DOMAIN nodes : k # n => Opened(n)[k] = nodes[k]
    BY <2>6
  <2> QED BY <2>7, <2>9, <2>10 DEF slot
<1> QED BY <1>2, <1>3

\* fat_fs_open loads the chain of the entry.
LEMMA OpenKeeps ==
  ASSUME FatInv, NEW n, Open(n)
  PROVE  FatInv'
<1>1. /\ call = Idle /\ Sound /\ n \in DOMAIN nodes /\ nodes' = Opened(n) /\ call' = call
      /\ fat' = fat /\ data' = data /\ contents' = contents /\ faulted' = faulted
  BY DEF Open, Ready, Sound, disk
<1>2. PICK D, V, chain : Holds(D, V, chain)
  BY <1>1 DEF FatInv
<1>3. TypesHold /\ VolumeHolds(D, V, chain) /\ Accounted(V, chain) /\ ContentsHold(V, chain) /\ NodesHold(V, chain)
  BY <1>2 DEF Holds
<1>4. Hidden' = Hidden /\ Roots' = Roots /\ Pending' = Pending /\ PendingName' = PendingName
  BY <1>1, Resting
<1>5. TypesHold' /\ VolumeHolds(D, V, chain)' /\ ContentsHold(V, chain)'
  BY <1>1, <1>3, <1>4, VolumeStays
<1>6. Accounted(V, chain)'
  <2>1. Heads(V)' = Heads(V)
    BY <1>1, <1>4 DEF Heads
  <2> QED BY <1>1, <1>3, <2>1 DEF Accounted
<1>7. CallHolds(D, V, chain)'
  BY <1>1 DEF CallHolds, Doing, Idle
<1>8. \A p : SlotAt(p)' = SlotAt(p) /\ NameAt(p)' = NameAt(p)
  BY <1>1 DEF SlotAt, NameAt
<1>9. \A k : ~Moved(k) /\ ~Moved(k)'
  BY <1>1 DEF Moved, Doing, Idle
<1>10. NodesHold(V, chain)'
  <2>1. /\ DOMAIN nodes' = DOMAIN nodes
        /\ \A k \in DOMAIN nodes : k # n => nodes'[k] = nodes[k]
        /\ nodes'[n].place = nodes[n].place /\ NodeFits(nodes'[n], SlotAt(nodes[n].place), chain)
    BY <1>1, <1>3, <1>9, OpenedFits
  <2>2. ASSUME NEW k \in DOMAIN nodes'
        PROVE  /\ nodes'[k].place \in V /\ NameAt(nodes'[k].place) = k
               /\ NodeFits(nodes'[k], SlotAt(nodes'[k].place), chain)
    <3>1. /\ nodes[k].place \in V /\ NameAt(nodes[k].place) = k
          /\ NodeFits(nodes[k], SlotAt(nodes[k].place), chain)
      BY <1>3, <1>9, <2>1 DEF NodesHold
    <3> QED BY <2>1, <3>1
  <2>3. ~faulted' => \A p \in V : NameAt(p) \in DOMAIN nodes'
    BY <1>1, <1>3, <2>1 DEF NodesHold, Doing, Idle
  <2> QED BY <1>8, <2>2, <2>3 DEF NodesHold
<1> QED BY <1>5, <1>6, <1>7, <1>10, Whole

-----------------------------------------------------------------------------
(* A call that ends half way *)

\* The attributes of a node survive their way through a slot.
LEMMA AttributesKept ==
  /\ \A a : "DIRECTORY" \in fat_to_vfs_attributes(a) <=> "DIRECTORY" \in a
  /\ \A n : /\ "DIRECTORY" \in vfs_to_fat_attributes(Attributes(n)) <=> "DIRECTORY" \in Attributes(n)
            /\ fat_to_vfs_attributes(vfs_to_fat_attributes(Attributes(n))) = Attributes(n)
<1>1. \A a : "DIRECTORY" \in fat_to_vfs_attributes(a) <=> "DIRECTORY" \in a
  BY DEF fat_to_vfs_attributes
<1>2. ASSUME NEW n
      PROVE  /\ "DIRECTORY" \in vfs_to_fat_attributes(Attributes(n)) <=> "DIRECTORY" \in Attributes(n)
             /\ fat_to_vfs_attributes(vfs_to_fat_attributes(Attributes(n))) = Attributes(n)
  <2>1. CASE n \in FolderName
    <3>1. vfs_to_fat_attributes(Attributes(n)) = {"DIRECTORY"}
      BY <2>1 DEF Attributes, vfs_to_fat_attributes
    <3>2. fat_to_vfs_attributes({"DIRECTORY"}) = {"READ", "WRITE", "DIRECTORY"}
      BY DEF fat_to_vfs_attributes
    <3> QED BY <2>1, <3>1, <3>2 DEF Attributes
  <2>2. CASE n \notin FolderName
    <3>1. vfs_to_fat_attributes(Attributes(n)) = {"HIDDEN", "READ_ONLY"}
      BY <2>2 DEF Attributes, vfs_to_fat_attributes
    <3>2. fat_to_vfs_attributes({"HIDDEN", "READ_ONLY"}) = {"READ", "HIDDEN", "FILE"}
      BY DEF fat_to_vfs_attributes
    <3> QED BY <2>2, <3>1, <3>2 DEF Attributes
  <2> QED BY <2>1, <2>2
<1> QED BY <1>1, <1>2

\* Within the first sector of the FAT a slot tells a cluster's number as it is.
LEMMA SlotClusterIs ==
  ASSUME NEW c \in Cluster, c < SectorEntries
  PROVE  SlotCluster(c, 4096) = c
<1>1. c \in Nat /\ c < 65536
  BY ClusterFacts, FatAssumption
<1>2. c % 65536 = c /\ c \div 65536 = 0
  BY <1>1
<1>3. 0 % 4096 = 0
  OBVIOUS
<1> QED BY <1>1, <1>2, <1>3 DEF SlotCluster

\* The slot of a new file is used, and read back as what was created.
LEMMA NewSlotIs ==
  ASSUME Creation
  PROVE  /\ IsSlot(NewSlot) /\ NewSlot.name[1] \notin {"00", "E5", "."}
         /\ RetrievedName(NewSlot.name) = call.name /\ NewSlot.first = call.first
         /\ IsDirectory(NewSlot) <=> IsDirectory(call)
         /\ fat_to_vfs_attributes(NewSlot.attributes) = call.attributes
<1>1. call.name \in Name /\ call.attributes = Attributes(call.name)
  BY DEF Creation
<1>2. /\ IsSlot(NewSlot) /\ NewSlot.name[1] \notin {"00", "E5", "."} /\ RetrievedName(NewSlot.name) = call.name
  BY <1>1, SlotOfName DEF NewSlot
<1>3. NewSlot.first = call.first /\ NewSlot.attributes = vfs_to_fat_attributes(call.attributes)
  <2>1. SlotCluster(call.first, 4096) = call.first
    BY SlotClusterIs DEF Creation
  <2> QED BY <2>1, SlotIs DEF NewSlot
<1> QED BY <1>1, <1>2, <1>3, AttributesKept DEF IsDirectory

\* A block that lists nothing adds nothing to a volume.
LEMMA VolumeWithEmpty ==
  ASSUME NEW d, NEW chain, NEW D, NEW f, chain[f] = <<f>>,
         \A i \in SlotIndex : ~InBlock(d[f], i)
  PROVE  EntriesIn(d, chain, D \cup {f}) = EntriesIn(d, chain, D)
<1>1. ToSet(chain[f]) = {f}
  BY DEF ToSet
<1>2. \A p \in Place : p.cluster = f => ~Shown(d, p)
  BY PlaceFacts, ShownIs
<1> QED BY <1>1, <1>2 DEF EntriesIn

\* What is left on the disk, and is reached from its root, is a volume.
Settled(E, W, V, chain) ==
  /\ TypesHold' /\ VolumeHolds(E, W, chain)' /\ ContentsHold(W, chain)'
  /\ W = Entries /\ W \subseteq V

\* Outside its torn stages, a call that is given up leaves a whole volume.
LEMMA Settles ==
  ASSUME NEW D, NEW V, NEW chain, Holds(D, V, chain), ~Torn,
         call' \in {Idle, Unmounted}, fat' = fat, data' = data, contents' = contents
  PROVE  \E E, W : Settled(E, W, V, chain)
<1>1. /\ TypesHold /\ VolumeHolds(D, V, chain) /\ ContentsHold(V, chain) /\ CallHolds(D, V, chain)
  BY DEF Holds
<1>2. /\ Hidden' = 0 /\ Roots' = {root_dir_first_cluster} /\ Pending' = {} /\ PendingName' = {}
  BY Resting
<1>3. /\ Tree(data, Hidden, chain, Roots, D, V) /\ Chains(fat, Heads(V), chain) /\ Blocks(data, chain, D)
      /\ Owned(data, V, {root_dir_first_cluster} \cup Pending) /\ root_dir_first_cluster \notin Pending
      /\ Named(data, V, PendingName)
  BY <1>1 DEF VolumeHolds
<1>4. \A p : SlotAt(p)' = SlotAt(p) /\ NameAt(p)' = NameAt(p)
  BY DEF SlotAt, NameAt
<1>5. ASSUME NEW E, NEW W, Tree(data, 0, chain, {root_dir_first_cluster}, E, W), Blocks(data, chain, E),
             W \subseteq V, W = Entries
      PROVE  Settled(E, W, V, chain)
  <2>1. Heads(W)' \subseteq Heads(V)
    BY <1>2, <1>5 DEF Heads
  <2>2. Chains(fat', Heads(W)', chain)
    BY <1>3, <2>1 DEF Chains
  <2>3. Owned(data', W, {root_dir_first_cluster} \cup Pending') /\ root_dir_first_cluster \notin Pending'
        /\ Named(data', W, PendingName')
    BY <1>2, <1>3, <1>5 DEF Owned, Named
  <2>4. VolumeHolds(E, W, chain)'
    BY <1>2, <1>5, <2>2, <2>3 DEF VolumeHolds
  <2>5. ContentsHold(W, chain)'
    BY <1>1, <1>4, <1>5 DEF ContentsHold, Content
  <2>6. TypesHold'
    BY <1>1 DEF TypesHold
  <2> QED BY <1>5, <2>4, <2>5, <2>6 DEF Settled
<1>6. CASE ~Doing("initialise") /\ ~(Doing("place") /\ IsDirectory(call.slot))
  <2>1. Hidden = 0 /\ Roots = {root_dir_first_cluster}
    BY <1>6 DEF Hidden, Roots
  <2>2. Entries = V
    BY <1>1, <2>1, EntriesAre
  <2> QED BY <1>3, <1>5, <2>1, <2>2
<1>7. CASE Doing("initialise")
  <2>1. /\ Creation /\ chain[call.first] = <<call.first>> /\ call.place \in V /\ SlotAt(call.place) = NewSlot
        /\ call.first \in Cluster
    BY <1>1, <1>7 DEF CallHolds, Creation
  <2>2. Hidden = call.first /\ Roots = {root_dir_first_cluster}
    BY <1>7 DEF Hidden, Roots, Doing
  <2>3. Entries = V
    BY <1>1, <2>2, EntriesAre
  <2>4. SlotOf(data, call.place).first = call.first /\ (IsDirectory(SlotOf(data, call.place)) <=> IsDirectory(call))
    BY <2>1, NewSlotIs, SeenSame
  <2>5. V = EntriesIn(data, chain, D) /\ Agree(data, data, V)
    BY <1>1, VolumeFacts DEF Agree
  <2>6. CASE ~IsDirectory(call)
    <3>1. \A p \in V : Leads(data, 0, p) <=> Leads(data, Hidden, p)
      <4> TAKE p \in V
      <4>1. SlotOf(data, p).first = call.first => p = call.place
        BY <1>3, <2>1, <2>4 DEF Owned
      <4>2. Leads(data, Hidden, p) => SlotOf(data, p).first \in Cluster
        BY <1>3 DEF Tree
      <4> QED BY <2>2, <2>4, <2>6, <4>1, <4>2, ClusterFacts DEF Leads
    <3>2. Tree(data, 0, chain, {root_dir_first_cluster}, D, V)
      BY <1>3, <2>2, <2>5, <3>1, TreeSame
    <3> QED BY <1>3, <1>5, <2>3, <3>2
  <2>7. CASE IsDirectory(call)
    <3>1. data[call.first] = Blank
      BY <1>7, <2>7 DEF Torn
    <3>2. PICK f \in Cluster : f = call.first
      BY <2>1
    <3>3. EntriesIn(data, chain, D \cup {f}) = V
      BY <2>1, <2>5, <3>1, <3>2, BlankFacts, VolumeWithEmpty
    <3>4. Tree(data, 0, chain, {root_dir_first_cluster}, D \cup {f}, V)
      <4>1. Tree(data, f, chain, {root_dir_first_cluster}, D, V) /\ call.place \in V /\ 0 \notin Cluster
        BY <1>3, <2>1, <2>2, <3>2, ClusterFacts
      <4>2. f = SlotOf(data, call.place).first /\ IsDirectory(SlotOf(data, call.place))
        BY <2>4, <2>7, <3>2
      <4> QED BY <2>5, <3>3, <4>1, <4>2, TreeJoined
    <3>5. Blocks(data, chain, D \cup {f})
      <4>1. ToSet(chain[f]) = {f}
        BY <2>1, <3>2 DEF ToSet
      <4> QED BY <1>3, <3>1, <3>2, <4>1, BlankFacts DEF Blocks
    <3>6. Settled(D \cup {f}, V, V, chain)
      BY <1>5, <2>3, <3>4, <3>5
    <3> QED BY <3>6
  <2> QED BY <2>6, <2>7
<1>8. CASE Doing("place") /\ IsDirectory(call.slot)
  <2>1. Hidden = 0
    BY <1>8 DEF Hidden, Doing
  <2>2. PICK E : Below(D, V, chain, root_dir_first_cluster, E)
    BY <1>1, EntriesAre
  <2>3. EntriesFrom(root_dir_first_cluster, Listed) = Entries
    BY DEF Entries, PlacesBelow
  <2>4. /\ E \subseteq D /\ Entries \subseteq V
        /\ Tree(data, 0, chain, {root_dir_first_cluster}, E, Entries)
    BY <2>1, <2>2, <2>3 DEF Below
  <2>5. Blocks(data, chain, E)
    BY <1>3, <2>4 DEF Blocks
  <2>6. PICK W : W = Entries
    OBVIOUS
  <2>7. Settled(E, W, V, chain)
    BY <1>5, <2>4, <2>5, <2>6
  <2> QED BY <2>7
<1> QED BY <1>6, <1>7, <1>8

\* The machine stops.
LEMMA StopKeeps ==
  ASSUME FatInv, Stop, Sound'
  PROVE  FatInv'
<1>1. /\ Sound /\ ~Torn /\ nodes' = <<>> /\ call' = Unmounted /\ faulted' = TRUE
      /\ fat' = fat /\ data' = data /\ contents' = contents
  BY DEF Stop, Tear, Spoil, Sound, disk
<1>2. PICK D, V, chain : Holds(D, V, chain)
  BY <1>1 DEF FatInv
<1>3. PICK E, W : Settled(E, W, V, chain)
  BY <1>1, <1>2, Settles
<1>4. TypesHold' /\ VolumeHolds(E, W, chain)' /\ ContentsHold(W, chain)'
  BY <1>3 DEF Settled
<1>5. Accounted(W, chain)'
  BY <1>1 DEF Accounted
<1>6. CallHolds(E, W, chain)'
  BY <1>1 DEF CallHolds, Doing, Unmounted
<1>7. NodesHold(W, chain)'
  <2>1. DOMAIN nodes' = {}
    BY <1>1
  <2> QED BY <1>1, <2>1 DEF NodesHold
<1> QED BY <1>4, <1>5, <1>6, <1>7, Whole

\* A transfer fails.
LEMMA FailKeeps ==
  ASSUME FatInv, Fail, Sound'
  PROVE  FatInv'
<1>1. /\ Sound /\ ~Torn /\ call' = Idle /\ faulted' = TRUE
      /\ nodes' = Restrict(nodes, {n \in DOMAIN nodes : nodes[n].place \in Entries})
      /\ fat' = fat /\ data' = data /\ contents' = contents
  BY DEF Fail, Tear, Spoil, Sound, disk, Return
<1>2. PICK D, V, chain : Holds(D, V, chain)
  BY <1>1 DEF FatInv
<1>3. PICK E, W : Settled(E, W, V, chain)
  BY <1>1, <1>2, Settles
<1>4. TypesHold' /\ VolumeHolds(E, W, chain)' /\ ContentsHold(W, chain)' /\ W = Entries /\ W \subseteq V
  BY <1>3 DEF Settled
<1>5. Accounted(W, chain)'
  BY <1>1 DEF Accounted
<1>6. CallHolds(E, W, chain)'
  BY <1>1 DEF CallHolds, Doing, Idle
<1>7. NodesHold(W, chain)'
  <2>1. DOMAIN nodes' = {n \in DOMAIN nodes : nodes[n].place \in Entries}
        /\ \A n \in DOMAIN nodes' : nodes'[n] = nodes[n]
    BY <1>1 DEF Restrict
  <2>2. \A p : SlotAt(p)' = SlotAt(p) /\ NameAt(p)' = NameAt(p)
    BY <1>1 DEF SlotAt, NameAt
  <2>3. CallHolds(D, V, chain) /\ NodesHold(V, chain)
    BY <1>2 DEF Holds
  <2>4. \A n \in DOMAIN nodes' : ~Moved(n)
    <3>1. Doing("place") => nodes[call.name].place \notin V
      BY <2>3 DEF CallHolds
    <3> QED BY <1>4, <2>1, <3>1 DEF Moved
  <2>5. ASSUME NEW n \in DOMAIN nodes'
        PROVE  nodes'[n].place \in W /\ NameAt(nodes'[n].place) = n /\ NodeFits(nodes'[n], SlotAt(nodes'[n].place), chain)
    <3>1. n \in DOMAIN nodes /\ nodes[n].place \in W /\ ~Moved(n) /\ nodes'[n] = nodes[n]
      BY <1>4, <2>1, <2>4
    <3> QED BY <2>3, <3>1 DEF NodesHold
  <2> QED BY <1>1, <2>2, <2>5 DEF NodesHold
<1> QED BY <1>4, <1>5, <1>6, <1>7, Whole

\* A node with another number of children stands for the same entry.
LEMMA ChildrenAside ==
  ASSUME NEW v, NEW slot, NEW chain, NodeFits(v, slot, chain), NEW k
  PROVE  NodeFits([v EXCEPT !.children = k], slot, chain) /\ [v EXCEPT !.children = k].place = v.place
<1>1. IsNode(v)
  BY DEF NodeFits
<1>2. PICK w : w = [v EXCEPT !.children = k]
  OBVIOUS
<1>3. /\ w.place = v.place /\ w.layout = v.layout /\ w.layout_loaded = v.layout_loaded
      /\ w.attributes = v.attributes /\ IsNode(w)
  BY <1>1, <1>2 DEF IsNode
<1> QED BY <1>2, <1>3 DEF NodeFits

\* The last write of a new directory fails.
LEMMA InitialiseFailsKeeps ==
  ASSUME FatInv, InitialiseFails, Sound'
  PROVE  FatInv'
<1>1. /\ Sound /\ ~Torn /\ call' = Idle /\ faulted' = TRUE /\ call.op = "initialise"
      /\ nodes' = [nodes EXCEPT ![call.dir].children = @ + 2]
      /\ fat' = fat /\ data' = data /\ contents' = contents
  BY DEF InitialiseFails, Tear, Spoil, Sound, disk, Return, Doing
<1>2. PICK D, V, chain : Holds(D, V, chain)
  BY <1>1 DEF FatInv
<1>3. VolumeHolds(D, V, chain) /\ CallHolds(D, V, chain) /\ NodesHold(V, chain)
  BY <1>2 DEF Holds
<1>4. PICK E, W : Settled(E, W, V, chain)
  BY <1>1, <1>2, Settles
<1>5. TypesHold' /\ VolumeHolds(E, W, chain)' /\ ContentsHold(W, chain)' /\ W = Entries
  BY <1>4 DEF Settled
<1>6. W = V
  <2>1. Roots = {root_dir_first_cluster}
    BY <1>1 DEF Roots, Doing
  <2> QED BY <1>3, <1>5, <2>1, EntriesAre
<1>7. Accounted(W, chain)'
  BY <1>1 DEF Accounted
<1>8. CallHolds(E, W, chain)'
  BY <1>1 DEF CallHolds, Doing, Idle
<1>9. NodesHold(W, chain)'
  <2>1. \A p : SlotAt(p)' = SlotAt(p) /\ NameAt(p)' = NameAt(p)
    BY <1>1 DEF SlotAt, NameAt
  <2>2. ASSUME NEW n \in DOMAIN nodes'
        PROVE  nodes'[n].place \in W /\ NameAt(nodes'[n].place) = n /\ NodeFits(nodes'[n], SlotAt(nodes'[n].place), chain)
    <3>1. n \in DOMAIN nodes /\ ~Moved(n)
      BY <1>1 DEF Moved, Doing
    <3>2. nodes[n].place \in V /\ NameAt(nodes[n].place) = n /\ NodeFits(nodes[n], SlotAt(nodes[n].place), chain)
      BY <1>3, <3>1 DEF NodesHold
    <3>3. nodes'[n] = IF n = call.dir THEN [nodes[n] EXCEPT !.children = @ + 2] ELSE nodes[n]
      BY <1>1, <3>1
    <3> QED BY <1>6, <3>2, <3>3, ChildrenAside
  <2> QED BY <1>1, <2>1, <2>2 DEF NodesHold
<1> QED BY <1>5, <1>7, <1>8, <1>9, Whole

-----------------------------------------------------------------------------
(* A page of a file is written *)

\* Who owns and names an entry is read from its slot.
LEMMA AgreeKeeps ==
  ASSUME NEW d, NEW e, NEW V, Agree(d, e, V), NEW Y, NEW Z, Z \subseteq Y
  PROVE  /\ Owned(d, V, Y) => Owned(e, V, Z)
         /\ Named(d, V, Y) => Named(e, V, Z)
         /\ \A p \in V : NameOf(e, p) = NameOf(d, p)
         /\ {SlotOf(e, p).first : p \in V} = {SlotOf(d, p).first : p \in V}
<1>1. \A p \in V : SlotOf(e, p) = SlotOf(d, p) /\ NameOf(e, p) = NameOf(d, p)
  BY DEF Agree, NameOf
<1> QED BY <1>1 DEF Owned, Named

\* The chain of no other head has a cluster of this one.
LEMMA ChainsApart ==
  ASSUME NEW f, NEW H, NEW chain, Chains(f, H, chain), NEW g \in H, NEW h \in H, g # h, NEW c \in ToSet(chain[g])
  PROVE  c \notin ToSet(chain[h])
BY DEF Chains

\* A write to a cluster of no directory leaves the entries alone.
LEMMA WrittenOutside ==
  ASSUME NEW D, NEW V, NEW chain, TypesHold, VolumeHolds(D, V, chain),
         NEW k \in Cluster, \A c \in D : k \notin ToSet(chain[c]),
         NEW b, data' = [data EXCEPT ![k] = b]
  PROVE  /\ EntriesIn(data', chain, D) = V /\ Agree(data, data', V) /\ Blocks(data', chain, D)
         /\ DOMAIN data' = Cluster /\ data'[k] = b
         /\ \A c \in Cluster : c # k => data'[c] = data[c]
<1>1. DOMAIN data' = Cluster /\ data'[k] = b /\ \A c \in Cluster : c # k => data'[c] = data[c]
  BY DEF TypesHold
<1>2. /\ V = EntriesIn(data, chain, D) /\ Blocks(data, chain, D) /\ D \subseteq Heads(V) /\ Chains(fat, Heads(V), chain)
  BY VolumeFacts DEF VolumeHolds
<1>3. \A c \in D : \A x \in ToSet(chain[c]) : data'[x] = data[x]
  BY <1>1, <1>2, HeadChains
<1>4. \A c \in D : chain[c] = chain[c] /\ \A x \in ToSet(chain[c]) : data'[x] = data[x]
  BY <1>3
<1>5. PICK e : e = data'
  OBVIOUS
<1>6. PICK d : d = data
  OBVIOUS
<1>7. /\ EntriesIn(e, chain, D) = EntriesIn(d, chain, D)
      /\ \A p \in EntriesIn(d, chain, D) : SlotOf(e, p) = SlotOf(d, p)
      /\ Blocks(d, chain, D) => Blocks(e, chain, D)
  <2>1. \A c \in D : chain[c] = chain[c] /\ \A x \in ToSet(chain[c]) : e[x] = d[x]
    BY <1>4, <1>5, <1>6
  <2> QED BY ONLY <2>1, VolumeSame
<1> QED BY <1>1, <1>2, <1>5, <1>6, <1>7 DEF Agree

\* fat_fs_write writes a page of one file.
LEMMA WritePageKeeps ==
  ASSUME FatInv, NEW n, NEW page \in 0 .. 1, NEW v, WritePage(n, page, v)
  PROVE  FatInv'
<1> DEFINE k == PageCluster(n, page)
           p == nodes[n].place
           h == SlotAt(p).first
<1>1. /\ call = Idle /\ Sound /\ n \in DOMAIN nodes /\ ~IsDirectory(nodes[n])
      /\ nodes[n].layout_loaded /\ page < Len(nodes[n].layout)
      /\ data' = [data EXCEPT ![k] = v]
      /\ contents' = [contents EXCEPT ![n][page + 1] = v]
      /\ fat' = fat /\ nodes' = nodes /\ call' = call /\ faulted' = faulted
  BY DEF WritePage, Begin, Ready, Sound, Write
<1>2. PICK D, V, chain : Holds(D, V, chain)
  BY <1>1 DEF FatInv
<1>3. TypesHold /\ VolumeHolds(D, V, chain) /\ Accounted(V, chain) /\ ContentsHold(V, chain) /\ NodesHold(V, chain)
  BY <1>2 DEF Holds
<1>4. /\ Tree(data, Hidden, chain, Roots, D, V) /\ Chains(fat, Heads(V), chain)
      /\ Owned(data, V, {root_dir_first_cluster} \cup Pending) /\ root_dir_first_cluster \notin Pending
      /\ Named(data, V, PendingName)
  BY <1>3 DEF VolumeHolds
<1>5. Hidden' = Hidden /\ Roots' = Roots /\ Pending' = Pending /\ PendingName' = PendingName
  BY <1>1, Resting
<1>6. p \in V /\ NameAt(p) = n /\ NodeFits(nodes[n], SlotAt(p), chain)
  BY <1>1, <1>3 DEF NodesHold, Moved, Doing, Idle
<1>7. h \in Heads(V) /\ h \notin D /\ ~IsDirectory(SlotAt(p))
  <2>1. ~IsDirectory(SlotAt(p))
    BY <1>1, <1>6, AttributesKept DEF IsDirectory, NodeFits
  <2> QED BY <1>3, <1>6, <2>1, SeenSame, VolumeFacts DEF Leads
<1> DEFINE s == chain[h]
<1>81. IsChain(s, h) /\ Path(fat, s)
  BY <1>4, <1>7, HeadChain
<1>8. /\ s \in Seq(Cluster) /\ Len(s) \in Nat \ {0} /\ ToSet(s) = {s[i] : i \in 1 .. Len(s)}
      /\ ToSet(s) \subseteq Cluster
  BY <1>81 DEF IsChain
<1>9. nodes[n].layout = s
  <2>1. PICK m \in 1 .. Len(s) : nodes[n].layout = SubSeq(s, 1, m) /\ m = Len(s)
    BY <1>1, <1>6 DEF NodeFits
  <2> HIDE DEF s
  <2> QED BY <1>8, <2>1
<1> HIDE DEF s, p, h
<1>10. page + 1 \in 1 .. Len(s) /\ k = s[page + 1] /\ k \in ToSet(s) /\ k \in Cluster
  BY <1>1, <1>8, <1>9 DEF PageCluster
<1>11. \A g \in Heads(V) : g # h => k \notin ToSet(chain[g])
  BY <1>4, <1>7, <1>10, ChainsApart DEF s
<1>12. \A c \in D : k \notin ToSet(chain[c])
  BY <1>3, <1>7, <1>11, VolumeFacts
<1> HIDE DEF k
<1>13. /\ EntriesIn(data', chain, D) = V /\ Agree(data, data', V) /\ Blocks(data', chain, D)
       /\ DOMAIN data' = Cluster /\ data'[k] = v /\ \A c \in Cluster : c # k => data'[c] = data[c]
  <2>1. data' = [data EXCEPT ![k] = v]
    BY <1>1
  <2>2. TypesHold /\ VolumeHolds(D, V, chain) /\ k \in Cluster /\ \A c \in D : k \notin ToSet(chain[c])
    BY <1>3, <1>10, <1>12
  <2> QED BY ONLY <2>1, <2>2, WrittenOutside
<1>14. Tree(data', Hidden', chain, Roots', D, V)
  BY <1>4, <1>5, <1>13, TreeSame
<1>15. /\ Owned(data', V, {root_dir_first_cluster} \cup Pending') /\ Named(data', V, PendingName')
       /\ \A q \in V : NameOf(data', q) = NameOf(data, q) /\ SlotOf(data', q) = SlotOf(data, q)
       /\ {SlotOf(data', q).first : q \in V} = {SlotOf(data, q).first : q \in V}
  <2>1. /\ Owned(data, V, {root_dir_first_cluster} \cup Pending) => Owned(data', V, {root_dir_first_cluster} \cup Pending')
        /\ \A q \in V : NameOf(data', q) = NameOf(data, q)
        /\ {SlotOf(data', q).first : q \in V} = {SlotOf(data, q).first : q \in V}
    BY <1>5, <1>13, AgreeKeeps
  <2>2. Named(data, V, PendingName) => Named(data', V, PendingName')
    BY <1>5, <1>13, AgreeKeeps
  <2> QED BY <1>4, <1>13, <2>1, <2>2 DEF Agree
<1>16. Heads(V)' = Heads(V)
  BY <1>5, <1>15 DEF Heads
<1>17. VolumeHolds(D, V, chain)'
  BY <1>1, <1>4, <1>5, <1>13, <1>14, <1>15, <1>16 DEF VolumeHolds
<1>18. TypesHold'
  BY <1>1, <1>3, <1>13 DEF TypesHold
<1>19. Accounted(V, chain)'
  BY <1>1, <1>3, <1>16 DEF Accounted
<1>20. CallHolds(D, V, chain)'
  BY <1>1 DEF CallHolds, Doing, Idle
<1>21. \A q \in V : SlotAt(q)' = SlotAt(q) /\ NameAt(q)' = NameAt(q)
  <2> TAKE q \in V
  <2>1. SlotAt(q)' = SlotOf(data', q) /\ NameAt(q)' = NameOf(data', q)
    BY DEF SlotAt, SlotOf, NameAt, NameOf
  <2> QED BY <1>15, <2>1, SeenSame
<1>22. NodesHold(V, chain)'
  BY <1>1, <1>3, <1>21 DEF NodesHold, Moved, Doing, Idle
<1>23. ContentsHold(V, chain)'
  <2> SUFFICES ASSUME NEW q \in V, ~IsDirectory(SlotAt(q)) PROVE Content(NameAt(q), SlotAt(q).first, chain)'
    BY <1>21 DEF ContentsHold
  <2>1. /\ NameAt(q) \in DOMAIN contents
        /\ contents[NameAt(q)] = [i \in 1 .. Len(chain[SlotAt(q).first]) |-> data[chain[SlotAt(q).first][i]]]
    BY <1>3 DEF ContentsHold, Content
  <2>2. DOMAIN contents' = DOMAIN contents
    BY <1>1
  <2>3. CASE q = p
    <3>1. SlotAt(q).first = h /\ NameAt(q) = n
      BY <1>6, <2>3 DEF h, p
    <3>2. contents[n] = [i \in 1 .. Len(s) |-> data[s[i]]]
      BY <2>1, <3>1 DEF s
    <3>3. contents'[n] = [i \in 1 .. Len(s) |-> IF i = page + 1 THEN v ELSE data[s[i]]]
      BY <1>1, <1>10, <2>1, <3>1, <3>2
    <3>4. \A i \in 1 .. Len(s) : i # page + 1 => s[i] # k /\ s[i] \in Cluster
      <4>1. Path(fat, s)
        BY <1>81
      <4> QED BY <1>8, <1>10, <4>1 DEF Path
    <3>5. \A i \in 1 .. Len(s) : data'[s[i]] = IF i = page + 1 THEN v ELSE data[s[i]]
      BY <1>10, <1>13, <3>4
    <3>6. contents'[n] = [i \in 1 .. Len(s) |-> data'[s[i]]]
      BY <3>3, <3>5
    <3> QED BY <1>21, <2>1, <2>2, <3>1, <3>6 DEF Content, s
  <2>4. CASE q # p
    <3> DEFINE g == SlotAt(q).first
               t == chain[g]
    <3>1. g # h /\ g \in Heads(V) /\ NameAt(q) # n
      BY <1>3, <1>4, <1>6, <2>4, SeenSame, VolumeFacts DEF Owned, Named, h, p
    <3>20. IsChain(t, g)
      BY <1>4, <3>1, HeadChain
    <3>2. t \in Seq(Cluster) /\ ToSet(t) = {t[i] : i \in 1 .. Len(t)} /\ ToSet(t) \subseteq Cluster
      BY <3>20 DEF IsChain
    <3>3. contents'[NameAt(q)] = contents[NameAt(q)]
      BY <1>1, <2>1, <3>1
    <3>4. \A i \in 1 .. Len(t) : data'[t[i]] = data[t[i]]
      <4> TAKE i \in 1 .. Len(t)
      <4>1. t[i] # k /\ t[i] \in Cluster
        BY <1>11, <3>1, <3>2
      <4> QED BY <1>13, <4>1
    <3> HIDE DEF t
    <3>5. contents[NameAt(q)] = [i \in 1 .. Len(t) |-> data[t[i]]]
      BY <2>1 DEF t
    <3>6. contents'[NameAt(q)] = [i \in 1 .. Len(t) |-> data'[t[i]]]
      BY <3>3, <3>4, <3>5
    <3> QED BY <1>21, <2>1, <2>2, <3>6 DEF Content, t
  <2> QED BY <2>3, <2>4
<1> QED BY <1>17, <1>18, <1>19, <1>20, <1>22, <1>23, Whole

-----------------------------------------------------------------------------
(* A cluster is reserved for a new file *)

\* Nodes and contents stand while data and nodes stay.
LEMMA OthersKept ==
  ASSUME NEW V, NEW chain, NEW next, NodesHold(V, chain), ContentsHold(V, chain),
         \A p \in V : next[SlotAt(p).first] = chain[SlotAt(p).first],
         nodes' = nodes, data' = data, contents' = contents, faulted' = faulted,
         \A n : ~Moved(n), ~Doing("initialise"), ~Doing("unmounted")
  PROVE  NodesHold(V, next)' /\ ContentsHold(V, next)'
<1>1. \A p : SlotAt(p)' = SlotAt(p) /\ NameAt(p)' = NameAt(p)
  BY DEF SlotAt, NameAt
<1>2. ASSUME NEW n \in DOMAIN nodes
      PROVE  nodes[n].place \in V /\ NameAt(nodes[n].place) = n /\ NodeFits(nodes[n], SlotAt(nodes[n].place), next)
  <2>1. nodes[n].place \in V /\ NameAt(nodes[n].place) = n /\ NodeFits(nodes[n], SlotAt(nodes[n].place), chain)
    BY DEF NodesHold
  <2>2. next[SlotAt(nodes[n].place).first] = chain[SlotAt(nodes[n].place).first]
    BY <2>1
  <2> QED BY <2>1, <2>2 DEF NodeFits
<1>3. NodesHold(V, next)'
  BY <1>1, <1>2 DEF NodesHold
<1>4. ContentsHold(V, next)'
  BY <1>1 DEF ContentsHold, Content
<1> QED BY <1>3, <1>4

\* A free cluster is in no chain.
LEMMA FreeInNoChain ==
  ASSUME NEW H, NEW chain, Chains(fat, H, chain), NEW c, fat[c] = FreeCluster
  PROVE  /\ \A h \in H : c \notin ToSet(chain[h])
         /\ c \notin H
<1>1. ASSUME NEW h \in H PROVE c \notin ToSet(chain[h]) /\ c # h
  <2>1. \A x \in ToSet(ChainOf(h)) : fat[x] # FreeCluster
    BY HeadsEnd
  <2>2. ChainOf(h) = chain[h] /\ h \in ToSet(chain[h])
    BY HeadChains
  <2> QED BY <2>1, <2>2
<1> QED BY <1>1

\* Where the FAT is not written the chains stay.
LEMMA PathStays ==
  ASSUME NEW f, NEW g, NEW s, Path(f, s), \A c \in ToSet(s) : g[c] = f[c]
  PROVE  Path(g, s)
<1>1. Len(s) \in Nat \ {0} /\ s \in Seq(Cluster)
  BY PathLength DEF Path
<1>2. \A i \in 1 .. Len(s) : s[i] \in ToSet(s)
  BY <1>1 DEF ToSet
<1>3. Len(s) \in 1 .. Len(s) /\ \A i \in 1 .. Len(s) - 1 : i \in 1 .. Len(s)
  BY <1>1
<1>4. \A i \in 1 .. Len(s) : g[s[i]] = f[s[i]]
  BY <1>2
<1>5. \A i \in 1 .. Len(s) - 1 : g[s[i]] = s[i + 1]
  BY <1>3, <1>4 DEF Path
<1>6. g[s[Len(s)]] = FAT_EOF
  BY <1>3, <1>4 DEF Path
<1> QED BY <1>5, <1>6 DEF Path

\* A cluster marked as the last is a chain of one.
LEMMA PathOfOne ==
  ASSUME NEW f, NEW c \in Cluster, f[c] = FAT_EOF, c < SectorEntries
  PROVE  Path(f, <<c>>) /\ ToSet(<<c>>) = {c}
<1>1. <<c>> \in Seq(Cluster) /\ <<c>> # <<>> /\ Len(<<c>>) = 1 /\ <<c>>[1] = c
  OBVIOUS
<1>2. ToSet(<<c>>) = {c}
  BY DEF ToSet
<1>3. PICK s : s = <<c>>
  OBVIOUS
<1>4. Path(f, s)
  BY <1>1, <1>3 DEF Path
<1> QED BY <1>2, <1>3, <1>4

\* The node of a directory leads to one.
LEMMA DirectoryNode ==
  ASSUME NEW D, NEW V, NEW chain, VolumeHolds(D, V, chain), NodesHold(V, chain), Hidden = 0,
         NEW n \in DOMAIN nodes, ~Moved(n), IsDirectory(nodes[n])
  PROVE  LET h == SlotAt(nodes[n].place).first
         IN /\ h \in D /\ nodes[n].place \in V /\ Leads(data, 0, nodes[n].place)
            /\ nodes[n].layout \in Seq(Cluster) /\ ToSet(nodes[n].layout) \subseteq ToSet(chain[h])
            /\ nodes[n].layout[1] = h
<1> DEFINE h == SlotAt(nodes[n].place).first
           s == chain[h]
<1>1. /\ nodes[n].place \in V /\ NodeFits(nodes[n], SlotAt(nodes[n].place), chain)
      /\ SlotAt(nodes[n].place) = SlotOf(data, nodes[n].place)
  BY SeenSame DEF NodesHold
<1>2. h \in Heads(V) /\ Chains(fat, Heads(V), chain) /\ Tree(data, Hidden, chain, Roots, D, V)
  BY <1>1, VolumeFacts DEF VolumeHolds
<1>3. IsChain(s, h)
  BY <1>2, HeadChain
<1>4. IsDirectory(SlotAt(nodes[n].place))
  BY <1>1, AttributesKept DEF IsDirectory, NodeFits
<1>5. PICK m \in 1 .. Len(s) : nodes[n].layout = SubSeq(s, 1, m)
  BY <1>1 DEF NodeFits
<1>6. h \in Cluster
  BY <1>3 DEF IsChain
<1>7. Leads(data, 0, nodes[n].place)
  BY <1>1, <1>4, <1>6, ClusterFacts DEF Leads
<1>8. h \in D
  BY <1>1, <1>2, <1>7 DEF Tree
<1> HIDE DEF s
<1>9. nodes[n].layout \in Seq(Cluster) /\ ToSet(nodes[n].layout) \subseteq ToSet(s) /\ nodes[n].layout[1] = h
  <2>1. s \in Seq(Cluster) /\ Len(s) \in Nat \ {0} /\ s[1] = h
    BY <1>3 DEF IsChain
  <2>2. /\ SubSeq(s, 1, m) \in Seq(Cluster) /\ ToSet(SubSeq(s, 1, m)) \subseteq ToSet(s)
        /\ SubSeq(s, 1, m)[1] = s[1]
    BY <2>1, LayoutFacts
  <2> QED BY <1>5, <2>1, <2>2
<1> QED BY <1>1, <1>7, <1>8, <1>9 DEF s

\* The first free entry of the FAT is a cluster not in use.
LEMMA FirstFreeIs ==
  ASSUME TypesHold, FreeEntries # {}
  PROVE  FirstFree \in Cluster /\ fat[FirstFree] = FreeCluster /\ FirstFree < SectorEntries
<1>1. FreeEntries \in SUBSET Nat /\ SectorEntries \in Nat
  BY FatAssumption DEF FreeEntries
<1>2. FirstFree \in FreeEntries
  BY <1>1, LeastNat DEF FirstFree, Min
<1>3. FirstFree \in FatEntry /\ fat[FirstFree] = FreeCluster /\ FirstFree \in 0 .. SectorEntries - 1
  BY <1>2 DEF FreeEntries
<1>4. FirstFree # 0 /\ FirstFree # 1
  BY <1>3 DEF TypesHold
<1> QED BY <1>1, <1>3, <1>4, ClusterFacts

\* fat_fs_create_node takes a cluster of no chain.
LEMMA ReserveKeeps ==
  ASSUME FatInv, NEW n \in Name, NEW dir, CreateReserve(n, dir, Attributes(n))
  PROVE  FatInv'
<1> DEFINE attributes == Attributes(n)
<1>0. PICK c : c = FirstFree
  OBVIOUS
<1>p. PICK place : place = FirstEmpty(nodes[dir].layout)
  OBVIOUS
<1>1. /\ call = Idle /\ Sound /\ dir \in DOMAIN nodes /\ IsDirectory(nodes[dir])
      /\ n \notin {NameAt(p) : p \in Entries}
      /\ EmptyPlaces(nodes[dir].layout) # {} /\ FreeEntries # {}
      /\ fat' = [fat EXCEPT ![c] = FAT_EOF]
      /\ call' = [op |-> "enter", name |-> n, dir |-> dir, first |-> c, attributes |-> attributes, place |-> place]
      /\ data' = data /\ nodes' = nodes /\ contents' = contents /\ faulted' = faulted
  BY <1>0, <1>p DEF CreateReserve, BeginCreate, Begin, Ready, Sound, Reserve
<1>2. PICK D, V, chain : Holds(D, V, chain)
  BY <1>1 DEF FatInv
<1>3. TypesHold /\ VolumeHolds(D, V, chain) /\ Accounted(V, chain) /\ ContentsHold(V, chain) /\ NodesHold(V, chain)
  BY <1>2 DEF Holds
<1>4. /\ Tree(data, Hidden, chain, Roots, D, V) /\ Chains(fat, Heads(V), chain) /\ Blocks(data, chain, D)
      /\ Owned(data, V, {root_dir_first_cluster} \cup Pending) /\ Named(data, V, PendingName)
  BY <1>3 DEF VolumeHolds
<1>5. Hidden = 0 /\ Roots = {root_dir_first_cluster} /\ Pending = {} /\ PendingName = {}
  BY <1>1, Resting
<1>6. Hidden' = 0 /\ Roots' = {root_dir_first_cluster} /\ Pending' = {c} /\ PendingName' = {n}
  BY <1>1 DEF Hidden, Roots, Pending, PendingName, Doing
<1>7. c \in Cluster /\ fat[c] = FreeCluster /\ c < SectorEntries
  BY <1>0, <1>1, <1>3, FirstFreeIs
<1>8. /\ \A h \in Heads(V) : c \notin ToSet(chain[h])
      /\ c \notin Heads(V)
  BY <1>4, <1>7, FreeInNoChain
<1>9. PICK next : next = [h \in Cluster |-> IF h = c THEN <<c>> ELSE chain[h]]
  OBVIOUS
<1>10. \A h \in Heads(V) : IsChain(chain[h], h) /\ Path(fat, chain[h]) /\ h \in Cluster
  <2> TAKE h \in Heads(V)
  <2>1. IsChain(chain[h], h) /\ Path(fat, chain[h])
    BY <1>4, HeadChain
  <2> QED BY <2>1 DEF IsChain
<1>11. next[c] = <<c>> /\ \A h \in Heads(V) : next[h] = chain[h]
  BY <1>7, <1>8, <1>9, <1>10
<1>12. Heads(V)' = Heads(V) \cup {c}
  BY <1>1, <1>5, <1>6 DEF Heads
<1>13. fat'[c] = FAT_EOF /\ (\A x \in Cluster : x # c => fat'[x] = fat[x])
       /\ fat' \in [FatEntry -> Nat]
  BY <1>1, <1>3, <1>7, ClusterFacts DEF TypesHold
<1>14. Path(fat', <<c>>) /\ ToSet(<<c>>) = {c}
  BY <1>7, <1>13, PathOfOne
<1>15. \A h \in Heads(V) : Path(fat', chain[h])
  <2> TAKE h \in Heads(V)
  <2>1. \A x \in ToSet(chain[h]) : fat'[x] = fat[x]
    BY <1>8, <1>10, <1>13 DEF IsChain
  <2> QED BY <1>10, <2>1, PathStays
<1>16. Chains(fat', Heads(V)', next)
  <2>1. \A h \in Heads(V)' : Path(fat', next[h]) /\ next[h][1] = h
    BY <1>10, <1>11, <1>12, <1>14, <1>15 DEF IsChain
  <2>2. \A g, h \in Heads(V)' : g # h => ToSet(next[g]) \cap ToSet(next[h]) = {}
    BY <1>4, <1>8, <1>11, <1>12, <1>14 DEF Chains
  <2> QED BY <2>1, <2>2 DEF Chains
<1>17. V = EntriesIn(data, chain, D) /\ D \subseteq Heads(V) /\ \A p \in V : SlotAt(p).first \in Heads(V)
  BY <1>3, VolumeFacts, SeenSame
<1>18. \A h \in D : next[h] = chain[h]
  BY <1>11, <1>17
<1>19. EntriesIn(data, next, D) = V /\ Blocks(data, next, D) /\ Agree(data, data, V)
  BY <1>4, <1>17, <1>18 DEF EntriesIn, Blocks, Agree
<1>20. Tree(data, 0, next, {root_dir_first_cluster}, D, V)
  BY <1>4, <1>5, <1>18, <1>19, TreeSame
<1>21. Entries = V
  BY <1>3, <1>5, EntriesAre
<1>22. Owned(data, V, {root_dir_first_cluster} \cup {c}) /\ root_dir_first_cluster # c
  BY <1>4, <1>5, <1>8, <1>17, SeenSame DEF Owned, Heads
<1>23. Named(data, V, {n})
  BY <1>1, <1>4, <1>21, SeenSame DEF Named
<1>24. VolumeHolds(D, V, next)'
  BY <1>1, <1>6, <1>16, <1>19, <1>20, <1>22, <1>23 DEF VolumeHolds
<1>25. TypesHold'
  BY <1>1, <1>3, <1>7, <1>13, ClusterFacts DEF TypesHold, FatEntry, Cluster
<1>26. Accounted(V, next)'
  <2> SUFFICES ASSUME ~faulted, NEW x \in Cluster, fat'[x] # FreeCluster
               PROVE  \E h \in Heads(V)' : x \in ToSet(next[h])
    BY <1>1 DEF Accounted
  <2>1. CASE x = c
    BY <1>11, <1>12, <1>14, <2>1
  <2>2. CASE x # c
    <3>1. \E h \in Heads(V) : x \in ToSet(chain[h])
      BY <1>3, <1>13, <2>2 DEF Accounted
    <3> QED BY <1>11, <1>12, <3>1
  <2> QED BY <2>1, <2>2
<1>27. \A k : ~Moved(k)
  BY <1>1 DEF Moved, Doing, Idle
<1>28. CallHolds(D, V, next)'
  <2> DEFINE h == SlotAt(nodes[dir].place).first
  <2>1. /\ h \in D /\ nodes[dir].layout \in Seq(Cluster)
        /\ ToSet(nodes[dir].layout) \subseteq ToSet(chain[h])
    BY <1>1, <1>3, <1>5, <1>27, DirectoryNode
  <2>2. place \in Place /\ place.cluster \in ToSet(nodes[dir].layout) /\ EmptyAt(data, place)
    BY <1>p, <1>1, <2>1, FirstEmptyIs
  <2>3. place.cluster \in ToSet(next[h])
    BY <1>18, <2>1, <2>2
  <2>4. /\ call'.op = "enter" /\ call'.name = n /\ call'.dir = dir /\ call'.first = c
        /\ call'.attributes = attributes /\ call'.place = place
    BY <1>1
  <2>5. Creation'
    BY <1>1, <1>7, <2>4 DEF Creation
  <2> QED BY <1>1, <1>11, <2>1, <2>2, <2>3, <2>4, <2>5 DEF CallHolds, Doing
<1>29. NodesHold(V, next)' /\ ContentsHold(V, next)'
  <2>1. ~Doing("initialise") /\ ~Doing("unmounted")
    BY <1>1 DEF Doing, Idle
  <2>2. \A p \in V : next[SlotAt(p).first] = chain[SlotAt(p).first]
    BY <1>11, <1>17
  <2> QED BY <1>1, <1>3, <1>27, <2>1, <2>2, OthersKept
<1> QED BY <1>24, <1>25, <1>26, <1>28, <1>29, Whole

-----------------------------------------------------------------------------
(* The entry of a new file is written *)

\* The cluster of a creation under way is no entry's.
LEMMA PendingApart ==
  ASSUME NEW D, NEW V, NEW chain, VolumeHolds(D, V, chain), NEW c \in Pending, c \notin Roots
  PROVE  c \notin D /\ c \in Heads(V) /\ \A p \in V : SlotAt(p).first # c
<1>1. Tree(data, Hidden, chain, Roots, D, V) /\ Owned(data, V, {root_dir_first_cluster} \cup Pending)
  BY DEF VolumeHolds
<1>2. \A p \in V : SlotOf(data, p).first # c
  BY <1>1 DEF Owned
<1>3. c \notin D
  BY <1>1, <1>2, LedTo
<1> QED BY <1>2, <1>3, SeenSame DEF Heads

\* A write to a directory touches no file.
LEMMA FileUntouched ==
  ASSUME NEW H, NEW D, D \subseteq H, NEW chain, NEW f, Chains(f, H, chain), NEW c \in D, NEW k \in ToSet(chain[c]),
         NEW h \in H, h \notin D, NEW d, NEW e, SameBut(d, e, k)
  PROVE  \A x \in ToSet(chain[h]) : e[x] = d[x]
<1>1. c \in H /\ c # h
  OBVIOUS
<1>2. k \notin ToSet(chain[h])
  BY <1>1, ChainsApart
<1>3. IsChain(chain[h], h)
  BY HeadChain
<1> QED BY <1>2, <1>3 DEF IsChain, SameBut

\* A file whose clusters are not written keeps its contents.
LEMMA ContentStays ==
  ASSUME NEW H, NEW chain, NEW f, Chains(f, H, chain), NEW h \in H, NEW n, Content(n, h, chain),
         n \in DOMAIN contents', contents'[n] = contents[n],
         \A x \in ToSet(chain[h]) : data'[x] = data[x]
  PROVE  Content(n, h, chain)'
<1> DEFINE s == chain[h]
<1>0. IsChain(s, h)
  BY HeadChain
<1>1. ToSet(s) = {s[i] : i \in 1 .. Len(s)}
  BY <1>0 DEF IsChain
<1>2. contents[n] = [i \in 1 .. Len(s) |-> data[s[i]]]
  BY DEF Content
<1> HIDE DEF s
<1>3. \A i \in 1 .. Len(s) : data'[s[i]] = data[s[i]]
  BY <1>1 DEF s
<1>4. contents'[n] = [i \in 1 .. Len(s) |-> data'[s[i]]]
  BY <1>2, <1>3
<1> QED BY <1>4 DEF Content, s

\* A function with one more argument.
LEMMA WithFacts ==
  ASSUME NEW f, NEW x, NEW v
  PROVE  /\ DOMAIN With(f, x, v) = DOMAIN f \cup {x} /\ With(f, x, v)[x] = v
         /\ \A y \in DOMAIN f : y # x => With(f, x, v)[y] = f[y]
BY DEF With

\* fat_fs_create_node writes the entry.
LEMMA EnterKeeps ==
  ASSUME FatInv, CreateEnter, Sound
  PROVE  FatInv'
<1>0. PICK p : p = call.place
  OBVIOUS
<1>c. PICK c : c = call.first
  OBVIOUS
<1>n. PICK n : n = call.name
  OBVIOUS
<1>s. PICK s : s = NewSlot
  OBVIOUS
<1>1. /\ call.op = "enter"
      /\ data' = [data EXCEPT ![p.cluster] = [data[p.cluster] EXCEPT ![p.index] = s]]
      /\ contents' = With(contents, n, <<data[c]>>)
      /\ call' = [call EXCEPT !.op = "initialise"]
      /\ fat' = fat /\ nodes' = nodes /\ faulted' = faulted
  BY <1>0, <1>c, <1>n, <1>s DEF CreateEnter, Doing, Write
<1>2. PICK D, V, chain : Holds(D, V, chain)
  BY DEF FatInv
<1>3. TypesHold /\ VolumeHolds(D, V, chain) /\ Accounted(V, chain) /\ ContentsHold(V, chain) /\ NodesHold(V, chain)
      /\ CallHolds(D, V, chain)
  BY <1>2 DEF Holds
<1>4. /\ Tree(data, Hidden, chain, Roots, D, V) /\ Chains(fat, Heads(V), chain) /\ Blocks(data, chain, D)
      /\ Owned(data, V, {root_dir_first_cluster} \cup Pending) /\ root_dir_first_cluster \notin Pending
      /\ Named(data, V, PendingName)
  BY <1>3 DEF VolumeHolds
<1>5. /\ Creation /\ chain[c] = <<c>> /\ p \in Place /\ EmptyAt(data, p)
      /\ \E b \in D : p.cluster \in ToSet(chain[b])
  BY <1>0, <1>c, <1>1, <1>3 DEF CallHolds, Doing
<1>6. /\ call = [op |-> "enter", name |-> n, dir |-> call.dir, first |-> c, attributes |-> call.attributes, place |-> p]
      /\ c \in Cluster
  BY <1>0, <1>c, <1>n, <1>1, <1>5 DEF Creation
<1>7. call' = [op |-> "initialise", name |-> n, dir |-> call.dir, first |-> c, attributes |-> call.attributes, place |-> p]
  BY <1>1, <1>6
<1>8. /\ call'.op = "initialise" /\ call'.name = n /\ call'.dir = call.dir /\ call'.first = c
      /\ call'.attributes = call.attributes /\ call'.place = p
  BY <1>7
<1>9. Hidden = 0 /\ Roots = {root_dir_first_cluster} /\ Pending = {c} /\ PendingName = {n}
  BY <1>c, <1>n, <1>1 DEF Hidden, Roots, Pending, PendingName, Doing
<1>10. Hidden' = c /\ Roots' = {root_dir_first_cluster} /\ Pending' = {} /\ PendingName' = {}
  BY <1>8 DEF Hidden, Roots, Pending, PendingName, Doing
<1>11. /\ IsSlot(s) /\ s.name[1] \notin {"00", "E5", "."} /\ RetrievedName(s.name) = n /\ s.first = c
       /\ fat_to_vfs_attributes(s.attributes) = call.attributes
  BY <1>s, <1>c, <1>n, <1>5, NewSlotIs
<1>12. PICK b \in D : p.cluster \in ToSet(chain[b])
  BY <1>5
<1>13. V = EntriesIn(data, chain, D) /\ D \subseteq Heads(V)
       /\ (\A q \in V : SlotOf(data, q).first \in Heads(V))
       /\ \A q \in V : ~Leads(data, Hidden, q) => SlotOf(data, q).first \notin D
  BY <1>3, VolumeFacts
<1>14. /\ DOMAIN data' = Cluster /\ Blocks(data', chain, D)
       /\ EntriesIn(data', chain, D) = V \cup {p} /\ p \notin V /\ SlotOf(data', p) = s
       /\ Agree(data, data', V)
       /\ SameBut(data, data', p.cluster)
  <2>1. PICK d : d = data
    OBVIOUS
  <2>2. PICK e : e = data'
    OBVIOUS
  <2>3. EntryFits(d, chain, D, p, s) /\ e = [d EXCEPT ![p.cluster] = [d[p.cluster] EXCEPT ![p.index] = s]]
    BY <1>1, <1>3, <1>4, <1>5, <1>11, <2>1, <2>2 DEF TypesHold, EntryFits
  <2>4. Entered(d, e, chain, D, p, s)
    BY <2>3, VolumeFilled, Zenon
  <2> QED BY <1>13, <2>1, <2>2, <2>4 DEF Agree, Entered
<1>15. c \notin D /\ c \in Heads(V) /\ \A q \in V : SlotOf(data, q).first # c
  BY <1>3, <1>4, <1>9, PendingApart, SeenSame
<1>16. \A q \in V : SlotOf(data, q).first \in Cluster
  BY <1>4, <1>13, HeadChain DEF IsChain
<1>17. Tree(data', c, chain, {root_dir_first_cluster}, D, V \cup {p})
  <2>1. Tree(data, 0, chain, {root_dir_first_cluster}, D, V)
    BY <1>4, <1>9
  <2>2. \A q \in V : Leads(data, c, q) <=> Leads(data, 0, q)
    BY <1>15, <1>16, ClusterFacts DEF Leads
  <2>3. ~Leads(data', c, p)
    BY <1>11, <1>14 DEF Leads
  <2> QED BY <1>14, <2>1, <2>2, <2>3, TreeEntered
<1>18. \A q \in V : SlotOf(data', q) = SlotOf(data, q) /\ NameOf(data', q) = NameOf(data, q)
  BY <1>14 DEF Agree, NameOf
<1>19. NameOf(data', p) = n /\ SlotOf(data', p).first = c
  BY <1>11, <1>14 DEF NameOf
<1>20. Heads(V \cup {p})' = Heads(V)
  BY <1>9, <1>10, <1>18, <1>19 DEF Heads
<1>21. Owned(data', V \cup {p}, {root_dir_first_cluster}) /\ Named(data', V \cup {p}, {})
  BY <1>4, <1>9, <1>18, <1>19 DEF Owned, Named
<1>22. VolumeHolds(D, V \cup {p}, chain)'
  BY <1>1, <1>4, <1>10, <1>14, <1>17, <1>20, <1>21 DEF VolumeHolds
<1>23. TypesHold'
  BY <1>1, <1>3, <1>14 DEF TypesHold
<1>24. Accounted(V \cup {p}, chain)'
  BY <1>1, <1>3, <1>20 DEF Accounted
<1>25. \A q : SlotAt(q)' = SlotOf(data', q) /\ NameAt(q)' = NameOf(data', q)
  BY DEF SlotAt, SlotOf, NameAt, NameOf
<1>26. CallHolds(D, V \cup {p}, chain)'
  <2>1. Creation'
    BY <1>1, <1>5, <1>6, <1>7, <1>8 DEF Creation
  <2>2. NewSlot' = NewSlot
    BY <1>c, <1>n, <1>8 DEF NewSlot
  <2> QED BY <1>s, <1>5, <1>8, <1>14, <1>25, <2>1, <2>2 DEF CallHolds, Doing
<1>27. NodesHold(V \cup {p}, chain)'
  <2>1. \A k : ~Moved(k) /\ ~Moved(k)'
    BY <1>1, <1>8 DEF Moved, Doing
  <2>2. ASSUME NEW k \in DOMAIN nodes
        PROVE  /\ nodes[k].place \in V /\ NameAt(nodes[k].place)' = k
               /\ NodeFits(nodes[k], SlotAt(nodes[k].place)', chain)
    <3>1. nodes[k].place \in V /\ NameAt(nodes[k].place) = k /\ NodeFits(nodes[k], SlotAt(nodes[k].place), chain)
      BY <1>3, <2>1 DEF NodesHold
    <3> QED BY <1>1, <1>18, <1>25, <3>1, SeenSame
  <2>3. ~faulted => \A q \in V : NameAt(q)' \in DOMAIN nodes
    <3>1. ~Doing("unmounted") /\ ~Doing("initialise")
      BY <1>1 DEF Doing
    <3> QED BY <1>3, <1>18, <1>25, <3>1, SeenSame DEF NodesHold
  <2>4. \A q \in V \cup {p} : q \in V \/ q = call'.place
    BY <1>8
  <2> QED BY <1>1, <1>8, <2>2, <2>3, <2>4 DEF NodesHold, Doing
<1>28. ContentsHold(V \cup {p}, chain)'
  <2> SUFFICES ASSUME NEW q \in V \cup {p}, ~IsDirectory(SlotAt(q)')
               PROVE  Content(NameAt(q), SlotAt(q).first, chain)'
    BY DEF ContentsHold
  <2>1. DOMAIN contents' = DOMAIN contents \cup {n} /\ contents'[n] = <<data[c]>>
        /\ \A k \in DOMAIN contents : k # n => contents'[k] = contents[k]
    <3>1. PICK v : v = <<data[c]>>
      OBVIOUS
    <3>2. contents' = With(contents, n, v)
      BY <1>1, <3>1
    <3>3. contents' = [k \in DOMAIN contents \cup {n} |-> IF k = n THEN v ELSE contents[k]]
      BY <3>2 DEF With
    <3> QED BY <3>1, <3>3
  <2>2. CASE q = p
    <3>1. \A x \in ToSet(chain[c]) : data'[x] = data[x]
      BY <1>4, <1>12, <1>13, <1>14, <1>15, FileUntouched
    <3>2. data'[c] = data[c]
      BY <1>5, <3>1 DEF ToSet
    <3>3. PICK v : v = data'[c]
      OBVIOUS
    <3>4. Len(<<c>>) = 1 /\ \A i \in 1 .. 1 : <<c>>[i] = c
      OBVIOUS
    <3>5. [i \in 1 .. Len(chain[c]) |-> data'[chain[c][i]]] = [i \in 1 .. 1 |-> v]
      BY <1>5, <3>3, <3>4
    <3>6. <<v>> = [i \in 1 .. 1 |-> v]
      OBVIOUS
    <3>7. contents'[n] = [i \in 1 .. Len(chain[c]) |-> data'[chain[c][i]]]
      BY <2>1, <3>2, <3>3, <3>5, <3>6
    <3>8. Content(n, c, chain)'
      BY <2>1, <3>7 DEF Content
    <3> QED BY <1>19, <1>25, <2>2, <3>8 DEF Content
  <2>3. CASE q \in V
    <3>h. PICK h : h = SlotOf(data, q).first
      OBVIOUS
    <3>k. PICK k : k = NameOf(data, q)
      OBVIOUS
    <3>1. ~IsDirectory(SlotOf(data, q)) /\ ~Leads(data, Hidden, q)
      BY <1>18, <1>25, <2>3 DEF Leads
    <3>2. h \notin D /\ h \in Heads(V)
      BY <1>13, <2>3, <3>h, <3>1
    <3>3. Content(k, h, chain)
      BY <1>3, <2>3, <3>h, <3>k, <3>1, SeenSame DEF ContentsHold
    <3>4. k # n /\ k \in DOMAIN contents
      BY <1>4, <1>9, <2>3, <3>k, <3>3 DEF Named, Content
    <3>5. \A x \in ToSet(chain[h]) : data'[x] = data[x]
      <4>1. /\ D \subseteq Heads(V) /\ Chains(fat, Heads(V), chain) /\ p.cluster \in ToSet(chain[b])
            /\ SameBut(data, data', p.cluster)
        BY <1>4, <1>12, <1>13, <1>14
      <4> QED BY <3>2, <4>1, FileUntouched
    <3>6. Content(k, h, chain)'
      BY <1>4, <2>1, <3>2, <3>3, <3>4, <3>5, ContentStays
    <3> QED BY <1>18, <1>25, <2>3, <3>h, <3>k, <3>6 DEF Content
  <2> QED BY <2>2, <2>3
<1> QED BY <1>22, <1>23, <1>24, <1>26, <1>27, <1>28, Whole

-----------------------------------------------------------------------------
(* The cluster of a new file is erased *)

\* The first block of a new file shows no entry.
LEMMA FirstBlockFacts ==
  ASSUME Creation
  PROVE  /\ IsBlock(FirstBlock) /\ Unhidden(FirstBlock) /\ \A i \in SlotIndex : ~InBlock(FirstBlock, i)
         /\ ~IsDirectory(call) => FirstBlock = Blank
<1>1. CASE ~IsDirectory(call)
  BY <1>1, BlankFacts DEF FirstBlock
<1>2. CASE IsDirectory(call)
  <2>1. PICK s : s = [NewSlot EXCEPT !.name = Dot]
    OBVIOUS
  <2>2. PICK t : t = [NewSlot EXCEPT !.name = DotDot, !.first = SlotCluster(nodes[call.dir].layout[1], 256)]
    OBVIOUS
  <2>3. PICK u : u = NewSlot
    OBVIOUS
  <2>4. u = [name |-> u.name, first |-> u.first, attributes |-> u.attributes]
    BY <2>3, NewSlotIs DEF IsSlot
  <2>5. s.name = Dot /\ s = [name |-> s.name, first |-> s.first, attributes |-> s.attributes]
    BY <2>1, <2>3, <2>4
  <2>6. t.name = DotDot /\ t = [name |-> t.name, first |-> t.first, attributes |-> t.attributes]
    BY <2>2, <2>3, <2>4
  <2>7. IsSlot(s) /\ IsSlot(t) /\ IsDots(s) /\ IsDots(t)
    BY <2>5, <2>6, DotsAre DEF IsSlot, Wide, IsDots
  <2>8. PICK b : b = [Blank EXCEPT ![0] = s, ![1] = t]
    OBVIOUS
  <2>9. IsBlock(b) /\ Unhidden(b) /\ \A i \in SlotIndex : ~InBlock(b, i)
    BY <2>7, <2>8, DotsFacts
  <2>10. FirstBlock = b
    BY <1>2, <2>1, <2>2, <2>8, Zenon DEF FirstBlock
  <2> QED BY <1>2, <2>9, <2>10
<1> QED BY <1>1, <1>2

\* fat_fs_create_node erases the first cluster and makes the node.
LEMMA InitialiseKeeps ==
  ASSUME FatInv, CreateInitialise, Sound
  PROVE  FatInv'
<1>0. PICK p : p = call.place
  OBVIOUS
<1>c. PICK c : c = call.first
  OBVIOUS
<1>n. PICK n : n = call.name
  OBVIOUS
<1>b. PICK b : b = FirstBlock
  OBVIOUS
<1>m. PICK children : children = nodes[call.dir].children + IF IsDirectory(call) THEN 3 ELSE 1
  OBVIOUS
<1>1. /\ call.op = "initialise"
      /\ data' = [data EXCEPT ![c] = b]
      /\ contents' = [contents EXCEPT ![n] = <<Blank>>]
      /\ call' = Idle
      /\ fat' = fat /\ faulted' = faulted
  BY <1>c, <1>n, <1>b DEF CreateInitialise, Doing, Write, Return
<1>g. PICK v : /\ \E garbage \in BOOLEAN : v = [place |-> p, layout |-> <<c>>, layout_loaded |-> garbage,
                                                attributes |-> call.attributes, children |-> 0]
               /\ nodes' = With([nodes EXCEPT ![call.dir].children = children], n, v)
  BY <1>0, <1>c, <1>n, <1>m DEF CreateInitialise
<1>2. PICK D, V, chain : Holds(D, V, chain)
  BY DEF FatInv
<1>3. TypesHold /\ VolumeHolds(D, V, chain) /\ Accounted(V, chain) /\ ContentsHold(V, chain) /\ NodesHold(V, chain)
      /\ CallHolds(D, V, chain)
  BY <1>2 DEF Holds
<1>4. /\ Tree(data, Hidden, chain, Roots, D, V) /\ Chains(fat, Heads(V), chain) /\ Blocks(data, chain, D)
      /\ Owned(data, V, {root_dir_first_cluster} \cup Pending) /\ root_dir_first_cluster \notin Pending
      /\ Named(data, V, PendingName)
  BY <1>3 DEF VolumeHolds
<1>5. /\ Creation /\ chain[c] = <<c>> /\ p \in V /\ SlotOf(data, p) = NewSlot /\ c \in Cluster
  BY <1>0, <1>c, <1>1, <1>3, SeenSame DEF CallHolds, Doing, Creation
<1>6. /\ Hidden = c /\ Roots = {root_dir_first_cluster} /\ Pending = {} /\ PendingName = {}
      /\ Hidden' = 0 /\ Roots' = {root_dir_first_cluster} /\ Pending' = {} /\ PendingName' = {}
  BY <1>c, <1>1 DEF Hidden, Roots, Pending, PendingName, Doing, Idle
<1>7. /\ NameOf(data, p) = n /\ SlotOf(data, p).first = c
      /\ IsDirectory(SlotOf(data, p)) <=> IsDirectory(call)
      /\ fat_to_vfs_attributes(SlotOf(data, p).attributes) = call.attributes
  BY <1>c, <1>n, <1>5, NewSlotIs DEF NameOf
<1>8. V = EntriesIn(data, chain, D) /\ D \subseteq Heads(V)
       /\ (\A q \in V : SlotOf(data, q).first \in Heads(V))
       /\ \A q \in V : ~Leads(data, Hidden, q) => SlotOf(data, q).first \notin D
  BY <1>3, VolumeFacts
<1>9. c \in Heads(V) /\ c \notin D
  BY <1>5, <1>6, <1>7, <1>8 DEF Leads
<1>10. c \in ToSet(chain[c]) /\ ToSet(chain[c]) = {c}
  BY <1>5 DEF ToSet
<1>11. \A h \in Heads(V) : h # c => c \notin ToSet(chain[h])
  BY <1>4, <1>9, <1>10, ChainsApart
<1>12. \A h \in D : c \notin ToSet(chain[h])
  BY <1>8, <1>9, <1>11
<1>13. /\ EntriesIn(data', chain, D) = V /\ Agree(data, data', V) /\ Blocks(data', chain, D)
       /\ DOMAIN data' = Cluster /\ data'[c] = b /\ \A x \in Cluster : x # c => data'[x] = data[x]
  <2>1. data' = [data EXCEPT ![c] = b]
    BY <1>1
  <2>2. TypesHold /\ VolumeHolds(D, V, chain) /\ c \in Cluster /\ \A h \in D : c \notin ToSet(chain[h])
    BY <1>3, <1>5, <1>12
  <2> QED BY ONLY <2>1, <2>2, WrittenOutside
<1>14. /\ IsBlock(b) /\ Unhidden(b) /\ \A i \in SlotIndex : ~InBlock(b, i)
       /\ ~IsDirectory(call) => b = Blank
  BY <1>b, <1>5, FirstBlockFacts
<1>15. \A q \in V : SlotOf(data, q).first = c => q = p
  BY <1>4, <1>5, <1>7 DEF Owned
<1>16. \A q \in V : SlotOf(data', q) = SlotOf(data, q) /\ NameOf(data', q) = NameOf(data, q)
  BY <1>13 DEF Agree, NameOf
<1>17. PICK E : /\ E = D \cup IF IsDirectory(call) THEN {c} ELSE {}
  OBVIOUS
<1>18. Tree(data', 0, chain, {root_dir_first_cluster}, E, V) /\ Blocks(data', chain, E)
  <2>0. Tree(data, c, chain, {root_dir_first_cluster}, D, V)
    BY <1>4, <1>6
  <2>1. CASE ~IsDirectory(call)
    <3>1. \A q \in V : Leads(data, 0, q) <=> Leads(data, c, q)
      <4> TAKE q \in V
      <4>1. Leads(data, c, q) => SlotOf(data, q).first \in Cluster
        BY <2>0 DEF Tree
      <4> QED BY <1>7, <1>15, <2>1, <4>1, ClusterFacts DEF Leads
    <3>2. Tree(data', 0, chain, {root_dir_first_cluster}, D, V)
      BY <1>13, <2>0, <3>1, TreeSame
    <3> QED BY <1>13, <1>17, <2>1, <3>2
  <2>2. CASE IsDirectory(call)
    <3>0. E = D \cup {c}
      BY <1>17, <2>2
    <3>1. EntriesIn(data', chain, D \cup {c}) = V
      BY <1>5, <1>13, <1>14, VolumeWithEmpty
    <3>2. Tree(data', 0, chain, {root_dir_first_cluster}, D \cup {c}, V)
      <4>1. c = SlotOf(data, p).first /\ IsDirectory(SlotOf(data, p)) /\ 0 \notin Cluster
        BY <1>7, <2>2, ClusterFacts
      <4> QED BY <1>5, <1>13, <2>0, <3>1, <4>1, TreeJoined
    <3>3. Blocks(data', chain, D \cup {c})
      BY <1>10, <1>13, <1>14 DEF Blocks
    <3> QED BY <3>0, <3>2, <3>3
  <2> QED BY <2>1, <2>2
<1>19. Heads(V)' = Heads(V)
  BY <1>6, <1>16 DEF Heads
<1>20. Owned(data', V, {root_dir_first_cluster}) /\ Named(data', V, {})
  BY <1>4, <1>6, <1>16 DEF Owned, Named
<1>21. VolumeHolds(E, V, chain)'
  BY <1>1, <1>4, <1>6, <1>18, <1>19, <1>20 DEF VolumeHolds
<1>22. TypesHold'
  BY <1>1, <1>3, <1>13 DEF TypesHold
<1>23. Accounted(V, chain)'
  BY <1>1, <1>3, <1>19 DEF Accounted
<1>24. CallHolds(E, V, chain)'
  BY <1>1 DEF CallHolds, Doing, Idle
<1>25. \A q : SlotAt(q)' = SlotOf(data', q) /\ NameAt(q)' = NameOf(data', q)
  BY DEF SlotAt, SlotOf, NameAt, NameOf
<1>26. /\ DOMAIN nodes' = DOMAIN nodes \cup {n} /\ nodes'[n] = v
       /\ \A k \in DOMAIN nodes : k # n => nodes'[k] = [nodes EXCEPT ![call.dir].children = children][k]
  <2>1. PICK base : base = [nodes EXCEPT ![call.dir].children = children]
    OBVIOUS
  <2>2. nodes' = [k \in DOMAIN base \cup {n} |-> IF k = n THEN v ELSE base[k]]
    BY <1>g, <2>1 DEF With
  <2>3. DOMAIN base = DOMAIN nodes
    BY <2>1
  <2> QED BY <2>1, <2>2, <2>3
<1>27. \A k : ~Moved(k) /\ ~Moved(k)'
  BY <1>1 DEF Moved, Doing, Idle
<1>28. ASSUME NEW k \in DOMAIN nodes'
       PROVE  /\ nodes'[k].place \in V /\ NameOf(data', nodes'[k].place) = k
              /\ NodeFits(nodes'[k], SlotOf(data', nodes'[k].place), chain)
  <2>1. CASE k = n
    <3>1. /\ v.place = p /\ v.layout = <<c>> /\ v.attributes = call.attributes /\ IsNode(v)
      BY <1>g DEF IsNode
    <3>2. <<c>> = SubSeq(<<c>>, 1, 1) /\ Len(<<c>>) = 1 /\ 1 \in 1 .. 1
      <4>1. <<c>> \in Seq(Cluster) /\ Len(<<c>>) = 1 /\ <<c>>[1] = c
        BY <1>5
      <4> QED BY <4>1, OneOfChain
    <3>3. NodeFits(v, SlotOf(data, p), chain)
      BY <1>5, <1>7, <3>1, <3>2 DEF NodeFits
    <3> QED BY <1>5, <1>7, <1>16, <1>26, <2>1, <3>1, <3>3
  <2>2. CASE k # n
    <3>1. k \in DOMAIN nodes
      BY <1>26, <2>2
    <3>2. nodes[k].place \in V /\ NameOf(data, nodes[k].place) = k /\ NodeFits(nodes[k], SlotOf(data, nodes[k].place), chain)
      BY <1>3, <1>27, <3>1, SeenSame DEF NodesHold
    <3>3. nodes'[k] = nodes[k] \/ nodes'[k] = [nodes[k] EXCEPT !.children = children]
      BY <1>26, <2>2, <3>1
    <3>4. nodes'[k].place = nodes[k].place /\ NodeFits(nodes'[k], SlotOf(data, nodes[k].place), chain)
      <4>1. PICK u : u = nodes[k]
        OBVIOUS
      <4>2. PICK w : w = nodes'[k]
        OBVIOUS
      <4>3. PICK slot : slot = SlotOf(data, nodes[k].place)
        OBVIOUS
      <4>4. NodeFits(u, slot, chain) /\ (w = u \/ w = [u EXCEPT !.children = children])
        BY <3>2, <3>3, <4>1, <4>2, <4>3
      <4>5. w.place = u.place /\ NodeFits(w, slot, chain)
        <5>1. CASE w = u
          BY <4>4, <5>1
        <5>2. CASE w = [u EXCEPT !.children = children]
          BY ONLY <4>4, <5>2, ChildrenAside, Zenon
        <5> QED BY <4>4, <5>1, <5>2
      <4> QED BY <4>1, <4>2, <4>3, <4>5
    <3> QED BY <1>16, <3>2, <3>4
  <2> QED BY <2>1, <2>2
<1>29. NodesHold(V, chain)'
  <2>1. ~faulted => \A q \in V : NameOf(data', q) \in DOMAIN nodes'
    <3> SUFFICES ASSUME ~faulted, NEW q \in V PROVE NameOf(data', q) \in DOMAIN nodes'
      OBVIOUS
    <3>1. NameOf(data, q) \in DOMAIN nodes \/ q = p
      BY <1>0, <1>1, <1>3, SeenSame DEF NodesHold, Doing
    <3> QED BY <1>7, <1>16, <1>26, <3>1
  <2>2. \A k \in DOMAIN nodes' : /\ nodes'[k].place \in V /\ NameAt(nodes[k].place)' = k
                                 /\ NodeFits(nodes'[k], SlotAt(nodes[k].place)', chain)
    <3> TAKE k \in DOMAIN nodes'
    <3>1. PICK w : w = nodes'[k].place
      OBVIOUS
    <3>2. NameAt(nodes[k].place)' = NameOf(data', w) /\ SlotAt(nodes[k].place)' = SlotOf(data', w)
      BY <3>1 DEF NameAt, SlotAt, NameOf, SlotOf
    <3> QED BY <1>28, <3>1, <3>2
  <2> QED BY <1>1, <1>25, <2>1, <2>2 DEF NodesHold
<1>30. ContentsHold(V, chain)'
  <2> SUFFICES ASSUME NEW q \in V, ~IsDirectory(SlotAt(q)')
               PROVE  Content(NameAt(q), SlotAt(q).first, chain)'
    BY DEF ContentsHold
  <2>0. /\ DOMAIN contents' = DOMAIN contents /\ (n \in DOMAIN contents => contents'[n] = <<Blank>>)
        /\ \A k \in DOMAIN contents : k # n => contents'[k] = contents[k]
    <3>1. PICK blank : blank = <<Blank>>
      OBVIOUS
    <3>2. contents' = [contents EXCEPT ![n] = blank]
      BY <1>1, <3>1
    <3> QED BY <3>1, <3>2
  <2>h. PICK h : h = SlotOf(data, q).first
    OBVIOUS
  <2>k. PICK k : k = NameOf(data, q)
    OBVIOUS
  <2>1. ~IsDirectory(SlotOf(data, q))
    BY <1>16, <1>25
  <2>2. Content(k, h, chain) /\ k \in DOMAIN contents
    BY <1>3, <2>h, <2>k, <2>1, SeenSame DEF ContentsHold, Content
  <2>3. CASE q = p
    <3>1. b = Blank /\ k = n /\ h = c
      BY <1>7, <1>14, <2>1, <2>h, <2>k, <2>3
    <3>2. PICK blank : blank = Blank
      OBVIOUS
    <3>3. Len(<<c>>) = 1 /\ \A i \in 1 .. 1 : <<c>>[i] = c
      OBVIOUS
    <3>4. [i \in 1 .. Len(chain[c]) |-> data'[chain[c][i]]] = [i \in 1 .. 1 |-> blank]
      BY <1>5, <1>13, <3>1, <3>2, <3>3
    <3>5. <<blank>> = [i \in 1 .. 1 |-> blank]
      OBVIOUS
    <3>6. contents'[n] = [i \in 1 .. Len(chain[c]) |-> data'[chain[c][i]]] /\ n \in DOMAIN contents'
      BY <2>0, <2>2, <3>1, <3>2, <3>4, <3>5
    <3>7. Content(n, c, chain)'
      BY <3>6 DEF Content
    <3> QED BY <1>16, <1>25, <2>h, <2>k, <3>1, <3>7 DEF Content
  <2>4. CASE q # p
    <3>1. h # c /\ k # n /\ h \in Heads(V)
      BY <1>4, <1>5, <1>7, <1>8, <1>15, <2>h, <2>k, <2>4 DEF Named
    <3>2. IsChain(chain[h], h)
      BY <1>4, <3>1, HeadChain
    <3>3. \A x \in ToSet(chain[h]) : data'[x] = data[x]
      BY <1>11, <1>13, <3>1, <3>2 DEF IsChain
    <3>4. Content(k, h, chain)'
      <4>1. k \in DOMAIN contents' /\ contents'[k] = contents[k]
        BY <2>0, <2>2, <3>1
      <4> QED BY <1>4, <2>2, <3>1, <3>3, <4>1, ContentStays
    <3> QED BY <1>16, <1>25, <2>h, <2>k, <3>4 DEF Content
  <2> QED BY <2>3, <2>4
<1> QED BY <1>21, <1>22, <1>23, <1>24, <1>29, <1>30, Whole

-----------------------------------------------------------------------------
(* An entry is deleted *)

\* The volume around an entry p that was marked deleted.
Gone(D, V, chain, p) ==
  /\ TypesHold' /\ Blocks(data', chain, D)
  /\ EntriesIn(data', chain, D) = V \ {p} /\ Agree(data, data', V \ {p})
  /\ Owned(data', V \ {p}, {root_dir_first_cluster, SlotOf(data, p).first})
  /\ Named(data', V \ {p}, {NameOf(data, p)})
  /\ SlotOf(data, p).first # root_dir_first_cluster /\ SlotOf(data, p).first \in Heads(V)
  /\ {root_dir_first_cluster, SlotOf(data, p).first} \cup {SlotOf(data', q).first : q \in V \ {p}} = Heads(V)
  /\ ContentsHold(V \ {p}, chain)'
  /\ \A h \in Heads(V) \ D : \A x \in ToSet(chain[h]) : data'[x] = data[x]

\* A freed entry that no move is about leaves a whole volume without it.
LEMMA EntryLeaves ==
  ASSUME NEW D, NEW V, NEW chain, Holds(D, V, chain), call = Idle, NEW p \in V,
         data' = [data EXCEPT ![p.cluster] = Freed(p)], fat' = fat, contents' = contents
  PROVE  Gone(D, V, chain, p)
<1>1. TypesHold /\ VolumeHolds(D, V, chain) /\ ContentsHold(V, chain)
  BY DEF Holds
<1>2. Hidden = 0 /\ Roots = {root_dir_first_cluster} /\ Pending = {} /\ PendingName = {}
  BY Resting
<1>3. /\ Chains(fat, Heads(V), chain) /\ Blocks(data, chain, D)
      /\ Owned(data, V, {root_dir_first_cluster}) /\ Named(data, V, {})
  BY <1>1, <1>2 DEF VolumeHolds
<1>4. V = EntriesIn(data, chain, D) /\ D \subseteq Heads(V) /\ V \subseteq Place
       /\ (\A q \in V : SlotOf(data, q).first \in Heads(V))
       /\ \A q \in V : ~Leads(data, Hidden, q) => SlotOf(data, q).first \notin D
  BY <1>1, VolumeFacts
<1>5. Left(data, data', chain, D, p)
  <2>1. PICK d : d = data
    OBVIOUS
  <2>2. PICK e : e = data'
    OBVIOUS
  <2>3. EntryGoes(d, chain, D, p)
    BY <1>1, <1>3, <1>4, <2>1 DEF EntryGoes, TypesHold
  <2>4. Freed(p) = [d[p.cluster] EXCEPT ![p.index] = Marked(@, MarkAt(d, p))]
    <3>1. FreedMark(p) = MarkAt(d, p)
      BY <2>1 DEF FreedMark, MarkAt, MarkIn
    <3> QED BY <2>1, <3>1 DEF Freed
  <2>5. e = [d EXCEPT ![p.cluster] = [d[p.cluster] EXCEPT ![p.index] = Marked(@, MarkAt(d, p))]]
    <3>1. PICK b : b = Freed(p)
      OBVIOUS
    <3>2. e = [d EXCEPT ![p.cluster] = b]
      BY <2>1, <2>2, <3>1
    <3> QED BY ONLY <2>4, <3>1, <3>2
  <2>6. Left(d, e, chain, D, p)
    BY ONLY <2>3, <2>5, VolumeFreed, Zenon
  <2> QED BY ONLY <2>1, <2>2, <2>6
<1>6. /\ DOMAIN data' = Cluster /\ Blocks(data', chain, D) /\ EntriesIn(data', chain, D) = V \ {p}
      /\ Agree(data, data', V \ {p}) /\ SameBut(data, data', p.cluster)
  BY <1>4, <1>5 DEF Left, Agree
<1>7. TypesHold'
  BY <1>1, <1>6 DEF TypesHold
<1>8. \A q \in V \ {p} : SlotOf(data', q) = SlotOf(data, q) /\ NameOf(data', q) = NameOf(data, q)
  BY <1>6 DEF Agree, NameOf
<1>9. /\ Owned(data', V \ {p}, {root_dir_first_cluster, SlotOf(data, p).first})
      /\ SlotOf(data, p).first # root_dir_first_cluster
  BY <1>3, <1>8 DEF Owned
<1>10. Named(data', V \ {p}, {NameOf(data, p)})
  BY <1>3, <1>8 DEF Named
<1>11. {root_dir_first_cluster, SlotOf(data, p).first} \cup {SlotOf(data', q).first : q \in V \ {p}} = Heads(V)
  BY <1>2, <1>8 DEF Heads
<1>12. ASSUME NEW h \in Heads(V) \ D, NEW x \in ToSet(chain[h]) PROVE data'[x] = data[x]
  <2>1. PICK b \in D : p.cluster \in ToSet(chain[b])
    BY <1>4 DEF EntriesIn
  <2>2. PICK H : H = Heads(V)
    OBVIOUS
  <2>3. PICK k : k = p.cluster
    OBVIOUS
  <2>5. b \in H /\ h \in H /\ b # h /\ k \in ToSet(chain[b]) /\ Chains(fat, H, chain)
    BY <1>3, <1>4, <2>1, <2>2, <2>3
  <2>6. k \notin ToSet(chain[h]) /\ IsChain(chain[h], h)
    BY <2>5, ChainsApart, HeadChain
  <2>7. x # k /\ x \in Cluster
    BY <1>12, <2>6 DEF IsChain
  <2> QED BY <1>6, <2>3, <2>7 DEF SameBut
<1>13. ContentsHold(V \ {p}, chain)'
  <2>1. \A q : SlotAt(q)' = SlotOf(data', q) /\ NameAt(q)' = NameOf(data', q)
    BY DEF SlotAt, SlotOf, NameAt, NameOf
  <2> SUFFICES ASSUME NEW q \in V \ {p}, ~IsDirectory(SlotAt(q)')
               PROVE  Content(NameAt(q), SlotAt(q).first, chain)'
    BY DEF ContentsHold
  <2>h. PICK h : h = SlotOf(data, q).first
    OBVIOUS
  <2>k. PICK k : k = NameOf(data, q)
    OBVIOUS
  <2>2. ~IsDirectory(SlotOf(data, q)) /\ ~Leads(data, Hidden, q)
    BY <1>8, <2>1 DEF Leads
  <2>3. h \in Heads(V) \ D /\ Content(k, h, chain) /\ k \in DOMAIN contents
    BY <1>1, <1>4, <2>h, <2>k, <2>2, SeenSame DEF ContentsHold, Content
  <2>4. \A x \in ToSet(chain[h]) : data'[x] = data[x]
    BY <1>12, <2>3
  <2>5. Content(k, h, chain)'
    BY <1>3, <2>3, <2>4, ContentStays
  <2>6. NameAt(q)' = k /\ SlotAt(q)'.first = h
    BY <1>8, <2>1, <2>h, <2>k
  <2> QED BY ONLY <2>5, <2>6 DEF Content
<1> QED BY <1>4, <1>6, <1>7, <1>9, <1>10, <1>11, <1>12, <1>13 DEF Gone

\* What a node says of its entry.
LEMMA NodeFacts ==
  ASSUME NEW D, NEW V, NEW chain, Holds(D, V, chain), call = Idle, NEW n \in DOMAIN nodes
  PROVE  LET p == nodes[n].place
             slot == SlotOf(data, p)
         IN /\ p \in V /\ NameOf(data, p) = n /\ NodeFits(nodes[n], slot, chain)
            /\ nodes[n].layout[1] = slot.first
            /\ IsDirectory(nodes[n]) <=> IsDirectory(slot)
<1>1. NodesHold(V, chain) /\ VolumeHolds(D, V, chain) /\ ~Moved(n)
  BY DEF Holds, Moved, Doing, Idle
<1>2. PICK p : p = nodes[n].place
  OBVIOUS
<1>3. PICK slot : slot = SlotOf(data, p)
  OBVIOUS
<1>4. p \in V /\ NameOf(data, p) = n /\ NodeFits(nodes[n], slot, chain)
  BY <1>1, <1>2, <1>3, SeenSame DEF NodesHold
<1>5. slot.first \in Heads(V) /\ Chains(fat, Heads(V), chain)
  BY <1>1, <1>3, <1>4, VolumeFacts DEF VolumeHolds
<1>6. PICK s : s = chain[slot.first]
  OBVIOUS
<1>7. s \in Seq(Cluster) /\ Len(s) \in Nat \ {0} /\ s[1] = slot.first
  BY <1>5, <1>6, HeadChain DEF IsChain
<1>8. PICK m \in 1 .. Len(s) : nodes[n].layout = SubSeq(s, 1, m)
  BY <1>4, <1>6 DEF NodeFits
<1>9. nodes[n].layout[1] = slot.first
  BY <1>7, <1>8, LayoutFacts
<1>10. IsDirectory(nodes[n]) <=> IsDirectory(slot)
  BY <1>4, AttributesKept DEF NodeFits, IsDirectory
<1> QED BY <1>2, <1>3, <1>4, <1>9, <1>10

\* A directory that holds nothing has no entry in its clusters.
LEMMA NothingIn ==
  ASSUME NEW D, NEW V, NEW chain, VolumeHolds(D, V, chain), NEW f \in D,
         ~ \E c \in ToSet(ChainOf(f)) : \E i \in Listed(data[c]) : ~IsDots(data[c][i])
  PROVE  \A q \in V : q.cluster \notin ToSet(chain[f])
<1>1. f \in Heads(V) /\ Chains(fat, Heads(V), chain) /\ V = EntriesIn(data, chain, D)
  BY VolumeFacts DEF VolumeHolds
<1>2. ChainOf(f) = chain[f]
  BY <1>1, HeadChains
<1> QED BY <1>1, <1>2 DEF EntriesIn, Shown, SlotOf

\* fat_fs_delete_node frees the entry.
LEMMA DeleteKeeps ==
  ASSUME FatInv, NEW n, DeleteEntry(n), Sound'
  PROVE  FatInv'
<1>0. PICK p : p = nodes[n].place
  OBVIOUS
<1>f. PICK f : f = SlotOf(data, p).first
  OBVIOUS
<1>1. /\ call = Idle /\ Sound /\ n \in DOMAIN nodes
      /\ data' = [data EXCEPT ![p.cluster] = Freed(p)]
      /\ call' = [op |-> "free", next |-> nodes[n].layout[1]]
      /\ nodes' = Restrict(nodes, DOMAIN nodes \ {n})
      /\ fat' = fat /\ contents' = contents /\ faulted' = faulted
      /\ IsDirectory(nodes[n]) => ~HoldsEntries(n)
  BY <1>0 DEF DeleteEntry, Begin, Ready, Sound, Write, Spoil
<1>2. PICK D, V, chain : Holds(D, V, chain)
  BY <1>1 DEF FatInv
<1>3. VolumeHolds(D, V, chain) /\ Accounted(V, chain) /\ NodesHold(V, chain)
  BY <1>2 DEF Holds
<1>4. /\ p \in V /\ NameOf(data, p) = n /\ nodes[n].layout[1] = f
      /\ IsDirectory(nodes[n]) <=> IsDirectory(SlotOf(data, p))
  BY <1>0, <1>f, <1>1, <1>2, NodeFacts
<1>5. Gone(D, V, chain, p)
  BY <1>1, <1>2, <1>4, EntryLeaves
<1>6. Hidden = 0 /\ Roots = {root_dir_first_cluster} /\ Pending = {} /\ PendingName = {}
  BY <1>1, Resting
<1>7. /\ Hidden' = 0 /\ Roots' = {root_dir_first_cluster} /\ Pending' = {f} /\ PendingName' = {}
      /\ call'.op = "free"
  BY <1>1, <1>4 DEF Hidden, Roots, Pending, PendingName, Doing
<1>8. Tree(data, 0, chain, {root_dir_first_cluster}, D, V) /\ Chains(fat, Heads(V), chain)
      /\ Owned(data, V, {root_dir_first_cluster})
  BY <1>3, <1>6 DEF VolumeHolds
<1>9. \E E \in SUBSET D : Tree(data', 0, chain, {root_dir_first_cluster}, E, V \ {p})
  <2>1. CASE ~IsDirectory(SlotOf(data, p))
    <3>1. ~Leads(data, 0, p)
      BY <2>1 DEF Leads
    <3>2. Tree(data', 0, chain, {root_dir_first_cluster}, D, V \ {p})
      <4>1. EntriesIn(data', chain, D) = V \ {p} /\ Agree(data, data', V \ {p})
        BY <1>5 DEF Gone
      <4> QED BY <1>4, <1>8, <3>1, <4>1, TreeLeft
    <3> QED BY <3>2
  <2>2. CASE IsDirectory(SlotOf(data, p))
    <3>1. Leads(data, 0, p)
      <4>1. f \in Heads(V)
        BY <1>5, <1>f DEF Gone
      <4>2. f \in Cluster
        BY <1>8, <4>1, HeadChain DEF IsChain
      <4> QED BY <1>f, <2>2, <4>2, ClusterFacts DEF Leads
    <3>2. f \in D \ {root_dir_first_cluster}
      BY <1>4, <1>5, <1>f, <1>8, <3>1 DEF Gone, Tree
    <3>3. \A q \in V : SlotOf(data, q).first = f => q = p
      BY <1>4, <1>f, <1>8 DEF Owned
    <3>4. ~ \E c \in ToSet(ChainOf(f)) : \E i \in Listed(data[c]) : ~IsDots(data[c][i])
      BY <1>1, <1>4, <2>2 DEF HoldsEntries
    <3>5. \A q \in V : q.cluster \notin ToSet(chain[f])
      BY <1>3, <3>2, <3>4, NothingIn
    <3>6. Tree(data', 0, chain, {root_dir_first_cluster}, D \ {f}, V \ {p})
      <4>1. EntriesIn(data', chain, D) = V \ {p} /\ Agree(data, data', V \ {p})
        BY <1>5 DEF Gone
      <4> QED BY <1>4, <1>f, <1>8, <3>2, <3>3, <3>5, <4>1, TreePruned
    <3> QED BY <3>6
  <2> QED BY <2>1, <2>2
<1>10. PICK E \in SUBSET D : Tree(data', 0, chain, {root_dir_first_cluster}, E, V \ {p})
  BY <1>9
<1>11. Heads(V \ {p})' = Heads(V)
  BY <1>5, <1>7, <1>f DEF Gone, Heads
<1>12. VolumeHolds(E, V \ {p}, chain)'
  <2>1. Blocks(data', chain, E)
    BY <1>5 DEF Gone, Blocks
  <2>2. Owned(data', V \ {p}, {root_dir_first_cluster, f}) /\ Named(data', V \ {p}, {}) /\ f # root_dir_first_cluster
    BY <1>5, <1>f DEF Gone, Named
  <2>3. {root_dir_first_cluster} \cup {f} = {root_dir_first_cluster, f}
    OBVIOUS
  <2>4. Chains(fat', Heads(V \ {p})', chain)
    BY <1>1, <1>8, <1>11
  <2> QED BY <1>7, <1>10, <2>1, <2>2, <2>3, <2>4 DEF VolumeHolds
<1>13. TypesHold' /\ ContentsHold(V \ {p}, chain)'
  BY <1>5 DEF Gone
<1>14. Accounted(V \ {p}, chain)'
  BY <1>1, <1>3, <1>11 DEF Accounted
<1>15. CallHolds(E, V \ {p}, chain)'
  BY <1>1, <1>7 DEF CallHolds, Doing
<1>16. NodesHold(V \ {p}, chain)'
  <2>1. DOMAIN nodes' = DOMAIN nodes \ {n} /\ \A k \in DOMAIN nodes' : nodes'[k] = nodes[k]
    BY <1>1 DEF Restrict
  <2>2. \A k : ~Moved(k)
    BY <1>1 DEF Moved, Doing, Idle
  <2>3. \A q : SlotAt(q)' = SlotOf(data', q) /\ NameAt(q)' = NameOf(data', q)
    BY DEF SlotAt, SlotOf, NameAt, NameOf
  <2>4. \A q \in V \ {p} : SlotOf(data', q) = SlotOf(data, q) /\ NameOf(data', q) = NameOf(data, q)
    BY <1>5 DEF Gone, Agree, NameOf
  <2>5. ASSUME NEW k \in DOMAIN nodes'
        PROVE  /\ nodes'[k].place \in V \ {p} /\ NameAt(nodes[k].place)' = k
               /\ NodeFits(nodes'[k], SlotAt(nodes[k].place)', chain)
    <3>1. PICK w : w = nodes[k].place
      OBVIOUS
    <3>2. w \in V /\ NameOf(data, w) = k /\ NodeFits(nodes[k], SlotOf(data, w), chain) /\ k # n
      BY <1>3, <2>1, <2>2, <3>1, SeenSame DEF NodesHold
    <3>3. w \in V \ {p} /\ nodes'[k].place = w /\ nodes'[k] = nodes[k]
      BY <1>4, <2>1, <3>1, <3>2
    <3>4. NameAt(nodes[k].place)' = NameOf(data', w) /\ SlotAt(nodes[k].place)' = SlotOf(data', w)
      BY <3>3 DEF NameAt, SlotAt, NameOf, SlotOf
    <3> QED BY <2>4, <3>2, <3>3, <3>4
  <2>6. ~faulted => \A q \in V \ {p} : NameOf(data', q) \in DOMAIN nodes'
    <3> SUFFICES ASSUME ~faulted, NEW q \in V \ {p} PROVE NameOf(data', q) \in DOMAIN nodes'
      OBVIOUS
    <3>1. NameOf(data, q) \in DOMAIN nodes
      BY <1>1, <1>3, SeenSame DEF NodesHold, Doing, Idle
    <3>2. NameOf(data', q) # n
      BY <1>4, <1>5 DEF Gone, Named
    <3> QED BY <2>1, <2>4, <3>1, <3>2
  <2> QED BY <1>1, <2>3, <2>5, <2>6 DEF NodesHold
<1> QED BY <1>12, <1>13, <1>14, <1>15, <1>16, Whole

-----------------------------------------------------------------------------
(* The clusters of a deleted file are freed *)

\* A chain without its first cluster is the chain of the second.
LEMMA TailOfPath ==
  ASSUME NEW f, NEW s, Path(f, s), Len(s) > 1
  PROVE  /\ Path(f, Tail(s)) /\ Tail(s)[1] = s[2] /\ s[2] = f[s[1]]
         /\ ToSet(Tail(s)) = ToSet(s) \ {s[1]} /\ s[2] \in ToSet(Tail(s))
<1>1. s \in Seq(Cluster) /\ Len(s) \in Nat \ {0} /\ ToSet(s) = {s[i] : i \in 1 .. Len(s)}
  BY PathLength DEF Path, ToSet
<1>2. PICK t : t = Tail(s)
  OBVIOUS
<1>3. t \in Seq(Cluster) /\ Len(t) = Len(s) - 1 /\ \A i \in 1 .. Len(t) : t[i] = s[i + 1]
  BY <1>1, <1>2
<1>4. ToSet(t) = {t[i] : i \in 1 .. Len(t)} /\ 1 \in 1 .. Len(t) /\ Len(t) \in Nat
  BY <1>1, <1>3 DEF ToSet
<1>5. t[1] = s[2] /\ s[2] = f[s[1]]
  BY <1>1, <1>3, <1>4 DEF Path
<1>6. ToSet(t) = ToSet(s) \ {s[1]}
  <2>1. ASSUME NEW c \in ToSet(t) PROVE c \in ToSet(s) \ {s[1]}
    <3>1. PICK i \in 1 .. Len(t) : c = t[i]
      BY <1>4
    <3>2. i + 1 \in 1 .. Len(s) /\ 1 \in 1 .. Len(s) /\ i + 1 # 1 /\ c = s[i + 1]
      BY <1>1, <1>3, <3>1
    <3> QED BY <1>1, <3>2 DEF Path
  <2>2. ASSUME NEW c \in ToSet(s) \ {s[1]} PROVE c \in ToSet(t)
    <3>1. PICK i \in 1 .. Len(s) : c = s[i]
      BY <1>1
    <3>2. i - 1 \in 1 .. Len(t) /\ c = t[i - 1]
      BY <1>1, <1>3, <2>2, <3>1
    <3> QED BY <1>4, <3>2
  <2> QED BY <2>1, <2>2
<1>7. Path(f, t)
  <2>1. \A i \in 1 .. Len(t) : t[i] < SectorEntries
    BY <1>1, <1>3 DEF Path
  <2>2. \A i \in 1 .. Len(t) - 1 : f[t[i]] = t[i + 1]
    BY <1>1, <1>3 DEF Path
  <2>3. f[t[Len(t)]] = FAT_EOF
    BY <1>1, <1>3, <1>4 DEF Path
  <2>4. \A i, j \in 1 .. Len(t) : t[i] = t[j] => i = j
    <3> TAKE i, j \in 1 .. Len(t)
    <3>1. i + 1 \in 1 .. Len(s) /\ j + 1 \in 1 .. Len(s)
      BY <1>1, <1>3
    <3> QED BY <1>3, <3>1 DEF Path
  <2>5. t # <<>>
    BY <1>1, <1>3
  <2> QED BY <1>3, <2>1, <2>2, <2>3, <2>4, <2>5 DEF Path
<1> QED BY <1>2, <1>4, <1>5, <1>6, <1>7

\* The chains when the first cluster x of one was freed, and y is its next.
Shorter(H, chain, x, y, G, next) ==
  /\ Chains(fat', G, next)
  /\ H \ {x} \subseteq G /\ G \subseteq (H \ {x}) \cup {y}
  /\ \A h \in H \ {x} : next[h] = chain[h] /\ h # y
  /\ \A c \in ToSet(chain[x]) \ {x} : y \in G /\ c \in ToSet(next[y])

\* Freeing the first cluster of a chain leaves the chain of the next.
LEMMA ChainShortens ==
  ASSUME NEW H, NEW chain, Chains(fat, H, chain), NEW x \in H, TypesHold,
         fat' = [fat EXCEPT ![x] = FreeCluster], NEW y, y = fat[x],
         NEW G, G = (H \ {x}) \cup (IF y \in Cluster THEN {y} ELSE {})
  PROVE  \E next : Shorter(H, chain, x, y, G, next)
<1>1. PICK s : s = chain[x]
  OBVIOUS
<1>2. Path(fat, s) /\ IsChain(s, x)
  BY <1>1, HeadChain
<1>3. \A c \in Cluster : c # x => fat'[c] = fat[c]
  BY ClusterFacts DEF TypesHold
<1>4. ASSUME NEW h \in H \ {x}
      PROVE  Path(fat', chain[h]) /\ chain[h][1] = h /\ ToSet(chain[h]) \cap ToSet(s) = {} /\ h \in ToSet(chain[h])
  <2>1. PICK t : t = chain[h]
    OBVIOUS
  <2>2. Path(fat, t) /\ IsChain(t, h)
    BY <2>1, HeadChain
  <2>3. ToSet(t) \cap ToSet(s) = {}
    BY <1>1, <2>1 DEF Chains
  <2>4. \A c \in ToSet(t) : fat'[c] = fat[c]
    BY <1>2, <1>3, <2>2, <2>3 DEF IsChain
  <2>5. Path(fat', t)
    BY ONLY <2>2, <2>4, PathStays
  <2> QED BY <2>1, <2>2, <2>3, <2>5 DEF IsChain
<1>5. CASE Len(s) = 1
  <2>1. y \notin Cluster /\ ToSet(s) = {x}
    BY <1>2, <1>5, ClusterFacts DEF Path, IsChain
  <2>2. G = H \ {x}
    BY <2>1
  <2>3. Chains(fat', G, chain)
    BY <1>4, <2>2 DEF Chains
  <2>4. \A h \in H \ {x} : h # y
    <3> TAKE h \in H \ {x}
    <3>1. h \in Cluster
      BY HeadChain DEF IsChain
    <3> QED BY <2>1, <3>1
  <2>5. Shorter(H, chain, x, y, G, chain)
    BY <1>1, <2>1, <2>2, <2>3, <2>4 DEF Shorter
  <2> QED BY <2>5
<1>6. CASE Len(s) # 1
  <2>1. PICK t : t = Tail(s)
    OBVIOUS
  <2>2. /\ Path(fat, t) /\ t[1] = y /\ ToSet(t) = ToSet(s) \ {x} /\ y \in ToSet(t)
    <3>0. Len(s) \in Nat \ {0}
      BY <1>2 DEF IsChain
    <3>1. Len(s) > 1
      <4>1. PICK m : m = Len(s)
        OBVIOUS
      <4>2. m \in Nat /\ m # 0 /\ m # 1
        BY <1>6, <3>0, <4>1
      <4>3. m > 1
        BY ONLY <4>2
      <4> QED BY <4>1, <4>3
    <3> QED BY <1>2, <2>1, <3>1, TailOfPath DEF IsChain
  <2>3. y \in Cluster /\ y \in ToSet(s) /\ y # x
    BY <1>2, <2>2 DEF IsChain
  <2>4. \A c \in ToSet(t) : fat'[c] = fat[c]
    BY <1>2, <1>3, <2>2 DEF IsChain
  <2>5. Path(fat', t)
    BY ONLY <2>2, <2>4, PathStays
  <2>6. \A h \in H \ {x} : h # y
    BY <1>4, <2>3
  <2>7. PICK next : next = [h \in H \cup {y} |-> IF h = y THEN t ELSE chain[h]]
    OBVIOUS
  <2>8. next[y] = t /\ \A h \in H \ {x} : next[h] = chain[h]
    BY <2>6, <2>7
  <2>9. G = (H \ {x}) \cup {y}
    BY <2>3
  <2>10. Chains(fat', G, next)
    <3>1. \A h \in G : Path(fat', next[h]) /\ next[h][1] = h
      BY <1>4, <2>2, <2>5, <2>8, <2>9
    <3>2. \A h \in H \ {x} : ToSet(next[h]) \cap ToSet(next[y]) = {}
      BY <1>4, <2>2, <2>8
    <3>3. \A g, h \in H \ {x} : g # h => ToSet(next[g]) \cap ToSet(next[h]) = {}
      BY <2>8 DEF Chains
    <3> QED BY <2>9, <3>1, <3>2, <3>3 DEF Chains
  <2>11. Shorter(H, chain, x, y, G, next)
    BY <1>1, <2>2, <2>6, <2>8, <2>9, <2>10 DEF Shorter
  <2> QED BY <2>11
<1> QED BY <1>5, <1>6

\* fat_fs_delete_node frees one cluster more.
LEMMA FreeKeeps ==
  ASSUME FatInv, FreeChain, Sound
  PROVE  FatInv'
<1>x. PICK x : x = call.next
  OBVIOUS
<1>y. PICK y : y = fat[x]
  OBVIOUS
<1>1. /\ call.op = "free"
      /\ fat' = [fat EXCEPT ![x] = FreeCluster]
      /\ call' = IF y \in Cluster THEN [call EXCEPT !.next = y] ELSE Idle
      /\ data' = data /\ nodes' = nodes /\ contents' = contents /\ faulted' = faulted
  BY <1>x, <1>y DEF FreeChain, Doing, Return
<1>2. PICK D, V, chain : Holds(D, V, chain)
  BY DEF FatInv
<1>3. TypesHold /\ VolumeHolds(D, V, chain) /\ Accounted(V, chain) /\ ContentsHold(V, chain) /\ NodesHold(V, chain)
      /\ CallHolds(D, V, chain)
  BY <1>2 DEF Holds
<1>4. call = [op |-> "free", next |-> x]
  BY <1>x, <1>1, <1>3 DEF CallHolds, Doing
<1>5. call' = IF y \in Cluster THEN [op |-> "free", next |-> y] ELSE Idle
  BY <1>1, <1>4
<1>6. Hidden = 0 /\ Roots = {root_dir_first_cluster} /\ Pending = {x} /\ PendingName = {}
  BY <1>x, <1>1 DEF Hidden, Roots, Pending, PendingName, Doing
<1>7. /\ Hidden' = 0 /\ Roots' = {root_dir_first_cluster} /\ PendingName' = {}
      /\ Pending' = IF y \in Cluster THEN {y} ELSE {}
      /\ call'.op = IF y \in Cluster THEN "free" ELSE "none"
  BY <1>5 DEF Hidden, Roots, Pending, PendingName, Doing, Idle
<1>8. /\ Tree(data, 0, chain, {root_dir_first_cluster}, D, V) /\ Chains(fat, Heads(V), chain) /\ Blocks(data, chain, D)
      /\ Owned(data, V, {root_dir_first_cluster, x}) /\ root_dir_first_cluster # x
      /\ Named(data, V, {})
  <2>1. {root_dir_first_cluster} \cup {x} = {root_dir_first_cluster, x}
    OBVIOUS
  <2> QED BY <1>3, <1>6, <2>1 DEF VolumeHolds
<1>9. V = EntriesIn(data, chain, D) /\ D \subseteq Heads(V)
       /\ \A q \in V : SlotOf(data, q).first \in Heads(V)
  BY <1>3, VolumeFacts
<1>10. x \notin D /\ x \in Heads(V) /\ \A q \in V : SlotOf(data, q).first # x
  BY <1>3, <1>6, <1>8, PendingApart, SeenSame
<1>11. Heads(V)' = (Heads(V) \ {x}) \cup (IF y \in Cluster THEN {y} ELSE {})
  BY <1>1, <1>6, <1>7, <1>8, <1>10 DEF Heads, SlotOf
<1>12. PICK next : Shorter(Heads(V), chain, x, y, Heads(V)', next)
  BY <1>1, <1>3, <1>y, <1>8, <1>10, <1>11, ChainShortens
<1>13. /\ Chains(fat', Heads(V)', next)
       /\ \A h \in Heads(V) \ {x} : h \in Heads(V)' /\ next[h] = chain[h] /\ h # y
       /\ \A c \in ToSet(chain[x]) \ {x} : y \in Heads(V)' /\ c \in ToSet(next[y])
  BY <1>12 DEF Shorter
<1>14. \A c \in D : next[c] = chain[c] /\ c # y
  BY <1>9, <1>10, <1>13
<1>15. \A q \in V : next[SlotOf(data, q).first] = chain[SlotOf(data, q).first] /\ SlotOf(data, q).first # y
  BY <1>9, <1>10, <1>13
<1>16. /\ EntriesIn(data, next, D) = V /\ Agree(data, data, V) /\ Blocks(data, next, D)
  BY <1>8, <1>9, <1>14, VolumeSame DEF Agree
<1>17. Tree(data, 0, next, {root_dir_first_cluster}, D, V)
  BY <1>8, <1>14, <1>16, TreeSame
<1>18. root_dir_first_cluster \notin Pending' /\ Owned(data, V, {root_dir_first_cluster} \cup Pending')
  <2>1. root_dir_first_cluster \in Heads(V) \ {x}
    BY <1>8 DEF Heads
  <2> QED BY <1>7, <1>8, <1>13, <1>15, <2>1 DEF Owned
<1>19. VolumeHolds(D, V, next)'
  BY <1>1, <1>7, <1>8, <1>13, <1>16, <1>17, <1>18 DEF VolumeHolds
<1>20. TypesHold'
  <2>1. x \in Cluster
    BY <1>8, <1>10, HeadChain DEF IsChain
  <2>2. fat \in [FatEntry -> Nat] /\ fat[0] # 0 /\ fat[1] # 0 /\ DOMAIN data = Cluster
    BY <1>3 DEF TypesHold, FreeCluster
  <2>3. x # 0 /\ x # 1 /\ x \in FatEntry /\ 0 \in FatEntry /\ 1 \in FatEntry /\ 0 \in Nat
    BY <2>1, ClusterFacts DEF FatEntry, Cluster
  <2>4. fat' = [fat EXCEPT ![x] = 0]
    BY <1>1 DEF FreeCluster
  <2>5. fat' \in [FatEntry -> Nat] /\ fat'[0] # 0 /\ fat'[1] # 0
    BY <2>2, <2>3, <2>4
  <2> QED BY <1>1, <2>2, <2>5 DEF TypesHold, FreeCluster
<1>21. Accounted(V, next)'
  <2> SUFFICES ASSUME ~faulted, NEW c \in Cluster, fat'[c] # FreeCluster
               PROVE  \E h \in Heads(V)' : c \in ToSet(next[h])
    BY <1>1 DEF Accounted
  <2>1. fat[c] # FreeCluster /\ c # x
    BY <1>1, <1>3, ClusterFacts DEF TypesHold
  <2>2. PICK h \in Heads(V) : c \in ToSet(chain[h])
    BY <1>3, <2>1 DEF Accounted
  <2> QED BY <1>13, <2>1, <2>2
<1>22. CallHolds(D, V, next)'
  BY <1>5, <1>7 DEF CallHolds, Doing, Idle
<1>23. NodesHold(V, next)' /\ ContentsHold(V, next)'
  <2>1. (\A n : ~Moved(n)) /\ ~Doing("initialise") /\ ~Doing("unmounted")
    BY <1>1 DEF Moved, Doing
  <2> QED BY <1>1, <1>3, <1>15, <2>1, OthersKept, SeenSame
<1> QED BY <1>19, <1>20, <1>21, <1>22, <1>23, Whole

-----------------------------------------------------------------------------
(* The old entry of a moved file is removed *)

\* What the entry at a shown place looks like.
LEMMA ShownSlot ==
  ASSUME NEW D, NEW V, NEW chain, VolumeHolds(D, V, chain), NEW p \in V
  PROVE  IsSlot(SlotOf(data, p)) /\ SlotOf(data, p).name[1] \notin {"00", "E5", "."}
<1>1. V = EntriesIn(data, chain, D) /\ Blocks(data, chain, D)
  BY VolumeFacts DEF VolumeHolds
<1>2. p \in Place /\ (\E c \in D : p.cluster \in ToSet(chain[c])) /\ Shown(data, p)
  BY <1>1 DEF EntriesIn
<1>3. PICK b : b = data[p.cluster]
  OBVIOUS
<1>4. PICK i \in SlotIndex : i = p.index
  BY <1>2, PlaceFacts
<1>5. IsBlock(b) /\ i \in Listed(b) /\ ~IsDots(b[i])
  BY <1>1, <1>2, <1>3, <1>4 DEF Blocks, Shown, SlotOf
<1>6. IsSlot(b[i]) /\ ~IsDeleted(b[i]) /\ ~IsEnd(b[i])
  <2>1. i \in 0 .. i
    BY SlotNumbers
  <2> QED BY <1>5, <2>1 DEF IsBlock, Listed
<1>7. b[i].name[1] \notin {"00", "E5", "."}
  BY <1>5, <1>6 DEF IsDots, IsDeleted, IsEnd
<1> QED BY <1>3, <1>4, <1>6, <1>7 DEF SlotOf

\* The directory a file is moved to is reached without its old entry.
StillReached(d, chain, D, V, h) ==
  \A T \in SUBSET D : root_dir_first_cluster \in T /\ Closed(d, 0, chain, T, V) => h \in T

\* A directory outside what is moved is still reached without it.
LEMMA TargetStays ==
  ASSUME NEW D, NEW V, NEW chain, VolumeHolds(D, V, chain), Hidden = 0, Roots = {root_dir_first_cluster},
         NEW p \in V, NEW w \in V, p # w, NEW h, h = SlotOf(data, w).first, Leads(data, 0, w),
         NEW e, Agree(data, e, V \ {p}),
         Leads(data, 0, p) => w \notin EntriesFrom(SlotOf(data, p).first, Listed)
  PROVE  StillReached(e, chain, D, V \ {p}, h)
<1>1. Tree(data, 0, chain, {root_dir_first_cluster}, D, V) /\ V = EntriesIn(data, chain, D)
  BY VolumeFacts DEF VolumeHolds
<1>2. SUFFICES ASSUME NEW T \in SUBSET D, root_dir_first_cluster \in T, Closed(e, 0, chain, T, V \ {p})
               PROVE  h \in T
  BY DEF StillReached
<1>3. ASSUME NEW q \in V \ {p}, NEW c \in T, q.cluster \in ToSet(chain[c]), Leads(data, 0, q)
      PROVE  SlotOf(data, q).first \in T
  <2>1. SlotOf(e, q) = SlotOf(data, q)
    BY DEF Agree
  <2>2. Leads(e, 0, q)
    BY <1>3, <2>1 DEF Leads
  <2> QED BY <1>2, <1>3, <2>1, <2>2 DEF Closed
<1>4. PICK c \in D : w.cluster \in ToSet(chain[c])
  BY <1>1 DEF EntriesIn
<1>5. CASE ~Leads(data, 0, p)
  <2>1. Closed(data, 0, chain, T, V)
    BY <1>3, <1>5 DEF Closed
  <2>2. T = D
    BY <1>1, <1>2, <2>1 DEF Tree
  <2> QED BY <1>1, <2>2 DEF Tree
<1>6. CASE Leads(data, 0, p)
  <2>f. PICK f : f = SlotOf(data, p).first
    OBVIOUS
  <2>1. f \in D
    BY <1>1, <1>6, <2>f DEF Tree
  <2>2. PICK E : Below(D, V, chain, f, E)
    BY <2>1, FromIs
  <2>3. /\ E \subseteq D /\ EntriesFrom(f, Listed) = EntriesIn(data, chain, E)
        /\ f \in E /\ Closed(data, 0, chain, E, V)
    BY <2>2 DEF Below, Tree
  <2>4. Closed(data, 0, chain, T \cup E, V)
    <3> SUFFICES ASSUME NEW q \in V, NEW b \in T \cup E, q.cluster \in ToSet(chain[b]), Leads(data, 0, q)
                 PROVE  SlotOf(data, q).first \in T \cup E
      BY DEF Closed
    <3>1. CASE b \in E
      BY <2>3, <3>1 DEF Closed
    <3>2. CASE b \in T /\ q # p
      BY <1>3, <3>2
    <3>3. CASE q = p
      BY <2>f, <2>3, <3>3
    <3> QED BY <3>1, <3>2, <3>3
  <2>5. T \cup E = D
    <3>1. T \cup E \in SUBSET D /\ {root_dir_first_cluster} \subseteq T \cup E
      BY <1>2, <2>3
    <3> QED BY <1>1, <2>4, <3>1 DEF Tree
  <2>6. c \notin E
    <3>1. w \notin EntriesIn(data, chain, E)
      BY <1>6, <2>f, <2>3
    <3>2. w \in Place /\ Shown(data, w)
      BY <1>1 DEF EntriesIn
    <3> QED BY <1>4, <3>1, <3>2 DEF EntriesIn
  <2> QED BY <1>3, <1>4, <2>5, <2>6
<1> QED BY <1>5, <1>6

\* fat_fs_move_node frees the old entry.
LEMMA RemoveKeeps ==
  ASSUME FatInv, NEW n, NEW dir, MoveRemove(n, dir)
  PROVE  FatInv'
<1>0. PICK p : p = nodes[n].place
  OBVIOUS
<1>s. PICK slot : slot = SlotOf(data, p)
  OBVIOUS
<1>f. PICK f : f = slot.first
  OBVIOUS
<1>w. PICK w : w = nodes[dir].place
  OBVIOUS
<1>u. PICK u : u = Opened(dir)
  OBVIOUS
<1>1. /\ call = Idle /\ Sound /\ n \in DOMAIN nodes /\ dir \in DOMAIN nodes /\ IsDirectory(nodes[dir])
      /\ data' = [data EXCEPT ![p.cluster] = Freed(p)]
      /\ call' = [op |-> "place", name |-> n, dir |-> dir, slot |-> slot]
      /\ nodes' = u
      /\ fat' = fat /\ contents' = contents /\ faulted' = faulted
      /\ IsDirectory(nodes[n]) => ~Under(n, dir)
  BY <1>0, <1>s, <1>u, SeenSame DEF MoveRemove, Begin, Ready, Sound, Write
<1>2. PICK D, V, chain : Holds(D, V, chain)
  BY <1>1 DEF FatInv
<1>3. VolumeHolds(D, V, chain) /\ Accounted(V, chain) /\ NodesHold(V, chain) /\ ContentsHold(V, chain)
  BY <1>2 DEF Holds
<1>4. /\ p \in V /\ NameOf(data, p) = n /\ nodes[n].layout[1] = f /\ NodeFits(nodes[n], slot, chain)
      /\ IsDirectory(nodes[n]) <=> IsDirectory(slot)
  BY <1>0, <1>s, <1>f, <1>1, <1>2, NodeFacts
<1>5. /\ w \in V /\ NameOf(data, w) = dir /\ IsDirectory(SlotOf(data, w))
  BY <1>w, <1>1, <1>2, NodeFacts
<1>6. n # dir /\ p # w
  <2>1. n # dir
    BY <1>1, <1>4 DEF Under
  <2> QED BY <1>4, <1>5, <2>1
<1>7. Gone(D, V, chain, p)
  BY <1>1, <1>2, <1>4, EntryLeaves
<1>8. Hidden = 0 /\ Roots = {root_dir_first_cluster} /\ Pending = {} /\ PendingName = {}
  BY <1>1, Resting
<1>9. call'.op = "place" /\ call'.name = n /\ call'.dir = dir /\ call'.slot = slot
  BY <1>1
<1>10. PICK R : R = {root_dir_first_cluster} \cup IF IsDirectory(slot) THEN {f} ELSE {}
  OBVIOUS
<1>11. Hidden' = 0 /\ Roots' = R /\ Pending' = {f} /\ PendingName' = {n}
  BY <1>f, <1>9, <1>10 DEF Hidden, Roots, Pending, PendingName, Doing
<1>12. Tree(data, 0, chain, {root_dir_first_cluster}, D, V) /\ Chains(fat, Heads(V), chain)
  BY <1>3, <1>8 DEF VolumeHolds
<1>13. \A q \in V : SlotOf(data, q).first # 0 /\ SlotOf(data, q).first \in Heads(V)
  <2> TAKE q \in V
  <2>1. SlotOf(data, q).first \in Heads(V)
    BY <1>3, VolumeFacts
  <2>2. SlotOf(data, q).first \in Cluster
    BY <1>12, <2>1, HeadChain DEF IsChain
  <2> QED BY <2>1, <2>2, ClusterFacts
<1>14. (Leads(data, 0, p) <=> IsDirectory(slot)) /\ Leads(data, 0, w) /\ f \in Heads(V)
  BY <1>s, <1>f, <1>4, <1>5, <1>13 DEF Leads
<1>15. EntriesIn(data', chain, D) = V \ {p} /\ Agree(data, data', V \ {p})
  BY <1>7 DEF Gone
<1>16. Tree(data', 0, chain, R, D, V \ {p})
  BY <1>s, <1>f, <1>4, <1>10, <1>12, <1>14, <1>15, TreeLeft
<1>17. Heads(V \ {p})' = Heads(V)
  BY <1>s, <1>f, <1>7, <1>11 DEF Gone, Heads
<1>18. VolumeHolds(D, V \ {p}, chain)'
  <2>1. Blocks(data', chain, D)
    BY <1>7 DEF Gone
  <2>2. Owned(data', V \ {p}, {root_dir_first_cluster, f}) /\ Named(data', V \ {p}, {n}) /\ f # root_dir_first_cluster
    BY <1>s, <1>f, <1>4, <1>7 DEF Gone
  <2>3. {root_dir_first_cluster} \cup {f} = {root_dir_first_cluster, f}
    OBVIOUS
  <2>4. Chains(fat', Heads(V \ {p})', chain)
    BY <1>1, <1>12, <1>17
  <2> QED BY <1>11, <1>16, <2>1, <2>2, <2>3, <2>4 DEF VolumeHolds
<1>19. TypesHold' /\ ContentsHold(V \ {p}, chain)'
  BY <1>7 DEF Gone
<1>20. Accounted(V \ {p}, chain)'
  BY <1>1, <1>3, <1>17 DEF Accounted
<1>21. /\ DOMAIN u = DOMAIN nodes /\ u[dir].layout_loaded /\ u[n] = nodes[n]
       /\ \A k \in DOMAIN nodes : k # dir => u[k] = nodes[k]
       /\ u[dir].place = w /\ IsDirectory(u[dir])
       /\ NodeFits(u[dir], SlotOf(data, w), chain)
  <2>1. ~Moved(dir)
    BY <1>1 DEF Moved, Doing, Idle
  <2> QED BY <1>u, <1>w, <1>1, <1>3, <1>6, <2>1, OpenedFits, SeenSame DEF IsDirectory
<1>22. \A q \in V \ {p} : SlotOf(data', q) = SlotOf(data, q) /\ NameOf(data', q) = NameOf(data, q)
  BY <1>15 DEF Agree, NameOf
<1>23. PICK h : h = SlotOf(data, w).first
  OBVIOUS
<1>24. StillReached(data', chain, D, V \ {p}, h)
  <2>1. Leads(data, 0, p) => w \notin EntriesFrom(SlotOf(data, p).first, Listed)
    BY <1>s, <1>f, <1>w, <1>1, <1>4, <1>14 DEF Under
  <2> QED BY <1>3, <1>4, <1>5, <1>6, <1>8, <1>14, <1>15, <1>23, <2>1, TargetStays
<1>25. ~IsDirectory(slot) => Content(n, f, chain)'
  <2> SUFFICES ASSUME ~IsDirectory(slot) PROVE Content(n, f, chain)'
    OBVIOUS
  <2>1. Content(n, f, chain) /\ n \in DOMAIN contents
    BY <1>s, <1>f, <1>3, <1>4, SeenSame DEF ContentsHold, Content
  <2>2. f \in Heads(V) \ D
    <3>1. \A q \in V : ~Leads(data, Hidden, q) => SlotOf(data, q).first \notin D
      BY <1>3, VolumeFacts
    <3> QED BY <1>s, <1>f, <1>4, <1>8, <1>14, <3>1
  <2>3. \A x \in ToSet(chain[f]) : data'[x] = data[x]
    BY <1>7, <2>2 DEF Gone
  <2> QED BY <1>1, <1>12, <2>1, <2>2, <2>3, ContentStays
<1>26. IsSlot(slot) /\ slot.name[1] \notin {"00", "E5", "."} /\ RetrievedName(slot.name) = n
  BY <1>s, <1>3, <1>4, ShownSlot DEF NameOf
<1>27. CallHolds(D, V \ {p}, chain)'
  <2>1. w \in V \ {p} /\ SlotAt(w)' = SlotOf(data', w) /\ SlotOf(data', w).first = h
    BY <1>5, <1>6, <1>22, <1>23 DEF SlotAt, SlotOf
  <2>2. SlotAt(nodes[call.dir].place)'.first = h
    <3>1. nodes'[call'.dir].place = w
      BY <1>1, <1>9, <1>21
    <3> QED BY <2>1, <3>1 DEF SlotAt
  <2>3. /\ nodes'[call'.name] = nodes[n] /\ nodes'[call'.dir] = u[dir] /\ nodes[n].place = p
    BY <1>0, <1>1, <1>9, <1>21
  <2>4. NodeFits(nodes[call.name], call.slot, chain)'
    BY <1>4, <1>9, <2>3
  <2>5. /\ {call'.name, call'.dir} \subseteq DOMAIN nodes' /\ call'.name # call'.dir
        /\ nodes'[call'.name].place \notin V \ {p}
        /\ IsDirectory(nodes'[call'.dir]) /\ nodes'[call'.dir].layout_loaded
    BY <1>1, <1>6, <1>9, <1>21, <2>3
  <2>6. (\A T \in SUBSET D : root_dir_first_cluster \in T /\ Closed(data, 0, chain, T, V \ {p})
              => SlotAt(nodes[call.dir].place).first \in T)'
    BY <1>24, <2>2 DEF StillReached
  <2>7. ~IsDirectory(call'.slot) => Content(call.name, call.slot.first, chain)'
    BY <1>f, <1>9, <1>25 DEF Content
  <2>8. call' = [op |-> "place", name |-> call'.name, dir |-> call'.dir, slot |-> call'.slot]
    BY <1>1, <1>9
  <2> QED BY <1>9, <1>26, <2>4, <2>5, <2>6, <2>7, <2>8 DEF CallHolds, Doing
<1>28. NodesHold(V \ {p}, chain)'
  <2>1. \A k : (~Moved(k)) /\ (~Moved(k)' <=> k # n)
    BY <1>1, <1>9 DEF Moved, Doing, Idle
  <2>2. \A q : SlotAt(q)' = SlotOf(data', q) /\ NameAt(q)' = NameOf(data', q)
    BY DEF SlotAt, SlotOf, NameAt, NameOf
  <2>3. ASSUME NEW k \in DOMAIN nodes', k # n
        PROVE  /\ nodes'[k].place \in V \ {p} /\ NameAt(nodes[k].place)' = k
               /\ NodeFits(nodes'[k], SlotAt(nodes[k].place)', chain)
    <3>0. k \in DOMAIN nodes
      BY <1>1, <1>21
    <3>1. PICK x : x = nodes[k].place
      OBVIOUS
    <3>2. x \in V /\ NameOf(data, x) = k /\ NodeFits(nodes[k], SlotOf(data, x), chain)
      BY <1>3, <2>1, <3>0, <3>1, SeenSame DEF NodesHold
    <3>3. x \in V \ {p} /\ u[k].place = x /\ NodeFits(u[k], SlotOf(data, x), chain)
      <4>1. CASE k = dir
        BY <1>w, <1>6, <1>21, <3>1, <3>2, <4>1
      <4>2. CASE k # dir
        BY <1>4, <1>21, <2>3, <3>0, <3>1, <3>2, <4>2
      <4> QED BY <4>1, <4>2
    <3>4. nodes'[k].place = x
      BY <1>1, <3>3
    <3>5. NameAt(nodes[k].place)' = NameOf(data', x) /\ SlotAt(nodes[k].place)' = SlotOf(data', x)
      BY <3>4 DEF NameAt, SlotAt, NameOf, SlotOf
    <3> QED BY <1>1, <1>22, <3>2, <3>3, <3>4, <3>5
  <2>4. ~faulted => \A q \in V \ {p} : NameOf(data', q) \in DOMAIN nodes'
    <3> SUFFICES ASSUME ~faulted, NEW q \in V \ {p} PROVE NameOf(data', q) \in DOMAIN nodes'
      OBVIOUS
    <3>1. NameOf(data, q) \in DOMAIN nodes
      BY <1>1, <1>3, SeenSame DEF NodesHold, Doing, Idle
    <3> QED BY <1>1, <1>21, <1>22, <3>1
  <2> QED BY <1>1, <2>1, <2>2, <2>3, <2>4 DEF NodesHold
<1> QED BY <1>18, <1>19, <1>20, <1>27, <1>28, Whole

-----------------------------------------------------------------------------
(* The entry of a moved file is written to its new directory *)

\* A node at another place has the same layout and attributes.
LEMMA PlaceAside ==
  ASSUME NEW v, NEW slot, NEW chain, NodeFits(v, slot, chain), NEW p
  PROVE  NodeFits([v EXCEPT !.place = p], slot, chain) /\ [v EXCEPT !.place = p].place = p
<1>1. IsNode(v)
  BY DEF NodeFits
<1>2. PICK w : w = [v EXCEPT !.place = p]
  OBVIOUS
<1>3. /\ w.place = p /\ w.layout = v.layout /\ w.layout_loaded = v.layout_loaded
      /\ w.attributes = v.attributes /\ IsNode(w)
  BY <1>1, <1>2 DEF IsNode
<1> QED BY <1>2, <1>3 DEF NodeFits

\* fat_fs_move_node writes the new one.
LEMMA PlaceKeeps ==
  ASSUME FatInv, MovePlace, Sound
  PROVE  FatInv'
<1>n. PICK n : n = call.name
  OBVIOUS
<1>d. PICK dir : dir = call.dir
  OBVIOUS
<1>s. PICK slot : slot = call.slot
  OBVIOUS
<1>f. PICK f : f = slot.first
  OBVIOUS
<1>0. PICK p : p = FirstEmpty(nodes[dir].layout)
  OBVIOUS
<1>1. /\ call.op = "place" /\ EmptyPlaces(nodes[dir].layout) # {}
      /\ data' = [data EXCEPT ![p.cluster] = [data[p.cluster] EXCEPT ![p.index] = slot]]
      /\ nodes' = [nodes EXCEPT ![n].place = p]
      /\ call' = Idle
      /\ fat' = fat /\ contents' = contents /\ faulted' = faulted
  BY <1>n, <1>d, <1>s, <1>0 DEF MovePlace, Doing, Write, Return
<1>2. PICK D, V, chain : Holds(D, V, chain)
  BY DEF FatInv
<1>3. TypesHold /\ VolumeHolds(D, V, chain) /\ Accounted(V, chain) /\ ContentsHold(V, chain) /\ NodesHold(V, chain)
      /\ CallHolds(D, V, chain)
  BY <1>2 DEF Holds
<1>4. /\ n \in DOMAIN nodes /\ dir \in DOMAIN nodes /\ n # dir
      /\ NodeFits(nodes[n], slot, chain) /\ nodes[n].place \notin V
      /\ IsSlot(slot) /\ slot.name[1] \notin {"00", "E5", "."} /\ RetrievedName(slot.name) = n
      /\ IsDirectory(nodes[dir]) /\ nodes[dir].layout_loaded
      /\ ~IsDirectory(slot) => Content(n, f, chain)
  BY <1>n, <1>d, <1>s, <1>f, <1>1, <1>3 DEF CallHolds, Doing
<1>h. PICK h : h = SlotOf(data, nodes[dir].place).first
  OBVIOUS
<1>5. StillReached(data, chain, D, V, h)
  <2>1. \A T \in SUBSET D : root_dir_first_cluster \in T /\ Closed(data, 0, chain, T, V)
              => SlotAt(nodes[call.dir].place).first \in T
    BY <1>1, <1>3 DEF CallHolds, Doing
  <2> QED BY <1>h, <1>d, <2>1, SeenSame DEF StillReached
<1>6. PICK R : R = {root_dir_first_cluster} \cup IF IsDirectory(slot) THEN {f} ELSE {}
  OBVIOUS
<1>7. Hidden = 0 /\ Roots = R /\ Pending = {f} /\ PendingName = {n}
  BY <1>n, <1>s, <1>f, <1>1, <1>6 DEF Hidden, Roots, Pending, PendingName, Doing
<1>8. Hidden' = 0 /\ Roots' = {root_dir_first_cluster} /\ Pending' = {} /\ PendingName' = {}
  BY <1>1, Resting
<1>9. /\ Tree(data, 0, chain, R, D, V) /\ Chains(fat, Heads(V), chain) /\ Blocks(data, chain, D)
      /\ Owned(data, V, {root_dir_first_cluster, f}) /\ root_dir_first_cluster # f
      /\ Named(data, V, {n})
  <2>1. {root_dir_first_cluster} \cup {f} = {root_dir_first_cluster, f}
    OBVIOUS
  <2> QED BY <1>3, <1>7, <2>1 DEF VolumeHolds
<1>10. /\ V = EntriesIn(data, chain, D) /\ D \subseteq Heads(V)
       /\ (\A q \in V : SlotOf(data, q).first \in Heads(V))
       /\ \A q \in V : ~Leads(data, Hidden, q) => SlotOf(data, q).first \notin D
  BY <1>3, VolumeFacts
<1>11. f \in Heads(V) /\ f \in Cluster /\ f # 0
  <2>1. f \in Heads(V)
    BY <1>7 DEF Heads
  <2>2. f \in Cluster
    BY <1>9, <2>1, HeadChain DEF IsChain
  <2> QED BY <2>1, <2>2, ClusterFacts
<1>12. /\ h \in D /\ nodes[dir].layout \in Seq(Cluster) /\ ToSet(nodes[dir].layout) \subseteq ToSet(chain[h])
  <2>1. ~Moved(dir)
    BY <1>n, <1>4 DEF Moved
  <2> QED BY <1>3, <1>4, <1>7, <1>h, <2>1, DirectoryNode, SeenSame
<1>13. p \in Place /\ p.cluster \in ToSet(chain[h]) /\ EmptyAt(data, p)
  BY <1>0, <1>1, <1>12, FirstEmptyIs
<1>14. /\ DOMAIN data' = Cluster /\ Blocks(data', chain, D)
       /\ EntriesIn(data', chain, D) = V \cup {p} /\ p \notin V /\ SlotOf(data', p) = slot
       /\ Agree(data, data', V)
       /\ SameBut(data, data', p.cluster)
  <2>1. PICK d : d = data
    OBVIOUS
  <2>2. PICK e : e = data'
    OBVIOUS
  <2>3. EntryFits(d, chain, D, p, slot) /\ e = [d EXCEPT ![p.cluster] = [d[p.cluster] EXCEPT ![p.index] = slot]]
    BY <1>1, <1>3, <1>4, <1>9, <1>12, <1>13, <2>1, <2>2 DEF TypesHold, EntryFits
  <2>4. Entered(d, e, chain, D, p, slot)
    BY <2>3, VolumeFilled, Zenon
  <2> QED BY <1>10, <2>1, <2>2, <2>4 DEF Agree, Entered
<1>15. Tree(data', 0, chain, {root_dir_first_cluster}, D, V \cup {p})
  <2>1. Leads(data', 0, p) <=> IsDirectory(slot)
    BY <1>f, <1>11, <1>14 DEF Leads
  <2>2. Leads(data', 0, p) => SlotOf(data', p).first \in D
    BY <1>f, <1>6, <1>9, <1>14, <2>1 DEF Tree
  <2>3. ASSUME NEW T \in SUBSET D, {root_dir_first_cluster} \subseteq T, Closed(data', 0, chain, T, V \cup {p})
        PROVE  R \subseteq T
    <3>1. Closed(data, 0, chain, T, V)
      BY <1>14, <2>3 DEF Closed, Agree, Leads
    <3>2. h \in T
      BY <1>5, <2>3, <3>1 DEF StillReached
    <3>3. IsDirectory(slot) => f \in T
      BY <1>f, <1>13, <1>14, <2>1, <2>3, <3>2 DEF Closed
    <3> QED BY <1>6, <2>3, <3>3
  <2>4. {root_dir_first_cluster} \subseteq R
    BY <1>6
  <2> QED BY <1>9, <1>14, <2>2, <2>3, <2>4, TreeEntered
<1>16. \A q \in V : SlotOf(data', q) = SlotOf(data, q) /\ NameOf(data', q) = NameOf(data, q)
  BY <1>14 DEF Agree, NameOf
<1>17. NameOf(data', p) = n /\ SlotOf(data', p).first = f
  BY <1>f, <1>4, <1>14 DEF NameOf
<1>18. Heads(V \cup {p})' = Heads(V)
  BY <1>7, <1>8, <1>16, <1>17 DEF Heads
<1>19. Owned(data', V \cup {p}, {root_dir_first_cluster}) /\ Named(data', V \cup {p}, {})
  BY <1>9, <1>16, <1>17 DEF Owned, Named
<1>20. VolumeHolds(D, V \cup {p}, chain)'
  BY <1>1, <1>8, <1>9, <1>14, <1>15, <1>18, <1>19 DEF VolumeHolds
<1>21. TypesHold'
  BY <1>1, <1>3, <1>14 DEF TypesHold
<1>22. Accounted(V \cup {p}, chain)'
  BY <1>1, <1>3, <1>18 DEF Accounted
<1>23. CallHolds(D, V \cup {p}, chain)'
  BY <1>1 DEF CallHolds, Doing, Idle
<1>24. \A q : SlotAt(q)' = SlotOf(data', q) /\ NameAt(q)' = NameOf(data', q)
  BY DEF SlotAt, SlotOf, NameAt, NameOf
<1>25. /\ DOMAIN nodes' = DOMAIN nodes /\ nodes'[n] = [nodes[n] EXCEPT !.place = p]
       /\ \A k \in DOMAIN nodes : k # n => nodes'[k] = nodes[k]
  <2>1. PICK v : v = [nodes[n] EXCEPT !.place = p]
    OBVIOUS
  <2>2. nodes' = [nodes EXCEPT ![n] = v]
    BY <1>1, <2>1
  <2> QED BY <1>4, <2>1, <2>2
<1>26. nodes'[n].place = p /\ NodeFits(nodes'[n], slot, chain)
  <2>1. PICK v : v = nodes[n]
    OBVIOUS
  <2>2. PICK x : x = nodes'[n]
    OBVIOUS
  <2>3. NodeFits(v, slot, chain) /\ x = [v EXCEPT !.place = p]
    BY <1>4, <1>25, <2>1, <2>2
  <2>4. x.place = p /\ NodeFits(x, slot, chain)
    BY ONLY <2>3, PlaceAside, Zenon
  <2> QED BY <2>2, <2>4
<1>27. NodesHold(V \cup {p}, chain)'
  <2>1. ASSUME NEW k \in DOMAIN nodes'
        PROVE  /\ nodes'[k].place \in V \cup {p} /\ NameAt(nodes[k].place)' = k
               /\ NodeFits(nodes'[k], SlotAt(nodes[k].place)', chain)
    <3>1. PICK x : x = nodes'[k].place
      OBVIOUS
    <3>2. NameAt(nodes[k].place)' = NameOf(data', x) /\ SlotAt(nodes[k].place)' = SlotOf(data', x)
      BY <3>1 DEF NameAt, SlotAt, NameOf, SlotOf
    <3>3. CASE k = n
      BY <1>14, <1>17, <1>26, <3>1, <3>2, <3>3
    <3>4. CASE k # n
      <4>1. ~Moved(k) /\ k \in DOMAIN nodes /\ nodes'[k] = nodes[k]
        BY <1>n, <1>25, <3>4 DEF Moved
      <4>2. x \in V /\ NameOf(data, x) = k /\ NodeFits(nodes[k], SlotOf(data, x), chain)
        BY <1>3, <3>1, <4>1, SeenSame DEF NodesHold
      <4> QED BY <1>16, <3>1, <3>2, <4>1, <4>2
    <3> QED BY <3>3, <3>4
  <2>2. ~faulted => \A q \in V \cup {p} : NameOf(data', q) \in DOMAIN nodes'
    <3> SUFFICES ASSUME ~faulted, NEW q \in V \cup {p} PROVE NameOf(data', q) \in DOMAIN nodes'
      OBVIOUS
    <3>1. CASE q = p
      BY <1>4, <1>17, <1>25, <3>1
    <3>2. CASE q \in V
      <4>1. NameOf(data, q) \in DOMAIN nodes
        BY <1>1, <1>3, <3>2, SeenSame DEF NodesHold, Doing
      <4> QED BY <1>16, <1>25, <3>2, <4>1
    <3> QED BY <3>1, <3>2
  <2> QED BY <1>1, <1>24, <2>1, <2>2 DEF NodesHold
<1>28. ContentsHold(V \cup {p}, chain)'
  <2> SUFFICES ASSUME NEW q \in V \cup {p}, ~IsDirectory(SlotAt(q)')
               PROVE  Content(NameAt(q), SlotAt(q).first, chain)'
    BY DEF ContentsHold
  <2>g. PICK g : g = SlotOf(data', q).first
    OBVIOUS
  <2>k. PICK k : k = NameOf(data', q)
    OBVIOUS
  <2>1. g \notin D /\ g \in Heads(V) /\ Content(k, g, chain)
    <3>1. CASE q = p
      <4>1. ~IsDirectory(slot) /\ g = f /\ k = n
        BY <1>14, <1>17, <1>24, <2>g, <2>k, <3>1
      <4>2. f \in Pending /\ f \notin Roots
        BY <1>6, <1>7, <1>9, <4>1
      <4>3. f \notin D
        BY <1>3, <4>2, PendingApart
      <4> QED BY <1>4, <1>11, <4>1, <4>3
    <3>2. CASE q \in V
      <4>1. ~IsDirectory(SlotOf(data, q)) /\ g = SlotOf(data, q).first /\ k = NameOf(data, q)
        BY <1>16, <1>24, <2>g, <2>k, <3>2
      <4>2. ~Leads(data, Hidden, q)
        BY <4>1 DEF Leads
      <4> QED BY <1>3, <1>10, <3>2, <4>1, <4>2, SeenSame DEF ContentsHold
    <3> QED BY <3>1, <3>2
  <2>2. \A x \in ToSet(chain[g]) : data'[x] = data[x]
    <3>1. PICK c : c = p.cluster
      OBVIOUS
    <3>2. h \in Heads(V) /\ h # g /\ c \in ToSet(chain[h])
      BY <1>10, <1>12, <1>13, <2>1, <3>1
    <3>3. c \notin ToSet(chain[g]) /\ IsChain(chain[g], g)
      BY <1>9, <2>1, <3>2, ChainsApart, HeadChain
    <3> QED BY <1>14, <3>1, <3>3 DEF IsChain, SameBut
  <2>3. k \in DOMAIN contents
    BY <2>1 DEF Content
  <2>4. Content(k, g, chain)'
    BY <1>1, <1>9, <2>1, <2>2, <2>3, ContentStays
  <2>5. NameAt(q)' = k /\ SlotAt(q)'.first = g
    BY <1>24, <2>g, <2>k
  <2> QED BY ONLY <2>4, <2>5 DEF Content
<1> QED BY <1>20, <1>21, <1>22, <1>23, <1>27, <1>28, Whole

-----------------------------------------------------------------------------
(* Every step *)

\* A step that meets a known defect leaves nothing to show.
LEMMA SpoiledSteps ==
  ASSUME Sound'
  PROVE  /\ \A n : ~OpenMisreads(n)
         /\ \A n, dir : ~CreateExtends(n, dir, Attributes(n)) /\ ~CreateMisreads(n, dir, Attributes(n))
         /\ ~MountAstray /\ ~CreateAstray /\ ~MoveNowhere /\ ~MoveMisreads
<1>1. \A n, dir, attributes, block : ~Extends(n, dir, attributes, block)
  BY DEF Extends, Spoil, Sound
<1>2. \A n, dir : ~CreateExtends(n, dir, Attributes(n)) /\ ~CreateMisreads(n, dir, Attributes(n))
  BY <1>1, Zenon DEF CreateExtends, CreateMisreads
<1>3. \A n : ~OpenMisreads(n)
  BY DEF OpenMisreads, Spoil, Sound
<1>4. ~MountAstray /\ ~CreateAstray /\ ~MoveNowhere /\ ~MoveMisreads
  BY DEF MountAstray, CreateAstray, MoveNowhere, MoveMisreads, Spoil, Sound
<1> QED BY <1>2, <1>3, <1>4

\* A step that changes nothing.
LEMMA NothingKeeps ==
  ASSUME FatInv, UNCHANGED fatVars
  PROVE  FatInv'
<1>1. SUFFICES ASSUME Sound' PROVE FatInv'
  BY DEF FatInv
<1>2. /\ fat' = fat /\ data' = data /\ nodes' = nodes /\ call' = call /\ contents' = contents /\ faulted' = faulted
      /\ spoiled' = spoiled
  BY DEF fatVars, disk
<1>3. PICK D, V, chain : Holds(D, V, chain)
  BY <1>1, <1>2 DEF FatInv, Sound
<1>4. TypesHold /\ VolumeHolds(D, V, chain) /\ Accounted(V, chain) /\ ContentsHold(V, chain) /\ NodesHold(V, chain)
      /\ CallHolds(D, V, chain)
  BY <1>3 DEF Holds
<1>5. Hidden' = Hidden /\ Roots' = Roots /\ Pending' = Pending /\ PendingName' = PendingName
      /\ Heads(V)' = Heads(V) /\ \A n : Moved(n)' <=> Moved(n)
  BY <1>2 DEF Hidden, Roots, Pending, PendingName, Heads, Moved, Doing
<1>6. TypesHold' /\ VolumeHolds(D, V, chain)' /\ ContentsHold(V, chain)'
  BY <1>2, <1>4, <1>5, VolumeStays
<1>7. Accounted(V, chain)'
  BY <1>2, <1>4, <1>5 DEF Accounted
<1>8. (\A p : SlotAt(p)' = SlotAt(p) /\ NameAt(p)' = NameAt(p))
      /\ \A n, h : Content(n, h, chain)' <=> Content(n, h, chain)
  BY <1>2 DEF SlotAt, NameAt, Content
<1>9. NodesHold(V, chain)'
  BY <1>2, <1>4, <1>5, <1>8 DEF NodesHold, Doing
<1>10. CallHolds(D, V, chain)'
  <2>1. Creation' <=> Creation
    BY <1>2 DEF Creation
  <2>2. NewSlot' = NewSlot
    BY <1>2 DEF NewSlot
  <2> QED BY <1>2, <1>4, <1>8, <2>1, <2>2 DEF CallHolds, Doing, SlotAt, NameAt, Content
<1> QED BY <1>6, <1>7, <1>9, <1>10, Whole

\* Every step keeps the invariant.
LEMMA StepKeeps ==
  ASSUME FatInv, [FatNext]_fatVars
  PROVE  FatInv'
<1>1. SUFFICES ASSUME Sound' PROVE FatInv'
  BY DEF FatInv
<1>2. CASE UNCHANGED fatVars
  BY <1>2, NothingKeeps
<1>3. CASE Mount \/ MountMisreads
  BY <1>3, MountKeeps
<1>4. CASE Stop
  BY <1>1, <1>4, StopKeeps
<1>5. CASE Fail
  BY <1>1, <1>5, FailKeeps
<1>6. ASSUME NEW n \in Name, Open(n) \/ OpenMisreads(n) \/ DeleteEntry(n)
      PROVE  FatInv'
  <2>1. CASE Open(n)
    BY <2>1, OpenKeeps
  <2>2. CASE DeleteEntry(n)
    BY <1>1, <2>2, DeleteKeeps
  <2> QED BY <1>1, <1>6, <2>1, <2>2, SpoiledSteps
<1>7. ASSUME NEW n \in Name, NEW page \in 0 .. 1, NEW v \in Value, WritePage(n, page, v)
      PROVE  FatInv'
  BY <1>7, WritePageKeeps
<1>8. ASSUME NEW n \in Name, NEW dir \in Name, MoveRemove(n, dir) \/ Create(n, dir, Attributes(n))
      PROVE  FatInv'
  <2>1. CASE MoveRemove(n, dir)
    BY <2>1, RemoveKeeps
  <2>2. CASE CreateReserve(n, dir, Attributes(n))
    BY <2>2, ReserveKeeps
  <2> QED BY <1>1, <1>8, <2>1, <2>2, SpoiledSteps DEF Create
<1>9. CASE CreateEnter
  <2>1. Sound
    BY <1>1, <1>9 DEF CreateEnter, Sound
  <2> QED BY <1>9, <2>1, EnterKeeps
<1>10. CASE CreateInitialise
  <2>1. Sound
    BY <1>1, <1>10 DEF CreateInitialise, Sound
  <2> QED BY <1>10, <2>1, InitialiseKeeps
<1>11. CASE FreeChain
  <2>1. Sound
    BY <1>1, <1>11 DEF FreeChain, Sound
  <2> QED BY <1>11, <2>1, FreeKeeps
<1>12. CASE MovePlace
  <2>1. Sound
    BY <1>1, <1>12 DEF MovePlace, Sound
  <2> QED BY <1>12, <2>1, PlaceKeeps
<1>13. CASE MountAstray \/ CreateAstray \/ MoveNowhere \/ MoveMisreads
  BY <1>1, <1>13, SpoiledSteps
<1>14. CASE InitialiseFails
  BY <1>1, <1>14, InitialiseFailsKeeps
<1> QED BY <1>2, <1>3, <1>4, <1>5, <1>6, <1>7, <1>8, <1>9, <1>10, <1>11, <1>12, <1>13, <1>14 DEF FatNext

-----------------------------------------------------------------------------
(* The disk that is mounted *)

\* Each cluster of t is what next gives for the one before it.
Grown(c, t, next) ==
  /\ t \in Seq(Nat) /\ Len(t) \in Nat \ {0} /\ t[1] = c
  /\ \A i \in 1 .. Len(t) - 1 : next[t[i]] = t[i + 1] /\ ~(t[i + 1] >= FAT_EOF)

\* A chain that has grown by one more cluster.
LEMMA GrownFurther ==
  ASSUME NEW c, NEW t, NEW next, Grown(c, t, next), next[Last(t)] \in Nat, ~(next[Last(t)] >= FAT_EOF)
  PROVE  Grown(c, Append(t, next[Last(t)]), next)
<1>1. PICK x \in Nat : x = next[Last(t)]
  OBVIOUS
<1>2. PICK m \in Nat \ {0} : m = Len(t)
  BY DEF Grown
<1>3. t \in Seq(Nat) /\ t[1] = c /\ Last(t) = t[m]
  BY <1>2 DEF Grown, Last
<1>4. PICK u : u = Append(t, x)
  OBVIOUS
<1>5. /\ u \in Seq(Nat) /\ Len(u) = m + 1 /\ u[m + 1] = x
      /\ \A i \in 1 .. m : u[i] = t[i]
  BY <1>2, <1>3, <1>4
<1>6. ASSUME NEW i \in 1 .. Len(u) - 1
      PROVE  next[u[i]] = u[i + 1] /\ ~(u[i + 1] >= FAT_EOF)
  <2>1. CASE i = m
    BY <1>1, <1>3, <1>5, <2>1
  <2>2. CASE i # m
    <3>1. i \in 1 .. m - 1 /\ i + 1 \in 1 .. m /\ i \in 1 .. m
      BY <1>5, <2>2
    <3>2. next[t[i]] = t[i + 1] /\ ~(t[i + 1] >= FAT_EOF)
      BY <1>2, <3>1 DEF Grown
    <3> QED BY <1>5, <3>1, <3>2
  <2> QED BY <2>1, <2>2
<1>7. u[1] = c /\ Len(u) \in Nat \ {0}
  BY <1>3, <1>5
<1> QED BY <1>1, <1>4, <1>5, <1>6, <1>7 DEF Grown

\* Each cluster of a continued chain is the next of the one before.
LEMMA ContinuedSteps ==
  ASSUME NEW next, \A x \in Nat : next[x] \in Nat, NEW c \in Nat
  PROVE  Grown(c, Continued(<<c>>, next), next)
<1> DEFINE n == Cardinality(Cluster)
<1>1. n \in Nat
  BY ClusterFacts
<1>2. PICK g : Growing(g, next, n) /\ Continued(<<c>>, next) = g[n][<<c>>]
  BY ContinuedGrows
<1> HIDE DEF n
<1>3. ASSUME NEW k \in 0 .. n, NEW t \in Seq(Nat)
      PROVE  g[k][t] = IF k = 0 \/ next[Last(t)] >= FAT_EOF THEN t ELSE g[k - 1][Append(t, next[Last(t)])]
  <2>1. g[k] = [u \in Seq(Nat) |-> IF k = 0 \/ next[Last(u)] >= FAT_EOF THEN u
                                  ELSE g[k - 1][Append(u, next[Last(u)])]]
    BY <1>2 DEF Growing
  <2> QED BY <2>1
<1> DEFINE S == {k \in 0 .. n : \A t \in Seq(Nat) : Grown(c, t, next) => Grown(c, g[k][t], next)}
<1>4. 0 \in S
  <2>1. \A t \in Seq(Nat) : g[0][t] = t
    BY <1>1, <1>3
  <2> QED BY <1>1, <2>1
<1>5. ASSUME NEW k \in S, k < n
      PROVE  k + 1 \in S
  <2>1. k \in 0 .. n /\ k + 1 \in 0 .. n /\ (k + 1) - 1 = k /\ k + 1 # 0
    BY <1>1, <1>5
  <2>2. ASSUME NEW t \in Seq(Nat), Grown(c, t, next)
        PROVE  Grown(c, g[k + 1][t], next)
    <3>1. g[k + 1][t] = IF next[Last(t)] >= FAT_EOF THEN t ELSE g[k][Append(t, next[Last(t)])]
      BY <1>3, <2>1
    <3>2. CASE next[Last(t)] >= FAT_EOF
      BY <2>2, <3>1, <3>2
    <3>3. CASE ~(next[Last(t)] >= FAT_EOF)
      <4>1. next[Last(t)] \in Nat
        <5>1. Len(t) \in Nat \ {0}
          BY <2>2 DEF Grown
        <5>2. Last(t) \in Nat
          BY <5>1 DEF Last
        <5> QED BY <5>2
      <4>2. PICK u : u = Append(t, next[Last(t)])
        OBVIOUS
      <4>3. Grown(c, u, next)
        BY <2>2, <3>3, <4>1, <4>2, GrownFurther
      <4>4. u \in Seq(Nat)
        BY <4>3 DEF Grown
      <4>5. Grown(c, g[k][u], next)
        BY <1>5, <4>3, <4>4
      <4> QED BY <3>1, <3>3, <4>2, <4>5
    <3> QED BY <3>2, <3>3
  <2> QED BY <2>1, <2>2
<1>6. n \in S
  <2> DEFINE T == S
  <2>1. T \in SUBSET (0 .. n) /\ 0 \in T /\ \A k \in T : k < n => k + 1 \in T
    BY <1>4, <1>5
  <2> HIDE DEF T
  <2>2. n \in T
    BY <1>1, <2>1, Ladder
  <2> QED BY <2>2 DEF T
<1>7. Grown(c, <<c>>, next) /\ <<c>> \in Seq(Nat)
  <2>1. PICK t : t = <<c>>
    OBVIOUS
  <2>2. t \in Seq(Nat) /\ Len(t) = 1 /\ t[1] = c
    BY <2>1
  <2>3. Grown(c, t, next)
    BY <2>2 DEF Grown
  <2> QED BY <2>1, <2>2, <2>3
<1>8. Grown(c, g[n][<<c>>], next)
  BY <1>6, <1>7
<1> QED BY <1>2, <1>8

\* A chain that ends is a path of the FAT, from its first cluster on.
LEMMA PathOf ==
  ASSUME NEW c \in Cluster, Ends(ChainOf(c)),
         \A x \in Cluster : fat[x] # FreeCluster => x < SectorEntries
  PROVE  Path(fat, ChainOf(c)) /\ ChainOf(c)[1] = c
<1>1. PICK s : s = ChainOf(c)
  OBVIOUS
<1>2. \A x \in Nat : InFat[x] = IF x \in Cluster /\ fat[x] \in Cluster THEN fat[x] ELSE FAT_EOF
  BY DEF InFat
<1>3. Grown(c, s, InFat)
  <2>1. \A x \in Nat : InFat[x] \in Nat
    BY <1>2, ClusterFacts
  <2>2. c \in Nat
    BY ClusterFacts
  <2> QED BY <1>1, <2>1, <2>2, ContinuedSteps DEF ChainOf
<1>4. /\ s \in Seq(Nat) /\ Len(s) \in Nat \ {0} /\ s[1] = c
      /\ \A i \in 1 .. Len(s) - 1 : InFat[s[i]] = s[i + 1] /\ ~(s[i + 1] >= FAT_EOF)
  BY <1>3 DEF Grown
<1>5. ToSet(s) \subseteq Cluster /\ fat[Last(s)] = FAT_EOF /\ IsInjective(s)
  BY <1>1 DEF Ends
<1>6. (\A i \in 1 .. Len(s) : s[i] \in Cluster) /\ DOMAIN s = 1 .. Len(s) /\ Last(s) = s[Len(s)]
  BY <1>4, <1>5 DEF ToSet, Last
<1>7. s \in Seq(Cluster) /\ s # <<>>
  <2>1. s = [i \in 1 .. Len(s) |-> s[i]]
    BY <1>4
  <2> QED BY <1>4, <1>6, <2>1
<1>8. \A i \in 1 .. Len(s) - 1 : fat[s[i]] = s[i + 1]
  <2> TAKE i \in 1 .. Len(s) - 1
  <2>1. i \in 1 .. Len(s) /\ s[i] \in Cluster /\ s[i] \in Nat
    BY <1>4, <1>6, ClusterFacts
  <2>2. InFat[s[i]] = s[i + 1] /\ ~(s[i + 1] >= FAT_EOF)
    BY <1>4
  <2> QED BY <1>2, <2>1, <2>2, ClusterFacts
<1>9. \A i \in 1 .. Len(s) : s[i] < SectorEntries
  <2> TAKE i \in 1 .. Len(s)
  <2>1. fat[s[i]] # FreeCluster
    <3>1. CASE i = Len(s)
      BY <1>5, <1>6, <3>1, ClusterFacts DEF FAT_EOF, FreeCluster
    <3>2. CASE i # Len(s)
      <4>1. i \in 1 .. Len(s) - 1 /\ i + 1 \in 1 .. Len(s)
        BY <1>4, <3>2
      <4> QED BY <1>6, <1>8, <4>1, ClusterFacts DEF FreeCluster
    <3> QED BY <3>1, <3>2
  <2> QED BY <1>6, <2>1
<1>10. \A i, j \in 1 .. Len(s) : s[i] = s[j] => i = j
  BY <1>5, <1>6 DEF IsInjective
<1>11. Path(fat, s)
  BY <1>5, <1>6, <1>7, <1>8, <1>9, <1>10 DEF Path
<1> QED BY <1>1, <1>4, <1>11

\* The clusters of a directory are blocks of slots.
InSlots(first) == \A b \in ToSet(ChainOf(first)) : IsBlock(data[b])

\* What the driver expects of the disk it mounts: it is sound and leaks nothing,
\* every entry has a cluster, every cluster in use is among the ones the driver
\* finds in the FAT, and directories hold slots.
WholeDisk ==
  /\ DiskSound /\ ClustersAccounted
  /\ \A p \in Entries : SlotAt(p).first \in Cluster
  /\ \A c \in Cluster : fat[c] # FreeCluster => c < SectorEntries
  /\ InSlots(root_dir_first_cluster)
  /\ \A p \in Entries : IsDirectory(SlotAt(p)) => InSlots(SlotAt(p).first)

\* The directories that are reached are the root and what an entry leads to.
LEMMA ReachedFromRoot ==
  ASSUME Hidden = 0, \A p : Erased(SlotAt(p)),
         NEW D, D = Reached({root_dir_first_cluster}, Subdirectories(Listed))
  PROVE  /\ root_dir_first_cluster \in D /\ D \subseteq Cluster
         /\ Entries = UNION {PlacesIn(c, Listed) : c \in D}
         /\ \A c \in D : \A p \in PlacesIn(c, Listed) : Leads(data, 0, p) /\ SlotOf(data, p).first \in Cluster
              => SlotOf(data, p).first \in D
         /\ \A c \in D : c = root_dir_first_cluster \/ \E p \in Entries : IsDirectory(SlotAt(p)) /\ SlotAt(p).first = c
         /\ D \subseteq Reached({root_dir_first_cluster}, Subdirectories(Used))
         /\ \A T \in SUBSET D :
              /\ root_dir_first_cluster \in T
              /\ \A c \in T : \A p \in PlacesIn(c, Listed) : Leads(data, 0, p) => SlotOf(data, p).first \in T
              => D \subseteq T
<1> DEFINE R == {root_dir_first_cluster}
           L == Subdirectories(Listed)
           U == Subdirectories(Used)
           Led(c, Of(_)) == {SlotAt(p).first : p \in {q \in PlacesIn(c, Of) : IsDirectory(SlotAt(q)) /\ Erased(SlotAt(q))}} \cap Cluster
<1>1. L \in [Cluster -> SUBSET Cluster] /\ U \in [Cluster -> SUBSET Cluster] /\ R \in SUBSET Cluster
  BY ClusterFacts DEF Subdirectories
<1>2. \A c \in Cluster : L[c] = Led(c, Listed) /\ U[c] = Led(c, Used)
  BY DEF Subdirectories
<1>3. /\ R \subseteq D /\ D \subseteq Cluster /\ \A c \in D : L[c] \subseteq D
  BY <1>1, ReachedCloses
<1>4. Entries = UNION {PlacesIn(c, Listed) : c \in D}
  BY DEF Entries, PlacesBelow, EntriesFrom
<1>5. \A p : Leads(data, 0, p) => IsDirectory(SlotAt(p))
  BY SeenSame DEF Leads
<1>6. \A c \in D : c = root_dir_first_cluster \/ \E p \in Entries : IsDirectory(SlotAt(p)) /\ SlotAt(p).first = c
  <2> DEFINE X == {c \in D : c = root_dir_first_cluster \/ \E p \in Entries : IsDirectory(SlotAt(p)) /\ SlotAt(p).first = c}
  <2>1. R \subseteq X
    BY <1>3
  <2>2. ASSUME NEW c \in X PROVE L[c] \subseteq X
    <3>1. c \in D /\ c \in Cluster /\ L[c] \subseteq D
      BY <1>3
    <3>2. ASSUME NEW f \in L[c] PROVE f \in X
      <4>1. PICK p \in PlacesIn(c, Listed) : IsDirectory(SlotAt(p)) /\ SlotAt(p).first = f
        BY <1>2, <3>1
      <4>2. p \in Entries
        BY <1>4, <3>1
      <4> QED BY <3>1, <4>1, <4>2
    <3> QED BY <3>2
  <2> HIDE DEF X
  <2>3. D \subseteq X
    BY <2>1, <2>2, ReachedWithin
  <2> QED BY <2>3 DEF X
<1>7. \A c \in D : \A p \in PlacesIn(c, Listed) : Leads(data, 0, p) /\ SlotOf(data, p).first \in Cluster
              => SlotOf(data, p).first \in D
  <2> SUFFICES ASSUME NEW c \in D, NEW p \in PlacesIn(c, Listed), Leads(data, 0, p), SlotOf(data, p).first \in Cluster
               PROVE  SlotOf(data, p).first \in D
    OBVIOUS
  <2>1. IsDirectory(SlotAt(p)) /\ Erased(SlotAt(p)) /\ SlotAt(p).first = SlotOf(data, p).first
    BY <1>5, SeenSame
  <2>2. SlotOf(data, p).first \in L[c]
    BY <1>2, <1>3, <2>1
  <2> QED BY <1>3, <2>2
<1>8. D \subseteq Reached(R, U)
  <2>1. R \subseteq Reached(R, U) /\ Reached(R, U) \subseteq Cluster /\ \A c \in Reached(R, U) : U[c] \subseteq Reached(R, U)
    BY <1>1, ReachedCloses
  <2>2. \A c \in Cluster : L[c] \subseteq U[c]
    <3> TAKE c \in Cluster
    <3>1. PlacesIn(c, Listed) \subseteq PlacesIn(c, Used)
      <4>1. ASSUME NEW b, NEW i \in Listed(b) PROVE i \in Used(b)
        <5>1. i \in SlotIndex
          BY DEF Listed
        <5>2. i \in Nat
          BY <5>1, SlotNumbers
        <5>3. i \in 0 .. i
          BY ONLY <5>2
        <5> QED BY <5>1, <5>3 DEF Listed, Used
      <4> QED BY <4>1 DEF PlacesIn
    <3> QED BY <1>2, <3>1
  <2> DEFINE X == Reached(R, U)
  <2>3. R \subseteq X /\ \A c \in X : L[c] \subseteq X
    BY <2>1, <2>2
  <2> HIDE DEF X
  <2>4. D \subseteq X
    BY <2>3, ReachedWithin
  <2> QED BY <2>4 DEF X
<1>9. ASSUME NEW T \in SUBSET D, root_dir_first_cluster \in T,
             \A c \in T : \A p \in PlacesIn(c, Listed) : Leads(data, 0, p) => SlotOf(data, p).first \in T
      PROVE  D \subseteq T
  <2>1. ASSUME NEW c \in T PROVE L[c] \subseteq T
    <3>1. c \in Cluster
      BY <1>3
    <3>2. ASSUME NEW f \in L[c] PROVE f \in T
      <4>1. PICK p \in PlacesIn(c, Listed) : IsDirectory(SlotAt(p)) /\ SlotAt(p).first = f /\ f \in Cluster
        BY <1>2, <3>1
      <4>2. Leads(data, 0, p) /\ SlotOf(data, p).first = f
        BY <4>1, SeenSame, ClusterFacts DEF Leads
      <4> QED BY <1>9, <4>2
    <3> QED BY <3>2
  <2>2. R \subseteq T
    BY <1>9
  <2> QED BY <2>1, <2>2, ReachedWithin
<1> QED BY <1>3, <1>4, <1>6, <1>7, <1>8, <1>9

\* A volume that is whole when it is mounted meets the invariant.
LEMMA InitHolds ==
  ASSUME FatInit, WholeDisk
  PROVE  FatInv
<1>1. /\ fat = [i \in FatEntry |-> InitialFat[i + 1]] /\ data = InitialData /\ nodes = <<>> /\ call = Unmounted
      /\ ~faulted /\ Sound
  BY DEF FatInit, Sound
<1>2. Hidden = 0 /\ Roots = {root_dir_first_cluster} /\ Pending = {} /\ PendingName = {} /\ call.op = "unmounted"
  BY <1>1, Resting DEF Unmounted
<1>3. \A p : Erased(SlotAt(p))
  BY <1>2 DEF Erased
<1>4. TypesHold
  <2>1. InitialFat \in Seq(Nat) /\ InitialFat[1] # FreeCluster /\ InitialFat[2] # FreeCluster /\ DOMAIN InitialData = Cluster
    BY FatAssumption
  <2>2. Len(InitialFat) \in Nat /\ 0 \in FatEntry /\ 1 \in FatEntry
    BY <2>1, ClusterFacts DEF FatEntry, Cluster
  <2>3. \A i \in FatEntry : i + 1 \in 1 .. Len(InitialFat)
    BY <2>2 DEF FatEntry
  <2>4. \A i \in FatEntry : fat[i] = InitialFat[i + 1]
    BY <1>1
  <2>5. fat \in [FatEntry -> Nat]
    BY <1>1, <2>1, <2>3
  <2>6. fat[0] = InitialFat[1] /\ fat[1] = InitialFat[2]
    BY <2>2, <2>4
  <2> QED BY <1>1, <2>1, <2>5, <2>6 DEF TypesHold
<1>5. PICK V : V = Entries
  OBVIOUS
<1>6. PICK D : D = Reached({root_dir_first_cluster}, Subdirectories(Listed))
  OBVIOUS
<1>7. PICK chain : chain = [h \in Cluster |-> ChainOf(h)]
  OBVIOUS
<1>8. /\ root_dir_first_cluster \in D /\ D \subseteq Cluster
      /\ V = UNION {PlacesIn(c, Listed) : c \in D}
      /\ \A c \in D : \A p \in PlacesIn(c, Listed) : Leads(data, 0, p) /\ SlotOf(data, p).first \in Cluster
              => SlotOf(data, p).first \in D
      /\ \A c \in D : c = root_dir_first_cluster \/ \E p \in V : IsDirectory(SlotAt(p)) /\ SlotAt(p).first = c
      /\ D \subseteq Reached({root_dir_first_cluster}, Subdirectories(Used))
      /\ \A T \in SUBSET D :
           /\ root_dir_first_cluster \in T
           /\ \A c \in T : \A p \in PlacesIn(c, Listed) : Leads(data, 0, p) => SlotOf(data, p).first \in T
           => D \subseteq T
  BY <1>2, <1>3, <1>5, <1>6, ReachedFromRoot
<1>9. /\ Ends(ChainOf(root_dir_first_cluster))
      /\ \A p \in V : /\ Ends(ChainOf(SlotAt(p).first))
                      /\ ToSet(ChainOf(root_dir_first_cluster)) \cap ToSet(ChainOf(SlotAt(p).first)) = {}
      /\ \A p, q \in V : p # q => ToSet(ChainOf(SlotAt(p).first)) \cap ToSet(ChainOf(SlotAt(q).first)) = {}
      /\ \A p, q \in V : NameAt(p) = NameAt(q) => p = q
      /\ PlacesBelow(Used) = V
  <2> DEFINE chains == [p \in V |-> ChainOf(SlotAt(p).first)]
  <2>1. /\ Ends(ChainOf(root_dir_first_cluster))
        /\ \A p \in V : Ends(chains[p]) /\ ToSet(ChainOf(root_dir_first_cluster)) \cap ToSet(chains[p]) = {}
        /\ Disjoint(chains)
        /\ \A p, q \in V : NameAt(p) = NameAt(q) => p = q
        /\ PlacesBelow(Used) = V
    BY <1>1, <1>5 DEF WholeDisk, DiskSound
  <2>2. \A p \in V : chains[p] = ChainOf(SlotAt(p).first)
    OBVIOUS
  <2>3. DOMAIN chains = V
    OBVIOUS
  <2> HIDE DEF chains
  <2> QED BY <2>1, <2>2, <2>3 DEF Disjoint
<1>10. Heads(V) = {root_dir_first_cluster} \cup {SlotAt(p).first : p \in V}
  BY <1>2, SeenSame DEF Heads
<1>11. \A h \in Heads(V) : h \in Cluster /\ chain[h] = ChainOf(h) /\ Path(fat, chain[h]) /\ chain[h][1] = h
  <2> TAKE h \in Heads(V)
  <2>1. h \in Cluster /\ Ends(ChainOf(h)) /\ \A x \in Cluster : fat[x] # FreeCluster => x < SectorEntries
    BY <1>5, <1>9, <1>10, ClusterFacts DEF WholeDisk
  <2> QED BY <1>7, <2>1, PathOf
<1>12. Chains(fat, Heads(V), chain)
  BY <1>9, <1>10, <1>11 DEF Chains
<1>13. D \subseteq Heads(V)
  BY <1>8, <1>10
<1>14. \A c \in D : ChainOf(c) = chain[c] /\ ToSet(chain[c]) \subseteq Cluster
  BY <1>11, <1>12, <1>13, HeadChain DEF IsChain
<1>15. \A c \in D : PlacesIn(c, Listed) = {p \in EntriesIn(data, chain, D) : p.cluster \in ToSet(chain[c])}
  BY <1>14, PlacesInIs
<1>16. V = EntriesIn(data, chain, D)
  BY <1>8, <1>15 DEF EntriesIn
<1>17. Tree(data, 0, chain, {root_dir_first_cluster}, D, V)
  <2>1. \A p \in V : Leads(data, 0, p) => SlotOf(data, p).first \in D
    <3> SUFFICES ASSUME NEW p \in V, Leads(data, 0, p) PROVE SlotOf(data, p).first \in D
      OBVIOUS
    <3>1. PICK c \in D : p \in PlacesIn(c, Listed)
      BY <1>8
    <3>2. SlotOf(data, p).first \in Cluster
      BY <1>5, SeenSame DEF WholeDisk
    <3> QED BY <1>8, <3>1, <3>2
  <2>2. ASSUME NEW T \in SUBSET D, {root_dir_first_cluster} \subseteq T, Closed(data, 0, chain, T, V)
        PROVE  T = D
    <3>1. \A c \in T : \A p \in PlacesIn(c, Listed) : Leads(data, 0, p) => SlotOf(data, p).first \in T
      <4> TAKE c \in T
      <4> TAKE p \in PlacesIn(c, Listed)
      <4>1. p \in V /\ p.cluster \in ToSet(chain[c])
        BY <1>15, <1>16
      <4> QED BY <2>2, <4>1 DEF Closed
    <3> QED BY <1>8, <2>2, <3>1
  <2> QED BY <1>8, <1>16, <2>1, <2>2 DEF Tree, EntriesIn
<1>18. Blocks(data, chain, D)
  <2> SUFFICES ASSUME NEW c \in D, NEW b \in ToSet(chain[c]) PROVE IsBlock(data[b]) /\ Unhidden(data[b])
    BY DEF Blocks
  <2>1. IsBlock(data[b])
    BY <1>5, <1>8, <1>14 DEF WholeDisk, InSlots
  <2>2. ASSUME NEW i \in Used(data[b]), ~IsDots(data[b][i])
        PROVE  i \in Listed(data[b])
    <3>1. PICK p : p = [cluster |-> b, index |-> i]
      OBVIOUS
    <3>2. p \in PlacesIn(c, Used)
      BY <1>14, <2>2, <3>1 DEF PlacesIn
    <3>3. p \in PlacesBelow(Used)
      BY <1>8, <3>2 DEF PlacesBelow, EntriesFrom
    <3>4. p \in V
      BY <1>9, <3>3
    <3> QED BY <1>16, <3>1, <3>4 DEF EntriesIn, Shown
  <2> QED BY <2>1, <2>2 DEF Unhidden
<1>19. \A p \in V : SlotOf(data, p).first \in ToSet(ChainOf(SlotOf(data, p).first))
       /\ root_dir_first_cluster \in ToSet(ChainOf(root_dir_first_cluster))
  BY <1>10, <1>11, <1>12, SeenSame, HeadChain DEF IsChain
<1>20. Owned(data, V, {root_dir_first_cluster})
  <2>1. ASSUME NEW p \in V, NEW q \in V, SlotOf(data, p).first = SlotOf(data, q).first
        PROVE  p = q
    BY <1>9, <1>19, <2>1, SeenSame
  <2>2. \A p \in V : SlotOf(data, p).first # root_dir_first_cluster
    BY <1>9, <1>19, SeenSame
  <2> QED BY <2>1, <2>2 DEF Owned
<1>21. Named(data, V, {})
  BY <1>9, SeenSame DEF Named
<1>22. VolumeHolds(D, V, chain)
  BY <1>2, <1>12, <1>17, <1>18, <1>20, <1>21 DEF VolumeHolds
<1>23. Accounted(V, chain)
  <2>1. {c \in Cluster : fat[c] # FreeCluster} =
          ToSet(ChainOf(root_dir_first_cluster)) \cup UNION {ToSet(ChainOf(SlotAt(p).first)) : p \in V}
    BY <1>1, <1>2, <1>5 DEF WholeDisk, ClustersAccounted
  <2> SUFFICES ASSUME NEW c \in Cluster, fat[c] # FreeCluster
               PROVE  \E h \in Heads(V) : c \in ToSet(chain[h])
    BY DEF Accounted
  <2>2. c \in ToSet(ChainOf(root_dir_first_cluster)) \/ \E p \in V : c \in ToSet(ChainOf(SlotAt(p).first))
    BY <2>1
  <2> QED BY <1>10, <1>11, <2>2
<1>24. CallHolds(D, V, chain)
  BY <1>1, <1>2 DEF CallHolds, Doing
<1>25. NodesHold(V, chain)
  <2>1. DOMAIN nodes = {}
    BY <1>1
  <2> QED BY <1>2, <2>1 DEF NodesHold, Doing
<1>26. ContentsHold(V, chain)
  <2> SUFFICES ASSUME NEW p \in V PROVE Content(NameAt(p), SlotAt(p).first, chain)
    BY DEF ContentsHold
  <2>n. PICK n : n = NameAt(p)
    OBVIOUS
  <2>1. p = CHOOSE q \in Entries : NameAt(q) = n
    BY <1>5, <1>9, <2>n
  <2>2. PICK s : s = ChainOf(SlotAt(p).first)
    OBVIOUS
  <2>3. n \in {NameAt(q) : q \in Entries}
    BY <1>5, <2>n
  <2>4. n \in DOMAIN contents /\ contents[n] = [i \in DOMAIN s |-> data[s[i]]]
    BY <2>1, <2>2, <2>3 DEF FatInit
  <2>5. s = chain[SlotAt(p).first] /\ DOMAIN s = 1 .. Len(s)
    <3>1. SlotAt(p).first \in Heads(V)
      BY <1>10
    <3>2. IsChain(chain[SlotAt(p).first], SlotAt(p).first)
      BY <1>12, <3>1, HeadChain
    <3> QED BY <1>11, <2>2, <3>1, <3>2 DEF IsChain
  <2>6. contents[n] = [i \in 1 .. Len(s) |-> data[s[i]]]
    BY <2>4, <2>5
  <2> QED BY <2>n, <2>4, <2>5, <2>6 DEF Content
<1> QED BY <1>4, <1>22, <1>23, <1>24, <1>25, <1>26 DEF FatInv, Holds

-----------------------------------------------------------------------------
(* The properties follow *)

\* The chains of the invariant are those of the FAT.
LEMMA DiskIsSound ==
  ASSUME NEW D, NEW V, NEW chain, VolumeHolds(D, V, chain)
  PROVE  DiskSound
<1>1. /\ Chains(fat, Heads(V), chain)
      /\ Owned(data, V, {root_dir_first_cluster} \cup Pending)
      /\ Named(data, V, PendingName)
  BY DEF VolumeHolds
<1>2. Entries \subseteq V /\ PlacesBelow(Used) = Entries
  BY EntriesAre
<1>3. root_dir_first_cluster \in Heads(V) /\ \A p \in V : SlotAt(p).first \in Heads(V)
  BY VolumeFacts, SeenSame DEF Heads
<1>4. \A h \in Heads(V) : ChainOf(h) = chain[h]
  BY <1>1, HeadChains
<1>5. \A h \in Heads(V) : Ends(ChainOf(h))
  BY <1>1, HeadsEnd
<1>6. \A g, h \in Heads(V) : g # h => ToSet(ChainOf(g)) \cap ToSet(ChainOf(h)) = {}
  BY <1>1, <1>4 DEF Chains
<1>7. \A p, q \in V : p # q => SlotAt(p).first # SlotAt(q).first
  BY <1>1, SeenSame DEF Owned
<1>8. \A p \in V : SlotAt(p).first # root_dir_first_cluster
  BY <1>1, SeenSame DEF Owned
<1>9. \A p, q \in V : NameAt(p) = NameAt(q) => p = q
  BY <1>1, SeenSame DEF Named
<1> DEFINE chains == [p \in Entries |-> ChainOf(SlotAt(p).first)]
<1>10. \A p \in Entries : chains[p] = ChainOf(SlotAt(p).first)
  OBVIOUS
<1>11. DOMAIN chains = Entries
  OBVIOUS
<1> HIDE DEF chains
<1>12. Ends(ChainOf(root_dir_first_cluster))
       /\ \A p \in Entries : Ends(chains[p]) /\ ToSet(ChainOf(root_dir_first_cluster)) \cap ToSet(chains[p]) = {}
  BY <1>2, <1>3, <1>5, <1>6, <1>8, <1>10
<1>13. Disjoint(chains)
  <2> SUFFICES ASSUME NEW a \in Entries, NEW b \in Entries, a # b
               PROVE  ToSet(chains[a]) \cap ToSet(chains[b]) = {}
    BY <1>11 DEF Disjoint
  <2> QED BY <1>2, <1>3, <1>6, <1>7, <1>10
<1>14. \A p, q \in Entries : NameAt(p) = NameAt(q) => p = q
  BY <1>2, <1>9
<1> QED BY <1>2, <1>12, <1>13, <1>14 DEF DiskSound, chains

\* The nodes of the invariant are those of the entries.
LEMMA NodesMatch ==
  ASSUME NEW D, NEW V, NEW chain, Holds(D, V, chain)
  PROVE  NodesMatchEntries
<1>1. VolumeHolds(D, V, chain) /\ NodesHold(V, chain)
  BY DEF Holds
<1>2. Chains(fat, Heads(V), chain)
  BY <1>1 DEF VolumeHolds
<1>3. Entries \subseteq V
  BY <1>1, EntriesAre
<1>4. ASSUME NEW n \in DOMAIN nodes, ~InMove(n)
      PROVE  LET p == nodes[n].place
             IN /\ p \in Entries /\ NameAt(p) = n
                /\ fat_to_vfs_attributes(SlotAt(p).attributes) = nodes[n].attributes
                /\ IsPrefix(nodes[n].layout, ChainOf(SlotAt(p).first))
                /\ nodes[n].layout_loaded => nodes[n].layout = ChainOf(SlotAt(p).first)
  <2> DEFINE p == nodes[n].place
             s == chain[SlotAt(p).first]
  <2>1. ~Moved(n) /\ ~(Doing("place") /\ IsDirectory(call.slot))
    BY <1>4 DEF Moved, InMove
  <2>2. Entries = V
    <3>1. Roots = {root_dir_first_cluster}
      BY <2>1 DEF Roots
    <3> QED BY <1>1, <3>1, EntriesAre
  <2>3. p \in V /\ NameAt(p) = n /\ NodeFits(nodes[n], SlotAt(p), chain)
    BY <1>1, <2>1 DEF NodesHold
  <2>4. SlotAt(p).first \in Heads(V)
    BY <1>1, <2>3, VolumeFacts, SeenSame
  <2>5. ChainOf(SlotAt(p).first) = s /\ s \in Seq(Cluster) /\ Len(s) \in Nat
    BY <1>2, <2>4, HeadChains
  <2>6. PICK m \in 1 .. Len(s) : nodes[n].layout = SubSeq(s, 1, m) /\ (nodes[n].layout_loaded => m = Len(s))
    BY <2>3 DEF NodeFits
  <2> HIDE DEF s
  <2>7. IsPrefix(nodes[n].layout, s) /\ SubSeq(s, 1, Len(s)) = s
    BY <2>5, <2>6 DEF IsPrefix
  <2>8. nodes[n].attributes = fat_to_vfs_attributes(SlotAt(p).attributes)
    BY <2>3 DEF NodeFits
  <2> QED BY <2>2, <2>3, <2>5, <2>6, <2>7, <2>8
<1>5. ASSUME call = Idle, ~faulted, NEW p \in Entries
      PROVE  NameAt(p) \in DOMAIN nodes
  <2>1. ~Doing("unmounted") /\ ~Doing("initialise")
    BY <1>5 DEF Doing, Idle
  <2> QED BY <1>1, <1>3, <1>5, <2>1 DEF NodesHold
<1> QED BY <1>4, <1>5 DEF NodesMatchEntries

\* The contents of the invariant are those of the files.
LEMMA ContentsAreKept ==
  ASSUME NEW D, NEW V, NEW chain, Holds(D, V, chain)
  PROVE  ContentsKept
<1>1. VolumeHolds(D, V, chain) /\ ContentsHold(V, chain)
  BY DEF Holds
<1>2. Chains(fat, Heads(V), chain) /\ Entries \subseteq V
  BY <1>1, EntriesAre DEF VolumeHolds
<1>3. ASSUME NEW p \in Entries, ~IsDirectory(SlotAt(p))
      PROVE  LET s == ChainOf(SlotAt(p).first)
             IN Len(contents[NameAt(p)]) = Len(s)
                  /\ \A i \in DOMAIN s : data[s[i]] = contents[NameAt(p)][i]
  <2> DEFINE s == chain[SlotAt(p).first]
  <2>1. SlotAt(p).first \in Heads(V) /\ p \in V
    BY <1>1, <1>2, VolumeFacts, SeenSame
  <2>2. ChainOf(SlotAt(p).first) = s /\ s \in Seq(Cluster) /\ Len(s) \in Nat
    BY <1>2, <2>1, HeadChains
  <2>3. contents[NameAt(p)] = [i \in 1 .. Len(s) |-> data[s[i]]]
    BY <1>1, <1>3, <2>1 DEF ContentsHold, Content
  <2> HIDE DEF s
  <2>4. Len(contents[NameAt(p)]) = Len(s) /\ DOMAIN s = 1 .. Len(s)
    BY <2>2, <2>3
  <2> QED BY <2>2, <2>3, <2>4
<1> QED BY <1>3 DEF ContentsKept

\* The chains of the invariant account for every cluster in use.
LEMMA AllAccounted ==
  ASSUME NEW D, NEW V, NEW chain, Holds(D, V, chain)
  PROVE  ClustersAccounted
<1>1. VolumeHolds(D, V, chain) /\ Accounted(V, chain)
  BY DEF Holds
<1>2. Chains(fat, Heads(V), chain)
  BY <1>1 DEF VolumeHolds
<1>3. SUFFICES ASSUME ~faulted, call.op \in {"none", "unmounted"}
               PROVE  {c \in Cluster : fat[c] # FreeCluster} =
                        ToSet(ChainOf(root_dir_first_cluster))
                          \cup UNION {ToSet(ChainOf(SlotAt(p).first)) : p \in Entries}
  BY DEF ClustersAccounted
<1>4. Pending = {} /\ Roots = {root_dir_first_cluster}
  BY <1>3 DEF Pending, Roots, Doing
<1>5. Entries = V
  BY <1>1, <1>4, EntriesAre
<1>6. Heads(V) = {root_dir_first_cluster} \cup {SlotAt(p).first : p \in Entries}
  BY <1>4, <1>5, SeenSame DEF Heads
<1>7. \A h \in Heads(V) : ChainOf(h) = chain[h] /\ ToSet(chain[h]) \subseteq Cluster
  BY <1>2, HeadChains
<1>8. \A h \in Heads(V) : \A c \in ToSet(ChainOf(h)) : fat[c] # FreeCluster
  BY <1>2, HeadsEnd
<1>9. \A c \in Cluster : fat[c] # FreeCluster <=> \E h \in Heads(V) : c \in ToSet(ChainOf(h))
  BY <1>1, <1>3, <1>7, <1>8 DEF Accounted
<1>10. \A c : (\E h \in Heads(V) : c \in ToSet(ChainOf(h))) <=>
              \/ c \in ToSet(ChainOf(root_dir_first_cluster))
              \/ c \in UNION {ToSet(ChainOf(SlotAt(p).first)) : p \in Entries}
  BY <1>6
<1>11. \A h \in Heads(V) : ToSet(ChainOf(h)) \subseteq Cluster
  BY <1>7
<1> HIDE DEF Heads
<1> QED BY <1>9, <1>10, <1>11

\* The invariant says what the driver promises.
LEMMA InvariantSuffices ==
  ASSUME FatInv
  PROVE  DiskSound /\ NodesMatchEntries /\ ContentsKept /\ ClustersAccounted
<1>1. CASE ~Sound
  BY <1>1 DEF DiskSound, NodesMatchEntries, ContentsKept, ClustersAccounted
<1>2. CASE Sound
  <2>1. PICK D, V, chain : Holds(D, V, chain)
    BY <1>2 DEF FatInv
  <2>2. VolumeHolds(D, V, chain)
    BY <2>1 DEF Holds
  <2> QED BY <2>1, <2>2, DiskIsSound, NodesMatch, ContentsAreKept, AllAccounted
<1> QED BY <1>1, <1>2

-----------------------------------------------------------------------------
(* The theorems *)

\* On a disk that was whole when it was mounted: whatever calls are made, which
\* transfers fail and wherever the machine stops, as long as no known defect is
\* met the reached directories, their entries and their chains form a volume, with
\* what the call under way holds, and the nodes and contents fit it.
THEOREM VolumeAlwaysHolds == WholeDisk /\ FatSpec => []FatInv
<1>1. FatInit /\ WholeDisk => FatInv
  BY InitHolds
<1>2. FatInv /\ [FatNext]_fatVars => FatInv'
  BY StepKeeps
<1> QED BY <1>1, <1>2, PTL DEF FatSpec

\* fat_fs_create_node, fat_fs_delete_node and fat_fs_move_node leave, after each of
\* their writes, chains that end and are apart, entries of different names, and no
\* entry behind an end slot.
THEOREM DiskAlwaysSound == WholeDisk /\ FatSpec => []DiskSound
<1>1. FatInv => DiskSound
  BY InvariantSuffices
<1> QED BY <1>1, VolumeAlwaysHolds, PTL

\* The nodes that fat_fs_read_directory, fat_fs_open and the calls make stand for
\* the entries on the disk.
THEOREM NodesAlwaysMatch == WholeDisk /\ FatSpec => []NodesMatchEntries
<1>1. FatInv => NodesMatchEntries
  BY InvariantSuffices
<1> QED BY <1>1, VolumeAlwaysHolds, PTL

\* Each page of a file is what fat_fs_write last wrote to it.
THEOREM ContentsAlwaysKept == WholeDisk /\ FatSpec => []ContentsKept
<1>1. FatInv => ContentsKept
  BY InvariantSuffices
<1> QED BY <1>1, VolumeAlwaysHolds, PTL

\* Without faults no cluster of the FAT is lost.
THEOREM ClustersAlwaysAccounted == WholeDisk /\ FatSpec => []ClustersAccounted
<1>1. FatInv => ClustersAccounted
  BY InvariantSuffices
<1> QED BY <1>1, VolumeAlwaysHolds, PTL
=============================================================================
