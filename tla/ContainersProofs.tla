------------------------ MODULE ContainersProofs ------------------------
(***************************************************************************)
(* Theorem about Containers, for every set of items, nodes and lists and   *)
(* rings of every size: a call does to the items of its container what     *)
(* ItemSequences promises, and nothing to those of another.                *)
(*                                                                         *)
(* The invariant says that every list is a chain of nodes it shares with   *)
(* no other list, that the arrays have room for what they hold, that the   *)
(* ordered_vector is sorted and that the indices of the ring are in it.    *)
(* For each call there is a lemma ...Leaves or ...Gives that says what     *)
(* items it leaves, or what it returns.                                    *)
(***************************************************************************)
EXTENDS Containers, KernelListsProofs

-----------------------------------------------------------------------------
(* What the sequence operators make of a sequence of n items. *)

With(f, n, e) == [i \in 1 .. n + 1 |-> IF i = n + 1 THEN e ELSE f[i]]
Before(f, n, e) == [i \in 1 .. n + 1 |-> IF i = 1 THEN e ELSE f[i - 1]]
Behind(f, n) == [i \in 1 .. n - 1 |-> f[i + 1]]
Turned(f, n) == [i \in 1 .. n |-> IF i = n THEN f[1] ELSE f[i + 1]]
Joint(f, n, g, m) == [i \in 1 .. n + m |-> IF i <= n THEN f[i] ELSE g[i - n]]
Without(f, n, p) == [i \in 1 .. n - 1 |-> IF i < p THEN f[i] ELSE f[i + 1]]
Within(f, n, p, e) == [i \in 1 .. n + 1 |-> IF i < p THEN f[i] ELSE IF i = p THEN e ELSE f[i - 1]]

\* f lists n items.
Listing(f, n) == n \in Nat /\ f = [i \in 1 .. n |-> f[i]]

\* What lists n items is a sequence.
LEMMA AsSequence ==
  ASSUME NEW n, NEW f, Listing(f, n)
  PROVE  \E S : f \in Seq(S) /\ f \in [1 .. n -> S] /\ Len(f) = n /\ n \in Nat /\ (f = <<>> <=> n = 0)
<1> DEFINE S == {f[i] : i \in 1 .. n}
<1>1. \A i \in 1 .. n : f[i] \in S
  OBVIOUS
<1> HIDE DEF S
<1>2. f \in [1 .. n -> S] /\ n \in Nat
  BY <1>1, Zenon DEF Listing
<1>3. f \in Seq(S) /\ Len(f) = n
  BY <1>2
<1>4. f = <<>> <=> n = 0
  BY <1>2, <1>3, EmptySeq
<1> QED
  BY <1>2, <1>3, <1>4

\* The sequence operators, position by position: an item more at the end,
LEMMA AppendGives ==
  ASSUME NEW n, NEW f, Listing(f, n), NEW e
  PROVE  Append(f, e) = With(f, n, e)
<1>1. PICK S : f \in Seq(S) /\ Len(f) = n
  BY AsSequence
<1>2. Append(f, e) = [i \in 1 .. Len(f) + 1 |-> IF i = Len(f) + 1 THEN e ELSE f[i]]
  BY <1>1, AppendIs, Zenon
<1> QED
  BY ONLY <1>1, <1>2 DEF With

\* the first item taken off,
LEMMA TailGives ==
  ASSUME NEW n, NEW f, Listing(f, n), n # 0
  PROVE  Tail(f) = Behind(f, n)
<1>1. PICK S : f \in Seq(S) /\ Len(f) = n /\ f # <<>>
  BY AsSequence
<1>2. Tail(f) = [i \in 1 .. Len(f) - 1 |-> f[i + 1]]
  BY <1>1, TailIs, Zenon
<1> QED
  BY ONLY <1>1, <1>2 DEF Behind

\* the first item,
LEMMA HeadGives ==
  ASSUME NEW n, NEW f, Listing(f, n), n # 0
  PROVE  f # <<>> /\ Head(f) = f[1]
<1>1. PICK S : f \in Seq(S) /\ Len(f) = n /\ f # <<>>
  BY AsSequence
<1> QED
  BY <1>1

\* the first item moved to the end,
LEMMA RotateGives ==
  ASSUME NEW n, NEW f, Listing(f, n), n # 0
  PROVE  Append(Tail(f), Head(f)) = Turned(f, n)
<1>1. PICK v : v = Tail(f)
  OBVIOUS
<1>2. PICK e : e = Head(f)
  OBVIOUS
<1>3. PICK m \in Nat : m + 1 = n /\ m = n - 1
  <2>1. n - 1 \in Nat /\ (n - 1) + 1 = n
    BY DEF Listing
  <2> QED
    BY <2>1
<1>4. v = [i \in 1 .. m |-> f[i + 1]] /\ e = f[1]
  <2>1. v = Behind(f, n)
    BY <1>1, TailGives
  <2>2. e = f[1]
    BY <1>2, HeadGives
  <2> QED
    BY ONLY <1>3, <2>1, <2>2 DEF Behind
<1>5. Listing(v, m)
  BY <1>4 DEF Listing
<1>6. Append(v, e) = With(v, m, e)
  BY <1>5, AppendGives
<1>7. \A i \in 1 .. n : (IF i = m + 1 THEN e ELSE v[i]) = IF i = n THEN f[1] ELSE f[i + 1]
  BY <1>3, <1>4
<1> QED
  BY ONLY <1>1, <1>2, <1>3, <1>6, <1>7 DEF Turned, With

\* two sequences one after the other,
LEMMA JoinGives ==
  ASSUME NEW n, NEW f, Listing(f, n), NEW m, NEW g, Listing(g, m)
  PROVE  f \o g = Joint(f, n, g, m)
<1>1. PICK S : f \in Seq(S) /\ Len(f) = n
  BY AsSequence
<1>2. PICK T : g \in Seq(T) /\ Len(g) = m
  BY AsSequence
<1>3. f \in Seq(S \cup T) /\ g \in Seq(S \cup T)
  BY <1>1, <1>2
<1>4. f \o g = [i \in 1 .. Len(f) + Len(g) |-> IF i <= Len(f) THEN f[i] ELSE g[i - Len(f)]]
  <2>1. PICK r : r = f \o g
    OBVIOUS
  <2>2. r \in Seq(S \cup T) /\ Len(r) = Len(f) + Len(g)
    BY <1>3, <2>1, ConcatProperties
  <2>3. r = [i \in 1 .. Len(r) |-> r[i]]
    BY <2>2
  <2>4. \A i \in 1 .. Len(f) + Len(g) : r[i] = IF i <= Len(f) THEN f[i] ELSE g[i - Len(f)]
    BY <1>3, <2>1
  <2> QED
    BY ONLY <2>1, <2>2, <2>3, <2>4
<1> QED
  BY ONLY <1>1, <1>2, <1>4 DEF Joint

\* an item more in front,
LEMMA PrependGives ==
  ASSUME NEW n, NEW f, Listing(f, n), NEW e
  PROVE  <<e>> \o f = Before(f, n, e)
<1>1. PICK b : b = <<e>>
  OBVIOUS
<1>2. PICK m \in Nat : m = 1
  OBVIOUS
<1>3. Listing(b, m) /\ b[1] = e
  BY <1>1, <1>2 DEF Listing
<1>4. b \o f = Joint(b, m, f, n)
  BY <1>3, JoinGives
<1>5. \A i \in 1 .. n + 1 : (IF i <= m THEN b[i] ELSE f[i - m]) = IF i = 1 THEN e ELSE f[i - 1]
  BY <1>2, <1>3 DEF Listing
<1>6. 1 .. m + n = 1 .. n + 1
  BY <1>2 DEF Listing
<1> QED
  BY ONLY <1>1, <1>4, <1>5, <1>6 DEF Before, Joint

\* the p-th item taken out,
LEMMA RemoveGives ==
  ASSUME NEW n, NEW f, Listing(f, n), NEW p \in 1 .. n
  PROVE  SubSeq(f, 1, p - 1) \o SubSeq(f, p + 1, Len(f)) = Without(f, n, p)
<1>1. PICK S : f \in Seq(S) /\ Len(f) = n /\ n \in Nat
  BY AsSequence
<1>2. PICK g : g = SubSeq(f, 1, p - 1)
  OBVIOUS
<1>3. PICK h : h = SubSeq(f, p + 1, Len(f))
  OBVIOUS
<1>4. PICK x \in Nat : x = p - 1
  BY <1>1
<1>5. PICK y \in Nat : y = n - p
  BY <1>1
<1>6. g = [i \in 1 .. p - 1 |-> f[i]]
  BY ONLY <1>1, <1>2, p \in 1 .. n
<1>7. h = [i \in 1 .. n - p |-> f[i + p]]
  <2>1. p \in 0 .. Len(f)
    BY <1>1
  <2> QED
    BY <1>1, <1>3, <2>1, SubSeqIs
<1>8. Listing(g, x) /\ Listing(h, y)
  BY ONLY <1>4, <1>5, <1>6, <1>7, x \in Nat, y \in Nat DEF Listing
<1>9. g \o h = Joint(g, x, h, y)
  BY <1>8, JoinGives
<1>10. ASSUME NEW i \in 1 .. n - 1
       PROVE  (IF i <= x THEN g[i] ELSE h[i - x]) = IF i < p THEN f[i] ELSE f[i + 1]
  BY <1>1, <1>4, <1>6, <1>7
<1>11. x + y = n - 1
  BY <1>1, <1>4, <1>5
<1> QED
  BY ONLY <1>2, <1>3, <1>9, <1>10, <1>11 DEF Without, Joint

\* an item put in at p.
LEMMA InsertGives ==
  ASSUME NEW n, NEW f, Listing(f, n), NEW p \in 1 .. n + 1, NEW e
  PROVE  SubSeq(f, 1, p - 1) \o <<e>> \o SubSeq(f, p, Len(f)) = Within(f, n, p, e)
<1>1. PICK S : f \in Seq(S) /\ Len(f) = n /\ n \in Nat
  BY AsSequence
<1>2. PICK g : g = SubSeq(f, 1, p - 1)
  OBVIOUS
<1>3. PICK h : h = SubSeq(f, p, Len(f))
  OBVIOUS
<1>4. PICK x \in Nat : x = p - 1
  BY <1>1
<1>5. PICK y \in Nat : y = n - (p - 1)
  BY <1>1
<1>6. g = [i \in 1 .. p - 1 |-> f[i]]
  BY ONLY <1>1, <1>2, p \in 1 .. n + 1
<1>7. h = [i \in 1 .. n - (p - 1) |-> f[i + (p - 1)]]
  <2>1. p - 1 \in 0 .. Len(f) /\ (p - 1) + 1 = p
    BY <1>1
  <2>2. SubSeq(f, (p - 1) + 1, Len(f)) = [i \in 1 .. Len(f) - (p - 1) |-> f[i + (p - 1)]]
    BY <1>1, <2>1, SubSeqIs
  <2> QED
    BY ONLY <1>1, <1>3, <2>1, <2>2
<1>8. Listing(g, x) /\ Listing(h, y)
  BY ONLY <1>4, <1>5, <1>6, <1>7, x \in Nat, y \in Nat DEF Listing
<1>9. PICK k : k = Append(g, e)
  OBVIOUS
<1>10. k = With(g, x, e)
  BY <1>8, <1>9, AppendGives
<1>11. k = g \o <<e>>
  <2>1. PICK T : g \in Seq(T)
    BY <1>8, AsSequence
  <2>2. g \in Seq(T \cup {e}) /\ e \in T \cup {e}
    BY <2>1
  <2> QED
    BY <1>9, <2>2, AppendIsConcat
<1>12. PICK z \in Nat : z = x + 1
  OBVIOUS
<1>13. Listing(k, z)
  BY <1>10, <1>12 DEF With, Listing
<1>14. k \o h = Joint(k, z, h, y)
  BY <1>8, <1>13, JoinGives
<1>15. ASSUME NEW i \in 1 .. n + 1
       PROVE  (IF i <= z THEN k[i] ELSE h[i - z]) = IF i < p THEN f[i] ELSE IF i = p THEN e ELSE f[i - 1]
  BY <1>1, <1>4, <1>6, <1>7, <1>10, <1>12 DEF With
<1>16. z + y = n + 1
  BY <1>1, <1>4, <1>5, <1>12
<1>17. k \o h = Within(f, n, p, e)
  BY ONLY <1>14, <1>15, <1>16 DEF Joint, Within
<1> QED
  BY ONLY <1>2, <1>3, <1>11, <1>17, Zenon

-----------------------------------------------------------------------------
(* Linked nodes *)

\* What Chain computes from the head, the nodes and the count.
Following(h, c, n) ==
  LET at[i \in 1..n] ==
        IF i = 1 THEN h ELSE c[at[i - 1]].next
  IN at

Datum == Item \cup {Nothing}
Pointer == Node \cup {null}
Cells == [Pointer -> [data : Datum, next : Pointer]]
Record == [head : Pointer, tail : Pointer, count : Nat]

\* The nodes s of a list that its record r describes, linked from the head to the
\* tail.
OneChain(c, r, s) ==
  /\ s \in [1 .. r.count -> Node]
  /\ r.count = 0 => r = Empty
  /\ r.count > 0 => r.head = s[1] /\ r.tail = s[r.count]
  /\ \A i \in 1 .. r.count - 1 : c[s[i]].next = s[i + 1]

ItemsOf(c, s, n) == [i \in 1 .. n |-> c[s[i]].data]

\* The lists at a moment: ch gives the nodes of each, no node is in two places,
\* and the loose one is in none.
Linked(c, li, lo, ch) ==
  /\ c \in Cells /\ li \in [List -> Record] /\ lo \in Pointer
  /\ \A l \in List : OneChain(c, li[l], ch[l])
  /\ \A l, m \in List : \A i \in 1 .. li[l].count, j \in 1 .. li[m].count :
       ch[l][i] = ch[m][j] => l = m /\ i = j
  /\ \A l \in List : \A i \in 1 .. li[l].count : ch[l][i] # lo

\* A chain that is linked is the one that following the pointers finds.
LEMMA ChainIs ==
  ASSUME NEW c, NEW r \in Record, NEW s, OneChain(c, r, s)
  PROVE  Following(r.head, c, r.count) = s
<1>1. PICK n \in Nat : n = r.count
  BY DEF Record
<1>2. PICK h : h = r.head
  OBVIOUS
<1>3. s = [i \in 1 .. n |-> s[i]]
  BY <1>1 DEF OneChain
<1>4. n > 0 => s[1] = h
  BY <1>1, <1>2 DEF OneChain
<1>5. \A i \in 1 .. n - 1 : s[i + 1] = c[s[i]].next
  BY <1>1 DEF OneChain
<1>6. s = [i \in 1 .. n |-> IF i = 1 THEN h ELSE c[s[i - 1]].next]
  <2>1. ASSUME NEW i \in 1 .. n
        PROVE  s[i] = IF i = 1 THEN h ELSE c[s[i - 1]].next
    <3>1. CASE i = 1
      BY <1>4, <3>1
    <3>2. CASE i # 1
      <4>1. i - 1 \in 1 .. n - 1 /\ (i - 1) + 1 = i
        BY <3>2
      <4> QED
        BY <1>5, <3>2, <4>1
    <3> QED
      BY <3>1, <3>2
  <2> QED
    BY <1>3, <2>1
<1> DEFINE Fits(at) == at = [i \in 1 .. n |-> IF i = 1 THEN h ELSE c[at[i - 1]].next]
           f == CHOOSE at : Fits(at)
<1>7. Following(h, c, n) = f
  BY DEF Following
<1>8. Fits(f)
  <2>1. Fits(s)
    BY <1>6, Zenon
  <2> HIDE DEF Fits
  <2> QED
    BY <2>1
<1> HIDE DEF f
<1> DEFINE S == {k \in 0 .. n : \A i \in 1 .. k : f[i] = s[i]}
<1>9. 0 \in S
  OBVIOUS
<1>10. ASSUME NEW k \in S, k < n
      PROVE  k + 1 \in S
  <2>1. k \in 0 .. n /\ \A i \in 1 .. k : f[i] = s[i]
    BY <1>10
  <2>2. k + 1 \in 1 .. n /\ (k + 1) - 1 = k
    BY <1>10, <2>1
  <2>3. f[k + 1] = s[k + 1]
    <3>1. CASE k = 0
      BY <1>6, <1>8, <2>2, <3>1
    <3>2. CASE k # 0
      <4>1. k \in 1 .. k /\ k + 1 # 1
        BY <2>1, <3>2
      <4>2. f[k + 1] = c[f[k]].next
        BY <1>8, <2>2, <4>1
      <4>3. s[k + 1] = c[s[k]].next
        BY <1>6, <2>2, <4>1
      <4> QED
        BY <2>1, <4>1, <4>2, <4>3
    <3> QED
      BY <3>1, <3>2
  <2>4. \A i \in 1 .. k + 1 : i \in 1 .. k \/ i = k + 1
    BY <2>1
  <2> QED
    BY <2>1, <2>2, <2>3, <2>4
<1>11. n \in S
  <2> HIDE DEF S
  <2>1. S \in SUBSET (0 .. n)
    BY DEF S
  <2> QED
    BY <1>9, <1>10, <2>1, Ladder
<1>12. f = [i \in 1 .. n |-> f[i]] /\ \A i \in 1 .. n : f[i] = s[i]
  BY <1>8, <1>11
<1> QED
  BY <1>1, <1>2, <1>3, <1>7, <1>12

\* A call that works on list l, with nodes of no other.
LEMMA Relinked ==
  ASSUME NEW c, NEW li, NEW lo, NEW ch, Linked(c, li, lo, ch), NEW l \in List,
         NEW d \in Cells, NEW lj \in [List -> Record], NEW left \in Pointer, NEW cg,
         \A m \in List \ {l} : lj[m] = li[m] /\ cg[m] = ch[m],
         \A m \in List \ {l} : \A i \in 1 .. li[m].count :
           /\ d[ch[m][i]] = c[ch[m][i]] /\ ch[m][i] # left
           /\ \A j \in 1 .. lj[l].count : cg[l][j] # ch[m][i],
         OneChain(d, lj[l], cg[l]),
         \A i, j \in 1 .. lj[l].count : cg[l][i] = cg[l][j] => i = j,
         \A i \in 1 .. lj[l].count : cg[l][i] # left
  PROVE  /\ Linked(d, lj, left, cg)
         /\ \A m \in List \ {l} : ItemsOf(d, cg[m], lj[m].count) = ItemsOf(c, ch[m], li[m].count)
<1>5. ASSUME NEW m \in List \ {l}
      PROVE  /\ OneChain(d, lj[m], cg[m])
             /\ ItemsOf(d, cg[m], lj[m].count) = ItemsOf(c, ch[m], li[m].count)
  <2>1. OneChain(c, li[m], ch[m]) /\ lj[m] = li[m] /\ cg[m] = ch[m] /\ lj[m].count \in Nat
    BY DEF Linked, Record
  <2>2. \A i \in 1 .. lj[m].count : d[cg[m][i]] = c[cg[m][i]]
    BY <2>1
  <2>3. \A i \in 1 .. lj[m].count - 1 : i \in 1 .. lj[m].count
    BY <2>1
  <2> QED
    BY ONLY <2>1, <2>2, <2>3 DEF OneChain, ItemsOf
<1>6. \A m \in List : OneChain(d, lj[m], cg[m])
  BY <1>5
<1>7. ASSUME NEW m \in List, NEW n \in List, NEW i \in 1 .. lj[m].count, NEW j \in 1 .. lj[n].count, cg[m][i] = cg[n][j]
      PROVE  m = n /\ i = j
  <2>1. CASE m # l /\ n # l
    BY <1>7, <2>1 DEF Linked
  <2>2. CASE m = l /\ n # l
    BY <1>7, <2>2
  <2>3. CASE m # l /\ n = l
    BY <1>7, <2>3
  <2>4. CASE m = l /\ n = l
    BY <1>7, <2>4
  <2> QED
    BY <2>1, <2>2, <2>3, <2>4
<1>8. \A m \in List : \A i \in 1 .. lj[m].count : cg[m][i] # left
  BY DEF Linked
<1>9. Linked(d, lj, left, cg)
  BY <1>6, <1>7, <1>8 DEF Linked
<1> QED
  BY <1>5, <1>9

\* The items of a chain are a sequence, and come from its nodes.
LEMMA ItemsTyped ==
  ASSUME NEW c \in Cells, NEW r \in Record, NEW s, OneChain(c, r, s)
  PROVE  /\ Listing(ItemsOf(c, s, r.count), r.count) /\ r.count \in Nat
         /\ \A i \in 1 .. r.count : ItemsOf(c, s, r.count)[i] = c[s[i]].data /\ s[i] \in Node
BY DEF Cells, Record, OneChain, ItemsOf, Pointer, Listing

\* The chain t that a call makes of the chain s, of its nodes and of those in N.
Edited(d, r, s, q, t, N) ==
  /\ OneChain(d, q, t)
  /\ \A i, j \in 1 .. q.count : t[i] = t[j] => i = j
  /\ \A i \in 1 .. q.count : t[i] \in N \/ \E j \in 1 .. r.count : t[i] = s[j]

\* A call that works on list l, and on nodes of no other.
OnlyList(l, c, li, lo, ch, d, q, left, t, N, lj, cg) ==
  /\ lj = [li EXCEPT ![l] = q] /\ cg = [m \in List |-> IF m = l THEN t ELSE ch[m]]
  /\ d \in Cells /\ q \in Record /\ left \in Pointer
  /\ \A m \in List : \A i \in 1 .. li[m].count : ch[m][i] \notin N
  /\ Edited(d, li[l], ch[l], q, t, N)
  /\ \A x \in Node : d[x] = c[x] \/ x \in N \/ \E j \in 1 .. li[l].count : x = ch[l][j]
  /\ left = null \/ left = lo \/ \E j \in 1 .. li[l].count : left = ch[l][j]
  /\ \A i \in 1 .. q.count : t[i] # left

\* The lists stay linked, the others with the items they had.
LEMMA OneListChanges ==
  ASSUME NEW c, NEW li, NEW lo, NEW ch, Linked(c, li, lo, ch), NEW l \in List,
         NEW d, NEW q, NEW left, NEW t, NEW N, NEW lj, NEW cg,
         OnlyList(l, c, li, lo, ch, d, q, left, t, N, lj, cg)
  PROVE  /\ Linked(d, lj, left, cg)
         /\ \A m \in List \ {l} : ItemsOf(d, cg[m], lj[m].count) = ItemsOf(c, ch[m], li[m].count)
<1>0. /\ lj = [li EXCEPT ![l] = q] /\ cg = [m \in List |-> IF m = l THEN t ELSE ch[m]]
      /\ d \in Cells /\ q \in Record /\ left \in Pointer
      /\ \A m \in List : \A i \in 1 .. li[m].count : ch[m][i] \notin N
      /\ Edited(d, li[l], ch[l], q, t, N)
      /\ \A x \in Node : d[x] = c[x] \/ x \in N \/ \E j \in 1 .. li[l].count : x = ch[l][j]
      /\ left = null \/ left = lo \/ \E j \in 1 .. li[l].count : left = ch[l][j]
      /\ \A i \in 1 .. q.count : t[i] # left
  BY DEF OnlyList
<1>1. /\ lj \in [List -> Record] /\ lj[l] = q /\ cg[l] = t
      /\ \A m \in List \ {l} : lj[m] = li[m] /\ cg[m] = ch[m]
  BY <1>0 DEF Linked
<1>2. ASSUME NEW m \in List \ {l}, NEW i \in 1 .. li[m].count
      PROVE  /\ d[ch[m][i]] = c[ch[m][i]] /\ ch[m][i] # left
             /\ \A j \in 1 .. lj[l].count : cg[l][j] # ch[m][i]
  <2>1. ch[m][i] \in Node /\ ch[m][i] # null /\ ch[m][i] # lo /\ ch[m][i] \notin N
    <3>1. OneChain(c, li[m], ch[m]) /\ ch[m][i] # lo /\ ch[m][i] \notin N
      BY <1>0 DEF Linked
    <3>2. ch[m][i] \in Node
      BY <3>1 DEF OneChain
    <3> QED
      BY <3>1, <3>2, ContainersAssumption
  <2>2. \A j \in 1 .. li[l].count : ch[m][i] # ch[l][j]
    BY DEF Linked
  <2> QED
    BY <1>0, <1>1, <2>1, <2>2 DEF Edited
<1>3. /\ OneChain(d, lj[l], cg[l])
      /\ \A i, j \in 1 .. lj[l].count : cg[l][i] = cg[l][j] => i = j
      /\ \A i \in 1 .. lj[l].count : cg[l][i] # left
  BY <1>0, <1>1 DEF Edited
<1>4. \A m \in List \ {l} : \A i \in 1 .. li[m].count :
        /\ d[ch[m][i]] = c[ch[m][i]] /\ ch[m][i] # left
        /\ \A j \in 1 .. lj[l].count : cg[l][j] # ch[m][i]
  BY <1>2
<1> QED
  <2>1. /\ Linked(c, li, lo, ch) /\ l \in List /\ d \in Cells /\ left \in Pointer
        /\ lj \in [List -> Record] /\ \A m \in List \ {l} : lj[m] = li[m] /\ cg[m] = ch[m]
    BY <1>0, <1>1
  <2> QED
    BY ONLY <2>1, <1>3, <1>4, Relinked

-----------------------------------------------------------------------------
(* What the calls make of a chain. *)

\* From memory c, with a list of record r along s, to memory d with record q along t:
\* node n comes last; below, n comes first, the p-th goes, the first comes last.
AppendsTo(c, r, s, d, n, q, t) ==
  /\ c \in Cells /\ r \in Record /\ OneChain(c, r, s) /\ \A i, j \in 1 .. r.count : s[i] = s[j] => i = j
  /\ d \in Cells /\ n \in Node /\ \A i \in 1 .. r.count : s[i] # n
  /\ \A i \in 1 .. r.count : d[s[i]].data = c[s[i]].data
  /\ \A i \in 1 .. r.count - 1 : d[s[i]].next = c[s[i]].next
  /\ r.count > 0 => d[s[r.count]].next = n
  /\ q \in Record /\ q.count = r.count + 1 /\ q.tail = n /\ q.head = IF r.count = 0 THEN n ELSE r.head
  /\ t = [i \in 1 .. r.count + 1 |-> IF i = r.count + 1 THEN n ELSE s[i]]

\* What those four edits make of the items.
LEMMA Appended ==
  ASSUME NEW c, NEW r, NEW s, NEW d, NEW n, NEW q, NEW t, AppendsTo(c, r, s, d, n, q, t)
  PROVE  /\ Edited(d, r, s, q, t, {n})
         /\ ItemsOf(d, t, q.count) = With(ItemsOf(c, s, r.count), r.count, d[n].data)
<1> USE DEF AppendsTo
<1>1. PICK k \in Nat : k = r.count
  BY DEF Record
<1>2. s \in [1 .. k -> Node] /\ t \in [1 .. k + 1 -> Node] /\ t = [i \in 1 .. k + 1 |-> IF i = k + 1 THEN n ELSE s[i]]
  BY <1>1 DEF OneChain
<1>3. t[k + 1] = n /\ \A i \in 1 .. k : t[i] = s[i]
  <2>1. k + 1 \in 1 .. k + 1 /\ \A i \in 1 .. k : i \in 1 .. k + 1 /\ i # k + 1
    OBVIOUS
  <2> QED
    BY ONLY <1>2, <2>1, Zenon
<1>4. q.head = t[1] /\ q.tail = t[k + 1]
  <2>1. CASE k = 0
    BY <1>1, <1>3, <2>1
  <2>2. CASE k > 0
    BY <1>1, <1>3, <2>2 DEF OneChain
  <2> QED
    BY <2>1, <2>2
<1>5. ASSUME NEW i \in 1 .. k
      PROVE  d[t[i]].next = t[i + 1]
  <2>1. CASE i = k
    BY <1>1, <1>3, <2>1
  <2>2. CASE i < k
    <3>1. i \in 1 .. k - 1 /\ i + 1 \in 1 .. k
      BY <2>2
    <3> QED
      BY <1>1, <1>3, <3>1 DEF OneChain
  <2> QED
    BY <2>1, <2>2
<1>6. OneChain(d, q, t)
  <2>1. q.count = k + 1 /\ (k + 1) - 1 = k /\ k + 1 # 0
    BY <1>1
  <2> QED
    BY <1>2, <1>4, <1>5, <2>1 DEF OneChain
<1>7. \A i, j \in 1 .. q.count : t[i] = t[j] => i = j
  BY <1>1, <1>3
<1>8. \A i \in 1 .. q.count : t[i] \in {n} \/ \E j \in 1 .. r.count : t[i] = s[j]
  BY <1>1, <1>3
<1>9. ItemsOf(d, t, q.count) = With(ItemsOf(c, s, r.count), r.count, d[n].data)
  <2>1. PICK u : u = ItemsOf(c, s, r.count)
    OBVIOUS
  <2>2. Listing(u, k) /\ \A i \in 1 .. k : u[i] = c[s[i]].data
    BY <1>1, <2>1, ItemsTyped
  <2>3. r.count = k
    BY <1>1
  <2>4. \A i \in 1 .. k + 1 : d[t[i]].data = IF i = k + 1 THEN d[n].data ELSE u[i]
    BY <1>1, <1>3, <2>2
  <2>5. ItemsOf(d, t, q.count) = [i \in 1 .. k + 1 |-> d[t[i]].data]
    BY <1>1 DEF ItemsOf
  <2> QED
    BY ONLY <2>1, <2>3, <2>4, <2>5 DEF With
<1> QED
  BY <1>6, <1>7, <1>8, <1>9 DEF Edited

PrependsTo(c, r, s, d, n, q, t) ==
  /\ c \in Cells /\ r \in Record /\ OneChain(c, r, s) /\ \A i, j \in 1 .. r.count : s[i] = s[j] => i = j
  /\ d \in Cells /\ n \in Node /\ \A i \in 1 .. r.count : s[i] # n
  /\ \A i \in 1 .. r.count : d[s[i]] = c[s[i]]
  /\ d[n].next = r.head
  /\ q \in Record /\ q.count = r.count + 1 /\ q.head = n /\ q.tail = IF r.count = 0 THEN n ELSE r.tail
  /\ t = [i \in 1 .. r.count + 1 |-> IF i = 1 THEN n ELSE s[i - 1]]

LEMMA Prepended ==
  ASSUME NEW c, NEW r, NEW s, NEW d, NEW n, NEW q, NEW t, PrependsTo(c, r, s, d, n, q, t)
  PROVE  /\ Edited(d, r, s, q, t, {n})
         /\ ItemsOf(d, t, q.count) = <<d[n].data>> \o ItemsOf(c, s, r.count)
<1> USE DEF PrependsTo
<1>1. PICK k \in Nat : k = r.count
  BY DEF Record
<1>2. s \in [1 .. k -> Node] /\ t \in [1 .. k + 1 -> Node] /\ t = [i \in 1 .. k + 1 |-> IF i = 1 THEN n ELSE s[i - 1]]
  BY <1>1 DEF OneChain
<1>3. t[1] = n /\ \A i \in 2 .. k + 1 : t[i] = s[i - 1] /\ i - 1 \in 1 .. k
  <2>1. 1 \in 1 .. k + 1 /\ \A i \in 2 .. k + 1 : i \in 1 .. k + 1 /\ i # 1 /\ i - 1 \in 1 .. k
    OBVIOUS
  <2> QED
    BY ONLY <1>2, <2>1, Zenon
<1>4. q.head = t[1] /\ q.tail = t[k + 1]
  <2>1. CASE k = 0
    BY <1>1, <1>3, <2>1
  <2>2. CASE k > 0
    <3>1. k + 1 \in 2 .. k + 1 /\ (k + 1) - 1 = k
      BY <2>2
    <3> QED
      BY <1>1, <1>3, <2>2, <3>1 DEF OneChain
  <2> QED
    BY <2>1, <2>2
<1>5. ASSUME NEW i \in 1 .. k
      PROVE  d[t[i]].next = t[i + 1]
  <2>1. i + 1 \in 2 .. k + 1 /\ (i + 1) - 1 = i
    OBVIOUS
  <2>2. CASE i = 1
    BY <1>1, <1>3, <2>1, <2>2 DEF OneChain
  <2>3. CASE i > 1
    <3>1. i \in 2 .. k + 1 /\ i - 1 \in 1 .. k - 1 /\ i - 1 \in 1 .. k /\ (i - 1) + 1 = i
      BY <2>3
    <3> QED
      BY <1>1, <1>3, <2>1, <3>1 DEF OneChain
  <2> QED
    BY <2>2, <2>3
<1>6. OneChain(d, q, t)
  <2>1. q.count = k + 1 /\ (k + 1) - 1 = k /\ k + 1 # 0
    BY <1>1
  <2> QED
    BY <1>2, <1>4, <1>5, <2>1 DEF OneChain
<1>i. \A i \in 1 .. q.count : i = 1 \/ i \in 2 .. k + 1
  BY <1>1
<1>7. \A i, j \in 1 .. q.count : t[i] = t[j] => i = j
  BY <1>1, <1>3, <1>i
<1>8. \A i \in 1 .. q.count : t[i] \in {n} \/ \E j \in 1 .. r.count : t[i] = s[j]
  BY <1>1, <1>3, <1>i
<1>9. ItemsOf(d, t, q.count) = <<d[n].data>> \o ItemsOf(c, s, r.count)
  <2>1. PICK u : u = ItemsOf(c, s, r.count)
    OBVIOUS
  <2>2. Listing(u, k) /\ \A i \in 1 .. k : u[i] = c[s[i]].data
    BY <1>1, <2>1, ItemsTyped
  <2>3. <<d[n].data>> \o u = Before(u, k, d[n].data)
    BY <2>2, PrependGives
  <2>4. \A i \in 1 .. k + 1 : d[t[i]].data = IF i = 1 THEN d[n].data ELSE u[i - 1]
    <3> SUFFICES ASSUME NEW i \in 1 .. k + 1
                 PROVE  d[t[i]].data = IF i = 1 THEN d[n].data ELSE u[i - 1]
      OBVIOUS
    <3>1. CASE i = 1
      BY <1>3, <3>1
    <3>2. CASE i # 1
      <4>1. i \in 2 .. k + 1 /\ i - 1 \in 1 .. k /\ i - 1 \in 1 .. r.count
        BY <1>1, <3>2
      <4>2. t[i] = s[i - 1]
        BY <1>3, <4>1
      <4> QED
        BY <2>2, <3>2, <4>1, <4>2
    <3> QED
      BY <3>1, <3>2
  <2>5. ItemsOf(d, t, q.count) = [i \in 1 .. k + 1 |-> d[t[i]].data]
    BY <1>1 DEF ItemsOf
  <2> QED
    BY ONLY <2>1, <2>3, <2>4, <2>5 DEF Before
<1> QED
  BY <1>6, <1>7, <1>8, <1>9 DEF Edited

RemovesFrom(c, r, s, d, p, q, t) ==
  /\ c \in Cells /\ r \in Record /\ OneChain(c, r, s) /\ \A i, j \in 1 .. r.count : s[i] = s[j] => i = j
  /\ d \in Cells /\ p \in 1 .. r.count
  /\ \A i \in 1 .. r.count : i # p => d[s[i]].data = c[s[i]].data
  /\ \A i \in 1 .. r.count - 1 : i # p /\ i # p - 1 => d[s[i]].next = c[s[i]].next
  /\ p > 1 /\ p < r.count => d[s[p - 1]].next = s[p + 1]
  /\ q \in Record /\ q.count = r.count - 1
  /\ r.count = 1 => q = Empty
  /\ r.count > 1 => q.head = IF p = 1 THEN s[2] ELSE s[1]
  /\ r.count > 1 => q.tail = IF p = r.count THEN s[r.count - 1] ELSE s[r.count]
  /\ t = [i \in 1 .. r.count - 1 |-> IF i < p THEN s[i] ELSE s[i + 1]]

LEMMA Removed ==
  ASSUME NEW c, NEW r, NEW s, NEW d, NEW p, NEW q, NEW t, RemovesFrom(c, r, s, d, p, q, t)
  PROVE  /\ Edited(d, r, s, q, t, {}) /\ \A i \in 1 .. q.count : t[i] # s[p]
         /\ ItemsOf(d, t, q.count) = Without(ItemsOf(c, s, r.count), r.count, p)
<1> USE DEF RemovesFrom
<1>1. PICK k \in Nat : k = r.count
  BY DEF Record
<1>2. s \in [1 .. k -> Node] /\ t = [i \in 1 .. k - 1 |-> IF i < p THEN s[i] ELSE s[i + 1]] /\ p \in 1 .. k
  BY <1>1 DEF OneChain
<1>3. \A i \in 1 .. k - 1 : /\ i < p => t[i] = s[i] /\ i \in 1 .. k
                            /\ ~(i < p) => t[i] = s[i + 1] /\ i + 1 \in 1 .. k
                            /\ t[i] \in Node
  <2> SUFFICES ASSUME NEW i \in 1 .. k - 1
               PROVE  /\ i < p => t[i] = s[i] /\ i \in 1 .. k
                      /\ ~(i < p) => t[i] = s[i + 1] /\ i + 1 \in 1 .. k
                      /\ t[i] \in Node
    OBVIOUS
  <2>1. t[i] = IF i < p THEN s[i] ELSE s[i + 1]
    BY ONLY <1>2, i \in 1 .. k - 1
  <2>2. i \in 1 .. k /\ i + 1 \in 1 .. k
    OBVIOUS
  <2>3. s[i] \in Node /\ s[i + 1] \in Node
    BY <1>2, <2>2
  <2> QED
    BY <2>1, <2>2, <2>3
<1>t. t \in [1 .. k - 1 -> Node]
  BY <1>2, <1>3
<1>4. k > 1 => q.head = t[1] /\ q.tail = t[k - 1]
  <2> SUFFICES ASSUME k > 1 PROVE q.head = t[1] /\ q.tail = t[k - 1]
    OBVIOUS
  <2>1. 1 \in 1 .. k - 1 /\ k - 1 \in 1 .. k - 1 /\ 1 + 1 = 2 /\ (k - 1) + 1 = k
    BY ONLY k \in Nat, k > 1
  <2>2. q.head = t[1]
    <3>1. CASE p = 1
      BY <1>1, <1>3, <2>1, <3>1
    <3>2. CASE p # 1
      BY <1>1, <1>3, <2>1, <3>2
    <3> QED
      BY <3>1, <3>2
  <2>3. q.tail = t[k - 1]
    <3>1. CASE p = k
      BY <1>1, <1>3, <2>1, <3>1
    <3>2. CASE p # k
      <4>1. ~(k - 1 < p)
        BY <1>1, <3>2
      <4> QED
        BY <1>1, <1>3, <2>1, <3>2, <4>1
    <3> QED
      BY <3>1, <3>2
  <2> QED
    BY <2>2, <2>3
<1>n. \A i \in 1 .. k - 1 : c[s[i]].next = s[i + 1]
  BY <1>1 DEF OneChain
<1>5. ASSUME NEW i \in 1 .. k - 2
      PROVE  d[t[i]].next = t[i + 1]
  <2>1. /\ i \in 1 .. k - 1 /\ i + 1 \in 1 .. k - 1 /\ i + 1 \in 1 .. k /\ (i + 1) + 1 = i + 2
        /\ i + 2 \in 1 .. k
    BY <1>1
  <2>2. CASE i + 1 < p
    <3>1. i < p /\ i # p - 1 /\ i # p
      BY <2>2
    <3> QED
      BY <1>1, <1>3, <1>n, <2>1, <2>2, <3>1
  <2>3. CASE i + 1 = p
    <3>1. i < p /\ p > 1 /\ p < k /\ p - 1 = i /\ p + 1 = i + 2
      BY <1>1, <2>3
    <3> QED
      BY <1>1, <1>3, <2>1, <2>3, <3>1
  <2>4. CASE i + 1 > p
    <3>1. ~(i < p) /\ ~(i + 1 < p) /\ i + 1 # p /\ i + 1 # p - 1
      BY <2>4
    <3> QED
      BY <1>1, <1>3, <1>n, <2>1, <3>1
  <2> QED
    BY <2>2, <2>3, <2>4
<1>6. OneChain(d, q, t)
  <2>1. q.count = k - 1 /\ (k - 1) - 1 = k - 2 /\ (k - 1 = 0 <=> k = 1) /\ (k - 1 > 0 <=> k > 1)
    BY <1>1
  <2>2. q.count = 0 => q = Empty
    BY <1>1, <2>1
  <2> QED
    BY <1>t, <1>4, <1>5, <2>1, <2>2 DEF OneChain
<1>7. \A i, j \in 1 .. q.count : t[i] = t[j] => i = j
  <2> SUFFICES ASSUME NEW i \in 1 .. k - 1, NEW j \in 1 .. k - 1, t[i] = t[j]
               PROVE  i = j
    BY <1>1
  <2>1. \A x, y \in 1 .. k : s[x] = s[y] => x = y
    BY <1>1
  <2>2. CASE i < p /\ j < p
    BY <1>3, <2>1, <2>2
  <2>3. CASE i < p /\ ~(j < p)
    <3>1. i = j + 1
      BY <1>3, <2>1, <2>3
    <3> QED
      BY <2>3, <3>1
  <2>4. CASE ~(i < p) /\ j < p
    <3>1. i + 1 = j
      BY <1>3, <2>1, <2>4
    <3> QED
      BY <2>4, <3>1
  <2>5. CASE ~(i < p) /\ ~(j < p)
    <3>1. i + 1 = j + 1
      BY <1>3, <2>1, <2>5
    <3> QED
      BY <3>1
  <2> QED
    BY <2>2, <2>3, <2>4, <2>5
<1>8. \A i \in 1 .. q.count : t[i] \in {} \/ \E j \in 1 .. r.count : t[i] = s[j]
  BY <1>1, <1>3
<1>9. \A i \in 1 .. q.count : t[i] # s[p]
  <2> SUFFICES ASSUME NEW i \in 1 .. k - 1 PROVE t[i] # s[p]
    BY <1>1
  <2>1. \A x \in 1 .. k : s[x] = s[p] => x = p
    BY <1>1
  <2> QED
    BY <1>3, <2>1
<1>10. ItemsOf(d, t, q.count) = Without(ItemsOf(c, s, r.count), r.count, p)
  <2>1. PICK u : u = ItemsOf(c, s, r.count)
    OBVIOUS
  <2>2. \A i \in 1 .. k : u[i] = c[s[i]].data
    BY <1>1, <2>1, ItemsTyped
  <2>3. ASSUME NEW i \in 1 .. k - 1
        PROVE  d[t[i]].data = IF i < p THEN u[i] ELSE u[i + 1]
    <3>1. CASE i < p
      <4>1. i \in 1 .. k /\ i # p
        BY <1>1, <3>1
      <4> QED
        BY <1>1, <1>3, <2>2, <3>1, <4>1
    <3>2. CASE ~(i < p)
      <4>1. i + 1 \in 1 .. k /\ i + 1 # p
        BY <1>1, <3>2
      <4> QED
        BY <1>1, <1>3, <2>2, <3>2, <4>1
    <3> QED
      BY <3>1, <3>2
  <2>4. ItemsOf(d, t, q.count) = [i \in 1 .. k - 1 |-> d[t[i]].data]
    BY <1>1 DEF ItemsOf
  <2> QED
    BY ONLY <1>1, <2>1, <2>3, <2>4 DEF Without
<1> QED
  BY <1>6, <1>7, <1>8, <1>9, <1>10 DEF Edited

Rotates(c, r, s, d, q, t) ==
  /\ c \in Cells /\ r \in Record /\ OneChain(c, r, s) /\ \A i, j \in 1 .. r.count : s[i] = s[j] => i = j
  /\ r.count > 1 /\ d \in Cells
  /\ \A i \in 1 .. r.count : d[s[i]].data = c[s[i]].data
  /\ \A i \in 2 .. r.count - 1 : d[s[i]].next = c[s[i]].next
  /\ d[s[r.count]].next = s[1]
  /\ q \in Record /\ q.count = r.count /\ q.head = s[2] /\ q.tail = s[1]
  /\ t = [i \in 1 .. r.count |-> IF i = r.count THEN s[1] ELSE s[i + 1]]

LEMMA Rotated ==
  ASSUME NEW c, NEW r, NEW s, NEW d, NEW q, NEW t, Rotates(c, r, s, d, q, t)
  PROVE  /\ Edited(d, r, s, q, t, {})
         /\ ItemsOf(d, t, q.count) = Append(Tail(ItemsOf(c, s, r.count)), Head(ItemsOf(c, s, r.count)))
<1> USE DEF Rotates
<1>1. PICK k \in Nat : k = r.count /\ k > 1
  BY DEF Record
<1>2. s \in [1 .. k -> Node] /\ t = [i \in 1 .. k |-> IF i = k THEN s[1] ELSE s[i + 1]]
  BY <1>1 DEF OneChain
<1>3. t[k] = s[1] /\ \A i \in 1 .. k - 1 : t[i] = s[i + 1] /\ i + 1 \in 2 .. k /\ i + 1 \in 1 .. k
  BY <1>1, <1>2
<1>t. t \in [1 .. k -> Node]
  BY <1>1, <1>2
<1>4. q.head = t[1] /\ q.tail = t[k]
  <2>1. 1 \in 1 .. k - 1 /\ 1 + 1 = 2
    BY <1>1
  <2> QED
    BY <1>3, <2>1
<1>5. ASSUME NEW i \in 1 .. k - 1
      PROVE  d[t[i]].next = t[i + 1]
  <2>1. CASE i = k - 1
    <3>1. i + 1 = k
      BY <2>1
    <3> QED
      BY <1>1, <1>3, <3>1
  <2>2. CASE i # k - 1
    <3>1. i + 1 \in 1 .. k - 1 /\ i + 1 \in 2 .. k - 1
      BY <2>2
    <3>2. c[s[i + 1]].next = s[(i + 1) + 1]
      BY <1>1, <3>1 DEF OneChain
    <3> QED
      BY <1>1, <1>3, <3>1, <3>2
  <2> QED
    BY <2>1, <2>2
<1>6. OneChain(d, q, t)
  <2>1. q.count = k /\ k # 0
    BY <1>1
  <2> QED
    BY <1>t, <1>4, <1>5, <2>1 DEF OneChain
<1>7. \A i, j \in 1 .. q.count : t[i] = t[j] => i = j
  <2> SUFFICES ASSUME NEW i \in 1 .. k, NEW j \in 1 .. k, t[i] = t[j]
               PROVE  i = j
    BY <1>1
  <2>1. \A x, y \in 1 .. k : s[x] = s[y] => x = y
    BY <1>1
  <2>2. CASE i = k /\ j # k
    <3>1. 1 \in 1 .. k /\ j \in 1 .. k - 1
      BY <1>1, <2>2
    <3>2. s[1] = s[j + 1] /\ j + 1 \in 1 .. k
      BY <1>3, <2>2, <3>1
    <3> QED
      BY <2>1, <3>1, <3>2
  <2>3. CASE i # k /\ j = k
    <3>1. 1 \in 1 .. k /\ i \in 1 .. k - 1
      BY <1>1, <2>3
    <3>2. s[i + 1] = s[1] /\ i + 1 \in 1 .. k
      BY <1>3, <2>3, <3>1
    <3> QED
      BY <2>1, <3>1, <3>2
  <2>4. CASE i # k /\ j # k
    <3>1. i \in 1 .. k - 1 /\ j \in 1 .. k - 1
      BY <2>4
    <3>2. i + 1 = j + 1
      BY <1>3, <2>1, <3>1
    <3> QED
      BY <3>2
  <2> QED
    BY <2>2, <2>3, <2>4
<1>8. \A i \in 1 .. q.count : t[i] \in {} \/ \E j \in 1 .. r.count : t[i] = s[j]
  BY <1>1, <1>2
<1>9. ItemsOf(d, t, q.count) = Append(Tail(ItemsOf(c, s, r.count)), Head(ItemsOf(c, s, r.count)))
  <2>1. PICK u : u = ItemsOf(c, s, r.count)
    OBVIOUS
  <2>2. Listing(u, k) /\ \A i \in 1 .. k : u[i] = c[s[i]].data
    BY <1>1, <2>1, ItemsTyped
  <2>3. Append(Tail(u), Head(u)) = Turned(u, k)
    BY <1>1, <2>2, RotateGives
  <2>4. ASSUME NEW i \in 1 .. k
        PROVE  d[t[i]].data = IF i = k THEN u[1] ELSE u[i + 1]
    <3>1. CASE i = k
      BY <1>1, <1>3, <2>2, <3>1
    <3>2. CASE i # k
      <4>1. i \in 1 .. k - 1 /\ i + 1 \in 1 .. k
        BY <3>2
      <4> QED
        BY <1>1, <1>3, <2>2, <3>2, <4>1
    <3> QED
      BY <3>1, <3>2
  <2>5. ItemsOf(d, t, q.count) = [i \in 1 .. k |-> d[t[i]].data]
    BY <1>1 DEF ItemsOf
  <2> QED
    BY ONLY <2>1, <2>3, <2>4, <2>5 DEF Turned
<1> QED
  BY <1>6, <1>7, <1>8, <1>9 DEF Edited

LEMMA Cleared ==
  ASSUME NEW d, NEW r, NEW s, NEW q, q = Empty, NEW t, t = <<>>
  PROVE  q \in Record /\ q.count = 0 /\ Edited(d, r, s, q, t, {}) /\ ItemsOf(d, t, q.count) = <<>>
<1>1. q \in Record /\ q.count = 0
  BY DEF Empty, Record, Pointer
<1>2. t \in [1 .. 0 -> Node]
  OBVIOUS
<1>3. 1 .. 0 = {} /\ 1 .. 0 - 1 = {}
  OBVIOUS
<1>4. OneChain(d, q, t)
  BY <1>1, <1>2, <1>3 DEF OneChain
<1>5. ItemsOf(d, t, 0) = <<>>
  BY DEF ItemsOf
<1> QED
  BY <1>1, <1>3, <1>4, <1>5 DEF Edited

-----------------------------------------------------------------------------
(* The calls of list.h and queue.h *)

\* The lists are linked nodes, and no two of them, nor the loose node, share one.
ListsLinked == Linked(cell, list, loose, [l \in List |-> Chain(l)])

\* Chain, as a function of the memory alone.
LEMMA ChainsNow ==
  \A l : Chain(l) = Following(list[l].head, cell, list[l].count)
BY DEF Chain, Following

LEMMA ChainsThen ==
  \A l : Chain(l)' = Following(list'[l].head, cell', list'[l].count)
BY DEF Chain, Following

\* What ListsLinked says of the lists as they are.
LEMMA ListFacts ==
  ASSUME ListsLinked
  PROVE  /\ cell \in Cells /\ list \in [List -> Record] /\ loose \in Pointer
         /\ \A l \in List :
              /\ list[l] \in Record /\ OneChain(cell, list[l], Chain(l))
              /\ \A i, j \in 1 .. list[l].count : Chain(l)[i] = Chain(l)[j] => i = j
              /\ \A i \in 1 .. list[l].count : Chain(l)[i] \in Node /\ Chain(l)[i] # loose
              /\ ListItems(l) = ItemsOf(cell, Chain(l), list[l].count)
<1> DEFINE ch == [l \in List |-> Chain(l)]
<1>1. Linked(cell, list, loose, ch) /\ \A l \in List : ch[l] = Chain(l)
  BY DEF ListsLinked
<1> HIDE DEF ch
<1>2. cell \in Cells /\ list \in [List -> Record] /\ loose \in Pointer
  BY <1>1 DEF Linked
<1>3. ASSUME NEW l \in List
      PROVE  /\ list[l] \in Record /\ OneChain(cell, list[l], Chain(l))
             /\ \A i, j \in 1 .. list[l].count : Chain(l)[i] = Chain(l)[j] => i = j
             /\ \A i \in 1 .. list[l].count : Chain(l)[i] \in Node /\ Chain(l)[i] # loose
             /\ ListItems(l) = ItemsOf(cell, Chain(l), list[l].count)
  <2>1. list[l] \in Record /\ OneChain(cell, list[l], Chain(l))
    BY <1>1 DEF Linked
  <2>2. \A i, j \in 1 .. list[l].count : Chain(l)[i] = Chain(l)[j] => i = j
    BY <1>1 DEF Linked
  <2>3. \A i \in 1 .. list[l].count : Chain(l)[i] \in Node /\ Chain(l)[i] # loose
    <3>1. \A i \in 1 .. list[l].count : Chain(l)[i] \in Node
      BY <2>1 DEF OneChain
    <3>2. \A i \in 1 .. list[l].count : Chain(l)[i] # loose
      BY <1>1 DEF Linked
    <3> QED
      BY <3>1, <3>2
  <2>4. ListItems(l) = ItemsOf(cell, Chain(l), list[l].count)
    BY DEF ListItems, ItemsOf
  <2> QED
    BY <2>1, <2>2, <2>3, <2>4
<1> QED
  BY <1>2, <1>3

\* Once the lists are linked along cg, those are their chains.
LEMMA ChainsBecome ==
  ASSUME NEW cg, cg = [l \in List |-> cg[l]], Linked(cell', list', loose', cg)
  PROVE  ListsLinked' /\ \A l \in List : ListItems(l)' = ItemsOf(cell', cg[l], list'[l].count)
<1>1. ASSUME NEW l \in List
      PROVE  Chain(l)' = cg[l] /\ ListItems(l)' = ItemsOf(cell', cg[l], list'[l].count)
  <2>1. list'[l] \in Record /\ OneChain(cell', list'[l], cg[l])
    BY DEF Linked
  <2>2. Chain(l)' = cg[l]
    BY <2>1, ChainIs, ChainsThen
  <2>3. ListItems(l)' = [i \in 1 .. list'[l].count |-> cell'[Chain(l)'[i]].data]
    BY DEF ListItems
  <2> QED
    BY <2>2, <2>3 DEF ItemsOf
<1>2. [l \in List |-> Chain(l)]' = cg
  <2>1. [l \in List |-> Chain(l)'] = cg
    BY <1>1
  <2> QED
    BY <2>1
<1> QED
  BY <1>1, <1>2 DEF ListsLinked

\* A call that works on list l alone; what it makes of the chain is t.
Touches(l, q, t, N) ==
  /\ cell' \in Cells /\ loose' \in Pointer /\ q \in Record /\ list' = [list EXCEPT ![l] = q]
  /\ \A m \in List : \A i \in 1 .. list[m].count : Chain(m)[i] \notin N
  /\ \A x \in Node : cell'[x] = cell[x] \/ x \in N \/ \E j \in 1 .. list[l].count : x = Chain(l)[j]
  /\ loose' = null \/ loose' = loose \/ \E j \in 1 .. list[l].count : loose' = Chain(l)[j]
  /\ \A i \in 1 .. q.count : t[i] # loose'

LEMMA OneListBecomes ==
  ASSUME ListsLinked, NEW l \in List, NEW q, NEW t, NEW N,
         Touches(l, q, t, N), Edited(cell', list[l], Chain(l), q, t, N)
  PROVE  /\ ListsLinked' /\ ListItems(l)' = ItemsOf(cell', t, q.count)
         /\ \A m \in List \ {l} : ListItems(m)' = ListItems(m)
<1> DEFINE ch == [m \in List |-> Chain(m)]
           cg == [m \in List |-> IF m = l THEN t ELSE ch[m]]
<1>1. Linked(cell, list, loose, ch) /\ \A m \in List : ch[m] = Chain(m)
  BY DEF ListsLinked
<1>2. cg = [m \in List |-> cg[m]] /\ cg[l] = t
  OBVIOUS
<1>3. cg = [m \in List |-> IF m = l THEN t ELSE ch[m]]
  OBVIOUS
<1> HIDE DEF ch, cg
<1>4. /\ Linked(cell', list', loose', cg)
      /\ \A m \in List \ {l} : ItemsOf(cell', cg[m], list'[m].count) = ItemsOf(cell, ch[m], list[m].count)
  <2>1. OnlyList(l, cell, list, loose, ch, cell', q, loose', t, N, list', cg)
    BY <1>1, <1>3 DEF OnlyList, Touches
  <2> QED
    BY ONLY <1>1, <2>1, l \in List, OneListChanges
<1>5. ListsLinked' /\ \A m \in List : ListItems(m)' = ItemsOf(cell', cg[m], list'[m].count)
  BY <1>2, <1>4, ChainsBecome
<1>6. list'[l] = q /\ \A m \in List : ListItems(m) = ItemsOf(cell, ch[m], list[m].count)
  BY <1>1, ListFacts DEF Touches
<1> QED
  BY <1>2, <1>4, <1>5, <1>6

\* What a call on list l leaves: its items are u, the others have theirs.
Leaving(l, u) ==
  /\ ListsLinked' /\ ListItems(l)' = u
  /\ \A m \in List \ {l} : ListItems(m)' = ListItems(m)

\* A new node is in no list.
LEMMA UnusedFacts ==
  ASSUME Unused # {}
  PROVE  /\ NewNode \in Node /\ NewNode # loose
         /\ \A m \in List : \A i \in 1 .. list[m].count : Chain(m)[i] # NewNode
<1>1. NewNode \in Unused
  BY DEF NewNode
<1>2. NewNode \in Node /\ NewNode \notin InUse
  BY <1>1 DEF Unused
<1>3. \A m \in List : \A i \in 1 .. list[m].count : Chain(m)[i] \in InUse
  BY DEF InUse
<1> QED
  BY <1>2, <1>3 DEF InUse

\* The record r with one node more, at the tail.
Longer(r, n) == [head |-> r.head, tail |-> n, count |-> r.count + 1]

\* A longer list has a typed record.
LEMMA LongerRecord ==
  ASSUME NEW r \in Record, NEW n \in Node
  PROVE  /\ Longer(r, n) \in Record /\ Longer(r, n).count = r.count + 1
         /\ Longer(r, n).tail = n /\ Longer(r, n).head = r.head
BY DEF Record, Pointer, Longer

\* The nodes c once x points to y.
Pointed(c, x, y) == [c EXCEPT ![x].next = y]

\* Setting one next pointer touches nothing else.
LEMMA PointedCells ==
  ASSUME NEW c \in Cells, NEW x \in Node, NEW y \in Pointer
  PROVE  /\ Pointed(c, x, y) \in Cells /\ Pointed(c, x, y)[x].next = y
         /\ \A z \in Node : Pointed(c, x, y)[z].data = c[z].data
         /\ \A z \in Node \ {x} : Pointed(c, x, y)[z] = c[z]
BY DEF Cells, Pointer, Pointed

LEMMA PointedIs ==
  ASSUME NEW c, NEW x, NEW y, NEW d, c \in Cells, x \in Node, y \in Pointer, d = Pointed(c, x, y)
  PROVE  /\ d \in Cells /\ d[x].next = y
         /\ \A z \in Node : d[z].data = c[z].data
         /\ \A z \in Node \ {x} : d[z] = c[z]
<1>1. /\ Pointed(c, x, y) \in Cells /\ Pointed(c, x, y)[x].next = y
      /\ \A z \in Node : Pointed(c, x, y)[z].data = c[z].data
      /\ \A z \in Node \ {x} : Pointed(c, x, y)[z] = c[z]
  BY PointedCells
<1> QED
  BY <1>1, Zenon

\* The nodes c once x holds e and points to y.
Written(c, x, e, y) == [c EXCEPT ![x] = [data |-> e, next |-> y]]

\* Writing one node touches nothing else.
LEMMA WrittenCells ==
  ASSUME NEW c \in Cells, NEW x \in Node, NEW e \in Datum, NEW y \in Pointer
  PROVE  /\ Written(c, x, e, y) \in Cells /\ Written(c, x, e, y)[x].next = y
         /\ Written(c, x, e, y)[x].data = e
         /\ \A z \in Node \ {x} : Written(c, x, e, y)[z] = c[z]
BY DEF Cells, Pointer, Written

\* List l in short: its record, its k nodes.
LEMMA ListIs ==
  ASSUME ListsLinked, NEW l \in List
  PROVE  \E r, s : \E k \in Nat :
           /\ r = list[l] /\ s = Chain(l) /\ k = r.count
           /\ cell \in Cells /\ r \in Record /\ OneChain(cell, r, s) /\ loose \in Pointer
           /\ \A i, j \in 1 .. k : s[i] = s[j] => i = j
           /\ \A i \in 1 .. k : s[i] \in Node /\ s[i] # loose
           /\ ListItems(l) = ItemsOf(cell, s, k)
           /\ k = 0 => r = Empty
           /\ k > 0 => r.head = s[1] /\ r.tail = s[k] /\ 1 \in 1 .. k /\ k \in 1 .. k
           /\ \A i \in 1 .. k - 1 : cell[s[i]].next = s[i + 1]
<1>1. /\ cell \in Cells /\ list[l] \in Record /\ OneChain(cell, list[l], Chain(l)) /\ loose \in Pointer
      /\ \A i, j \in 1 .. list[l].count : Chain(l)[i] = Chain(l)[j] => i = j
      /\ \A i \in 1 .. list[l].count : Chain(l)[i] \in Node /\ Chain(l)[i] # loose
      /\ ListItems(l) = ItemsOf(cell, Chain(l), list[l].count)
  BY ListFacts
<1>2. PICK r, s : r = list[l] /\ s = Chain(l)
  OBVIOUS
<1>3. PICK k \in Nat : k = r.count
  BY <1>1, <1>2 DEF Record
<1>4. /\ k = 0 => r = Empty
      /\ k > 0 => r.head = s[1] /\ r.tail = s[k] /\ 1 \in 1 .. k /\ k \in 1 .. k
      /\ \A i \in 1 .. k - 1 : cell[s[i]].next = s[i + 1]
  BY <1>1, <1>2, <1>3 DEF OneChain
<1> QED
  BY <1>1, <1>2, <1>3, <1>4

\* Linking a node that is in no list at the end of list l appends its item.
LEMMA LinkBackAppends ==
  ASSUME ListsLinked, NEW l \in List, NEW n \in Node, NEW linked \in Cells,
         \A x \in Node \ {n} : linked[x] = cell[x],
         \A m \in List : \A i \in 1 .. list[m].count : Chain(m)[i] # n,
         LinkBack(l, n, linked), loose' = null \/ loose' = loose, n # loose'
  PROVE  Leaving(l, Append(ListItems(l), linked[n].data))
<1>1. PICK r, s : \E k \in Nat :
        /\ r = list[l] /\ s = Chain(l) /\ k = r.count
        /\ cell \in Cells /\ r \in Record /\ OneChain(cell, r, s) /\ loose \in Pointer
        /\ \A i, j \in 1 .. k : s[i] = s[j] => i = j
        /\ \A i \in 1 .. k : s[i] \in Node /\ s[i] # loose
        /\ ListItems(l) = ItemsOf(cell, s, k)
        /\ k > 0 => r.tail = s[k] /\ k \in 1 .. k
  BY ListIs
<1>2. PICK k \in Nat :
        /\ r = list[l] /\ s = Chain(l) /\ k = r.count
        /\ cell \in Cells /\ r \in Record /\ OneChain(cell, r, s) /\ loose \in Pointer
        /\ \A i, j \in 1 .. k : s[i] = s[j] => i = j
        /\ \A i \in 1 .. k : s[i] \in Node /\ s[i] # loose
        /\ ListItems(l) = ItemsOf(cell, s, k)
        /\ k > 0 => r.tail = s[k] /\ k \in 1 .. k
  BY <1>1
<1>3. \A i \in 1 .. k : s[i] # n
  BY <1>2
<1>4. PICK q : q = IF k = 0 THEN [head |-> n, tail |-> n, count |-> 1] ELSE Longer(r, n)
  OBVIOUS
<1>5. PICK t : t = [i \in 1 .. k + 1 |-> IF i = k + 1 THEN n ELSE s[i]]
  OBVIOUS
<1>6. q \in Record /\ q.count = k + 1 /\ q.tail = n /\ q.head = IF k = 0 THEN n ELSE r.head
  <2>1. CASE k = 0
    BY <1>4, <2>1 DEF Record, Pointer
  <2>2. CASE k # 0
    BY <1>2, <1>4, <2>2, LongerRecord
  <2> QED
    BY <2>1, <2>2
<1>7. list' = [list EXCEPT ![l] = q] /\ cell' = IF k = 0 THEN linked ELSE Pointed(linked, s[k], n)
  <2>1. CASE k = 0
    <3>1. list[l].count = 0
      BY <1>2, <2>1
    <3>2. cell' = linked /\ list' = [list EXCEPT ![l] = [head |-> n, tail |-> n, count |-> 1]]
      BY <3>1, Zenon DEF LinkBack
    <3> QED
      BY <1>4, <2>1, <3>2, Zenon
  <2>2. CASE k # 0
    <3>1. list[l].count # 0 /\ list[l] = r /\ list[l].tail = s[k]
      BY <1>2, <2>2
    <3>2. cell' = Pointed(linked, list[l].tail, n) /\ list' = [list EXCEPT ![l] = Longer(list[l], n)]
      BY <3>1, Zenon DEF LinkBack, Longer, Pointed
    <3> QED
      BY <1>4, <2>2, <3>1, <3>2, Zenon
  <2> QED
    BY <2>1, <2>2
<1>8. /\ cell' \in Cells /\ \A x \in Node : cell'[x].data = linked[x].data
      /\ \A x \in Node : cell'[x] = linked[x] \/ (k > 0 /\ x = s[k])
      /\ k > 0 => cell'[s[k]].next = n
  <2>1. CASE k = 0
    <3>1. cell' = linked
      BY <1>7, <2>1
    <3> QED
      BY <2>1, <3>1
  <2>2. CASE k > 0
    <3>1. PICK x \in Node : x = s[k]
      BY <1>2, <2>2
    <3>2. cell' = Pointed(linked, x, n) /\ n \in Pointer
      BY <1>7, <2>2, <3>1 DEF Pointer
    <3> QED
      BY <2>2, <3>1, <3>2, PointedCells
  <2> QED
    BY <2>1, <2>2
<1>9. /\ \A i \in 1 .. k : cell'[s[i]].data = cell[s[i]].data
      /\ \A i \in 1 .. k - 1 : cell'[s[i]].next = cell[s[i]].next
  <2>1. \A i \in 1 .. k : cell'[s[i]].data = cell[s[i]].data
    BY <1>2, <1>3, <1>8
  <2>2. ASSUME NEW i \in 1 .. k - 1
        PROVE  cell'[s[i]].next = cell[s[i]].next
    <3>1. i \in 1 .. k /\ i # k /\ k > 0 /\ k \in 1 .. k
      OBVIOUS
    <3>2. s[i] # s[k] /\ s[i] \in Node \ {n}
      BY <1>2, <1>3, <3>1
    <3> QED
      BY <1>8, <3>1, <3>2
  <2> QED
    BY <2>1, <2>2
<1>10. AppendsTo(cell, r, s, cell', n, q, t)
  BY <1>2, <1>3, <1>5, <1>6, <1>8, <1>9 DEF AppendsTo
<1>11. Edited(cell', r, s, q, t, {n}) /\ ItemsOf(cell', t, q.count) = With(ItemsOf(cell, s, k), k, cell'[n].data)
  BY <1>2, <1>10, Appended
<1>12. Touches(l, q, t, {n})
  <2>1. \A x \in Node : cell'[x] = cell[x] \/ x \in {n} \/ \E j \in 1 .. k : x = s[j]
    <3> SUFFICES ASSUME NEW x \in Node, x # n, cell'[x] # cell[x]
                 PROVE  \E j \in 1 .. k : x = s[j]
      OBVIOUS
    <3>1. k > 0 /\ x = s[k]
      BY <1>8
    <3> QED
      BY <1>2, <3>1
  <2>2. \A i \in 1 .. q.count : t[i] # loose'
    <3> SUFFICES ASSUME NEW i \in 1 .. k + 1 PROVE t[i] # loose'
      BY <1>6
    <3>1. t[i] = IF i = k + 1 THEN n ELSE s[i]
      BY <1>5
    <3>2. CASE i = k + 1
      BY <3>1, <3>2
    <3>3. CASE i # k + 1
      <4>1. i \in 1 .. k
        BY <3>3
      <4> QED
        BY <1>2, <3>1, <3>3, <4>1, ContainersAssumption
    <3> QED
      BY <3>2, <3>3
  <2>3. loose' \in Pointer
    BY <1>2 DEF Pointer
  <2> QED
    BY <1>2, <1>6, <1>7, <1>8, <2>1, <2>2, <2>3 DEF Touches
<1> QED
  <2>1. /\ ListsLinked' /\ ListItems(l)' = ItemsOf(cell', t, q.count)
        /\ \A m \in List \ {l} : ListItems(m)' = ListItems(m)
    BY <1>2, <1>11, <1>12, OneListBecomes
  <2>2. PICK u, e : u = ItemsOf(cell, s, k) /\ e = linked[n].data
    OBVIOUS
  <2>3. Listing(u, k)
    BY <1>2, <2>2, ItemsTyped
  <2>4. Append(u, e) = With(u, k, e)
    BY <2>3, AppendGives
  <2>5. ListItems(l) = u /\ cell'[n].data = e
    BY <1>2, <1>8, <2>2
  <2>6. ListItems(l)' = Append(u, e)
    BY <1>11, <2>1, <2>2, <2>4, <2>5
  <2> QED
    BY <2>1, <2>2, <2>5, <2>6 DEF Leaving

\* list_insert_back appends a new item,
LEMMA InsertBackLeaves ==
  ASSUME ListsLinked, NEW l \in List, NEW e \in Item, list_insert_back(l, e)
  PROVE  Leaving(l, Append(ListItems(l), e))
<1>1. PICK n : n = NewNode
  OBVIOUS
<1>2. n \in Node /\ n # loose /\ \A m \in List : \A i \in 1 .. list[m].count : Chain(m)[i] # n
  BY <1>1, UnusedFacts DEF list_insert_back
<1>3. cell \in Cells /\ e \in Datum /\ null \in Pointer
  BY ListFacts DEF Datum, Pointer
<1>4. PICK linked : linked = Written(cell, n, e, null)
  OBVIOUS
<1>5. /\ linked \in Cells /\ linked[n].data = e
      /\ \A z \in Node \ {n} : linked[z] = cell[z]
  BY <1>2, <1>3, <1>4, WrittenCells
<1>6. LinkBack(l, n, linked) /\ loose' = loose
  BY <1>1, <1>4, Zenon DEF list_insert_back, Written
<1>7. Leaving(l, Append(ListItems(l), linked[n].data))
  BY <1>2, <1>5, <1>6, LinkBackAppends
<1> QED
  BY <1>5, <1>7

\* list_insert_back_node the item of a node that was loose,
LEMMA InsertNodeLeaves ==
  ASSUME ListsLinked, NEW l \in List, list_insert_back_node(l)
  PROVE  Leaving(l, Append(ListItems(l), cell[loose].data))
<1>1. PICK n : n = loose
  OBVIOUS
<1>2. n \in Node /\ \A m \in List : \A i \in 1 .. list[m].count : Chain(m)[i] # n
  BY <1>1, ListFacts DEF list_insert_back_node, Pointer
<1>3. cell \in Cells /\ null \in Pointer
  BY ListFacts DEF Pointer
<1>4. PICK linked : linked = Pointed(cell, n, null)
  OBVIOUS
<1>5. /\ linked \in Cells /\ linked[n].data = cell[n].data
      /\ \A z \in Node \ {n} : linked[z] = cell[z]
  BY <1>2, <1>3, <1>4, PointedCells
<1>6. LinkBack(l, n, linked) /\ loose' = null
  BY <1>1, <1>4, Zenon DEF list_insert_back_node, Pointed
<1>7. n # loose'
  BY <1>2, <1>6, ContainersAssumption
<1>8. Leaving(l, Append(ListItems(l), linked[n].data))
  BY <1>2, <1>5, <1>6, <1>7, LinkBackAppends
<1> QED
  BY <1>1, <1>5, <1>8

\* and list_insert_front puts one in front.
LEMMA InsertFrontLeaves ==
  ASSUME ListsLinked, NEW l \in List, NEW e \in Item, list_insert_front(l, e)
  PROVE  Leaving(l, <<e>> \o ListItems(l))
<1>1. PICK r, s : \E k \in Nat :
        /\ r = list[l] /\ s = Chain(l) /\ k = r.count
        /\ cell \in Cells /\ r \in Record /\ OneChain(cell, r, s) /\ loose \in Pointer
        /\ \A i, j \in 1 .. k : s[i] = s[j] => i = j
        /\ \A i \in 1 .. k : s[i] \in Node /\ s[i] # loose
        /\ ListItems(l) = ItemsOf(cell, s, k)
  BY ListIs
<1>2. PICK k \in Nat :
        /\ r = list[l] /\ s = Chain(l) /\ k = r.count
        /\ cell \in Cells /\ r \in Record /\ OneChain(cell, r, s) /\ loose \in Pointer
        /\ \A i, j \in 1 .. k : s[i] = s[j] => i = j
        /\ \A i \in 1 .. k : s[i] \in Node /\ s[i] # loose
        /\ ListItems(l) = ItemsOf(cell, s, k)
  BY <1>1
<1>3. PICK n : n = NewNode
  OBVIOUS
<1>4. n \in Node /\ n # loose /\ \A m \in List : \A i \in 1 .. list[m].count : Chain(m)[i] # n
  BY <1>3, UnusedFacts DEF list_insert_front
<1>5. PICK q : q = [head |-> n, tail |-> IF k = 0 THEN n ELSE r.tail, count |-> k + 1]
  OBVIOUS
<1>6. PICK t : t = [i \in 1 .. k + 1 |-> IF i = 1 THEN n ELSE s[i - 1]]
  OBVIOUS
<1>7. /\ q \in Record /\ q.count = k + 1 /\ q.head = n /\ q.tail = IF k = 0 THEN n ELSE r.tail
  BY <1>2, <1>4, <1>5 DEF Record, Pointer
<1>8. list' = [list EXCEPT ![l] = q] /\ cell' = Written(cell, n, e, r.head) /\ loose' = loose
  BY <1>2, <1>3, <1>5, Zenon DEF list_insert_front, Written
<1>9. /\ cell' \in Cells /\ cell'[n].data = e /\ cell'[n].next = r.head
      /\ \A z \in Node \ {n} : cell'[z] = cell[z]
  <2>1. e \in Datum /\ r.head \in Pointer
    BY <1>2 DEF Datum, Record
  <2> QED
    BY <1>2, <1>4, <1>8, <2>1, WrittenCells
<1>10. /\ \A i \in 1 .. k : s[i] # n
       /\ \A i \in 1 .. k : cell'[s[i]] = cell[s[i]]
  BY <1>2, <1>4, <1>9
<1>11. PrependsTo(cell, r, s, cell', n, q, t)
  BY <1>2, <1>4, <1>6, <1>7, <1>9, <1>10 DEF PrependsTo
<1>12. Edited(cell', r, s, q, t, {n}) /\ ItemsOf(cell', t, q.count) = <<cell'[n].data>> \o ItemsOf(cell, s, k)
  BY <1>2, <1>11, Prepended
<1>13. Touches(l, q, t, {n})
  <2>1. \A i \in 1 .. q.count : t[i] # loose'
    <3> SUFFICES ASSUME NEW i \in 1 .. k + 1 PROVE t[i] # loose
      BY <1>7, <1>8
    <3>1. t[i] = IF i = 1 THEN n ELSE s[i - 1]
      BY <1>6
    <3>2. CASE i = 1
      BY <1>4, <3>1, <3>2
    <3>3. CASE i # 1
      <4>1. i - 1 \in 1 .. k
        BY <3>3
      <4> QED
        BY <1>2, <3>1, <3>3, <4>1
    <3> QED
      BY <3>2, <3>3
  <2>2. \A x \in Node : cell'[x] = cell[x] \/ x \in {n}
    BY <1>9
  <2> QED
    BY <1>2, <1>4, <1>7, <1>8, <1>9, <2>1, <2>2 DEF Touches
<1> QED
  <2>1. /\ ListsLinked' /\ ListItems(l)' = ItemsOf(cell', t, q.count)
        /\ \A m \in List \ {l} : ListItems(m)' = ListItems(m)
    BY <1>2, <1>12, <1>13, OneListBecomes
  <2> QED
    BY <1>2, <1>9, <1>12, <2>1 DEF Leaving

\* A call that takes the p-th node out of list l.
LEMMA RemovalLeaves ==
  ASSUME ListsLinked, NEW l \in List, NEW p \in 1 .. list[l].count, NEW q, NEW t,
         list' = [list EXCEPT ![l] = q],
         RemovesFrom(cell, list[l], Chain(l), cell', p, q, t),
         loose' = loose \/ loose' = Chain(l)[p],
         \A x \in Node : cell'[x] = cell[x] \/ \E j \in 1 .. list[l].count : x = Chain(l)[j]
  PROVE  Leaving(l, Without(ListItems(l), list[l].count, p))
<1>1. /\ Edited(cell', list[l], Chain(l), q, t, {})
      /\ \A i \in 1 .. q.count : t[i] # Chain(l)[p]
      /\ ItemsOf(cell', t, q.count) = Without(ItemsOf(cell, Chain(l), list[l].count), list[l].count, p)
  BY Removed
<1>2. q \in Record /\ cell' \in Cells
  BY DEF RemovesFrom
<1>3. /\ loose \in Pointer /\ ListItems(l) = ItemsOf(cell, Chain(l), list[l].count)
      /\ \A i \in 1 .. list[l].count : Chain(l)[i] \in Node /\ Chain(l)[i] # loose
  BY ListFacts
<1>4. \A i \in 1 .. q.count : t[i] # loose'
  BY <1>1, <1>3 DEF Edited
<1>5. loose' \in Pointer
  BY <1>3 DEF Pointer
<1>6. Touches(l, q, t, {})
  BY <1>2, <1>4, <1>5 DEF Touches
<1>7. /\ ListsLinked' /\ ListItems(l)' = ItemsOf(cell', t, q.count)
      /\ \A m \in List \ {l} : ListItems(m)' = ListItems(m)
  BY <1>1, <1>6, OneListBecomes
<1> QED
  BY <1>1, <1>3, <1>7 DEF Leaving

\* Taking out the first item leaves the tail.
LEMMA WithoutFirst ==
  ASSUME NEW n, NEW f, Listing(f, n), n # 0
  PROVE  Without(f, n, 1) = Tail(f)
<1>1. Tail(f) = Behind(f, n)
  BY TailGives
<1>2. \A i \in 1 .. n - 1 : ~(i < 1)
  BY DEF Listing
<1> QED
  BY ONLY <1>1, <1>2 DEF Behind, Without

LEMMA BlankIs ==
  /\ Blank = [data |-> Nothing, next |-> null] /\ Nothing \in Datum /\ null \in Pointer
BY DEF Blank, Datum, Pointer

\* Node x is deleted or handed out.
LEMMA GivenUp ==
  ASSUME NEW c \in Cells, NEW x \in Node, NEW d, d = [c EXCEPT ![x] = Blank] \/ d = [c EXCEPT ![x].next = null]
  PROVE  d \in Cells /\ \A z \in Node \ {x} : d[z] = c[z]
<1>1. CASE d = [c EXCEPT ![x] = Blank]
  <2>1. d = Written(c, x, Nothing, null)
    BY <1>1, BlankIs DEF Written
  <2> QED
    BY <2>1, BlankIs, WrittenCells
<1>2. CASE d = [c EXCEPT ![x].next = null]
  <2>1. d = Pointed(c, x, null)
    BY <1>2 DEF Pointed
  <2> QED
    BY <2>1, BlankIs, PointedCells
<1> QED
  BY <1>1, <1>2

\* list_remove_front takes the first item off,
LEMMA RemoveFrontLeaves ==
  ASSUME ListsLinked, NEW l \in List, list_remove_front(l)
  PROVE  list[l].count # 0 /\ Leaving(l, Tail(ListItems(l)))
<1>1. PICK r, s : \E k \in Nat :
        /\ r = list[l] /\ s = Chain(l) /\ k = r.count
        /\ cell \in Cells /\ r \in Record /\ OneChain(cell, r, s) /\ loose \in Pointer
        /\ \A i, j \in 1 .. k : s[i] = s[j] => i = j
        /\ \A i \in 1 .. k : s[i] \in Node /\ s[i] # loose
        /\ ListItems(l) = ItemsOf(cell, s, k)
        /\ k > 0 => r.head = s[1] /\ r.tail = s[k] /\ 1 \in 1 .. k /\ k \in 1 .. k
        /\ \A i \in 1 .. k - 1 : cell[s[i]].next = s[i + 1]
  BY ListIs
<1>2. PICK k \in Nat :
        /\ r = list[l] /\ s = Chain(l) /\ k = r.count
        /\ cell \in Cells /\ r \in Record /\ OneChain(cell, r, s) /\ loose \in Pointer
        /\ \A i, j \in 1 .. k : s[i] = s[j] => i = j
        /\ \A i \in 1 .. k : s[i] \in Node /\ s[i] # loose
        /\ ListItems(l) = ItemsOf(cell, s, k)
        /\ k > 0 => r.head = s[1] /\ r.tail = s[k] /\ 1 \in 1 .. k /\ k \in 1 .. k
        /\ \A i \in 1 .. k - 1 : cell[s[i]].next = s[i + 1]
  BY <1>1
<1>3. k > 0 /\ r.head = s[1] /\ r.tail = s[k] /\ 1 \in 1 .. k /\ k \in 1 .. k
  BY <1>2 DEF list_remove_front
<1>4. PICK q : q = IF k = 1 THEN Empty ELSE [head |-> cell[s[1]].next, tail |-> s[k], count |-> k - 1]
  OBVIOUS
<1>5. PICK t : t = [i \in 1 .. k - 1 |-> IF i < 1 THEN s[i] ELSE s[i + 1]]
  OBVIOUS
<1>6. /\ q \in Record /\ q.count = k - 1
      /\ k = 1 => q = Empty
      /\ k > 1 => q.head = s[2] /\ q.tail = s[k]
  <2>1. CASE k = 1
    BY <1>4, <2>1 DEF Empty, Record, Pointer
  <2>2. CASE k > 1
    <3>1. 1 \in 1 .. k - 1 /\ 1 + 1 = 2 /\ 2 \in 1 .. k
      BY <2>2
    <3>2. cell[s[1]].next = s[2] /\ s[2] \in Node /\ s[k] \in Node
      BY <1>2, <1>3, <3>1
    <3> QED
      BY <1>4, <2>2, <3>2 DEF Record, Pointer
  <2> QED
    BY <1>3, <2>1, <2>2
<1>7. list' = [list EXCEPT ![l] = q]
  <2>1. Beheaded(l) = q
    BY <1>2, <1>3, <1>4 DEF Beheaded
  <2> QED
    BY <2>1 DEF list_remove_front
<1>8. /\ cell' = [cell EXCEPT ![s[1]] = Blank] \/ cell' = [cell EXCEPT ![s[1]].next = null]
      /\ loose' = loose \/ loose' = s[1]
  BY <1>2, <1>3 DEF list_remove_front
<1>9. cell' \in Cells /\ \A z \in Node \ {s[1]} : cell'[z] = cell[z]
  <2>1. s[1] \in Node
    BY <1>2, <1>3
  <2>2. PICK x \in Node : x = s[1]
    BY <2>1
  <2> QED
    BY <1>2, <1>8, <2>2, GivenUp
<1>10. RemovesFrom(cell, r, s, cell', 1, q, t)
  <2>1. \A i \in 1 .. k : i # 1 => cell'[s[i]] = cell[s[i]]
    BY <1>2, <1>3, <1>9
  <2>2. \A i \in 1 .. k : i # 1 => cell'[s[i]].data = cell[s[i]].data
    BY <2>1
  <2>3. \A i \in 1 .. k - 1 : i # 1 /\ i # 1 - 1 => cell'[s[i]].next = cell[s[i]].next
    BY <2>1
  <2>4. k > 1 => q.tail = IF 1 = k THEN s[k - 1] ELSE s[k]
    BY <1>6
  <2> QED
    BY <1>2, <1>3, <1>5, <1>6, <1>9, <2>2, <2>3, <2>4 DEF RemovesFrom
<1>11. Leaving(l, Without(ListItems(l), list[l].count, 1))
  <2>1. \A x \in Node : cell'[x] = cell[x] \/ \E j \in 1 .. list[l].count : x = Chain(l)[j]
    BY <1>2, <1>3, <1>9
  <2> QED
    BY <1>2, <1>3, <1>7, <1>8, <1>10, <2>1, RemovalLeaves
<1>12. Listing(ListItems(l), k)
  BY <1>2, ItemsTyped
<1>13. PICK u : u = ListItems(l)
  OBVIOUS
<1>14. Without(u, k, 1) = Tail(u)
  <2>1. Listing(u, k) /\ k # 0
    BY <1>3, <1>12, <1>13
  <2> QED
    BY ONLY <2>1, WithoutFirst
<1>15. list[l].count = k /\ k # 0
  BY <1>2, <1>3
<1> QED
  BY ONLY <1>11, <1>13, <1>14, <1>15

\* and list_remove one item equal to e.
LEMMA RemoveLeaves ==
  ASSUME ListsLinked, NEW l \in List, NEW e \in Item, list_remove(l, e)
  PROVE  \E p \in 1 .. list[l].count : ListItems(l)[p] = e /\ Leaving(l, Without(ListItems(l), list[l].count, p))
<1>1. PICK r, s : \E k \in Nat :
        /\ r = list[l] /\ s = Chain(l) /\ k = r.count
        /\ cell \in Cells /\ r \in Record /\ OneChain(cell, r, s) /\ loose \in Pointer
        /\ \A i, j \in 1 .. k : s[i] = s[j] => i = j
        /\ \A i \in 1 .. k : s[i] \in Node /\ s[i] # loose
        /\ k = 0 => r = Empty
        /\ k > 0 => r.head = s[1] /\ r.tail = s[k] /\ 1 \in 1 .. k /\ k \in 1 .. k
        /\ \A i \in 1 .. k - 1 : cell[s[i]].next = s[i + 1]
  BY ListIs
<1>2. PICK k \in Nat :
        /\ r = list[l] /\ s = Chain(l) /\ k = r.count
        /\ cell \in Cells /\ r \in Record /\ OneChain(cell, r, s) /\ loose \in Pointer
        /\ \A i, j \in 1 .. k : s[i] = s[j] => i = j
        /\ \A i \in 1 .. k : s[i] \in Node /\ s[i] # loose
        /\ k = 0 => r = Empty
        /\ k > 0 => r.head = s[1] /\ r.tail = s[k] /\ 1 \in 1 .. k /\ k \in 1 .. k
        /\ \A i \in 1 .. k - 1 : cell[s[i]].next = s[i + 1]
  BY <1>1
<1>3. HasPrev(l, e) /\ RemoveAfter(l, Prev(l, e))
  BY DEF list_remove
<1>4. PICK p \in 1 .. k : /\ ListItems(l)[p] = e /\ (k = 1 <=> p = 1)
                          /\ Prev(l, e) = IF k = 1 THEN s[1] ELSE s[p - 1]
  <2>1. CASE k = 1
    <3>1. ListItems(l)[1] = e /\ Prev(l, e) = s[1]
      BY <1>2, <1>3, <2>1 DEF HasPrev, Prev
    <3> QED
      BY <2>1, <3>1
  <2>2. CASE k # 1
    <3> DEFINE first(i) == ListItems(l)[i + 1] = e /\ \A j \in 2 .. i : ListItems(l)[j] # e
               S == {i \in 1 .. k - 1 : ListItems(l)[i + 1] = e}
    <3>1. PICK i \in 2 .. k : ListItems(l)[i] = e
      BY <1>2, <1>3, <2>2 DEF HasPrev
    <3>2. i - 1 \in 1 .. k - 1 /\ (i - 1) + 1 = i
      OBVIOUS
    <3>n. S \in SUBSET Nat
      OBVIOUS
    <3>s. i - 1 \in S
      BY <3>1, <3>2
    <3>3. S \in SUBSET Nat /\ S # {}
      BY <3>n, <3>s
    <3>4. PICK x \in S : \A y \in S : x <= y
      <4> HIDE DEF S
      <4> QED
        BY <3>3, LeastElement
    <3>5. \A j \in 2 .. x : ListItems(l)[j] # e
      <4> SUFFICES ASSUME NEW j \in 2 .. x, ListItems(l)[j] = e PROVE FALSE
        OBVIOUS
      <4>1. j - 1 \in 1 .. k - 1 /\ (j - 1) + 1 = j /\ ~(x <= j - 1)
        BY <3>4
      <4> QED
        BY <3>4, <4>1
    <3>6. x \in 1 .. k - 1 /\ first(x)
      BY <3>4, <3>5
    <3> HIDE DEF first
    <3>7. PICK y \in 1 .. k - 1 : y = (CHOOSE z \in 1 .. k - 1 : first(z)) /\ first(y)
      BY <3>6
    <3>8. Prev(l, e) = s[y]
      BY <1>2, <2>2, <3>7 DEF Prev, first
    <3>9. y + 1 \in 1 .. k /\ (y + 1) - 1 = y /\ y + 1 # 1 /\ ListItems(l)[y + 1] = e
      BY <3>7 DEF first
    <3> QED
      BY <2>2, <3>8, <3>9
  <2> QED
    BY <2>1, <2>2
<1>5. k > 0 /\ r.head = s[1] /\ r.tail = s[k] /\ 1 \in 1 .. k /\ k \in 1 .. k /\ (k # 1 => p - 1 \in 1 .. k)
  BY <1>2, <1>4
<1>6. PICK prev \in Node : prev = IF k = 1 THEN s[1] ELSE s[p - 1]
  BY <1>2, <1>5
<1>7. PICK n \in Node : n = s[p]
  BY <1>2
<1>8. (IF k = 1 THEN prev ELSE cell[prev].next) = n
  <2>1. CASE k = 1
    BY <1>4, <1>6, <1>7, <2>1
  <2>2. CASE k # 1
    <3>1. p - 1 \in 1 .. k - 1 /\ (p - 1) + 1 = p
      BY <1>4, <2>2
    <3> QED
      BY <1>2, <1>6, <1>7, <2>2, <3>1
  <2> QED
    BY <2>1, <2>2
<1>9. PICK tail : tail = IF n = r.tail THEN prev ELSE r.tail
  OBVIOUS
<1>10. PICK q : q = IF k = 1 THEN Empty
                    ELSE [head |-> r.head, tail |-> IF k - 1 = 1 THEN r.head ELSE tail, count |-> k - 1]
  OBVIOUS
<1>11. list' = [list EXCEPT ![l] = q]
  <2>1. CASE k = 1
    BY <1>2, <1>3, <1>10, <2>1 DEF RemoveAfter
  <2>2. CASE k # 1
    <3>1. PICK v : v = [head |-> r.head, tail |-> tail, count |-> k - 1]
      OBVIOUS
    <3>2. list' = [list EXCEPT ![l] = IF v.count = 1 THEN [v EXCEPT !.tail = v.head] ELSE v]
      BY <1>2, <1>3, <1>4, <1>6, <1>8, <1>9, <2>2, <3>1 DEF RemoveAfter
    <3>3. q = IF v.count = 1 THEN [v EXCEPT !.tail = v.head] ELSE v
      BY ONLY <1>10, <2>2, <3>1
    <3> QED
      BY ONLY <3>2, <3>3
  <2> QED
    BY <2>1, <2>2
<1>12. PICK u : u = IF k = 1 THEN cell ELSE [cell EXCEPT ![prev].next = cell[n].next]
  OBVIOUS
<1>13. /\ cell' = [u EXCEPT ![n] = Blank] \/ cell' = [u EXCEPT ![n].next = null]
       /\ loose' = loose \/ loose' = n
  <2>1. list[l].count = k
    BY <1>2
  <2>2. CASE k = 1
    <3>1. IF list[l].count = 1 THEN prev = n ELSE cell[prev].next = n
      BY <1>8, <2>1, <2>2
    <3> QED
      BY <1>3, <1>4, <1>6, <1>8, <1>12, <2>1, <2>2, <3>1, Zenon DEF RemoveAfter
  <2>3. CASE k # 1
    <3>1. cell[prev].next = n
      BY <1>8, <2>3
    <3> QED
      BY <1>3, <1>4, <1>6, <1>12, <2>1, <2>3, <3>1, Zenon DEF RemoveAfter
  <2> QED
    BY <2>2, <2>3
<1>14. /\ u \in Cells /\ \A z \in Node : u[z].data = cell[z].data
       /\ k # 1 => u[prev].next = cell[n].next
       /\ \A z \in Node : k = 1 \/ z # prev => u[z] = cell[z]
  <2>1. CASE k = 1
    BY <1>2, <1>12, <2>1
  <2>2. CASE k # 1
    <3>1. cell[n].next \in Pointer
      BY <1>2 DEF Cells, Pointer
    <3>2. u = Pointed(cell, prev, cell[n].next)
      BY <1>12, <2>2 DEF Pointed
    <3>3. PICK y \in Pointer : y = cell[n].next
      BY <3>1
    <3>4. u = Pointed(cell, prev, y) /\ cell \in Cells
      BY <1>2, <3>2, <3>3
    <3>5. /\ u \in Cells /\ u[prev].next = y /\ \A z \in Node : u[z].data = cell[z].data
          /\ \A z \in Node \ {prev} : u[z] = cell[z]
      BY ONLY <3>4, prev \in Node, y \in Pointer, PointedCells
    <3> QED
      BY <2>2, <3>3, <3>5
  <2> QED
    BY <2>1, <2>2
<1>15. cell' \in Cells /\ \A z \in Node \ {n} : cell'[z] = u[z]
  BY <1>13, <1>14, GivenUp
<1>16. PICK t : t = [i \in 1 .. k - 1 |-> IF i < p THEN s[i] ELSE s[i + 1]]
  OBVIOUS
<1>17. /\ q \in Record /\ q.count = k - 1
       /\ k = 1 => q = Empty
       /\ k > 1 => q.head = IF p = 1 THEN s[2] ELSE s[1]
       /\ k > 1 => q.tail = IF p = k THEN s[k - 1] ELSE s[k]
  <2>1. CASE k = 1
    BY <1>10, <2>1 DEF Empty, Record, Pointer
  <2>2. CASE k > 1
    <3>1. p # 1 /\ s[1] \in Node /\ s[k] \in Node
      BY <1>2, <1>4, <1>5, <2>2
    <3>2. tail = IF p = k THEN s[k - 1] ELSE s[k]
      <4>1. n = s[k] <=> p = k
        BY <1>2, <1>5, <1>7
      <4> QED
        BY <1>5, <1>6, <1>9, <2>2, <4>1
    <3>3. tail \in Node
      BY <1>5, <1>9, <3>1
    <3>4. k - 1 = 1 => s[1] = IF p = k THEN s[k - 1] ELSE s[k]
      BY <1>4, <2>2, <3>1
    <3>5. q = [head |-> s[1], tail |-> IF p = k THEN s[k - 1] ELSE s[k], count |-> k - 1]
      BY <1>5, <1>10, <2>2, <3>2, <3>4
    <3>6. (IF p = k THEN s[k - 1] ELSE s[k]) \in Pointer
      BY <3>2, <3>3 DEF Pointer
    <3> QED
      BY <2>2, <3>1, <3>5, <3>6 DEF Record, Pointer
  <2> QED
    BY <1>5, <2>1, <2>2
<1>18. RemovesFrom(cell, r, s, cell', p, q, t)
  <2>1. \A i \in 1 .. k : i # p => s[i] \in Node \ {n}
    BY <1>2, <1>7
  <2>2. \A i \in 1 .. k : i # p => cell'[s[i]].data = cell[s[i]].data
    BY <1>14, <1>15, <2>1
  <2>3. \A i \in 1 .. k - 1 : i # p /\ i # p - 1 => cell'[s[i]].next = cell[s[i]].next
    <3> SUFFICES ASSUME NEW i \in 1 .. k - 1, i # p, i # p - 1
                 PROVE  cell'[s[i]].next = cell[s[i]].next
      OBVIOUS
    <3>1. i \in 1 .. k /\ k # 1
      OBVIOUS
    <3>2. s[i] # prev
      BY <1>2, <1>5, <1>6, <3>1
    <3> QED
      BY <1>14, <1>15, <2>1, <3>1, <3>2
  <2>4. p > 1 /\ p < k => cell'[s[p - 1]].next = s[p + 1]
    <3> SUFFICES ASSUME p > 1, p < k
                 PROVE  cell'[s[p - 1]].next = s[p + 1]
      OBVIOUS
    <3>1. p - 1 \in 1 .. k /\ p - 1 # p /\ p \in 1 .. k - 1 /\ k # 1
      OBVIOUS
    <3>2. prev \in Node \ {n} /\ prev = s[p - 1]
      BY <1>6, <2>1, <3>1
    <3>3. cell[n].next = s[p + 1]
      BY <1>2, <1>7, <3>1
    <3> QED
      BY <1>14, <1>15, <3>1, <3>2, <3>3
  <2> QED
    BY <1>2, <1>15, <1>16, <1>17, <2>2, <2>3, <2>4 DEF RemovesFrom
<1>19. Leaving(l, Without(ListItems(l), list[l].count, p))
  <2>1. \A x \in Node : cell'[x] = cell[x] \/ \E j \in 1 .. list[l].count : x = Chain(l)[j]
    <3> SUFFICES ASSUME NEW x \in Node, cell'[x] # cell[x]
                 PROVE  \E j \in 1 .. k : x = s[j]
      BY <1>2
    <3>1. x = n \/ (k # 1 /\ x = prev)
      <4>1. x # n => cell'[x] = u[x]
        BY <1>15
      <4>2. (k = 1 \/ x # prev) => u[x] = cell[x]
        BY <1>14
      <4> QED
        BY <4>1, <4>2
    <3> QED
      BY <1>5, <1>6, <1>7, <3>1
  <2>2. p \in 1 .. list[l].count /\ (loose' = loose \/ loose' = Chain(l)[p])
    BY <1>2, <1>7, <1>13
  <2> QED
    BY <1>2, <1>11, <1>18, <2>1, <2>2, RemovalLeaves
<1> QED
  BY <1>2, <1>4, <1>19

\* list_head_to_tail moves the first item to the end.
LEMMA RotateLeaves ==
  ASSUME ListsLinked, NEW l \in List, list_head_to_tail(l)
  PROVE  list[l].count # 0 /\ Leaving(l, Append(Tail(ListItems(l)), Head(ListItems(l))))
<1>1. PICK r, s : \E k \in Nat :
        /\ r = list[l] /\ s = Chain(l) /\ k = r.count
        /\ cell \in Cells /\ r \in Record /\ OneChain(cell, r, s) /\ loose \in Pointer
        /\ \A i, j \in 1 .. k : s[i] = s[j] => i = j
        /\ \A i \in 1 .. k : s[i] \in Node /\ s[i] # loose
        /\ ListItems(l) = ItemsOf(cell, s, k)
        /\ k > 0 => r.head = s[1] /\ r.tail = s[k] /\ 1 \in 1 .. k /\ k \in 1 .. k
        /\ \A i \in 1 .. k - 1 : cell[s[i]].next = s[i + 1]
  BY ListIs
<1>2. PICK k \in Nat :
        /\ r = list[l] /\ s = Chain(l) /\ k = r.count
        /\ cell \in Cells /\ r \in Record /\ OneChain(cell, r, s) /\ loose \in Pointer
        /\ \A i, j \in 1 .. k : s[i] = s[j] => i = j
        /\ \A i \in 1 .. k : s[i] \in Node /\ s[i] # loose
        /\ ListItems(l) = ItemsOf(cell, s, k)
        /\ k > 0 => r.head = s[1] /\ r.tail = s[k] /\ 1 \in 1 .. k /\ k \in 1 .. k
        /\ \A i \in 1 .. k - 1 : cell[s[i]].next = s[i + 1]
  BY <1>1
<1>3. k > 1 /\ r.head = s[1] /\ r.tail = s[k] /\ 1 \in 1 .. k /\ k \in 1 .. k
  BY <1>2 DEF list_head_to_tail
<1>4. PICK x \in Node : x = s[1]
  BY <1>2, <1>3
<1>5. PICK y \in Node : y = s[k]
  BY <1>2, <1>3
<1>6. PICK q : q = [head |-> cell[s[1]].next, tail |-> s[1], count |-> k]
  OBVIOUS
<1>7. PICK t : t = [i \in 1 .. k |-> IF i = k THEN s[1] ELSE s[i + 1]]
  OBVIOUS
<1>8. list' = [list EXCEPT ![l] = q] /\ loose' = loose
  BY <1>2, <1>3, <1>6, Zenon DEF list_head_to_tail
<1>9. q \in Record /\ q.count = k /\ q.head = s[2] /\ q.tail = s[1]
  <2>1. 1 \in 1 .. k - 1 /\ 1 + 1 = 2 /\ 2 \in 1 .. k
    BY <1>3
  <2>2. cell[s[1]].next = s[2] /\ s[2] \in Node /\ s[1] \in Node
    BY <1>2, <2>1
  <2> QED
    BY <1>6, <2>2 DEF Record, Pointer
<1>10. PICK u : u = Pointed(cell, y, x)
  OBVIOUS
<1>11. cell' = Pointed(u, x, null)
  <2>1. cell' = [cell EXCEPT ![list[l].tail].next = list[l].head, ![list[l].head].next = null]
    BY DEF list_head_to_tail
  <2>2. list[l].tail = y /\ list[l].head = x
    BY <1>2, <1>3, <1>4, <1>5
  <2> QED
    BY ONLY <1>10, <2>1, <2>2, Zenon DEF Pointed
<1>12. /\ cell' \in Cells /\ \A z \in Node : cell'[z].data = cell[z].data
       /\ \A z \in Node \ {x, y} : cell'[z] = cell[z]
       /\ x # y /\ cell'[y].next = x
  <2>1. cell \in Cells /\ x \in Pointer /\ null \in Pointer
    BY <1>2 DEF Pointer
  <2>2. /\ u \in Cells /\ u[y].next = x /\ \A z \in Node : u[z].data = cell[z].data
        /\ \A z \in Node \ {y} : u[z] = cell[z]
    BY <1>10, <2>1, PointedIs
  <2>3. /\ cell' \in Cells /\ \A z \in Node : cell'[z].data = u[z].data
        /\ \A z \in Node \ {x} : cell'[z] = u[z]
    BY <1>11, <2>1, <2>2, PointedIs
  <2>4. x # y
    BY <1>2, <1>3, <1>4, <1>5
  <2> QED
    BY ONLY <2>2, <2>3, <2>4, x \in Node, y \in Node
<1>13. Rotates(cell, r, s, cell', q, t)
  <2>1. \A i \in 1 .. k : cell'[s[i]].data = cell[s[i]].data
    BY <1>2, <1>12
  <2>2. \A i \in 2 .. k - 1 : cell'[s[i]].next = cell[s[i]].next
    <3> SUFFICES ASSUME NEW i \in 2 .. k - 1 PROVE cell'[s[i]].next = cell[s[i]].next
      OBVIOUS
    <3>1. i \in 1 .. k /\ i # 1 /\ i # k
      OBVIOUS
    <3>2. s[i] \in Node \ {x, y}
      BY <1>2, <1>3, <1>4, <1>5, <3>1
    <3> QED
      BY <1>12, <3>2
  <2>3. cell'[s[k]].next = s[1]
    BY <1>4, <1>5, <1>12
  <2> QED
    BY <1>2, <1>3, <1>7, <1>9, <1>12, <2>1, <2>2, <2>3 DEF Rotates
<1>14. Edited(cell', r, s, q, t, {})
       /\ ItemsOf(cell', t, q.count) = Append(Tail(ItemsOf(cell, s, k)), Head(ItemsOf(cell, s, k)))
  BY <1>2, <1>13, Rotated
<1>15. Touches(l, q, t, {})
  <2>1. \A i \in 1 .. q.count : t[i] # loose'
    BY <1>2, <1>8, <1>14 DEF Edited
  <2>2. \A z \in Node : cell'[z] = cell[z] \/ \E j \in 1 .. list[l].count : z = Chain(l)[j]
    BY <1>2, <1>3, <1>4, <1>5, <1>12
  <2> QED
    BY <1>2, <1>8, <1>9, <1>12, <2>1, <2>2 DEF Touches
<1>16. /\ ListsLinked' /\ ListItems(l)' = ItemsOf(cell', t, q.count)
       /\ \A m \in List \ {l} : ListItems(m)' = ListItems(m)
  BY <1>2, <1>14, <1>15, OneListBecomes
<1>17. list[l].count # 0
  BY <1>2, <1>3
<1> QED
  BY <1>2, <1>14, <1>16, <1>17 DEF Leaving

\* list_clear leaves nothing.
LEMMA ClearLeaves ==
  ASSUME ListsLinked, NEW l \in List, list_clear(l)
  PROVE  Leaving(l, <<>>)
<1>1. PICK q, t : q = Empty /\ t = <<>>
  OBVIOUS
<1>2. q \in Record /\ q.count = 0 /\ Edited(cell', list[l], Chain(l), q, t, {}) /\ ItemsOf(cell', t, q.count) = <<>>
  BY <1>1, Cleared
<1>3. list' = [list EXCEPT ![l] = q] /\ loose' = loose
  BY <1>1 DEF list_clear
<1>4. cell \in Cells /\ loose \in Pointer
  BY ListFacts
<1>5. \A x \in Pointer : cell'[x] = IF \E i \in 1 .. list[l].count : Chain(l)[i] = x THEN Blank ELSE cell[x]
  BY DEF list_clear, Pointer
<1>6. cell' \in Cells
  <2>1. cell' = [x \in Pointer |-> cell'[x]]
    BY DEF list_clear, Pointer
  <2>2. Blank \in [data : Datum, next : Pointer]
    BY BlankIs
  <2>3. \A x \in Pointer : cell'[x] \in [data : Datum, next : Pointer]
    BY <1>4, <1>5, <2>2, Zenon DEF Cells
  <2> QED
    BY <2>1, <2>3, Zenon DEF Cells
<1>7. \A x \in Node : cell'[x] = cell[x] \/ \E j \in 1 .. list[l].count : x = Chain(l)[j]
  BY <1>5, Zenon DEF Pointer
<1>8. \A i \in 1 .. q.count : t[i] # loose'
  BY <1>2
<1>9. Touches(l, q, t, {})
  BY <1>2, <1>3, <1>4, <1>6, <1>7, <1>8 DEF Touches
<1> QED
  BY <1>2, <1>9, OneListBecomes DEF Leaving

NodesOf(s, n) == {s[j] : j \in 1 .. n}

Joins(c, r1, s1, r2, s2, d, q, t) ==
  /\ c \in Cells /\ r1 \in Record /\ OneChain(c, r1, s1) /\ \A i, j \in 1 .. r1.count : s1[i] = s1[j] => i = j
  /\ r2 \in Record /\ OneChain(c, r2, s2) /\ \A i, j \in 1 .. r2.count : s2[i] = s2[j] => i = j
  /\ r1.count > 0 /\ r2.count > 0
  /\ \A i \in 1 .. r1.count, j \in 1 .. r2.count : s1[i] # s2[j]
  /\ d \in Cells
  /\ \A i \in 1 .. r1.count : d[s1[i]].data = c[s1[i]].data
  /\ \A i \in 1 .. r1.count - 1 : d[s1[i]].next = c[s1[i]].next
  /\ d[s1[r1.count]].next = s2[1]
  /\ \A i \in 1 .. r2.count : d[s2[i]] = c[s2[i]]
  /\ q \in Record /\ q.count = r1.count + r2.count /\ q.head = r1.head /\ q.tail = r2.tail
  /\ t = Joint(s1, r1.count, s2, r2.count)

\* The joined list has the items of both.
LEMMA Joined ==
  ASSUME NEW c, NEW r1, NEW s1, NEW r2, NEW s2, NEW d, NEW q, NEW t, Joins(c, r1, s1, r2, s2, d, q, t)
  PROVE  /\ Edited(d, r1, s1, q, t, NodesOf(s2, r2.count))
         /\ ItemsOf(d, t, q.count) = ItemsOf(c, s1, r1.count) \o ItemsOf(c, s2, r2.count)
<1> USE DEF Joins
<1>1. PICK k \in Nat : k = r1.count /\ k > 0
  BY DEF Record
<1>2. PICK h \in Nat : h = r2.count /\ h > 0
  BY DEF Record
<1>3. s1 \in [1 .. k -> Node] /\ s2 \in [1 .. h -> Node]
      /\ t = [i \in 1 .. k + h |-> IF i <= k THEN s1[i] ELSE s2[i - k]]
  BY <1>1, <1>2 DEF OneChain, Joint
<1>4. ASSUME NEW i \in 1 .. k + h
      PROVE  /\ i <= k => t[i] = s1[i] /\ i \in 1 .. k
             /\ ~(i <= k) => t[i] = s2[i - k] /\ i - k \in 1 .. h
             /\ t[i] \in Node
  <2>1. t[i] = IF i <= k THEN s1[i] ELSE s2[i - k]
    BY ONLY <1>3, i \in 1 .. k + h
  <2>2. i <= k => i \in 1 .. k
    OBVIOUS
  <2>3. ~(i <= k) => i - k \in 1 .. h
    OBVIOUS
  <2> QED
    BY <1>3, <2>1, <2>2, <2>3
<1>5. q.head = t[1] /\ q.tail = t[k + h]
  <2>1. 1 \in 1 .. k + h /\ 1 <= k /\ k + h \in 1 .. k + h /\ ~(k + h <= k) /\ (k + h) - k = h
    BY <1>1, <1>2
  <2>2. t[1] = s1[1] /\ t[k + h] = s2[h]
    BY <1>4, <2>1
  <2> QED
    BY <1>1, <1>2, <2>2 DEF OneChain
<1>6. ASSUME NEW i \in 1 .. (k + h) - 1
      PROVE  d[t[i]].next = t[i + 1]
  <2>1. i \in 1 .. k + h /\ i + 1 \in 1 .. k + h
    OBVIOUS
  <2>2. CASE i < k
    <3>1. i \in 1 .. k - 1 /\ i <= k /\ i + 1 <= k
      BY <2>2
    <3>2. c[s1[i]].next = s1[i + 1]
      BY <1>1, <3>1 DEF OneChain
    <3> QED
      BY <1>1, <1>4, <2>1, <3>1, <3>2
  <2>3. CASE i = k
    <3>1. i <= k /\ ~(i + 1 <= k) /\ (i + 1) - k = 1
      BY <2>3
    <3> QED
      BY <1>1, <1>4, <2>1, <2>3, <3>1
  <2>4. CASE i > k
    <3>1. ~(i <= k) /\ ~(i + 1 <= k) /\ (i + 1) - k = (i - k) + 1 /\ i - k \in 1 .. h - 1 /\ i - k \in 1 .. h
      BY <2>4
    <3>2. c[s2[i - k]].next = s2[(i - k) + 1]
      BY <1>2, <3>1 DEF OneChain
    <3>3. d[s2[i - k]] = c[s2[i - k]]
      BY <1>2, <3>1
    <3>4. t[i] = s2[i - k] /\ t[i + 1] = s2[(i + 1) - k]
      BY <1>4, <2>1, <3>1
    <3> QED
      BY <3>1, <3>2, <3>3, <3>4
  <2> QED
    BY <2>2, <2>3, <2>4
<1>7. OneChain(d, q, t)
  <2>1. q.count = k + h /\ k + h # 0 /\ k + h > 0
    BY <1>1, <1>2
  <2>2. t \in [1 .. k + h -> Node]
    BY <1>3, <1>4
  <2> QED
    BY <1>5, <1>6, <2>1, <2>2 DEF OneChain
<1>8. \A i, j \in 1 .. q.count : t[i] = t[j] => i = j
  <2> SUFFICES ASSUME NEW i \in 1 .. k + h, NEW j \in 1 .. k + h, t[i] = t[j]
               PROVE  i = j
    BY <1>1, <1>2
  <2>1. \A x, y \in 1 .. k : s1[x] = s1[y] => x = y
    BY <1>1
  <2>2. \A x, y \in 1 .. h : s2[x] = s2[y] => x = y
    BY <1>2
  <2>3. \A x \in 1 .. k, y \in 1 .. h : s1[x] # s2[y]
    BY <1>1, <1>2
  <2>4. CASE i <= k /\ j <= k
    BY <1>4, <2>1, <2>4
  <2>5. CASE ~(i <= k) /\ ~(j <= k)
    <3>1. i - k = j - k
      BY <1>4, <2>2, <2>5
    <3> QED
      BY <3>1
  <2>6. CASE i <= k /\ ~(j <= k)
    BY <1>4, <2>3, <2>6
  <2>7. CASE ~(i <= k) /\ j <= k
    BY <1>4, <2>3, <2>7
  <2> QED
    BY <2>4, <2>5, <2>6, <2>7
<1> DEFINE N == NodesOf(s2, r2.count)
<1>9. \A i \in 1 .. q.count : t[i] \in N \/ \E j \in 1 .. r1.count : t[i] = s1[j]
  BY <1>1, <1>2, <1>4 DEF NodesOf
<1>10. ItemsOf(d, t, q.count) = ItemsOf(c, s1, r1.count) \o ItemsOf(c, s2, r2.count)
  <2>1. PICK u : u = ItemsOf(c, s1, r1.count)
    OBVIOUS
  <2>2. PICK v : v = ItemsOf(c, s2, r2.count)
    OBVIOUS
  <2>3. Listing(u, k) /\ \A i \in 1 .. k : u[i] = c[s1[i]].data
    BY <1>1, <2>1, ItemsTyped
  <2>4. Listing(v, h) /\ \A i \in 1 .. h : v[i] = c[s2[i]].data
    BY <1>2, <2>2, ItemsTyped
  <2>5. u \o v = Joint(u, k, v, h)
    BY <2>3, <2>4, JoinGives
  <2>6. ASSUME NEW i \in 1 .. k + h
        PROVE  d[t[i]].data = IF i <= k THEN u[i] ELSE v[i - k]
    <3>1. CASE i <= k
      BY <1>1, <1>4, <2>3, <3>1
    <3>2. CASE ~(i <= k)
      <4>1. t[i] = s2[i - k] /\ i - k \in 1 .. h
        BY <1>4, <3>2
      <4>2. d[s2[i - k]] = c[s2[i - k]] /\ v[i - k] = c[s2[i - k]].data
        BY <1>2, <2>4, <4>1
      <4> QED
        BY <3>2, <4>1, <4>2
    <3> QED
      BY <3>1, <3>2
  <2>7. ItemsOf(d, t, q.count) = [i \in 1 .. k + h |-> d[t[i]].data]
    BY <1>1, <1>2 DEF ItemsOf
  <2> QED
    BY ONLY <2>1, <2>2, <2>5, <2>6, <2>7 DEF Joint
<1> QED
  BY <1>7, <1>8, <1>9, <1>10 DEF Edited

\* list_merge_back moves all items of l2 behind those of l1.
LEMMA MergeLeaves ==
  ASSUME ListsLinked, NEW l1 \in List, NEW l2 \in List, list_merge_back(l1, l2)
  PROVE  /\ ListsLinked' /\ l1 # l2 /\ ListItems(l1)' = ListItems(l1) \o ListItems(l2)
         /\ ListItems(l2)' = <<>>
         /\ \A m \in List \ {l1, l2} : ListItems(m)' = ListItems(m)
<1> DEFINE ch == [m \in List |-> Chain(m)]
<1>1. Linked(cell, list, loose, ch) /\ \A m \in List : ch[m] = Chain(m)
  BY DEF ListsLinked
<1> HIDE DEF ch
<1>2. PICK r1, s1, r2, s2 : r1 = list[l1] /\ s1 = ch[l1] /\ r2 = list[l2] /\ s2 = ch[l2]
  OBVIOUS
<1>3. /\ l1 # l2 /\ r1.count > 0 /\ r2.count > 0 /\ loose' = loose
      /\ cell' = [cell EXCEPT ![r1.tail].next = r2.head]
      /\ list' = [list EXCEPT ![l1] = [head |-> r1.head, tail |-> r2.tail, count |-> r1.count + r2.count],
                              ![l2] = Empty]
  BY <1>2, Zenon DEF list_merge_back
<1>4. /\ cell \in Cells /\ list \in [List -> Record] /\ loose \in Pointer
      /\ r1 \in Record /\ r2 \in Record
      /\ OneChain(cell, r1, s1) /\ OneChain(cell, r2, s2)
      /\ \A i, j \in 1 .. r1.count : s1[i] = s1[j] => i = j
      /\ \A i, j \in 1 .. r2.count : s2[i] = s2[j] => i = j
      /\ \A i \in 1 .. r1.count : s1[i] \in Node /\ s1[i] # loose
      /\ \A i \in 1 .. r2.count : s2[i] \in Node /\ s2[i] # loose
      /\ ListItems(l1) = ItemsOf(cell, s1, r1.count) /\ ListItems(l2) = ItemsOf(cell, s2, r2.count)
      /\ \A m \in List : ListItems(m) = ItemsOf(cell, ch[m], list[m].count)
  BY <1>1, <1>2, ListFacts
<1>5. \A i \in 1 .. r1.count, j \in 1 .. r2.count : s1[i] # s2[j]
  BY <1>1, <1>2, <1>3 DEF Linked
<1>6. PICK N : N = {s2[j] : j \in 1 .. r2.count}
  OBVIOUS
<1>7. PICK q : q = [head |-> r1.head, tail |-> r2.tail, count |-> r1.count + r2.count]
  OBVIOUS
<1>8. q \in Record /\ q.count = r1.count + r2.count /\ q.head = r1.head /\ q.tail = r2.tail
  BY <1>4, <1>7 DEF Record
<1>9. PICK t : t = Joint(s1, r1.count, s2, r2.count)
  OBVIOUS
<1>10. PICK lm : lm = [list EXCEPT ![l2] = Empty]
  OBVIOUS
<1>11. PICK none, e : none = <<>> /\ e = Empty
  OBVIOUS
<1>12. PICK cm : cm = [m \in List |-> IF m = l2 THEN none ELSE ch[m]]
  OBVIOUS
<1>13. PICK cg : cg = [m \in List |-> IF m = l1 THEN t ELSE cm[m]]
  OBVIOUS
<1>14. list' = [lm EXCEPT ![l1] = q]
  <2>1. list' = [[list EXCEPT ![l1] = q] EXCEPT ![l2] = Empty]
    BY <1>3, <1>7, Zenon
  <2> QED
    BY ONLY <1>3, <1>4, <1>10, <2>1, l1 \in List, l2 \in List
<1>15. e \in Record /\ e.count = 0 /\ Edited(cell, list[l2], ch[l2], e, none, {}) /\ ItemsOf(cell, none, e.count) = <<>>
  BY <1>11, Cleared
<1>16. /\ Linked(cell, lm, loose, cm)
       /\ \A m \in List \ {l2} : ItemsOf(cell, cm[m], lm[m].count) = ItemsOf(cell, ch[m], list[m].count)
  <2>1. OnlyList(l2, cell, list, loose, ch, cell, e, loose, none, {}, lm, cm)
    BY <1>4, <1>10, <1>11, <1>12, <1>15 DEF OnlyList
  <2> QED
    BY ONLY <1>1, <2>1, l2 \in List, OneListChanges
<1>17. /\ lm[l1] = r1 /\ cm[l1] = s1 /\ lm[l2] = e /\ cm[l2] = none
       /\ \A m \in List \ {l2} : lm[m] = list[m] /\ cm[m] = ch[m]
  BY <1>2, <1>3, <1>4, <1>10, <1>11, <1>12
<1>18. PICK x \in Node : x = s1[r1.count] /\ x = r1.tail
  <2>1. r1.count \in 1 .. r1.count
    BY <1>3, <1>4 DEF Record
  <2> QED
    BY <1>3, <1>4, <2>1 DEF OneChain
<1>19. PICK y \in Pointer : y = s2[1] /\ y = r2.head
  <2>1. 1 \in 1 .. r2.count
    BY <1>3, <1>4 DEF Record
  <2> QED
    BY <1>3, <1>4, <2>1 DEF OneChain, Pointer
<1>20. /\ cell' \in Cells /\ cell'[x].next = y
       /\ \A z \in Node : cell'[z].data = cell[z].data
       /\ \A z \in Node \ {x} : cell'[z] = cell[z]
  <2>1. cell' = Pointed(cell, x, y)
    BY ONLY <1>3, <1>18, <1>19, Zenon DEF Pointed
  <2> QED
    BY ONLY <1>4, <2>1, x \in Node, y \in Pointer, PointedIs
<1>21. Joins(cell, r1, s1, r2, s2, cell', q, t)
  <2>1. \A i \in 1 .. r1.count : cell'[s1[i]].data = cell[s1[i]].data
    BY <1>4, <1>20
  <2>2. \A i \in 1 .. r1.count - 1 : cell'[s1[i]].next = cell[s1[i]].next
    <3> SUFFICES ASSUME NEW i \in 1 .. r1.count - 1 PROVE cell'[s1[i]].next = cell[s1[i]].next
      OBVIOUS
    <3>1. PICK k \in Nat : k = r1.count
      BY <1>4 DEF Record
    <3>2. i \in 1 .. k /\ k \in 1 .. k /\ i # k
      BY <3>1
    <3>3. s1[i] \in Node \ {x}
      BY <1>4, <1>18, <3>1, <3>2
    <3> QED
      BY <1>20, <3>3
  <2>3. cell'[s1[r1.count]].next = s2[1]
    BY <1>18, <1>19, <1>20
  <2>4. \A i \in 1 .. r2.count : cell'[s2[i]] = cell[s2[i]]
    <3>1. r1.count \in 1 .. r1.count
      BY <1>3, <1>4 DEF Record
    <3>2. \A i \in 1 .. r2.count : s2[i] \in Node \ {x}
      BY <1>4, <1>5, <1>18, <3>1
    <3> QED
      BY <1>20, <3>2
  <2> QED
    BY <1>3, <1>4, <1>5, <1>8, <1>9, <1>20, <2>1, <2>2, <2>3, <2>4 DEF Joins
<1>22. /\ Edited(cell', r1, s1, q, t, N)
       /\ ItemsOf(cell', t, q.count) = ItemsOf(cell, s1, r1.count) \o ItemsOf(cell, s2, r2.count)
  <2>1. N = NodesOf(s2, r2.count)
    BY <1>6 DEF NodesOf
  <2>2. /\ Edited(cell', r1, s1, q, t, NodesOf(s2, r2.count))
        /\ ItemsOf(cell', t, q.count) = ItemsOf(cell, s1, r1.count) \o ItemsOf(cell, s2, r2.count)
    BY <1>21, Joined
  <2> QED
    BY ONLY <2>1, <2>2
<1>23. /\ Linked(cell', list', loose', cg)
       /\ \A m \in List \ {l1} : ItemsOf(cell', cg[m], list'[m].count) = ItemsOf(cell, cm[m], lm[m].count)
  <2>1. \A m \in List : \A i \in 1 .. lm[m].count : cm[m][i] \notin N
    <3> SUFFICES ASSUME NEW m \in List, NEW i \in 1 .. lm[m].count, NEW j \in 1 .. r2.count, cm[m][i] = s2[j]
                 PROVE  FALSE
      BY <1>6
    <3>1. m # l2
      BY <1>15, <1>17
    <3>2. lm[m] = list[m] /\ cm[m] = ch[m]
      BY <1>17, <3>1
    <3>3. ch[m][i] = ch[l2][j] /\ i \in 1 .. list[m].count /\ j \in 1 .. list[l2].count
      BY <1>2, <3>2
    <3> QED
      BY <1>1, <3>1, <3>3 DEF Linked
  <2>2. \A z \in Node : cell'[z] = cell[z] \/ z \in N \/ \E j \in 1 .. lm[l1].count : z = cm[l1][j]
    <3>1. r1.count \in 1 .. r1.count
      BY <1>3, <1>4 DEF Record
    <3> QED
      BY <1>17, <1>18, <1>20, <3>1
  <2>3. \A i \in 1 .. q.count : t[i] # loose
    BY <1>4, <1>6, <1>22 DEF Edited
  <2>4. Edited(cell', lm[l1], cm[l1], q, t, N)
    BY <1>17, <1>22
  <2>5. OnlyList(l1, cell, lm, loose, cm, cell', q, loose', t, N, list', cg)
    BY <1>3, <1>4, <1>8, <1>13, <1>14, <1>20, <2>1, <2>2, <2>3, <2>4 DEF OnlyList
  <2> QED
    BY ONLY <1>16, <2>5, l1 \in List, OneListChanges
<1>24. ListsLinked' /\ \A m \in List : ListItems(m)' = ItemsOf(cell', cg[m], list'[m].count)
  <2>1. cg = [m \in List |-> cg[m]]
    BY <1>13
  <2> QED
    BY <1>23, <2>1, ChainsBecome
<1>25. cg[l1] = t /\ list'[l1] = q
  <2>1. lm \in [List -> Record]
    BY <1>16 DEF Linked
  <2> QED
    BY <1>13, <1>14, <2>1
<1>26. ListItems(l1)' = ListItems(l1) \o ListItems(l2)
  BY <1>4, <1>22, <1>24, <1>25
<1>27. ListItems(l2)' = <<>>
  BY <1>3, <1>15, <1>17, <1>23, <1>24
<1>28. \A m \in List \ {l1, l2} : ListItems(m)' = ListItems(m)
  BY <1>4, <1>16, <1>23, <1>24
<1> QED
  BY <1>3, <1>24, <1>26, <1>27, <1>28

-----------------------------------------------------------------------------
(* Arrays *)

\* The array v has a place for each of its items, and what it was given is there.
ArraySound(v) ==
  /\ v \in [data : [0 .. v.r_size - 1 -> Datum], count : Nat, r_size : Nat \ {0}]
  /\ v.count <= v.r_size
  /\ \A i \in 0 .. v.count - 1 : v.data[i] \in Item

\* An array with its fields given, and back.
LEMMA ArrayIs ==
  ASSUME NEW z \in Nat \ {0}, NEW k \in Nat, k <= z, NEW d \in [0 .. z - 1 -> Datum],
         \A i \in 0 .. k - 1 : d[i] \in Item, NEW w, w = [data |-> d, count |-> k, r_size |-> z]
  PROVE  ArraySound(w) /\ w.data = d /\ w.count = k /\ w.r_size = z
<1>1. w.data = d /\ w.count = k /\ w.r_size = z
  OBVIOUS
<1>2. w \in [data : [0 .. z - 1 -> Datum], count : Nat, r_size : Nat \ {0}]
  OBVIOUS
<1> QED
  BY ONLY <1>1, <1>2, k <= z, \A i \in 0 .. k - 1 : d[i] \in Item DEF ArraySound

LEMMA ArrayParts ==
  ASSUME NEW v, ArraySound(v)
  PROVE  \E z, k, d :
           /\ z \in Nat \ {0} /\ k \in 0 .. z /\ d \in [0 .. z - 1 -> Datum]
           /\ v = [data |-> d, count |-> k, r_size |-> z] /\ v.data = d /\ v.count = k /\ v.r_size = z
           /\ \A i \in 0 .. k - 1 : d[i] \in Item
<1>1. PICK z \in Nat \ {0} : z = v.r_size
  BY DEF ArraySound
<1>2. v \in [data : [0 .. z - 1 -> Datum], count : Nat, r_size : Nat \ {0}] /\ v.count <= z
  BY <1>1 DEF ArraySound
<1>3. PICK k \in 0 .. z : k = v.count
  BY <1>2
<1>4. PICK d \in [0 .. z - 1 -> Datum] : d = v.data
  BY <1>2
<1>5. v = [data |-> d, count |-> k, r_size |-> z]
  BY <1>1, <1>2, <1>3, <1>4
<1>6. \A i \in 0 .. k - 1 : d[i] \in Item
  BY <1>3, <1>4 DEF ArraySound
<1> QED
  BY <1>1, <1>3, <1>4, <1>5, <1>6

\* Growing the array keeps its items and makes room.
LEMMA RoomyArray ==
  ASSUME NEW v, ArraySound(v)
  PROVE  /\ ArraySound(Roomy(v)) /\ Roomy(v).count = v.count /\ v.count < Roomy(v).r_size
         /\ \A i \in 0 .. v.count - 1 : Roomy(v).data[i] = v.data[i]
<1>1. PICK z, k, d :
        /\ z \in Nat \ {0} /\ k \in 0 .. z /\ d \in [0 .. z - 1 -> Datum]
        /\ v = [data |-> d, count |-> k, r_size |-> z] /\ v.data = d /\ v.count = k /\ v.r_size = z
        /\ \A i \in 0 .. k - 1 : d[i] \in Item
  BY ArrayParts
<1>2. CASE k # z
  <2>1. Roomy(v) = v
    BY <1>1, <1>2, Zenon DEF Roomy
  <2>2. k < z
    BY <1>1, <1>2
  <2> QED
    BY <1>1, <2>1, <2>2
<1>3. CASE k = z
  <2>1. PICK y \in Nat \ {0} : y = 2 * z
    BY <1>1
  <2>2. PICK c : c = [i \in 0 .. y - 1 |-> IF i < z THEN d[i] ELSE Nothing]
    OBVIOUS
  <2>3. c \in [0 .. y - 1 -> Datum] /\ \A i \in 0 .. k - 1 : c[i] = d[i]
    BY <1>1, <1>3, <2>1, <2>2, BlankIs
  <2>4. PICK w : w = [data |-> c, count |-> k, r_size |-> y]
    OBVIOUS
  <2>5. Roomy(v) = [v EXCEPT !.r_size = y, !.data = c]
    <3>1. Roomy(v) = [v EXCEPT !.r_size = 2 * v.count,
                               !.data = [i \in 0 .. 2 * v.count - 1 |-> IF i < v.r_size THEN v.data[i] ELSE Nothing]]
      BY <1>1, <1>3, Zenon DEF Roomy, Grown
    <3>2. 2 * v.count = y /\ v.r_size = z /\ v.data = d
      BY ONLY <1>1, <1>3, <2>1
    <3>3. [i \in 0 .. 2 * v.count - 1 |-> IF i < v.r_size THEN v.data[i] ELSE Nothing] = c
      BY ONLY <2>2, <3>2, Zenon
    <3> QED
      BY ONLY <3>1, <3>2, <3>3, Zenon
  <2>6. Roomy(v) = w
    BY ONLY <1>1, <2>4, <2>5
  <2>7. k \in Nat /\ k <= y /\ k < y /\ \A i \in 0 .. k - 1 : c[i] \in Item
    BY <1>1, <1>3, <2>1, <2>3
  <2>8. ArraySound(w) /\ w.data = c /\ w.count = k /\ w.r_size = y
    BY <2>3, <2>4, <2>7, ArrayIs
  <2> QED
    BY <1>1, <2>3, <2>6, <2>7, <2>8
<1> QED
  BY <1>2, <1>3

\* The items of an array, as a sequence.
LEMMA ArrayListing ==
  ASSUME NEW v, ArraySound(v)
  PROVE  /\ Listing(ArrayItems(v), v.count) /\ v.count \in Nat
         /\ \A i \in 1 .. v.count : ArrayItems(v)[i] = v.data[i - 1] /\ i - 1 \in 0 .. v.count - 1
<1>1. PICK k \in Nat : k = v.count
  BY DEF ArraySound
<1> QED
  BY <1>1 DEF ArrayItems, Listing

\* vector_insert_back appends,
LEMMA VectorInsertLeaves ==
  ASSUME ArraySound(vector), NEW e \in Item, vector_insert_back(e)
  PROVE  ArraySound(vector') /\ ArrayItems(vector') = Append(ArrayItems(vector), e)
<1>1. PICK v : v = Roomy(vector)
  OBVIOUS
<1>2. PICK k \in Nat : k = vector.count
  BY DEF ArraySound
<1>3. /\ ArraySound(v) /\ v.count = k /\ k < v.r_size
      /\ \A i \in 0 .. k - 1 : v.data[i] = vector.data[i]
  BY <1>1, <1>2, RoomyArray
<1>4. PICK z, h, c :
        /\ z \in Nat \ {0} /\ h \in 0 .. z /\ c \in [0 .. z - 1 -> Datum]
        /\ v = [data |-> c, count |-> h, r_size |-> z] /\ v.data = c /\ v.count = h /\ v.r_size = z
        /\ \A i \in 0 .. h - 1 : c[i] \in Item
  BY <1>3, ArrayParts
<1>5. PICK d : d = [c EXCEPT ![k] = e]
  OBVIOUS
<1>6. vector' = [data |-> d, count |-> k + 1, r_size |-> z]
  <2>1. vector' = [v EXCEPT !.data[v.count] = e, !.count = @ + 1]
    BY <1>1, Zenon DEF vector_insert_back
  <2> QED
    BY ONLY <1>3, <1>4, <1>5, <2>1
<1>7. /\ d \in [0 .. z - 1 -> Datum] /\ d[k] = e
      /\ \A i \in 0 .. k - 1 : d[i] = vector.data[i] /\ d[i] \in Item
  BY <1>3, <1>4, <1>5 DEF Datum
<1>8. ArraySound(vector') /\ vector'.data = d /\ vector'.count = k + 1
  <2>1. k + 1 \in Nat /\ k + 1 <= z
    BY <1>3, <1>4
  <2>2. \A i \in 0 .. (k + 1) - 1 : d[i] \in Item
    BY <1>7
  <2>3. PICK w : w = vector'
    OBVIOUS
  <2>4. w = [data |-> d, count |-> k + 1, r_size |-> z]
    BY <1>6, <2>3
  <2>5. ArraySound(w) /\ w.data = d /\ w.count = k + 1
    BY ONLY <1>7, <2>1, <2>2, <2>4, <1>4, ArrayIs
  <2> QED
    BY <2>3, <2>5
<1>9. Append(ArrayItems(vector), e) = With(ArrayItems(vector), k, e)
  BY <1>2, ArrayListing, AppendGives
<1>10. ArrayItems(vector') = [i \in 1 .. k + 1 |-> d[i - 1]]
  BY <1>8 DEF ArrayItems
<1>11. \A i \in 1 .. k + 1 : d[i - 1] = IF i = k + 1 THEN e ELSE ArrayItems(vector)[i]
  BY <1>2, <1>7, ArrayListing
<1> QED
  BY <1>8, <1>9, <1>10, <1>11 DEF With

\* writing through vector_at replaces one item,
LEMMA VectorAtLeaves ==
  ASSUME ArraySound(vector), NEW i \in 0 .. MaxLength, NEW e \in Item, vector_at(i, e)
  PROVE  ArraySound(vector') /\ ArrayItems(vector') = [ArrayItems(vector) EXCEPT ![i + 1] = e]
<1>1. PICK z, k, c :
        /\ z \in Nat \ {0} /\ k \in 0 .. z /\ c \in [0 .. z - 1 -> Datum]
        /\ vector = [data |-> c, count |-> k, r_size |-> z]
        /\ vector.data = c /\ vector.count = k /\ vector.r_size = z
        /\ \A j \in 0 .. k - 1 : c[j] \in Item
  BY ArrayParts
<1>2. i \in 0 .. k - 1 /\ k \in Nat /\ k <= z
  BY <1>1, ContainersAssumption DEF vector_at
<1>3. PICK d : d = [c EXCEPT ![i] = e]
  OBVIOUS
<1>4. vector' = [data |-> d, count |-> k, r_size |-> z]
  <2>1. vector' = [vector EXCEPT !.data[i] = e]
    BY DEF vector_at
  <2> QED
    BY ONLY <1>1, <1>3, <2>1
<1>5. /\ d \in [0 .. z - 1 -> Datum]
      /\ \A j \in 0 .. k - 1 : d[j] = IF j = i THEN e ELSE c[j]
      /\ \A j \in 0 .. k - 1 : d[j] \in Item
  BY <1>1, <1>2, <1>3 DEF Datum
<1>6. PICK w : w = vector'
  OBVIOUS
<1>7. ArraySound(w) /\ w.data = d /\ w.count = k
  <2>1. w = [data |-> d, count |-> k, r_size |-> z]
    BY <1>4, <1>6
  <2> QED
    BY ONLY <1>2, <1>5, <2>1, <1>1, ArrayIs
<1>8. ArrayItems(vector') = [j \in 1 .. k |-> d[j - 1]]
  BY <1>6, <1>7 DEF ArrayItems
<1>9. ArrayItems(vector) = [j \in 1 .. k |-> c[j - 1]]
  BY <1>1 DEF ArrayItems
<1>10. \A j \in 1 .. k : d[j - 1] = IF j = i + 1 THEN e ELSE c[j - 1]
  BY <1>2, <1>5
<1>11. [ArrayItems(vector) EXCEPT ![i + 1] = e] = [j \in 1 .. k |-> IF j = i + 1 THEN e ELSE c[j - 1]]
  BY <1>9
<1>12. ArrayItems(vector') = [ArrayItems(vector) EXCEPT ![i + 1] = e]
  <2>1. [j \in 1 .. k |-> d[j - 1]] = [j \in 1 .. k |-> IF j = i + 1 THEN e ELSE c[j - 1]]
    BY ONLY <1>10
  <2> QED
    BY ONLY <1>8, <1>11, <2>1, Zenon
<1>13. ArraySound(vector')
  BY ONLY <1>6, <1>7, Zenon
<1> QED
  BY ONLY <1>12, <1>13

\* and vector_find_first finds an item when there is one.
LEMMA VectorFindGives ==
  ASSUME ArraySound(vector), NEW e \in Item, vector_find_first(e)
  PROVE  /\ IF \E i \in 1 .. Len(ArrayItems(vector)) : ArrayItems(vector)[i] = e
              THEN /\ call'.returned + 1 \in 1 .. Len(ArrayItems(vector))
                   /\ ArrayItems(vector)[call'.returned + 1] = e
              ELSE call'.returned = -1
<1>1. PICK k \in Nat : k = vector.count /\ k <= vector.r_size
  BY DEF ArraySound
<1>2. PICK a : a = ArrayItems(vector)
  OBVIOUS
<1>3. Len(a) = k /\ \A i \in 1 .. k : a[i] = vector.data[i - 1]
  BY <1>1, <1>2, ArrayListing, AsSequence
<1>4. PICK H : H = {i \in 0 .. vector.r_size - 1 : i < vector.count /\ vector.data[i] = e}
  OBVIOUS
<1>5. call'.returned = IF H = {} THEN -1 ELSE CHOOSE i \in H : \A j \in H : i <= j
  BY <1>4 DEF vector_find_first, Called
<1>6. CASE H = {}
  <2>1. \A i \in 1 .. k : a[i] # e
    <3> SUFFICES ASSUME NEW i \in 1 .. k, a[i] = e PROVE FALSE
      OBVIOUS
    <3>1. i - 1 \in 0 .. vector.r_size - 1
      BY <1>1 DEF ArraySound
    <3>2. i - 1 < vector.count /\ vector.data[i - 1] = e
      BY <1>1, <1>3
    <3>3. i - 1 \in H
      BY <1>4, <3>1, <3>2
    <3> QED
      BY <1>6, <3>3
  <2> QED
    BY <1>2, <1>3, <1>5, <1>6, <2>1
<1>7. CASE H # {}
  <2>1. H \in SUBSET Nat
    BY <1>4 DEF ArraySound
  <2>2. call'.returned \in H
    BY ONLY <1>5, <1>7, <2>1, LeastNat
  <2>3. PICK x \in Nat : x = call'.returned /\ x < k /\ vector.data[x] = e
    BY <1>1, <1>4, <2>1, <2>2
  <2>4. x + 1 \in 1 .. k /\ (x + 1) - 1 = x
    BY <2>3
  <2>5. a[x + 1] = e
    BY <1>3, <2>3, <2>4
  <2> QED
    BY <1>2, <1>3, <2>3, <2>4, <2>5
<1> QED
  BY <1>6, <1>7

Sorted(v) == \A i, j \in 0 .. v.count - 1 : i <= j => v.data[i] <= v.data[j]

\* The items greater than e are the last ones of a sorted array.
LEMMA GreaterOnes ==
  ASSUME NEW k \in Nat, NEW d, \A i \in 0 .. k - 1 : d[i] \in Item, NEW e \in Item,
         \A i, j \in 0 .. k - 1 : i <= j => d[i] <= d[j]
  PROVE  \E p \in 0 .. k : {i \in 0 .. k - 1 : e < d[i]} = p .. k - 1
<1>1. PICK G : G = {i \in 0 .. k - 1 : e < d[i]}
  OBVIOUS
<1>2. CASE G = {}
  BY <1>1, <1>2
<1>3. CASE G # {}
  <2>1. G \in SUBSET Nat
    BY <1>1
  <2>2. PICK p \in G : \A q \in G : p <= q
    BY <1>3, <2>1, LeastElement
  <2>3. p \in 0 .. k - 1 /\ p \in 0 .. k /\ e < d[p]
    BY <1>1, <2>2
  <2>4. ASSUME NEW i \in p .. k - 1
        PROVE  i \in G
    <3>2. i \in 0 .. k - 1 /\ p <= i
      BY <2>3
    <3>3. d[p] \in Nat /\ d[i] \in Nat /\ e \in Nat
      BY <2>3, <3>2, ContainersAssumption
    <3>1. i \in 0 .. k - 1 /\ d[p] <= d[i] /\ d[p] \in Int /\ d[i] \in Int /\ e \in Int
      BY <2>3, <3>2, <3>3
    <3> QED
      BY <1>1, <2>3, <3>1
  <2>5. G = p .. k - 1
    BY <1>1, <2>2, <2>3, <2>4
  <2> QED
    BY <1>1, <2>3, <2>5
<1> QED
  BY <1>2, <1>3

\* ordered_vector_insert puts e behind the items not greater: the array stays sorted.
LEMMA OrderedInsertLeaves ==
  ASSUME ArraySound(ordered), Sorted(ordered), NEW e \in Item, ordered_vector_insert(e)
  PROVE  /\ ArraySound(ordered') /\ Sorted(ordered')
         /\ \E i \in 0 .. ordered.count :
              /\ \A j \in 1 .. ordered.count : j <= i <=> ArrayItems(ordered)[j] <= e
              /\ ArrayItems(ordered') = Within(ArrayItems(ordered), ordered.count, i + 1, e)
<1>1. PICK v : v = Roomy(ordered)
  OBVIOUS
<1>2. PICK k \in Nat : k = ordered.count
  BY DEF ArraySound
<1>3. /\ ArraySound(v) /\ v.count = k /\ k < v.r_size
      /\ \A i \in 0 .. k - 1 : v.data[i] = ordered.data[i]
  BY <1>1, <1>2, RoomyArray
<1>4. PICK z, h, c :
        /\ z \in Nat \ {0} /\ h \in 0 .. z /\ c \in [0 .. z - 1 -> Datum]
        /\ v = [data |-> c, count |-> h, r_size |-> z] /\ v.data = c /\ v.count = h /\ v.r_size = z
        /\ \A i \in 0 .. h - 1 : c[i] \in Item
  BY <1>3, ArrayParts
<1>5. /\ h = k /\ k < z
      /\ \A i \in 0 .. k - 1 : c[i] = ordered.data[i] /\ c[i] \in Item /\ c[i] \in Nat
      /\ \A i, j \in 0 .. k - 1 : i <= j => c[i] <= c[j]
  BY <1>2, <1>3, <1>4, ContainersAssumption DEF Sorted
<1>6. PICK G : G = {i \in 0 .. k - 1 : e < c[i]}
  OBVIOUS
<1>7. PICK p \in 0 .. k : G = p .. k - 1
  BY <1>5, <1>6, GreaterOnes
<1>8. k - Cardinality(G) = p
  <2>1. p \in Int /\ k - 1 \in Int
    OBVIOUS
  <2>2. Cardinality(p .. k - 1) = IF p > k - 1 THEN 0 ELSE (k - 1) - p + 1
    BY <2>1, FS_Interval
  <2> QED
    BY <1>7, <2>1, <2>2
<1>9. PICK d : d = [i \in 0 .. z - 1 |-> IF i = p THEN e ELSE IF p < i /\ i <= k THEN c[i - 1] ELSE c[i]]
  OBVIOUS
<1>10. ordered' = [data |-> d, count |-> k + 1, r_size |-> z]
  <2>1. ordered' = [v EXCEPT !.count = @ + 1, !.data = d]
    <3>1. ordered' = [v EXCEPT !.count = @ + 1,
            !.data = [i \in 0 .. v.r_size - 1 |->
              IF i = v.count - Cardinality({x \in 0 .. v.count - 1 : e < v.data[x]}) THEN e
              ELSE IF v.count - Cardinality({x \in 0 .. v.count - 1 : e < v.data[x]}) < i /\ i <= v.count
                     THEN v.data[i - 1] ELSE v.data[i]]]
      BY <1>1, Zenon DEF ordered_vector_insert
    <3>2. v.count - Cardinality({x \in 0 .. v.count - 1 : e < v.data[x]}) = p
      BY ONLY <1>3, <1>4, <1>6, <1>8
    <3>3. ordered' = [v EXCEPT !.count = @ + 1,
            !.data = [i \in 0 .. v.r_size - 1 |->
              IF i = p THEN e ELSE IF p < i /\ i <= v.count THEN v.data[i - 1] ELSE v.data[i]]]
      BY ONLY <3>1, <3>2, Zenon
    <3> QED
      BY ONLY <1>3, <1>4, <1>9, <3>3, Zenon
  <2> QED
    BY ONLY <1>4, <1>5, <2>1
<1>11. /\ \A i \in 0 .. k : d[i] = IF i = p THEN e ELSE IF p < i THEN c[i - 1] ELSE c[i]
       /\ \A i \in 0 .. k : i < p => i \in 0 .. k - 1
       /\ \A i \in 0 .. k : p < i => i - 1 \in 0 .. k - 1
  BY <1>4, <1>5, <1>9
<1>12. d \in [0 .. z - 1 -> Datum] /\ \A i \in 0 .. k : d[i] \in Item
  <2>1. ASSUME NEW i \in 0 .. z - 1
        PROVE  (IF i = p THEN e ELSE IF p < i /\ i <= k THEN c[i - 1] ELSE c[i]) \in Datum
    BY <1>4 DEF Datum
  <2>2. ASSUME NEW i \in 0 .. k PROVE d[i] \in Item
    BY <1>5, <1>11
  <2> QED
    BY <1>9, <2>1, <2>2
<1>13. PICK w : w = ordered'
  OBVIOUS
<1>14. ArraySound(w) /\ w.data = d /\ w.count = k + 1
  <2>1. k + 1 \in Nat /\ k + 1 <= z /\ (k + 1) - 1 = k
    BY <1>4, <1>5
  <2>2. \A i \in 0 .. (k + 1) - 1 : d[i] \in Item
    BY <1>12, <2>1
  <2> QED
    BY <1>4, <1>10, <1>12, <1>13, <2>1, <2>2, ArrayIs
<1>15. \A i \in 0 .. k - 1 : i < p <=> c[i] <= e
  <2> SUFFICES ASSUME NEW i \in 0 .. k - 1 PROVE i < p <=> c[i] <= e
    OBVIOUS
  <2>1. e < c[i] <=> i \in p .. k - 1
    BY <1>6, <1>7
  <2>2. e \in Nat /\ c[i] \in Nat
    BY <1>5, ContainersAssumption
  <2> QED
    BY <2>1, <2>2
<1>16. Sorted(w)
  <2> SUFFICES ASSUME NEW i \in 0 .. k, NEW j \in 0 .. k, i <= j PROVE d[i] <= d[j]
    BY <1>14 DEF Sorted
  <2>1. d[i] \in Nat /\ d[j] \in Nat /\ e \in Nat
    BY <1>12, ContainersAssumption
  <2>2. CASE i < p
    <3>1. i \in 0 .. k - 1 /\ d[i] = c[i] /\ c[i] <= e
      BY <1>11, <1>15, <2>2
    <3>2. CASE j < p
      BY <1>5, <1>11, <3>1, <3>2
    <3>3. CASE j = p
      BY <1>11, <3>1, <3>3
    <3>4. CASE j > p
      <4>1. j - 1 \in 0 .. k - 1 /\ d[j] = c[j - 1] /\ i <= j - 1
        BY <1>11, <2>2, <3>4
      <4> QED
        BY <1>5, <3>1, <4>1
    <3> QED
      BY <3>2, <3>3, <3>4
  <2>3. CASE i = p
    <3>1. d[i] = e
      BY <1>11, <2>3
    <3>2. CASE j = p
      BY <2>1, <2>3, <3>2
    <3>3. CASE j > p
      <4>1. j - 1 \in 0 .. k - 1 /\ d[j] = c[j - 1] /\ ~(j - 1 < p)
        BY <1>11, <3>3
      <4> QED
        BY <1>5, <1>15, <2>1, <3>1, <4>1
    <3> QED
      BY <2>3, <3>2, <3>3
  <2>4. CASE i > p
    <3>1. /\ i - 1 \in 0 .. k - 1 /\ d[i] = c[i - 1] /\ j - 1 \in 0 .. k - 1 /\ d[j] = c[j - 1]
          /\ i - 1 <= j - 1
      BY <1>11, <2>4
    <3> QED
      BY <1>5, <3>1
  <2> QED
    BY <2>2, <2>3, <2>4
<1>17. PICK a : a = ArrayItems(ordered)
  OBVIOUS
<1>18. \A i \in 1 .. k : a[i] = c[i - 1]
  <2>1. \A i \in 1 .. k : a[i] = ordered.data[i - 1] /\ i - 1 \in 0 .. k - 1
    BY <1>2, <1>17, ArrayListing
  <2> QED
    BY <1>5, <2>1
<1>19. \A j \in 1 .. k : j <= p <=> a[j] <= e
  <2> SUFFICES ASSUME NEW j \in 1 .. k PROVE j <= p <=> a[j] <= e
    OBVIOUS
  <2>1. j - 1 \in 0 .. k - 1 /\ (j - 1 < p <=> j <= p)
    OBVIOUS
  <2> QED
    BY <1>15, <1>18, <2>1
<1>20. ArrayItems(w) = Within(a, k, p + 1, e)
  <2>1. ASSUME NEW i \in 1 .. k + 1
        PROVE  d[i - 1] = IF i < p + 1 THEN a[i] ELSE IF i = p + 1 THEN e ELSE a[i - 1]
    <3>1. i - 1 \in 0 .. k /\ (i - 1 < p <=> i < p + 1) /\ (i - 1 = p <=> i = p + 1)
      OBVIOUS
    <3>2. CASE i - 1 < p
      <4>1. i \in 1 .. k
        BY <3>2
      <4> QED
        BY <1>11, <1>18, <3>1, <3>2, <4>1
    <3>3. CASE i - 1 = p
      BY <1>11, <3>1, <3>3
    <3>4. CASE i - 1 > p
      <4>1. i - 1 \in 1 .. k
        BY <3>4
      <4>2. d[i - 1] = c[(i - 1) - 1] /\ a[i - 1] = c[(i - 1) - 1]
        BY <1>11, <1>18, <3>1, <3>4, <4>1
      <4> QED
        BY <3>4, <4>2
    <3> QED
      BY <3>1, <3>2, <3>3, <3>4
  <2>2. ArrayItems(w) = [i \in 1 .. k + 1 |-> d[i - 1]]
    BY <1>14 DEF ArrayItems
  <2> QED
    BY ONLY <2>1, <2>2 DEF Within
<1> QED
  BY <1>2, <1>13, <1>14, <1>16, <1>17, <1>19, <1>20

\* ordered_vector_remove takes one item out: the array stays sorted.
LEMMA OrderedRemoveLeaves ==
  ASSUME ArraySound(ordered), Sorted(ordered), NEW index \in 0 .. MaxLength, ordered_vector_remove(index)
  PROVE  /\ ArraySound(ordered') /\ Sorted(ordered') /\ index + 1 \in 1 .. ordered.count
         /\ ArrayItems(ordered') = Without(ArrayItems(ordered), ordered.count, index + 1)
<1>1. PICK z, k, c :
        /\ z \in Nat \ {0} /\ k \in 0 .. z /\ c \in [0 .. z - 1 -> Datum]
        /\ ordered = [data |-> c, count |-> k, r_size |-> z]
        /\ ordered.data = c /\ ordered.count = k /\ ordered.r_size = z
        /\ \A i \in 0 .. k - 1 : c[i] \in Item
  BY ArrayParts
<1>2. PICK x \in Nat : x = index /\ x < k
  BY <1>1, ContainersAssumption DEF ordered_vector_remove
<1>3. z \in Nat \ {0} /\ k \in Nat /\ k <= z /\ k - 1 \in Nat /\ DOMAIN c = 0 .. z - 1
  BY <1>1, <1>2
<1>4. PICK d : d = [i \in 0 .. z - 1 |-> IF x <= i /\ i < k - 1 THEN c[i + 1] ELSE c[i]]
  OBVIOUS
<1>5. ordered' = [data |-> d, count |-> k - 1, r_size |-> z]
  <2>1. ordered' = [ordered EXCEPT !.count = ordered.count - 1,
          !.data = [i \in DOMAIN ordered.data |->
                      IF index <= i /\ i < ordered.count - 1 THEN ordered.data[i + 1] ELSE ordered.data[i]]]
    BY DEF ordered_vector_remove
  <2>2. ordered' = [ordered EXCEPT !.count = k - 1, !.data = d]
    BY ONLY <1>1, <1>2, <1>3, <1>4, <2>1, Zenon
  <2> QED
    BY ONLY <1>1, <2>2
<1>6. \A i \in 0 .. k - 2 : /\ d[i] = IF x <= i THEN c[i + 1] ELSE c[i]
                            /\ i \in 0 .. k - 1 /\ i + 1 \in 0 .. k - 1
  BY <1>3, <1>4
<1>7. d \in [0 .. z - 1 -> Datum] /\ \A i \in 0 .. k - 2 : d[i] \in Item
  <2>1. ASSUME NEW i \in 0 .. z - 1
        PROVE  (IF x <= i /\ i < k - 1 THEN c[i + 1] ELSE c[i]) \in Datum
    BY <1>1, <1>3
  <2>2. ASSUME NEW i \in 0 .. k - 2 PROVE d[i] \in Item
    BY <1>1, <1>6
  <2> QED
    BY <1>4, <2>1, <2>2
<1>8. PICK w : w = ordered'
  OBVIOUS
<1>9. ArraySound(w) /\ w.data = d /\ w.count = k - 1
  <2>1. k - 1 <= z /\ (k - 1) - 1 = k - 2
    BY <1>3
  <2>2. \A i \in 0 .. (k - 1) - 1 : d[i] \in Item
    BY <1>7, <2>1
  <2> QED
    BY ONLY <1>3, <1>5, <1>7, <1>8, <2>1, <2>2, ArrayIs
<1>10. Sorted(w)
  <2>1. \A i, j \in 0 .. k - 1 : i <= j => c[i] <= c[j]
    BY <1>1 DEF Sorted
  <2> SUFFICES ASSUME NEW i \in 0 .. k - 2, NEW j \in 0 .. k - 2, i <= j PROVE d[i] <= d[j]
    <3>1. (k - 1) - 1 = k - 2
      BY <1>3
    <3> QED
      BY <1>9, <3>1 DEF Sorted
  <2>2. CASE x <= i
    BY <1>6, <2>1, <2>2
  <2>3. CASE ~(x <= i) /\ ~(x <= j)
    BY <1>6, <2>1, <2>3
  <2>4. CASE ~(x <= i) /\ x <= j
    <3>1. d[i] = c[i] /\ d[j] = c[j + 1] /\ i <= j + 1 /\ i \in 0 .. k - 1 /\ j + 1 \in 0 .. k - 1
      BY <1>6, <2>4
    <3> QED
      BY <2>1, <3>1
  <2> QED
    BY <1>3, <2>2, <2>3, <2>4
<1>11. PICK a : a = ArrayItems(ordered)
  OBVIOUS
<1>12. \A i \in 1 .. k : a[i] = c[i - 1]
  BY <1>1, <1>11, ArrayListing
<1>13. ArrayItems(w) = Without(a, k, x + 1)
  <2>1. ASSUME NEW i \in 1 .. k - 1
        PROVE  d[i - 1] = IF i < x + 1 THEN a[i] ELSE a[i + 1]
    <3>1. i - 1 \in 0 .. k - 2 /\ (i - 1) + 1 = i /\ (i + 1) - 1 = i /\ (x <= i - 1 <=> ~(i < x + 1))
      BY <1>3
    <3>2. i \in 1 .. k /\ i + 1 \in 1 .. k
      BY <1>3
    <3> QED
      BY <1>6, <1>12, <3>1, <3>2
  <2>2. ArrayItems(w) = [i \in 1 .. k - 1 |-> d[i - 1]]
    BY <1>9 DEF ArrayItems
  <2> QED
    BY ONLY <2>1, <2>2 DEF Without
<1> QED
  BY <1>1, <1>2, <1>3, <1>8, <1>9, <1>10, <1>11, <1>13

\* One step of the search between x and y, and the whole of it.
Probe(d, e, f, x, y) ==
  IF x > y THEN -1
  ELSE IF e < d[(x + y) \div 2] THEN f[<<x, (x + y) \div 2 - 1>>]
  ELSE IF e > d[(x + y) \div 2] THEN f[<<(x + y) \div 2 + 1, y>>]
  ELSE (x + y) \div 2

Windows(n) == (0 .. n) \X (-1 .. n - 1)

Search(d, n, e) ==
  CHOOSE f : f = [w \in Windows(n) |-> Probe(d, e, f, w[1], w[2])]

\* The middle of a window that is not empty lies in it.
LEMMA Middle ==
  ASSUME NEW x \in Nat, NEW y \in Int, x <= y
  PROVE  (x + y) \div 2 \in x .. y
OBVIOUS

Probes(d, n, e, f) ==
  \A x \in 0 .. n, y \in -1 .. n - 1 : f[<<x, y>>] = Probe(d, e, f, x, y)

\* The search is well defined: each probe asks for a smaller window.
LEMMA SearchExists ==
  ASSUME NEW n \in Nat, NEW d, NEW e
  PROVE  Probes(d, n, e, Search(d, n, e))
<1> DEFINE Done(k, f) == \A x \in 0 .. n, y \in -1 .. n - 1 : y - x < k => f[<<x, y>>] = Probe(d, e, f, x, y)
           S == {k \in 0 .. n : \E f : Done(k, f)}
<1>1. ASSUME NEW f
      PROVE  \A x \in 0 .. n, y \in -1 .. n - 1 :
               [w \in Windows(n) |-> Probe(d, e, f, w[1], w[2])][<<x, y>>] = Probe(d, e, f, x, y)
  BY DEF Windows
<1>2. 0 \in S
  <2>1. PICK f : f = [w \in Windows(n) |-> -1]
    OBVIOUS
  <2>2. \A x \in 0 .. n, y \in -1 .. n - 1 : y - x < 0 => f[<<x, y>>] = Probe(d, e, f, x, y)
    BY <2>1 DEF Windows, Probe
  <2> QED
    BY <2>2
<1>3. ASSUME NEW k \in S, k < n
      PROVE  k + 1 \in S
  <2>1. PICK f : Done(k, f)
    OBVIOUS
  <2>2. PICK g : g = [w \in Windows(n) |-> Probe(d, e, f, w[1], w[2])]
    OBVIOUS
  <2>3. \A x \in 0 .. n, y \in -1 .. n - 1 : g[<<x, y>>] = Probe(d, e, f, x, y)
    BY <1>1, <2>2
  <2>4. \A x \in 0 .. n, y \in -1 .. n - 1 : y - x < k => g[<<x, y>>] = f[<<x, y>>]
    BY <2>1, <2>3
  <2>5. ASSUME NEW x \in 0 .. n, NEW y \in -1 .. n - 1, y - x < k + 1
        PROVE  g[<<x, y>>] = Probe(d, e, g, x, y)
    <3>1. CASE x > y
      BY <2>3, <3>1 DEF Probe
    <3>2. CASE x <= y
      <4>1. PICK m \in x .. y : m = (x + y) \div 2
        BY <3>2, Middle
      <4>2. /\ m - 1 \in -1 .. n - 1 /\ (m - 1) - x < k
            /\ m + 1 \in 0 .. n /\ y - (m + 1) < k
        BY <2>5
      <4>3. g[<<x, m - 1>>] = f[<<x, m - 1>>] /\ g[<<m + 1, y>>] = f[<<m + 1, y>>]
        BY <2>4, <4>2
      <4>4. Probe(d, e, f, x, y) = Probe(d, e, g, x, y)
        BY <4>1, <4>3 DEF Probe
      <4> QED
        BY <2>3, <4>4
    <3> QED
      BY <3>1, <3>2
  <2>6. Done(k + 1, g)
    BY <2>5
  <2> QED
    BY <1>3, <2>6
<1>4. n \in S
  <2> HIDE DEF S
  <2>1. S \in SUBSET (0 .. n)
    BY DEF S
  <2> QED
    BY <1>2, <1>3, <2>1, Ladder
<1>5. PICK f : \A x \in 0 .. n, y \in -1 .. n - 1 : f[<<x, y>>] = Probe(d, e, f, x, y)
  <2>1. PICK f : Done(n, f)
    BY <1>4
  <2>2. \A x \in 0 .. n, y \in -1 .. n - 1 : y - x < n
    OBVIOUS
  <2> QED
    BY <2>1, <2>2
<1>6. PICK g : g = [w \in Windows(n) |-> Probe(d, e, f, w[1], w[2])]
  OBVIOUS
<1>7. \A x \in 0 .. n, y \in -1 .. n - 1 : g[<<x, y>>] = f[<<x, y>>]
  BY <1>1, <1>5, <1>6
<1>8. ASSUME NEW x \in 0 .. n, NEW y \in -1 .. n - 1
      PROVE  Probe(d, e, f, x, y) = Probe(d, e, g, x, y)
  <2>1. CASE x > y
    BY <2>1 DEF Probe
  <2>2. CASE x <= y
    <3>1. PICK m \in x .. y : m = (x + y) \div 2
      BY <2>2, Middle
    <3>2. m - 1 \in -1 .. n - 1 /\ m + 1 \in 0 .. n
      OBVIOUS
    <3>3. g[<<x, m - 1>>] = f[<<x, m - 1>>] /\ g[<<m + 1, y>>] = f[<<m + 1, y>>]
      BY <1>7, <3>2
    <3> QED
      BY <3>1, <3>3 DEF Probe
  <2> QED
    BY <2>1, <2>2
<1>9. g = [w \in Windows(n) |-> Probe(d, e, g, w[1], w[2])]
  <2>1. \A w \in Windows(n) : w[1] \in 0 .. n /\ w[2] \in -1 .. n - 1
    BY DEF Windows
  <2>2. \A w \in Windows(n) : Probe(d, e, f, w[1], w[2]) = Probe(d, e, g, w[1], w[2])
    BY <1>8, <2>1
  <2> QED
    BY ONLY <1>6, <2>2
<1> DEFINE h == Search(d, n, e)
<1>10. h = [w \in Windows(n) |-> Probe(d, e, h, w[1], w[2])]
  BY ONLY <1>9, Zenon DEF Search
<1> HIDE DEF h
<1>11. \A x \in 0 .. n, y \in -1 .. n - 1 : h[<<x, y>>] = Probe(d, e, h, x, y)
  <2>1. PICK b : b = [w \in Windows(n) |-> Probe(d, e, h, w[1], w[2])]
    OBVIOUS
  <2>2. \A x \in 0 .. n, y \in -1 .. n - 1 : b[<<x, y>>] = Probe(d, e, h, x, y)
    BY <1>1, <2>1
  <2> QED
    BY ONLY <1>10, <2>1, <2>2
<1> QED
  BY <1>11 DEF h, Probes

\* In a sorted array the search finds e exactly when it is there.
LEMMA SearchFinds ==
  ASSUME NEW n \in Nat, NEW d, \A i \in 0 .. n - 1 : d[i] \in Nat, NEW e \in Nat,
         \A i, j \in 0 .. n - 1 : i <= j => d[i] <= d[j]
  PROVE  IF \E i \in 0 .. n - 1 : d[i] = e
           THEN /\ Search(d, n, e)[<<0, n - 1>>] \in 0 .. n - 1
                /\ d[Search(d, n, e)[<<0, n - 1>>]] = e
           ELSE Search(d, n, e)[<<0, n - 1>>] = -1
<1>1. PICK f : f = Search(d, n, e)
  OBVIOUS
<1>2. \A x \in 0 .. n, y \in -1 .. n - 1 : f[<<x, y>>] = Probe(d, e, f, x, y)
  <2>1. Probes(d, n, e, f)
    BY <1>1, SearchExists
  <2> QED
    BY <2>1 DEF Probes
<1> DEFINE Right(x, y) == IF \E i \in x .. y : d[i] = e
                            THEN f[<<x, y>>] \in x .. y /\ d[f[<<x, y>>]] = e
                            ELSE f[<<x, y>>] = -1
           S == {k \in 0 .. n : \A x \in 0 .. n, y \in -1 .. n - 1 : y - x < k => Right(x, y)}
<1>3. 0 \in S
  <2> SUFFICES ASSUME NEW x \in 0 .. n, NEW y \in -1 .. n - 1, y - x < 0 PROVE Right(x, y)
    OBVIOUS
  <2>0. f[<<x, y>>] = Probe(d, e, f, x, y) /\ x > y
    BY <1>2
  <2>1. f[<<x, y>>] = -1
    BY <2>0 DEF Probe
  <2>2. x .. y = {}
    BY ONLY x \in Nat, y \in -1 .. n - 1, n \in Nat, <2>0
  <2> QED
    BY <2>1, <2>2
<1>4. ASSUME NEW k \in S, k < n
      PROVE  k + 1 \in S
  <2>n. k \in 0 .. n
    BY Zenon
  <2>m. k + 1 \in 0 .. n
    BY <1>4, <2>n
  <2> SUFFICES ASSUME NEW x \in 0 .. n, NEW y \in -1 .. n - 1, y - x < k + 1 PROVE Right(x, y)
    BY <2>m, Zenon
  <2>k. \A a \in 0 .. n, b \in -1 .. n - 1 : b - a < k => Right(a, b)
    OBVIOUS
  <2> HIDE DEF S
  <2>1. CASE x > y
    <3>1. f[<<x, y>>] = -1
      BY <1>2, <2>1 DEF Probe
    <3>2. x .. y = {}
      BY <2>1
    <3> QED
      BY <3>1, <3>2
  <2>2. CASE x <= y
    <3>1. PICK m \in x .. y : m = (x + y) \div 2
      BY <2>2, Middle
    <3>2. /\ m - 1 \in -1 .. n - 1 /\ (m - 1) - x < k
          /\ m + 1 \in 0 .. n /\ y - (m + 1) < k
          /\ m \in 0 .. n - 1
      BY <2>n
    <3>3. f[<<x, y>>] = IF e < d[m] THEN f[<<x, m - 1>>] ELSE IF e > d[m] THEN f[<<m + 1, y>>] ELSE m
      BY <1>2, <2>2, <3>1 DEF Probe
    <3>4. CASE e < d[m]
      <4>1. Right(x, m - 1)
        BY <2>k, <3>2
      <4>2. \A i \in m .. y : d[i] # e
        BY <3>2, <3>4
      <4>3. \A i \in x .. y : i \in x .. m - 1 \/ i \in m .. y
        OBVIOUS
      <4>4. (\E i \in x .. y : d[i] = e) <=> \E i \in x .. m - 1 : d[i] = e
        BY <4>2, <4>3
      <4>5. \A i \in x .. m - 1 : i \in x .. y
        OBVIOUS
      <4> QED
        BY <3>3, <3>4, <4>1, <4>4, <4>5
    <3>5. CASE e > d[m]
      <4>1. Right(m + 1, y)
        BY <2>k, <3>2
      <4>2. \A i \in x .. m : d[i] # e
        BY <3>2, <3>5
      <4>3. \A i \in x .. y : i \in x .. m \/ i \in m + 1 .. y
        OBVIOUS
      <4>4. (\E i \in x .. y : d[i] = e) <=> \E i \in m + 1 .. y : d[i] = e
        BY <4>2, <4>3
      <4>5. \A i \in m + 1 .. y : i \in x .. y
        OBVIOUS
      <4>6. ~(e < d[m])
        BY <3>2, <3>5
      <4> QED
        BY <3>3, <3>5, <4>1, <4>4, <4>5, <4>6
    <3>6. CASE e = d[m]
      <4>1. f[<<x, y>>] = m /\ m \in x .. y
        BY <3>2, <3>3, <3>6
      <4> QED
        BY <3>6, <4>1
    <3> QED
      BY <3>2, <3>4, <3>5, <3>6
  <2> QED
    BY <2>1, <2>2
<1>5. n \in S
  <2> HIDE DEF S
  <2>1. S \in SUBSET (0 .. n)
    BY DEF S
  <2> QED
    BY <1>3, <1>4, <2>1, Ladder
<1>6. Right(0, n - 1)
  <2>1. 0 \in 0 .. n /\ n - 1 \in -1 .. n - 1 /\ (n - 1) - 0 < n
    OBVIOUS
  <2> HIDE DEF Right
  <2> QED
    BY <1>5, <2>1
<1> QED
  BY <1>1, <1>6

\* ordered_vector_find finds an item when there is one.
LEMMA OrderedFindGives ==
  ASSUME ArraySound(ordered), Sorted(ordered), NEW e \in Item, ordered_vector_find(e)
  PROVE  IF \E i \in 1 .. Len(ArrayItems(ordered)) : ArrayItems(ordered)[i] = e
           THEN /\ call'.returned + 1 \in 1 .. Len(ArrayItems(ordered))
                /\ ArrayItems(ordered)[call'.returned + 1] = e
           ELSE call'.returned = -1
<1>1. PICK k \in Nat : k = ordered.count
  BY DEF ArraySound
<1>2. PICK a : a = ArrayItems(ordered)
  OBVIOUS
<1>3. Len(a) = k /\ \A i \in 1 .. k : a[i] = ordered.data[i - 1]
  BY <1>1, <1>2, ArrayListing, AsSequence
<1>4. PICK d : d = ordered.data
  OBVIOUS
<1>5. PICK x : x = Search(d, k, e)[<<0, k - 1>>]
  OBVIOUS
<1>6. call'.returned = x
  <2>1. FoundAt(e) = Search(ordered.data, ordered.count, e)[<<0, ordered.count - 1>>]
    BY DEF FoundAt, Search, Probe, Windows
  <2>2. call'.returned = FoundAt(e)
    BY DEF ordered_vector_find, Called
  <2> QED
    BY ONLY <1>1, <1>4, <1>5, <2>1, <2>2
<1>7. IF \E i \in 0 .. k - 1 : d[i] = e THEN x \in 0 .. k - 1 /\ d[x] = e ELSE x = -1
  <2>1. /\ e \in Nat /\ \A i \in 0 .. k - 1 : d[i] \in Nat
        /\ \A i, j \in 0 .. k - 1 : i <= j => d[i] <= d[j]
    BY <1>1, <1>4, ContainersAssumption DEF ArraySound, Sorted
  <2> QED
    BY ONLY <1>5, <2>1, k \in Nat, SearchFinds
<1>8. (\E i \in 0 .. k - 1 : d[i] = e) <=> \E i \in 1 .. k : a[i] = e
  <2>1. ASSUME NEW i \in 0 .. k - 1, d[i] = e PROVE \E j \in 1 .. k : a[j] = e
    <3>1. i + 1 \in 1 .. k /\ (i + 1) - 1 = i
      OBVIOUS
    <3>2. a[i + 1] = e
      BY <1>3, <1>4, <2>1, <3>1
    <3> QED
      BY <3>1, <3>2
  <2>2. ASSUME NEW i \in 1 .. k, a[i] = e PROVE \E j \in 0 .. k - 1 : d[j] = e
    <3>1. i - 1 \in 0 .. k - 1 /\ d[i - 1] = e
      BY <1>3, <1>4, <2>2
    <3> QED
      BY <3>1
  <2> QED
    BY <2>1, <2>2
<1>9. x \in 0 .. k - 1 /\ d[x] = e => x + 1 \in 1 .. k /\ a[x + 1] = e
  <2> SUFFICES ASSUME x \in 0 .. k - 1, d[x] = e PROVE x + 1 \in 1 .. k /\ a[x + 1] = e
    OBVIOUS
  <2>1. x + 1 \in 1 .. k /\ (x + 1) - 1 = x
    OBVIOUS
  <2> QED
    BY <1>3, <1>4, <2>1
<1> QED
  BY <1>2, <1>3, <1>6, <1>7, <1>8, <1>9

-----------------------------------------------------------------------------
(* The ring of queue_mpmc.h *)

\* The indices are slots.
RingSound(m) == m \in [buffer : [RingSlot -> Datum], head_index : RingSlot, tail_index : RingSlot]

\* The slot k further than p, and the slots from h on up to t.
Ahead(p, k) == IF p + k < Slots THEN p + k ELSE p + k - Slots
Gap(h, t) == IF t >= h THEN t - h ELSE t + Slots - h
RingOf(b, h, t) == [i \in 1 .. Gap(h, t) |-> b[Ahead(h, i - 1)]]

\* The indices of the ring, without remainders.
LEMMA RemainderIs ==
  ASSUME NEW n \in Nat \ {0}, NEW a \in 0 .. n - 1
  PROVE  a % n = a /\ (a + n) % n = a
<1>1. a % n = a
  OBVIOUS
<1>2. (a + n) % n = a
  OBVIOUS
<1> QED
  BY <1>1, <1>2

LEMMA AheadIs ==
  ASSUME NEW p \in RingSlot, NEW k \in 0 .. Slots
  PROVE  (p + k) % Slots = Ahead(p, k) /\ Ahead(p, k) \in RingSlot
<1>1. Slots \in Nat \ {0}
  BY ContainersAssumption
<1>2. CASE p + k < Slots
  BY <1>1, <1>2, RemainderIs DEF Ahead, RingSlot
<1>3. CASE ~(p + k < Slots)
  <2>1. PICK a \in 0 .. Slots - 1 : a = p + k - Slots /\ p + k = a + Slots
    BY <1>1, <1>3 DEF RingSlot
  <2> QED
    BY <1>1, <1>3, <2>1, RemainderIs DEF Ahead, RingSlot
<1> QED
  BY <1>2, <1>3

LEMMA GapIs ==
  ASSUME NEW h \in RingSlot, NEW t \in RingSlot
  PROVE  /\ (t + Slots - h) % Slots = Gap(h, t) /\ Gap(h, t) \in 0 .. Slots - 1
         /\ Ahead(h, Gap(h, t)) = t /\ (Gap(h, t) = 0 <=> h = t)
<1>1. Slots \in Nat \ {0}
  BY ContainersAssumption
<1>2. CASE t >= h
  <2>1. PICK a \in 0 .. Slots - 1 : a = t - h /\ t + Slots - h = a + Slots
    BY <1>1, <1>2 DEF RingSlot
  <2>2. (a + Slots) % Slots = a
    BY <1>1, RemainderIs
  <2> QED
    BY <1>1, <1>2, <2>1, <2>2 DEF Gap, Ahead, RingSlot
<1>3. CASE ~(t >= h)
  <2>1. PICK a \in 0 .. Slots - 1 : a = t + Slots - h
    BY <1>1, <1>3 DEF RingSlot
  <2>2. a % Slots = a
    BY <1>1, RemainderIs
  <2> QED
    BY <1>1, <1>3, <2>1, <2>2 DEF Gap, Ahead, RingSlot
<1> QED
  BY <1>2, <1>3

\* The items of the ring, without remainders.
LEMMA RingForm ==
  ASSUME NEW b, NEW h \in RingSlot, NEW t \in RingSlot
  PROVE  [i \in 1 .. (t + Slots - h) % Slots |-> b[(h + i - 1) % Slots]] = RingOf(b, h, t)
<1>1. PICK k \in 0 .. Slots - 1 : k = Gap(h, t) /\ (t + Slots - h) % Slots = k
  BY GapIs
<1>2. ASSUME NEW i \in 1 .. k
      PROVE  (h + i - 1) % Slots = Ahead(h, i - 1)
  <2>1. i - 1 \in 0 .. Slots /\ h + (i - 1) = h + i - 1
    BY ContainersAssumption DEF RingSlot
  <2> QED
    BY <2>1, AheadIs
<1> QED
  BY <1>1, <1>2 DEF RingOf

LEMMA RingParts ==
  ASSUME NEW m, RingSound(m)
  PROVE  \E b, h, t :
           /\ b \in [RingSlot -> Datum] /\ h \in RingSlot /\ t \in RingSlot
           /\ m = [buffer |-> b, head_index |-> h, tail_index |-> t]
           /\ m.buffer = b /\ m.head_index = h /\ m.tail_index = t
BY DEF RingSound

LEMMA RingNow ==
  ASSUME NEW b \in [RingSlot -> Datum], NEW h \in RingSlot, NEW t \in RingSlot,
         mpmc = [buffer |-> b, head_index |-> h, tail_index |-> t]
  PROVE  RingSound(mpmc) /\ RingItems = RingOf(b, h, t)
<1>1. mpmc.buffer = b /\ mpmc.head_index = h /\ mpmc.tail_index = t
  OBVIOUS
<1> QED
  <2>1. RingItems = [i \in 1 .. (t + Slots - h) % Slots |-> b[(h + i - 1) % Slots]]
    BY <1>1, Zenon DEF RingItems
  <2> QED
    BY <2>1, RingForm DEF RingSound

LEMMA RingThen ==
  ASSUME NEW b \in [RingSlot -> Datum], NEW h \in RingSlot, NEW t \in RingSlot,
         mpmc' = [buffer |-> b, head_index |-> h, tail_index |-> t]
  PROVE  RingSound(mpmc') /\ RingItems' = RingOf(b, h, t)
<1>1. mpmc'.buffer = b /\ mpmc'.head_index = h /\ mpmc'.tail_index = t
  OBVIOUS
<1>2. RingItems' = [i \in 1 .. (t + Slots - h) % Slots |-> b[(h + i - 1) % Slots]]
  BY <1>1 DEF RingItems
<1> QED
  BY <1>2, RingForm DEF RingSound

\* They are a sequence.
LEMMA RingListing ==
  ASSUME NEW b, NEW h \in RingSlot, NEW t \in RingSlot
  PROVE  Listing(RingOf(b, h, t), Gap(h, t))
<1>1. PICK k \in Nat : k = Gap(h, t)
  BY GapIs
<1> QED
  BY <1>1 DEF RingOf, Listing

\* queue_mpmc_insert appends,
LEMMA RingInsertLeaves ==
  ASSUME RingSound(mpmc), NEW e \in Item,
         SlotAfter(mpmc.tail_index) # mpmc.head_index,
         mpmc' = [mpmc EXCEPT !.buffer[mpmc.tail_index] = e, !.tail_index = SlotAfter(@)]
  PROVE  RingSound(mpmc') /\ RingItems' = Append(RingItems, e)
<1>1. PICK b, h, t :
        /\ b \in [RingSlot -> Datum] /\ h \in RingSlot /\ t \in RingSlot
        /\ mpmc = [buffer |-> b, head_index |-> h, tail_index |-> t]
        /\ mpmc.buffer = b /\ mpmc.head_index = h /\ mpmc.tail_index = t
  BY RingParts
<1>2. Slots \in Nat \ {0}
  BY ContainersAssumption
<1>3. PICK u \in RingSlot : u = SlotAfter(t) /\ u = Ahead(t, 1) /\ u # h
  <2>1. 1 \in 0 .. Slots
    BY <1>2
  <2> QED
    BY <1>1, <2>1, AheadIs DEF SlotAfter
<1>4. PICK c : c = [b EXCEPT ![t] = e]
  OBVIOUS
<1>5. c \in [RingSlot -> Datum] /\ c[t] = e /\ \A i \in RingSlot : i # t => c[i] = b[i]
  BY <1>1, <1>4 DEF Datum
<1>6. mpmc' = [buffer |-> c, head_index |-> h, tail_index |-> u]
  <2>1. mpmc' = [mpmc EXCEPT !.buffer = c, !.tail_index = u]
    BY <1>1, <1>3, <1>4
  <2> QED
    BY ONLY <1>1, <2>1
<1>7. RingSound(mpmc') /\ RingItems' = RingOf(c, h, u)
  <2>1. c \in [RingSlot -> Datum] /\ h \in RingSlot
    BY <1>1, <1>5
  <2> QED
    BY ONLY <1>6, <2>1, u \in RingSlot, RingThen
<1>8. RingItems = RingOf(b, h, t)
  BY <1>1, RingNow
<1>9. PICK k \in 0 .. Slots - 1 : k = Gap(h, t) /\ Ahead(h, k) = t
  BY <1>1, GapIs
<1>r. h \in Nat /\ h < Slots /\ t \in Nat /\ t < Slots /\ u \in Nat /\ u < Slots
  BY <1>1, <1>2 DEF RingSlot
<1>10. Gap(h, u) = k + 1
  <2>1. u = IF t + 1 < Slots THEN t + 1 ELSE 0
    BY <1>2, <1>3, <1>r DEF Ahead
  <2>2. k = IF t >= h THEN t - h ELSE t + Slots - h
    BY <1>9 DEF Gap
  <2>3. Gap(h, u) = IF u >= h THEN u - h ELSE u + Slots - h
    BY DEF Gap
  <2> QED
    BY ONLY <1>2, <1>3, <1>r, <2>1, <2>2, <2>3
<1>11. Append(RingOf(b, h, t), e) = With(RingOf(b, h, t), k, e)
  BY <1>1, <1>9, RingListing, AppendGives
<1>12. PICK a : a = RingOf(b, h, t)
  OBVIOUS
<1>13. ASSUME NEW i \in 1 .. k + 1
       PROVE  c[Ahead(h, i - 1)] = IF i = k + 1 THEN e ELSE a[i]
  <2>1. CASE i = k + 1
    BY <1>5, <1>9, <2>1
  <2>2. CASE i # k + 1
    <3>1. i \in 1 .. k /\ i - 1 \in 0 .. Slots
      BY <1>2, <2>2
    <3>2. a[i] = b[Ahead(h, i - 1)]
      BY <1>9, <1>12, <3>1 DEF RingOf
    <3>3. Ahead(h, i - 1) \in RingSlot
      BY <1>1, <3>1, AheadIs
    <3>4. Ahead(h, i - 1) # t
      BY <1>1, <1>2, <1>9, <3>1 DEF Ahead, RingSlot
    <3>5. c[Ahead(h, i - 1)] = b[Ahead(h, i - 1)]
      BY <1>5, <3>3, <3>4
    <3> QED
      BY ONLY <2>2, <3>2, <3>5
  <2> QED
    BY <2>1, <2>2
<1>14. RingOf(c, h, u) = [i \in 1 .. k + 1 |-> c[Ahead(h, i - 1)]]
  BY <1>10 DEF RingOf
<1>15. RingOf(c, h, u) = With(a, k, e)
  BY ONLY <1>13, <1>14 DEF With
<1> QED
  BY <1>7, <1>8, <1>11, <1>12, <1>15

\* queue_mpmc_remove takes the first item off,
LEMMA RingRemoveLeaves ==
  ASSUME RingSound(mpmc), queue_mpmc_remove
  PROVE  RingSound(mpmc') /\ RingItems # <<>> /\ RingItems' = Tail(RingItems)
<1>1. PICK b, h, t :
        /\ b \in [RingSlot -> Datum] /\ h \in RingSlot /\ t \in RingSlot
        /\ mpmc = [buffer |-> b, head_index |-> h, tail_index |-> t]
        /\ mpmc.buffer = b /\ mpmc.head_index = h /\ mpmc.tail_index = t
  BY RingParts
<1>2. Slots \in Nat \ {0}
  BY ContainersAssumption
<1>3. PICK u \in RingSlot : u = SlotAfter(h) /\ u = Ahead(h, 1)
  <2>1. 1 \in 0 .. Slots
    BY <1>2
  <2> QED
    BY <1>1, <2>1, AheadIs DEF SlotAfter
<1>4. h # t /\ mpmc' = [buffer |-> b, head_index |-> u, tail_index |-> t]
  <2>1. mpmc' = [mpmc EXCEPT !.head_index = u] /\ h # t
    BY <1>1, <1>3 DEF queue_mpmc_remove
  <2> QED
    BY ONLY <1>1, <2>1
<1>5. RingSound(mpmc') /\ RingItems' = RingOf(b, u, t)
  BY <1>1, <1>3, <1>4, RingThen
<1>6. PICK a : a = RingOf(b, h, t) /\ a = RingItems
  BY <1>1, RingNow
<1>7. PICK k \in 1 .. Slots - 1 : k = Gap(h, t)
  BY <1>1, <1>4, GapIs
<1>r. h \in Nat /\ h < Slots /\ t \in Nat /\ t < Slots /\ u \in Nat /\ u < Slots
  BY <1>1, <1>2 DEF RingSlot
<1>8. Gap(u, t) = k - 1
  <2>1. u = IF h + 1 < Slots THEN h + 1 ELSE 0
    BY <1>2, <1>3, <1>r DEF Ahead
  <2>2. k = IF t >= h THEN t - h ELSE t + Slots - h
    BY <1>7 DEF Gap
  <2>3. Gap(u, t) = IF t >= u THEN t - u ELSE t + Slots - u
    BY DEF Gap
  <2> QED
    <3>1. h # t
      BY <1>4
    <3>2. CASE h + 1 < Slots
      BY ONLY <1>2, <1>r, <2>1, <2>2, <2>3, <3>1, <3>2
    <3>3. CASE ~(h + 1 < Slots)
      BY ONLY <1>2, <1>r, <2>1, <2>2, <2>3, <3>1, <3>3
    <3> QED
      BY <3>2, <3>3
<1>9. Listing(a, k) /\ k # 0
  <2>1. h \in RingSlot /\ t \in RingSlot /\ a = RingOf(b, h, t)
    BY <1>1, <1>6
  <2>2. Listing(a, k)
    BY ONLY <1>7, <2>1, RingListing
  <2> QED
    BY <2>2
<1>10. a # <<>> /\ Tail(a) = Behind(a, k)
  BY <1>9, TailGives, HeadGives
<1>11. ASSUME NEW i \in 1 .. k - 1
       PROVE  b[Ahead(u, i - 1)] = a[i + 1]
  <2>1. i + 1 \in 1 .. k
    OBVIOUS
  <2>2. a[i + 1] = b[Ahead(h, (i + 1) - 1)]
    BY <1>6, <1>7, <2>1 DEF RingOf
  <2>3. Ahead(u, i - 1) = Ahead(h, (i + 1) - 1)
    BY <1>1, <1>2, <1>3 DEF Ahead, RingSlot
  <2> QED
    BY <2>2, <2>3
<1>12. RingOf(b, u, t) = [i \in 1 .. k - 1 |-> b[Ahead(u, i - 1)]]
  BY <1>8 DEF RingOf
<1>13. RingOf(b, u, t) = Behind(a, k)
  BY ONLY <1>11, <1>12 DEF Behind
<1> QED
  BY <1>5, <1>6, <1>10, <1>13

\* queue_mpmc_peek gives the first item,
LEMMA RingPeekGives ==
  ASSUME RingSound(mpmc), queue_mpmc_peek
  PROVE  RingItems # <<>> /\ call'.returned = Head(RingItems)
<1>1. PICK b, h, t :
        /\ b \in [RingSlot -> Datum] /\ h \in RingSlot /\ t \in RingSlot
        /\ mpmc = [buffer |-> b, head_index |-> h, tail_index |-> t]
        /\ mpmc.buffer = b /\ mpmc.head_index = h /\ mpmc.tail_index = t
  BY RingParts
<1>2. h # t /\ call'.returned = b[h]
  BY <1>1 DEF queue_mpmc_peek, Called
<1>3. PICK a : a = RingOf(b, h, t) /\ a = RingItems
  BY <1>1, RingNow
<1>4. PICK k \in 1 .. Slots - 1 : k = Gap(h, t)
  <2>1. Gap(h, t) \in 0 .. Slots - 1 /\ Gap(h, t) # 0
    BY <1>1, <1>2, GapIs
  <2> QED
    BY <2>1, ContainersAssumption
<1>5. Listing(a, k) /\ k # 0
  <2>1. h \in RingSlot /\ t \in RingSlot /\ a = RingOf(b, h, t)
    BY <1>1, <1>3
  <2>2. Listing(a, k)
    BY ONLY <1>4, <2>1, RingListing
  <2> QED
    BY <2>2
<1>6. a # <<>> /\ Head(a) = a[1]
  BY <1>5, HeadGives
<1>7. a[1] = b[h]
  <2>1. 1 \in 1 .. k /\ 1 - 1 = 0
    OBVIOUS
  <2>2. Ahead(h, 0) = h
    BY <1>1, ContainersAssumption DEF Ahead, RingSlot
  <2>3. a[1] = b[Ahead(h, 1 - 1)]
    BY <1>3, <1>4, <2>1 DEF RingOf
  <2> QED
    BY ONLY <2>1, <2>2, <2>3
<1> QED
  BY <1>2, <1>3, <1>6, <1>7

\* and queue_mpmc_clear leaves nothing.
LEMMA RingClearLeaves ==
  ASSUME RingSound(mpmc), NEW reader_caller \in BOOLEAN, queue_mpmc_clear(reader_caller)
  PROVE  RingSound(mpmc') /\ RingItems' = <<>>
<1>1. PICK b, h, t :
        /\ b \in [RingSlot -> Datum] /\ h \in RingSlot /\ t \in RingSlot
        /\ mpmc = [buffer |-> b, head_index |-> h, tail_index |-> t]
        /\ mpmc.buffer = b /\ mpmc.head_index = h /\ mpmc.tail_index = t
  BY RingParts
<1>2. PICK x \in RingSlot : mpmc' = [buffer |-> b, head_index |-> x, tail_index |-> x]
  <2>1. mpmc' = [mpmc EXCEPT !.head_index = t] \/ mpmc' = [mpmc EXCEPT !.tail_index = h]
    BY <1>1 DEF queue_mpmc_clear
  <2> QED
    BY ONLY <1>1, <2>1
<1>3. RingSound(mpmc') /\ RingItems' = RingOf(b, x, x)
  BY <1>1, <1>2, RingThen
<1>4. Gap(x, x) = 0
  BY GapIs
<1> QED
  BY <1>3, <1>4 DEF RingOf

-----------------------------------------------------------------------------
(* What the calls leave *)

\* The inductive invariant.
ContainersInv ==
  /\ ListsLinked /\ ArraySound(vector) /\ ArraySound(ordered) /\ Sorted(ordered) /\ RingSound(mpmc)

Containers == List \cup {"vector", "ordered", "mpmc"}

\* What each container holds, before and after a step.
LEMMA ContentsAre ==
  /\ Contents = [c \in Containers |-> Contents[c]]
  /\ \A l \in List : l \in Containers /\ l \notin {"vector", "ordered", "mpmc"} /\ Contents[l] = ListItems(l)
  /\ "vector" \in Containers /\ Contents["vector"] = ArrayItems(vector)
  /\ "ordered" \in Containers /\ Contents["ordered"] = ArrayItems(ordered)
  /\ "mpmc" \in Containers /\ Contents["mpmc"] = RingItems
<1>1. \A l \in List : l \notin {"vector", "ordered", "mpmc"}
  BY ContainersAssumption
<1>2. Contents = [c \in Containers |->
                    IF c \in List THEN ListItems(c)
                    ELSE IF c = "mpmc" THEN RingItems
                    ELSE ArrayItems(IF c = "vector" THEN vector ELSE ordered)]
  BY DEF Contents, Containers
<1>3. "vector" \in Containers /\ "ordered" \in Containers /\ "mpmc" \in Containers
      /\ List \subseteq Containers
  BY DEF Containers
<1> QED
  BY <1>1, <1>2, <1>3

LEMMA ContentsWillBe ==
  /\ Contents' = [c \in Containers |-> Contents'[c]]
  /\ \A l \in List : Contents'[l] = ListItems(l)'
  /\ Contents'["vector"] = ArrayItems(vector')
  /\ Contents'["ordered"] = ArrayItems(ordered')
  /\ Contents'["mpmc"] = RingItems'
<1>1. \A l \in List : l \notin {"vector", "ordered", "mpmc"}
  BY ContainersAssumption
<1>2. Contents' = [c \in Containers |->
                    IF c \in List THEN ListItems(c)'
                    ELSE IF c = "mpmc" THEN RingItems'
                    ELSE ArrayItems(IF c = "vector" THEN vector' ELSE ordered')]
  BY DEF Contents, Containers, ArrayItems
<1>3. "vector" \in Containers /\ "ordered" \in Containers /\ "mpmc" \in Containers
      /\ List \subseteq Containers
  BY DEF Containers
<1> QED
  BY <1>1, <1>2, <1>3

\* A step that leaves the memory of the lists alone leaves their items alone.
LEMMA ListsKept ==
  ASSUME UNCHANGED listVars
  PROVE  /\ ListsLinked => ListsLinked'
         /\ \A l \in List : ListItems(l)' = ListItems(l)
<1>1. cell' = cell /\ list' = list /\ loose' = loose
  BY DEF listVars
<1>2. \A l : Chain(l)' = Chain(l)
  BY <1>1, ChainsNow, ChainsThen
<1>3. \A l \in List : ListItems(l)' = ListItems(l)
  BY <1>1, <1>2 DEF ListItems
<1>4. ListsLinked' <=> Linked(cell', list', loose', [l \in List |-> Chain(l)'])
  BY DEF ListsLinked
<1>5. [l \in List |-> Chain(l)'] = [l \in List |-> Chain(l)]
  BY <1>2
<1> QED
  BY <1>1, <1>3, <1>4, <1>5 DEF ListsLinked

LEMMA RingKept ==
  mpmc' = mpmc => RingItems' = RingItems
BY DEF RingItems

\* Container c holds u from now on, the others what they held.
Only(c, u) == Contents' = [Contents EXCEPT ![c] = u]

\* A step that changes one container.
LEMMA OnlyIs ==
  ASSUME NEW c \in Containers, NEW u, Contents'[c] = u,
         \A b \in Containers \ {c} : Contents'[b] = Contents[b]
  PROVE  Only(c, u)
<1>1. Contents = [b \in Containers |-> Contents[b]] /\ Contents' = [b \in Containers |-> Contents'[b]]
  BY ContentsAre, ContentsWillBe
<1>2. PICK f : f = Contents
  OBVIOUS
<1>3. PICK g : g = Contents'
  OBVIOUS
<1>4. g = [f EXCEPT ![c] = u]
  BY ONLY <1>1, <1>2, <1>3, Contents'[c] = u, c \in Containers,
          \A b \in Containers \ {c} : Contents'[b] = Contents[b]
<1> QED
  BY <1>2, <1>3, <1>4 DEF Only

\* The calls on each kind of container change that one.
LEMMA ListChanges ==
  ASSUME NEW l \in List, NEW u, Leaving(l, u), ArraysUnchanged
  PROVE  Only(l, u)
<1>1. vector' = vector /\ ordered' = ordered /\ mpmc' = mpmc
  BY DEF ArraysUnchanged
<1>2. Contents'[l] = u /\ l \in Containers
  BY ContentsAre, ContentsWillBe DEF Leaving
<1>3. ASSUME NEW b \in Containers \ {l}
      PROVE  Contents'[b] = Contents[b]
  <2>1. CASE b \in List
    BY <2>1, ContentsAre, ContentsWillBe DEF Leaving
  <2>2. CASE b = "vector"
    BY <1>1, <2>2, ContentsAre, ContentsWillBe
  <2>3. CASE b = "ordered"
    BY <1>1, <2>3, ContentsAre, ContentsWillBe
  <2>4. CASE b = "mpmc"
    BY <1>1, <2>4, ContentsAre, ContentsWillBe, RingKept
  <2> QED
    BY <2>1, <2>2, <2>3, <2>4 DEF Containers
<1> QED
  BY <1>2, <1>3, OnlyIs

LEMMA VectorChanges ==
  ASSUME UNCHANGED <<listVars, ordered, mpmc>>
  PROVE  Only("vector", ArrayItems(vector'))
<1>1. ordered' = ordered /\ mpmc' = mpmc /\ \A l \in List : ListItems(l)' = ListItems(l)
  BY ListsKept
<1>2. Contents'["vector"] = ArrayItems(vector') /\ "vector" \in Containers
  BY ContentsAre, ContentsWillBe
<1>3. ASSUME NEW b \in Containers \ {"vector"}
      PROVE  Contents'[b] = Contents[b]
  BY <1>1, ContentsAre, ContentsWillBe, RingKept DEF Containers
<1> QED
  BY <1>2, <1>3, OnlyIs

LEMMA OrderedChanges ==
  ASSUME UNCHANGED <<listVars, vector, mpmc>>
  PROVE  Only("ordered", ArrayItems(ordered'))
<1>1. vector' = vector /\ mpmc' = mpmc /\ \A l \in List : ListItems(l)' = ListItems(l)
  BY ListsKept
<1>2. Contents'["ordered"] = ArrayItems(ordered') /\ "ordered" \in Containers
  BY ContentsAre, ContentsWillBe
<1>3. ASSUME NEW b \in Containers \ {"ordered"}
      PROVE  Contents'[b] = Contents[b]
  BY <1>1, ContentsAre, ContentsWillBe, RingKept DEF Containers
<1> QED
  BY <1>2, <1>3, OnlyIs

LEMMA RingChanges ==
  ASSUME UNCHANGED <<listVars, vector, ordered>>
  PROVE  Only("mpmc", RingItems')
<1>1. vector' = vector /\ ordered' = ordered /\ \A l \in List : ListItems(l)' = ListItems(l)
  BY ListsKept
<1>2. Contents'["mpmc"] = RingItems' /\ "mpmc" \in Containers
  BY ContentsAre, ContentsWillBe
<1>3. ASSUME NEW b \in Containers \ {"mpmc"}
      PROVE  Contents'[b] = Contents[b]
  BY <1>1, ContentsAre, ContentsWillBe DEF Containers
<1> QED
  BY <1>2, <1>3, OnlyIs

LEMMA NothingChanges ==
  ASSUME UNCHANGED <<listVars, vector, ordered, mpmc>>
  PROVE  Contents' = Contents /\ (ContainersInv => ContainersInv')
<1>1. /\ vector' = vector /\ ordered' = ordered /\ mpmc' = mpmc
      /\ \A l \in List : ListItems(l)' = ListItems(l)
      /\ ListsLinked => ListsLinked'
  BY ListsKept
<1>2. \A b \in Containers : Contents'[b] = Contents[b]
  BY <1>1, ContentsAre, ContentsWillBe, RingKept DEF Containers
<1>3. Contents' = Contents
  <2>1. Contents = [b \in Containers |-> Contents[b]] /\ Contents' = [b \in Containers |-> Contents'[b]]
    BY ContentsAre, ContentsWillBe
  <2> QED
    BY ONLY <1>2, <2>1
<1> QED
  BY <1>1, <1>3 DEF ContainersInv, ArraySound, Sorted, RingSound

LEMMA SameAgain ==
  ASSUME UNCHANGED <<listVars, vector, ordered, mpmc>>, NEW c \in Containers
  PROVE  Only(c, Contents[c])
<1>1. Contents' = Contents
  BY NothingChanges
<1>2. \A b \in Containers : Contents'[b] = Contents[b]
  BY <1>1
<1>3. PICK u : u = Contents[c]
  OBVIOUS
<1>4. Only(c, u)
  BY <1>2, <1>3, OnlyIs
<1> QED
  BY <1>3, <1>4

\* What the call k makes of the items s of its container.
Makes(k, s, u) ==
  \/ k.op = "prepend" /\ u = <<k.item>> \o s
  \/ k.op = "append" /\ u = Append(s, k.item)
  \/ k.op = "refuse" /\ u = s
  \/ k.op = "drop" /\ s # <<>> /\ u = Tail(s)
  \/ k.op = "take" /\ \E i \in 1 .. Len(s) : s[i] = k.item /\ u = Promise!RemoveAt(s, i)
  \/ k.op = "rotate" /\ s # <<>> /\ u = Append(Tail(s), Head(s))
  \/ k.op = "clear" /\ u = <<>>
  \/ k.op = "enter" /\ \E i \in 0 .. Len(s) :
       (\A j \in 1 .. Len(s) : j <= i <=> s[j] <= k.item) /\ u = Promise!InsertAt(s, i + 1, k.item)
  \/ k.op = "erase" /\ u = Promise!RemoveAt(s, k.item + 1)
  \/ k.op = "replace" /\ u = [s EXCEPT ![k.item + 1] = k.returned]
  \/ k.op = "peek" /\ s # <<>> /\ k.returned = Head(s) /\ u = s
  \/ /\ k.op = "find" /\ u = s
     /\ IF \E i \in 1 .. Len(s) : s[i] = k.item
          THEN k.returned + 1 \in 1 .. Len(s) /\ s[k.returned + 1] = k.item
          ELSE k.returned = -1

\* A call that makes of its container what it promises is a step of ItemSequences.
LEMMA MakesPromise ==
  ASSUME NEW u, Only(call'.on, u), Makes(call', Contents[call'.on], u)
  PROVE  Promise!SequencesNext
<1>1. PICK s : s = Contents[call'.on]
  OBVIOUS
<1>2. PICK k : k = call'
  OBVIOUS
<1>3. Promise!Leaves(u)
  BY DEF Only, Promise!Leaves
<1>4. Makes(k, s, u)
  BY <1>1, <1>2
<1>5. CASE k.op = "prepend" /\ u = <<k.item>> \o s
  BY <1>1, <1>2, <1>3, <1>5, Zenon DEF Promise!SequencesNext
<1>6. CASE k.op = "append" /\ u = Append(s, k.item)
  BY <1>1, <1>2, <1>3, <1>6, Zenon DEF Promise!SequencesNext
<1>7. CASE k.op = "refuse" /\ u = s
  BY <1>1, <1>2, <1>3, <1>7, Zenon DEF Promise!SequencesNext
<1>8. CASE k.op = "drop" /\ s # <<>> /\ u = Tail(s)
  BY <1>1, <1>2, <1>3, <1>8, Zenon DEF Promise!SequencesNext
<1>9. CASE k.op = "take" /\ \E i \in 1 .. Len(s) : s[i] = k.item /\ u = Promise!RemoveAt(s, i)
  BY <1>1, <1>2, <1>3, <1>9, Zenon DEF Promise!SequencesNext
<1>10. CASE k.op = "rotate" /\ s # <<>> /\ u = Append(Tail(s), Head(s))
  BY <1>1, <1>2, <1>3, <1>10, Zenon DEF Promise!SequencesNext
<1>11. CASE k.op = "clear" /\ u = <<>>
  BY <1>1, <1>2, <1>3, <1>11, Zenon DEF Promise!SequencesNext
<1>12. CASE k.op = "enter" /\ \E i \in 0 .. Len(s) :
              (\A j \in 1 .. Len(s) : j <= i <=> s[j] <= k.item) /\ u = Promise!InsertAt(s, i + 1, k.item)
  BY <1>1, <1>2, <1>3, <1>12, Zenon DEF Promise!SequencesNext
<1>13. CASE k.op = "erase" /\ u = Promise!RemoveAt(s, k.item + 1)
  BY <1>1, <1>2, <1>3, <1>13, Zenon DEF Promise!SequencesNext
<1>14. CASE k.op = "replace" /\ u = [s EXCEPT ![k.item + 1] = k.returned]
  BY <1>1, <1>2, <1>3, <1>14, Zenon DEF Promise!SequencesNext
<1>15. CASE k.op = "peek" /\ s # <<>> /\ k.returned = Head(s) /\ u = s
  BY <1>1, <1>2, <1>3, <1>15, Zenon DEF Promise!SequencesNext
<1>16. CASE /\ k.op = "find" /\ u = s
            /\ IF \E i \in 1 .. Len(s) : s[i] = k.item
                 THEN k.returned + 1 \in 1 .. Len(s) /\ s[k.returned + 1] = k.item
                 ELSE k.returned = -1
  BY <1>1, <1>2, <1>3, <1>16, Zenon DEF Promise!SequencesNext
<1> QED
  BY <1>4, <1>5, <1>6, <1>7, <1>8, <1>9, <1>10, <1>11, <1>12, <1>13, <1>14, <1>15, <1>16, Zenon DEF Makes

LEMMA CallIs ==
  ASSUME NEW op, NEW on, NEW item, NEW returned, Called(op, on, item, returned)
  PROVE  call'.op = op /\ call'.on = on /\ call'.item = item /\ call'.returned = returned
BY DEF Called

LEMMA ArraysKept ==
  ArraysUnchanged /\ ContainersInv /\ ListsLinked' => ContainersInv'
BY DEF ArraysUnchanged, ContainersInv, ArraySound, Sorted, RingSound

\* The items of a list, as a sequence.
LEMMA ListListing ==
  ASSUME ListsLinked, NEW l \in List
  PROVE  /\ Listing(ListItems(l), list[l].count) /\ Len(ListItems(l)) = list[l].count
         /\ (ListItems(l) = <<>> <=> list[l].count = 0)
<1>1. cell \in Cells /\ list[l] \in Record /\ OneChain(cell, list[l], Chain(l))
      /\ ListItems(l) = ItemsOf(cell, Chain(l), list[l].count)
  BY ListFacts
<1>2. Listing(ListItems(l), list[l].count)
  BY <1>1, ItemsTyped
<1> QED
  BY <1>2, AsSequence

\* A call on a list that leaves u there.
LEMMA ListMakes ==
  ASSUME ContainersInv, NEW l \in List, NEW u, Leaving(l, u), ArraysUnchanged,
         call'.on = l, Makes(call', ListItems(l), u)
  PROVE  ContainersInv' /\ Promise!SequencesNext
<1>1. ContainersInv'
  BY ArraysKept DEF Leaving
<1>2. Only(call'.on, u)
  BY ListChanges
<1>3. Contents[call'.on] = ListItems(l)
  BY ContentsAre
<1> QED
  BY <1>1, <1>2, <1>3, MakesPromise

\* Every call keeps the invariant and is a step of ItemSequences:
\* those of the lists and queues,
LEMMA ListStepPromised ==
  ASSUME ContainersInv, ListStep
  PROVE  ContainersInv' /\ Promise!SequencesNext
<1>1. ListsLinked
  BY DEF ContainersInv
<1>2. PICK l \in List :
        \/ list_insert_back_node(l) \/ list_head_to_tail(l) \/ list_clear(l)
        \/ list_remove_front(l) \/ queue_peek(l)
        \/ \E e \in Item : list_insert_back(l, e) \/ list_insert_front(l, e) \/ list_remove(l, e)
        \/ \E m \in List : list_merge_back(l, m)
  BY DEF ListStep
<1>l. /\ Listing(ListItems(l), list[l].count) /\ Len(ListItems(l)) = list[l].count
      /\ (ListItems(l) = <<>> <=> list[l].count = 0)
  BY <1>1, ListListing
<1>3. CASE list_insert_back_node(l)
  <2>1. Leaving(l, Append(ListItems(l), cell[loose].data)) /\ ArraysUnchanged
    BY <1>1, <1>3, InsertNodeLeaves DEF list_insert_back_node
  <2>2. call'.op = "append" /\ call'.on = l /\ call'.item = cell[loose].data
    BY <1>3, CallIs DEF list_insert_back_node
  <2>3. Makes(call', ListItems(l), Append(ListItems(l), cell[loose].data))
    BY <2>2, Zenon DEF Makes
  <2> QED
    BY <2>1, <2>2, <2>3, ListMakes
<1>4. CASE list_head_to_tail(l)
  <2>1. list[l].count # 0 /\ Leaving(l, Append(Tail(ListItems(l)), Head(ListItems(l)))) /\ ArraysUnchanged
    BY <1>1, <1>4, RotateLeaves DEF list_head_to_tail
  <2>2. call'.op = "rotate" /\ call'.on = l
    BY <1>4, CallIs DEF list_head_to_tail
  <2>3. Makes(call', ListItems(l), Append(Tail(ListItems(l)), Head(ListItems(l))))
    BY <1>l, <2>1, <2>2, Zenon DEF Makes
  <2> QED
    BY <2>1, <2>2, <2>3, ListMakes
<1>5. CASE list_clear(l)
  <2>1. Leaving(l, <<>>) /\ ArraysUnchanged
    BY <1>1, <1>5, ClearLeaves DEF list_clear
  <2>2. call'.op = "clear" /\ call'.on = l
    BY <1>5, CallIs DEF list_clear
  <2>3. Makes(call', ListItems(l), <<>>)
    BY <2>2, Zenon DEF Makes
  <2> QED
    BY <2>1, <2>2, <2>3, ListMakes
<1>6. CASE list_remove_front(l)
  <2>1. list[l].count # 0 /\ Leaving(l, Tail(ListItems(l))) /\ ArraysUnchanged
    BY <1>1, <1>6, RemoveFrontLeaves DEF list_remove_front
  <2>2. call'.op = "drop" /\ call'.on = l
    BY <1>6, CallIs DEF list_remove_front
  <2>3. Makes(call', ListItems(l), Tail(ListItems(l)))
    BY <1>l, <2>1, <2>2, Zenon DEF Makes
  <2> QED
    BY <2>1, <2>2, <2>3, ListMakes
<1>7. CASE queue_peek(l)
  <2>1. UNCHANGED <<listVars, vector, ordered, mpmc>> /\ list[l].count > 0
    BY <1>7 DEF queue_peek, ArraysUnchanged
  <2>2. call'.op = "peek" /\ call'.on = l /\ call'.returned = cell[list[l].head].data
    BY <1>7, CallIs DEF queue_peek
  <2>3. ListItems(l) # <<>> /\ Head(ListItems(l)) = cell[list[l].head].data
    <3>1. /\ list[l] \in Record /\ OneChain(cell, list[l], Chain(l))
          /\ ListItems(l) = ItemsOf(cell, Chain(l), list[l].count)
      BY <1>1, ListFacts
    <3>2. list[l].head = Chain(l)[1] /\ 1 \in 1 .. list[l].count
      BY <2>1, <3>1 DEF OneChain, Record
    <3>3. ListItems(l)[1] = cell[Chain(l)[1]].data
      BY <3>1, <3>2 DEF ItemsOf
    <3>4. ListItems(l) # <<>> /\ Head(ListItems(l)) = ListItems(l)[1]
      BY <1>l, <2>1, HeadGives
    <3> QED
      BY <3>2, <3>3, <3>4
  <2>4. Makes(call', ListItems(l), ListItems(l))
    BY <2>2, <2>3, Zenon DEF Makes
  <2>5. Only(call'.on, ListItems(l)) /\ Contents[call'.on] = ListItems(l)
    BY <2>1, <2>2, SameAgain, ContentsAre
  <2> QED
    BY <2>1, <2>4, <2>5, MakesPromise, NothingChanges
<1>8. ASSUME NEW e \in Item, list_insert_back(l, e)
      PROVE  ContainersInv' /\ Promise!SequencesNext
  <2>1. Leaving(l, Append(ListItems(l), e)) /\ ArraysUnchanged
    BY <1>1, <1>8, InsertBackLeaves DEF list_insert_back
  <2>2. call'.op = "append" /\ call'.on = l /\ call'.item = e
    BY <1>8, CallIs DEF list_insert_back
  <2>3. Makes(call', ListItems(l), Append(ListItems(l), e))
    BY <2>2, Zenon DEF Makes
  <2> QED
    BY <2>1, <2>2, <2>3, ListMakes
<1>9. ASSUME NEW e \in Item, list_insert_front(l, e)
      PROVE  ContainersInv' /\ Promise!SequencesNext
  <2>1. Leaving(l, <<e>> \o ListItems(l)) /\ ArraysUnchanged
    BY <1>1, <1>9, InsertFrontLeaves DEF list_insert_front
  <2>2. call'.op = "prepend" /\ call'.on = l /\ call'.item = e
    BY <1>9, CallIs DEF list_insert_front
  <2>3. Makes(call', ListItems(l), <<e>> \o ListItems(l))
    BY <2>2, Zenon DEF Makes
  <2> QED
    BY <2>1, <2>2, <2>3, ListMakes
<1>10. ASSUME NEW e \in Item, list_remove(l, e)
       PROVE  ContainersInv' /\ Promise!SequencesNext
  <2>1. PICK p \in 1 .. list[l].count :
          ListItems(l)[p] = e /\ Leaving(l, Without(ListItems(l), list[l].count, p))
    BY <1>1, <1>10, RemoveLeaves
  <2>2. call'.op = "take" /\ call'.on = l /\ call'.item = e /\ ArraysUnchanged
    BY <1>10, CallIs DEF list_remove
  <2>3. Promise!RemoveAt(ListItems(l), p) = Without(ListItems(l), list[l].count, p)
    BY <1>l, RemoveGives DEF Promise!RemoveAt
  <2>4. Makes(call', ListItems(l), Without(ListItems(l), list[l].count, p))
    BY <1>l, <2>1, <2>2, <2>3, Zenon DEF Makes
  <2> QED
    BY <2>1, <2>2, <2>4, ListMakes
<1>11. ASSUME NEW m \in List, list_merge_back(l, m)
       PROVE  ContainersInv' /\ Promise!SequencesNext
  <2>1. /\ ListsLinked' /\ l # m /\ ListItems(l)' = ListItems(l) \o ListItems(m)
        /\ ListItems(m)' = <<>>
        /\ \A x \in List \ {l, m} : ListItems(x)' = ListItems(x)
    BY <1>1, <1>11, MergeLeaves
  <2>2. call'.op = "merge" /\ call'.on = l /\ call'.item = m /\ ArraysUnchanged
    BY <1>11, CallIs DEF list_merge_back
  <2>3. vector' = vector /\ ordered' = ordered /\ mpmc' = mpmc
    BY <2>2 DEF ArraysUnchanged
  <2>4. /\ Contents'[l] = Contents[l] \o Contents[m] /\ Contents'[m] = <<>>
        /\ l \in Containers /\ m \in Containers
    BY <2>1, ContentsAre, ContentsWillBe
  <2>5. ASSUME NEW b \in Containers, b # l, b # m
        PROVE  Contents'[b] = Contents[b]
    <3>1. CASE b \in List
      BY <2>1, <2>5, <3>1, ContentsAre, ContentsWillBe
    <3>2. CASE b \in {"vector", "ordered", "mpmc"}
      BY <2>3, <3>2, ContentsAre, ContentsWillBe, RingKept
    <3> QED
      BY <3>1, <3>2 DEF Containers
  <2>6. Contents' = [Contents EXCEPT ![l] = Contents[l] \o Contents[m], ![m] = <<>>]
    <3>1. Contents = [b \in Containers |-> Contents[b]] /\ Contents' = [b \in Containers |-> Contents'[b]]
      BY ContentsAre, ContentsWillBe
    <3>2. PICK u, v : u = Contents[l] \o Contents[m] /\ v = <<>>
      OBVIOUS
    <3>3. Contents' = [Contents EXCEPT ![l] = u, ![m] = v]
      BY ONLY <2>1, <2>4, <2>5, <3>1, <3>2
    <3> QED
      BY ONLY <3>2, <3>3
  <2>7. Promise!SequencesNext
    BY <2>2, <2>6, Zenon DEF Promise!SequencesNext
  <2> QED
    BY <2>1, <2>2, <2>7, ArraysKept
<1> QED
  BY <1>2, <1>3, <1>4, <1>5, <1>6, <1>7, <1>8, <1>9, <1>10, <1>11

\* of the vector,
LEMMA VectorStepPromised ==
  ASSUME ContainersInv, VectorStep
  PROVE  ContainersInv' /\ Promise!SequencesNext
<1>1. ArraySound(vector)
  BY DEF ContainersInv
<1>2. PICK s : s = ArrayItems(vector)
  OBVIOUS
<1>3. Contents["vector"] = s /\ "vector" \in Containers
  BY <1>2, ContentsAre
<1>4. ASSUME ArraySound(vector'), UNCHANGED <<listVars, ordered, mpmc>>
      PROVE  ContainersInv' /\ Only("vector", ArrayItems(vector'))
  BY <1>4, VectorChanges, ListsKept DEF ContainersInv, ArraySound, Sorted, RingSound
<1>5. ASSUME NEW e \in Item, vector_insert_back(e)
      PROVE  ContainersInv' /\ Promise!SequencesNext
  <2>1. ArraySound(vector') /\ ArrayItems(vector') = Append(s, e)
    BY <1>1, <1>2, <1>5, VectorInsertLeaves
  <2>2. call'.op = "append" /\ call'.on = "vector" /\ call'.item = e
    BY <1>5, CallIs DEF vector_insert_back
  <2>3. ContainersInv' /\ Only(call'.on, Append(s, e))
    BY <1>4, <1>5, <2>1, <2>2 DEF vector_insert_back
  <2>4. Makes(call', s, Append(s, e))
    BY <2>2, Zenon DEF Makes
  <2> QED
    BY <1>3, <2>2, <2>3, <2>4, MakesPromise
<1>6. ASSUME NEW e \in Item, NEW i \in 0 .. MaxLength, vector_at(i, e)
      PROVE  ContainersInv' /\ Promise!SequencesNext
  <2>1. ArraySound(vector') /\ ArrayItems(vector') = [s EXCEPT ![i + 1] = e]
    BY <1>1, <1>2, <1>6, VectorAtLeaves
  <2>2. call'.op = "replace" /\ call'.on = "vector" /\ call'.item = i /\ call'.returned = e
    BY <1>6, CallIs DEF vector_at
  <2>3. ContainersInv' /\ Only(call'.on, [s EXCEPT ![i + 1] = e])
    BY <1>4, <1>6, <2>1, <2>2 DEF vector_at
  <2>4. Makes(call', s, [s EXCEPT ![i + 1] = e])
    BY <2>2, Zenon DEF Makes
  <2> QED
    BY <1>3, <2>2, <2>3, <2>4, MakesPromise
<1>7. ASSUME NEW e \in Item, vector_find_first(e)
      PROVE  ContainersInv' /\ Promise!SequencesNext
  <2>1. UNCHANGED <<listVars, vector, ordered, mpmc>>
    BY <1>7 DEF vector_find_first
  <2>2. call'.op = "find" /\ call'.on = "vector" /\ call'.item = e
    BY <1>7, CallIs DEF vector_find_first
  <2>3. Makes(call', s, s)
    <3>1. IF \E i \in 1 .. Len(s) : s[i] = e
            THEN call'.returned + 1 \in 1 .. Len(s) /\ s[call'.returned + 1] = e
            ELSE call'.returned = -1
      BY <1>1, <1>2, <1>7, VectorFindGives
    <3> QED
      BY <2>2, <3>1, Zenon DEF Makes
  <2>4. ContainersInv' /\ Only(call'.on, s)
    BY <1>3, <2>1, <2>2, NothingChanges, SameAgain
  <2> QED
    BY <1>3, <2>2, <2>3, <2>4, MakesPromise
<1> QED
  BY <1>5, <1>6, <1>7 DEF VectorStep

\* of the ordered_vector,
LEMMA OrderedStepPromised ==
  ASSUME ContainersInv, OrderedStep
  PROVE  ContainersInv' /\ Promise!SequencesNext
<1>1. ArraySound(ordered) /\ Sorted(ordered)
  BY DEF ContainersInv
<1>2. PICK s : s = ArrayItems(ordered)
  OBVIOUS
<1>3. Contents["ordered"] = s /\ "ordered" \in Containers
  BY <1>2, ContentsAre
<1>l. Listing(s, ordered.count) /\ Len(s) = ordered.count
  BY <1>1, <1>2, ArrayListing, AsSequence
<1>4. ASSUME ArraySound(ordered'), Sorted(ordered'), UNCHANGED <<listVars, vector, mpmc>>
      PROVE  ContainersInv' /\ Only("ordered", ArrayItems(ordered'))
  BY <1>4, OrderedChanges, ListsKept DEF ContainersInv, ArraySound, Sorted, RingSound
<1>5. ASSUME NEW e \in Item, ordered_vector_insert(e)
      PROVE  ContainersInv' /\ Promise!SequencesNext
  <2>1. ArraySound(ordered') /\ Sorted(ordered')
    BY <1>1, <1>5, OrderedInsertLeaves
  <2>2. PICK i \in 0 .. ordered.count :
          /\ \A j \in 1 .. ordered.count : j <= i <=> s[j] <= e
          /\ ArrayItems(ordered') = Within(s, ordered.count, i + 1, e)
    BY <1>1, <1>2, <1>5, OrderedInsertLeaves
  <2>3. call'.op = "enter" /\ call'.on = "ordered" /\ call'.item = e
    BY <1>5, CallIs DEF ordered_vector_insert
  <2>4. PICK u : u = ArrayItems(ordered')
    OBVIOUS
  <2>5. ContainersInv' /\ Only(call'.on, u)
    BY <1>4, <1>5, <2>1, <2>3, <2>4 DEF ordered_vector_insert
  <2>6. Promise!InsertAt(s, i + 1, e) = u
    <3>1. i + 1 \in 1 .. ordered.count + 1
      BY <1>1, <2>2 DEF ArraySound
    <3>2. SubSeq(s, 1, (i + 1) - 1) \o <<e>> \o SubSeq(s, i + 1, Len(s)) = Within(s, ordered.count, i + 1, e)
      BY ONLY <1>l, <3>1, InsertGives
    <3> QED
      BY <2>2, <2>4, <3>2 DEF Promise!InsertAt
  <2>7. Makes(call', s, u)
    BY <1>l, <2>2, <2>3, <2>6, Zenon DEF Makes
  <2> QED
    BY <1>3, <2>3, <2>5, <2>7, MakesPromise
<1>6. ASSUME NEW i \in 0 .. MaxLength, ordered_vector_remove(i)
      PROVE  ContainersInv' /\ Promise!SequencesNext
  <2>1. /\ ArraySound(ordered') /\ Sorted(ordered') /\ i + 1 \in 1 .. ordered.count
        /\ ArrayItems(ordered') = Without(s, ordered.count, i + 1)
    BY <1>1, <1>2, <1>6, OrderedRemoveLeaves
  <2>2. call'.op = "erase" /\ call'.on = "ordered" /\ call'.item = i
    BY <1>6, CallIs DEF ordered_vector_remove
  <2>3. PICK u : u = ArrayItems(ordered')
    OBVIOUS
  <2>4. ContainersInv' /\ Only(call'.on, u)
    BY <1>4, <1>6, <2>1, <2>2, <2>3 DEF ordered_vector_remove
  <2>5. Promise!RemoveAt(s, i + 1) = u
    BY <1>l, <2>1, <2>3, RemoveGives DEF Promise!RemoveAt
  <2>6. Makes(call', s, u)
    BY <2>2, <2>5, Zenon DEF Makes
  <2> QED
    BY <1>3, <2>2, <2>4, <2>6, MakesPromise
<1>7. ASSUME NEW e \in Item, ordered_vector_find(e)
      PROVE  ContainersInv' /\ Promise!SequencesNext
  <2>1. UNCHANGED <<listVars, vector, ordered, mpmc>>
    BY <1>7 DEF ordered_vector_find
  <2>2. call'.op = "find" /\ call'.on = "ordered" /\ call'.item = e
    BY <1>7, CallIs DEF ordered_vector_find
  <2>3. Makes(call', s, s)
    <3>1. IF \E i \in 1 .. Len(s) : s[i] = e
            THEN call'.returned + 1 \in 1 .. Len(s) /\ s[call'.returned + 1] = e
            ELSE call'.returned = -1
      BY <1>1, <1>2, <1>7, OrderedFindGives
    <3> QED
      BY <2>2, <3>1, Zenon DEF Makes
  <2>4. ContainersInv' /\ Only(call'.on, s)
    BY <1>3, <2>1, <2>2, NothingChanges, SameAgain
  <2> QED
    BY <1>3, <2>2, <2>3, <2>4, MakesPromise
<1> QED
  BY <1>5, <1>6, <1>7 DEF OrderedStep

\* and of the queue_mpmc.
LEMMA RingStepPromised ==
  ASSUME ContainersInv, RingStep
  PROVE  ContainersInv' /\ Promise!SequencesNext
<1>1. RingSound(mpmc)
  BY DEF ContainersInv
<1>2. Contents["mpmc"] = RingItems /\ "mpmc" \in Containers
  BY ContentsAre
<1>3. ASSUME RingSound(mpmc'), UNCHANGED <<listVars, vector, ordered>>
      PROVE  ContainersInv' /\ Only("mpmc", RingItems')
  BY <1>3, RingChanges, ListsKept DEF ContainersInv, ArraySound, Sorted, RingSound
<1>4. CASE queue_mpmc_remove
  <2>1. RingSound(mpmc') /\ RingItems # <<>> /\ RingItems' = Tail(RingItems)
    BY <1>1, <1>4, RingRemoveLeaves
  <2>2. call'.op = "drop" /\ call'.on = "mpmc"
    BY <1>4, CallIs DEF queue_mpmc_remove
  <2>3. ContainersInv' /\ Only(call'.on, Tail(RingItems))
    BY <1>3, <1>4, <2>1, <2>2 DEF queue_mpmc_remove
  <2>4. Makes(call', RingItems, Tail(RingItems))
    BY <2>1, <2>2, Zenon DEF Makes
  <2> QED
    BY <1>2, <2>2, <2>3, <2>4, MakesPromise
<1>5. CASE queue_mpmc_peek
  <2>1. RingItems # <<>> /\ call'.returned = Head(RingItems)
    BY <1>1, <1>5, RingPeekGives
  <2>2. call'.op = "peek" /\ call'.on = "mpmc" /\ UNCHANGED <<listVars, vector, ordered, mpmc>>
    BY <1>5, CallIs DEF queue_mpmc_peek
  <2>3. ContainersInv' /\ Only(call'.on, RingItems)
    BY <1>2, <2>2, NothingChanges, SameAgain
  <2>4. Makes(call', RingItems, RingItems)
    BY <2>1, <2>2, Zenon DEF Makes
  <2> QED
    BY <1>2, <2>2, <2>3, <2>4, MakesPromise
<1>6. ASSUME NEW e \in Item, queue_mpmc_insert(e)
      PROVE  ContainersInv' /\ Promise!SequencesNext
  <2>1. CASE /\ SlotAfter(mpmc.tail_index) # mpmc.head_index
             /\ mpmc' = [mpmc EXCEPT !.buffer[mpmc.tail_index] = e, !.tail_index = SlotAfter(@)]
             /\ Called("append", "mpmc", e, TRUE)
    <3>1. RingSound(mpmc') /\ RingItems' = Append(RingItems, e)
      BY <1>1, <2>1, RingInsertLeaves
    <3>2. call'.op = "append" /\ call'.on = "mpmc" /\ call'.item = e
      BY <2>1, CallIs
    <3>3. ContainersInv' /\ Only(call'.on, Append(RingItems, e))
      BY <1>3, <1>6, <3>1, <3>2 DEF queue_mpmc_insert
    <3>4. Makes(call', RingItems, Append(RingItems, e))
      BY <3>2, Zenon DEF Makes
    <3> QED
      BY <1>2, <3>2, <3>3, <3>4, MakesPromise
  <2>2. CASE Called("refuse", "mpmc", e, FALSE) /\ UNCHANGED mpmc
    <3>1. call'.op = "refuse" /\ call'.on = "mpmc" /\ UNCHANGED <<listVars, vector, ordered, mpmc>>
      BY <1>6, <2>2, CallIs DEF queue_mpmc_insert
    <3>2. ContainersInv' /\ Only(call'.on, RingItems)
      BY <1>2, <3>1, NothingChanges, SameAgain
    <3>3. Makes(call', RingItems, RingItems)
      BY <3>1, Zenon DEF Makes
    <3> QED
      BY <1>2, <3>1, <3>2, <3>3, MakesPromise
  <2> QED
    BY <1>6, <2>1, <2>2 DEF queue_mpmc_insert
<1>7. ASSUME NEW reader_caller \in BOOLEAN, queue_mpmc_clear(reader_caller)
      PROVE  ContainersInv' /\ Promise!SequencesNext
  <2>1. RingSound(mpmc') /\ RingItems' = <<>>
    BY <1>1, <1>7, RingClearLeaves
  <2>2. call'.op = "clear" /\ call'.on = "mpmc"
    BY <1>7, CallIs DEF queue_mpmc_clear
  <2>3. ContainersInv' /\ Only(call'.on, <<>>)
    BY <1>3, <1>7, <2>1, <2>2 DEF queue_mpmc_clear
  <2>4. Makes(call', RingItems, <<>>)
    BY <2>2, Zenon DEF Makes
  <2> QED
    BY <1>2, <2>2, <2>3, <2>4, MakesPromise
<1> QED
  BY <1>4, <1>5, <1>6, <1>7 DEF RingStep

\* All containers start sound and empty.
LEMMA ContainersStart ==
  ASSUME ContainersInit
  PROVE  ContainersInv /\ Promise!SequencesInit
<1>1. /\ cell = [n \in Node \cup {null} |-> Blank]
      /\ list = [l \in List |-> Empty] /\ loose = null
      /\ vector = [data |-> [i \in {0} |-> Nothing], count |-> 0, r_size |-> 1]
      /\ ordered = [data |-> [i \in {0} |-> Nothing], count |-> 0, r_size |-> 1]
      /\ mpmc = [buffer |-> [i \in RingSlot |-> Nothing], head_index |-> 0, tail_index |-> 0]
  BY DEF ContainersInit
<1>2. Empty \in Record /\ Empty.count = 0
  BY DEF Empty, Record, Pointer
<1>3. ListsLinked
  <2>1. cell \in Cells /\ list \in [List -> Record] /\ loose \in Pointer /\ \A l \in List : list[l] = Empty
    BY <1>1, <1>2, BlankIs DEF Cells, Pointer
  <2>2. ASSUME NEW l \in List
        PROVE  OneChain(cell, list[l], Chain(l))
    <3>1. OneChain(cell, Empty, <<>>)
      BY Cleared DEF Edited
    <3>2. Chain(l) = Following(list[l].head, cell, list[l].count)
      BY ChainsNow
    <3>3. Chain(l) = <<>>
      BY <1>2, <2>1, <3>1, <3>2, ChainIs
    <3> QED
      BY <2>1, <3>1, <3>3
  <2>3. PICK ch : ch = [l \in List |-> Chain(l)]
    OBVIOUS
  <2>4. \A l \in List : OneChain(cell, list[l], ch[l]) /\ 1 .. list[l].count = {}
    BY <1>2, <2>1, <2>2, <2>3
  <2>5. Linked(cell, list, loose, ch)
    BY <2>1, <2>4 DEF Linked
  <2> QED
    BY <2>3, <2>5 DEF ListsLinked
<1>4. ArraySound(vector) /\ ArraySound(ordered) /\ Sorted(ordered)
  <2>1. PICK d : d = [i \in {0} |-> Nothing]
    OBVIOUS
  <2>2. d \in [0 .. 1 - 1 -> Datum]
    <3>1. d = [x \in {0} |-> Nothing]
      BY <2>1
    <3>2. 0 .. 1 - 1 = {0}
      OBVIOUS
    <3> QED
      BY ONLY <3>1, <3>2, BlankIs
  <2>3. vector = [data |-> d, count |-> 0, r_size |-> 1] /\ ordered = vector
    BY <1>1, <2>1
  <2>4. ArraySound(vector) /\ vector.count = 0
    <3>1. 1 \in Nat \ {0} /\ 0 \in Nat /\ 0 <= 1 /\ \A i \in 0 .. 0 - 1 : d[i] \in Item
      OBVIOUS
    <3>2. PICK z \in Nat \ {0}, k \in Nat : z = 1 /\ k = 0
      OBVIOUS
    <3>3. /\ d \in [0 .. z - 1 -> Datum] /\ vector = [data |-> d, count |-> k, r_size |-> z]
          /\ k <= z /\ \A i \in 0 .. k - 1 : d[i] \in Item
      BY ONLY <2>2, <2>3, <3>1, <3>2
    <3>4. ArraySound(vector) /\ vector.count = k
      BY ONLY <3>3, z \in Nat \ {0}, k \in Nat, ArrayIs
    <3> QED
      BY <3>2, <3>4
  <2> QED
    BY <2>3, <2>4 DEF Sorted
<1>5. RingSound(mpmc) /\ RingItems = <<>>
  <2>1. PICK b : b = [i \in RingSlot |-> Nothing]
    OBVIOUS
  <2>2. b \in [RingSlot -> Datum] /\ 0 \in RingSlot
    BY <2>1, BlankIs, ContainersAssumption DEF RingSlot
  <2>3. mpmc = [buffer |-> b, head_index |-> 0, tail_index |-> 0]
    BY <1>1, <2>1
  <2>4. RingSound(mpmc) /\ RingItems = RingOf(b, 0, 0)
    BY ONLY <2>2, <2>3, RingNow
  <2>5. Gap(0, 0) = 0
    BY DEF Gap
  <2> QED
    BY <2>4, <2>5 DEF RingOf
<1>6. Contents = [c \in Containers |-> <<>>]
  <2>1. \A l \in List : ListItems(l) = <<>>
    BY <1>1, <1>2, <1>3, ListListing
  <2>2. ArrayItems(vector) = <<>> /\ ArrayItems(ordered) = <<>>
    BY <1>1 DEF ArrayItems
  <2>3. \A c \in Containers : Contents[c] = <<>>
    BY <1>5, <2>1, <2>2, ContentsAre DEF Containers
  <2> QED
    BY <2>3, ContentsAre
<1>7. Promise!SequencesInit
  BY <1>6 DEF Promise!SequencesInit, Containers
<1> QED
  BY <1>3, <1>4, <1>5, <1>7 DEF ContainersInv

\* Every call of list.h, queue.h, vector.h, ordered_vector.h and queue_mpmc.h does to
\* the items of its container what it promises, and nothing to those of another.
THEOREM ContainersImplementSequences == ContainersSpec => ImplementsSequences
<1>1. ContainersInit => ContainersInv /\ Promise!SequencesInit
  BY ContainersStart
<1>2. ContainersInv /\ [ContainersNext]_containerVars
        => ContainersInv' /\ [Promise!SequencesNext]_<<Contents, call>>
  <2> SUFFICES ASSUME ContainersInv, [ContainersNext]_containerVars
               PROVE  ContainersInv' /\ [Promise!SequencesNext]_<<Contents, call>>
    OBVIOUS
  <2>1. CASE ListStep
    BY <2>1, ListStepPromised
  <2>2. CASE VectorStep
    BY <2>2, VectorStepPromised
  <2>3. CASE OrderedStep
    BY <2>3, OrderedStepPromised
  <2>4. CASE RingStep
    BY <2>4, RingStepPromised
  <2>5. CASE UNCHANGED containerVars
    BY <2>5, NothingChanges DEF containerVars
  <2> QED
    BY <2>1, <2>2, <2>3, <2>4, <2>5 DEF ContainersNext
<1> QED
  BY <1>1, <1>2, PTL DEF ContainersSpec, ImplementsSequences, Promise!SequencesSpec
=============================================================================
