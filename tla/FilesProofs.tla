----------------------------- MODULE FilesProofs -----------------------------
(***************************************************************************)
(* Theorems about Files, for every number of threads, processes and files, *)
(* every size of a page, of the cache and of the tables, and every length  *)
(* of a transfer, while threads open files in any order and one of them    *)
(* at a time transfers: descriptors are counted, buffers stay apart, clean *)
(* pages are on the device and a read sees the last write.                 *)
(*                                                                         *)
(* About the disk below them.  AhciPort, for every set of clients, number  *)
(* of command slots and set of sizes: one transfer at a time, and a client *)
(* goes on only after the device has carried out its command.  DiskStart,  *)
(* for every number of implemented ports, command slots and place of the   *)
(* memory, whatever the device does while it is started: what the ports    *)
(* are told to write to lies apart.                                        *)
(***************************************************************************)
EXTENDS Files, AhciPort, DiskStart, CountingSemaphoreProofs

-----------------------------------------------------------------------------
(* Open files and their cached pages *)

\* One thread at a time transfers: the search for a buffer and its mark are not
\* one step (page_cache_reserve_buffer).
OneTransfers == \A t, u \in IoThread : t = u

Info == [page : Nat, buffer : Buffer, dirty : BOOLEAN]
Entry == [node : File, open_count : Int, pages : Seq(Info)]
Descriptor == [gfd : Nat, flags : Flags]

OpeningCall == [at : {"local", "undo", "driver"}, node : File, flags : Flags, gfd : Nat]
TransferCall == [at : {"read", "write", "mark", "fill"}, op : {"read", "write"},
                 gfd : Nat, node : File, start : Nat, count : Nat, page : Nat,
                 done : Nat, value : Value \cup {0}, buffer : Buffer]
SyncCall == [at : {"sync"}, gfd : Nat, node : File, start : Nat, page : Nat, end : Int]

FilesTypeOK ==
  /\ gft \in Seq(Entry)
  /\ lft \in [Process -> Seq(Descriptor)]
  /\ alloced_bitmap \subseteq Buffer /\ DOMAIN cache = Buffer
  /\ DOMAIN device = File /\ \A n \in File : DOMAIN device[n] = PageIndex
  /\ DOMAIN expected = File /\ \A n \in File : DOMAIN expected[n] = PageIndex
  /\ file_length \in [File -> Nat]
  /\ call \in [Thread -> {Idle} \cup OpeningCall \cup TransferCall \cup SyncCall]

\* What a call under way works on is an entry of the global table.
CallFits(t) ==
  /\ call[t] \in OpeningCall \cup TransferCall \cup SyncCall => call[t].gfd \in DOMAIN gft
  /\ call[t] \in TransferCall \cup SyncCall =>
       t \in IoThread /\ call[t].node = gft[call[t].gfd].node
  /\ call[t] \in TransferCall => call[t].done <= call[t].count

CallsFit == \A t \in Thread : CallFits(t)

OneEntryEach == \A g, h \in DOMAIN gft : gft[g].node = gft[h].node => g = h
DescriptorsKnown ==
  \A p \in Process : \A i \in DOMAIN lft[p] : lft[p][i].gfd \in DOMAIN gft
Counted ==
  \A g \in DOMAIN gft :
    /\ IsFiniteSet(Descriptors(g))
    /\ gft[g].open_count = Cardinality(Descriptors(g)) + Cardinality(Opening(g))

\* What the cache lists of entry g
Kept(g) == Nodes(gft[g].pages)
Lists(g, p) == \E x \in Kept(g) : x.page = p

PagesListed ==
  /\ \A g \in DOMAIN gft : NoDuplicates(gft[g].pages)
  /\ \A g \in DOMAIN gft : \A x, y \in Kept(g) : x.page = y.page => x = y
BuffersMarked ==
  /\ \A g, h \in DOMAIN gft : \A x \in Kept(g), y \in Kept(h) :
       x.buffer = y.buffer => g = h /\ x = y
  /\ \A g \in DOMAIN gft : \A x \in Kept(g) : x.buffer \in alloced_bitmap \ {Buffers - 1}
  /\ Buffers - 1 \in alloced_bitmap

\* No page is listed twice; buffers are apart until the bitmap has been cleared.
PagesApart == PagesListed /\ ("unmarked" \notin spoiled => BuffersMarked)
Spoils == "unmarked" \in spoiled => "unmarked" \in spoiled'

\* Between the search for a buffer and the end of the driver's read
ReservationFits(t) ==
  LET c == call[t]
  IN  /\ c.at = "mark" => c.buffer \notin alloced_bitmap /\ ~Lists(c.gfd, ThisPage(c)) /\ Rest(c) > 0
      /\ c.at = "fill" =>
           [page |-> ThisPage(c), buffer |-> c.buffer, dirty |-> FALSE] \in Kept(c.gfd)

ReservationsFit == \A t \in Thread : ReservationFits(t)

\* A page that is listed while its contents are still to come
Filling(g, p) ==
  \E t \in Thread : call[t].at = "fill" /\ call[t].gfd = g /\ ThisPage(call[t]) = p
Pending(g, p) ==
  \/ Filling(g, p)
  \/ \E t \in Thread : /\ call[t].at = "write" /\ Rest(call[t]) > 0
                       /\ call[t].gfd = g /\ ThisPage(call[t]) = p

CleanIsStored ==
  \A g \in DOMAIN gft : \A x \in Kept(g) :
    x.page \in PageIndex /\ ~x.dirty /\ ~Pending(g, x.page)
      => cache[x.buffer] = device[gft[g].node][x.page]

CachedIsLatest ==
  \A g \in DOMAIN gft : \A x \in Kept(g) :
    x.page \in PageIndex /\ ~Pending(g, x.page)
      => cache[x.buffer] = expected[gft[g].node][x.page]

StoredIsLatest ==
  /\ \A g \in DOMAIN gft : \A p \in PageIndex :
       ~Lists(g, p) \/ Filling(g, p) => device[gft[g].node][p] = expected[gft[g].node][p]
  /\ \A n \in File : (\A g \in DOMAIN gft : gft[g].node # n) => device[n] = expected[n]

\* The inductive invariant, in three parts: what is counted, where the pages
\* are and what they hold.
TablesInv == FilesTypeOK /\ CallsFit /\ OneEntryEach /\ DescriptorsKnown /\ Counted
BuffersInv == PagesApart /\ ReservationsFit
ContentInv == spoiled = {} => CleanIsStored /\ CachedIsLatest /\ StoredIsLatest
FilesInv == TablesInv /\ BuffersInv /\ ContentInv

LEMMA CallKinds ==
  ASSUME FilesTypeOK, NEW t \in Thread
  PROVE  /\ call[t] \in {Idle} \cup OpeningCall \cup TransferCall \cup SyncCall
         /\ call[t].at = "idle" <=> call[t] = Idle
         /\ call[t].at \in {"local", "undo", "driver"} <=> call[t] \in OpeningCall
         /\ call[t].at \in {"read", "write", "mark", "fill"} <=> call[t] \in TransferCall
         /\ call[t].at = "sync" <=> call[t] \in SyncCall
  BY DEF FilesTypeOK, Idle, OpeningCall, TransferCall, SyncCall

LEMMA GotoFacts ==
  ASSUME FilesTypeOK, NEW t \in Thread, NEW d, Goto(t, d)
  PROVE  /\ call'[t] = d
         /\ \A u \in Thread : u # t => call'[u] = call[u]
         /\ d \in {Idle} \cup OpeningCall \cup TransferCall \cup SyncCall =>
              call' \in [Thread -> {Idle} \cup OpeningCall \cup TransferCall \cup SyncCall]
  BY DEF FilesTypeOK, Goto

\* The descriptors and the openings under way are counted.
LEMMA OpeningsFinite ==
  ASSUME NEW g
  PROVE  IsFiniteSet(Opening(g))
<1>1. Opening(g) \in SUBSET Thread
  BY DEF Opening
<1> QED BY <1>1, FilesAssumption, FS_Subset

\* An entry with another count or other pages, a table with another entry
LEMMA WithCount ==
  ASSUME NEW a \in Entry, NEW k \in Int
  PROVE  /\ [a EXCEPT !.open_count = k] \in Entry
         /\ [a EXCEPT !.open_count = k].open_count = k
         /\ [a EXCEPT !.open_count = k].node = a.node
         /\ [a EXCEPT !.open_count = k].pages = a.pages
  BY DEF Entry

LEMMA WithPages ==
  ASSUME NEW a \in Entry, NEW l \in Seq(Info)
  PROVE  /\ [a EXCEPT !.pages = l] \in Entry
         /\ [a EXCEPT !.pages = l].pages = l
         /\ [a EXCEPT !.pages = l].node = a.node
         /\ [a EXCEPT !.pages = l].open_count = a.open_count
  BY DEF Entry

LEMMA ReplacedFacts ==
  ASSUME NEW S, NEW s \in Seq(S), NEW g \in DOMAIN s, NEW a \in S, NEW r, r = [s EXCEPT ![g] = a]
  PROVE  /\ r \in Seq(S) /\ DOMAIN r = DOMAIN s /\ Len(r) = Len(s) /\ r[g] = a
         /\ \A h \in DOMAIN s : h # g => r[h] = s[h]
  OBVIOUS

LEMMA AppendedFacts ==
  ASSUME NEW S, NEW s \in Seq(S), NEW a \in S, NEW r, r = Append(s, a)
  PROVE  /\ r \in Seq(S) /\ DOMAIN r = DOMAIN s \cup {Len(s) + 1} /\ r[Len(s) + 1] = a
         /\ Len(s) + 1 \notin DOMAIN s /\ Len(s) + 1 \in Nat
         /\ \A h \in DOMAIN s : r[h] = s[h]
  OBVIOUS

\* What a transfer or a sync does to the tables: it changes pages at most.
LEMMA TransferKeepsTables ==
  ASSUME TablesInv, NEW t \in Thread, t \in IoThread, call[t] \notin OpeningCall,
         NEW d \in {Idle} \cup TransferCall \cup SyncCall, Goto(t, d),
         d # Idle => d.gfd \in DOMAIN gft /\ d.node = gft[d.gfd].node,
         d \in TransferCall => d.done <= d.count,
         lft' = lft, gft' \in Seq(Entry), DOMAIN gft' = DOMAIN gft,
         \A g \in DOMAIN gft : gft'[g].node = gft[g].node
                               /\ gft'[g].open_count = gft[g].open_count,
         alloced_bitmap' \subseteq Buffer, DOMAIN cache' = Buffer,
         DOMAIN device' = File, \A n \in File : DOMAIN device'[n] = PageIndex,
         DOMAIN expected' = File, \A n \in File : DOMAIN expected'[n] = PageIndex,
         file_length' \in [File -> Nat]
  PROVE  TablesInv'
<1>1. FilesTypeOK
  BY DEF TablesInv
<1>2. /\ call'[t] = d /\ \A u \in Thread : u # t => call'[u] = call[u]
      /\ call' \in [Thread -> {Idle} \cup OpeningCall \cup TransferCall \cup SyncCall]
  BY <1>1, GotoFacts
<1>3. FilesTypeOK'
  BY <1>1, <1>2 DEF FilesTypeOK
<1>4. d \notin OpeningCall
  BY DEF Idle, OpeningCall, TransferCall, SyncCall
<1>5. CallsFit'
  <2>1. CallFits(t)'
    BY <1>2, <1>4 DEF CallFits, Idle, TransferCall, SyncCall
  <2>2. ASSUME NEW u \in Thread, u # t
        PROVE  CallFits(u)'
    <3>1. CallFits(u) /\ call'[u] = call[u]
      BY <1>2, <2>2 DEF TablesInv, CallsFit
    <3> QED BY <3>1 DEF CallFits
  <2> QED BY <2>1, <2>2 DEF CallsFit
<1>6. OneEntryEach' /\ DescriptorsKnown'
  BY DEF TablesInv, OneEntryEach, DescriptorsKnown
<1>7. \A g : Opening(g)' = Opening(g)
  <2>1. call[t].at \notin {"local", "undo"}
    BY <1>1, CallKinds
  <2>2. d.at \notin {"local", "undo"}
    BY DEF Idle, TransferCall, SyncCall
  <2> QED BY <1>2, <2>1, <2>2 DEF Opening
<1>8. \A g : Descriptors(g)' = Descriptors(g)
  BY DEF Descriptors
<1>9. Counted'
  BY <1>7, <1>8 DEF TablesInv, Counted
<1> QED BY <1>3, <1>5, <1>6, <1>9 DEF TablesInv

\* Opening: the first part. A file that is open has its entry.
LEMMA EntryOf ==
  ASSUME TablesInv, NEW n \in File
  PROVE  \/ gft_get_n(n) = {} /\ \A g \in DOMAIN gft : gft[g].node # n
         \/ \E g \in DOMAIN gft : /\ gft_get_n(n) = {g} /\ Min(gft_get_n(n)) = g
                                  /\ gft[g].node = n
<1>1. CASE gft_get_n(n) = {}
  BY <1>1 DEF gft_get_n
<1>2. CASE gft_get_n(n) # {}
  <2>1. PICK g \in DOMAIN gft : gft[g].node = n
    BY <1>2 DEF gft_get_n
  <2>2. gft_get_n(n) = {g}
    BY <2>1 DEF gft_get_n, TablesInv, OneEntryEach
  <2>3. g \in Nat
    BY DEF TablesInv, FilesTypeOK
  <2>4. Min({g}) = g
    BY <2>3 DEF Min
  <2> QED BY <2>1, <2>2, <2>4
<1> QED BY <1>1, <1>2

\* The count of entry g as one opening more, or one fewer, is under way
LEMMA OneMoreOpening ==
  ASSUME NEW g, NEW t \in Thread, t \notin Opening(g), Opening(g)' = Opening(g) \cup {t}
  PROVE  Cardinality(Opening(g)') = Cardinality(Opening(g)) + 1
  BY OpeningsFinite, FS_AddElement

LEMMA OneLessOpening ==
  ASSUME NEW g, NEW t \in Opening(g), Opening(g)' = Opening(g) \ {t}
  PROVE  Cardinality(Opening(g)') = Cardinality(Opening(g)) - 1
  BY OpeningsFinite, FS_RemoveElement

LEMMA OpenGlobalKeepsTables ==
  ASSUME TablesInv, NEW t \in Thread, NEW path, NEW flags \in Flags, OpenGlobal(t, path, flags)
  PROVE  /\ TablesInv'
         /\ \A g \in DOMAIN gft : /\ g \in DOMAIN gft' /\ gft'[g].node = gft[g].node
                                  /\ gft'[g].pages = gft[g].pages
         /\ \A g \in DOMAIN gft' \ DOMAIN gft : gft'[g].pages = <<>>
<1> DEFINE n == FindRelative(vfs_root, path)
           m0 == IF gft_get_n(n) # {} THEN Min(gft_get_n(n)) ELSE Len(gft) + 1
           d0 == [at |-> "local", node |-> n, flags |-> flags, gfd |-> m0]
<1>1. /\ call[t].at = "idle" /\ n \in File /\ gft' = GlobalInserted(n) /\ Goto(t, d0)
      /\ UNCHANGED <<lft, alloced_bitmap, cache, device, file_length, expected>>
  BY DEF OpenGlobal, Doing, store
<1> HIDE DEF n
<1>2. FilesTypeOK /\ gft \in Seq(Entry)
  BY DEF TablesInv, FilesTypeOK
<1>3. PICK m : m = m0
  OBVIOUS
<1> HIDE DEF m0
<1> DEFINE d == [at |-> "local", node |-> n, flags |-> flags, gfd |-> m]
<1>4. /\ m \in DOMAIN gft' /\ m \in Nat /\ gft' \in Seq(Entry)
      /\ gft'[m].node = n
      /\ \A g \in DOMAIN gft : /\ g \in DOMAIN gft' /\ gft'[g].node = gft[g].node
                               /\ gft'[g].pages = gft[g].pages
                               /\ g # m => gft'[g].open_count = gft[g].open_count
      /\ \/ m \in DOMAIN gft /\ DOMAIN gft' = DOMAIN gft
            /\ gft'[m].open_count = gft[m].open_count + 1
         \/ m \notin DOMAIN gft /\ DOMAIN gft' = DOMAIN gft \cup {m}
            /\ gft'[m].open_count = 1 /\ gft'[m].pages = <<>>
            /\ \A g \in DOMAIN gft : gft[g].node # n
  <2>1. CASE gft_get_n(n) = {}
    <3>1. gft' = Append(gft, [node |-> n, open_count |-> 1, pages |-> <<>>]) /\ m = Len(gft) + 1
      BY <1>1, <1>3, <2>1 DEF GlobalInserted, m0
    <3>2. \A g \in DOMAIN gft : gft[g].node # n
      BY <2>1 DEF gft_get_n
    <3> DEFINE e == [node |-> n, open_count |-> 1, pages |-> <<>>]
    <3>3. e \in Entry /\ e.node = n /\ e.open_count = 1 /\ e.pages = <<>>
      BY <1>1 DEF Entry
    <3> HIDE DEF e
    <3>4. /\ gft' \in Seq(Entry) /\ DOMAIN gft' = DOMAIN gft \cup {m} /\ gft'[m] = e
          /\ m \notin DOMAIN gft /\ m \in Nat
          /\ \A h \in DOMAIN gft : gft'[h] = gft[h]
      BY <1>2, <3>1, <3>3, AppendedFacts DEF e
    <3> QED BY <3>2, <3>3, <3>4
  <2>2. CASE gft_get_n(n) # {}
    <3>1. PICK g \in DOMAIN gft : m = g /\ Min(gft_get_n(n)) = g /\ gft[g].node = n
      BY <1>1, <1>3, <2>2, EntryOf DEF m0
    <3> DEFINE k == gft[g].open_count + 1
               e == [gft[g] EXCEPT !.open_count = k]
    <3>2. gft' = [gft EXCEPT ![g] = e]
      BY <1>1, <2>2, <3>1 DEF GlobalInserted
    <3>3. gft[g] \in Entry /\ g \in Nat
      BY <1>2
    <3>4. k \in Int
      BY <3>3 DEF Entry
    <3> HIDE DEF k
    <3>5. /\ e \in Entry /\ e.open_count = k /\ e.node = gft[g].node
          /\ e.pages = gft[g].pages
      BY <3>3, <3>4, WithCount
    <3> HIDE DEF e
    <3>6. /\ gft' \in Seq(Entry) /\ DOMAIN gft' = DOMAIN gft /\ gft'[g] = e
          /\ \A h \in DOMAIN gft : h # g => gft'[h] = gft[h]
      BY <1>2, <3>2, <3>5, ReplacedFacts
    <3> QED BY <3>1, <3>3, <3>5, <3>6 DEF k
  <2> QED BY <2>1, <2>2
<1>5. d \in OpeningCall
  BY <1>1, <1>4 DEF OpeningCall
<1>6. /\ call'[t] = d /\ \A u \in Thread : u # t => call'[u] = call[u]
      /\ call' \in [Thread -> {Idle} \cup OpeningCall \cup TransferCall \cup SyncCall]
  BY <1>1, <1>2, <1>3, <1>5, GotoFacts
<1>7. FilesTypeOK'
  BY <1>1, <1>2, <1>4, <1>6 DEF FilesTypeOK
<1>8. CallsFit'
  <2>1. CallFits(t)'
    BY <1>4, <1>5, <1>6 DEF CallFits, OpeningCall, TransferCall, SyncCall
  <2>2. ASSUME NEW u \in Thread, u # t
        PROVE  CallFits(u)'
    <3>1. CallFits(u) /\ call'[u] = call[u]
      BY <1>6, <2>2 DEF TablesInv, CallsFit
    <3> QED BY <1>4, <3>1 DEF CallFits
  <2> QED BY <2>1, <2>2 DEF CallsFit
<1>9. OneEntryEach' /\ DescriptorsKnown'
  <2>1. OneEntryEach /\ DescriptorsKnown
    BY DEF TablesInv
  <2> QED BY <1>1, <1>4, <2>1 DEF OneEntryEach, DescriptorsKnown
<1>10. \A g : Opening(g)' = IF g = m THEN Opening(g) \cup {t} ELSE Opening(g)
  BY <1>1, <1>6 DEF Opening
<1>11. t \notin Opening(m)
  BY <1>1 DEF Opening
<1>12. \A g : Descriptors(g)' = Descriptors(g)
  BY <1>1 DEF Descriptors
<1>13. Counted'
  <2>1. ASSUME NEW g \in DOMAIN gft', g # m
        PROVE  IsFiniteSet(Descriptors(g)') /\ gft'[g].open_count = Cardinality(Descriptors(g)') + Cardinality(Opening(g)')
    BY <1>4, <1>10, <1>12, <2>1 DEF TablesInv, Counted
  <2>2. CASE m \in DOMAIN gft
    <3>1. /\ IsFiniteSet(Descriptors(m))
          /\ gft[m].open_count = Cardinality(Descriptors(m)) + Cardinality(Opening(m))
      BY <2>2 DEF TablesInv, Counted
    <3>2. Cardinality(Opening(m)') = Cardinality(Opening(m)) + 1
      BY <1>10, <1>11, OneMoreOpening
    <3>3. Cardinality(Descriptors(m)) \in Nat /\ Cardinality(Opening(m)) \in Nat
      BY <3>1, OpeningsFinite, FS_CardinalityType
    <3>4. gft'[m].open_count = Cardinality(Descriptors(m)') + Cardinality(Opening(m)')
      BY <1>4, <1>12, <2>2, <3>1, <3>2, <3>3
    <3> QED BY <1>12, <2>1, <3>1, <3>4 DEF Counted
  <2>3. CASE m \notin DOMAIN gft
    <3>1. Descriptors(m) = {}
      BY <2>3 DEF Descriptors, TablesInv, DescriptorsKnown
    <3>2. Opening(m) = {}
      <4>1. \A u \in Thread : call[u] \in OpeningCall => call[u].gfd # m
        BY <2>3 DEF TablesInv, CallsFit, CallFits
      <4>2. \A u \in Thread : call[u].at \in {"local", "undo"} => call[u] \in OpeningCall
        BY <1>2, CallKinds
      <4> QED BY <4>1, <4>2 DEF Opening
    <3>3. Cardinality(Opening(m)') = Cardinality(Opening(m)) + 1
      BY <1>10, <1>11, OneMoreOpening
    <3>4. /\ IsFiniteSet(Descriptors(m)') /\ Cardinality(Descriptors(m)') = 0
          /\ Cardinality(Opening(m)) = 0
      BY <1>12, <3>1, <3>2, FS_EmptySet
    <3>5. gft'[m].open_count = Cardinality(Descriptors(m)') + Cardinality(Opening(m)')
      BY <1>4, <2>3, <3>3, <3>4
    <3> QED BY <2>1, <3>4, <3>5 DEF Counted
  <2> QED BY <2>2, <2>3
<1> QED BY <1>4, <1>7, <1>8, <1>9, <1>13 DEF TablesInv

\* The other steps of an opening leave the pages of every entry alone.
LEMMA OpenLocalKeepsTables ==
  ASSUME TablesInv, NEW t \in Thread, OpenLocal(t)
  PROVE  TablesInv'
<1> DEFINE d == [call[t] EXCEPT !.at = "driver"]
           e == [gfd |-> call[t].gfd, flags |-> call[t].flags]
<1>1. FilesTypeOK
  BY DEF TablesInv
<1>2. PICK g, p, i : g = call[t].gfd /\ p = process[t] /\ i = Len(lft[p]) + 1
  OBVIOUS
<1>3. /\ call[t].at = "local" /\ lft' = [lft EXCEPT ![p] = Append(lft[p], e)] /\ Goto(t, d)
      /\ UNCHANGED <<gft, alloced_bitmap, cache, device, file_length, expected>>
  BY <1>2 DEF OpenLocal, Doing, store
<1>4. call[t] \in OpeningCall /\ g \in DOMAIN gft /\ p \in Process
  BY <1>1, <1>2, <1>3, CallKinds DEF TablesInv, CallsFit, CallFits, Process
<1>5. d \in OpeningCall /\ d.gfd = g /\ d.at = "driver" /\ e \in Descriptor /\ e.gfd = g
  BY <1>2, <1>4 DEF OpeningCall, Descriptor
<1> HIDE DEF d, e
<1>6. /\ call'[t] = d /\ \A u \in Thread : u # t => call'[u] = call[u]
      /\ call' \in [Thread -> {Idle} \cup OpeningCall \cup TransferCall \cup SyncCall]
  BY <1>1, <1>3, <1>5, GotoFacts
<1>7. lft \in [Process -> Seq(Descriptor)] /\ lft[p] \in Seq(Descriptor)
  BY <1>1, <1>4 DEF FilesTypeOK
<1>8. /\ lft' \in [Process -> Seq(Descriptor)] /\ \A q \in Process : q # p => lft'[q] = lft[q]
      /\ DOMAIN lft'[p] = DOMAIN lft[p] \cup {i} /\ i \notin DOMAIN lft[p]
      /\ lft'[p][i].gfd = g /\ \A j \in DOMAIN lft[p] : lft'[p][j] = lft[p][j]
  <2>1. lft'[p] = Append(lft[p], e)
    BY <1>3, <1>4, <1>7
  <2>2. /\ lft'[p] \in Seq(Descriptor) /\ DOMAIN lft'[p] = DOMAIN lft[p] \cup {i}
        /\ lft'[p][i] = e /\ i \notin DOMAIN lft[p]
        /\ \A j \in DOMAIN lft[p] : lft'[p][j] = lft[p][j]
    BY <1>2, <1>5, <1>7, <2>1, AppendedFacts
  <2> QED BY <1>3, <1>5, <1>7, <2>2
<1>9. FilesTypeOK'
  BY <1>1, <1>3, <1>6, <1>8 DEF FilesTypeOK
<1>10. CallsFit'
  <2>1. CallFits(t)'
    BY <1>3, <1>4, <1>5, <1>6 DEF CallFits, OpeningCall, TransferCall, SyncCall
  <2>2. ASSUME NEW u \in Thread, u # t
        PROVE  CallFits(u)'
    <3>1. CallFits(u) /\ call'[u] = call[u]
      BY <1>6, <2>2 DEF TablesInv, CallsFit
    <3> QED BY <1>3, <3>1 DEF CallFits
  <2> QED BY <2>1, <2>2 DEF CallsFit
<1>11. OneEntryEach' /\ DescriptorsKnown'
  <2>1. OneEntryEach /\ DescriptorsKnown
    BY DEF TablesInv
  <2>2. DescriptorsKnown'
    BY <1>3, <1>4, <1>8, <2>1 DEF DescriptorsKnown
  <2> QED BY <1>3, <2>1, <2>2 DEF OneEntryEach
<1>12. \A h : Opening(h)' = IF h = g THEN Opening(h) \ {t} ELSE Opening(h)
  BY <1>2, <1>3, <1>5, <1>6 DEF Opening
<1>13. t \in Opening(g)
  BY <1>2, <1>3 DEF Opening
<1>14. /\ \A h : h # g => Descriptors(h)' = Descriptors(h)
       /\ Descriptors(g)' = Descriptors(g) \cup {<<p, i>>} /\ <<p, i>> \notin Descriptors(g)
  <2>1. \A h, q, j : <<q, j>> \in Descriptors(h) <=>
                       q \in Process /\ j \in DOMAIN lft[q] /\ lft[q][j].gfd = h
    BY DEF Descriptors
  <2>2. \A h, q, j : <<q, j>> \in Descriptors(h)' <=>
                       q \in Process /\ j \in DOMAIN lft'[q] /\ lft'[q][j].gfd = h
    BY DEF Descriptors
  <2>3. \A h, q, j : <<q, j>> \in Descriptors(h)' <=>
                       <<q, j>> \in Descriptors(h) \/ (h = g /\ q = p /\ j = i)
    <3> TAKE h, q, j
    <3>1. CASE q = p
      BY <1>4, <1>8, <2>1, <2>2, <3>1
    <3>2. CASE q # p
      BY <1>8, <2>1, <2>2, <3>2
    <3> QED BY <3>1, <3>2
  <2>4. \A h, x : x \in Descriptors(h) => \E q, j : x = <<q, j>>
    BY DEF Descriptors
  <2>5. \A h, x : x \in Descriptors(h)' => \E q, j : x = <<q, j>>
    BY DEF Descriptors
  <2>6. ASSUME NEW h
        PROVE  Descriptors(h)' = Descriptors(h) \cup (IF h = g THEN {<<p, i>>} ELSE {})
    <3>1. \A x \in Descriptors(h)' : x \in Descriptors(h) \cup (IF h = g THEN {<<p, i>>} ELSE {})
      BY <2>3, <2>5
    <3>2. \A x \in Descriptors(h) \cup (IF h = g THEN {<<p, i>>} ELSE {}) : x \in Descriptors(h)'
      BY <2>3, <2>4
    <3> QED BY <3>1, <3>2
  <2>7. <<p, i>> \notin Descriptors(g)
    BY <1>8, <2>1
  <2> QED BY <2>6, <2>7
<1>15. Counted'
  <2>1. /\ IsFiniteSet(Descriptors(g))
        /\ gft[g].open_count = Cardinality(Descriptors(g)) + Cardinality(Opening(g))
    BY <1>4 DEF TablesInv, Counted
  <2>2. Cardinality(Opening(g)') = Cardinality(Opening(g)) - 1
    BY <1>12, <1>13, OneLessOpening
  <2>3. /\ IsFiniteSet(Descriptors(g)')
        /\ Cardinality(Descriptors(g)') = Cardinality(Descriptors(g)) + 1
    BY <1>14, <2>1, FS_AddElement
  <2>4. Cardinality(Descriptors(g)) \in Nat /\ Cardinality(Opening(g)) \in Nat
    BY <2>1, OpeningsFinite, FS_CardinalityType
  <2>5. gft'[g].open_count = Cardinality(Descriptors(g)') + Cardinality(Opening(g)')
    BY <1>3, <2>1, <2>2, <2>3, <2>4
  <2>6. ASSUME NEW h \in DOMAIN gft', h # g
        PROVE  IsFiniteSet(Descriptors(h)') /\ gft'[h].open_count = Cardinality(Descriptors(h)') + Cardinality(Opening(h)')
    BY <1>3, <1>12, <1>14, <2>6 DEF TablesInv, Counted
  <2> QED BY <2>3, <2>5, <2>6 DEF Counted
<1> QED BY <1>9, <1>10, <1>11, <1>15 DEF TablesInv

LEMMA OpenUndoKeepsTables ==
  ASSUME TablesInv, NEW t \in Thread, OpenUndo(t)
  PROVE  /\ TablesInv' /\ DOMAIN gft' = DOMAIN gft
         /\ \A g \in DOMAIN gft : gft'[g].node = gft[g].node /\ gft'[g].pages = gft[g].pages
<1>1. FilesTypeOK /\ gft \in Seq(Entry)
  BY DEF TablesInv, FilesTypeOK
<1>2. PICK g : g = call[t].gfd
  OBVIOUS
<1> DEFINE k == gft[g].open_count - 1
           e == [gft[g] EXCEPT !.open_count = k]
<1>3. /\ call[t].at = "undo" /\ gft' = [gft EXCEPT ![g] = e] /\ Goto(t, Idle)
      /\ UNCHANGED <<lft, alloced_bitmap, cache, device, file_length, expected>>
  BY <1>2 DEF OpenUndo, Doing, Return, store
<1>4. call[t] \in OpeningCall /\ g \in DOMAIN gft /\ gft[g] \in Entry
  <2>1. call[t] \in OpeningCall /\ g \in DOMAIN gft
    BY <1>1, <1>2, <1>3, CallKinds DEF TablesInv, CallsFit, CallFits
  <2> QED BY <1>1, <2>1
<1>5. k \in Int
  BY <1>4 DEF Entry
<1> HIDE DEF k
<1>6. e \in Entry /\ e.open_count = k /\ e.node = gft[g].node /\ e.pages = gft[g].pages
  BY <1>4, <1>5, WithCount
<1> HIDE DEF e
<1>7. /\ gft' \in Seq(Entry) /\ DOMAIN gft' = DOMAIN gft /\ gft'[g] = e
      /\ \A h \in DOMAIN gft : h # g => gft'[h] = gft[h]
  BY <1>1, <1>3, <1>4, <1>6, ReplacedFacts
<1>8. /\ call'[t] = Idle /\ \A u \in Thread : u # t => call'[u] = call[u]
      /\ call' \in [Thread -> {Idle} \cup OpeningCall \cup TransferCall \cup SyncCall]
  BY <1>1, <1>3, GotoFacts
<1>9. FilesTypeOK'
  BY <1>1, <1>3, <1>7, <1>8 DEF FilesTypeOK
<1>10. \A h \in DOMAIN gft : gft'[h].node = gft[h].node /\ gft'[h].pages = gft[h].pages
  BY <1>6, <1>7
<1>11. CallsFit'
  <2>1. CallFits(t)'
    BY <1>8 DEF CallFits, Idle, OpeningCall, TransferCall, SyncCall
  <2>2. ASSUME NEW u \in Thread, u # t
        PROVE  CallFits(u)'
    <3>1. CallFits(u) /\ call'[u] = call[u]
      BY <1>8, <2>2 DEF TablesInv, CallsFit
    <3> QED BY <1>7, <1>10, <3>1 DEF CallFits
  <2> QED BY <2>1, <2>2 DEF CallsFit
<1>12. OneEntryEach' /\ DescriptorsKnown'
  BY <1>3, <1>7, <1>10 DEF TablesInv, OneEntryEach, DescriptorsKnown
<1>13. \A h : Opening(h)' = IF h = g THEN Opening(h) \ {t} ELSE Opening(h)
  BY <1>2, <1>3, <1>8 DEF Opening, Idle
<1>14. t \in Opening(g)
  BY <1>2, <1>3 DEF Opening
<1>15. \A h : Descriptors(h)' = Descriptors(h)
  BY <1>3 DEF Descriptors
<1>16. Counted'
  <2>1. /\ IsFiniteSet(Descriptors(g))
        /\ gft[g].open_count = Cardinality(Descriptors(g)) + Cardinality(Opening(g))
    BY <1>4 DEF TablesInv, Counted
  <2>2. Cardinality(Opening(g)') = Cardinality(Opening(g)) - 1
    BY <1>13, <1>14, OneLessOpening
  <2>3. Cardinality(Descriptors(g)) \in Nat /\ Cardinality(Opening(g)) \in Nat
    BY <2>1, OpeningsFinite, FS_CardinalityType
  <2>4. gft'[g].open_count = Cardinality(Descriptors(g)') + Cardinality(Opening(g)')
    BY <1>6, <1>7, <1>15, <2>1, <2>2, <2>3 DEF k
  <2>5. ASSUME NEW h \in DOMAIN gft', h # g
        PROVE  IsFiniteSet(Descriptors(h)') /\ gft'[h].open_count = Cardinality(Descriptors(h)') + Cardinality(Opening(h)')
    BY <1>7, <1>13, <1>15, <2>5 DEF TablesInv, Counted
  <2> QED BY <1>15, <2>1, <2>4, <2>5 DEF Counted
<1> QED BY <1>7, <1>9, <1>10, <1>11, <1>12, <1>16 DEF TablesInv

\* The remaining steps of an opening change no table.
LEMMA OpeningGoesOn ==
  ASSUME TablesInv, NEW t \in Thread, OpenLocalFails(t) \/ OpenDriver(t)
  PROVE  TablesInv'
<1> DEFINE d == IF call[t].at = "local" THEN [call[t] EXCEPT !.at = "undo"] ELSE Idle
<1>1. FilesTypeOK
  BY DEF TablesInv
<1>2. /\ call[t].at \in {"local", "driver"} /\ Goto(t, d)
      /\ UNCHANGED <<gft, lft, alloced_bitmap, cache, device, file_length, expected>>
  BY DEF OpenLocalFails, OpenDriver, Doing, Return, store, tables
<1>3. call[t] \in OpeningCall
  BY <1>1, <1>2, CallKinds
<1>4. /\ d \in {Idle} \cup OpeningCall
      /\ d \in OpeningCall => d.gfd = call[t].gfd
      /\ d.at \in {"local", "undo"} <=> call[t].at = "local"
      /\ call[t].at = "local" => d.gfd = call[t].gfd
  BY <1>2, <1>3 DEF OpeningCall, Idle
<1> HIDE DEF d
<1>5. /\ call'[t] = d /\ \A u \in Thread : u # t => call'[u] = call[u]
      /\ call' \in [Thread -> {Idle} \cup OpeningCall \cup TransferCall \cup SyncCall]
  BY <1>1, <1>2, <1>4, GotoFacts
<1>6. FilesTypeOK'
  BY <1>1, <1>2, <1>5 DEF FilesTypeOK
<1>7. CallsFit'
  <2>1. CallFits(t)'
    BY <1>2, <1>3, <1>4, <1>5 DEF TablesInv, CallsFit, CallFits, Idle, OpeningCall, TransferCall, SyncCall
  <2>2. ASSUME NEW u \in Thread, u # t
        PROVE  CallFits(u)'
    <3>1. CallFits(u) /\ call'[u] = call[u]
      BY <1>5, <2>2 DEF TablesInv, CallsFit
    <3> QED BY <1>2, <3>1 DEF CallFits
  <2> QED BY <2>1, <2>2 DEF CallsFit
<1>8. OneEntryEach' /\ DescriptorsKnown'
  BY <1>2 DEF TablesInv, OneEntryEach, DescriptorsKnown
<1>9. \A g : Opening(g)' = Opening(g)
  BY <1>2, <1>4, <1>5 DEF Opening
<1>10. \A g : Descriptors(g)' = Descriptors(g)
  BY <1>2 DEF Descriptors
<1>11. Counted'
  BY <1>2, <1>9, <1>10 DEF TablesInv, Counted
<1> QED BY <1>6, <1>7, <1>8, <1>11 DEF TablesInv

-----------------------------------------------------------------------------
(* The pages of an entry *)

OnePageEach(l) == \A x, y \in Nodes(l) : x.page = y.page => x = y
Marking(x, b) == [page |-> x.page, buffer |-> x.buffer, dirty |-> b]

LEMMA WithDirty ==
  ASSUME NEW x \in Info, NEW b \in BOOLEAN
  PROVE  /\ [x EXCEPT !.dirty = b] \in Info /\ [x EXCEPT !.dirty = b] = Marking(x, b)
         /\ Marking(x, b).page = x.page
  BY DEF Info, Marking

\* page_cache_make_dirty changes one page of the list.
LEMMA MarkedFacts ==
  ASSUME NEW l \in Seq(Info), NoDuplicates(l), OnePageEach(l),
         NEW i \in DOMAIN l, NEW b \in BOOLEAN, NEW m, m = [l EXCEPT ![i].dirty = b]
  PROVE  /\ m \in Seq(Info) /\ NoDuplicates(m)
         /\ Nodes(m) = (Nodes(l) \ {l[i]}) \cup {Marking(l[i], b)}
<1> DEFINE e == Marking(l[i], b)
<1>0. l[i] \in Info
  OBVIOUS
<1>1. e \in Info /\ e.page = l[i].page /\ e = [l[i] EXCEPT !.dirty = b]
  BY <1>0, WithDirty
<1> HIDE DEF e
<1>2. m = [l EXCEPT ![i] = e]
  BY <1>1
<1>3. /\ m \in Seq(Info) /\ DOMAIN m = DOMAIN l /\ Len(m) = Len(l) /\ m[i] = e
      /\ \A j \in DOMAIN l : j # i => m[j] = l[j]
  BY <1>1, <1>2, ReplacedFacts
<1>4. DOMAIN l = 1..Len(l)
  OBVIOUS
<1>5. \A j \in DOMAIN l : j # i => l[j] # l[i] /\ l[j].page # l[i].page
  BY <1>4 DEF NoDuplicates, OnePageEach, Nodes
<1>6. NoDuplicates(m)
  <2>1. \A j \in DOMAIN l : j # i => m[j] # m[i]
    BY <1>1, <1>3, <1>5
  <2>2. \A j, k \in DOMAIN l : j # i /\ k # i /\ m[j] = m[k] => j = k
    BY <1>3, <1>4 DEF NoDuplicates
  <2>3. \A j, k \in DOMAIN l : m[j] = m[k] => j = k
    BY <2>1, <2>2
  <2> QED BY <1>3, <1>4, <2>3 DEF NoDuplicates
<1>7. \A x \in Nodes(m) : x \in (Nodes(l) \ {l[i]}) \cup {e}
  BY <1>3, <1>4, <1>5 DEF Nodes
<1>8. \A x \in (Nodes(l) \ {l[i]}) \cup {e} : x \in Nodes(m)
  BY <1>3, <1>4 DEF Nodes
<1>9. Nodes(m) = (Nodes(l) \ {l[i]}) \cup {e}
  BY <1>7, <1>8
<1> QED BY <1>3, <1>6, <1>9 DEF e

\* page_cache_release_buffer takes one page off the list.
LEMMA RemovedFacts ==
  ASSUME NEW l \in Seq(Info), NoDuplicates(l), NEW i \in DOMAIN l
  PROVE  /\ RemoveAt(l, i) \in Seq(Info) /\ NoDuplicates(RemoveAt(l, i))
         /\ Nodes(RemoveAt(l, i)) = Nodes(l) \ {l[i]}
<1>1. /\ i \in 1..Len(l) /\ l[i] \in Nodes(l) /\ Len(l) \in Nat
      /\ Len(l) < 2 => i = 1 /\ Len(l) = 1
  BY DEF Nodes
<1>2. Position(l, l[i]) = i
  BY <1>1 DEF Position, NoDuplicates
<1>3. RemoveAt(l, i) = RemoveNode(l, l[i])
  <2>1. CASE Len(l) < 2
    <3>1. i = 1 /\ Len(l) = 1
      BY <1>1, <2>1
    <3>2. RemoveAt(l, i) = <<>> \o <<>>
      BY <3>1 DEF RemoveAt
    <3> QED BY <2>1, <3>2 DEF RemoveNode
  <2>2. CASE ~(Len(l) < 2)
    BY <1>2, <2>2 DEF RemoveNode, RemoveAt
  <2> QED BY <2>1, <2>2
<1> QED BY <1>1, <1>3, RemoveNodeFacts

\* page_cache_reserve_buffer lists one page more.
LEMMA ListedFacts ==
  ASSUME NEW l \in Seq(Info), NoDuplicates(l), NEW x \in Info, x \notin Nodes(l)
  PROVE  /\ Append(l, x) \in Seq(Info) /\ NoDuplicates(Append(l, x))
         /\ Nodes(Append(l, x)) = Nodes(l) \cup {x}
<1>1. Append(l, x) = InsertBackNode(l, x)
  BY DEF InsertBackNode
<1> QED BY <1>1, InsertBackNodeFacts

\* page_cache_get_finfo finds the one page of that number.
LEMMA InfoFacts ==
  ASSUME FilesTypeOK, PagesApart, NEW g \in DOMAIN gft, NEW p
  PROVE  /\ Cached(g, p) <=> Lists(g, p)
         /\ gft[g].pages \in Seq(Info) /\ NoDuplicates(gft[g].pages)
         /\ OnePageEach(gft[g].pages)
         /\ \A x \in Kept(g) : x.page = p =>
              /\ InfoIndex(g, p) \in DOMAIN gft[g].pages
              /\ gft[g].pages[InfoIndex(g, p)] = x
              /\ Infos(g, p) = {InfoIndex(g, p)}
<1>1. gft[g] \in Entry
  BY DEF FilesTypeOK
<1>2. gft[g].pages \in Seq(Info)
  BY <1>1 DEF Entry
<1>3. DOMAIN gft[g].pages = 1..Len(gft[g].pages)
  BY <1>2
<1>4. NoDuplicates(gft[g].pages) /\ OnePageEach(gft[g].pages)
  BY DEF PagesApart, PagesListed, OnePageEach, Kept
<1>5. Cached(g, p) <=> Lists(g, p)
  BY <1>3 DEF Cached, Infos, Lists, Kept, Nodes
<1>6. ASSUME NEW x \in Kept(g), x.page = p
      PROVE  /\ InfoIndex(g, p) \in DOMAIN gft[g].pages
             /\ gft[g].pages[InfoIndex(g, p)] = x
             /\ Infos(g, p) = {InfoIndex(g, p)}
  <2>1. PICK i \in 1..Len(gft[g].pages) : gft[g].pages[i] = x
    BY <1>6 DEF Kept, Nodes
  <2>2. Infos(g, p) = {i}
    <3>1. \A j \in Infos(g, p) : j = i
      BY <1>3, <1>4, <1>6, <2>1 DEF Infos, NoDuplicates, OnePageEach, Nodes
    <3> QED BY <1>3, <1>6, <2>1, <3>1 DEF Infos
  <2>3. Min({i}) = i
    BY <2>1 DEF Min
  <2> QED BY <1>3, <2>1, <2>2, <2>3 DEF InfoIndex
<1> QED BY <1>2, <1>4, <1>5, <1>6

\* An entry gets another list of pages, the rest of the table stays.
LEMMA PagesReplaced ==
  ASSUME FilesTypeOK, NEW g \in DOMAIN gft, NEW l \in Seq(Info),
         gft' = [gft EXCEPT ![g] = [gft[g] EXCEPT !.pages = l]]
  PROVE  /\ gft' \in Seq(Entry) /\ DOMAIN gft' = DOMAIN gft /\ gft'[g].pages = l
         /\ \A h \in DOMAIN gft : gft'[h].node = gft[h].node
                                  /\ gft'[h].open_count = gft[h].open_count
         /\ \A h \in DOMAIN gft : h # g => gft'[h].pages = gft[h].pages
<1> DEFINE e == [gft[g] EXCEPT !.pages = l]
<1>1. gft \in Seq(Entry) /\ gft[g] \in Entry
  BY DEF FilesTypeOK
<1>2. /\ e \in Entry /\ e.pages = l /\ e.node = gft[g].node
      /\ e.open_count = gft[g].open_count
  BY <1>1, WithPages
<1> HIDE DEF e
<1>3. gft' = [gft EXCEPT ![g] = e]
  BY DEF e
<1>4. gft \in Seq(Entry) /\ e \in Entry
  BY <1>1, <1>2
<1>5. /\ gft' \in Seq(Entry) /\ DOMAIN gft' = DOMAIN gft /\ gft'[g] = e
      /\ \A h \in DOMAIN gft : h # g => gft'[h] = gft[h]
  BY <1>3, <1>4
<1> QED BY <1>2, <1>5

\* Nobody else transfers, so what is filled or pending is what this call fills
\* or is about to write.
LEMMA OtherCalls ==
  ASSUME OneTransfers, TablesInv, NEW t \in IoThread, NEW u \in Thread, u # t
  PROVE  call[u].at \notin {"read", "write", "mark", "fill", "sync"}
<1>1. call[u] \notin TransferCall \cup SyncCall
  BY DEF OneTransfers, TablesInv, CallsFit, CallFits
<1> QED BY <1>1, CallKinds DEF TablesInv

-----------------------------------------------------------------------------
(* The steps that move no page and no cell *)

EntriesStay ==
  /\ \A g \in DOMAIN gft : /\ g \in DOMAIN gft' /\ gft'[g].node = gft[g].node
                           /\ gft'[g].pages = gft[g].pages
  /\ \A g \in DOMAIN gft' \ DOMAIN gft : gft'[g].pages = <<>>

\* A call that says it will mark a buffer has found a free one for a page that
\* is not listed.
MayMark(d) ==
  d.at = "mark" => d.buffer \notin alloced_bitmap /\ ~Lists(d.gfd, ThisPage(d)) /\ Rest(d) > 0

LEMMA KeptStays ==
  ASSUME EntriesStay
  PROVE  /\ \A g \in DOMAIN gft : Kept(g)' = Kept(g) /\ \A p : Lists(g, p)' <=> Lists(g, p)
         /\ \A g \in DOMAIN gft' \ DOMAIN gft : Kept(g)' = {}
  BY DEF EntriesStay, Kept, Lists, Nodes

LEMMA BuffersStay ==
  ASSUME TablesInv, BuffersInv, NEW t \in Thread,
         NEW d \in {Idle} \cup OpeningCall \cup TransferCall \cup SyncCall, Goto(t, d),
         d.at # "fill", MayMark(d), d \in TransferCall => d.gfd \in DOMAIN gft,
         EntriesStay, Spoils, alloced_bitmap' \subseteq alloced_bitmap,
         "unmarked" \in spoiled' \/ alloced_bitmap' = alloced_bitmap
  PROVE  BuffersInv'
<1>1. FilesTypeOK
  BY DEF TablesInv
<1>2. call'[t] = d /\ \A u \in Thread : u # t => call'[u] = call[u]
  BY <1>1, GotoFacts
<1>3. PagesApart'
  <2>1. PagesApart
    BY DEF BuffersInv
  <2>2. \A g \in DOMAIN gft' : NoDuplicates(gft'[g].pages)
    <3> TAKE g \in DOMAIN gft'
    <3>1. CASE g \in DOMAIN gft
      BY <2>1, <3>1 DEF PagesApart, PagesListed, EntriesStay
    <3>2. CASE g \notin DOMAIN gft
      BY <3>2 DEF EntriesStay, NoDuplicates
    <3> QED BY <3>1, <3>2
  <2>3. \A g \in DOMAIN gft' : \A x \in Kept(g)' : g \in DOMAIN gft /\ x \in Kept(g)
    BY KeptStays
  <2>4. PagesListed'
    BY <2>1, <2>2, <2>3 DEF PagesApart, PagesListed
  <2>5. "unmarked" \notin spoiled' => BuffersMarked'
    BY <2>1, <2>3 DEF PagesApart, BuffersMarked, Spoils
  <2> QED BY <2>4, <2>5 DEF PagesApart
<1>4. ReservationsFit'
  <2>1. ReservationFits(t)'
    <3>1. d.at = "mark" => d.gfd \in DOMAIN gft
      BY DEF Idle, OpeningCall, TransferCall, SyncCall
    <3>2. d.at = "mark" => ~Lists(d.gfd, ThisPage(d))'
      BY <3>1, KeptStays DEF MayMark, ThisPage
    <3> QED BY <1>2, <3>2 DEF ReservationFits, MayMark, Rest, ThisPage
  <2>2. ASSUME NEW u \in Thread, u # t
        PROVE  ReservationFits(u)'
    <3>1. ReservationFits(u) /\ call'[u] = call[u]
      BY <1>2, <2>2 DEF BuffersInv, ReservationsFit
    <3>2. CASE call[u].at \in {"mark", "fill"}
      <4>1. call[u].gfd \in DOMAIN gft
        BY <1>1, <3>2, CallKinds DEF TablesInv, CallsFit, CallFits
      <4>2. /\ Kept(call[u].gfd)' = Kept(call[u].gfd)
            /\ \A p : Lists(call[u].gfd, p)' <=> Lists(call[u].gfd, p)
        BY <4>1, <3>1, KeptStays
      <4> QED BY <3>1, <4>2 DEF ReservationFits, Rest, ThisPage
    <3>3. CASE call[u].at \notin {"mark", "fill"}
      BY <3>1, <3>3 DEF ReservationFits
    <3> QED BY <3>2, <3>3
  <2> QED BY <2>1, <2>2 DEF ReservationsFit
<1> QED BY <1>3, <1>4 DEF BuffersInv

LEMMA ContentsStay ==
  ASSUME TablesInv, TablesInv', BuffersInv, ContentInv, NEW t \in Thread,
         NEW d \in {Idle} \cup OpeningCall \cup TransferCall \cup SyncCall, Goto(t, d),
         d.at # "fill", call[t].at # "fill",
         call[t].at = "write" /\ Rest(call[t]) > 0 => ~Lists(call[t].gfd, ThisPage(call[t])),
         EntriesStay, UNCHANGED <<cache, device, expected, spoiled>>
  PROVE  ContentInv'
<1>1. FilesTypeOK
  BY DEF TablesInv
<1>2. call'[t] = d /\ \A u \in Thread : u # t => call'[u] = call[u]
  BY <1>1, GotoFacts
<1>3. \A g, p : Filling(g, p)' <=> Filling(g, p)
  BY <1>2 DEF Filling, ThisPage
<1>4. \A g, p : Pending(g, p) /\ Lists(g, p) => Pending(g, p)'
  <2> SUFFICES ASSUME NEW g, NEW p, Pending(g, p), Lists(g, p), ~Filling(g, p)
               PROVE  Pending(g, p)'
    BY <1>3 DEF Pending
  <2>1. PICK u \in Thread : /\ call[u].at = "write" /\ Rest(call[u]) > 0
                            /\ call[u].gfd = g /\ ThisPage(call[u]) = p
    BY DEF Pending
  <2>2. u # t
    BY <2>1
  <2>3. call'[u] = call[u]
    BY <1>2, <2>2
  <2>4. /\ call'[u].at = "write" /\ Rest(call'[u]) > 0
        /\ call'[u].gfd = g /\ ThisPage(call'[u]) = p
    BY <2>1, <2>3
  <2> QED BY <2>4 DEF Pending, Rest, ThisPage
<1> SUFFICES ASSUME spoiled = {}
             PROVE  CleanIsStored' /\ CachedIsLatest' /\ StoredIsLatest'
  BY DEF ContentInv
<1>5. CleanIsStored /\ CachedIsLatest /\ StoredIsLatest
  BY DEF ContentInv
<1>6. \A g \in DOMAIN gft' : \A x \in Kept(g)' :
        /\ g \in DOMAIN gft /\ x \in Kept(g) /\ gft'[g].node = gft[g].node
        /\ ~Pending(g, x.page)' => ~Pending(g, x.page)
  <2>1. \A g \in DOMAIN gft' : \A x \in Kept(g)' : g \in DOMAIN gft /\ x \in Kept(g)
    BY KeptStays
  <2> QED BY <1>4, <2>1 DEF Lists, EntriesStay
<1>7. CleanIsStored'
  BY <1>5, <1>6 DEF CleanIsStored
<1>8. CachedIsLatest'
  BY <1>5, <1>6 DEF CachedIsLatest
<1>9. \A n \in File : (\A g \in DOMAIN gft' : gft'[g].node # n) => device[n] = expected[n]
  BY <1>5 DEF StoredIsLatest, EntriesStay
<1>10. \A g \in DOMAIN gft' : \A p \in PageIndex :
         ~Lists(g, p)' \/ Filling(g, p)' => device[gft'[g].node][p] = expected[gft'[g].node][p]
  <2> TAKE g \in DOMAIN gft'
  <2>1. CASE g \in DOMAIN gft
    <3>1. gft'[g].node = gft[g].node /\ \A p : Lists(g, p)' <=> Lists(g, p)
      BY <2>1, KeptStays DEF EntriesStay
    <3> QED BY <1>3, <1>5, <2>1, <3>1 DEF StoredIsLatest
  <2>2. CASE g \notin DOMAIN gft
    <3>1. gft'[g].node \in File
      <4>1. gft'[g] \in Entry
        BY DEF TablesInv, FilesTypeOK
      <4> QED BY <4>1 DEF Entry
    <3>2. \A h \in DOMAIN gft : gft[h].node # gft'[g].node
      <4>1. OneEntryEach'
        BY DEF TablesInv
      <4> QED BY <2>2, <4>1 DEF OneEntryEach, EntriesStay
    <3>3. device[gft'[g].node] = expected[gft'[g].node]
      BY <1>5, <3>1, <3>2 DEF StoredIsLatest
    <3> QED BY <3>3
  <2> QED BY <2>1, <2>2
<1>11. StoredIsLatest'
  BY <1>9, <1>10 DEF StoredIsLatest
<1> QED BY <1>7, <1>8, <1>11

LEMMA OpeningStep ==
  ASSUME FilesInv, NEW t \in Thread,
         \/ \E path : \E flags \in Flags : OpenGlobal(t, path, flags)
         \/ OpenLocal(t) \/ OpenLocalFails(t) \/ OpenUndo(t) \/ OpenDriver(t)
  PROVE  FilesInv'
<1>1. TablesInv /\ BuffersInv /\ ContentInv /\ FilesTypeOK
  BY DEF FilesInv, TablesInv
<1>2. ASSUME TablesInv', EntriesStay,
             NEW d \in {Idle} \cup OpeningCall, Goto(t, d), call[t].at \notin {"fill", "write"},
             UNCHANGED <<alloced_bitmap, cache, device, expected, spoiled>>
      PROVE  FilesInv'
  <2>1. d.at # "fill" /\ d.at # "mark" /\ d \notin TransferCall
    BY DEF Idle, OpeningCall, TransferCall
  <2>2. BuffersInv'
    BY <1>1, <1>2, <2>1, BuffersStay DEF MayMark, Spoils
  <2>3. ContentInv'
    BY <1>1, <1>2, <2>1, ContentsStay
  <2> QED BY <1>2, <2>2, <2>3 DEF FilesInv
<1>3. ASSUME NEW path, NEW flags \in Flags, OpenGlobal(t, path, flags)
      PROVE  FilesInv'
  <2> DEFINE n == FindRelative(vfs_root, path)
             m == IF gft_get_n(n) # {} THEN Min(gft_get_n(n)) ELSE Len(gft) + 1
             d == [at |-> "local", node |-> n, flags |-> flags, gfd |-> m]
  <2>1. TablesInv' /\ EntriesStay
    BY <1>1, <1>3, OpenGlobalKeepsTables DEF EntriesStay
  <2>2. /\ call[t].at = "idle" /\ Goto(t, d) /\ n \in File
        /\ UNCHANGED <<alloced_bitmap, cache, device, expected, spoiled>>
    BY <1>3 DEF OpenGlobal, Doing, store
  <2> HIDE DEF n
  <2>3. m \in Nat
    <3>1. CASE gft_get_n(n) = {}
      BY <1>1, <3>1 DEF FilesTypeOK
    <3>2. CASE gft_get_n(n) # {}
      BY <1>1, <2>2, <3>2, EntryOf DEF FilesTypeOK
    <3> QED BY <3>1, <3>2
  <2> HIDE DEF m
  <2>4. d \in OpeningCall
    BY <2>2, <2>3 DEF OpeningCall
  <2> HIDE DEF d
  <2> QED BY <1>2, <2>1, <2>2, <2>4
<1>4. CASE OpenLocal(t)
  <2> DEFINE d == [call[t] EXCEPT !.at = "driver"]
  <2>1. TablesInv'
    BY <1>1, <1>4, OpenLocalKeepsTables
  <2>2. /\ call[t].at = "local" /\ Goto(t, d) /\ EntriesStay
        /\ UNCHANGED <<alloced_bitmap, cache, device, expected, spoiled>>
    BY <1>4 DEF OpenLocal, Doing, store, EntriesStay
  <2>3. call[t] \in OpeningCall
    BY <1>1, <2>2, CallKinds
  <2>4. d \in OpeningCall
    BY <2>3 DEF OpeningCall
  <2> HIDE DEF d
  <2> QED BY <1>2, <2>1, <2>2, <2>4
<1>5. CASE OpenLocalFails(t)
  <2> DEFINE d == [call[t] EXCEPT !.at = "undo"]
  <2>1. TablesInv'
    BY <1>1, <1>5, OpeningGoesOn
  <2>2. /\ call[t].at = "local" /\ Goto(t, d) /\ EntriesStay
        /\ UNCHANGED <<alloced_bitmap, cache, device, expected, spoiled>>
    BY <1>5 DEF OpenLocalFails, Doing, store, tables, EntriesStay
  <2>3. call[t] \in OpeningCall
    BY <1>1, <2>2, CallKinds
  <2>4. d \in OpeningCall
    BY <2>3 DEF OpeningCall
  <2> HIDE DEF d
  <2> QED BY <1>2, <2>1, <2>2, <2>4
<1>6. CASE OpenUndo(t)
  <2>1. TablesInv' /\ EntriesStay
    BY <1>1, <1>6, OpenUndoKeepsTables DEF EntriesStay
  <2>2. /\ call[t].at = "undo" /\ Goto(t, Idle)
        /\ UNCHANGED <<alloced_bitmap, cache, device, expected, spoiled>>
    BY <1>6 DEF OpenUndo, Doing, Return, store
  <2> QED BY <1>2, <2>1, <2>2
<1>7. CASE OpenDriver(t)
  <2>1. TablesInv'
    BY <1>1, <1>7, OpeningGoesOn
  <2>2. /\ call[t].at = "driver" /\ Goto(t, Idle) /\ EntriesStay
        /\ UNCHANGED <<alloced_bitmap, cache, device, expected, spoiled>>
    BY <1>7 DEF OpenDriver, Doing, Return, store, tables, EntriesStay
  <2> QED BY <1>2, <2>1, <2>2
<1> QED BY <1>3, <1>4, <1>5, <1>6, <1>7

\* A step of a transfer or a sync that moves nothing
LEMMA QuietStep ==
  ASSUME FilesInv, NEW t \in Thread, t \in IoThread, call[t] \notin OpeningCall,
         NEW d \in {Idle} \cup TransferCall \cup SyncCall, Goto(t, d),
         d # Idle => d.gfd \in DOMAIN gft /\ d.node = gft[d.gfd].node,
         d \in TransferCall => d.done <= d.count,
         UNCHANGED <<tables, device, expected>>, alloced_bitmap' \subseteq alloced_bitmap,
         Spoils, "unmarked" \in spoiled' \/ alloced_bitmap' = alloced_bitmap,
         DOMAIN cache' = Buffer, file_length' \in [File -> Nat],
         d.at # "fill", call[t].at # "fill", MayMark(d),
         call[t].at = "write" /\ Rest(call[t]) > 0 => ~Lists(call[t].gfd, ThisPage(call[t])),
         UNCHANGED <<cache, spoiled>> \/ spoiled' # {}
  PROVE  FilesInv'
<1>1. /\ TablesInv /\ BuffersInv /\ ContentInv /\ FilesTypeOK
      /\ EntriesStay /\ UNCHANGED <<gft, lft>>
  BY DEF FilesInv, TablesInv, tables, EntriesStay
<1>2. TablesInv'
  <2>1. /\ gft \in Seq(Entry) /\ alloced_bitmap' \subseteq Buffer
        /\ DOMAIN device = File /\ \A n \in File : DOMAIN device[n] = PageIndex
        /\ DOMAIN expected = File /\ \A n \in File : DOMAIN expected[n] = PageIndex
    BY <1>1 DEF FilesTypeOK
  <2> QED BY <1>1, <2>1, TransferKeepsTables
<1>3. BuffersInv'
  <2>1. d \in TransferCall => d.gfd \in DOMAIN gft
    BY DEF Idle, TransferCall
  <2> QED BY <1>1, <2>1, BuffersStay
<1>4. ContentInv'
  <2>1. CASE UNCHANGED <<cache, spoiled>>
    BY <1>1, <1>2, <2>1, ContentsStay
  <2>2. CASE spoiled' # {}
    BY <2>2 DEF ContentInv
  <2> QED BY <2>1, <2>2
<1> QED BY <1>2, <1>3, <1>4 DEF FilesInv

\* What is known of a transfer and of a sync under way
LEMMA TransferFacts ==
  ASSUME TablesInv, NEW t \in Thread
  PROVE  /\ call[t].at \in {"read", "write", "mark", "fill"} =>
              call[t] \in TransferCall /\ call[t].done <= call[t].count
         /\ call[t].at = "sync" => call[t] \in SyncCall
         /\ call[t].at \in {"read", "write", "mark", "fill", "sync"} =>
              /\ t \in IoThread /\ call[t] \notin OpeningCall /\ call[t].gfd \in DOMAIN gft
              /\ call[t].node = gft[call[t].gfd].node
         /\ call[t].at = "idle" => call[t] \notin OpeningCall
<1>1. FilesTypeOK /\ CallFits(t)
  BY DEF TablesInv, CallsFit
<1> QED BY <1>1, CallKinds DEF CallFits

\* A call that ends
LEMMA EndingStep ==
  ASSUME FilesInv, NEW t \in Thread, call[t].at \in {"read", "write", "mark", "sync"}, Return(t),
         UNCHANGED <<tables, alloced_bitmap, cache, device, expected, spoiled>>,
         file_length' \in [File -> Nat],
         call[t].at = "write" /\ Rest(call[t]) > 0 => ~Lists(call[t].gfd, ThisPage(call[t]))
  PROVE  FilesInv'
<1>1. TablesInv /\ DOMAIN cache = Buffer
  BY DEF FilesInv, TablesInv, FilesTypeOK
<1>2. /\ t \in IoThread /\ call[t] \notin OpeningCall /\ call[t].at # "fill"
      /\ Goto(t, Idle) /\ MayMark(Idle) /\ Idle.at # "fill" /\ Idle \notin TransferCall
  BY <1>1, TransferFacts DEF Return, MayMark, Idle, TransferCall
<1> QED BY <1>1, <1>2, QuietStep DEF Spoils

LEMMA BeginTransferStep ==
  ASSUME FilesInv, NEW t \in Thread, NEW op \in {"read", "write"}, NEW fd \in DOMAIN lft[process[t]],
         NEW start \in PageIndex, NEW number \in Counts, NEW v \in Value \cup {0},
         BeginTransfer(t, op, fd, start, number, v)
  PROVE  FilesInv'
<1>1. TablesInv /\ FilesTypeOK /\ DOMAIN cache = Buffer
  BY DEF FilesInv, TablesInv, FilesTypeOK
<1>2. PICK g, n : g = lft[process[t]][fd].gfd /\ n = gft[g].node
  OBVIOUS
<1> DEFINE d == [at |-> op, op |-> op, gfd |-> g, node |-> n, start |-> start, count |-> number,
                 page |-> 0, done |-> 0, value |-> v, buffer |-> 0]
<1>3. /\ t \in IoThread /\ call[t].at = "idle" /\ Goto(t, d)
      /\ UNCHANGED <<tables, alloced_bitmap, cache, device, file_length, expected, spoiled>>
  BY <1>2 DEF BeginTransfer, Doing, store
<1>4. g \in DOMAIN gft
  BY <1>1, <1>2 DEF TablesInv, DescriptorsKnown, Process
<1>5. gft[g] \in Entry /\ g \in Nat
  BY <1>1, <1>4 DEF FilesTypeOK
<1>6. n \in File
  BY <1>2, <1>5 DEF Entry
<1>7. number \in Nat /\ 0 \in Buffer /\ start \in Nat /\ 0 <= number
  BY FilesAssumption DEF Buffer, PageIndex
<1>8. d \in TransferCall
  BY <1>5, <1>6, <1>7 DEF TransferCall
<1>9. d.gfd = g /\ d.node = n /\ d.done <= d.count /\ d.at # "fill" /\ MayMark(d)
  BY <1>7 DEF MayMark
<1> HIDE DEF d
<1>10. call[t] \notin OpeningCall /\ file_length' \in [File -> Nat]
  BY <1>1, <1>3, TransferFacts DEF FilesTypeOK
<1> QED BY <1>1, <1>2, <1>3, <1>4, <1>8, <1>9, <1>10, QuietStep DEF Spoils

LEMMA SyncStep ==
  ASSUME FilesInv, NEW t \in Thread, NEW fd \in DOMAIN lft[process[t]],
         NEW first \in PageIndex, NEW last \in PageIndex, Sync(t, fd, first, last)
  PROVE  FilesInv'
<1>1. TablesInv /\ FilesTypeOK /\ DOMAIN cache = Buffer
  BY DEF FilesInv, TablesInv, FilesTypeOK
<1>2. PICK g, n : g = lft[process[t]][fd].gfd /\ n = gft[g].node
  OBVIOUS
<1> DEFINE from == IF last < first THEN 0 ELSE first
           upto == IF last < first THEN PagesOf(file_length[n]) ELSE last
           d == [at |-> "sync", gfd |-> g, node |-> n, start |-> from, page |-> from, end |-> upto]
<1>3. /\ t \in IoThread /\ call[t].at = "idle" /\ Goto(t, d)
      /\ UNCHANGED <<tables, alloced_bitmap, cache, device, file_length, expected, spoiled>>
  BY <1>2 DEF Sync, Doing, store
<1>4. g \in DOMAIN gft
  BY <1>1, <1>2 DEF TablesInv, DescriptorsKnown, Process
<1>5. gft[g] \in Entry /\ g \in Nat
  BY <1>1, <1>4 DEF FilesTypeOK
<1>6. n \in File
  BY <1>2, <1>5 DEF Entry
<1>7. from \in Nat /\ upto \in Int
  <2>1. file_length[n] \in Nat
    BY <1>1, <1>6 DEF FilesTypeOK
  <2>2. PagesOf(file_length[n]) \in Int
    BY <2>1, FilesAssumption DEF PagesOf
  <2> QED BY <2>2, FilesAssumption DEF PageIndex
<1> HIDE DEF from, upto
<1>8. d \in SyncCall
  BY <1>5, <1>6, <1>7 DEF SyncCall
<1>9. d.gfd = g /\ d.node = n /\ d.at # "fill" /\ MayMark(d) /\ d \notin TransferCall
  BY DEF MayMark, TransferCall
<1> HIDE DEF d
<1>10. call[t] \notin OpeningCall /\ file_length' \in [File -> Nat]
  BY <1>1, <1>3, TransferFacts DEF FilesTypeOK
<1> QED BY <1>1, <1>2, <1>3, <1>4, <1>8, <1>9, <1>10, QuietStep DEF Spoils

LEMMA FindStep ==
  ASSUME FilesInv, NEW t \in Thread, Find(t)
  PROVE  FilesInv'
<1> DEFINE c == call[t]
           b == Min(Free)
           d == [c EXCEPT !.at = "mark", !.buffer = b]
<1>1. TablesInv /\ FilesTypeOK /\ DOMAIN cache = Buffer /\ PagesApart /\ file_length \in [File -> Nat]
  BY DEF FilesInv, BuffersInv, TablesInv, FilesTypeOK
<1>2. /\ c.at \in {"read", "write"} /\ Rest(c) > 0 /\ ~Cached(c.gfd, ThisPage(c))
      /\ IF Free = {} THEN Return(t) ELSE Goto(t, d)
      /\ UNCHANGED <<tables, alloced_bitmap, cache, device, file_length, expected, spoiled>>
  BY DEF Find, Doing, store
<1>3. /\ c \in TransferCall /\ c.done <= c.count /\ t \in IoThread /\ c \notin OpeningCall
      /\ c.gfd \in DOMAIN gft /\ c.node = gft[c.gfd].node
  BY <1>1, <1>2, TransferFacts
<1>4. ~Lists(c.gfd, ThisPage(c))
  BY <1>1, <1>2, <1>3, InfoFacts
<1>5. CASE Free = {}
  BY <1>1, <1>2, <1>4, <1>5, EndingStep
<1>6. CASE Free # {}
  <2>1. b \in Free
    <3>1. Free \in SUBSET Nat
      BY FilesAssumption DEF Free, Buffer
    <3> QED BY <1>6, <3>1, LeastElement DEF Min
  <2>2. b \in Buffer /\ b \notin alloced_bitmap
    BY <2>1 DEF Free
  <2> HIDE DEF b
  <2>3. /\ d \in TransferCall /\ d.at = "mark" /\ d.buffer = b /\ d.gfd = c.gfd /\ d.node = c.node
        /\ d.done = c.done /\ d.count = c.count /\ ThisPage(d) = ThisPage(c) /\ Rest(d) = Rest(c)
    BY <1>3, <2>2 DEF TransferCall, ThisPage, Rest
  <2> HIDE DEF d
  <2>4. MayMark(d) /\ c.at # "fill" /\ d.at # "fill" /\ d.done <= d.count
    BY <1>2, <1>3, <1>4, <2>2, <2>3 DEF MayMark
  <2>5. Goto(t, d)
    BY <1>2, <1>6
  <2> QED BY <1>1, <1>2, <1>3, <1>4, <2>3, <2>4, <2>5, QuietStep DEF Spoils
<1> QED BY <1>5, <1>6

LEMMA MarkFailsStep ==
  ASSUME FilesInv, NEW t \in Thread, MarkFails(t)
  PROVE  FilesInv'
<1>1. ReservationFits(t) /\ file_length \in [File -> Nat]
  BY DEF FilesInv, BuffersInv, ReservationsFit, TablesInv, FilesTypeOK
<1>2. call[t].at = "mark" /\ alloced_bitmap' = alloced_bitmap \ {call[t].buffer} /\ Return(t)
  BY DEF MarkFails, Doing
<1>3. alloced_bitmap' = alloced_bitmap
  BY <1>1, <1>2 DEF ReservationFits
<1>4. UNCHANGED <<tables, alloced_bitmap, cache, device, file_length, expected, spoiled>>
  BY <1>3 DEF MarkFails
<1> QED BY <1>1, <1>2, <1>4, EndingStep

\* One page further: no further than the count
LEMMA AdvancedFacts ==
  ASSUME NEW c \in TransferCall, c.done <= c.count
  PROVE  /\ Advanced(c) \in TransferCall /\ Advanced(c).at \in {"read", "write"}
         /\ Advanced(c).gfd = c.gfd /\ Advanced(c).node = c.node
         /\ Advanced(c).done <= Advanced(c).count
<1>1. c.done \in Nat /\ c.count \in Nat /\ c.page \in Nat /\ c.op \in {"read", "write"}
  BY DEF TransferCall
<1> DEFINE m == c.done + Min2(Rest(c), Cells)
           k == c.page + 1
<1>2. m \in Nat /\ m <= c.count /\ k \in Nat
  BY <1>1, FilesAssumption DEF Rest, Min2
<1>3. Advanced(c) = [c EXCEPT !.at = c.op, !.page = k, !.done = m]
  BY DEF Advanced
<1> HIDE DEF m, k
<1>4. /\ [c EXCEPT !.at = c.op, !.page = k, !.done = m] \in TransferCall
      /\ [c EXCEPT !.at = c.op, !.page = k, !.done = m].done = m
      /\ [c EXCEPT !.at = c.op, !.page = k, !.done = m].count = c.count
      /\ [c EXCEPT !.at = c.op, !.page = k, !.done = m].at = c.op
      /\ [c EXCEPT !.at = c.op, !.page = k, !.done = m].gfd = c.gfd
      /\ [c EXCEPT !.at = c.op, !.page = k, !.done = m].node = c.node
  BY <1>1, <1>2 DEF TransferCall
<1> QED BY <1>1, <1>2, <1>3, <1>4

LEMMA CopyOutStep ==
  ASSUME FilesInv, NEW t \in Thread, CopyOut(t)
  PROVE  FilesInv'
<1> DEFINE c == call[t]
           d == Advanced(c)
<1>1. TablesInv /\ DOMAIN cache = Buffer /\ file_length \in [File -> Nat]
  BY DEF FilesInv, TablesInv, FilesTypeOK
<1>2. /\ c.at = "read" /\ Rest(c) > 0 /\ Goto(t, d)
      /\ UNCHANGED <<tables, device, file_length, expected>>
      /\ UNCHANGED <<cache, spoiled>> \/ spoiled' # {}
  BY DEF CopyOut, Doing
<1>7. /\ alloced_bitmap' \subseteq alloced_bitmap /\ Spoils
      /\ "unmarked" \in spoiled' \/ alloced_bitmap' = alloced_bitmap
  BY DEF CopyOut, Unmarked, Spoils
<1>3. DOMAIN cache' = Buffer
  BY <1>1 DEF CopyOut, Cleared
<1>4. /\ c \in TransferCall /\ c.done <= c.count /\ t \in IoThread /\ c \notin OpeningCall
      /\ c.gfd \in DOMAIN gft /\ c.node = gft[c.gfd].node
  BY <1>1, <1>2, TransferFacts
<1>5. /\ d \in TransferCall /\ d.at \in {"read", "write"} /\ d.gfd = c.gfd /\ d.node = c.node
      /\ d.done <= d.count
  BY <1>2, <1>4, AdvancedFacts
<1> HIDE DEF d
<1>6. MayMark(d) /\ d.at # "fill" /\ c.at # "fill" /\ file_length' \in [File -> Nat]
  BY <1>1, <1>2, <1>5 DEF MayMark
<1> QED BY <1>1, <1>2, <1>3, <1>4, <1>5, <1>6, <1>7, QuietStep

LEMMA EndSteps ==
  ASSUME FilesInv, NEW t \in Thread, ReadEnds(t) \/ WriteEnds(t) \/ SyncEnds(t)
  PROVE  FilesInv'
<1>1. TablesInv /\ file_length \in [File -> Nat]
  BY DEF FilesInv, TablesInv, FilesTypeOK
<1>2. CASE ReadEnds(t) \/ SyncEnds(t)
  <2>1. /\ call[t].at \in {"read", "sync"} /\ Return(t)
        /\ UNCHANGED <<tables, alloced_bitmap, cache, device, file_length, expected, spoiled>>
    BY <1>2 DEF ReadEnds, SyncEnds, Doing, store
  <2> QED BY <1>1, <2>1, EndingStep
<1>3. CASE WriteEnds(t)
  <2> DEFINE c == call[t]
             end == c.start * Cells + c.done
  <2>1. /\ c.at = "write" /\ Rest(c) = 0 /\ Return(t)
        /\ file_length' = [file_length EXCEPT ![c.node] = IF end > @ THEN end ELSE @]
        /\ UNCHANGED <<tables, alloced_bitmap, cache, device, expected, spoiled>>
    BY <1>3 DEF WriteEnds, Doing
  <2>2. c \in TransferCall
    BY <1>1, <2>1, TransferFacts
  <2>3. end \in Nat
    BY <2>2, FilesAssumption DEF TransferCall
  <2> HIDE DEF end
  <2>4. file_length' \in [File -> Nat]
    BY <1>1, <2>1, <2>3
  <2> QED BY <2>1, <2>4, EndingStep
<1> QED BY <1>2, <1>3

LEMMA SyncSkipStep ==
  ASSUME FilesInv, NEW t \in Thread, SyncSkip(t)
  PROVE  FilesInv'
<1> DEFINE c == call[t]
           d == [c EXCEPT !.page = @ + 1]
<1>1. TablesInv /\ DOMAIN cache = Buffer /\ file_length \in [File -> Nat]
  BY DEF FilesInv, TablesInv, FilesTypeOK
<1>2. /\ c.at = "sync" /\ Goto(t, d)
      /\ UNCHANGED <<tables, alloced_bitmap, cache, device, file_length, expected, spoiled>>
  BY DEF SyncSkip, Doing, store
<1>3. /\ c \in SyncCall /\ t \in IoThread /\ c \notin OpeningCall
      /\ c.gfd \in DOMAIN gft /\ c.node = gft[c.gfd].node
  BY <1>1, <1>2, TransferFacts
<1>4. d \in SyncCall /\ d.at = "sync" /\ d.gfd = c.gfd /\ d.node = c.node
  BY <1>3 DEF SyncCall
<1> HIDE DEF d
<1>5. MayMark(d) /\ d.at # "fill" /\ c.at # "fill" /\ d \notin TransferCall
  BY <1>2, <1>4 DEF MayMark, TransferCall
<1> QED BY <1>1, <1>2, <1>3, <1>4, <1>5, QuietStep DEF Spoils

-----------------------------------------------------------------------------
(* The steps that move pages and cells, while nobody else transfers *)

Fills(c, g, p) == c.at = "fill" /\ c.gfd = g /\ ThisPage(c) = p
Writes(c, g, p) == c.at = "write" /\ Rest(c) > 0 /\ c.gfd = g /\ ThisPage(c) = p

LEMMA OnlyThisCall ==
  ASSUME OneTransfers, TablesInv, NEW t \in Thread, t \in IoThread, NEW d, Goto(t, d)
  PROVE  /\ \A g, p : /\ Filling(g, p) <=> Fills(call[t], g, p)
                      /\ Pending(g, p) <=> Fills(call[t], g, p) \/ Writes(call[t], g, p)
         /\ \A g, p : /\ Filling(g, p)' <=> Fills(d, g, p)
                      /\ Pending(g, p)' <=> Fills(d, g, p) \/ Writes(d, g, p)
         /\ \A u \in Thread : u # t => ReservationFits(u)'
<1>1. call'[t] = d /\ \A u \in Thread : u # t => call'[u] = call[u]
  BY GotoFacts DEF TablesInv
<1>2. \A u \in Thread : u # t => call[u].at \notin {"read", "write", "mark", "fill", "sync"}
  BY OtherCalls
<1>3. \A u \in Thread : u # t => call'[u].at \notin {"read", "write", "mark", "fill", "sync"}
  BY <1>1, <1>2
<1>4. \A g, p : /\ Filling(g, p) <=> Fills(call[t], g, p)
                /\ Pending(g, p) <=> Fills(call[t], g, p) \/ Writes(call[t], g, p)
  BY <1>2 DEF Filling, Pending, Fills, Writes
<1>5. \A g, p : Filling(g, p)' <=> Fills(d, g, p)
  BY <1>1, <1>3 DEF Filling, Fills, ThisPage
<1>6. \A g, p : Pending(g, p)' <=> Fills(d, g, p) \/ Writes(d, g, p)
  BY <1>1, <1>3, <1>5 DEF Pending, Writes, ThisPage, Rest
<1>7. \A u \in Thread : u # t => ReservationFits(u)'
  BY <1>3 DEF ReservationFits
<1> QED BY <1>4, <1>5, <1>6, <1>7

LEMMA MarkStep ==
  ASSUME OneTransfers, FilesInv, NEW t \in Thread, Mark(t)
  PROVE  FilesInv'
<1> DEFINE c == call[t]
           x0 == [page |-> ThisPage(c), buffer |-> c.buffer, dirty |-> FALSE]
           d == [c EXCEPT !.at = IF c.op = "read" THEN "fill" ELSE "write",
                          !.buffer = IF c.op = "read" THEN @ ELSE 0]
<1>1. TablesInv /\ FilesTypeOK /\ PagesApart /\ ReservationFits(t) /\ ContentInv
  BY DEF FilesInv, BuffersInv, ReservationsFit, TablesInv
<1>2. PICK g, x, k : g = c.gfd /\ x = x0 /\ k = ThisPage(c)
  OBVIOUS
<1>3. /\ c.at = "mark" /\ alloced_bitmap' = alloced_bitmap \cup {x.buffer} /\ Goto(t, d)
      /\ gft' = [gft EXCEPT ![g].pages = Append(@, x)]
      /\ UNCHANGED <<lft, cache, device, file_length, expected, spoiled>>
  BY <1>2 DEF Mark, Doing
<1>4. /\ c \in TransferCall /\ c.done <= c.count /\ t \in IoThread /\ c \notin OpeningCall
      /\ g \in DOMAIN gft /\ c.node = gft[g].node
  BY <1>1, <1>2, <1>3, TransferFacts
<1>5. /\ x.buffer \notin alloced_bitmap /\ ~Lists(g, k) /\ Rest(c) > 0
      /\ x \in Info /\ x.page = k /\ x.dirty = FALSE
  BY <1>1, <1>2, <1>3, <1>4 DEF ReservationFits, Info, TransferCall, ThisPage
<1>6. /\ d \in TransferCall /\ d.gfd = g /\ d.node = c.node /\ d.done = c.done /\ d.count = c.count
      /\ ThisPage(d) = k /\ Rest(d) = Rest(c) /\ d.at \in {"fill", "write"}
      /\ d.at = "fill" => d.buffer = c.buffer
  <2> DEFINE place == IF c.op = "read" THEN "fill" ELSE "write"
             b == IF c.op = "read" THEN c.buffer ELSE 0
  <2>1. /\ place \in {"fill", "write"} /\ b \in Buffer
        /\ place = "fill" => b = c.buffer
    BY <1>4, FilesAssumption DEF TransferCall, Buffer
  <2>2. d = [c EXCEPT !.at = place, !.buffer = b]
    OBVIOUS
  <2> HIDE DEF place, b, d
  <2>3. /\ d \in TransferCall /\ d.gfd = c.gfd /\ d.node = c.node /\ d.done = c.done
        /\ d.count = c.count /\ d.start = c.start /\ d.page = c.page /\ d.at = place /\ d.buffer = b
    BY <1>4, <2>1, <2>2 DEF TransferCall
  <2> QED BY <1>2, <2>1, <2>3 DEF ThisPage, Rest
<1>7. x.buffer = c.buffer
  BY <1>2
<1>8. x = [page |-> k, buffer |-> c.buffer, dirty |-> FALSE]
  BY <1>2
<1> HIDE DEF d, x0
<1> DEFINE l == Append(gft[g].pages, x)
<1>9. x \notin Kept(g) /\ gft[g].pages \in Seq(Info) /\ NoDuplicates(gft[g].pages)
  BY <1>1, <1>4, <1>5, InfoFacts DEF Lists
<1>10. l \in Seq(Info) /\ NoDuplicates(l) /\ Nodes(l) = Kept(g) \cup {x}
  BY <1>5, <1>9, ListedFacts DEF Kept
<1>11. gft' = [gft EXCEPT ![g] = [gft[g] EXCEPT !.pages = l]]
  BY <1>3
<1> HIDE DEF l
<1>12. /\ gft' \in Seq(Entry) /\ DOMAIN gft' = DOMAIN gft /\ gft'[g].pages = l
       /\ \A h \in DOMAIN gft : gft'[h].node = gft[h].node /\ gft'[h].open_count = gft[h].open_count
       /\ \A h \in DOMAIN gft : h # g => gft'[h].pages = gft[h].pages
  BY <1>1, <1>4, <1>10, <1>11, PagesReplaced
<1>13. /\ Kept(g)' = Kept(g) \cup {x}
       /\ \A h \in DOMAIN gft : h # g => Kept(h)' = Kept(h)
  <2>1. Kept(g)' = Nodes(l)
    BY <1>12 DEF Kept, Nodes
  <2>2. \A h \in DOMAIN gft : h # g => Kept(h)' = Kept(h)
    BY <1>12 DEF Kept, Nodes
  <2> QED BY <1>10, <2>1, <2>2
<1>14. TablesInv'
  <2>1. alloced_bitmap' \subseteq Buffer
    BY <1>1, <1>3, <1>4, <1>7 DEF FilesTypeOK, TransferCall
  <2>2. /\ DOMAIN cache' = Buffer /\ file_length' \in [File -> Nat]
        /\ DOMAIN device' = File /\ \A n \in File : DOMAIN device'[n] = PageIndex
        /\ DOMAIN expected' = File /\ \A n \in File : DOMAIN expected'[n] = PageIndex
    BY <1>1, <1>3 DEF FilesTypeOK
  <2>3. lft' = lft /\ d.done <= d.count /\ d.node = gft[d.gfd].node /\ d.gfd \in DOMAIN gft
    BY <1>3, <1>4, <1>6
  <2> QED BY <1>1, <1>3, <1>4, <1>6, <1>12, <2>1, <2>2, <2>3, TransferKeepsTables
<1>15. PagesApart'
  <2>3. \A y \in Kept(g) : y.page # x.page
    BY <1>5 DEF Lists
  <2>4. \A h \in DOMAIN gft : NoDuplicates(gft'[h].pages)
    BY <1>1, <1>10, <1>12 DEF PagesApart, PagesListed
  <2>5. \A h \in DOMAIN gft : \A y, z \in Kept(h)' : y.page = z.page => y = z
    BY <1>1, <1>13, <2>3 DEF PagesApart, PagesListed
  <2>8. PagesListed'
    BY <1>12, <2>4, <2>5 DEF PagesListed
  <2> SUFFICES ASSUME "unmarked" \notin spoiled
               PROVE  BuffersMarked'
    BY <1>3, <2>8 DEF PagesApart
  <2>1. \A h \in DOMAIN gft : \A y \in Kept(h) : y.buffer \in alloced_bitmap \ {Buffers - 1}
    BY <1>1 DEF PagesApart, BuffersMarked
  <2>2. Buffers - 1 \in alloced_bitmap /\ x.buffer # Buffers - 1
    BY <1>1, <1>5 DEF PagesApart, BuffersMarked
  <2>6. \A h, j \in DOMAIN gft : \A y \in Kept(h)', z \in Kept(j)' :
           y.buffer = z.buffer => h = j /\ y = z
    BY <1>1, <1>5, <1>13, <2>1 DEF PagesApart, BuffersMarked
  <2>7. \A h \in DOMAIN gft : \A y \in Kept(h)' : y.buffer \in alloced_bitmap' \ {Buffers - 1}
    BY <1>3, <1>13, <2>1, <2>2
  <2> QED BY <1>3, <1>12, <2>2, <2>6, <2>7 DEF BuffersMarked
<1>16. /\ \A h, p : /\ Filling(h, p) <=> Fills(c, h, p)
                    /\ Pending(h, p) <=> Fills(c, h, p) \/ Writes(c, h, p)
       /\ \A h, p : /\ Filling(h, p)' <=> Fills(d, h, p)
                    /\ Pending(h, p)' <=> Fills(d, h, p) \/ Writes(d, h, p)
       /\ \A u \in Thread : u # t => ReservationFits(u)'
  BY <1>1, <1>3, <1>4, OnlyThisCall
<1>17. ReservationsFit'
  <2>1. call'[t] = d
    BY <1>1, <1>3, GotoFacts
  <2>2. ReservationFits(t)'
    BY <1>6, <1>8, <1>13, <2>1 DEF ReservationFits, ThisPage
  <2> QED BY <1>16, <2>2 DEF ReservationsFit
<1>18. ContentInv'
  <2> SUFFICES ASSUME spoiled = {}
               PROVE  CleanIsStored' /\ CachedIsLatest' /\ StoredIsLatest'
    BY <1>3 DEF ContentInv
  <2>1. CleanIsStored /\ CachedIsLatest /\ StoredIsLatest
    BY <1>1 DEF ContentInv
  <2>2. \A h, p : ~Pending(h, p)
    BY <1>3, <1>16 DEF Fills, Writes
  <2>3. Pending(g, k)' /\ (d.at = "fill" => Filling(g, k)')
    BY <1>5, <1>6, <1>16 DEF Fills, Writes
  <2>4. \A h \in DOMAIN gft' : \A y \in Kept(h)' :
          ~Pending(h, y.page)' => h \in DOMAIN gft /\ y \in Kept(h)
    BY <1>5, <1>12, <1>13, <2>3
  <2>5. CleanIsStored'
    BY <1>3, <1>12, <2>1, <2>2, <2>4 DEF CleanIsStored
  <2>6. CachedIsLatest'
    BY <1>3, <1>12, <2>1, <2>2, <2>4 DEF CachedIsLatest
  <2>7. \A h \in DOMAIN gft : \A p : Lists(h, p) => Lists(h, p)'
    BY <1>13 DEF Lists
  <2>8. \A h, p : Filling(h, p)' => h = g /\ p = k
    BY <1>6, <1>16 DEF Fills
  <2>9. \A h \in DOMAIN gft : \A p : ~Lists(h, p)' \/ Filling(h, p)' => ~Lists(h, p)
    BY <1>5, <2>7, <2>8
  <2>10. StoredIsLatest'
    BY <1>3, <1>12, <2>1, <2>9 DEF StoredIsLatest
  <2> QED BY <2>5, <2>6, <2>10
<1> QED BY <1>14, <1>15, <1>17, <1>18 DEF FilesInv, BuffersInv

LEMMA FillStep ==
  ASSUME OneTransfers, FilesInv, NEW t \in Thread, Fill(t)
  PROVE  FilesInv'
<1> DEFINE c == call[t]
           d == [c EXCEPT !.at = "read", !.buffer = 0]
<1>1. TablesInv /\ FilesTypeOK /\ PagesApart /\ ReservationFits(t) /\ ContentInv
  BY DEF FilesInv, BuffersInv, ReservationsFit, TablesInv
<1>2. PICK g, k, x : /\ g = c.gfd /\ k = ThisPage(c)
                     /\ x = [page |-> k, buffer |-> c.buffer, dirty |-> FALSE]
  OBVIOUS
<1>3. /\ c.at = "fill" /\ cache' = [cache EXCEPT ![x.buffer] = device[c.node][k]] /\ Goto(t, d)
      /\ UNCHANGED <<gft, lft, alloced_bitmap, device, file_length, expected, spoiled>>
  BY <1>2 DEF Fill, Doing, tables
<1>4. /\ c \in TransferCall /\ c.done <= c.count /\ t \in IoThread /\ c \notin OpeningCall
      /\ g \in DOMAIN gft /\ c.node = gft[g].node
  BY <1>1, <1>2, <1>3, TransferFacts
<1>5. x \in Kept(g) /\ x.page = k /\ x.buffer = c.buffer
  BY <1>1, <1>2, <1>3 DEF ReservationFits
<1>6. /\ d \in TransferCall /\ d.gfd = g /\ d.node = c.node /\ d.done = c.done /\ d.count = c.count
      /\ d.at = "read"
  <2>1. 0 \in Buffer
    BY FilesAssumption DEF Buffer
  <2>2. /\ d \in TransferCall /\ d.gfd = c.gfd /\ d.node = c.node /\ d.done = c.done
        /\ d.count = c.count /\ d.at = "read"
    BY <1>4, <2>1 DEF TransferCall
  <2> QED BY <1>2, <2>2
<1>7. c.buffer \in Buffer
  BY <1>4 DEF TransferCall
<1> HIDE DEF d
<1>8. /\ DOMAIN cache' = Buffer /\ cache'[x.buffer] = device[c.node][k]
      /\ \A b \in Buffer : b # x.buffer => cache'[b] = cache[b]
  BY <1>1, <1>3, <1>5, <1>7 DEF FilesTypeOK
<1>9. TablesInv'
  <2>1. /\ alloced_bitmap' \subseteq Buffer /\ file_length' \in [File -> Nat] /\ gft' \in Seq(Entry)
        /\ DOMAIN device' = File /\ \A n \in File : DOMAIN device'[n] = PageIndex
        /\ DOMAIN expected' = File /\ \A n \in File : DOMAIN expected'[n] = PageIndex
    BY <1>1, <1>3 DEF FilesTypeOK
  <2>2. /\ lft' = lft /\ d.done <= d.count /\ d.node = gft[d.gfd].node /\ d.gfd \in DOMAIN gft
        /\ gft' = gft
    BY <1>3, <1>4, <1>6
  <2> QED BY <1>1, <1>3, <1>4, <1>6, <1>8, <2>1, <2>2, TransferKeepsTables
<1>10. EntriesStay /\ \A h : Kept(h)' = Kept(h) /\ \A p : Lists(h, p)' <=> Lists(h, p)
  BY <1>3 DEF EntriesStay, Kept, Lists
<1>11. BuffersInv'
  <2>1. TablesInv /\ BuffersInv /\ d.at # "fill" /\ MayMark(d) /\ d.gfd \in DOMAIN gft
    BY <1>4, <1>6 DEF FilesInv, MayMark
  <2> QED BY <1>3, <1>6, <1>10, <2>1, BuffersStay DEF Spoils
<1>12. /\ \A h, p : /\ Filling(h, p) <=> Fills(c, h, p)
                    /\ Pending(h, p) <=> Fills(c, h, p) \/ Writes(c, h, p)
       /\ \A h, p : /\ Filling(h, p)' <=> Fills(d, h, p)
                    /\ Pending(h, p)' <=> Fills(d, h, p) \/ Writes(d, h, p)
  BY <1>1, <1>3, <1>4, OnlyThisCall
<1>13. ContentInv'
  <2> SUFFICES ASSUME spoiled = {}
               PROVE  CleanIsStored' /\ CachedIsLatest' /\ StoredIsLatest'
    BY <1>3 DEF ContentInv
  <2>1. CleanIsStored /\ CachedIsLatest /\ StoredIsLatest
    BY <1>1 DEF ContentInv
  <2>2. /\ \A h, p : Pending(h, p) => h = g /\ p = k
        /\ Filling(g, k) /\ \A h, p : ~Filling(h, p)'
    BY <1>2, <1>3, <1>6, <1>12 DEF Fills, Writes
  <2>3. \A h \in DOMAIN gft : \A y \in Kept(h) :
          /\ y.buffer \in Buffer
          /\ \/ h = g /\ y = x
             \/ cache'[y.buffer] = cache[y.buffer] /\ ~Pending(h, y.page)
    <3> TAKE h \in DOMAIN gft
    <3> TAKE y \in Kept(h)
    <3>1. y.buffer \in Buffer
      BY <1>1 DEF PagesApart, BuffersMarked, FilesTypeOK
    <3>2. CASE h = g /\ y = x
      BY <3>1, <3>2
    <3>3. CASE ~(h = g /\ y = x)
      <4>1. y.buffer # x.buffer
        BY <1>1, <1>4, <1>5, <3>3 DEF PagesApart, BuffersMarked
      <4>2. h = g => y.page # k
        BY <1>1, <1>4, <1>5, <3>3 DEF PagesApart, PagesListed
      <4> QED BY <1>8, <2>2, <3>1, <4>1, <4>2
    <3> QED BY <3>2, <3>3
  <2>4. k \in PageIndex => device[c.node][k] = expected[c.node][k]
    BY <1>4, <2>1, <2>2 DEF StoredIsLatest
  <2>5. CleanIsStored'
    <3>1. \A h \in DOMAIN gft : \A y \in Kept(h) :
            y.page \in PageIndex /\ ~y.dirty => cache'[y.buffer] = device[gft[h].node][y.page]
      BY <1>4, <1>5, <1>8, <2>1, <2>3 DEF CleanIsStored
    <3> QED BY <1>3, <1>10, <3>1 DEF CleanIsStored
  <2>6. CachedIsLatest'
    <3>1. \A h \in DOMAIN gft : \A y \in Kept(h) :
            y.page \in PageIndex => cache'[y.buffer] = expected[gft[h].node][y.page]
      BY <1>4, <1>5, <1>8, <2>1, <2>3, <2>4 DEF CachedIsLatest
    <3> QED BY <1>3, <1>10, <3>1 DEF CachedIsLatest
  <2>7. StoredIsLatest'
    BY <1>3, <1>10, <2>1, <2>2 DEF StoredIsLatest
  <2> QED BY <2>5, <2>6, <2>7
<1> QED BY <1>9, <1>11, <1>13 DEF FilesInv

LEMMA FillFailsStep ==
  ASSUME OneTransfers, FilesInv, NEW t \in Thread, FillFails(t)
  PROVE  FilesInv'
<1> DEFINE c == call[t]
<1>1. TablesInv /\ FilesTypeOK /\ PagesApart /\ ReservationFits(t) /\ ContentInv
  BY DEF FilesInv, BuffersInv, ReservationsFit, TablesInv
<1>2. PICK g, k, x, i : /\ g = c.gfd /\ k = ThisPage(c) /\ i = InfoIndex(g, k)
                        /\ x = [page |-> k, buffer |-> c.buffer, dirty |-> FALSE]
  OBVIOUS
<1> DEFINE l == RemoveAt(gft[g].pages, i)
<1>3. /\ c.at = "fill" /\ alloced_bitmap' = alloced_bitmap \ {x.buffer} /\ Goto(t, Idle)
      /\ gft' = [gft EXCEPT ![g] = [gft[g] EXCEPT !.pages = l]]
      /\ UNCHANGED <<lft, cache, device, file_length, expected, spoiled>>
  BY <1>2 DEF FillFails, Doing, Return
<1>4. /\ c \in TransferCall /\ t \in IoThread /\ c \notin OpeningCall /\ g \in DOMAIN gft
  BY <1>1, <1>2, <1>3, TransferFacts
<1>5. x \in Kept(g) /\ x.page = k
  BY <1>1, <1>2, <1>3 DEF ReservationFits
<1>6. l \in Seq(Info) /\ NoDuplicates(l) /\ Nodes(l) = Kept(g) \ {x}
  <2>1. /\ i \in DOMAIN gft[g].pages /\ gft[g].pages[i] = x
        /\ gft[g].pages \in Seq(Info) /\ NoDuplicates(gft[g].pages)
    BY <1>1, <1>2, <1>4, <1>5, InfoFacts
  <2> QED BY <2>1, RemovedFacts DEF Kept
<1> HIDE DEF l
<1>7. /\ gft' \in Seq(Entry) /\ DOMAIN gft' = DOMAIN gft /\ gft'[g].pages = l
      /\ \A h \in DOMAIN gft : gft'[h].node = gft[h].node /\ gft'[h].open_count = gft[h].open_count
      /\ \A h \in DOMAIN gft : h # g => gft'[h].pages = gft[h].pages
  BY <1>1, <1>3, <1>4, <1>6, PagesReplaced
<1>8. /\ Kept(g)' = Kept(g) \ {x}
      /\ \A h \in DOMAIN gft : h # g => Kept(h)' = Kept(h)
  <2>1. Kept(g)' = Nodes(l)
    BY <1>7 DEF Kept, Nodes
  <2>2. \A h \in DOMAIN gft : h # g => Kept(h)' = Kept(h)
    BY <1>7 DEF Kept, Nodes
  <2> QED BY <1>6, <2>1, <2>2
<1>9. TablesInv'
  <2>1. /\ alloced_bitmap' \subseteq Buffer
        /\ DOMAIN cache' = Buffer /\ file_length' \in [File -> Nat]
        /\ DOMAIN device' = File /\ \A n \in File : DOMAIN device'[n] = PageIndex
        /\ DOMAIN expected' = File /\ \A n \in File : DOMAIN expected'[n] = PageIndex
    BY <1>1, <1>3 DEF FilesTypeOK
  <2>2. lft' = lft /\ Idle \notin TransferCall
    BY <1>3 DEF Idle, TransferCall
  <2> QED BY <1>1, <1>3, <1>4, <1>7, <2>1, <2>2, TransferKeepsTables
<1>10. PagesApart'
  <2>2. \A h \in DOMAIN gft : Kept(h)' \subseteq Kept(h)
    BY <1>8
  <2>4. \A h \in DOMAIN gft : NoDuplicates(gft'[h].pages)
    BY <1>1, <1>6, <1>7 DEF PagesApart, PagesListed
  <2>7. PagesListed'
    BY <1>1, <1>7, <2>2, <2>4 DEF PagesApart, PagesListed
  <2> SUFFICES ASSUME "unmarked" \notin spoiled
               PROVE  BuffersMarked'
    BY <1>3, <2>7 DEF PagesApart
  <2>1. Buffers - 1 \in alloced_bitmap /\ x.buffer # Buffers - 1
    BY <1>1, <1>4, <1>5 DEF PagesApart, BuffersMarked
  <2>3. \A h \in DOMAIN gft : \A y \in Kept(h)' : y.buffer # x.buffer
    BY <1>1, <1>4, <1>5, <1>8 DEF PagesApart, BuffersMarked
  <2>5. /\ \A h, j \in DOMAIN gft : \A y \in Kept(h)', z \in Kept(j)' :
             y.buffer = z.buffer => h = j /\ y = z
    BY <1>1, <2>2 DEF PagesApart, BuffersMarked
  <2>6. \A h \in DOMAIN gft : \A y \in Kept(h)' : y.buffer \in alloced_bitmap' \ {Buffers - 1}
    BY <1>1, <1>3, <2>2, <2>3 DEF PagesApart, BuffersMarked
  <2> QED BY <1>3, <1>7, <2>1, <2>5, <2>6 DEF BuffersMarked
<1>11. /\ \A h, p : /\ Filling(h, p) <=> Fills(c, h, p)
                    /\ Pending(h, p) <=> Fills(c, h, p) \/ Writes(c, h, p)
       /\ \A h, p : /\ Filling(h, p)' <=> Fills(Idle, h, p)
                    /\ Pending(h, p)' <=> Fills(Idle, h, p) \/ Writes(Idle, h, p)
       /\ \A u \in Thread : u # t => ReservationFits(u)'
  BY <1>1, <1>3, <1>4, OnlyThisCall
<1>12. ReservationsFit'
  <2>1. call'[t] = Idle
    BY <1>1, <1>3, GotoFacts
  <2>2. ReservationFits(t)'
    BY <2>1 DEF ReservationFits, Idle
  <2> QED BY <1>11, <2>2 DEF ReservationsFit
<1>13. ContentInv'
  <2> SUFFICES ASSUME spoiled = {}
               PROVE  CleanIsStored' /\ CachedIsLatest' /\ StoredIsLatest'
    BY <1>3 DEF ContentInv
  <2>1. CleanIsStored /\ CachedIsLatest /\ StoredIsLatest
    BY <1>1 DEF ContentInv
  <2>2. /\ \A h, p : Pending(h, p) => h = g /\ p = k
        /\ Filling(g, k) /\ \A h, p : ~Filling(h, p)'
    BY <1>2, <1>3, <1>11 DEF Fills, Writes, Idle
  <2>3. \A h \in DOMAIN gft : \A y \in Kept(h)' : y \in Kept(h) /\ ~Pending(h, y.page)
    <3>1. \A y \in Kept(g)' : y \in Kept(g) /\ y.page # k
      BY <1>1, <1>4, <1>5, <1>8 DEF PagesApart, PagesListed
    <3> QED BY <1>8, <2>2, <3>1
  <2>4. CleanIsStored'
    BY <1>3, <1>7, <2>1, <2>3 DEF CleanIsStored
  <2>5. CachedIsLatest'
    BY <1>3, <1>7, <2>1, <2>3 DEF CachedIsLatest
  <2>6. \A h \in DOMAIN gft : \A p : ~Lists(h, p)' => ~Lists(h, p) \/ Filling(h, p)
    BY <1>5, <1>8, <2>2 DEF Lists
  <2>7. StoredIsLatest'
    BY <1>3, <1>7, <2>1, <2>2, <2>6 DEF StoredIsLatest
  <2> QED BY <2>4, <2>5, <2>7
<1> QED BY <1>9, <1>10, <1>12, <1>13 DEF FilesInv, BuffersInv

\* page_cache_make_dirty moves nothing: every page is where it was.
LEMMA MarkedPages ==
  ASSUME TablesInv, PagesApart, NEW g \in DOMAIN gft, NEW x \in Kept(g), NEW k, k = x.page,
         NEW b \in BOOLEAN, gft' = Marked(g, k, b), alloced_bitmap' = alloced_bitmap,
         Spoils
  PROVE  /\ gft' \in Seq(Entry) /\ DOMAIN gft' = DOMAIN gft
         /\ \A h \in DOMAIN gft : gft'[h].node = gft[h].node /\ gft'[h].open_count = gft[h].open_count
         /\ Kept(g)' = (Kept(g) \ {x}) \cup {Marking(x, b)}
         /\ \A h \in DOMAIN gft : h # g => Kept(h)' = Kept(h)
         /\ \A h \in DOMAIN gft : \A p : Lists(h, p)' <=> Lists(h, p)
         /\ PagesApart'
<1>1. PICK i : i = InfoIndex(g, k)
  OBVIOUS
<1>2. FilesTypeOK
  BY DEF TablesInv
<1>3. /\ i \in DOMAIN gft[g].pages /\ gft[g].pages[i] = x
      /\ gft[g].pages \in Seq(Info) /\ NoDuplicates(gft[g].pages) /\ OnePageEach(gft[g].pages)
  BY <1>1, <1>2, InfoFacts
<1>4. PICK old : old = gft[g].pages
  OBVIOUS
<1>5. PICK l : l = [old EXCEPT ![i].dirty = b]
  OBVIOUS
<1>6. l \in Seq(Info) /\ NoDuplicates(l) /\ Nodes(l) = (Kept(g) \ {x}) \cup {Marking(x, b)}
  <2>1. /\ l \in Seq(Info) /\ NoDuplicates(l)
        /\ Nodes(l) = (Nodes(old) \ {old[i]}) \cup {Marking(old[i], b)}
    <3>1. old \in Seq(Info) /\ NoDuplicates(old) /\ OnePageEach(old) /\ i \in DOMAIN old
      BY <1>3, <1>4
    <3> QED BY <1>5, <3>1, MarkedFacts
  <2> QED BY <1>3, <1>4, <2>1 DEF Kept
<1>7. gft' = [gft EXCEPT ![g] = [gft[g] EXCEPT !.pages = l]]
  BY <1>1, <1>4, <1>5 DEF Marked
<1>8. /\ gft' \in Seq(Entry) /\ DOMAIN gft' = DOMAIN gft /\ gft'[g].pages = l
      /\ \A h \in DOMAIN gft : gft'[h].node = gft[h].node /\ gft'[h].open_count = gft[h].open_count
      /\ \A h \in DOMAIN gft : h # g => gft'[h].pages = gft[h].pages
  BY <1>2, <1>6, <1>7, PagesReplaced
<1>9. /\ Kept(g)' = (Kept(g) \ {x}) \cup {Marking(x, b)}
      /\ \A h \in DOMAIN gft : h # g => Kept(h)' = Kept(h)
  <2>1. Kept(g)' = Nodes(l)
    BY <1>8 DEF Kept, Nodes
  <2>2. \A h \in DOMAIN gft : h # g => Kept(h)' = Kept(h)
    BY <1>8 DEF Kept, Nodes
  <2> QED BY <1>6, <2>1, <2>2
<1>10. Marking(x, b).page = x.page /\ Marking(x, b).buffer = x.buffer
  BY DEF Marking
<1>11. \A h \in DOMAIN gft : \A p : Lists(h, p)' <=> Lists(h, p)
  <2>1. \A p : Lists(g, p)' <=> Lists(g, p)
    BY <1>9, <1>10 DEF Lists
  <2>2. \A h \in DOMAIN gft : h # g => \A p : Lists(h, p)' <=> Lists(h, p)
    BY <1>9 DEF Lists
  <2> QED BY <2>1, <2>2
<1>12. \A h \in DOMAIN gft : \A y \in Kept(h)' :
         \E z \in Kept(h) : z.page = y.page /\ z.buffer = y.buffer
  <2>1. \A y \in Kept(g)' : \E z \in Kept(g) : z.page = y.page /\ z.buffer = y.buffer
    BY <1>9, <1>10
  <2>2. \A h \in DOMAIN gft : h # g =>
          \A y \in Kept(h)' : \E z \in Kept(h) : z.page = y.page /\ z.buffer = y.buffer
    BY <1>9
  <2> QED BY <2>1, <2>2
<1>13. PagesApart'
  <2>1. \A h \in DOMAIN gft : NoDuplicates(gft'[h].pages)
    BY <1>6, <1>8 DEF PagesApart, PagesListed
  <2>2. \A h \in DOMAIN gft : \A y, z \in Kept(h)' : y.page = z.page => y = z
    <3> TAKE h \in DOMAIN gft
    <3> TAKE y, z \in Kept(h)'
    <3> HAVE y.page = z.page
    <3>1. CASE h = g
      <4>1. \A w \in Kept(g) : w.page = x.page => w = x
        BY DEF PagesApart, PagesListed
      <4>2. \A w, u \in Kept(g) : w.page = u.page => w = u
        BY DEF PagesApart, PagesListed
      <4> QED BY <1>9, <1>10, <3>1, <4>1, <4>2
    <3>2. CASE h # g
      BY <1>9, <3>2 DEF PagesApart, PagesListed
    <3> QED BY <3>1, <3>2
  <2>6. PagesListed'
    BY <1>8, <2>1, <2>2 DEF PagesListed
  <2> SUFFICES ASSUME "unmarked" \notin spoiled
               PROVE  BuffersMarked'
    BY <2>6 DEF PagesApart, Spoils
  <2>3. \A h, j \in DOMAIN gft : \A y \in Kept(h)', z \in Kept(j)' :
          y.buffer = z.buffer => h = j /\ y = z
    <3> TAKE h, j \in DOMAIN gft
    <3> TAKE y \in Kept(h)', z \in Kept(j)'
    <3>1. PICK y0 \in Kept(h) : y0.page = y.page /\ y0.buffer = y.buffer
      BY <1>12
    <3>2. PICK z0 \in Kept(j) : z0.page = z.page /\ z0.buffer = z.buffer
      BY <1>12
    <3>3. y.buffer = z.buffer => h = j /\ y0 = z0
      BY <3>1, <3>2 DEF PagesApart, BuffersMarked
    <3> QED BY <2>2, <3>1, <3>2, <3>3
  <2>4. \A h \in DOMAIN gft : \A y \in Kept(h)' : y.buffer \in alloced_bitmap \ {Buffers - 1}
    BY <1>12 DEF PagesApart, BuffersMarked
  <2>5. Buffers - 1 \in alloced_bitmap
    BY DEF PagesApart, BuffersMarked
  <2> QED BY <1>8, <2>3, <2>4, <2>5 DEF BuffersMarked
<1> QED BY <1>8, <1>9, <1>11, <1>13

LEMMA CopyInStep ==
  ASSUME OneTransfers, FilesInv, NEW t \in Thread, CopyIn(t)
  PROVE  FilesInv'
<1> DEFINE c == call[t]
           d == Advanced(c)
           v == Filled(c.value)
<1>1. TablesInv /\ FilesTypeOK /\ PagesApart /\ ContentInv
  BY DEF FilesInv, BuffersInv, TablesInv
<1>2. PICK g, k, n : g = c.gfd /\ k = ThisPage(c) /\ n = c.node
  OBVIOUS
<1>3. /\ c.at = "write" /\ Rest(c) > 0 /\ Cached(g, k) /\ Goto(t, d)
      /\ cache' = [cache EXCEPT ![BufferOf(g, k)] = v] /\ gft' = Marked(g, k, TRUE)
      /\ expected' = [expected EXCEPT ![n][k] = v]
      /\ spoiled' = spoiled \/ spoiled' # {}
      /\ Spoils
      /\ UNCHANGED <<lft, alloced_bitmap, device, file_length>>
  BY <1>2 DEF CopyIn, Doing, Spoil, Spoils
<1> HIDE DEF v
<1>4. /\ c \in TransferCall /\ c.done <= c.count /\ t \in IoThread /\ c \notin OpeningCall
      /\ g \in DOMAIN gft /\ n = gft[g].node
  BY <1>1, <1>2, <1>3, TransferFacts
<1>5. /\ d \in TransferCall /\ d.at \in {"read", "write"} /\ d.gfd = g /\ d.node = n
      /\ d.done <= d.count
  BY <1>2, <1>4, AdvancedFacts
<1> HIDE DEF d
<1>6. PICK x \in Kept(g) : x.page = k /\ BufferOf(g, k) = x.buffer
  <2>1. PICK x \in Kept(g) : x.page = k
    BY <1>1, <1>3, <1>4, InfoFacts DEF Lists
  <2>2. BufferOf(g, k) = x.buffer
    BY <1>1, <1>4, <2>1, InfoFacts DEF BufferOf
  <2> QED BY <2>1, <2>2
<1>7. /\ gft' \in Seq(Entry) /\ DOMAIN gft' = DOMAIN gft /\ PagesApart'
      /\ \A h \in DOMAIN gft : gft'[h].node = gft[h].node /\ gft'[h].open_count = gft[h].open_count
      /\ Kept(g)' = (Kept(g) \ {x}) \cup {Marking(x, TRUE)}
      /\ \A h \in DOMAIN gft : h # g => Kept(h)' = Kept(h)
      /\ \A h \in DOMAIN gft : \A p : Lists(h, p)' <=> Lists(h, p)
  BY <1>1, <1>3, <1>4, <1>6, MarkedPages
<1>8. x.buffer \in Buffer /\ n \in File /\ \A h \in DOMAIN gft : gft[h].node \in File
  <2>1. x.buffer \in Buffer
    <3>1. x \in Info
      BY <1>1, <1>4, InfoFacts DEF Kept, Nodes
    <3> QED BY <3>1 DEF Info
  <2>2. \A h \in DOMAIN gft : gft[h] \in Entry
    BY <1>1 DEF FilesTypeOK
  <2>3. \A h \in DOMAIN gft : gft[h].node \in File
    BY <2>2 DEF Entry
  <2> QED BY <1>4, <2>1, <2>3
<1>9. /\ DOMAIN cache' = Buffer /\ cache'[x.buffer] = v
      /\ \A b \in Buffer : b # x.buffer => cache'[b] = cache[b]
  BY <1>1, <1>3, <1>6, <1>8 DEF FilesTypeOK
<1>10. /\ DOMAIN expected' = File /\ \A m \in File : DOMAIN expected'[m] = PageIndex
       /\ k \in PageIndex => expected'[n][k] = v
       /\ \A m \in File, p \in PageIndex : ~(m = n /\ p = k) => expected'[m][p] = expected[m][p]
       /\ \A m \in File : m # n => expected'[m] = expected[m]
  <2>1. DOMAIN expected = File /\ \A m \in File : DOMAIN expected[m] = PageIndex
    BY <1>1 DEF FilesTypeOK
  <2>2. expected' = [expected EXCEPT ![n] = [expected[n] EXCEPT ![k] = v]]
    BY <1>3
  <2>3. DOMAIN expected' = File /\ expected'[n] = [expected[n] EXCEPT ![k] = v]
        /\ \A m \in File : m # n => expected'[m] = expected[m]
    BY <1>8, <2>1, <2>2
  <2>4. /\ DOMAIN expected'[n] = PageIndex
        /\ k \in PageIndex => expected'[n][k] = v
        /\ \A p \in PageIndex : p # k => expected'[n][p] = expected[n][p]
    BY <1>8, <2>1, <2>3
  <2> QED BY <2>1, <2>3, <2>4
<1>11. TablesInv'
  <2>1. /\ alloced_bitmap' \subseteq Buffer /\ file_length' \in [File -> Nat]
        /\ DOMAIN device' = File /\ \A m \in File : DOMAIN device'[m] = PageIndex
    BY <1>1, <1>3 DEF FilesTypeOK
  <2>2. lft' = lft /\ d.node = gft[d.gfd].node /\ d.gfd \in DOMAIN gft
    BY <1>3, <1>4, <1>5
  <2> QED BY <1>1, <1>3, <1>4, <1>5, <1>7, <1>9, <1>10, <2>1, <2>2, TransferKeepsTables
<1>12. /\ \A h, p : /\ Filling(h, p) <=> Fills(c, h, p)
                    /\ Pending(h, p) <=> Fills(c, h, p) \/ Writes(c, h, p)
       /\ \A h, p : /\ Filling(h, p)' <=> Fills(d, h, p)
                    /\ Pending(h, p)' <=> Fills(d, h, p) \/ Writes(d, h, p)
       /\ \A u \in Thread : u # t => ReservationFits(u)'
  BY <1>1, <1>3, <1>4, OnlyThisCall
<1>13. ReservationsFit'
  <2>1. call'[t] = d
    BY <1>1, <1>3, GotoFacts
  <2>2. ReservationFits(t)'
    BY <1>5, <2>1 DEF ReservationFits
  <2> QED BY <1>12, <2>2 DEF ReservationsFit
<1>14. ContentInv'
  <2> SUFFICES ASSUME spoiled = {}
               PROVE  CleanIsStored' /\ CachedIsLatest' /\ StoredIsLatest'
    BY <1>3 DEF ContentInv
  <2>1. CleanIsStored /\ CachedIsLatest /\ StoredIsLatest
    BY <1>1 DEF ContentInv
  <2>2. /\ \A h, p : Pending(h, p) => h = g /\ p = k
        /\ \A h, p : ~Filling(h, p)'
    BY <1>2, <1>3, <1>5, <1>12 DEF Fills, Writes
  <2>3. \A h \in DOMAIN gft : \A y \in Kept(h) :
          ~(h = g /\ y = x) => /\ cache'[y.buffer] = cache[y.buffer] /\ ~Pending(h, y.page)
                               /\ ~(gft[h].node = n /\ y.page = k)
    <3> TAKE h \in DOMAIN gft
    <3> TAKE y \in Kept(h)
    <3> HAVE ~(h = g /\ y = x)
    <3>1. y.buffer \in Buffer /\ y.buffer # x.buffer
      BY <1>1, <1>4 DEF PagesApart, BuffersMarked, FilesTypeOK
    <3>2. h = g => y.page # k
      BY <1>1, <1>4, <1>6 DEF PagesApart, PagesListed
    <3>3. gft[h].node = n => h = g
      BY <1>1, <1>4 DEF TablesInv, OneEntryEach
    <3> QED BY <1>9, <2>2, <3>1, <3>2, <3>3
  <2>4. Marking(x, TRUE).page = k /\ Marking(x, TRUE).buffer = x.buffer /\ Marking(x, TRUE).dirty
    BY <1>6 DEF Marking
  <2>5. \A h \in DOMAIN gft : \A y \in Kept(h)' :
          (h = g /\ y = Marking(x, TRUE)) \/ (y \in Kept(h) /\ ~(h = g /\ y = x))
    BY <1>7
  <2>6. CleanIsStored'
    <3>1. ASSUME NEW h \in DOMAIN gft, NEW y \in Kept(h)', y.page \in PageIndex, ~y.dirty
          PROVE  cache'[y.buffer] = device[gft[h].node][y.page]
      BY <2>1, <2>3, <2>4, <2>5, <3>1 DEF CleanIsStored
    <3>2. \A h \in DOMAIN gft' : \A y \in Kept(h)' :
            y.page \in PageIndex /\ ~y.dirty => cache'[y.buffer] = device'[gft'[h].node][y.page]
      <4> TAKE h \in DOMAIN gft'
      <4> TAKE y \in Kept(h)'
      <4> HAVE y.page \in PageIndex /\ ~y.dirty
      <4>1. h \in DOMAIN gft /\ gft'[h].node = gft[h].node /\ device' = device
        BY <1>3, <1>7
      <4> QED BY <3>1, <4>1
    <3> QED BY <3>2 DEF CleanIsStored
  <2>7. CachedIsLatest'
    <3>1. ASSUME NEW h \in DOMAIN gft, NEW y \in Kept(h)', y.page \in PageIndex
          PROVE  cache'[y.buffer] = expected'[gft[h].node][y.page]
      <4>1. CASE h = g /\ y = Marking(x, TRUE)
        BY <1>4, <1>9, <1>10, <2>4, <3>1, <4>1
      <4>2. CASE y \in Kept(h) /\ ~(h = g /\ y = x)
        <5>1. cache'[y.buffer] = expected[gft[h].node][y.page]
          BY <2>1, <2>3, <3>1, <4>2 DEF CachedIsLatest
        <5>2. expected'[gft[h].node][y.page] = expected[gft[h].node][y.page]
          BY <1>8, <1>10, <2>3, <3>1, <4>2
        <5> QED BY <5>1, <5>2
      <4> QED BY <2>5, <4>1, <4>2
    <3> QED BY <1>7, <3>1 DEF CachedIsLatest
  <2>8. StoredIsLatest'
    <3>1. ASSUME NEW h \in DOMAIN gft, NEW p \in PageIndex, ~Lists(h, p)' \/ Filling(h, p)'
          PROVE  device[gft[h].node][p] = expected'[gft[h].node][p]
      <4>1. ~Lists(h, p)
        BY <1>7, <2>2, <3>1
      <4>2. device[gft[h].node][p] = expected[gft[h].node][p]
        BY <2>1, <4>1 DEF StoredIsLatest
      <4>3. ~(gft[h].node = n /\ p = k)
        BY <1>1, <1>4, <1>6, <4>1 DEF TablesInv, OneEntryEach, Lists
      <4> QED BY <1>8, <1>10, <4>2, <4>3
    <3>2. ASSUME NEW m \in File, \A h \in DOMAIN gft : gft[h].node # m
          PROVE  device[m] = expected'[m]
      BY <1>4, <1>10, <2>1, <3>2 DEF StoredIsLatest
    <3>3. \A h \in DOMAIN gft' : \A p \in PageIndex :
            ~Lists(h, p)' \/ Filling(h, p)' =>
              device'[gft'[h].node][p] = expected'[gft'[h].node][p]
      <4> TAKE h \in DOMAIN gft'
      <4> TAKE p \in PageIndex
      <4> HAVE ~Lists(h, p)' \/ Filling(h, p)'
      <4>1. device[gft[h].node][p] = expected'[gft[h].node][p]
        BY <1>7, <3>1
      <4> QED BY <1>3, <1>7, <4>1
    <3>4. \A m \in File : (\A h \in DOMAIN gft' : gft'[h].node # m) => device'[m] = expected'[m]
      BY <1>3, <1>7, <3>2
    <3> QED BY <3>3, <3>4 DEF StoredIsLatest
  <2> QED BY <2>6, <2>7, <2>8
<1> QED BY <1>7, <1>11, <1>13, <1>14 DEF FilesInv, BuffersInv

LEMMA SyncPageStep ==
  ASSUME OneTransfers, FilesInv, NEW t \in Thread, SyncPage(t)
  PROVE  FilesInv'
<1> DEFINE c == call[t]
           d == [c EXCEPT !.page = @ + 1]
<1>1. TablesInv /\ FilesTypeOK /\ PagesApart /\ ContentInv
  BY DEF FilesInv, BuffersInv, TablesInv
<1>2. PICK g, k, n, to : g = c.gfd /\ k = c.page /\ n = c.node /\ to = c.start
  OBVIOUS
<1>3. /\ c.at = "sync" /\ Dirty(g, k) /\ to \in PageIndex /\ Goto(t, d)
      /\ device' = [device EXCEPT ![n][to] = cache[BufferOf(g, k)]] /\ gft' = Marked(g, k, FALSE)
      /\ spoiled' # {} \/ (spoiled' = spoiled /\ k = to)
      /\ Spoils
      /\ UNCHANGED <<lft, alloced_bitmap, cache, file_length, expected>>
  BY <1>2 DEF SyncPage, SyncTarget, Doing, Spoil, Spoils
<1>4. /\ c \in SyncCall /\ t \in IoThread /\ c \notin OpeningCall
      /\ g \in DOMAIN gft /\ n = gft[g].node
  BY <1>1, <1>2, <1>3, TransferFacts
<1>5. d \in SyncCall /\ d.at = "sync" /\ d.gfd = g /\ d.node = n /\ d \notin TransferCall
  <2>1. d \in SyncCall /\ d.at = "sync" /\ d.gfd = c.gfd /\ d.node = c.node
    BY <1>4 DEF SyncCall
  <2> QED BY <1>2, <2>1 DEF TransferCall
<1> HIDE DEF d
<1>6. PICK x \in Kept(g) : x.page = k /\ BufferOf(g, k) = x.buffer
  <2>1. PICK x \in Kept(g) : x.page = k
    BY <1>1, <1>3, <1>4, InfoFacts DEF Lists, Dirty
  <2>2. BufferOf(g, k) = x.buffer
    BY <1>1, <1>4, <2>1, InfoFacts DEF BufferOf
  <2> QED BY <2>1, <2>2
<1>7. /\ gft' \in Seq(Entry) /\ DOMAIN gft' = DOMAIN gft /\ PagesApart'
      /\ \A h \in DOMAIN gft : gft'[h].node = gft[h].node /\ gft'[h].open_count = gft[h].open_count
      /\ Kept(g)' = (Kept(g) \ {x}) \cup {Marking(x, FALSE)}
      /\ \A h \in DOMAIN gft : h # g => Kept(h)' = Kept(h)
      /\ \A h \in DOMAIN gft : \A p : Lists(h, p)' <=> Lists(h, p)
  BY <1>1, <1>3, <1>4, <1>6, MarkedPages
<1>8. \A h \in DOMAIN gft : gft[h].node \in File
  <2>1. \A h \in DOMAIN gft : gft[h] \in Entry
    BY <1>1 DEF FilesTypeOK
  <2> QED BY <2>1 DEF Entry
<1>9. /\ DOMAIN device' = File /\ \A m \in File : DOMAIN device'[m] = PageIndex
      /\ device'[n][to] = cache[x.buffer]
      /\ \A m \in File, p \in PageIndex : ~(m = n /\ p = to) => device'[m][p] = device[m][p]
      /\ \A m \in File : m # n => device'[m] = device[m]
  <2>1. DOMAIN device = File /\ \A m \in File : DOMAIN device[m] = PageIndex
    BY <1>1 DEF FilesTypeOK
  <2>2. device' = [device EXCEPT ![n] = [device[n] EXCEPT ![to] = cache[x.buffer]]]
    BY <1>3, <1>6
  <2>3. /\ DOMAIN device' = File /\ device'[n] = [device[n] EXCEPT ![to] = cache[x.buffer]]
        /\ \A m \in File : m # n => device'[m] = device[m]
    BY <1>4, <1>8, <2>1, <2>2
  <2>4. /\ DOMAIN device'[n] = PageIndex /\ device'[n][to] = cache[x.buffer]
        /\ \A p \in PageIndex : p # to => device'[n][p] = device[n][p]
    BY <1>3, <1>4, <1>8, <2>1, <2>3
  <2> QED BY <2>1, <2>3, <2>4
<1>10. TablesInv'
  <2>1. /\ alloced_bitmap' \subseteq Buffer /\ file_length' \in [File -> Nat] /\ DOMAIN cache' = Buffer
        /\ DOMAIN expected' = File /\ \A m \in File : DOMAIN expected'[m] = PageIndex
    BY <1>1, <1>3 DEF FilesTypeOK
  <2>2. lft' = lft /\ d.node = gft[d.gfd].node /\ d.gfd \in DOMAIN gft
    BY <1>3, <1>4, <1>5
  <2> QED BY <1>1, <1>3, <1>4, <1>5, <1>7, <1>9, <2>1, <2>2, TransferKeepsTables
<1>11. /\ \A h, p : /\ Filling(h, p) <=> Fills(c, h, p)
                    /\ Pending(h, p) <=> Fills(c, h, p) \/ Writes(c, h, p)
       /\ \A h, p : /\ Filling(h, p)' <=> Fills(d, h, p)
                    /\ Pending(h, p)' <=> Fills(d, h, p) \/ Writes(d, h, p)
       /\ \A u \in Thread : u # t => ReservationFits(u)'
  BY <1>1, <1>3, <1>4, OnlyThisCall
<1>12. ReservationsFit'
  <2>1. call'[t] = d
    BY <1>1, <1>3, GotoFacts
  <2>2. ReservationFits(t)'
    BY <1>5, <2>1 DEF ReservationFits
  <2> QED BY <1>11, <2>2 DEF ReservationsFit
<1>13. ContentInv'
  <2> SUFFICES ASSUME spoiled' = {}
               PROVE  CleanIsStored' /\ CachedIsLatest' /\ StoredIsLatest'
    BY DEF ContentInv
  <2>1. spoiled = {} /\ to = k
    BY <1>3
  <2>2. CleanIsStored /\ CachedIsLatest /\ StoredIsLatest
    BY <1>1, <2>1 DEF ContentInv
  <2>3. /\ \A h, p : ~Pending(h, p)
        /\ \A h, p : ~Filling(h, p)'
    BY <1>3, <1>5, <1>11 DEF Fills, Writes
  <2>4. \A h \in DOMAIN gft : \A y \in Kept(h) :
          ~(h = g /\ y = x) => ~(gft[h].node = n /\ y.page = k)
    <3>1. \A y \in Kept(g) : y.page = k => y = x
      BY <1>1, <1>4, <1>6 DEF PagesApart, PagesListed
    <3>2. \A h \in DOMAIN gft : gft[h].node = n => h = g
      BY <1>1, <1>4 DEF TablesInv, OneEntryEach
    <3> QED BY <3>1, <3>2
  <2>5. Marking(x, FALSE).page = k /\ Marking(x, FALSE).buffer = x.buffer
    BY <1>6 DEF Marking
  <2>6. \A h \in DOMAIN gft : \A y \in Kept(h)' :
          (h = g /\ y = Marking(x, FALSE)) \/ (y \in Kept(h) /\ ~(h = g /\ y = x))
    BY <1>7
  <2>7. CleanIsStored'
    <3>1. ASSUME NEW h \in DOMAIN gft, NEW y \in Kept(h)', y.page \in PageIndex, ~y.dirty
          PROVE  cache[y.buffer] = device'[gft[h].node][y.page]
      <4>1. CASE h = g /\ y = Marking(x, FALSE)
        BY <1>4, <1>9, <2>1, <2>5, <4>1
      <4>2. CASE y \in Kept(h) /\ ~(h = g /\ y = x)
        <5>1. cache[y.buffer] = device[gft[h].node][y.page]
          BY <2>2, <2>3, <3>1, <4>2 DEF CleanIsStored
        <5>2. device'[gft[h].node][y.page] = device[gft[h].node][y.page]
          BY <1>8, <1>9, <2>1, <2>4, <3>1, <4>2
        <5> QED BY <5>1, <5>2
      <4> QED BY <2>6, <4>1, <4>2
    <3>2. \A h \in DOMAIN gft' : \A y \in Kept(h)' :
            y.page \in PageIndex /\ ~y.dirty => cache'[y.buffer] = device'[gft'[h].node][y.page]
      <4> TAKE h \in DOMAIN gft'
      <4> TAKE y \in Kept(h)'
      <4> HAVE y.page \in PageIndex /\ ~y.dirty
      <4>1. h \in DOMAIN gft /\ gft'[h].node = gft[h].node /\ cache' = cache
        BY <1>3, <1>7
      <4> QED BY <3>1, <4>1
    <3> QED BY <3>2 DEF CleanIsStored
  <2>8. CachedIsLatest'
    <3>1. ASSUME NEW h \in DOMAIN gft, NEW y \in Kept(h)', y.page \in PageIndex
          PROVE  cache[y.buffer] = expected[gft[h].node][y.page]
      <4>1. CASE h = g /\ y = Marking(x, FALSE)
        <5>1. cache[x.buffer] = expected[gft[g].node][x.page]
          BY <1>4, <1>6, <2>2, <2>3, <2>5, <3>1, <4>1 DEF CachedIsLatest
        <5> QED BY <1>6, <2>5, <4>1, <5>1
      <4>2. CASE y \in Kept(h) /\ ~(h = g /\ y = x)
        BY <2>2, <2>3, <3>1, <4>2 DEF CachedIsLatest
      <4> QED BY <2>6, <4>1, <4>2
    <3>2. \A h \in DOMAIN gft' : \A y \in Kept(h)' :
            y.page \in PageIndex => cache'[y.buffer] = expected'[gft'[h].node][y.page]
      <4> TAKE h \in DOMAIN gft'
      <4> TAKE y \in Kept(h)'
      <4> HAVE y.page \in PageIndex
      <4>1. h \in DOMAIN gft /\ gft'[h].node = gft[h].node /\ cache' = cache /\ expected' = expected
        BY <1>3, <1>7
      <4> QED BY <3>1, <4>1
    <3> QED BY <3>2 DEF CachedIsLatest
  <2>9. StoredIsLatest'
    <3>1. ASSUME NEW h \in DOMAIN gft, NEW p \in PageIndex, ~Lists(h, p)'
          PROVE  device'[gft[h].node][p] = expected[gft[h].node][p]
      <4>1. ~Lists(h, p)
        BY <1>7, <3>1
      <4>2. device[gft[h].node][p] = expected[gft[h].node][p]
        BY <2>2, <4>1 DEF StoredIsLatest
      <4>3. ~(gft[h].node = n /\ p = k)
        BY <1>1, <1>4, <1>6, <4>1 DEF TablesInv, OneEntryEach, Lists
      <4> QED BY <1>8, <1>9, <2>1, <4>2, <4>3
    <3>2. ASSUME NEW m \in File, \A h \in DOMAIN gft : gft[h].node # m
          PROVE  device'[m] = expected[m]
      BY <1>4, <1>9, <2>2, <3>2 DEF StoredIsLatest
    <3>3. \A h \in DOMAIN gft' : \A p \in PageIndex :
            ~Lists(h, p)' \/ Filling(h, p)' =>
              device'[gft'[h].node][p] = expected'[gft'[h].node][p]
      <4> TAKE h \in DOMAIN gft'
      <4> TAKE p \in PageIndex
      <4> HAVE ~Lists(h, p)' \/ Filling(h, p)'
      <4>1. device'[gft[h].node][p] = expected[gft[h].node][p]
        BY <1>7, <2>3, <3>1
      <4> QED BY <1>3, <1>7, <4>1
    <3>4. \A m \in File : (\A h \in DOMAIN gft' : gft'[h].node # m) => device'[m] = expected'[m]
      BY <1>3, <1>7, <3>2
    <3> QED BY <3>3, <3>4 DEF StoredIsLatest
  <2> QED BY <2>7, <2>8, <2>9
<1> QED BY <1>7, <1>10, <1>12, <1>13 DEF FilesInv, BuffersInv

-----------------------------------------------------------------------------
(* The theorems *)

LEMMA FilesInitially ==
  ASSUME FilesInit
  PROVE  FilesInv
<1>1. FilesTypeOK
  <2>1. call \in [Thread -> {Idle} \cup OpeningCall \cup TransferCall \cup SyncCall]
    BY DEF FilesInit
  <2>2. Buffers - 1 \in Buffer
    BY FilesAssumption DEF Buffer
  <2>3. /\ lft \in [Process -> Seq(Descriptor)] /\ gft \in Seq(Entry)
        /\ alloced_bitmap \subseteq Buffer /\ DOMAIN cache = Buffer
    BY <2>2 DEF FilesInit
  <2>4. /\ DOMAIN device = File /\ \A n \in File : DOMAIN device[n] = PageIndex
        /\ DOMAIN expected = File /\ \A n \in File : DOMAIN expected[n] = PageIndex
        /\ file_length \in [File -> Nat]
    BY FilesAssumption DEF FilesInit
  <2> QED BY <2>1, <2>3, <2>4 DEF FilesTypeOK
<1>2. \A t \in Thread : call[t] = Idle
  BY DEF FilesInit
<1>3. CallsFit /\ ReservationsFit
  BY <1>2 DEF CallsFit, CallFits, ReservationsFit, ReservationFits, Idle, OpeningCall, TransferCall,
              SyncCall
<1>4. DOMAIN gft = {}
  BY DEF FilesInit
<1>5. OneEntryEach /\ DescriptorsKnown /\ Counted
  BY <1>4 DEF FilesInit, OneEntryEach, DescriptorsKnown, Counted
<1>8. Buffers - 1 \in alloced_bitmap
  BY DEF FilesInit
<1>6. PagesApart
  BY <1>2, <1>4, <1>8 DEF FilesInit, PagesApart, PagesListed, BuffersMarked
<1>7. ContentInv
  BY <1>4 DEF FilesInit, ContentInv, CleanIsStored, CachedIsLatest, StoredIsLatest
<1> QED BY <1>1, <1>3, <1>5, <1>6, <1>7 DEF FilesInv, TablesInv, BuffersInv

LEMMA FilesNothingChanged ==
  ASSUME FilesInv, UNCHANGED <<tables, store, call, expected, spoiled>>
  PROVE  FilesInv'
<1>1. UNCHANGED <<gft, lft, alloced_bitmap, cache, device, file_length, call, expected, spoiled>>
  BY DEF tables, store
<1>2. TablesInv'
  <2>1. FilesTypeOK' /\ CallsFit' /\ OneEntryEach' /\ DescriptorsKnown'
    BY <1>1 DEF FilesInv, TablesInv, FilesTypeOK, CallsFit, CallFits, OneEntryEach, DescriptorsKnown
  <2>2. \A g : Opening(g)' = Opening(g) /\ Descriptors(g)' = Descriptors(g)
    BY <1>1 DEF Opening, Descriptors
  <2>3. Counted'
    BY <1>1, <2>2 DEF FilesInv, TablesInv, Counted
  <2> QED BY <2>1, <2>3 DEF TablesInv
<1>3. /\ \A g : Kept(g)' = Kept(g)
      /\ \A g, p : (Filling(g, p)' <=> Filling(g, p)) /\ (Pending(g, p)' <=> Pending(g, p))
  BY <1>1 DEF Kept, Filling, Pending, ThisPage, Rest
<1>4. \A g, p : Lists(g, p)' <=> Lists(g, p)
  BY <1>3 DEF Lists
<1>5. BuffersInv'
  <2>1. PagesApart'
    BY <1>1, <1>3 DEF FilesInv, BuffersInv, PagesApart, PagesListed, BuffersMarked
  <2>2. ReservationsFit'
    BY <1>1, <1>3, <1>4 DEF FilesInv, BuffersInv, ReservationsFit, ReservationFits, Rest, ThisPage
  <2> QED BY <2>1, <2>2 DEF BuffersInv
<1>6. ContentInv'
  BY <1>1, <1>3, <1>4 DEF FilesInv, ContentInv, CleanIsStored, CachedIsLatest, StoredIsLatest
<1> QED BY <1>2, <1>5, <1>6 DEF FilesInv

LEMMA FilesStep ==
  ASSUME OneTransfers, FilesInv, [FilesNext]_filesVars
  PROVE  FilesInv'
<1>1. ASSUME NEW t \in Thread, OpenStep(t)
      PROVE  FilesInv'
  BY <1>1, OpeningStep DEF OpenStep
<1>2. ASSUME NEW t \in Thread, IoStep(t)
      PROVE  FilesInv'
  <2>1. CASE \E fd \in DOMAIN lft[process[t]], start \in PageIndex, number \in Counts :
               \/ BeginTransfer(t, "read", fd, start, number, 0)
               \/ \E v \in Value : BeginTransfer(t, "write", fd, start, number, v)
    BY <2>1, BeginTransferStep
  <2>2. CASE \E fd \in DOMAIN lft[process[t]], first, last \in PageIndex : Sync(t, fd, first, last)
    BY <2>2, SyncStep
  <2>3. CASE Find(t) \/ MarkFails(t) \/ CopyOut(t) \/ ReadEnds(t) \/ WriteEnds(t)
             \/ SyncSkip(t) \/ SyncEnds(t)
    BY <2>3, FindStep, MarkFailsStep, CopyOutStep, EndSteps, SyncSkipStep
  <2>4. CASE Mark(t) \/ Fill(t) \/ FillFails(t) \/ CopyIn(t) \/ SyncPage(t)
    BY <2>4, MarkStep, FillStep, FillFailsStep, CopyInStep, SyncPageStep
  <2> QED BY <1>2, <2>1, <2>2, <2>3, <2>4 DEF IoStep
<1>3. CASE TreeGrows \/ UNCHANGED filesVars
  BY <1>3, FilesNothingChanged DEF TreeGrows, filesVars
<1> QED BY <1>1, <1>2, <1>3 DEF FilesNext

\* The tables, the cache and the device agree all along, with one thread at a
\* time that transfers.
THEOREM FilesInvariance == OneTransfers /\ FilesSpec => []FilesInv
<1> DEFINE Inv == OneTransfers /\ FilesInv
<1>1. OneTransfers /\ FilesInit => Inv
  BY FilesInitially
<1>2. Inv /\ [FilesNext]_filesVars => Inv'
  BY FilesStep
<1>3. Inv => FilesInv
  OBVIOUS
<1> QED BY <1>1, <1>2, <1>3, PTL DEF FilesSpec

\* A file has one entry in the global table and its count is the number of its
\* descriptors and of the openings half way (gft_insert_s, lft_insert,
\* gfe_decrement_open_count), whichever openings fail.
THEOREM DescriptorsAlwaysCounted == OneTransfers /\ FilesSpec => []DescriptorsCounted
<1>1. FilesInv => DescriptorsCounted
  BY DEF FilesInv, TablesInv, OneEntryEach, Counted, DescriptorsCounted, gft_get_n
<1> QED BY <1>1, FilesInvariance, PTL

\* No page is cached twice; no two cached pages share a buffer and none lies over
\* the bitmap (page_cache_reserve_buffer, page_cache_release_buffer), until a
\* partial read of the buffer before it clears a part of the bitmap (read_file).
THEOREM BuffersAlwaysApart == OneTransfers /\ FilesSpec => []BuffersApart
<1>1. FilesInv => BuffersApart
  <2> SUFFICES ASSUME FilesInv
               PROVE  BuffersApart
    OBVIOUS
  <2>1. PagesApart /\ FilesTypeOK
    BY DEF FilesInv, BuffersInv, TablesInv
  <2>2. \A g \in DOMAIN gft : \A i \in DOMAIN gft[g].pages :
          i \in 1..Len(gft[g].pages) /\ gft[g].pages[i] \in Kept(g)
    <3> TAKE g \in DOMAIN gft
    <3>1. gft[g].pages \in Seq(Info)
      BY <2>1, InfoFacts
    <3> QED BY <3>1 DEF Kept, Nodes
  <2>3. ASSUME NEW g \in DOMAIN gft, NEW h \in DOMAIN gft,
               NEW i \in DOMAIN gft[g].pages, NEW j \in DOMAIN gft[h].pages, ~(g = h /\ i = j)
        PROVE  /\ "unmarked" \notin spoiled => gft[g].pages[i].buffer # gft[h].pages[j].buffer
               /\ g = h => gft[g].pages[i].page # gft[h].pages[j].page
    <3>1. g = h => gft[g].pages[i] # gft[h].pages[j]
      BY <2>1, <2>2, <2>3 DEF PagesApart, PagesListed, NoDuplicates
    <3>2. g = h => gft[g].pages[i].page # gft[h].pages[j].page
      BY <2>1, <2>2, <3>1 DEF PagesApart, PagesListed
    <3> QED BY <2>1, <2>2, <3>1, <3>2 DEF PagesApart, BuffersMarked
  <2>4. \A g \in DOMAIN gft : \A i \in DOMAIN gft[g].pages :
          "unmarked" \notin spoiled => gft[g].pages[i].buffer \in alloced_bitmap \ {Buffers - 1}
    BY <2>1, <2>2 DEF PagesApart, BuffersMarked
  <2>5. \A a \in Listed : /\ a[1] \in DOMAIN gft /\ a[2] \in DOMAIN gft[a[1]].pages
                          /\ a = <<a[1], a[2]>>
    BY DEF Listed
  <2>6. ASSUME NEW a \in Listed, NEW b \in Listed, a # b
        PROVE  /\ "unmarked" \notin spoiled =>
                    gft[a[1]].pages[a[2]].buffer # gft[b[1]].pages[b[2]].buffer
               /\ a[1] = b[1] => gft[a[1]].pages[a[2]].page # gft[b[1]].pages[b[2]].page
    <3>1. ~(a[1] = b[1] /\ a[2] = b[2])
      BY <2>5, <2>6
    <3> QED BY <2>3, <2>5, <3>1
  <2> QED BY <2>4, <2>5, <2>6 DEF BuffersApart
<1> QED BY <1>1, FilesInvariance, PTL

LEMMA PendingInFlight ==
  ASSUME NEW g, NEW p, Pending(g, p)
  PROVE  InFlight(g, p)
  BY DEF Pending, Filling, InFlight

\* A page that the cache holds and does not call dirty is on the device
\* (read_file, write_file, sync_file), until one of the known defects is met.
THEOREM CleanPagesAlwaysOnDevice == OneTransfers /\ FilesSpec => []CleanPagesOnDeviceIfWhole
<1>1. FilesInv => CleanPagesOnDeviceIfWhole
  <2> SUFFICES ASSUME FilesInv, spoiled = {}, NEW g \in DOMAIN gft, NEW p \in PageIndex,
                      Cached(g, p), ~Dirty(g, p), ~InFlight(g, p)
               PROVE  cache[BufferOf(g, p)] = device[gft[g].node][p]
    BY DEF CleanPagesOnDeviceIfWhole, CleanPagesOnDevice, OnDevice
  <2>1. PagesApart /\ FilesTypeOK /\ CleanIsStored
    BY DEF FilesInv, BuffersInv, TablesInv, ContentInv
  <2>2. PICK x \in Kept(g) : x.page = p
    BY <2>1, InfoFacts DEF Lists
  <2>3. BufferOf(g, p) = x.buffer /\ ~x.dirty
    <3>1. gft[g].pages[InfoIndex(g, p)] = x
      BY <2>1, <2>2, InfoFacts
    <3> QED BY <3>1 DEF BufferOf, Dirty
  <2>4. ~Pending(g, p)
    BY PendingInFlight
  <2> QED BY <2>1, <2>2, <2>3, <2>4 DEF CleanIsStored
<1> QED BY <1>1, FilesInvariance, PTL

\* Whoever reads a page gets what was last written to it, from the cache or
\* from the device (read_file, write_file, sync_file).
THEOREM ReadsAlwaysSeeWrites == OneTransfers /\ FilesSpec => []ReadsSeeWrites
<1>1. FilesInv => ReadsSeeWrites
  <2> SUFFICES ASSUME FilesInv, spoiled = {}, NEW g \in DOMAIN gft, NEW p \in PageIndex,
                      ~InFlight(g, p)
               PROVE  IF Cached(g, p) THEN cache[BufferOf(g, p)] = expected[gft[g].node][p]
                      ELSE device[gft[g].node][p] = expected[gft[g].node][p]
    BY DEF ReadsSeeWrites
  <2>1. PagesApart /\ FilesTypeOK /\ CachedIsLatest /\ StoredIsLatest
    BY DEF FilesInv, BuffersInv, TablesInv, ContentInv
  <2>2. CASE Cached(g, p)
    <3>1. PICK x \in Kept(g) : x.page = p
      BY <2>1, <2>2, InfoFacts DEF Lists
    <3>2. BufferOf(g, p) = x.buffer
      BY <2>1, <3>1, InfoFacts DEF BufferOf
    <3>3. ~Pending(g, p)
      BY PendingInFlight
    <3> QED BY <2>1, <2>2, <3>1, <3>2, <3>3 DEF CachedIsLatest
  <2>3. CASE ~Cached(g, p)
    <3>1. ~Lists(g, p)
      BY <2>1, <2>3, InfoFacts
    <3> QED BY <2>1, <2>3, <3>1 DEF StoredIsLatest
  <2> QED BY <2>2, <2>3
<1> QED BY <1>1, FilesInvariance, PTL

-----------------------------------------------------------------------------
(* The structures of the ports *)

\* A port names its own structures, or nothing yet.
Placed ==
  /\ areas \in [0..31 -> {{}} \cup {Layout(p) : p \in 0..31}]
  /\ \A p \in 0..31 : areas[p] \in {{}, Layout(p)}

LEMMA InitPlaced == StartInit => Placed
  BY DEF StartInit, Placed

\* ahci_port_rebase is the only step that writes these registers.
LEMMA StepPlaced ==
  ASSUME Placed, [StartNext]_startVars
  PROVE  Placed'
<1>1. ASSUME Rebase PROVE Placed'
  <2>1. areas' = [areas EXCEPT ![port] = Layout(port)]
    BY <1>1 DEF Rebase
  <2> QED BY <2>1 DEF Placed
<1>2. ASSUME UNCHANGED areas PROVE Placed'
  BY <1>2 DEF Placed
<1>3. Rebase \/ UNCHANGED areas
  BY DEF StartNext, startVars, portVars, Probe, Begin, Stop, Start, Fail,
         Identify, Enable, StartCallback, Settle
<1> QED BY <1>1, <1>2, <1>3

-----------------------------------------------------------------------------
(* Where the structures of a port are *)

List(p) == AHCI_BASE + p * 1024
ReceivedFis(p) == AHCI_BASE + 32 * 1024 + p * 256
Table(p, i) == AHCI_BASE + 40 * 1024 + p * 8192 + i * 256

LEMMA KindsOfArea ==
  ASSUME NEW p \in 0..31, NEW x \in Layout(p)
  PROVE  \/ x = Area(List(p), 1024)
         \/ x = Area(ReceivedFis(p), 256)
         \/ \E i \in 0..31 : x = Area(Table(p, i), 256)
<1>1. CommandSlots \in Nat /\ CommandSlots <= 32
  BY DiskStartAssumption
<1>2. \A i \in 0 .. CommandSlots - 1 : i \in 0..31
  BY <1>1
<1> QED BY <1>2 DEF Layout, List, ReceivedFis, Table

LEMMA AreaFields ==
  ASSUME NEW b, NEW n
  PROVE  Area(b, n).base = b /\ Area(b, n).size = n
  BY DEF Area

\* Every structure is in the memory kept for the controller.
LEMMA LayoutInside ==
  ASSUME NEW p \in 0..31, NEW x \in Layout(p)
  PROVE  AHCI_BASE <= x.base /\ x.base + x.size <= TopOfDma
<1>1. AHCI_BASE \in Nat /\ TopOfDma \in Nat /\ TopOfDma >= AHCI_BASE + 303104
  BY DiskStartAssumption
<1>2. CASE x = Area(List(p), 1024)
  BY <1>1, <1>2, AreaFields DEF List
<1>3. CASE x = Area(ReceivedFis(p), 256)
  BY <1>1, <1>3, AreaFields DEF ReceivedFis
<1>4. ASSUME NEW i \in 0..31, x = Area(Table(p, i), 256)
      PROVE  AHCI_BASE <= x.base /\ x.base + x.size <= TopOfDma
  BY <1>1, <1>4, AreaFields DEF Table
<1> QED BY <1>2, <1>3, <1>4, KindsOfArea

\* Two structures, of one port or of two, do not overlap.
LEMMA LayoutsApart ==
  ASSUME NEW p \in 0..31, NEW q \in 0..31, NEW x \in Layout(p), NEW y \in Layout(q),
         <<p, x>> # <<q, y>>
  PROVE  Apart(x, y)
<1>1. AHCI_BASE \in Nat
  BY DiskStartAssumption
<1>2. p # q \/ x # y
  OBVIOUS
<1>3. CASE x = Area(List(p), 1024)
  <2>1. CASE y = Area(List(q), 1024)
    <3>1. p # q
      BY <1>2, <1>3, <2>1
    <3> QED BY <1>1, <1>3, <2>1, <3>1, AreaFields DEF List, Apart
  <2>2. CASE y = Area(ReceivedFis(q), 256)
    BY <1>1, <1>3, <2>2, AreaFields DEF List, ReceivedFis, Apart
  <2>3. ASSUME NEW j \in 0..31, y = Area(Table(q, j), 256) PROVE Apart(x, y)
    BY <1>1, <1>3, <2>3, AreaFields DEF List, Table, Apart
  <2> QED BY <2>1, <2>2, <2>3, KindsOfArea
<1>4. CASE x = Area(ReceivedFis(p), 256)
  <2>1. CASE y = Area(List(q), 1024)
    BY <1>1, <1>4, <2>1, AreaFields DEF List, ReceivedFis, Apart
  <2>2. CASE y = Area(ReceivedFis(q), 256)
    <3>1. p # q
      BY <1>2, <1>4, <2>2
    <3> QED BY <1>1, <1>4, <2>2, <3>1, AreaFields DEF ReceivedFis, Apart
  <2>3. ASSUME NEW j \in 0..31, y = Area(Table(q, j), 256) PROVE Apart(x, y)
    BY <1>1, <1>4, <2>3, AreaFields DEF ReceivedFis, Table, Apart
  <2> QED BY <2>1, <2>2, <2>3, KindsOfArea
<1>5. ASSUME NEW i \in 0..31, x = Area(Table(p, i), 256) PROVE Apart(x, y)
  <2>1. CASE y = Area(List(q), 1024)
    BY <1>1, <1>5, <2>1, AreaFields DEF List, Table, Apart
  <2>2. CASE y = Area(ReceivedFis(q), 256)
    BY <1>1, <1>5, <2>2, AreaFields DEF ReceivedFis, Table, Apart
  <2>3. ASSUME NEW j \in 0..31, y = Area(Table(q, j), 256) PROVE Apart(x, y)
    <3>1. p # q \/ i # j
      BY <1>2, <1>5, <2>3
    <3> QED BY <1>1, <1>5, <2>3, <3>1, AreaFields DEF Table, Apart
  <2> QED BY <2>1, <2>2, <2>3, KindsOfArea
<1> QED BY <1>3, <1>4, <1>5, KindsOfArea

LEMMA PlacedApart == Placed => StructuresApart
<1> SUFFICES ASSUME Placed PROVE StructuresApart
  OBVIOUS
<1>1. ASSUME NEW p \in 0..31, NEW x \in areas[p] PROVE x \in Layout(p)
  BY <1>1 DEF Placed
<1> QED BY <1>1, LayoutInside, LayoutsApart DEF StructuresApart

-----------------------------------------------------------------------------
\* The command lists, received FIS and command tables of the ports lie apart,
\* inside the memory of the controller, at every moment of init_ahci.
THEOREM StructuresAlwaysApart == StartSpec => []StructuresApart
<1>1. Placed /\ [StartNext]_startVars => Placed'
  BY StepPlaced
<1> QED BY InitPlaced, <1>1, PlacedApart, PTL DEF StartSpec

-----------------------------------------------------------------------------
(* The transfers *)

Stage == {"idle", "clear", "issue", "wait", "done"}

-----------------------------------------------------------------------------
(* The inductive invariant *)

PortTypeOK ==
  /\ value \in [Semaphore -> Nat]
  /\ queue \in [Semaphore -> Seq(Client)]
  /\ stage \in [Client -> Stage]
  /\ count \in [Client -> Int]
  /\ moved \in [Client -> Int]
  /\ ci \in [0 .. Slot -> [client : Client, sectors : Int] \cup {NoCommand}]
  /\ is \in BOOLEAN /\ gaveUp \in BOOLEAN /\ surplus \in BOOLEAN

\* Who is in line: for the port at "clear", for the device at "done", and for
\* the port only while its permit is taken.
LinesInOrder ==
  /\ NoDuplicates(queue[request]) /\ NoDuplicates(queue[callback])
  /\ \A c \in Nodes(queue[request]) : stage[c] = "clear"
  /\ \A c \in Nodes(queue[callback]) : stage[c] = "done"
  /\ value[request] > 0 => queue[request] = <<>>

\* The clients that were let in and are not out.
Served == {c \in Client : stage[c] # "idle" /\ c \notin Nodes(queue[request])}

PermitKept ==
  \/ value[request] = 1 /\ ~gaveUp /\ Served = {}
  \/ value[request] = 0 /\ ~gaveUp /\ \E c \in Client : Served = {c}
  \/ value[request] = 0 /\ gaveUp /\ Served = {}

LEMMA QueuedIs ==
  Queued = Nodes(queue[request]) \cup Nodes(queue[callback])
  BY AhciPortAssumption DEF Queued

LEMMA ServedIsInTransfer ==
  ASSUME PortTypeOK, LinesInOrder
  PROVE  Served = InTransfer
  BY QueuedIs DEF Served, InTransfer, LinesInOrder, PortTypeOK, Stage

-----------------------------------------------------------------------------
(* What the semaphore calls do to the two lines *)

LEMMA TypeOfSemaphores == PortTypeOK => SemaphoreTypeOK
  BY DEF PortTypeOK, SemaphoreTypeOK

LEMMA RequestWait ==
  ASSUME PortTypeOK, NEW c \in Client, Wait(c, request)
  PROVE  /\ value' \in [Semaphore -> Nat] /\ queue' \in [Semaphore -> Seq(Client)]
         /\ value'[callback] = value[callback] /\ queue'[callback] = queue[callback]
         /\ \/ value[request] > 0 /\ value'[request] = value[request] - 1 /\ queue'[request] = queue[request]
            \/ /\ value[request] = 0 /\ value'[request] = 0
               /\ queue'[request] = InsertBackNode(queue[request], c)
  BY AhciPortAssumption, TypeOfSemaphores, WaitEffect DEF SemaphoreTypeOK

LEMMA CallbackWait ==
  ASSUME PortTypeOK, NEW c \in Client, Wait(c, callback)
  PROVE  /\ value' \in [Semaphore -> Nat] /\ queue' \in [Semaphore -> Seq(Client)]
         /\ value'[request] = value[request] /\ queue'[request] = queue[request]
         /\ \/ value[callback] > 0 /\ value'[callback] = value[callback] - 1 /\ queue'[callback] = queue[callback]
            \/ /\ value[callback] = 0 /\ value'[callback] = 0
               /\ queue'[callback] = InsertBackNode(queue[callback], c)
  BY AhciPortAssumption, TypeOfSemaphores, WaitEffect DEF SemaphoreTypeOK

\* A signal, for the semaphore s and another one t.
LEMMA SignalOne ==
  ASSUME PortTypeOK, NEW s \in Semaphore, NEW t \in Semaphore, s # t, Signal(s)
  PROVE  /\ value' \in [Semaphore -> Nat] /\ queue' \in [Semaphore -> Seq(Client)]
         /\ value'[t] = value[t] /\ queue'[t] = queue[t]
         /\ \/ queue[s] # <<>> /\ queue'[s] = RemoveFrontNode(queue[s]) /\ value'[s] = value[s]
            \/ queue[s] = <<>> /\ queue'[s] = <<>> /\ value'[s] = value[s] + 1
  BY TypeOfSemaphores, SignalEffect DEF SemaphoreTypeOK

-----------------------------------------------------------------------------
(* Each step keeps the lines, the permit and the types *)

PortInv == PortTypeOK /\ LinesInOrder /\ PermitKept

LEMMA InitPort == AhciInit => PortInv
<1> SUFFICES ASSUME AhciInit PROVE PortInv
  OBVIOUS
<1>1. /\ request \in Semaphore /\ callback \in Semaphore
      /\ value[request] = 1 /\ value \in [Semaphore -> Nat]
  BY AhciPortAssumption, CountingSemaphoreAssumption DEF AhciInit, SemaphoreInit
<1>2. queue[request] = <<>> /\ queue[callback] = <<>> /\ queue \in [Semaphore -> Seq(Client)]
  BY <1>1 DEF AhciInit, SemaphoreInit
<1>3. PortTypeOK
  <2>1. ci \in [0 .. Slot -> [client : Client, sectors : Int] \cup {NoCommand}]
    <3> HIDE DEF NoCommand
    <3> QED BY DEF AhciInit
  <2>2. /\ stage \in [Client -> Stage]
        /\ count \in [Client -> Int] /\ moved \in [Client -> Int]
    BY DEF AhciInit, Stage
  <2> QED BY <1>1, <1>2, <2>1, <2>2 DEF AhciInit, PortTypeOK
<1>4. LinesInOrder
  BY <1>2, EmptyLine DEF LinesInOrder, NoDuplicates
<1>5. PermitKept
  BY <1>1 DEF PermitKept, Served, AhciInit
<1> QED BY <1>3, <1>4, <1>5 DEF PortInv

\* Let in or put in line.
LEMMA AwaitRequestKeeps ==
  ASSUME PortInv, NEW c \in Client, NEW n \in Count, AwaitRequest(c, n)
  PROVE  PortInv'
<1>1. request \in Semaphore /\ callback \in Semaphore /\ n \in Int
  BY AhciPortAssumption
<1>2. /\ PortTypeOK /\ LinesInOrder /\ PermitKept /\ Wait(c, request)
      /\ stage[c] = "idle" /\ stage' = [stage EXCEPT ![c] = "clear"]
      /\ gaveUp' = gaveUp
  BY DEF PortInv, AwaitRequest, At, MoveTo, faults
<1>3. /\ c \notin Nodes(queue[request]) /\ c \notin Nodes(queue[callback])
  BY <1>2, QueuedIs DEF AwaitRequest, At
<1>4. /\ value' \in [Semaphore -> Nat] /\ queue' \in [Semaphore -> Seq(Client)]
      /\ queue'[callback] = queue[callback]
      /\ \/ value[request] > 0 /\ value'[request] = value[request] - 1 /\ queue'[request] = queue[request]
         \/ /\ value[request] = 0 /\ value'[request] = 0
            /\ queue'[request] = InsertBackNode(queue[request], c)
  BY <1>2, RequestWait
<1>5. stage' \in [Client -> Stage] /\ stage'[c] = "clear" /\ \A d \in Client : d # c => stage'[d] = stage[d]
  BY <1>2 DEF PortTypeOK, Stage
<1>6. PortTypeOK'
  BY <1>1, <1>2, <1>4, <1>5 DEF PortTypeOK, AwaitRequest, faults
<1>7. queue[request] \in Seq(Client) /\ queue[callback] \in Seq(Client)
  BY <1>1, <1>2 DEF PortTypeOK
<1>8. Nodes(queue[request]) \subseteq Client /\ Nodes(queue[callback]) \subseteq Client
  BY <1>7 DEF Nodes
<1>9. CASE queue'[request] = queue[request] /\ value[request] > 0 /\ value'[request] = value[request] - 1
  <2>1. LinesInOrder'
    BY <1>2, <1>3, <1>4, <1>5, <1>8, <1>9 DEF LinesInOrder
  <2>2. value[request] = 1 /\ ~gaveUp /\ Served = {}
    BY <1>2, <1>9 DEF PermitKept
  <2>3. Served' = {c}
    BY <2>2, <1>3, <1>5, <1>9 DEF Served
  <2> QED BY <1>2, <1>6, <1>9, <2>1, <2>2, <2>3 DEF PortInv, PermitKept
<1>10. CASE /\ value[request] = 0 /\ value'[request] = 0
            /\ queue'[request] = InsertBackNode(queue[request], c)
  <2>1. /\ NoDuplicates(queue'[request])
        /\ Nodes(queue'[request]) = Nodes(queue[request]) \cup {c}
    BY <1>2, <1>3, <1>7, <1>10, InsertBackNodeFacts DEF LinesInOrder
  <2>2. LinesInOrder'
    BY <1>2, <1>3, <1>4, <1>5, <1>8, <1>10, <2>1 DEF LinesInOrder
  <2>3. Served' = Served
    BY <2>1, <1>2, <1>5 DEF Served
  <2> QED BY <1>2, <1>6, <1>10, <2>2, <2>3 DEF PortInv, PermitKept
<1> QED BY <1>4, <1>9, <1>10

\* A client that goes on inside its transfer, and a device that moves, leave
\* the lines and who was let in.
LEMMA InsideKeeps ==
  ASSUME PortInv, PortTypeOK', UNCHANGED <<semaphores, gaveUp>>,
         NEW c \in Client, stage[c] # "idle", c \notin Queued,
         \/ UNCHANGED stage
         \/ stage' = [stage EXCEPT ![c] = "issue"]
         \/ stage' = [stage EXCEPT ![c] = "wait"]
  PROVE  PortInv'
<1>1. c \notin Nodes(queue[request]) /\ c \notin Nodes(queue[callback])
  BY QueuedIs
<1>2. /\ stage'[c] # "idle"
      /\ \A d \in Client : d # c => stage'[d] = stage[d]
  BY DEF PortInv, PortTypeOK
<1>3. /\ queue'[request] = queue[request] /\ queue'[callback] = queue[callback]
      /\ value'[request] = value[request]
  BY DEF semaphores
<1>4. Nodes(queue[request]) \subseteq Client /\ Nodes(queue[callback]) \subseteq Client
  <2>1. queue[request] \in Seq(Client) /\ queue[callback] \in Seq(Client)
    BY AhciPortAssumption DEF PortInv, PortTypeOK
  <2> QED BY <2>1 DEF Nodes
<1>5. LinesInOrder'
  BY <1>1, <1>2, <1>3, <1>4 DEF PortInv, LinesInOrder
<1>6. Served' = Served
  BY <1>2, <1>3 DEF Served
<1> QED BY <1>3, <1>5, <1>6 DEF PortInv, PermitKept

LEMMA DeviceKeeps ==
  ASSUME PortInv, PortTypeOK', UNCHANGED <<semaphores, gaveUp, stage>>
  PROVE  PortInv'
<1>1. /\ queue' = queue /\ value' = value /\ stage' = stage /\ gaveUp' = gaveUp
  BY DEF semaphores
<1>2. Served' = Served
  BY <1>1 DEF Served
<1> QED BY <1>1, <1>2 DEF PortInv, LinesInOrder, PermitKept

\* A client goes on to wait for the device.
LEMMA AwaitCallbackKeeps ==
  ASSUME PortInv, NEW c \in Client, AwaitCallback(c)
  PROVE  PortInv'
<1>1. request \in Semaphore /\ callback \in Semaphore
  BY AhciPortAssumption
<1>2. /\ PortTypeOK /\ LinesInOrder /\ PermitKept /\ Wait(c, callback)
      /\ stage[c] = "wait" /\ stage' = [stage EXCEPT ![c] = "done"]
      /\ gaveUp' = gaveUp
  BY DEF PortInv, AwaitCallback, At, MoveTo, faults
<1>3. /\ c \notin Nodes(queue[request]) /\ c \notin Nodes(queue[callback])
  BY <1>2, QueuedIs DEF AwaitCallback, At
<1>4. /\ value' \in [Semaphore -> Nat] /\ queue' \in [Semaphore -> Seq(Client)]
      /\ value'[request] = value[request] /\ queue'[request] = queue[request]
      /\ \/ queue'[callback] = queue[callback]
         \/ queue'[callback] = InsertBackNode(queue[callback], c)
  BY <1>2, CallbackWait
<1>5. stage' \in [Client -> Stage] /\ stage'[c] = "done" /\ \A d \in Client : d # c => stage'[d] = stage[d]
  BY <1>2 DEF PortTypeOK, Stage
<1>6. PortTypeOK'
  BY <1>2, <1>4, <1>5 DEF PortTypeOK, AwaitCallback, faults
<1>7. queue[request] \in Seq(Client) /\ queue[callback] \in Seq(Client)
  BY <1>1, <1>2 DEF PortTypeOK
<1>8. Nodes(queue[request]) \subseteq Client /\ Nodes(queue[callback]) \subseteq Client
  BY <1>7 DEF Nodes
<1>9. /\ NoDuplicates(queue'[callback])
      /\ Nodes(queue'[callback]) \subseteq Nodes(queue[callback]) \cup {c}
  BY <1>2, <1>3, <1>4, <1>7, InsertBackNodeFacts DEF LinesInOrder
<1>10. LinesInOrder'
  BY <1>2, <1>3, <1>4, <1>5, <1>8, <1>9 DEF LinesInOrder
<1>11. Served' = Served
  BY <1>2, <1>4, <1>5 DEF Served
<1> QED BY <1>2, <1>4, <1>6, <1>10, <1>11 DEF PortInv, PermitKept

\* Whoever is past the line is the only one let in, and has the permit.
LEMMA OneServed ==
  ASSUME PortInv, NEW c \in Client, stage[c] # "idle", c \notin Nodes(queue[request])
  PROVE  Served = {c} /\ value[request] = 0 /\ ~gaveUp
<1>1. c \in Served
  BY DEF Served
<1> QED BY <1>1 DEF PortInv, PermitKept

\* The permit goes to the first in line or back.
LEMMA FinishKeeps ==
  ASSUME PortInv, NEW c \in Client, Finish(c)
  PROVE  PortInv'
<1>1. request \in Semaphore /\ callback \in Semaphore /\ request # callback
  BY AhciPortAssumption
<1>2. /\ PortTypeOK /\ LinesInOrder /\ Signal(request)
      /\ stage[c] = "done" /\ stage' = [stage EXCEPT ![c] = "idle"]
      /\ gaveUp' = gaveUp
  BY DEF PortInv, Finish, At, MoveTo, faults
<1>3. c \notin Nodes(queue[request]) /\ c \notin Nodes(queue[callback])
  BY <1>2, QueuedIs DEF Finish, At
<1>4. Served = {c} /\ value[request] = 0 /\ ~gaveUp
  BY <1>2, <1>3, OneServed
<1>5. /\ value' \in [Semaphore -> Nat] /\ queue' \in [Semaphore -> Seq(Client)]
      /\ queue'[callback] = queue[callback]
      /\ \/ queue[request] # <<>> /\ queue'[request] = RemoveFrontNode(queue[request]) /\ value'[request] = value[request]
         \/ queue[request] = <<>> /\ queue'[request] = <<>> /\ value'[request] = value[request] + 1
  BY <1>1, <1>2, SignalOne
<1>6. stage' \in [Client -> Stage] /\ stage'[c] = "idle" /\ \A d \in Client : d # c => stage'[d] = stage[d]
  BY <1>2 DEF PortTypeOK, Stage
<1>7. PortTypeOK'
  BY <1>2, <1>5, <1>6 DEF PortTypeOK, Finish, faults
<1>8. queue[request] \in Seq(Client) /\ queue[callback] \in Seq(Client)
  BY <1>1, <1>2 DEF PortTypeOK
<1>9. Nodes(queue[request]) \subseteq Client /\ Nodes(queue[callback]) \subseteq Client
  BY <1>8 DEF Nodes
<1>10. CASE queue[request] # <<>> /\ queue'[request] = RemoveFrontNode(queue[request]) /\ value'[request] = value[request]
  <2> DEFINE next == Head(queue[request])
  <2>1. /\ NoDuplicates(queue'[request])
        /\ Nodes(queue'[request]) = Nodes(queue[request]) \ {next}
    BY <1>2, <1>8, <1>10, RemoveFrontNodeFacts DEF LinesInOrder
  <2>2. next \in Nodes(queue[request])
    BY <1>8, <1>10 DEF Nodes
  <2> HIDE DEF next
  <2>3. LinesInOrder'
    BY <1>2, <1>3, <1>4, <1>5, <1>6, <1>9, <1>10, <2>1 DEF LinesInOrder
  <2>4. next \in Client /\ next # c /\ stage[next] = "clear"
    BY <1>2, <1>3, <1>9, <2>2 DEF LinesInOrder
  <2>5. \A d \in Client : d # c /\ stage[d] # "idle" => d \in Nodes(queue[request])
    BY <1>4 DEF Served
  <2>6. Served' = {next}
    BY <1>6, <2>1, <2>4, <2>5, <2>2, <1>2 DEF Served, LinesInOrder
  <2> QED BY <1>2, <1>4, <1>7, <1>10, <2>3, <2>4, <2>6 DEF PortInv, PermitKept
<1>11. CASE queue[request] = <<>> /\ queue'[request] = <<>> /\ value'[request] = value[request] + 1
  <2>1. LinesInOrder'
    BY <1>2, <1>3, <1>5, <1>6, <1>9, <1>11 DEF LinesInOrder
  <2>2. Served' = {}
    BY <1>4, <1>6, <1>11 DEF Served
  <2> QED BY <1>2, <1>4, <1>7, <1>11, <2>1, <2>2 DEF PortInv, PermitKept
<1> QED BY <1>5, <1>10, <1>11

\* The permit stays away.
LEMMA GiveUpKeeps ==
  ASSUME PortInv, NEW c \in Client, GiveUp(c)
  PROVE  PortInv'
<1>1. /\ PortTypeOK /\ LinesInOrder
      /\ stage[c] = "issue" /\ stage' = [stage EXCEPT ![c] = "idle"]
      /\ gaveUp' = TRUE /\ queue' = queue /\ value' = value
  BY DEF PortInv, GiveUp, At, MoveTo, semaphores
<1>2. c \notin Nodes(queue[request]) /\ c \notin Nodes(queue[callback])
  BY QueuedIs DEF GiveUp, At
<1>3. Served = {c} /\ value[request] = 0
  BY <1>1, <1>2, OneServed
<1>4. stage' \in [Client -> Stage] /\ stage'[c] = "idle" /\ \A d \in Client : d # c => stage'[d] = stage[d]
  BY <1>1 DEF PortTypeOK, Stage
<1>5. PortTypeOK'
  BY <1>1, <1>4 DEF PortTypeOK, GiveUp
<1>6. Nodes(queue[request]) \subseteq Client /\ Nodes(queue[callback]) \subseteq Client
  <2>1. queue[request] \in Seq(Client) /\ queue[callback] \in Seq(Client)
    BY <1>1, AhciPortAssumption DEF PortTypeOK
  <2> QED BY <2>1 DEF Nodes
<1>7. LinesInOrder'
  BY <1>1, <1>2, <1>4, <1>6 DEF LinesInOrder
<1>8. Served' = {}
  BY <1>1, <1>3, <1>4 DEF Served
<1> QED BY <1>1, <1>3, <1>5, <1>7, <1>8 DEF PortInv, PermitKept

\* The handler moves a client out of the device's line, or leaves it a permit.
LEMMA CallbackKeeps ==
  ASSUME PortInv, Callback
  PROVE  PortInv'
<1>1. request \in Semaphore /\ callback \in Semaphore /\ request # callback
  BY AhciPortAssumption
<1>2. /\ PortTypeOK /\ LinesInOrder /\ PermitKept /\ Signal(callback)
      /\ stage' = stage /\ gaveUp' = gaveUp
  BY DEF PortInv, Callback, faults
<1>3. /\ value' \in [Semaphore -> Nat] /\ queue' \in [Semaphore -> Seq(Client)]
      /\ value'[request] = value[request] /\ queue'[request] = queue[request]
      /\ \/ queue[callback] # <<>> /\ queue'[callback] = RemoveFrontNode(queue[callback])
         \/ queue'[callback] = queue[callback]
  BY <1>1, <1>2, SignalOne
<1>4. PortTypeOK'
  BY <1>2, <1>3 DEF PortTypeOK, Callback, faults
<1>5. queue[callback] \in Seq(Client)
  BY <1>1, <1>2 DEF PortTypeOK
<1>6. NoDuplicates(queue'[callback]) /\ Nodes(queue'[callback]) \subseteq Nodes(queue[callback])
  BY <1>2, <1>3, <1>5, RemoveFrontNodeFacts DEF LinesInOrder
<1>7. LinesInOrder'
  BY <1>2, <1>3, <1>6 DEF LinesInOrder
<1>8. Served' = Served
  BY <1>2, <1>3 DEF Served
<1> QED BY <1>2, <1>3, <1>4, <1>7, <1>8 DEF PortInv, PermitKept

\* The steps that leave the lines alone keep the types.
LEMMA ClearKeepsType ==
  ASSUME PortInv, NEW c \in Client, ClearInterrupts(c)
  PROVE  PortTypeOK'
  BY DEF PortInv, PortTypeOK, ClearInterrupts, MoveTo, semaphores, faults, Stage

LEMMA LastEntryType ==
  ASSUME NEW n \in Int
  PROVE  LastEntry(n) \in Int
  BY DEF LastEntry, Prdtl

LEMMA IssueKeepsType ==
  ASSUME PortInv, NEW c \in Client, Issue(c)
  PROVE  PortTypeOK'
<1> DEFINE r == [client |-> c, sectors |-> LastEntry(count[c])]
<1>1. r \in [client : Client, sectors : Int]
  BY LastEntryType DEF PortInv, PortTypeOK
<1>2. ci' = [ci EXCEPT ![EmptySlot + 1] = r]
  BY DEF Issue
<1> HIDE DEF r
<1>3. ci' \in [0 .. Slot -> [client : Client, sectors : Int] \cup {NoCommand}]
  BY <1>1, <1>2 DEF PortInv, PortTypeOK
<1> QED BY <1>3 DEF PortInv, PortTypeOK, Issue, MoveTo, semaphores, faults, Stage

LEMMA CommandType ==
  ASSUME PortTypeOK, NEW s \in Commands
  PROVE  s \in 0 .. Slot /\ ci[s].client \in Client /\ ci[s].sectors \in Int
<1>1. ci[s] \in [client : Client, sectors : Int]
  BY DEF PortTypeOK, Commands
<1> QED BY <1>1 DEF Commands

LEMMA CompleteKeepsType ==
  ASSUME PortInv, NEW s \in 0 .. Slot, Complete(s)
  PROVE  PortTypeOK'
<1>1. ci[s].client \in Client /\ ci[s].sectors \in Int
  BY CommandType DEF Complete, PortInv
<1>2. moved' \in [Client -> Int]
  BY <1>1 DEF Complete, PortInv, PortTypeOK
<1>3. ci' \in [0 .. Slot -> [client : Client, sectors : Int] \cup {NoCommand}]
  BY DEF Complete, PortInv, PortTypeOK
<1> QED BY <1>2, <1>3 DEF PortInv, PortTypeOK, Complete, semaphores, faults

LEMMA StepPort ==
  ASSUME PortInv, [AhciNext]_ahciVars
  PROVE  PortInv'
<1>1. ASSUME NEW c \in Client, NEW n \in Count, AwaitRequest(c, n) PROVE PortInv'
  BY <1>1, AwaitRequestKeeps
<1>2. ASSUME NEW c \in Client, ClearInterrupts(c) PROVE PortInv'
  BY <1>2, ClearKeepsType, InsideKeeps DEF ClearInterrupts, At, MoveTo, semaphores, faults
<1>3. ASSUME NEW c \in Client, Issue(c) PROVE PortInv'
  BY <1>3, IssueKeepsType, InsideKeeps DEF Issue, At, MoveTo, semaphores, faults
<1>4. ASSUME NEW c \in Client, AwaitCallback(c) PROVE PortInv'
  BY <1>4, AwaitCallbackKeeps
<1>5. ASSUME NEW c \in Client, Finish(c) PROVE PortInv'
  BY <1>5, FinishKeeps
<1>6. ASSUME NEW c \in Client, GiveUp(c) PROVE PortInv'
  BY <1>6, GiveUpKeeps
<1>7. ASSUME Interrupt PROVE PortInv'
  <2>1. PortTypeOK'
    BY <1>7 DEF PortInv, PortTypeOK, Interrupt, semaphores
  <2> QED BY <1>7, <2>1, DeviceKeeps DEF Interrupt
<1>8. ASSUME NEW s \in 0 .. Slot, Complete(s) PROVE PortInv'
  BY <1>8, CompleteKeepsType, DeviceKeeps DEF Complete, faults
<1>9. ASSUME Callback PROVE PortInv'
  BY <1>9, CallbackKeeps
<1>10. ASSUME UNCHANGED ahciVars PROVE PortInv'
  BY <1>10 DEF ahciVars, semaphores, faults, PortInv, PortTypeOK, LinesInOrder, PermitKept, Served
<1> QED BY <1>1, <1>2, <1>3, <1>4, <1>5, <1>6, <1>7, <1>8, <1>9, <1>10
        DEF AhciNext, Transfer, Device

-----------------------------------------------------------------------------
\* One client at a time programs the port, with the permit of ahci_request_sem,
\* unless a transfer gave up on a busy port, which keeps it for ever.
LEMMA PortInvOneRequest == PortInv => OneRequest
<1> SUFFICES ASSUME PortInv PROVE OneRequest
  OBVIOUS
<1>1. Served = InTransfer
  BY ServedIsInTransfer DEF PortInv
<1>2. Cardinality({}) = 0 /\ \A c \in Client : Cardinality({c}) = 1
  BY FS_EmptySet, FS_Singleton
<1> QED BY <1>1, <1>2 DEF PortInv, PermitKept, OneRequest

\* Of the transfers of a port at most one is between its request and its end
\* (ahci_data_transfer), also when surplus interrupts leave permits behind.
THEOREM AlwaysOneRequest == AhciSpec => []OneRequest
<1>1. PortInv /\ [AhciNext]_ahciVars => PortInv'
  BY StepPort
<1> QED BY InitPort, <1>1, PortInvOneRequest, PTL DEF AhciSpec

-----------------------------------------------------------------------------
(* How far the device and its handler are with the client that was let in *)

\* The device moved the sectors of the command.
Answer(c) == moved[c] = LastEntry(count[c])
Quiet == Commands = {} /\ ~is /\ value[callback] = 0
AtRest == Quiet /\ queue[callback] = <<>>
Running(c) ==
  /\ ~is /\ value[callback] = 0
  /\ \E s \in 0 .. Slot : Commands = {s} /\ ci[s].client = c /\ ci[s].sectors = LastEntry(count[c])
Answered(c) == Commands = {} /\ is /\ value[callback] = 0 /\ Answer(c)
Told(c) == Commands = {} /\ ~is /\ value[callback] = 1 /\ Answer(c)

\* There is a command, an interrupt or a permit for the client, and never two.
InService(c) ==
  \/ stage[c] \in {"clear", "issue"} /\ AtRest
  \/ stage[c] = "wait" /\ queue[callback] = <<>> /\ (Running(c) \/ Answered(c) \/ Told(c))
  \/ stage[c] = "done" /\ queue[callback] = <<c>> /\ (Running(c) \/ Answered(c))
  \/ stage[c] = "done" /\ AtRest /\ Answer(c)

DeviceInv == ~surplus => (Served = {} => AtRest) /\ \A c \in Served : InService(c)

CountsAsked == \A c \in Client : stage[c] # "idle" => count[c] \in Count

DriverInv == PortInv /\ CountsAsked /\ DeviceInv

LEMMA InitDevice == AhciInit => DriverInv
<1> SUFFICES ASSUME AhciInit PROVE DriverInv
  OBVIOUS
<1>1. value[callback] = 0 /\ queue[callback] = <<>>
  BY AhciPortAssumption DEF AhciInit, SemaphoreInit
<1>2. Commands = {}
  BY DEF AhciInit, Commands
<1>3. Served = {}
  BY DEF AhciInit, Served
<1>4. DeviceInv
  BY <1>1, <1>2, <1>3 DEF DeviceInv, AtRest, Quiet, AhciInit
<1>5. CountsAsked
  BY DEF AhciInit, CountsAsked
<1> QED BY <1>4, <1>5, InitPort DEF DriverInv

LEMMA StepCounts ==
  ASSUME PortInv, CountsAsked, [AhciNext]_ahciVars
  PROVE  CountsAsked'
<1>1. stage \in [Client -> Stage] /\ count \in [Client -> Int]
  BY DEF PortInv, PortTypeOK
<1>2. ASSUME NEW c \in Client, NEW n \in Count, AwaitRequest(c, n) PROVE CountsAsked'
  BY <1>1, <1>2 DEF AwaitRequest, MoveTo, CountsAsked
<1>3. ASSUME NEW c \in Client, Transfer(c) \/ GiveUp(c) PROVE CountsAsked'
  <2>1. count' = count /\ stage[c] # "idle" /\ \A d \in Client : d # c => stage'[d] = stage[d]
    BY <1>1, <1>3 DEF Transfer, ClearInterrupts, Issue, AwaitCallback, Finish, GiveUp, At, MoveTo
  <2> QED BY <2>1 DEF CountsAsked
<1>4. ASSUME Device \/ Callback \/ UNCHANGED ahciVars PROVE CountsAsked'
  <2>1. count' = count /\ stage' = stage
    BY <1>4 DEF Device, Interrupt, Complete, Callback, ahciVars
  <2> QED BY <2>1 DEF CountsAsked
<1> QED BY <1>2, <1>3, <1>4 DEF AhciNext

LEMMA ServedAfter ==
  ASSUME PortInv', NEW c \in Client, stage'[c] # "idle", c \notin Nodes(queue'[request])
  PROVE  Served' = {c}
<1>1. c \in Served'
  BY DEF Served
<1> QED BY <1>1 DEF PortInv, PermitKept

\* What does not touch a client, the device or its semaphore leaves both as they are.
LEMMA RestStays ==
  ASSUME ci' = ci, is' = is, value'[callback] = value[callback], queue'[callback] = queue[callback], AtRest
  PROVE  AtRest'
  BY DEF AtRest, Quiet, Commands

LEMMA ServiceStays ==
  ASSUME NEW c \in Client, InService(c), ci' = ci, is' = is,
         value'[callback] = value[callback], queue'[callback] = queue[callback],
         stage'[c] = stage[c], count'[c] = count[c], moved'[c] = moved[c]
  PROVE  InService(c)'
<1>1. Commands' = Commands
  BY DEF Commands
<1>2. AtRest' = AtRest
  BY <1>1 DEF AtRest, Quiet
<1>3. Running(c)' = Running(c)
  BY <1>1 DEF Running
<1>4. Answered(c)' = Answered(c) /\ Told(c)' = Told(c) /\ Answer(c)' = Answer(c)
  BY <1>1 DEF Answered, Told, Answer
<1> QED BY <1>2, <1>3, <1>4 DEF InService

LEMMA AwaitRequestServes ==
  ASSUME DriverInv, PortInv', NEW c \in Client, NEW n \in Count, AwaitRequest(c, n)
  PROVE  DeviceInv'
<1> SUFFICES ASSUME ~surplus PROVE DeviceInv'
  BY DEF AwaitRequest, faults, DeviceInv
<1>1. PortTypeOK /\ Wait(c, request) /\ c \notin Nodes(queue[request])
  BY QueuedIs DEF DriverInv, PortInv, AwaitRequest, At
<1>2. /\ stage[c] = "idle" /\ stage'[c] = "clear" /\ ci' = ci /\ is' = is
      /\ \A d \in Client : d # c => stage'[d] = stage[d] /\ count'[d] = count[d] /\ moved'[d] = moved[d]
  BY <1>1 DEF AwaitRequest, At, MoveTo, PortTypeOK
<1>3. /\ value'[callback] = value[callback] /\ queue'[callback] = queue[callback]
      /\ \/ value[request] > 0 /\ queue'[request] = queue[request]
         \/ queue'[request] = InsertBackNode(queue[request], c)
  BY <1>1, RequestWait
<1>4. CASE value[request] > 0 /\ queue'[request] = queue[request]
  <2>1. Served = {}
    BY <1>4 DEF DriverInv, PortInv, PermitKept
  <2>2. AtRest'
    BY <1>2, <1>3, <2>1, RestStays DEF DriverInv, DeviceInv
  <2>3. Served' = {c}
    BY <1>1, <1>2, <1>4, ServedAfter
  <2> QED BY <1>2, <2>2, <2>3 DEF DeviceInv, InService
<1>5. CASE queue'[request] = InsertBackNode(queue[request], c)
  <2>1. queue[request] \in Seq(Client) /\ NoDuplicates(queue[request])
    BY <1>1, AhciPortAssumption DEF PortTypeOK, DriverInv, PortInv, LinesInOrder
  <2>2. Nodes(queue'[request]) = Nodes(queue[request]) \cup {c}
    BY <1>1, <1>5, <2>1, InsertBackNodeFacts
  <2>3. Served' = Served /\ c \notin Served
    BY <1>2, <2>2 DEF Served
  <2>4. Served' = {} => AtRest'
    BY <1>2, <1>3, <2>3, RestStays DEF DriverInv, DeviceInv
  <2>5. ASSUME NEW d \in Served' PROVE InService(d)'
    <3>1. d \in Client /\ d # c /\ InService(d)
      BY <2>3, <2>5 DEF DriverInv, DeviceInv, Served
    <3> QED BY <1>2, <1>3, <3>1, ServiceStays
  <2> QED BY <2>4, <2>5 DEF DeviceInv
<1> QED BY <1>3, <1>4, <1>5

\* A client that no semaphore holds is the one in service.
LEMMA InTurn ==
  ASSUME DriverInv, ~surplus, NEW c \in Client, stage[c] # "idle", c \notin Queued
  PROVE  Served = {c} /\ InService(c) /\ c \notin Nodes(queue[request]) /\ queue[callback] # <<c>>
<1>1. c \notin Nodes(queue[request]) /\ c \notin Nodes(queue[callback])
  BY QueuedIs
<1>2. Nodes(<<c>>) = {c}
  BY DEF Nodes
<1>3. Served = {c}
  BY <1>1, OneServed DEF DriverInv
<1> QED BY <1>1, <1>2, <1>3 DEF DriverInv, DeviceInv

LEMMA ClearServes ==
  ASSUME DriverInv, PortInv', NEW c \in Client, ClearInterrupts(c)
  PROVE  DeviceInv'
<1> SUFFICES ASSUME ~surplus PROVE DeviceInv'
  BY DEF ClearInterrupts, faults, DeviceInv
<1>1. stage \in [Client -> Stage]
  BY DEF DriverInv, PortInv, PortTypeOK
<1>2. /\ stage[c] = "clear" /\ c \notin Queued /\ stage'[c] = "issue"
      /\ ci' = ci /\ is' = FALSE /\ value' = value /\ queue' = queue
  BY <1>1 DEF ClearInterrupts, At, MoveTo, semaphores
<1>3. InService(c) /\ c \notin Nodes(queue[request])
  BY <1>2, InTurn
<1>4. AtRest
  BY <1>2, <1>3 DEF InService
<1>5. AtRest'
  BY <1>2, <1>4 DEF AtRest, Quiet, Commands
<1>6. Served' = {c}
  BY <1>2, <1>3, ServedAfter
<1> QED BY <1>2, <1>5, <1>6 DEF DeviceInv, InService

\* The command goes to slot 1, and is the only one.
LEMMA IssueServes ==
  ASSUME DriverInv, PortInv', NEW c \in Client, Issue(c)
  PROVE  DeviceInv'
<1> SUFFICES ASSUME ~surplus PROVE DeviceInv'
  BY DEF Issue, faults, DeviceInv
<1> DEFINE r == [client |-> c, sectors |-> LastEntry(count[c])]
<1>1. stage \in [Client -> Stage] /\ DOMAIN ci = 0 .. Slot /\ Slot \in Nat /\ 1 \in 0 .. Slot
  BY AhciPortAssumption DEF DriverInv, PortInv, PortTypeOK
<1>2. /\ stage[c] = "issue" /\ c \notin Queued /\ stage'[c] = "wait"
      /\ ci' = [ci EXCEPT ![EmptySlot + 1] = r] /\ is' = is /\ value' = value /\ queue' = queue
      /\ count' = count
  BY <1>1 DEF Issue, At, MoveTo, semaphores
<1>3. InService(c) /\ c \notin Nodes(queue[request])
  BY <1>2, InTurn
<1>4. Commands = {} /\ ~is /\ value[callback] = 0 /\ queue[callback] = <<>>
  BY <1>2, <1>3 DEF InService, AtRest, Quiet
<1>5. EmptySlot = 0
  <2>1. /\ 0 \in 0 .. Slot /\ 0 \notin Commands /\ \A q \in 0 .. 0 - 1 : q \in Commands
    BY <1>1, <1>4
  <2>2. /\ EmptySlot \in 0 .. Slot /\ \A q \in 0 .. EmptySlot - 1 : q \in Commands
    BY <2>1 DEF EmptySlot
  <2>3. EmptySlot \in Nat /\ (EmptySlot > 0 => 0 \in 0 .. EmptySlot - 1)
    BY <1>1, <2>2
  <2> QED BY <1>4, <2>2, <2>3
<1>6. r # NoCommand /\ r.client = c /\ r.sectors = LastEntry(count[c])
  BY DEF NoCommand
<1> HIDE DEF r
<1>7. ci'[1] = r /\ \A s \in 0 .. Slot : s # 1 => ci'[s] = ci[s]
  BY <1>1, <1>2, <1>5
<1>8. Commands' = {1}
  BY <1>1, <1>4, <1>6, <1>7 DEF Commands
<1>9. Running(c)'
  BY <1>1, <1>2, <1>4, <1>6, <1>7, <1>8 DEF Running
<1>10. Served' = {c}
  BY <1>2, <1>3, ServedAfter
<1> QED BY <1>2, <1>4, <1>9, <1>10 DEF DeviceInv, InService

LEMMA AwaitCallbackServes ==
  ASSUME DriverInv, PortInv', NEW c \in Client, AwaitCallback(c)
  PROVE  DeviceInv'
<1> SUFFICES ASSUME ~surplus PROVE DeviceInv'
  BY DEF AwaitCallback, faults, DeviceInv
<1>1. stage \in [Client -> Stage] /\ PortTypeOK
  BY DEF DriverInv, PortInv, PortTypeOK
<1>2. /\ stage[c] = "wait" /\ c \notin Queued /\ stage'[c] = "done" /\ Wait(c, callback)
      /\ ci' = ci /\ is' = is /\ count' = count /\ moved' = moved
  BY <1>1 DEF AwaitCallback, At, MoveTo
<1>3. InService(c) /\ c \notin Nodes(queue[request])
  BY <1>2, InTurn
<1>4. queue[callback] = <<>> /\ (Running(c) \/ Answered(c) \/ Told(c))
  BY <1>2, <1>3 DEF InService
<1>5. /\ queue'[request] = queue[request]
      /\ \/ value[callback] > 0 /\ value'[callback] = value[callback] - 1 /\ queue'[callback] = queue[callback]
         \/ /\ value[callback] = 0 /\ value'[callback] = 0
            /\ queue'[callback] = InsertBackNode(queue[callback], c)
  BY <1>1, <1>2, CallbackWait
<1>6. Served' = {c}
  BY <1>2, <1>3, <1>5, ServedAfter
<1>7. Commands' = Commands
  BY <1>2 DEF Commands
<1>8. CASE Running(c) \/ Answered(c)
  <2>1. value[callback] = 0
    BY <1>8 DEF Running, Answered
  <2>2. value'[callback] = 0 /\ queue'[callback] = <<c>>
    BY <1>4, <1>5, <2>1 DEF InsertBackNode
  <2>3. Running(c)' \/ Answered(c)'
    BY <1>2, <1>7, <1>8, <2>2 DEF Running, Answered, Answer
  <2> QED BY <1>2, <1>6, <2>2, <2>3 DEF DeviceInv, InService
<1>9. CASE Told(c)
  <2>1. value[callback] = 1
    BY <1>9 DEF Told
  <2>2. value'[callback] = 0 /\ queue'[callback] = <<>>
    BY <1>4, <1>5, <2>1
  <2>3. AtRest' /\ Answer(c)'
    BY <1>2, <1>7, <1>9, <2>2 DEF Told, AtRest, Quiet, Answer
  <2> QED BY <1>2, <1>6, <2>3 DEF DeviceInv, InService
<1> QED BY <1>4, <1>8, <1>9

\* The next client finds the device at rest.
LEMMA FinishServes ==
  ASSUME DriverInv, PortInv', NEW c \in Client, Finish(c)
  PROVE  DeviceInv'
<1> SUFFICES ASSUME ~surplus PROVE DeviceInv'
  BY DEF Finish, faults, DeviceInv
<1>1. stage \in [Client -> Stage] /\ PortTypeOK /\ LinesInOrder
  BY DEF DriverInv, PortInv, PortTypeOK
<1>2. /\ stage[c] = "done" /\ c \notin Queued /\ stage'[c] = "idle" /\ Signal(request)
      /\ ci' = ci /\ is' = is
      /\ \A d \in Client : d # c => stage'[d] = stage[d]
  BY <1>1 DEF Finish, At, MoveTo
<1>3. Served = {c} /\ InService(c) /\ queue[callback] # <<c>>
  BY <1>2, InTurn
<1>4. AtRest
  BY <1>2, <1>3 DEF InService
<1>5. value'[callback] = value[callback] /\ queue'[callback] = queue[callback]
  BY <1>1, <1>2, SignalOne, AhciPortAssumption
<1>6. AtRest'
  BY <1>2, <1>4, <1>5, RestStays
<1>7. ASSUME NEW d \in Served' PROVE InService(d)'
  <2>1. d \in Client /\ d # c /\ stage'[d] # "idle"
    BY <1>2, <1>7 DEF Served
  <2>2. d \in Nodes(queue[request])
    BY <1>2, <1>3, <2>1 DEF Served
  <2>3. stage'[d] = "clear"
    BY <1>1, <1>2, <2>1, <2>2 DEF LinesInOrder
  <2> QED BY <1>6, <2>3 DEF InService
<1> QED BY <1>6, <1>7 DEF DeviceInv

LEMMA GiveUpServes ==
  ASSUME DriverInv, PortInv', NEW c \in Client, GiveUp(c)
  PROVE  DeviceInv'
<1> SUFFICES ASSUME ~surplus PROVE DeviceInv'
  BY DEF GiveUp, DeviceInv
<1>1. stage \in [Client -> Stage]
  BY DEF DriverInv, PortInv, PortTypeOK
<1>2. /\ stage[c] = "issue" /\ c \notin Queued /\ stage'[c] = "idle"
      /\ ci' = ci /\ is' = is /\ value' = value /\ queue' = queue
      /\ \A d \in Client : d # c => stage'[d] = stage[d]
  BY <1>1 DEF GiveUp, At, MoveTo, semaphores
<1>3. Served = {c} /\ InService(c)
  BY <1>2, InTurn
<1>4. AtRest
  BY <1>2, <1>3 DEF InService
<1>5. AtRest'
  BY <1>2, <1>4, RestStays
<1>6. Served' = {}
  BY <1>2, <1>3 DEF Served
<1> QED BY <1>5, <1>6 DEF DeviceInv

\* While a command is out or an interrupt pending, a client is in service.
LEMMA SomeoneServed ==
  ASSUME DriverInv, ~surplus, Commands # {} \/ is
  PROVE  \E c \in Client : /\ Served = {c} /\ InService(c) /\ c \notin Nodes(queue[request])
                           /\ Commands # {} => Running(c)
                           /\ is => Answered(c)
<1>1. Served # {}
  BY DEF DriverInv, DeviceInv, AtRest, Quiet
<1>2. PICK c \in Client : Served = {c}
  BY <1>1 DEF DriverInv, PortInv, PermitKept
<1>3. InService(c) /\ c \notin Nodes(queue[request])
  BY <1>2 DEF DriverInv, DeviceInv, Served
<1>4. Commands # {} => Running(c)
  BY <1>3 DEF InService, AtRest, Quiet, Answered, Told
<1>5. is => Answered(c)
  BY <1>3 DEF InService, AtRest, Quiet, Running, Told
<1> QED BY <1>2, <1>3, <1>4, <1>5

LEMMA CompleteServes ==
  ASSUME DriverInv, PortInv', NEW s \in 0 .. Slot, Complete(s)
  PROVE  DeviceInv'
<1> SUFFICES ASSUME ~surplus PROVE DeviceInv'
  BY DEF Complete, faults, DeviceInv
<1>1. moved \in [Client -> Int] /\ DOMAIN ci = 0 .. Slot
  BY DEF DriverInv, PortInv, PortTypeOK
<1>2. /\ s \in Commands /\ ci' = [ci EXCEPT ![s] = NoCommand] /\ is' = TRUE
      /\ moved' = [moved EXCEPT ![ci[s].client] = ci[s].sectors]
      /\ value' = value /\ queue' = queue /\ stage' = stage /\ count' = count
  BY DEF Complete, semaphores
<1>3. PICK c \in Client : Served = {c} /\ InService(c) /\ c \notin Nodes(queue[request]) /\ Running(c)
  BY <1>2, SomeoneServed
<1>4. /\ value[callback] = 0 /\ Commands = {s}
      /\ ci[s].client = c /\ ci[s].sectors = LastEntry(count[c])
  BY <1>2, <1>3 DEF Running
<1>5. Commands' = {}
  BY <1>1, <1>2, <1>4 DEF Commands
<1>6. Answer(c)'
  BY <1>1, <1>2, <1>4 DEF Answer
<1>7. Answered(c)'
  BY <1>2, <1>4, <1>5, <1>6 DEF Answered
<1>8. Served' = {c}
  BY <1>2, <1>3 DEF Served
<1>9. stage[c] \in {"wait", "done"} /\ (stage[c] = "wait" => queue[callback] = <<>>)
        /\ (stage[c] = "done" => queue[callback] = <<c>>)
  BY <1>2, <1>3 DEF InService, AtRest, Quiet
<1> QED BY <1>2, <1>7, <1>8, <1>9 DEF DeviceInv, InService

LEMMA CallbackServes ==
  ASSUME DriverInv, PortInv', Callback
  PROVE  DeviceInv'
<1> SUFFICES ASSUME ~surplus PROVE DeviceInv'
  BY DEF Callback, faults, DeviceInv
<1>1. PortTypeOK
  BY DEF DriverInv, PortInv
<1>2. /\ is /\ ~is' /\ Signal(callback)
      /\ stage' = stage /\ count' = count /\ ci' = ci /\ moved' = moved
  BY DEF Callback
<1>3. PICK c \in Client : Served = {c} /\ InService(c) /\ Answered(c)
  BY <1>2, SomeoneServed
<1>4. /\ Commands' = {} /\ value[callback] = 0 /\ Answer(c)'
  BY <1>2, <1>3 DEF Answered, Commands, Answer
<1>5. /\ queue'[request] = queue[request]
      /\ \/ queue[callback] # <<>> /\ queue'[callback] = RemoveFrontNode(queue[callback]) /\ value'[callback] = value[callback]
         \/ queue[callback] = <<>> /\ queue'[callback] = <<>> /\ value'[callback] = value[callback] + 1
  BY <1>1, <1>2, SignalOne, AhciPortAssumption
<1>6. Served' = {c}
  BY <1>2, <1>3, <1>5 DEF Served
<1>7. \/ stage[c] = "wait" /\ queue[callback] = <<>>
      \/ stage[c] = "done" /\ queue[callback] = <<c>>
  BY <1>2, <1>3 DEF InService, AtRest, Quiet
<1>8. CASE stage[c] = "wait" /\ queue[callback] = <<>>
  <2>1. Told(c)' /\ queue'[callback] = <<>>
    BY <1>2, <1>4, <1>5, <1>8 DEF Told
  <2> QED BY <1>2, <1>6, <1>8, <2>1 DEF DeviceInv, InService
<1>9. CASE stage[c] = "done" /\ queue[callback] = <<c>>
  <2>1. RemoveFrontNode(<<c>>) = <<>> /\ <<c>> # <<>>
    BY DEF RemoveFrontNode
  <2>2. queue'[callback] = <<>> /\ value'[callback] = 0
    BY <1>4, <1>5, <1>9, <2>1
  <2>3. AtRest'
    BY <1>2, <1>4, <2>2 DEF AtRest, Quiet
  <2> QED BY <1>2, <1>4, <1>6, <1>9, <2>3 DEF DeviceInv, InService
<1> QED BY <1>7, <1>8, <1>9

LEMMA StepDriver ==
  ASSUME DriverInv, [AhciNext]_ahciVars
  PROVE  DriverInv'
<1>1. PortInv' /\ CountsAsked'
  BY StepPort, StepCounts DEF DriverInv
<1>2. ASSUME NEW c \in Client, NEW n \in Count, AwaitRequest(c, n) PROVE DeviceInv'
  BY <1>1, <1>2, AwaitRequestServes
<1>3. ASSUME NEW c \in Client, Transfer(c) \/ GiveUp(c) PROVE DeviceInv'
  BY <1>1, <1>3, ClearServes, IssueServes, AwaitCallbackServes, FinishServes, GiveUpServes DEF Transfer
<1>4. ASSUME Interrupt PROVE DeviceInv'
  BY <1>4 DEF Interrupt, DeviceInv
<1>5. ASSUME NEW s \in 0 .. Slot, Complete(s) PROVE DeviceInv'
  BY <1>1, <1>5, CompleteServes
<1>6. ASSUME Callback PROVE DeviceInv'
  BY <1>1, <1>6, CallbackServes
<1>7. ASSUME UNCHANGED ahciVars PROVE DeviceInv'
  <2>1. /\ value' = value /\ queue' = queue /\ stage' = stage /\ count' = count
        /\ ci' = ci /\ is' = is /\ moved' = moved /\ surplus' = surplus
    BY <1>7 DEF ahciVars, semaphores, faults
  <2>2. Served' = Served
    BY <2>1 DEF Served
  <2>3. \A c \in Served : c \in Client
    BY DEF Served
  <2> QED BY <2>1, <2>2, <2>3, RestStays, ServiceStays DEF DriverInv, DeviceInv
<1>8. DeviceInv'
  BY <1>2, <1>3, <1>4, <1>5, <1>6, <1>7 DEF AhciNext, Device
<1> QED BY <1>1, <1>8 DEF DriverInv

-----------------------------------------------------------------------------
\* One PRDT entry takes all sectors of a transfer of at most 16.
LEMMA OneEntry ==
  ASSUME NEW n \in Nat \ {0}, n <= 16
  PROVE  LastEntry(n) = n
<1>1. (n - 1) \div 16 = 0
  OBVIOUS
<1> QED BY <1>1 DEF LastEntry, Prdtl

LEMMA DriverWaits == DriverInv => WaitsForDevice
<1> SUFFICES ASSUME DriverInv, ~surplus, NEW c \in Client, At(c, "done")
             PROVE  /\ \A s \in Commands : ci[s].client # c
                    /\ count[c] <= 16 => moved[c] = count[c]
  BY DEF WaitsForDevice
<1>1. stage[c] = "done" /\ c \notin Queued
  BY DEF At
<1>2. InService(c) /\ queue[callback] # <<c>>
  BY <1>1, InTurn
<1>3. AtRest /\ Answer(c)
  BY <1>1, <1>2 DEF InService
<1>4. count[c] \in Nat \ {0}
  BY <1>1, AhciPortAssumption DEF DriverInv, CountsAsked
<1> QED BY <1>3, <1>4, OneEntry DEF AtRest, Quiet, Answer

\* A client goes on after ahci_data_transfer only when the device has carried
\* its command out and moved its sectors, as long as every interrupt belongs to
\* a completed command: no permit is ever left over for the next client.
THEOREM AlwaysWaitsForDevice == AhciSpec => []WaitsForDevice
<1>1. DriverInv /\ [AhciNext]_ahciVars => DriverInv'
  BY StepDriver
<1> QED BY InitDevice, <1>1, DriverWaits, PTL DEF AhciSpec
=============================================================================
