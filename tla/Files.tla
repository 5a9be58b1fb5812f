------------------------------- MODULE Files -------------------------------
(***************************************************************************)
(* Files as file.cpp offers them: the global and the local tables of open  *)
(* files (open_file_table.cpp) and reads and writes through the pages that *)
(* page_cache.cpp keeps of a file.  Threads interleave between any two     *)
(* statements that touch shared state; a page is a sequence of cells.      *)
(***************************************************************************)
EXTENDS Vfs, FiniteSets, FiniteSetsExt, TLC

CONSTANTS
  Thread, IoThread, (* threads, and those of them that read and write     *)
  process,          (* the process of each thread                         *)
  capabilities,     (* of each node                                       *)
  home,             (* where whoever creates a node puts it               *)
  Cells,            (* PAGE_CACHE_SIZE: 4096 in the code                  *)
  Value,            (* what a cell may hold, besides 0                    *)
  Pages,            (* bound: pages of a file                             *)
  InitialLength, InitialDevice,  (* of each file: its cells, its pages    *)
  Buffers,          (* buffers of the page cache, the last for its bitmap *)
  Flags,            (* the capabilities asked for when opening            *)
  Counts,            (* lengths of the transfers asked for                 *)
  GlobalEntries,    (* bound: room in the global table                    *)
  LocalEntries      (* room in the local table of each process            *)

File == {n \in Node : type[n] = "FILE"}
Process == {process[t] : t \in Thread}
Buffer == 0 .. Buffers - 1
PageIndex == 0 .. Pages - 1
Filled(v) == [i \in 1..Cells |-> v]

ASSUME FilesAssumption ==
  /\ IsFiniteSet(Thread) /\ IoThread \subseteq Thread
  /\ Cells \in Nat \ {0} /\ Pages \in Nat
  /\ Buffers \in Nat \ {0} /\ Buffers <= Cells   \* the bitmap fits into one buffer
  /\ Counts \subseteq Nat
  /\ InitialLength \in [File -> Nat]
  /\ DOMAIN InitialDevice = File
  /\ \A n \in File : DOMAIN InitialDevice[n] = PageIndex

VARIABLES
  gft,              (* the global table: node, open_count, pages          *)
  lft,              (* the local table of each process: gfd, flags        *)
  alloced_bitmap,   (* the buffers in use                                 *)
  cache,            (* contents of the buffers                            *)
  device,           (* contents of the files on the device                *)
  file_length,
  call,             (* what each thread is doing                          *)
  expected,         (* history: what each page was last written with      *)
  spoiled           (* history: which known defect was met, see README    *)

tables == <<gft, lft>>
store == <<alloced_bitmap, cache, device, file_length>>
filesVars == <<tree, tables, store, call, expected, spoiled>>

Idle == [at |-> "idle"]
Doing(t, place) == call[t].at = place
Goto(t, c) == call' = [call EXCEPT ![t] = c]
Return(t) == Goto(t, Idle)
Spoil(defect) == spoiled' = spoiled \cup {defect}

PagesOf(cells) == (cells + Cells - 1) \div Cells
Min2(a, b) == IF a < b THEN a ELSE b

-----------------------------------------------------------------------------
(* The tables of open files.  Nothing is taken out of them, so there is no
   unused entry to find again: an entry comes last.                         *)
gft_get_n(n) == {i \in DOMAIN gft : gft[i].node = n}

\* gft_insert_s, under the critical section lock.
GlobalInserted(n) ==
  IF gft_get_n(n) # {} THEN [gft EXCEPT ![Min(gft_get_n(n))].open_count = @ + 1]
  ELSE Append(gft, [node |-> n, open_count |-> 1, pages |-> <<>>])

\* open_file and open_file_by_node: the capabilities are checked first.
OpenGlobal(t, path, flags) ==
  LET n == FindRelative(vfs_root, path)
  IN /\ Doing(t, "idle") /\ n \in File
     /\ flags \subseteq capabilities[n]
     /\ Len(gft) < GlobalEntries \/ gft_get_n(n) # {}
     /\ gft' = GlobalInserted(n)
     /\ Goto(t, [at |-> "local", node |-> n, flags |-> flags,
                 gfd |-> IF gft_get_n(n) # {} THEN Min(gft_get_n(n)) ELSE Len(gft) + 1])
  /\ UNCHANGED <<tree, lft, store, expected, spoiled>>

\* lft_insert, under the lock of the table.
OpenLocal(t) ==
  /\ Doing(t, "local") /\ Len(lft[process[t]]) < LocalEntries[process[t]]
  /\ lft' = [lft EXCEPT ![process[t]] = Append(@, [gfd |-> call[t].gfd, flags |-> call[t].flags])]
  /\ Goto(t, [call[t] EXCEPT !.at = "driver"])
  /\ UNCHANGED <<tree, gft, store, expected, spoiled>>

\* The insertion fails: the opening is taken back.  The code provides for it,
\* but the table grows, or the kernel stops where there is no memory for it.
OpenLocalFails(t) ==
  /\ Doing(t, "local") /\ Len(lft[process[t]]) = LocalEntries[process[t]]
  /\ Goto(t, [call[t] EXCEPT !.at = "undo"])
  /\ UNCHANGED <<tree, tables, store, expected, spoiled>>

\* Faulty form of OpenUndo: the count stays up.
OpenUndoForgets(t) ==
  /\ Doing(t, "undo")
  /\ Return(t)
  /\ UNCHANGED <<tree, tables, store, expected, spoiled>>

\* gfe_decrement_open_count; the entry and its pages stay.
OpenUndo(t) ==
  /\ Doing(t, "undo")
  /\ gft' = [gft EXCEPT ![call[t].gfd].open_count = @ - 1]
  /\ Return(t)
  /\ UNCHANGED <<tree, lft, store, expected, spoiled>>

\* vfs_open_file; whether it fails or not, the descriptor stays in the table.
OpenDriver(t) ==
  /\ Doing(t, "driver")
  /\ Return(t)
  /\ UNCHANGED <<tree, tables, store, expected, spoiled>>

-----------------------------------------------------------------------------
(* The pages of a file in the cache *)

\* page_cache_get_finfo: the first in the list of the file.
Infos(gfd, page) == {i \in DOMAIN gft[gfd].pages : gft[gfd].pages[i].page = page}
Cached(gfd, page) == Infos(gfd, page) # {}
InfoIndex(gfd, page) == Min(Infos(gfd, page))
BufferOf(gfd, page) == gft[gfd].pages[InfoIndex(gfd, page)].buffer

\* page_cache_make_dirty
Marked(gfd, page, dirty) == [gft EXCEPT ![gfd].pages[InfoIndex(gfd, page)].dirty = dirty]

Free == {b \in Buffer : b \notin alloced_bitmap}

\* A transfer moves page by page; c is the call record of one.
ThisPage(c) == c.start + c.page
Rest(c) == c.count - c.done
Advanced(c) == [c EXCEPT !.at = c.op, !.page = @ + 1, !.done = @ + Min2(Rest(c), Cells)]

\* read_file and read_file_global, write_file and write_file_global.
BeginTransfer(t, op, fd, start, count, v) ==
  LET d == lft[process[t]][fd]
  IN /\ t \in IoThread /\ Doing(t, "idle")
     /\ IF op = "write"
        THEN "WRITE" \in d.flags
               /\ start < PagesOf(file_length[gft[d.gfd].node]) + 2 /\ start + PagesOf(count) <= Pages
        ELSE "READ" \in d.flags
     /\ Goto(t, [at |-> op, op |-> op, gfd |-> d.gfd, node |-> gft[d.gfd].node, start |-> start,
                 count |-> count, page |-> 0, done |-> 0, value |-> v, buffer |-> 0])
  /\ UNCHANGED <<tree, tables, store, expected, spoiled>>

\* The page is not there: page_cache_index_free_buffer finds a buffer.
Find(t) ==
  LET c == call[t]
  IN /\ Doing(t, "read") \/ Doing(t, "write")
     /\ Rest(c) > 0 /\ ~Cached(c.gfd, ThisPage(c))
     /\ Doing(t, "read") => ThisPage(c) * Cells < file_length[c.node]
     /\ IF Free = {} THEN Return(t)
        ELSE Goto(t, [c EXCEPT !.at = "mark", !.buffer = Min(Free)])
  /\ UNCHANGED <<tree, tables, store, expected, spoiled>>

\* page_cache_reserve_buffer goes on: the buffer is marked and listed.
Mark(t) ==
  LET c == call[t]
  IN /\ Doing(t, "mark")
     /\ alloced_bitmap' = alloced_bitmap \cup {c.buffer}
     /\ gft' = [gft EXCEPT ![c.gfd].pages = Append(@, [page |-> ThisPage(c), buffer |-> c.buffer, dirty |-> FALSE])]
     /\ Goto(t, [c EXCEPT !.at = IF c.op = "read" THEN "fill" ELSE "write", !.buffer = IF c.op = "read" THEN @ ELSE 0])
  /\ UNCHANGED <<tree, lft, cache, device, file_length, expected, spoiled>>

\* There is no memory behind the buffer: it is released, the transfer ends.
MarkFails(t) ==
  /\ Doing(t, "mark")
  /\ alloced_bitmap' = alloced_bitmap \ {call[t].buffer}
  /\ Return(t)
  /\ UNCHANGED <<tree, tables, cache, device, file_length, expected, spoiled>>

\* The driver reads the page into its buffer.
Fill(t) ==
  LET c == call[t]
  IN /\ Doing(t, "fill")
     /\ cache' = [cache EXCEPT ![c.buffer] = device[c.node][ThisPage(c)]]
     /\ Goto(t, [c EXCEPT !.at = "read", !.buffer = 0])
  /\ UNCHANGED <<tree, tables, alloced_bitmap, device, file_length, expected, spoiled>>

\* Faulty form of FillFails: the page stays listed.
FillFailsListed(t) ==
  LET c == call[t]
  IN /\ Doing(t, "fill")
     /\ alloced_bitmap' = alloced_bitmap \ {c.buffer}
     /\ Return(t)
  /\ UNCHANGED <<tree, tables, cache, device, file_length, expected, spoiled>>

\* It fails: page_cache_release_buffer takes the page off the list.
FillFails(t) ==
  LET c == call[t]
  IN /\ Doing(t, "fill")
     /\ alloced_bitmap' = alloced_bitmap \ {c.buffer}
     /\ gft' = [gft EXCEPT ![c.gfd].pages = RemoveAt(@, InfoIndex(c.gfd, ThisPage(c)))]
     /\ Return(t)
  /\ UNCHANGED <<tree, lft, cache, device, file_length, expected, spoiled>>

\* The page is copied out.  Reading r cells, less than a page, clears as many
\* after those read, in buffer b itself and past its end in the next one.  The
\* bitmap, a cell to a buffer, lies in the last: buffers in use whose cells are
\* reached are free from then on.
ClearedCells(b, r) == b * Cells + r + 1 .. b * Cells + 2 * r
Cleared(b, r) ==
  [d \in Buffer |-> [i \in 1..Cells |->
     IF d * Cells + i \in ClearedCells(b, r) THEN 0 ELSE cache[d][i]]]
Unmarked(b, r) == {d \in alloced_bitmap : (Buffers - 1) * Cells + d + 1 \in ClearedCells(b, r)}
CopyOut(t) ==
  LET c == call[t]
      b == BufferOf(c.gfd, ThisPage(c))
      r == Rest(c)
  IN /\ Doing(t, "read") /\ r > 0 /\ Cached(c.gfd, ThisPage(c))
     /\ ThisPage(c) * Cells < file_length[c.node]
     /\ IF r < Cells
        THEN /\ cache' = Cleared(b, r)
             /\ alloced_bitmap' = alloced_bitmap \ Unmarked(b, r)
             /\ spoiled' = spoiled \cup {"cleared"}
                                  \cup (IF Unmarked(b, r) = {} THEN {} ELSE {"unmarked"})
        ELSE UNCHANGED <<alloced_bitmap, cache, spoiled>>
     /\ Goto(t, Advanced(c))
  /\ UNCHANGED <<tree, tables, device, file_length, expected>>

\* A page is copied in, always a whole one, and is dirty from then on.
\* Faulty form of CopyIn: the page stays clean.
CopyInClean(t) ==
  LET c == call[t]
      b == BufferOf(c.gfd, ThisPage(c))
  IN /\ Doing(t, "write") /\ Rest(c) > 0 /\ Cached(c.gfd, ThisPage(c))
     /\ cache' = [cache EXCEPT ![b] = Filled(c.value)]
     /\ expected' = [expected EXCEPT ![c.node][ThisPage(c)] = Filled(c.value)]
     /\ IF Rest(c) < Cells THEN Spoil("overrun") ELSE UNCHANGED spoiled
     /\ Goto(t, Advanced(c))
  /\ UNCHANGED <<tree, tables, alloced_bitmap, device, file_length>>
CopyIn(t) ==
  LET c == call[t]
      b == BufferOf(c.gfd, ThisPage(c))
  IN /\ Doing(t, "write") /\ Rest(c) > 0 /\ Cached(c.gfd, ThisPage(c))
     /\ cache' = [cache EXCEPT ![b] = Filled(c.value)]
     /\ gft' = Marked(c.gfd, ThisPage(c), TRUE)
     /\ expected' = [expected EXCEPT ![c.node][ThisPage(c)] = Filled(c.value)]
     /\ IF Rest(c) < Cells THEN Spoil("overrun") ELSE UNCHANGED spoiled
     /\ Goto(t, Advanced(c))
  /\ UNCHANGED <<tree, lft, alloced_bitmap, device, file_length>>

\* The transfer is over: everything moved, or the file read to its end.  A
\* write raises the length.
ReadEnds(t) ==
  /\ Doing(t, "read")
  /\ Rest(call[t]) = 0 \/ ThisPage(call[t]) * Cells >= file_length[call[t].node]
  /\ Return(t)
  /\ UNCHANGED <<tree, tables, store, expected, spoiled>>
WriteEnds(t) ==
  LET c == call[t]
      end == c.start * Cells + c.done
  IN /\ Doing(t, "write") /\ Rest(c) = 0
     /\ file_length' = [file_length EXCEPT ![c.node] = IF end > @ THEN end ELSE @]
     /\ Return(t)
  /\ UNCHANGED <<tree, tables, alloced_bitmap, cache, device, expected, spoiled>>

-----------------------------------------------------------------------------
(* sync_file *)

Sync(t, fd, first, last) ==
  LET d == lft[process[t]][fd]
      n == gft[d.gfd].node
  IN /\ t \in IoThread /\ Doing(t, "idle")
     /\ "WRITE" \in d.flags
     /\ Goto(t, [at |-> "sync", gfd |-> d.gfd, node |-> n,
                 start |-> IF last < first THEN 0 ELSE first,
                 page |-> IF last < first THEN 0 ELSE first,
                 end |-> IF last < first THEN PagesOf(file_length[n]) ELSE last])
  /\ UNCHANGED <<tree, tables, store, expected, spoiled>>

Dirty(gfd, page) == Cached(gfd, page) /\ gft[gfd].pages[InfoIndex(gfd, page)].dirty

SyncSkip(t) ==
  LET c == call[t]
  IN /\ Doing(t, "sync") /\ c.page <= c.end /\ ~Dirty(c.gfd, c.page)
     /\ Goto(t, [c EXCEPT !.page = @ + 1])
  /\ UNCHANGED <<tree, tables, store, expected, spoiled>>

\* A dirty page is written to the place of the first page of the range.
\* Faulty form of SyncTarget: the place after it.
SyncAfter(c) == c.start + 1
SyncTarget(c) == c.start
SyncPage(t) ==
  LET c == call[t]
  IN /\ Doing(t, "sync") /\ c.page <= c.end /\ Dirty(c.gfd, c.page)
     /\ SyncTarget(c) \in PageIndex
     /\ device' = [device EXCEPT ![c.node][SyncTarget(c)] = cache[BufferOf(c.gfd, c.page)]]
     /\ gft' = Marked(c.gfd, c.page, FALSE)
     /\ IF c.page # c.start THEN Spoil("misplaced") ELSE UNCHANGED spoiled
     /\ Goto(t, [c EXCEPT !.page = @ + 1])
  /\ UNCHANGED <<tree, lft, alloced_bitmap, cache, file_length, expected>>

SyncEnds(t) ==
  LET c == call[t]
  IN /\ Doing(t, "sync")
     /\ c.page > c.end \/ Dirty(c.gfd, c.page)   \* or the driver fails
     /\ Return(t)
  /\ UNCHANGED <<tree, tables, store, expected, spoiled>>

-----------------------------------------------------------------------------
Grow ==
  \/ \E n \in Node : type[n] # "DEVICE" /\ AddChild(home[n], n)
  \/ \E n \in Node : CreateDevice(n)
TreeGrows == Grow /\ UNCHANGED <<tables, store, call, expected, spoiled>>

FilesInit ==
  /\ VfsInit
  /\ gft = <<>> /\ lft = [p \in Process |-> <<>>]
  /\ alloced_bitmap = {Buffers - 1}
  /\ cache = [b \in Buffer |-> Filled(0)]
  /\ device = InitialDevice
  /\ file_length = InitialLength
  /\ call = [t \in Thread |-> Idle]
  /\ expected = InitialDevice
  /\ spoiled = {}

OpenStep(t) ==
  \/ \E n \in File, flags \in Flags :
       n \in Created /\ parent[n] \in Created
         /\ OpenGlobal(t, IF parent[n] = vfs_root THEN <<name[n]>> ELSE <<name[parent[n]], name[n]>>, flags)
  \/ OpenLocal(t) \/ OpenLocalFails(t) \/ OpenUndo(t) \/ OpenDriver(t)

IoStep(t) ==
  \/ \E fd \in DOMAIN lft[process[t]], start \in PageIndex, count \in Counts :
       \/ BeginTransfer(t, "read", fd, start, count, 0)
       \/ \E v \in Value : BeginTransfer(t, "write", fd, start, count, v)
  \/ \E fd \in DOMAIN lft[process[t]], first, last \in PageIndex : Sync(t, fd, first, last)
  \/ Find(t) \/ Mark(t) \/ MarkFails(t) \/ Fill(t) \/ FillFails(t)
  \/ CopyOut(t) \/ CopyIn(t) \/ ReadEnds(t) \/ WriteEnds(t)
  \/ SyncSkip(t) \/ SyncPage(t) \/ SyncEnds(t)

FilesNext == TreeGrows \/ \E t \in Thread : OpenStep(t) \/ IoStep(t)
FilesSpec == FilesInit /\ [][FilesNext]_filesVars

-----------------------------------------------------------------------------
(* Properties *)

\* A file has one entry in the global table, whoever opened it and whichever
\* opening failed half way, and its count is the number of descriptors.
Descriptors(gfd) == UNION {{<<p, fd>> : fd \in {i \in DOMAIN lft[p] : lft[p][i].gfd = gfd}} : p \in Process}
Opening(gfd) == {t \in Thread : call[t].at \in {"local", "undo"} /\ call[t].gfd = gfd}
DescriptorsCounted ==
  \A gfd \in DOMAIN gft :
    /\ gft_get_n(gft[gfd].node) = {gfd}
    /\ gft[gfd].open_count = Cardinality(Descriptors(gfd)) + Cardinality(Opening(gfd))

\* No page is listed twice; no two pages share a buffer, none lies over the
\* bitmap and a buffer in use is marked, until a partial read clears a part of
\* the bitmap.
Listed == {a \in (DOMAIN gft) \X (1..Buffers + 1) : a[2] \in DOMAIN gft[a[1]].pages}
BuffersApart ==
  /\ \A a, b \in Listed :
       a # b /\ a[1] = b[1] => gft[a[1]].pages[a[2]].page # gft[b[1]].pages[b[2]].page
  /\ "unmarked" \notin spoiled =>
       /\ \A a, b \in Listed :
            a # b => gft[a[1]].pages[a[2]].buffer # gft[b[1]].pages[b[2]].buffer
       /\ \A a \in Listed : gft[a[1]].pages[a[2]].buffer \in alloced_bitmap \ {Buffers - 1}

\* A page that the cache holds and does not call dirty is on the device.
InFlight(gfd, page) == \E t \in Thread : call[t].at \in {"fill", "write"} /\ call[t].gfd = gfd /\ ThisPage(call[t]) = page
OnDevice(gfd, page) ==
  Cached(gfd, page) /\ ~Dirty(gfd, page) /\ ~InFlight(gfd, page) =>
    cache[BufferOf(gfd, page)] = device[gft[gfd].node][page]
CleanPagesOnDevice == \A gfd \in DOMAIN gft, page \in PageIndex : OnDevice(gfd, page)

\* The same, of the transfers that the driver gets right: whole pages, and one
\* page to a sync.
CleanPagesOnDeviceIfWhole == spoiled = {} => CleanPagesOnDevice

\* Whoever reads a page gets what was last written to it, from the cache or
\* from the device.
ReadsSeeWrites ==
  spoiled = {} =>
    \A gfd \in DOMAIN gft, page \in PageIndex :
      ~InFlight(gfd, page) =>
        LET n == gft[gfd].node
        IN IF Cached(gfd, page) THEN cache[BufferOf(gfd, page)] = expected[n][page]
           ELSE device[n][page] = expected[n][page]
=============================================================================
