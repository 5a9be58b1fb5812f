# A TLA+ development of the MeOS kernel

MeOS is a hobby kernel for 32-bit x86 on one processor: a preemptive priority
scheduler, locks and queues built on it, device drivers (keyboard, AHCI disk,
i217 network card), memory management with demand paging, a virtual file
system over FAT32, and a small network stack. This directory specifies its
concurrent and stateful parts in TLA+, checks them with TLC on small instances
and proves with TLAPS the central results about the scheduler, semaphores and
mutexes, the threads and the keys of the keyboard, the lock-free queue, the pipe,
the heap, the address space of a process, process creation, nested interrupts, the disk controller's memory, the
disk transfers, and open files with their cached pages.

All source paths are relative to `src/MeOS/` unless they say otherwise. `PROJECT.json` lists
components, runs, mutants, the map from definitions to lines, findings, hazards
and theorems.

## 1. Inventory

What each part keeps and does, how it meets the others, and what makes it
correct.

| part | state | operations | hard about it | correct when |
|---|---|---|---|---|
| **Thread scheduler** `thread_sched.cpp`, `dl_list.h` | a ready queue per priority, block queue, sleep queue, `current_thread`, the state in each TCB | insert, yield, block, sleep, notify (of oneself and of others), the timer interrupt, start | preemption at any unmasked instruction; `thread_sleep` unmasks between queueing and switching; lists are moved by position | a thread is linked once, where its state says; the current thread runs and heads its queue; no PANIC; priorities and turns are kept; sleepers wake |
| **Critical section** `critlock.cpp` | one flag | acquire, release | nesting; ticks inside are dropped | the processor is not taken away inside |
| **Semaphore, mutex** `semaphore.cpp`, `mutex.cpp` | count, list of waiters, owner | wait, signal (also from an interrupt handler), acquire, release | signal between test and block; permits handed over | implements a counting semaphore; one owner; waiters are served |
| **Spinlock** `spinlock.cpp` | a word | acquire, try, release | the interrupt flag at the store | one holder; progress |
| **SPSC queue** `queue_spsc.h` | ring buffer, two indices | insert, remove, peek, clear | two sides without a lock | is a bounded FIFO |
| **Containers** `list.h`, `queue.h`, `vector.h`, `ordered_vector.h`, `queue_mpmc.h` | linked nodes with head, tail and count; arrays that grow; a ring under the critical section | every call of theirs | head, tail and count must follow through every route; unsigned indices; rings that wrap | each is the sequence its calls promise |
| **Pipe** `pipe.cpp` | ring, two semaphores | read, write | store and advance are separate | order, no loss, progress |
| **Keyboard** `keyboard.cpp` | two queues, reader list; modifiers, locks and LEDs | interrupt, daemon, `kybd_read`, translation to ASCII | test for empty, then block; modifiers of a later moment | no wake-up is lost; modifiers follow the keys; the character meant is the one read |
| **AHCI disk, PCI** `AHCI.cpp`, `PCI.cpp` | two semaphores per port, command slots, registers of each port | find and start the controller, transfer, callback | surplus interrupts, busy port, partial errors, a region cut up by hand | one request at a time; data is there when it is used; structures of ports lie apart |
| **Physical memory** `mmngr_phys.cpp` | bitmap, count | region calls, allocate, free | count and bitmap must agree; unlocked | no block has two owners, none is lost |
| **Heap** `mmngr_heap.cpp`, `memory.cpp` | list of block headers inside the heap | malloc, free, realloc, defragment | merging and splitting | allocations stay apart; every place is found |
| **Address space** `mmngr_virtual.cpp`, `vm_contract.cpp`, `vm_area.cpp` | areas in order, page directory and tables, `contract_spinlock` | mmap, page fault, map, allocate, free a page | failures half way, the lock | areas apart, legal faults served |
| **Page cache** `page_cache.cpp` | buffers in use, cached pages of each file, dirty flags | reserve, release (anonymous or of a file), dirty | unlocked; the bitmap lives in the cache itself | a buffer has one user; dirty pages are not lost |
| **Open files** `open_file_table.cpp`, `file.cpp` | global table with counts, local table per process | open, read, write, sync, seek | the count of opens, pages partly written | what was written is what is read and synced |
| **VFS** `vfs.cpp` | tree of nodes | create, mount, look up, device operations | tree shape | a path leads to its node |
| **FAT32** `FAT32_fs.cpp` | FAT and directory clusters on disk, the layout of open files | mount, open, read, write, create, delete, move | several disk writes per operation, no journal | chains do not cross; a stopped operation loses no file |
| **Processes** `process.cpp`, `kernel_stack.cpp` | PCB and TCB lists, page directories, kernel stacks | create process, create thread, reserve a kernel stack | the directory is switched to write a stack, with ticks between; unlocked list | a thread starts on its own stack |
| **Network card** `i217.cpp` | receive and transmit rings, queue of received descriptors | start, receive interrupt, deferred processing, send | the device writes while the daemon reads, and reads while the daemon reuses | a packet is handled before its buffer is reused |
| **Network stack** `net*.cpp`, `arp.cpp`, `ip.cpp`, `icmp.cpp`, `udp.cpp`, `sock_buf.cpp` | socket buffers | push and pop of headers, answers | header space, byte order | every request for us is answered, with our address |
| **Interrupts and exceptions** `isr.cpp`, `idt.cpp`, `pic.cpp`, `kasm.asm`, `thread_exception.cpp` | two interrupt controllers, gates, handler tables, frames on the stacks | dispatch, EOI, exceptions | handlers that unmask, nesting, switches inside a handler | no line stays in service for good; every vector reaches its handler |
| boot, shell, loaders, console, test device | - | run once or only print | - | - |

How they meet: everything that waits does so through the scheduler
(`thread_block`, `thread_sleep`, or a semaphore that moves the thread to its
own list), and is woken by `thread_notify` or a signal, from a thread or from
an interrupt handler. The interrupt flag is the only real lock of the
machine: the scheduler, semaphores and mutexes mask interrupts, `critlock`
only makes the timer interrupt leave the processor alone. The disk driver is a client
of semaphores, the keyboard one of the SPSC queue and of block and notify, the
pipe one of semaphores. A page fault runs the memory contract, the physical
memory and, for files, the page cache, the file layer, FAT32 and the disk. The
heap runs under `critlock`.

## 2. Modules

| module | models | state and actions against the code |
|---|---|---|
| `KernelLists` | `dl_list.h` | lists as sequences of nodes; removal, insertion at the back, head to tail, removal of a given node |
| `Scheduler` | `thread_sched.cpp`, `critlock.cpp` | one variable per field; one action per call (`Insert`, `Yield`, `BlockSelf`, `BlockOther`, `SleepSelf`, `SleepOther`, `Notify`, `Tick`, ...). Each call runs with interrupts masked and is one step, except `thread_sleep`, which unmasks before it switches: `SleepSelf` then `SleepSwitch`, with ticks between. `intr` is the interrupt flag of each thread, saved over a switch; a tick needs it up |
| `CountingSemaphore` | what a semaphore promises | a count and a line of waiters; wait, signal |
| `Semaphores` | `semaphore.cpp`, `mutex.cpp` on `Scheduler` | the count, the waiters' list, the owners of a mutex; signals from threads and from an interrupt handler |
| `Spinlock` | `spinlock.cpp` on `Scheduler` | a program counter per thread: test, sleep, store |
| `BoundedFifo` | what a bounded queue promises | put, take, drop |
| `QueueSpsc` | `queue_spsc.h` | each operation split where it reads the other side's index |
| `ItemSequences` | what lists, vectors, ordered vectors and rings promise | the items a container holds, and which sequences one call may turn them into |
| `Containers` | `list.h`, `queue.h`, `vector.h`, `ordered_vector.h`, `queue_mpmc.h` | nodes with their links, arrays with their length and room, a ring with head and tail; refined to `ItemSequences` by reading head to tail |
| `Pipe` | `pipe.cpp` on `CountingSemaphore` | per character: wait, store or load, advance, signal |
| `Keyboard` | the waiting in `keyboard.cpp` on `Scheduler` | handler, daemon and reader; look, node (interrupts unmasked), block |
| `KeyDecode` | the meaning of keys in `keyboard.cpp` | the codes still in the queue, the flags `_shift`, `_ctrl`, `_alt` and of the locks, the LEDs, and the keys a reader turns into characters later |
| `AhciPort` | transfers of `AHCI.cpp` on `CountingSemaphore` | clients, the callback, the device with its commands and interrupts |
| `DiskStart` | `PCI.cpp`, `init_ahci` | the walk over the bus; per port: stop, rebase, start, identify; the device settles, answers and interrupts in its own time |
| `PhysicalMemory`, `VmContract` | `mmngr_phys.cpp`; `vm_contract.cpp`, `vm_area.cpp` | operators on a memory and on a contract, used by the next module |
| `AddressSpace` | `mmngr_virtual.cpp`, `vfs_mmap_p`, anonymous buffers of `page_cache.cpp` | mmap, page fault, reserve, release; whole calls, one thread |
| `Heap` | `mmngr_heap.cpp`, `memory.cpp` | the header addresses and used flags; malloc, free, realloc, defragment |
| `Vfs` | `vfs.cpp` | the tree as a parent per node; creation of nodes; lookups along a path |
| `Files` | `open_file_table.cpp`, `file.cpp`, `page_cache.cpp`, read and write of the mounted driver, on `Vfs` | global and local tables; a transfer is a chain of steps with one page each: find a buffer, mark it, load, copy, write back; every device transfer may fail |
| `Fat32` | `FAT32_fs.cpp` | FAT, slots of directories, nodes in memory; a call is a chain of steps with at most one write to the disk each; any may fail, and the machine may stop after any of them and mount again |
| `Net` | `i217.cpp`, `ethernet.cpp`, `arp.cpp`, `sock_buf.cpp` | the rings, the queue of indices, the daemon between dequeue and release, the card reading and writing in its own time |
| `Processes` | `process.cpp`, `kernel_stack.cpp` | creators halfway through a creation, the directory each process has and the one that is loaded, with preemption between any two steps |
| `Interrupts` | `isr.cpp`, `idt.cpp`, `pic.cpp`, `kasm.asm`, `thread_exception.cpp` | the request and in-service bits of both controllers, and per thread the stack of frames: which handler, and how far it is |
| `MC...` | - | constants and instances for TLC |
| `...Proofs` | - | lemmas and theorems |

`Semaphores`, `Spinlock` and `Keyboard` extend `Scheduler` and compose with it:
each of their steps that blocks or wakes a thread is a step of the scheduler as
well. `Pipe` and `AhciPort` stand on the abstract `CountingSemaphore`, which
`Semaphores` is shown to implement (`ImplementsCountingSemaphore`), so that
their state stays small. `Files` takes its tree from `Vfs`, `AddressSpace` its
blocks and areas from `PhysicalMemory` and `VmContract`. `CONSTANT Calls` selects the calls the threads of an
instance make.

`MCStructures`, `MCDisk` and `MCDevices` put modules side by side that share
nothing with each other. The variable `part` is chosen once and says which of them moves; the
others stay as they were initialised. This is a way to check several small
state spaces in one run and says nothing about the parts together.

Abstractions: names, sizes and contents of messages are model values; the
pointers of the scheduler's lists are not modelled (those of `list.h` are, in
`Containers`); `lock` of `_semaphore` keeps the code's
name. Definitions called "faulty form of" some other definition describe a
plausible bug in it and are used by no specification; putting one in place of
the definition shows that a property notices.

Known defects of the code would make many properties fail for an uninteresting
reason. Where that is so, a history variable records that the
defect was met (`spoiled` in `Fat32`, `Files` and `Net`; `crossed` in `QueueSpsc`; `surplus`
and `gaveUp` in `AhciPort`; `leaked` in `AddressSpace`; `overlap` in `Processes`), the
step that meets it is in the model, and the property says what holds as long
as it was not met. Section 7 lists these defects with their lines.

## 3. Runs

| run | asks | instance and bounds |
|---|---|---|
| `scheduler_calls` | do states and lists agree, is no PANIC reached, are priority, order of arrival and critical sections respected? | five threads on three priorities, all calls; tick counter modulo 2; critical sections one deep |
| `scheduler_sleepers` | the same with two sleeps of different length: violated | sleeps of 1 and 25 ms, 20 ms a tick |
| `semaphores_exclusion` | does `semaphore.cpp` implement the counting semaphore, has a mutex one owner? | four threads, a mutex, a semaphore a device signals, counts up to 2 |
| `semaphores_turns` | does everybody get turns, wake and get the mutex? | three threads of one priority and the idle thread, sleeps of 40 ms at 20 ms a tick, fairness |
| `spinlock_retry` | does somebody always get in? | three threads, acquire and try |
| `spinlock_holders` | is there one holder: violated | the same without try |
| `keyboard_typing` | does a key reach its reader while the user types? | queues of two, two kinds of code, reads of two keys |
| `files_transfers` | do counts match descriptors, has a buffer one page, are clean pages on the device, does a read see the last write? | two processes, two files of two pages of three cells, three buffers (the last holds the bitmap), transfers of two cells and of two pages, tables of two, two and one entries; one thread transfers while both open |
| `net_frames` | is every request for our address answered once, in order, with our address? | four frames out of five kinds, memory that may run out, rings of three and two, fairness |
| `structures_use` | do containers, ring buffer, pipe, heap, paging and thread creation keep their promises? | three nodes on two lists, vectors of up to four; rings of three places; a heap of 18 bytes with headers of 2 and requests of 1, 2, 4 and 7; eleven pages on three tables with five free blocks and six areas, of which the screen's and the devices' map pages to themselves; two creators, two processes with two threads |
| `disk_use` | do the structures of the controller lie apart, does one transfer run at a time, is data there, do transfers end? | two controllers, ports 0, 1, 15 and 31, 2 buses with 3 devices of 3 functions; three clients, three slots, 16 and 17 sectors, one surplus permit |
| `devices_calls` | do chains, entries, contents and clusters survive stops and failures; do modifiers follow keys; is no line left in service? | eight FAT entries, clusters of five slots, four calls; five keys and four moves, a queue of two; lines 0, 1, 10 and 11, two threads, two frames a thread |

Why the bounds are enough: the scheduler's decisions look at the head and the
tail of a list and at one other element, so two threads of a priority and one
on each side of it meet every case; two values tell the order of a queue; three
places and four slots make rings wrap more than once; the heap holds up to six blocks,
so runs of several unused blocks between used ones occur, and requests that fit
exactly, leave room for a header only, and leave more; in the address space an
immediate area is caught half mapped when blocks run out, and a
released buffer brings blocks back. Four calls on a volume are enough to create a
directory, create in it, move and delete, with a stop in any of them; eight FAT
entries run out. Two pages and two usable buffers make pages of two files compete; in a page of three cells a read of two
clears one cell of the next buffer, which may be the bitmap. Four frames
are more than the receive ring takes. Keys: a letter, both shift keys, the
capitals lock and one outside the table, so that pairs of one modifier and a
lock occur within four moves. Two threads with two frames each let a handler be
interrupted, switched away and met again.

Every bound by name: `TicksRange` (the tick counter wraps), `MaxNesting`,
`MaxValue` (the signals a semaphore accumulates), `MaxSignals`, `Places`,
`MaxRead`, `MaxLength`, `Slots` (the sizes of the containers), `MaxBlocks`, `MaxProcesses` and
`MaxThreads`, `MaxCalls`, `MaxMoves`, `CodePlaces`, `MaxFrames` (frames of
a thread in `Interrupts`), `MaxArrivals` (frames that reach the card in `Net`), `GlobalEntries` and
`LocalEntries`, and the constraint `Followed` of `MCFiles` (the tree is whole
before the first opening; a state past a known defect is not followed).

`CHECK_DEADLOCK FALSE` is used where the system may stop: after a PANIC, a bound on calls or frames
that has been reached, a start of the disk that has ended, and in `disk_use` also where a transfer that gives up keeps
the request permit and everybody else waits.

## 4. Fairness

* The timer is hardware: `Tick` is fair, and strongly so where interrupts are
  masked now and then, for a masked tick stays pending in the interrupt
  controller and comes as soon as they are unmasked.
* A thread inside the kernel goes on: strong fairness per thread for the steps
  of a call, because a tick may disable such a step (by switching away) and
  enable it again. A thread gets a step done in some of its time slices, not in each.
* A thread that owns a mutex or a spinlock releases it some day. This is an
  assumption on the callers; without it nothing can be promised to waiters.
* The disk completes commands, and its interrupt is served.
* In `net_frames` the card reads what it is told to send, its interrupt is
  served, and the daemon, which polls its queue, goes on.
* `keyboard_typing` assumes that the user goes on typing. This is not an
  innocent assumption: it is what rescues a lost wake-up (section 7).
* No fairness is assumed of calls that need not happen (a transfer being asked
  for, a device interrupting for other causes, a port staying busy, a key, a frame).

## 5. Proofs

Everything below holds for all values of the constants that satisfy the named
assumptions of the modules. A hypothesis of a theorem that is no such assumption is named
in it and explained here.

| module | about |
|---|---|
| `KernelListsProofs` | lemmas on lists: what removal, insertion at the back and moving the head leave of the nodes and of the absence of duplicates, and that picking positions in order keeps both; facts on numbers and sequences that the others share |
| `ThreadsProofs` | `Scheduler`; `Semaphores` and `Keyboard`, on the invariant of the scheduler |
| `CountingSemaphoreProofs` | `CountingSemaphore`; what one wait and one signal change |
| `DevicesProofs` | `Interrupts`, `KeyDecode` and `Net` |
| `StructuresProofs` | `QueueSpsc`, `Pipe`, `Heap`, `AddressSpace`, `Processes` |
| `ContainersProofs` | `Containers` |
| `FilesProofs` | `Files`; `AhciPort` and `DiskStart` |
| `FatProofs` | `Fat32` |

### The scheduler

For every set of threads, priorities, numbers of queues, calls and depth of nesting:

| theorem | states |
|---|---|
| `QueuesAlwaysMatchStates` | `UniformSleep => (Spec => []QueuesMatchStates)`; the same hypothesis for the next two and the last two |
| `NeverPanics` | no PANIC, no list corrupted |
| `CurrentAlwaysRuns` | `RunningIsCurrent` |
| `AlwaysSwitchesInOrder` | `UniformSleep /\ SectionsDoNotNest /\ Spec => SwitchesInOrder` |
| `TypeCorrect` | `TypeOK` |
| `Invariance` | the inductive invariant `IInv({})` |

The hypothesis `UniformSleep`, that all sleeps have one length, is needed: with
two lengths the code is wrong (`scheduler_sleepers`). So is `SectionsDoNotNest`, for the
order of switches: there is one flag for all sections, and the end of an inner one puts it down
for the outer one too (`critlock.cpp`).

The argument: `QueuesMatchStates` is not inductive. The next thread is found
only if some ready queue has a thread in it, which is so because the idle thread, once queued, never
blocks or sleeps (`IdleIsRunnable`) and nobody waits before it is queued
(`MayWait`, `kernel.cpp:709`). Waking sleepers unlinks the right node only if
those that expire are in front, so the sleep queue must be in order of waking
(`SleepersInOrder`), which appending to it keeps only when all sleeps have one
length. A dropped tick is harmless only if the flag belongs to the current
thread (`FlagIsCurrents`). `IInv` is the conjunction, and each action has a
lemma `...Keeps`. It takes a set `W` of threads that are blocked in none of the scheduler's
own queues: none for the scheduler alone, the waiters where semaphores stand on it.
The order of switches then is a matter of each step: the queue a switch
takes from is the first one that is not empty, and only its head leaves it, or goes to its end.

### Semaphores, mutexes and the keyboard's threads

For every set of threads, semaphores, permits and codes:

| theorem | states |
|---|---|
| `WaitersAlwaysBlocked` | `Disciplined /\ SemaphoresSpec => []WaitersAreBlocked` |
| `MutexesExclude` | `Disciplined /\ SemaphoresSpec => []MutualExclusion` |
| `SemaphoresImplement` | `Disciplined /\ SemaphoresSpec => ImplementsCountingSemaphore` |
| `AlwaysNotifiesReader` | `DaemonFirst /\ KeyboardSpec => []NotifiesReader` |
| `KeyboardNeverPanics` | the same for `NoPanic` and `QueuesMatchStates` |
| `SemaphoresInvariance`, `KeyboardInvariance` | the inductive invariants `SInv` and `KInv` |

`Disciplined` says that sleeps have one length and that `thread_notify` is not called for a thread
that waits for a semaphore: it would look for it in the block queue, where it is not
(`thread_sched.cpp`; no caller in the kernel does so, and the instance leaves it out of `Calls`).
`SInv` is `IInv` with the waiters outside the scheduler's queues, and that nobody stands in two
lines (`InOneLine`). A call is at the same time a step of the semaphore and one of
the scheduler; lemmas say what blocking and waking keep of `IInv(W)` when `W` gains or loses the
thread. Each step then is a step of the counting semaphore under the mapping, or a stutter.

`DaemonFirst` says that the daemon has a smaller number, that is a higher priority, than the reader, as
they are created (1 and 3). The daemon tests `active` twice, and notifies what the second test
read. Between its two tests it is ready or running, so the reader is not the current
thread (`NoReaderMeanwhile`), because the scheduler switches to the first queue that is not empty: this is
where the proof about the driver needs the one about the scheduler, and where the code is safe for a reason
that is written in neither file.

### Keys

| theorem | states |
|---|---|
| `FlagsFollowKeys` | `DecodeSpec => []ModifiersFollowKeys` |
| `KeysAreMeant` | `DecodeSpec => []WritesWhatWasMeant` |
| `DecodeInvariance` | the inductive invariant `DecodeInv` |

The properties speak of the moment when the queue of codes is empty; the invariant must speak of all
others. It says that there are `coming` flags, one set after each code in the queue, such that
each follows from the one before by the code between them and the last are those of the keys that are
down (`Foretells`), and each code's character is the one that the flags foretold at its place
give. The capitals lock is foretold in the same way (`ForetellsLock`). A stroke
adds a place at the end, the daemon takes one off the front. `OneKeyEach` is part of it: with two
keys of one modifier down the flags cannot follow (`stray`).

### Queue and pipe

| theorem | states |
|---|---|
| `QueueIsFifo` | `Spec => ImplementsFifo`: the ring buffer implements `BoundedFifo` with room for `max_count - 1` |
| `PeekIsOldest` | `Spec => PeekSeesOldest` |
| `Invariance` | the inductive invariant `QueueInv` |
| `PipeDeliversInOrder` | `OneAtEachEnd /\ PipeSpec => DeliversInOrder` |

Nothing is assumed of the callers: whoever may clear the queue (`Clearer`), and wherever the other side stands. A
clearing by the producer takes two steps, and if the consumer has moved the head meanwhile, or stands between its own
test and its store or read, the queue is no longer one (`queue_spsc.h:77`); `crossed`
records that, and both properties speak of the time before. The argument: positions are measured by their distance from the
head along the ring. What the producer has tested (a free slot) stays true
because only the producer moves the tail away from the head, and what the
consumer has tested (an element, or how much to drop) because only the consumer
moves the head; `QueueInv` states this for each side halfway through its operation, until `crossed`.
Each step then appends one element, takes some off the front, or changes
nothing of the sequence that the refinement mapping reads from head to tail. The indices stay
inside the buffer in any case.

`OneAtEachEnd` says that one thread writes to the pipe and one reads; two writers use the same
place (`pipe.cpp:82`). The argument: each place is free, taken by the writer,
holds a character, or is being given back by the reader, and each character is announced, about to be, or
taken (`PlacesCounted`); so the writer stores only where no character is
left and the reader loads only when there is one. With `RingHolds`, the characters
written and not read are those from the read position on, in order, also between
an access and the advance of its position.

### Containers

| theorem | states |
|---|---|
| `ContainersImplementSequences` | `ContainersSpec => ImplementsSequences` |

For every set of items and nodes, any number of lists and queues, and every length of vector and ring. A call does
to the items of its container what `ItemSequences` promises, returns what that promises, and
changes no other container. `ContainersInv` is the invariant it needs:

* Every list is a chain (`OneChain`): the head points to its first node, each node to
  the next, the tail to the last, and there are as many as the count says. No two lists, nor the
  node that was unlinked and not deleted, share a node (`Linked`). So a node that a call
  writes to lies on no other list.
* An array has a place for each of its items (`ArraySound`), and the `ordered_vector` is `Sorted`.
* The indices of the ring are slots (`RingSound`).

`Chain` finds a list by following pointers, a recursive function; that it finds a given chain is shown
by climbing along that chain (`ChainIs`, by `Ladder`: a set that holds 0 and, with each
number below k, the next one holds k). What a call makes of a chain is then a matter of pointers, and
what that makes of the items one of positions (`Appended`, `Removed`, `Rotated`, `Joined`). The binary
search of the `ordered_vector` is a recursive function on windows: `SearchExists` shows that there is one by
climbing over the length of the window, `SearchFinds` that it ends on an item exactly when the item is there,
which needs `Sorted`. The sums with remainder of the ring are
brought into a form without (`AheadIs`, `GapIs`).

### Heap and process creation

| theorem | states |
|---|---|
| `HeapAlwaysSound` | `HeapSpec => []HeapSound` |
| `HeapInvariance` | the inductive invariant `HeapInv` |
| `NewThreadsStartOnOwnStack` | `ProcessesSpec => []StartsOnOwnStack` |
| `ProcessesInvariance` | the inductive invariant `ProcessesInv` |

Blocks of the heap have no length in the code: a block ends where the next header
begins, or at the end of the heap. `BlocksApart` says that each header is followed by room before the next one or the
end of the heap, `BlocksHold` that an allocation lies behind a used header and ends before every
later one, `CountsBlocks` that the heap's own count is the number of headers. Splitting a block puts a header
in what the new owner did not ask for; merging takes away headers of unused blocks
only; so neither touches a used one. The finite set of headers grows and shrinks with the count.

`ProcessesInv` holds as long as no two creations overlapped (`overlapped`; section 7). It says that the
stacks' addresses mean the same in every directory, that none of the blocks
behind them is free and no two of them are one (`MemoryInv`); that one creation is under way, with a
buffer that belongs to nobody else and is marked from its mark on (`CreationInv`); and that no two
threads have one stack (`StacksApart`). So what was written for a thread stays
(`StacksKept`), whatever directory a switch loads in between.

### Address spaces

For every number of blocks, pages, tables and buffers of the page cache, and every set of areas that
`IdentityAssumption` admits:

| theorem | states |
|---|---|
| `AddressSpaceAlwaysSound` | `PagingSpec => []AddressSpaceSound` |
| `LegalFaultsAlwaysServed` | `PagingSpec => LegalFaultsServed` |
| `AddressSpaceInvariance` | the inductive invariant `PagingInv` |

`IdentityAssumption` says that an area whose pages are mapped to themselves lies above
all blocks and holds no buffer of the page cache: there are two, the devices' (`kernel.cpp:474`) and the screen's
(`screen_gfx.cpp:98`).

`Ordered` is what makes the binary searches right: the areas lie in order
between the two guards. What starts before a page is then a first part of the vector (`Segment`,
`SearchFacts`), so the search finds the area of a page if there is one (`FindFacts`), and an area
that meets neither of its neighbours meets no area (`InsertedOrdered`).

`SpaceSound` is an invariant of the paging functions themselves, which are operators on a space; its parameters are the
pages of devices and the blocks a call has taken and given to nobody yet. A call is a chain of
small changes, each of which keeps it: a block is taken (`BlockTaken`), becomes a table
(`TableMade`) or backs a page (`PageBacked`), or is lost (`BlockLost`); a page that is there is mapped again or
freed. Failure half way is one of the chains. For an area that is mapped at once the
invariant climbs from page to page, up to the last (`Ladder`, a least counterexample in place of
an induction), and a page once given stays so, for memory that has run out does not come
back meanwhile (`Keeps`, `Given`).

`PagingInv` joins the two. A new area may make devices of pages; these are not there
yet, for a page that is there lies in an area or in the page cache (`Mapped`). A buffer in use
has its page, so a release frees a block that is in use. The contract's lock
is free as long as no area was refused.

### Open files

For every set of threads, processes, files, and every size of page, cache and tables, all under `OneTransfers`:

| theorem | states |
|---|---|
| `DescriptorsAlwaysCounted` | `DescriptorsCounted` |
| `BuffersAlwaysApart` | `BuffersApart` |
| `CleanPagesAlwaysOnDevice` | `CleanPagesOnDeviceIfWhole` |
| `ReadsAlwaysSeeWrites` | `ReadsSeeWrites` |
| `FilesInvariance` | the inductive invariant `FilesInv` |

`OneTransfers`, that at most one thread transfers or syncs, while any number of them open files, is needed for the
last three: two threads would find the same free buffer before either marks it
(`page_cache.cpp:134`). The invariant has three parts. `TablesInv`: a file has one entry, what a call works on
exists, and a count is that of the descriptors and of openings half way (the finite sets
of both grow by one element each time the count does). `BuffersInv`: no page is listed twice, and, until a partial read
clears a part of the bitmap (`unmarked`), buffers of the lists are apart and marked, and a buffer that was found is free until it is marked (`ReservationsFit`). `ContentInv`,
unless a known defect was met: a cached page holds what was last written, a clean one also what the device
has, and the device has the last contents of all others. Two kinds of page are excepted while a call is
under way, which the properties do not tell apart: a page that is listed while its contents are
still to come (`Filling`) must have its last contents on the device, for a failing read takes it off the list
again; one that is listed for a writer which has yet to copy (`Pending`) may hold anything.

### Interrupts

For every set of threads, every set of devices at the slave and every depth of nesting:

| theorem | states |
|---|---|
| `InterruptsAlwaysSound` | `InterruptsSpec => []InterruptsSound` |
| `Invariance` | the inductive invariant `IInv` |

The argument: an EOI ends the line of highest priority in service, whichever
handler sends it, so what counts is how many lines are in service and how many
handlers are unfinished (`ServiceBalanced`). At the slave this also tells
which: while one of its handlers is unfinished, the cascade line is in service at the primary
(`CascadeHeld`) and lets nothing more of the slave through: an EOI takes the keyboard's
line before the cascade's, and the count says that a line stays in service as long as
the slave's handler is unfinished, so the one that stays is the cascade. The finite sets of lines
and the count of an EOI are lemmas (`EoiEndsOne`, `EoiCounts`).

### The network

For every set of frames, every number of descriptors and every length of `recv_queue`:

| theorem | states |
|---|---|
| `RepliesAlwaysAnswer` | `RepliesAnswer`, given `HonestSenders` |
| `NetInvariance` | the inductive invariant `NetInv` |

`HonestSenders`: an ARP frame names as its sender's hardware address the one its Ethernet header
does. The property sends the reply to the first, as the protocol has it; the code sends it to the
second (`arp.cpp:47`). The frames of `MCNet` are all of that kind.

The reply never leaves the buffer: the card sends what the descriptor points to, when it likes. So the invariant has to say
which frame the buffer holds at each place of the daemon, and that follows from the
way there (`ReceiveInv`, unless a frame was merged, overwritten, dropped or found no memory): the frames that came in are
those done with, the one in hand, those whose index is queued and at most one signalled, in this
order, and each descriptor still holds its frame. On the other side the card has at
most one descriptor to send, the one the daemon waits for (`TransmitInv`), so
nothing is sent before or after. `ReplyInv` counts: as many frames are out as there are requests among the first `Done`
that came in, and the frame out at the place of each is its reply. What a further frame adds to the requests and to their number is a
lemma (`OneMoreRequest`).

### The disk

For any number of clients, slots, sectors and surplus interrupts, and any set of ports and controllers:

| theorem | states |
|---|---|
| `StructuresAlwaysApart` | `StartSpec => []StructuresApart` |
| `AlwaysOneRequest` | `AhciSpec => []OneRequest` |
| `AlwaysWaitsForDevice` | `AhciSpec => []WaitsForDevice` |
| `NoPermitIsIdle` | nobody waits for a semaphore with a permit to give; lines keep no client twice |

For the first, each port has either no areas or those of its layout, so it is enough that the
layouts, multiples of the port number over fixed bases, lie apart: arithmetic,
once per pair of kinds (`LayoutsApart`).
The second rests on `PortInv`: the request permit is free and nobody is served,
or one client is served, or a transfer that gave up kept it (`PermitKept`), and the
lines hold each client once (`LinesInOrder`). The third adds `DeviceInv`: as
long as no surplus interrupt came, the served client that has written its
command is owed exactly one of three things, a command the device has not completed,
an interrupt not yet served, or a callback permit; if nobody is
served, none exists. So a client that gets by its wait has used up the only permit,
which came of its own command. The last, in `CountingSemaphoreProofs`, is what this and the pipe stand on.

### The FAT32 volume

For any names, contents, sizes of sectors, clusters and names, any disk and any number of
calls, transfers that fail and stops:

| theorem | states |
|---|---|
| `VolumeAlwaysHolds` | `WholeDisk /\ FatSpec => []FatInv`, the inductive invariant |
| `DiskAlwaysSound` | the same for `DiskSound`: after each single write chains end and stay apart, entries have different names, and no end slot hides one |
| `NodesAlwaysMatch` | `NodesMatchEntries`: nodes stand for entries, loaded layouts are the chains in the FAT |
| `ContentsAlwaysKept` | `ContentsKept`: a file holds what was last written to it |
| `ClustersAlwaysAccounted` | `ClustersAccounted`: without a failure no cluster is lost |

`WholeDisk` is what the driver takes for granted of the disk when it mounts it
and never tests: it meets `DiskSound` and `ClustersAccounted`, each entry
has a first cluster, the clusters of directories hold slots, and the clusters in use
have their entries in the first sector of the FAT, because
`fat_fs_find_next_cluster` looks up the others in the wrong place (section 7).
No transfer is taken to succeed. Reads that fail in a mount leave nodes out, and the theorems go on; where the
driver takes a failed read for something else (a full directory, cluster 0) the step is in the specification, is marked in `spoiled`,
and is the last the theorems speak of (section 7).
The disk of `devices_calls` is one: TLC checked on that run that it meets
`WholeDisk`, and that every state meets the invariant. `FatAssumption` asks of the names what the
driver leaves to its callers: a name is read back from its slot as it
was written, and marks the slot neither as free nor as an end.

The properties speak of what the driver reads from the disk by walking it: the chains in the
FAT, and the entries level by level from the root. That walk is no basis for
induction over steps, so `FatInv` names what it finds: as long as no known
defect was met (`Sound`), there are a set `D` of directories, a set `V` of places
of entries and a chain for each first cluster with

* `VolumeHolds`: each chain follows the FAT to its end, over clusters in use, and no
  two share one (`Chains`); directories hold slots, with no entry behind an
  end slot (`Blocks`); `V` is the entries of the directories in `D`
  (`EntriesIn`); the tree of directories from the root reaches all of `D`,
  and each has one entry that leads to it (`Tree`, `Owned`); names differ (`Named`);
* `CallHolds`: what the call under way has taken. Between its writes a creation has a
  cluster in use that no entry names, then an entry whose directory is not to be read yet
  (`Hidden`); a deletion has the rest of a chain that no entry leads to; a move has
  the slot of an entry that is nowhere on the disk, and, if it is a directory's,
  a tree below it that is reached from there (`Roots`);
* `NodesHold`, `ContentsHold`: nodes and contents, said of `V` and the chains;
* `Accounted`: without a failure the clusters in use are those of the chains.

`EntriesAre` and `HeadsEnd` lead from these witnesses to what the driver reads, and so to the four
properties (`InvariantSuffices`). For the steps, a few lemmas say what one
write does to a volume: a slot filled adds a place (`VolumeFilled`), a slot
freed takes one away (`VolumeFreed`), a write outside the directories changes none
(`WrittenOutside`), an entry set to the end mark adds a chain (`ReserveKeeps`), a
freed first cluster shortens one (`ChainShortens`). The hard steps are
those of a move. When it frees the old entry, a whole tree
leaves the volume, and the target is still reached because it does not lie below what is moved
(`TargetStays`); when a failed transfer or a stop ends a call half way, what
it held is dropped and the rest is a whole volume (`Settles`). Remounting needs that
the nodes are those of the entries that the walk finds, all of them or, past a failed read, those outside the directories
lost (`MountedNode`, `MountKeeps`). Chains and levels are
recursive functions: that they exist is proved by taking the greatest depth up to
which they do, since the induction theorems of the library are out of reach (`GrowingExists`, `LevelsExist`).

### Only model-checked

Each invariant and each other safety property of a passing run is stated by a theorem. What is left:

* Everything that depends on fairness, for liveness is out of the prover's
  reach: `ReadyRuns`, `SleepersWake`, `WaitersGetMutex`, `SomeoneGetsIn`,
  `DaemonWakes`, `ReaderWakes`, `RequestsAnswered`, `WritesComplete`, `TransfersEnd`.
* ENABLED, which those properties and the deadlock checks of the runs speak of.

## 6. Not modelled

* **Page faults of two threads at once.** `AddressSpace` runs the faults of one
  thread, whose steps are whole calls. Two would meet the race between
  `mmap_first_free` and `mmap_set` (`mmngr_phys.cpp:207`) and the PANIC on a
  taken `contract_spinlock` (`mmngr_virtual.cpp:95`): the code fails there by
  reading, and a model would only say so. The same holds of two threads that
  take a page cache buffer (`page_cache.cpp:134`), which `Files` leaves to
  one thread (`IoThread`) although its steps separate search and mark.
* **The translation cache and the contents of memory**, areas of files.
* **Clock arithmetic**: `timer.cpp:19` multiplies the tick count by 1000 in 32
  bits; nothing in the kernel depends on the result but output.
* **IP, UDP, ICMP and sockets**: their registration is commented out
  (`kernel.cpp:504-508`) and `eth_recv` hands frames to ARP only.
* **Functions nobody calls**: `pmmngr_alloc_blocks`, `pmmngr_free_blocks`; removal,
  expansion and gap search of contracts; removal from both open file tables; `kernel_stack_release`, `process_create_s`;
  the self-test and scan-code commands of the keyboard and its thread for
  function keys (`kernel.cpp:730`); `atomic.h`. `semaphore_try_wait` and `mutex_try_acquire` only PANIC.
* **Boot sectors, loader, program loaders, descriptor tables once set, screen and debugging
  output, string functions, the shell, tests**: one thread, once, or output only. What the boot
  order decides (the idle thread is queued before anybody waits, the loader programs the interrupt
  controllers, ports may run when `init_ahci` begins) is in the initial states.
* Parts modelled separately and not composed: `Keyboard` with `KeyDecode`,
  `AhciPort` with `DiskStart`, `Files` with `Fat32`, `Interrupts` with `Scheduler`. Each
  pair together is beyond what TLC explores in the time of a run; the first of each says what the second needs of it
  (a key reaches its reader, a transfer moves its sectors or fails, a page is written or not, a call runs masked).

## 7. Where the code differs from what it says

Two divergences are shown by a run of their own:

* `thread_sched.cpp:66`: when an expired sleeper stands behind one that still
  sleeps, `scheduler_decrease_sleep_time` unlinks `prev`, the wrong node
  (`scheduler_sleepers`).
* `spinlock.cpp:15`: after a sleep the test and the store are no longer one
  step; two threads hold the lock (`spinlock_holders`).

Others were met while modelling. The models follow the code and the properties
are stated around them, or the case lies outside what is modelled.

Scheduling, queues and memory:

* `keyboard.cpp:494`: `thread_get_current_node` unmasks interrupts between the
  test of the queue and `thread_block`; a key that comes there is queued but its
  wake-up is lost until the next key. `DaemonWakes` holds only while the user
  types on.
* `critlock.cpp`: one flag serves nested sections, the inner release ends the
  outer one; and a tick that came inside is not made up for at the release.
  `SwitchesInOrder` is checked with sections one deep.
* `thread_sched.cpp:267`: the `break` of `thread_find` leaves the inner loop only and the
  next priority starts anew, so a thread is found only in the queue of the last priority.
* `queue_spsc.h:77`: a clearing by the producer moves the tail to a head that the consumer may move at any
  moment, or while the consumer, preempted, stands between its test (34, 59) and its store or read (36, 60);
  masking interrupts does not exclude the latter. The queue then holds elements twice or none it was
  given (`crossed`). Nothing in the kernel calls `queue_spsc_clear`.
* `pipe.cpp:82`: two writers use the same place; the instance has one of each.
* `list.h`: `list_get_prev` runs off the end for the head and for nodes of no list;
  `list_merge_back` is wrong when either list is empty; `ordered_vector_find` underflows when
  the vector is empty or every item is greater; `queue_mpmc_peek` returns an uninitialised
  object when the queue is empty. `Containers` makes these calls only outside those cases.
* `memory.cpp:84`: `vfs_mmap_p` keeps `contract_spinlock` when an area is
  refused; `LegalFaultsServed` excludes the state after that.
* `mmngr_phys.cpp:154`: both region calls advance only over blocks that change,
  so a region is given back up to its first free block only (`Run`);
  `mmngr_phys.cpp:265`: `pmmngr_free_blocks` clears the first bit again and again.
* `mmngr_virtual.cpp:298`: a block is lost when its table cannot be made
  (`leaked`).
* `process.cpp:180`: a creator that another overtakes takes the tail of the
  thread list for its own thread (`overlap`); `mmngr_virtual.cpp:509`: a directory copies the kernel's tables
  once, and tables the kernel adds later are missing from it; `page_dir` is 0
  when memory is out.

Interrupts:

* The EOI names no line, and a handler that signals a semaphore, or notifies a thread that is not
  blocked, unmasks interrupts (`semaphore.cpp:61`, `thread_sched.cpp:419`); after a wake-up
  `thread_notify` leaves them masked. `Wake` lets any handler unmask them. A tick can switch away from it before its EOI, and the EOI of
  another handler then ends its line: the keyboard handler can be entered again before it has
  ended. At the slave this cannot happen (`InterruptsSound`, proved).
* A handler that was switched away in a thread of low priority keeps the lower lines waiting until that
  thread runs again; frames between EOI and `iretd` pile up with every tick that comes there
  (`isr.cpp:60`; `MaxFrames`).
* `i217.cpp:351`: the card's interrupts are enabled before its handler is registered;
  `isr.cpp:23` unmasks interrupts for page faults; the stub of exception 17 lacks the error code it has.
* `Interrupts` assumes that a line stays up until it is delivered (no spurious interrupts 7 and
  15), and of the primary's devices it has the keyboard only.

Disk:

* `AHCI.cpp:188`: the return on a busy port keeps the request permit for ever;
  `AHCI.cpp:263`: any interrupt leaves a permit that lets the next client go
  before its command is done, and the interrupts that identification leaves
  pending are the first such (contrary to the comment at `AHCI.cpp:296`); `AHCI.cpp:178`: the count written to the command
  has been reduced by the loop over the PRDT entries, each of which advances the
  buffer by 4 KB although it stands for 8 KB; more than 8 entries run into the
  next command table. `WaitsForDevice` and `TransfersEnd` are
  conditional on `gaveUp`, `surplus` and one entry.
* `AHCI.cpp:232`: the loops of `ahci_stop_cmd` compare a high bit with 1 and never wait, so the
  PANIC at `AHCI.cpp:206` is reachable; `~HBA_PxCMD_FRE` expands to more than the
  bit; `CAP` is read with masks of four bits, so ports above 15 are ignored; a port without a drive makes
  `init_ahci` fail, which its caller ignores (`kernel.cpp:502`).
* `PCI.cpp`: the device counter is not reset, so only the first bus is searched; a later controller
  replaces an earlier one; `PCI.cpp:22` reads registers through a null pointer. The blocks the
  controller uses (0x200000, 0x300000) are not reserved (`kernel.cpp:500`).

Files (`Files`, names of `spoiled`): after a read of part of a page `file.cpp:138` clears as many bytes after
those read, in the cached page and, from its middle on, past its end (`cleared`). What comes after the
last page but one is the bitmap of buffers in use (`page_cache.cpp:108-112`): cleared there, buffers that
hold pages are handed out again (`unmarked`). `file.cpp:223` writes past the last page
(`overrun`); `file.cpp:288`: `sync_file` writes every page to the first one's
place (`misplaced`). The undo of an opening whose local table has no room (`file.cpp:48`) has no cause in the code: the
table grows, and `vector_reserve` PANICs where there is no memory (`vector.h:56`). `Files` lets the insertion fail (`OpenLocalFails`) to
show that the undo would be right. A descriptor stays in the local table when `vfs_open_file`
fails afterwards, there is no close, and pointers into the global table go stale
when it grows.

FAT32 (`Fat32`, names of `spoiled`): a failed read of the FAT counts as cluster
0, when a layout is loaded and when a mount lists a directory (`layout`); a full directory gets a cluster that holds a copy of the last
block, and so does a directory with room when a read fails in the search for a slot (`FAT32_fs.cpp:804`), with whatever
the cache held (`extended`); what such a creation writes after that is one step, and nothing is followed further; the search for a free cluster past the first sector
returns numbers that do not belong to what it read (`astray`); a directory made since the
mount has no entries `.` and `..` in memory, while the test for an empty one is for two children, so it can
be deleted while it holds entries (`nonempty`); a move into a full directory, or one whose clusters cannot be read, loses the file and reports success, with a node that
keeps its old place (`nowhere`); a creation cut short leaves a directory whose cluster was not
erased (`torn`). Further: a mount lists a directory it cannot read as an empty one and succeeds
(`FAT32_fs.cpp:550`); `FAT32_fs.cpp:404` adds the high half of a cluster number without shifting it, so clusters from 65536 on are others
(`SlotCluster`; the proofs are about FATs whose first sector ends below); the next of a cluster past the first sector of the FAT is looked up with
the whole cluster number from that sector on (`FAT32_fs.cpp:430`); a name whose dot stands after eight characters loses its
extension; the second FAT is never updated. Bounds: names are fresh, a directory is not moved into itself, and a caller gives
up the nodes of a move or deletion that returned an error.

Network (`Net`, names of `spoiled`): two frames before one interrupt are handed on as one
(`merged`); a frame overwrites one still to be copied, because the index
leaves the queue first (`overwritten`); a full queue drops
frames (`dropped`); a frame without memory for it is only reported, and `eth_recv` works on whatever the
sock_buf of the stack points to, perhaps answering an earlier frame again (`unbuffered`, `i217.cpp:187`). On a real card a tail equal to the head means no
descriptors; `Room` takes the emulator's reading. The transmit tail starts past the ring.

Keys (`KeyDecode`): the answers to the commands of `init_keyboard` are the first codes queued; the table of 83 entries misses one, so entries after 0x49 are
shifted, and codes from 0x53 on, with the answers to the LED commands, index past it (any key); the
comparison with error codes comes after `code -= 0x80` and never matches;
digits of the keypad shift although the comment at `keyboard.cpp:307` says they do not;
`keyboard_callback` tests the input buffer where it means the output buffer; two keys of one
modifier clear each other (`pair`); a key becomes a character with the
modifiers of the moment it is read.
