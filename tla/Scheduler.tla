----------------------------- MODULE Scheduler -----------------------------
(***************************************************************************)
(* The thread scheduler of the kernel (thread_sched.cpp), on one           *)
(* processor.  A thread's TCB node is always linked in one list: the ready *)
(* queue of its priority (the running thread stays at the head of its      *)
(* own), the block queue or the sleep queue.  Everything the scheduler     *)
(* does happens with interrupts masked, so each call is one step, except   *)
(* thread_sleep, which unmasks them between queueing the thread and        *)
(* switching away from it.                                                 *)
(***************************************************************************)
EXTENDS KernelLists

CONSTANTS
  Thread,             (* the threads the kernel creates                      *)
  Idle,               (* the idle thread: spins, calls nothing               *)
  InitThread,         (* the thread of process 0, the first to run           *)
  NoThread,           (* current_thread = 0: the scheduler has not started   *)
  NUMBER_PRIORITIES,  (* ready queues; 0 is the highest priority             *)
  Prio,               (* thread_get_priority of each thread                  *)
  SleepTime,          (* the durations thread_sleep is called with, in ms    *)
  Elapsed,            (* 1000 / frequency: the ms one timer tick stands for  *)
  TicksRange,         (* values of the tick counter before it wraps, 2^32    *)
  Calls,              (* the calls the threads of this instance make         *)
  MaxNesting          (* how deep a thread nests critlock_acquire            *)

Priority == 0 .. NUMBER_PRIORITIES - 1

ASSUME SchedulerAssumption ==
  /\ IsFiniteSet(Thread) /\ {Idle, InitThread} \subseteq Thread
  /\ Idle # InitThread /\ NoThread \notin Thread
  /\ NUMBER_PRIORITIES \in Nat \ {0}
  /\ Prio \in [Thread -> Priority]
  /\ SleepTime \subseteq Nat /\ Elapsed \in Nat
  /\ TicksRange \in Nat \ {0}
  /\ MaxNesting \in Nat

State == {"NONE", "SLEEP", "READY", "RUNNING", "BLOCK"}

VARIABLES
  ticks,                (* timer interrupts since boot                        *)
  state,                (* TCB.state                                          *)
  ready,                (* scheduler.thread_queues, one list per priority     *)
  block,                (* scheduler.block_queue                              *)
  sleep,                (* scheduler.sleep_queue                              *)
  sleep_time,           (* TCB.sleep_time                                     *)
  current,              (* current_thread                                     *)
  in_critical_section,  (* the flag critlock_acquire sets                     *)
  panicked,             (* PANIC was called or a list was corrupted           *)
  intr,                 (* the interrupt flag of each thread: the processor's *)
                        (* for the current one, the saved EFLAGS of the rest  *)
  dozing,               (* threads inside thread_sleep, queued in the sleep   *)
                        (* queue but not yet switched away from               *)
  nesting               (* critlock_acquire calls a thread has yet to release *)

vars == <<ticks, state, ready, block, sleep, sleep_time, current,
          in_critical_section, panicked, intr, dozing, nesting>>

-----------------------------------------------------------------------------
(* Choosing the next thread *)

\* The outcome of scheduler code: the variables it may write.
Outcome(st, rq, cur, bad) ==
  [state |-> st, ready |-> rq, current |-> cur, panicked |-> bad]

\* The priorities whose ready queue holds a thread.
NonEmpty(rq) == {p \in Priority : rq[p] # <<>>}

\* Faulty form of FirstReady: the scan keeps the last non-empty queue.
LastReady(rq) ==
  Head(rq[CHOOSE p \in NonEmpty(rq) : \A q \in NonEmpty(rq) : p >= q])

\* sched_get_first_non_empty, LIST_PEEK: the thread at the head of the first
\* non-empty queue.
FirstReady(rq) ==
  Head(rq[CHOOSE p \in NonEmpty(rq) : \A q \in NonEmpty(rq) : p <= q])

\* A running thread that is switched away from becomes ready, last in line.
Preempted(st, rq) ==
  IF st[current] = "RUNNING"
  THEN <<[st EXCEPT ![current] = "READY"],
         [rq EXCEPT ![Prio[current]] = HeadToTail(@)]>>
  ELSE <<st, rq>>

\* scheduler_thread_switch, called with states st and ready queues rq.
Switched(st, rq) ==
  LET st1  == Preempted(st, rq)[1]
      rq1  == Preempted(st, rq)[2]
      next == FirstReady(rq1)
  IN  IF in_critical_section
        THEN Outcome(st, rq, current, FALSE)
      ELSE IF NonEmpty(rq1) = {} \/ st1[next] # "READY"
        THEN Outcome(st1, rq1, current, TRUE)
        ELSE Outcome([st1 EXCEPT ![next] = "RUNNING"], rq1, next, FALSE)

Commit(s) ==
  /\ state' = s.state
  /\ ready' = s.ready
  /\ current' = s.current
  /\ panicked' = s.panicked

-----------------------------------------------------------------------------
(* The timer *)

\* The positions of the sleep queue whose time is up.
Expired == {k \in 1..Len(sleep) : Elapsed > sleep_time[sleep[k]]}

\* Position whose node scheduler_decrease_sleep_time unlinks when it finds
\* position k expired: the front while every earlier one expired, and
\* otherwise prev, the last thread before k that goes on sleeping.
Unlinked(k) ==
  LET asleep == (1 .. k - 1) \ Expired
  IN  IF asleep = {} THEN k
      ELSE CHOOSE j \in asleep : \A i \in asleep : i <= j

\* Faulty form of Woken: the sleepers are not counted down.
NobodyWoken(st, rq) ==
  [state |-> st, sleep_time |-> sleep_time, sleep |-> sleep, ready |-> rq,
   corrupted |-> FALSE]

\* scheduler_decrease_sleep_time, called after a switch that left states st
\* and ready queues rq.
Woken(st, rq) ==
  LET unlinked == {Unlinked(k) : k \in Expired}
      woken(p) == Ascending({k \in Expired : Prio[sleep[k]] = p})
      up       == {sleep[k] : k \in Expired}
  IN  [state      |-> [t \in Thread |-> IF t \in up THEN "READY" ELSE st[t]],
       sleep_time |-> [t \in Thread |->
                         IF t \in up THEN 0
                         ELSE IF t \in Nodes(sleep) THEN sleep_time[t] - Elapsed
                         ELSE sleep_time[t]],
       sleep      |-> Picked(sleep, (1..Len(sleep)) \ unlinked),
       ready      |-> [p \in Priority |->
                         rq[p] \o [i \in 1..Len(woken(p)) |->
                                     sleep[Unlinked(woken(p)[i])]]],
       \* prev is unlinked a second time: it is in a ready queue by now
       corrupted  |-> Cardinality(unlinked) < Cardinality(Expired)]

\* scheduler_interrupt: switch, then count the sleepers down.  Interrupts are
\* on in the frame it returns to.
Tick ==
  /\ ~panicked /\ current # NoThread /\ intr[current]
  /\ ticks' = (ticks + 1) % TicksRange
  /\ LET s == Switched(state, ready)
         w == Woken(s.state, s.ready)
     IN  /\ state' = w.state
         /\ ready' = w.ready
         /\ current' = s.current
         /\ panicked' = (s.panicked \/ w.corrupted)
         /\ sleep' = w.sleep
         /\ sleep_time' = w.sleep_time
  /\ UNCHANGED <<block, in_critical_section, intr, dozing, nesting>>

\* scheduler_interrupt before scheduler_start.
TickWithoutTasks ==
  /\ current = NoThread
  /\ ticks' = (ticks + 1) % TicksRange
  /\ UNCHANGED <<state, ready, block, sleep, sleep_time, current,
                 in_critical_section, panicked, intr, dozing, nesting>>

-----------------------------------------------------------------------------
(* Calls of the running thread *)

\* The running thread is outside the scheduler and makes a call.
Service(call) ==
  /\ ~panicked
  /\ current \in Thread \ (dozing \cup {Idle})
  /\ call \in Calls

\* Faulty form of MayWait: a thread waits before there is an idle thread.
MayWaitEarly == nesting[current] = 0

\* The kernel's threads wait only once the idle thread is queued
\* (kernel.cpp:710) and never inside a critical section.
MayWait == state[Idle] # "NONE" /\ nesting[current] = 0

\* thread_insert; kmain calls it for the first thread.
Insert(t) ==
  /\ \/ Service("insert")
     \/ current = NoThread /\ t = InitThread
  /\ state[t] = "NONE"
  /\ state' = [state EXCEPT ![t] = "READY"]
  /\ ready' = [ready EXCEPT ![Prio[t]] = InsertBackNode(@, t)]
  /\ UNCHANGED <<ticks, block, sleep, sleep_time, current,
                 in_critical_section, panicked, intr, dozing, nesting>>

\* scheduler_start
SchedulerStart ==
  /\ current = NoThread /\ NonEmpty(ready) # {}
  /\ current' = FirstReady(ready)
  /\ state' = [state EXCEPT ![FirstReady(ready)] = "RUNNING"]
  /\ UNCHANGED <<ticks, ready, block, sleep, sleep_time, in_critical_section,
                 panicked, intr, dozing, nesting>>

\* thread_current_yield
Yield ==
  /\ Service("yield")
  /\ Commit(Switched(state, ready))
  /\ UNCHANGED <<ticks, block, sleep, sleep_time, in_critical_section, intr,
                 dozing, nesting>>

\* thread_block of the running thread.  The frame is built after cli, so the
\* thread resumes with interrupts masked.
BlockSelf ==
  /\ Service("block") /\ MayWait
  /\ state[current] = "RUNNING"
  /\ block' = InsertBackNode(block, current)
  /\ intr' = [intr EXCEPT ![current] = FALSE]
  /\ Commit(Switched([state EXCEPT ![current] = "BLOCK"],
                     [ready EXCEPT ![Prio[current]] = RemoveFrontNode(@)]))
  /\ UNCHANGED <<ticks, sleep, sleep_time, in_critical_section, dozing,
                 nesting>>

\* thread_block of a thread that waits in a ready queue.  For one that sleeps
\* or is blocked it would PANIC: no caller in the kernel names such a thread.
BlockOther(t) ==
  /\ Service("block other")
  /\ t # Idle /\ state[t] = "READY"
  /\ state' = [state EXCEPT ![t] = "BLOCK"]
  /\ ready' = [ready EXCEPT ![Prio[t]] = RemoveNode(@, t)]
  /\ block' = InsertBackNode(block, t)
  /\ intr' = [intr EXCEPT ![current] = TRUE]
  /\ UNCHANGED <<ticks, sleep, sleep_time, current, in_critical_section,
                 panicked, dozing, nesting>>

\* thread_sleep of the running thread, up to the sti before its frame.
SleepSelf(d) ==
  /\ Service("sleep") /\ MayWait
  /\ state[current] = "RUNNING"
  /\ state' = [state EXCEPT ![current] = "SLEEP"]
  /\ sleep_time' = [sleep_time EXCEPT ![current] = d]
  /\ ready' = [ready EXCEPT ![Prio[current]] = RemoveFrontNode(@)]
  /\ sleep' = InsertBackNode(sleep, current)
  /\ intr' = [intr EXCEPT ![current] = TRUE]
  /\ dozing' = dozing \cup {current}
  /\ UNCHANGED <<ticks, block, current, in_critical_section, panicked,
                 nesting>>

\* The rest of thread_sleep.  A timer tick may have come first: then the
\* thread gets here when it runs again, and gives up its turn once more.
SleepSwitch ==
  /\ ~panicked /\ current \in dozing
  /\ dozing' = dozing \ {current}
  /\ Commit(Switched(state, ready))
  /\ UNCHANGED <<ticks, block, sleep, sleep_time, in_critical_section, intr,
                 nesting>>

\* thread_sleep of a thread that waits in a ready queue; PANIC as above.
SleepOther(t, d) ==
  /\ Service("sleep other")
  /\ t # Idle /\ state[t] = "READY"
  /\ state' = [state EXCEPT ![t] = "SLEEP"]
  /\ sleep_time' = [sleep_time EXCEPT ![t] = d]
  /\ ready' = [ready EXCEPT ![Prio[t]] = RemoveNode(@, t)]
  /\ sleep' = InsertBackNode(sleep, t)
  /\ intr' = [intr EXCEPT ![current] = TRUE]
  /\ UNCHANGED <<ticks, block, current, in_critical_section, panicked, dozing,
                 nesting>>

\* Faulty form of WakeBlocked: the node stays in the block queue.
WakeStillLinked(t) ==
  /\ state' = [state EXCEPT ![t] = "READY"]
  /\ ready' = [ready EXCEPT ![Prio[t]] = InsertBackNode(@, t)]
  /\ UNCHANGED block

\* What thread_notify does to a blocked thread.
WakeBlocked(t) ==
  /\ state' = [state EXCEPT ![t] = "READY"]
  /\ block' = RemoveNode(block, t)
  /\ ready' = [ready EXCEPT ![Prio[t]] = InsertBackNode(@, t)]

\* thread_notify called by the running thread.  It returns with interrupts
\* masked when it woke t and unmasked when t was not blocked.
Notify(t) ==
  /\ Service("notify")
  /\ state[t] # "NONE"
  /\ intr' = [intr EXCEPT ![current] = (state[t] # "BLOCK")]
  /\ IF state[t] = "BLOCK" THEN WakeBlocked(t)
                           ELSE UNCHANGED <<state, ready, block>>
  /\ UNCHANGED <<ticks, sleep, sleep_time, current, in_critical_section,
                 panicked, dozing, nesting>>

\* thread_notify called by a device interrupt, whose iret restores the flag.
NotifyFromInterrupt(t) ==
  /\ ~panicked /\ current # NoThread /\ intr[current]
  /\ "notify" \in Calls
  /\ state[t] = "BLOCK"
  /\ WakeBlocked(t)
  /\ UNCHANGED <<ticks, sleep, sleep_time, current, in_critical_section,
                 panicked, intr, dozing, nesting>>

\* INT_OFF and INT_ON
MaskInterrupts(on) ==
  /\ Service("mask")
  /\ intr[current] # on
  /\ intr' = [intr EXCEPT ![current] = on]
  /\ UNCHANGED <<ticks, state, ready, block, sleep, sleep_time, current,
                 in_critical_section, panicked, dozing, nesting>>

\* critlock_acquire
CritlockAcquire ==
  /\ Service("critlock")
  /\ nesting[current] < MaxNesting
  /\ in_critical_section' = TRUE
  /\ nesting' = [nesting EXCEPT ![current] = @ + 1]
  /\ UNCHANGED <<ticks, state, ready, block, sleep, sleep_time, current,
                 panicked, intr, dozing>>

\* critlock_release
CritlockRelease ==
  /\ Service("critlock")
  /\ nesting[current] > 0
  /\ in_critical_section' = FALSE
  /\ nesting' = [nesting EXCEPT ![current] = @ - 1]
  /\ UNCHANGED <<ticks, state, ready, block, sleep, sleep_time, current,
                 panicked, intr, dozing>>

-----------------------------------------------------------------------------
\* init_thread_scheduler, before any thread exists.  thread_create starts a
\* thread with interrupts on (flags 0x202).
Init ==
  /\ ticks = 0
  /\ state = [t \in Thread |-> "NONE"]
  /\ ready = [p \in Priority |-> <<>>]
  /\ block = <<>>
  /\ sleep = <<>>
  /\ sleep_time = [t \in Thread |-> 0]
  /\ current = NoThread
  /\ in_critical_section = FALSE
  /\ panicked = FALSE
  /\ intr = [t \in Thread |-> TRUE]
  /\ dozing = {}
  /\ nesting = [t \in Thread |-> 0]

Next ==
  \/ Tick \/ TickWithoutTasks \/ SchedulerStart
  \/ Yield \/ BlockSelf \/ SleepSwitch
  \/ CritlockAcquire \/ CritlockRelease
  \/ \E on \in BOOLEAN : MaskInterrupts(on)
  \/ \E d \in SleepTime : SleepSelf(d)
  \/ \E t \in Thread :
       \/ Insert(t) \/ BlockOther(t) \/ Notify(t) \/ NotifyFromInterrupt(t)
       \/ \E d \in SleepTime : SleepOther(t, d)

Spec == Init /\ [][Next]_vars

-----------------------------------------------------------------------------
(* Properties *)

\* The variables hold values of their kinds.
TypeOK ==
  /\ ticks \in 0 .. TicksRange - 1
  /\ state \in [Thread -> State]
  /\ ready \in [Priority -> Seq(Thread)]
  /\ block \in Seq(Thread)
  /\ sleep \in Seq(Thread)
  /\ sleep_time \in [Thread -> Nat]
  /\ current \in Thread \cup {NoThread}
  /\ in_critical_section \in BOOLEAN
  /\ panicked \in BOOLEAN
  /\ intr \in [Thread -> BOOLEAN]
  /\ dozing \in SUBSET Thread
  /\ nesting \in [Thread -> 0..MaxNesting]

(***************************************************************************)
(* A thread's node is linked in the list its state names, once, and in no  *)
(* other: thread_block, thread_sleep, thread_notify and the timer each     *)
(* move it and change the state together.                                  *)
(***************************************************************************)
SleepersInSleepQueue ==
  \A t \in Thread : state[t] = "SLEEP" <=> t \in Nodes(sleep)

BlockedInBlockQueue ==
  \A t \in Thread : state[t] = "BLOCK" <=> t \in Nodes(block)

RunnableInReadyQueue ==
  /\ \A t \in Thread :
       state[t] \in {"READY", "RUNNING"} <=> t \in Nodes(ready[Prio[t]])
  /\ \A p \in Priority : \A t \in Nodes(ready[p]) : Prio[t] = p

LinkedOnce ==
  /\ NoDuplicates(block) /\ NoDuplicates(sleep)
  /\ \A p \in Priority : NoDuplicates(ready[p])

QueuesMatchStates ==
  /\ SleepersInSleepQueue
  /\ BlockedInBlockQueue
  /\ RunnableInReadyQueue
  /\ LinkedOnce

(***************************************************************************)
(* Exactly the current thread is RUNNING, and it heads the queue that      *)
(* thread_block, thread_sleep and scheduler_thread_switch take it from by  *)
(* position; a thread halfway through thread_sleep is current but queued   *)
(* to sleep.                                                               *)
(***************************************************************************)
RunningIsCurrent ==
  /\ \A t \in Thread : state[t] = "RUNNING" => t = current
  /\ current # NoThread =>
       \/ /\ state[current] = "RUNNING"
          /\ Head(ready[Prio[current]]) = current
       \/ state[current] = "SLEEP" /\ current \in dozing

\* The PANICs of scheduler_thread_switch ("execute list is empty", "Received
\* non ready thread to execute") are never reached and no list is corrupted.
NoPanic == ~panicked

\* A switch never passes over a ready thread of higher priority, but for those
\* the same tick woke: scheduler_interrupt counts sleepers down after it has
\* chosen.
PriorityRespected ==
  current' # current /\ current' \in Thread =>
    \A t \in Thread : state'[t] = "READY" /\ Prio[t] < Prio[current'] => state[t] = "SLEEP"

\* Among threads of one priority a thread that was ready behind another does not
\* run before it.
Before(t, u) ==
  LET q == ready[Prio[u]]
  IN  \E i, j \in 1..Len(q) : i < j /\ q[i] = t /\ q[j] = u

FirstComeFirstServed ==
  \A t, u \in Thread :
    state[t] = "READY" /\ state[u] = "READY" /\ Before(t, u) /\ state'[t] = "READY"
      => state'[u] # "RUNNING"

\* critlock.h: a thread inside a critical section keeps the processor.
SectionKeepsProcessor == current # NoThread /\ nesting[current] > 0 => current' = current

\* What a switch from any call, tick or wake-up may do (scheduler_thread_switch).
SwitchesInOrder ==
  [][PriorityRespected /\ FirstComeFirstServed /\ SectionKeepsProcessor]_vars

\* A ready thread of the highest priority in use gets the processor.
TopPriority == {t \in Thread : \A u \in Thread : Prio[t] <= Prio[u]}
ReadyRuns == \A t \in TopPriority : state[t] = "READY" ~> state[t] = "RUNNING"

\* A sleeping thread is made ready again.
SleepersWake == \A t \in Thread : state[t] = "SLEEP" ~> state[t] # "SLEEP"
=============================================================================
