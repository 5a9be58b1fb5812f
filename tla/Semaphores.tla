---------------------------- MODULE Semaphores ----------------------------
(***************************************************************************)
(* semaphore.cpp and mutex.cpp on top of the scheduler.  A thread that has *)
(* to wait is moved from its ready queue to the semaphore's own list, not  *)
(* to the block queue, so thread_notify is not for these threads.          *)
(***************************************************************************)
EXTENDS Scheduler

CONSTANTS
  Semaphore,             (* the semaphores, mutexes included             *)
  Mutex,                 (* those used through mutex.cpp                 *)
  InterruptSemaphore,    (* those an interrupt handler signals           *)
  InitialValue,          (* semaphore_init's initial_value               *)
  MaxValue               (* bound: signals stop at this count            *)

ASSUME SemaphoresAssumption ==
  /\ Mutex \subseteq Semaphore /\ InterruptSemaphore \subseteq Semaphore
  /\ InitialValue \in [Semaphore -> Nat]
  /\ \A m \in Mutex : InitialValue[m] = 1 /\ m \notin InterruptSemaphore
  /\ MaxValue \in Nat

VARIABLES
  lock,              (* semaphore.lock                                   *)
  waiting_threads,   (* semaphore.waiting_threads                        *)
  owner              (* history: who was granted each mutex last and has *)
                     (* not released it                                  *)

semaphoreVars == <<lock, waiting_threads, owner>>
allVars == <<vars, semaphoreVars>>

\* The clients of a mutex pair their calls: they acquire one they do not own
\* and release one they do.
MayAcquire(s) == s \in Mutex => current \notin owner[s]
MayRelease(s) == s \in Mutex => current \in owner[s]

Granted(s, t) == IF s \in Mutex THEN owner[s] \cup {t} ELSE owner[s]

\* Faulty form of BlockOn: the thread is linked at the front of the line.
BlockOnFront(s) ==
  /\ waiting_threads' = [waiting_threads EXCEPT ![s] = <<current>> \o @]
  /\ Commit(Switched([state EXCEPT ![current] = "BLOCK"],
                     [ready EXCEPT ![Prio[current]] = RemoveNode(@, current)]))

\* Faulty form of BlockOn: the thread stays in its ready queue.
BlockOnStillReady(s) ==
  /\ waiting_threads' = [waiting_threads EXCEPT ![s] = InsertBackNode(@, current)]
  /\ Commit(Switched([state EXCEPT ![current] = "BLOCK"], ready))

\* The current thread leaves its ready queue for the line of s and yields.
BlockOn(s) ==
  /\ waiting_threads' = [waiting_threads EXCEPT ![s] = InsertBackNode(@, current)]
  /\ Commit(Switched([state EXCEPT ![current] = "BLOCK"],
                     [ready EXCEPT ![Prio[current]] = RemoveNode(@, current)]))

\* There is no permit.
MustWait(s) == lock[s] <= 0

\* semaphore_wait, mutex_acquire.  Masked from the test on; INT_ON at the end.
SemaphoreWait(s) ==
  /\ Service("semaphore") /\ MayWait /\ MayAcquire(s)
  /\ state[current] = "RUNNING"
  /\ IF MustWait(s)
     THEN BlockOn(s) /\ UNCHANGED <<lock, owner>>
     ELSE /\ lock' = [lock EXCEPT ![s] = @ - 1]
          /\ owner' = [owner EXCEPT ![s] = Granted(s, current)]
          /\ UNCHANGED <<waiting_threads, state, ready, current, panicked>>
  /\ intr' = [intr EXCEPT ![current] = TRUE]
  /\ UNCHANGED <<ticks, block, sleep, sleep_time, in_critical_section, dozing,
                 nesting>>

\* Faulty form of Hand: the count is raised for a waiter as well.
HandAndCount(s) ==
  LET t == Head(waiting_threads[s])
  IN  /\ waiting_threads' = [waiting_threads EXCEPT ![s] = RemoveFrontNode(@)]
      /\ state' = [state EXCEPT ![t] = "READY"]
      /\ ready' = [ready EXCEPT ![Prio[t]] = InsertBackNode(@, t)]
      /\ owner' = [owner EXCEPT ![s] = Granted(s, t) \ {current}]
      /\ lock' = [lock EXCEPT ![s] = @ + 1]

\* A permit goes to the first thread in line.
Hand(s) ==
  LET t == Head(waiting_threads[s])
  IN  /\ waiting_threads' = [waiting_threads EXCEPT ![s] = RemoveFrontNode(@)]
      /\ state' = [state EXCEPT ![t] = "READY"]
      /\ ready' = [ready EXCEPT ![Prio[t]] = InsertBackNode(@, t)]
      /\ owner' = [owner EXCEPT ![s] = Granted(s, t) \ {current}]
      /\ UNCHANGED lock

\* Faulty form of SignalBody: the count is raised and the waiters left waiting.
SignalCounts(s) ==
  /\ lock' = [lock EXCEPT ![s] = @ + 1]
  /\ owner' = [owner EXCEPT ![s] = @ \ {current}]
  /\ UNCHANGED <<waiting_threads, state, ready>>

\* What semaphore_signal does with interrupts masked.
SignalBody(s) ==
  IF waiting_threads[s] # <<>>
  THEN Hand(s)
  ELSE /\ lock' = [lock EXCEPT ![s] = @ + 1]
       /\ owner' = [owner EXCEPT ![s] = @ \ {current}]
       /\ UNCHANGED <<waiting_threads, state, ready>>

\* semaphore_signal, mutex_release, by the running thread.
SemaphoreSignal(s) ==
  /\ Service("semaphore") /\ MayRelease(s)
  /\ lock[s] < MaxValue
  /\ SignalBody(s)
  /\ intr' = [intr EXCEPT ![current] = TRUE]
  /\ UNCHANGED <<ticks, block, sleep, sleep_time, current, in_critical_section,
                 panicked, dozing, nesting>>

\* semaphore_signal by a device's interrupt handler.
SignalFromInterrupt(s) ==
  /\ ~panicked /\ current # NoThread /\ intr[current]
  /\ s \in InterruptSemaphore
  /\ lock[s] < MaxValue
  /\ SignalBody(s)
  /\ UNCHANGED <<ticks, block, sleep, sleep_time, current, in_critical_section,
                 panicked, intr, dozing, nesting>>

-----------------------------------------------------------------------------
\* semaphore_init, mutex_init
SemaphoresInit ==
  /\ Init
  /\ lock = InitialValue
  /\ waiting_threads = [s \in Semaphore |-> <<>>]
  /\ owner = [s \in Semaphore |-> {}]

SemaphoresNext ==
  \/ Next /\ UNCHANGED semaphoreVars
  \/ \E s \in Semaphore :
       SemaphoreWait(s) \/ SemaphoreSignal(s) \/ SignalFromInterrupt(s)

SemaphoresSpec == SemaphoresInit /\ [][SemaphoresNext]_allVars

\* The timer goes on ticking; a thread halfway through thread_sleep that gets
\* its turns completes it, and one that owns a mutex releases it some day.
SemaphoresFairSpec ==
  /\ SemaphoresSpec
  /\ WF_allVars(SchedulerStart /\ UNCHANGED semaphoreVars)
  /\ WF_allVars(Tick /\ UNCHANGED semaphoreVars)
  /\ \A t \in Thread :
       /\ SF_allVars(current = t /\ SleepSwitch /\ UNCHANGED semaphoreVars)
       /\ \A m \in Mutex : SF_allVars(current = t /\ SemaphoreSignal(m))

-----------------------------------------------------------------------------
(* Properties *)

(***************************************************************************)
(* Every waiter is blocked, linked in one line and in no queue of the      *)
(* scheduler, so that a signal finds a thread it may make ready.           *)
(***************************************************************************)
Waiters == UNION {Nodes(waiting_threads[s]) : s \in Semaphore}

WaitersAreBlocked ==
  /\ \A t \in Thread : state[t] = "BLOCK" <=> t \in Waiters \cup Nodes(block)
  /\ Waiters \cap Nodes(block) = {}
  /\ SleepersInSleepQueue /\ RunnableInReadyQueue /\ LinkedOnce

\* semaphore_wait and semaphore_signal implement the counting semaphore: no
\* wake-up is lost, waiters are served in order, and none runs before its turn.
Abstract == INSTANCE CountingSemaphore
              WITH Client <- Thread, value <- lock, queue <- waiting_threads
ImplementsCountingSemaphore == Abstract!SemaphoreSpec

\* A mutex has one owner, and it is free just when it has none.
MutualExclusion ==
  \A m \in Mutex : /\ \A t, u \in owner[m] : t = u
                   /\ lock[m] = (IF owner[m] = {} THEN 1 ELSE 0)

\* A thread in line for a mutex gets it.
WaitersGetMutex ==
  \A m \in Mutex, t \in Thread :
    t \in Nodes(waiting_threads[m]) ~> t \in owner[m]
=============================================================================
