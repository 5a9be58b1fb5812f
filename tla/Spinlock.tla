----------------------------- MODULE Spinlock -----------------------------
(***************************************************************************)
(* spinlock.cpp on top of the scheduler: one lock and the threads that     *)
(* acquire, try and release it.  Interrupts are masked between a test of   *)
(* the lock and the store that takes it, unless the thread slept before:   *)
(* thread_sleep returns with them unmasked.                                *)
(***************************************************************************)
EXTENDS Scheduler

CONSTANTS
  MayTry,     (* whether spinlock_try_acquire is called as well          *)
  RetryTime   (* the 1 ms spinlock_acquire sleeps between two tests      *)

ASSUME SpinlockAssumption ==
  /\ MayTry \in BOOLEAN /\ RetryTime \in SleepTime
  /\ {"insert", "sleep", "spinlock"} \subseteq Calls

VARIABLES
  lock,     (* the spinlock                                              *)
  pc        (* where each thread is with respect to the lock             *)

spinVars == <<lock, pc>>
allVars == <<vars, spinVars>>

Goto(label) == pc' = [pc EXCEPT ![current] = label]

\* The current thread runs code of spinlock.cpp, at the label.
Spins(label) == Service("spinlock") /\ pc[current] = label

\* The flag of the current thread becomes on; the scheduler does not move.
SetFlag(on) ==
  /\ intr' = [intr EXCEPT ![current] = on]
  /\ UNCHANGED <<ticks, state, ready, block, sleep, sleep_time, current,
                 in_critical_section, panicked, dozing, nesting>>

-----------------------------------------------------------------------------
\* spinlock_acquire up to INT_OFF.
AcquireEnter ==
  /\ Spins("out") /\ MayWait
  /\ Goto("test") /\ SetFlag(FALSE)
  /\ UNCHANGED lock

\* The loop finds the lock free...
AcquireFree ==
  /\ Spins("test") /\ lock = 0
  /\ Goto("set")
  /\ UNCHANGED <<vars, lock>>

\* ... or taken: the thread sleeps and tests it again.
AcquireSleep ==
  /\ Spins("test") /\ lock = 1
  /\ SleepSelf(RetryTime)
  /\ UNCHANGED spinVars

\* *lock = 1, INT_ON; the store of spinlock_try_acquire is the same.
AcquireSet ==
  /\ Spins("set")
  /\ lock' = 1 /\ Goto("in") /\ SetFlag(TRUE)

\* spinlock_try_acquire up to its INT_ON, which comes before the store.
TryAcquire ==
  /\ MayTry /\ Spins("out")
  /\ IF lock = 0 THEN Goto("set") ELSE UNCHANGED pc
  /\ SetFlag(TRUE)
  /\ UNCHANGED lock

\* Faulty form of Release: the lock is left taken.
ReleaseNothing ==
  /\ Spins("in")
  /\ Goto("out")
  /\ UNCHANGED <<vars, lock>>

\* spinlock_release
Release ==
  /\ Spins("in")
  /\ lock' = 0 /\ Goto("out")
  /\ UNCHANGED vars

-----------------------------------------------------------------------------
\* spinlock_init
SpinlockInit ==
  /\ Init
  /\ lock = 0
  /\ pc = [t \in Thread |-> "out"]

Spin ==
  \/ AcquireEnter \/ AcquireFree \/ AcquireSleep \/ AcquireSet
  \/ TryAcquire \/ Release

\* What the scheduler does meanwhile; only threads outside the lock make other
\* calls.
Schedule ==
  /\ Tick \/ SchedulerStart \/ SleepSwitch \/ \E t \in Thread : Insert(t)
  /\ UNCHANGED spinVars

SpinlockNext == Spin \/ Schedule

SpinlockSpec == SpinlockInit /\ [][SpinlockNext]_allVars

\* The timer goes on ticking, and a tick that comes while interrupts are masked
\* stays pending until they are not; a thread inside spinlock.cpp or
\* thread_sleep or holding the lock gets something done in some time slice.
SpinlockFairSpec ==
  /\ SpinlockSpec
  /\ WF_allVars(SchedulerStart /\ UNCHANGED spinVars)
  /\ SF_allVars(Tick /\ UNCHANGED spinVars)
  /\ \A t \in Thread :
       SF_allVars(current = t /\ \/ SleepSwitch /\ UNCHANGED spinVars
                                 \/ AcquireFree \/ AcquireSleep \/ AcquireSet
                                 \/ Release)

-----------------------------------------------------------------------------
(* Properties *)

\* "lock acquired" (spinlock.cpp): one thread at a time.
OneHolder == \A t, u \in Thread : pc[t] = "in" /\ pc[u] = "in" => t = u

\* While threads contend for the lock it is taken time and again.
SomeoneGetsIn ==
  (\E t \in Thread : pc[t] = "test") ~> (\E t \in Thread : pc[t] = "in")
=============================================================================
