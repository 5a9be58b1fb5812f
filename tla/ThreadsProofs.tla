--------------------------- MODULE ThreadsProofs ---------------------------
(***************************************************************************)
(* Theorems about the threads and about those that wait for each other.    *)
(* Scheduler, for every number of threads and priorities, under the one    *)
(* condition on its callers that keeps the sleep queue in order of waking: *)
(* all sleeps have the same length.  Semaphores, for every                 *)
(* number of threads, semaphores and permits: every waiter is blocked in   *)
(* the one line it stands in, a mutex has one owner, and the calls         *)
(* implement the counting semaphore.  Keyboard, for every number of        *)
(* threads and codes and for queues of every length, provided the daemon's *)
(* priority is higher than the reader's, as they are created               *)
(* (keyboard.cpp 518, kernel.cpp 949): nobody notifies a thread that does  *)
(* not wait, and the queues stay what the states say.                      *)
(***************************************************************************)
EXTENDS Semaphores, Keyboard, KernelListsProofs

-----------------------------------------------------------------------------
(* The scheduler *)

\* thread_sleep is always called with the same duration.
UniformSleep == \A d, e \in SleepTime : d = e

Runnable == {"READY", "RUNNING"}

\* The ready queues rq link the runnable threads of st, each in the queue of
\* its priority.
ReadyMatches(st, rq) ==
  /\ st \in [Thread -> State]
  /\ rq \in [Priority -> Seq(Thread)]
  /\ \A t \in Thread : st[t] \in Runnable <=> t \in Nodes(rq[Prio[t]])
  /\ \A p \in Priority : \A t \in Nodes(rq[p]) : Prio[t] = p
  /\ \A p \in Priority : NoDuplicates(rq[p])

\* Thread c alone is running in st, and heads its queue.
Runs(c, st, rq) ==
  /\ c \in Thread /\ st[c] = "RUNNING" /\ Head(rq[Prio[c]]) = c
  /\ \A t \in Thread : st[t] = "RUNNING" => t = c

\* The threads of list l wake in the order they are linked.
WakesInOrder(l, left) ==
  \A i, j \in 1..Len(l) : i <= j => left[l[i]] <= left[l[j]]

\* The idle thread, once queued, is there to run.
IdleIsRunnable ==
  /\ state[Idle] \in {"NONE", "READY", "RUNNING"}
  /\ state[Idle] = "NONE" => dozing = {}
  /\ Idle \notin dozing

\* The flag of the critical section is up for the current thread's sake, and
\* no thread goes to sleep inside one.
FlagIsCurrents ==
  /\ in_critical_section => current \in Thread /\ nesting[current] > 0
  /\ \A t \in Thread : nesting[t] > 0 => t \notin dozing

\* A sleeper has at most the common duration left.
SleepersInOrder ==
  /\ WakesInOrder(sleep, sleep_time)
  /\ \A t \in Nodes(sleep), d \in SleepTime : sleep_time[t] <= d

\* Every thread of state BLOCK is linked in the block queue, but for those of W:
\* what waits elsewhere, as in the line of a semaphore.
BlockedOutside(W) ==
  /\ \A t \in Thread : state[t] = "BLOCK" <=> t \in Nodes(block) \cup W
  /\ Nodes(block) \cap W = {}

Linked(W) ==
  /\ SleepersInSleepQueue
  /\ BlockedOutside(W)
  /\ RunnableInReadyQueue
  /\ LinkedOnce

\* The inductive invariant, while the threads of W wait outside the scheduler.
\* For the scheduler by itself W is empty.
IInv(W) ==
  /\ TypeOK
  /\ Linked(W)
  /\ RunningIsCurrent
  /\ NoPanic
  /\ IdleIsRunnable
  /\ FlagIsCurrents
  /\ SleepersInOrder

-----------------------------------------------------------------------------
\* sched_get_first_non_empty finds a queue when there is one.
LEMMA FirstReadyFacts ==
  ASSUME NEW rq \in [Priority -> Seq(Thread)], NonEmpty(rq) # {}
  PROVE  \E p \in Priority : /\ rq[p] # <<>>
                             /\ FirstReady(rq) = Head(rq[p])
                             /\ FirstReady(rq) \in Nodes(rq[p])
                             /\ \A q \in NonEmpty(rq) : p <= q
<1> DEFINE least(p) == \A q \in NonEmpty(rq) : p <= q
           first == CHOOSE p \in NonEmpty(rq) : least(p)
<1>1. NonEmpty(rq) \in SUBSET Nat
  BY SchedulerAssumption DEF NonEmpty, Priority
<1>2. \E p \in NonEmpty(rq) : least(p)
  BY <1>1, LeastElement
<1>3. first \in NonEmpty(rq) /\ least(first)
  <2> HIDE DEF least
  <2> QED BY <1>2
<1>4. FirstReady(rq) = Head(rq[first])
  BY DEF FirstReady
<1> HIDE DEF first
<1>5. first \in Priority /\ rq[first] # <<>> /\ rq[first] \in Seq(Thread)
  BY <1>3 DEF NonEmpty
<1>6. Head(rq[first]) \in Nodes(rq[first])
  BY <1>5 DEF Nodes
<1> QED BY <1>3, <1>4, <1>5, <1>6

\* A runnable thread makes its queue, and so the search, non-empty.
LEMMA SomethingToRun ==
  ASSUME NEW st, NEW rq, ReadyMatches(st, rq),
         NEW t \in Thread, st[t] \in Runnable
  PROVE  NonEmpty(rq) # {}
<1>1. Prio[t] \in Priority
  BY SchedulerAssumption
<1>2. t \in Nodes(rq[Prio[t]])
  BY DEF ReadyMatches
<1>3. rq[Prio[t]] # <<>>
  BY <1>2 DEF Nodes
<1> QED BY <1>1, <1>3 DEF NonEmpty

\* Giving up the processor relinks the running thread and nothing else.
LEMMA PreemptedFacts ==
  ASSUME NEW st, NEW rq, ReadyMatches(st, rq), current \in Thread,
         \A t \in Thread : st[t] = "RUNNING" => t = current
  PROVE  LET st1 == Preempted(st, rq)[1]
             rq1 == Preempted(st, rq)[2]
         IN  /\ ReadyMatches(st1, rq1)
             /\ \A t \in Thread : st1[t] # "RUNNING"
             /\ \A t \in Thread : st1[t] # st[t] => st1[t] = "READY"
                                                  /\ st[t] = "RUNNING"
<1> DEFINE st1 == Preempted(st, rq)[1]
           rq1 == Preempted(st, rq)[2]
<1>1. CASE st[current] # "RUNNING"
  <2>1. st1 = st /\ rq1 = rq
    BY <1>1 DEF Preempted
  <2> QED BY <1>1, <2>1
<1>2. CASE st[current] = "RUNNING"
  <2> DEFINE c == Prio[current]
  <2>1. /\ st1 = [st EXCEPT ![current] = "READY"]
        /\ rq1 = [rq EXCEPT ![c] = HeadToTail(rq[c])]
    BY <1>2 DEF Preempted
  <2>2. c \in Priority
    BY SchedulerAssumption
  <2>3. /\ HeadToTail(rq[c]) \in Seq(Thread)
        /\ NoDuplicates(HeadToTail(rq[c]))
        /\ Nodes(HeadToTail(rq[c])) = Nodes(rq[c])
    BY <2>2, HeadToTailFacts DEF ReadyMatches
  <2> HIDE DEF st1, rq1, c
  <2>4. rq1 \in [Priority -> Seq(Thread)] /\ st1 \in [Thread -> State]
    BY <2>1, <2>2, <2>3 DEF ReadyMatches, State
  <2>5. \A p \in Priority : /\ Nodes(rq1[p]) = Nodes(rq[p])
                             /\ NoDuplicates(rq1[p])
    BY <2>1, <2>2, <2>3 DEF ReadyMatches
  <2>6. /\ \A t \in Thread : t # current => st1[t] = st[t]
        /\ st1[current] = "READY"
    BY <2>1 DEF ReadyMatches
  <2>7. \A t \in Thread : st1[t] \in Runnable <=> st[t] \in Runnable
    BY <1>2, <2>6 DEF Runnable
  <2>8. \A t \in Thread : Prio[t] \in Priority
    BY SchedulerAssumption
  <2>9. ReadyMatches(st1, rq1)
    BY <2>4, <2>5, <2>7, <2>8 DEF ReadyMatches
  <2> QED BY <1>2, <2>6, <2>9 DEF st1, rq1
<1> QED BY <1>1, <1>2

\* scheduler_thread_switch is called with states st and queues rq that agree,
\* nobody but the current thread running and somebody to run.
MaySwitch(st, rq) ==
  /\ ReadyMatches(st, rq)
  /\ current \in Thread
  /\ \A t \in Thread : st[t] = "RUNNING" => t = current
  /\ \E t \in Thread : st[t] \in Runnable
  /\ in_critical_section => Runs(current, st, rq)

\* It leaves one running thread, the head of its queue, moves no thread in or
\* out of the ready queues and disturbs no waiting thread.
SwitchesWell(st, rq) ==
  LET s == Switched(st, rq)
  IN  /\ ReadyMatches(s.state, s.ready)
      /\ Runs(s.current, s.state, s.ready)
      /\ s.panicked = FALSE
      /\ in_critical_section => s.current = current
      /\ \A t \in Thread : s.state[t] \in Runnable <=> st[t] \in Runnable
      /\ \A t \in Thread : st[t] \notin Runnable => s.state[t] = st[t]

\* scheduler_thread_switch does not panic while some thread is runnable.
LEMMA SwitchedFacts ==
  ASSUME NEW st, NEW rq, MaySwitch(st, rq)
  PROVE  SwitchesWell(st, rq)
<1> USE DEF MaySwitch
<1> DEFINE s == Switched(st, rq)
<1>1. CASE in_critical_section
  <2>1. s = Outcome(st, rq, current, FALSE)
    BY <1>1 DEF Switched
  <2> QED BY <1>1, <2>1 DEF Outcome, SwitchesWell
<1>2. CASE ~in_critical_section
  <2> DEFINE st1  == Preempted(st, rq)[1]
             rq1  == Preempted(st, rq)[2]
             next == FirstReady(rq1)
  <2>1. /\ ReadyMatches(st1, rq1)
        /\ \A t \in Thread : st1[t] # "RUNNING"
        /\ \A t \in Thread : st1[t] # st[t] => st1[t] = "READY"
                                             /\ st[t] = "RUNNING"
    BY PreemptedFacts
  <2>2. \A t \in Thread : /\ st1[t] \in Runnable <=> st[t] \in Runnable
                          /\ st[t] \notin Runnable => st1[t] = st[t]
    BY <2>1 DEF Runnable
  <2>3. s = IF NonEmpty(rq1) = {} \/ st1[next] # "READY"
            THEN Outcome(st1, rq1, current, TRUE)
            ELSE Outcome([st1 EXCEPT ![next] = "RUNNING"], rq1, next, FALSE)
    BY <1>2, Zenon DEF Switched
  <2> HIDE DEF st1, rq1, s
  <2>4. NonEmpty(rq1) # {}
    BY <2>1, <2>2, SomethingToRun
  <2>5. PICK p \in Priority : rq1[p] # <<>> /\ next = Head(rq1[p])
                              /\ next \in Nodes(rq1[p])
    BY <2>1, <2>4, FirstReadyFacts DEF ReadyMatches
  <2> HIDE DEF next
  <2>6. next \in Thread
    BY <2>1, <2>5 DEF ReadyMatches, Nodes
  <2>7. Prio[next] = p
    BY <2>1, <2>5 DEF ReadyMatches
  <2>8. st1[next] = "READY"
    BY <2>1, <2>5, <2>6, <2>7 DEF ReadyMatches, Runnable
  <2>9. /\ s.state = [st1 EXCEPT ![next] = "RUNNING"]
        /\ s.ready = rq1 /\ s.current = next /\ s.panicked = FALSE
    BY <2>3, <2>4, <2>8 DEF Outcome
  <2> DEFINE st2 == [st1 EXCEPT ![next] = "RUNNING"]
  <2>10. st2 \in [Thread -> State]
    BY <2>1 DEF ReadyMatches, State
  <2>11. /\ \A t \in Thread : t # next => st2[t] = st1[t]
         /\ st2[next] = "RUNNING"
    BY <2>1, <2>6 DEF ReadyMatches
  <2> HIDE DEF st2
  <2>12. \A t \in Thread : /\ st2[t] \in Runnable <=> st1[t] \in Runnable
                           /\ st1[t] \notin Runnable => st2[t] = st1[t]
    BY <2>8, <2>11 DEF Runnable
  <2>13. ReadyMatches(st2, rq1)
    BY <2>1, <2>10, <2>12 DEF ReadyMatches
  <2>14. Runs(next, st2, rq1)
    BY <2>1, <2>5, <2>6, <2>7, <2>11 DEF Runs
  <2> QED BY <1>2, <2>2, <2>9, <2>12, <2>13, <2>14 DEF st2, s, SwitchesWell
<1> QED BY <1>1, <1>2

(***************************************************************************)
(* scheduler_decrease_sleep_time, on a queue in order of waking, wakes the *)
(* threads whose time is up and no other: the expired ones lead the queue, *)
(* so prev is null at each of them and the node unlinked is their own.     *)
(***************************************************************************)
LEMMA UnlinksTheExpired ==
  ASSUME sleep \in Seq(Thread), sleep_time \in [Thread -> Nat],
         WakesInOrder(sleep, sleep_time)
  PROVE  \A k \in Expired : Unlinked(k) = k
<1> SUFFICES ASSUME NEW k \in Expired
             PROVE  Unlinked(k) = k
  OBVIOUS
<1>1. k \in 1..Len(sleep) /\ Elapsed > sleep_time[sleep[k]]
  BY DEF Expired
<1>2. ASSUME NEW i \in 1 .. k - 1
      PROVE  i \in Expired
  <2>1. i \in 1..Len(sleep) /\ i <= k
    BY <1>1
  <2>2. sleep_time[sleep[i]] <= sleep_time[sleep[k]]
    BY <1>1, <2>1 DEF WakesInOrder
  <2>3. /\ sleep_time[sleep[i]] \in Nat /\ sleep_time[sleep[k]] \in Nat
        /\ Elapsed \in Nat
    BY <1>1, <2>1, SchedulerAssumption
  <2> QED BY <1>1, <2>1, <2>2, <2>3 DEF Expired
<1>3. (1 .. k - 1) \ Expired = {}
  BY <1>2
<1> QED BY <1>3 DEF Unlinked

\* scheduler_decrease_sleep_time, as long as it unlinks the nodes it wakes:
\* the expired threads leave the sleep queue and join their ready queues once.
LEMMA WokenFacts ==
  ASSUME NEW st, NEW rq, ReadyMatches(st, rq),
         sleep \in Seq(Thread), NoDuplicates(sleep),
         sleep_time \in [Thread -> Nat], WakesInOrder(sleep, sleep_time),
         \A t \in Thread : st[t] = "SLEEP" <=> t \in Nodes(sleep)
  PROVE  LET w == Woken(st, rq)
         IN  /\ ReadyMatches(w.state, w.ready)
             /\ \A t \in Thread : w.state[t] \in {st[t], "READY"}
             /\ \A t \in Thread : st[t] # "SLEEP" => w.state[t] = st[t]
             /\ \A p \in Priority : rq[p] # <<>> =>
                                     Head(w.ready[p]) = Head(rq[p])
             /\ w.sleep \in Seq(Thread) /\ NoDuplicates(w.sleep)
             /\ \A t \in Thread : w.state[t] = "SLEEP" <=> t \in Nodes(w.sleep)
             /\ w.sleep_time \in [Thread -> Nat]
             /\ \A t \in Thread : w.sleep_time[t] <= sleep_time[t]
             /\ WakesInOrder(w.sleep, w.sleep_time)
             /\ ~w.corrupted
<1> DEFINE w == Woken(st, rq)
           up == {sleep[k] : k \in Expired}
           rest == (1..Len(sleep)) \ Expired
           turn(p) == {k \in Expired : Prio[sleep[k]] = p}
           late(p) == Picked(sleep, turn(p))
           time == [t \in Thread |->
                      IF t \in up THEN 0
                      ELSE IF t \in Nodes(sleep) THEN sleep_time[t] - Elapsed
                      ELSE sleep_time[t]]
           st1 == [t \in Thread |-> IF t \in up THEN "READY" ELSE st[t]]
           rq1 == [p \in Priority |-> rq[p] \o late(p)]
           sl1 == Picked(sleep, rest)
<1>1. \A k \in Expired : Unlinked(k) = k
  BY UnlinksTheExpired
<1>2. Expired \in SUBSET (1..Len(sleep))
  BY DEF Expired
<1>3. {Unlinked(k) : k \in Expired} = Expired
  BY <1>1
<1>4. up \subseteq Nodes(sleep) /\ up \subseteq Thread
  BY <1>2 DEF Nodes
<1>5. \A p \in Priority : /\ late(p) \in Seq(Thread)
                           /\ Len(late(p)) = Len(Ascending(turn(p)))
                           /\ NoDuplicates(late(p))
                           /\ Nodes(late(p)) = {sleep[k] : k \in turn(p)}
                           /\ \A i \in 1..Len(late(p)) :
                                Ascending(turn(p))[i] \in turn(p)
  <2> TAKE p \in Priority
  <2>1. turn(p) \in SUBSET (1..Len(sleep))
    BY <1>2
  <2> HIDE DEF turn
  <2> QED BY <2>1, PickedFacts
<1>6. \A p \in Priority : Nodes(late(p)) = {t \in up : Prio[t] = p}
  <2>1. \A p \in Priority :
          {sleep[k] : k \in turn(p)} = {t \in up : Prio[t] = p}
    OBVIOUS
  <2> HIDE DEF late, turn, up
  <2> QED BY <1>5, <2>1
<1>7. /\ sl1 \in Seq(Thread) /\ NoDuplicates(sl1)
      /\ Nodes(sl1) = {sleep[k] : k \in rest}
      /\ \A i \in 1..Len(sl1) : Ascending(rest)[i] \in rest
      /\ \A i, j \in 1..Len(sl1) :
           i <= j => Ascending(rest)[i] <= Ascending(rest)[j]
  <2>1. rest \in SUBSET (1..Len(sleep))
    OBVIOUS
  <2> HIDE DEF rest
  <2> QED BY <2>1, PickedFacts
<1>8. Nodes(sl1) = Nodes(sleep) \ up
  <2>1. \A k \in rest : sleep[k] \in Nodes(sleep) /\ sleep[k] \notin up
    BY <1>2 DEF NoDuplicates, Nodes
  <2>2. \A k \in 1..Len(sleep) : sleep[k] \notin up => k \in rest
    OBVIOUS
  <2>3. Nodes(sleep) \ up \subseteq {sleep[k] : k \in rest}
    BY <2>2 DEF Nodes
  <2> HIDE DEF rest, up, sl1
  <2> QED BY <1>7, <2>1, <2>3
<1>9. /\ w.state = st1 /\ w.sleep_time = time /\ w.sleep = sl1
      /\ ~w.corrupted
  <2>1. w.state = st1 /\ w.sleep_time = time
    BY DEF Woken
  <2>2. w.sleep = sl1
    BY <1>3 DEF Woken
  <2>3. w.corrupted = (Cardinality(Expired) < Cardinality(Expired))
    BY <1>3 DEF Woken
  <2>4. Cardinality(Expired) \in Nat
    <3>1. Len(sleep) \in Nat
      OBVIOUS
    <3>2. IsFiniteSet(1..Len(sleep))
      BY <3>1, FS_Interval
    <3>3. IsFiniteSet(Expired)
      BY <1>2, <3>2, FS_Subset
    <3> QED BY <3>3, FS_CardinalityType
  <2>5. ~(Cardinality(Expired) < Cardinality(Expired))
    BY <2>4
  <2>6. ~w.corrupted
    BY <2>3, <2>5
  <2> HIDE DEF w, st1, time, sl1
  <2> QED BY <2>1, <2>2, <2>6
<1>10. \A p \in Priority : w.ready[p] = rq[p] \o late(p)
  <2> TAKE p \in Priority
  <2> DEFINE a == Ascending(turn(p))
  <2>1. Len(late(p)) = Len(a)
    BY <1>5
  <2>2. \A i \in 1..Len(a) : Unlinked(a[i]) = a[i]
    BY <1>1, <1>5, <2>1
  <2>3. w.ready[p] = rq[p] \o [i \in 1..Len(a) |-> sleep[Unlinked(a[i])]]
    BY DEF Woken
  <2> HIDE DEF a
  <2>4. [i \in 1..Len(a) |-> sleep[Unlinked(a[i])]]
          = [i \in 1..Len(a) |-> sleep[a[i]]]
    BY <2>2
  <2>5. late(p) = [i \in 1..Len(a) |-> sleep[a[i]]]
    BY DEF Picked, a
  <2> HIDE DEF turn, late
  <2> QED BY <2>3, <2>4, <2>5
<1>11. w.ready = rq1
  <2>1. w.ready = [p \in Priority |-> w.ready[p]]
    BY DEF Woken
  <2> HIDE DEF w, late
  <2> QED BY <1>10, <2>1
<1> HIDE DEF w, late, up, rest, turn, sl1
<1>12. \A p \in Priority :
         /\ rq1[p] \in Seq(Thread) /\ NoDuplicates(rq1[p])
         /\ Nodes(rq1[p]) = Nodes(rq[p]) \cup {t \in up : Prio[t] = p}
         /\ rq[p] # <<>> => Head(rq1[p]) = Head(rq[p])
  <2> TAKE p \in Priority
  <2>1. rq[p] \in Seq(Thread) /\ NoDuplicates(rq[p])
    BY DEF ReadyMatches
  <2>2. \A t \in up : t \notin Nodes(rq[Prio[t]])
    BY <1>4 DEF ReadyMatches, Runnable
  <2>3. Nodes(rq[p]) \cap Nodes(late(p)) = {}
    BY <1>6, <2>2
  <2> QED BY <1>5, <1>6, <2>1, <2>3, ConcatFacts
<1>13. ReadyMatches(st1, rq1)
  <2>1. \A t \in Thread : Prio[t] \in Priority
    BY SchedulerAssumption
  <2>2. st1 \in [Thread -> State]
    BY DEF ReadyMatches, State
  <2>3. \A t \in Thread : st1[t] \in Runnable <=> t \in up \/ st[t] \in Runnable
    BY DEF Runnable
  <2>4. rq1 \in [Priority -> Seq(Thread)]
    BY <1>12
  <2> HIDE DEF st1, rq1
  <2>5. \A t \in Thread : st1[t] \in Runnable <=> t \in Nodes(rq1[Prio[t]])
    BY <1>12, <2>1, <2>3 DEF ReadyMatches
  <2>6. \A p \in Priority : \A t \in Nodes(rq1[p]) : Prio[t] = p
    BY <1>12 DEF ReadyMatches
  <2> QED BY <1>12, <2>2, <2>4, <2>5, <2>6 DEF ReadyMatches
<1>14. \A t \in Thread : st1[t] = "SLEEP" <=> t \in Nodes(sl1)
  BY <1>8
<1>15. \A t \in Nodes(sleep) : t \notin up => Elapsed <= sleep_time[t]
  <2>1. \A k \in 1..Len(sleep) : sleep[k] \notin up
                                 => Elapsed <= sleep_time[sleep[k]]
    <3> TAKE k \in 1..Len(sleep)
    <3>1. sleep_time[sleep[k]] \in Nat /\ Elapsed \in Nat
      BY SchedulerAssumption
    <3> QED BY <3>1 DEF up, Expired
  <2> QED BY <2>1 DEF Nodes
<1>16. \A t \in Thread : time[t] \in Nat /\ time[t] <= sleep_time[t]
  BY <1>15, SchedulerAssumption
<1>17. WakesInOrder(sl1, time)
  <2> SUFFICES ASSUME NEW i \in 1..Len(sl1), NEW j \in 1..Len(sl1), i <= j
               PROVE  time[sl1[i]] <= time[sl1[j]]
    BY DEF WakesInOrder
  <2> DEFINE a == Ascending(rest)
  <2>1. /\ a[i] \in 1..Len(sleep) /\ a[j] \in 1..Len(sleep) /\ a[i] <= a[j]
    BY <1>7 DEF rest
  <2>2. sl1[i] = sleep[a[i]] /\ sl1[j] = sleep[a[j]]
    <3>1. Len(sl1) = Len(a)
      BY PickedFacts DEF sl1, rest
    <3> QED BY <3>1 DEF sl1, Picked
  <2>3. /\ sl1[i] \in Nodes(sleep) \ up /\ sl1[j] \in Nodes(sleep) \ up
    BY <1>8 DEF Nodes
  <2>4. sleep_time[sl1[i]] <= sleep_time[sl1[j]]
    BY <2>1, <2>2 DEF WakesInOrder
  <2>5. /\ sl1[i] \in Thread /\ sl1[j] \in Thread
        /\ sleep_time[sl1[i]] \in Nat /\ sleep_time[sl1[j]] \in Nat
        /\ Elapsed \in Nat
    BY <1>7, SchedulerAssumption
  <2>6. /\ time[sl1[i]] = sleep_time[sl1[i]] - Elapsed
        /\ time[sl1[j]] = sleep_time[sl1[j]] - Elapsed
    BY <2>3, <2>5
  <2> QED BY <2>4, <2>5, <2>6
<1>18. \A t \in Thread : /\ st1[t] \in {st[t], "READY"}
                         /\ st[t] # "SLEEP" => st1[t] = st[t]
  BY <1>4
<1>19. time \in [Thread -> Nat]
  BY <1>16
<1> HIDE DEF st1, rq1, time
<1> QED BY <1>7, <1>9, <1>11, <1>12, <1>13, <1>14, <1>16, <1>17, <1>18, <1>19
        DEF w

-----------------------------------------------------------------------------
(* A thread entering or leaving the ready queues.                          *)

Set(st, t, v) == [st EXCEPT ![t] = v]
Enqueued(rq, t) == [rq EXCEPT ![Prio[t]] = InsertBackNode(rq[Prio[t]], t)]
Dequeued(rq, t) == [rq EXCEPT ![Prio[t]] = RemoveNode(rq[Prio[t]], t)]
FrontDequeued(rq, t) == [rq EXCEPT ![Prio[t]] = RemoveFrontNode(rq[Prio[t]])]

\* thread_insert and thread_notify: a thread becomes ready, last in line.
LEMMA EnqueuedFacts ==
  ASSUME NEW st, NEW rq, ReadyMatches(st, rq),
         NEW t \in Thread, st[t] \notin Runnable
  PROVE  /\ ReadyMatches(Set(st, t, "READY"), Enqueued(rq, t))
         /\ \A c \in Thread : Runs(c, st, rq)
                             => Runs(c, Set(st, t, "READY"), Enqueued(rq, t))
<1> DEFINE p == Prio[t]
           l == InsertBackNode(rq[p], t)
           st1 == Set(st, t, "READY")
           rq1 == Enqueued(rq, t)
<1>1. /\ \A u \in Thread : Prio[u] \in Priority
      /\ p \in Priority
  BY SchedulerAssumption
<1>2. t \notin Nodes(rq[p])
  BY DEF ReadyMatches
<1>3. rq[p] \in Seq(Thread) /\ NoDuplicates(rq[p])
  BY <1>1 DEF ReadyMatches
<1>4. /\ l \in Seq(Thread) /\ NoDuplicates(l)
      /\ Nodes(l) = Nodes(rq[p]) \cup {t}
      /\ rq[p] # <<>> => Head(l) = Head(rq[p])
  BY <1>2, <1>3, InsertBackNodeFacts
<1>5. /\ st1 \in [Thread -> State] /\ st1[t] = "READY"
      /\ \A u \in Thread : u # t => st1[u] = st[u]
  BY DEF Set, ReadyMatches, State
<1>6. /\ rq1 \in [Priority -> Seq(Thread)] /\ rq1[p] = l
      /\ \A q \in Priority : q # p => rq1[q] = rq[q]
  BY <1>1, <1>4 DEF Enqueued, ReadyMatches
<1> HIDE DEF st1, rq1, l
<1>7. ASSUME NEW u \in Thread
      PROVE  st1[u] \in Runnable <=> u \in Nodes(rq1[Prio[u]])
  <2>1. CASE u = t
    <3>1. t \in Nodes(rq1[Prio[t]])
      BY <1>4, <1>6
    <3> QED BY <1>5, <2>1, <3>1 DEF Runnable
  <2>2. CASE u # t
    <3>1. st[u] \in Runnable <=> u \in Nodes(rq[Prio[u]])
      BY DEF ReadyMatches
    <3>2. u \in Nodes(rq1[Prio[u]]) <=> u \in Nodes(rq[Prio[u]])
      BY <1>1, <1>4, <1>6, <2>2
    <3> QED BY <1>5, <2>2, <3>1, <3>2
  <2> QED BY <2>1, <2>2
<1>8. ASSUME NEW q \in Priority, NEW u \in Nodes(rq1[q])
      PROVE  Prio[u] = q
  <2>1. u \in Nodes(rq[q]) \/ (q = p /\ u = t)
    BY <1>4, <1>6
  <2> QED BY <2>1 DEF ReadyMatches
<1>9. \A q \in Priority : NoDuplicates(rq1[q])
  BY <1>4, <1>6 DEF ReadyMatches
<1>10. ASSUME NEW c \in Thread, Runs(c, st, rq)
       PROVE  Runs(c, st1, rq1)
  <2>1. c # t
    BY <1>10 DEF Runs, Runnable
  <2>2. c \in Nodes(rq[Prio[c]])
    BY <1>10 DEF Runs, ReadyMatches, Runnable
  <2>3. rq[Prio[c]] # <<>>
    BY <2>2 DEF Nodes
  <2>4. Head(rq1[Prio[c]]) = c
    BY <1>1, <1>4, <1>6, <1>10, <2>3 DEF Runs
  <2> QED BY <1>5, <1>10, <2>1, <2>4 DEF Runs
<1> QED BY <1>5, <1>6, <1>7, <1>8, <1>9, <1>10 DEF ReadyMatches, st1, rq1

\* thread_block and thread_sleep of another thread: it leaves its queue from
\* wherever it waits.
LEMMA DequeuedFacts ==
  ASSUME NEW st, NEW rq, ReadyMatches(st, rq),
         NEW t \in Thread, st[t] \in Runnable, NEW v \in State \ Runnable
  PROVE  /\ ReadyMatches(Set(st, t, v), Dequeued(rq, t))
         /\ \A c \in Thread : c # t /\ Runs(c, st, rq)
                             => Runs(c, Set(st, t, v), Dequeued(rq, t))
<1> DEFINE p == Prio[t]
           l == RemoveNode(rq[p], t)
           st1 == Set(st, t, v)
           rq1 == Dequeued(rq, t)
<1>1. /\ \A u \in Thread : Prio[u] \in Priority
      /\ p \in Priority
  BY SchedulerAssumption
<1>2. t \in Nodes(rq[p])
  BY DEF ReadyMatches
<1>3. rq[p] \in Seq(Thread) /\ NoDuplicates(rq[p])
  BY <1>1 DEF ReadyMatches
<1>4. /\ l \in Seq(Thread) /\ NoDuplicates(l)
      /\ Nodes(l) = Nodes(rq[p]) \ {t}
      /\ t # Head(rq[p]) => Head(l) = Head(rq[p])
  BY <1>2, <1>3, RemoveNodeFacts
<1>5. /\ st1 \in [Thread -> State] /\ st1[t] = v
      /\ \A u \in Thread : u # t => st1[u] = st[u]
  BY DEF Set, ReadyMatches
<1>6. /\ rq1 \in [Priority -> Seq(Thread)] /\ rq1[p] = l
      /\ \A q \in Priority : q # p => rq1[q] = rq[q]
  BY <1>1, <1>4 DEF Dequeued, ReadyMatches
<1> HIDE DEF st1, rq1, l
<1>7. \A u \in Thread : st1[u] \in Runnable <=> u \in Nodes(rq1[Prio[u]])
  BY <1>1, <1>4, <1>5, <1>6 DEF ReadyMatches
<1>8. \A q \in Priority : \A u \in Nodes(rq1[q]) : Prio[u] = q
  BY <1>4, <1>6 DEF ReadyMatches
<1>9. \A q \in Priority : NoDuplicates(rq1[q])
  BY <1>4, <1>6 DEF ReadyMatches
<1>10. ASSUME NEW c \in Thread, c # t, Runs(c, st, rq)
       PROVE  Runs(c, st1, rq1)
  <2>1. Head(rq1[Prio[c]]) = c
    BY <1>1, <1>4, <1>6, <1>10 DEF Runs
  <2>2. \A u \in Thread : st1[u] = "RUNNING" => u = c
    BY <1>5, <1>10 DEF Runs, Runnable
  <2> QED BY <1>5, <1>10, <2>1, <2>2 DEF Runs
<1> QED BY <1>5, <1>6, <1>7, <1>8, <1>9, <1>10 DEF ReadyMatches, st1, rq1

\* thread_block and thread_sleep of the running thread: it leaves the head of
\* its queue, and nobody runs.
LEMMA FrontDequeuedFacts ==
  ASSUME NEW st, NEW rq, ReadyMatches(st, rq),
         NEW t, Runs(t, st, rq), NEW v \in State \ Runnable
  PROVE  /\ ReadyMatches(Set(st, t, v), FrontDequeued(rq, t))
         /\ \A u \in Thread : Set(st, t, v)[u] # "RUNNING"
<1> DEFINE p == Prio[t]
           l == RemoveFrontNode(rq[p])
           st1 == Set(st, t, v)
           rq1 == FrontDequeued(rq, t)
<1>1. /\ \A u \in Thread : Prio[u] \in Priority
      /\ p \in Priority /\ t \in Thread
  BY SchedulerAssumption DEF Runs
<1>2. t \in Nodes(rq[p]) /\ Head(rq[p]) = t
  BY DEF ReadyMatches, Runs, Runnable
<1>3. rq[p] \in Seq(Thread) /\ NoDuplicates(rq[p]) /\ rq[p] # <<>>
  BY <1>1, <1>2 DEF ReadyMatches, Nodes
<1>4. /\ l \in Seq(Thread) /\ NoDuplicates(l)
      /\ Nodes(l) = Nodes(rq[p]) \ {t}
  BY <1>2, <1>3, RemoveFrontNodeFacts
<1>5. /\ st1 \in [Thread -> State] /\ st1[t] = v
      /\ \A u \in Thread : u # t => st1[u] = st[u]
  BY <1>1 DEF Set, ReadyMatches
<1>6. /\ rq1 \in [Priority -> Seq(Thread)] /\ rq1[p] = l
      /\ \A q \in Priority : q # p => rq1[q] = rq[q]
  BY <1>1, <1>4 DEF FrontDequeued, ReadyMatches
<1> HIDE DEF st1, rq1, l
<1>7. \A u \in Thread : st1[u] \in Runnable <=> u \in Nodes(rq1[Prio[u]])
  BY <1>1, <1>4, <1>5, <1>6 DEF ReadyMatches
<1>8. \A q \in Priority : \A u \in Nodes(rq1[q]) : Prio[u] = q
  BY <1>4, <1>6 DEF ReadyMatches
<1>9. \A q \in Priority : NoDuplicates(rq1[q])
  BY <1>4, <1>6 DEF ReadyMatches
<1>10. \A u \in Thread : st1[u] # "RUNNING"
  BY <1>5 DEF Runs, Runnable
<1> QED BY <1>5, <1>6, <1>7, <1>8, <1>9, <1>10 DEF ReadyMatches, st1, rq1

-----------------------------------------------------------------------------
(* In which order the switches serve the threads.                          *)

\* Thread t is linked in front of u in the ready queues rq.
Precedes(rq, t, u) ==
  LET q == rq[Prio[u]]
  IN  \E i, j \in 1..Len(q) : i < j /\ q[i] = t /\ q[j] = u

\* Thread c, if it runs, heads its queue.
Leads(c, st, rq) == st[c] = "RUNNING" => Head(rq[Prio[c]]) = c

\* Whoever stands behind another does not head the queue.
LEMMA BehindIsNotFirst ==
  ASSUME NEW st, NEW rq, ReadyMatches(st, rq),
         NEW t \in Thread, NEW u \in Thread, Precedes(rq, t, u)
  PROVE  Head(rq[Prio[u]]) # u
<1> DEFINE q == rq[Prio[u]]
<1>1. q \in Seq(Thread) /\ NoDuplicates(q)
  BY SchedulerAssumption DEF ReadyMatches
<1>2. PICK i \in 1..Len(q), j \in 1..Len(q) : i < j /\ q[j] = u
  BY DEF Precedes
<1>3. Head(q) = q[1] /\ 1 \in 1..Len(q) /\ j # 1
  BY <1>1, <1>2
<1> HIDE DEF q
<1>4. q[1] # u
  BY <1>1, <1>2, <1>3 DEF NoDuplicates
<1> QED BY <1>3, <1>4 DEF q

\* When the running thread steps back from the head of its queue, the rest keep
\* their places relative to each other.
LEMMA PrecedenceKept ==
  ASSUME NEW st, NEW rq, ReadyMatches(st, rq),
         NEW c \in Thread, Head(rq[Prio[c]]) = c,
         NEW t \in Thread \ {c}, NEW u \in Thread, Precedes(rq, t, u)
  PROVE  /\ Precedes([rq EXCEPT ![Prio[c]] = HeadToTail(rq[Prio[c]])], t, u)
         /\ Precedes(FrontDequeued(rq, c), t, u)
<1> DEFINE q == rq[Prio[u]]
<1>1. /\ Prio[u] \in Priority /\ Prio[c] \in Priority
      /\ DOMAIN rq = Priority /\ q \in Seq(Thread)
  BY SchedulerAssumption DEF ReadyMatches
<1>2. PICK i \in 1..Len(q), j \in 1..Len(q) : i < j /\ q[i] = t /\ q[j] = u
  BY DEF Precedes
<1>3. CASE Prio[u] # Prio[c]
  BY <1>1, <1>2, <1>3 DEF Precedes, FrontDequeued
<1>4. CASE Prio[u] = Prio[c]
  <2> DEFINE h == HeadToTail(q)
             f == RemoveFrontNode(q)
  <2>1. q[1] = c /\ i # 1 /\ Len(q) >= 2 /\ q # <<>> /\ Len(q) \in Nat
    BY <1>1, <1>2, <1>4
  <2>2. h = Append(Tail(q), Head(q)) /\ f = Tail(q)
    BY <2>1 DEF HeadToTail, RemoveFrontNode
  <2>3. /\ i - 1 \in 1..Len(q) - 1 /\ j - 1 \in 1..Len(q) - 1 /\ i - 1 < j - 1
        /\ Len(Tail(q)) = Len(q) - 1 /\ Tail(q) \in Seq(Thread)
        /\ Tail(q)[i - 1] = t /\ Tail(q)[j - 1] = u
    BY <1>1, <1>2, <2>1
  <2>4. /\ Len(h) = Len(q) /\ h[i - 1] = t /\ h[j - 1] = u
    BY <1>1, <2>1, <2>2, <2>3
  <2>5. /\ [rq EXCEPT ![Prio[c]] = HeadToTail(rq[Prio[c]])][Prio[u]] = h
        /\ FrontDequeued(rq, c)[Prio[u]] = f
    BY <1>1, <1>4 DEF FrontDequeued
  <2> HIDE DEF h, f, q
  <2>6. /\ i - 1 \in 1..Len(h) /\ j - 1 \in 1..Len(h)
        /\ i - 1 \in 1..Len(f) /\ j - 1 \in 1..Len(f)
        /\ f[i - 1] = t /\ f[j - 1] = u
    BY <2>1, <2>2, <2>3, <2>4
  <2> QED BY <2>3, <2>4, <2>5, <2>6 DEF Precedes
<1> QED BY <1>3, <1>4

\* scheduler_thread_switch takes the first thread of the highest priority.
LEMMA SwitchedInOrder ==
  ASSUME NEW st, NEW rq, MaySwitch(st, rq), Leads(current, st, rq)
  PROVE  LET s == Switched(st, rq)
         IN  /\ s.current # current =>
                  \A t \in Thread : s.state[t] = "READY"
                                      => Prio[s.current] <= Prio[t]
             /\ \A t, u \in Thread :
                  /\ st[t] = "READY" /\ st[u] = "READY"
                  /\ Precedes(rq, t, u)
                  => s.state[u] # "RUNNING"
<1> USE DEF MaySwitch
<1> DEFINE s == Switched(st, rq)
<1>1. CASE in_critical_section
  <2>1. s = Outcome(st, rq, current, FALSE)
    BY <1>1 DEF Switched
  <2> QED BY <2>1 DEF Outcome
<1>2. CASE ~in_critical_section
  <2> DEFINE st1  == Preempted(st, rq)[1]
             rq1  == Preempted(st, rq)[2]
             next == FirstReady(rq1)
  <2>1. /\ ReadyMatches(st1, rq1)
        /\ \A t \in Thread : st1[t] # "RUNNING"
        /\ \A t \in Thread : st1[t] # st[t] => st1[t] = "READY"
                                             /\ st[t] = "RUNNING"
    BY PreemptedFacts
  <2>2. \A t, u \in Thread :
          st[t] = "READY" /\ Precedes(rq, t, u) => Precedes(rq1, t, u)
    <3>1. CASE st[current] # "RUNNING"
      BY <3>1 DEF Preempted
    <3>2. CASE st[current] = "RUNNING"
      <4>1. rq1 = [rq EXCEPT ![Prio[current]] = HeadToTail(rq[Prio[current]])]
        BY <3>2 DEF Preempted
      <4> HIDE DEF rq1
      <4> QED BY <3>2, <4>1, PrecedenceKept DEF Leads
    <3> QED BY <3>1, <3>2
  <2>3. s = IF NonEmpty(rq1) = {} \/ st1[next] # "READY"
            THEN Outcome(st1, rq1, current, TRUE)
            ELSE Outcome([st1 EXCEPT ![next] = "RUNNING"], rq1, next, FALSE)
    BY <1>2, Zenon DEF Switched
  <2> HIDE DEF st1, rq1, s
  <2>4. CASE NonEmpty(rq1) = {} \/ st1[next] # "READY"
    <3>1. s.state = st1 /\ s.current = current
      BY <2>3, <2>4 DEF Outcome
    <3> QED BY <2>1, <3>1 DEF s
  <2>5. CASE ~(NonEmpty(rq1) = {} \/ st1[next] # "READY")
    <3>1. s.state = [st1 EXCEPT ![next] = "RUNNING"] /\ s.current = next
      BY <2>3, <2>5 DEF Outcome
    <3>2. PICK p \in Priority : /\ rq1[p] # <<>> /\ next = Head(rq1[p])
                                /\ next \in Nodes(rq1[p])
                                /\ \A q \in NonEmpty(rq1) : p <= q
      BY <2>1, <2>5, FirstReadyFacts DEF ReadyMatches
    <3> HIDE DEF next
    <3>3. next \in Thread /\ Prio[next] = p
      BY <2>1, <3>2 DEF ReadyMatches, Nodes
    <3>4. \A t \in Thread : s.state[t] = IF t = next THEN "RUNNING" ELSE st1[t]
      BY <2>1, <3>1 DEF ReadyMatches
    <3>5. ASSUME NEW t \in Thread, s.state[t] = "READY"
          PROVE  Prio[s.current] <= Prio[t]
      <4>1. st1[t] \in Runnable
        BY <3>4, <3>5 DEF Runnable
      <4>2. t \in Nodes(rq1[Prio[t]]) /\ Prio[t] \in Priority
        BY <2>1, <4>1, SchedulerAssumption DEF ReadyMatches
      <4>3. Prio[t] \in NonEmpty(rq1)
        BY <4>2 DEF NonEmpty, Nodes
      <4> QED BY <3>1, <3>2, <3>3, <4>3
    <3>6. ASSUME NEW t \in Thread, NEW u \in Thread,
                 st[t] = "READY", st[u] = "READY", Precedes(rq, t, u),
                 s.state[u] = "RUNNING"
          PROVE  FALSE
      <4>1. u = next
        BY <2>1, <3>4, <3>6
      <4>2. Precedes(rq1, t, u)
        BY <2>2, <3>6
      <4>3. Head(rq1[Prio[u]]) # u
        BY <2>1, <4>2, BehindIsNotFirst
      <4> QED BY <3>2, <3>3, <4>1, <4>3
    <3> QED BY <3>5, <3>6 DEF s
  <2> QED BY <2>4, <2>5
<1> QED BY <1>1, <1>2

-----------------------------------------------------------------------------
(* The inductive invariant, action by action.                              *)

\* What the invariant says of the processor and the ready queues.
LEMMA ProcessorFacts ==
  ASSUME NEW W, IInv(W)
  PROVE  /\ ReadyMatches(state, ready)
         /\ \A t \in Thread : state[t] = "RUNNING" => t = current
         /\ current \in Thread =>
              \/ Runs(current, state, ready)
              \/ state[current] = "SLEEP" /\ current \in dozing
         /\ in_critical_section => Runs(current, state, ready)
         /\ current \in Thread => \E t \in Thread : state[t] \in Runnable
<1>1. ReadyMatches(state, ready)
  BY DEF IInv, TypeOK, Linked, RunnableInReadyQueue, LinkedOnce,
         ReadyMatches, Runnable
<1>2. \A t \in Thread : state[t] = "RUNNING" => t = current
  BY DEF IInv, RunningIsCurrent
<1>3. current \in Thread => \/ Runs(current, state, ready)
                            \/ state[current] = "SLEEP" /\ current \in dozing
  BY <1>2, SchedulerAssumption DEF IInv, RunningIsCurrent, Runs
<1>4. in_critical_section => Runs(current, state, ready)
  BY <1>3 DEF IInv, FlagIsCurrents
<1>5. ASSUME current \in Thread
      PROVE  \E t \in Thread : state[t] \in Runnable
  <2>1. CASE Runs(current, state, ready)
    BY <2>1 DEF Runs, Runnable
  <2>2. CASE current \in dozing
    <3>1. Idle \in Thread
      BY SchedulerAssumption
    <3>2. state[Idle] \in Runnable
      BY <2>2 DEF IInv, IdleIsRunnable, Runnable
    <3> QED BY <3>1, <3>2
  <2> QED BY <1>3, <1>5, <2>1, <2>2
<1> QED BY <1>1, <1>2, <1>3, <1>4, <1>5

\* thread_insert queues a thread that was in no list.
LEMMA InsertPreserves ==
  ASSUME NEW W, IInv(W), NEW t \in Thread, Insert(t)
  PROVE  IInv(W)'
<1> USE DEF Insert
<1>1. state' = Set(state, t, "READY") /\ ready' = Enqueued(ready, t)
  BY DEF Set, Enqueued
<1>2. state[t] \notin Runnable
  BY DEF Runnable
<1>3. /\ ReadyMatches(state', ready')
      /\ \A c \in Thread : Runs(c, state, ready) => Runs(c, state', ready')
  <2>1. ReadyMatches(state, ready)
    BY ProcessorFacts
  <2>2. /\ ReadyMatches(Set(state, t, "READY"), Enqueued(ready, t))
        /\ \A c \in Thread :
             Runs(c, state, ready)
               => Runs(c, Set(state, t, "READY"), Enqueued(ready, t))
    BY ONLY <1>2, <2>1, t \in Thread, EnqueuedFacts
  <2> QED BY ONLY <1>1, <2>2
<1>4. \A u \in Thread : state'[u] = IF u = t THEN "READY" ELSE state[u]
  BY DEF IInv, TypeOK
<1>5. TypeOK'
  BY <1>3 DEF IInv, TypeOK, ReadyMatches
<1>6. SleepersInSleepQueue' /\ BlockedOutside(W)'
  BY <1>4 DEF IInv, Linked, SleepersInSleepQueue,
              BlockedOutside
<1>7. current \in Thread => \/ Runs(current, state', ready')
                            \/ state'[current] = "SLEEP" /\ current \in dozing
  BY <1>2, <1>3, <1>4, ProcessorFacts
<1>8. RunningIsCurrent'
  BY <1>4, <1>5, <1>7, ProcessorFacts
     DEF IInv, TypeOK, RunningIsCurrent, Runs
<1>9. IdleIsRunnable' /\ FlagIsCurrents' /\ SleepersInOrder' /\ NoPanic'
  BY <1>4, SchedulerAssumption
     DEF IInv, IdleIsRunnable, FlagIsCurrents, SleepersInOrder, NoPanic
<1> QED BY <1>3, <1>5, <1>6, <1>8, <1>9
        DEF IInv, Linked, RunnableInReadyQueue, LinkedOnce,
            ReadyMatches, Runnable

\* A switch leaves the invariant in place: what thread_current_yield and the
\* second half of thread_sleep do, and the first half of the timer.
LEMMA SwitchFacts ==
  ASSUME NEW W, IInv(W), current \in Thread
  PROVE  SwitchesWell(state, ready)
<1>1. MaySwitch(state, ready)
  BY ProcessorFacts DEF MaySwitch
<1> QED BY <1>1, SwitchedFacts

\* thread_current_yield: the thread goes to the tail, another takes its place.
LEMMA YieldPreserves ==
  ASSUME NEW W, IInv(W), Yield \/ SleepSwitch
  PROVE  IInv(W)'
<1> DEFINE s == Switched(state, ready)
<1>1. /\ current \in Thread
      /\ state' = s.state /\ ready' = s.ready
      /\ current' = s.current /\ panicked' = s.panicked
      /\ dozing' \in {dozing, dozing \ {current}}
      /\ UNCHANGED <<ticks, block, sleep, sleep_time, in_critical_section, intr,
                     nesting>>
  BY DEF IInv, TypeOK, Yield, SleepSwitch, Service, Commit
<1>2. /\ ReadyMatches(state', ready')
      /\ Runs(current', state', ready')
      /\ panicked' = FALSE
      /\ in_critical_section => current' = current
      /\ \A t \in Thread : state'[t] \in Runnable <=> state[t] \in Runnable
      /\ \A t \in Thread : state[t] \notin Runnable => state'[t] = state[t]
  BY <1>1, SwitchFacts DEF SwitchesWell
<1> HIDE DEF s
<1>3. TypeOK'
  BY <1>1, <1>2 DEF IInv, TypeOK, ReadyMatches, Runs
<1>4. SleepersInSleepQueue' /\ BlockedOutside(W)'
  BY <1>1, <1>2 DEF IInv, Linked, SleepersInSleepQueue,
                    BlockedOutside, Runnable
<1>5. RunningIsCurrent'
  BY <1>2 DEF RunningIsCurrent, Runs
<1>6. IdleIsRunnable'
  <2>1. Idle \in Thread /\ state[Idle] \in {"NONE", "READY", "RUNNING"}
    BY SchedulerAssumption DEF IInv, IdleIsRunnable
  <2>2. state'[Idle] \in {"NONE", "READY", "RUNNING"}
    BY <1>2, <2>1 DEF Runnable
  <2>3. state'[Idle] = "NONE" => state[Idle] = "NONE"
    BY <1>2, <2>1 DEF Runnable
  <2> QED BY <1>1, <2>2, <2>3 DEF IInv, IdleIsRunnable
<1>7. FlagIsCurrents' /\ SleepersInOrder' /\ NoPanic'
  BY <1>1, <1>2 DEF IInv, FlagIsCurrents, SleepersInOrder, NoPanic
<1> QED BY <1>1, <1>2, <1>3, <1>4, <1>5, <1>6, <1>7
        DEF IInv, Linked, RunnableInReadyQueue, LinkedOnce,
            ReadyMatches, Runnable

\* scheduler_interrupt: the switch, and then the sleepers that wake.
LEMMA TickPreserves ==
  ASSUME NEW W, IInv(W), Tick
  PROVE  IInv(W)'
<1> DEFINE s == Switched(state, ready)
           w == Woken(s.state, s.ready)
<1>1. /\ current \in Thread
      /\ ticks' \in 0 .. TicksRange - 1
      /\ state' = w.state /\ ready' = w.ready /\ current' = s.current
      /\ panicked' = (s.panicked \/ w.corrupted)
      /\ sleep' = w.sleep /\ sleep_time' = w.sleep_time
      /\ UNCHANGED <<block, in_critical_section, intr, dozing, nesting>>
  BY SchedulerAssumption DEF IInv, TypeOK, Tick
<1>2. /\ ReadyMatches(s.state, s.ready)
      /\ Runs(s.current, s.state, s.ready)
      /\ s.panicked = FALSE
      /\ in_critical_section => s.current = current
      /\ \A t \in Thread : s.state[t] \in Runnable <=> state[t] \in Runnable
      /\ \A t \in Thread : state[t] \notin Runnable => s.state[t] = state[t]
  BY <1>1, SwitchFacts DEF SwitchesWell
<1>3. \A t \in Thread : s.state[t] = "SLEEP" <=> t \in Nodes(sleep)
  <2>1. \A t \in Thread : state[t] = "SLEEP" <=> t \in Nodes(sleep)
    BY DEF IInv, Linked, SleepersInSleepQueue
  <2> HIDE DEF s
  <2> QED BY <1>2, <2>1 DEF Runnable
<1>4. /\ sleep \in Seq(Thread) /\ NoDuplicates(sleep)
      /\ sleep_time \in [Thread -> Nat] /\ WakesInOrder(sleep, sleep_time)
  BY DEF IInv, TypeOK, Linked, LinkedOnce, SleepersInOrder
<1> HIDE DEF s
<1>5. /\ ReadyMatches(w.state, w.ready)
      /\ \A t \in Thread : w.state[t] \in {s.state[t], "READY"}
      /\ \A t \in Thread : s.state[t] # "SLEEP" => w.state[t] = s.state[t]
      /\ \A p \in Priority : s.ready[p] # <<>> =>
                              Head(w.ready[p]) = Head(s.ready[p])
      /\ w.sleep \in Seq(Thread) /\ NoDuplicates(w.sleep)
      /\ \A t \in Thread : w.state[t] = "SLEEP" <=> t \in Nodes(w.sleep)
      /\ w.sleep_time \in [Thread -> Nat]
      /\ \A t \in Thread : w.sleep_time[t] <= sleep_time[t]
      /\ WakesInOrder(w.sleep, w.sleep_time)
      /\ ~w.corrupted
  BY <1>2, <1>3, <1>4, WokenFacts
<1> HIDE DEF w
<1>6. panicked' = FALSE
  <2>1. panicked' = (FALSE \/ w.corrupted)
    BY <1>1, <1>2
  <2> QED BY <1>5, <2>1
<1>7. Runs(current', state', ready')
  <2> DEFINE p == Prio[s.current]
  <2>1. s.current \in Thread /\ p \in Priority
    BY <1>2, SchedulerAssumption DEF Runs
  <2>2. s.current \in Nodes(s.ready[p])
    BY <1>2 DEF Runs, ReadyMatches, Runnable
  <2>3. s.ready[p] # <<>>
    BY <2>2 DEF Nodes
  <2>4. Head(ready'[p]) = s.current
    BY <1>1, <1>2, <1>5, <2>1, <2>3 DEF Runs
  <2>5. /\ state'[s.current] = "RUNNING"
        /\ \A t \in Thread : state'[t] = "RUNNING" => t = s.current
    BY <1>1, <1>2, <1>5 DEF Runs
  <2> QED BY <1>1, <2>1, <2>4, <2>5 DEF Runs
<1>8. TypeOK'
  BY <1>1, <1>2, <1>5, <1>6 DEF IInv, TypeOK, ReadyMatches, Runs
<1>9. SleepersInSleepQueue' /\ BlockedOutside(W)'
  <2>1. \A t \in Thread : state'[t] = "BLOCK" <=> state[t] = "BLOCK"
    BY <1>1, <1>2, <1>5 DEF Runnable
  <2> QED BY <1>1, <1>5, <2>1 DEF IInv, Linked,
                                  SleepersInSleepQueue, BlockedOutside
<1>10. RunningIsCurrent'
  BY <1>7 DEF RunningIsCurrent, Runs
<1>11. IdleIsRunnable'
  <2>1. Idle \in Thread /\ state[Idle] \in {"NONE", "READY", "RUNNING"}
    BY SchedulerAssumption DEF IInv, IdleIsRunnable
  <2>2. s.state[Idle] \in {"NONE", "READY", "RUNNING"}
    BY <1>2, <2>1 DEF Runnable
  <2>3. s.state[Idle] = "NONE" => state[Idle] = "NONE"
    BY <1>2, <2>1 DEF Runnable
  <2>4. state'[Idle] = s.state[Idle]
    BY <1>1, <1>5, <2>1, <2>2
  <2> QED BY <1>1, <2>2, <2>3, <2>4 DEF IInv, IdleIsRunnable
<1>12. FlagIsCurrents' /\ NoPanic'
  BY <1>1, <1>2, <1>6 DEF IInv, FlagIsCurrents, NoPanic
<1>13. SleepersInOrder'
  <2>1. WakesInOrder(sleep', sleep_time')
    BY <1>1, <1>5
  <2>2. ASSUME NEW t \in Nodes(sleep'), NEW d \in SleepTime
        PROVE  sleep_time'[t] <= d
    <3>1. t \in Thread
      BY <1>1, <1>5 DEF Nodes
    <3>2. t \in Nodes(sleep)
      BY <1>1, <1>3, <1>5, <3>1
    <3>3. sleep_time[t] <= d
      BY <3>2 DEF IInv, SleepersInOrder
    <3>4. /\ sleep_time'[t] <= sleep_time[t]
          /\ sleep_time'[t] \in Nat /\ sleep_time[t] \in Nat /\ d \in Nat
      BY <1>1, <1>4, <1>5, <3>1, SchedulerAssumption
    <3> QED BY <3>3, <3>4
  <2> QED BY <2>1, <2>2 DEF SleepersInOrder
<1> QED BY <1>1, <1>5, <1>8, <1>9, <1>10, <1>11, <1>12, <1>13
        DEF IInv, Linked, RunnableInReadyQueue, LinkedOnce,
            ReadyMatches, Runnable

\* thread_block of the running thread: the head of its ready queue moves to the
\* block queue and another thread runs.
LEMMA BlockSelfPreserves ==
  ASSUME NEW W, IInv(W), BlockSelf
  PROVE  IInv(W)'
<1> DEFINE st == Set(state, current, "BLOCK")
           rq == FrontDequeued(ready, current)
           s == Switched(st, rq)
<1>1. /\ current \in Thread /\ current # Idle
      /\ state[current] = "RUNNING" /\ state[Idle] # "NONE"
      /\ nesting[current] = 0
      /\ block' = InsertBackNode(block, current)
      /\ intr' = [intr EXCEPT ![current] = FALSE]
      /\ state' = s.state /\ ready' = s.ready
      /\ current' = s.current /\ panicked' = s.panicked
      /\ UNCHANGED <<ticks, sleep, sleep_time, in_critical_section, dozing,
                     nesting>>
  BY DEF BlockSelf, Service, MayWait, Commit, Set, FrontDequeued
<1>2. ~in_critical_section /\ "BLOCK" \in State \ Runnable
  BY <1>1 DEF IInv, FlagIsCurrents, TypeOK, State, Runnable
<1>3. Runs(current, state, ready) /\ ReadyMatches(state, ready)
  BY <1>1, ProcessorFacts
<1>4. ReadyMatches(st, rq) /\ \A u \in Thread : st[u] # "RUNNING"
  BY <1>2, <1>3, FrontDequeuedFacts
<1>5. \A t \in Thread : st[t] = IF t = current THEN "BLOCK" ELSE state[t]
  BY DEF Set, IInv, TypeOK
<1> HIDE DEF st, rq
<1>6. st[Idle] \in Runnable
  BY <1>1, <1>5, SchedulerAssumption DEF IInv, IdleIsRunnable, Runnable
<1>7. MaySwitch(st, rq)
  BY <1>1, <1>2, <1>4, <1>6, SchedulerAssumption DEF MaySwitch
<1>8. /\ ReadyMatches(state', ready')
      /\ Runs(current', state', ready')
      /\ panicked' = FALSE
      /\ \A t \in Thread : state'[t] \in Runnable <=> st[t] \in Runnable
      /\ \A t \in Thread : st[t] \notin Runnable => state'[t] = st[t]
  <2>1. SwitchesWell(st, rq)
    BY <1>7, SwitchedFacts
  <2> QED BY <1>1, <2>1 DEF SwitchesWell
<1>9. current \notin Nodes(block) /\ block \in Seq(Thread) /\ NoDuplicates(block)
  BY <1>1 DEF IInv, TypeOK, Linked, BlockedOutside, LinkedOnce
<1>10. /\ block' \in Seq(Thread) /\ NoDuplicates(block')
       /\ Nodes(block') = Nodes(block) \cup {current}
  BY <1>1, <1>9, InsertBackNodeFacts
<1>11. TypeOK'
  BY <1>1, <1>8, <1>10 DEF IInv, TypeOK, ReadyMatches, Runs
<1>12. SleepersInSleepQueue' /\ BlockedOutside(W)'
  <2>1. \A t \in Thread : /\ state'[t] = "BLOCK" <=> st[t] = "BLOCK"
                          /\ state'[t] = "SLEEP" <=> st[t] = "SLEEP"
    BY <1>8 DEF Runnable
  <2> QED BY <1>1, <1>5, <1>10, <2>1
          DEF IInv, Linked, SleepersInSleepQueue,
              BlockedOutside
<1>13. RunningIsCurrent'
  BY <1>8 DEF RunningIsCurrent, Runs
<1>14. IdleIsRunnable'
  BY <1>1, <1>6, <1>8, SchedulerAssumption DEF IInv, IdleIsRunnable, Runnable
<1>15. FlagIsCurrents' /\ SleepersInOrder' /\ NoPanic'
  BY <1>1, <1>2, <1>8 DEF IInv, FlagIsCurrents, SleepersInOrder, NoPanic
<1> QED BY <1>1, <1>8, <1>10, <1>11, <1>12, <1>13, <1>14, <1>15
        DEF IInv, Linked, RunnableInReadyQueue, LinkedOnce,
            ReadyMatches, Runnable

\* thread_block of a ready thread moves its node to the block queue.
LEMMA BlockOtherPreserves ==
  ASSUME NEW W, IInv(W), NEW t \in Thread, BlockOther(t)
  PROVE  IInv(W)'
<1> USE DEF BlockOther
<1>1. /\ state' = Set(state, t, "BLOCK") /\ ready' = Dequeued(ready, t)
      /\ state[t] \in Runnable /\ "BLOCK" \in State \ Runnable
      /\ t # Idle /\ current \in Thread
  BY DEF Set, Dequeued, Runnable, State, Service
<1>2. /\ ReadyMatches(state', ready')
      /\ \A c \in Thread : c # t /\ Runs(c, state, ready)
                          => Runs(c, state', ready')
  <2>1. ReadyMatches(state, ready)
    BY ProcessorFacts
  <2>2. /\ ReadyMatches(Set(state, t, "BLOCK"), Dequeued(ready, t))
        /\ \A c \in Thread :
             c # t /\ Runs(c, state, ready)
               => Runs(c, Set(state, t, "BLOCK"), Dequeued(ready, t))
    BY ONLY <1>1, <2>1, t \in Thread, DequeuedFacts
  <2> QED BY ONLY <1>1, <2>2
<1>3. \A u \in Thread : state'[u] = IF u = t THEN "BLOCK" ELSE state[u]
  BY DEF IInv, TypeOK
<1>4. /\ block' \in Seq(Thread) /\ NoDuplicates(block')
      /\ Nodes(block') = Nodes(block) \cup {t}
  <2>1. t \notin Nodes(block) /\ block \in Seq(Thread) /\ NoDuplicates(block)
    BY DEF IInv, TypeOK, Linked, BlockedOutside, LinkedOnce
  <2>2. block' = InsertBackNode(block, t)
    OBVIOUS
  <2> QED BY ONLY <2>1, <2>2, t \in Thread, InsertBackNodeFacts
<1>5. TypeOK'
  BY <1>1, <1>2, <1>4 DEF IInv, TypeOK, ReadyMatches
<1>6. SleepersInSleepQueue' /\ BlockedOutside(W)'
  <2>1. \A u \in Thread : /\ state[u] = "SLEEP" <=> u \in Nodes(sleep)
                          /\ state[u] = "BLOCK" <=> u \in Nodes(block) \cup W
                          /\ u \notin Nodes(block) \cap W
    BY DEF IInv, Linked, SleepersInSleepQueue, BlockedOutside
  <2>2. state[t] = "READY" /\ sleep' = sleep
    OBVIOUS
  <2>3. SleepersInSleepQueue'
    BY ONLY <1>3, <2>1, <2>2 DEF SleepersInSleepQueue
  <2>4. BlockedOutside(W)'
    <3>1. \A u \in Thread :
            state'[u] = "BLOCK" <=> u \in Nodes(block') \cup W
      BY ONLY <1>3, <1>4, <2>1
    <3>2. Nodes(block) \cap W = {} /\ t \notin W
      BY <2>1, <2>2 DEF IInv, Linked, BlockedOutside
    <3> QED BY ONLY <1>4, <3>1, <3>2 DEF BlockedOutside
  <2> QED BY <2>3, <2>4
<1>7. current \in Thread => \/ Runs(current, state', ready')
                            \/ state'[current] = "SLEEP" /\ current \in dozing
  BY <1>2, <1>3, ProcessorFacts DEF Runs
<1>8. RunningIsCurrent'
  BY <1>1, <1>3, <1>7, ProcessorFacts DEF RunningIsCurrent, Runs
<1>9. IdleIsRunnable' /\ FlagIsCurrents' /\ SleepersInOrder' /\ NoPanic'
  BY <1>1, <1>3, SchedulerAssumption
     DEF IInv, IdleIsRunnable, FlagIsCurrents, SleepersInOrder, NoPanic
<1> QED BY <1>2, <1>4, <1>5, <1>6, <1>8, <1>9
        DEF IInv, Linked, RunnableInReadyQueue, LinkedOnce,
            ReadyMatches, Runnable

\* Queueing a sleeper of the common duration keeps the order of waking.
LEMMA SleepQueueFacts ==
  ASSUME NEW W, IInv(W), UniformSleep, NEW t \in Thread, NEW d \in SleepTime,
         state[t] # "SLEEP"
  PROVE  LET l    == InsertBackNode(sleep, t)
             left == Set(sleep_time, t, d)
         IN  /\ l \in Seq(Thread) /\ NoDuplicates(l)
             /\ Nodes(l) = Nodes(sleep) \cup {t}
             /\ left \in [Thread -> Nat]
             /\ WakesInOrder(l, left)
             /\ \A u \in Nodes(l), e \in SleepTime : left[u] <= e
<1> DEFINE l == InsertBackNode(sleep, t)
           left == Set(sleep_time, t, d)
<1>1. t \notin Nodes(sleep) /\ sleep \in Seq(Thread) /\ NoDuplicates(sleep)
  BY DEF IInv, TypeOK, Linked, SleepersInSleepQueue, LinkedOnce
<1>2. /\ l \in Seq(Thread) /\ NoDuplicates(l)
      /\ Nodes(l) = Nodes(sleep) \cup {t}
  BY <1>1, InsertBackNodeFacts
<1>3. d \in Nat /\ \A e \in SleepTime : e = d
  BY SchedulerAssumption DEF UniformSleep
<1>4. /\ left \in [Thread -> Nat] /\ left[t] = d
      /\ \A u \in Thread : u # t => left[u] = sleep_time[u]
  BY <1>3 DEF Set, IInv, TypeOK
<1>5. /\ Len(l) = Len(sleep) + 1 /\ l[Len(l)] = t
      /\ \A i \in 1..Len(sleep) : l[i] = sleep[i]
  BY <1>1 DEF InsertBackNode
<1> HIDE DEF l, left
<1>6. \A u \in Nodes(l) : left[u] <= d
  <2>1. \A u \in Nodes(sleep) : u # t /\ u \in Thread /\ sleep_time[u] <= d
    BY <1>1 DEF IInv, SleepersInOrder, Nodes
  <2>2. left[t] <= d
    BY <1>3, <1>4
  <2> QED BY <1>2, <1>4, <2>1, <2>2
<1>7. WakesInOrder(l, left)
  <2> SUFFICES ASSUME NEW i \in 1..Len(l), NEW j \in 1..Len(l), i <= j
               PROVE  left[l[i]] <= left[l[j]]
    BY DEF WakesInOrder
  <2>1. CASE j = Len(l)
    <3>1. l[i] \in Nodes(l)
      BY DEF Nodes
    <3> QED BY <1>4, <1>5, <1>6, <2>1, <3>1
  <2>2. CASE j # Len(l)
    <3>1. i \in 1..Len(sleep) /\ j \in 1..Len(sleep) /\ Len(sleep) \in Nat
      BY <1>1, <1>5, <2>2
    <3>2. sleep_time[sleep[i]] <= sleep_time[sleep[j]]
      BY <3>1 DEF IInv, SleepersInOrder, WakesInOrder
    <3>3. \A k \in 1..Len(sleep) : sleep[k] # t /\ sleep[k] \in Thread
      BY <1>1 DEF Nodes
    <3> QED BY <1>4, <1>5, <3>1, <3>2, <3>3
  <2> QED BY <2>1, <2>2
<1>8. \A u \in Nodes(l), e \in SleepTime : left[u] <= e
  BY <1>3, <1>6
<1> QED BY <1>2, <1>4, <1>7, <1>8 DEF l, left

\* thread_sleep of the running thread, up to where it unmasks interrupts: the
\* thread is current and in the sleep queue.
LEMMA SleepSelfPreserves ==
  ASSUME NEW W, IInv(W), UniformSleep, NEW d \in SleepTime, SleepSelf(d)
  PROVE  IInv(W)'
<1> USE DEF SleepSelf
<1>1. /\ current \in Thread /\ current # Idle
      /\ state[current] = "RUNNING" /\ state[Idle] # "NONE"
      /\ nesting[current] = 0
      /\ state' = Set(state, current, "SLEEP")
      /\ ready' = FrontDequeued(ready, current)
      /\ sleep' = InsertBackNode(sleep, current)
      /\ sleep_time' = Set(sleep_time, current, d)
      /\ "SLEEP" \in State \ Runnable
  BY DEF Service, MayWait, Set, FrontDequeued, State, Runnable
<1>2. ~in_critical_section
  BY <1>1 DEF IInv, FlagIsCurrents, TypeOK
<1>3. ReadyMatches(state', ready') /\ \A u \in Thread : state'[u] # "RUNNING"
  <2>1. Runs(current, state, ready) /\ ReadyMatches(state, ready)
    BY <1>1, ProcessorFacts
  <2>2. /\ ReadyMatches(Set(state, current, "SLEEP"),
                        FrontDequeued(ready, current))
        /\ \A u \in Thread : Set(state, current, "SLEEP")[u] # "RUNNING"
    BY ONLY <1>1, <2>1, FrontDequeuedFacts
  <2> QED BY ONLY <1>1, <2>2
<1>4. \A t \in Thread : state'[t] = IF t = current THEN "SLEEP" ELSE state[t]
  BY DEF IInv, TypeOK
<1>5. /\ sleep' \in Seq(Thread) /\ NoDuplicates(sleep')
      /\ Nodes(sleep') = Nodes(sleep) \cup {current}
      /\ sleep_time' \in [Thread -> Nat]
      /\ WakesInOrder(sleep', sleep_time')
      /\ \A u \in Nodes(sleep'), e \in SleepTime : sleep_time'[u] <= e
  <2> DEFINE l    == InsertBackNode(sleep, current)
             left == Set(sleep_time, current, d)
  <2>1. /\ l \in Seq(Thread) /\ NoDuplicates(l)
        /\ Nodes(l) = Nodes(sleep) \cup {current}
        /\ left \in [Thread -> Nat]
        /\ WakesInOrder(l, left)
        /\ \A u \in Nodes(l), e \in SleepTime : left[u] <= e
    BY ONLY <1>1, IInv(W), UniformSleep, d \in SleepTime, SleepQueueFacts
  <2> QED BY ONLY <1>1, <2>1
<1>6. TypeOK'
  BY <1>1, <1>3, <1>5 DEF IInv, TypeOK, ReadyMatches
<1>7. SleepersInSleepQueue' /\ BlockedOutside(W)'
  BY <1>1, <1>4, <1>5 DEF IInv, Linked, SleepersInSleepQueue,
                          BlockedOutside
<1>8. RunningIsCurrent'
  BY <1>1, <1>3, <1>4 DEF RunningIsCurrent
<1>9. IdleIsRunnable'
  BY <1>1, <1>4, SchedulerAssumption DEF IInv, IdleIsRunnable
<1>10. FlagIsCurrents'
  BY <1>1, <1>2 DEF IInv, FlagIsCurrents, TypeOK
<1>11. SleepersInOrder' /\ NoPanic'
  BY <1>5 DEF IInv, SleepersInOrder, NoPanic
<1> QED BY <1>3, <1>5, <1>6, <1>7, <1>8, <1>9, <1>10, <1>11
        DEF IInv, Linked, RunnableInReadyQueue, LinkedOnce,
            ReadyMatches, Runnable

\* thread_sleep of a ready thread moves its node to the sleep queue.
LEMMA SleepOtherPreserves ==
  ASSUME NEW W, IInv(W), UniformSleep, NEW t \in Thread, NEW d \in SleepTime,
         SleepOther(t, d)
  PROVE  IInv(W)'
<1> USE DEF SleepOther
<1>1. /\ state' = Set(state, t, "SLEEP") /\ ready' = Dequeued(ready, t)
      /\ state[t] \in Runnable /\ "SLEEP" \in State \ Runnable
      /\ state[t] # "SLEEP" /\ t # Idle /\ current \in Thread
      /\ sleep' = InsertBackNode(sleep, t)
      /\ sleep_time' = Set(sleep_time, t, d)
  BY DEF Set, Dequeued, Runnable, State, Service
<1>2. /\ ReadyMatches(state', ready')
      /\ \A c \in Thread : c # t /\ Runs(c, state, ready)
                          => Runs(c, state', ready')
  <2>1. ReadyMatches(state, ready)
    BY ProcessorFacts
  <2>2. /\ ReadyMatches(Set(state, t, "SLEEP"), Dequeued(ready, t))
        /\ \A c \in Thread :
             c # t /\ Runs(c, state, ready)
               => Runs(c, Set(state, t, "SLEEP"), Dequeued(ready, t))
    BY ONLY <1>1, <2>1, t \in Thread, DequeuedFacts
  <2> QED BY ONLY <1>1, <2>2
<1>3. \A u \in Thread : state'[u] = IF u = t THEN "SLEEP" ELSE state[u]
  BY DEF IInv, TypeOK
<1>4. /\ sleep' \in Seq(Thread) /\ NoDuplicates(sleep')
      /\ Nodes(sleep') = Nodes(sleep) \cup {t}
      /\ sleep_time' \in [Thread -> Nat]
      /\ WakesInOrder(sleep', sleep_time')
      /\ \A u \in Nodes(sleep'), e \in SleepTime : sleep_time'[u] <= e
  <2> DEFINE l    == InsertBackNode(sleep, t)
             left == Set(sleep_time, t, d)
  <2>1. /\ l \in Seq(Thread) /\ NoDuplicates(l)
        /\ Nodes(l) = Nodes(sleep) \cup {t}
        /\ left \in [Thread -> Nat]
        /\ WakesInOrder(l, left)
        /\ \A u \in Nodes(l), e \in SleepTime : left[u] <= e
    BY ONLY <1>1, IInv(W), UniformSleep, t \in Thread, d \in SleepTime,
            SleepQueueFacts
  <2> QED BY ONLY <1>1, <2>1
<1>5. TypeOK'
  BY <1>1, <1>2, <1>4 DEF IInv, TypeOK, ReadyMatches
<1>6. SleepersInSleepQueue' /\ BlockedOutside(W)'
  <2>1. \A u \in Thread : /\ state[u] = "SLEEP" <=> u \in Nodes(sleep)
                          /\ state[u] = "BLOCK" <=> u \in Nodes(block) \cup W
                          /\ u \notin Nodes(block) \cap W
    BY DEF IInv, Linked, SleepersInSleepQueue, BlockedOutside
  <2>2. state[t] = "READY" /\ block' = block
    OBVIOUS
  <2>3. SleepersInSleepQueue'
    BY ONLY <1>3, <1>4, <2>1 DEF SleepersInSleepQueue
  <2>4. BlockedOutside(W)'
    <3>1. \A u \in Thread :
            state'[u] = "BLOCK" <=> u \in Nodes(block') \cup W
      BY ONLY <1>3, <2>1, <2>2
    <3>2. Nodes(block') \cap W = {}
      BY <2>2 DEF IInv, Linked, BlockedOutside
    <3> QED BY ONLY <3>1, <3>2 DEF BlockedOutside
  <2> QED BY <2>3, <2>4
<1>7. \/ Runs(current, state', ready')
      \/ state'[current] = "SLEEP" /\ current \in dozing
  BY <1>1, <1>2, <1>3, ProcessorFacts DEF Runs
<1>8. RunningIsCurrent'
  BY <1>1, <1>3, <1>7, ProcessorFacts DEF RunningIsCurrent, Runs
<1>9. IdleIsRunnable' /\ FlagIsCurrents' /\ SleepersInOrder' /\ NoPanic'
  BY <1>1, <1>3, <1>4, SchedulerAssumption
     DEF IInv, IdleIsRunnable, FlagIsCurrents, SleepersInOrder, NoPanic
<1> QED BY <1>2, <1>4, <1>5, <1>6, <1>8, <1>9
        DEF IInv, Linked, RunnableInReadyQueue, LinkedOnce,
            ReadyMatches, Runnable

\* thread_notify, by a thread or by an interrupt handler.
LEMMA WakeBlockedPreserves ==
  ASSUME NEW W, IInv(W), NEW t \in Thread \ W, state[t] = "BLOCK", WakeBlocked(t),
         intr' \in [Thread -> BOOLEAN],
         UNCHANGED <<ticks, sleep, sleep_time, current, in_critical_section,
                     panicked, dozing, nesting>>
  PROVE  IInv(W)'
<1> USE DEF WakeBlocked
<1>1. state' = Set(state, t, "READY") /\ ready' = Enqueued(ready, t)
  BY DEF Set, Enqueued
<1>2. state[t] \notin Runnable
  BY DEF Runnable
<1>3. /\ ReadyMatches(state', ready')
      /\ \A c \in Thread : Runs(c, state, ready) => Runs(c, state', ready')
  <2>1. ReadyMatches(state, ready)
    BY ProcessorFacts
  <2>2. /\ ReadyMatches(Set(state, t, "READY"), Enqueued(ready, t))
        /\ \A c \in Thread :
             Runs(c, state, ready)
               => Runs(c, Set(state, t, "READY"), Enqueued(ready, t))
    BY ONLY <1>2, <2>1, t \in Thread, EnqueuedFacts
  <2> QED BY ONLY <1>1, <2>2
<1>4. \A u \in Thread : state'[u] = IF u = t THEN "READY" ELSE state[u]
  BY DEF IInv, TypeOK
<1>5. /\ block' \in Seq(Thread) /\ NoDuplicates(block')
      /\ Nodes(block') = Nodes(block) \ {t}
  <2>1. t \in Nodes(block) /\ block \in Seq(Thread) /\ NoDuplicates(block)
    BY DEF IInv, TypeOK, Linked, BlockedOutside, LinkedOnce
  <2> QED BY <2>1, RemoveNodeFacts
<1>6. TypeOK'
  BY <1>3, <1>5 DEF IInv, TypeOK, ReadyMatches
<1>7. SleepersInSleepQueue' /\ BlockedOutside(W)'
  BY <1>4, <1>5 DEF IInv, Linked, SleepersInSleepQueue,
                    BlockedOutside
<1>8. current \in Thread => \/ Runs(current, state', ready')
                            \/ state'[current] = "SLEEP" /\ current \in dozing
  BY <1>3, <1>4, ProcessorFacts
<1>9. RunningIsCurrent'
  BY <1>4, <1>6, <1>8, ProcessorFacts
     DEF IInv, TypeOK, RunningIsCurrent, Runs
<1>10. IdleIsRunnable' /\ FlagIsCurrents' /\ SleepersInOrder' /\ NoPanic'
  BY <1>4, SchedulerAssumption
     DEF IInv, IdleIsRunnable, FlagIsCurrents, SleepersInOrder, NoPanic
<1> QED BY <1>3, <1>5, <1>6, <1>7, <1>9, <1>10
        DEF IInv, Linked, RunnableInReadyQueue, LinkedOnce,
            ReadyMatches, Runnable

\* thread_notify of a thread that is blocked, and of one that is not.
LEMMA NotifyPreserves ==
  ASSUME NEW W, IInv(W), NEW t \in Thread \ W, Notify(t) \/ NotifyFromInterrupt(t)
  PROVE  IInv(W)'
<1>1. /\ intr' \in [Thread -> BOOLEAN]
      /\ UNCHANGED <<ticks, sleep, sleep_time, current, in_critical_section,
                     panicked, dozing, nesting>>
  BY DEF Notify, NotifyFromInterrupt, IInv, TypeOK
<1>2. CASE state[t] = "BLOCK"
  <2>1. WakeBlocked(t)
    BY <1>2 DEF Notify, NotifyFromInterrupt
  <2> QED BY <1>1, <1>2, <2>1, WakeBlockedPreserves
<1>3. CASE state[t] # "BLOCK"
  <2>1. UNCHANGED <<state, ready, block>>
    BY <1>3 DEF Notify, NotifyFromInterrupt
  <2> QED
    BY <1>1, <2>1
    DEF IInv, TypeOK, Linked, SleepersInSleepQueue,
        BlockedOutside, RunnableInReadyQueue, LinkedOnce,
        RunningIsCurrent, NoPanic, IdleIsRunnable, FlagIsCurrents,
        SleepersInOrder
<1> QED BY <1>2, <1>3

\* scheduler_start makes the head of the first ready queue the current thread.
LEMMA SchedulerStartPreserves ==
  ASSUME NEW W, IInv(W), SchedulerStart
  PROVE  IInv(W)'
<1> DEFINE next == FirstReady(ready)
<1> USE DEF SchedulerStart
<1>1. ReadyMatches(state, ready)
  BY ProcessorFacts
<1>2. PICK p \in Priority : ready[p] # <<>> /\ next = Head(ready[p])
                           /\ next \in Nodes(ready[p])
  BY <1>1, FirstReadyFacts DEF ReadyMatches
<1>3. current' = next /\ state' = [state EXCEPT ![next] = "RUNNING"]
  OBVIOUS
<1> HIDE DEF next
<1>4. next \in Thread /\ Prio[next] = p
  BY <1>1, <1>2 DEF ReadyMatches, Nodes
<1>5. \A t \in Thread : state[t] # "RUNNING"
  BY ProcessorFacts, SchedulerAssumption
<1>6. state[next] = "READY"
  BY <1>1, <1>2, <1>4, <1>5 DEF ReadyMatches, Runnable
<1>7. \A t \in Thread : state'[t] = IF t = next THEN "RUNNING" ELSE state[t]
  BY <1>3 DEF IInv, TypeOK
<1>8. TypeOK'
  BY <1>3, <1>4 DEF IInv, TypeOK, State
<1>9. Linked(W)'
  BY <1>6, <1>7 DEF IInv, Linked, SleepersInSleepQueue,
                    BlockedOutside, RunnableInReadyQueue, LinkedOnce
<1>10. RunningIsCurrent'
  BY <1>2, <1>3, <1>4, <1>5, <1>7 DEF RunningIsCurrent
<1>11. IdleIsRunnable' /\ FlagIsCurrents' /\ SleepersInOrder' /\ NoPanic'
  BY <1>6, <1>7, SchedulerAssumption
     DEF IInv, TypeOK, IdleIsRunnable, FlagIsCurrents, SleepersInOrder,
         NoPanic
<1> QED BY <1>8, <1>9, <1>10, <1>11 DEF IInv

\* Steps that leave the threads and the queues alone.
LEMMA CritlockPreserves ==
  ASSUME NEW W, IInv(W), CritlockAcquire \/ CritlockRelease
  PROVE  IInv(W)'
<1>1. /\ current \in Thread /\ current \notin dozing
      /\ in_critical_section' \in BOOLEAN
      /\ nesting' \in [Thread -> 0..MaxNesting]
      /\ in_critical_section' => nesting'[current] > 0
      /\ \A t \in Thread : t # current => nesting'[t] = nesting[t]
      /\ UNCHANGED <<ticks, state, ready, block, sleep, sleep_time, current,
                     panicked, intr, dozing>>
  <2>1. nesting \in [Thread -> 0..MaxNesting] /\ MaxNesting \in Nat
    BY SchedulerAssumption DEF IInv, TypeOK
  <2>2. CASE CritlockAcquire
    <3>1. nesting[current] + 1 \in 1..MaxNesting /\ current \in Thread
      BY <2>1, <2>2 DEF CritlockAcquire, Service
    <3> QED BY <2>1, <2>2, <3>1 DEF CritlockAcquire, Service
  <2>3. CASE CritlockRelease
    <3>1. nesting[current] - 1 \in 0..MaxNesting /\ current \in Thread
      BY <2>1, <2>3 DEF CritlockRelease, Service
    <3>2. ~in_critical_section' /\ in_critical_section' \in BOOLEAN
      BY <2>3 DEF CritlockRelease
    <3> QED BY <2>1, <2>3, <3>1, <3>2 DEF CritlockRelease, Service
  <2> QED BY <2>2, <2>3
<1>2. FlagIsCurrents'
  BY <1>1 DEF IInv, FlagIsCurrents
<1> QED BY <1>1, <1>2
        DEF IInv, TypeOK, Linked, SleepersInSleepQueue,
            BlockedOutside, RunnableInReadyQueue, LinkedOnce,
            RunningIsCurrent, NoPanic, IdleIsRunnable, SleepersInOrder

\* Steps that change the interrupt flags, the tick counter or nothing.
LEMMA FrameFacts ==
  ASSUME NEW W, IInv(W),
         ticks' \in 0 .. TicksRange - 1, intr' \in [Thread -> BOOLEAN],
         UNCHANGED <<state, ready, block, sleep, sleep_time, current,
                     in_critical_section, panicked, dozing, nesting>>
  PROVE  IInv(W)'
  BY DEF IInv, TypeOK, Linked, SleepersInSleepQueue, BlockedOutside,
         RunnableInReadyQueue, LinkedOnce, RunningIsCurrent, NoPanic,
         IdleIsRunnable, FlagIsCurrents, SleepersInOrder

LEMMA FramePreserves ==
  ASSUME NEW W, IInv(W),
         \/ TickWithoutTasks \/ \E on \in BOOLEAN : MaskInterrupts(on)
         \/ UNCHANGED vars
  PROVE  IInv(W)'
<1>1. /\ ticks' \in 0 .. TicksRange - 1 /\ intr' \in [Thread -> BOOLEAN]
      /\ UNCHANGED <<state, ready, block, sleep, sleep_time, current,
                     in_critical_section, panicked, dozing, nesting>>
  <2>1. TypeOK
    BY DEF IInv
  <2>2. CASE TickWithoutTasks
    BY <2>1, <2>2, SchedulerAssumption DEF TickWithoutTasks, TypeOK
  <2>3. CASE \E on \in BOOLEAN : MaskInterrupts(on)
    BY <2>1, <2>3 DEF MaskInterrupts, TypeOK
  <2>4. CASE UNCHANGED vars
    BY <2>1, <2>4 DEF vars, TypeOK
  <2> QED BY <2>2, <2>3, <2>4
<1> QED BY <1>1, FrameFacts

-----------------------------------------------------------------------------
(* What a step may do, from the invariant.                                 *)

\* Threads nest no critlock_acquire: the first release lowers the one flag.
SectionsDoNotNest == MaxNesting <= 1

\* Then a thread that is inside a section is the current one and its flag is up.
SectionIsCurrents ==
  \A t \in Thread : nesting[t] > 0 => t = current /\ in_critical_section

\* A step that sets nobody running is in order.
LEMMA NobodyStarts ==
  ASSUME current' = current,
         \A t \in Thread : state'[t] = "RUNNING" => state[t] = "RUNNING"
  PROVE  PriorityRespected /\ FirstComeFirstServed
<1>1. PriorityRespected
  BY DEF PriorityRespected
<1>2. \A u \in Thread : state[u] = "READY" => state'[u] # "RUNNING"
  OBVIOUS
<1> QED BY <1>1, <1>2 DEF FirstComeFirstServed

\* A step whose states come out of a switch, the sleepers that wake left aside.
LEMMA SwitchInOrder ==
  ASSUME NEW st, NEW rq, MaySwitch(st, rq), Leads(current, st, rq),
         current' = Switched(st, rq).current,
         \A t \in Thread :
           /\ state[t] = "READY" => st[t] = "READY"
           /\ state'[t] = "READY" /\ state[t] # "SLEEP"
                => Switched(st, rq).state[t] = "READY"
           /\ state'[t] = "RUNNING" => Switched(st, rq).state[t] = "RUNNING",
         \A t, u \in Thread :
           /\ state[t] = "READY" /\ state[u] = "READY"
           /\ Precedes(ready, t, u)
           => Precedes(rq, t, u)
  PROVE  PriorityRespected /\ FirstComeFirstServed
<1> DEFINE s == Switched(st, rq)
<1>1. /\ s.current # current =>
           \A t \in Thread : s.state[t] = "READY" => Prio[s.current] <= Prio[t]
      /\ \A t, u \in Thread :
           st[t] = "READY" /\ st[u] = "READY" /\ Precedes(rq, t, u)
             => s.state[u] # "RUNNING"
  BY SwitchedInOrder
<1>2. PriorityRespected
  <2> SUFFICES ASSUME current' # current, current' \in Thread,
                      NEW t \in Thread, state'[t] = "READY",
                      Prio[t] < Prio[current'], state[t] # "SLEEP"
               PROVE  FALSE
    BY DEF PriorityRespected
  <2>1. s.current = current' /\ s.state[t] = "READY"
    OBVIOUS
  <2> HIDE DEF s
  <2>2. Prio[current'] <= Prio[t]
    BY <1>1, <2>1
  <2>3. Prio[t] \in Nat /\ Prio[current'] \in Nat
    BY SchedulerAssumption DEF Priority
  <2> QED BY <2>2, <2>3
<1>3. FirstComeFirstServed
  <2> SUFFICES ASSUME NEW t \in Thread, NEW u \in Thread,
                      state[t] = "READY", state[u] = "READY", Before(t, u),
                      state'[u] = "RUNNING"
               PROVE  FALSE
    BY DEF FirstComeFirstServed
  <2>1. Precedes(ready, t, u)
    BY DEF Before, Precedes
  <2>2. /\ st[t] = "READY" /\ st[u] = "READY" /\ s.state[u] = "RUNNING"
        /\ Precedes(rq, t, u)
    BY <2>1
  <2> HIDE DEF s
  <2> QED BY <1>1, <2>2
<1> QED BY <1>2, <1>3

\* Before it starts, the scheduler takes the first thread of the first queue.
LEMMA StartInOrder ==
  ASSUME NEW W, IInv(W), SchedulerStart
  PROVE  PriorityRespected /\ FirstComeFirstServed
<1> DEFINE next == FirstReady(ready)
<1> USE DEF SchedulerStart
<1>1. ReadyMatches(state, ready)
  BY ProcessorFacts
<1>2. PICK p \in Priority : /\ ready[p] # <<>> /\ next = Head(ready[p])
                            /\ next \in Nodes(ready[p])
                            /\ \A q \in NonEmpty(ready) : p <= q
  BY <1>1, FirstReadyFacts DEF ReadyMatches
<1>3. current' = next /\ state' = [state EXCEPT ![next] = "RUNNING"]
  OBVIOUS
<1> HIDE DEF next
<1>4. next \in Thread /\ Prio[next] = p
  BY <1>1, <1>2 DEF ReadyMatches, Nodes
<1>5. \A t \in Thread : state'[t] = IF t = next THEN "RUNNING" ELSE state[t]
  BY <1>3 DEF IInv, TypeOK
<1>6. PriorityRespected
  <2> SUFFICES ASSUME NEW t \in Thread, state'[t] = "READY",
                      Prio[t] < Prio[current']
               PROVE  FALSE
    BY DEF PriorityRespected
  <2>1. t \in Nodes(ready[Prio[t]]) /\ Prio[t] \in Priority
    BY <1>1, <1>5, SchedulerAssumption DEF ReadyMatches, Runnable
  <2>2. Prio[t] \in NonEmpty(ready)
    BY <2>1 DEF NonEmpty, Nodes
  <2>3. Prio[current'] <= Prio[t]
    BY <1>2, <1>3, <1>4, <2>2
  <2>4. Prio[t] \in Nat /\ Prio[current'] \in Nat
    BY <1>3, <1>4, SchedulerAssumption DEF Priority
  <2> QED BY <2>3, <2>4
<1>7. FirstComeFirstServed
  <2> SUFFICES ASSUME NEW t \in Thread, NEW u \in Thread, Before(t, u),
                      state[u] = "READY", state'[u] = "RUNNING"
               PROVE  FALSE
    BY DEF FirstComeFirstServed
  <2>1. u = next
    BY <1>5
  <2>2. Precedes(ready, t, u)
    BY DEF Before, Precedes
  <2> QED BY <1>1, <1>2, <1>4, <2>1, <2>2, BehindIsNotFirst
<1> QED BY <1>6, <1>7

\* thread_block of the running thread closes the line behind it.
LEMMA BlockSelfInOrder ==
  ASSUME NEW W, IInv(W), BlockSelf
  PROVE  PriorityRespected /\ FirstComeFirstServed
<1> DEFINE st == Set(state, current, "BLOCK")
           rq == FrontDequeued(ready, current)
           s == Switched(st, rq)
<1>1. /\ current \in Thread /\ current # Idle
      /\ state[current] = "RUNNING" /\ state[Idle] # "NONE"
      /\ nesting[current] = 0
      /\ state' = s.state /\ current' = s.current
  BY DEF BlockSelf, Service, MayWait, Commit, Set, FrontDequeued
<1>2. ~in_critical_section /\ "BLOCK" \in State \ Runnable
  BY <1>1 DEF IInv, FlagIsCurrents, TypeOK, State, Runnable
<1>3. Runs(current, state, ready) /\ ReadyMatches(state, ready)
  BY <1>1, ProcessorFacts
<1>4. ReadyMatches(st, rq) /\ \A u \in Thread : st[u] # "RUNNING"
  BY <1>2, <1>3, FrontDequeuedFacts
<1>5. \A t \in Thread : st[t] = IF t = current THEN "BLOCK" ELSE state[t]
  BY DEF Set, IInv, TypeOK
<1>6. \A t, u \in Thread : state[t] = "READY" /\ Precedes(ready, t, u)
                             => Precedes(rq, t, u)
  BY <1>1, <1>3, PrecedenceKept DEF Runs
<1> HIDE DEF st, rq
<1>7. MaySwitch(st, rq)
  <2>1. st[Idle] \in Runnable
    BY <1>1, <1>5, SchedulerAssumption DEF IInv, IdleIsRunnable, Runnable
  <2> QED BY <1>1, <1>2, <1>4, <2>1, SchedulerAssumption DEF MaySwitch
<1>8. Leads(current, st, rq)
  BY <1>1, <1>4 DEF Leads
<1>9. \A t \in Thread : /\ state[t] = "READY" => st[t] = "READY"
                        /\ state'[t] = s.state[t]
  BY <1>1, <1>5
<1> QED BY <1>1, <1>6, <1>7, <1>8, <1>9, SwitchInOrder

\* The timer chooses before it wakes the sleepers.
LEMMA TickInOrder ==
  ASSUME NEW W, IInv(W), Tick
  PROVE  PriorityRespected /\ FirstComeFirstServed
<1> DEFINE s == Switched(state, ready)
           w == Woken(s.state, s.ready)
<1>1. current \in Thread /\ state' = w.state /\ current' = s.current
  BY DEF IInv, TypeOK, Tick
<1>2. MaySwitch(state, ready) /\ Leads(current, state, ready)
  BY <1>1, ProcessorFacts DEF MaySwitch, Leads, Runs
<1>3. /\ ReadyMatches(s.state, s.ready)
      /\ \A t \in Thread : s.state[t] \in Runnable <=> state[t] \in Runnable
      /\ \A t \in Thread : state[t] \notin Runnable => s.state[t] = state[t]
  BY <1>1, SwitchFacts DEF SwitchesWell
<1> HIDE DEF s
<1>4. \A t \in Thread : s.state[t] = "SLEEP" <=> t \in Nodes(sleep)
  <2>1. \A t \in Thread : state[t] = "SLEEP" <=> t \in Nodes(sleep)
    BY DEF IInv, Linked, SleepersInSleepQueue
  <2> QED BY <1>3, <2>1 DEF Runnable
<1>5. /\ sleep \in Seq(Thread) /\ NoDuplicates(sleep)
      /\ sleep_time \in [Thread -> Nat] /\ WakesInOrder(sleep, sleep_time)
  BY DEF IInv, TypeOK, Linked, LinkedOnce, SleepersInOrder
<1>6. \A t \in Thread : /\ w.state[t] \in {s.state[t], "READY"}
                        /\ s.state[t] # "SLEEP" => w.state[t] = s.state[t]
  BY <1>3, <1>4, <1>5, WokenFacts
<1> HIDE DEF w
<1>7. \A t \in Thread :
        /\ state'[t] = "READY" /\ state[t] # "SLEEP" => s.state[t] = "READY"
        /\ state'[t] = "RUNNING" => s.state[t] = "RUNNING"
  BY <1>1, <1>3, <1>6 DEF Runnable
<1> QED BY <1>1, <1>2, <1>7, SwitchInOrder DEF s

\* Every step of the scheduler serves the threads in order.
LEMMA StepsInOrder ==
  ASSUME NEW W, IInv(W), [Next]_vars
  PROVE  PriorityRespected /\ FirstComeFirstServed
<1>1. CASE Tick
  BY <1>1, TickInOrder
<1>2. CASE SchedulerStart
  BY <1>2, StartInOrder
<1>3. CASE BlockSelf
  BY <1>3, BlockSelfInOrder
<1>4. CASE Yield \/ SleepSwitch
  <2>1. /\ current \in Thread
        /\ state' = Switched(state, ready).state
        /\ current' = Switched(state, ready).current
    BY <1>4 DEF IInv, TypeOK, Yield, SleepSwitch, Service, Commit
  <2>2. MaySwitch(state, ready) /\ Leads(current, state, ready)
    BY <2>1, ProcessorFacts DEF MaySwitch, Leads, Runs
  <2> QED BY <2>1, <2>2, SwitchInOrder
<1>5. CASE \/ TickWithoutTasks \/ CritlockAcquire \/ CritlockRelease
           \/ (\E on \in BOOLEAN : MaskInterrupts(on)) \/ UNCHANGED vars
  <2>1. current' = current /\ state' = state
    BY <1>5 DEF TickWithoutTasks, CritlockAcquire, CritlockRelease,
                MaskInterrupts, vars
  <2> QED BY <2>1, NobodyStarts
<1>6. CASE \/ \E d \in SleepTime : SleepSelf(d)
           \/ \E t \in Thread :
                \/ Insert(t) \/ BlockOther(t) \/ Notify(t)
                \/ NotifyFromInterrupt(t)
                \/ \E d \in SleepTime : SleepOther(t, d)
  <2>1. /\ current' = current
        /\ \E t, v : /\ v # "RUNNING"
                     /\ \/ state' = [state EXCEPT ![t] = v]
                        \/ state' = state
    BY <1>6 DEF SleepSelf, Insert, BlockOther, Notify, NotifyFromInterrupt,
                WakeBlocked, SleepOther
  <2>2. \A t \in Thread : state'[t] = "RUNNING" => state[t] = "RUNNING"
    BY <2>1 DEF IInv, TypeOK
  <2> QED BY <2>1, <2>2, NobodyStarts
<1> QED BY <1>1, <1>2, <1>3, <1>4, <1>5, <1>6 DEF Next

\* critlock_acquire and critlock_release keep the flag and the section together.
LEMMA SectionStep ==
  ASSUME NEW W, IInv(W), SectionsDoNotNest, SectionIsCurrents, [Next]_vars
  PROVE  SectionIsCurrents' /\ SectionKeepsProcessor
<1> USE DEF SectionIsCurrents, SectionKeepsProcessor
<1>1. /\ nesting \in [Thread -> 0..MaxNesting] /\ MaxNesting \in Nat
      /\ NoThread \notin Thread /\ current \in Thread \cup {NoThread}
  BY SchedulerAssumption DEF IInv, TypeOK
<1>2. CASE Tick \/ Yield \/ SleepSwitch
  <2>1. /\ current \in Thread /\ current' = Switched(state, ready).current
        /\ UNCHANGED <<in_critical_section, nesting>>
    BY <1>2 DEF IInv, TypeOK, Tick, Yield, SleepSwitch, Service, Commit
  <2>2. in_critical_section => current' = current
    BY <2>1, SwitchFacts DEF SwitchesWell
  <2> QED BY <2>1, <2>2
<1>3. CASE BlockSelf
  <2>1. nesting[current] = 0 /\ current \in Thread /\ nesting' = nesting
    BY <1>3 DEF BlockSelf, Service, MayWait
  <2> QED BY <2>1
<1>4. CASE SchedulerStart
  <2>1. current = NoThread /\ nesting' = nesting
    BY <1>4 DEF SchedulerStart
  <2> QED BY <1>1, <2>1
<1>5. CASE CritlockAcquire
  <2>1. /\ current \in Thread /\ in_critical_section' = TRUE
        /\ nesting' = [nesting EXCEPT ![current] = nesting[current] + 1]
        /\ current' = current
    BY <1>5 DEF CritlockAcquire, Service
  <2> QED BY <1>1, <2>1
<1>6. CASE CritlockRelease
  <2>1. /\ current \in Thread /\ nesting[current] > 0
        /\ nesting' = [nesting EXCEPT ![current] = nesting[current] - 1]
        /\ current' = current
    BY <1>6 DEF CritlockRelease, Service
  <2>2. nesting[current] = 1
    BY <1>1, <2>1 DEF SectionsDoNotNest
  <2>3. nesting'[current] = 0
    BY <1>1, <2>1, <2>2
  <2> QED BY <1>1, <2>1, <2>3
<1>7. CASE \/ TickWithoutTasks \/ (\E on \in BOOLEAN : MaskInterrupts(on))
           \/ (\E d \in SleepTime : SleepSelf(d)) \/ UNCHANGED vars
           \/ \E t \in Thread :
                \/ Insert(t) \/ BlockOther(t) \/ Notify(t)
                \/ NotifyFromInterrupt(t)
                \/ \E d \in SleepTime : SleepOther(t, d)
  <2>1. UNCHANGED <<current, in_critical_section, nesting>>
    BY <1>7 DEF TickWithoutTasks, MaskInterrupts, SleepSelf, Insert, BlockOther,
                Notify, NotifyFromInterrupt, SleepOther, vars
  <2> QED BY <2>1
<1> QED BY <1>2, <1>3, <1>4, <1>5, <1>6, <1>7 DEF Next

-----------------------------------------------------------------------------
\* The invariant holds when init_thread_scheduler has emptied the queues.
LEMMA InitIInv == Init => IInv({})
<1> SUFFICES ASSUME Init PROVE IInv({})
  OBVIOUS
<1> USE DEF Init
<1>1. TypeOK
  <2>1. 0 \in 0 .. TicksRange - 1 /\ 0 \in 0..MaxNesting
    BY SchedulerAssumption
  <2>2. state \in [Thread -> State] /\ ready \in [Priority -> Seq(Thread)]
    BY DEF State
  <2>3. block \in Seq(Thread) /\ sleep \in Seq(Thread)
    OBVIOUS
  <2> QED BY <2>1, <2>2, <2>3 DEF TypeOK
<1>2. Linked({})
  BY SchedulerAssumption
     DEF Linked, SleepersInSleepQueue, BlockedOutside,
         RunnableInReadyQueue, LinkedOnce, Nodes, NoDuplicates
<1>3. RunningIsCurrent /\ NoPanic /\ IdleIsRunnable
  BY SchedulerAssumption DEF RunningIsCurrent, NoPanic, IdleIsRunnable
<1>4. FlagIsCurrents /\ SleepersInOrder
  BY DEF FlagIsCurrents, SleepersInOrder, WakesInOrder, Nodes
<1> QED BY <1>1, <1>2, <1>3, <1>4 DEF IInv

\* Every step of the scheduler preserves it.
LEMMA NextIInv ==
  ASSUME NEW W, UniformSleep, IInv(W), [Next]_vars,
         \A t \in W : ~Notify(t) /\ ~NotifyFromInterrupt(t)
  PROVE  IInv(W)'
<1>1. CASE Tick
  BY <1>1, TickPreserves
<1>2. CASE TickWithoutTasks \/ (\E on \in BOOLEAN : MaskInterrupts(on))
           \/ UNCHANGED vars
  BY <1>2, FramePreserves
<1>3. CASE SchedulerStart
  BY <1>3, SchedulerStartPreserves
<1>4. CASE Yield \/ SleepSwitch
  BY <1>4, YieldPreserves
<1>5. CASE BlockSelf
  BY <1>5, BlockSelfPreserves
<1>6. CASE CritlockAcquire \/ CritlockRelease
  BY <1>6, CritlockPreserves
<1>7. ASSUME NEW d \in SleepTime, SleepSelf(d)
      PROVE  IInv(W)'
  BY <1>7, SleepSelfPreserves
<1>8. ASSUME NEW t \in Thread, Insert(t)
      PROVE  IInv(W)'
  BY <1>8, InsertPreserves
<1>9. ASSUME NEW t \in Thread, BlockOther(t)
      PROVE  IInv(W)'
  BY <1>9, BlockOtherPreserves
<1>10. ASSUME NEW t \in Thread, Notify(t) \/ NotifyFromInterrupt(t)
       PROVE  IInv(W)'
  <2>1. t \in Thread \ W
    BY <1>10
  <2> QED BY <1>10, <2>1, NotifyPreserves
<1>11. ASSUME NEW t \in Thread, NEW d \in SleepTime, SleepOther(t, d)
       PROVE  IInv(W)'
  BY <1>11, SleepOtherPreserves
<1> QED BY <1>1, <1>2, <1>3, <1>4, <1>5, <1>6, <1>7, <1>8, <1>9, <1>10, <1>11
        DEF Next

\* The invariant holds of every behaviour whose sleeps have one length.
THEOREM Invariance ==
  ASSUME UniformSleep
  PROVE  Spec => []IInv({})
<1>1. Init => IInv({})
  BY InitIInv
<1>2. IInv({}) /\ [Next]_vars => IInv({})'
  BY NextIInv
<1> QED BY <1>1, <1>2, PTL DEF Spec

(***************************************************************************)
(* Through every interleaving of the timer with thread_block,              *)
(* thread_sleep, thread_notify and yields, a thread's node is linked       *)
(* exactly once, in the list its state names.                              *)
(***************************************************************************)
THEOREM QueuesAlwaysMatchStates ==
  ASSUME UniformSleep
  PROVE  Spec => []QueuesMatchStates
<1>1. IInv({}) => QueuesMatchStates
  BY DEF IInv, Linked, BlockedOutside, QueuesMatchStates, BlockedInBlockQueue
<1> QED BY <1>1, Invariance, PTL

\* scheduler_thread_switch never reaches its PANICs, and the timer never
\* unlinks a node twice.
THEOREM NeverPanics ==
  ASSUME UniformSleep
  PROVE  Spec => []NoPanic
<1>1. IInv({}) => NoPanic
  BY DEF IInv
<1> QED BY <1>1, Invariance, PTL

\* The current thread, and no other, is running at the head of its queue,
\* unless it is halfway through thread_sleep.
THEOREM CurrentAlwaysRuns ==
  ASSUME UniformSleep
  PROVE  Spec => []RunningIsCurrent
<1>1. IInv({}) => RunningIsCurrent
  BY DEF IInv
<1> QED BY <1>1, Invariance, PTL

\* The variables of the scheduler keep their kinds; sleep_time never goes
\* below zero.
THEOREM TypeCorrect ==
  ASSUME UniformSleep
  PROVE  Spec => []TypeOK
<1>1. IInv({}) => TypeOK
  BY DEF IInv
<1> QED BY <1>1, Invariance, PTL

(***************************************************************************)
(* scheduler_thread_switch passes over no ready thread of higher priority, *)
(* serves a queue in the order of arrival, and leaves the processor to a   *)
(* thread inside a critical section, as long as sections do not nest.      *)
(***************************************************************************)
THEOREM AlwaysSwitchesInOrder ==
  UniformSleep /\ SectionsDoNotNest /\ Spec => SwitchesInOrder
<1> DEFINE Inv == /\ UniformSleep /\ SectionsDoNotNest
                  /\ IInv({}) /\ SectionIsCurrents
<1>1. UniformSleep /\ SectionsDoNotNest /\ Init => Inv
  <2>1. Init => SectionIsCurrents
    BY DEF Init, SectionIsCurrents
  <2> QED BY <2>1, InitIInv
<1>2. Inv /\ [Next]_vars => Inv'
  BY NextIInv, SectionStep
<1>3. Inv /\ [Next]_vars =>
        [PriorityRespected /\ FirstComeFirstServed /\ SectionKeepsProcessor]_vars
  BY StepsInOrder, SectionStep
<1> QED BY <1>1, <1>2, <1>3, PTL DEF Spec, SwitchesInOrder

-----------------------------------------------------------------------------
(* Semaphores and mutexes *)

\* thread_notify is not called for a thread that waits for a semaphore: it
\* would look for it in the block queue.
NotifiesNoWaiter ==
  \A t \in Waiters :
    UNCHANGED semaphoreVars => ~Notify(t) /\ ~NotifyFromInterrupt(t)

SemaphoreTypeOK ==
  /\ lock \in [Semaphore -> Nat]
  /\ waiting_threads \in [Semaphore -> Seq(Thread)]
  /\ owner \in [Semaphore -> SUBSET Thread]

\* A thread stands in one line, once.
InOneLine ==
  /\ \A s \in Semaphore : NoDuplicates(waiting_threads[s])
  /\ \A s, r \in Semaphore :
       s # r => Nodes(waiting_threads[s]) \cap Nodes(waiting_threads[r]) = {}

\* The inductive invariant: that of the scheduler, of which the waiters are
\* the threads blocked outside, and the lines and owners.
SInv ==
  /\ IInv(Waiters)
  /\ SemaphoreTypeOK
  /\ InOneLine
  /\ MutualExclusion

-----------------------------------------------------------------------------
(* What the calls do to the scheduler *)

\* The invariant of the scheduler speaks of a set of waiters by its elements.
LEMMA SameOutside ==
  ASSUME NEW W, IInv(W)', Waiters' = W
  PROVE  IInv(Waiters)'
  BY DEF IInv, Linked, BlockedOutside

\* semaphore_wait without a permit: the running thread c leaves the ready
\* queues, and another thread runs.
LEMMA WaiterLeaves ==
  ASSUME NEW W, IInv(W), NEW s \in Semaphore, SemaphoreWait(s), MustWait(s),
         NEW c, c = current
  PROVE  IInv(W \cup {c})'
<1> DEFINE st == Set(state, c, "BLOCK")
           rq == Dequeued(ready, c)
           r  == Switched(st, rq)
<1>1. /\ c \in Thread /\ c # Idle
      /\ state[c] = "RUNNING" /\ state[Idle] # "NONE" /\ nesting[c] = 0
      /\ intr' = [intr EXCEPT ![current] = TRUE]
      /\ state' = r.state /\ ready' = r.ready
      /\ current' = r.current /\ panicked' = r.panicked
      /\ UNCHANGED <<ticks, block, sleep, sleep_time, in_critical_section,
                     dozing, nesting>>
  BY DEF SemaphoreWait, Service, MayWait, BlockOn, Commit, Set, Dequeued
<1>2. ~in_critical_section /\ "BLOCK" \in State \ Runnable
  BY <1>1 DEF IInv, FlagIsCurrents, TypeOK, State, Runnable
<1>3. Runs(c, state, ready) /\ ReadyMatches(state, ready)
  BY <1>1, ProcessorFacts
<1>4. \A t \in Thread : st[t] = IF t = c THEN "BLOCK" ELSE state[t]
  BY DEF Set, IInv, TypeOK
<1>5. ReadyMatches(st, rq)
  BY <1>1, <1>2, <1>3, DequeuedFacts DEF Runnable
<1>6. \A u \in Thread : st[u] # "RUNNING"
  BY <1>3, <1>4 DEF Runs
<1> HIDE DEF st, rq
<1>7. st[Idle] \in Runnable
  BY <1>1, <1>4, SchedulerAssumption DEF IInv, IdleIsRunnable, Runnable
<1>8. MaySwitch(st, rq)
  BY <1>1, <1>2, <1>5, <1>6, <1>7, SchedulerAssumption DEF MaySwitch
<1>9. /\ ReadyMatches(state', ready')
      /\ Runs(current', state', ready')
      /\ panicked' = FALSE
      /\ \A t \in Thread : state'[t] \in Runnable <=> st[t] \in Runnable
      /\ \A t \in Thread : st[t] \notin Runnable => state'[t] = st[t]
  <2>1. SwitchesWell(st, rq)
    BY <1>8, SwitchedFacts
  <2> QED BY <1>1, <2>1 DEF SwitchesWell
<1>10. TypeOK'
  BY <1>1, <1>9 DEF IInv, TypeOK, ReadyMatches, Runs
<1>11. SleepersInSleepQueue' /\ BlockedOutside(W \cup {c})'
  <2>1. \A t \in Thread : /\ state'[t] = "BLOCK" <=> st[t] = "BLOCK"
                          /\ state'[t] = "SLEEP" <=> st[t] = "SLEEP"
    BY <1>9 DEF Runnable
  <2> QED BY <1>1, <1>4, <2>1
          DEF IInv, Linked, SleepersInSleepQueue, BlockedOutside
<1>12. RunningIsCurrent'
  BY <1>9 DEF RunningIsCurrent, Runs
<1>13. IdleIsRunnable'
  BY <1>1, <1>7, <1>9, SchedulerAssumption DEF IInv, IdleIsRunnable, Runnable
<1>14. FlagIsCurrents' /\ SleepersInOrder' /\ NoPanic'
  BY <1>1, <1>2, <1>9 DEF IInv, FlagIsCurrents, SleepersInOrder, NoPanic
<1> QED BY <1>1, <1>9, <1>10, <1>11, <1>12, <1>13, <1>14
        DEF IInv, Linked, RunnableInReadyQueue, LinkedOnce, ReadyMatches,
            Runnable

\* semaphore_signal makes the waiter t ready.
LEMMA WaiterReturns ==
  ASSUME NEW W, IInv(W), NEW t \in Thread, t \in W,
         state' = Set(state, t, "READY"), ready' = Enqueued(ready, t),
         intr' \in [Thread -> BOOLEAN],
         UNCHANGED <<ticks, block, sleep, sleep_time, current,
                     in_critical_section, panicked, dozing, nesting>>
  PROVE  IInv(W \ {t})'
<1>1. state[t] = "BLOCK" /\ state[t] \notin Runnable
  BY DEF IInv, Linked, BlockedOutside, Runnable
<1>2. /\ ReadyMatches(state', ready')
      /\ \A c \in Thread : Runs(c, state, ready) => Runs(c, state', ready')
  <2>1. ReadyMatches(state, ready)
    BY ProcessorFacts
  <2>2. /\ ReadyMatches(Set(state, t, "READY"), Enqueued(ready, t))
        /\ \A c \in Thread :
             Runs(c, state, ready)
               => Runs(c, Set(state, t, "READY"), Enqueued(ready, t))
    BY ONLY <1>1, <2>1, t \in Thread, EnqueuedFacts
  <2> QED BY <2>2
<1>3. \A u \in Thread : state'[u] = IF u = t THEN "READY" ELSE state[u]
  BY DEF Set, IInv, TypeOK
<1>4. TypeOK'
  BY <1>2 DEF IInv, TypeOK, ReadyMatches
<1>5. SleepersInSleepQueue' /\ BlockedOutside(W \ {t})'
  BY <1>1, <1>3 DEF IInv, Linked, SleepersInSleepQueue, BlockedOutside
<1>6. current \in Thread => \/ Runs(current, state', ready')
                            \/ state'[current] = "SLEEP" /\ current \in dozing
  BY <1>1, <1>2, <1>3, ProcessorFacts
<1>7. RunningIsCurrent'
  BY <1>3, <1>4, <1>6, ProcessorFacts
     DEF IInv, TypeOK, RunningIsCurrent, Runs
<1>8. IdleIsRunnable' /\ FlagIsCurrents' /\ SleepersInOrder' /\ NoPanic'
  BY <1>1, <1>3, SchedulerAssumption
     DEF IInv, IdleIsRunnable, FlagIsCurrents, SleepersInOrder, NoPanic
<1> QED BY <1>2, <1>4, <1>5, <1>7, <1>8
        DEF IInv, Linked, RunnableInReadyQueue, LinkedOnce, ReadyMatches,
            Runnable

-----------------------------------------------------------------------------
(* What the calls do to the lines *)

LEMMA WaiterIsThread ==
  ASSUME SemaphoreTypeOK
  PROVE  Waiters \in SUBSET Thread
  BY DEF SemaphoreTypeOK, Waiters, Nodes

\* A thread that stands in no line is linked at the end of one.
LEMMA LineGrows ==
  ASSUME SemaphoreTypeOK, InOneLine, NEW s \in Semaphore,
         NEW c \in Thread \ Waiters,
         waiting_threads' =
           [waiting_threads EXCEPT ![s] = InsertBackNode(waiting_threads[s], c)]
  PROVE  /\ waiting_threads' \in [Semaphore -> Seq(Thread)]
         /\ InOneLine'
         /\ Waiters' = Waiters \cup {c}
<1>1. /\ waiting_threads[s] \in Seq(Thread) /\ NoDuplicates(waiting_threads[s])
      /\ \A r \in Semaphore : c \notin Nodes(waiting_threads[r])
  BY DEF SemaphoreTypeOK, InOneLine, Waiters
<1>2. /\ InsertBackNode(waiting_threads[s], c) \in Seq(Thread)
      /\ NoDuplicates(InsertBackNode(waiting_threads[s], c))
      /\ Nodes(InsertBackNode(waiting_threads[s], c))
           = Nodes(waiting_threads[s]) \cup {c}
  BY <1>1, InsertBackNodeFacts
<1>3. /\ waiting_threads' \in [Semaphore -> Seq(Thread)]
      /\ NoDuplicates(waiting_threads'[s])
      /\ Nodes(waiting_threads'[s]) = Nodes(waiting_threads[s]) \cup {c}
      /\ \A r \in Semaphore : r # s => waiting_threads'[r] = waiting_threads[r]
  BY <1>2 DEF SemaphoreTypeOK
<1>4. InOneLine'
  BY <1>1, <1>3 DEF InOneLine
<1>5. Waiters' = Waiters \cup {c}
  BY <1>3 DEF Waiters
<1> QED BY <1>3, <1>4, <1>5

\* The first thread in line leaves it, and then stands in none.
LEMMA LineShrinks ==
  ASSUME SemaphoreTypeOK, InOneLine, NEW s \in Semaphore,
         waiting_threads[s] # <<>>,
         waiting_threads' =
           [waiting_threads EXCEPT ![s] = RemoveFrontNode(waiting_threads[s])]
  PROVE  /\ waiting_threads' \in [Semaphore -> Seq(Thread)]
         /\ InOneLine'
         /\ Head(waiting_threads[s]) \in Waiters
         /\ Waiters' = Waiters \ {Head(waiting_threads[s])}
<1> DEFINE t == Head(waiting_threads[s])
<1>1. waiting_threads[s] \in Seq(Thread) /\ NoDuplicates(waiting_threads[s])
  BY DEF SemaphoreTypeOK, InOneLine
<1>2. t \in Nodes(waiting_threads[s])
  BY <1>1 DEF Nodes
<1>3. /\ RemoveFrontNode(waiting_threads[s]) \in Seq(Thread)
      /\ NoDuplicates(RemoveFrontNode(waiting_threads[s]))
      /\ Nodes(RemoveFrontNode(waiting_threads[s]))
           = Nodes(waiting_threads[s]) \ {t}
  BY <1>1, RemoveFrontNodeFacts
<1> HIDE DEF t
<1>4. /\ waiting_threads' \in [Semaphore -> Seq(Thread)]
      /\ NoDuplicates(waiting_threads'[s])
      /\ Nodes(waiting_threads'[s]) = Nodes(waiting_threads[s]) \ {t}
      /\ \A r \in Semaphore : r # s => waiting_threads'[r] = waiting_threads[r]
  BY <1>3 DEF SemaphoreTypeOK
<1>5. \A r \in Semaphore : r # s => t \notin Nodes(waiting_threads[r])
  BY <1>2 DEF InOneLine
<1>6. InOneLine'
  BY <1>4 DEF InOneLine
<1>7. Waiters' = Waiters \ {t}
  BY <1>4, <1>5 DEF Waiters
<1>8. t \in Waiters
  BY <1>2 DEF Waiters
<1> QED BY <1>4, <1>6, <1>7, <1>8 DEF t

-----------------------------------------------------------------------------
(* The calls, one by one *)

\* The running thread stands in no line.
LEMMA RunningIsNoWaiter ==
  ASSUME SInv, NEW call, Service(call)
  PROVE  current \in Thread \ Waiters
<1>1. current \in Thread /\ current \notin dozing
  BY DEF Service
<1>2. state[current] # "BLOCK"
  BY <1>1, ProcessorFacts DEF SInv, Runs
<1> QED BY <1>1, <1>2 DEF SInv, IInv, Linked, BlockedOutside

\* semaphore_wait, mutex_acquire.
LEMMA WaitKeeps ==
  ASSUME SInv, NEW s \in Semaphore, SemaphoreWait(s)
  PROVE  SInv'
<1>1. current \in Thread \ Waiters
  BY RunningIsNoWaiter DEF SemaphoreWait
<1>2. SemaphoreTypeOK /\ InOneLine /\ MutualExclusion /\ IInv(Waiters)
  BY DEF SInv
<1>3. CASE MustWait(s)
  <2>1. /\ UNCHANGED <<lock, owner>>
        /\ waiting_threads' =
             [waiting_threads EXCEPT
                ![s] = InsertBackNode(waiting_threads[s], current)]
    BY <1>3 DEF SemaphoreWait, BlockOn
  <2>2. /\ waiting_threads' \in [Semaphore -> Seq(Thread)] /\ InOneLine'
        /\ Waiters' = Waiters \cup {current}
    BY <1>1, <1>2, <2>1, LineGrows
  <2>3. PICK c, W : c = current /\ W = Waiters
    OBVIOUS
  <2>4. IInv(W)
    BY <1>2, <2>3 DEF IInv, Linked, BlockedOutside
  <2>5. IInv(W \cup {c})'
    BY <1>3, <2>3, <2>4, WaiterLeaves
  <2>6. IInv(Waiters)'
    BY <2>2, <2>3, <2>5, SameOutside
  <2>7. MutualExclusion'
    BY <1>2, <2>1 DEF MutualExclusion
  <2> QED BY <1>2, <2>1, <2>2, <2>6, <2>7 DEF SInv, SemaphoreTypeOK
<1>4. CASE ~MustWait(s)
  <2>1. /\ lock' = [lock EXCEPT ![s] = lock[s] - 1]
        /\ owner' = [owner EXCEPT ![s] = Granted(s, current)]
        /\ intr' = [intr EXCEPT ![current] = TRUE]
        /\ UNCHANGED <<ticks, state, ready, block, sleep, sleep_time, current,
                       in_critical_section, panicked, dozing, nesting>>
        /\ waiting_threads' = waiting_threads
    BY <1>4 DEF SemaphoreWait
  <2>2. lock[s] \in Nat /\ lock[s] > 0
    BY <1>2, <1>4 DEF MustWait, SemaphoreTypeOK
  <2>3. Granted(s, current) \in SUBSET Thread
    BY <1>1, <1>2 DEF Granted, SemaphoreTypeOK
  <2>4. SemaphoreTypeOK' /\ InOneLine' /\ Waiters' = Waiters
    BY <1>2, <2>1, <2>2, <2>3 DEF SemaphoreTypeOK, InOneLine, Waiters
  <2>5. MutualExclusion'
    <3> SUFFICES ASSUME NEW m \in Mutex
                 PROVE  /\ \A t, u \in owner'[m] : t = u
                        /\ lock'[m] = (IF owner'[m] = {} THEN 1 ELSE 0)
      BY DEF MutualExclusion
    <3>1. m \in Semaphore
      BY SemaphoresAssumption
    <3>2. /\ \A t, u \in owner[m] : t = u
          /\ lock[m] = (IF owner[m] = {} THEN 1 ELSE 0)
      BY <1>2 DEF MutualExclusion
    <3>3. CASE m # s
      BY <1>2, <2>1, <3>1, <3>2, <3>3 DEF SemaphoreTypeOK
    <3>4. CASE m = s
      <4>1. owner[m] = {} /\ lock[m] = 1
        BY <2>2, <3>2, <3>4
      <4>2. owner'[m] = {current}
        BY <1>2, <2>1, <3>1, <3>4, <4>1 DEF Granted, SemaphoreTypeOK
      <4>3. lock'[m] = 0
        BY <1>2, <2>1, <3>1, <3>4, <4>1 DEF SemaphoreTypeOK
      <4> QED BY <4>2, <4>3
    <3> QED BY <3>3, <3>4
  <2>6. IInv(Waiters)'
    <3>1. PICK W : W = Waiters
      OBVIOUS
    <3>2. IInv(W)
      BY <1>2, <3>1 DEF IInv, Linked, BlockedOutside
    <3>3. /\ ticks' \in 0 .. TicksRange - 1 /\ intr' \in [Thread -> BOOLEAN]
      BY <1>2, <2>1 DEF IInv, TypeOK
    <3>4. IInv(W)'
      BY <2>1, <3>2, <3>3, FrameFacts
    <3> QED BY <2>4, <3>1, <3>4, SameOutside
  <2> QED BY <2>4, <2>5, <2>6 DEF SInv
<1> QED BY <1>3, <1>4

\* semaphore_signal: the owner of a mutex gives it to the first in line, or
\* leaves it free.
LEMMA SignalKeeps ==
  ASSUME SInv, NEW s \in Semaphore, SignalBody(s),
         intr' \in [Thread -> BOOLEAN],
         s \in Mutex => current \in owner[s] /\ current \notin Waiters,
         UNCHANGED <<ticks, block, sleep, sleep_time, current,
                     in_critical_section, panicked, dozing, nesting>>
  PROVE  SInv'
<1>1. SemaphoreTypeOK /\ InOneLine /\ MutualExclusion /\ IInv(Waiters)
  BY DEF SInv
<1>2. s \in Mutex => owner[s] = {current} /\ lock[s] = 0
  BY <1>1 DEF MutualExclusion
<1>3. PICK W : W = Waiters
  OBVIOUS
<1>4. IInv(W) /\ ticks' \in 0 .. TicksRange - 1
  BY <1>1, <1>3 DEF IInv, Linked, BlockedOutside, TypeOK
<1>5. CASE waiting_threads[s] # <<>>
  <2>1. PICK t : t = Head(waiting_threads[s])
    OBVIOUS
  <2>2. /\ waiting_threads' =
             [waiting_threads EXCEPT ![s] = RemoveFrontNode(waiting_threads[s])]
        /\ state' = Set(state, t, "READY") /\ ready' = Enqueued(ready, t)
        /\ owner' = [owner EXCEPT ![s] = Granted(s, t) \ {current}]
        /\ lock' = lock
    BY <1>5, <2>1 DEF SignalBody, Hand, Set, Enqueued
  <2>3. /\ waiting_threads' \in [Semaphore -> Seq(Thread)] /\ InOneLine'
        /\ t \in Waiters /\ Waiters' = Waiters \ {t}
    BY <1>1, <1>5, <2>1, <2>2, LineShrinks
  <2>4. t \in Thread
    BY <1>1, <2>3, WaiterIsThread
  <2>5. IInv(W \ {t})'
    BY <1>3, <1>4, <2>2, <2>3, <2>4, WaiterReturns
  <2>6. IInv(Waiters)'
    BY <1>3, <2>3, <2>5, SameOutside
  <2>7. SemaphoreTypeOK'
    BY <1>1, <2>2, <2>3, <2>4 DEF SemaphoreTypeOK, Granted
  <2>8. MutualExclusion'
    <3> SUFFICES ASSUME NEW m \in Mutex
                 PROVE  /\ \A x, y \in owner'[m] : x = y
                        /\ lock'[m] = (IF owner'[m] = {} THEN 1 ELSE 0)
      BY DEF MutualExclusion
    <3>1. m \in Semaphore
      BY SemaphoresAssumption
    <3>2. CASE m # s
      BY <1>1, <2>2, <3>1, <3>2 DEF SemaphoreTypeOK, MutualExclusion
    <3>3. CASE m = s
      <4>1. owner'[m] = {t}
        BY <1>1, <1>2, <2>2, <2>3, <3>1, <3>3 DEF Granted, SemaphoreTypeOK
      <4> QED BY <1>2, <2>2, <3>3, <4>1
    <3> QED BY <3>2, <3>3
  <2> QED BY <2>3, <2>6, <2>7, <2>8 DEF SInv
<1>6. CASE waiting_threads[s] = <<>>
  <2>1. /\ lock' = [lock EXCEPT ![s] = lock[s] + 1]
        /\ owner' = [owner EXCEPT ![s] = owner[s] \ {current}]
        /\ UNCHANGED <<waiting_threads, state, ready>>
    BY <1>6 DEF SignalBody
  <2>2. SemaphoreTypeOK' /\ InOneLine' /\ Waiters' = Waiters
    BY <1>1, <2>1 DEF SemaphoreTypeOK, InOneLine, Waiters
  <2>3. MutualExclusion'
    <3> SUFFICES ASSUME NEW m \in Mutex
                 PROVE  /\ \A x, y \in owner'[m] : x = y
                        /\ lock'[m] = (IF owner'[m] = {} THEN 1 ELSE 0)
      BY DEF MutualExclusion
    <3>1. m \in Semaphore
      BY SemaphoresAssumption
    <3>2. CASE m # s
      BY <1>1, <2>1, <3>1, <3>2 DEF SemaphoreTypeOK, MutualExclusion
    <3>3. CASE m = s
      <4>1. owner'[m] = {}
        BY <1>1, <1>2, <2>1, <3>1, <3>3 DEF SemaphoreTypeOK
      <4>2. lock'[m] = 1
        BY <1>1, <1>2, <2>1, <3>1, <3>3 DEF SemaphoreTypeOK
      <4> QED BY <4>1, <4>2
    <3> QED BY <3>2, <3>3
  <2>4. IInv(W)'
    BY <1>4, <2>1, FrameFacts
  <2>5. IInv(Waiters)'
    BY <1>3, <2>2, <2>4, SameOutside
  <2> QED BY <2>2, <2>3, <2>5 DEF SInv
<1> QED BY <1>5, <1>6

\* A step of the scheduler leaves the lines alone.
LEMMA SchedulerKeeps ==
  ASSUME SInv, UniformSleep, [Next]_vars, UNCHANGED semaphoreVars,
         NotifiesNoWaiter
  PROVE  SInv'
<1>1. PICK W : W = Waiters
  OBVIOUS
<1>2. IInv(W)
  BY <1>1 DEF SInv, IInv, Linked, BlockedOutside
<1>3. \A t \in W : ~Notify(t) /\ ~NotifyFromInterrupt(t)
  BY <1>1 DEF NotifiesNoWaiter
<1>4. IInv(W)'
  BY <1>2, <1>3, NextIInv
<1>5. Waiters' = Waiters
  BY DEF Waiters, semaphoreVars
<1>6. IInv(Waiters)'
  BY <1>1, <1>4, <1>5, SameOutside
<1> QED BY <1>6 DEF SInv, SemaphoreTypeOK, InOneLine, MutualExclusion,
                    semaphoreVars

LEMMA InitSInv == SemaphoresInit => SInv
<1> SUFFICES ASSUME SemaphoresInit PROVE SInv
  OBVIOUS
<1> USE DEF SemaphoresInit
<1>1. Waiters = {}
  BY DEF Waiters, Nodes
<1>2. IInv({})
  BY InitIInv
<1>3. IInv(Waiters)
  BY <1>1, <1>2
<1>4. SemaphoreTypeOK /\ InOneLine
  BY SemaphoresAssumption DEF SemaphoreTypeOK, InOneLine, NoDuplicates, Nodes
<1>5. MutualExclusion
  BY SemaphoresAssumption DEF MutualExclusion
<1> QED BY <1>3, <1>4, <1>5 DEF SInv

LEMMA StepSInv ==
  ASSUME SInv, UniformSleep, NotifiesNoWaiter, [SemaphoresNext]_allVars
  PROVE  SInv'
<1>1. CASE \/ Next /\ UNCHANGED semaphoreVars
           \/ UNCHANGED allVars
  BY <1>1, SchedulerKeeps DEF allVars
<1>2. ASSUME NEW s \in Semaphore, SemaphoreWait(s)
      PROVE  SInv'
  BY <1>2, WaitKeeps
<1>3. intr \in [Thread -> BOOLEAN]
  BY DEF SInv, IInv, TypeOK
<1>4. ASSUME NEW s \in Semaphore, SemaphoreSignal(s)
      PROVE  SInv'
  <2>1. current \in Thread \ Waiters
    BY <1>4, RunningIsNoWaiter DEF SemaphoreSignal
  <2>2. /\ SignalBody(s) /\ intr' \in [Thread -> BOOLEAN]
        /\ s \in Mutex => current \in owner[s]
        /\ UNCHANGED <<ticks, block, sleep, sleep_time, current,
                       in_critical_section, panicked, dozing, nesting>>
    BY <1>3, <1>4 DEF SemaphoreSignal, MayRelease
  <2> QED BY <2>1, <2>2, SignalKeeps
<1>5. ASSUME NEW s \in Semaphore, SignalFromInterrupt(s)
      PROVE  SInv'
  <2>1. /\ SignalBody(s) /\ intr' \in [Thread -> BOOLEAN]
        /\ s \notin Mutex
        /\ UNCHANGED <<ticks, block, sleep, sleep_time, current,
                       in_critical_section, panicked, dozing, nesting>>
    BY <1>3, <1>5, SemaphoresAssumption DEF SignalFromInterrupt
  <2> QED BY <2>1, SignalKeeps
<1> QED BY <1>1, <1>2, <1>4, <1>5 DEF SemaphoresNext

-----------------------------------------------------------------------------
(* The refinement *)

LEMMA InitImplements == SemaphoresInit => Abstract!SemaphoreInit
  BY DEF SemaphoresInit, Abstract!SemaphoreInit

\* A wait of the running thread is a Wait, a signal a Signal, and what the
\* scheduler does by itself a stutter.
LEMMA StepImplements ==
  ASSUME SInv, [SemaphoresNext]_allVars
  PROVE  [Abstract!SemaphoreNext]_<<lock, waiting_threads>>
<1>1. CASE \/ Next /\ UNCHANGED semaphoreVars
           \/ UNCHANGED allVars
  BY <1>1 DEF allVars, semaphoreVars
<1>2. ASSUME NEW s \in Semaphore, SemaphoreWait(s)
      PROVE  Abstract!SemaphoreNext
  <2>1. current \in Thread /\ current \notin Abstract!Queued
    BY <1>2, RunningIsNoWaiter
       DEF SemaphoreWait, Waiters, Abstract!Queued, Nodes, Abstract!Nodes
  <2>2. lock[s] \in Nat
    BY DEF SInv, SemaphoreTypeOK
  <2>3. Abstract!Wait(current, s)
    <3>1. CASE MustWait(s)
      BY <1>2, <2>1, <2>2, <3>1
         DEF SemaphoreWait, MustWait, BlockOn, Abstract!Wait,
             InsertBackNode, Abstract!InsertBackNode
    <3>2. CASE ~MustWait(s)
      BY <1>2, <2>1, <2>2, <3>2 DEF SemaphoreWait, MustWait, Abstract!Wait
    <3> QED BY <3>1, <3>2
  <2> QED BY <2>1, <2>3 DEF Abstract!SemaphoreNext
<1>3. ASSUME NEW s \in Semaphore, SemaphoreSignal(s) \/ SignalFromInterrupt(s)
      PROVE  Abstract!SemaphoreNext
  <2>1. SignalBody(s)
    BY <1>3 DEF SemaphoreSignal, SignalFromInterrupt
  <2>2. Abstract!Signal(s)
    BY <2>1 DEF SignalBody, Hand, Abstract!Signal, RemoveFrontNode,
                Abstract!RemoveFrontNode
  <2> QED BY <2>2 DEF Abstract!SemaphoreNext
<1> QED BY <1>1, <1>2, <1>3 DEF SemaphoresNext

-----------------------------------------------------------------------------
\* What the theorems assume of the threads: all sleeps have one length, and
\* thread_notify is for threads that blocked themselves.
Disciplined == UniformSleep /\ [][NotifiesNoWaiter]_allVars

\* The invariant holds of every such behaviour.
THEOREM SemaphoresInvariance == Disciplined /\ SemaphoresSpec => []SInv
<1> DEFINE Inv == UniformSleep /\ SInv
<1>1. UniformSleep /\ SemaphoresInit => Inv
  BY InitSInv
<1>2. Inv /\ [SemaphoresNext]_allVars /\ [NotifiesNoWaiter]_allVars => Inv'
  <2> SUFFICES ASSUME Inv, [SemaphoresNext]_allVars, [NotifiesNoWaiter]_allVars
               PROVE  SInv'
    OBVIOUS
  <2>1. CASE NotifiesNoWaiter
    BY <2>1, StepSInv
  <2>2. CASE UNCHANGED allVars
    <3>1. PICK W : W = Waiters
      OBVIOUS
    <3>2. IInv(W)
      BY <3>1 DEF SInv, IInv, Linked, BlockedOutside
    <3>3. UNCHANGED vars /\ Waiters' = Waiters
      BY <2>2 DEF allVars, semaphoreVars, Waiters
    <3>4. IInv(W)'
      BY <3>2, <3>3, FramePreserves
    <3>5. IInv(Waiters)'
      BY <3>1, <3>3, <3>4, SameOutside
    <3> QED BY <2>2, <3>5 DEF SInv, SemaphoreTypeOK, InOneLine, MutualExclusion,
                              allVars, semaphoreVars
  <2> QED BY <2>1, <2>2
<1>3. Inv => SInv
  OBVIOUS
<1> QED BY <1>1, <1>2, <1>3, PTL DEF SemaphoresSpec, Disciplined

\* Threads that call no thread_notify meet the assumption.
LEMMA NoNotifyIsDisciplined ==
  ASSUME UniformSleep, "notify" \notin Calls
  PROVE  SemaphoresSpec => Disciplined
<1>1. NotifiesNoWaiter
  BY DEF NotifiesNoWaiter, Notify, NotifyFromInterrupt, Service
<1>2. [NotifiesNoWaiter]_allVars
  BY <1>1
<1>3. UniformSleep
  OBVIOUS
<1> QED BY <1>2, <1>3, PTL DEF Disciplined

(***************************************************************************)
(* Whatever the timer, the calls and the interrupt handlers do, a waiter   *)
(* of a semaphore is blocked, linked in its line once and in no queue of   *)
(* the scheduler.                                                          *)
(***************************************************************************)
THEOREM WaitersAlwaysBlocked == Disciplined /\ SemaphoresSpec => []WaitersAreBlocked
<1>1. SInv => WaitersAreBlocked
  <2> SUFFICES ASSUME SInv PROVE WaitersAreBlocked
    OBVIOUS
  <2>1. Linked(Waiters)
    BY DEF SInv, IInv
  <2> QED BY <2>1 DEF Linked, BlockedOutside, WaitersAreBlocked
<1> QED BY <1>1, SemaphoresInvariance, PTL

\* A mutex is owned by one thread or is free, also while it is handed over.
THEOREM MutexesExclude == Disciplined /\ SemaphoresSpec => []MutualExclusion
<1>1. SInv => MutualExclusion
  BY DEF SInv
<1> QED BY <1>1, SemaphoresInvariance, PTL

\* semaphore.cpp on top of the scheduler implements the counting semaphore: no
\* wake-up is lost, and waiters are served in the order in which they came.
THEOREM SemaphoresImplement ==
  Disciplined /\ SemaphoresSpec => ImplementsCountingSemaphore
<1>1. SemaphoresInit => Abstract!SemaphoreInit
  BY InitImplements
<1>2. SInv /\ [SemaphoresNext]_allVars
        => [Abstract!SemaphoreNext]_<<lock, waiting_threads>>
  BY StepImplements
<1> QED BY <1>1, <1>2, SemaphoresInvariance, PTL
        DEF SemaphoresSpec, ImplementsCountingSemaphore, Abstract!SemaphoreSpec

-----------------------------------------------------------------------------
(* The keyboard, its daemon and its reader *)

\* The daemon has priority 1 and the reader 3.
DaemonFirst == Prio[Daemon] < Prio[Reader]

DaemonLabel == {"look", "take", "active", "notify", "node", "block"}
ReaderLabel == {"idle", "look", "take", "node", "block", "done"}

\* A reader is registered from the start of its read to the end.
ActiveWhileReading ==
  /\ active \in {NoThread, Reader}
  /\ active = NoThread => pc[Reader] = "idle"

\* Between its two looks at active the daemon is ready to run, and the reader
\* does not.
NoReaderMeanwhile ==
  pc[Daemon] = "notify" =>
    active = Reader /\ state[Daemon] \in Runnable /\ current # Reader

\* The inductive invariant: that of the scheduler, outside of which nobody
\* waits, and what the threads may count on at each label.
KInv ==
  /\ IInv({})
  /\ pc \in [{Daemon, Reader} -> DaemonLabel \cup ReaderLabel]
  /\ ActiveWhileReading
  /\ NoReaderMeanwhile

-----------------------------------------------------------------------------
(* What the steps do to the scheduler *)

\* A thread that may run remains one in a tick.
LEMMA StaysRunnable ==
  ASSUME IInv({}), Tick, NEW t \in Thread, state[t] \in Runnable
  PROVE  state'[t] \in Runnable
<1> DEFINE s == Switched(state, ready)
<1>1. current \in Thread
  BY DEF IInv, TypeOK, Tick
<1>2. s.state[t] \in Runnable
  BY <1>1, SwitchFacts DEF SwitchesWell
<1> HIDE DEF s
<1>3. state'[t] \in {s.state[t], "READY"}
  BY DEF Tick, Woken, s
<1> QED BY <1>2, <1>3 DEF Runnable

\* Whoever takes the processor has no lower priority than a thread that could
\* run before and can run now: the reader does not take it from the daemon.
LEMMA ReaderStaysOff ==
  ASSUME IInv({}), IInv({})', DaemonFirst, PriorityRespected,
         current # Reader, state[Daemon] \in Runnable, state'[Daemon] \in Runnable
  PROVE  current' # Reader
<1> SUFFICES ASSUME current' = Reader PROVE FALSE
  OBVIOUS
<1>1. Daemon \in Thread /\ Reader \in Thread /\ Daemon # Reader
  BY KeyboardAssumption
<1>2. state'[Daemon] = "READY"
  BY <1>1 DEF Runnable, IInv, RunningIsCurrent
<1>3. state[Daemon] # "SLEEP"
  BY DEF Runnable
<1> QED BY <1>1, <1>2, <1>3 DEF PriorityRespected, DaemonFirst

\* init_keyboard blocks the daemon it has created.
LEMMA InitKeyboardPreserves ==
  ASSUME IInv({}), InitKeyboard
  PROVE  IInv({})'
<1>1. /\ Daemon \in Thread \ {Idle} /\ current \in Thread
      /\ state[Daemon] = "NONE" /\ state' = Set(state, Daemon, "BLOCK")
      /\ block' = InsertBackNode(block, Daemon)
      /\ intr' = [intr EXCEPT ![current] = TRUE]
      /\ UNCHANGED <<ticks, ready, sleep, sleep_time, current,
                     in_critical_section, panicked, dozing, nesting>>
  BY KeyboardAssumption DEF InitKeyboard, Service, Set
<1>2. \A u \in Thread : state'[u] = IF u = Daemon THEN "BLOCK" ELSE state[u]
  BY <1>1 DEF Set, IInv, TypeOK
<1>3. /\ block' \in Seq(Thread) /\ NoDuplicates(block')
      /\ Nodes(block') = Nodes(block) \cup {Daemon}
  <2>1. Daemon \notin Nodes(block) /\ block \in Seq(Thread) /\ NoDuplicates(block)
    BY <1>1 DEF IInv, TypeOK, Linked, BlockedOutside, LinkedOnce
  <2> QED BY <1>1, <2>1, InsertBackNodeFacts
<1>4. TypeOK'
  BY <1>1, <1>3 DEF IInv, TypeOK, Set, State
<1>5. SleepersInSleepQueue' /\ BlockedOutside({})'
  BY <1>1, <1>2, <1>3 DEF IInv, Linked, SleepersInSleepQueue, BlockedOutside
<1>6. RunnableInReadyQueue' /\ LinkedOnce'
  BY <1>1, <1>2, <1>3 DEF IInv, Linked, RunnableInReadyQueue, LinkedOnce
<1>7. RunningIsCurrent'
  BY <1>1, <1>2 DEF IInv, RunningIsCurrent
<1>8. IdleIsRunnable' /\ FlagIsCurrents' /\ SleepersInOrder' /\ NoPanic'
  BY <1>1, <1>2, SchedulerAssumption
     DEF IInv, IdleIsRunnable, FlagIsCurrents, SleepersInOrder, NoPanic
<1> QED BY <1>4, <1>5, <1>6, <1>7, <1>8 DEF IInv, Linked

\* thread_get_current_node unmasks interrupts and changes nothing else.
LEMMA GetNodePreserves ==
  ASSUME IInv({}), GetNode
  PROVE  IInv({})'
<1>1. /\ ticks' \in 0 .. TicksRange - 1 /\ intr' \in [Thread -> BOOLEAN]
      /\ UNCHANGED <<state, ready, block, sleep, sleep_time, current,
                     in_critical_section, panicked, dozing, nesting>>
  BY DEF GetNode, IInv, TypeOK
<1> QED BY <1>1, FrameFacts

-----------------------------------------------------------------------------
(* The steps *)

\* A thread that makes a call is running.
LEMMA CallerRuns ==
  ASSUME IInv({}), NEW call, Service(call)
  PROVE  current \in Thread /\ state[current] = "RUNNING" /\ current # NoThread
<1>1. current \in Thread /\ current \notin dozing
  BY DEF Service
<1> QED BY <1>1, ProcessorFacts, SchedulerAssumption DEF Runs

\* The invariant of the keyboard's own variables while the scheduler's stand.
LEMMA OwnPartKept ==
  ASSUME KInv, IInv({})', UNCHANGED keyboardVars,
         pc[Daemon] = "notify" => state'[Daemon] \in Runnable /\ current' # Reader
  PROVE  KInv'
  BY DEF KInv, ActiveWhileReading, NoReaderMeanwhile, keyboardVars

\* keyboard_irq, the daemon.
LEMMA DaemonKeeps ==
  ASSUME KInv, DaemonStep
  PROVE  KInv'
<1>1. /\ Daemon \in Thread /\ Reader \in Thread /\ Daemon # Reader
      /\ IInv({}) /\ NoThread \notin Thread
  BY KeyboardAssumption, SchedulerAssumption DEF KInv
<1>2. current = Daemon /\ Service("keyboard")
  BY DEF DaemonStep, DaemonLook, DaemonTake, DaemonPass, DaemonNotify,
         DaemonNode, DaemonBlock, Executes
<1>3. state[Daemon] = "RUNNING"
  BY <1>1, <1>2, CallerRuns
<1>4. CASE DaemonLook \/ DaemonTake
  <2>1. IInv({})'
    BY <1>1, <1>4, FramePreserves DEF DaemonLook, DaemonTake
  <2>2. /\ UNCHANGED <<active, state, current>>
        /\ \E l \in DaemonLabel \ {"notify"} : pc' = [pc EXCEPT ![Daemon] = l]
    BY <1>2, <1>4 DEF DaemonLook, DaemonTake, Goto, DaemonLabel, vars
  <2> QED BY <1>1, <2>1, <2>2 DEF KInv, ActiveWhileReading, NoReaderMeanwhile
<1>5. CASE DaemonPass
  <2>1. IInv({})'
    BY <1>1, <1>5, FramePreserves DEF DaemonPass
  <2>2. /\ UNCHANGED <<active, state, current>>
        /\ \/ active # NoThread /\ pc' = [pc EXCEPT ![Daemon] = "notify"]
           \/ pc' = [pc EXCEPT ![Daemon] = "look"]
    BY <1>2, <1>5 DEF DaemonPass, Goto, vars
  <2>3. active # NoThread => active = Reader
    BY DEF KInv, ActiveWhileReading
  <2> QED BY <1>1, <1>2, <1>3, <2>1, <2>2, <2>3
          DEF KInv, ActiveWhileReading, NoReaderMeanwhile, DaemonLabel, Runnable
<1>6. CASE DaemonNotify
  <2>1. active = Reader /\ Notify(active)
    BY <1>1, <1>6 DEF DaemonNotify, Executes, KInv, NoReaderMeanwhile
  <2>2. IInv({})'
    BY <1>1, <2>1, NotifyPreserves
  <2>3. UNCHANGED active /\ pc' = [pc EXCEPT ![Daemon] = "look"]
    BY <1>2, <1>6 DEF DaemonNotify, Goto
  <2> QED BY <1>1, <2>2, <2>3
          DEF KInv, ActiveWhileReading, NoReaderMeanwhile, DaemonLabel
<1>7. CASE DaemonNode \/ DaemonBlock
  <2>1. IInv({})'
    BY <1>1, <1>7, GetNodePreserves, BlockSelfPreserves DEF DaemonNode, DaemonBlock
  <2>2. /\ UNCHANGED active
        /\ \E l \in DaemonLabel \ {"notify"} : pc' = [pc EXCEPT ![Daemon] = l]
    BY <1>2, <1>7 DEF DaemonNode, DaemonBlock, Goto, DaemonLabel
  <2> QED BY <1>1, <2>1, <2>2 DEF KInv, ActiveWhileReading, NoReaderMeanwhile
<1> QED BY <1>4, <1>5, <1>6, <1>7 DEF DaemonStep

\* kybrd_read: it runs at no time between the daemon's two looks at active.
LEMMA ReaderKeeps ==
  ASSUME KInv, ReaderStep
  PROVE  KInv'
<1>1. /\ Daemon \in Thread /\ Reader \in Thread /\ Daemon # Reader
      /\ IInv({}) /\ NoThread \notin Thread
  BY KeyboardAssumption, SchedulerAssumption DEF KInv
<1>2. current = Reader
  BY DEF ReaderStep, ReaderLook, ReaderTake, ReaderNode, ReaderBlock,
         ReaderDone, Read, Executes
<1>3. pc[Daemon] # "notify"
  BY <1>2 DEF KInv, NoReaderMeanwhile
<1>4. CASE ReaderLook \/ ReaderTake \/ ReaderNode \/ ReaderBlock
  <2>1. IInv({})'
    BY <1>1, <1>4, FramePreserves, GetNodePreserves, BlockSelfPreserves
       DEF ReaderLook, ReaderTake, ReaderNode, ReaderBlock
  <2>2. /\ UNCHANGED active
        /\ pc[Reader] # "idle"
        /\ \E l \in ReaderLabel : pc' = [pc EXCEPT ![Reader] = l]
    BY <1>2, <1>4
       DEF ReaderLook, ReaderTake, ReaderNode, ReaderBlock, Goto, ReaderLabel, Executes
  <2> QED BY <1>1, <1>3, <2>1, <2>2
          DEF KInv, ActiveWhileReading, NoReaderMeanwhile
<1>5. CASE ReaderDone
  <2>1. IInv({})'
    BY <1>1, <1>5, FramePreserves DEF ReaderDone
  <2>2. active' = NoThread /\ pc' = [pc EXCEPT ![Reader] = "idle"]
    BY <1>2, <1>5 DEF ReaderDone, Goto
  <2> QED BY <1>1, <1>3, <2>1, <2>2
          DEF KInv, ActiveWhileReading, NoReaderMeanwhile, ReaderLabel
<1>6. CASE \E n \in 1..MaxRead : Read(n)
  <2>1. IInv({})'
    BY <1>1, <1>6, GetNodePreserves DEF Read
  <2>2. active' = Reader /\ pc' = [pc EXCEPT ![Reader] = "look"]
    BY <1>2, <1>6 DEF Read, Goto
  <2> QED BY <1>1, <1>3, <2>1, <2>2
          DEF KInv, ActiveWhileReading, NoReaderMeanwhile, ReaderLabel
<1> QED BY <1>4, <1>5, <1>6 DEF ReaderStep

\* keyboard_callback: the daemon is woken only when it is blocked, which it is
\* not between its two looks.
LEMMA KeyInterruptKeeps ==
  ASSUME KInv, NEW c, KeyInterrupt(c)
  PROVE  KInv'
<1>1. Daemon \in Thread \ {} /\ IInv({})
  BY KeyboardAssumption DEF KInv
<1>2. UNCHANGED <<active, pc>>
  BY DEF KeyInterrupt
<1>3. CASE state[Daemon] = "BLOCK"
  <2>1. NotifyFromInterrupt(Daemon)
    BY <1>3 DEF KeyInterrupt
  <2>2. IInv({})'
    BY <1>1, <2>1, NotifyPreserves
  <2>3. pc[Daemon] # "notify"
    BY <1>3 DEF KInv, NoReaderMeanwhile, Runnable
  <2> QED BY <1>2, <2>2, <2>3 DEF KInv, ActiveWhileReading, NoReaderMeanwhile
<1>4. CASE state[Daemon] # "BLOCK"
  <2>1. UNCHANGED vars
    BY <1>4 DEF KeyInterrupt
  <2>2. IInv({})'
    BY <1>1, <2>1, FramePreserves
  <2> QED BY <1>2, <2>1, <2>2 DEF KInv, ActiveWhileReading, NoReaderMeanwhile, vars
<1> QED BY <1>3, <1>4

\* The timer, the first switch and new threads.
LEMMA ScheduleKeeps ==
  ASSUME DaemonFirst, KInv, Schedule
  PROVE  KInv'
<1>1. /\ Daemon \in Thread /\ Reader \in Thread /\ Daemon # Reader
      /\ IInv({}) /\ UNCHANGED keyboardVars
  BY KeyboardAssumption DEF KInv, Schedule
<1>2. CASE Tick
  <2>1. IInv({})' /\ PriorityRespected
    BY <1>1, <1>2, TickPreserves, TickInOrder
  <2>2. ASSUME pc[Daemon] = "notify"
        PROVE  state'[Daemon] \in Runnable /\ current' # Reader
    <3>1. state[Daemon] \in Runnable /\ current # Reader
      BY <2>2 DEF KInv, NoReaderMeanwhile
    <3>2. state'[Daemon] \in Runnable
      BY <1>1, <1>2, <3>1, StaysRunnable
    <3> QED BY <1>1, <2>1, <3>1, <3>2, ReaderStaysOff
  <2> QED BY <1>1, <2>1, <2>2, OwnPartKept
<1>3. CASE SchedulerStart
  <2>1. IInv({})' /\ PriorityRespected
    BY <1>1, <1>3, SchedulerStartPreserves, StartInOrder
  <2>2. ASSUME pc[Daemon] = "notify"
        PROVE  state'[Daemon] \in Runnable /\ current' # Reader
    <3>1. state[Daemon] \in Runnable /\ current # Reader
      BY <2>2 DEF KInv, NoReaderMeanwhile
    <3>2. state'[Daemon] \in {state[Daemon], "RUNNING"}
      BY <1>1, <1>3 DEF SchedulerStart, IInv, TypeOK
    <3>3. state'[Daemon] \in Runnable
      BY <3>1, <3>2 DEF Runnable
    <3> QED BY <1>1, <2>1, <3>1, <3>3, ReaderStaysOff
  <2> QED BY <1>1, <2>1, <2>2, OwnPartKept
<1>4. CASE \E t \in Thread \ {Daemon} : Insert(t)
  <2>1. PICK t \in Thread \ {Daemon} : Insert(t)
    BY <1>4
  <2>2. IInv({})'
    BY <1>1, <2>1, InsertPreserves
  <2>3. state'[Daemon] = state[Daemon] /\ current' = current
    BY <1>1, <2>1 DEF Insert, IInv, TypeOK
  <2> QED BY <1>1, <2>2, <2>3, OwnPartKept DEF KInv, NoReaderMeanwhile
<1> QED BY <1>2, <1>3, <1>4 DEF Schedule

LEMMA KeyboardStarts == KeyboardInit => KInv
<1> SUFFICES ASSUME KeyboardInit PROVE KInv
  OBVIOUS
<1>1. IInv({})
  BY InitIInv DEF KeyboardInit
<1>2. Daemon # Reader
  BY KeyboardAssumption
<1>3. pc = [t \in {Daemon, Reader} |-> IF t = Daemon THEN "look" ELSE "idle"] /\ active = NoThread
  BY DEF KeyboardInit
<1> QED BY <1>1, <1>2, <1>3
        DEF KInv, ActiveWhileReading, NoReaderMeanwhile, DaemonLabel, ReaderLabel

LEMMA KeyboardStepKeeps ==
  ASSUME DaemonFirst, KInv, [KeyboardNext]_typingVars
  PROVE  KInv'
<1>1. CASE InitKeyboard
  <2>1. IInv({})'
    BY <1>1, InitKeyboardPreserves DEF KInv
  <2>2. state[Daemon] = "NONE" /\ UNCHANGED keyboardVars
    BY <1>1 DEF InitKeyboard
  <2>3. pc[Daemon] # "notify"
    BY <2>2 DEF KInv, NoReaderMeanwhile, Runnable
  <2> QED BY <2>1, <2>2, <2>3, OwnPartKept
<1>2. CASE UNCHANGED typingVars
  <2>1. UNCHANGED vars /\ UNCHANGED keyboardVars
    BY <1>2 DEF typingVars
  <2>2. IInv({})'
    BY <2>1, FramePreserves DEF KInv
  <2> QED BY <2>1, <2>2, OwnPartKept DEF KInv, NoReaderMeanwhile, vars
<1> QED BY <1>1, <1>2, DaemonKeeps, ReaderKeeps, KeyInterruptKeeps, ScheduleKeeps
        DEF KeyboardNext

-----------------------------------------------------------------------------
\* KInv is inductive for KeyboardSpec.
THEOREM KeyboardInvariance == DaemonFirst /\ KeyboardSpec => []KInv
<1> DEFINE Inv == DaemonFirst /\ KInv
<1>1. DaemonFirst /\ KeyboardInit => Inv
  BY KeyboardStarts
<1>2. Inv /\ [KeyboardNext]_typingVars => Inv'
  BY KeyboardStepKeeps DEF DaemonFirst
<1>3. Inv => KInv
  OBVIOUS
<1> QED BY <1>1, <1>2, <1>3, PTL DEF KeyboardSpec

\* The daemon never notifies a thread that has finished reading, however the
\* reads begin and end around it (keyboard_irq tests active, then uses it).
THEOREM AlwaysNotifiesReader == DaemonFirst /\ KeyboardSpec => []NotifiesReader
<1>1. KInv => NotifiesReader
  BY KeyboardAssumption, SchedulerAssumption
     DEF KInv, NoReaderMeanwhile, NotifiesReader
<1> QED BY <1>1, KeyboardInvariance, PTL

\* However keys, reads and ticks meet, the scheduler's lists stay right and no
\* PANIC is reached, that of thread_notify without a thread included.
THEOREM KeyboardNeverPanics ==
  DaemonFirst /\ KeyboardSpec => [](QueuesMatchStates /\ NoPanic)
<1>1. KInv => QueuesMatchStates /\ NoPanic
  BY DEF KInv, IInv, Linked, BlockedOutside, BlockedInBlockQueue, QueuesMatchStates
<1> QED BY <1>1, KeyboardInvariance, PTL
=============================================================================
