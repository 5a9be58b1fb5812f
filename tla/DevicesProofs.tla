------------------------------ MODULE DevicesProofs -------------------------
(***************************************************************************)
(* Theorems about Interrupts, for every number of threads, every set of    *)
(* devices on the slave's lines and every depth of nesting.                *)
(*                                                                         *)
(* Theorems about KeyDecode, for every set of keys, every length of the    *)
(* queue of codes and however often keys go down and up.                   *)
(*                                                                         *)
(* Theorems about Net, for every number of descriptors, every length of    *)
(* recv_queue and whatever frames arrive.                                  *)
(***************************************************************************)
EXTENDS Interrupts, KeyDecode, Net, FiniteSetTheorems, SequenceTheorems, TLAPS

-----------------------------------------------------------------------------
(* Interrupts *)

Stage == {"handler", "told", "over"}
FrameType == [vector : 0 .. 255, stage : Stage, saved : BOOLEAN]

\* Only the keyboard's line and the slave's are ever in service at the primary.
ServiceTypeOK ==
  /\ requested \subseteq Device \cup {Timer}
  /\ in_service \subseteq {1, Cascade}
  /\ in_service_slave \subseteq 8 .. 15
  /\ frames \in [Thread -> Seq(FrameType)]
  /\ \A t \in Thread : Len(frames[t]) <= MaxFrames
  /\ running \in Thread
  /\ unmasked \in [Thread -> BOOLEAN]

\* While a handler of the slave's lines is unfinished, the slave's own line is
\* in service, so that no other can begin.
CascadeHeld == OfSlave # {} => Cascade \in in_service

\* The inductive invariant.
IInv ==
  ServiceTypeOK /\ ServiceBalanced /\ SlaveHandlersExclusive /\ CascadeHeld

\* The frame an interrupt pushes, and the one on top.
NewFrame == <<running, Len(frames[running]) + 1>>
TopFrame == <<running, Len(frames[running])>>

-----------------------------------------------------------------------------
\* The sets of frames and of lines are finite.
LEMMA FiniteSets ==
  ASSUME ServiceTypeOK
  PROVE  /\ IsFiniteSet(Unfinished) /\ IsFiniteSet(OfSlave) /\ IsFiniteSet(SlaveUntold)
         /\ IsFiniteSet(in_service) /\ IsFiniteSet(in_service_slave)
<1>1. IsFiniteSet(Thread \X (1 .. MaxFrames))
  <2>1. IsFiniteSet(1 .. MaxFrames)
    BY FS_Interval, InterruptsAssumption
  <2> QED
    BY <2>1, FS_Product, InterruptsAssumption
<1>2. Unfinished \subseteq Thread \X (1 .. MaxFrames)
  BY DEF Unfinished, Frame
<1>3. OfSlave \subseteq Unfinished /\ SlaveUntold \subseteq Unfinished
  BY DEF OfSlave, SlaveUntold
<1>4. IsFiniteSet({1, Cascade})
  <2>1. {1, Cascade} \subseteq 1 .. 2
    BY DEF Cascade
  <2> QED
    BY <2>1, FS_Interval, FS_Subset
<1>5. IsFiniteSet(8 .. 15)
  <2>1. 8 \in Int /\ 15 \in Int
    OBVIOUS
  <2> QED
    BY <2>1, FS_Interval
<1> QED
  BY <1>1, <1>2, <1>3, <1>4, <1>5, FS_Subset DEF ServiceTypeOK

\* An EOI with one line in service at least ends exactly one, of those that are
\* no lower than any other.
LEMMA EoiEndsOne ==
  ASSUME NEW S \in SUBSET Nat, NEW m \in S, \A k \in S : m <= k
  PROVE  AfterEoi(S) = S \ {m}
<1>1. ASSUME NEW k \in S
      PROVE  k \in AfterEoi(S) <=> k # m
  <2>1. k \in Nat /\ m \in Nat /\ m <= k
    OBVIOUS
  <2>2. CASE k = m
    BY <2>2 DEF AfterEoi
  <2>3. CASE k # m
    <3>1. m < k
      BY <2>1, <2>3
    <3> QED
      BY <2>3, <3>1 DEF AfterEoi
  <2> QED
    BY <2>2, <2>3
<1>2. AfterEoi(S) \subseteq S
  BY DEF AfterEoi
<1> QED
  BY <1>1, <1>2

\* A set of lines that is not empty has a highest one.
LEMMA HighestLine ==
  ASSUME NEW S \in SUBSET (0 .. 15), S # {}
  PROVE  \E m \in S : \A k \in S : m <= k
<1> SUFFICES ASSUME \A m \in S : \E k \in S : k < m
             PROVE  FALSE
  OBVIOUS
<1>0. \A n \in {0} : \A m \in S : m > n
  OBVIOUS
<1>1. \A m \in S : m > 1  OBVIOUS
<1>2. \A m \in S : m > 3  BY <1>1
<1>3. \A m \in S : m > 5  BY <1>2
<1>4. \A m \in S : m > 7  BY <1>3
<1>5. \A m \in S : m > 9  BY <1>4
<1>6. \A m \in S : m > 11  BY <1>5
<1>7. \A m \in S : m > 13  BY <1>6
<1>8. \A m \in S : m > 15  BY <1>7
<1>9. PICK m \in S : TRUE
  OBVIOUS
<1>10. m \in 0 .. 15 /\ m > 15
  BY <1>8
<1> QED
  BY <1>10

\* An EOI of a controller with lines in service leaves one less.
LEMMA EoiCounts ==
  ASSUME NEW S \in SUBSET (0 .. 15), IsFiniteSet(S), S # {}
  PROVE  Cardinality(AfterEoi(S)) = Cardinality(S) - 1
<1>1. PICK m \in S : \A k \in S : m <= k
  BY HighestLine
<1>2. AfterEoi(S) = S \ {m}
  BY <1>1, EoiEndsOne
<1> QED
  BY <1>1, <1>2, FS_RemoveElement

-----------------------------------------------------------------------------
\* A frame on a stack is of the type of frames, and lists the sets it is in.
LEMMA FrameFacts ==
  ASSUME ServiceTypeOK
  PROVE  /\ \A f \in Frame : /\ f[1] \in Thread /\ f[2] \in 1 .. MaxFrames
                             /\ f = <<f[1], f[2]>> /\ f[2] \in 1 .. Len(frames[f[1]])
                             /\ FrameOf(f) \in FrameType
         /\ \A t \in Thread : \A i \in 1 .. Len(frames[t]) : <<t, i>> \in Frame
<1>1. ASSUME NEW f \in Frame
      PROVE  /\ f[1] \in Thread /\ f[2] \in 1 .. MaxFrames
             /\ f = <<f[1], f[2]>> /\ f[2] \in 1 .. Len(frames[f[1]])
             /\ FrameOf(f) \in FrameType
  <2>1. f \in Thread \X (1 .. MaxFrames) /\ f[2] <= Len(frames[f[1]])
    BY DEF Frame
  <2>2. f[1] \in Thread /\ f[2] \in 1 .. MaxFrames /\ f = <<f[1], f[2]>>
    BY <2>1
  <2>3. frames[f[1]] \in Seq(FrameType)
    BY <2>2 DEF ServiceTypeOK
  <2>4. f[2] \in 1 .. Len(frames[f[1]])
    BY <2>1, <2>2, <2>3, InterruptsAssumption
  <2>5. frames[f[1]][f[2]] \in FrameType
    BY <2>3, <2>4
  <2> QED
    BY <2>2, <2>4, <2>5 DEF FrameOf
<1>2. ASSUME NEW t \in Thread, NEW i \in 1 .. Len(frames[t])
      PROVE  <<t, i>> \in Frame
  <2>1. frames[t] \in Seq(FrameType) /\ Len(frames[t]) <= MaxFrames
    BY DEF ServiceTypeOK
  <2>2. i \in 1 .. MaxFrames
    BY <2>1, InterruptsAssumption
  <2>3. <<t, i>> \in Thread \X (1 .. MaxFrames)
    BY <2>2
  <2>4. <<t, i>>[2] <= Len(frames[<<t, i>>[1]])
    BY <2>1
  <2> QED
    BY <2>3, <2>4 DEF Frame
<1> QED
  BY <1>1, <1>2

\* The processor pushes a frame: it is new, and the others stay as they were.
LEMMA EnterFacts ==
  ASSUME ServiceTypeOK, NEW vector \in 0 .. 255,
         NEW stage \in Stage,
         Len(frames[running]) < MaxFrames, Enter(vector, stage),
         NEW n, n = NewFrame
  PROVE  /\ frames' \in [Thread -> Seq(FrameType)]
         /\ \A t \in Thread : Len(frames'[t]) <= MaxFrames
         /\ n \notin Frame /\ Frame' = Frame \cup {n}
         /\ \A f \in Frame : FrameOf(f)' = FrameOf(f)
         /\ FrameOf(n)' = [vector |-> vector, stage |-> stage, saved |-> unmasked[running]]
<1> DEFINE new == [vector |-> vector, stage |-> stage, saved |-> unmasked[running]]
           old == frames[running]
<1>1. /\ running \in Thread /\ frames \in [Thread -> Seq(FrameType)]
      /\ old \in Seq(FrameType) /\ Len(old) \in Nat
      /\ \A t \in Thread : frames[t] \in Seq(FrameType) /\ Len(frames[t]) \in Nat
  BY DEF ServiceTypeOK
<1>2. new \in FrameType
  BY <1>1 DEF ServiceTypeOK, FrameType
<1>3. frames' = [frames EXCEPT ![running] = Append(old, new)]
  BY DEF Enter
<1>4. /\ Append(old, new) \in Seq(FrameType)
      /\ Len(Append(old, new)) = Len(old) + 1
      /\ \A i \in 1 .. Len(old) : Append(old, new)[i] = old[i]
      /\ Append(old, new)[Len(old) + 1] = new
  BY <1>1, <1>2
<1>5. frames' \in [Thread -> Seq(FrameType)]
  BY <1>1, <1>3, <1>4
<1>6. frames'[running] = Append(old, new) /\ \A t \in Thread \ {running} : frames'[t] = frames[t]
  BY <1>1, <1>3
<1>7. \A t \in Thread : Len(frames'[t]) <= MaxFrames
  <2>1. Len(frames'[running]) <= MaxFrames
    BY <1>1, <1>4, <1>6, InterruptsAssumption
  <2>2. \A t \in Thread \ {running} : Len(frames'[t]) <= MaxFrames
    BY <1>6 DEF ServiceTypeOK
  <2> QED
    BY <2>1, <2>2
<1>8. n[1] = running /\ n[2] = Len(old) + 1
  BY DEF NewFrame
<1>9. n \notin Frame
  BY <1>1, <1>8 DEF Frame
<1>10. n \in Thread \X (1 .. MaxFrames)
  BY <1>1, InterruptsAssumption DEF NewFrame
<1>11. ASSUME NEW f \in Thread \X (1 .. MaxFrames)
       PROVE  f \in Frame' <=> f \in Frame \cup {n}
  <2>1. f[1] \in Thread /\ f[2] \in 1 .. MaxFrames /\ f = <<f[1], f[2]>>
    OBVIOUS
  <2>2. CASE f[1] = running
    <3>1. f \in Frame' <=> f[2] <= Len(old) + 1
      <4>1. Len(frames'[f[1]]) = Len(old) + 1
        BY <1>4, <1>6, <2>2
      <4> QED
        BY <4>1 DEF Frame
    <3>2. f \in Frame <=> f[2] <= Len(old)
      BY <2>2 DEF Frame
    <3>3. f = n <=> f[2] = Len(old) + 1
      BY <1>8, <2>1, <2>2 DEF NewFrame
    <3> QED
      BY <1>1, <2>1, <3>1, <3>2, <3>3, InterruptsAssumption
  <2>3. CASE f[1] # running
    BY <1>6, <1>8, <2>1, <2>3 DEF Frame
  <2> QED
    BY <2>2, <2>3
<1>12. Frame' = Frame \cup {n}
  <2>1. Frame' \subseteq Thread \X (1 .. MaxFrames) /\ Frame \subseteq Thread \X (1 .. MaxFrames)
    BY DEF Frame
  <2> QED
    BY <1>10, <1>11, <2>1
<1>13. ASSUME NEW f \in Frame
       PROVE  FrameOf(f)' = FrameOf(f)
  <2>1. f[1] \in Thread /\ f[2] \in 1 .. Len(frames[f[1]])
    BY FrameFacts
  <2>2. CASE f[1] = running
    BY <1>4, <1>6, <2>1, <2>2 DEF FrameOf
  <2>3. CASE f[1] # running
    BY <1>6, <2>1, <2>3 DEF FrameOf
  <2> QED
    BY <2>2, <2>3
<1>14. FrameOf(n)' = new
  BY <1>1, <1>4, <1>6, <1>8 DEF FrameOf
<1> QED
  BY <1>5, <1>7, <1>9, <1>12, <1>13, <1>14

\* irq_handler comes to the next stage of the interrupt it runs for: that frame
\* changes, and no other.
LEMMA ReachFacts ==
  ASSUME ServiceTypeOK, Len(frames[running]) > 0,
         NEW stage \in Stage, Reach(stage),
         NEW n, n = TopFrame
  PROVE  /\ frames' \in [Thread -> Seq(FrameType)]
         /\ \A t \in Thread : Len(frames'[t]) <= MaxFrames
         /\ n \in Frame /\ Frame' = Frame /\ FrameOf(n) = Top
         /\ \A f \in Frame \ {n} : FrameOf(f)' = FrameOf(f)
         /\ FrameOf(n)' = [vector |-> Top.vector, stage |-> stage, saved |-> Top.saved]
<1> DEFINE old == frames[running]
           k == Len(old)
           told == [vector |-> Top.vector, stage |-> stage, saved |-> Top.saved]
           next == [old EXCEPT ![k] = told]
<1>1. /\ running \in Thread /\ frames \in [Thread -> Seq(FrameType)]
      /\ old \in Seq(FrameType) /\ k \in Nat
  BY DEF ServiceTypeOK
<1>2. k \in 1 .. k
  BY <1>1
<1>3. old[k] \in FrameType /\ Top = old[k]
  BY <1>1, <1>2 DEF Top
<1>4. told \in FrameType
  BY <1>3 DEF FrameType
<1>5. /\ next \in Seq(FrameType) /\ Len(next) = k
      /\ next[k] = told
      /\ \A i \in 1 .. k : i # k => next[i] = old[i]
  BY <1>1, <1>2, <1>4
<1>6. frames' = [frames EXCEPT ![running] = next]
  BY <1>1 DEF Reach
<1>7. \A t \in Thread : frames'[t] = IF t = running THEN next ELSE frames[t]
  BY <1>1, <1>6
<1>8. frames' \in [Thread -> Seq(FrameType)]
  BY <1>1, <1>5, <1>6
<1>9. \A t \in Thread : Len(frames'[t]) = Len(frames[t])
  BY <1>5, <1>7
<1>10. Frame' = Frame
  BY <1>9 DEF Frame
<1>11. n \in Frame /\ n[1] = running /\ n[2] = k
  BY <1>1, <1>2, FrameFacts DEF TopFrame
<1>12. FrameOf(n) = Top /\ FrameOf(n)' = told
  BY <1>1, <1>3, <1>5, <1>7, <1>11 DEF FrameOf
<1>13. ASSUME NEW f \in Frame \ {n}
       PROVE  FrameOf(f)' = FrameOf(f)
  <2>1. f[1] \in Thread /\ f[2] \in 1 .. Len(frames[f[1]]) /\ f = <<f[1], f[2]>>
    BY FrameFacts
  <2>2. CASE f[1] = running
    <3>1. f[2] # k
      BY <2>1, <2>2 DEF TopFrame
    <3> QED
      BY <1>5, <1>7, <2>1, <2>2, <3>1 DEF FrameOf
  <2>3. CASE f[1] # running
    BY <1>7, <2>1, <2>3 DEF FrameOf
  <2> QED
    BY <2>2, <2>3
<1> QED
  BY <1>8, <1>9, <1>10, <1>11, <1>12, <1>13 DEF ServiceTypeOK

\* A stack without its top.
LEMMA WithoutTop ==
  ASSUME NEW T, NEW s \in Seq(T), Len(s) > 0, NEW rest, rest = SubSeq(s, 1, Len(s) - 1)
  PROVE  /\ rest \in Seq(T) /\ Len(rest) = Len(s) - 1
         /\ \A i \in 1 .. Len(s) - 1 : rest[i] = s[i]
<1> DEFINE k == Len(s) - 1
<1>1. Len(s) \in Nat /\ k \in Int /\ 1 \in Int /\ \A i \in 1 .. k : s[i] \in T
  OBVIOUS
<1>2. /\ SubSeq(s, 1, k) \in Seq(T)
      /\ Len(SubSeq(s, 1, k)) = IF 1 <= k THEN k - 1 + 1 ELSE 0
      /\ \A i \in 1 .. k - 1 + 1 : SubSeq(s, 1, k)[i] = s[1 + i - 1]
  <2> HIDE DEF k
  <2> QED
    BY <1>1, SubSeqProperties
<1>3. rest = SubSeq(s, 1, k)
  OBVIOUS
<1> HIDE DEF k
<1>4. k \in Nat
  BY <1>1 DEF k
<1>5. Len(rest) = k /\ \A i \in 1 .. k : rest[i] = s[i]
  BY <1>2, <1>3, <1>4
<1> QED
  BY <1>2, <1>3, <1>5 DEF k

\* A handler returns: its frame leaves the stack, and the others stay.
LEMMA ReturnFacts ==
  ASSUME ServiceTypeOK, Len(frames[running]) > 0,
         frames' = [frames EXCEPT ![running] =
                      SubSeq(frames[running], 1, Len(frames[running]) - 1)],
         NEW n, n = TopFrame
  PROVE  /\ frames' \in [Thread -> Seq(FrameType)]
         /\ \A t \in Thread : Len(frames'[t]) <= MaxFrames
         /\ n \in Frame /\ Frame' = Frame \ {n} /\ FrameOf(n) = Top
         /\ \A f \in Frame \ {n} : FrameOf(f)' = FrameOf(f)
<1> DEFINE old == frames[running]
           k == Len(old)
           rest == SubSeq(old, 1, k - 1)
<1>1. /\ running \in Thread /\ frames \in [Thread -> Seq(FrameType)]
      /\ old \in Seq(FrameType) /\ k \in Nat /\ k > 0
      /\ \A t \in Thread : frames[t] \in Seq(FrameType) /\ Len(frames[t]) \in Nat
  BY DEF ServiceTypeOK
<1>2. /\ rest \in Seq(FrameType) /\ Len(rest) = k - 1
      /\ \A i \in 1 .. k - 1 : rest[i] = old[i]
  <2> HIDE DEF old
  <2>1. \A r : r = SubSeq(old, 1, Len(old) - 1) =>
              /\ r \in Seq(FrameType) /\ Len(r) = Len(old) - 1
              /\ \A i \in 1 .. Len(old) - 1 : r[i] = old[i]
    BY <1>1, WithoutTop
  <2> QED
    BY <2>1
<1>3. frames' = [frames EXCEPT ![running] = rest]
  OBVIOUS
<1>4. frames' \in [Thread -> Seq(FrameType)]
  BY <1>1, <1>2, <1>3
<1>5. frames'[running] = rest /\ \A t \in Thread \ {running} : frames'[t] = frames[t]
  BY <1>1, <1>3
<1>6. \A t \in Thread : Len(frames'[t]) <= MaxFrames
  <2>1. Len(frames'[running]) <= MaxFrames
    <3>1. k <= MaxFrames
      BY <1>1 DEF ServiceTypeOK
    <3> QED
      BY <1>1, <1>2, <1>5, <3>1, InterruptsAssumption
  <2>2. \A t \in Thread \ {running} : Len(frames'[t]) <= MaxFrames
    BY <1>5 DEF ServiceTypeOK
  <2> QED
    BY <2>1, <2>2
<1>7. n = <<running, k>> /\ n[1] = running /\ n[2] = k
  BY DEF TopFrame
<1>8. n \in Frame /\ FrameOf(n) = Top
  <2>1. k \in 1 .. k
    BY <1>1
  <2> QED
    BY <1>1, <1>7, <2>1, FrameFacts DEF FrameOf, Top
<1>9. ASSUME NEW f \in Thread \X (1 .. MaxFrames)
      PROVE  f \in Frame' <=> f \in Frame \ {n}
  <2>1. f[1] \in Thread /\ f[2] \in 1 .. MaxFrames /\ f = <<f[1], f[2]>>
    OBVIOUS
  <2>2. CASE f[1] = running
    <3>1. f \in Frame' <=> f[2] <= k - 1
      <4>1. Len(frames'[f[1]]) = k - 1
        BY <1>2, <1>5, <2>2
      <4> QED
        BY <4>1 DEF Frame
    <3>2. f \in Frame <=> f[2] <= k
      BY <2>2 DEF Frame
    <3>3. f = n <=> f[2] = k
      BY <1>7, <2>1, <2>2
    <3> QED
      BY <1>1, <2>1, <3>1, <3>2, <3>3, InterruptsAssumption
  <2>3. CASE f[1] # running
    BY <1>5, <1>7, <2>1, <2>3 DEF Frame
  <2> QED
    BY <2>2, <2>3
<1>10. Frame' = Frame \ {n}
  <2>1. Frame' \subseteq Thread \X (1 .. MaxFrames) /\ Frame \subseteq Thread \X (1 .. MaxFrames)
    BY DEF Frame
  <2> QED
    BY <1>9, <2>1
<1>11. ASSUME NEW f \in Frame \ {n}
       PROVE  FrameOf(f)' = FrameOf(f)
  <2>1. f[1] \in Thread /\ f[2] \in 1 .. Len(frames[f[1]]) /\ f = <<f[1], f[2]>>
    BY FrameFacts
  <2>2. CASE f[1] = running
    <3>1. f[2] # k
      BY <1>7, <2>1, <2>2
    <3>2. f[2] \in 1 .. k - 1
      BY <1>1, <2>1, <2>2, <3>1
    <3> QED
      BY <1>2, <1>5, <2>2, <3>2 DEF FrameOf
  <2>3. CASE f[1] # running
    BY <1>5, <2>1, <2>3 DEF FrameOf
  <2> QED
    BY <2>2, <2>3
<1> QED
  BY <1>4, <1>6, <1>8, <1>10, <1>11

-----------------------------------------------------------------------------
\* What a step keeps that changes no unfinished frame and no line in service.
LEMMA SameService ==
  ASSUME IInv, ServiceTypeOK', UNCHANGED <<in_service, in_service_slave>>,
         Unfinished' = Unfinished, \A f \in Unfinished : FrameOf(f)' = FrameOf(f)
  PROVE  IInv'
<1>1. OfSlave' = OfSlave
  BY DEF OfSlave
<1>2. SlaveUntold' = SlaveUntold
  BY <1>1 DEF SlaveUntold, OfSlave
<1>3. ServiceBalanced'
  BY <1>2 DEF IInv, ServiceBalanced
<1>4. SlaveHandlersExclusive'
  BY <1>1 DEF IInv, SlaveHandlersExclusive
<1>5. CascadeHeld'
  BY <1>1 DEF IInv, CascadeHeld
<1> QED
  BY <1>3, <1>4, <1>5 DEF IInv

\* What an action keeps that changes neither frames nor lines in service.
LEMMA SameFrames ==
  ASSUME IInv, UNCHANGED <<frames, in_service, in_service_slave>>,
         requested' \subseteq Device \cup {Timer}, running' \in Thread,
         unmasked' \in [Thread -> BOOLEAN]
  PROVE  IInv'
<1>1. Frame' = Frame /\ \A f : FrameOf(f)' = FrameOf(f)
  BY DEF Frame, FrameOf
<1>2. Unfinished' = Unfinished
  BY <1>1 DEF Unfinished
<1>3. ServiceTypeOK'
  BY DEF IInv, ServiceTypeOK
<1> QED
  BY <1>1, <1>2, <1>3, SameService

\* The processor takes the interrupt of a device: both sides of the balance
\* gain one, and a slave's line only when no handler of one is unfinished.
LEMMA InterruptKeeps ==
  ASSUME IInv, NEW line \in Device, Interrupt(line)
  PROVE  IInv'
<1> DEFINE n == NewFrame
<1>1. /\ ServiceTypeOK /\ ServiceBalanced /\ SlaveHandlersExclusive /\ CascadeHeld
      /\ line \in {1} \cup 8 .. 15 /\ Vector(line) \in 0 .. 255 /\ Vector(line) = line + 32
  BY InterruptsAssumption DEF IInv, Vector
<1>2. /\ line \in Deliverable /\ Len(frames[running]) < MaxFrames /\ Enter(Vector(line), "handler")
      /\ in_service' = in_service \cup {Input(line)}
      /\ in_service_slave' = IF OnSlave(line) THEN in_service_slave \cup {line} ELSE in_service_slave
      /\ requested' = requested \ {line} /\ running' = running
      /\ unmasked' = [unmasked EXCEPT ![running] = FALSE]
  BY DEF Interrupt, Delivers
<1>3. "handler" \in Stage
  BY DEF Stage
<1>4. PICK m : m = NewFrame
  OBVIOUS
<1>5. /\ frames' \in [Thread -> Seq(FrameType)]
      /\ \A t \in Thread : Len(frames'[t]) <= MaxFrames
      /\ m \notin Frame /\ Frame' = Frame \cup {m}
      /\ \A f \in Frame : FrameOf(f)' = FrameOf(f)
      /\ FrameOf(m)' = [vector |-> Vector(line), stage |-> "handler", saved |-> unmasked[running]]
  BY <1>1, <1>2, <1>3, <1>4, EnterFacts
<1>6. FrameOf(m)'.vector = Vector(line) /\ FrameOf(m)'.stage = "handler"
  BY <1>5
<1>7. Unfinished' = Unfinished \cup {m} /\ m \notin Unfinished
  BY <1>5, <1>6 DEF Unfinished
<1>8. \A f \in Unfinished : FrameOf(f)' = FrameOf(f)
  BY <1>5 DEF Unfinished
<1>9. OfSlave' = IF line = 1 THEN OfSlave ELSE OfSlave \cup {m}
  <2>1. ASSUME NEW f \in Unfinished
        PROVE  f \in OfSlave' <=> f \in OfSlave
    BY <1>7, <1>8 DEF OfSlave
  <2>2. m \in OfSlave' <=> line # 1
    <3>1. Vector(line) >= 40 <=> line # 1
      BY <1>1
    <3> QED
      BY <1>6, <1>7, <3>1 DEF OfSlave
  <2>3. OfSlave' \subseteq Unfinished \cup {m} /\ OfSlave \subseteq Unfinished
    BY <1>7 DEF OfSlave
  <2> QED
    BY <1>7, <2>1, <2>2, <2>3
<1>10. SlaveUntold' = IF line = 1 THEN SlaveUntold ELSE SlaveUntold \cup {m}
  <2>1. ASSUME NEW f \in Unfinished
        PROVE  f \in SlaveUntold' <=> f \in SlaveUntold
    BY <1>7, <1>8 DEF SlaveUntold, OfSlave
  <2>2. m \in SlaveUntold' <=> line # 1
    BY <1>6, <1>7, <1>9 DEF SlaveUntold, OfSlave
  <2>3. SlaveUntold' \subseteq Unfinished \cup {m} /\ SlaveUntold \subseteq Unfinished
    BY <1>7 DEF SlaveUntold, OfSlave
  <2> QED
    BY <1>7, <2>1, <2>2, <2>3
<1>11. m \notin SlaveUntold
  BY <1>7 DEF SlaveUntold, OfSlave
<1>12. Input(line) \notin in_service
  <2>1. \A i \in in_service : Input(line) < i
    BY <1>2 DEF Deliverable
  <2>2. Input(line) \in {1, 2}
    BY <1>1 DEF Input, OnSlave, Cascade
  <2> QED
    BY <2>1, <2>2
<1>13. Cardinality(Unfinished') = Cardinality(in_service')
  <2>1. Cardinality(Unfinished') = Cardinality(Unfinished) + 1
    BY <1>1, <1>7, FiniteSets, FS_AddElement
  <2>2. Cardinality(in_service \cup {Input(line)}) = Cardinality(in_service) + 1
    BY <1>1, <1>12, FiniteSets, FS_AddElement
  <2> QED
    BY <1>1, <1>2, <2>1, <2>2 DEF ServiceBalanced
<1>14. ASSUME line = 1
       PROVE  (ServiceBalanced /\ SlaveHandlersExclusive /\ CascadeHeld)'
  <2>1. ~OnSlave(line)
    BY <1>14 DEF OnSlave
  <2>2. in_service_slave' = in_service_slave
    BY <1>2, <2>1
  <2>3. OfSlave' = OfSlave /\ SlaveUntold' = SlaveUntold
    BY <1>9, <1>10, <1>14
  <2>4. ServiceBalanced'
    BY <1>1, <1>13, <2>2, <2>3 DEF ServiceBalanced
  <2>5. SlaveHandlersExclusive'
    BY <1>1, <2>3 DEF SlaveHandlersExclusive
  <2>6. CascadeHeld'
    BY <1>1, <1>2, <2>3 DEF CascadeHeld
  <2> QED
    BY <2>4, <2>5, <2>6
<1>15. ASSUME line # 1
       PROVE  (ServiceBalanced /\ SlaveHandlersExclusive /\ CascadeHeld)'
  <2>1. OnSlave(line) /\ Input(line) = Cascade
    BY <1>1, <1>15 DEF OnSlave, Input
  <2>2. in_service_slave' = in_service_slave \cup {line}
    BY <1>2, <2>1
  <2>3. line \notin in_service_slave
    <3>1. \A i \in in_service_slave : line < i
      BY <1>2, <2>1 DEF Deliverable
    <3> QED
      BY <1>1, <3>1
  <2>4. OfSlave = {}
    BY <1>1, <1>12, <2>1 DEF CascadeHeld
  <2>5. OfSlave' = {m}
    BY <1>9, <1>15, <2>4
  <2>6. Cardinality(SlaveUntold') = Cardinality(SlaveUntold) + 1
    <3>1. SlaveUntold' = SlaveUntold \cup {m}
      BY <1>10, <1>15
    <3> QED
      BY <1>1, <1>11, <3>1, FiniteSets, FS_AddElement
  <2>7. Cardinality(in_service_slave') = Cardinality(in_service_slave) + 1
    BY <1>1, <2>2, <2>3, FiniteSets, FS_AddElement
  <2>8. ServiceBalanced'
    BY <1>1, <1>13, <2>6, <2>7 DEF ServiceBalanced
  <2>9. SlaveHandlersExclusive'
    BY <2>5 DEF SlaveHandlersExclusive
  <2>10. CascadeHeld'
    BY <1>2, <2>1 DEF CascadeHeld
  <2> QED
    BY <2>8, <2>9, <2>10
<1>16. (ServiceBalanced /\ SlaveHandlersExclusive /\ CascadeHeld)'
  BY <1>14, <1>15
<1>17. ServiceTypeOK'
  <2>1. Input(line) \in {1, Cascade}
    BY <1>1 DEF Input, OnSlave
  <2>2. in_service' \subseteq {1, Cascade}
    BY <1>1, <1>2, <2>1 DEF ServiceTypeOK
  <2>3. in_service_slave' \subseteq 8 .. 15
    <3>1. OnSlave(line) => line \in 8 .. 15
      BY <1>1 DEF OnSlave
    <3> QED
      BY <1>1, <1>2, <3>1 DEF ServiceTypeOK
  <2>4. requested' \subseteq Device \cup {Timer} /\ running' \in Thread /\ unmasked' \in [Thread -> BOOLEAN]
    BY <1>1, <1>2 DEF ServiceTypeOK
  <2> QED
    BY <1>5, <2>2, <2>3, <2>4 DEF ServiceTypeOK
<1> QED
  BY <1>16, <1>17 DEF IInv

\* scheduler_interrupt: its EOI ends its own line, the highest of all.
LEMMA TickKeeps ==
  ASSUME IInv, Tick
  PROVE  IInv'
<1>1. in_service \subseteq {1, Cascade} /\ requested \subseteq Device \cup {Timer}
  BY DEF IInv, ServiceTypeOK
<1>2. AfterEoi(in_service \cup {Timer}) = in_service
  <2>1. in_service \cup {Timer} \in SUBSET Nat /\ Timer \in in_service \cup {Timer}
    BY <1>1 DEF Timer, Cascade
  <2>2. \A k \in in_service \cup {Timer} : Timer <= k
    BY <1>1 DEF Timer, Cascade
  <2>3. Timer \notin in_service
    BY <1>1 DEF Timer, Cascade
  <2>4. AfterEoi(in_service \cup {Timer}) = (in_service \cup {Timer}) \ {Timer}
    BY <2>1, <2>2, EoiEndsOne
  <2> QED
    BY <2>3, <2>4
<1>3. UNCHANGED <<frames, in_service, in_service_slave>> /\ running' \in Thread
  BY <1>2 DEF Tick
<1>4. requested' \subseteq Device \cup {Timer}
  BY <1>1 DEF Tick
<1>5. unmasked' \in [Thread -> BOOLEAN]
  BY DEF Tick, IInv, ServiceTypeOK
<1> QED
  BY <1>3, <1>4, <1>5, SameFrames

\* irq_handler tells the slave: both sides of the slave's balance lose one.
LEMMA EndSlaveKeeps ==
  ASSUME IInv, EndSlave
  PROVE  IInv'
<1>1. /\ ServiceTypeOK /\ ServiceBalanced /\ SlaveHandlersExclusive /\ CascadeHeld
      /\ Len(frames[running]) > 0 /\ Top.stage = "handler" /\ Top.vector >= 40
      /\ Reach("told") /\ in_service_slave' = AfterEoi(in_service_slave)
      /\ UNCHANGED <<requested, in_service, unmasked, running>>
  BY DEF IInv, EndSlave, In
<1>2. "told" \in Stage
  BY DEF Stage
<1>3. PICK n : n = TopFrame
  OBVIOUS
<1>4. /\ frames' \in [Thread -> Seq(FrameType)]
      /\ \A t \in Thread : Len(frames'[t]) <= MaxFrames
      /\ n \in Frame /\ Frame' = Frame /\ FrameOf(n) = Top
      /\ \A f \in Frame \ {n} : FrameOf(f)' = FrameOf(f)
      /\ FrameOf(n)' = [vector |-> Top.vector, stage |-> "told", saved |-> Top.saved]
  BY <1>1, <1>2, <1>3, ReachFacts
<1>5. FrameOf(n)'.vector = FrameOf(n).vector /\ FrameOf(n)'.stage = "told"
  <2>1. FrameOf(n)'.vector = Top.vector
    BY <1>4
  <2>2. FrameOf(n)'.stage = "told"
    BY <1>4
  <2> QED
    BY <1>4, <2>1, <2>2
<1>6. n \in Unfinished /\ n \in OfSlave /\ n \in SlaveUntold
  BY <1>1, <1>4 DEF Unfinished, OfSlave, SlaveUntold
<1>7. Unfinished' = Unfinished
  BY <1>4, <1>5, <1>6 DEF Unfinished
<1>8. OfSlave' = OfSlave
  <2>1. \A f \in Unfinished : FrameOf(f)'.vector = FrameOf(f).vector
    BY <1>4, <1>5 DEF Unfinished
  <2> QED
    BY <1>7, <2>1 DEF OfSlave
<1>9. SlaveUntold' = SlaveUntold \ {n}
  <2>1. \A f \in OfSlave \ {n} : FrameOf(f)' = FrameOf(f)
    BY <1>4 DEF OfSlave, Unfinished
  <2>2. \A f \in OfSlave : f \in SlaveUntold' <=> FrameOf(f)'.stage = "handler"
    BY <1>8 DEF SlaveUntold
  <2>3. n \notin SlaveUntold'
    BY <1>5 DEF SlaveUntold
  <2>4. SlaveUntold' \subseteq OfSlave
    BY <1>8 DEF SlaveUntold
  <2>5. \A f \in OfSlave \ {n} : f \in SlaveUntold' <=> f \in SlaveUntold
    BY <2>1, <2>2 DEF SlaveUntold
  <2>6. SlaveUntold \subseteq OfSlave
    BY DEF SlaveUntold
  <2> QED
    BY <2>3, <2>4, <2>5, <2>6
<1>10. Cardinality(SlaveUntold') = Cardinality(SlaveUntold) - 1
  BY <1>1, <1>6, <1>9, FiniteSets, FS_RemoveElement
<1>11. in_service_slave # {}
  BY <1>1, <1>6, FiniteSets, FS_EmptySet DEF ServiceBalanced
<1>12. in_service_slave \in SUBSET (0 .. 15) /\ in_service_slave \subseteq 8 .. 15
  <2>1. in_service_slave \subseteq 8 .. 15
    BY <1>1 DEF ServiceTypeOK
  <2>2. \A i \in 8 .. 15 : i \in 0 .. 15
    OBVIOUS
  <2> QED
    BY <2>1, <2>2
<1>13. Cardinality(in_service_slave') = Cardinality(in_service_slave) - 1
  BY <1>1, <1>11, <1>12, FiniteSets, EoiCounts
<1>14. ServiceBalanced'
  BY <1>1, <1>7, <1>10, <1>13 DEF ServiceBalanced
<1>15. SlaveHandlersExclusive'
  BY <1>1, <1>8 DEF SlaveHandlersExclusive
<1>16. CascadeHeld'
  BY <1>1, <1>8 DEF CascadeHeld
<1>17. ServiceTypeOK'
  <2>1. in_service_slave' \subseteq 8 .. 15
    BY <1>1, <1>12 DEF AfterEoi
  <2> QED
    BY <1>1, <1>4, <2>1 DEF ServiceTypeOK
<1> QED
  BY <1>14, <1>15, <1>16, <1>17 DEF IInv

\* irq_handler tells the primary: when another handler of a slave's line is left,
\* both lines were in service, and the EOI ended the keyboard's.
LEMMA EndPrimaryKeeps ==
  ASSUME IInv, EndPrimary
  PROVE  IInv'
<1>1. /\ ServiceTypeOK /\ ServiceBalanced /\ SlaveHandlersExclusive /\ CascadeHeld
      /\ Len(frames[running]) > 0 /\ Top.stage # "over"
      /\ Top.stage = "handler" => ~(Top.vector >= 40)
      /\ Reach("over") /\ in_service' = AfterEoi(in_service)
      /\ UNCHANGED <<requested, in_service_slave, unmasked, running>>
  <2>1. Top \in FrameType
    <3>1. frames[running] \in Seq(FrameType) /\ Len(frames[running]) > 0
      BY DEF IInv, ServiceTypeOK, EndPrimary, In
    <3> QED
      BY <3>1 DEF Top
  <2>2. Top.vector \in Int
    BY <2>1 DEF FrameType
  <2>3. ~(Top.vector < 40 /\ Top.vector >= 40)
    BY <2>2
  <2>4. Top.stage # "over" /\ (Top.stage = "handler" => ~(Top.vector >= 40)) /\ Len(frames[running]) > 0
    BY <2>3 DEF EndPrimary, In
  <2> QED
    BY <2>4 DEF IInv, EndPrimary
<1>2. "over" \in Stage
  BY DEF Stage
<1>3. PICK n : n = TopFrame
  OBVIOUS
<1>4. /\ frames' \in [Thread -> Seq(FrameType)]
      /\ \A t \in Thread : Len(frames'[t]) <= MaxFrames
      /\ n \in Frame /\ Frame' = Frame /\ FrameOf(n) = Top
      /\ \A f \in Frame \ {n} : FrameOf(f)' = FrameOf(f)
      /\ FrameOf(n)' = [vector |-> Top.vector, stage |-> "over", saved |-> Top.saved]
  BY <1>1, <1>2, <1>3, ReachFacts
<1>5. FrameOf(n)'.stage = "over"
  BY <1>4
<1>6. n \in Unfinished /\ n \notin SlaveUntold
  BY <1>1, <1>4 DEF Unfinished, OfSlave, SlaveUntold
<1>7. Unfinished' = Unfinished \ {n}
  BY <1>4, <1>5 DEF Unfinished
<1>8. OfSlave' = OfSlave \ {n}
  <2>1. \A f \in Unfinished \ {n} : FrameOf(f)' = FrameOf(f)
    BY <1>4 DEF Unfinished
  <2> QED
    BY <1>7, <2>1 DEF OfSlave
<1>9. SlaveUntold' = SlaveUntold
  <2>1. \A f \in OfSlave \ {n} : FrameOf(f)' = FrameOf(f)
    BY <1>4 DEF OfSlave, Unfinished
  <2> QED
    BY <1>6, <1>8, <2>1 DEF SlaveUntold
<1>10. Cardinality(Unfinished') = Cardinality(Unfinished) - 1
  BY <1>1, <1>6, <1>7, FiniteSets, FS_RemoveElement
<1>11. in_service # {}
  BY <1>1, <1>6, FiniteSets, FS_EmptySet DEF ServiceBalanced
<1>12. in_service \in SUBSET (0 .. 15) /\ in_service \subseteq {1, 2}
  BY <1>1 DEF ServiceTypeOK, Cascade
<1>13. Cardinality(in_service') = Cardinality(in_service) - 1
  BY <1>1, <1>11, <1>12, FiniteSets, EoiCounts
<1>14. ServiceBalanced'
  BY <1>1, <1>9, <1>10, <1>13 DEF ServiceBalanced
<1>15. SlaveHandlersExclusive'
  BY <1>1, <1>8 DEF SlaveHandlersExclusive
<1>16. CascadeHeld'
  <2> SUFFICES ASSUME NEW f \in OfSlave, f # n
               PROVE  2 \in in_service'
    BY <1>8 DEF CascadeHeld, Cascade
  <2>1. 2 \in in_service
    BY <1>1 DEF CascadeHeld, Cascade
  <2>2. f \in Unfinished'
    BY <1>7 DEF OfSlave
  <2>3. Cardinality(in_service') # 0
    <3>1. IsFiniteSet(Unfinished')
      BY <1>1, <1>7, FiniteSets, FS_Subset
    <3>2. Cardinality(Unfinished') # 0
      BY <2>2, <3>1, FS_EmptySet
    <3> QED
      BY <1>14, <3>2 DEF ServiceBalanced
  <2>4. in_service' # {}
    BY <2>3, FS_EmptySet
  <2>5. PICK l \in in_service : \E k \in in_service : k < l
    BY <1>1, <2>4 DEF AfterEoi
  <2>6. l = 2
    BY <1>12, <2>5
  <2> QED
    BY <1>1, <2>5, <2>6 DEF AfterEoi
<1>17. ServiceTypeOK'
  <2>1. in_service' \subseteq {1, Cascade}
    BY <1>1, <1>12 DEF AfterEoi, Cascade
  <2> QED
    BY <1>1, <1>4, <2>1 DEF ServiceTypeOK
<1> QED
  BY <1>14, <1>15, <1>16, <1>17 DEF IInv

\* An exception that is not fatal pushes a frame the controllers know nothing of.
LEMMA ExceptionKeeps ==
  ASSUME IInv, NEW vector \in Exceptions, Exception(vector)
  PROVE  IInv'
<1>1. ServiceTypeOK /\ vector \in 0 .. 255
  BY InterruptsAssumption DEF IInv
<1>2. UNCHANGED <<requested, in_service, in_service_slave, running>>
  BY DEF Exception, service
<1>3. CASE vector \in Fatal
  <2>1. UNCHANGED <<frames, unmasked>>
    BY <1>3 DEF Exception
  <2> QED
    BY <1>1, <1>2, <2>1, SameFrames DEF ServiceTypeOK
<1>4. CASE vector \notin Fatal
  <2>1. /\ Enter(vector, "over") /\ Len(frames[running]) < MaxFrames
        /\ unmasked' = [unmasked EXCEPT ![running] = TRUE]
    BY <1>4 DEF Exception
  <2>2. "over" \in Stage
    BY DEF Stage
  <2>3. PICK n : n = NewFrame
    OBVIOUS
  <2>4. /\ frames' \in [Thread -> Seq(FrameType)]
        /\ \A t \in Thread : Len(frames'[t]) <= MaxFrames
        /\ n \notin Frame /\ Frame' = Frame \cup {n}
        /\ \A f \in Frame : FrameOf(f)' = FrameOf(f)
        /\ FrameOf(n)' = [vector |-> vector, stage |-> "over", saved |-> unmasked[running]]
    BY <1>1, <2>1, <2>2, <2>3, EnterFacts
  <2>5. FrameOf(n)'.stage = "over"
    BY <2>4
  <2>6. Unfinished' = Unfinished
    BY <2>4, <2>5 DEF Unfinished
  <2>7. unmasked' \in [Thread -> BOOLEAN]
    BY <1>1, <2>1 DEF ServiceTypeOK
  <2>8. ServiceTypeOK'
    BY <1>1, <1>2, <2>4, <2>7 DEF ServiceTypeOK
  <2>9. \A f \in Unfinished : FrameOf(f)' = FrameOf(f)
    BY <2>4 DEF Unfinished
  <2> QED
    BY <1>2, <2>6, <2>8, <2>9, SameService
<1> QED
  BY <1>3, <1>4

\* iretd pops the frame of a handler that is over.
LEMMA IretKeeps ==
  ASSUME IInv, Iret
  PROVE  IInv'
<1>1. /\ ServiceTypeOK /\ Len(frames[running]) > 0 /\ Top.stage = "over"
      /\ UNCHANGED <<requested, in_service, in_service_slave, running>>
      /\ unmasked' = [unmasked EXCEPT ![running] = Top.saved]
  BY DEF IInv, Iret, In, service
<1>2. frames' = [frames EXCEPT ![running] =
                   SubSeq(frames[running], 1, Len(frames[running]) - 1)]
  BY DEF Iret
<1>3. PICK n : n = TopFrame
  OBVIOUS
<1>4. /\ frames' \in [Thread -> Seq(FrameType)]
      /\ \A t \in Thread : Len(frames'[t]) <= MaxFrames
      /\ n \in Frame /\ Frame' = Frame \ {n} /\ FrameOf(n) = Top
      /\ \A f \in Frame \ {n} : FrameOf(f)' = FrameOf(f)
  BY <1>1, <1>2, <1>3, ReturnFacts
<1>5. n \notin Unfinished
  BY <1>1, <1>4 DEF Unfinished
<1>6. Unfinished' = Unfinished
  BY <1>4, <1>5 DEF Unfinished
<1>7. \A f \in Unfinished : FrameOf(f)' = FrameOf(f)
  BY <1>4, <1>5 DEF Unfinished
<1>8. Top.saved \in BOOLEAN
  <2>1. Top \in FrameType
    BY <1>1, <1>4, FrameFacts
  <2> QED
    BY <2>1 DEF FrameType
<1>9. ServiceTypeOK'
  BY <1>1, <1>4, <1>8 DEF ServiceTypeOK
<1> QED
  BY <1>1, <1>6, <1>7, <1>9, SameService

-----------------------------------------------------------------------------
\* When init_descriptor_tables returns, no interrupt has been taken.
LEMMA InitHolds ==
  ASSUME InterruptsInit
  PROVE  IInv
<1>1. Frame = {}
  <2>1. \A t \in Thread : Len(frames[t]) = 0
    BY DEF InterruptsInit
  <2> QED
    BY <2>1, InterruptsAssumption DEF Frame
<1>2. Unfinished = {} /\ OfSlave = {} /\ SlaveUntold = {}
  BY <1>1 DEF Unfinished, OfSlave, SlaveUntold
<1>3. ServiceTypeOK
  <2>1. \A t \in Thread : frames[t] = <<>> /\ <<>> \in Seq(FrameType) /\ Len(<<>>) <= MaxFrames
    BY InterruptsAssumption DEF InterruptsInit
  <2>2. frames \in [Thread -> Seq(FrameType)]
    BY <2>1 DEF InterruptsInit
  <2>3. unmasked \in [Thread -> BOOLEAN] /\ running \in Thread
    BY InterruptsAssumption DEF InterruptsInit
  <2> QED
    BY <2>1, <2>2, <2>3 DEF InterruptsInit, ServiceTypeOK
<1> QED
  BY <1>2, <1>3, FS_EmptySet
  DEF InterruptsInit, IInv, ServiceBalanced, SlaveHandlersExclusive, CascadeHeld

\* No step of the controllers, the processor or a thread breaks the invariant.
LEMMA StepKeeps ==
  ASSUME IInv, [InterruptsNext]_interruptVars
  PROVE  IInv'
<1>1. /\ requested \subseteq Device \cup {Timer} /\ running \in Thread
      /\ unmasked \in [Thread -> BOOLEAN]
  BY DEF IInv, ServiceTypeOK
<1>2. CASE UNCHANGED interruptVars
  BY <1>1, <1>2, SameFrames DEF interruptVars, service
<1>3. ASSUME NEW l \in Device \cup {Timer}, Raise(l) PROVE IInv'
  BY <1>1, <1>3, SameFrames DEF Raise
<1>4. ASSUME NEW v \in Drivers, Register(v) PROVE IInv'
  BY <1>1, <1>4, SameFrames DEF Register, service
<1>5. CASE Wake
  BY <1>1, <1>5, SameFrames DEF Wake, service
<1>6. CASE SetFlag
  <2>1. unmasked' \in [Thread -> BOOLEAN]
    BY <1>1, <1>6 DEF SetFlag
  <2> QED
    BY <1>1, <1>6, <2>1, SameFrames DEF SetFlag, service
<1>7. CASE Yield
  BY <1>1, <1>7, SameFrames DEF Yield, service
<1> QED
  BY <1>2, <1>3, <1>4, <1>5, <1>6, <1>7, InterruptKeeps, TickKeeps, EndSlaveKeeps,
     EndPrimaryKeeps, ExceptionKeeps, IretKeeps
  DEF InterruptsNext

\* Every reachable state satisfies the invariant.
THEOREM Invariance == InterruptsSpec => []IInv
<1>1. InterruptsInit => IInv
  BY InitHolds
<1>2. IInv /\ [InterruptsNext]_interruptVars => IInv'
  BY StepKeeps
<1> QED
  BY <1>1, <1>2, PTL DEF InterruptsSpec

\* For every set of devices on the slave controller and of threads: the
\* controllers have as many lines in service as handlers have an EOI left to
\* write, and two handlers of the slave's lines are never under way together
\* (irq_handler and scheduler_interrupt).
THEOREM InterruptsAlwaysSound == InterruptsSpec => []InterruptsSound
<1>1. IInv => InterruptsSound
  BY DEF IInv, InterruptsSound
<1> QED
  BY <1>1, Invariance, PTL

-----------------------------------------------------------------------------
(* Keys *)

\* The flags after the daemon has dealt with a code that the table has.
AfterCode(f, byte) ==
  IF byte < 128
    THEN Toggled(f \cup ModifierOf(_kybrd_scancode_std(byte)), LockOf(_kybrd_scancode_std(byte)))
    ELSE f \ ModifierOf(_kybrd_scancode_std(byte - 128))

\* What a key is with the flags f.
AsciiWith(f, key) ==
  IF \/ key = "letter" /\ ("shift" \in f) # ("caps" \in f)
     \/ key \in {"digit", "sign"} /\ "shift" \in f
    THEN "upper" ELSE "lower"

\* coming[i] are the flags after i of the queued codes: the last ones are what
\* the keys and the user say, and every key was meant as the flags before it.
Foretells(coming) ==
  /\ DOMAIN coming = 0 .. Len(keycodes) /\ coming[0] = flags
  /\ \A i \in 1 .. Len(keycodes) :
       /\ coming[i] = AfterCode(coming[i - 1], keycodes[i].byte)
       /\ keycodes[i].byte < 128 =>
            keycodes[i].meant = AsciiWith(coming[i - 1], _kybrd_scancode_std(keycodes[i].byte))
  /\ coming[Len(keycodes)] \cap Modifier = ModifiersHeld
  /\ "caps" \in coming[Len(keycodes)] <=> capitals

\* locked[i]: whether capitals are locked after i of the queued codes.
ForetellsLock(locked) ==
  /\ locked \in [0 .. Len(keycodes) -> BOOLEAN] /\ (locked[0] <=> "caps" \in flags)
  /\ \A i \in 1 .. Len(keycodes) : locked[i] <=> (locked[i - 1] <=> keycodes[i].byte # 58)
  /\ locked[Len(keycodes)] <=> capitals

Code == [byte : 1 .. 255, meant : {"upper", "lower"}]

DecodeTyped ==
  /\ down \subseteq Codes /\ capitals \in BOOLEAN /\ keycodes \in Seq(Code)

\* No modifier is held with two keys.
OneKeyEach ==
  \A c, d \in down :
    ModifierOf(_kybrd_scancode_std(c)) \cap ModifierOf(_kybrd_scancode_std(d)) # {} => c = d

PassedAsMeant ==
  passed # <<>> => AsciiWith(flags, passed[1].key) = passed[1].meant

DecodeInv ==
  /\ DecodeTyped
  /\ stray = {} => OneKeyEach /\ PassedAsMeant /\ \E coming : Foretells(coming)
  /\ stray \cap {"dropped", "make"} = {} => \E locked : ForetellsLock(locked)

-----------------------------------------------------------------------------
LEMMA TableFacts ==
  ASSUME NEW c \in Nat
  PROVE  /\ LockOf(_kybrd_scancode_std(c)) \subseteq {"caps", "num", "scroll"}
         /\ ModifierOf(_kybrd_scancode_std(c)) \subseteq Modifier
         /\ "caps" \in LockOf(_kybrd_scancode_std(c)) <=> c = 58
         /\ _kybrd_scancode_std(c) \in {"letter", "digit", "sign"} =>
              LockOf(_kybrd_scancode_std(c)) = {} /\ ModifierOf(_kybrd_scancode_std(c)) = {}
<1>1. _kybrd_scancode_std(c) = "CAPSLOCK" <=> c = 58
  BY DEF _kybrd_scancode_std, Letters, Digits, Signs
<1>2. _kybrd_scancode_std(c) \in Key
  BY DEF _kybrd_scancode_std, Key
<1>3. \A key \in Key : /\ LockOf(key) \subseteq {"caps", "num", "scroll"} /\ ModifierOf(key) \subseteq Modifier
                       /\ "caps" \in LockOf(key) <=> key = "CAPSLOCK"
                       /\ key \in {"letter", "digit", "sign"} => LockOf(key) = {} /\ ModifierOf(key) = {}
  BY DEF Key, LockOf, ModifierOf, Modifier
<1> QED BY <1>1, <1>2, <1>3

LEMMA AfterPress ==
  ASSUME NEW f, NEW c \in 1 .. 127
  PROVE  /\ AfterCode(f, c) \cap Modifier = (f \cap Modifier) \cup ModifierOf(_kybrd_scancode_std(c))
         /\ "caps" \in AfterCode(f, c) <=> ("caps" \in f <=> c # 58)
<1> DEFINE key == _kybrd_scancode_std(c)
<1>1. /\ LockOf(key) \subseteq {"caps", "num", "scroll"} /\ ModifierOf(key) \subseteq Modifier
      /\ "caps" \in LockOf(key) <=> c = 58
  BY TableFacts
<1>2. AfterCode(f, c) = Toggled(f \cup ModifierOf(key), LockOf(key))
  BY DEF AfterCode
<1> HIDE DEF key
<1>3. \A m \in Modifier : m \in AfterCode(f, c) <=> m \in f \/ m \in ModifierOf(key)
  BY <1>1, <1>2 DEF Toggled, Modifier
<1>4. "caps" \in AfterCode(f, c) <=> ("caps" \in f <=> c # 58)
  BY <1>1, <1>2 DEF Toggled, Modifier
<1> QED BY <1>1, <1>3, <1>4 DEF key

LEMMA AfterRelease ==
  ASSUME NEW f, NEW c \in 0 .. 127
  PROVE  /\ AfterCode(f, c + 128) = f \ ModifierOf(_kybrd_scancode_std(c))
         /\ "caps" \in AfterCode(f, c + 128) <=> "caps" \in f
<1>1. AfterCode(f, c + 128) = f \ ModifierOf(_kybrd_scancode_std(c))
  BY (c + 128) - 128 = c, ~(c + 128 < 128) DEF AfterCode
<1>2. ModifierOf(_kybrd_scancode_std(c)) \subseteq Modifier
  BY TableFacts
<1> QED BY <1>1, <1>2 DEF Modifier

\* The codes before a new one stay as foretold.
LEMMA OneMoreForetold ==
  ASSUME DecodeTyped, NEW coming, Foretells(coming), NEW e \in Code,
         keycodes' = Append(keycodes, e), flags' = flags,
         e.byte < 128 => e.meant = AsciiWith(coming[Len(keycodes)], _kybrd_scancode_std(e.byte)),
         AfterCode(coming[Len(keycodes)], e.byte) \cap Modifier = ModifiersHeld',
         "caps" \in AfterCode(coming[Len(keycodes)], e.byte) <=> capitals'
  PROVE  (\E more : Foretells(more))'
<1>1. PICK n : n = Len(keycodes)
  OBVIOUS
<1>2. PICK more : more = [i \in 0 .. n + 1 |-> IF i = n + 1 THEN AfterCode(coming[n], e.byte) ELSE coming[i]]
  OBVIOUS
<1>3. keycodes \in Seq(Code) /\ n \in Nat
  BY <1>1 DEF DecodeTyped
<1>4. /\ Len(keycodes') = n + 1 /\ keycodes'[n + 1] = e
      /\ \A i \in 1 .. n : keycodes'[i] = keycodes[i]
  BY <1>1, <1>3
<1>5. DOMAIN more = 0 .. Len(keycodes') /\ more[0] = flags' /\ more[n + 1] = AfterCode(coming[n], e.byte)
      /\ \A i \in 0 .. n : more[i] = coming[i]
  BY <1>1, <1>2, <1>3, <1>4 DEF Foretells
<1>6. ASSUME NEW i \in 1 .. Len(keycodes')
      PROVE  /\ more[i] = AfterCode(more[i - 1], keycodes'[i].byte)
             /\ keycodes'[i].byte < 128 =>
                  keycodes'[i].meant = AsciiWith(more[i - 1], _kybrd_scancode_std(keycodes'[i].byte))
  <2>1. CASE i = n + 1
    <3>1. (n + 1) - 1 = n /\ n \in 0 .. n
      BY <1>3
    <3>2. more[i - 1] = coming[n] /\ more[i] = AfterCode(coming[n], e.byte) /\ keycodes'[i] = e
      BY <1>4, <1>5, <2>1, <3>1
    <3> QED BY <1>1, <3>2
  <2>2. CASE i # n + 1
    <3>1. i \in 1 .. n /\ i - 1 \in 0 .. n /\ i \in 0 .. n
      BY <1>3, <1>4, <2>2
    <3>2. more[i - 1] = coming[i - 1] /\ more[i] = coming[i] /\ keycodes'[i] = keycodes[i]
      BY <1>4, <1>5, <3>1
    <3> QED BY <1>1, <3>1, <3>2 DEF Foretells
  <2> QED BY <2>1, <2>2
<1>7. Foretells(more)'
  BY <1>1, <1>4, <1>5, <1>6 DEF Foretells
<1> QED BY <1>7

LEMMA OneMoreLocked ==
  ASSUME DecodeTyped, NEW locked, ForetellsLock(locked), NEW e \in Code,
         keycodes' = Append(keycodes, e), flags' = flags,
         capitals' = (capitals <=> e.byte # 58)
  PROVE  (\E more : ForetellsLock(more))'
<1>1. PICK n : n = Len(keycodes)
  OBVIOUS
<1>2. PICK more : more = [i \in 0 .. n + 1 |-> IF i = n + 1 THEN locked[n] <=> e.byte # 58 ELSE locked[i]]
  OBVIOUS
<1>3. keycodes \in Seq(Code) /\ n \in Nat
  BY <1>1 DEF DecodeTyped
<1>4. /\ Len(keycodes') = n + 1 /\ keycodes'[n + 1] = e
      /\ \A i \in 1 .. n : keycodes'[i] = keycodes[i]
  BY <1>1, <1>3
<1>5. /\ more \in [0 .. Len(keycodes') -> BOOLEAN] /\ more[n + 1] = (locked[n] <=> e.byte # 58)
      /\ \A i \in 0 .. n : more[i] = locked[i]
  <2>1. locked \in [0 .. n -> BOOLEAN]
    BY <1>1 DEF ForetellsLock
  <2>2. \A i \in 0 .. n : i \in 0 .. n + 1 /\ i # n + 1
    BY <1>3
  <2>3. n + 1 \in 0 .. n + 1 /\ Len(keycodes') = n + 1 /\ \A i \in 0 .. n + 1 : i # n + 1 => i \in 0 .. n
    BY <1>3, <1>4
  <2>4. more[n + 1] = (locked[n] <=> e.byte # 58)
    BY <1>2, <2>3
  <2>5. \A i \in 0 .. n : more[i] = locked[i]
    BY <1>2, <2>2
  <2>6. DOMAIN more = 0 .. n + 1 /\ \A i \in 0 .. n + 1 : more[i] \in BOOLEAN
    <3>1. ASSUME NEW i \in 0 .. n + 1 PROVE more[i] \in BOOLEAN
      <4>1. CASE i = n + 1
        BY <2>4, <4>1
      <4>2. CASE i # n + 1
        BY <2>1, <2>3, <2>5, <4>2
      <4> QED BY <4>1, <4>2
    <3> QED BY <1>2, <3>1
  <2>7. more \in [0 .. n + 1 -> BOOLEAN]
    BY <1>2, <2>6
  <2> QED BY <2>3, <2>4, <2>5, <2>7
<1>6. ASSUME NEW i \in 1 .. Len(keycodes')
      PROVE  more[i] <=> (more[i - 1] <=> keycodes'[i].byte # 58)
  <2>1. CASE i = n + 1
    <3>1. (n + 1) - 1 = n /\ n \in 0 .. n
      BY <1>3
    <3>2. more[i - 1] = locked[n] /\ keycodes'[i] = e
      BY <1>4, <1>5, <2>1, <3>1
    <3>3. more[i] = (locked[n] <=> e.byte # 58)
      BY <1>5, <2>1
    <3> QED BY <3>2, <3>3
  <2>2. CASE i # n + 1
    <3>1. i \in 1 .. n /\ i - 1 \in 0 .. n /\ i \in 0 .. n
      BY <1>3, <1>4, <2>2
    <3>2. more[i - 1] = locked[i - 1] /\ more[i] = locked[i] /\ keycodes'[i] = keycodes[i]
      BY <1>4, <1>5, <3>1
    <3> QED BY <1>1, <3>1, <3>2 DEF ForetellsLock
  <2> QED BY <2>1, <2>2
<1>7. more[0] <=> "caps" \in flags'
  BY <1>1, <1>3, <1>5 DEF ForetellsLock
<1>8. more[Len(keycodes')] <=> capitals'
  BY <1>1, <1>4, <1>5 DEF ForetellsLock
<1>9. ForetellsLock(more)'
  BY <1>1, <1>5, <1>6, <1>7, <1>8 DEF ForetellsLock
<1> QED BY <1>9

\* The codes behind the one that is dealt with stay as foretold.
LEMMA OneLessForetold ==
  ASSUME DecodeTyped, NEW coming, Foretells(coming), keycodes # <<>>,
         keycodes' = Tail(keycodes), flags' = coming[1],
         UNCHANGED <<down, capitals>>
  PROVE  (\E less : Foretells(less))'
<1>1. PICK n : n = Len(keycodes)
  OBVIOUS
<1>2. PICK less : less = [i \in 0 .. n - 1 |-> coming[i + 1]]
  OBVIOUS
<1>3. keycodes \in Seq(Code) /\ n \in Nat /\ n > 0
  BY <1>1, EmptySeq DEF DecodeTyped
<1>4. Len(keycodes') = n - 1 /\ \A i \in 1 .. n - 1 : keycodes'[i] = keycodes[i + 1]
  BY <1>1, <1>3
<1>5. DOMAIN less = 0 .. Len(keycodes') /\ less[0] = flags' /\ less[n - 1] = coming[n]
      /\ \A i \in 0 .. n - 1 : less[i] = coming[i + 1]
  BY <1>1, <1>2, <1>3, <1>4
<1>6. ASSUME NEW i \in 1 .. Len(keycodes')
      PROVE  /\ less[i] = AfterCode(less[i - 1], keycodes'[i].byte)
             /\ keycodes'[i].byte < 128 =>
                  keycodes'[i].meant = AsciiWith(less[i - 1], _kybrd_scancode_std(keycodes'[i].byte))
  <2>1. i + 1 \in 1 .. n /\ (i + 1) - 1 = i /\ i - 1 \in 0 .. n - 1 /\ i \in 0 .. n - 1 /\ (i - 1) + 1 = i
    BY <1>3, <1>4
  <2>2. less[i] = coming[i + 1] /\ less[i - 1] = coming[i] /\ keycodes'[i] = keycodes[i + 1]
    BY <1>3, <1>4, <1>5, <2>1
  <2> QED BY <1>1, <2>1, <2>2 DEF Foretells
<1>7. ModifiersHeld' = ModifiersHeld
  BY DEF ModifiersHeld
<1>8. Foretells(less)'
  BY <1>1, <1>4, <1>5, <1>6, <1>7 DEF Foretells
<1> QED BY <1>8

LEMMA OneLessLocked ==
  ASSUME DecodeTyped, NEW locked, ForetellsLock(locked), keycodes # <<>>,
         keycodes' = Tail(keycodes), locked[1] <=> "caps" \in flags', capitals' = capitals
  PROVE  (\E less : ForetellsLock(less))'
<1>1. PICK n : n = Len(keycodes)
  OBVIOUS
<1>2. PICK less : less = [i \in 0 .. n - 1 |-> locked[i + 1]]
  OBVIOUS
<1>3. keycodes \in Seq(Code) /\ n \in Nat /\ n > 0
  BY <1>1, EmptySeq DEF DecodeTyped
<1>4. Len(keycodes') = n - 1 /\ \A i \in 1 .. n - 1 : keycodes'[i] = keycodes[i + 1]
  BY <1>1, <1>3
<1>5. less \in [0 .. Len(keycodes') -> BOOLEAN] /\ less[n - 1] = locked[n]
      /\ \A i \in 0 .. n - 1 : less[i] = locked[i + 1]
  BY <1>1, <1>2, <1>3, <1>4 DEF ForetellsLock
<1>6. ASSUME NEW i \in 1 .. Len(keycodes')
      PROVE  less[i] <=> (less[i - 1] <=> keycodes'[i].byte # 58)
  <2>1. i + 1 \in 1 .. n /\ (i + 1) - 1 = i /\ i - 1 \in 0 .. n - 1 /\ i \in 0 .. n - 1 /\ (i - 1) + 1 = i
    BY <1>3, <1>4
  <2>2. less[i] = locked[i + 1] /\ less[i - 1] = locked[i] /\ keycodes'[i] = keycodes[i + 1]
    BY <1>3, <1>4, <1>5, <2>1
  <2> QED BY <1>1, <2>1, <2>2 DEF ForetellsLock
<1>7. less[0] = locked[1]
  BY <1>3, <1>5
<1>8. ForetellsLock(less)'
  BY <1>1, <1>3, <1>4, <1>5, <1>6, <1>7 DEF ForetellsLock
<1> QED BY <1>8

-----------------------------------------------------------------------------
\* A code that is dropped or queued with what explains it keeps the invariant.
LEMMA EnqueueKeeps ==
  ASSUME DecodeInv, NEW byte \in 1 .. 255, NEW meant \in {"upper", "lower"}, NEW pair,
         Enqueue(byte, meant, pair), UNCHANGED <<flags, passed>>,
         down' \subseteq Codes, capitals' = (capitals <=> byte # 58),
         stray \cup pair = {} => OneKeyEach',
         \A f : stray \cup pair = {} /\ f \cap Modifier = ModifiersHeld /\ ("caps" \in f <=> capitals) =>
           /\ byte < 128 => meant = AsciiWith(f, _kybrd_scancode_std(byte))
           /\ AfterCode(f, byte) \cap Modifier = ModifiersHeld'
           /\ "caps" \in AfterCode(f, byte) <=> capitals'
  PROVE  DecodeInv'
<1>1. PICK e : e = [byte |-> byte, meant |-> meant]
  OBVIOUS
<1>2. e \in Code /\ e.byte = byte /\ e.meant = meant
  BY <1>1 DEF Code
<1>3. DecodeTyped
  BY DEF DecodeInv
<1>4. CASE Len(keycodes) < CodePlaces
  <2>1. keycodes' = Append(keycodes, e) /\ stray' = stray \cup pair
    BY <1>1, <1>4 DEF Enqueue
  <2>2. DecodeTyped'
    BY <1>2, <1>3, <2>1 DEF DecodeTyped
  <2>3. ASSUME stray' = {}
        PROVE  OneKeyEach' /\ PassedAsMeant' /\ (\E coming : Foretells(coming))'
    <3>1. stray = {} /\ stray \cup pair = {}
      BY <2>1, <2>3
    <3>2. PassedAsMeant /\ \E coming : Foretells(coming)
      BY <3>1 DEF DecodeInv
    <3>3. PICK coming : Foretells(coming)
      BY <3>2
    <3>4. PICK f : f = coming[Len(keycodes)]
      OBVIOUS
    <3>5. f \cap Modifier = ModifiersHeld /\ ("caps" \in f <=> capitals)
      BY <3>3, <3>4 DEF Foretells
    <3>6. /\ byte < 128 => meant = AsciiWith(f, _kybrd_scancode_std(byte))
          /\ AfterCode(f, byte) \cap Modifier = ModifiersHeld'
          /\ "caps" \in AfterCode(f, byte) <=> capitals'
      BY <3>1, <3>5
    <3>7. (\E more : Foretells(more))'
      BY <1>2, <1>3, <2>1, <3>3, <3>4, <3>6, OneMoreForetold
    <3>8. PassedAsMeant'
      BY <3>2 DEF PassedAsMeant
    <3> QED BY <3>1, <3>7, <3>8
  <2>4. ASSUME stray' \cap {"dropped", "make"} = {}
        PROVE  (\E locked : ForetellsLock(locked))'
    <3>1. stray \cap {"dropped", "make"} = {}
      BY <2>1, <2>4
    <3>2. PICK locked : ForetellsLock(locked)
      BY <3>1 DEF DecodeInv
    <3> QED BY <1>2, <1>3, <2>1, <3>2, OneMoreLocked
  <2> QED BY <2>2, <2>3, <2>4 DEF DecodeInv
<1>5. CASE ~(Len(keycodes) < CodePlaces)
  <2>1. keycodes' = keycodes /\ "dropped" \in stray'
    BY <1>5 DEF Enqueue
  <2>2. DecodeTyped'
    BY <1>3, <2>1 DEF DecodeTyped
  <2> QED BY <2>1, <2>2 DEF DecodeInv
<1> QED BY <1>4, <1>5

\* Holding key c adds its modifiers to those held; they were held by no other
\* key.
LEMMA HeldWith ==
  ASSUME NEW c, down' = down \cup {c}
  PROVE  ModifiersHeld' = ModifiersHeld \cup ModifierOf(_kybrd_scancode_std(c))
  BY DEF ModifiersHeld

LEMMA HeldWithout ==
  ASSUME OneKeyEach, NEW c \in down, down' = down \ {c}
  PROVE  ModifiersHeld' = ModifiersHeld \ ModifierOf(_kybrd_scancode_std(c))
<1>1. \A m : m \in ModifiersHeld' <=> \E d \in down : d # c /\ m \in ModifierOf(_kybrd_scancode_std(d))
  BY DEF ModifiersHeld
<1>2. \A m : m \in ModifiersHeld <=> \E d \in down : m \in ModifierOf(_kybrd_scancode_std(d))
  BY DEF ModifiersHeld
<1>3. \A d \in down : \A m : m \in ModifierOf(_kybrd_scancode_std(d)) /\ m \in ModifierOf(_kybrd_scancode_std(c)) => d = c
  BY DEF OneKeyEach
<1> QED BY <1>1, <1>2, <1>3

LEMMA PressKeeps ==
  ASSUME DecodeInv, NEW c \in Codes, Press(c)
  PROVE  DecodeInv'
<1> DEFINE key == _kybrd_scancode_std(c)
           pair == IF ModifierOf(key) \cap ModifiersHeld = {} THEN {} ELSE {"pair"}
<1>1. c \in 1 .. 127 /\ c \in 1 .. 255 /\ c < 128
  BY KeyDecodeAssumption
<1>2. /\ c \notin down /\ down' = down \cup {c} /\ capitals' = (capitals # (c = 58))
      /\ UNCHANGED <<flags, passed>> /\ Enqueue(c, Meant(key), pair)
  BY DEF Press
<1>3. DecodeTyped
  BY DEF DecodeInv
<1>4. down' \subseteq Codes
  BY <1>2, <1>3 DEF DecodeTyped
<1>5. capitals' = (capitals <=> c # 58)
  <2>1. capitals \in BOOLEAN
    BY <1>3 DEF DecodeTyped
  <2> QED BY <1>2, <2>1
<1>6. Meant(key) \in {"upper", "lower"}
  BY DEF Meant
<1>7. ASSUME stray \cup pair = {}
      PROVE  OneKeyEach'
  <2>1. OneKeyEach /\ ModifierOf(key) \cap ModifiersHeld = {}
    BY <1>7 DEF DecodeInv
  <2>2. \A d \in down : ModifierOf(key) \cap ModifierOf(_kybrd_scancode_std(d)) = {}
    BY <2>1 DEF ModifiersHeld
  <2> QED BY <1>2, <2>1, <2>2 DEF OneKeyEach
<1>8. ASSUME NEW f, f \cap Modifier = ModifiersHeld, "caps" \in f <=> capitals
      PROVE  /\ c < 128 => Meant(key) = AsciiWith(f, key)
             /\ AfterCode(f, c) \cap Modifier = ModifiersHeld'
             /\ "caps" \in AfterCode(f, c) <=> capitals'
  <2>1. "shift" \in f <=> "shift" \in ModifiersHeld
    BY <1>8 DEF Modifier
  <2>2. ("shift" \in f) # ("caps" \in f) <=> ("shift" \in ModifiersHeld) # capitals
    <3>1. capitals \in BOOLEAN
      BY <1>3 DEF DecodeTyped
    <3> QED BY <1>8, <2>1, <3>1
  <2>3. Meant(key) = AsciiWith(f, key)
    BY <2>1, <2>2 DEF Meant, AsciiWith
  <2>4. AfterCode(f, c) \cap Modifier = ModifiersHeld'
    BY <1>1, <1>2, <1>8, AfterPress, HeldWith
  <2>5. "caps" \in AfterCode(f, c) <=> capitals'
    BY <1>1, <1>5, <1>8, AfterPress
  <2> QED BY <2>3, <2>4, <2>5
<1> HIDE DEF key, pair
<1> QED BY <1>1, <1>2, <1>4, <1>5, <1>6, <1>7, <1>8, EnqueueKeeps DEF key

LEMMA ReleaseKeeps ==
  ASSUME DecodeInv, NEW c \in Codes, Release(c)
  PROVE  DecodeInv'
<1>1. c \in 0 .. 127 /\ c + 128 \in 1 .. 255 /\ ~(c + 128 < 128) /\ c + 128 # 58
  BY KeyDecodeAssumption
<1>2. /\ c \in down /\ down' = down \ {c} /\ capitals' = capitals
      /\ UNCHANGED <<flags, passed>> /\ Enqueue(c + 128, "lower", {})
  BY DEF Release
<1>3. DecodeTyped
  BY DEF DecodeInv
<1>4. down' \subseteq Codes
  BY <1>2, <1>3 DEF DecodeTyped
<1>5. capitals' = (capitals <=> c + 128 # 58)
  <2>1. capitals \in BOOLEAN
    BY <1>3 DEF DecodeTyped
  <2> QED BY <1>1, <1>2, <2>1
<1>6. ASSUME stray \cup {} = {}
      PROVE  OneKeyEach /\ OneKeyEach'
  <2>1. OneKeyEach
    BY <1>6 DEF DecodeInv
  <2> QED BY <1>2, <2>1 DEF OneKeyEach
<1>7. ASSUME NEW f, stray \cup {} = {}, f \cap Modifier = ModifiersHeld, "caps" \in f <=> capitals
      PROVE  /\ AfterCode(f, c + 128) \cap Modifier = ModifiersHeld'
             /\ "caps" \in AfterCode(f, c + 128) <=> capitals'
  <2>1. AfterCode(f, c + 128) = f \ ModifierOf(_kybrd_scancode_std(c))
        /\ ("caps" \in AfterCode(f, c + 128) <=> "caps" \in f)
    BY <1>1, AfterRelease, SMTT(30)
  <2>2. ModifiersHeld' = ModifiersHeld \ ModifierOf(_kybrd_scancode_std(c))
    BY <1>2, <1>6, <1>7, HeldWithout
  <2> QED BY <1>2, <1>7, <2>1, <2>2
<1> QED BY <1>1, <1>2, <1>4, <1>5, <1>6, <1>7, EnqueueKeeps

LEMMA AcknowledgeKeeps ==
  ASSUME DecodeInv, Acknowledge
  PROVE  DecodeInv'
<1>1. Answer = 122 + 128 /\ Answer \in 1 .. 255 /\ ~(Answer < 128) /\ Answer # 58
  BY DEF Answer
<1>2. UNCHANGED <<flags, passed, down, capitals>> /\ Enqueue(Answer, "lower", {})
  BY DEF Acknowledge, typistVars
<1>3. DecodeTyped
  BY DEF DecodeInv
<1>4. down' \subseteq Codes /\ capitals' = (capitals <=> Answer # 58)
  <2>1. capitals \in BOOLEAN /\ down \subseteq Codes
    BY <1>3 DEF DecodeTyped
  <2> QED BY <1>1, <1>2, <2>1
<1>5. stray \cup {} = {} => OneKeyEach'
  BY <1>2 DEF DecodeInv, OneKeyEach
<1>6. ModifiersHeld' = ModifiersHeld
  BY <1>2 DEF ModifiersHeld
<1>7. ModifierOf(_kybrd_scancode_std(122)) = {}
  BY DEF _kybrd_scancode_std, ModifierOf, Letters, Digits, Signs
<1>8. ASSUME NEW f
      PROVE  /\ AfterCode(f, Answer) \cap Modifier = f \cap Modifier
             /\ "caps" \in AfterCode(f, Answer) <=> "caps" \in f
  <2>1. PICK c \in 0 .. 127 : c = 122 /\ Answer = c + 128
    BY <1>1
  <2>2. /\ AfterCode(f, c + 128) = f \ ModifierOf(_kybrd_scancode_std(c))
        /\ "caps" \in AfterCode(f, c + 128) <=> "caps" \in f
    BY AfterRelease
  <2> QED BY <1>7, <2>1, <2>2
<1> QED BY <1>1, <1>2, <1>4, <1>5, <1>6, <1>8, EnqueueKeeps

LEMMA StraysNamed ==
  ASSUME NEW b \in 1 .. 255
  PROVE  /\ b < 128 /\ "make" \notin Strays(b) => b < TableSize
         /\ ~(b < 128) /\ Strays(b) = {} => b < 128 + TableSize \/ flags \cap Modifier = {}
<1>1. ASSUME b < 128, ~(b < TableSize) PROVE "make" \in Strays(b)
  <2>1. b >= TableSize
    BY <1>1 DEF TableSize
  <2> QED BY <1>1, <2>1 DEF Strays
<1>2. ASSUME ~(b < 128), ~(b < 128 + TableSize), flags \cap Modifier # {} PROVE "break" \in Strays(b)
  <2>1. b >= 128 /\ b >= 128 + TableSize
    BY <1>2 DEF TableSize
  <2> QED BY <1>2, <2>1 DEF Strays
<1> QED BY <1>1, <1>2

\* What is left of the invariant when the daemon deals with a code.
LEMMA DealKeeps ==
  ASSUME DecodeInv, keycodes # <<>>, keycodes' = Tail(keycodes),
         UNCHANGED <<down, capitals>>, stray' = Strays(Oldest.byte),
         stray' = {} => flags' = AfterCode(flags, Oldest.byte) /\ PassedAsMeant',
         stray' \cap {"dropped", "make"} = {} => ("caps" \in flags' <=> ("caps" \in flags <=> Oldest.byte # 58))
  PROVE  DecodeInv'
<1>1. DecodeTyped /\ Len(keycodes) > 0 /\ Len(keycodes) \in Nat /\ Oldest = keycodes[1] /\ 1 \in 1 .. Len(keycodes)
  BY EmptySeq DEF DecodeInv, DecodeTyped, Oldest
<1>2. DecodeTyped'
  BY <1>1 DEF DecodeTyped
<1>3. stray \subseteq stray'
  BY DEF Strays
<1>4. ASSUME stray' = {}
      PROVE  OneKeyEach' /\ PassedAsMeant' /\ (\E coming : Foretells(coming))'
  <2>1. OneKeyEach /\ \E coming : Foretells(coming)
    BY <1>3, <1>4 DEF DecodeInv
  <2>2. PICK coming : Foretells(coming)
    BY <2>1
  <2>3. coming[1] = AfterCode(coming[1 - 1], keycodes[1].byte) /\ coming[0] = flags
    BY <1>1, <2>2 DEF Foretells
  <2>4. flags' = coming[1]
    BY <1>1, <1>4, <2>3
  <2>5. (\E coming_2 : Foretells(coming_2))'
    BY <1>1, <2>2, <2>4, OneLessForetold
  <2>6. OneKeyEach'
    BY <2>1 DEF OneKeyEach
  <2> QED BY <1>4, <2>5, <2>6
<1>5. ASSUME stray' \cap {"dropped", "make"} = {}
      PROVE  (\E locked : ForetellsLock(locked))'
  <2>1. stray \cap {"dropped", "make"} = {}
    BY <1>3, <1>5
  <2>2. PICK locked : ForetellsLock(locked)
    BY <2>1 DEF DecodeInv
  <2>3. (locked[1] <=> (locked[1 - 1] <=> keycodes[1].byte # 58)) /\ (locked[0] <=> "caps" \in flags)
    BY <1>1, <2>2 DEF ForetellsLock
  <2>4. locked[1] <=> "caps" \in flags'
    BY <1>1, <1>5, <2>3
  <2> QED BY <1>1, <2>2, <2>4, OneLessLocked
<1> QED BY <1>2, <1>4, <1>5 DEF DecodeInv

LEMMA DealPressKeeps ==
  ASSUME DecodeInv, DealPress
  PROVE  DecodeInv'
<1>1. /\ keycodes # <<>> /\ Oldest.byte < 128 /\ keycodes' = Tail(keycodes)
      /\ UNCHANGED <<down, capitals>> /\ stray' = Strays(Oldest.byte)
  BY DEF DealPress, typistVars
<1>2. PICK key \in KeysAt(Oldest.byte) :
        /\ flags' = Toggled(flags \cup ModifierOf(key), LockOf(key))
        /\ passed' = <<[key |-> key, meant |-> Oldest.meant]>>
  BY DEF DealPress
<1>3. DecodeTyped /\ Len(keycodes) > 0 /\ Oldest = keycodes[1] /\ 1 \in 1 .. Len(keycodes)
  BY <1>1, EmptySeq DEF DecodeInv, DecodeTyped, Oldest
<1>4. PICK b \in 1 .. 127 : b = Oldest.byte
  <2>1. Oldest \in Code
    BY <1>3 DEF DecodeTyped
  <2>2. PICK b \in 1 .. 255 : b = Oldest.byte
    BY <2>1 DEF Code
  <2>3. b < 128
    BY <1>1, <2>2
  <2> QED BY <2>2, <2>3
<1>5. ASSUME "make" \notin stray'
      PROVE  key = _kybrd_scancode_std(Oldest.byte) /\ flags' = AfterCode(flags, Oldest.byte)
  <2>1. Oldest.byte < TableSize
    <3>1. "make" \notin Strays(b)
      BY <1>1, <1>4, <1>5
    <3>2. b \in 1 .. 255 /\ b < 128
      BY <1>4
    <3>3. b < TableSize
      BY <3>1, <3>2, StraysNamed
    <3> QED BY <1>4, <3>3
  <2>2. key = _kybrd_scancode_std(Oldest.byte)
    BY <1>2, <2>1 DEF KeysAt
  <2> QED BY <1>1, <1>2, <2>2 DEF AfterCode
<1>6. ASSUME stray' = {}
      PROVE  flags' = AfterCode(flags, Oldest.byte) /\ PassedAsMeant'
  <2>1. key = _kybrd_scancode_std(Oldest.byte) /\ flags' = AfterCode(flags, Oldest.byte) /\ stray = {}
    BY <1>1, <1>5, <1>6 DEF Strays
  <2>2. Oldest.meant = AsciiWith(flags, key)
    <3>1. PICK coming : Foretells(coming)
      BY <2>1 DEF DecodeInv
    <3>2. keycodes[1].meant = AsciiWith(coming[1 - 1], _kybrd_scancode_std(keycodes[1].byte)) /\ coming[0] = flags
      BY <1>1, <1>3, <3>1 DEF Foretells
    <3> QED BY <1>3, <2>1, <3>2
  <2>3. passed'[1].key = key /\ passed'[1].meant = Oldest.meant
    BY <1>2
  <2>4. CASE key \in {"letter", "digit", "sign"}
    <3>1. LockOf(key) = {} /\ ModifierOf(key) = {}
      BY <1>4, <2>1, <2>4, TableFacts
    <3>2. \A m : m \in flags' <=> m \in flags
      BY <1>2, <3>1 DEF Toggled
    <3>3. AsciiWith(flags', key) = AsciiWith(flags, key)
      BY <3>2 DEF AsciiWith
    <3> QED BY <2>1, <2>2, <2>3, <3>3 DEF PassedAsMeant
  <2>5. CASE key \notin {"letter", "digit", "sign"}
    <3>1. AsciiWith(flags', key) = "lower" /\ AsciiWith(flags, key) = "lower"
      BY <2>5 DEF AsciiWith
    <3> QED BY <2>1, <2>2, <2>3, <3>1 DEF PassedAsMeant
  <2> QED BY <2>4, <2>5
<1>7. ASSUME stray' \cap {"dropped", "make"} = {}
      PROVE  "caps" \in flags' <=> ("caps" \in flags <=> Oldest.byte # 58)
  <2>1. flags' = AfterCode(flags, Oldest.byte)
    BY <1>5, <1>7
  <2> QED BY <1>4, <2>1, AfterPress
<1> QED BY <1>1, <1>6, <1>7, DealKeeps

LEMMA DealReleaseKeeps ==
  ASSUME DecodeInv, DealRelease
  PROVE  DecodeInv'
<1>1. /\ keycodes # <<>> /\ Oldest.byte >= 128 /\ keycodes' = Tail(keycodes)
      /\ UNCHANGED <<down, capitals>> /\ stray' = Strays(Oldest.byte)
      /\ passed' = IF flags' = flags THEN passed ELSE <<>>
  BY DEF DealRelease, typistVars
<1>2. PICK key \in KeysAt(Oldest.byte - 128) : flags' = flags \ ModifierOf(key)
  BY DEF DealRelease
<1>3. DecodeTyped /\ Len(keycodes) > 0 /\ Oldest = keycodes[1] /\ 1 \in 1 .. Len(keycodes)
  BY <1>1, EmptySeq DEF DecodeInv, DecodeTyped, Oldest
<1>4. PICK b \in 128 .. 255 : b = Oldest.byte
  <2>1. Oldest \in Code
    BY <1>3 DEF DecodeTyped
  <2>2. PICK b \in 1 .. 255 : b = Oldest.byte
    BY <2>1 DEF Code
  <2>3. b >= 128
    BY <1>1, <2>2
  <2> QED BY <2>2, <2>3
<1>5. PICK c \in 0 .. 127 : c = Oldest.byte - 128 /\ Oldest.byte = c + 128
  BY <1>4
<1>6. ASSUME stray' = {}
      PROVE  flags' = AfterCode(flags, Oldest.byte) /\ PassedAsMeant'
  <2>1. c < TableSize \/ flags \cap Modifier = {}
    <3>1. Strays(b) = {}
      BY <1>1, <1>4, <1>6
    <3>2. b \in 1 .. 255 /\ ~(b < 128)
      BY <1>4
    <3>3. b < 128 + TableSize \/ flags \cap Modifier = {}
      BY <3>1, <3>2, StraysNamed
    <3>4. b = c + 128
      BY <1>4, <1>5
    <3> QED BY <3>3, <3>4 DEF TableSize
  <2>2. key = _kybrd_scancode_std(c) \/ flags \cap Modifier = {}
    BY <1>2, <1>5, <2>1 DEF KeysAt
  <2>3. flags' = AfterCode(flags, Oldest.byte)
    <3>1. AfterCode(flags, c + 128) = flags \ ModifierOf(_kybrd_scancode_std(c))
      BY AfterRelease
    <3>2. ModifierOf(_kybrd_scancode_std(c)) \subseteq Modifier
      BY TableFacts
    <3>3. ModifierOf(key) \subseteq Modifier
      BY DEF ModifierOf, Modifier
    <3> QED BY <1>2, <1>5, <2>2, <3>1, <3>2, <3>3
  <2>4. PassedAsMeant
    BY <1>1, <1>6 DEF Strays, DecodeInv
  <2>5. PassedAsMeant'
    BY <1>1, <2>4 DEF PassedAsMeant
  <2> QED BY <2>3, <2>5
<1>7. "caps" \in flags' <=> ("caps" \in flags <=> Oldest.byte # 58)
  <2>1. key \in Key
    BY <1>2, <1>5 DEF KeysAt, Key, _kybrd_scancode_std
  <2>2. "caps" \notin ModifierOf(key)
    BY <2>1 DEF Key, ModifierOf
  <2> QED BY <1>2, <1>4, <2>2
<1> QED BY <1>1, <1>6, <1>7, DealKeeps

LEMMA DrawKeyKeeps ==
  ASSUME DecodeInv, DrawKey
  PROVE  DecodeInv'
<1>1. passed' = <<>> /\ UNCHANGED <<down, capitals, keycodes, flags, stray>>
  BY DEF DrawKey, typistVars
<1>2. DecodeTyped' /\ (OneKeyEach' <=> OneKeyEach) /\ PassedAsMeant'
  BY <1>1 DEF DecodeInv, DecodeTyped, OneKeyEach, PassedAsMeant
<1>3. \A coming : Foretells(coming)' <=> Foretells(coming)
  BY <1>1 DEF Foretells, ModifiersHeld
<1>4. \A locked : ForetellsLock(locked)' <=> ForetellsLock(locked)
  BY <1>1 DEF ForetellsLock
<1> QED BY <1>1, <1>2, <1>3, <1>4 DEF DecodeInv

LEMMA DecodeStarts == DecodeInit => DecodeInv
<1> SUFFICES ASSUME DecodeInit PROVE DecodeInv
  OBVIOUS
<1>1. /\ down = {} /\ capitals = FALSE /\ keycodes = <<>> /\ flags = {} /\ passed = <<>>
      /\ Len(keycodes) = 0
  BY DEF DecodeInit
<1>2. DecodeTyped /\ OneKeyEach /\ PassedAsMeant
  <2>1. keycodes \in Seq(Code)
    BY <1>1
  <2> QED BY <1>1, <2>1 DEF DecodeTyped, OneKeyEach, PassedAsMeant
<1>3. ModifiersHeld = {}
  BY <1>1 DEF ModifiersHeld
<1>4. Foretells([i \in 0 .. 0 |-> flags])
  BY <1>1, <1>3 DEF Foretells
<1>5. ForetellsLock([i \in 0 .. 0 |-> FALSE])
  BY <1>1 DEF ForetellsLock
<1> QED BY <1>2, <1>4, <1>5 DEF DecodeInv

LEMMA DecodeStep == DecodeInv /\ [DecodeNext]_decodeVars => DecodeInv'
<1> SUFFICES ASSUME DecodeInv, [DecodeNext]_decodeVars
             PROVE  DecodeInv'
  OBVIOUS
<1>1. CASE UNCHANGED decodeVars
  <2>1. UNCHANGED <<down, capitals, keycodes, flags, passed, stray>>
    BY <1>1 DEF decodeVars, typistVars
  <2>2. DecodeTyped' /\ (OneKeyEach' <=> OneKeyEach) /\ (PassedAsMeant' <=> PassedAsMeant)
    BY <2>1 DEF DecodeInv, DecodeTyped, OneKeyEach, PassedAsMeant
  <2>3. \A coming : Foretells(coming)' <=> Foretells(coming)
    BY <2>1 DEF Foretells, ModifiersHeld
  <2>4. \A locked : ForetellsLock(locked)' <=> ForetellsLock(locked)
    BY <2>1 DEF ForetellsLock
  <2> QED BY <2>1, <2>2, <2>3, <2>4 DEF DecodeInv
<1>2. CASE DecodeNext
  BY <1>2, DealPressKeeps, DealReleaseKeeps, AcknowledgeKeeps, DrawKeyKeeps, PressKeeps, ReleaseKeeps
     DEF DecodeNext
<1> QED BY <1>1, <1>2

\* However many codes are queued, they lead from the flags of the daemon
\* (keyboard.cpp keyboard_irq) to those the keys and the user say.
THEOREM DecodeInvariance == DecodeSpec => []DecodeInv
<1>1. DecodeInit => DecodeInv
  BY DecodeStarts
<1>2. DecodeInv /\ [DecodeNext]_decodeVars => DecodeInv'
  BY DecodeStep
<1> QED BY <1>1, <1>2, PTL DEF DecodeSpec

LEMMA FlagsTrue == DecodeInv => ModifiersFollowKeys
<1> SUFFICES ASSUME DecodeInv, keycodes = <<>>
             PROVE  /\ stray = {} => flags \cap Modifier = ModifiersHeld
                    /\ stray \cap {"dropped", "make"} = {} => ("caps" \in flags <=> capitals)
  BY DEF ModifiersFollowKeys
<1>1. Len(keycodes) = 0
  OBVIOUS
<1>2. ASSUME stray = {} PROVE flags \cap Modifier = ModifiersHeld
  <2>1. PICK coming : Foretells(coming)
    BY <1>2 DEF DecodeInv
  <2> QED BY <1>1, <2>1 DEF Foretells
<1>3. ASSUME stray \cap {"dropped", "make"} = {} PROVE "caps" \in flags <=> capitals
  <2>1. PICK locked : ForetellsLock(locked)
    BY <1>3 DEF DecodeInv
  <2> QED BY <1>1, <2>1 DEF ForetellsLock
<1> QED BY <1>2, <1>3

\* Once the daemon of keyboard.cpp has dealt with all codes, its flags are those
\* of the keys that are down and of the user's capitals.
THEOREM FlagsFollowKeys == DecodeSpec => []ModifiersFollowKeys
  BY DecodeInvariance, FlagsTrue, PTL

LEMMA KeysTrue == DecodeInv => WritesWhatWasMeant
<1> SUFFICES ASSUME DecodeInv, stray = {}, passed # <<>>
             PROVE  kybrd_key_to_ascii(passed[1].key) = passed[1].meant
  BY DEF WritesWhatWasMeant
<1>1. AsciiWith(flags, passed[1].key) = passed[1].meant
  BY DEF DecodeInv, PassedAsMeant
<1>2. \A key : kybrd_key_to_ascii(key) = AsciiWith(flags, key)
  BY DEF kybrd_key_to_ascii, AsciiWith
<1> QED BY <1>1, <1>2

\* A key becomes the character it was meant to be, whatever was typed before the
\* daemon came to it (kybrd_key_to_ascii).
THEOREM KeysAreMeant == DecodeSpec => []WritesWhatWasMeant
  BY DecodeInvariance, KeysTrue, PTL

-----------------------------------------------------------------------------
(* Net *)

Place == {"off", "poll", "copy", "receive", "send", "wait", "release"}
Slot == 0 .. E1000_NUM_TX_DESC - 1

\* Until e1000_start nothing has happened.
NotStarted ==
  mac = <<>> =>
    /\ arrived = <<>> /\ handled = 0 /\ wire = <<>> /\ recv_queue = <<>> /\ ~icr
    /\ rx_cur = 0 /\ rx_head = 0 /\ tx_cur = 0 /\ tx_head = 0 /\ tx_tail = 0 /\ At("off")

\* The daemon waits for the one descriptor the card has not finished.
TransmitInv ==
  /\ tx \in [Slot -> {"unused", "ready", "done"}] /\ tx_cur \in Slot /\ tx_head \in Slot /\ tx_tail \in Nat
  /\ tx_tail % E1000_NUM_TX_DESC = tx_cur
  /\ IF At("wait")
     THEN /\ daemon.index \in Slot /\ tx_cur = (daemon.index + 1) % E1000_NUM_TX_DESC
          /\ \/ tx[daemon.index] = "ready" /\ tx_head = daemon.index
             \/ tx[daemon.index] = "done" /\ tx_head = tx_cur
     ELSE tx_head = tx_cur

ReceiveTypeOK ==
  /\ arrived \in Seq(Packet) /\ handled \in Nat
  /\ recv_queue \in Seq(Descriptor)
  /\ DOMAIN rx = Descriptor /\ rx = [i \in Descriptor |-> rx[i]]
  /\ rx_cur \in Descriptor /\ rx_head \in Descriptor /\ icr \in BOOLEAN
  /\ daemon \in [at : Place, index : Nat]
  /\ At("copy") => daemon.index \in Descriptor

Signalled == IF icr THEN 1 ELSE 0

\* Unless the card outran us, what it gave us is queued in the order it came,
\* and what the daemon holds is the first frame it is not done with.
ReceiveInv ==
  /\ Len(arrived) = handled + InHand + Len(recv_queue) + Signalled
  /\ rx_head = IF icr THEN (rx_cur + 1) % E1000_NUM_RX_DESC ELSE rx_cur
  /\ icr => rx[rx_cur] = arrived[Len(arrived)]
  /\ \A k \in 1 .. Len(recv_queue) : rx[recv_queue[k]] = arrived[handled + InHand + k]
  /\ At("copy") => rx[daemon.index] = arrived[handled + 1]
  /\ At("receive") => buffer = arrived[handled + 1]
  /\ daemon.at \in {"send", "wait"} => Wanted(arrived[handled + 1]) /\ buffer = Reply(arrived[handled + 1])

\* The frames the daemon has answered or passed over.
Finished == At("release") \/ (At("wait") /\ tx[daemon.index] = "done")
Done == handled + IF Finished THEN 1 ELSE 0

ReplyInv ==
  /\ wire \in Seq({Reply(f) : f \in Packet})
  /\ Len(wire) = Cardinality(Requests(Done))
  /\ \A k \in Requests(Done) : AnswerTo(k) = Reply(arrived[k])

NetInv == NotStarted /\ TransmitInv /\ ReceiveTypeOK /\ (spoiled = {} => ReceiveInv /\ ReplyInv)

LEMMA NextInRing ==
  ASSUME NEW m \in Nat \ {0}, NEW i \in 0 .. m - 1
  PROVE  (i + 1) % m \in 0 .. m - 1 /\ i % m = i /\ ((i + 1) % m) % m = (i + 1) % m
<1>1. CASE i + 1 < m
  BY <1>1
<1>2. CASE i + 1 = m
  <2>1. m % m = 0 /\ 0 % m = 0
    OBVIOUS
  <2> QED
    BY <1>2, <2>1
<1> QED
  BY <1>1, <1>2

LEMMA PlaceChanges ==
  ASSUME ReceiveTypeOK, NEW p \in Place, NEW i \in Nat
  PROVE  /\ Goto(p) => daemon' \in [at : Place, index : Nat] /\ daemon'.at = p /\ daemon'.index = daemon.index
         /\ daemon' = [daemon EXCEPT !.at = p, !.index = i]
            => daemon' \in [at : Place, index : Nat] /\ daemon'.at = p /\ daemon'.index = i
  BY DEF ReceiveTypeOK, Goto

\* Only sending, the card's transmit unit and the end of the wait reach the ring.
LEMMA TransmitKeeps ==
  ASSUME NotStarted, TransmitInv, ReceiveTypeOK, [NetNext]_netVars
  PROVE  TransmitInv'
<1> USE NetAssumption
<1>0. E1000_NUM_TX_DESC \in Nat \ {0}
  OBVIOUS
<1>1. CASE Start
  <2>1. tx_tail' % E1000_NUM_TX_DESC = 0
    BY <1>1, <1>0 DEF Start
  <2>2. ~At("wait") /\ ~At("wait")'
    <3>1. daemon'.at = "poll"
      BY <1>1, PlaceChanges DEF Start, Place
    <3> QED
      BY <1>1, <3>1 DEF Start, NotStarted, At
  <2> QED
    BY <1>1, <1>0, <2>1, <2>2 DEF Start, NotStarted, TransmitInv, At
<1>2. CASE \E f \in Packet : Arrive(f)
  BY <1>2 DEF Arrive, TransmitInv, transmit, At
<1>3. CASE Callback
  BY <1>3 DEF Callback, TransmitInv, transmit, At
<1>4. CASE Take
  <2>1. daemon'.at = "copy" /\ ~At("wait")
    BY <1>4 DEF Take, At, ReceiveTypeOK, Descriptor
  <2> QED
    BY <1>4, <2>1 DEF Take, TransmitInv, transmit, At
<1>5. CASE Copy
  <2>1. daemon'.at = "receive" /\ ~At("wait")
    BY <1>5, PlaceChanges DEF Copy, At, Place
  <2> QED
    BY <1>5, <2>1 DEF Copy, TransmitInv, transmit, At
<1>6. CASE Receive
  <2>1. daemon'.at \in {"send", "release"} /\ ~At("wait")
    BY <1>6, PlaceChanges DEF Receive, At, Place
  <2> QED
    BY <1>6, <2>1 DEF Receive, TransmitInv, transmit, At
<1>7. CASE Send
  <2>1. tx_cur \in Slot /\ tx_cur \in Nat /\ ~At("wait") /\ tx_head = tx_cur
    BY <1>7 DEF TransmitInv, Slot, Send, At
  <2>2. daemon'.at = "wait" /\ daemon'.index = tx_cur
    BY <1>7, <2>1 DEF Send, ReceiveTypeOK
  <2>3. tx' \in [Slot -> {"unused", "ready", "done"}] /\ tx'[tx_cur] = "ready"
    BY <1>7, <2>1 DEF Send, TransmitInv
  <2>4. tx_cur' \in Slot /\ tx_tail' \in Nat /\ tx_tail' % E1000_NUM_TX_DESC = tx_cur'
    BY <1>7, <1>0, <2>1, NextInRing DEF Send, Slot
  <2> QED
    BY <1>7, <2>1, <2>2, <2>3, <2>4 DEF Send, TransmitInv, At
<1>8. CASE Sent
  <2>1. daemon'.at = "release"
    BY <1>8, PlaceChanges DEF Sent, Place
  <2> QED
    BY <1>8, <2>1 DEF Sent, TransmitInv, transmit, At
<1>9. CASE ReleaseBuffer
  <2>1. daemon'.at = "poll" /\ ~At("wait")
    BY <1>9, PlaceChanges DEF ReleaseBuffer, At, Place
  <2> QED
    BY <1>9, <2>1 DEF ReleaseBuffer, TransmitInv, transmit, At
<1>10. CASE Transmit
  <2>1. At("wait") /\ tx[daemon.index] = "ready" /\ tx_head = daemon.index
    BY <1>10 DEF Transmit, TransmitInv
  <2>2. tx_head \in Slot /\ tx_head' = tx_cur
    BY <1>10, <2>1 DEF Transmit, TransmitInv
  <2>3. tx' \in [Slot -> {"unused", "ready", "done"}] /\ tx'[tx_head] = "done"
    BY <1>10, <2>2 DEF Transmit, TransmitInv
  <2> QED
    BY <1>10, <2>1, <2>2, <2>3 DEF Transmit, TransmitInv, At
<1>11. CASE UNCHANGED netVars
  BY <1>11 DEF netVars, TransmitInv, transmit, At
<1>12. CASE CopyFails
  <2>1. daemon'.at = "receive" /\ ~At("wait")
    BY <1>12, PlaceChanges DEF CopyFails, At, Place
  <2> QED
    BY <1>12, <2>1 DEF CopyFails, TransmitInv, transmit, At
<1> QED
  BY <1>1, <1>2, <1>3, <1>4, <1>5, <1>6, <1>7, <1>8, <1>9, <1>10, <1>11, <1>12 DEF NetNext, Daemon

\* Nothing happens before e1000_start, which is called once.
LEMMA StartKeeps ==
  ASSUME NotStarted, TransmitInv, ReceiveTypeOK, [NetNext]_netVars
  PROVE  NotStarted' /\ (mac' = mac \/ Start)
<1> USE NetAssumption
<1>1. CASE Start
  <2>1. MacOf(Eeprom) # <<>>
    BY DEF MacOf
  <2> QED
    BY <1>1, <2>1 DEF Start, NotStarted
<1>2. CASE ~Start
  <2>1. mac' = mac
    BY <1>2 DEF NetNext, Daemon, Arrive, Callback, Take, Copy, CopyFails, Receive, Send, Sent, ReleaseBuffer,
       Transmit, netVars
  <2>2. CASE mac # <<>>
    BY <2>1, <2>2 DEF NotStarted
  <2>3. CASE mac = <<>>
    <3>1. /\ At("off") /\ ~icr /\ tx_head = 0 /\ tx_tail = 0 /\ 0 % E1000_NUM_TX_DESC = 0
      BY <2>3 DEF NotStarted
    <3>2. UNCHANGED netVars
      BY <1>2, <2>3, <3>1
      DEF NetNext, Daemon, Arrive, Callback, Take, Copy, CopyFails, Receive, Send, Sent, ReleaseBuffer, Transmit, At
    <3> QED
      BY <3>2 DEF netVars, receive, transmit, NotStarted, At
  <2> QED
    BY <2>2, <2>3
<1> QED
  BY <1>1, <1>2

\* recv_queue gains a last index and loses its first; frames arrive at the end.
LEMMA QueueGrows ==
  ASSUME NEW S, NEW q \in Seq(S), NEW e \in S
  PROVE  /\ Append(q, e) \in Seq(S) /\ Len(Append(q, e)) = Len(q) + 1 /\ Len(q) \in Nat
         /\ Append(q, e)[Len(q) + 1] = e
         /\ \A k \in 1 .. Len(q) : Append(q, e)[k] = q[k]
  OBVIOUS

LEMMA QueueShrinks ==
  ASSUME NEW S, NEW q \in Seq(S), q # <<>>
  PROVE  /\ Head(q) \in S /\ Head(q) = q[1]
         /\ Tail(q) \in Seq(S) /\ Len(Tail(q)) = Len(q) - 1 /\ Len(q) \in Nat \ {0}
         /\ \A k \in 1 .. Len(Tail(q)) : Tail(q)[k] = q[k + 1]
  OBVIOUS

LEMMA ReceiveTyped ==
  ASSUME NotStarted, ReceiveTypeOK, TransmitInv, [NetNext]_netVars
  PROVE  ReceiveTypeOK'
<1> USE NetAssumption
<1>0. E1000_NUM_RX_DESC \in Nat \ {0} /\ Descriptor \subseteq Nat /\ Slot \subseteq Nat
  BY DEF Descriptor, Slot
<1>1. CASE Start
  <2>1. daemon' \in [at : Place, index : Nat] /\ daemon'.at = "poll"
    BY <1>1, PlaceChanges DEF Start, Place
  <2> QED
    BY <1>1, <2>1 DEF Start, ReceiveTypeOK, At
<1>2. CASE \E f \in Packet : Arrive(f)
  <2>1. PICK f \in Packet : Arrive(f)
    BY <1>2
  <2>2. arrived' \in Seq(Packet)
    BY <2>1, QueueGrows DEF Arrive, ReceiveTypeOK
  <2>3. rx_head' \in Descriptor
    BY <2>1, <1>0, NextInRing DEF Arrive, ReceiveTypeOK, Descriptor
  <2> QED
    BY <2>1, <2>2, <2>3 DEF Arrive, ReceiveTypeOK, At
<1>3. CASE Callback
  <2>1. rx_cur' \in Descriptor
    BY <1>3, <1>0, NextInRing DEF Callback, ReceiveTypeOK, Descriptor
  <2>2. recv_queue \in Seq(Descriptor) /\ rx_cur \in Descriptor
    BY DEF ReceiveTypeOK
  <2>3. recv_queue' = recv_queue \/ recv_queue' = Append(recv_queue, rx_cur)
    BY <1>3 DEF Callback, recv_index
  <2>4. recv_queue' \in Seq(Descriptor)
    BY <2>2, <2>3, QueueGrows
  <2> QED
    BY <1>3, <2>1, <2>4 DEF Callback, ReceiveTypeOK, At
<1>4. CASE Take
  <2>1. Head(recv_queue) \in Descriptor /\ recv_queue' \in Seq(Descriptor)
    BY <1>4, QueueShrinks DEF Take, ReceiveTypeOK
  <2>2. daemon' \in [at : Place, index : Nat] /\ daemon'.index = Head(recv_queue)
    BY <1>4, <1>0, <2>1, PlaceChanges DEF Take, Place
  <2> QED
    BY <1>4, <2>1, <2>2 DEF Take, ReceiveTypeOK, At
<1>5. CASE Copy
  <2>1. daemon' \in [at : Place, index : Nat] /\ daemon'.at = "receive"
    BY <1>5, PlaceChanges DEF Copy, Place
  <2> QED
    BY <1>5, <2>1 DEF Copy, receive, ReceiveTypeOK, At
<1>6. CASE Receive
  <2>1. daemon' \in [at : Place, index : Nat] /\ daemon'.at \in {"send", "release"}
    BY <1>6, PlaceChanges DEF Receive, Place
  <2> QED
    BY <1>6, <2>1 DEF Receive, receive, ReceiveTypeOK, At
<1>7. CASE Send
  <2>1. daemon' \in [at : Place, index : Nat] /\ daemon'.at = "wait"
    BY <1>7, <1>0, PlaceChanges DEF Send, Place, TransmitInv
  <2> QED
    BY <1>7, <2>1 DEF Send, receive, ReceiveTypeOK, At
<1>8. CASE Sent
  <2>1. daemon' \in [at : Place, index : Nat] /\ daemon'.at = "release"
    BY <1>8, PlaceChanges DEF Sent, Place
  <2> QED
    BY <1>8, <2>1 DEF Sent, receive, ReceiveTypeOK, At
<1>9. CASE ReleaseBuffer
  <2>1. daemon' \in [at : Place, index : Nat] /\ daemon'.at = "poll"
    BY <1>9, PlaceChanges DEF ReleaseBuffer, Place
  <2> QED
    BY <1>9, <2>1 DEF ReleaseBuffer, receive, ReceiveTypeOK, At
<1>10. CASE Transmit
  BY <1>10 DEF Transmit, receive, ReceiveTypeOK, At
<1>11. CASE UNCHANGED netVars
  BY <1>11 DEF netVars, receive, ReceiveTypeOK, At
<1>12. CASE CopyFails
  <2>1. daemon' \in [at : Place, index : Nat] /\ daemon'.at = "receive"
    BY <1>12, PlaceChanges DEF CopyFails, Place
  <2> QED
    BY <1>12, <2>1 DEF CopyFails, receive, ReceiveTypeOK, At
<1> QED
  BY <1>1, <1>2, <1>3, <1>4, <1>5, <1>6, <1>7, <1>8, <1>9, <1>10, <1>11, <1>12 DEF NetNext, Daemon

\* What a step spoils stays spoiled.
LEMMA SpoiledStays ==
  ASSUME [NetNext]_netVars, spoiled' = {}
  PROVE  spoiled = {}
  BY DEF NetNext, Daemon, Start, Arrive, Callback, Take, Copy, CopyFails, Receive, Send, Sent, ReleaseBuffer, Transmit,
         netVars

\* A frame there was no memory for is named.
LEMMA FailureSpoils == CopyFails => spoiled' # {}
  BY DEF CopyFails

-----------------------------------------------------------------------------
\* Arriving: the card stores the frame behind those that wait.
LEMMA ArriveReceives ==
  ASSUME ReceiveTypeOK, ReceiveInv, NEW f \in Packet, Arrive(f), spoiled' = {}
  PROVE  ReceiveInv'
<1> USE NetAssumption
<1>1. ~icr /\ ~Waiting(rx_head) /\ icr'
  BY DEF Arrive
<1>2. /\ arrived \in Seq(Packet) /\ arrived' = Append(arrived, f) /\ Len(arrived') = Len(arrived) + 1
      /\ Len(arrived) \in Nat /\ arrived'[Len(arrived')] = f
      /\ \A k \in 1 .. Len(arrived) : arrived'[k] = arrived[k]
  BY QueueGrows DEF Arrive, ReceiveTypeOK
<1>3. recv_queue' = recv_queue /\ handled' = handled /\ daemon' = daemon /\ buffer' = buffer /\ mac' = mac /\ rx_cur' = rx_cur
  BY DEF Arrive
<1>4. InHand' = InHand /\ InHand \in {0, 1} /\ handled \in Nat /\ Len(recv_queue) \in Nat
  BY <1>3 DEF InHand, ReceiveTypeOK
<1>5. Len(arrived) = handled + InHand + Len(recv_queue) /\ rx_head = rx_cur
  BY <1>1, <1>4 DEF ReceiveInv, Signalled
<1>6. rx'[rx_head] = f /\ \A i \in Descriptor : i # rx_head => rx'[i] = rx[i]
  BY DEF Arrive, ReceiveTypeOK
<1>7. Len(arrived') = handled' + InHand' + Len(recv_queue') + Signalled'
  BY <1>1, <1>2, <1>3, <1>4, <1>5 DEF Signalled
<1>8. rx_head' = (rx_cur' + 1) % E1000_NUM_RX_DESC
  BY <1>3, <1>5 DEF Arrive
<1>9. ASSUME NEW k \in 1 .. Len(recv_queue)
      PROVE  rx'[recv_queue[k]] = arrived'[handled + InHand + k]
  <2>1. recv_queue[k] \in Descriptor /\ recv_queue[k] \in Range(recv_queue)
    BY DEF ReceiveTypeOK, Range
  <2>2. recv_queue[k] # rx_head
    BY <1>1, <2>1 DEF Waiting
  <2>3. handled + InHand + k \in 1 .. Len(arrived)
    BY <1>4, <1>5
  <2> QED
    BY <1>2, <1>6, <2>1, <2>2, <2>3 DEF ReceiveInv
<1>10. ASSUME daemon.at \in {"copy", "receive", "send", "wait"}
       PROVE  arrived'[handled + 1] = arrived[handled + 1]
  <2>1. InHand = 1
    BY <1>10 DEF InHand
  <2> QED
    BY <1>2, <1>4, <1>5, <2>1
<1>11. At("copy") => rx'[daemon.index] = arrived'[handled + 1]
  <2>1. At("copy") => daemon.index \in Descriptor /\ daemon.index # rx_head
    BY <1>1 DEF Waiting, ReceiveTypeOK
  <2> QED
    BY <1>6, <1>10, <2>1 DEF ReceiveInv, At
<1>12. At("receive") => buffer = arrived'[handled + 1]
  BY <1>10 DEF ReceiveInv, At
<1>13. (daemon.at \in {"send", "wait"} => Wanted(arrived[handled + 1]) /\ buffer = Reply(arrived[handled + 1]))'
  BY <1>3, <1>10 DEF ReceiveInv, Wanted, ForUs, Understood, Reply
<1>14. rx'[rx_cur'] = arrived'[Len(arrived')]
  BY <1>2, <1>3, <1>5, <1>6
<1> QED
  BY <1>1, <1>3, <1>4, <1>7, <1>8, <1>9, <1>11, <1>12, <1>13, <1>14 DEF ReceiveInv, At

\* e1000_callback: the frame signalled is the last of those queued.
LEMMA CallbackReceives ==
  ASSUME ReceiveTypeOK, ReceiveInv, Callback, spoiled = {}, spoiled' = {}
  PROVE  ReceiveInv'
<1>1. icr /\ ~icr' /\ recv_queue' = Append(recv_queue, rx_cur)
  BY DEF Callback, recv_index
<1>2. UNCHANGED <<mac, rx, rx_head, daemon, buffer, arrived, handled>> /\ rx_cur' = (rx_cur + 1) % E1000_NUM_RX_DESC
  BY DEF Callback
<1>3. /\ Len(recv_queue') = Len(recv_queue) + 1 /\ Len(recv_queue) \in Nat
      /\ recv_queue'[Len(recv_queue) + 1] = rx_cur
      /\ \A k \in 1 .. Len(recv_queue) : recv_queue'[k] = recv_queue[k]
  <2>1. recv_queue \in Seq(Descriptor) /\ rx_cur \in Descriptor
    BY DEF ReceiveTypeOK
  <2> QED
    BY <1>1, <2>1, QueueGrows
<1>4. InHand' = InHand /\ InHand \in {0, 1} /\ handled \in Nat
  BY <1>2 DEF InHand, ReceiveTypeOK
<1>5. Len(arrived) = handled + InHand + Len(recv_queue) + 1
  BY <1>1 DEF ReceiveInv, Signalled
<1>6. Len(arrived') = handled' + InHand' + Len(recv_queue') + Signalled'
  BY <1>1, <1>2, <1>3, <1>4, <1>5 DEF Signalled
<1>7. rx_head' = rx_cur'
  BY <1>1, <1>2 DEF ReceiveInv
<1>8. ASSUME NEW k \in 1 .. Len(recv_queue')
      PROVE  rx[recv_queue'[k]] = arrived[handled + InHand + k]
  <2>1. CASE k \in 1 .. Len(recv_queue)
    BY <1>3, <2>1 DEF ReceiveInv
  <2>2. CASE k = Len(recv_queue) + 1
    BY <1>1, <1>3, <1>4, <1>5, <2>2 DEF ReceiveInv
  <2> QED
    BY <1>3, <2>1, <2>2
<1>9. (daemon.at \in {"send", "wait"} => Wanted(arrived[handled + 1]) /\ buffer = Reply(arrived[handled + 1]))'
  BY <1>2 DEF ReceiveInv, Wanted, ForUs, Understood, Reply
<1> QED
  BY <1>1, <1>2, <1>4, <1>6, <1>7, <1>8, <1>9 DEF ReceiveInv, At

\* The daemon takes the first index queued.
LEMMA TakeReceives ==
  ASSUME ReceiveTypeOK, ReceiveInv, Take
  PROVE  ReceiveInv'
<1>1. UNCHANGED <<mac, rx, rx_cur, rx_head, icr, buffer, arrived, handled>>
  BY DEF Take
<1>2. recv_queue \in Seq(Descriptor) /\ recv_queue # <<>> /\ recv_queue' = Tail(recv_queue) /\ Descriptor \subseteq Nat
  BY NetAssumption DEF Take, ReceiveTypeOK, Descriptor
<1>3. /\ Head(recv_queue) \in Nat /\ Head(recv_queue) = recv_queue[1]
      /\ Len(recv_queue') = Len(recv_queue) - 1 /\ Len(recv_queue) \in Nat \ {0}
      /\ \A k \in 1 .. Len(recv_queue') : recv_queue'[k] = recv_queue[k + 1]
  BY <1>2, QueueShrinks
<1>4. At("poll") /\ daemon'.at = "copy" /\ daemon'.index = recv_queue[1]
  BY <1>3, PlaceChanges DEF Take, Place
<1>5. InHand = 0 /\ InHand' = 1 /\ handled \in Nat
  BY <1>4 DEF InHand, At, ReceiveTypeOK
<1>6. Len(arrived') = handled' + InHand' + Len(recv_queue') + Signalled'
  BY <1>1, <1>3, <1>5 DEF ReceiveInv, Signalled
<1>7. ASSUME NEW k \in 1 .. Len(recv_queue')
      PROVE  rx[recv_queue'[k]] = arrived[handled + 1 + k]
  <2>1. k + 1 \in 1 .. Len(recv_queue) /\ handled + InHand + (k + 1) = handled + 1 + k
    BY <1>3, <1>5
  <2>2. rx[recv_queue[k + 1]] = arrived[handled + InHand + (k + 1)]
    BY <2>1 DEF ReceiveInv
  <2> QED
    BY <1>3, <2>1, <2>2
<1>8. rx[recv_queue[1]] = arrived[handled + 1]
  <2>1. 1 \in 1 .. Len(recv_queue) /\ handled + InHand + 1 = handled + 1
    BY <1>3, <1>5
  <2> QED
    BY <2>1 DEF ReceiveInv
<1> QED
  BY <1>1, <1>4, <1>5, <1>6, <1>7, <1>8 DEF ReceiveInv, At

\* The daemon works on the frame it holds.
LEMMA WorkReceives ==
  ASSUME ReceiveTypeOK, TransmitInv, ReceiveInv, Copy \/ Receive \/ Send \/ Sent
  PROVE  ReceiveInv' /\ handled' = handled /\ arrived' = arrived
<1>1. UNCHANGED <<mac, receive, arrived, handled>>
  BY DEF Copy, Receive, Send, Sent
<1>2. daemon.at \in {"copy", "receive", "send", "wait"} /\ InHand = 1
  BY DEF Copy, Receive, Send, Sent, At, InHand
<1>0. Send => tx_cur \in Nat
  BY NetAssumption DEF TransmitInv, Slot
<1>3. daemon'.at \in {"receive", "send", "wait", "release"} /\ InHand' = 1
  <2>1. Copy => daemon'.at = "receive"
    BY PlaceChanges DEF Copy, Place
  <2>2. Receive => daemon'.at \in {"send", "release"}
    BY PlaceChanges DEF Receive, Place
  <2>3. Send => daemon'.at = "wait"
    BY <1>0, PlaceChanges DEF Send, Place
  <2>4. Sent => daemon'.at = "release"
    BY PlaceChanges DEF Sent, Place
  <2> QED
    BY <2>1, <2>2, <2>3, <2>4 DEF InHand
<1>4. daemon'.at = "receive" => buffer' = arrived[handled + 1]
  <2>1. daemon'.at = "receive" => Copy
    <3>1. Receive => daemon'.at \in {"send", "release"}
      BY PlaceChanges DEF Receive, Place
    <3>2. Send => daemon'.at = "wait"
      BY <1>0, PlaceChanges DEF Send, Place
    <3>3. Sent => daemon'.at = "release"
      BY PlaceChanges DEF Sent, Place
    <3> QED
      BY <3>1, <3>2, <3>3
  <2> QED
    BY <2>1 DEF Copy, ReceiveInv
<1>5. daemon'.at \in {"send", "wait"} => Wanted(arrived[handled + 1]) /\ buffer' = Reply(arrived[handled + 1])
  <2>1. Copy => daemon'.at = "receive"
    BY PlaceChanges DEF Copy, Place
  <2>2. Sent => daemon'.at = "release"
    BY PlaceChanges DEF Sent, Place
  <2>3. ASSUME Receive, daemon'.at \in {"send", "wait"}
        PROVE  Wanted(arrived[handled + 1]) /\ buffer' = Reply(arrived[handled + 1])
    <3>1. Wanted(buffer)
      BY <2>3, PlaceChanges DEF Receive, Place
    <3>2. buffer = arrived[handled + 1]
      BY <2>3 DEF Receive, ReceiveInv
    <3> QED
      BY <2>3, <3>1, <3>2 DEF Receive
  <2>4. Send => Wanted(arrived[handled + 1]) /\ buffer' = Reply(arrived[handled + 1])
    BY DEF Send, ReceiveInv, At
  <2> QED
    BY <2>1, <2>2, <2>3, <2>4
<1>6. (daemon.at \in {"send", "wait"} => Wanted(arrived[handled + 1]) /\ buffer = Reply(arrived[handled + 1]))'
  BY <1>1, <1>5 DEF Wanted, ForUs, Understood, Reply
<1> QED
  BY <1>1, <1>2, <1>3, <1>4, <1>6 DEF ReceiveInv, receive, At, Signalled

\* sock_buf_release: the daemon is done with the frame it held.
LEMMA ReleaseReceives ==
  ASSUME ReceiveTypeOK, ReceiveInv, ReleaseBuffer
  PROVE  ReceiveInv'
<1>1. UNCHANGED <<mac, receive, arrived>> /\ handled' = handled + 1
  BY DEF ReleaseBuffer
<1>2. At("release") /\ daemon'.at = "poll"
  BY PlaceChanges DEF ReleaseBuffer, Place
<1>3. InHand = 1 /\ InHand' = 0 /\ handled \in Nat /\ Len(recv_queue) \in Nat
  BY <1>2 DEF InHand, At, ReceiveTypeOK
<1>4. ASSUME NEW k \in 1 .. Len(recv_queue)
      PROVE  rx[recv_queue[k]] = arrived[handled' + InHand' + k]
  <2>1. handled + InHand + k = handled' + InHand' + k
    BY <1>1, <1>3
  <2> QED
    BY <2>1 DEF ReceiveInv
<1>5. Len(arrived') = handled' + InHand' + Len(recv_queue') + Signalled'
  BY <1>1, <1>3 DEF ReceiveInv, Signalled, receive
<1> QED
  BY <1>1, <1>2, <1>4, <1>5 DEF ReceiveInv, At, receive

LEMMA OthersReceive ==
  ASSUME ReceiveTypeOK, ReceiveInv, Transmit \/ UNCHANGED netVars
  PROVE  ReceiveInv'
<1>1. UNCHANGED <<mac, receive, daemon, buffer, arrived, handled>>
  BY DEF Transmit, netVars
<1>2. InHand' = InHand /\ Signalled' = Signalled
  BY <1>1 DEF InHand, Signalled, receive
<1>3. (daemon.at \in {"send", "wait"} => Wanted(arrived[handled + 1]) /\ buffer = Reply(arrived[handled + 1]))'
  BY <1>1 DEF ReceiveInv, Wanted, ForUs, Understood, Reply
<1> QED
  BY <1>1, <1>2, <1>3 DEF ReceiveInv, receive, At

LEMMA StartReceives ==
  ASSUME NotStarted, ReceiveTypeOK, Start
  PROVE  ReceiveInv'
<1>1. /\ arrived' = <<>> /\ handled' = 0 /\ recv_queue' = <<>> /\ ~icr' /\ rx_cur' = 0 /\ rx_head' = 0
      /\ daemon'.at = "poll"
  BY PlaceChanges DEF Start, NotStarted, Place
<1>2. InHand' = 0 /\ Signalled' = 0
  BY <1>1 DEF InHand, Signalled
<1> QED
  BY <1>1, <1>2 DEF ReceiveInv, At

LEMMA ReceiveKeeps ==
  ASSUME NotStarted, ReceiveTypeOK, TransmitInv, spoiled = {}, ReceiveInv, [NetNext]_netVars, spoiled' = {}
  PROVE  ReceiveInv'
  BY FailureSpoils, ArriveReceives, CallbackReceives, TakeReceives, WorkReceives, ReleaseReceives, OthersReceive, StartReceives
  DEF NetNext, Daemon

-----------------------------------------------------------------------------
\* The requests among the first frames, counted one frame at a time.
LEMMA OneMoreRequest ==
  ASSUME NEW n \in Nat
  PROVE  /\ Requests(n) = {k \in Requests(n + 1) : k <= n}
         /\ Requests(n + 1) = Requests(n) \cup (IF Wanted(arrived[n + 1]) THEN {n + 1} ELSE {})
         /\ IsFiniteSet(Requests(n)) /\ Cardinality(Requests(n)) \in Nat
         /\ Cardinality(Requests(n + 1)) = Cardinality(Requests(n)) + (IF Wanted(arrived[n + 1]) THEN 1 ELSE 0)
<1>1. Requests(n) = {k \in Requests(n + 1) : k <= n}
  BY DEF Requests
<1>2. Requests(n + 1) = Requests(n) \cup (IF Wanted(arrived[n + 1]) THEN {n + 1} ELSE {})
  BY DEF Requests
<1>3. IsFiniteSet(Requests(n))
  <2>1. IsFiniteSet(1 .. n)
    BY FS_Interval
  <2>2. Requests(n) \subseteq 1 .. n
    BY DEF Requests
  <2> QED
    BY <2>1, <2>2, FS_Subset
<1>4. Cardinality(Requests(n)) \in Nat
  BY <1>3, FS_CardinalityType
<1>5. n + 1 \notin Requests(n)
  BY DEF Requests
<1>6. Cardinality(Requests(n) \cup {n + 1}) = Cardinality(Requests(n)) + 1
  BY <1>3, <1>5, FS_AddElement
<1> QED
  BY <1>1, <1>2, <1>3, <1>4, <1>6

LEMMA PlaceInLine ==
  ASSUME NEW n \in Nat, NEW k \in Requests(n)
  PROVE  Cardinality(Requests(k)) \in 1 .. Cardinality(Requests(n))
<1>1. k \in 1 .. n /\ k \in Nat /\ k \in Requests(k)
  BY DEF Requests
<1>2. Requests(k) \subseteq Requests(n)
  BY <1>1 DEF Requests
<1>3. /\ IsFiniteSet(Requests(n)) /\ Cardinality(Requests(n)) \in Nat
      /\ IsFiniteSet(Requests(k)) /\ Cardinality(Requests(k)) \in Nat
  BY <1>1, OneMoreRequest
<1>4. Cardinality(Requests(k)) <= Cardinality(Requests(n))
  BY <1>2, <1>3, FS_Subset
<1>5. Cardinality(Requests(k)) # 0
  BY <1>1, <1>3, FS_EmptySet
<1> QED
  BY <1>3, <1>4, <1>5

LEMMA SameRequests ==
  ASSUME mac' = mac, NEW n \in Nat, \A k \in 1 .. n : arrived'[k] = arrived[k]
  PROVE  \A k \in 0 .. n : Requests(k)' = Requests(k)
  BY DEF Requests, Wanted, ForUs, Understood

LEMMA SameReplies ==
  ASSUME mac' = mac, wire' = wire, NEW n \in Nat, Done = n, Done' = n, ReplyInv,
         \A k \in 1 .. n : arrived'[k] = arrived[k]
  PROVE  ReplyInv'
<1>1. \A k \in 0 .. n : Requests(k)' = Requests(k)
  BY SameRequests
<1>2. \A g : Reply(g)' = Reply(g)
  BY DEF Reply
<1>3. wire' \in Seq({Reply(f) : f \in Packet}')
  BY DEF ReplyInv, Reply
<1>4. Len(wire') = Cardinality(Requests(n)')
  BY <1>1 DEF ReplyInv
<1>5. ASSUME NEW k \in Requests(n)'
      PROVE  AnswerTo(k)' = Reply(arrived[k])'
  <2>1. k \in Requests(n) /\ k \in 1 .. n /\ k \in 0 .. n
    BY <1>1, <1>5 DEF Requests
  <2>2. AnswerTo(k)' = AnswerTo(k)
    BY <1>1, <2>1 DEF AnswerTo
  <2>3. AnswerTo(k) = Reply(arrived[k])
    BY <2>1 DEF ReplyInv
  <2>4. Reply(arrived[k])' = Reply(arrived[k])
    BY <2>1 DEF Reply
  <2> QED
    BY <2>2, <2>3, <2>4
<1> QED
  BY <1>3, <1>4, <1>5 DEF ReplyInv

LEMMA OneMoreReply ==
  ASSUME mac' = mac, arrived' = arrived, arrived \in Seq(Packet), ReplyInv,
         NEW n \in Nat, Done = n, Done' = n + 1, n + 1 <= Len(arrived),
         wire' = IF Wanted(arrived[n + 1]) THEN Append(wire, Reply(arrived[n + 1])) ELSE wire
  PROVE  ReplyInv'
<1> DEFINE Replies == {Reply(f) : f \in Packet}
<1>1. \A k \in 0 .. n + 1 : Requests(k)' = Requests(k)
  BY SameRequests
<1>2. Replies' = Replies
  BY DEF Reply
<1>3. arrived[n + 1] \in Packet /\ Reply(arrived[n + 1]) \in Replies
  OBVIOUS
<1>4. wire \in Seq(Replies) /\ wire' \in Seq(Replies)
  BY <1>3, QueueGrows DEF ReplyInv
<1>5. /\ Requests(n + 1) = Requests(n) \cup (IF Wanted(arrived[n + 1]) THEN {n + 1} ELSE {})
      /\ Cardinality(Requests(n)) \in Nat
      /\ Cardinality(Requests(n + 1)) = Cardinality(Requests(n)) + (IF Wanted(arrived[n + 1]) THEN 1 ELSE 0)
  BY OneMoreRequest
<1>6. Len(wire) = Cardinality(Requests(n)) /\ \A k \in Requests(n) : AnswerTo(k) = Reply(arrived[k])
  BY DEF ReplyInv
<1>7. Len(wire') = Cardinality(Requests(n + 1))
  BY <1>3, <1>4, <1>5, <1>6, QueueGrows
<1>8. ASSUME NEW k \in Requests(n + 1)
      PROVE  wire'[Cardinality(Requests(k))] = Reply(arrived[k])
  <2>1. CASE k \in Requests(n)
    <3>1. Cardinality(Requests(k)) \in 1 .. Len(wire)
      BY <1>6, <2>1, PlaceInLine
    <3>2. wire'[Cardinality(Requests(k))] = wire[Cardinality(Requests(k))]
      BY <1>3, <1>4, <3>1, QueueGrows
    <3> QED
      BY <1>6, <2>1, <3>2 DEF AnswerTo
  <2>2. CASE k = n + 1 /\ Wanted(arrived[n + 1])
    BY <1>3, <1>4, <1>5, <1>6, <2>2, QueueGrows
  <2> QED
    BY <1>5, <2>1, <2>2
<1>9. ASSUME NEW k \in Requests(n + 1)'
      PROVE  AnswerTo(k)' = Reply(arrived[k])'
  <2>1. k \in Requests(n + 1) /\ k \in 0 .. n + 1
    BY <1>1, <1>9 DEF Requests
  <2>2. AnswerTo(k)' = wire'[Cardinality(Requests(k))]
    BY <1>1, <2>1 DEF AnswerTo
  <2>3. Reply(arrived[k])' = Reply(arrived[k])
    BY DEF Reply
  <2> QED
    BY <1>8, <2>1, <2>2, <2>3
<1>10. Len(wire') = Cardinality(Requests(n + 1)')
  BY <1>1, <1>7
<1> QED
  BY <1>2, <1>4, <1>9, <1>10 DEF ReplyInv

-----------------------------------------------------------------------------
\* The frame in hand came in.
LEMMA DoneFacts ==
  ASSUME ReceiveTypeOK, ReceiveInv
  PROVE  /\ handled \in Nat /\ arrived \in Seq(Packet) /\ Done \in Nat /\ Done <= Len(arrived)
         /\ daemon.at \notin {"off", "poll"} => handled + 1 <= Len(arrived)
<1>1. handled \in Nat /\ arrived \in Seq(Packet) /\ Len(recv_queue) \in Nat /\ Len(arrived) \in Nat
  BY DEF ReceiveTypeOK
<1>2. Len(arrived) >= handled + InHand /\ InHand \in {0, 1}
  BY <1>1 DEF ReceiveInv, Signalled, InHand
<1>3. Finished => InHand = 1
  BY DEF Finished, At, InHand
<1> QED
  BY <1>1, <1>2, <1>3 DEF Done, InHand

\* A step that neither finishes a frame nor sends one.
LEMMA QuietReplies ==
  ASSUME NotStarted, ReceiveTypeOK, TransmitInv, ReceiveInv, ReplyInv,
         \/ \E f \in Packet : Arrive(f)
         \/ Callback \/ Take \/ Copy \/ Send \/ Sent \/ ReleaseBuffer \/ UNCHANGED netVars
  PROVE  ReplyInv'
<1>1. UNCHANGED <<mac, wire>>
  BY DEF Arrive, Callback, Take, Copy, Send, Sent, ReleaseBuffer, netVars
<1>2. PICK n \in Nat : n = Done
  BY DoneFacts
<1>3. \A k \in 1 .. n : arrived'[k] = arrived[k]
  <2>1. CASE \E f \in Packet : Arrive(f)
    <3>1. PICK f \in Packet : arrived' = Append(arrived, f)
      BY <2>1 DEF Arrive
    <3> QED
      BY <1>2, <3>1, DoneFacts, QueueGrows
  <2>2. CASE arrived' = arrived
    BY <2>2
  <2> QED
    BY <2>1, <2>2 DEF Callback, Take, Copy, Send, Sent, ReleaseBuffer, netVars
<1>4. Done' = n
  <2>1. CASE (\E f \in Packet : Arrive(f)) \/ Callback \/ UNCHANGED netVars
    <3>1. UNCHANGED <<daemon, tx, handled>>
      BY <2>1 DEF Arrive, Callback, netVars, transmit
    <3> QED
      BY <1>2, <3>1 DEF Done, Finished, At
  <2>2. CASE Take
    <3>0. Descriptor \subseteq Nat
      BY NetAssumption DEF Descriptor
    <3>1. Head(recv_queue) \in Nat
      BY <2>2, <3>0, QueueShrinks DEF Take, ReceiveTypeOK
    <3>2. daemon.at = "poll" /\ daemon'.at = "copy" /\ handled' = handled
      BY <2>2, <3>1, PlaceChanges DEF Take, Place, At
    <3> QED
      BY <1>2, <3>2 DEF Done, Finished, At
  <2>3. CASE Copy
    <3>1. daemon.at = "copy" /\ daemon'.at = "receive" /\ handled' = handled
      BY <2>3, PlaceChanges DEF Copy, Place, At
    <3> QED
      BY <1>2, <3>1 DEF Done, Finished, At
  <2>4. CASE Send
    <3>1. tx_cur \in Slot /\ tx_cur \in Nat
      BY NetAssumption DEF TransmitInv, Slot
    <3>2. daemon.at = "send" /\ daemon'.at = "wait" /\ daemon'.index = tx_cur /\ handled' = handled
      BY <2>4, <3>1, PlaceChanges DEF Send, Place, At
    <3>3. tx'[tx_cur] = "ready"
      BY <2>4, <3>1 DEF Send, TransmitInv
    <3> QED
      BY <1>2, <3>2, <3>3 DEF Done, Finished, At
  <2>5. CASE Sent
    <3>1. daemon.at = "wait" /\ tx[daemon.index] = "done" /\ daemon'.at = "release" /\ handled' = handled
      BY <2>5, PlaceChanges DEF Sent, Place, At
    <3> QED
      BY <1>2, <3>1 DEF Done, Finished, At
  <2>6. CASE ReleaseBuffer
    <3>1. daemon.at = "release" /\ daemon'.at = "poll" /\ handled' = handled + 1
      BY <2>6, PlaceChanges DEF ReleaseBuffer, Place, At
    <3> QED
      BY <1>2, <3>1, DoneFacts DEF Done, Finished, At
  <2> QED
    BY <2>1, <2>2, <2>3, <2>4, <2>5, <2>6
<1> QED
  BY <1>1, <1>2, <1>3, <1>4, SameReplies

\* The daemon passes over a frame that asks nothing of us.
LEMMA ReceiveReplies ==
  ASSUME ReceiveTypeOK, ReceiveInv, ReplyInv, Receive
  PROVE  ReplyInv'
<1>1. UNCHANGED <<mac, wire, arrived, handled>>
  BY DEF Receive
<1>2. PICK n \in Nat : n = handled
  BY DoneFacts
<1>3. At("receive") /\ Done = n /\ n + 1 <= Len(arrived) /\ arrived \in Seq(Packet) /\ buffer = arrived[n + 1]
  BY <1>2, DoneFacts DEF Receive, ReceiveInv, Done, Finished, At
<1>4. CASE Wanted(buffer)
  <2>1. daemon'.at = "send"
    BY <1>4, PlaceChanges DEF Receive, Place
  <2>2. Done' = n
    BY <1>1, <1>2, <2>1 DEF Done, Finished, At
  <2> QED
    BY <1>1, <1>3, <2>2, SameReplies
<1>5. CASE ~Wanted(buffer)
  <2>1. daemon'.at = "release"
    BY <1>5, PlaceChanges DEF Receive, Place
  <2>2. Done' = n + 1
    BY <1>1, <1>2, <2>1 DEF Done, Finished, At
  <2>3. wire' = IF Wanted(arrived[n + 1]) THEN Append(wire, Reply(arrived[n + 1])) ELSE wire
    BY <1>1, <1>3, <1>5
  <2> QED
    BY <1>1, <1>3, <2>2, <2>3, OneMoreReply
<1> QED
  BY <1>4, <1>5

\* The card takes the reply while the daemon waits, from the buffer it holds.
LEMMA TransmitReplies ==
  ASSUME ReceiveTypeOK, TransmitInv, ReceiveInv, ReplyInv, Transmit
  PROVE  ReplyInv'
<1>1. UNCHANGED <<mac, arrived, handled, daemon>> /\ wire' = Append(wire, buffer)
  BY DEF Transmit
<1>2. PICK n \in Nat : n = handled
  BY DoneFacts
<1>3. At("wait") /\ tx[daemon.index] = "ready" /\ tx_head = daemon.index
  BY DEF Transmit, TransmitInv
<1>4. tx'[daemon.index] = "done"
  BY <1>3 DEF Transmit, TransmitInv
<1>5. Done = n /\ n + 1 <= Len(arrived) /\ arrived \in Seq(Packet)
  BY <1>2, <1>3, DoneFacts DEF Done, Finished, At
<1>6. Done' = n + 1
  BY <1>1, <1>2, <1>3, <1>4 DEF Done, Finished, At
<1>7. wire' = IF Wanted(arrived[n + 1]) THEN Append(wire, Reply(arrived[n + 1])) ELSE wire
  BY <1>1, <1>2, <1>3 DEF ReceiveInv, At
<1> QED
  BY <1>1, <1>5, <1>6, <1>7, OneMoreReply

LEMMA StartReplies ==
  ASSUME NotStarted, ReceiveTypeOK, Start
  PROVE  ReplyInv'
<1>1. wire' = <<>> /\ handled' = 0 /\ daemon'.at = "poll"
  BY PlaceChanges DEF Start, NotStarted, Place
<1>2. Done' = 0
  BY <1>1 DEF Done, Finished, At
<1>3. Requests(0)' = {}
  BY DEF Requests
<1> QED
  BY <1>1, <1>2, <1>3, FS_EmptySet DEF ReplyInv

LEMMA ReplyKeeps ==
  ASSUME NotStarted, ReceiveTypeOK, TransmitInv, ReceiveInv, ReplyInv, [NetNext]_netVars, spoiled' = {}
  PROVE  ReplyInv'
  BY FailureSpoils, QuietReplies, ReceiveReplies, TransmitReplies, StartReplies DEF NetNext, Daemon

LEMMA NetStarts == NetInit => NetInv
<1> SUFFICES ASSUME NetInit PROVE NetInv
  OBVIOUS
<1> USE NetAssumption
<1>1. NotStarted
  BY DEF NetInit, NotStarted, At
<1>2. 0 % E1000_NUM_TX_DESC = 0 /\ 0 \in Slot /\ 0 \in Descriptor
  BY DEF Slot, Descriptor
<1>3. TransmitInv
  BY <1>2 DEF NetInit, TransmitInv, At, Slot
<1>4. ReceiveTypeOK
  <2>1. recv_queue = <<>> /\ arrived = <<>> /\ <<>> \in Seq(Descriptor) /\ <<>> \in Seq(Packet)
    BY DEF NetInit
  <2>2. DOMAIN rx = Descriptor /\ rx = [i \in Descriptor |-> rx[i]]
    BY DEF NetInit
  <2>3. daemon \in [at : Place, index : Nat] /\ ~At("copy")
    BY DEF NetInit, Place, At
  <2> QED
    BY <1>2, <2>1, <2>2, <2>3 DEF NetInit, ReceiveTypeOK
<1>5. InHand = 0 /\ Signalled = 0 /\ Done = 0 /\ Requests(0) = {}
  BY DEF NetInit, InHand, Signalled, Done, Finished, At, Requests
<1>6. ReceiveInv
  BY <1>5 DEF NetInit, ReceiveInv, At
<1>7. ReplyInv
  BY <1>5, FS_EmptySet DEF NetInit, ReplyInv
<1> QED
  BY <1>1, <1>3, <1>4, <1>6, <1>7 DEF NetInv

LEMMA NetStep == NetInv /\ [NetNext]_netVars => NetInv'
  BY StartKeeps, TransmitKeeps, ReceiveTyped, SpoiledStays, ReceiveKeeps, ReplyKeeps DEF NetInv

\* Whatever arrives and however the card, its interrupt and the daemon
\* interleave, the frames the daemon has are those that came, in order, and the
\* card has left to send at most the one the daemon waits for.
THEOREM NetInvariance == NetSpec => []NetInv
<1>1. NetInit => NetInv
  BY NetStarts
<1>2. NetInv /\ [NetNext]_netVars => NetInv'
  BY NetStep
<1> QED
  BY <1>1, <1>2, PTL DEF NetSpec

\* A host names itself in an ARP frame as its Ethernet header does.
HonestSenders == \A f \in Packet : f.type = "ARP" => f.src_mac = f.src

LEMMA RepliesTrue ==
  ASSUME HonestSenders, NetInv
  PROVE  RepliesAnswer
<1> SUFFICES ASSUME spoiled = {}
             PROVE  /\ Cardinality(Requests(handled)) <= Len(wire)
                    /\ Len(wire) <= Cardinality(Requests(handled + InHand))
                    /\ \A k \in Requests(handled + InHand) :
                         Cardinality(Requests(k)) <= Len(wire)
                         => AnswerTo(k) # Nothing /\ IsReplyTo(AnswerTo(k), arrived[k])
  BY DEF RepliesAnswer
<1>1. ReceiveTypeOK /\ ReceiveInv /\ ReplyInv
  BY DEF NetInv
<1>2. handled \in Nat /\ arrived \in Seq(Packet) /\ InHand \in {0, 1} /\ (Done = handled \/ (Done = handled + 1 /\ InHand = 1))
  BY <1>1, DoneFacts DEF Done, Finished, At, InHand
<1>3. /\ Cardinality(Requests(handled)) \in Nat
      /\ Requests(handled + 1) = Requests(handled) \cup (IF Wanted(arrived[handled + 1]) THEN {handled + 1} ELSE {})
      /\ Cardinality(Requests(handled + 1)) =
           Cardinality(Requests(handled)) + (IF Wanted(arrived[handled + 1]) THEN 1 ELSE 0)
  BY <1>2, OneMoreRequest
<1>4. Len(wire) = Cardinality(Requests(Done)) /\ \A k \in Requests(Done) : AnswerTo(k) = Reply(arrived[k])
  BY <1>1 DEF ReplyInv
<1>5. ASSUME NEW k \in Requests(handled + InHand), Cardinality(Requests(k)) <= Len(wire)
      PROVE  AnswerTo(k) # Nothing /\ IsReplyTo(AnswerTo(k), arrived[k])
  <2>1. k \in Requests(Done)
    BY <1>2, <1>3, <1>4, <1>5
  <2>2. AnswerTo(k) = Reply(arrived[k]) /\ Wanted(arrived[k])
    BY <1>4, <2>1 DEF Requests
  <2>3. arrived[k] \in Packet
    <3>1. handled + InHand <= Len(arrived) /\ k \in 1 .. handled + InHand
      BY <1>1, <1>2, DoneFacts DEF InHand, Requests, ReceiveTypeOK, ReceiveInv, Signalled
    <3> QED
      BY <1>2, <3>1
  <2>4. arrived[k].src_mac = arrived[k].src
    BY <2>2, <2>3 DEF HonestSenders, Wanted, Understood
  <2>5. AnswerTo(k).type = "ARP" /\ Nothing.type = "nothing"
    BY <2>2 DEF Reply, Nothing
  <2> QED
    BY <2>2, <2>4, <2>5 DEF IsReplyTo, Reply, Wanted
<1> QED
  BY <1>2, <1>3, <1>4, <1>5

\* While senders name themselves truly, each frame out answers the request it
\* is for, in the order they came in and once each.
THEOREM RepliesAlwaysAnswer ==
  ASSUME HonestSenders
  PROVE  NetSpec => []RepliesAnswer
<1>1. NetInv => RepliesAnswer
  BY RepliesTrue
<1> QED
  BY <1>1, NetInvariance, PTL
=============================================================================
