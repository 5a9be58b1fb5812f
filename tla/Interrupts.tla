----------------------------- MODULE Interrupts -----------------------------
(***************************************************************************)
(* Hardware interrupts and exceptions of the kernel: the two interrupt     *)
(* controllers as the loader programs them (MeOSLDR/pic.c), the gates of   *)
(* descriptor_tables.c, the stubs of kasm.asm and the common handlers of   *)
(* isr.cpp.                                                                *)
(*                                                                         *)
(* A handler that wakes a thread (thread_notify, semaphore_signal) leaves  *)
(* interrupts unmasked, so that before it has told the controllers of its  *)
(* end (EOI) it is interrupted, or switched away from by a tick.  An EOI   *)
(* names no line: the controller takes it for the highest one in service.  *)
(* Which thread runs next is left open; see Scheduler.                     *)
(***************************************************************************)
EXTENDS Integers, Sequences, FiniteSets

CONSTANTS
  Thread,        (* the threads of the kernel                              *)
  InitThread,    (* the one that runs when the tables have been set up     *)
  Device,        (* the interrupt lines of the devices                     *)
  Drivers,       (* vectors the drivers register a handler for             *)
  Exceptions,    (* vectors of the exceptions and services of an instance  *)
  MaxFrames      (* bound: how deep interrupts nest on a thread's stack    *)

Timer   == 0
Cascade == 2                     \* the slave's line at the primary

\* No device but the keyboard (line 1) is on the primary controller.
ASSUME InterruptsAssumption ==
  /\ IsFiniteSet(Thread) /\ InitThread \in Thread
  /\ Device \subseteq {1} \cup 8 .. 15
  /\ Drivers \subseteq 0 .. 255 /\ Exceptions \subseteq 0 .. 31 \cup {128}
  /\ MaxFrames \in Nat

VARIABLES
  requested,             (* lines whose interrupt waits to be delivered    *)
  in_service,            (* lines of the primary delivered, before the EOI *)
  in_service_slave,      (* the same of the slave                          *)
  interrupt_handlers,    (* the vectors a handler is registered for        *)
  frames,                (* the interrupts on the stack of each thread     *)
  unmasked,              (* the interrupt flag of each thread              *)
  running,               (* current_thread                                 *)
  stopped                (* PANIC was called                               *)

service == <<requested, in_service, in_service_slave>>
interruptVars == <<service, interrupt_handlers, frames, unmasked, running, stopped>>

-----------------------------------------------------------------------------
\* init_pic of the loader: the lines 0-7 have vectors from 32, the slave's 8-15
\* those from 40; no line is masked.
Vector(line) == line + 32
OnSlave(line) == line >= 8
Input(line) == IF OnSlave(line) THEN Cascade ELSE line

\* The order of the lines at the processor, highest first: 0, 1, 8-15, 3-7.
Before(k, l) == Input(k) < Input(l) \/ (Input(k) = Input(l) /\ k < l)

\* A controller delivers a line only above all it has in service.
Deliverable ==
  {l \in requested : /\ \A i \in in_service : Input(l) < i
                     /\ OnSlave(l) => \A i \in in_service_slave : l < i}
Delivers(line) ==
  /\ line \in Deliverable
  /\ \A k \in Deliverable \ {line} : Before(line, k)

\* An EOI ends the highest line in service.
AfterEoi(lines) == {l \in lines : \E k \in lines : k < l}

\* The exceptions whose handler is PANIC, and what init_descriptor_tables
\* registers: those, the loader's handlers of the page fault and the timer, and
\* the services of user programs.
Fatal == {0, 1, 4, 5, 6, 7, 8, 10, 11, 12, 13}
Installed == Fatal \cup {14, Vector(Timer), 128}

\* The stub idt_set_gate puts at a vector leads to one of three handlers.
Gate(vector) ==
  CASE vector \in 0 .. 31 \cup {128}             -> "isr_handler"
    [] vector = Vector(Timer)                    -> "scheduler_interrupt"
    [] vector \in {Vector(l) : l \in 1 .. 15}     -> "irq_handler"

InterruptsInit ==
  /\ requested = {} /\ in_service = {} /\ in_service_slave = {}
  /\ interrupt_handlers = Installed
  /\ frames = [t \in Thread |-> <<>>]
  /\ unmasked = [t \in Thread |-> FALSE]
  /\ running = InitThread
  /\ stopped = FALSE

Top == frames[running][Len(frames[running])]
Enter(vector, stage) ==
  frames' = [frames EXCEPT ![running] =
               Append(@, [vector |-> vector, stage |-> stage, saved |-> unmasked[running]])]
Reach(stage) ==
  frames' = [frames EXCEPT ![running][Len(frames[running])] =
               [vector |-> Top.vector, stage |-> stage, saved |-> Top.saved]]
In(stage) == ~stopped /\ Len(frames[running]) > 0 /\ Top.stage = stage
Inside == ~stopped /\ frames[running] = <<>>      \* in code of the thread

-----------------------------------------------------------------------------
\* A device asks for an interrupt, and keeps asking until it is delivered.
Raise(line) ==
  /\ ~stopped /\ line \notin requested
  /\ requested' = requested \cup {line}
  /\ UNCHANGED <<in_service, in_service_slave, interrupt_handlers, frames, unmasked, running, stopped>>

\* register_interrupt_handler: vmmngr_initialize, kybrd_init, e1000_start and
\* init_ahci call it, each for its own vector.
Register(vector) ==
  /\ Inside /\ vector \notin interrupt_handlers
  /\ interrupt_handlers' = interrupt_handlers \cup {vector}
  /\ UNCHANGED <<service, frames, unmasked, running, stopped>>

\* The processor takes the interrupt of a device: the stub and irq_handler run,
\* with interrupts masked.
Interrupt(line) ==
  /\ ~stopped /\ unmasked[running] /\ Delivers(line)
  /\ Gate(Vector(line)) = "irq_handler"
  /\ Len(frames[running]) < MaxFrames
  /\ requested' = requested \ {line}
  /\ in_service' = in_service \cup {Input(line)}
  /\ in_service_slave' = IF OnSlave(line) THEN in_service_slave \cup {line} ELSE in_service_slave
  /\ Enter(Vector(line), "handler")
  /\ unmasked' = [unmasked EXCEPT ![running] = FALSE]
  /\ UNCHANGED <<interrupt_handlers, running, stopped>>

\* scheduler_interrupt: it may switch to another thread, also out of a handler,
\* and ends with an EOI; interrupts are masked until then.
Tick ==
  /\ ~stopped /\ unmasked[running] /\ Delivers(Timer)
  /\ requested' = requested \ {Timer}
  /\ in_service' = AfterEoi(in_service \cup {Timer})
  /\ running' \in Thread
  /\ UNCHANGED <<in_service_slave, interrupt_handlers, frames, unmasked, stopped>>

\* A handler may unmask interrupts: ahci_callback when it signals a semaphore,
\* the others when thread_notify finds the thread not blocked.  Any handler may do
\* so here.  A line without a handler is only reported.
Wake ==
  /\ In("handler") /\ Top.vector \in interrupt_handlers
  /\ unmasked' = [unmasked EXCEPT ![running] = TRUE]
  /\ UNCHANGED <<service, interrupt_handlers, frames, running, stopped>>

\* irq_handler tells the slave of the end of its line.
EndSlave ==
  /\ In("handler") /\ Top.vector >= 40
  /\ in_service_slave' = AfterEoi(in_service_slave)
  /\ Reach("told")
  /\ UNCHANGED <<requested, in_service, interrupt_handlers, unmasked, running, stopped>>

\* Faulty form of EndPrimary: the primary does not wait for the slave.
EndPrimaryFirst ==
  /\ In("handler") \/ In("told")
  /\ in_service' = AfterEoi(in_service)
  /\ Reach(IF Top.stage = "told" \/ Top.vector < 40 THEN "over" ELSE "handler")
  /\ UNCHANGED <<requested, in_service_slave, interrupt_handlers, unmasked, running, stopped>>

\* irq_handler tells the primary, last.
EndPrimary ==
  /\ In("told") \/ (In("handler") /\ Top.vector < 40)
  /\ in_service' = AfterEoi(in_service)
  /\ Reach("over")
  /\ UNCHANGED <<requested, in_service_slave, interrupt_handlers, unmasked, running, stopped>>

\* isr_handler: a fatal exception is a PANIC; otherwise the handler, if any, runs
\* masked and what it deferred (page_fault_bottom) with interrupts on.
Exception(vector) ==
  /\ Inside /\ Gate(vector) = "isr_handler" /\ Len(frames[running]) < MaxFrames
  /\ IF vector \in Fatal
     THEN stopped' = TRUE /\ UNCHANGED <<frames, unmasked>>
     ELSE /\ Enter(vector, "over")
          /\ unmasked' = [unmasked EXCEPT ![running] = TRUE]
          /\ UNCHANGED stopped
  /\ UNCHANGED <<service, interrupt_handlers, running>>

\* iretd of the stubs: the flag is again what it was.
Iret ==
  /\ In("over")
  /\ unmasked' = [unmasked EXCEPT ![running] = Top.saved]
  /\ frames' = [frames EXCEPT ![running] = SubSeq(@, 1, Len(@) - 1)]
  /\ UNCHANGED <<service, interrupt_handlers, running, stopped>>

\* INT_ON and INT_OFF of a thread
SetFlag ==
  /\ Inside
  /\ unmasked' = [unmasked EXCEPT ![running] = ~@]
  /\ UNCHANGED <<service, interrupt_handlers, frames, running, stopped>>

\* thread_current_yield, thread_block or thread_sleep: no EOI here.
Yield ==
  /\ Inside /\ running' \in Thread
  /\ UNCHANGED <<service, interrupt_handlers, frames, unmasked, stopped>>

InterruptsNext ==
  \/ \E l \in Device \cup {Timer} : Raise(l)
  \/ \E v \in Drivers : Register(v)
  \/ \E l \in Device : Interrupt(l)
  \/ Tick \/ Wake \/ EndSlave \/ EndPrimary
  \/ \E v \in Exceptions : Exception(v)
  \/ Iret \/ SetFlag \/ Yield

InterruptsSpec == InterruptsInit /\ [][InterruptsNext]_interruptVars

-----------------------------------------------------------------------------
\* The interrupts whose handler has not told the primary, and the slave.
Frame == {f \in Thread \X (1 .. MaxFrames) : f[2] <= Len(frames[f[1]])}
FrameOf(f) == frames[f[1]][f[2]]
Unfinished == {f \in Frame : FrameOf(f).stage # "over"}
OfSlave == {f \in Unfinished : FrameOf(f).vector >= 40}
SlaveUntold == {f \in OfSlave : FrameOf(f).stage = "handler"}

\* Each controller has as many lines in service as handlers are to tell it of
\* their end, in whatever order nested handlers of several threads come to it: no
\* line is left in service for good, which would mask it and all below it
\* (isr.cpp 57-60, scheduler_interrupt 127-135).
ServiceBalanced ==
  /\ Cardinality(Unfinished) = Cardinality(in_service)
  /\ Cardinality(SlaveUntold) = Cardinality(in_service_slave)

\* The handlers of the slave's lines, ahci_callback and e1000_callback, are never
\* interrupted by one another or by themselves, although they run with interrupts
\* unmasked and although an EOI can end the line of another handler: they touch
\* their device's state without a lock (AHCI.cpp 251-265, i217.cpp 328-345).
SlaveHandlersExclusive == \A f, g \in OfSlave : f = g

\* Both
InterruptsSound == ServiceBalanced /\ SlaveHandlersExclusive
=============================================================================
