----------------------------- MODULE Keyboard -----------------------------
(***************************************************************************)
(* keyboard.cpp on top of the scheduler: the interrupt handler queues key  *)
(* codes for a daemon thread and notifies it, and the daemon queues the    *)
(* keys for the thread that reads the keyboard and notifies that one.      *)
(* Both threads look into their queue and block when it is empty; between  *)
(* the look and the block they call thread_get_current_node, which         *)
(* unmasks interrupts.  Each queue has one producer and one consumer       *)
(* (QueueSpsc), so its operations are single steps here.                   *)
(***************************************************************************)
EXTENDS Scheduler

CONSTANTS
  Daemon,      (* keyboard_daemon                                         *)
  Reader,      (* the thread that reads the keyboard                      *)
  Make,        (* codes of pressed keys                                   *)
  Break,       (* codes of released keys, which are not passed on         *)
  Places,      (* elements a queue holds: one less than its 10 slots      *)
  MaxRead      (* bound on the count of one read                          *)

ASSUME KeyboardAssumption ==
  /\ {Daemon, Reader} \subseteq Thread \ {Idle} /\ Daemon # Reader
  /\ Make \cap Break = {}
  /\ Places \in Nat \ {0} /\ MaxRead \in Nat
  /\ {"insert", "block", "notify", "keyboard"} \subseteq Calls

VARIABLES
  keycode_buffer,   (* codes from the interrupt handler to the daemon     *)
  user_buffer,      (* keys from the daemon to the reader                 *)
  active,           (* the thread that reads, or NoThread                 *)
  code,             (* the code the daemon is dealing with                *)
  temp_count,       (* how many keys the reader has still to read         *)
  pc                (* where the daemon and the reader are                *)

keyboardVars == <<keycode_buffer, user_buffer, active, code, temp_count, pc>>
typingVars == <<vars, keyboardVars>>

Goto(label) == pc' = [pc EXCEPT ![current] = label]

\* Thread t runs code of keyboard.cpp, at the label.
Executes(t, label) == Service("keyboard") /\ current = t /\ pc[t] = label

\* queue_spsc_insert: a full queue drops the element.
Inserted(q, e) == IF Len(q) < Places THEN Append(q, e) ELSE q

\* Faulty form of KeyInterrupt: the daemon is not notified.
KeyUnnoticed(c) ==
  /\ ~panicked /\ current # NoThread /\ intr[current]
  /\ state[Daemon] # "NONE"
  /\ keycode_buffer' = Inserted(keycode_buffer, c)
  /\ UNCHANGED <<vars, user_buffer, active, code, temp_count, pc>>

\* keyboard_callback.  It is registered while interrupts are masked, and they
\* are not unmasked before there is a daemon.  A daemon that is not blocked is
\* left alone.
KeyInterrupt(c) ==
  /\ ~panicked /\ current # NoThread /\ intr[current]
  /\ state[Daemon] # "NONE"
  /\ keycode_buffer' = Inserted(keycode_buffer, c)
  /\ IF state[Daemon] = "BLOCK" THEN NotifyFromInterrupt(Daemon)
                                ELSE UNCHANGED vars
  /\ UNCHANGED <<user_buffer, active, code, temp_count, pc>>

\* thread_get_current_node, before thread_block: INT_OFF, a search, INT_ON.
GetNode ==
  /\ intr' = [intr EXCEPT ![current] = TRUE]
  /\ UNCHANGED <<ticks, state, ready, block, sleep, sleep_time, current,
                 in_critical_section, panicked, dozing, nesting>>

-----------------------------------------------------------------------------
(* keyboard_irq, the daemon *)

\* The queue is looked into.
DaemonLook ==
  /\ Executes(Daemon, "look")
  /\ Goto(IF keycode_buffer = <<>> THEN "node" ELSE "take")
  /\ UNCHANGED <<vars, keycode_buffer, user_buffer, active, code, temp_count>>

\* A code is taken; the codes of released keys change the shift state only.
DaemonTake ==
  /\ Executes(Daemon, "take")
  /\ code' = Head(keycode_buffer)
  /\ keycode_buffer' = Tail(keycode_buffer)
  /\ Goto(IF code' \in Make THEN "active" ELSE "look")
  /\ UNCHANGED <<vars, user_buffer, active, temp_count>>

\* Faulty form of DaemonPass: the reader is not asked for.
DaemonPassAlways ==
  /\ Executes(Daemon, "active")
  /\ user_buffer' = Inserted(user_buffer, code)
  /\ Goto("notify")
  /\ UNCHANGED <<vars, keycode_buffer, active, code, temp_count>>

\* If a thread reads, the key is queued for it; else it is dropped...
DaemonPass ==
  /\ Executes(Daemon, "active")
  /\ IF active # NoThread
     THEN user_buffer' = Inserted(user_buffer, code) /\ Goto("notify")
     ELSE UNCHANGED user_buffer /\ Goto("look")
  /\ UNCHANGED <<vars, keycode_buffer, active, code, temp_count>>

\* Faulty form of DaemonNotify: the reader is not notified.
DaemonForgets ==
  /\ Executes(Daemon, "notify")
  /\ Goto("look")
  /\ UNCHANGED <<vars, keycode_buffer, user_buffer, active, code, temp_count>>

\* ... and thread_notify is given what active is by now.
DaemonNotify ==
  /\ Executes(Daemon, "notify")
  /\ IF active # NoThread
     THEN Notify(active)
     ELSE /\ panicked' = TRUE
          /\ UNCHANGED <<ticks, state, ready, block, sleep, sleep_time,
                         current, in_critical_section, intr, dozing, nesting>>
  /\ Goto("look")
  /\ UNCHANGED <<keycode_buffer, user_buffer, active, code, temp_count>>

DaemonNode ==
  /\ Executes(Daemon, "node") /\ GetNode
  /\ Goto("block")
  /\ UNCHANGED <<keycode_buffer, user_buffer, active, code, temp_count>>

DaemonBlock ==
  /\ Executes(Daemon, "block") /\ BlockSelf
  /\ Goto("look")
  /\ UNCHANGED <<keycode_buffer, user_buffer, active, code, temp_count>>

-----------------------------------------------------------------------------
(* kybd_read, called by the reader *)

\* The reader becomes the active thread.
Read(n) ==
  /\ Executes(Reader, "idle") /\ MayWait /\ GetNode
  /\ state[Daemon] # "NONE"
  /\ active' = Reader
  /\ temp_count' = n
  /\ Goto("look")
  /\ UNCHANGED <<keycode_buffer, user_buffer, code>>

ReaderLook ==
  /\ Executes(Reader, "look")
  /\ Goto(IF temp_count = 0 THEN "done"
          ELSE IF user_buffer = <<>> THEN "node" ELSE "take")
  /\ UNCHANGED <<vars, keycode_buffer, user_buffer, active, code, temp_count>>

ReaderTake ==
  /\ Executes(Reader, "take")
  /\ user_buffer' = Tail(user_buffer)
  /\ temp_count' = temp_count - 1
  /\ Goto("look")
  /\ UNCHANGED <<vars, keycode_buffer, active, code>>

ReaderNode ==
  /\ Executes(Reader, "node") /\ GetNode
  /\ Goto("block")
  /\ UNCHANGED <<keycode_buffer, user_buffer, active, code, temp_count>>

ReaderBlock ==
  /\ Executes(Reader, "block") /\ BlockSelf
  /\ Goto("look")
  /\ UNCHANGED <<keycode_buffer, user_buffer, active, code, temp_count>>

\* The read returns.
ReaderDone ==
  /\ Executes(Reader, "done")
  /\ active' = NoThread
  /\ Goto("idle")
  /\ UNCHANGED <<vars, keycode_buffer, user_buffer, code, temp_count>>

-----------------------------------------------------------------------------
\* The daemon is created and blocked by init_keyboard, which the kernel calls
\* with interrupts masked; thread_block unmasks them.
InitKeyboard ==
  /\ Service("insert") /\ current = InitThread
  /\ state[Daemon] = "NONE"
  /\ state' = [state EXCEPT ![Daemon] = "BLOCK"]
  /\ block' = InsertBackNode(block, Daemon)
  /\ intr' = [intr EXCEPT ![current] = TRUE]
  /\ UNCHANGED <<ticks, ready, sleep, sleep_time, current, in_critical_section,
                 panicked, dozing, nesting, keyboardVars>>

KeyboardInit ==
  /\ Init
  /\ keycode_buffer = <<>> /\ user_buffer = <<>>
  /\ active = NoThread /\ temp_count = 0
  /\ code = NoThread
  /\ pc = [t \in {Daemon, Reader} |-> IF t = Daemon THEN "look" ELSE "idle"]

DaemonStep ==
  \/ DaemonLook \/ DaemonTake \/ DaemonPass \/ DaemonNotify
  \/ DaemonNode \/ DaemonBlock

ReaderStep ==
  \/ ReaderLook \/ ReaderTake \/ ReaderNode \/ ReaderBlock \/ ReaderDone
  \/ \E n \in 1..MaxRead : Read(n)

Schedule ==
  /\ \/ Tick \/ SchedulerStart
     \/ \E t \in Thread \ {Daemon} : Insert(t)
  /\ UNCHANGED keyboardVars

KeyboardNext ==
  \/ DaemonStep \/ ReaderStep \/ InitKeyboard \/ Schedule
  \/ \E c \in Make \cup Break : KeyInterrupt(c)

KeyboardSpec == KeyboardInit /\ [][KeyboardNext]_typingVars

\* The timer ticks; a tick masked for a while stays pending.  The daemon and
\* the reader go on, and the reader reads again and again.
KeyboardFairSpec ==
  /\ KeyboardSpec
  /\ WF_typingVars(SchedulerStart /\ UNCHANGED keyboardVars)
  /\ SF_typingVars(Tick /\ UNCHANGED keyboardVars)
  /\ SF_typingVars(DaemonStep)
  /\ SF_typingVars(ReaderStep)

\* The user goes on typing, and not always too fast: time and again a key is
\* pressed while its code finds a place.
TypingSpec ==
  /\ KeyboardFairSpec
  /\ \A c \in Make :
       /\ SF_typingVars(KeyInterrupt(c))
       /\ SF_typingVars(KeyInterrupt(c) /\ Len(keycode_buffer) < Places)

-----------------------------------------------------------------------------
(* Properties *)

\* The daemon reads active twice, to test it and to notify the thread.  It
\* notifies a thread all the same: the reader has a lower priority and does
\* not run in between.
NotifiesReader == pc[Daemon] = "notify" => active # NoThread

\* "notify the daemon of the incoming code" (keyboard_callback): codes in the
\* queue do not wait for a daemon that stays blocked.
DaemonWakes ==
  (keycode_buffer # <<>> /\ state[Daemon] = "BLOCK") ~> state[Daemon] # "BLOCK"

\* Keys in the queue do not wait for a reader that stays blocked.
ReaderWakes ==
  (user_buffer # <<>> /\ state[Reader] = "BLOCK") ~> state[Reader] # "BLOCK"
=============================================================================
