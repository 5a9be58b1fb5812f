------------------------------- MODULE Pipe -------------------------------
(***************************************************************************)
(* The pipe of pipe.cpp: a ring of size places between two counting        *)
(* semaphores.  Readers and writers interleave between any two statements; *)
(* nothing but the semaphores keeps them apart.                            *)
(***************************************************************************)
EXTENDS CountingSemaphore

CONSTANTS
  Writer, Reader,   (* the threads at the two ends                        *)
  Char,             (* the characters                                     *)
  slots, messages,  (* pipe.lock_slots, pipe.lock_messages                *)
  size              (* pipe.size                                          *)

ASSUME PipeAssumption ==
  /\ Client = Writer \cup Reader /\ Writer \cap Reader = {}
  /\ Semaphore = {slots, messages} /\ slots # messages
  /\ size \in Nat \ {0}
  /\ InitialValue[slots] = size /\ InitialValue[messages] = 0

Place == 0 .. size - 1

VARIABLES
  data, read_pos, write_pos,
  pc,               (* where each thread is                               *)
  char,             (* the character it writes, or last read              *)
  content           (* history: the characters stored and not yet loaded  *)

semaphores == <<value, queue>>
ring == <<data, read_pos, write_pos>>
pipeVars == <<semaphores, ring, pc, char, content>>

Goto(t, label) == pc' = [pc EXCEPT ![t] = label]

\* Thread t is at a label and not in line for a semaphore.
At(t, label) == pc[t] = label /\ t \notin Queued

-----------------------------------------------------------------------------
(* pipe_write, which pipe_vfs_write calls for each character *)

WriteWait(w, e) ==
  /\ At(w, "idle")
  /\ Wait(w, slots)
  /\ char' = [char EXCEPT ![w] = e]
  /\ Goto(w, "store")
  /\ UNCHANGED <<ring, content>>

Store(w) ==
  /\ At(w, "store")
  /\ data' = [data EXCEPT ![write_pos] = char[w]]
  /\ content' = Append(content, char[w])
  /\ Goto(w, "advance")
  /\ UNCHANGED <<semaphores, read_pos, write_pos, char>>

\* Faulty form of WriteAdvance: the position does not wrap to the start.
WriteAdvanceStuck(w) ==
  /\ At(w, "advance")
  /\ write_pos' = IF write_pos + 1 = size THEN write_pos ELSE write_pos + 1
  /\ Goto(w, "signal")
  /\ UNCHANGED <<semaphores, data, read_pos, char, content>>

WriteAdvance(w) ==
  /\ At(w, "advance")
  /\ write_pos' = (write_pos + 1) % size
  /\ Goto(w, "signal")
  /\ UNCHANGED <<semaphores, data, read_pos, char, content>>

WriteSignal(w) ==
  /\ At(w, "signal")
  /\ Signal(messages)
  /\ Goto(w, "idle")
  /\ UNCHANGED <<ring, char, content>>

-----------------------------------------------------------------------------
(* pipe_read, which pipe_vfs_read calls for each character *)

ReadWait(r) ==
  /\ At(r, "idle")
  /\ Wait(r, messages)
  /\ Goto(r, "load")
  /\ UNCHANGED <<ring, char, content>>

Load(r) ==
  /\ At(r, "load")
  /\ char' = [char EXCEPT ![r] = data[read_pos]]
  /\ content' = SubSeq(content, 2, Len(content))
  /\ Goto(r, "advance")
  /\ UNCHANGED <<semaphores, ring>>

ReadAdvance(r) ==
  /\ At(r, "advance")
  /\ read_pos' = (read_pos + 1) % size
  /\ Goto(r, "signal")
  /\ UNCHANGED <<semaphores, data, write_pos, char, content>>

\* Faulty form of ReadSignal: the wrong semaphore is signalled.
ReadSignalsMessages(r) ==
  /\ At(r, "signal")
  /\ Signal(messages)
  /\ Goto(r, "idle")
  /\ UNCHANGED <<ring, char, content>>

ReadSignal(r) ==
  /\ At(r, "signal")
  /\ Signal(slots)
  /\ Goto(r, "idle")
  /\ UNCHANGED <<ring, char, content>>

-----------------------------------------------------------------------------
\* create_pipe; the buffer holds whatever was there.
PipeInit ==
  /\ SemaphoreInit
  /\ data \in [Place -> Char]
  /\ read_pos = 0 /\ write_pos = 0
  /\ pc = [t \in Client |-> "idle"]
  /\ char \in [Client -> Char]
  /\ content = <<>>

WriterStep(w) ==
  \/ \E e \in Char : WriteWait(w, e)
  \/ Store(w) \/ WriteAdvance(w) \/ WriteSignal(w)

ReaderStep(r) == ReadWait(r) \/ Load(r) \/ ReadAdvance(r) \/ ReadSignal(r)

PipeNext == (\E w \in Writer : WriterStep(w)) \/ (\E r \in Reader : ReaderStep(r))

PipeSpec == PipeInit /\ [][PipeNext]_pipeVars

\* The readers and writers go on, whenever no semaphore holds them.
PipeFairSpec ==
  /\ PipeSpec
  /\ \A w \in Writer : WF_pipeVars(WriterStep(w))
  /\ \A r \in Reader : WF_pipeVars(ReaderStep(r))

-----------------------------------------------------------------------------
(* Properties *)

\* Every read returns the oldest character written and not yet read.
DeliversInOrder ==
  [][\A r \in Reader : pc[r] = "load" /\ pc'[r] = "advance"
                         => content # <<>> /\ char'[r] = Head(content)]_pipeVars

\* A write that has to wait for an empty place completes.
WritesComplete ==
  \A w \in Writer : pc[w] = "store" /\ w \in Queued ~> pc[w] = "idle"
=============================================================================
