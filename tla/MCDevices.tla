----------------------------- MODULE MCDevices -----------------------------
(***************************************************************************)
(* Instances of Fat32, KeyDecode and Interrupts for TLC, which share       *)
(* nothing: one of them moves and the others stay as they were             *)
(* initialised.  The disk has eight FAT entries; its root holds a folder,  *)
(* and the folder a file of two clusters.  The keys are a letter, both     *)
(* shift keys, the capitals lock and one that is not in the table.  The    *)
(* lines that interrupt are the timer's, the keyboard's and those of the   *)
(* network and the disk, both at the slave.                                *)
(***************************************************************************)
EXTENDS Fat32, KeyDecode, Interrupts

VARIABLE part      (* the part that moves                                  *)

Folder == <<"F">>
File == <<"A">>
New == <<"B", ".", "T">>
Sub == <<"D">>
MCName == {Folder, File, New, Sub}
MCFolderName == {Folder, Sub}

Eof == 9
MCInitialFat == <<Eof, Eof, Eof, Eof, 5, Eof, 0, 0>>

Stored(name) == CASE name = Folder -> <<"F", " ", " ", " ">> [] name = File -> <<"A", " ", " ", " ">>
MCInitialData ==
  [c \in 2..7 |->
     CASE c = 2 -> [Blank EXCEPT ![0] = Slot(Stored(Folder), 3, {"DIRECTORY"})]
       [] c = 3 -> [Blank EXCEPT ![0] = Slot(Dot, 3, {"DIRECTORY"}), ![1] = Slot(DotDot, 0, {"DIRECTORY"}),
                                 ![2] = Slot(Stored(File), 4, {})]
       [] OTHER -> Blank]

DevicesInit == part \in {"fat32", "keys", "interrupts"} /\ FatInit /\ DecodeInit /\ InterruptsInit

DevicesNext ==
  \/ part = "fat32" /\ FatNext /\ UNCHANGED <<part, decodeVars, interruptVars>>
  \/ part = "keys" /\ DecodeNext /\ UNCHANGED <<part, fatVars, interruptVars>>
  \/ part = "interrupts" /\ InterruptsNext /\ UNCHANGED <<part, fatVars, decodeVars>>

DevicesSpec == DevicesInit /\ [][DevicesNext]_<<part, fatVars, decodeVars, interruptVars>>
=============================================================================
