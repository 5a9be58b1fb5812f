--------------------------- MODULE ItemSequences ---------------------------
(***************************************************************************)
(* What a container promises, whatever it is built of: a sequence of       *)
(* items, and one effect and one result for each call.                     *)
(***************************************************************************)
EXTENDS Integers, SequencesExt

CONSTANT Container

VARIABLES
  content,       (* the items of each container, first to last            *)
  call           (* the last call: op, on, item and what it returned      *)

\* The call leaves s in its container, and only that container changes.
Leaves(s) == content' = [content EXCEPT ![call'.on] = s]

SequencesNext ==
  LET s == content[call'.on]
      item == call'.item
      returned == call'.returned
  IN \/ call'.op = "prepend" /\ Leaves(<<item>> \o s)
     \/ call'.op = "append" /\ Leaves(Append(s, item))
     \/ call'.op = "refuse" /\ Leaves(s)
     \/ call'.op = "drop" /\ s # <<>> /\ Leaves(Tail(s))
     \/ call'.op = "take" /\ \E i \in 1..Len(s) : s[i] = item /\ Leaves(RemoveAt(s, i))
     \/ call'.op = "rotate" /\ s # <<>> /\ Leaves(Append(Tail(s), Head(s)))
     \/ call'.op = "clear" /\ Leaves(<<>>)
     \/ /\ call'.op = "merge"
        /\ content' = [content EXCEPT ![call'.on] = s \o content[item], ![item] = <<>>]
     \/ /\ call'.op = "enter"
        /\ \E i \in 0..Len(s) :
             /\ \A j \in 1..Len(s) : j <= i <=> s[j] <= item
             /\ Leaves(InsertAt(s, i + 1, item))
     \/ call'.op = "erase" /\ Leaves(RemoveAt(s, item + 1))
     \/ call'.op = "replace" /\ Leaves([s EXCEPT ![item + 1] = returned])
     \/ call'.op = "peek" /\ s # <<>> /\ returned = Head(s) /\ Leaves(s)
     \/ /\ call'.op = "find"
        /\ IF \E i \in 1..Len(s) : s[i] = item
             THEN returned + 1 \in 1..Len(s) /\ s[returned + 1] = item
             ELSE returned = -1
        /\ Leaves(s)

SequencesInit == content = [c \in Container |-> <<>>]
SequencesSpec == SequencesInit /\ [][SequencesNext]_<<content, call>>
=============================================================================
