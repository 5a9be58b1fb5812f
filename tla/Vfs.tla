-------------------------------- MODULE Vfs --------------------------------
(***************************************************************************)
(* The tree of nodes of vfs.cpp: names, children in the order they came,   *)
(* parents, and the search for a path.  Nothing is ever taken out.         *)
(***************************************************************************)
EXTENDS Naturals, SequencesExt

CONSTANTS
  Node,             (* every node that may be created                     *)
  vfs_root, vfs_dev,
  name,             (* name of each node                                  *)
  type              (* "DIRECTORY", "DEVICE", "MOUNT_PT", "FILE", ...     *)

NoNode == "no node"

VARIABLES children, parent
tree == <<children, parent>>

Created == DOMAIN parent

\* init_vfs
VfsInit ==
  /\ children = [n \in {vfs_root, vfs_dev} |-> IF n = vfs_root THEN <<vfs_dev>> ELSE <<>>]
  /\ parent = [n \in {vfs_root, vfs_dev} |-> IF n = vfs_root THEN NoNode ELSE vfs_root]

\* vfs_add_child, of a node that vfs_create_node has just made.
AddChild(p, n) ==
  /\ p \in Created /\ n \in Node \ Created
  /\ children' = [m \in Created \cup {n} |->
                    IF m = n THEN <<>> ELSE IF m = p THEN Append(children[p], n) ELSE children[m]]
  /\ parent' = [m \in Created \cup {n} |-> IF m = n THEN p ELSE parent[m]]

\* vfs_create_device
CreateDevice(n) == type[n] = "DEVICE" /\ AddChild(vfs_dev, n)

\* vfs_find_child: the first child of that name.
FindChild(n, s) ==
  LET found == SelectSeq(children[n], LAMBDA c : name[c] = s)
  IN IF found = <<>> THEN NoNode ELSE Head(found)

\* vfs_find_relative_node
FindRelative(start, path) ==
  FoldLeft(LAMBDA n, s : IF n = NoNode THEN NoNode ELSE FindChild(n, s), start, path)
=============================================================================
