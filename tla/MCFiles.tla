------------------------------ MODULE MCFiles ------------------------------
(* Two threads of two processes open files of a mounted disk; one of them    *)
(* transfers, with two buffers besides the one that holds the bitmap; two    *)
(* cells of a page of three clear the first of the next buffer.              *)
EXTENDS Files

CONSTANTS root, dev, disk, mount, f, g, t1, t2, p1, p2

NodeName == [n \in {root, dev, disk, mount, f, g} |->
               CASE n = root -> "root" [] n = dev -> "dev" [] n = disk -> "sda"
                 [] n = mount -> "FIRST" [] n = f -> "A" [] n = g -> "B"]
NodeType == [n \in {root, dev, disk, mount, f, g} |->
               CASE n \in {root, dev} -> "DIRECTORY" [] n = disk -> "DEVICE"
                 [] n = mount -> "MOUNT_PT" [] OTHER -> "FILE"]
NodeCaps == [n \in {root, dev, disk, mount, f, g} |->
               IF n \in {f, g} THEN {"READ", "WRITE"} ELSE {"READ"}]
ProcessOf == (t1 :> p1) @@ (t2 :> p2)
HomeOf == [n \in {root, dev, disk, mount, f, g} |-> IF n \in {f, g} THEN mount ELSE root]
DeviceOf == (f :> (0 :> Filled(2) @@ 1 :> Filled(3))) @@ (g :> (0 :> Filled(4) @@ 1 :> Filled(5)))
AskedFlags == {{"READ", "WRITE"}}
RoomOf == (p1 :> 2) @@ (p2 :> 1)
LengthOf == (f :> 5) @@ (g :> 3)

\* Bounds: the tree is whole before the first opening, and a state past one of
\* the known defects is not followed any further, except that reads go on after
\* a partial one until the bitmap is reached.
Followed == (gft = <<>> \/ Created = Node) /\ spoiled \subseteq {"cleared"}
=============================================================================
