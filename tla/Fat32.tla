------------------------------- MODULE Fat32 -------------------------------
(***************************************************************************)
(* The FAT32 driver of FAT32_fs.cpp on a disk that may refuse any transfer *)
(* and a machine that may stop between any two of them.  A call is a chain *)
(* of steps with one write to the disk each; the reads before a write are  *)
(* part of its step.  One caller at a time: the driver holds no lock.      *)
(***************************************************************************)
EXTENDS Naturals, FiniteSets, SequencesExt, FiniteSetsExt

CONSTANTS
  Name,             (* names, as sequences of characters                  *)
  FolderName,       (* those given to new directories                     *)
  Value,            (* contents of a page of a file                       *)
  SectorEntries,    (* FAT entries in a sector: 128 in the code           *)
  SlotsPerCluster,  (* directory entries in a cluster: 128 in the code    *)
  NameLength, ExtensionLength,  (* 8 and 3 in the code                    *)
  root_dir_first_cluster,
  InitialFat, InitialData,      (* the disk that is mounted               *)
  MaxCalls          (* bound: calls that change the disk                  *)

FreeCluster == 0
FAT_EOF == Len(InitialFat) + 1
FatEntry == 0 .. Len(InitialFat) - 1
Cluster == 2 .. Len(InitialFat) - 1
SlotIndex == 0 .. SlotsPerCluster - 1

VARIABLES
  fat,              (* the first FAT                                      *)
  data,             (* the data clusters: a page, or a block of slots     *)
  nodes,            (* the vfs nodes under the mount point, by name       *)
  call,             (* the call under way                                 *)
  contents,         (* history: what each file was last written with      *)
  faulted,          (* history: some transfer failed or the machine stopped *)
  begun,            (* bound: how many calls were begun                   *)
  spoiled           (* history: which known defect was met, see README    *)

disk == <<fat, data>>
fatVars == <<disk, nodes, call, contents, begun, faulted, spoiled>>

-----------------------------------------------------------------------------
(* Names and directory slots *)

Blanks(n) == [i \in 1..n |-> " "]
Kept(chars) == SelectSeq(chars, LAMBDA c : c # " ")

\* fat_fs_generate_short_name: a dot ends the base only inside its first
\* NameLength characters; otherwise there is no extension.
DotAt(name) == {i \in 2..NameLength : i <= Len(name) /\ name[i] = "."}
Padded(chars, n) == SubSeq(chars \o Blanks(n), 1, n)
ShortName(name) ==
  IF DotAt(name) = {} THEN Padded(name, NameLength) \o Blanks(ExtensionLength)
  ELSE LET dot == Min(DotAt(name))
       IN Padded(SubSeq(name, 1, dot - 1), NameLength)
            \o Padded(SubSeq(name, dot + 1, Len(name)), ExtensionLength)

\* fat_fs_retrieve_short_name
RetrievedName(short) ==
  LET extension == Kept(SubSeq(short, NameLength + 1, Len(short)))
  IN Kept(SubSeq(short, 1, NameLength))
       \o (IF extension = <<>> THEN <<>> ELSE <<".">> \o extension)

ValidName(name) == Len(name) <= NameLength + ExtensionLength

\* The driver checks no name: that it can be kept in a slot, read back from it,
\* and marks the slot as nothing else, is left to the caller.
ASSUME FatAssumption ==
  /\ {SectorEntries, NameLength, ExtensionLength} \subseteq Nat \ {0} /\ SectorEntries <= 65536
  /\ SlotsPerCluster \in Nat \ {0, 1}
  /\ InitialFat \in Seq(Nat) /\ FreeCluster \notin {InitialFat[1], InitialFat[2]}
  /\ DOMAIN InitialData = Cluster /\ root_dir_first_cluster \in Cluster
  /\ \A n \in Name : /\ n \in Seq(STRING) /\ RetrievedName(ShortName(n)) = n
                     /\ ShortName(n)[1] \notin {"00", "E5", "."}

Dot == Padded(<<".">>, NameLength + ExtensionLength)
DotDot == Padded(<<".", ".">>, NameLength + ExtensionLength)

\* The attributes a slot keeps of a node's, and a node gets from a slot's.
vfs_to_fat_attributes(vfs) ==
  (vfs \cap {"DIRECTORY", "HIDDEN"}) \cup (IF "LINK" \in vfs THEN {"DIRECTORY"} ELSE {})
    \cup (IF "WRITE" \in vfs THEN {} ELSE {"READ_ONLY"})
fat_to_vfs_attributes(fatAttributes) ==
  {"READ"} \cup (fatAttributes \cap {"HIDDEN"})
    \cup (IF "READ_ONLY" \in fatAttributes THEN {} ELSE {"WRITE"})
    \cup (IF "DIRECTORY" \in fatAttributes THEN {"DIRECTORY"} ELSE {"FILE"})

\* A slot keeps a cluster in two halves, the high one cut by mask, and
\* fat_fs_get_entry_data_cluster adds the high half without shifting it.
SlotCluster(c, mask) == (c % 65536) + ((c \div 65536) % mask)

\* A slot is what is read from a fat_dir_entry_short; the first byte marks its state.
Slot(name, first, attributes) == [name |-> name, first |-> first, attributes |-> attributes]
EndSlot == Slot([i \in 1 .. NameLength + ExtensionLength |-> "00"], 0, {})
IsDirectory(x) == "DIRECTORY" \in x.attributes
IsEnd(s) == s.name[1] = "00"
IsDeleted(s) == s.name[1] = "E5"
Marked(s, mark) == [s EXCEPT !.name[1] = mark]
Blank == [i \in SlotIndex |-> EndSlot]

\* fat_fs_read_directory stops in a cluster at its first end slot.
Listed(block) == {i \in SlotIndex : ~IsDeleted(block[i]) /\ \A j \in 0..i : ~IsEnd(block[j])}
Used(block) == {i \in SlotIndex : ~IsDeleted(block[i]) /\ ~IsEnd(block[i])}
IsDots(s) == s.name[1] = "."

-----------------------------------------------------------------------------
(* The FAT *)

\* fat_fs_find_next_cluster: it reads from the cluster's sector on, and then
\* counts from there with the whole cluster number.  After the first FAT comes
\* the second, which nothing updates.
FatAt(i) == IF i \in FatEntry THEN fat[i] ELSE InitialFat[(i % Len(InitialFat)) + 1]
NextCluster(c) == FatAt((c \div SectorEntries) * SectorEntries + c)

\* A chain of clusters continued as long as next gives one, at most by as many
\* as there are.
Continued(chain, next) ==
  LET grown[k \in 0 .. Cardinality(Cluster)] ==
        [s \in Seq(Nat) |-> IF k = 0 \/ next[Last(s)] >= FAT_EOF THEN s
                            ELSE grown[k - 1][Append(s, next[Last(s)])]]
  IN grown[Cardinality(Cluster)][chain]

\* The chain the FAT holds from cluster c on.
InFat == [c \in Nat |-> IF c \in Cluster /\ fat[c] \in Cluster THEN fat[c] ELSE FAT_EOF]
ChainOf(c) == Continued(<<c>>, InFat)

\* fat_fs_load_file_layout
Loaded(layout) == Continued(layout, [c \in Nat |-> NextCluster(c)])

\* fat_fs_reserve_first_cluster looks at the first SectorEntries entries.
FreeEntries == {i \in 0 .. SectorEntries - 1 : i \in FatEntry /\ fat[i] = FreeCluster}
\* Faulty form of FirstFree: the last one in use.
AnyEntry == Max({i \in FatEntry : fat[i] # FreeCluster})
FirstFree == Min(FreeEntries)
Reserve(c) == fat' = [fat EXCEPT ![c] = FAT_EOF]

-----------------------------------------------------------------------------
(* What is on the disk *)

Place == [cluster : Cluster, index : SlotIndex]
SlotAt(p) == data[p.cluster][p.index]
PlacesIn(first, Of(_)) ==
  UNION {{[cluster |-> c, index |-> i] : i \in {j \in Of(data[c]) : ~IsDots(data[c][j])}}
           : c \in ToSet(ChainOf(first))}

\* The cluster of a directory under creation is no block of slots yet.
Erased(s) == ~(call.op = "initialise" /\ s.first = call.first)

\* The first clusters of the directories in a directory, by its first cluster.
Subdirectories(Of(_)) ==
  [c \in Cluster |->
     {SlotAt(p).first : p \in {q \in PlacesIn(c, Of) : IsDirectory(SlotAt(q)) /\ Erased(SlotAt(q))}} \cap Cluster]

\* What is reached from the clusters of R, level by level.
Reached(R, children) ==
  LET level[k \in 0 .. Cardinality(Cluster)] ==
        IF k = 0 THEN [all |-> R, last |-> R]
        ELSE LET above == level[k - 1]
                 next == UNION {children[c] : c \in above.last}
             IN [all |-> above.all \cup next, last |-> next]
  IN level[Cardinality(Cluster)].all

\* The directories from the root on, those of lost and what is below them left out.
Directories(lost) ==
  Reached({root_dir_first_cluster} \ lost, [c \in Cluster |-> Subdirectories(Listed)[c] \ lost])

\* The places of all entries in a directory and below it.
EntriesFrom(first, Of(_)) == UNION {PlacesIn(c, Of) : c \in Reached({first}, Subdirectories(Of))}
PlacesBelow(Of(_)) == EntriesFrom(root_dir_first_cluster, Of)

Entries == PlacesBelow(Listed)

\* vfs nodes as fat_fs_read_directory creates them: the layout holds the first
\* cluster only, and a directory's children include "." and "..".
NodeAt(p) ==
  LET s == SlotAt(p)
  IN [place |-> p, layout |-> <<s.first>>, layout_loaded |-> FALSE, attributes |-> fat_to_vfs_attributes(s.attributes),
      children |-> IF IsDirectory(s)
                   THEN Cardinality(UNION {{<<c, i>> : i \in Listed(data[c])} : c \in ToSet(ChainOf(s.first))})
                   ELSE 0]
NameAt(p) == RetrievedName(SlotAt(p).name)
\* The directories of lost are listed empty.
TreeOf(places, lost) ==
  [n \in {NameAt(p) : p \in places} |->
     LET p == CHOOSE q \in places : NameAt(q) = n
     IN IF SlotAt(p).first \in lost THEN [NodeAt(p) EXCEPT !.children = 0] ELSE NodeAt(p)]

-----------------------------------------------------------------------------
(* Steps *)

Idle == [op |-> "none"]
Unmounted == [op |-> "unmounted"]
Ready == call = Idle /\ spoiled = {}
Begin == Ready /\ begun < MaxCalls /\ begun' = begun + 1
Doing(op) == call.op = op

Spoil(defect) == spoiled' = spoiled \cup {defect}
Write(c, block) == data' = [data EXCEPT ![c] = block]
Return == call' = Idle
With(f, x, v) == [y \in DOMAIN f \cup {x} |-> IF y = x THEN v ELSE f[y]]

\* fat_fs_mount and fat_fs_read_directory.
Mount ==
  /\ call = Unmounted /\ spoiled = {}
  /\ nodes' = TreeOf(Entries, {})
  /\ Return
  /\ UNCHANGED <<disk, contents, begun, faulted, spoiled>>

\* A directory with a cluster that cannot be read is listed empty, and the
\* mount goes on and succeeds.
MountMisreads ==
  /\ call = Unmounted /\ spoiled = {}
  /\ \E lost \in SUBSET Directories({}) \ {{}} :
       nodes' = TreeOf(UNION {PlacesIn(c, Listed) : c \in Directories(lost)}, lost)
  /\ Return
  /\ faulted' = TRUE
  /\ UNCHANGED <<disk, contents, begun, spoiled>>

\* A FAT that cannot be read gives cluster 0 as the next of a directory, and
\* what stands there is listed; which nodes that makes is not followed.
MountAstray ==
  /\ call = Unmounted /\ spoiled = {}
  /\ nodes' = TreeOf(Entries, {})
  /\ Return
  /\ faulted' = TRUE
  /\ Spoil("layout")
  /\ UNCHANGED <<disk, contents, begun>>

\* fat_fs_open, when every read of the FAT succeeds.
Opened(n) ==
  IF nodes[n].layout_loaded THEN nodes
  ELSE [nodes EXCEPT ![n].layout_loaded = TRUE, ![n].layout = Loaded(@)]
Open(n) ==
  /\ Ready /\ n \in DOMAIN nodes
  /\ nodes' = Opened(n)
  /\ UNCHANGED <<disk, call, contents, begun, faulted, spoiled>>

\* A read that fails counts as cluster 0, whose entry ends the chain.
OpenMisreads(n) ==
  /\ Ready /\ n \in DOMAIN nodes /\ ~nodes[n].layout_loaded
  /\ \E k \in DOMAIN Loaded(nodes[n].layout) :
       nodes' = [nodes EXCEPT ![n].layout_loaded = TRUE, ![n].layout = Append(SubSeq(Loaded(@), 1, k), 0)]
  /\ faulted' = TRUE
  /\ Spoil("layout")
  /\ UNCHANGED <<disk, call, contents, begun>>

\* fat_fs_write and fat_fs_sync, page by page; the layout must be loaded.
\* Faulty form of PageCluster: pages are counted from one.
PageClusterFromOne(n, page) == nodes[n].layout[IF page = 0 THEN 1 ELSE page]
PageCluster(n, page) == nodes[n].layout[page + 1]
WritePage(n, page, v) ==
  /\ Begin /\ n \in DOMAIN nodes /\ ~IsDirectory(nodes[n])
  /\ nodes[n].layout_loaded /\ page < Len(nodes[n].layout)
  /\ Write(PageCluster(n, page), v)
  /\ contents' = [contents EXCEPT ![n][page + 1] = v]
  /\ UNCHANGED <<fat, nodes, call, faulted, spoiled>>

\* fat_fs_find_empty_entry: in the clusters of the layout in memory, and never
\* the last slot of a cluster.
EmptyPlaces(layout) ==
  {p \in Place : /\ p.cluster \in ToSet(layout) /\ p.index < SlotsPerCluster - 1
                 /\ IsDeleted(SlotAt(p)) \/ IsEnd(SlotAt(p))}
Comes(layout, p, q) ==
  LET at(c) == CHOOSE i \in DOMAIN layout : layout[i] = c
  IN \/ at(p.cluster) < at(q.cluster)
     \/ p.cluster = q.cluster /\ p.index <= q.index
FirstEmpty(layout) ==
  CHOOSE p \in EmptyPlaces(layout) : \A q \in EmptyPlaces(layout) : Comes(layout, p, q)

-----------------------------------------------------------------------------
(* fat_fs_create_node *)

\* Names are fresh.
BeginCreate(n, dir) ==
  /\ Begin /\ dir \in DOMAIN nodes /\ IsDirectory(nodes[dir])
  /\ n \notin {NameAt(p) : p \in Entries} /\ ValidName(n)

\* The cluster for the new file is taken from the FAT first.
CreateReserve(n, dir, attributes) ==
  /\ BeginCreate(n, dir)
  /\ EmptyPlaces(nodes[dir].layout) # {} /\ FreeEntries # {}
  /\ Reserve(FirstFree)
  /\ call' = [op |-> "enter", name |-> n, dir |-> dir, first |-> FirstFree, attributes |-> attributes,
              place |-> FirstEmpty(nodes[dir].layout)]
  /\ UNCHANGED <<data, nodes, contents, faulted, spoiled>>

\* Where the search returns no place, the directory gets a further cluster,
\* marked as the next of the last one in memory, and the new entry goes to its
\* slot 0, over the block in the cache.  What follows a step that ends in a
\* known defect is not followed: its writes are one step.
Extends(n, dir, attributes, block) ==
  /\ FreeEntries # {}
  /\ LET added == FirstFree
         others == FreeEntries \ {added}
         linked == [fat EXCEPT ![added] = FAT_EOF, ![Last(nodes[dir].layout)] = added]
     IN /\ nodes' = [nodes EXCEPT ![dir].layout = Append(@, added)]
        /\ \/ /\ others = {}
              /\ fat' = linked
              /\ spoiled' = {"extended", "astray"}
              /\ UNCHANGED data
           \/ /\ others # {}
              /\ fat' = [linked EXCEPT ![Min(others)] = FAT_EOF]
              /\ Write(added, [block EXCEPT ![0] =
                   Slot(ShortName(n), SlotCluster(Min(others), 4096), vfs_to_fat_attributes(attributes))])
              /\ Spoil("extended")
  /\ UNCHANGED <<call, contents>>

\* A full directory: the cache holds its last cluster.
CreateExtends(n, dir, attributes) ==
  /\ BeginCreate(n, dir)
  /\ Extends(n, dir, attributes, data[Last(nodes[dir].layout)])
  /\ EmptyPlaces(nodes[dir].layout) = {}
  /\ UNCHANGED faulted

\* A read that fails in the search is taken for a full directory: the cache
\* holds a cluster read before or what the page held.
CreateMisreads(n, dir, attributes) ==
  /\ BeginCreate(n, dir)
  /\ \E block \in {Blank} \cup {data[c] : c \in ToSet(nodes[dir].layout)} : Extends(n, dir, attributes, block)
  /\ faulted' = TRUE

\* No free entry among the first ones: the search goes on past them with
\* positions that do not belong to the number it returns.
CreateAstray ==
  /\ Begin /\ FreeEntries = {}
  /\ Spoil("astray")
  /\ UNCHANGED <<disk, nodes, call, contents, faulted>>

\* fat_fs_create_short_entry_from_node
NewSlot == Slot(ShortName(call.name), SlotCluster(call.first, 4096), vfs_to_fat_attributes(call.attributes))

\* Then the entry is written; from here on the file exists.
CreateEnter ==
  /\ Doing("enter")
  /\ LET p == call.place
     IN Write(p.cluster, [data[p.cluster] EXCEPT
          ![p.index] = NewSlot])
  /\ contents' = With(contents, call.name, <<data[call.first]>>)
  /\ call' = [call EXCEPT !.op = "initialise"]
  /\ UNCHANGED <<fat, nodes, begun, faulted, spoiled>>

\* Last its cluster is erased; "." and ".." of a directory become children of
\* the directory around it.  The caller attaches the node.
FirstBlock ==
  IF IsDirectory(call)
  THEN [Blank EXCEPT ![0] = [NewSlot EXCEPT !.name = Dot],
                     ![1] = [NewSlot EXCEPT !.name = DotDot, !.first = SlotCluster(nodes[call.dir].layout[1], 256)]]
  ELSE Blank
CreateInitialise ==
  /\ Doing("initialise")
  /\ Write(call.first, FirstBlock)
  /\ contents' = [contents EXCEPT ![call.name] = <<Blank>>]
  /\ \E garbage \in BOOLEAN :
       nodes' = With([nodes EXCEPT ![call.dir].children = @ + IF IsDirectory(call) THEN 3 ELSE 1],
                     call.name, [place |-> call.place, layout |-> <<call.first>>, layout_loaded |-> garbage,
                                 attributes |-> call.attributes, children |-> 0])
  /\ Return
  /\ UNCHANGED <<fat, begun, faulted, spoiled>>

-----------------------------------------------------------------------------
(* fat_fs_delete_node *)

\* The mark of a freed slot: an end slot where the next is one.
FreedMark(p) ==
  IF p.index < SlotsPerCluster - 1 /\ IsEnd(data[p.cluster][p.index + 1]) THEN "00" ELSE "E5"
Freed(p) == [data[p.cluster] EXCEPT ![p.index] = Marked(@, FreedMark(p))]

HoldsEntries(n) == \E c \in ToSet(ChainOf(nodes[n].layout[1])) : \E i \in Listed(data[c]) : ~IsDots(data[c][i])

DeleteEntry(n) ==
  /\ Begin /\ n \in DOMAIN nodes
  /\ ~(IsDirectory(nodes[n]) /\ nodes[n].children > 2)
  /\ Write(nodes[n].place.cluster, Freed(nodes[n].place))
  /\ call' = [op |-> "free", next |-> nodes[n].layout[1]]
  /\ IF IsDirectory(nodes[n]) /\ HoldsEntries(n) THEN Spoil("nonempty") ELSE UNCHANGED spoiled
  /\ nodes' = Restrict(nodes, DOMAIN nodes \ {n})
  /\ UNCHANGED <<fat, contents, faulted>>

\* Faulty form of FreeChain: only the first cluster is freed.
FreeFirst ==
  /\ Doing("free")
  /\ fat' = [fat EXCEPT ![call.next] = FreeCluster]
  /\ Return
  /\ UNCHANGED <<data, nodes, contents, begun, faulted, spoiled>>

\* One fat_fs_mark_cluster for each cluster of the chain.
FreeChain ==
  /\ Doing("free")
  /\ fat' = [fat EXCEPT ![call.next] = FreeCluster]
  /\ call' = IF fat[call.next] \in Cluster THEN [call EXCEPT !.next = fat[call.next]] ELSE Idle
  /\ UNCHANGED <<data, nodes, contents, begun, faulted, spoiled>>

-----------------------------------------------------------------------------
(* fat_fs_move_node *)

Under(n, dir) == \* dir is n or lies below it
  dir = n \/ nodes[dir].place \in EntriesFrom(nodes[n].layout[1], Listed)

\* The directory is opened and the old entry marked deleted.  A caller moves no
\* directory into itself: nothing here would stop it.
MoveRemove(n, dir) ==
  /\ Begin /\ {n, dir} \subseteq DOMAIN nodes /\ IsDirectory(nodes[dir])
  /\ IsDirectory(nodes[n]) => ~Under(n, dir)
  /\ nodes' = Opened(dir)
  /\ Write(nodes[n].place.cluster, Freed(nodes[n].place))
  /\ call' = [op |-> "place", name |-> n, dir |-> dir, slot |-> SlotAt(nodes[n].place)]
  /\ UNCHANGED <<fat, contents, faulted, spoiled>>

\* Faulty form of MovePlace: the node keeps its old place.
MovePlaceForgets ==
  /\ Doing("place")
  /\ EmptyPlaces(nodes[call.dir].layout) # {}
  /\ LET p == FirstEmpty(nodes[call.dir].layout)
     IN Write(p.cluster, [data[p.cluster] EXCEPT ![p.index] = call.slot])
  /\ Return
  /\ UNCHANGED <<fat, nodes, contents, begun, faulted, spoiled>>

MovePlace ==
  /\ Doing("place")
  /\ EmptyPlaces(nodes[call.dir].layout) # {}
  /\ LET p == FirstEmpty(nodes[call.dir].layout)
     IN /\ Write(p.cluster, [data[p.cluster] EXCEPT ![p.index] = call.slot])
        /\ nodes' = [nodes EXCEPT ![call.name].place = p]
  /\ Return
  /\ UNCHANGED <<fat, contents, begun, faulted, spoiled>>

\* A full directory takes nothing, the entry is gone and the move succeeds.
MoveNowhere ==
  /\ Doing("place")
  /\ EmptyPlaces(nodes[call.dir].layout) = {}
  /\ Return
  /\ Spoil("nowhere")
  /\ UNCHANGED <<disk, nodes, contents, begun, faulted>>

\* Nor does a directory one of whose clusters cannot be read, empty or not.
MoveMisreads ==
  /\ Doing("place")
  /\ Return
  /\ Spoil("nowhere")
  /\ faulted' = TRUE
  /\ UNCHANGED <<disk, nodes, contents, begun>>

-----------------------------------------------------------------------------
(* Faults *)

\* A directory whose first cluster was not erased lists what that cluster held.
Torn == Doing("initialise") /\ IsDirectory(call) /\ data[call.first] # Blank
Tear == IF Torn THEN Spoil("torn") ELSE UNCHANGED spoiled

\* A transfer fails and the call returns an error.  The caller gives up the nodes
\* of a move or deletion that failed half way, and has none of a failed creation.
\* In a move only the write does so: a read is MoveMisreads.
Fail ==
  /\ call.op \in {"enter", "initialise", "free", "place"}
  /\ Doing("place") => EmptyPlaces(nodes[call.dir].layout) # {}
  /\ nodes' = Restrict(nodes, {n \in DOMAIN nodes : nodes[n].place \in Entries})
  /\ Return
  /\ faulted' = TRUE
  /\ Tear
  /\ UNCHANGED <<disk, contents, begun>>

\* Where the last write of a new directory fails, "." and ".." are children of
\* the directory around it already.
InitialiseFails ==
  /\ Doing("initialise") /\ IsDirectory(call)
  /\ nodes' = [nodes EXCEPT ![call.dir].children = @ + 2]
  /\ Return
  /\ faulted' = TRUE
  /\ Tear
  /\ UNCHANGED <<disk, contents, begun>>

\* The machine stops; only the disk is left.
Stop ==
  /\ call # Unmounted
  /\ nodes' = <<>>
  /\ call' = Unmounted
  /\ faulted' = TRUE
  /\ Tear
  /\ UNCHANGED <<disk, contents, begun>>

FatInit ==
  /\ fat = [i \in FatEntry |-> InitialFat[i + 1]]
  /\ data = InitialData
  /\ nodes = <<>> /\ call = Unmounted
  /\ contents = [n \in {NameAt(p) : p \in Entries} |->
       LET p == CHOOSE q \in Entries : NameAt(q) = n
       IN [i \in DOMAIN ChainOf(SlotAt(p).first) |-> data[ChainOf(SlotAt(p).first)[i]]]]
  /\ begun = 0 /\ faulted = FALSE /\ spoiled = {}

\* A new file is hidden and only to be read.
Attributes(n) == IF n \in FolderName THEN {"READ", "WRITE", "DIRECTORY"} ELSE {"READ", "HIDDEN", "FILE"}
Create(n, dir, attributes) ==
  \/ CreateReserve(n, dir, attributes)
  \/ CreateExtends(n, dir, attributes)
  \/ CreateMisreads(n, dir, attributes)
FatNext ==
  \/ Mount \/ MountMisreads \/ MountAstray
  \/ Stop \/ Fail \/ InitialiseFails
  \/ \E n \in Name : Open(n) \/ OpenMisreads(n) \/ DeleteEntry(n)
  \/ \E n \in Name, page \in 0..1, v \in Value : WritePage(n, page, v)
  \/ \E n, dir \in Name : MoveRemove(n, dir) \/ Create(n, dir, Attributes(n))
  \/ CreateAstray \/ CreateEnter \/ CreateInitialise
  \/ FreeChain
  \/ MovePlace \/ MoveNowhere \/ MoveMisreads

FatSpec == FatInit /\ [][FatNext]_fatVars

-----------------------------------------------------------------------------
(* Properties.  They speak of a volume on which no known defect was met. *)

Sound == spoiled = {}
Disjoint(chains) == \A a, b \in DOMAIN chains : a # b => ToSet(chains[a]) \cap ToSet(chains[b]) = {}
Ends(chain) == ToSet(chain) \subseteq Cluster /\ fat[Last(chain)] = FAT_EOF /\ IsInjective(chain)

\* At every write, and so after a stop at any point, the chains of the root and
\* of every entry end, no cluster is in two of them, no two entries have one
\* name, and no entry is hidden by an end slot.
DiskSound ==
  Sound =>
    LET entries == Entries
        chains == [p \in entries |-> ChainOf(SlotAt(p).first)]
        rootChain == ChainOf(root_dir_first_cluster)
    IN /\ Ends(rootChain)
       /\ \A p \in entries : Ends(chains[p]) /\ ToSet(rootChain) \cap ToSet(chains[p]) = {}
       /\ Disjoint(chains)
       /\ \A p, q \in entries : NameAt(p) = NameAt(q) => p = q
       /\ PlacesBelow(Used) = entries

\* A node of the tree stands for an entry at its place with its name, attributes
\* and clusters, before and after a remount; only a node being moved, or below
\* one, has none.  On a volume that saw no fault every entry has its node.
InMove(n) == Doing("place") /\ (call.name = n \/ IsDirectory(call.slot))
NodesMatchEntries ==
  Sound =>
    /\ \A n \in DOMAIN nodes : ~InMove(n) =>
         LET p == nodes[n].place
         IN /\ p \in Entries /\ NameAt(p) = n
            /\ fat_to_vfs_attributes(SlotAt(p).attributes) = nodes[n].attributes
            /\ IsPrefix(nodes[n].layout, ChainOf(SlotAt(p).first))
            /\ nodes[n].layout_loaded => nodes[n].layout = ChainOf(SlotAt(p).first)
    /\ call = Idle /\ ~faulted => \A p \in Entries : NameAt(p) \in DOMAIN nodes

\* Every page of every file is what was last written to it, whatever happened
\* to other files meanwhile.
ContentsKept ==
  Sound =>
    \A p \in Entries : ~IsDirectory(SlotAt(p)) =>
      LET chain == ChainOf(SlotAt(p).first)
      IN Len(contents[NameAt(p)]) = Len(chain)
           /\ \A i \in DOMAIN chain : data[chain[i]] = contents[NameAt(p)][i]

\* Without faults every allocated cluster belongs to an entry when no call is
\* under way: nothing leaks.
ClustersAccounted ==
  Sound /\ ~faulted /\ call.op \in {"none", "unmounted"} =>
    {c \in Cluster : fat[c] # FreeCluster} =
      ToSet(ChainOf(root_dir_first_cluster))
        \cup UNION {ToSet(ChainOf(SlotAt(p).first)) : p \in Entries}
=============================================================================
