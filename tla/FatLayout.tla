------------------------------ MODULE FatLayout ------------------------------
(***************************************************************************)
(* The arithmetic of ostest/private/fat_image.py: _calculate_layout finds  *)
(* by binary search how many sectors one FAT takes, _assign_clusters gives *)
(* the directories and files their clusters, and create_fat32_image writes *)
(* the cluster chains.  One step per iteration of each loop.               *)
(*                                                                         *)
(* SECTORS_PER_CLUSTER is 1, so a cluster is a sector.                     *)
(***************************************************************************)
EXTENDS Integers, Sequences

CONSTANTS Reserved,      \* RESERVED_SECTORS
          FatCount,      \* FAT_COUNT
          PerSector,     \* FAT entries in a sector: SECTOR_SIZE / 4
          MinClusters,   \* FAT32_MIN_CLUSTERS
          ClusterSize,   \* bytes of a cluster
          EntrySize,     \* bytes of a directory entry
          ImageSizes     \* total_sectors of the images built

\* A node is a directory with a number of entries or a file with a size in bytes.
Node == [dir : BOOLEAN, amount : Nat]

ASSUME FatAssumption ==
    /\ {Reserved, MinClusters} \subseteq Nat
    /\ {FatCount, PerSector, ClusterSize, EntrySize} \subseteq Nat \ {0}
    /\ ImageSizes \subseteq Nat

VARIABLES pc, totalSectors,         \* where the program is, and the image's size
          tree,                     \* the nodes in _walk_preorder's order
          low, high,                \* the binary search
          clusters,                 \* available_clusters
          visited, nextCluster,     \* nodes done in the loop under way; next_cluster
          first,                    \* first_cluster of each node, 0 when it has none
          fat                       \* the FAT entries written, by cluster

vars == <<pc, totalSectors, tree, low, high, clusters, visited, nextCluster, first, fat>>

EndOfChain == -1
CeilDiv(a, b) == (a + b - 1) \div b

\* What is left for data when a FAT takes this many sectors.
DataSectors(fatSectors) == totalSectors - Reserved - FatCount * fatSectors

\* fat_entry_capacity >= clusters + 2
Sufficient(fatSectors) == fatSectors * PerSector >= DataSectors(fatSectors) + 2

ClusterCount(node) ==
    IF node.dir
      THEN IF node.amount = 0 THEN 1 ELSE CeilDiv(node.amount * EntrySize, ClusterSize)
      ELSE CeilDiv(node.amount, ClusterSize)

Init ==
    /\ pc = "search"
    /\ totalSectors \in ImageSizes
    /\ tree = <<>>
    /\ low = 1
    /\ high = CeilDiv(totalSectors - Reserved, PerSector) + 1
    /\ clusters = 0
    /\ visited = 0 /\ nextCluster = 2
    /\ first = <<>>
    /\ fat = [c \in {} |-> 0]

-----------------------------------------------------------------------------
\* Mutants: a sufficient candidate is excluded; an insufficient one is kept.
Probe_ExcludesSufficient ==
    /\ pc = "search" /\ low < high
    /\ LET candidate == (low + high) \div 2
       IN  IF Sufficient(candidate)
             THEN high' = candidate - 1 /\ UNCHANGED low
             ELSE low' = candidate + 1 /\ UNCHANGED high
    /\ UNCHANGED <<pc, totalSectors, tree, clusters, visited, nextCluster, first, fat>>
Probe_KeepsInsufficient ==
    /\ pc = "search" /\ low < high
    /\ LET candidate == (low + high) \div 2
       IN  IF Sufficient(candidate)
             THEN high' = candidate /\ UNCHANGED low
             ELSE low' = candidate /\ UNCHANGED high
    /\ UNCHANGED <<pc, totalSectors, tree, clusters, visited, nextCluster, first, fat>>

\* One iteration of _calculate_layout's loop.
Probe ==
    /\ pc = "search" /\ low < high
    /\ LET candidate == (low + high) \div 2
       IN  IF Sufficient(candidate)
             THEN high' = candidate /\ UNCHANGED low
             ELSE low' = candidate + 1 /\ UNCHANGED high
    /\ UNCHANGED <<pc, totalSectors, tree, clusters, visited, nextCluster, first, fat>>

\* Its end: the image is too small for FAT32, or the layout is known.
FinishSearch ==
    /\ pc = "search" /\ low >= high
    /\ clusters' = DataSectors(low)
    /\ pc' = IF clusters' < MinClusters THEN "rejected" ELSE "tree"
    /\ UNCHANGED <<totalSectors, tree, low, high, visited, nextCluster, first, fat>>

\* _build_tree and _assign_short_names, seen from here: they raise, or give some
\* tree.  FatImage says which.
BuildTree ==
    /\ pc = "tree"
    /\ tree' \in Seq(Node)
    /\ pc' = "assign"
    /\ UNCHANGED <<totalSectors, low, high, clusters, visited, nextCluster, first, fat>>

RejectTree ==
    /\ pc = "tree"
    /\ pc' = "rejected"
    /\ UNCHANGED <<totalSectors, tree, low, high, clusters, visited, nextCluster, first, fat>>

\* Mutant: every node takes one cluster.
AssignNode_One ==
    /\ pc = "assign" /\ visited < Len(tree)
    /\ LET count == ClusterCount(tree[visited + 1])
       IN  first' = Append(first, IF count > 0 THEN nextCluster ELSE 0)
    /\ nextCluster' = nextCluster + 1
    /\ visited' = visited + 1
    /\ UNCHANGED <<pc, totalSectors, tree, low, high, clusters, fat>>

\* One node of the second loop of _assign_clusters.
AssignNode ==
    /\ pc = "assign" /\ visited < Len(tree)
    /\ LET count == ClusterCount(tree[visited + 1])
       IN  /\ first' = Append(first, IF count > 0 THEN nextCluster ELSE 0)
           /\ nextCluster' = nextCluster + count
    /\ visited' = visited + 1
    /\ UNCHANGED <<pc, totalSectors, tree, low, high, clusters, fat>>

\* Mutant: one cluster too many is let through.
FinishAssign_OffByOne ==
    /\ pc = "assign" /\ visited = Len(tree)
    /\ pc' = IF nextCluster - 3 > clusters THEN "rejected" ELSE "chain"
    /\ visited' = 0
    /\ UNCHANGED <<totalSectors, tree, low, high, clusters, nextCluster, first, fat>>

FinishAssign ==
    /\ pc = "assign" /\ visited = Len(tree)
    /\ pc' = IF nextCluster - 2 > clusters THEN "rejected" ELSE "chain"
    /\ visited' = 0
    /\ UNCHANGED <<totalSectors, tree, low, high, clusters, nextCluster, first, fat>>

\* The FAT entries of one node in create_fat32_image.
ChainNode ==
    /\ pc = "chain" /\ visited < Len(tree)
    /\ LET start == first[visited + 1]
           count == ClusterCount(tree[visited + 1])
           owned == start..(start + count - 1)
       IN  fat' = [c \in DOMAIN fat \cup owned |->
                      IF c \notin owned THEN fat[c]
                      ELSE IF c = start + count - 1 THEN EndOfChain ELSE c + 1]
    /\ visited' = visited + 1
    /\ UNCHANGED <<pc, totalSectors, tree, low, high, clusters, nextCluster, first>>

FinishChain ==
    /\ pc = "chain" /\ visited = Len(tree)
    /\ pc' = "written"
    /\ UNCHANGED <<totalSectors, tree, low, high, clusters, visited, nextCluster, first, fat>>

Ended == pc \in {"rejected", "written"} /\ UNCHANGED vars

Next ==
    \/ Probe \/ FinishSearch \/ BuildTree \/ RejectTree
    \/ AssignNode \/ FinishAssign \/ ChainNode \/ FinishChain \/ Ended

Spec == Init /\ [][Next]_vars /\ WF_vars(Next)

-----------------------------------------------------------------------------
\* Type invariant.
TypeOK ==
    /\ pc \in {"search", "tree", "assign", "chain", "rejected", "written"}
    /\ totalSectors \in ImageSizes /\ tree \in Seq(Node)
    /\ low \in Nat /\ high \in Int
    /\ clusters \in Int /\ (pc \notin {"search", "rejected"} => clusters >= MinClusters)
    /\ visited \in 0..Len(tree) /\ nextCluster \in Nat
    /\ first \in Seq(Nat)
    /\ DOMAIN fat \subseteq Nat
    /\ \A c \in DOMAIN fat : fat[c] \in Nat \cup {EndOfChain}

\* "Solve for the smallest FAT that can address its resulting data region": the
\* search ends with a FAT that can, and one sector less cannot.
SmallestSufficientFat ==
    pc # "search" /\ totalSectors >= Reserved =>
        /\ Sufficient(low)
        /\ \A n \in 1..(low - 1) : ~Sufficient(n)

\* Every cluster given to a node has its entry inside one FAT and its sector inside
\* the image: struct.pack_into(fat, cluster * 4) and the writes of the data stay in
\* bounds however full the image is.
ChainsInBounds ==
    pc \in {"chain", "written"} =>
        \A c \in DOMAIN fat :
            /\ c >= 2
            /\ c < low * PerSector
            /\ Reserved + FatCount * low + (c - 2) < totalSectors

\* In the image written each node's chain is exactly its own clusters: it starts at
\* first_cluster, has cluster_count links, ends, and shares no cluster.
Owned(i) == first[i]..(first[i] + ClusterCount(tree[i]) - 1)
ChainsAreOwned ==
    pc = "written" =>
        \A i \in 1..Len(tree) :
            /\ \A c \in Owned(i) :
                   fat[c] = IF c = first[i] + ClusterCount(tree[i]) - 1
                              THEN EndOfChain ELSE c + 1
            /\ \A j \in 1..Len(tree) : i # j => Owned(i) \cap Owned(j) = {}

\* The build ends: the binary search does not oscillate.
BuildEnds == <>(pc \in {"rejected", "written"})

=============================================================================
