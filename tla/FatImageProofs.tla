--------------------------- MODULE FatImageProofs ----------------------------
(***************************************************************************)
(* Theorems about FatLayout and FatImage, for every image size, manifest,  *)
(* catalogue of names and geometry: the binary search finds the smallest   *)
(* sufficient FAT, no cluster chain leaves the FAT or the image, and no    *)
(* two share a cluster.  These are proved of FatLayout for whatever tree   *)
(* it is given; the builder with its manifest and names is an instance of  *)
(* it.  Of the builder itself: _build_tree refuses exactly the manifests   *)
(* that are no file system, and every file is found under its name.        *)
(***************************************************************************)
EXTENDS FatImage, WellFoundedInduction, TLAPS

\* Rounding up never falls short.
LEMMA CeilDivBounds ==
    ASSUME NEW a \in Nat, NEW b \in Nat \ {0}
    PROVE  CeilDiv(a, b) \in Nat /\ CeilDiv(a, b) * b >= a
<1> DEFINE n == a + b - 1
           q == n \div b
<1>1. n \in Nat /\ b \in Nat /\ b > 0
  OBVIOUS
<1>2. q \in Nat /\ n < b * q + b
  <2> HIDE DEF n
  <2> QED
    BY <1>1
<1>3. b * q = q * b
  <2> HIDE DEF q
  <2> QED
    BY <1>1, <1>2
<1>4. CeilDiv(a, b) = q
  BY DEF CeilDiv
<1>5. q * b >= a
  <2>1. q * b \in Nat
    <3> HIDE DEF q
    <3> QED
      BY <1>1, <1>2
  <2> DEFINE p == q * b
  <2>2. n < p + b
    BY <1>2, <1>3
  <2> HIDE DEF p, q
  <2>3. p \in Nat
    BY <2>1 DEF p
  <2> QED
    BY <2>2, <2>3 DEF p
<1> QED
  BY <1>2, <1>4, <1>5

\* A node takes a whole number of clusters, _directory_entry_count's included.
LEMMA ClusterCountType ==
    ASSUME NEW node \in Node
    PROVE  ClusterCount(node) \in Nat
<1>1. node.dir \in BOOLEAN /\ node.amount \in Nat
  BY DEF Node
<1>2. EntrySize \in Nat /\ ClusterSize \in Nat \ {0}
  BY FatAssumption
<1>3. node.amount * EntrySize \in Nat
  BY <1>1, <1>2
<1> QED
  BY <1>1, <1>2, <1>3, CeilDivBounds DEF ClusterCount

\* A FAT that is too small stays so when it shrinks, one that suffices when it
\* grows: each sector more holds more entries and leaves fewer clusters.
LEMMA SufficientMonotone ==
    ASSUME totalSectors \in Nat, NEW i \in Nat, NEW j \in Nat, i <= j, Sufficient(i)
    PROVE  Sufficient(j)
<1>1. /\ FatCount \in Nat /\ PerSector \in Nat /\ Reserved \in Nat
  BY FatAssumption
<1>2. i * PerSector <= j * PerSector /\ FatCount * i <= FatCount * j
  BY <1>1
<1>3. /\ i * PerSector \in Nat /\ j * PerSector \in Nat
      /\ FatCount * i \in Nat /\ FatCount * j \in Nat
  BY <1>1
<1>4. i * PerSector >= totalSectors - Reserved - FatCount * i + 2
  BY DEF Sufficient, DataSectors
<1> DEFINE ip == i * PerSector
           jp == j * PerSector
           fi == FatCount * i
           fj == FatCount * j
<1> HIDE DEF ip, jp, fi, fj
<1>5. jp >= totalSectors - Reserved - fj + 2
  BY <1>1, <1>2, <1>3, <1>4 DEF ip, jp, fi, fj
<1> QED
  BY <1>5 DEF jp, fj, Sufficient, DataSectors

-----------------------------------------------------------------------------
(***************************************************************************)
(* The inductive invariant.                                                *)
(***************************************************************************)
Count(i) == ClusterCount(tree[i])

\* The search keeps a sufficient upper end and an insufficient region below.  An
\* image smaller than its reserved sectors has no such end; it is rejected later.
Search ==
    /\ low # 0
    /\ totalSectors >= Reserved =>
           /\ low <= high
           /\ Sufficient(high)
           /\ \A n \in 1..(low - 1) : ~Sufficient(n)
           /\ pc # "search" => low = high
    /\ pc \notin {"search", "rejected"} => clusters = DataSectors(low)

\* The nodes visited own consecutive ranges between 2 and next_cluster.
Assigned ==
    /\ pc \in {"search", "tree"} => visited = 0 /\ nextCluster = 2 /\ first = <<>>
    /\ nextCluster >= 2
    /\ pc = "assign" => Len(first) = visited
    /\ pc \in {"chain", "written"} => Len(first) = Len(tree) /\ nextCluster - 2 <= clusters
    /\ Len(first) <= Len(tree)
    /\ \A i \in 1..Len(first) :
           Count(i) > 0 => first[i] >= 2 /\ first[i] + Count(i) <= nextCluster

\* Only clusters of that range have an entry.
Chained ==
    /\ pc \in {"search", "tree", "assign"} => DOMAIN fat = {}
    /\ \A c \in DOMAIN fat : 2 <= c /\ c < nextCluster

FatInv == TypeOK /\ Search /\ Assigned /\ Chained

\* The constants and the input, as the steps below use them.
LEMMA InputTypes ==
    ASSUME TypeOK
    PROVE  /\ totalSectors \in Nat /\ tree \in Seq(Node) /\ Len(tree) \in Nat
           /\ \A i \in 1..Len(tree) : Count(i) \in Nat
           /\ Reserved \in Nat /\ FatCount \in Nat \ {0} /\ PerSector \in Nat \ {0}
           /\ MinClusters \in Nat
<1>1. tree \in Seq(Node) /\ totalSectors \in Nat
  BY FatAssumption DEF TypeOK
<1>2. \A i \in 1..Len(tree) : tree[i] \in Node
  BY <1>1
<1>3. \A i \in 1..Len(tree) : Count(i) \in Nat
  BY <1>2, ClusterCountType DEF Count
<1> QED
  BY <1>1, <1>3, FatAssumption

\* The search starts with an upper end that suffices.
LEMMA UpperEndSuffices ==
    ASSUME totalSectors \in Nat, totalSectors >= Reserved,
           high = CeilDiv(totalSectors - Reserved, PerSector) + 1
    PROVE  high \in Nat /\ 1 <= high /\ Sufficient(high)
<1> DEFINE a == totalSectors - Reserved
           q == CeilDiv(a, PerSector)
<1>1. /\ Reserved \in Nat /\ FatCount \in Nat \ {0} /\ PerSector \in Nat \ {0} /\ a \in Nat
  BY FatAssumption
<1>2. q \in Nat /\ q * PerSector >= a
  <2> HIDE DEF a
  <2> QED
    BY <1>1, CeilDivBounds
<1>3. high = q + 1 /\ high \in Nat /\ 1 <= high
  BY <1>2
<1> HIDE DEF q
<1>4. high * PerSector = q * PerSector + PerSector
  BY <1>1, <1>2, <1>3
<1>5. FatCount * high >= 1 /\ FatCount * high \in Nat /\ high * PerSector \in Nat
      /\ q * PerSector \in Nat
  BY <1>1, <1>2, <1>3
<1> DEFINE fh == FatCount * high
           hp == high * PerSector
           qp == q * PerSector
<1> HIDE DEF fh, hp, qp
<1>6. hp >= totalSectors - Reserved - fh + 2
  BY <1>1, <1>2, <1>4, <1>5 DEF fh, hp, qp
<1> QED
  BY <1>3, <1>6 DEF fh, hp, Sufficient, DataSectors

\* One iteration of the binary search.
LEMMA ProbeStep ==
    ASSUME FatInv, Probe
    PROVE  Search' /\ low' \in Nat /\ high' \in Int
<1> DEFINE mid == (low + high) \div 2
<1>1. /\ low \in Nat /\ low # 0 /\ high \in Int /\ low < high
      /\ totalSectors \in Nat
  BY InputTypes DEF FatInv, TypeOK, Search, Probe
<1>2. mid \in Nat /\ low <= mid /\ mid < high
  BY <1>1
<1>3. /\ pc = "search" /\ pc' = pc /\ UNCHANGED <<totalSectors, clusters>>
      /\ Sufficient(mid) => high' = mid /\ low' = low
      /\ ~Sufficient(mid) => low' = mid + 1 /\ high' = high
  BY DEF Probe
<1> HIDE DEF mid
<1>4. \A n : Sufficient(n)' <=> Sufficient(n)
  BY <1>3 DEF Sufficient, DataSectors
<1>5. CASE Sufficient(mid)
  BY <1>1, <1>2, <1>3, <1>4, <1>5 DEF FatInv, Search
<1>6. CASE ~Sufficient(mid)
  <2>1. \A n \in 1..mid : ~Sufficient(n)
    BY <1>1, <1>2, <1>6, SufficientMonotone
  <2> QED
    BY <1>1, <1>2, <1>3, <1>4, <1>6, <2>1 DEF FatInv, Search
<1> QED
  BY <1>5, <1>6

\* One node of _assign_clusters.
LEMMA AssignStep ==
    ASSUME FatInv, AssignNode
    PROVE  FatInv'
<1> DEFINE v == visited + 1
           count == Count(v)
<1>1. /\ pc = "assign" /\ v \in 1..Len(tree) /\ Len(first) = visited /\ count \in Nat
      /\ visited \in Nat /\ nextCluster \in Nat /\ first \in Seq(Nat) /\ Len(tree) \in Nat
  BY InputTypes, SMTT(40) DEF FatInv, TypeOK, Assigned, AssignNode
<1>2. /\ first' = Append(first, IF count > 0 THEN nextCluster ELSE 0)
      /\ nextCluster' = nextCluster + count /\ visited' = v
      /\ UNCHANGED <<pc, totalSectors, tree, low, high, clusters, fat>>
  BY DEF AssignNode, Count
<1>3. /\ first' \in Seq(Nat) /\ Len(first') = v /\ nextCluster' \in Nat
      /\ \A i \in 1..visited : first'[i] = first[i]
      /\ first'[v] = IF count > 0 THEN nextCluster ELSE 0
  BY <1>1, <1>2
<1>4. \A i : Count(i)' = Count(i)
  BY <1>2 DEF Count, ClusterCount, CeilDiv
<1>5. TypeOK'
  BY <1>1, <1>2, <1>3 DEF FatInv, TypeOK
<1>6. Search'
  BY <1>1, <1>2 DEF FatInv, Search, Sufficient, DataSectors
<1>7. nextCluster >= 2
  BY <1>1 DEF FatInv, Assigned
<1>8. Assigned'
  <2>1. ASSUME NEW i \in 1..Len(first'), Count(i) > 0
        PROVE  first'[i] >= 2 /\ first'[i] + Count(i) <= nextCluster'
    <3>1. CASE i = v
      BY <1>1, <1>2, <1>3, <1>7, <2>1, <3>1
    <3>2. CASE i # v
      <4>1. i \in 1..visited /\ i \in 1..Len(tree)
        BY <1>1, <1>3, <3>2
      <4>2. first[i] >= 2 /\ first[i] + Count(i) <= nextCluster /\ first[i] \in Nat /\ Count(i) \in Nat
        <5>1. first[i] \in Nat /\ i \in 1..Len(first)
          BY <1>1, <4>1
        <5>2. Count(i) \in Nat
          BY <4>1, InputTypes DEF FatInv
        <5> QED
          BY <2>1, <5>1, <5>2 DEF FatInv, Assigned
      <4>3. first'[i] = first[i]
        BY <1>3, <4>1
      <4> HIDE DEF count, v
      <4> QED
        BY <1>1, <1>2, <4>2, <4>3, SMTT(40)
    <3> QED
      BY <3>1, <3>2
  <2>2. nextCluster' >= 2
    BY <1>1, <1>2, <1>7
  <2> QED
    BY <1>1, <1>2, <1>3, <1>4, <2>1, <2>2 DEF Assigned
<1>9. Chained'
  BY <1>1, <1>2 DEF FatInv, Chained
<1> QED
  BY <1>5, <1>6, <1>8, <1>9 DEF FatInv

\* The FAT entries of one node.
LEMMA ChainStep ==
    ASSUME FatInv, ChainNode
    PROVE  FatInv'
<1> DEFINE v == visited + 1
           count == Count(v)
           owned == first[v]..(first[v] + count - 1)
<1>1. /\ pc = "chain" /\ v \in 1..Len(tree) /\ Len(first) = Len(tree) /\ count \in Nat
      /\ visited \in Nat /\ nextCluster \in Nat /\ first \in Seq(Nat) /\ first[v] \in Nat
  <2>1. pc = "chain" /\ v \in 1..Len(tree) /\ visited \in Nat /\ nextCluster \in Nat /\ first \in Seq(Nat)
    BY DEF FatInv, TypeOK, ChainNode
  <2>2. Len(first) = Len(tree)
    BY <2>1 DEF FatInv, Assigned
  <2>3. count \in Nat
    BY <2>1, InputTypes DEF FatInv
  <2>4. first[v] \in Nat
    BY <2>1, <2>2
  <2> QED
    BY <2>1, <2>2, <2>3, <2>4
<1>2. /\ fat' = [c \in DOMAIN fat \cup owned |->
                   IF c \notin owned THEN fat[c]
                   ELSE IF c = first[v] + count - 1 THEN EndOfChain ELSE c + 1]
      /\ visited' = v
      /\ UNCHANGED <<pc, totalSectors, tree, low, high, clusters, nextCluster, first>>
  BY DEF ChainNode, Count
<1>3. \A c \in owned : c \in Nat /\ 2 <= c /\ c < nextCluster
  <2> SUFFICES ASSUME NEW c \in owned PROVE c \in Nat /\ 2 <= c /\ c < nextCluster
    OBVIOUS
  <2>1. count > 0
    BY <1>1
  <2>2. first[v] >= 2 /\ first[v] + count <= nextCluster
    BY <1>1, <2>1 DEF FatInv, Assigned
  <2> QED
    BY <1>1, <2>2
<1>4. \A i : Count(i)' = Count(i)
  BY <1>2 DEF Count, ClusterCount, CeilDiv
<1>5. TypeOK'
  <2>1. DOMAIN fat' = DOMAIN fat \cup owned
    BY <1>2
  <2>2. DOMAIN fat' \subseteq Nat
    BY <1>3, <2>1 DEF FatInv, TypeOK
  <2>3. \A c \in DOMAIN fat' : fat'[c] \in Nat \cup {EndOfChain}
    <3> SUFFICES ASSUME NEW c \in DOMAIN fat' PROVE fat'[c] \in Nat \cup {EndOfChain}
      OBVIOUS
    <3>1. CASE c \notin owned
      BY <1>2, <2>1, <3>1 DEF FatInv, TypeOK
    <3>2. CASE c \in owned
      <4>1. c + 1 \in Nat
        BY <1>3, <3>2
      <4>2. fat'[c] = EndOfChain \/ fat'[c] = c + 1
        BY <1>2, <2>1, <3>2
      <4> QED
        BY <4>1, <4>2
    <3> QED
      BY <3>1, <3>2
  <2> QED
    BY <1>1, <1>2, <2>2, <2>3 DEF FatInv, TypeOK
<1>6. Search'
  BY <1>1, <1>2 DEF FatInv, Search, Sufficient, DataSectors
<1>7. Assigned'
  BY <1>1, <1>2, <1>4 DEF FatInv, Assigned
<1>8. Chained'
  BY <1>1, <1>2, <1>3 DEF FatInv, Chained
<1> QED
  BY <1>5, <1>6, <1>7, <1>8 DEF FatInv

\* Every state of the build satisfies the invariant, fair or not.
THEOREM FatInvariant == Init /\ [][Next]_vars => []FatInv
<1>1. Init => FatInv
  <2> SUFFICES ASSUME Init PROVE FatInv
    OBVIOUS
  <2>1. totalSectors \in Nat /\ tree \in Seq(Node) /\ Len(tree) \in Nat
    BY FatAssumption DEF Init
  <2>2. /\ low = 1 /\ clusters = 0 /\ visited = 0 /\ nextCluster = 2 /\ first = <<>>
        /\ first \in Seq(Nat) /\ Len(first) = 0 /\ DOMAIN fat = {} /\ pc = "search"
    BY DEF Init
  <2>3. high \in Int
    BY <2>1, FatAssumption DEF Init, CeilDiv
  <2>4. TypeOK
    BY <2>1, <2>2, <2>3 DEF Init, TypeOK
  <2>5. Search
    BY <2>1, <2>2, UpperEndSuffices DEF Init, Search
  <2>6. Assigned /\ Chained
    BY <2>1, <2>2 DEF Assigned, Chained
  <2> QED
    BY <2>4, <2>5, <2>6 DEF FatInv
<1>2. FatInv /\ [Next]_vars => FatInv'
  <2> SUFFICES ASSUME FatInv, [Next]_vars PROVE FatInv'
    OBVIOUS
  <2>0. /\ UNCHANGED <<totalSectors, tree, low>> =>
              /\ \A n : Sufficient(n)' <=> Sufficient(n)
              /\ DataSectors(low)' = DataSectors(low)
        /\ UNCHANGED tree => \A i : Count(i)' = Count(i)
    BY DEF Sufficient, DataSectors, Count, ClusterCount, CeilDiv
  <2>1. CASE Probe
    <3>1. Search' /\ low' \in Nat /\ high' \in Int
      BY <2>1, ProbeStep
    <3>2. TypeOK'
      BY <2>1, <3>1 DEF Probe, FatInv, TypeOK
    <3>3. Assigned' /\ Chained'
      BY <2>0, <2>1 DEF Probe, FatInv, Assigned, Chained
    <3> QED
      BY <3>1, <3>2, <3>3 DEF FatInv
  <2>2. CASE FinishSearch
    <3>1. DataSectors(low) \in Int
      BY InputTypes DEF FatInv, TypeOK, DataSectors
    <3>2. TypeOK'
      BY <2>2, <3>1, InputTypes DEF FinishSearch, FatInv, TypeOK
    <3>3. Search'
      BY <2>0, <2>2, InputTypes DEF FinishSearch, FatInv, TypeOK, Search
    <3>4. Assigned' /\ Chained'
      BY <2>0, <2>2 DEF FinishSearch, FatInv, Assigned, Chained
    <3> QED
      BY <3>2, <3>3, <3>4 DEF FatInv
  <2>3. CASE AssignNode
    BY <2>3, AssignStep
  <2>4. CASE FinishAssign
    <3>1. TypeOK'
      BY <2>4, InputTypes DEF FinishAssign, FatInv, TypeOK
    <3>2. Search'
      BY <2>0, <2>4 DEF FinishAssign, FatInv, Search
    <3>3. Assigned' /\ Chained'
      BY <2>0, <2>4 DEF FinishAssign, FatInv, TypeOK, Assigned, Chained
    <3> QED
      BY <3>1, <3>2, <3>3 DEF FatInv
  <2>5. CASE ChainNode
    BY <2>5, ChainStep
  <2>6. CASE FinishChain
    <3>1. TypeOK'
      BY <2>6 DEF FinishChain, FatInv, TypeOK
    <3>2. Search'
      BY <2>0, <2>6 DEF FinishChain, FatInv, Search
    <3>3. Assigned' /\ Chained'
      BY <2>0, <2>6 DEF FinishChain, FatInv, Assigned, Chained
    <3> QED
      BY <3>1, <3>2, <3>3 DEF FatInv
  <2>7. CASE BuildTree
    <3>1. tree' \in Seq(Node) /\ Len(tree') \in Nat
      BY <2>7 DEF BuildTree
    <3>2. TypeOK'
      BY <2>7, <3>1 DEF BuildTree, FatInv, TypeOK, Assigned
    <3>3. Search'
      BY <2>7 DEF BuildTree, FatInv, Search, Sufficient, DataSectors
    <3>4. Assigned' /\ Chained'
      BY <2>7, <3>1 DEF BuildTree, FatInv, TypeOK, Assigned, Chained
    <3> QED
      BY <3>2, <3>3, <3>4 DEF FatInv
  <2>8. CASE RejectTree
    <3>1. TypeOK'
      BY <2>8 DEF RejectTree, FatInv, TypeOK
    <3>2. Search'
      BY <2>0, <2>8 DEF RejectTree, FatInv, Search
    <3>3. Assigned' /\ Chained'
      BY <2>0, <2>8 DEF RejectTree, FatInv, Assigned, Chained
    <3> QED
      BY <3>1, <3>2, <3>3 DEF FatInv
  <2>9. CASE UNCHANGED vars
    <3>1. TypeOK'
      BY <2>9 DEF vars, FatInv, TypeOK
    <3>2. Search'
      BY <2>0, <2>9 DEF vars, FatInv, Search
    <3>3. Assigned' /\ Chained'
      BY <2>0, <2>9 DEF vars, FatInv, Assigned, Chained
    <3> QED
      BY <3>1, <3>2, <3>3 DEF FatInv
  <2> QED
    BY <2>1, <2>2, <2>3, <2>4, <2>5, <2>6, <2>7, <2>8, <2>9 DEF Next, Ended
<1> QED
  BY <1>1, <1>2, PTL

\* _calculate_layout returns the smallest FAT that addresses its data region, for
\* every geometry and image size, not only the ones the runs enumerate.
THEOREM SmallestFat == Init /\ [][Next]_vars => []SmallestSufficientFat
<1>1. FatInv => SmallestSufficientFat
  BY DEF FatInv, Search, SmallestSufficientFat
<1> QED
  BY <1>1, FatInvariant, PTL

\* No chain leaves the FAT or the image, however full the image is.
THEOREM ChainsStayInBounds == Init /\ [][Next]_vars => []ChainsInBounds
<1>1. FatInv => ChainsInBounds
  <2> SUFFICES ASSUME FatInv, pc \in {"chain", "written"}, NEW c \in DOMAIN fat
               PROVE  /\ c >= 2
                      /\ c < low * PerSector
                      /\ Reserved + FatCount * low + (c - 2) < totalSectors
    BY DEF ChainsInBounds
  <2> DEFINE fl == FatCount * low
             lp == low * PerSector
  <2>1. /\ c \in Nat /\ 2 <= c /\ c < nextCluster /\ nextCluster - 2 <= clusters
        /\ nextCluster \in Nat /\ clusters \in Int /\ clusters >= MinClusters
    BY DEF FatInv, TypeOK, Assigned, Chained
  <2>2. /\ totalSectors \in Nat /\ Reserved \in Nat /\ MinClusters \in Nat
        /\ low \in Nat /\ fl \in Nat /\ lp \in Nat
    BY InputTypes, SMTT(40) DEF FatInv, TypeOK
  <2>3. clusters = totalSectors - Reserved - fl
    BY DEF FatInv, Search, DataSectors
  <2>4. totalSectors >= Reserved
    <3> HIDE DEF fl
    <3> QED
      BY <2>1, <2>2, <2>3
  <2>5. lp >= clusters + 2
    BY <2>3, <2>4 DEF FatInv, Search, Sufficient, DataSectors
  <2> HIDE DEF fl, lp
  <2>6. c < lp /\ Reserved + fl + (c - 2) < totalSectors
    BY <2>1, <2>2, <2>3, <2>5
  <2> QED
    BY <2>1, <2>6 DEF fl, lp
<1> QED
  BY <1>1, FatInvariant, PTL

-----------------------------------------------------------------------------
(***************************************************************************)
(* Whose the clusters are.  The invariant above says where they lie; these *)
(* two say that the ranges of two nodes are apart, and that the nodes done *)
(* by the loop over the chains are linked.                                 *)
(***************************************************************************)
Apart ==
    \A i, j \in 1..Len(first) :
        i < j /\ Count(i) > 0 /\ Count(j) > 0 => first[i] + Count(i) <= first[j]

Linked ==
    /\ pc \in {"chain", "written"} =>
           \A i \in 1..visited : \A c \in first[i]..(first[i] + Count(i) - 1) :
               /\ c \in DOMAIN fat
               /\ fat[c] = IF c = first[i] + Count(i) - 1 THEN EndOfChain ELSE c + 1
    /\ pc = "written" => visited = Len(tree)

OwnInv == Apart /\ Linked

\* Two nodes own different clusters.
LEMMA RangesAreApart ==
    ASSUME FatInv, Apart, NEW i \in 1..Len(first), NEW j \in 1..Len(first), i # j,
           NEW c \in first[i]..(first[i] + Count(i) - 1)
    PROVE  c \notin first[j]..(first[j] + Count(j) - 1)
<1>1. /\ Count(i) \in Nat /\ Count(j) \in Nat /\ first[i] \in Nat /\ first[j] \in Nat
      /\ Len(first) \in Nat
  <2>1. TypeOK /\ first \in Seq(Nat) /\ Len(first) <= Len(tree)
    BY DEF FatInv, TypeOK, Assigned
  <2>2. i \in 1..Len(tree) /\ j \in 1..Len(tree)
    BY <2>1, InputTypes, SMTT(40)
  <2>3. Count(i) \in Nat /\ Count(j) \in Nat
    BY <2>1, <2>2, InputTypes
  <2> QED
    BY <2>1, <2>3, SMTT(40)
<1>2. CASE Count(j) > 0
  BY <1>1, <1>2, SMTT(40) DEF Apart
<1> QED
  BY <1>1, <1>2

\* A node gets the clusters behind all the ones before it.
LEMMA AssignApart == FatInv /\ Apart /\ AssignNode => Apart'
<1> SUFFICES ASSUME FatInv, Apart, AssignNode PROVE Apart'
  OBVIOUS
<1> DEFINE v == visited + 1
           count == Count(v)
<1>1. /\ pc = "assign" /\ v \in 1..Len(tree) /\ Len(first) = visited /\ count \in Nat
      /\ visited \in Nat /\ nextCluster \in Nat /\ first \in Seq(Nat) /\ Len(tree) \in Nat
  BY InputTypes, SMTT(40) DEF FatInv, TypeOK, Assigned, AssignNode
<1>2. /\ first' = Append(first, IF count > 0 THEN nextCluster ELSE 0) /\ UNCHANGED tree
  BY DEF AssignNode, Count
<1>3. /\ Len(first') = v
      /\ \A i \in 1..visited : first'[i] = first[i]
      /\ first'[v] = IF count > 0 THEN nextCluster ELSE 0
  BY <1>1, <1>2
<1>4. \A i : Count(i)' = Count(i)
  BY <1>2 DEF Count, ClusterCount, CeilDiv
<1> SUFFICES ASSUME NEW i \in 1..Len(first'), NEW j \in 1..Len(first'),
                    i < j, Count(i) > 0, Count(j) > 0
             PROVE  first'[i] + Count(i) <= first'[j]
  BY <1>4 DEF Apart
<1>5. i \in 1..visited /\ i \in 1..Len(first)
  BY <1>1, <1>3
<1>6. CASE j = v
  BY <1>3, <1>5, <1>6 DEF FatInv, Assigned
<1>7. CASE j # v
  BY <1>1, <1>3, <1>5, <1>7 DEF Apart
<1> QED
  BY <1>6, <1>7

\* The chain of a node leaves those of the others alone.
LEMMA ChainLinked == FatInv /\ OwnInv /\ ChainNode => Linked'
<1> SUFFICES ASSUME FatInv, OwnInv, ChainNode PROVE Linked'
  OBVIOUS
<1> DEFINE v == visited + 1
           owned == first[v]..(first[v] + Count(v) - 1)
<1>1. /\ pc = "chain" /\ v \in 1..Len(tree) /\ Len(first) = Len(tree) /\ visited \in Nat
      /\ Len(tree) \in Nat
  BY InputTypes DEF FatInv, TypeOK, Assigned, ChainNode
<1>2. /\ fat' = [c \in DOMAIN fat \cup owned |->
                   IF c \notin owned THEN fat[c]
                   ELSE IF c = first[v] + Count(v) - 1 THEN EndOfChain ELSE c + 1]
      /\ visited' = v /\ pc' = pc /\ tree' = tree /\ first' = first
  BY DEF ChainNode, Count
<1>3. \A i : Count(i)' = Count(i)
  BY <1>2 DEF Count, ClusterCount, CeilDiv
<1> SUFFICES ASSUME NEW i \in 1..v, NEW c \in first[i]..(first[i] + Count(i) - 1)
             PROVE  /\ c \in DOMAIN fat'
                    /\ fat'[c] = IF c = first[i] + Count(i) - 1 THEN EndOfChain ELSE c + 1
  BY <1>1, <1>2, <1>3 DEF Linked
<1>4. CASE i = v
  BY <1>2, <1>4
<1>5. CASE i # v
  <2>1. i \in 1..visited /\ i \in 1..Len(first) /\ v \in 1..Len(first)
    BY <1>1, <1>5
  <2>2. c \notin owned
    BY <1>5, <2>1, RangesAreApart DEF OwnInv
  <2>3. c \in DOMAIN fat /\ fat[c] = IF c = first[i] + Count(i) - 1 THEN EndOfChain ELSE c + 1
    BY <1>1, <2>1 DEF OwnInv, Linked
  <2> HIDE DEF owned
  <2> QED
    BY <1>2, <2>2, <2>3
<1> QED
  BY <1>4, <1>5

\* In the finished image every node's chain is its own, link by link.
THEOREM ChainsOwned == Init /\ [][Next]_vars => []ChainsAreOwned
<1>1. Init => OwnInv
  BY DEF Init, OwnInv, Apart, Linked
<1>2. FatInv /\ OwnInv /\ [Next]_vars => OwnInv'
  <2> SUFFICES ASSUME FatInv, OwnInv, [Next]_vars PROVE OwnInv'
    OBVIOUS
  <2>0. UNCHANGED tree => \A i : Count(i)' = Count(i)
    BY DEF Count, ClusterCount, CeilDiv
  <2>1. CASE Probe \/ FinishSearch \/ RejectTree
    BY <2>0, <2>1 DEF Probe, FinishSearch, RejectTree, OwnInv, Apart, Linked
  <2>2. CASE BuildTree
    BY <2>2 DEF BuildTree, FatInv, Assigned, OwnInv, Apart, Linked
  <2>3. CASE AssignNode
    BY <2>3, AssignApart DEF AssignNode, OwnInv, Linked
  <2>4. CASE FinishAssign
    BY <2>0, <2>4 DEF FinishAssign, OwnInv, Apart, Linked
  <2>5. CASE ChainNode
    BY <2>0, <2>5, ChainLinked DEF ChainNode, OwnInv, Apart
  <2>6. CASE FinishChain
    BY <2>0, <2>6 DEF FinishChain, OwnInv, Apart, Linked
  <2>7. CASE UNCHANGED vars
    BY <2>0, <2>7 DEF vars, OwnInv, Apart, Linked
  <2> QED
    BY <2>1, <2>2, <2>3, <2>4, <2>5, <2>6, <2>7 DEF Next, Ended
<1>3. FatInv /\ OwnInv => ChainsAreOwned
  <2> SUFFICES ASSUME FatInv, OwnInv, pc = "written", NEW i \in 1..Len(tree)
               PROVE  /\ \A c \in Owned(i) :
                             fat[c] = IF c = first[i] + ClusterCount(tree[i]) - 1
                                        THEN EndOfChain ELSE c + 1
                      /\ \A j \in 1..Len(tree) : i # j => Owned(i) \cap Owned(j) = {}
    BY DEF ChainsAreOwned
  <2>1. Len(first) = Len(tree) /\ visited = Len(tree)
    BY DEF FatInv, Assigned, OwnInv, Linked
  <2>2. \A k : Owned(k) = first[k]..(first[k] + Count(k) - 1) /\ Count(k) = ClusterCount(tree[k])
    BY DEF Owned, Count
  <2>3. \A c \in Owned(i) : fat[c] = IF c = first[i] + Count(i) - 1 THEN EndOfChain ELSE c + 1
    BY <2>1, <2>2 DEF OwnInv, Linked
  <2>4. \A j \in 1..Len(tree) : i # j => Owned(i) \cap Owned(j) = {}
    BY <2>1, <2>2, RangesAreApart DEF OwnInv
  <2> QED
    BY <2>2, <2>3, <2>4
<1> QED
  BY <1>1, <1>2, <1>3, FatInvariant, PTL

-----------------------------------------------------------------------------
\* create_fat32_image, from the manifest to the chains, is a run of FatLayout: reading
\* the manifest and naming the nodes are steps that leave the layout alone, and the
\* tree they hand over is some tree.
THEOREM ImageIsLayout == ImageSpec => Init /\ [][Next]_vars
<1>1. ImageInit => Init
  BY DEF ImageInit
<1>2. [ImageNext]_imageVars => [Next]_vars
  BY DEF ImageNext, AddEntry, RefuseEntry, NameNode, NoAliasLeft, HandOver, Layout, Next,
         imageVars
<1> QED
  BY <1>1, <1>2, PTL DEF ImageSpec

\* So the builder's FAT is the smallest that suffices, and the chains of the image it
\* writes are in bounds and each its node's own, whatever manifest it was given.
THEOREM ImageLayoutIsSound ==
    ImageSpec => [](SmallestSufficientFat /\ ChainsInBounds /\ ChainsAreOwned)
  BY ImageIsLayout, SmallestFat, ChainsStayInBounds, ChainsOwned, PTL

-----------------------------------------------------------------------------
(***************************************************************************)
(* _build_tree: the tree that the entries added so far make.               *)
(***************************************************************************)
Keys == {Key(n) : n \in DOMAIN Catalogue}

\* Where an entry goes: the path of its keys, and the nodes on it.
K(i) == KeyPath(entries[i].path)
At(i, n) == SubSeq(K(i), 1, n)

\* The node that entry i makes n levels down.
NodeOf(i, n) == [name |-> entries[i].path[n], dir |-> n # Len(K(i)),
                 size |-> IF n = Len(K(i)) THEN entries[i].size ELSE 0]
Root == [name |-> 0, dir |-> TRUE, size |-> 0]

\* Every node but the root was made by an entry that was added, and every entry added
\* has a directory at each level and a file at the end.
Made(p) == \E i \in 1..added : \E n \in 1..Len(K(i)) : p = At(i, n) /\ nodes[p] = NodeOf(i, n)
AllMade == \A p \in DOMAIN nodes : p # <<>> => Made(p)
Placed == \A i \in 1..added : \A n \in 1..Len(K(i)) :
              At(i, n) \in DOMAIN nodes /\ (nodes[At(i, n)].dir <=> n # Len(K(i)))
GoodEntry(i) == entries[i].regular /\ \A j \in DOMAIN entries[i].path : Catalogue[entries[i].path[j]].legal
Separate == \A i, j \in 1..added : i # j => ~IsPrefix(K(i), K(j))

Manifest == [sectors |-> totalSectors, files |-> entries] \in Jobs /\ added \in 0..Len(entries)
TreeInv ==
    /\ Manifest
    /\ <<>> \in DOMAIN nodes /\ nodes[<<>>] = Root
    /\ AllMade /\ Placed
    /\ \A i \in 1..added : GoodEntry(i)
    /\ Separate
    /\ raised = "entry" => ~Compatible

\* A path of names becomes a path of keys of the same length, level by level.
LEMMA KeyPathTypes ==
    ASSUME NEW path \in Seq(DOMAIN Catalogue)
    PROVE  /\ KeyPath(path) \in Seq(Keys) /\ Len(KeyPath(path)) = Len(path)
           /\ \A i \in 1..Len(path) : KeyPath(path)[i] = Key(path[i])
<1>1. \A i \in 1..Len(path) : Key(path[i]) \in Keys
  BY DEF Keys
<1>2. KeyPath(path) \in [1..Len(path) -> Keys] /\ \A i \in 1..Len(path) : KeyPath(path)[i] = Key(path[i])
  BY <1>1 DEF KeyPath
<1> QED
  BY <1>2

\* The path of a directory on the way is the start of the path.
LEMMA KeyPathPrefix ==
    ASSUME NEW path \in Seq(DOMAIN Catalogue), NEW n \in 0..Len(path)
    PROVE  KeyPath(SubSeq(path, 1, n)) = SubSeq(KeyPath(path), 1, n)
<1> DEFINE w == SubSeq(path, 1, n)
           k == KeyPath(path)
           v == SubSeq(k, 1, n)
<1>1. w \in Seq(DOMAIN Catalogue) /\ Len(w) = n /\ \A i \in 1..n : w[i] = path[i]
  OBVIOUS
<1>2. k \in Seq(Keys) /\ Len(k) = Len(path) /\ \A i \in 1..n : k[i] = Key(path[i])
  BY KeyPathTypes
<1> HIDE DEF w, k
<1>3. v \in Seq(Keys) /\ Len(v) = n /\ \A i \in 1..n : v[i] = k[i]
  BY <1>2
<1> DEFINE u == KeyPath(w)
<1>4. u \in Seq(Keys) /\ Len(u) = n /\ \A i \in 1..n : u[i] = Key(w[i])
  BY <1>1, KeyPathTypes
<1> HIDE DEF u, v
<1>5. u = v
  BY <1>1, <1>2, <1>3, <1>4
<1> QED
  BY <1>5 DEF u, v, w, k

\* One path is a prefix of another when it is one of its levels.
LEMMA PrefixIsLevel ==
    ASSUME NEW S, NEW s \in Seq(S), NEW t \in Seq(S)
    PROVE  /\ IsPrefix(s, t) => Len(s) \in 0..Len(t) /\ s = SubSeq(t, 1, Len(s))
           /\ \A n \in 0..Len(t) : s = SubSeq(t, 1, n) => IsPrefix(s, t) /\ Len(s) = n
<1>1. SubSeq(s, 1, Len(s)) = s
  OBVIOUS
<1>2. IsPrefix(s, t) => Len(s) \in 0..Len(t) /\ s = SubSeq(t, 1, Len(s))
  BY <1>1 DEF IsPrefix
<1>3. ASSUME NEW n \in 0..Len(t), s = SubSeq(t, 1, n) PROVE IsPrefix(s, t) /\ Len(s) = n
  <2>1. Len(s) = n
    BY <1>3
  <2> QED
    BY <1>1, <1>3, <2>1 DEF IsPrefix
<1> QED
  BY <1>2, <1>3

\* A manifest is a sequence of entries.
LEMMA ManifestSeq ==
    ASSUME Manifest
    PROVE  /\ entries \in Seq(Entry) /\ Len(entries) \in Nat /\ DOMAIN entries = 1..Len(entries)
           /\ added \in 0..Len(entries)
<1>1. [sectors |-> totalSectors, files |-> entries] \in [sectors : ImageSizes, files : Seq(Entry)]
  BY ImageAssumption DEF Manifest
<1>2. entries \in Seq(Entry)
  BY <1>1
<1> QED
  BY <1>2 DEF Manifest

\* The levels of an entry.
LEMMA Levels ==
    ASSUME Manifest, NEW i \in 1..Len(entries)
    PROVE  /\ entries \in Seq(Entry) /\ entries[i] \in Entry
           /\ entries[i].path \in Seq(DOMAIN Catalogue) /\ entries[i].size \in Nat
           /\ entries[i].regular \in BOOLEAN
           /\ K(i) \in Seq(Keys) /\ Len(K(i)) = Len(entries[i].path) /\ Len(K(i)) \in Nat \ {0}
           /\ \A n \in 0..Len(K(i)) : At(i, n) \in Seq(Keys) /\ Len(At(i, n)) = n
           /\ At(i, Len(K(i))) = K(i) /\ K(i) # <<>>
           /\ \A n \in 1..Len(K(i)) : At(i, n) # <<>> /\ (At(i, n) = K(i) => n = Len(K(i)))
<1> DEFINE path == entries[i].path
           k == K(i)
<1>1. entries \in Seq(Entry)
  BY ManifestSeq
<1>2. entries[i] \in Entry
  BY <1>1
<1>3. path \in Seq(DOMAIN Catalogue) /\ path # <<>> /\ entries[i].size \in Nat /\ entries[i].regular \in BOOLEAN
  BY <1>2 DEF Entry
<1>4. Len(path) \in Nat \ {0}
  BY <1>3
<1>5. k \in Seq(Keys) /\ Len(k) = Len(path)
  BY <1>3, KeyPathTypes DEF K
<1> HIDE DEF k, path
<1>6. \A n \in 0..Len(k) : SubSeq(k, 1, n) \in Seq(Keys) /\ Len(SubSeq(k, 1, n)) = n
  BY <1>5
<1>7. SubSeq(k, 1, Len(k)) = k
  BY <1>5
<1>8. k # <<>> /\ Len(k) \in Nat \ {0}
  BY <1>4, <1>5
<1>9. \A n \in 1..Len(k) : SubSeq(k, 1, n) # <<>> /\ (SubSeq(k, 1, n) = k => n = Len(k))
  <2> SUFFICES ASSUME NEW n \in 1..Len(k)
               PROVE  SubSeq(k, 1, n) # <<>> /\ (SubSeq(k, 1, n) = k => n = Len(k))
    OBVIOUS
  <2>1. Len(SubSeq(k, 1, n)) = n /\ n # 0
    BY <1>6, <1>8
  <2> QED
    BY <2>1
<1> QED
  BY <1>1, <1>2, <1>3, <1>5, <1>6, <1>7, <1>8, <1>9 DEF At, k, path

\* The directories on the way of an entry are its levels but the last.
LEMMA WayLevels ==
    ASSUME Manifest, NEW i \in 1..Len(entries)
    PROVE  /\ {KeyPath(w) : w \in Way(entries[i].path)} = {At(i, n) : n \in 1..(Len(K(i)) - 1)}
           /\ \A w \in Way(entries[i].path) : \E n \in 1..(Len(K(i)) - 1) : KeyPath(w) = At(i, n)
           /\ \A n \in 1..(Len(K(i)) - 1) : \E w \in Way(entries[i].path) : KeyPath(w) = At(i, n)
<1> DEFINE path == entries[i].path
           l == Len(path)
<1>1. path \in Seq(DOMAIN Catalogue) /\ l \in Nat \ {0} /\ Len(K(i)) = l
  BY Levels
<1>2. \A n \in 1..(l - 1) : KeyPath(SubSeq(path, 1, n)) = At(i, n)
  <2> SUFFICES ASSUME NEW n \in 1..(l - 1) PROVE KeyPath(SubSeq(path, 1, n)) = At(i, n)
    OBVIOUS
  <2>1. n \in 0..Len(path)
    BY <1>1
  <2> HIDE DEF path, l
  <2> QED
    BY <1>1, <2>1, KeyPathPrefix DEF At, K, path
<1>3. Way(path) = {SubSeq(path, 1, n) : n \in 1..(l - 1)}
  BY DEF Way
<1> HIDE DEF path, l
<1>4. /\ \A w \in Way(path) : \E n \in 1..(l - 1) : KeyPath(w) = At(i, n)
      /\ \A n \in 1..(l - 1) : \E w \in Way(path) : KeyPath(w) = At(i, n)
  BY <1>2, <1>3
<1>5. {KeyPath(w) : w \in Way(path)} = {At(i, n) : n \in 1..(l - 1)}
  BY <1>4
<1> QED
  BY <1>1, <1>4, <1>5 DEF path

\* What EntryFits says, level by level.
LEMMA Fits ==
    ASSUME Manifest, NEW i \in 1..Len(entries)
    PROVE  EntryFits(entries[i]) <=>
               /\ GoodEntry(i)
               /\ \A n \in 1..(Len(K(i)) - 1) : At(i, n) \in DOMAIN nodes => nodes[At(i, n)].dir
               /\ K(i) \notin DOMAIN nodes
<1> DEFINE way == Way(entries[i].path)
<1>1. (\A w \in way : KeyPath(w) \in DOMAIN nodes => nodes[KeyPath(w)].dir) <=>
      (\A n \in 1..(Len(K(i)) - 1) : At(i, n) \in DOMAIN nodes => nodes[At(i, n)].dir)
  <2>1. /\ \A w \in way : \E n \in 1..(Len(K(i)) - 1) : KeyPath(w) = At(i, n)
        /\ \A n \in 1..(Len(K(i)) - 1) : \E w \in way : KeyPath(w) = At(i, n)
    BY WayLevels
  <2> HIDE DEF way
  <2> QED
    BY <2>1
<1> QED
  BY <1>1 DEF EntryFits, GoodEntry, K

\* No entry added lies above, below or at the path of one that fits.
LEMMA FitsApart ==
    ASSUME TreeInv, added + 1 \in 1..Len(entries), EntryFits(entries[added + 1]), NEW i \in 1..added
    PROVE  ~IsPrefix(K(i), K(added + 1)) /\ ~IsPrefix(K(added + 1), K(i))
<1> DEFINE a == added + 1
           k == K(a)
<1>1. Manifest /\ a \in 1..Len(entries) /\ i \in 1..Len(entries) /\ Placed
  BY DEF TreeInv, Manifest
<1>2. /\ k \in Seq(Keys) /\ Len(k) \in Nat \ {0} /\ At(a, Len(k)) = k
      /\ K(i) \in Seq(Keys) /\ Len(K(i)) \in Nat \ {0} /\ At(i, Len(K(i))) = K(i)
  BY <1>1, Levels
<1>3. /\ \A n \in 1..(Len(k) - 1) : At(a, n) \in DOMAIN nodes => nodes[At(a, n)].dir
      /\ k \notin DOMAIN nodes
  BY <1>1, Fits
<1>4. \A n \in 1..Len(K(i)) : At(i, n) \in DOMAIN nodes /\ (nodes[At(i, n)].dir <=> n # Len(K(i)))
  BY <1>1 DEF Placed
<1>5. ASSUME IsPrefix(K(i), k) PROVE FALSE
  <2> DEFINE n == Len(K(i))
  <2>1. n \in 1..Len(k) /\ K(i) = At(a, n)
    BY <1>2, <1>5, PrefixIsLevel DEF At
  <2>2. K(i) \in DOMAIN nodes /\ ~nodes[K(i)].dir
    BY <1>2, <1>4
  <2>3. n # Len(k)
    BY <1>2, <1>3, <2>1, <2>2
  <2> HIDE DEF n, a, k
  <2>4. n \in 1..(Len(k) - 1)
    BY <1>2, <2>1, <2>3
  <2> QED
    BY <1>3, <2>1, <2>2, <2>4
<1>6. ASSUME IsPrefix(k, K(i)) PROVE FALSE
  <2>1. Len(k) \in 1..Len(K(i)) /\ k = At(i, Len(k))
    BY <1>2, <1>6, PrefixIsLevel DEF At
  <2> QED
    BY <1>3, <1>4, <2>1
<1> QED
  BY <1>5, <1>6

\* An entry that does not fit makes the manifest no file system.
LEMMA MisfitIncompatible ==
    ASSUME TreeInv, added + 1 \in 1..Len(entries), ~EntryFits(entries[added + 1])
    PROVE  ~Compatible
<1> DEFINE a == added + 1
           k == K(a)
<1>1. Manifest /\ a \in 1..Len(entries) /\ AllMade /\ added \in Nat /\ 1..added \subseteq 1..Len(entries)
  BY DEF TreeInv, Manifest
<1>2. /\ k \in Seq(Keys) /\ Len(k) \in Nat \ {0} /\ At(a, Len(k)) = k /\ k # <<>>
      /\ \A n \in 1..Len(k) : At(a, n) # <<>>
      /\ entries \in Seq(Entry) /\ DOMAIN entries = 1..Len(entries)
  BY <1>1, Levels
<1>3. ASSUME NEW i \in 1..added, IsPrefix(K(i), k) \/ IsPrefix(k, K(i)) PROVE ~Compatible
  <2>1. i \in DOMAIN entries /\ a \in DOMAIN entries /\ i # a
    BY <1>1, <1>2
  <2> QED
    BY <1>3, <2>1 DEF Compatible, K
<1>4. CASE ~GoodEntry(a)
  <2>1. a \in DOMAIN entries
    BY <1>1, <1>2
  <2> HIDE DEF a, k
  <2> QED
    BY <1>4, <2>1 DEF GoodEntry, Compatible
<1>5. ASSUME NEW n \in 1..(Len(k) - 1), At(a, n) \in DOMAIN nodes, ~nodes[At(a, n)].dir PROVE ~Compatible
  <2>1. n \in 1..Len(k) /\ n \in 0..Len(k)
    BY <1>2
  <2>2. PICK i \in 1..added : \E m \in 1..Len(K(i)) : At(a, n) = At(i, m) /\ nodes[At(a, n)] = NodeOf(i, m)
    BY <1>1, <1>2, <1>5, <2>1 DEF AllMade, Made
  <2>3. PICK m \in 1..Len(K(i)) : At(a, n) = At(i, m) /\ nodes[At(a, n)] = NodeOf(i, m)
    BY <2>2
  <2>4. m = Len(K(i))
    <3>1. NodeOf(i, m).dir = (m # Len(K(i)))
      BY DEF NodeOf
    <3> QED
      BY <1>5, <2>3, <3>1
  <2>5. i \in 1..Len(entries)
    BY <1>1
  <2>6. K(i) \in Seq(Keys) /\ At(i, Len(K(i))) = K(i)
    BY <1>1, <2>5, Levels
  <2>7. K(i) = SubSeq(k, 1, n)
    BY <2>3, <2>4, <2>6 DEF At
  <2> HIDE DEF a, k
  <2>8. IsPrefix(K(i), k)
    BY <1>2, <2>1, <2>6, <2>7, PrefixIsLevel
  <2> QED
    BY <1>3, <2>8
<1>6. CASE k \in DOMAIN nodes
  <2>1. PICK i \in 1..added : \E m \in 1..Len(K(i)) : k = At(i, m)
    BY <1>1, <1>2, <1>6 DEF AllMade, Made
  <2>2. PICK m \in 1..Len(K(i)) : k = At(i, m)
    BY <2>1
  <2>3. i \in 1..Len(entries)
    BY <1>1
  <2>4. K(i) \in Seq(Keys) /\ Len(K(i)) \in Nat
    BY <1>1, <2>3, Levels
  <2>5. m \in 0..Len(K(i)) /\ k = SubSeq(K(i), 1, m)
    BY <2>2, <2>4 DEF At
  <2> HIDE DEF a, k
  <2>6. IsPrefix(k, K(i))
    BY <1>2, <2>4, <2>5, PrefixIsLevel, ZenonT(60)
  <2> QED
    BY <1>3, <2>6
<1>7. \/ ~GoodEntry(a)
      \/ \E n \in 1..(Len(k) - 1) : At(a, n) \in DOMAIN nodes /\ ~nodes[At(a, n)].dir
      \/ k \in DOMAIN nodes
  BY <1>1, Fits
<1> QED
  BY <1>4, <1>5, <1>6, <1>7

\* Whether it is one depends on the manifest alone.
LEMMA CompatibleSame == UNCHANGED entries => Compatible' = Compatible
  BY DEF Compatible

\* One entry more.
LEMMA AddKept ==
    ASSUME TreeInv, AddEntry
    PROVE  TreeInv'
<1> DEFINE a == added + 1
           k == K(a)
           e == entries[a]
<1>1. /\ Manifest /\ added \in Nat /\ Len(entries) \in Nat /\ a \in 1..Len(entries)
      /\ a \in Nat /\ 1..added \subseteq 1..Len(entries)
  <2>1. Manifest
    BY DEF TreeInv
  <2>2. Len(entries) \in Nat
    BY <2>1, ManifestSeq
  <2>3. added < Len(entries) /\ added \in 0..Len(entries)
    BY <2>1 DEF AddEntry, Manifest
  <2> QED
    BY <2>1, <2>2, <2>3
<1>2. /\ added' = a /\ entries' = entries /\ raised' = raised /\ totalSectors' = totalSectors
      /\ EntryFits(e)
  BY DEF AddEntry, vars
<1>3. /\ \A i : K(i)' = K(i) /\ GoodEntry(i)' = GoodEntry(i)
      /\ \A i, n : At(i, n)' = At(i, n) /\ NodeOf(i, n)' = NodeOf(i, n)
  BY <1>2 DEF K, At, NodeOf, GoodEntry, KeyPath, Key, UpperAll
<1>4. /\ k \in Seq(Keys) /\ Len(k) \in Nat \ {0} /\ At(a, Len(k)) = k
      /\ \A n \in 0..Len(k) : Len(At(a, n)) = n
      /\ \A n \in 1..Len(k) : At(a, n) # <<>> /\ (At(a, n) = k => n = Len(k))
  BY <1>1, Levels
<1>5. nodes' = [p \in DOMAIN nodes \cup {KeyPath(w) : w \in Way(e.path)} \cup {k} |->
                  IF p \in DOMAIN nodes THEN nodes[p]
                  ELSE [name |-> e.path[Len(p)], dir |-> p # k,
                        size |-> IF p = k THEN e.size ELSE 0]]
  BY DEF AddEntry, K
<1>6. {KeyPath(w) : w \in Way(e.path)} = {At(a, n) : n \in 1..(Len(k) - 1)}
  BY <1>1, WayLevels
<1>7. /\ \A n \in 1..(Len(k) - 1) : At(a, n) \in DOMAIN nodes => nodes[At(a, n)].dir
      /\ k \notin DOMAIN nodes /\ GoodEntry(a)
  BY <1>1, <1>2, Fits
<1> HIDE DEF a, k, e
<1>8. {At(a, n) : n \in 1..(Len(k) - 1)} \cup {k} = {At(a, n) : n \in 1..Len(k)}
  <2>1. \A n \in 1..Len(k) : n \in 1..(Len(k) - 1) \/ n = Len(k)
    BY <1>4
  <2>2. \A n \in 1..(Len(k) - 1) : n \in 1..Len(k)
    BY <1>4
  <2>3. Len(k) \in 1..Len(k)
    BY <1>4
  <2> QED
    BY <1>4, <2>1, <2>2, <2>3
<1>9. /\ DOMAIN nodes' = DOMAIN nodes \cup {At(a, n) : n \in 1..Len(k)}
      /\ \A p \in DOMAIN nodes : nodes'[p] = nodes[p]
  BY <1>5, <1>6, <1>8
<1>10. ASSUME NEW n \in 1..Len(k), At(a, n) \notin DOMAIN nodes PROVE nodes'[At(a, n)] = NodeOf(a, n)
  <2> DEFINE p == At(a, n)
  <2>1. p \in DOMAIN nodes' /\ Len(p) = n /\ (p = k <=> n = Len(k))
    BY <1>4, <1>9
  <2>2. nodes'[p] = [name |-> e.path[Len(p)], dir |-> p # k, size |-> IF p = k THEN e.size ELSE 0]
    BY <1>5, <1>10, <2>1
  <2>3. NodeOf(a, n) = [name |-> e.path[n], dir |-> n # Len(k), size |-> IF n = Len(k) THEN e.size ELSE 0]
    BY DEF NodeOf, e, k
  <2> HIDE DEF p
  <2>4. (p # k) = (n # Len(k))
    BY <2>1
  <2> QED
    BY <2>1, <2>2, <2>3, <2>4 DEF p
<1>11. Manifest'
  BY <1>1, <1>2 DEF Manifest
<1>12. <<>> \in DOMAIN nodes' /\ nodes'[<<>>] = Root
  BY <1>9 DEF TreeInv
<1>13. AllMade'
  <2> SUFFICES ASSUME NEW p \in DOMAIN nodes', p # <<>>
               PROVE  \E i \in 1..a : \E n \in 1..Len(K(i)) : p = At(i, n) /\ nodes'[p] = NodeOf(i, n)
    BY <1>2, <1>3 DEF AllMade, Made
  <2>1. CASE p \in DOMAIN nodes
    <3>1. PICK i \in 1..added : \E n \in 1..Len(K(i)) : p = At(i, n) /\ nodes[p] = NodeOf(i, n)
      BY <2>1 DEF TreeInv, AllMade, Made
    <3>2. i \in 1..a
      BY <1>1 DEF a
    <3> QED
      BY <1>9, <2>1, <3>1, <3>2
  <2>2. CASE p \notin DOMAIN nodes
    <3>1. PICK n \in 1..Len(k) : p = At(a, n)
      BY <1>9, <2>2
    <3>2. a \in 1..a
      BY <1>1
    <3> QED
      BY <1>10, <2>2, <3>1, <3>2 DEF k
  <2> QED
    BY <2>1, <2>2
<1>14. Placed'
  <2> SUFFICES ASSUME NEW i \in 1..a, NEW n \in 1..Len(K(i))
               PROVE  At(i, n) \in DOMAIN nodes' /\ (nodes'[At(i, n)].dir <=> n # Len(K(i)))
    BY <1>2, <1>3 DEF Placed
  <2>1. CASE i # a
    <3>1. i \in 1..added
      BY <1>1, <2>1 DEF a
    <3>2. At(i, n) \in DOMAIN nodes /\ (nodes[At(i, n)].dir <=> n # Len(K(i)))
      BY <3>1 DEF TreeInv, Placed
    <3> QED
      BY <1>9, <3>2
  <2>2. CASE i = a /\ At(a, n) \in DOMAIN nodes
    <3>1. n \in 1..Len(k) /\ n # Len(k)
      BY <1>4, <1>7, <2>2 DEF k
    <3>2. n \in 1..(Len(k) - 1)
      BY <1>4, <3>1
    <3>3. nodes[At(a, n)].dir
      BY <1>7, <2>2, <3>2
    <3> QED
      BY <1>9, <2>2, <3>1, <3>3 DEF k
  <2>3. CASE i = a /\ At(a, n) \notin DOMAIN nodes
    <3>1. n \in 1..Len(k)
      BY <2>3 DEF k
    <3>2. nodes'[At(a, n)] = NodeOf(a, n)
      BY <1>10, <2>3, <3>1
    <3>3. NodeOf(a, n).dir = (n # Len(K(a)))
      BY DEF NodeOf
    <3> QED
      BY <1>9, <2>3, <3>1, <3>2, <3>3
  <2> QED
    BY <2>1, <2>2, <2>3
<1>15. \A i \in 1..added' : GoodEntry(i)'
  <2>1. \A i \in 1..a : i \in 1..added \/ i = a
    BY <1>1 DEF a
  <2> QED
    BY <1>2, <1>3, <1>7, <2>1 DEF TreeInv
<1>16. Separate'
  <2> SUFFICES ASSUME NEW i \in 1..a, NEW j \in 1..a, i # j PROVE ~IsPrefix(K(i), K(j))
    BY <1>2, <1>3 DEF Separate
  <2>1. (i \in 1..added \/ i = a) /\ (j \in 1..added \/ j = a)
    BY <1>1 DEF a
  <2>2. ASSUME NEW l \in 1..added PROVE ~IsPrefix(K(l), K(a)) /\ ~IsPrefix(K(a), K(l))
    BY <1>1, <1>2, FitsApart DEF a, e
  <2>3. CASE i \in 1..added /\ j \in 1..added
    BY <2>3 DEF TreeInv, Separate
  <2> QED
    BY <2>1, <2>2, <2>3
<1>17. raised' = "entry" => ~Compatible'
  BY <1>2, CompatibleSame DEF TreeInv
<1> QED
  BY <1>11, <1>12, <1>13, <1>14, <1>15, <1>16, <1>17 DEF TreeInv

\* The steps that leave the tree alone.
LEMMA TreeSame ==
    ASSUME TreeInv, UNCHANGED <<totalSectors, entries, added, nodes>>,
           raised' = raised \/ raised' # "entry" \/ ~Compatible
    PROVE  TreeInv'
<1>1. /\ \A i : K(i)' = K(i) /\ GoodEntry(i)' = GoodEntry(i)
      /\ \A i, n : At(i, n)' = At(i, n) /\ NodeOf(i, n)' = NodeOf(i, n)
  BY DEF K, At, NodeOf, GoodEntry, KeyPath, Key, UpperAll
<1>2. Manifest' = Manifest
  BY DEF Manifest
<1>3. AllMade'
  BY <1>1 DEF TreeInv, AllMade, Made
<1>4. Placed' /\ Separate'
  BY <1>1 DEF TreeInv, Placed, Separate
<1>5. \A i \in 1..added' : GoodEntry(i)'
  BY <1>1 DEF TreeInv
<1>6. raised' = "entry" => ~Compatible'
  BY CompatibleSame DEF TreeInv
<1> QED
  BY <1>2, <1>3, <1>4, <1>5, <1>6 DEF TreeInv

\* Every step keeps the tree's invariant.
LEMMA TreeStep == TreeInv /\ [ImageNext]_imageVars => TreeInv'
<1> SUFFICES ASSUME TreeInv, [ImageNext]_imageVars PROVE TreeInv'
  OBVIOUS
<1>1. CASE AddEntry
  BY <1>1, AddKept
<1>2. CASE RefuseEntry
  <2>1. added < Len(entries) /\ ~EntryFits(entries[added + 1]) /\ UNCHANGED <<totalSectors, entries, added, nodes>>
    BY <1>2 DEF RefuseEntry, RejectTree
  <2>2. added + 1 \in 1..Len(entries)
    BY <2>1, ManifestSeq DEF TreeInv
  <2>3. ~Compatible
    BY <2>1, <2>2, MisfitIncompatible
  <2> QED
    BY <2>1, <2>3, TreeSame
<1>3. CASE NameNode
  BY <1>3, TreeSame DEF NameNode, vars
<1>4. CASE NoAliasLeft
  <2>1. UNCHANGED <<totalSectors, entries, added, nodes>> /\ raised' # "entry"
    BY <1>4 DEF NoAliasLeft, RejectTree
  <2> QED
    BY <2>1, TreeSame
<1>5. CASE HandOver
  BY <1>5, TreeSame DEF HandOver, BuildTree, nameVars
<1>6. CASE Layout
  <2>1. UNCHANGED nameVars /\ totalSectors' = totalSectors
    BY <1>6 DEF Layout, Probe, FinishSearch, AssignNode, FinishAssign, ChainNode, FinishChain, Ended, vars
  <2> QED
    BY <2>1, TreeSame DEF nameVars
<1>7. CASE UNCHANGED imageVars
  BY <1>7, TreeSame DEF imageVars, nameVars, vars
<1> QED
  BY <1>1, <1>2, <1>3, <1>4, <1>5, <1>6, <1>7 DEF ImageNext

\* What _build_tree keeps true from entry to entry.
THEOREM TreeInvariant == ImageSpec => []TreeInv
<1>1. ImageInit => TreeInv
  <2> SUFFICES ASSUME ImageInit PROVE TreeInv
    OBVIOUS
  <2>1. PICK job \in Jobs : totalSectors = job.sectors /\ entries = job.files
    BY DEF ImageInit
  <2>2. job \in [sectors : ImageSizes, files : Seq(Entry)]
    BY ImageAssumption
  <2>3. job = [sectors |-> totalSectors, files |-> entries] /\ entries \in Seq(Entry)
    BY <2>1, <2>2
  <2>4. Manifest
    BY <2>3 DEF Manifest, ImageInit
  <2>5. added = 0 /\ DOMAIN nodes = {<<>>} /\ nodes[<<>>] = Root /\ raised = "none"
    BY DEF ImageInit, Root
  <2> QED
    BY <2>4, <2>5 DEF TreeInv, AllMade, Placed, Separate
<1> QED
  BY <1>1, TreeStep, PTL DEF ImageSpec

\* _build_tree refuses exactly the manifests that are no file system, for every manifest,
\* although it looks at each entry only against the ones before it.
THEOREM AcceptedExactly == ImageSpec => []ManifestAcceptedExactly
<1>1. TreeInv => ManifestAcceptedExactly
  <2> SUFFICES ASSUME TreeInv, added = Len(entries) PROVE Compatible
    BY DEF TreeInv, ManifestAcceptedExactly
  <2>2. DOMAIN entries = 1..added
    BY ManifestSeq DEF TreeInv
  <2> QED
    BY <2>2 DEF TreeInv, Compatible, Separate, GoodEntry, K
<1> QED
  BY <1>1, TreeInvariant, PTL

-----------------------------------------------------------------------------
(***************************************************************************)
(* Induction and recursion over the naturals, with sets and functions: a set*)
(* that holds a number whenever it holds the smaller ones holds them all.  *)
(***************************************************************************)
\* The least-number principle for sets.
LEMMA LeastElement ==
    ASSUME NEW T, T \subseteq Nat, T # {}
    PROVE  \E x \in T : \A y \in T : x <= y
<1> DEFINE R == OpToRel(<, Nat)
<1>1. IsWellFoundedOn(R, Nat)
  BY NatLessThanWellFounded
<1>2. \A x, y \in Nat : <<y, x>> \notin R => x <= y
  BY DEF OpToRel
<1> HIDE DEF R
<1>3. \E x \in T : \A y \in T : <<y, x>> \notin R
  BY <1>1, WFMin
<1> QED
  BY <1>2, <1>3

\* Induction up to a bound: a set that holds a number whenever it holds the smaller ones.
LEMMA UpTo ==
    ASSUME NEW N \in Nat, NEW T, \A k \in 0..N : 0..(k - 1) \subseteq T => k \in T
    PROVE  0..N \subseteq T
<1> DEFINE Bad == (0..N) \ T
<1>1. SUFFICES ASSUME Bad # {} PROVE FALSE
  OBVIOUS
<1>2. PICK k \in Bad : \A j \in Bad : k <= j
  <2>1. Bad \subseteq Nat
    OBVIOUS
  <2> HIDE DEF Bad
  <2> QED
    BY <1>1, <2>1, LeastElement
<1>3. k \in 0..N /\ k \notin T
  BY <1>2
<1>4. 0..(k - 1) \subseteq T
  BY <1>2, <1>3
<1> QED
  BY <1>3, <1>4

\* f is defined by recursion on a smaller argument.
Recursive(f, N, S, a, b, h) ==
    f \in [0..N -> S] /\ f[0] = a /\ \A k \in 1..N : f[k] = h[<<k, f[b[k]]>>]

\* There is such a function.
LEMMA RecursionExists ==
    ASSUME NEW N \in Nat, NEW S, NEW a \in S, NEW b, NEW h,
           \A k \in 1..N : b[k] \in 0..(k - 1),
           \A k \in 1..N : \A x \in S : h[<<k, x>>] \in S
    PROVE  \E f : Recursive(f, N, S, a, b, h)
<1> DEFINE Upto(f, n) == f[0] = a /\ \A k \in 1..n : f[k] = h[<<k, f[b[k]]>>]
           T == {n \in 0..N : \E f \in [0..n -> S] : Upto(f, n)}
<1>1. ASSUME NEW n \in 0..N, 0..(n - 1) \subseteq T PROVE n \in T
  <2>1. CASE n = 0
    <3> DEFINE f == [k \in 0..0 |-> a]
    <3>1. f \in [0..n -> S] /\ f[0] = a /\ 1..n = {}
      BY <2>1
    <3> HIDE DEF f
    <3> QED
      BY <3>1
  <2>2. CASE n # 0
    <3>1. n - 1 \in T /\ n \in 1..N /\ n - 1 \in Nat
      BY <1>1, <2>2, SMTT(40)
    <3>2. PICK f \in [0..(n - 1) -> S] : Upto(f, n - 1)
      BY <3>1
    <3> DEFINE g == [k \in 0..n |-> IF k = n THEN h[<<n, f[b[n]]>>] ELSE f[k]]
    <3>3. b[n] \in 0..(n - 1)
      BY <3>1
    <3>4. f[b[n]] \in S
      BY <3>2, <3>3
    <3>5. h[<<n, f[b[n]]>>] \in S
      BY <3>1, <3>4
    <3>6. \A k \in 0..n : k # n => k \in 0..(n - 1)
      BY <3>1
    <3>7. g \in [0..n -> S]
      BY <3>2, <3>5, <3>6
    <3>8. g[0] = a /\ g[n] = h[<<n, f[b[n]]>>] /\ \A k \in 0..(n - 1) : g[k] = f[k]
      BY <3>1, <3>2
    <3> HIDE DEF g
    <3>9. \A k \in 1..n : g[k] = h[<<k, g[b[k]]>>]
      <4> SUFFICES ASSUME NEW k \in 1..n PROVE g[k] = h[<<k, g[b[k]]>>]
        OBVIOUS
      <4>1. k \in 1..N /\ b[k] \in 0..(k - 1)
        BY <3>1
      <4>2. b[k] \in 0..(n - 1) /\ g[b[k]] = f[b[k]]
        BY <3>1, <3>8, <4>1
      <4>3. CASE k = n
        BY <3>8, <4>2, <4>3
      <4>4. CASE k # n
        <5>1. k \in 1..(n - 1) /\ k \in 0..(n - 1)
          BY <3>1, <4>4
        <5> QED
          BY <3>2, <3>8, <4>2, <5>1
      <4> QED
        BY <4>3, <4>4
    <3> QED
      BY <3>7, <3>8, <3>9
  <2> QED
    BY <2>1, <2>2
<1>2. N \in T
  <2> HIDE DEF T
  <2>1. 0..N \subseteq T
    BY <1>1, UpTo
  <2> QED
    BY <2>1
<1> QED
  BY <1>2 DEF Recursive

\* The characters of names and of aliases.
Char == STRING \cup VALID_SHORT_CHARS \cup {"0", "1", "2", "3", "4", "5", "6", "7", "8", "9"}

\* A capital is a character.
LEMMA UpperChar == ASSUME NEW c \in STRING PROVE Upper(c) \in Char
  BY DEF Upper, Char, VALID_SHORT_CHARS

\* A sequence of one.
LEMMA One == ASSUME NEW S, NEW x \in S PROVE <<x>> \in Seq(S)
  OBVIOUS

\* What a character becomes in a short name.
LEMMA SanitizedSeq == ASSUME NEW c \in STRING
    PROVE /\ Sanitized(c) \in Seq(Char)
          /\ Upper(c) \in VALID_SHORT_CHARS => Sanitized(c) = <<Upper(c)>>
<1>1. Upper(c) \in Char /\ "_" \in Char
  BY UpperChar DEF Char, VALID_SHORT_CHARS
<1>2. <<Upper(c)>> \in Seq(Char) /\ <<"_">> \in Seq(Char)
  BY <1>1, One
<1>3. <<>> \in Seq(Char)
  OBVIOUS
<1>4. CASE Upper(c) \in VALID_SHORT_CHARS
  <2>1. Sanitized(c) = <<Upper(c)>>
    <3>1. ~(c \in {" ", "."})
      BY <1>4 DEF Upper, VALID_SHORT_CHARS
    <3> QED
      BY <1>4, <3>1 DEF Sanitized
  <2> QED
    BY <1>2, <2>1
<1>5. CASE Upper(c) \notin VALID_SHORT_CHARS
  <2>1. Sanitized(c) = <<>> \/ Sanitized(c) = <<"_">>
    BY <1>5 DEF Sanitized
  <2> QED
    BY <1>2, <1>3, <1>5, <2>1
<1> QED
  BY <1>4, <1>5

\* The loop of _sanitize_short_part, character by character.
LEMMA SanitizeLoop ==
    ASSUME NEW part \in Seq(STRING)
    PROVE  \E f \in [0..Len(part) -> Seq(Char)] :
               /\ f[0] = <<>> /\ Sanitize(part) = f[Len(part)]
               /\ \A n \in 1..Len(part) : f[n] = f[n - 1] \o Sanitized(part[n])
<1> DEFINE l == Len(part)
           h == [z \in (1..l) \X Seq(Char) |-> z[2] \o Sanitized(part[z[1]])]
           b == [n \in 1..l |-> n - 1]
           result[n \in 0..Len(part)] == IF n = 0 THEN <<>> ELSE result[n - 1] \o Sanitized(part[n])
<1>1. l \in Nat /\ \A n \in 1..l : part[n] \in STRING
  OBVIOUS
<1>2. \A n \in 1..l : \A x \in Seq(Char) : h[<<n, x>>] = x \o Sanitized(part[n]) /\ h[<<n, x>>] \in Seq(Char)
  <2> SUFFICES ASSUME NEW n \in 1..l, NEW x \in Seq(Char)
               PROVE  h[<<n, x>>] = x \o Sanitized(part[n]) /\ h[<<n, x>>] \in Seq(Char)
    OBVIOUS
  <2>1. Sanitized(part[n]) \in Seq(Char)
    BY <1>1, SanitizedSeq
  <2>2. h[<<n, x>>] = x \o Sanitized(part[n])
    OBVIOUS
  <2> HIDE DEF h
  <2> QED
    BY <2>1, <2>2
<1>3. Sanitize(part) = result[Len(part)]
  BY DEF Sanitize
<1> HIDE DEF h, result
<1>4. PICK f \in [0..l -> Seq(Char)] : f[0] = <<>> /\ \A n \in 1..l : f[n] = h[<<n, f[b[n]]>>]
  <2>1. \A n \in 1..l : b[n] \in 0..(n - 1)
    BY <1>1
  <2>2. <<>> \in Seq(Char)
    OBVIOUS
  <2> DEFINE S == Seq(Char)
             e == <<>>
  <2>3. e \in S /\ \A n \in 1..l : \A x \in S : h[<<n, x>>] \in S
    BY <1>2, <2>2
  <2> HIDE DEF b, l, S, e
  <2>4. \E f : Recursive(f, l, S, e, b, h)
    BY <1>1, <2>1, <2>3, RecursionExists
  <2> QED
    BY <2>4 DEF Recursive, S, e
<1>5. \A n \in 1..l : f[n] = f[n - 1] \o Sanitized(part[n])
  <2> SUFFICES ASSUME NEW n \in 1..l PROVE f[n] = f[n - 1] \o Sanitized(part[n])
    OBVIOUS
  <2>1. b[n] = n - 1 /\ f[n - 1] \in Seq(Char)
    BY <1>1, <1>4, SMTT(40)
  <2> QED
    BY <1>2, <1>4, <2>1
<1>6. f = [n \in 0..Len(part) |-> IF n = 0 THEN <<>> ELSE f[n - 1] \o Sanitized(part[n])]
  <2>1. \A n \in 0..l : n # 0 => n \in 1..l
    BY <1>1
  <2>2. \A n \in 0..l : f[n] = IF n = 0 THEN <<>> ELSE f[n - 1] \o Sanitized(part[n])
    BY <1>4, <1>5, <2>1
  <2>3. f = [n \in 0..l |-> f[n]]
    BY <1>4
  <2> QED
    BY <2>2, <2>3
<1>7. result = [n \in 0..Len(part) |-> IF n = 0 THEN <<>> ELSE result[n - 1] \o Sanitized(part[n])]
  BY <1>6 DEF result
<1>8. result[l] = f[l]
  <2> DEFINE T == {n \in 0..l : result[n] = f[n]}
  <2>1. ASSUME NEW n \in 0..l, 0..(n - 1) \subseteq T PROVE n \in T
    <3>1. CASE n = 0
      BY <1>4, <1>7, <3>1
    <3>2. CASE n # 0
      <4>1. n \in 1..l /\ n - 1 \in 0..(n - 1) /\ n \in 0..Len(part)
        BY <1>1, <3>2
      <4>2. result[n - 1] = f[n - 1]
        BY <2>1, <4>1
      <4> QED
        BY <1>5, <1>7, <3>2, <4>1, <4>2
    <3> QED
      BY <3>1, <3>2
  <2>2. 0..l \subseteq T
    <3> HIDE DEF T, l
    <3> QED
      BY <1>1, <2>1, UpTo
  <2> QED
    BY <1>1, <2>2
<1> QED
  BY <1>3, <1>4, <1>5, <1>8

\* A part of legal characters becomes its capitals.
LEMMA SanitizeLegal ==
    ASSUME NEW part \in Seq(STRING), \A i \in 1..Len(part) : Upper(part[i]) \in VALID_SHORT_CHARS
    PROVE  Sanitize(part) = UpperAll(part) /\ UpperAll(part) \in Seq(Char) /\ Len(UpperAll(part)) = Len(part)
<1> DEFINE l == Len(part)
           u == UpperAll(part)
<1>0. l \in Nat /\ \A n \in 1..l : part[n] \in STRING
  OBVIOUS
<1>1. l \in Nat /\ \A n \in 1..l : part[n] \in STRING /\ Upper(part[n]) \in Char
  BY <1>0, UpperChar
<1>2. u \in Seq(Char) /\ Len(u) = l /\ \A n \in 1..l : u[n] = Upper(part[n])
  <2>1. u \in [1..l -> Char] /\ \A n \in 1..l : u[n] = Upper(part[n])
    BY <1>1 DEF UpperAll
  <2> QED
    BY <1>1, <2>1
<1>3. PICK f \in [0..Len(part) -> Seq(Char)] :
               /\ f[0] = <<>> /\ Sanitize(part) = f[Len(part)]
               /\ \A n \in 1..Len(part) : f[n] = f[n - 1] \o Sanitized(part[n])
  BY SanitizeLoop
<1>4. \A n \in 1..l : Sanitized(part[n]) = <<u[n]>> /\ u[n] \in Char
  BY <1>1, <1>2, SanitizedSeq
<1> HIDE DEF l, u
<1> DEFINE T == {n \in 0..l : Len(f[n]) = n /\ \A i \in 1..n : f[n][i] = u[i]}
<1>5. ASSUME NEW n \in 0..l, 0..(n - 1) \subseteq T PROVE n \in T
  <2>1. CASE n = 0
    BY <1>3, <2>1 DEF l
  <2>2. CASE n # 0
    <3> DEFINE g == f[n - 1]
               x == u[n]
    <3>1. n \in 1..l /\ n - 1 \in 0..(n - 1) /\ n - 1 \in 0..l /\ n - 1 \in Nat
      BY <1>1, <2>2
    <3>2. Len(g) = n - 1 /\ \A i \in 1..(n - 1) : g[i] = u[i]
      BY <1>5, <3>1
    <3>3. g \in Seq(Char) /\ x \in Char /\ f[n] = g \o <<x>>
      BY <1>3, <1>4, <3>1 DEF l
    <3> HIDE DEF g
    <3>4. Len(f[n]) = n /\ f[n][n] = x /\ \A i \in 1..(n - 1) : f[n][i] = g[i]
      <4> HIDE DEF x
      <4>1. Len(<<x>>) = 1 /\ <<x>>[1] = x /\ <<x>> \in Seq(Char)
        BY <3>3
      <4>2. Len(f[n]) = n
        BY <3>1, <3>2, <3>3, <4>1
      <4>3. f[n][n] = x
        <5> DEFINE t == <<x>>
                   m == Len(g)
        <5>1. t \in Seq(Char) /\ Len(t) = 1 /\ t[1] = x /\ f[n] = g \o t /\ n = m + 1 /\ m \in Nat
          BY <3>1, <3>2, <3>3, <4>1
        <5> HIDE DEF t
        <5>2. (g \o t)[m + 1] = t[m + 1 - m]
          BY <3>3, <5>1
        <5> HIDE DEF m
        <5>3. m + 1 - m = 1
          BY <5>1
        <5> QED
          BY <5>1, <5>2, <5>3
      <4> QED
        BY <3>1, <3>2, <3>3, <4>1, <4>2, <4>3
    <3>5. \A i \in 1..n : i = n \/ i \in 1..(n - 1)
      BY <3>1
    <3> QED
      BY <3>2, <3>4, <3>5
  <2> QED
    BY <2>1, <2>2
<1>6. l \in T
  <2> HIDE DEF T
  <2>1. 0..l \subseteq T
    BY <1>1, <1>5, UpTo
  <2> QED
    BY <1>1, <2>1
<1> DEFINE r == f[l]
<1>7. r \in Seq(Char) /\ Len(r) = l /\ \A i \in 1..l : r[i] = u[i]
  BY <1>1, <1>3, <1>6 DEF l
<1> HIDE DEF r
<1>8. r = u
  BY <1>1, <1>2, <1>7
<1> QED
  BY <1>2, <1>3, <1>8 DEF r, l, u

\* The digits of a number, at least one.
LEMMA SuffixTypes ==
    ASSUME NEW number \in 1..MaxSuffix
    PROVE  Suffix(number) \in Seq(Char) /\ Len(Suffix(number)) \in Nat \ {0} /\ Suffix(number)[1] = "~"
<1> DEFINE digit == <<"0", "1", "2", "3", "4", "5", "6", "7", "8", "9">>
           digits[k \in 0..MaxSuffix] ==
               (IF k < Radix THEN <<>> ELSE digits[k \div Radix]) \o <<digit[(k % Radix) + 1]>>
           D(k) == <<digit[(k % Radix) + 1]>>
           h == [z \in (1..MaxSuffix) \X Seq(Char) |-> (IF z[1] < Radix THEN <<>> ELSE z[2]) \o D(z[1])]
           b == [k \in 1..MaxSuffix |-> IF k < Radix THEN 0 ELSE k \div Radix]
           start == <<>> \o D(0)
<1>1. MaxSuffix \in Nat /\ Radix \in 2..10
  BY ImageAssumption
<1>2. Suffix(number) = <<"~">> \o digits[number]
  BY DEF Suffix
<1>3. \A j \in 1..10 : digit[j] \in Char
  BY DEF Char
<1>4. \A k \in 0..MaxSuffix : D(k) \in Seq(Char)
  <2> SUFFICES ASSUME NEW k \in 0..MaxSuffix PROVE D(k) \in Seq(Char)
    OBVIOUS
  <2>1. (k % Radix) + 1 \in 1..10
    BY <1>1
  <2>2. digit[(k % Radix) + 1] \in Char
    BY <1>3, <2>1
  <2> HIDE DEF digit
  <2> QED
    BY <2>2, One
<1> HIDE DEF D
<1>5. <<>> \in Seq(Char) /\ start \in Seq(Char)
  BY <1>1, <1>4
<1>6. \A k \in 1..MaxSuffix : \A x \in Seq(Char) :
          h[<<k, x>>] = (IF k < Radix THEN <<>> ELSE x) \o D(k) /\ h[<<k, x>>] \in Seq(Char)
  <2> SUFFICES ASSUME NEW k \in 1..MaxSuffix, NEW x \in Seq(Char)
               PROVE  h[<<k, x>>] = (IF k < Radix THEN <<>> ELSE x) \o D(k) /\ h[<<k, x>>] \in Seq(Char)
    OBVIOUS
  <2>1. h[<<k, x>>] = (IF k < Radix THEN <<>> ELSE x) \o D(k)
    OBVIOUS
  <2> DEFINE y == IF k < Radix THEN <<>> ELSE x
  <2>2. y \in Seq(Char) /\ D(k) \in Seq(Char)
    BY <1>4, <1>5
  <2> HIDE DEF h, y
  <2>3. y \o D(k) \in Seq(Char)
    BY <2>2
  <2> QED
    BY <2>1, <2>3 DEF y
<1>7. \A k \in 1..MaxSuffix : b[k] \in 0..(k - 1)
  <2> SUFFICES ASSUME NEW k \in 1..MaxSuffix PROVE b[k] \in 0..(k - 1)
    OBVIOUS
  <2>1. k \in Nat \ {0}
    BY <1>1
  <2>2. k \div Radix \in 0..(k - 1)
    BY <1>1, <2>1
  <2> QED
    BY <1>1, <2>1, <2>2
<1>8. PICK f \in [0..MaxSuffix -> Seq(Char)] : f[0] = start /\ \A k \in 1..MaxSuffix : f[k] = h[<<k, f[b[k]]>>]
  <2> DEFINE S == Seq(Char)
  <2>1. start \in S /\ \A k \in 1..MaxSuffix : \A x \in S : h[<<k, x>>] \in S
    BY <1>5, <1>6
  <2> HIDE DEF S, h, b, start
  <2>2. \E f : Recursive(f, MaxSuffix, S, start, b, h)
    BY <1>1, <1>7, <2>1, RecursionExists
  <2> QED
    BY <2>2 DEF Recursive, S
<1>9. \A k \in 1..MaxSuffix : f[k] = (IF k < Radix THEN <<>> ELSE f[k \div Radix]) \o D(k)
  <2> SUFFICES ASSUME NEW k \in 1..MaxSuffix
               PROVE  f[k] = (IF k < Radix THEN <<>> ELSE f[k \div Radix]) \o D(k)
    OBVIOUS
  <2>1. b[k] \in 0..(k - 1)
    BY <1>7
  <2>5. ~(k < Radix) => b[k] = k \div Radix
    OBVIOUS
  <2>2. b[k] \in 0..MaxSuffix
    BY <1>1, <2>1
  <2>3. f[b[k]] \in Seq(Char)
    BY <1>8, <2>2
  <2> HIDE DEF h, b
  <2>4. f[k] = (IF k < Radix THEN <<>> ELSE f[b[k]]) \o D(k)
    BY <1>6, <1>8, <2>3
  <2> QED
    BY <2>5, <2>4
<1>10. f = [k \in 0..MaxSuffix |-> (IF k < Radix THEN <<>> ELSE f[k \div Radix]) \o D(k)]
  <2> HIDE DEF h, b
  <2>1. \A k \in 0..MaxSuffix : k = 0 \/ k \in 1..MaxSuffix
    BY <1>1
  <2>2. 0 < Radix
    BY <1>1
  <2>3. \A k \in 0..MaxSuffix : f[k] = (IF k < Radix THEN <<>> ELSE f[k \div Radix]) \o D(k)
    BY <1>8, <1>9, <2>1, <2>2, SMTT(40)
  <2>4. f = [k \in 0..MaxSuffix |-> f[k]]
    BY <1>8
  <2> QED
    BY <2>3, <2>4
<1>11. digits = [k \in 0..MaxSuffix |-> (IF k < Radix THEN <<>> ELSE digits[k \div Radix]) \o D(k)]
  <2> HIDE DEF digit, h, b
  <2> QED
    BY <1>10 DEF D
<1> HIDE DEF digits, digit, h, b, start
<1>12. digits[number] \in Seq(Char)
  <2> DEFINE T == {k \in 0..MaxSuffix : digits[k] \in Seq(Char)}
  <2>1. ASSUME NEW k \in 0..MaxSuffix, 0..(k - 1) \subseteq T PROVE k \in T
    <3>1. digits[k] = (IF k < Radix THEN <<>> ELSE digits[k \div Radix]) \o D(k)
      BY <1>11
    <3>2. k >= Radix => digits[k \div Radix] \in Seq(Char)
      <4> SUFFICES ASSUME k >= Radix PROVE digits[k \div Radix] \in Seq(Char)
        OBVIOUS
      <4>1. k \div Radix \in 0..(k - 1)
        BY <1>1
      <4> QED
        BY <2>1, <4>1
    <3> DEFINE y == IF k < Radix THEN <<>> ELSE digits[k \div Radix]
    <3>3. y \in Seq(Char) /\ D(k) \in Seq(Char)
      BY <1>1, <1>4, <1>5, <3>2
    <3> HIDE DEF y
    <3>4. y \o D(k) \in Seq(Char)
      BY <3>3
    <3> QED
      BY <3>1, <3>4 DEF y
  <2>2. 0..MaxSuffix \subseteq T
    <3> HIDE DEF T
    <3> QED
      BY <1>1, <2>1, UpTo
  <2> QED
    BY <1>1, <2>2
<1> DEFINE d == digits[number]
<1> HIDE DEF d
<1>13. "~" \in Char
  BY DEF Char, VALID_SHORT_CHARS
<1>14. /\ <<"~">> \o d \in Seq(Char) /\ Len(<<"~">> \o d) \in Nat \ {0} /\ (<<"~">> \o d)[1] = "~"
  <2> DEFINE t == "~"
  <2>1. t \in Char /\ d \in Seq(Char)
    BY <1>12, <1>13 DEF d
  <2> HIDE DEF t
  <2>2. <<t>> \in Seq(Char) /\ Len(<<t>>) = 1 /\ <<t>>[1] = t
    BY <2>1
  <2>3. <<t>> \o d \in Seq(Char) /\ Len(<<t>> \o d) = 1 + Len(d) /\ Len(d) \in Nat
    BY <2>1, <2>2
  <2>4. (<<t>> \o d)[1] = t
    BY <2>1, <2>2, <2>3
  <2> QED
    BY <2>3, <2>4 DEF t
<1> QED
  BY <1>2, <1>14 DEF d

\* The first characters of a part.
LEMMA TakeTypes ==
    ASSUME NEW S, NEW s \in Seq(S), NEW n \in Int
    PROVE  /\ Take(s, n) \in Seq(S)
           /\ Len(Take(s, n)) \in Nat /\ (n >= 0 => Len(Take(s, n)) <= n) /\ (n < 0 => Len(Take(s, n)) = 0)
           /\ \A i \in 1..Len(s) : i <= n => i \in 1..Len(Take(s, n)) /\ Take(s, n)[i] = s[i]
           /\ Len(s) <= n => Take(s, n) = s
<1> DEFINE l == Len(s)
           m == IF l < n THEN l ELSE n
           t == SubSeq(s, 1, m)
<1>1. l \in Nat /\ m \in Int /\ m <= l /\ m <= n /\ Take(s, n) = t
  BY DEF Take
<1>2. t \in Seq(S) /\ Len(t) = (IF 1 <= m THEN m ELSE 0)
  BY <1>1
<1>3. \A i \in 1..m : t[i] = s[i]
  BY <1>1
<1>4. l <= n => m = l
  BY <1>1
<1>5. SubSeq(s, 1, l) = s
  OBVIOUS
<1>6. \A i \in 1..l : i <= n => i \in 1..m
  BY <1>1
<1> HIDE DEF l, m, t
<1>7. Len(t) \in Nat /\ (n >= 0 => Len(t) <= n) /\ (n < 0 => Len(t) = 0)
  BY <1>1, <1>2
<1>8. \A i \in 1..m : i \in 1..Len(t)
  BY <1>1, <1>2
<1>9. l <= n => t = s
  BY <1>4, <1>5 DEF t
<1> QED
  BY <1>1, <1>2, <1>3, <1>6, <1>7, <1>8, <1>9 DEF l

\* A name of the catalogue, and its key.
LEMMA NameTypes ==
    ASSUME NEW name \in DOMAIN Catalogue
    PROVE  /\ Catalogue[name].base \in Seq(STRING) /\ Catalogue[name].ext \in Seq(STRING)
           /\ Key(name).base = UpperAll(Catalogue[name].base) /\ Key(name).ext = UpperAll(Catalogue[name].ext)
           /\ name \in Nat
<1>1. Catalogue \in Seq(Name)
  BY ImageAssumption
<1>2. Catalogue[name] \in Name /\ name \in Nat
  BY <1>1
<1> QED
  BY <1>2 DEF Name, Key

\* A name whose 8.3 form is itself keeps its key.
LEMMA DirectIsKey ==
    ASSUME NEW name \in DOMAIN Catalogue, NEW used, DirectlyRepresentable(Catalogue[name], used)
    PROVE  Direct(Catalogue[name]) = Key(name)
<1> DEFINE n == Catalogue[name]
           s == n.base
           t == n.ext
<1>1. s \in Seq(STRING) /\ t \in Seq(STRING) /\ Width \in Int /\ ExtWidth \in Int
  BY NameTypes, ImageAssumption
<1>2. /\ Len(s) <= Width /\ Len(t) <= ExtWidth
      /\ \A i \in DOMAIN (s \o t) : Upper((s \o t)[i]) \in VALID_SHORT_CHARS
  BY DEF DirectlyRepresentable
<1>3. Direct(n) = [base |-> Take(Sanitize(s), Width), ext |-> Take(Sanitize(t), ExtWidth)]
  BY DEF Direct, ShortName
<1>4. Key(name) = [base |-> UpperAll(s), ext |-> UpperAll(t)]
  BY DEF Key
<1> HIDE DEF n, s, t
<1> DEFINE ls == Len(s)
           lt == Len(t)
<1>5. ls \in Nat /\ lt \in Nat /\ DOMAIN (s \o t) = 1..(ls + lt)
  BY <1>1
<1>6. \A i \in 1..ls : Upper(s[i]) \in VALID_SHORT_CHARS
  <2> SUFFICES ASSUME NEW i \in 1..ls PROVE Upper(s[i]) \in VALID_SHORT_CHARS
    OBVIOUS
  <2>1. i \in DOMAIN (s \o t)
    BY <1>5
  <2>2. (s \o t)[i] = s[i]
    BY <1>1
  <2> QED
    BY <1>2, <2>1, <2>2
<1>7. \A i \in 1..lt : Upper(t[i]) \in VALID_SHORT_CHARS
  <2> SUFFICES ASSUME NEW i \in 1..lt PROVE Upper(t[i]) \in VALID_SHORT_CHARS
    OBVIOUS
  <2> DEFINE j == ls + i
  <2>1. j \in DOMAIN (s \o t) /\ j > ls /\ j - ls = i
    <3> HIDE DEF ls, lt
    <3> QED
      BY <1>5
  <2>2. (s \o t)[j] = t[j - ls]
    <3> HIDE DEF j
    <3> QED
      BY <1>1, <1>5, <2>1
  <2> QED
    BY <1>2, <2>1, <2>2
<1>8. Sanitize(s) = UpperAll(s) /\ UpperAll(s) \in Seq(Char) /\ Len(UpperAll(s)) = Len(s)
  BY <1>1, <1>6, SanitizeLegal
<1>9. Sanitize(t) = UpperAll(t) /\ UpperAll(t) \in Seq(Char) /\ Len(UpperAll(t)) = Len(t)
  BY <1>1, <1>7, SanitizeLegal
<1>10. Take(UpperAll(s), Width) = UpperAll(s) /\ Take(UpperAll(t), ExtWidth) = UpperAll(t)
  BY <1>1, <1>2, <1>8, <1>9, TakeTypes
<1> QED
  BY <1>3, <1>4, <1>8, <1>9, <1>10 DEF n

\* An alias has a tilde.
LEMMA AliasHasTilde ==
    ASSUME NEW name \in DOMAIN Catalogue, NEW number \in 1..MaxSuffix
    PROVE  Contains(Candidate(Catalogue[name], number).base, "~")
<1> DEFINE n == Catalogue[name]
           clean == Sanitize(n.base)
           stem == IF clean = <<>> THEN <<"_">> ELSE clean
           x == Suffix(number)
           u == Take(stem, Width - Len(x))
           base == Take(u \o x, Width)
<1>1. n.base \in Seq(STRING) /\ Width \in Nat \ {0}
  BY NameTypes, ImageAssumption
<1>2. clean \in Seq(Char)
  <2>1. PICK f \in [0..Len(n.base) -> Seq(Char)] : clean = f[Len(n.base)]
    BY <1>1, SanitizeLoop
  <2>2. Len(n.base) \in 0..Len(n.base)
    BY <1>1
  <2> QED
    BY <2>1, <2>2
<1>3. stem \in Seq(Char)
  <2>1. "_" \in Char
    BY DEF Char, VALID_SHORT_CHARS
  <2>2. <<"_">> \in Seq(Char)
    BY <2>1, One
  <2> QED
    BY <1>2, <2>2
<1>4. x \in Seq(Char) /\ Len(x) \in Nat \ {0} /\ x[1] = "~"
  BY SuffixTypes
<1>5. Candidate(n, number).base = base
  BY DEF Candidate, ShortName
<1> HIDE DEF n, clean, stem, x
<1> DEFINE w == Width - Len(x)
<1>6. w \in Int /\ w < Width
  BY <1>1, <1>4
<1>7. u \in Seq(Char) /\ Len(u) \in Nat /\ Len(u) < Width
  <2>1. /\ u \in Seq(Char) /\ Len(u) \in Nat /\ (w >= 0 => Len(u) <= w) /\ (w < 0 => Len(u) = 0)
    BY <1>3, <1>6, TakeTypes
  <2> HIDE DEF u, w
  <2> QED
    BY <1>1, <1>6, <2>1
<1> HIDE DEF u, w
<1> DEFINE i == Len(u) + 1
           v == u \o x
<1>8. v \in Seq(Char) /\ i \in 1..Len(v) /\ v[i] = "~" /\ i <= Width
  <2> DEFINE m == Len(u)
  <2>1. v \in Seq(Char) /\ Len(v) = m + Len(x)
    BY <1>4, <1>7
  <2>2. v[m + 1] = x[m + 1 - m]
    BY <1>4, <1>7, <2>1
  <2> HIDE DEF m, v
  <2>3. m + 1 - m = 1 /\ m + 1 \in 1..Len(v) /\ m + 1 <= Width
    BY <1>1, <1>4, <1>7, <2>1 DEF m
  <2> QED
    BY <1>4, <2>1, <2>2, <2>3 DEF m
<1> HIDE DEF i, v
<1>9. i \in 1..Len(Take(v, Width)) /\ Take(v, Width)[i] = v[i]
  BY <1>1, <1>8, TakeTypes
<1>10. Contains(base, "~")
  BY <1>8, <1>9 DEF Contains, v
<1> QED
  BY <1>5, <1>10 DEF n

\* Capitals do not make a tilde.
LEMMA TildeIsOwn ==
    ASSUME NEW name \in DOMAIN Catalogue, Contains(Key(name).base, "~")
    PROVE  LooksLikeAlias(name)
<1> DEFINE s == Catalogue[name].base
<1>1. s \in Seq(STRING) /\ Key(name).base = UpperAll(s)
  BY NameTypes
<1>2. \A c : Upper(c) = "~" => c = "~"
  BY DEF Upper
<1>3. UpperAll(s) \in Seq({Upper(c) : c \in STRING}) /\ Len(UpperAll(s)) = Len(s) /\ \A i \in 1..Len(s) : UpperAll(s)[i] = Upper(s[i])
  <2> HIDE DEF s
  <2>1. UpperAll(s) \in [1..Len(s) -> {Upper(c) : c \in STRING}]
    BY <1>1 DEF UpperAll
  <2>2. \A i \in 1..Len(s) : UpperAll(s)[i] = Upper(s[i])
    BY <1>1 DEF UpperAll
  <2>3. Len(s) \in Nat
    BY <1>1
  <2> DEFINE S == {Upper(c) : c \in STRING}
             t == UpperAll(s)
  <2> HIDE DEF S, t
  <2>4. t \in Seq(S) /\ Len(t) = Len(s)
    BY <2>1, <2>3 DEF S, t
  <2> QED
    BY <2>2, <2>4 DEF S, t
<1>4. PICK i \in 1..Len(s) : Upper(s[i]) = "~"
  BY <1>1, <1>3 DEF Contains
<1> QED
  BY <1>2, <1>4 DEF LooksLikeAlias, Contains

-----------------------------------------------------------------------------
(***************************************************************************)
(* _assign_short_names, and what a driver finds.                           *)
(***************************************************************************)
\* The names given so far: each is the node's own or an alias, and no two nodes of a
\* directory have the same.
Named ==
    /\ DOMAIN short \subseteq DOMAIN nodes \ {<<>>}
    /\ DOMAIN short # {} => added = Len(entries)
    /\ pc \in {"assign", "chain", "written"} => AllNamed /\ added = Len(entries)
Forms == \A p \in DOMAIN short : short[p] = Key(nodes[p].name) \/ Contains(short[p].base, "~")
Distinct == \A p, q \in DOMAIN short : p # q /\ Front(p) = Front(q) => short[p] # short[q]
NameInv == Named /\ Forms /\ Distinct /\ raised \in {"none", "entry", "alias"}

\* All but the last of a sequence.
LEMMA FrontTypes ==
    ASSUME NEW S, NEW s \in Seq(S), Len(s) # 0
    PROVE  /\ Front(s) \in Seq(S) /\ Len(Front(s)) = Len(s) - 1
           /\ \A i \in 1..(Len(s) - 1) : Front(s)[i] = s[i]
<1> DEFINE m == Len(s) - 1
<1>1. m \in 0..Len(s)
  OBVIOUS
<1>2. Front(s) = SubSeq(s, 1, m)
  BY DEF Front
<1> HIDE DEF m
<1>3. SubSeq(s, 1, m) \in Seq(S) /\ Len(SubSeq(s, 1, m)) = m /\ \A i \in 1..m : SubSeq(s, 1, m)[i] = s[i]
  BY <1>1
<1> QED
  BY <1>2, <1>3 DEF m

\* A node below the root.
LEMMA NodeFacts ==
    ASSUME TreeInv, NEW p \in DOMAIN nodes, p # <<>>
    PROVE  /\ p \in Seq(Keys) /\ Len(p) \in Nat \ {0}
           /\ nodes[p].name \in DOMAIN Catalogue /\ p[Len(p)] = Key(nodes[p].name)
           /\ \E i \in 1..Len(entries) : \E n \in DOMAIN entries[i].path : nodes[p].name = entries[i].path[n]
           /\ Front(p) \in Dirs
           /\ nodes[p].dir \in BOOLEAN /\ nodes[p].size \in Nat
<1>1. Manifest /\ 1..added \subseteq 1..Len(entries)
  BY DEF TreeInv, Manifest
<1>2. PICK i \in 1..added : \E n \in 1..Len(K(i)) : p = At(i, n) /\ nodes[p] = NodeOf(i, n)
  BY DEF TreeInv, AllMade, Made
<1>3. PICK n \in 1..Len(K(i)) : p = At(i, n) /\ nodes[p] = NodeOf(i, n)
  BY <1>2
<1> DEFINE path == entries[i].path
           k == K(i)
           l == Len(k)
<1>4. /\ path \in Seq(DOMAIN Catalogue) /\ k \in Seq(Keys) /\ l = Len(path) /\ l \in Nat \ {0}
      /\ entries[i].size \in Nat /\ p \in Seq(Keys) /\ Len(p) = n
  BY <1>1, <1>3, Levels, SMTT(40)
<1>5. nodes[p].name = path[n] /\ nodes[p].dir = (n # l) /\ nodes[p].size = IF n = l THEN entries[i].size ELSE 0
  BY <1>3 DEF NodeOf
<1>6. n \in DOMAIN path /\ path[n] \in DOMAIN Catalogue /\ n \in Nat \ {0}
  BY <1>4
<1>7. p[n] = Key(path[n])
  <2>1. k[n] = Key(path[n])
    BY <1>4, KeyPathTypes DEF K
  <2>2. p = SubSeq(k, 1, n)
    BY <1>3 DEF At
  <2> HIDE DEF k, path
  <2> QED
    BY <1>4, <1>6, <2>1, <2>2
<1>8. Front(p) \in Dirs
  <2>1. Front(p) = SubSeq(k, 1, n - 1)
    <3>1. p = SubSeq(k, 1, n) /\ Front(p) = SubSeq(p, 1, n - 1)
      BY <1>3, <1>4 DEF At, Front
    <3> HIDE DEF k
    <3> DEFINE a == SubSeq(p, 1, n - 1)
               b == SubSeq(k, 1, n - 1)
    <3>2. /\ a \in Seq(Keys) /\ Len(a) = n - 1 /\ \A j \in 1..(n - 1) : a[j] = p[j]
      BY <1>4, <1>6
    <3>3. /\ b \in Seq(Keys) /\ Len(b) = n - 1 /\ \A j \in 1..(n - 1) : b[j] = k[j]
      BY <1>4, <1>6
    <3>4. \A j \in 1..(n - 1) : p[j] = k[j]
      BY <1>4, <1>6, <3>1
    <3> HIDE DEF a, b
    <3>5. a = b
      BY <1>6, <3>2, <3>3, <3>4
    <3> QED
      BY <3>1, <3>5 DEF a, b
  <2>2. CASE n = 1
    <3>1. SubSeq(k, 1, 0) = <<>>
      BY <1>4
    <3>2. <<>> \in DOMAIN nodes /\ nodes[<<>>].dir
      BY DEF TreeInv, Root
    <3>3. Front(p) = <<>>
      <4>1. n - 1 = 0
        BY <2>2
      <4> QED
        BY <2>1, <3>1, <4>1
    <3> QED
      BY <3>2, <3>3 DEF Dirs
  <2>3. CASE n # 1
    <3>1. n - 1 \in 1..l /\ n - 1 # l
      BY <1>4, <1>6, <2>3
    <3>2. At(i, n - 1) \in DOMAIN nodes /\ nodes[At(i, n - 1)].dir
      BY <3>1 DEF TreeInv, Placed
    <3> QED
      BY <2>1, <3>2 DEF Dirs, At
  <2> QED
    BY <2>2, <2>3
<1>9. nodes[p].dir \in BOOLEAN /\ nodes[p].size \in Nat
  BY <1>4, <1>5
<1> QED
  BY <1>1, <1>4, <1>5, <1>6, <1>7, <1>8, <1>9

\* Two nodes of a directory with the same key are one.
LEMMA OneByKey ==
    ASSUME TreeInv, NEW p \in DOMAIN nodes, NEW q \in DOMAIN nodes, p # <<>>, q # <<>>,
           Front(p) = Front(q), Key(nodes[p].name) = Key(nodes[q].name)
    PROVE  p = q
<1> DEFINE m == Len(p)
           n == Len(q)
<1>1. /\ p \in Seq(Keys) /\ m \in Nat \ {0} /\ q \in Seq(Keys) /\ n \in Nat \ {0} /\ p[m] = q[n]
  BY NodeFacts
<1>2. Len(Front(p)) = m - 1 /\ \A i \in 1..(m - 1) : Front(p)[i] = p[i]
  BY <1>1, FrontTypes
<1>3. Len(Front(q)) = n - 1 /\ \A i \in 1..(n - 1) : Front(q)[i] = q[i]
  BY <1>1, FrontTypes
<1>4. m = n
  <2> HIDE DEF m, n
  <2> QED
    BY <1>1, <1>2, <1>3
<1>5. \A i \in 1..m : i = m \/ i \in 1..(m - 1)
  BY <1>1
<1>6. \A i \in 1..m : p[i] = q[i]
  BY <1>1, <1>2, <1>3, <1>4, <1>5
<1> QED
  BY <1>1, <1>4, <1>6

\* The name a node gets is its own or an alias, and no other node of the directory has it.
LEMMA NewNameFacts ==
    ASSUME TreeInv, NameInv, NEW p, Nameable(p), NEW name \in NewName(p)
    PROVE  /\ name = Key(nodes[p].name) \/ Contains(name.base, "~")
           /\ \A q \in DOMAIN short : Front(q) = Front(p) => short[q] # name
<1> DEFINE n == Catalogue[nodes[p].name]
           used == {short[q] : q \in DOMAIN short \cap ChildrenOf(Front(p))}
<1>1. p \in DOMAIN nodes /\ p # <<>>
  BY DEF Nameable
<1>2. nodes[p].name \in DOMAIN Catalogue
  BY <1>1, NodeFacts
<1>3. \A q \in DOMAIN short : Front(q) = Front(p) => short[q] \in used
  BY DEF NameInv, Named, ChildrenOf
<1>4. CASE DirectlyRepresentable(n, used)
  <2>1. name = Direct(n)
    BY <1>4 DEF NewName
  <2>2. Direct(n) \notin used
    BY <1>4 DEF DirectlyRepresentable
  <2>3. Direct(n) = Key(nodes[p].name)
    BY <1>2, <1>4, DirectIsKey
  <2> QED
    BY <1>3, <2>1, <2>2, <2>3
<1>5. CASE ~DirectlyRepresentable(n, used)
  <2>1. PICK k \in FreeAliases(n, used) : name = Candidate(n, k)
    BY <1>5 DEF NewName
  <2>2. k \in 1..MaxSuffix /\ Candidate(n, k) \notin used
    BY DEF FreeAliases
  <2>3. Contains(Candidate(n, k).base, "~")
    BY <1>2, <2>2, AliasHasTilde
  <2> QED
    BY <1>3, <2>1, <2>2, <2>3
<1> QED
  BY <1>4, <1>5

\* Naming a node.
LEMMA NameKept ==
    ASSUME TreeInv, NameInv, NameNode
    PROVE  NameInv'
<1>1. PICK p \in DOMAIN nodes : /\ Nameable(p)
                                /\ \E name \in NewName(p) :
                                      short' = [q \in DOMAIN short \cup {p} |-> IF q = p THEN name ELSE short[q]]
  BY DEF NameNode
<1>2. PICK name \in NewName(p) :
          short' = [q \in DOMAIN short \cup {p} |-> IF q = p THEN name ELSE short[q]]
  BY <1>1
<1>3. /\ added = Len(entries) /\ pc = "tree" /\ pc' = pc /\ UNCHANGED <<entries, added, nodes, raised>>
  BY DEF NameNode, vars
<1>4. p # <<>> /\ p \notin DOMAIN short
  BY <1>1 DEF Nameable
<1>5. /\ DOMAIN short' = DOMAIN short \cup {p} /\ short'[p] = name
      /\ \A q \in DOMAIN short : short'[q] = short[q]
  BY <1>2, <1>4
<1>6. /\ name = Key(nodes[p].name) \/ Contains(name.base, "~")
      /\ \A q \in DOMAIN short : Front(q) = Front(p) => short[q] # name
  BY <1>1, NewNameFacts
<1>7. Named'
  BY <1>3, <1>4, <1>5 DEF NameInv, Named
<1>8. Forms'
  <2> SUFFICES ASSUME NEW q \in DOMAIN short' PROVE short'[q] = Key(nodes[q].name) \/ Contains(short'[q].base, "~")
    BY <1>3 DEF Forms
  <2> QED
    BY <1>5, <1>6 DEF NameInv, Forms
<1>9. Distinct'
  <2> SUFFICES ASSUME NEW q \in DOMAIN short', NEW r \in DOMAIN short', q # r, Front(q) = Front(r)
               PROVE  short'[q] # short'[r]
    BY DEF Distinct
  <2> QED
    BY <1>5, <1>6 DEF NameInv, Distinct
<1> QED
  BY <1>3, <1>7, <1>8, <1>9 DEF NameInv

\* The steps that name nothing: while entries are added nothing is named yet.
LEMMA NamesSame ==
    ASSUME NameInv, short' = short, raised' \in {"none", "entry", "alias"},
           UNCHANGED nodes \/ DOMAIN short = {},
           DOMAIN short # {} => added' = Len(entries'),
           pc' \in {"assign", "chain", "written"} => AllNamed' /\ added' = Len(entries')
    PROVE  NameInv'
<1>1. Named'
  BY DEF NameInv, Named
<1>2. Forms' /\ Distinct'
  BY DEF NameInv, Forms, Distinct
<1> QED
  BY <1>1, <1>2 DEF NameInv

\* Every step keeps the invariant of the names.
LEMMA NameStep == TreeInv /\ NameInv /\ [ImageNext]_imageVars => NameInv'
<1> SUFFICES ASSUME TreeInv, NameInv, [ImageNext]_imageVars PROVE NameInv'
  OBVIOUS
<1>1. CASE AddEntry
  <2>1. /\ pc = "tree" /\ pc' = pc /\ added < Len(entries) /\ UNCHANGED <<short, raised>>
    BY <1>1 DEF AddEntry, vars
  <2>2. added # Len(entries)
    BY <2>1, ManifestSeq DEF TreeInv
  <2>3. DOMAIN short = {}
    BY <2>2 DEF NameInv, Named
  <2> QED
    BY <2>1, <2>3, NamesSame DEF NameInv
<1>2. CASE RefuseEntry
  <2>1. /\ pc' = "rejected" /\ UNCHANGED <<entries, added, nodes, short>> /\ raised' = "entry"
    BY <1>2 DEF RefuseEntry, RejectTree
  <2> QED
    BY <2>1, NamesSame DEF NameInv, Named
<1>3. CASE NameNode
  BY <1>3, NameKept
<1>4. CASE NoAliasLeft
  <2>1. /\ pc' = "rejected" /\ UNCHANGED <<entries, added, nodes, short>> /\ raised' = "alias"
    BY <1>4 DEF NoAliasLeft, RejectTree
  <2> QED
    BY <2>1, NamesSame DEF NameInv, Named
<1>5. CASE HandOver
  <2>1. /\ UNCHANGED <<entries, added, nodes, short, raised>> /\ AllNamed /\ added = Len(entries)
    BY <1>5 DEF HandOver, nameVars
  <2>2. AllNamed'
    BY <2>1 DEF AllNamed
  <2> QED
    BY <2>1, <2>2, NamesSame DEF NameInv
<1>6. CASE Layout \/ UNCHANGED imageVars
  <2>1. UNCHANGED <<entries, added, nodes, short, raised>>
    BY <1>6 DEF Layout, imageVars, nameVars
  <2>2. pc' \in {"assign", "chain", "written"} => pc \in {"assign", "chain", "written"}
    BY <1>6 DEF Layout, Probe, FinishSearch, AssignNode, FinishAssign, ChainNode, FinishChain, Ended, imageVars, vars
  <2>3. AllNamed' = AllNamed
    BY <2>1 DEF AllNamed
  <2> QED
    BY <2>1, <2>2, <2>3, NamesSame DEF NameInv, Named
<1> QED
  BY <1>1, <1>2, <1>3, <1>4, <1>5, <1>6 DEF ImageNext

\* What _assign_short_names keeps true from node to node.
THEOREM NameInvariant == ImageSpec => []NameInv
<1>1. ImageInit => NameInv
  <2> SUFFICES ASSUME ImageInit PROVE NameInv
    OBVIOUS
  <2>1. DOMAIN short = {} /\ raised = "none" /\ pc = "search"
    BY DEF ImageInit, Init
  <2> QED
    BY <2>1 DEF NameInv, Named, Forms, Distinct
<1> QED
  BY <1>1, NameStep, TreeInvariant, PTL DEF ImageSpec

\* The types of what the builder keeps: every node below the root is in a directory.
THEOREM ImageTypes == ImageSpec => []ImageTypeOK
<1>1. TreeInv /\ NameInv => ImageTypeOK
  <2> SUFFICES ASSUME TreeInv, NameInv PROVE ImageTypeOK
    OBVIOUS
  <2>1. nodes[<<>>].dir \in BOOLEAN /\ nodes[<<>>].size \in Nat
    BY DEF TreeInv, Root
  <2> QED
    BY <2>1, NodeFacts DEF TreeInv, Manifest, NameInv, Named, ImageTypeOK
<1> QED
  BY <1>1, TreeInvariant, NameInvariant, PTL

\* No destination looks like an alias.
Plain == \A i \in DOMAIN entries : \A j \in DOMAIN entries[i].path : ~LooksLikeAlias(entries[i].path[j])

\* Then a node's key has no tilde.
LEMMA PlainKey ==
    ASSUME TreeInv, Plain, NEW p \in DOMAIN nodes, p # <<>>
    PROVE  ~Contains(Key(nodes[p].name).base, "~")
<1>1. PICK i \in 1..Len(entries) : \E n \in DOMAIN entries[i].path : nodes[p].name = entries[i].path[n]
  BY NodeFacts
<1>2. nodes[p].name \in DOMAIN Catalogue /\ Manifest
  BY NodeFacts DEF TreeInv
<1>3. i \in DOMAIN entries
  BY <1>2, ManifestSeq
<1>4. ~LooksLikeAlias(nodes[p].name)
  BY <1>1, <1>3 DEF Plain
<1> QED
  BY <1>2, <1>4, TildeIsOwn

\* A driver finds a node under its destination's name and under its 8.3 name.
LEMMA NodeIsFound ==
    ASSUME TreeInv, NameInv, AllNamed, Plain, NEW p \in DOMAIN nodes, p # <<>>,
           NEW key, key = Key(nodes[p].name) \/ key = short[p]
    PROVE  Found(Front(p), key) = p
<1> DEFINE hits == {q \in ChildrenOf(Front(p)) : Key(nodes[q].name) = key \/ short[q] = key}
<1>1. p \in hits
  BY DEF ChildrenOf
<1>2. ASSUME NEW q \in hits PROVE q = p
  <2>1. q \in DOMAIN nodes /\ q # <<>> /\ Front(q) = Front(p) /\ (Key(nodes[q].name) = key \/ short[q] = key)
    BY <1>2 DEF ChildrenOf
  <2>2. p \in DOMAIN short /\ q \in DOMAIN short
    BY <2>1 DEF AllNamed
  <2>3. ~Contains(Key(nodes[p].name).base, "~") /\ ~Contains(Key(nodes[q].name).base, "~")
    BY <2>1, PlainKey
  <2>4. Key(nodes[p].name) = Key(nodes[q].name) => q = p
    BY <2>1, OneByKey
  <2>5. short[p] = short[q] => q = p
    BY <2>1, <2>2 DEF NameInv, Distinct
  <2>6. /\ short[p] = Key(nodes[p].name) \/ Contains(short[p].base, "~")
        /\ short[q] = Key(nodes[q].name) \/ Contains(short[q].base, "~")
    BY <2>2 DEF NameInv, Forms
  <2>7. CASE key = Key(nodes[p].name)
    BY <2>1, <2>3, <2>4, <2>6, <2>7
  <2>8. CASE key = short[p]
    BY <2>1, <2>3, <2>4, <2>5, <2>6, <2>8
  <2> QED
    BY <2>7, <2>8
<1>3. hits = {p}
  BY <1>1, <1>2
<1>4. nodes[p].name <= nodes[p].name
  <2>1. nodes[p].name \in Nat
    BY NodeFacts, NameTypes
  <2> QED
    BY <2>1
<1>5. Found(Front(p), key) = IF hits = {} THEN <<>>
                             ELSE CHOOSE r \in hits : \A q \in hits : nodes[r].name <= nodes[q].name
  BY DEF Found
<1> HIDE DEF hits
<1> QED
  BY <1>3, <1>4, <1>5

\* A level of an entry lies in the one above.
LEMMA LevelAbove ==
    ASSUME TreeInv, NEW i \in 1..added, NEW n \in 1..Len(K(i))
    PROVE  /\ At(i, n) \in DOMAIN nodes /\ At(i, n) # <<>>
           /\ Front(At(i, n)) = At(i, n - 1)
           /\ K(i)[n] = Key(nodes[At(i, n)].name)
<1> DEFINE k == K(i)
           p == At(i, n)
           a == At(i, n - 1)
<1>1. Manifest /\ i \in 1..Len(entries)
  BY DEF TreeInv, Manifest
<1>2. k \in Seq(Keys) /\ Len(k) \in Nat \ {0} /\ p # <<>>
  BY <1>1, Levels
<1>3. p \in DOMAIN nodes
  BY DEF TreeInv, Placed
<1>4. n \in Nat \ {0} /\ n - 1 \in 0..Len(k)
  BY <1>2
<1>5. p = SubSeq(k, 1, n) /\ a = SubSeq(k, 1, n - 1)
  BY DEF At
<1> HIDE DEF k, p, a
<1>6. p \in Seq(Keys) /\ Len(p) = n /\ \A j \in 1..n : p[j] = k[j]
  BY <1>2, <1>4, <1>5 DEF k
<1> DEFINE m == n - 1
<1> HIDE DEF m
<1>m. m \in 0..Len(k) /\ m = n - 1
  BY <1>4 DEF m
<1>7. a \in Seq(Keys) /\ Len(a) = m /\ \A j \in 1..m : a[j] = k[j]
  BY <1>2, <1>5, <1>m
<1>8. Front(p) \in Seq(Keys) /\ Len(Front(p)) = m /\ \A j \in 1..m : Front(p)[j] = p[j]
  BY <1>4, <1>6, <1>m, FrontTypes
<1>9. \A j \in 1..m : p[j] = k[j]
  BY <1>4, <1>6, <1>m
<1>10. Front(p) = a
  BY <1>m, <1>7, <1>8, <1>9
<1>11. p[Len(p)] = Key(nodes[p].name)
  BY <1>2, <1>3, NodeFacts
<1>12. k[n] = Key(nodes[p].name)
  BY <1>4, <1>6, <1>11
<1> QED
  BY <1>2, <1>3, <1>10, <1>12 DEF k, p, a

\* Walking down from the root a driver comes to each level of an entry in turn.
LEMMA PathIsFound ==
    ASSUME TreeInv, NameInv, AllNamed, Plain, NEW i \in 1..added
    PROVE  LET keys == K(i)
               at[n \in 0..Len(keys)] == IF n = 0 THEN <<>> ELSE Found(at[n - 1], keys[n])
           IN  at[Len(keys)] = keys
<1> DEFINE keys == K(i)
           at[n \in 0..Len(keys)] == IF n = 0 THEN <<>> ELSE Found(at[n - 1], keys[n])
           g == [n \in 0..Len(keys) |-> At(i, n)]
<1>1. /\ Manifest /\ i \in 1..Len(entries)
  BY DEF TreeInv, Manifest
<1>2. /\ keys \in Seq(Keys) /\ Len(keys) \in Nat \ {0} /\ At(i, Len(keys)) = keys /\ At(i, 0) = <<>>
  <2>1. /\ keys \in Seq(Keys) /\ Len(keys) \in Nat \ {0} /\ At(i, Len(keys)) = keys
    BY <1>1, Levels
  <2>2. At(i, 0) = <<>>
    BY <2>1 DEF At
  <2> QED
    BY <2>1, <2>2
<1>3. \A n \in 1..Len(keys) : At(i, n) = Found(At(i, n - 1), keys[n])
  <2> SUFFICES ASSUME NEW n \in 1..Len(keys) PROVE At(i, n) = Found(At(i, n - 1), keys[n])
    OBVIOUS
  <2>1. /\ At(i, n) \in DOMAIN nodes /\ At(i, n) # <<>> /\ Front(At(i, n)) = At(i, n - 1)
        /\ keys[n] = Key(nodes[At(i, n)].name)
    BY LevelAbove
  <2> QED
    BY <2>1, NodeIsFound
<1> HIDE DEF keys
<1>4. g = [n \in 0..Len(keys) |-> IF n = 0 THEN <<>> ELSE Found(g[n - 1], keys[n])]
  <2>1. ASSUME NEW n \in 0..Len(keys) PROVE g[n] = IF n = 0 THEN <<>> ELSE Found(g[n - 1], keys[n])
    <3>1. CASE n = 0
      BY <1>2, <3>1
    <3>2. CASE n # 0
      <4>1. n \in 1..Len(keys) /\ n - 1 \in 0..Len(keys)
        BY <1>2, <3>2
      <4> QED
        BY <1>3, <3>2, <4>1
    <3> QED
      BY <3>1, <3>2
  <2> DEFINE G == g
  <2> HIDE DEF G
  <2>2. G = [n \in 0..Len(keys) |-> G[n]]
    BY DEF G
  <2>3. \A n \in 0..Len(keys) : G[n] = IF n = 0 THEN <<>> ELSE Found(G[n - 1], keys[n])
    BY <2>1 DEF G
  <2>4. G = [n \in 0..Len(keys) |-> IF n = 0 THEN <<>> ELSE Found(G[n - 1], keys[n])]
    BY <2>2, <2>3
  <2> QED
    BY <2>4 DEF G
<1>5. at = [n \in 0..Len(keys) |-> IF n = 0 THEN <<>> ELSE Found(at[n - 1], keys[n])]
  <2> HIDE DEF g
  <2> QED
    BY <1>4
<1> HIDE DEF at
<1>6. at[Len(keys)] = At(i, Len(keys))
  <2> DEFINE l == Len(keys)
             T == {n \in 0..l : at[n] = At(i, n)}
  <2>1. ASSUME NEW n \in 0..l, 0..(n - 1) \subseteq T PROVE n \in T
    <3>1. CASE n = 0
      BY <1>2, <1>5, <3>1
    <3>2. CASE n # 0
      <4>1. n \in 1..l /\ n - 1 \in 0..(n - 1)
        BY <1>2, <3>2
      <4>2. at[n - 1] = At(i, n - 1)
        BY <2>1, <4>1
      <4> QED
        BY <1>3, <1>5, <3>2, <4>1, <4>2
    <3> QED
      BY <3>1, <3>2
  <2>2. 0..l \subseteq T
    <3>1. l \in Nat
      BY <1>2
    <3> HIDE DEF T, l
    <3> QED
      BY <2>1, <3>1, UpTo
  <2> QED
    BY <1>2, <2>2
<1>7. at[Len(keys)] = keys
  BY <1>2, <1>6
<1> QED
  BY <1>7 DEF at, keys

\* The file at the end of an entry's path is the entry's own.
LEMMA FileIsOwn ==
    ASSUME TreeInv, NEW i \in 1..added
    PROVE  nodes[K(i)].size = entries[i].size
<1>1. Manifest /\ i \in 1..Len(entries) /\ 1..added \subseteq 1..Len(entries)
  BY DEF TreeInv, Manifest
<1>2. /\ K(i) \in Seq(Keys) /\ Len(K(i)) \in Nat \ {0} /\ At(i, Len(K(i))) = K(i) /\ K(i) # <<>>
  BY <1>1, Levels
<1>3. K(i) \in DOMAIN nodes /\ ~nodes[K(i)].dir
  <2>1. Len(K(i)) \in 1..Len(K(i))
    BY <1>2
  <2> QED
    BY <1>2, <2>1 DEF TreeInv, Placed
<1>4. PICK j \in 1..added : \E n \in 1..Len(K(j)) : K(i) = At(j, n) /\ nodes[K(i)] = NodeOf(j, n)
  BY <1>2, <1>3 DEF TreeInv, AllMade, Made
<1>5. PICK n \in 1..Len(K(j)) : K(i) = At(j, n) /\ nodes[K(i)] = NodeOf(j, n)
  BY <1>4
<1>6. n = Len(K(j))
  <2>1. NodeOf(j, n).dir = (n # Len(K(j)))
    BY DEF NodeOf
  <2> QED
    BY <1>3, <1>5, <2>1
<1>7. K(i) = K(j) /\ K(j) \in Seq(Keys) /\ Len(K(j)) \in Nat
  BY <1>1, <1>5, <1>6, Levels
<1>8. i = j
  <2>1. IsPrefix(K(i), K(j))
    BY <1>7 DEF IsPrefix
  <2> QED
    BY <2>1 DEF TreeInv, Separate
<1> QED
  BY <1>5, <1>6, <1>8 DEF NodeOf

\* In the image create_fat32_image writes, every file is found under its destination and
\* every node under its 8.3 name, whichever names share a directory, as long as no
\* destination itself looks like an alias.
THEOREM DestinationsFound == ImageSpec => []DestinationsAreFound
<1>1. TreeInv /\ NameInv => DestinationsAreFound
  <2> SUFFICES ASSUME TreeInv, NameInv, pc = "written", Plain
               PROVE  /\ \A i \in DOMAIN entries :
                          LET keys == KeyPath(entries[i].path)
                              at[n \in 0..Len(keys)] == IF n = 0 THEN <<>> ELSE Found(at[n - 1], keys[n])
                          IN  at[Len(keys)] = keys /\ nodes[keys].size = entries[i].size
                      /\ \A p \in DOMAIN short : Found(Front(p), short[p]) = p
    BY DEF DestinationsAreFound, Plain
  <2>1. AllNamed /\ added = Len(entries)
    BY DEF NameInv, Named
  <2>2. ASSUME NEW p \in DOMAIN short PROVE Found(Front(p), short[p]) = p
    <3>1. p \in DOMAIN nodes /\ p # <<>>
      BY DEF NameInv, Named
    <3> QED
      BY <2>1, <3>1, NodeIsFound
  <2>3. ASSUME NEW i \in DOMAIN entries
        PROVE  LET keys == KeyPath(entries[i].path)
                   at[n \in 0..Len(keys)] == IF n = 0 THEN <<>> ELSE Found(at[n - 1], keys[n])
               IN  at[Len(keys)] = keys /\ nodes[keys].size = entries[i].size
    <3>1. i \in 1..added
      BY <2>1, ManifestSeq DEF TreeInv
    <3>2. nodes[K(i)].size = entries[i].size
      BY <3>1, FileIsOwn
    <3>3. LET keys == K(i)
              at[n \in 0..Len(keys)] == IF n = 0 THEN <<>> ELSE Found(at[n - 1], keys[n])
          IN  at[Len(keys)] = keys
      BY <2>1, <3>1, PathIsFound
    <3> QED
      BY <3>2, <3>3 DEF K
  <2> QED
    BY <2>2, <2>3
<1> QED
  BY <1>1, TreeInvariant, NameInvariant, PTL

=============================================================================
