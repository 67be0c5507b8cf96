-------------------------- MODULE DiskImageProofs ---------------------------
(***************************************************************************)
(* Theorems about DiskImage, for every scheme, size and list of partitions *)
(* or blobs: the layout is sound, no write destroys an earlier one, and a  *)
(* patch of a boot sector stays inside its partition.                      *)
(***************************************************************************)
EXTENDS DiskImage, TLAPS

-----------------------------------------------------------------------------
(***************************************************************************)
(* The inductive invariant.                                                *)
(***************************************************************************)

\* A part is what its spec asked for, inside the usable range.
Good(p) ==
    /\ FirstUsable <= p.start /\ p.end <= LastUsable /\ p.start <= p.end + 1
    /\ Partitioned => p.start % specs[p.of].alignment = 0
    /\ scheme # "iso" => p.end - p.start + 1 = specs[p.of].size

AllGood == \A i \in 1..Len(parts) : Good(parts[i])

\* Partitions are placed in order; blobs are in order once they are arranged.
InOrder ==
    Partitioned \/ pc \notin {"place", "rejected"} =>
        \A i, j \in 1..Len(parts) : i < j => parts[i].end < parts[j].start

\* While partitions are placed the cursor is behind all of them; afterwards it counts
\* the parts written, all of which are known by then.
CursorOK ==
    /\ pc = "place" =>
           /\ cursor \in Nat /\ FirstUsable <= cursor
           /\ Partitioned => \A i \in 1..Len(parts) : parts[i].end < cursor
    /\ pc = "arranged" => scheme = "raw"
    /\ pc \notin {"place", "rejected"} => CountFits /\ Len(parts) = Len(specs)
    /\ pc \in {"write", "patch"} => cursor \in 1..Len(parts) + 1
    /\ pc = "patch" => cursor <= Len(parts) /\ Partitioned /\ specs[parts[cursor].of].patch

\* What the writes so far have left.  Done says which parts they include.
Done(i) ==
    CASE pc = "write" -> i < cursor [] pc = "patch" -> i <= cursor [] pc = "written" -> TRUE
      [] OTHER -> FALSE
Contents ==
    /\ pc \in {"write", "patch", "written"} =>
           \A u \in MetaUnits : u < FirstUsable \/ pc = "written" => disk[u] = Meta
    /\ \A i \in 1..Len(parts) : Done(i) =>
           \A u \in parts[i].start..parts[i].end : disk[u] = parts[i].of

\* Is unit u to hold the start of part i?
PatchedBy(i, u) ==
    /\ Partitioned /\ specs[parts[i].of].patch
    /\ u \in parts[i].start..parts[i].end
    /\ u \in {parts[i].start, parts[i].start + specs[parts[i].of].boot}

\* The part being patched is not patched yet.
Patches ==
    pc # "rejected" =>
        \A u \in DOMAIN hidden :
            /\ \A i \in 1..Len(parts) :
                   Done(i) /\ (pc = "patch" => i # cursor) /\ PatchedBy(i, u) =>
                       hidden[u] = parts[i].start
            /\ (\A i \in 1..Len(parts) :
                    Done(i) /\ (pc = "patch" => i # cursor) => ~PatchedBy(i, u)) =>
                       hidden[u] = 0

DiskInv == TypeOK /\ AllGood /\ InOrder /\ CursorOK /\ Contents /\ Patches

-----------------------------------------------------------------------------
(***************************************************************************)
(* Lemmas.                                                                 *)
(***************************************************************************)

\* What a job is.
LEMMA JobFacts ==
    ASSUME TypeOK
    PROVE  /\ scheme \in {"gpt", "mbr", "raw", "iso"} /\ specs \in Seq(Item)
           /\ totalUnits \in Nat \ {0}
           /\ scheme # "raw" => \A i \in 1..Len(specs) : specs[i].size > 0
           /\ scheme = "raw" => \A i \in 1..Len(specs) : specs[i].start >= 0
           /\ scheme = "iso" => /\ Len(specs) = 1
                                /\ totalUnits = BOOT_IMAGE_SECTOR + CeilDiv(specs[1].size, 4)
<1> DEFINE job == [scheme |-> scheme, total |-> totalUnits, specs |-> specs]
<1>1. job \in Jobs
  BY DEF TypeOK
<1>2. JobOK(job)
  BY <1>1, DiskAssumption
<1>3. job.scheme = scheme /\ job.total = totalUnits /\ job.specs = specs
  OBVIOUS
<1> HIDE DEF job
<1>4. specs \in Seq(Item)
  BY <1>2, <1>3 DEF JobOK
<1> QED
  BY <1>2, <1>3, <1>4 DEF JobOK

\* The usable range lies in the file.
LEMMA UsableRange ==
    ASSUME TypeOK
    PROVE  FirstUsable \in Nat /\ LastUsable \in Int /\ LastUsable < totalUnits
  BY JobFacts, DiskAssumption DEF FirstUsable, LastUsable, BOOT_IMAGE_SECTOR

\* A part lies in the file, behind the metadata in front and before the backup.
LEMMA PartsMissMetadata ==
    ASSUME TypeOK, NEW p \in [start : Int, end : Int, of : DOMAIN specs], Good(p)
    PROVE  /\ p.start..p.end \subseteq DOMAIN disk /\ DOMAIN disk = 0..(totalUnits - 1)
           /\ DOMAIN hidden = DOMAIN disk
           /\ \A u \in p.start..p.end : u \notin MetaUnits
<1>1. DOMAIN disk = 0..(totalUnits - 1) /\ DOMAIN hidden = DOMAIN disk
  BY DEF TypeOK
<1>2. p.start..p.end \subseteq DOMAIN disk
  BY <1>1, UsableRange, JobFacts DEF Good
<1>3. ASSUME NEW u \in p.start..p.end PROVE u \notin MetaUnits
  <2>1. u \in Int /\ FirstUsable <= u /\ u <= LastUsable
    BY UsableRange DEF Good
  <2>2. CASE scheme = "gpt"
    BY <2>1, <2>2, JobFacts, DiskAssumption, SMTT(40) DEF FirstUsable, LastUsable, MetaUnits
  <2>3. CASE scheme = "mbr"
    BY <2>1, <2>3 DEF FirstUsable, MetaUnits
  <2>4. CASE scheme = "raw"
    BY <2>4 DEF MetaUnits
  <2>5. CASE scheme = "iso"
    BY <2>1, <2>5 DEF FirstUsable, MetaUnits, BOOT_IMAGE_SECTOR, VOLUME_DESCRIPTOR_SECTOR,
       BOOT_CATALOG_SECTOR
  <2> QED
    BY <2>2, <2>3, <2>4, <2>5, JobFacts
<1> QED
  BY <1>1, <1>2, <1>3

\* Metadata lies in the file once the parts fit: there is a partition between the two
\* copies of a GPT.
LEMMA MetadataFits ==
    ASSUME TypeOK, AllGood, CountFits, Len(parts) = Len(specs)
    PROVE  MetaUnits \subseteq DOMAIN disk
<1>1. DOMAIN disk = 0..(totalUnits - 1)
  BY DEF TypeOK
<1>2. CASE scheme = "gpt"
  <2>1. 1 \in 1..Len(parts) /\ parts[1] \in [start : Int, end : Int, of : DOMAIN specs]
    <3>1. Len(parts) \in 1..EntryCount /\ EntryCount \in Nat
      BY <1>2, DiskAssumption DEF CountFits
    <3> DEFINE S == [start : Int, end : Int, of : DOMAIN specs]
    <3>2. parts \in Seq(S)
      BY DEF TypeOK
    <3> HIDE DEF S
    <3>3. 1 \in 1..Len(parts) /\ parts[1] \in S
      BY <3>1, <3>2
    <3> QED
      BY <3>3 DEF S
  <2>2. Good(parts[1])
    BY <2>1 DEF AllGood
  <2>3. parts[1].of \in 1..Len(specs)
    BY <2>1, JobFacts
  <2>4. specs[parts[1].of].size > 0 /\ specs[parts[1].of] \in Item
    BY <2>3, <1>2, JobFacts
  <2>5. parts[1].start <= parts[1].end
    BY <2>1, <2>2, <2>4, <1>2 DEF Good, Item
  <2>6. EntrySectors \in Nat /\ totalUnits \in Nat
    BY JobFacts, DiskAssumption
  <2>7. FirstUsable = 2 + EntrySectors /\ LastUsable = totalUnits - EntrySectors - 2
    BY <1>2 DEF FirstUsable, LastUsable
  <2>8. 2 + EntrySectors <= totalUnits - EntrySectors - 2
    <3>1. FirstUsable <= parts[1].start /\ parts[1].end <= LastUsable
      BY <2>2 DEF Good
    <3>2. parts[1].start \in Int /\ parts[1].end \in Int
      BY <2>1
    <3> QED
      BY <2>5, <2>6, <2>7, <3>1, <3>2
  <2>9. MetaUnits = (0..(1 + EntrySectors)) \cup ((totalUnits - EntrySectors - 1)..(totalUnits - 1))
    BY <1>2 DEF MetaUnits
  <2> QED
    BY <1>1, <2>6, <2>8, <2>9
<1>3. CASE scheme = "mbr"
  BY <1>1, <1>3, JobFacts DEF MetaUnits
<1>4. CASE scheme = "raw"
  BY <1>4 DEF MetaUnits
<1>5. CASE scheme = "iso"
  <2>1. 1 \in 1..Len(specs) /\ specs[1] \in Item
    BY <1>5, JobFacts
  <2>2. CeilDiv(specs[1].size, 4) \in Nat
    BY <2>1 DEF CeilDiv, Item
  <2> QED
    BY <1>1, <1>5, <2>2, JobFacts, SMTT(40) DEF MetaUnits, BOOT_IMAGE_SECTOR,
       VOLUME_DESCRIPTOR_SECTOR, BOOT_CATALOG_SECTOR
<1> QED
  BY <1>2, <1>3, <1>4, <1>5, JobFacts

\* The fields of a part and of its spec.
LEMMA PartFields ==
    ASSUME TypeOK
    PROVE  \A i \in 1..Len(parts) :
               /\ parts[i] \in [start : Int, end : Int, of : DOMAIN specs]
               /\ parts[i].start \in Int /\ parts[i].end \in Int
               /\ parts[i].of \in 1..Len(specs) /\ specs[parts[i].of] \in Item
<1> SUFFICES ASSUME NEW i \in 1..Len(parts)
             PROVE  /\ parts[i] \in [start : Int, end : Int, of : DOMAIN specs]
                    /\ parts[i].start \in Int /\ parts[i].end \in Int
                    /\ parts[i].of \in 1..Len(specs) /\ specs[parts[i].of] \in Item
  OBVIOUS
<1> DEFINE S == [start : Int, end : Int, of : DOMAIN specs]
<1>1. parts \in Seq(S)
  BY DEF TypeOK
<1>2. parts[i] \in S
  <2> HIDE DEF S
  <2> QED
    BY <1>1
<1>3. specs \in Seq(Item) /\ DOMAIN specs = 1..Len(specs)
  BY JobFacts
<1> QED
  BY <1>2, <1>3

\* A spec that fits becomes a good part that does not start before the cursor, and an
\* int: AlignUp's arithmetic is used for no more than that.
LEMMA NewPart ==
    ASSUME TypeOK, CursorOK, pc = "place", Len(parts) < Len(specs), Fits(Current)
    PROVE  /\ Len(parts) + 1 \in DOMAIN specs /\ Current \in Item
           /\ StartOf(Current) \in Int /\ EndOf(Current) \in Int
           /\ Good([start |-> StartOf(Current), end |-> EndOf(Current), of |-> Len(parts) + 1])
           /\ Partitioned => cursor <= StartOf(Current)
           /\ cursor \in Nat /\ EndOf(Current) + 1 \in Nat /\ StartOf(Current) \in Nat
           /\ FirstUsable <= EndOf(Current) + 1
<1>1. Len(parts) \in Nat /\ cursor \in Nat /\ FirstUsable <= cursor
  BY DEF TypeOK, CursorOK
<1>2. Len(parts) + 1 \in 1..Len(specs) /\ specs \in Seq(Item)
  BY <1>1, JobFacts
<1>3. Current \in Item /\ Current = specs[Len(parts) + 1]
  BY <1>2 DEF Current
<1>4. /\ Current.size \in Nat /\ Current.alignment \in Int /\ Current.start \in Int
  BY <1>3 DEF Item
<1>5. CeilDiv(Current.size, 4) \in Nat
  BY <1>4 DEF CeilDiv
<1>6. StartOf(Current) \in Int /\ FirstUsable <= StartOf(Current)
      /\ (Partitioned => cursor <= StartOf(Current))
  <2>1. CASE Partitioned
    <3>1. Current.alignment \in Nat \ {0}
      BY <1>4, <2>1 DEF Fits
    <3>2. (cursor + Current.alignment - 1) \div Current.alignment \in Int
      BY <1>1, <3>1
    <3>3. AlignUp(cursor, Current.alignment) \in Int
      BY <3>1, <3>2 DEF AlignUp, CeilDiv
    <3>4. StartOf(Current) \in Int /\ cursor <= StartOf(Current)
      BY <1>4, <2>1, <3>3 DEF StartOf, Partitioned, Fits
    <3> QED
      BY <1>1, <3>4, UsableRange
  <2>2. CASE scheme = "raw"
    BY <1>2, <1>3, <1>4, <2>2, JobFacts DEF StartOf, FirstUsable, Partitioned
  <2>3. CASE scheme = "iso"
    BY <2>3 DEF StartOf, FirstUsable, Partitioned, BOOT_IMAGE_SECTOR
  <2> QED
    BY <2>1, <2>2, <2>3, JobFacts DEF Partitioned
<1>7. /\ EndOf(Current) \in Int /\ StartOf(Current) <= EndOf(Current) + 1
      /\ scheme # "iso" => EndOf(Current) - StartOf(Current) + 1 = Current.size
  <2> DEFINE start == StartOf(Current)
             units == IF scheme = "iso" THEN CeilDiv(Current.size, 4) ELSE Current.size
  <2>1. EndOf(Current) = start + units - 1
    BY DEF EndOf
  <2>2. start \in Int /\ units \in Nat /\ (scheme # "iso" => units = Current.size)
    BY <1>4, <1>5, <1>6
  <2> HIDE DEF start, units
  <2>3. start + units - 1 \in Int /\ start <= start + units - 1 + 1
        /\ start + units - 1 - start + 1 = units
    BY <2>2
  <2> QED
    BY <2>1, <2>2, <2>3 DEF start
<1>8. Good([start |-> StartOf(Current), end |-> EndOf(Current), of |-> Len(parts) + 1])
  BY <1>3, <1>6, <1>7 DEF Good, Fits
<1> QED
  BY <1>1, <1>2, <1>3, <1>6, <1>7, <1>8, UsableRange, JobFacts, SMTT(40)

-----------------------------------------------------------------------------
\* It holds before anything is placed.
LEMMA DiskInit == Init => DiskInv
<1> SUFFICES ASSUME Init PROVE DiskInv
  OBVIOUS
<1>1. PICK job \in Jobs : scheme = job.scheme /\ totalUnits = job.total /\ specs = job.specs
  BY DEF Init
<1>2. [scheme |-> scheme, total |-> totalUnits, specs |-> specs] \in Jobs
      /\ totalUnits \in Nat \ {0} /\ specs \in Seq(Item)
      /\ scheme \in {"gpt", "mbr", "raw", "iso"}
  <2>1. job \in [scheme : {"gpt", "mbr", "raw", "iso"}, total : Nat \ {0}, specs : Seq(Item)]
    BY <1>1, DiskAssumption DEF JobOK
  <2> DEFINE S == Seq(Item)
  <2>2. job \in [scheme : {"gpt", "mbr", "raw", "iso"}, total : Nat \ {0}, specs : S]
    BY <2>1
  <2> HIDE DEF S
  <2>3. job = [scheme |-> scheme, total |-> totalUnits, specs |-> specs]
    BY <1>1, <2>2
  <2> QED
    BY <1>1, <2>2, <2>3 DEF S
<1>3. parts = <<>> /\ Len(parts) = 0 /\ parts \in Seq([start : Int, end : Int, of : DOMAIN specs])
  BY DEF Init
<1>4. FirstUsable \in Nat /\ cursor = FirstUsable
  BY <1>2, DiskAssumption DEF Init, FirstUsable, BOOT_IMAGE_SECTOR
<1>5. disk \in [0..(totalUnits - 1) -> Int] /\ hidden \in [0..(totalUnits - 1) -> Nat]
  BY DEF Init, Free
<1>6. TypeOK
  <2>1. Len(parts) <= Len(specs)
    BY <1>2, <1>3
  <2> QED
    BY <1>2, <1>3, <1>4, <1>5, <2>1 DEF Init, TypeOK
<1>7. AllGood /\ InOrder /\ CursorOK
  BY <1>3, <1>4 DEF Init, AllGood, InOrder, CursorOK
<1>8. Contents /\ Patches
  BY <1>3 DEF Init, Contents, Patches
<1> QED
  BY <1>6, <1>7, <1>8 DEF DiskInv

\* The input never changes, nor does what is derived from it alone.
LEMMA SameInput ==
    ASSUME UNCHANGED input
    PROVE  /\ scheme' = scheme /\ totalUnits' = totalUnits /\ specs' = specs
           /\ FirstUsable' = FirstUsable /\ LastUsable' = LastUsable /\ MetaUnits' = MetaUnits
           /\ Partitioned' <=> Partitioned
           /\ CountFits' <=> CountFits
<1>1. scheme' = scheme /\ totalUnits' = totalUnits /\ specs' = specs
  BY DEF input
<1> QED
  BY <1>1 DEF FirstUsable, LastUsable, MetaUnits, Partitioned, CountFits

\* The input and the layout never change once it is known: what was said of the parts
\* still holds.
LEMMA SameParts ==
    ASSUME TypeOK, AllGood, InOrder, UNCHANGED <<input, parts>>,
           pc' \notin {"place", "rejected"} =>
               pc \notin {"place", "rejected"} \/ Partitioned \/ Len(parts) <= 1
    PROVE  AllGood' /\ InOrder' /\ parts' = parts
<1>1. UNCHANGED input /\ parts' = parts
  OBVIOUS
<1>2. AllGood'
  BY <1>1, SameInput DEF AllGood, Good
<1>3. InOrder'
  BY <1>1, SameInput, SMTT(40) DEF InOrder, TypeOK
<1> QED
  BY <1>1, <1>2, <1>3

\* Placing one part.
LEMMA PlaceStep == DiskInv /\ Place => DiskInv'
<1> SUFFICES ASSUME DiskInv, Place PROVE DiskInv'
  OBVIOUS
<1> DEFINE S == [start : Int, end : Int, of : DOMAIN specs]
           new == [start |-> StartOf(Current), end |-> EndOf(Current), of |-> Len(parts) + 1]
<1>1. /\ pc = "place" /\ pc' = pc /\ parts' = Append(parts, new) /\ cursor' = EndOf(Current) + 1
      /\ UNCHANGED input /\ disk' = disk /\ hidden' = hidden
  BY DEF Place
<1>2. TypeOK /\ CursorOK /\ Len(parts) < Len(specs) /\ Fits(Current)
  BY DEF DiskInv, Place
<1>3. /\ new \in S /\ Good(new) /\ EndOf(Current) \in Int
      /\ Partitioned => cursor <= new.start
      /\ cursor \in Nat /\ EndOf(Current) + 1 \in Nat
      /\ FirstUsable <= EndOf(Current) + 1
      /\ new.end = EndOf(Current)
  BY <1>1, <1>2, NewPart
<1>4. parts \in Seq(S)
  BY <1>2 DEF TypeOK
<1> HIDE DEF new, S
<1>5. /\ parts' \in Seq(S) /\ Len(parts') = Len(parts) + 1
      /\ \A i \in 1..Len(parts) : parts'[i] = parts[i]
      /\ parts'[Len(parts) + 1] = new
      /\ Len(parts) \in Nat
  BY <1>1, <1>3, <1>4
<1>6. TypeOK'
  <2>1. Len(parts') <= Len(specs)
    BY <1>2, <1>5, JobFacts
  <2>2. specs' = specs /\ scheme' = scheme /\ totalUnits' = totalUnits
    BY <1>1, SameInput
  <2> QED
    BY <1>1, <1>2, <1>3, <1>5, <2>1, <2>2 DEF TypeOK, S
<1>7. AllGood'
  <2> SUFFICES ASSUME NEW i \in 1..Len(parts') PROVE Good(parts[i])'
    BY DEF AllGood
  <2>1. Good(parts'[i])
    BY <1>3, <1>5 DEF DiskInv, AllGood
  <2> QED
    BY <1>1, <2>1, SameInput DEF Good
<1>8. Partitioned => \A i \in 1..Len(parts) : parts[i].end < new.start /\ parts[i].end < cursor
  BY <1>1, <1>2, <1>3, PartFields, SMTT(40) DEF CursorOK, S
<1>9. Partitioned => new.start <= new.end
  <2>1. Partitioned => scheme \notin {"raw", "iso"}
    BY DEF Partitioned
  <2>2. new.of \in 1..Len(specs) /\ new.start \in Int /\ new.end \in Int
    BY <1>2, <1>3, JobFacts DEF S
  <2>3. specs[new.of] \in Item
    BY <1>2, <2>2, JobFacts
  <2>4. specs[new.of].size \in Nat
    BY <2>3 DEF Item
  <2>5. Partitioned => specs[new.of].size > 0
    BY <1>2, <2>1, <2>2, JobFacts
  <2> QED
    BY <1>3, <2>1, <2>2, <2>4, <2>5 DEF Good
<1>10. InOrder'
  BY <1>1, <1>5, <1>8, SameInput DEF DiskInv, InOrder
<1>11. CursorOK'
  <2>1. Partitioned => \A i \in 1..Len(parts') : parts'[i].end < EndOf(Current) + 1
    <3> SUFFICES ASSUME Partitioned, NEW i \in 1..Len(parts')
                 PROVE  parts'[i].end < EndOf(Current) + 1
      OBVIOUS
    <3>1. new.start \in Int /\ new.end \in Int /\ new.end = EndOf(Current) /\ new.start <= new.end
      BY <1>3, <1>9 DEF S
    <3>2. CASE i \in 1..Len(parts)
      <4>1. parts'[i].end = parts[i].end /\ parts[i].end \in Int /\ parts[i].end < new.start
        BY <1>2, <1>5, <1>8, <3>2, PartFields
      <4> QED
        BY <3>1, <4>1
    <3>3. CASE i = Len(parts) + 1
      BY <1>5, <3>1, <3>3
    <3> QED
      BY <1>5, <3>2, <3>3
  <2> QED
    BY <1>1, <1>3, <2>1, SameInput DEF CursorOK
<1>12. Contents'
  BY <1>1, SameInput DEF Contents, Done
<1>13. Patches'
  BY <1>1, SameInput DEF DiskInv, Patches, Done
<1> QED
  BY <1>6, <1>7, <1>10, <1>11, <1>12, <1>13 DEF DiskInv

\* The blobs of a raw image, sorted: no two adjacent ones overlap, so no two do.
LEMMA ArrangeStep == DiskInv /\ Arrange => DiskInv'
<1> SUFFICES ASSUME DiskInv, Arrange PROVE DiskInv'
  OBVIOUS
<1> DEFINE S == [start : Int, end : Int, of : DOMAIN specs]
<1>1. TypeOK /\ parts \in Seq(S) /\ DOMAIN parts = 1..Len(parts) /\ Len(parts) \in Nat
      /\ Len(parts) <= Len(specs)
  BY DEF DiskInv, TypeOK
<1>2. PICK f \in [DOMAIN parts -> DOMAIN parts] :
        /\ \A i, j \in DOMAIN parts : i < j => parts[f[i]].start <= parts[f[j]].start
        /\ parts' = [i \in DOMAIN parts |-> parts[f[i]]]
        /\ pc' = IF Overlap([i \in DOMAIN parts |-> parts[f[i]]]) THEN "rejected" ELSE "arranged"
  BY DEF Arrange
<1> HIDE DEF S
<1>3. /\ parts' \in Seq(S) /\ Len(parts') = Len(parts)
      /\ \A i \in 1..Len(parts) : parts'[i] = parts[f[i]] /\ f[i] \in 1..Len(parts)
  <2>1. \A i \in 1..Len(parts) : f[i] \in 1..Len(parts) /\ parts[f[i]] \in S
    BY <1>1
  <2>2. parts' \in [1..Len(parts) -> S]
    BY <1>1, <1>2, <2>1
  <2>3. parts' \in Seq(S) /\ Len(parts') = Len(parts)
    BY <1>1, <2>2
  <2> QED
    BY <1>1, <1>2, <2>1, <2>3
<1>4. /\ pc = "place" /\ scheme = "raw" /\ Len(parts) = Len(specs)
      /\ UNCHANGED input /\ cursor' = cursor /\ disk' = disk /\ hidden' = hidden
  BY DEF Arrange
<1>5. pc' \in {"rejected", "arranged"}
  BY <1>2
<1>6. TypeOK'
  BY <1>1, <1>3, <1>4, <1>5, SameInput DEF TypeOK, S
<1>7. AllGood'
  <2> SUFFICES ASSUME NEW i \in 1..Len(parts') PROVE Good(parts[i])'
    BY DEF AllGood
  <2>1. Good(parts'[i])
    BY <1>3 DEF DiskInv, AllGood
  <2> QED
    BY <1>4, <2>1, SameInput DEF Good
<1>8. InOrder'
  <2> SUFFICES ASSUME pc' = "arranged", NEW i \in 1..Len(parts'), NEW j \in 1..Len(parts'), i < j
               PROVE  parts'[i].end < parts'[j].start
    BY <1>4, <1>5, SameInput DEF InOrder, Partitioned
  <2>1. i \in 1..(Len(parts') - 1) /\ i + 1 \in 1..Len(parts')
    BY <1>1, <1>3
  <2>2. ~Overlap(parts')
    BY <1>2
  <2>3. ~(parts'[i + 1].start <= parts'[i].end)
    BY <2>1, <2>2 DEF Overlap
  <2>4. parts'[i + 1].start <= parts'[j].start \/ j = i + 1
    <3>1. CASE i + 1 < j
      BY <1>1, <1>2, <1>3, <2>1, <3>1
    <3> QED
      BY <2>1, <3>1
  <2>5. \A k \in 1..Len(parts') : parts'[k].start \in Int /\ parts'[k].end \in Int
    <3>1. \A k \in 1..Len(parts') : parts'[k] \in S
      BY <1>3
    <3> QED
      BY <3>1 DEF S
  <2> QED
    BY <2>1, <2>3, <2>4, <2>5
<1>9. CursorOK'
  <2>1. CountFits
    BY <1>4 DEF CountFits
  <2> QED
    BY <1>3, <1>4, <1>5, <2>1, SameInput DEF CursorOK
<1>10. Contents'
  BY <1>5 DEF Contents, Done
<1>11. Patches'
  BY <1>4, <1>5 DEF DiskInv, Patches, Done
<1> QED
  BY <1>6, <1>7, <1>8, <1>9, <1>10, <1>11 DEF DiskInv

\* The write of the metadata in front.
LEMMA MetadataStep == DiskInv /\ WriteMetadata => DiskInv'
<1> SUFFICES ASSUME DiskInv, WriteMetadata PROVE DiskInv'
  OBVIOUS
<1>1. /\ pc \in {"place", "arranged"} /\ pc' = "write" /\ cursor' = 1
      /\ UNCHANGED input /\ parts' = parts /\ hidden' = hidden
      /\ disk' = [u \in DOMAIN disk |-> IF u \in MetaUnits /\ u < FirstUsable THEN Meta ELSE disk[u]]
  BY DEF WriteMetadata, WriteUnits
<1>2. TypeOK /\ AllGood /\ InOrder /\ CursorOK
  BY DEF DiskInv
<1>3. CountFits /\ Len(parts) = Len(specs)
  BY <1>1, <1>2 DEF WriteMetadata, CursorOK
<1>4. /\ Len(parts) \in Nat /\ Meta \in Int
      /\ pc \notin {"place", "rejected"} \/ Partitioned \/ Len(parts) <= 1
  <2>1. Len(parts) \in Nat /\ Meta \in Int
    BY <1>2 DEF TypeOK, Meta
  <2>2. CASE scheme = "iso"
    <3>1. Len(parts) = 1
      BY <1>2, <1>3, <2>2, JobFacts
    <3> QED
      BY <2>1, <3>1
  <2>3. CASE scheme = "raw"
    BY <2>1, <2>3 DEF WriteMetadata
  <2> QED
    BY <1>2, <2>1, <2>2, <2>3, JobFacts DEF Partitioned
<1>5. AllGood' /\ InOrder'
  BY <1>1, <1>2, <1>4, SameParts
<1>6. TypeOK'
  <2>1. disk' \in [0..(totalUnits - 1) -> Int]
    BY <1>1, <1>2, <1>4 DEF TypeOK
  <2> QED
    BY <1>1, <1>2, <2>1, SameInput DEF TypeOK
<1>7. CursorOK'
  BY <1>1, <1>3, <1>4, SameInput DEF CursorOK
<1>8. Contents'
  BY <1>1, <1>2, <1>3, MetadataFits, SameInput DEF Contents, Done
<1>9. Patches'
  BY <1>1, <1>4, SameInput DEF DiskInv, Patches, Done
<1> QED
  BY <1>5, <1>6, <1>7, <1>8, <1>9 DEF DiskInv

\* The write of the backup GPT: it misses every part.
LEMMA BackupStep == DiskInv /\ WriteBackup => DiskInv'
<1> SUFFICES ASSUME DiskInv, WriteBackup PROVE DiskInv'
  OBVIOUS
<1>1. /\ pc = "write" /\ pc' = "written" /\ cursor' = cursor /\ cursor > Len(parts)
      /\ UNCHANGED input /\ parts' = parts /\ hidden' = hidden
      /\ disk' = [u \in DOMAIN disk |-> IF u \in MetaUnits /\ u >= FirstUsable THEN Meta ELSE disk[u]]
  BY DEF WriteBackup, WriteUnits
<1>2. /\ TypeOK /\ AllGood /\ InOrder /\ CursorOK /\ Contents /\ Patches
      /\ CountFits /\ Len(parts) = Len(specs) /\ cursor \in Int /\ Len(parts) \in Nat
  BY <1>1 DEF DiskInv, CursorOK, TypeOK
<1>3. AllGood' /\ InOrder'
  BY <1>1, <1>2, SameParts
<1>4. TypeOK'
  <2>1. disk' \in [0..(totalUnits - 1) -> Int]
    BY <1>1, <1>2 DEF TypeOK, Meta
  <2> QED
    BY <1>1, <1>2, <2>1, SameInput DEF TypeOK
<1>5. CursorOK'
  BY <1>1, <1>2, SameInput DEF CursorOK
<1>6. \A i \in 1..Len(parts) : Done(i) /\ Good(parts[i])
  BY <1>1, <1>2 DEF Done, AllGood
<1>7. Contents'
  <2>1. ASSUME NEW u \in MetaUnits PROVE disk'[u] = Meta
    <3>1. u \in DOMAIN disk /\ u \in Int /\ FirstUsable \in Nat
      BY <1>2, MetadataFits, UsableRange DEF TypeOK
    <3>2. CASE u < FirstUsable
      BY <1>1, <1>2, <3>1, <3>2 DEF Contents
    <3> QED
      BY <1>1, <3>1, <3>2
  <2>2. ASSUME NEW i \in 1..Len(parts), NEW u \in parts[i].start..parts[i].end
        PROVE  disk'[u] = parts[i].of
    <3>1. u \in DOMAIN disk /\ u \notin MetaUnits
      BY <1>2, <1>6, PartFields, PartsMissMetadata
    <3> QED
      BY <1>1, <1>2, <1>6, <3>1 DEF Contents
  <2> QED
    BY <1>1, <2>1, <2>2, SameInput, ZenonT(60) DEF Contents
<1>8. Patches'
  <2>1. \A i \in 1..Len(parts) : Done(i)'
    BY <1>1 DEF Done
  <2> QED
    BY <1>1, <1>2, <1>6, <2>1, SameInput DEF Patches, PatchedBy
<1> QED
  BY <1>3, <1>4, <1>5, <1>7, <1>8 DEF DiskInv

\* The parts that have been written miss the one at the cursor.
LEMMA PartsAreDisjoint ==
    ASSUME TypeOK, InOrder, pc \notin {"place", "rejected"},
           NEW i \in 1..Len(parts), NEW j \in 1..Len(parts), i # j,
           NEW u \in parts[i].start..parts[i].end
    PROVE  u \notin parts[j].start..parts[j].end
<1>1. /\ parts[i].start \in Int /\ parts[i].end \in Int
      /\ parts[j].start \in Int /\ parts[j].end \in Int
  BY PartFields
<1>2. parts[i].end < parts[j].start \/ parts[j].end < parts[i].start
  BY DEF InOrder, TypeOK
<1> QED
  BY <1>1, <1>2

\* The write of one part destroys neither metadata nor a part written before.
LEMMA PartStep == DiskInv /\ WritePart => DiskInv'
<1> SUFFICES ASSUME DiskInv, WritePart PROVE DiskInv'
  OBVIOUS
<1> DEFINE range == parts[cursor].start..parts[cursor].end
           patch == Partitioned /\ specs[parts[cursor].of].patch
<1>1. /\ pc = "write" /\ cursor <= Len(parts)
      /\ UNCHANGED input /\ parts' = parts
      /\ disk' = [u \in DOMAIN disk |-> IF u \in range THEN parts[cursor].of ELSE disk[u]]
      /\ hidden' = [u \in DOMAIN hidden |-> IF u \in range THEN 0 ELSE hidden[u]]
      /\ \/ patch /\ pc' = "patch" /\ cursor' = cursor
         \/ ~patch /\ pc' = "write" /\ cursor' = cursor + 1
  BY DEF WritePart, WriteUnits, Part
<1>2. /\ TypeOK /\ AllGood /\ InOrder /\ CursorOK /\ Contents /\ Patches
      /\ CountFits /\ Len(parts) = Len(specs) /\ Len(parts) \in Nat /\ cursor \in 1..Len(parts)
  BY <1>1 DEF DiskInv, CursorOK, TypeOK
<1>3. Good(parts[cursor]) /\ parts[cursor].of \in Int
  BY <1>2, PartFields DEF AllGood
<1>4. range \subseteq DOMAIN disk /\ DOMAIN hidden = DOMAIN disk
      /\ \A u \in range : u \notin MetaUnits
  BY <1>2, <1>3, PartFields, PartsMissMetadata
<1>5. AllGood' /\ InOrder'
  BY <1>1, <1>2, SameParts
<1>6. TypeOK'
  <2>1. disk' \in [0..(totalUnits - 1) -> Int] /\ hidden' \in [0..(totalUnits - 1) -> Nat]
    BY <1>1, <1>2, <1>3 DEF TypeOK
  <2>2. cursor' \in Int /\ pc' \in {"write", "patch"}
    BY <1>1, <1>2
  <2> QED
    BY <1>1, <1>2, <2>1, <2>2, SameInput DEF TypeOK
<1>7. CursorOK'
  <2>1. pc' \in {"write", "patch"} /\ cursor' \in 1..Len(parts) + 1
    BY <1>1, <1>2
  <2> QED
    BY <1>1, <1>2, <2>1, SameInput DEF CursorOK
<1>8. \A i \in 1..Len(parts) : (Done(i)' <=> i <= cursor) /\ (Done(i) <=> i < cursor)
  BY <1>1, <1>2 DEF Done
<1>9. ASSUME NEW i \in 1..Len(parts), i # cursor, NEW u \in parts[i].start..parts[i].end
      PROVE  u \notin range
  BY <1>1, <1>2, <1>9, PartsAreDisjoint
<1>10. Contents'
  <2>1. ASSUME NEW u \in MetaUnits, u < FirstUsable PROVE disk'[u] = Meta
    BY <1>1, <1>2, <1>4, <2>1, MetadataFits DEF Contents
  <2>2. ASSUME NEW i \in 1..Len(parts), i <= cursor, NEW u \in parts[i].start..parts[i].end
        PROVE  disk'[u] = parts[i].of
    <3>1. CASE i = cursor
      BY <1>1, <1>4, <3>1
    <3>2. CASE i # cursor
      <4>1. u \notin range /\ disk[u] = parts[i].of
        BY <1>2, <1>8, <1>9, <2>2, <3>2 DEF Contents
      <4>2. u \in DOMAIN disk
        BY <1>2, PartFields, PartsMissMetadata DEF AllGood
      <4> QED
        BY <1>1, <4>1, <4>2
    <3> QED
      BY <3>1, <3>2
  <2> HIDE DEF range
  <2>3. pc' # "written"
    BY <1>1
  <2> QED
    BY <1>1, <1>8, <2>1, <2>2, <2>3, SameInput DEF Contents
<1>11. Patches'
  <2> SUFFICES ASSUME NEW u \in DOMAIN hidden'
               PROVE  /\ \A i \in 1..Len(parts) :
                             Done(i)' /\ (pc' = "patch" => i # cursor') /\ PatchedBy(i, u)' =>
                                 hidden'[u] = parts[i].start
                      /\ (\A i \in 1..Len(parts) :
                             Done(i)' /\ (pc' = "patch" => i # cursor') => ~PatchedBy(i, u)') =>
                                 hidden'[u] = 0
    BY <1>1, SameInput DEF Patches
  <2>1. u \in DOMAIN hidden /\ hidden'[u] = IF u \in range THEN 0 ELSE hidden[u]
    BY <1>1
  <2>2. \A i \in 1..Len(parts) : PatchedBy(i, u)' <=> PatchedBy(i, u)
    BY <1>1, SameInput DEF PatchedBy
  <2>3. \A i \in 1..Len(parts) : PatchedBy(i, u) => u \in parts[i].start..parts[i].end
    BY DEF PatchedBy
  <2>4. \A i \in 1..Len(parts) :
            Done(i)' /\ (pc' = "patch" => i # cursor') /\ PatchedBy(i, u)' =>
                i < cursor /\ PatchedBy(i, u)
    <3>1. ~patch => ~PatchedBy(cursor, u)
      BY DEF PatchedBy
    <3> HIDE DEF patch
    <3> QED
      BY <1>1, <1>2, <1>8, <2>2, <3>1
  <2>5. \A i \in 1..Len(parts) :
            i < cursor => Done(i)' /\ (pc' = "patch" => i # cursor')
    BY <1>1, <1>2, <1>8
  <2>6. \A i \in 1..Len(parts) : i < cursor /\ PatchedBy(i, u) =>
            u \notin range /\ hidden[u] = parts[i].start
    BY <1>1, <1>2, <1>8, <1>9, <2>1, <2>3 DEF Patches
  <2>7. (\A i \in 1..Len(parts) : i < cursor => ~PatchedBy(i, u)) => hidden[u] = 0
    BY <1>1, <1>2, <1>8, <2>1 DEF Patches
  <2> HIDE DEF range, patch
  <2> QED
    BY <2>1, <2>2, <2>4, <2>5, <2>6, <2>7
<1> QED
  BY <1>5, <1>6, <1>7, <1>10, <1>11 DEF DiskInv

\* The patch of a partition: the sectors it touches are the partition's.
LEMMA PatchStep == DiskInv /\ Patch => DiskInv'
<1> SUFFICES ASSUME DiskInv, Patch PROVE DiskInv'
  OBVIOUS
<1> DEFINE part == parts[cursor]
           spec == specs[part.of]
           backup == IF spec.boot = 0 \/ BackupOutside(spec) THEN {} ELSE {part.start + spec.boot}
           units == IF spec.boot = -1 THEN {} ELSE {part.start} \cup backup
           refused == spec.boot = -1 \/ (spec.boot # 0 /\ BackupOutside(spec))
<1>1. /\ pc = "patch" /\ cursor' = cursor + 1
      /\ UNCHANGED input /\ parts' = parts /\ disk' = disk
      /\ hidden' = [u \in DOMAIN hidden |-> IF u \in units THEN part.start ELSE hidden[u]]
      /\ pc' = IF refused THEN "rejected" ELSE "write"
  BY DEF Patch, Part
<1>2. /\ TypeOK /\ AllGood /\ InOrder /\ CursorOK /\ Contents /\ Patches
      /\ CountFits /\ Len(parts) = Len(specs) /\ Len(parts) \in Nat /\ cursor \in 1..Len(parts)
      /\ Partitioned /\ spec.patch
  <2>1. TypeOK /\ AllGood /\ InOrder /\ CursorOK /\ Contents /\ Patches
    BY DEF DiskInv
  <2>2. CountFits /\ Len(parts) = Len(specs) /\ Partitioned /\ spec.patch
    BY <1>1, <2>1 DEF CursorOK
  <2>3. Len(parts) \in Nat /\ cursor \in 1..Len(parts)
    BY <1>1, <2>1 DEF CursorOK, TypeOK
  <2> QED
    BY <2>1, <2>2, <2>3
<1>3. /\ part.start \in Int /\ part.end \in Int /\ part.of \in 1..Len(specs) /\ spec \in Item
      /\ Good(part)
  BY <1>2, PartFields DEF AllGood
<1>4. spec.size \in Nat /\ spec.size > 0 /\ spec.boot \in Nat \cup {-1}
  <2>1. scheme # "raw"
    BY <1>2 DEF Partitioned
  <2> QED
    BY <1>2, <1>3, <2>1, JobFacts DEF Item
<1>5. part.start \in Nat /\ part.end = part.start + spec.size - 1
  BY <1>2, <1>3, <1>4, UsableRange, SMTT(40) DEF Good, Partitioned
<1>6. AllGood' /\ InOrder'
  BY <1>1, <1>2, SameParts
<1>7. TypeOK'
  <2>1. hidden' \in [0..(totalUnits - 1) -> Nat]
    <3> HIDE DEF part, units
    <3> QED
      BY <1>1, <1>2, <1>5 DEF TypeOK
  <2>2. cursor' \in Int /\ pc' \in {"write", "rejected"}
    BY <1>1, <1>2
  <2> QED
    BY <1>1, <1>2, <2>1, <2>2, SameInput DEF TypeOK
<1>8. CursorOK'
  <2>1. pc' \in {"write", "rejected"} /\ cursor' \in 1..Len(parts) + 1
    BY <1>1, <1>2
  <2> QED
    BY <1>1, <1>2, <2>1, SameInput DEF CursorOK
<1>9. Contents'
  <2>1. pc' \in {"write", "rejected"}
    BY <1>1
  <2>2. \A i \in 1..Len(parts) : (Done(i)' => i <= cursor) /\ (Done(i) <=> i <= cursor)
    BY <1>1, <1>2, <2>1 DEF Done
  <2> QED
    BY <1>1, <1>2, <2>1, <2>2, SameInput DEF Contents
<1>10. Patches'
  <2> SUFFICES ASSUME ~refused, NEW u \in DOMAIN hidden'
               PROVE  /\ \A i \in 1..Len(parts) :
                             Done(i)' /\ PatchedBy(i, u)' => hidden'[u] = parts[i].start
                      /\ (\A i \in 1..Len(parts) : Done(i)' => ~PatchedBy(i, u)') => hidden'[u] = 0
    BY <1>1, SameInput DEF Patches
  <2>1. pc' = "write" /\ u \in DOMAIN hidden
        /\ hidden'[u] = IF u \in units THEN part.start ELSE hidden[u]
    BY <1>1
  <2>2. \A i \in 1..Len(parts) : /\ Done(i)' <=> i <= cursor
                                 /\ Done(i) <=> i <= cursor
                                 /\ PatchedBy(i, u)' <=> PatchedBy(i, u)
    BY <1>1, <1>2, <2>1, SameInput DEF Done, PatchedBy
  <2>3. u \in units <=> PatchedBy(cursor, u)
    <3>1. spec.boot \in Nat /\ (spec.boot = 0 \/ spec.boot + 1 <= spec.size)
      BY <1>4 DEF BackupOutside
    <3>2. u \in units <=> u \in {part.start, part.start + spec.boot}
      BY <1>5, <3>1 DEF BackupOutside
    <3>3. {part.start, part.start + spec.boot} \subseteq part.start..part.end
      <4> DEFINE a == part.start
                 b == spec.boot
                 n == spec.size
      <4>1. a \in Nat /\ b \in Nat /\ n \in Nat /\ n > 0 /\ (b = 0 \/ b + 1 <= n)
            /\ part.end = a + n - 1
        BY <1>4, <1>5, <3>1
      <4> HIDE DEF a, b, n
      <4>2. {a, a + b} \subseteq a..(a + n - 1)
        BY <4>1
      <4> QED
        BY <4>1, <4>2 DEF a, b
    <3> QED
      BY <1>2, <3>2, <3>3 DEF PatchedBy
  <2>4. ASSUME NEW i \in 1..Len(parts), i < cursor, PatchedBy(i, u)
        PROVE  ~PatchedBy(cursor, u) /\ hidden[u] = parts[i].start
    <3>1. u \in parts[i].start..parts[i].end /\ i # cursor
      BY <1>2, <2>4 DEF PatchedBy
    <3>2. u \notin parts[cursor].start..parts[cursor].end
      BY <1>1, <1>2, <3>1, PartsAreDisjoint
    <3> QED
      BY <1>1, <1>2, <2>1, <2>2, <2>4, <3>1, <3>2 DEF PatchedBy, Patches
  <2>5. (\A i \in 1..Len(parts) : i < cursor => ~PatchedBy(i, u)) => hidden[u] = 0
    BY <1>1, <1>2, <2>1, <2>2 DEF Patches
  <2> HIDE DEF units, refused
  <2> QED
    BY <1>2, <2>1, <2>2, <2>3, <2>4, <2>5
<1> QED
  BY <1>6, <1>7, <1>8, <1>9, <1>10 DEF DiskInv

\* Giving up changes nothing; neither does a stuttering step.
LEMMA OtherSteps == DiskInv /\ (Reject \/ UNCHANGED vars) => DiskInv'
<1> SUFFICES ASSUME DiskInv, Reject \/ UNCHANGED vars PROVE DiskInv'
  OBVIOUS
<1>1. /\ UNCHANGED input /\ UNCHANGED <<input, parts>>
      /\ parts' = parts /\ cursor' = cursor /\ disk' = disk /\ hidden' = hidden
      /\ pc' = pc \/ pc' = "rejected"
  BY DEF Reject, vars, input
<1>2. TypeOK /\ AllGood /\ InOrder /\ CursorOK /\ Contents /\ Patches
  BY DEF DiskInv
<1>3. AllGood' /\ InOrder'
  BY <1>1, <1>2, SameParts
<1>4. TypeOK'
  BY <1>1, <1>2, SameInput DEF TypeOK
<1>5. CursorOK'
  BY <1>1, <1>2, SameInput DEF CursorOK
<1>6. \A i \in 1..Len(parts) : (Done(i)' => Done(i)) /\ (pc' # "rejected" => (Done(i) => Done(i)'))
  BY <1>1 DEF Done
<1>7. Contents'
  BY <1>1, <1>2, <1>6, SameInput DEF Contents
<1>8. Patches'
  BY <1>1, <1>2, <1>6, SameInput DEF Patches, PatchedBy
<1> QED
  BY <1>3, <1>4, <1>5, <1>7, <1>8 DEF DiskInv

-----------------------------------------------------------------------------
\* The inductive invariant holds while an image is laid out and written, whatever the
\* job.
THEOREM DiskInvariant == Spec => []DiskInv
<1>1. Init => DiskInv
  BY DiskInit
<1>2. DiskInv /\ [Next]_vars => DiskInv'
  BY PlaceStep, ArrangeStep, MetadataStep, PartStep, PatchStep, BackupStep, OtherSteps
     DEF Next, Ended
<1> QED
  BY <1>1, <1>2, PTL DEF Spec

\* Partitions and blobs are in order, disjoint, aligned, of the size asked for and
\* inside the usable range, and firmware loads all of an ISO's boot image and nothing
\* behind the medium.
THEOREM LayoutSound == Spec => []LayoutIsSound
<1>1. DiskInv => LayoutIsSound
  <2> SUFFICES ASSUME DiskInv PROVE LayoutIsSound
    OBVIOUS
  <2>1. TypeOK /\ DOMAIN parts = 1..Len(parts)
    BY DEF DiskInv, TypeOK
  <2>2. PartsAreSound
    BY <2>1 DEF DiskInv, PartsAreSound, AllGood, Good, InOrder
  <2>3. BootImageIsLoaded
    <3> SUFFICES ASSUME scheme = "iso"
                 PROVE  LET size == specs[1].size
                        IN  /\ (4 * BOOT_IMAGE_SECTOR)..(4 * BOOT_IMAGE_SECTOR + size - 1)
                                   \subseteq Loaded(size)
                            /\ Loaded(size) \subseteq 0..(4 * totalUnits - 1)
      BY DEF BootImageIsLoaded
    <3> DEFINE size == specs[1].size
    <3>1. 1 \in 1..Len(specs) /\ specs[1] \in Item
      <4>1. specs \in Seq(Item) /\ Len(specs) = 1
        BY <2>1, JobFacts
      <4> QED
        BY <4>1
    <3>2. size \in Nat /\ size > 0 /\ totalUnits = 23 + ((size + 4 - 1) \div 4)
      BY <2>1, <3>1, JobFacts DEF Item, CeilDiv, BOOT_IMAGE_SECTOR
    <3> HIDE DEF size
    <3>3. MaxCatalog \in Nat
      BY DiskAssumption
    <3> QED
      BY <3>2, <3>3 DEF Loaded, SectorCount, BOOT_IMAGE_SECTOR, size
  <2> QED
    BY <2>2, <2>3 DEF LayoutIsSound
<1> QED
  BY <1>1, DiskInvariant, PTL

\* In the finished image all metadata and every part are as they were written: the
\* order of the writes does not matter, because no two overlap.
THEOREM WritesAreKept == Spec => []NothingOverwritten
<1>1. DiskInv => NothingOverwritten
  <2> SUFFICES ASSUME DiskInv, pc = "written" PROVE NothingOverwritten
    BY DEF NothingOverwritten
  <2>1. DOMAIN parts = 1..Len(parts) /\ \A i \in 1..Len(parts) : Done(i)
    BY DEF DiskInv, TypeOK, Done
  <2> QED
    BY <2>1 DEF DiskInv, Contents, NothingOverwritten
<1> QED
  BY <1>1, DiskInvariant, PTL

\* In the finished image the start of each partition to be patched is in its boot
\* sector and in its backup, and nowhere else.
THEOREM PatchesInside == Spec => []PatchesStayInside
<1>1. DiskInv => PatchesStayInside
  <2> SUFFICES ASSUME DiskInv, pc = "written", NEW u \in DOMAIN hidden
               PROVE  hidden[u] = LET patched == {i \in DOMAIN parts : PatchedBy(i, u)}
                                  IN  IF patched = {} THEN 0
                                      ELSE parts[CHOOSE i \in patched : TRUE].start
    BY DEF PatchesStayInside, PatchedBy
  <2> DEFINE patched == {i \in DOMAIN parts : PatchedBy(i, u)}
  <2>1. DOMAIN parts = 1..Len(parts)
    BY DEF DiskInv, TypeOK
  <2>2. \A i \in patched : hidden[u] = parts[i].start
    BY <2>1 DEF DiskInv, Patches, Done
  <2>3. patched = {} => hidden[u] = 0
    BY <2>1 DEF DiskInv, Patches, Done
  <2> HIDE DEF patched
  <2> QED
    BY <2>2, <2>3 DEF patched
<1> QED
  BY <1>1, DiskInvariant, PTL

=============================================================================
