------------------------------ MODULE DiskImage ------------------------------
(***************************************************************************)
(* The image builders gpt_image.py, mbr_image.py, raw_image.py and         *)
(* iso_image.py: each places what it was given (partitions, blobs, a boot  *)
(* image) in a file of known size, raises when something does not fit, and *)
(* writes content and metadata in a fixed order.                           *)
(*                                                                         *)
(* Sizes are in the builder's units: sectors of 512 bytes for GPT and MBR, *)
(* bytes for raw images, sectors of 2048 bytes for ISO.  disk holds who    *)
(* wrote each unit last, hidden the hidden-sectors field of a FAT boot     *)
(* sector there.                                                           *)
(***************************************************************************)
EXTENDS Integers, Sequences, FiniteSets

CONSTANTS EntrySectors,   \* GPT_ENTRY_ARRAY_SECTORS
          EntryCount,     \* GPT_ENTRY_COUNT
          MaxCatalog,     \* the largest sector count of a boot catalogue: 0xFFFF
          Jobs            \* what is built: [scheme, total, specs]

\* start = 0: no start_lba; for a blob it is the offset.  boot describes the first
\* sector of a partition image: -1 when it is no FAT boot sector, else the number of
\* its backup sector (0: none).  The boot image of an ISO has its size in units of
\* 512 bytes.  Images that are empty or not a multiple of 512 bytes are refused
\* before they are placed.
Item == [size : Nat, alignment : Int, start : Int, patch : BOOLEAN, boot : Nat \cup {-1}]

VOLUME_DESCRIPTOR_SECTOR == 16
BOOT_CATALOG_SECTOR == 22
BOOT_IMAGE_SECTOR == 23
CeilDiv(a, b) == (a + b - 1) \div b

\* total_sectors of an ISO follows from its boot image.
JobOK(job) ==
    /\ job \in [scheme : {"gpt", "mbr", "raw", "iso"}, total : Nat \ {0}, specs : Seq(Item)]
    /\ job.scheme # "raw" => \A i \in DOMAIN job.specs : job.specs[i].size > 0
    /\ job.scheme = "raw" => \A i \in DOMAIN job.specs : job.specs[i].start >= 0
    /\ job.scheme = "iso" => /\ Len(job.specs) = 1
                             /\ job.total = BOOT_IMAGE_SECTOR + CeilDiv(job.specs[1].size, 4)

ASSUME DiskAssumption ==
    /\ {EntrySectors, EntryCount, MaxCatalog} \subseteq Nat \ {0}
    /\ \A job \in Jobs : JobOK(job)

VARIABLES scheme, totalUnits, specs,  \* the input
          pc,                         \* "place", "arranged", "write", "patch", "written" or "rejected"
          cursor, parts,              \* the layout so far: [start, end, of]
          disk, hidden                \* the file

vars == <<scheme, totalUnits, specs, pc, cursor, parts, disk, hidden>>
input == <<scheme, totalUnits, specs>>

\* Writers other than the parts, which are numbered as in specs.
Meta == 0               \* MBR, GPT headers and entries, ISO descriptors
Free == -1

AlignUp(value, alignment) == CeilDiv(value, alignment) * alignment

Partitioned == scheme \in {"gpt", "mbr"}

\* The range content may use: between the GPT's entry arrays, after the MBR,
\* behind the boot catalogue, or everything.
FirstUsable == CASE scheme = "gpt" -> 2 + EntrySectors
                 [] scheme = "mbr" -> 1
                 [] scheme = "raw" -> 0
                 [] scheme = "iso" -> BOOT_IMAGE_SECTOR

\* Mutant: the backup header's entry array is one sector short.
LastUsable_OffByOne ==
    IF scheme = "gpt" THEN totalUnits - EntrySectors - 1 ELSE totalUnits - 1

LastUsable == IF scheme = "gpt" THEN totalUnits - EntrySectors - 2 ELSE totalUnits - 1

\* The units of the metadata, as the builders write them.
MetaUnits ==
    CASE scheme = "gpt" -> (0..(1 + EntrySectors)) \cup ((totalUnits - EntrySectors - 1)..(totalUnits - 1))
      [] scheme = "mbr" -> {0}
      [] scheme = "raw" -> {}
      [] scheme = "iso" -> VOLUME_DESCRIPTOR_SECTOR..BOOT_CATALOG_SECTOR

Init ==
    /\ \E job \in Jobs : scheme = job.scheme /\ totalUnits = job.total /\ specs = job.specs
    /\ pc = "place"
    /\ cursor = FirstUsable
    /\ parts = <<>>
    /\ disk = [u \in 0..(totalUnits - 1) |-> Free]
    /\ hidden = [u \in 0..(totalUnits - 1) |-> 0]

-----------------------------------------------------------------------------
(***************************************************************************)
(* Placement.                                                              *)
(***************************************************************************)
Current == specs[Len(parts) + 1]

StartOf(spec) ==
    CASE scheme = "iso" -> BOOT_IMAGE_SECTOR
      [] scheme = "raw" -> spec.start
      [] OTHER -> IF spec.start # 0 THEN spec.start ELSE AlignUp(cursor, spec.alignment)
EndOf(spec) ==
    StartOf(spec) + (IF scheme = "iso" THEN CeilDiv(spec.size, 4) ELSE spec.size) - 1

CountFits ==
    /\ scheme = "gpt" => Len(specs) \in 1..EntryCount
    /\ scheme = "mbr" => Len(specs) \in 1..4

\* Mutant: a requested start is not compared with the cursor.
Fits_AnyStart(spec) ==
    /\ Partitioned => /\ spec.alignment > 0 /\ spec.start >= 0
                      /\ StartOf(spec) % spec.alignment = 0
    /\ EndOf(spec) <= LastUsable

\* The conditions under which the loop over the specs does not raise.
Fits(spec) ==
    /\ Partitioned => /\ spec.alignment > 0 /\ spec.start >= 0
                      /\ StartOf(spec) % spec.alignment = 0
                      /\ StartOf(spec) >= cursor
    /\ EndOf(spec) <= LastUsable

Place ==
    /\ pc = "place" /\ CountFits /\ Len(parts) < Len(specs)
    /\ Fits(Current)
    /\ parts' = Append(parts, [start |-> StartOf(Current), end |-> EndOf(Current),
                               of |-> Len(parts) + 1])
    /\ cursor' = EndOf(Current) + 1
    /\ UNCHANGED <<input, pc, disk, hidden>>

Reject ==
    /\ pc = "place"
    /\ ~CountFits \/ (Len(parts) < Len(specs) /\ ~Fits(Current))
    /\ pc' = "rejected"
    /\ UNCHANGED <<input, cursor, parts, disk, hidden>>

\* The adjacent blobs that create_raw_image refuses; ends here are inclusive.
Overlap(order) == \E i \in 1..(Len(order) - 1) : order[i + 1].start <= order[i].end

\* Blobs are sorted by offset, and by the name of their source where offsets are
\* equal, which leaves either order.
Arrange ==
    /\ pc = "place" /\ scheme = "raw" /\ Len(parts) = Len(specs)
    /\ \E f \in [DOMAIN parts -> DOMAIN parts] :
        LET order == [i \in DOMAIN parts |-> parts[f[i]]]
        IN  /\ \A i, j \in DOMAIN parts : i < j => f[i] # f[j] /\ order[i].start <= order[j].start
            /\ parts' = order
            /\ pc' = IF Overlap(order) THEN "rejected" ELSE "arranged"
    /\ UNCHANGED <<input, cursor, disk, hidden>>

-----------------------------------------------------------------------------
(***************************************************************************)
(* The writes.  The file is created and truncated only when the whole      *)
(* layout is known.                                                        *)
(***************************************************************************)
WriteUnits(units, writer) ==
    disk' = [u \in DOMAIN disk |-> IF u \in units THEN writer ELSE disk[u]]

\* The metadata in front of the content: MBR and primary GPT, ISO descriptors.
WriteMetadata ==
    /\ IF scheme = "raw" THEN pc = "arranged"
       ELSE pc = "place" /\ CountFits /\ Len(parts) = Len(specs)
    /\ pc' = "write"
    /\ cursor' = 1
    /\ WriteUnits({u \in MetaUnits : u < FirstUsable}, Meta)
    /\ UNCHANGED <<input, parts, hidden>>

Part == parts[cursor]

\* One image or blob; cursor is its place in parts.
WritePart ==
    /\ pc = "write" /\ cursor <= Len(parts)
    /\ WriteUnits(Part.start..Part.end, Part.of)
    /\ hidden' = [u \in DOMAIN hidden |-> IF u \in Part.start..Part.end THEN 0 ELSE hidden[u]]
    /\ IF Partitioned /\ specs[Part.of].patch THEN pc' = "patch" /\ UNCHANGED cursor
       ELSE cursor' = cursor + 1 /\ UNCHANGED pc
    /\ UNCHANGED <<input, parts>>

\* Mutant: the backup sector may be the one behind the partition.
BackupOutside_OffByOne(spec) == spec.boot > spec.size

BackupOutside(spec) == spec.boot + 1 > spec.size

\* _patch_fat_hidden_sectors: the partition's start goes into its boot sector and
\* then into the backup, unless that lies outside.
Patch ==
    /\ pc = "patch"
    /\ LET spec == specs[Part.of]
           backup == IF spec.boot = 0 \/ BackupOutside(spec) THEN {} ELSE {Part.start + spec.boot}
           units == IF spec.boot = -1 THEN {} ELSE {Part.start} \cup backup
       IN  /\ hidden' = [u \in DOMAIN hidden |-> IF u \in units THEN Part.start ELSE hidden[u]]
           /\ pc' = IF spec.boot = -1 \/ (spec.boot # 0 /\ BackupOutside(spec))
                      THEN "rejected" ELSE "write"
    /\ cursor' = cursor + 1
    /\ UNCHANGED <<input, parts, disk>>

\* The backup GPT goes last.
WriteBackup ==
    /\ pc = "write" /\ cursor > Len(parts)
    /\ pc' = "written"
    /\ WriteUnits({u \in MetaUnits : u >= FirstUsable}, Meta)
    /\ UNCHANGED <<input, cursor, parts, hidden>>

Ended == pc \in {"rejected", "written"} /\ UNCHANGED vars

Next ==
    \/ Place \/ Reject \/ Arrange
    \/ WriteMetadata \/ WritePart \/ Patch \/ WriteBackup \/ Ended

Spec == Init /\ [][Next]_vars

-----------------------------------------------------------------------------
(***************************************************************************)
(* What a reader of the image finds.                                       *)
(***************************************************************************)

\* The count of 512-byte sectors in _boot_catalog; 0 stands for "to the end".
SectorCount(size) == IF size <= MaxCatalog THEN size ELSE 0

\* The units of 512 bytes that firmware loads: 0 and 1 mean the rest of the medium.
Loaded(size) ==
    (4 * BOOT_IMAGE_SECTOR)..(IF SectorCount(size) <= 1 THEN 4 * totalUnits - 1
                              ELSE 4 * BOOT_IMAGE_SECTOR + SectorCount(size) - 1)

\* Type invariant.
TypeOK ==
    /\ [scheme |-> scheme, total |-> totalUnits, specs |-> specs] \in Jobs
    /\ pc \in {"place", "arranged", "write", "patch", "written", "rejected"}
    /\ cursor \in Int
    /\ parts \in Seq([start : Int, end : Int, of : DOMAIN specs]) /\ Len(parts) <= Len(specs)
    /\ disk \in [0..(totalUnits - 1) -> Int]
    /\ hidden \in [0..(totalUnits - 1) -> Nat]

PartsAreSound ==
    Partitioned \/ pc \notin {"place", "rejected"} =>
        \A i \in DOMAIN parts :
            LET spec == specs[parts[i].of]
            IN  /\ FirstUsable <= parts[i].start
                /\ parts[i].end <= LastUsable
                /\ Partitioned => parts[i].start % spec.alignment = 0
                /\ scheme # "iso" => parts[i].end - parts[i].start + 1 = spec.size
                /\ \A j \in DOMAIN parts : i < j => parts[i].end < parts[j].start

BootImageIsLoaded ==
    scheme = "iso" /\ pc = "written" =>
        LET size == specs[1].size
        IN  /\ (4 * BOOT_IMAGE_SECTOR)..(4 * BOOT_IMAGE_SECTOR + size - 1) \subseteq Loaded(size)
            /\ Loaded(size) \subseteq 0..(4 * totalUnits - 1)

\* Before anything is written the parts are in order and disjoint, inside the usable
\* range, aligned and of the size asked for, whatever mix of requested and computed
\* starts; comparing adjacent blobs is enough, empty ones included.  The 16-bit sector
\* count of an ISO's boot catalogue loads the whole boot image and nothing behind the
\* medium, for images below, at and above what the field can hold.
LayoutIsSound == PartsAreSound /\ BootImageIsLoaded

\* In the finished image every metadata unit is metadata and every unit of a part is
\* that part's: no write, the backup GPT's last one included, destroyed an earlier one.
NothingOverwritten ==
    pc = "written" =>
        /\ \A u \in MetaUnits : disk[u] = Meta
        /\ \A i \in DOMAIN parts : \A u \in parts[i].start..parts[i].end : disk[u] = parts[i].of

\* In the finished image the boot sector and the backup boot sector of every
\* partition to be patched hold the partition's start, and no other sector was
\* patched: the backup's place comes from the image and must not reach a neighbour.
PatchesStayInside ==
    pc = "written" =>
        \A u \in DOMAIN hidden :
            hidden[u] = LET of(i) == specs[parts[i].of]
                            patched == {i \in DOMAIN parts :
                                           /\ Partitioned /\ of(i).patch
                                           /\ u \in parts[i].start..parts[i].end
                                           /\ u \in {parts[i].start, parts[i].start + of(i).boot}}
                        IN  IF patched = {} THEN 0 ELSE parts[CHOOSE i \in patched : TRUE].start

=============================================================================
