----------------------------- MODULE MCDiskImage -----------------------------
(* Small disks on which two or three partitions or blobs just fit or just    *)
(* do not, and boot images around the largest count of a catalogue.          *)
EXTENDS DiskImage

Job(kind, total, list) == [scheme |-> kind, total |-> total, specs |-> list]
Ask(size, alignment, start) ==
    [size |-> size, alignment |-> alignment, start |-> start, patch |-> FALSE, boot |-> -1]

Asked == {Ask(size, alignment, start) :
            size \in {1, 3}, alignment \in {1, 4}, start \in {-1, 0, 4, 8, 11}}
         \cup {Ask(1, 0, 0)}
Lists == {<<>>} \cup {<<a, b>> : a, b \in Asked}
         \cup {<<a, b, c>> : a, b, c \in {Ask(1, 1, 0), Ask(3, 4, 0), Ask(2, 1, 8)}}
         \cup {<<Ask(1, 1, 0), Ask(1, 1, 0), Ask(1, 1, 0), Ask(1, 1, 0), Ask(1, 1, 0)>>}

\* FAT images with their backup boot sector inside, at the end of, and behind the image.
Patched(size, boot) == [Ask(size, 1, 0) EXCEPT !.patch = TRUE, !.boot = boot]
PatchLists == {<<Patched(n, b), Patched(2, c)>> : n \in 1..3, b \in -1..4, c \in {0, 1}}
              \cup {<<Patched(n, b), Ask(1, 4, 0)>> : n \in 1..3, b \in -1..4}

\* Blobs that touch, overlap, are empty, or hang over the end.
Blobs == {Ask(size, 0, offset) : size \in {0, 1, 3}, offset \in {0, 1, 2, 4, 5}}
BlobLists == {<<>>} \cup {<<a>> : a \in Blobs} \cup {<<a, b>> : a, b \in Blobs}
             \cup {<<a, b, c>> : a, b, c \in {b \in Blobs : b.start # 5}}

MCJobs ==
    {Job(kind, total, list) : kind \in {"gpt", "mbr"}, total \in {9, 13, 14, 15},
                                list \in Lists \cup PatchLists}
    \cup {Job("raw", 5, list) : list \in BlobLists}
    \cup {Job("iso", BOOT_IMAGE_SECTOR + CeilDiv(size, 4), <<Ask(size, 0, 0)>>) : size \in 1..10}
=============================================================================
