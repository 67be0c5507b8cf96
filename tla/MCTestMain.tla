----------------------------- MODULE MCTestMain -----------------------------
(* Runfile 1 is an image and 2 a gzipped one.  One medium of every kind and   *)
(* flag, and pairs that share a runfile, a name or a boot index.              *)
EXTENDS TestMain

Medium(kind, path, flags, compression, export) ==
    [kind |-> kind, path |-> path, name |-> "", cdrom |-> flags = "cdrom", raw |-> TRUE,
     compression |-> compression,
     readonly |-> IF flags = "readonly" THEN "on" ELSE "default",
     snapshot |-> CASE flags = "writable" -> "off" [] flags = "snapshot" -> "on" [] OTHER -> "default",
     bootindex |-> NoBoot, size |-> 1, export |-> export]

Image(path, flags) == Medium("image", path, flags, "auto", FALSE)
Seed(path, compression) == Medium("image", path, "writable", compression, TRUE)
Scratch(name) == [Medium("scratch", 1, "writable", "none", TRUE) EXCEPT !.name = name]
Boots(medium, i) == [medium EXCEPT !.bootindex = i]

Singles ==
    {Image(path, flags) : path \in {1, 2}, flags \in {"cdrom", "readonly", "snapshot", "writable"}}
    \cup {Seed(path, c) : path \in {1, 2}, c \in {"auto", "gzip", "none", "zip"}}
    \cup {Scratch("s"), Scratch(""), Scratch("disk"), [Scratch("s") EXCEPT !.size = 0],
          Boots(Scratch("s"), 0), Boots(Seed(1, "auto"), 1),
          [Image(1, "readonly") EXCEPT !.export = TRUE]}
Pairs ==
    {<<a, b>> : a \in {Seed(1, "auto"), Boots(Seed(2, "none"), 2)},
                b \in {Seed(1, "none"), Image(1, "snapshot"), Scratch("s"), Scratch("media0"),
                      Boots(Image(2, "cdrom"), 2)}}
MCDefaultNames == <<"media0", "media1">>
MediaLists == {<<>>} \cup {<<m>> : m \in Singles} \cup Pairs

Uefi == [arch |-> "x86_64", boot |-> "uefi", firmware |-> TRUE, kernel |-> FALSE,
         kernelInput |-> FALSE, memory |-> 256, cpus |-> 1, gic |-> "default",
         badOption |-> FALSE, cpuModel |-> "none", graphics |-> FALSE,
         graphicsDevice |-> "none", firmwareDir |-> "none", dashL |-> FALSE,
         debugcon |-> FALSE, requireKvm |-> FALSE, skip |-> FALSE]
Kernel == [Uefi EXCEPT !.boot = "direct-kernel", !.kernel = TRUE]

\* Machines that differ in the options that are judged together.
Machines ==
    {[Uefi EXCEPT !.boot = boot, !.firmware = f, !.kernel = k, !.kernelInput = i] :
        boot \in {"uefi", "direct-kernel", "bios"}, f, k, i \in BOOLEAN}
    \cup {[m EXCEPT !.arch = arch, !.cpus = cpus, !.gic = gic, !.debugcon = d] :
        m \in {Uefi, Kernel}, arch \in {"x86_64", "aarch64", "riscv"}, cpus \in {0, 8, 9},
        gic \in {"default", "2", "3"}, d \in BOOLEAN}
    \cup {[Uefi EXCEPT !.graphics = g, !.graphicsDevice = d] :
        g \in BOOLEAN, d \in {"none", "empty", "named"}}
    \cup {[Uefi EXCEPT !.cpuModel = c, !.badOption = b, !.memory = n] :
        c \in {"none", "good", "bad"}, b \in BOOLEAN, n \in {0, 1}}
    \cup {[Uefi EXCEPT !.firmwareDir = f, !.dashL = l, !.requireKvm = k, !.skip = s] :
        f \in {"none", "file", "other"}, l, k, s \in BOOLEAN}

Skips == [Uefi EXCEPT !.requireKvm = TRUE, !.skip = TRUE]
Option(disk, store, exportVars, hook, machine) ==
    [disk |-> disk, vars |-> store, exportVars |-> exportVars, hook |-> hook, machine |-> machine]

MCTests ==
    {[media |-> list, options |-> Option(disk, store, export, hook, machine)] :
        list \in MediaLists, disk \in {<<>>, <<DiskSpec(1)>>, <<DiskSpec(2)>>},
        store, export \in BOOLEAN, hook \in {"none", "found", "missing"}, machine \in {Uefi, Skips}}
    \cup {[media |-> <<>>, options |-> Option(<<>>, store, FALSE, "none", machine)] :
        store \in BOOLEAN, machine \in Machines}
=============================================================================
