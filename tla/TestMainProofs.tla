--------------------------- MODULE TestMainProofs ---------------------------
(***************************************************************************)
(* Theorems about TestMain, for every list of media, every set of runfiles *)
(* and every machine a test may declare.                                   *)
(***************************************************************************)
EXTENDS TestMain, TLAPS

-----------------------------------------------------------------------------
(***************************************************************************)
(* The inductive invariant.                                                *)
(***************************************************************************)
Medium == [name : Names, bootindex : Int, readonly : BOOLEAN, snapshot : BOOLEAN,
           export : BOOLEAN, path : Files]
Stages == {"load", "rejected", "machine", "config", "probe", "start", "running", "export",
           "exportVars", "verdict", "hook", "returned"}

Types ==
    /\ options \in Options /\ stage \in Stages
    /\ declared \in Seq(Declared)
    /\ Len(declared) < MaxMedia /\ Len(declared) <= Len(DefaultNames)
    /\ media \in Seq(Medium) /\ files \in [Files -> Content]
    /\ kvm \in {"unprobed", "available", "unavailable"}
    /\ alive \in BOOLEAN /\ passed \in BOOLEAN /\ hooked \in BOOLEAN /\ junit \in BOOLEAN
    /\ index \in 1..Len(media) + 1 /\ errors \subseteq {"media", "vars"} /\ status \in 0..2

\* A medium has its private file, or is attached where it is and not for writing;
\* the file is there.
Attached ==
    \A i \in 1..Len(media) :
        /\ \/ media[i].path = <<"private", i>>
           \/ /\ media[i].path \in {"runfile"} \X Runfiles
              /\ media[i].readonly \/ media[i].snapshot
        /\ files[media[i].path].form # "absent"

\* The media are those of the list, in its order.
InOrder ==
    /\ stage = "load" => Len(media) = 0
    /\ Len(media) <= Len(Specs)
    /\ \A i \in 1..Len(media) :
           media[i].name = Specs[i].name /\ media[i].bootindex = Specs[i].bootindex

\* What the macros have made sure of once the target is loaded.
SpecOK(spec) ==
    /\ MediumOK(spec) /\ spec.name # ""
    /\ spec.readonly # "default" /\ spec.snapshot # "default"
    /\ spec.kind = "scratch" => spec.raw /\ spec.readonly = "off" /\ spec.snapshot = "off"
Accepted ==
    /\ stage \notin {"load", "rejected"} =>
           Distinct(Specs) /\ \A i \in 1..Len(Specs) : SpecOK(Specs[i])
    /\ stage = "machine" => LoadsMachine(options.machine, options.vars)

\* How far main() has come.
MediaExported ==
    \A i \in 1..Len(media) :
        i < index /\ media[i].export => files[<<"artifact", i>>] = files[media[i].path]
VarsExported == options.exportVars => files[<<"artifact", Vars>>] = files[Destination(Vars)]
Progress ==
    /\ alive => stage = "running" \/ (stage = "returned" /\ status = 1)
    /\ passed => stage \in {"export", "exportVars", "verdict", "returned"}
    /\ hooked => stage = "returned" /\ status = 1
    /\ junit => stage = "returned" /\ ~passed
    /\ stage = "probe" => options.machine.skip
    /\ stage \notin {"export", "exportVars", "verdict", "hook", "returned"} => index = 1 /\ errors = {}
    /\ stage = "export" => errors = {} /\ MediaExported
    /\ stage \in {"exportVars", "verdict"} /\ errors = {} => MediaExported /\ index = Len(media) + 1
    /\ stage = "verdict" /\ errors = {} => VarsExported
    /\ PassMeansExported

MainInv == Types /\ Attached /\ SourcesAreKept /\ InOrder /\ Accepted /\ Progress

-----------------------------------------------------------------------------
(***************************************************************************)
(* The operators.                                                          *)
(***************************************************************************)

\* What is in a sequence.
LEMMA ElementOf ==
    ASSUME NEW S, NEW q \in Seq(S), NEW i \in 1..Len(q)
    PROVE  q[i] \in S
  OBVIOUS

\* What the proofs use of the assumption about the constants.
LEMMA Bounds == MaxMedia \in Nat /\ MaxWrites \in Nat
  BY MainAssumption
\* A runfile's key is never that of the variable store.
LEMMA Keys == \A key \in Runfiles : key \in Nat /\ key # 0
  BY MainAssumption DEF Vars
\* Names are given to media that have none.
LEMMA DefaultName ==
    /\ "" \in Names /\ "disk" \in Names
    /\ \A i \in 1..Len(DefaultNames) : DefaultNames[i] \in Names /\ DefaultNames[i] # ""
<1>1. {"", "disk"} \subseteq Names /\ DefaultNames \in Seq(Names \ {""})
  BY MainAssumption
<1>2. \A i \in 1..Len(DefaultNames) : DefaultNames[i] \in Names \ {""}
  BY <1>1, ElementOf
<1> QED
  BY <1>1, <1>2

\* The files a test has to do with.
LEMMA FilesOf ==
    /\ \A key \in Runfiles \cup {Vars} : <<"runfile", key>> \in Files
    /\ \A i \in 0..MaxMedia : <<"private", i>> \in Files /\ <<"artifact", i>> \in Files
<1> DEFINE K == Runfiles \cup 0..MaxMedia
<1>1. Vars \in K /\ (\A key \in Runfiles : key \in K) /\ \A i \in 0..MaxMedia : i \in K
  BY Bounds DEF Vars
<1>2. Files = {"runfile", "private", "artifact"} \X K
  BY DEF Files, Places
<1> HIDE DEF K
<1> QED
  BY <1>1, <1>2

\* The specs are the disk, if there is one, and the media.
LEMMA SpecsOf ==
    ASSUME NEW opts \in Options, NEW list \in Seq(Declared), NEW specs, specs = opts.disk \o list
    PROVE  /\ specs \in Seq(Declared)
           /\ Len(opts.disk) \in 0..1
           /\ Len(specs) = Len(opts.disk) + Len(list)
           /\ \A i \in 1..Len(opts.disk) : \E key \in Runfiles : specs[i] = DiskSpec(key)
           /\ \A i \in Len(opts.disk) + 1..Len(specs) : specs[i] = list[i - Len(opts.disk)]
<1> DEFINE d == opts.disk
<1>1. d = <<>> \/ \E key \in Runfiles : d = <<DiskSpec(key)>>
  BY DEF Options
<1>2. \A key \in Runfiles : DiskSpec(key) \in Declared
  <2>1. "disk" \in Names /\ "auto" \in Compressions
    BY DefaultName DEF Compressions
  <2> QED
    BY <2>1 DEF DiskSpec, Declared
<1> HIDE DEF d
<1>3. d \in Seq(Declared) /\ Len(d) \in 0..1
      /\ \A i \in 1..Len(d) : \E key \in Runfiles : d[i] = DiskSpec(key)
  <2>1. CASE d = <<>>
    BY <2>1
  <2>2. ASSUME NEW key \in Runfiles, d = <<DiskSpec(key)>>
        PROVE  d \in Seq(Declared) /\ Len(d) = 1 /\ d[1] = DiskSpec(key)
    <3> DEFINE e == DiskSpec(key)
               D == Declared
    <3>1. e \in D /\ d = <<e>>
      BY <1>2, <2>2
    <3> HIDE DEF e, D
    <3>2. d \in Seq(D) /\ Len(d) = 1 /\ d[1] = e
      BY <3>1
    <3> QED
      BY <3>2 DEF e, D
  <2> QED
    BY <1>1, <2>1, <2>2
<1> DEFINE D == Declared
<1>4. specs = d \o list /\ d \in Seq(D) /\ list \in Seq(D)
  BY <1>3 DEF d
<1> HIDE DEF D
<1>5. /\ specs \in Seq(D) /\ Len(specs) = Len(d) + Len(list)
      /\ \A i \in 1..Len(d) : specs[i] = d[i]
      /\ \A i \in Len(d) + 1..Len(d) + Len(list) : specs[i] = list[i - Len(d)]
  BY <1>4
<1>6. /\ specs \in Seq(D) /\ Len(d) \in 0..1 /\ Len(specs) = Len(d) + Len(list)
      /\ \A i \in 1..Len(d) : \E key \in Runfiles : specs[i] = DiskSpec(key)
      /\ \A i \in Len(d) + 1..Len(specs) : specs[i] = list[i - Len(d)]
  BY <1>3, <1>5
<1> QED
  BY <1>6 DEF d, D

\* What a medium becomes: its private file, or attached where it is and not for writing.
LEMMA ResolvedOf ==
    ASSUME NEW spec \in Declared, NEW i \in 1..MaxMedia
    PROVE  LET medium == Resolved(spec, i)
           IN  /\ medium \in Medium
               /\ medium.name = spec.name /\ medium.bootindex = spec.bootindex
               /\ medium.export = spec.export
               /\ spec.readonly # "default" => (medium.readonly <=> spec.readonly = "on")
               /\ spec.snapshot # "default" => (medium.snapshot <=> spec.snapshot = "on")
               /\ \/ medium.path = <<"private", i>>
                  \/ /\ medium.path = <<"runfile", spec.path>> /\ spec.path \in Runfiles
                     /\ medium.readonly \/ medium.snapshot
<1> DEFINE readonly == Given(spec.readonly, spec.kind = "image" /\ spec.cdrom)
           snapshot == Given(spec.snapshot, spec.kind = "image" /\ ~spec.cdrom)
           path == IF Private(spec, ~readonly /\ ~snapshot)
                   THEN Destination(i) ELSE <<"runfile", spec.path>>
<1>1. readonly \in BOOLEAN /\ snapshot \in BOOLEAN
  BY DEF Given
<1>2. /\ spec.name \in Names /\ spec.bootindex \in Int /\ spec.export \in BOOLEAN
      /\ spec.path \in Runfiles
  BY DEF Declared
<1>3. /\ spec.readonly # "default" => (readonly <=> spec.readonly = "on")
      /\ spec.snapshot # "default" => (snapshot <=> spec.snapshot = "on")
  BY DEF Given
<1>4. \/ path = <<"private", i>>
      \/ path = <<"runfile", spec.path>> /\ (readonly \/ snapshot)
  BY DEF Private, Destination
<1>5. path \in Files
  <2>1. i \in 0..MaxMedia /\ spec.path \in Runfiles \cup {Vars}
    BY <1>2, Bounds
  <2> HIDE DEF path
  <2> QED
    BY <1>4, <2>1, FilesOf
<1> HIDE DEF readonly, snapshot, path
<1>6. Resolved(spec, i) = [name |-> spec.name, bootindex |-> spec.bootindex, readonly |-> readonly,
                           snapshot |-> snapshot, export |-> spec.export, path |-> path]
  BY DEF Resolved, readonly, snapshot, path
<1>7. Resolved(spec, i) \in Medium
  BY <1>1, <1>2, <1>5, <1>6 DEF Medium
<1> QED
  BY <1>2, <1>3, <1>4, <1>6, <1>7

\* What the runfiles hold is content, and there.
LEMMA OriginalOf ==
    ASSUME NEW key \in Runfiles \cup {Vars}
    PROVE  Original(key) \in Content /\ Original(key).form \in {"plain", "gzip"}
<1>1. 0 \in 0..MaxWrites /\ key \in Runfiles \cup {0}
  BY Bounds DEF Vars
<1>2. CASE key \in Gzipped
  BY <1>1, <1>2 DEF Original, Content
<1>3. CASE key \notin Gzipped
  BY <1>1, <1>3 DEF Original, Content
<1> QED
  BY <1>2, <1>3

\* What a private file starts with is content, and there.
LEMMA FilledOf ==
    ASSUME NEW spec \in Declared, SourcesAreKept
    PROVE  Filled(spec) \in Content /\ Filled(spec).form # "absent"
<1>1. spec.path \in Runfiles
  BY DEF Declared
<1>2. files[<<"runfile", spec.path>>] = Original(spec.path)
  BY <1>1 DEF SourcesAreKept
<1>3. Original(spec.path) \in Content /\ Original(spec.path).form # "absent"
  BY <1>1, OriginalOf
<1>0. 0 \in 0..MaxWrites
  BY Bounds
<1>4. CASE spec.kind = "scratch"
  <2>1. Filled(spec) = [of |-> 0, form |-> "blank", writes |-> 0]
    BY <1>4 DEF Filled
  <2> QED
    BY <1>0, <2>1 DEF Content
<1>5. CASE spec.kind = "image" /\ Unpacks(spec)
  <2>1. Filled(spec) = [of |-> spec.path, form |-> "plain", writes |-> 0]
    BY <1>5 DEF Filled
  <2> QED
    BY <1>0, <1>1, <2>1 DEF Content
<1>6. CASE spec.kind = "image" /\ ~Unpacks(spec)
  BY <1>2, <1>3, <1>6 DEF Filled
<1> QED
  BY <1>4, <1>5, <1>6 DEF Declared

\* A loaded medium has its flags and its name settled and keeps the rest.
LEMMA LoadedOf ==
    ASSUME NEW spec \in Declared, NEW i \in 1..Len(DefaultNames)
    PROVE  LET loaded == LoadedMedium(spec, i)
           IN  /\ loaded \in Declared /\ loaded.name # ""
               /\ loaded.readonly # "default" /\ loaded.snapshot # "default"
               /\ loaded.kind = "scratch" =>
                      loaded.raw /\ loaded.readonly = "off" /\ loaded.snapshot = "off"
<1> DEFINE readonly == spec.kind = "image" /\ Given(spec.readonly, spec.cdrom)
           snapshot == spec.kind = "image" /\ ~readonly /\ Given(spec.snapshot, ~spec.cdrom)
           r == Flag(readonly)
           s == Flag(snapshot)
           w == spec.raw \/ spec.kind = "scratch"
           c == IF spec.kind = "scratch" THEN "none" ELSE spec.compression
           n == IF spec.name = "" THEN DefaultNames[i] ELSE spec.name
<1>1. /\ r \in {"on", "off"} /\ s \in {"on", "off"}
      /\ spec.kind = "scratch" => r = "off" /\ s = "off"
  BY DEF Flag
<1>2. DefaultNames[i] \in Names /\ DefaultNames[i] # ""
  BY DefaultName
<1>3. n \in Names /\ n # "" /\ c \in Compressions
  BY <1>2 DEF Declared, Compressions
<1>4. w \in BOOLEAN /\ (spec.kind = "scratch" => w)
  OBVIOUS
<1>5. LoadedMedium(spec, i) = [spec EXCEPT !.readonly = r, !.snapshot = s, !.raw = w,
                                           !.compression = c, !.name = n]
  BY DEF LoadedMedium, Declared
<1> HIDE DEF r, s, w, c, n
<1>6. LoadedMedium(spec, i) =
          [kind |-> spec.kind, path |-> spec.path, name |-> n, cdrom |-> spec.cdrom, raw |-> w,
           compression |-> c, readonly |-> r, snapshot |-> s, bootindex |-> spec.bootindex,
           size |-> spec.size, export |-> spec.export]
  BY <1>5 DEF Declared
<1>7. LoadedMedium(spec, i) \in Declared
  <2>1. /\ spec.kind \in {"image", "scratch"} /\ spec.path \in Runfiles /\ spec.cdrom \in BOOLEAN
        /\ spec.bootindex \in Int /\ spec.size \in Int /\ spec.export \in BOOLEAN
    BY DEF Declared
  <2>2. r \in {"default", "on", "off"} /\ s \in {"default", "on", "off"}
    BY <1>1
  <2>3. [kind |-> spec.kind, path |-> spec.path, name |-> n, cdrom |-> spec.cdrom, raw |-> w,
         compression |-> c, readonly |-> r, snapshot |-> s, bootindex |-> spec.bootindex,
         size |-> spec.size, export |-> spec.export] \in Declared
    BY <1>3, <1>4, <2>1, <2>2 DEF Declared
  <2> QED
    BY <1>6, <2>3
<1>8. /\ LoadedMedium(spec, i).kind = spec.kind /\ LoadedMedium(spec, i).name = n
      /\ LoadedMedium(spec, i).readonly = r /\ LoadedMedium(spec, i).snapshot = s
      /\ LoadedMedium(spec, i).raw = w
  BY <1>6
<1> QED
  BY <1>1, <1>3, <1>4, <1>7, <1>8

\* QEMU writes the file of a drive that is neither read-only nor a snapshot.
LEMMA DriveOf ==
    ASSUME NEW medium, DriveOptions(medium) = {}
    PROVE  ~medium.readonly /\ ~medium.snapshot
<1>1. ~medium.readonly
  <2> SUFFICES ASSUME medium.readonly PROVE FALSE
    OBVIOUS
  <2>1. "readonly=on" \in DriveOptions(medium)
    BY DEF DriveOptions
  <2> QED
    BY <2>1
<1>2. ~medium.snapshot
  <2> SUFFICES ASSUME medium.snapshot PROVE FALSE
    OBVIOUS
  <2>1. "snapshot=on" \in DriveOptions(medium)
    BY <1>1 DEF DriveOptions
  <2> QED
    BY <2>1
<1> QED
  BY <1>1, <1>2

-----------------------------------------------------------------------------
(***************************************************************************)
(* What a step may do to the files and to the media.                       *)
(***************************************************************************)
Puts(file, c) == c \in Content /\ files' = [files EXCEPT ![file] = c]

\* The private file of the next medium or the variable store is made, the guest writes
\* one it has, or an artifact is copied.
Written ==
    \/ files' = files
    \/ /\ stage = "config" /\ Len(media) + 1 <= MaxMedia
       /\ \E c : c.form # "absent" /\ Puts(<<"private", Len(media) + 1>>, c)
    \/ stage = "config" /\ \E c : Puts(<<"private", 0>>, c)
    \/ alive /\ \E i \in 0..MaxMedia : \E c : /\ c.form = files[<<"private", i>>].form
                                             /\ Puts(<<"private", i>>, c)
    \/ stage = "export" /\ index <= Len(media) /\ \E c : Puts(<<"artifact", index>>, c)
    \/ stage = "exportVars" /\ \E c : Puts(<<"artifact", 0>>, c)

\* Every medium has room in the bounds.
LEMMA Room ==
    ASSUME Types, InOrder
    PROVE  /\ Len(media) \in Nat /\ Len(Specs) \in Nat /\ Len(media) <= Len(Specs)
           /\ Len(Specs) <= MaxMedia
           /\ \A i \in 1..Len(Specs) : Specs[i] \in Declared
           /\ \A i \in 1..Len(media) : media[i] \in Medium
<1>1. options \in Options /\ declared \in Seq(Declared) /\ media \in Seq(Medium)
  BY DEF Types
<1>2. /\ Specs \in Seq(Declared) /\ Len(options.disk) \in 0..1
      /\ Len(Specs) = Len(options.disk) + Len(declared)
  BY <1>1, SpecsOf DEF Specs
<1>3. Len(declared) \in Nat /\ Len(media) \in Nat /\ Len(Specs) \in Nat
  BY <1>1, <1>2
<1>4. Len(media) <= Len(Specs) /\ Len(declared) < MaxMedia
  BY DEF Types, InOrder
<1>5. Len(Specs) <= MaxMedia
  <2> DEFINE k == Len(options.disk)
             n == Len(declared)
             l == Len(Specs)
  <2>1. k \in 0..1 /\ l = k + n /\ n \in Nat /\ n < MaxMedia /\ MaxMedia \in Nat
    BY <1>2, <1>3, <1>4, Bounds
  <2> HIDE DEF k, n, l
  <2>2. l <= MaxMedia
    BY <2>1
  <2> QED
    BY <2>2 DEF l
<1> QED
  BY <1>1, <1>2, <1>3, <1>4, <1>5, ElementOf

\* Every step does no more to the files.
LEMMA WrittenStep ==
    ASSUME MainInv, [Next]_vars
    PROVE  Written
<1> USE DEF MainInv, kvmVars
<1>0. /\ files \in [Files -> Content] /\ Len(media) \in Nat /\ Len(Specs) \in Nat
      /\ Len(media) <= Len(Specs) /\ Len(Specs) <= MaxMedia /\ MaxMedia \in Nat
      /\ \A i \in 1..Len(Specs) : Specs[i] \in Declared
      /\ \A i \in 1..Len(media) : media[i] \in Medium
  BY Room, Bounds DEF Types
<1>1. CASE Prepare
  <2> DEFINE n == Len(media) + 1
             spec == Specs[n]
             medium == Resolved(spec, n)
  <2>1. /\ stage = "config" /\ n <= Len(Specs)
        /\ files' = IF medium.path[1] = "private" /\ ~RefusedEarly(spec, medium)
                    THEN [files EXCEPT ![medium.path] = Filled(spec)] ELSE files
    BY <1>1 DEF Prepare
  <2>2. n \in 1..Len(Specs) /\ n \in 1..MaxMedia /\ n <= MaxMedia
    BY <1>0, <2>1
  <2>3. spec \in Declared
    BY <1>0, <2>2
  <2> HIDE DEF spec
  <2>4. \/ medium.path = <<"private", n>>
        \/ medium.path = <<"runfile", spec.path>>
    BY <2>2, <2>3, ResolvedOf
  <2>5. Filled(spec) \in Content /\ Filled(spec).form # "absent"
    BY <2>3, FilledOf
  <2> HIDE DEF medium
  <2>6. CASE files' = files
    BY <2>6 DEF Written
  <2>7. CASE medium.path[1] = "private" /\ files' = [files EXCEPT ![medium.path] = Filled(spec)]
    <3>1. medium.path = <<"private", n>>
      BY <2>4, <2>7
    <3>2. Puts(<<"private", n>>, Filled(spec))
      BY <2>5, <2>7, <3>1 DEF Puts
    <3> QED
      BY <2>1, <2>2, <2>5, <3>2 DEF Written
  <2> QED
    BY <2>1, <2>6, <2>7
<1>2. CASE PrepareVars
  <2>1. /\ stage = "config"
        /\ \/ files' = files
           \/ files' = [files EXCEPT ![<<"private", 0>>] = files[<<"runfile", 0>>]]
    BY <1>2 DEF PrepareVars, Destination, Vars
  <2>2. files[<<"runfile", 0>>] \in Content
    BY <1>0, FilesOf DEF Vars
  <2> QED
    BY <2>1, <2>2 DEF Written, Puts
<1>3. CASE GuestWrites
  <2>1. PICK i \in 0..MaxMedia : alive /\ Write(<<"private", i>>)
    <3>1. alive
      BY <1>3 DEF GuestWrites
    <3>2. CASE \E i \in DOMAIN media : DriveOptions(media[i]) = {} /\ Write(media[i].path)
      <4>1. PICK i \in 1..Len(media) : DriveOptions(media[i]) = {} /\ Write(media[i].path)
        BY <3>2 DEF Types
      <4>2. ~media[i].readonly /\ ~media[i].snapshot
        BY <4>1, DriveOf
      <4>3. media[i].path = <<"private", i>>
        BY <4>2 DEF Attached
      <4>4. i \in 0..MaxMedia
        BY <1>0
      <4> QED
        BY <3>1, <4>1, <4>3, <4>4
    <3>3. CASE Write(Destination(Vars))
      <4>1. 0 \in 0..MaxMedia
        BY <1>0
      <4> QED
        BY <3>1, <3>3, <4>1 DEF Destination, Vars
    <3> QED
      BY <1>3, <3>2, <3>3 DEF GuestWrites
  <2> DEFINE file == <<"private", i>>
             c == [files[file] EXCEPT !.writes = @ + 1]
  <2>2. file \in Files
    BY FilesOf
  <2>3. files[file] \in Content /\ files[file].writes < MaxWrites
    BY <1>0, <2>1, <2>2 DEF Write
  <2>4. c \in Content /\ c.form = files[file].form
    <3>1. files[file].writes \in 0..MaxWrites
      BY <2>3 DEF Content
    <3>2. files[file].writes + 1 \in 0..MaxWrites
      BY <2>3, <3>1, Bounds
    <3> QED
      BY <2>3, <3>2 DEF Content
  <2>5. files' = [files EXCEPT ![file] = c]
    BY <1>0, <2>1, <2>2 DEF Write
  <2> HIDE DEF c
  <2> QED
    BY <2>1, <2>4, <2>5 DEF Written, Puts
<1>4. [Absent EXCEPT !.form = "partial"] \in Content
  <2>1. 0 \in 0..MaxWrites
    BY Bounds
  <2>2. [Absent EXCEPT !.form = "partial"] = [of |-> 0, form |-> "partial", writes |-> 0]
    BY DEF Absent
  <2> QED
    BY <2>1, <2>2 DEF Content
<1>5. CASE ExportMedium
  <2>1. /\ stage = "export" /\ index <= Len(media)
        /\ \/ files' = files
           \/ files' = [files EXCEPT ![<<"artifact", index>>] = files[media[index].path]]
           \/ files' = [files EXCEPT ![<<"artifact", index>>] = [Absent EXCEPT !.form = "partial"]]
    BY <1>5 DEF ExportMedium, CopyFails
  <2>2. index \in 1..Len(media)
    BY <1>0, <2>1 DEF Types
  <2>3. media[index].path \in Files
    BY <1>0, <2>2 DEF Medium
  <2>4. files[media[index].path] \in Content
    BY <1>0, <2>3
  <2> QED
    BY <1>4, <2>1, <2>4 DEF Written, Puts
<1>6. CASE ExportVars
  <2>1. /\ stage = "exportVars"
        /\ \/ files' = files
           \/ files' = [files EXCEPT ![<<"artifact", 0>>] = files[<<"private", 0>>]]
           \/ files' = [files EXCEPT ![<<"artifact", 0>>] = [Absent EXCEPT !.form = "partial"]]
    BY <1>6 DEF ExportVars, CopyFails, Destination, Vars
  <2>2. 0 \in 0..MaxMedia
    BY <1>0
  <2>3. files[<<"private", 0>>] \in Content
    BY <1>0, <2>2, FilesOf
  <2> QED
    BY <1>4, <2>1, <2>3 DEF Written, Puts
<1>7. CASE \/ Load \/ ConfigRaises \/ Probe \/ Configure \/ Launch \/ RunEnds \/ RunRaises
           \/ ExportMediaDone \/ Verdict \/ Hook \/ Done \/ UNCHANGED vars
  <2>1. files' = files
    BY <1>7 DEF Load, ConfigRaises, Probe, Configure, Launch, RunEnds, RunRaises, ExportMediaDone,
                Verdict, Hook, Done, vars
  <2> QED
    BY <2>1 DEF Written
<1> QED
  BY <1>1, <1>2, <1>3, <1>5, <1>6, <1>7 DEF Next

\* A step leaves the media alone or attaches the next one, whose file is there.
LEMMA MediaStep ==
    ASSUME MainInv, [Next]_vars
    PROVE  \/ media' = media
           \/ /\ stage = "config" /\ stage' = "config" /\ Len(media) + 1 \in 1..Len(Specs)
              /\ \E m \in Medium :
                     /\ media' = Append(media, m)
                     /\ m.name = Specs[Len(media) + 1].name
                     /\ m.bootindex = Specs[Len(media) + 1].bootindex
                     /\ \/ /\ m.path = <<"private", Len(media) + 1>>
                           /\ files'[m.path].form # "absent"
                        \/ /\ m.path \in {"runfile"} \X Runfiles /\ (m.readonly \/ m.snapshot)
                           /\ files' = files
<1> USE DEF MainInv, kvmVars
<1>0. /\ files \in [Files -> Content] /\ Len(media) \in Nat /\ Len(Specs) \in Nat
      /\ Len(media) <= Len(Specs) /\ Len(Specs) <= MaxMedia /\ MaxMedia \in Nat
      /\ \A i \in 1..Len(Specs) : Specs[i] \in Declared
  BY Room, Bounds DEF Types
<1>1. CASE Prepare
  <2> DEFINE n == Len(media) + 1
             spec == Specs[n]
             medium == Resolved(spec, n)
  <2>1. /\ stage = "config" /\ n <= Len(Specs)
        /\ files' = IF medium.path[1] = "private" /\ ~RefusedEarly(spec, medium)
                    THEN [files EXCEPT ![medium.path] = Filled(spec)] ELSE files
        /\ media' = media \/ (~Refused(spec, medium) /\ media' = Append(media, medium) /\ stage' = stage)
    BY <1>1 DEF Prepare
  <2>2. n \in 1..Len(Specs) /\ n \in 1..MaxMedia /\ n \in 0..MaxMedia
    BY <1>0, <2>1
  <2>3. spec \in Declared
    BY <1>0, <2>2
  <2> HIDE DEF spec
  <2>4. /\ medium \in Medium /\ medium.name = spec.name /\ medium.bootindex = spec.bootindex
        /\ \/ medium.path = <<"private", n>>
           \/ /\ medium.path = <<"runfile", spec.path>> /\ spec.path \in Runfiles
              /\ medium.readonly \/ medium.snapshot
    BY <2>2, <2>3, ResolvedOf
  <2>5. Filled(spec) \in Content /\ Filled(spec).form # "absent"
    BY <2>3, FilledOf
  <2> HIDE DEF medium
  <2>6. CASE media' = media
    BY <2>6
  <2>7. CASE ~Refused(spec, medium) /\ media' = Append(media, medium) /\ stage' = stage
    <3>1. CASE medium.path = <<"private", n>>
      <4>1. files' = [files EXCEPT ![medium.path] = Filled(spec)]
        BY <2>1, <2>7, <3>1 DEF Refused
      <4>2. medium.path \in Files
        BY <2>2, <3>1, FilesOf
      <4>3. files'[medium.path].form # "absent"
        BY <1>0, <2>5, <4>1, <4>2
      <4> QED
        BY <2>1, <2>2, <2>4, <2>7, <3>1, <4>3 DEF spec
    <3>2. CASE /\ medium.path = <<"runfile", spec.path>> /\ spec.path \in Runfiles
               /\ medium.readonly \/ medium.snapshot
      <4>1. files' = files
        BY <2>1, <3>2
      <4>2. medium.path \in {"runfile"} \X Runfiles
        BY <3>2
      <4> QED
        BY <2>1, <2>2, <2>4, <2>7, <3>2, <4>1, <4>2 DEF spec
    <3> QED
      BY <2>4, <3>1, <3>2
  <2> QED
    BY <2>1, <2>6, <2>7
<1>2. CASE ~Prepare
  BY <1>2 DEF Next, Load, PrepareVars, ConfigRaises, Probe, Configure, Launch, GuestWrites, RunEnds,
              RunRaises, ExportMedium, ExportMediaDone, ExportVars, Verdict, Hook, Done, vars
<1> QED
  BY <1>1, <1>2

-----------------------------------------------------------------------------
(***************************************************************************)
(* The invariant holds.                                                    *)
(***************************************************************************)

\* Every step keeps the runfiles and the type of the files.
LEMMA FilesStep ==
    ASSUME MainInv, [Next]_vars
    PROVE  files' \in [Files -> Content] /\ SourcesAreKept'
<1>1. files \in [Files -> Content]
  BY DEF MainInv, Types
<1>2. files' \in [Files -> Content]
      /\ \A key \in Runfiles \cup {Vars} : files'[<<"runfile", key>>] = files[<<"runfile", key>>]
  <2>1. CASE files' = files
    BY <1>1, <2>1
  <2>2. ASSUME NEW place \in {"private", "artifact"}, NEW i, NEW c, Puts(<<place, i>>, c)
        PROVE  /\ files' \in [Files -> Content]
               /\ \A key \in Runfiles \cup {Vars} :
                      files'[<<"runfile", key>>] = files[<<"runfile", key>>]
    <3>1. \A key : <<"runfile", key>> # <<place, i>>
      OBVIOUS
    <3> QED
      BY <1>1, <2>2, <3>1, FilesOf DEF Puts
  <2> QED
    BY <2>1, <2>2, WrittenStep DEF Written
<1>3. SourcesAreKept
  BY DEF MainInv
<1>4. \A key \in Runfiles \cup {Vars} : Original(key)' = Original(key)
  BY DEF Original
<1> QED
  BY <1>2, <1>3, <1>4 DEF SourcesAreKept

\* Every step keeps the media attached.
LEMMA AttachedStep ==
    ASSUME MainInv, [Next]_vars
    PROVE  Attached'
<1>0. /\ files \in [Files -> Content] /\ media \in Seq(Medium) /\ Len(media) \in Nat
      /\ Len(media) <= MaxMedia /\ MaxMedia \in Nat
      /\ \A i \in 1..Len(media) : media[i] \in Medium
  BY Room, Bounds DEF MainInv, Types
<1>1. ASSUME NEW i \in 1..Len(media)
      PROVE  files'[media[i].path].form # "absent"
  <2> DEFINE p == media[i].path
  <2>1. p \in Files
    BY <1>0 DEF Medium
  <2>2. p = <<"private", i>> \/ p \in {"runfile"} \X Runfiles
    BY DEF MainInv, Attached
  <2>3. files[p].form # "absent"
    BY DEF MainInv, Attached
  <2> HIDE DEF p
  <2>4. CASE files' = files
    BY <2>3, <2>4 DEF p
  <2>5. ASSUME NEW c, Puts(<<"private", Len(media) + 1>>, c) \/ Puts(<<"private", 0>>, c)
        PROVE  files'[p].form # "absent"
    <3>1. p # <<"private", Len(media) + 1>> /\ p # <<"private", 0>>
      BY <1>0, <2>2
    <3> QED
      BY <1>0, <2>1, <2>3, <2>5, <3>1 DEF Puts
  <2>6. ASSUME NEW c, NEW j \in 0..MaxMedia, c.form = files[<<"private", j>>].form,
               Puts(<<"private", j>>, c)
        PROVE  files'[p].form # "absent"
    <3>1. CASE p = <<"private", j>>
      BY <1>0, <2>1, <2>3, <2>6, <3>1 DEF Puts
    <3>2. CASE p # <<"private", j>>
      BY <1>0, <2>1, <2>3, <2>6, <3>2 DEF Puts
    <3> QED
      BY <3>1, <3>2
  <2>7. ASSUME NEW c, NEW j, Puts(<<"artifact", j>>, c)
        PROVE  files'[p].form # "absent"
    <3>1. p # <<"artifact", j>>
      BY <2>2
    <3> QED
      BY <1>0, <2>1, <2>3, <2>7, <3>1 DEF Puts
  <2> QED
    BY <2>4, <2>5, <2>6, <2>7, WrittenStep DEF Written, p
<1>2. CASE media' = media
  BY <1>1, <1>2 DEF MainInv, Attached
<1>3. ASSUME NEW m \in Medium, media' = Append(media, m),
             \/ m.path = <<"private", Len(media) + 1>> /\ files'[m.path].form # "absent"
             \/ m.path \in {"runfile"} \X Runfiles /\ (m.readonly \/ m.snapshot) /\ files' = files
      PROVE  Attached'
  <2>1. /\ Len(media') = Len(media) + 1 /\ media'[Len(media) + 1] = m
        /\ \A i \in 1..Len(media) : media'[i] = media[i]
    <3> DEFINE D == Medium
    <3>1. m \in D /\ media \in Seq(D) /\ media' = Append(media, m)
      BY <1>0, <1>3
    <3> HIDE DEF D
    <3> QED
      BY <3>1
  <2>2. \A i \in 1..Len(media') : i \in 1..Len(media) \/ i = Len(media) + 1
    BY <1>0, <2>1
  <2>3. m.path \in {"runfile"} \X Runfiles => files[m.path].form # "absent"
    <3> SUFFICES ASSUME m.path \in {"runfile"} \X Runfiles PROVE files[m.path].form # "absent"
      OBVIOUS
    <3>1. PICK key \in Runfiles : m.path = <<"runfile", key>>
      OBVIOUS
    <3>2. files[m.path] = Original(key)
      BY <3>1 DEF MainInv, SourcesAreKept
    <3> QED
      BY <3>2, OriginalOf
  <2>4. /\ m.path = <<"private", Len(media) + 1>>
           \/ (m.path \in {"runfile"} \X Runfiles /\ (m.readonly \/ m.snapshot))
        /\ files'[m.path].form # "absent"
    BY <1>3, <2>3
  <2>5. ASSUME NEW i \in 1..Len(media)
        PROVE  /\ \/ media[i].path = <<"private", i>>
                  \/ /\ media[i].path \in {"runfile"} \X Runfiles
                     /\ media[i].readonly \/ media[i].snapshot
               /\ files'[media[i].path].form # "absent"
    BY <1>1 DEF MainInv, Attached
  <2> QED
    BY <2>1, <2>2, <2>4, <2>5 DEF Attached
<1> QED
  BY <1>2, <1>3, MediaStep

\* The specs change only when the target is loaded.
LEMMA SpecsStep ==
    ASSUME [Next]_vars
    PROVE  options' = options /\ (Load \/ (declared' = declared /\ Specs' = Specs))
<1>1. options' = options /\ (Load \/ declared' = declared)
  BY DEF Next, Load, Prepare, PrepareVars, ConfigRaises, Probe, Configure, Launch, GuestWrites, RunEnds,
         RunRaises, ExportMedium, ExportMediaDone, ExportVars, Verdict, Hook, Done, vars
<1> QED
  BY <1>1 DEF Specs

\* A loaded list has the length of the declared one and its media are settled.
LEMMA LoadStep ==
    ASSUME MainInv, Load
    PROVE  /\ declared' \in Seq(Declared) /\ Len(declared') = Len(declared)
           /\ \A i \in 1..Len(declared') :
                  /\ declared'[i].name # ""
                  /\ declared'[i].readonly # "default" /\ declared'[i].snapshot # "default"
                  /\ declared'[i].kind = "scratch" =>
                         /\ declared'[i].raw
                         /\ declared'[i].readonly = "off" /\ declared'[i].snapshot = "off"
<1> DEFINE n == Len(declared)
<1>1. /\ n \in Nat /\ DOMAIN declared = 1..n /\ n <= Len(DefaultNames)
      /\ \A i \in 1..n : declared[i] \in Declared
  BY ElementOf DEF MainInv, Types
<1>2. declared' = [i \in 1..n |-> LoadedMedium(declared[i], i)]
  BY <1>1 DEF Load
<1>3. \A i \in 1..n : i \in 1..Len(DefaultNames)
  <2>1. Len(DefaultNames) \in Nat
    <3>1. DefaultNames \in Seq(Names \ {""})
      BY MainAssumption
    <3>2. \A S : DefaultNames \in Seq(S) => Len(DefaultNames) \in Nat
      OBVIOUS
    <3> QED
      BY <3>1, <3>2
  <2> QED
    BY <1>1, <2>1
<1>4. ASSUME NEW i \in 1..n
      PROVE  /\ declared'[i] \in Declared /\ declared'[i].name # ""
             /\ declared'[i].readonly # "default" /\ declared'[i].snapshot # "default"
             /\ declared'[i].kind = "scratch" =>
                    /\ declared'[i].raw
                    /\ declared'[i].readonly = "off" /\ declared'[i].snapshot = "off"
  <2>1. declared'[i] = LoadedMedium(declared[i], i)
    BY <1>2
  <2> QED
    BY <1>1, <1>3, <2>1, LoadedOf, ZenonT(60)
<1> DEFINE D == Declared
<1>5. \A i \in 1..n : declared'[i] \in D
  BY <1>4
<1> HIDE DEF D, n
<1>6. declared' \in Seq(D) /\ Len(declared') = n
  <2>1. declared' = [i \in 1..n |-> declared'[i]]
    BY <1>2
  <2> QED
    BY <1>1, <1>5, <2>1
<1> QED
  BY <1>4, <1>6 DEF D, n

\* Every step keeps the types.
LEMMA TypesStep ==
    ASSUME MainInv, [Next]_vars
    PROVE  Types'
<1> USE DEF MainInv, kvmVars
<1>1. files' \in [Files -> Content]
  BY FilesStep
<1>2. /\ options' \in Options /\ declared' \in Seq(Declared)
      /\ Len(declared') < MaxMedia /\ Len(declared') <= Len(DefaultNames)
  <2>1. CASE Load
    BY <2>1, LoadStep, SpecsStep DEF Types
  <2>2. CASE declared' = declared
    BY <2>2, SpecsStep DEF Types
  <2> QED
    BY <2>1, <2>2, SpecsStep
<1>3. media' \in Seq(Medium) /\ Len(media) \in Nat /\ Len(media') \in Nat /\ Len(media) <= Len(media')
  <2> DEFINE D == Medium
  <2>1. media \in Seq(D) /\ (media' = media \/ \E m \in D : media' = Append(media, m))
    BY MediaStep DEF Types
  <2> HIDE DEF D
  <2>2. media' \in Seq(D) /\ Len(media) \in Nat /\ Len(media') \in Nat /\ Len(media) <= Len(media')
    BY <2>1
  <2> QED
    BY <2>2 DEF D
<1>4. index' \in 1..Len(media') + 1
  <2>1. CASE index' = index
    BY <1>3, <2>1 DEF Types
  <2>2. CASE index' = index + 1 /\ index <= Len(media)
    BY <1>3, <2>2 DEF Types
  <2>3. index' = index \/ (index' = index + 1 /\ index <= Len(media))
    BY DEF Next, Load, Prepare, PrepareVars, ConfigRaises, Probe, Configure, Launch, GuestWrites,
           RunEnds, RunRaises, ExportMedium, ExportMediaDone, ExportVars, Verdict, Hook, Done, vars
  <2> QED
    BY <2>1, <2>2, <2>3
<1>5. errors' \subseteq {"media", "vars"}
  <2>1. errors' = errors \/ errors' = errors \cup {"media"} \/ errors' = errors \cup {"vars"}
    BY DEF Next, Load, Prepare, PrepareVars, ConfigRaises, Probe, Configure, Launch, GuestWrites,
           RunEnds, RunRaises, ExportMedium, ExportMediaDone, ExportVars, Verdict, Hook, Done, vars
  <2> QED
    BY <2>1 DEF Types
<1>6. stage' \in Stages /\ status' \in 0..2
  <2> USE DEF Return
  <2>1. /\ \/ stage' = stage
           \/ stage' \in {"rejected", "machine", "config", "probe", "start", "running", "export",
                          "exportVars", "verdict", "hook", "returned"}
        /\ status' = status \/ status' \in {0, 1}
    <3>1. CASE Load \/ Configure \/ Prepare \/ PrepareVars \/ ConfigRaises
      BY <3>1 DEF Load, Prepare, PrepareVars, ConfigRaises, Configure
    <3>2. CASE Probe
      BY <3>2 DEF Probe
    <3>3. CASE Launch \/ GuestWrites \/ RunEnds \/ RunRaises
      BY <3>3 DEF Launch, GuestWrites, RunEnds, RunRaises
    <3>4. CASE ExportMedium \/ ExportMediaDone \/ ExportVars \/ Verdict \/ Hook
      BY <3>4 DEF ExportMedium, ExportMediaDone, ExportVars, Verdict, Hook
    <3>5. CASE Done \/ UNCHANGED vars
      BY <3>5 DEF Done, vars
    <3> QED
      BY <3>1, <3>2, <3>3, <3>4, <3>5 DEF Next
  <2>2. stage \in Stages /\ status \in 0..2
    BY DEF Types
  <2>3. stage' \in Stages
    BY <2>1, <2>2 DEF Stages
  <2>4. status' \in 0..2
    BY <2>1, <2>2
  <2> QED
    BY <2>3, <2>4
<1>7. alive' \in BOOLEAN /\ passed' \in BOOLEAN
  <2>1. alive' = alive \/ alive' = TRUE \/ alive' = FALSE
    BY DEF Next, Load, Prepare, PrepareVars, ConfigRaises, Probe, Configure, Launch, GuestWrites,
           RunEnds, RunRaises, ExportMedium, ExportMediaDone, ExportVars, Verdict, Hook, Done, vars
  <2>2. CASE RunEnds
    BY <2>1, <2>2 DEF RunEnds, Types
  <2>3. CASE Verdict
    BY <2>1, <2>3 DEF Verdict, Types
  <2>4. CASE ~RunEnds /\ ~Verdict
    <3>1. passed' = passed
      BY <2>4 DEF Next, Load, Prepare, PrepareVars, ConfigRaises, Probe, Configure, Launch, GuestWrites,
             RunRaises, ExportMedium, ExportMediaDone, ExportVars, Hook, Done, vars
    <3> QED
      BY <2>1, <3>1 DEF Types
  <2> QED
    BY <2>2, <2>3, <2>4
<1>8. hooked' \in BOOLEAN
  <2>1. CASE Hook
    <3>1. (options.hook = "found") \in BOOLEAN
      OBVIOUS
    <3> QED
      BY <2>1, <3>1 DEF Hook
  <2>2. CASE ~Hook
    <3>1. hooked' = hooked
      BY <2>2 DEF Next, Load, Prepare, PrepareVars, ConfigRaises, Probe, Configure, Launch, GuestWrites,
             RunEnds, RunRaises, ExportMedium, ExportMediaDone, ExportVars, Verdict, Done, vars
    <3> QED
      BY <3>1 DEF Types
  <2> QED
    BY <2>1, <2>2
<1>9. junit' \in BOOLEAN /\ kvm' \in {"unprobed", "available", "unavailable"}
  <2>1. CASE Probe
    BY <2>1 DEF Probe, Types
  <2>2. CASE ~Probe
    <3>1. junit' = junit /\ kvm' = kvm
      BY <2>2 DEF Next, Load, Prepare, PrepareVars, ConfigRaises, Configure, Launch, GuestWrites,
             RunEnds, RunRaises, ExportMedium, ExportMediaDone, ExportVars, Verdict, Hook, Done, vars
    <3> QED
      BY <3>1 DEF Types
  <2> QED
    BY <2>1, <2>2
<1> QED
  BY <1>1, <1>2, <1>3, <1>4, <1>5, <1>6, <1>7, <1>8, <1>9 DEF Types

\* Every step keeps the media in the order of the specs.
LEMMA InOrderStep ==
    ASSUME MainInv, [Next]_vars
    PROVE  InOrder'
<1> USE DEF MainInv, kvmVars
<1>0. /\ Len(media) \in Nat /\ Len(Specs) \in Nat /\ Len(media) <= Len(Specs)
      /\ \A i \in 1..Len(media) :
             media[i].name = Specs[i].name /\ media[i].bootindex = Specs[i].bootindex
  BY Room DEF InOrder
<1>1. CASE Load
  <2>1. Len(media) = 0 /\ media' = media /\ stage' # "load"
    BY <1>1 DEF Load, InOrder
  <2>2. Len(Specs') \in Nat
    <3>1. options' \in Options /\ declared' \in Seq(Declared)
      BY TypesStep DEF Types
    <3>2. Len(options'.disk) \in 0..1 /\ Len(Specs') = Len(options'.disk) + Len(declared')
      BY <3>1, SpecsOf DEF Specs
    <3>3. Len(declared') \in Nat
      BY <3>1
    <3> QED
      BY <3>2, <3>3
  <2> QED
    BY <2>1, <2>2 DEF InOrder
<1>2. CASE Specs' = Specs /\ ~Load
  <2>1. stage' = "load" => stage = "load"
    BY <1>2 DEF Return, Next, Prepare, PrepareVars, ConfigRaises, Probe, Configure, Launch, GuestWrites,
           RunEnds, RunRaises, ExportMedium, ExportMediaDone, ExportVars, Verdict, Hook, Done, vars
  <2>2. CASE media' = media
    BY <1>0, <1>2, <2>1, <2>2 DEF InOrder
  <2>3. ASSUME NEW m \in Medium, stage' = "config", Len(media) + 1 \in 1..Len(Specs),
               media' = Append(media, m), m.name = Specs[Len(media) + 1].name,
               m.bootindex = Specs[Len(media) + 1].bootindex
        PROVE  InOrder'
    <3>1. /\ Len(media') = Len(media) + 1 /\ media'[Len(media) + 1] = m
          /\ \A i \in 1..Len(media) : media'[i] = media[i]
      <4> DEFINE D == Medium
      <4>1. m \in D /\ media \in Seq(D) /\ media' = Append(media, m)
        BY <2>3 DEF Types
      <4> HIDE DEF D
      <4> QED
        BY <4>1
    <3>2. \A i \in 1..Len(media') : i \in 1..Len(media) \/ i = Len(media) + 1
      BY <1>0, <3>1
    <3>3. Len(media') <= Len(Specs)
      BY <1>0, <2>3, <3>1
    <3>4. \A i \in 1..Len(media') :
              media'[i].name = Specs[i].name /\ media'[i].bootindex = Specs[i].bootindex
      BY <1>0, <2>3, <3>1, <3>2
    <3> QED
      BY <1>2, <2>3, <3>3, <3>4 DEF InOrder
  <2> QED
    BY <2>2, <2>3, MediaStep
<1> QED
  BY <1>1, <1>2, SpecsStep

\* Every step keeps what the macros have made sure of.
LEMMA AcceptedStep ==
    ASSUME MainInv, [Next]_vars
    PROVE  Accepted'
<1> USE DEF MainInv, kvmVars
<1>1. CASE Load
  <2> SUFFICES ASSUME stage' # "rejected" PROVE Accepted'
    BY <1>1 DEF Load, Accepted
  <2>1. options' = options /\ LoadOK(declared, declared')
    <3>1. declared' = [i \in DOMAIN declared |-> LoadedMedium(declared[i], i)]
      BY <1>1 DEF Load
    <3>2. LoadOK(declared, [i \in DOMAIN declared |-> LoadedMedium(declared[i], i)])
      BY <1>1 DEF Load
    <3> QED
      BY <1>1, <3>1, <3>2 DEF Load
  <2>2. Specs' = options.disk \o declared' /\ options \in Options /\ declared' \in Seq(Declared)
    BY <2>1, LoadStep, <1>1 DEF Specs, Types
  <2>3. /\ Distinct(Specs') /\ LoadsMachine(options.machine, options.vars)
        /\ \A i \in DOMAIN declared' : MediumOK(declared'[i])
    BY <2>1, <2>2 DEF LoadOK
  <2>4. /\ Len(options.disk) \in 0..1 /\ Len(Specs') = Len(options.disk) + Len(declared')
        /\ \A i \in 1..Len(options.disk) : \E key \in Runfiles : Specs'[i] = DiskSpec(key)
        /\ \A i \in Len(options.disk) + 1..Len(Specs') : Specs'[i] = declared'[i - Len(options.disk)]
    <3> DEFINE opts == options
               list == declared'
               specs == Specs'
    <3>1. opts \in Options /\ list \in Seq(Declared) /\ specs = opts.disk \o list
      BY <2>2
    <3> HIDE DEF opts, list, specs
    <3>2. /\ Len(opts.disk) \in 0..1 /\ Len(specs) = Len(opts.disk) + Len(list)
          /\ \A i \in 1..Len(opts.disk) : \E key \in Runfiles : specs[i] = DiskSpec(key)
          /\ \A i \in Len(opts.disk) + 1..Len(specs) : specs[i] = list[i - Len(opts.disk)]
      BY <3>1, SpecsOf, SMTT(40)
    <3> QED
      BY <3>2, Zenon DEF opts, list, specs
  <2>5. \A key \in Runfiles : SpecOK(DiskSpec(key))
    BY DEF DiskSpec, SpecOK, MediumOK, NoBoot
  <2>6. Len(declared') \in Nat /\ DOMAIN declared' = 1..Len(declared')
    BY <2>2
  <2>7. \A i \in 1..Len(declared') : SpecOK(declared'[i])
    BY <1>1, <2>3, <2>6, LoadStep DEF SpecOK
  <2>8. ASSUME NEW i \in 1..Len(Specs') PROVE SpecOK(Specs'[i])
    <3> DEFINE k == Len(options.disk)
    <3>1. i \in 1..k \/ (i \in k + 1..Len(Specs') /\ i - k \in 1..Len(declared'))
      BY <2>4, <2>6
    <3> QED
      BY <2>4, <2>5, <2>7, <3>1
  <2> QED
    BY <2>1, <2>3, <2>8 DEF Accepted
<1>2. CASE Specs' = Specs /\ ~Load
  <2>1. /\ stage' \notin {"load", "rejected"} => stage \notin {"load", "rejected"}
        /\ stage' = "machine" => stage = "machine"
    BY <1>2 DEF Return, Next, Prepare, PrepareVars, ConfigRaises, Probe, Configure, Launch, GuestWrites,
           RunEnds, RunRaises, ExportMedium, ExportMediaDone, ExportVars, Verdict, Hook, Done, vars
  <2> QED
    BY <1>2, <2>1, SpecsStep DEF Accepted
<1> QED
  BY <1>1, <1>2, SpecsStep

\* Every step keeps the account of how far main() has come.
LEMMA ProgressStep ==
    ASSUME MainInv, [Next]_vars
    PROVE  Progress'
<1> USE DEF MainInv, kvmVars
<1>0. /\ options' = options
      /\ files \in [Files -> Content] /\ Len(media) \in Nat /\ Len(media) <= MaxMedia
      /\ MaxMedia \in Nat /\ index \in 1..Len(media) + 1
      /\ \A i \in 1..Len(media) : media[i] \in Medium
  BY Room, Bounds, SpecsStep DEF Types
<1>1. stage' # "returned" \/ status' # 0 => PassMeansExported'
  BY DEF PassMeansExported
<1>2. CASE Load \/ Configure \/ Prepare \/ PrepareVars \/ ConfigRaises
  <2>1. /\ stage \in {"load", "machine", "config", "start"}
        /\ \/ stage' \in {"machine", "rejected", "config", "start"}
           \/ stage' = "probe" /\ options.machine.skip
           \/ stage' = "returned" /\ status' = 1
        /\ UNCHANGED <<index, errors>> /\ alive' = alive /\ passed' = passed /\ hooked' = hooked
        /\ junit' = junit
    BY <1>2 DEF Load, Configure, Prepare, PrepareVars, ConfigRaises, Return, Probes
  <2>2. ~alive /\ ~passed /\ ~hooked /\ ~junit /\ index = 1 /\ errors = {}
    BY <2>1 DEF Progress
  <2>3. PassMeansExported'
    BY <1>1, <2>1
  <2> QED
    BY <1>0, <2>1, <2>2, <2>3 DEF Progress
<1>3. CASE Launch \/ RunRaises \/ Hook
  <2>1. /\ stage \in {"start", "running", "hook"}
        /\ \/ stage' = "running" /\ stage = "start"
           \/ stage' = "returned" /\ status' = 1
        /\ UNCHANGED <<index, errors>> /\ passed' = passed /\ junit' = junit
        /\ hooked' => hooked \/ stage' = "returned"
    BY <1>3 DEF Launch, RunRaises, Hook, Return
  <2>2. ~passed /\ ~hooked /\ ~junit /\ (stage # "hook" => index = 1 /\ errors = {})
    BY <2>1 DEF Progress
  <2>3. PassMeansExported'
    BY <1>1, <2>1
  <2>4. alive' => stage' = "running" \/ (stage' = "returned" /\ status' = 1)
    BY <2>1
  <2> QED
    BY <2>1, <2>2, <2>3, <2>4 DEF Progress
<1>4. CASE Probe
  <2>1. /\ stage = "probe" /\ UNCHANGED <<index, errors>> /\ alive' = alive /\ passed' = passed
        /\ hooked' = hooked
        /\ \/ stage' = "start" /\ junit' = junit
           \/ stage' = "returned" /\ status' = 0 /\ kvm' = "unavailable"
           \/ stage' = "returned" /\ status' = 1 /\ junit' = junit
    BY <1>4 DEF Probe, Return
  <2>2. ~alive /\ ~passed /\ ~hooked /\ ~junit /\ index = 1 /\ errors = {} /\ options.machine.skip
    BY <2>1 DEF Progress
  <2>3. PassMeansExported'
    <3>1. CASE stage' = "start" \/ status' = 1
      BY <1>1, <2>1, <3>1
    <3>2. CASE stage' = "returned" /\ status' = 0 /\ kvm' = "unavailable"
      BY <1>0, <2>1, <2>2, <3>2 DEF PassMeansExported
    <3> QED
      BY <2>1, <3>1, <3>2
  <2> QED
    BY <2>1, <2>2, <2>3 DEF Progress
<1>5. CASE RunEnds
  <2>1. /\ stage \in {"start", "running"} /\ stage' = "export" /\ ~alive'
        /\ UNCHANGED <<index, errors, media>> /\ hooked' = hooked /\ junit' = junit
    BY <1>5 DEF RunEnds
  <2>2. ~hooked /\ ~junit /\ index = 1 /\ errors = {}
    BY <2>1 DEF Progress
  <2>3. MediaExported'
    BY <2>1, <2>2 DEF MediaExported
  <2>4. PassMeansExported'
    BY <1>1, <2>1
  <2> QED
    BY <2>1, <2>2, <2>3, <2>4 DEF Progress
<1>6. CASE ExportMedium
  <2>1. /\ stage = "export" /\ index <= Len(media) /\ index' = index + 1
        /\ UNCHANGED media /\ alive' = alive /\ passed' = passed /\ hooked' = hooked /\ junit' = junit
        /\ stage' \in {"export", "exportVars"}
        /\ \/ /\ stage' = "export" /\ errors' = errors
              /\ \/ ~media[index].export /\ files' = files
                 \/ files' = [files EXCEPT ![<<"artifact", index>>] = files[media[index].path]]
           \/ stage' = "exportVars" /\ errors' = errors \cup {"media"}
    BY <1>6 DEF ExportMedium
  <2>2. ~alive /\ ~hooked /\ ~junit /\ errors = {} /\ MediaExported
    BY <2>1 DEF Progress
  <2>3. stage' = "export" => MediaExported'
    <3> SUFFICES ASSUME stage' = "export", NEW i \in 1..Len(media), i < index + 1, media[i].export
                 PROVE  files'[<<"artifact", i>>] = files'[media[i].path]
      BY <2>1 DEF MediaExported
    <3>1. i \in 0..MaxMedia /\ index \in 1..Len(media) /\ index \in 0..MaxMedia
      BY <1>0, <2>1
    <3>2. /\ <<"artifact", i>> \in Files /\ <<"artifact", index>> \in Files
          /\ media[i].path \in Files
      BY <1>0, <3>1, FilesOf DEF Medium
    <3>3. media[i].path # <<"artifact", index>>
      BY DEF Attached
    <3>4. i < index => files[<<"artifact", i>>] = files[media[i].path]
      BY <2>2 DEF MediaExported
    <3>5. CASE ~media[index].export /\ files' = files
      <4>1. i # index
        BY <3>5
      <4>2. i < index
        BY <1>0, <4>1
      <4> QED
        BY <3>4, <3>5, <4>2
    <3>6. CASE files' = [files EXCEPT ![<<"artifact", index>>] = files[media[index].path]]
      <4>1. files'[media[i].path] = files[media[i].path]
        BY <1>0, <3>2, <3>3, <3>6
      <4>2. CASE i = index
        BY <1>0, <3>2, <3>6, <4>1, <4>2
      <4>3. CASE i < index
        <5>1. <<"artifact", i>> # <<"artifact", index>>
          BY <3>1, <4>3
        <5> QED
          BY <1>0, <3>2, <3>4, <3>6, <4>1, <4>3, <5>1
      <4> QED
        BY <1>0, <4>2, <4>3
    <3> QED
      BY <2>1, <3>5, <3>6
  <2>4. PassMeansExported'
    BY <1>1, <2>1
  <2>5. stage' # "export" => errors' # {}
    BY <2>1
  <2> QED
    BY <2>1, <2>2, <2>3, <2>4, <2>5 DEF Progress
<1>7. CASE ExportMediaDone
  <2>1. /\ stage = "export" /\ index > Len(media) /\ stage' = "exportVars"
        /\ UNCHANGED <<index, errors, media, files>> /\ alive' = alive /\ passed' = passed
        /\ hooked' = hooked /\ junit' = junit
    BY <1>7 DEF ExportMediaDone
  <2>2. ~alive /\ ~hooked /\ ~junit /\ MediaExported
    BY <2>1 DEF Progress
  <2>3. MediaExported' /\ index' = Len(media') + 1
    BY <1>0, <2>1, <2>2 DEF MediaExported
  <2>4. PassMeansExported'
    BY <1>1, <2>1
  <2> QED
    BY <2>1, <2>2, <2>3, <2>4 DEF Progress
<1>8. CASE ExportVars
  <2>1. /\ stage = "exportVars" /\ stage' = "verdict"
        /\ UNCHANGED <<index, media>> /\ alive' = alive /\ passed' = passed
        /\ hooked' = hooked /\ junit' = junit
        /\ \/ ~options.exportVars /\ files' = files /\ errors' = errors
           \/ /\ errors' = errors
              /\ files' = [files EXCEPT ![<<"artifact", 0>>] = files[<<"private", 0>>]]
           \/ errors' = errors \cup {"vars"}
    BY <1>8 DEF ExportVars, Destination, Vars
  <2>2. ~alive /\ ~hooked /\ ~junit /\ (errors = {} => MediaExported /\ index = Len(media) + 1)
    BY <2>1 DEF Progress
  <2>3. errors' = {} => errors = {}
    BY <2>1
  <2>4. 0 \in 0..MaxMedia /\ \A i \in 1..Len(media) : i \in 0..MaxMedia
    BY <1>0
  <2>5. /\ <<"artifact", 0>> \in Files /\ <<"private", 0>> \in Files
        /\ \A i \in 1..Len(media) : <<"artifact", i>> \in Files /\ media[i].path \in Files
    BY <1>0, <2>4, FilesOf DEF Medium
  <2>6. errors' = {} => MediaExported'
    <3> SUFFICES ASSUME errors' = {}, NEW i \in 1..Len(media), i < index, media[i].export
                 PROVE  files'[<<"artifact", i>>] = files'[media[i].path]
      BY <2>1 DEF MediaExported
    <3>1. files[<<"artifact", i>>] = files[media[i].path]
      BY <2>2, <2>3 DEF MediaExported
    <3>2. media[i].path # <<"artifact", 0>> /\ <<"artifact", i>> # <<"artifact", 0>>
      BY DEF Attached
    <3>3. CASE files' = files
      BY <3>1, <3>3
    <3>4. CASE files' = [files EXCEPT ![<<"artifact", 0>>] = files[<<"private", 0>>]]
      BY <1>0, <2>5, <3>1, <3>2, <3>4
    <3> QED
      BY <2>1, <3>3, <3>4
  <2>7. errors' = {} => VarsExported'
    <3>1. CASE ~options.exportVars
      BY <1>0, <3>1 DEF VarsExported
    <3>2. CASE files' = [files EXCEPT ![<<"artifact", 0>>] = files[<<"private", 0>>]]
      BY <1>0, <2>5, <3>2 DEF VarsExported, Destination, Vars
    <3> QED
      BY <2>1, <3>1, <3>2
  <2>8. PassMeansExported'
    BY <1>1, <2>1
  <2> QED
    BY <2>1, <2>2, <2>3, <2>6, <2>7, <2>8 DEF Progress
<1>9. CASE Verdict
  <2>1. /\ stage = "verdict" /\ (passed' <=> passed /\ errors = {})
        /\ \/ passed' /\ stage' = "returned" /\ status' = 0
           \/ ~passed' /\ stage' = "hook"
        /\ UNCHANGED <<index, errors, media, files>> /\ alive' = alive /\ hooked' = hooked /\ junit' = junit
    BY <1>9 DEF Verdict, Return
  <2>2. ~alive /\ ~hooked /\ ~junit
        /\ (errors = {} => MediaExported /\ VarsExported /\ index = Len(media) + 1)
    BY <2>1 DEF Progress
  <2>3. PassMeansExported'
    <3> SUFFICES ASSUME passed' PROVE PassMeansExported'
      BY <1>1, <2>1
    <3>1. DOMAIN media = 1..Len(media)
      BY DEF Types
    <3>2. \A i \in DOMAIN media : media[i].export => files[<<"artifact", i>>] = files[media[i].path]
      BY <1>0, <2>1, <2>2, <3>1 DEF MediaExported
    <3>3. options.exportVars => files[<<"artifact", Vars>>] = files[Destination(Vars)]
      BY <2>1, <2>2 DEF VarsExported
    <3>4. Destination(Vars)' = Destination(Vars)
      BY DEF Destination
    <3> QED
      BY <1>0, <2>1, <2>2, <3>2, <3>3, <3>4 DEF PassMeansExported
  <2> QED
    BY <2>1, <2>2, <2>3 DEF Progress
<1>10. CASE GuestWrites
  <2>1. /\ alive /\ UNCHANGED <<stage, status, index, errors, media>> /\ alive' = alive
        /\ passed' = passed /\ hooked' = hooked /\ junit' = junit
    BY <1>10 DEF GuestWrites
  <2>2. stage = "running" \/ (stage = "returned" /\ status = 1)
    BY <2>1 DEF Progress
  <2>3. PassMeansExported'
    BY <1>1, <2>1, <2>2
  <2> QED
    BY <1>0, <2>1, <2>2, <2>3 DEF Progress
<1>11. CASE Done \/ UNCHANGED vars
  <2>1. UNCHANGED vars
    BY <1>11 DEF Done
  <2>2. MediaExported' = MediaExported /\ VarsExported' = VarsExported
        /\ PassMeansExported' = PassMeansExported
    BY <2>1 DEF vars, MediaExported, VarsExported, PassMeansExported, Destination
  <2> QED
    BY <2>1, <2>2 DEF Progress, vars
<1> QED
  BY <1>2, <1>3, <1>4, <1>5, <1>6, <1>7, <1>8, <1>9, <1>10, <1>11 DEF Next

\* A test that is declared has the invariant.
LEMMA MainInit == Init => MainInv
<1> SUFFICES ASSUME Init PROVE MainInv
  OBVIOUS
<1>1. PICK test \in Tests : declared = test.media /\ options = test.options
  BY DEF Init
<1>2. /\ options \in Options /\ declared \in Seq(Declared)
      /\ Len(declared) < MaxMedia /\ Len(declared) <= Len(DefaultNames)
  BY <1>1, MainAssumption
<1>3. media = <<>> /\ Len(media) = 0 /\ stage = "load"
  BY DEF Init
<1>4. files = [file \in Files |-> IF file[1] = "runfile" /\ file[2] \in Runfiles \cup {Vars}
                                   THEN Original(file[2]) ELSE Absent]
  BY DEF Init
<1>5. Absent \in Content
  <2>1. 0 \in 0..MaxWrites
    BY Bounds
  <2> QED
    BY <2>1 DEF Absent, Content
<1>6. files \in [Files -> Content]
  <2>1. ASSUME NEW file \in Files PROVE files[file] \in Content
    <3>1. CASE file[1] = "runfile" /\ file[2] \in Runfiles \cup {Vars}
      BY <1>4, <3>1, OriginalOf
    <3>2. CASE ~(file[1] = "runfile" /\ file[2] \in Runfiles \cup {Vars})
      BY <1>4, <1>5, <3>2
    <3> QED
      BY <3>1, <3>2
  <2> QED
    BY <1>4, <2>1
<1>7. Types
  <2>1. media \in Seq(Medium)
    BY <1>3
  <2>2. stage \in Stages /\ index \in 1..Len(media) + 1 /\ status \in 0..2
    BY <1>3 DEF Init, Stages
  <2> QED
    BY <1>2, <1>6, <2>1, <2>2 DEF Init, Types
<1>8. SourcesAreKept
  BY <1>4, FilesOf DEF SourcesAreKept
<1>9. Attached
  BY <1>3 DEF Attached
<1>10. InOrder
  <2>1. Len(options.disk) \in 0..1 /\ Len(Specs) = Len(options.disk) + Len(declared)
    BY <1>2, SpecsOf DEF Specs
  <2>2. Len(declared) \in Nat
    BY <1>2
  <2> QED
    BY <1>3, <2>1, <2>2 DEF InOrder
<1>11. Accepted
  BY <1>3 DEF Accepted
<1>12. Progress
  BY <1>3 DEF Init, Progress, PassMeansExported
<1> QED
  BY <1>7, <1>8, <1>9, <1>10, <1>11, <1>12 DEF MainInv

-----------------------------------------------------------------------------
(***************************************************************************)
(* The theorems.                                                           *)
(***************************************************************************)

\* MainInv holds in every state of a test.
THEOREM MainInvariant == Spec => []MainInv
<1>1. MainInv /\ [Next]_vars => MainInv'
  BY TypesStep, AttachedStep, FilesStep, InOrderStep, AcceptedStep, ProgressStep DEF MainInv
<1> QED
  BY <1>1, MainInit, PTL DEF Spec

\* Every variable has its type, and a medium's file is there (TypeOK).
THEOREM MainTypes == Spec => []TypeOK
<1>1. MainInv => TypeOK
  <2> SUFFICES ASSUME MainInv PROVE TypeOK
    OBVIOUS
  <2>1. ASSUME NEW i \in DOMAIN media
        PROVE  /\ media[i].path \in Files /\ files[media[i].path].form # "absent"
               /\ {media[i].readonly, media[i].snapshot, media[i].export} \subseteq BOOLEAN
    <3>1. i \in 1..Len(media) /\ media[i] \in Medium
      BY Room DEF MainInv, Types
    <3> QED
      BY <3>1 DEF MainInv, Attached, Medium
  <2>2. {alive, passed, hooked, junit} \subseteq BOOLEAN
    BY DEF MainInv, Types
  <2> QED
    BY <2>1, <2>2 DEF MainInv, Types, Stages, TypeOK
<1> QED
  BY <1>1, MainInvariant, PTL

\* The guest never changes a runfile (SourcesAreKept).
THEOREM SourcesKept == Spec => []SourcesAreKept
<1>1. MainInv => SourcesAreKept
  BY DEF MainInv
<1> QED
  BY <1>1, MainInvariant, PTL

\* A file that one drive writes is open through no other (OneWriterPerFile).
THEOREM OneWriter == Spec => []OneWriterPerFile
<1>1. MainInv => OneWriterPerFile
  <2> SUFFICES ASSUME MainInv, NEW i \in DOMAIN media, NEW j \in DOMAIN media, i # j,
                      DriveOptions(media[i]) = {}
               PROVE  media[i].path # media[j].path
    BY DEF OneWriterPerFile
  <2>1. i \in 1..Len(media) /\ j \in 1..Len(media)
    BY DEF MainInv, Types
  <2>2. ~media[i].readonly /\ ~media[i].snapshot
    BY DriveOf
  <2>3. media[i].path = <<"private", i>>
    BY <2>1, <2>2 DEF MainInv, Attached
  <2>4. media[j].path = <<"private", j>> \/ media[j].path \in {"runfile"} \X Runfiles
    BY <2>1 DEF MainInv, Attached
  <2> QED
    BY <2>1, <2>3, <2>4
<1> QED
  BY <1>1, MainInvariant, PTL

\* Status 0 is a guest that passed and whose artifacts are whole and final, or a skip
\* that was allowed on a host without KVM (PassMeansExported).
THEOREM PassExported == Spec => []PassMeansExported
<1>1. MainInv => PassMeansExported
  BY DEF MainInv, Progress
<1> QED
  BY <1>1, MainInvariant, PTL

\* What the macros accept, from_namespace and command() accept too, but for bytes that
\* are not gzip and for the machines of OnlyAtRunTime (LoadedIsAccepted).
THEOREM AcceptedTwice == Spec => []LoadedIsAccepted
<1>1. MainInv => LoadedIsAccepted
  <2> SUFFICES ASSUME MainInv PROVE LoadedIsAccepted
    OBVIOUS
  <2> DEFINE n == Len(media) + 1
             spec == Specs[n]
             medium == Resolved(spec, n)
  <2>1. ASSUME stage = "config", n <= Len(Specs), Refused(spec, medium)
        PROVE  BadMagic(spec)
    <3>1. /\ n \in 1..Len(Specs) /\ n \in 1..MaxMedia
          /\ \A i \in 1..Len(media) : i \in 1..Len(Specs) /\ i # n
      BY <2>1, Room, Bounds DEF MainInv
    <3>2. DOMAIN Specs = 1..Len(Specs) /\ DOMAIN media = 1..Len(media) /\ spec \in Declared
      <4>1. Specs \in Seq(Declared)
        BY SpecsOf DEF MainInv, Types, Specs
      <4> QED
        BY <3>1, <4>1, ElementOf DEF MainInv, Types
    <3>3. SpecOK(spec) /\ Distinct(Specs)
      BY <2>1, <3>1 DEF MainInv, Accepted
    <3>4. \A i \in 1..Len(media) :
              /\ media[i].name # spec.name
              /\ spec.bootindex # NoBoot => media[i].bootindex # spec.bootindex
      <4>1. ASSUME NEW i \in 1..Len(media)
            PROVE  /\ Specs[i].name # Specs[n].name
                   /\ Specs[n].bootindex # NoBoot => Specs[i].bootindex # Specs[n].bootindex
        BY <3>1, <3>2, <3>3 DEF Distinct
      <4> QED
        BY <4>1 DEF MainInv, InOrder
    <3> HIDE DEF spec
    <3>5. /\ medium.export = spec.export
          /\ medium.readonly <=> spec.readonly = "on"
          /\ medium.snapshot <=> spec.snapshot = "on"
      BY <3>1, <3>2, <3>3, ResolvedOf DEF SpecOK
    <3> HIDE DEF medium
    <3>6. spec.kind \in {"image", "scratch"} /\ spec.bootindex \in Int /\ spec.size \in Int
      BY <3>2 DEF Declared
    <3>7. spec.bootindex = NoBoot \/ spec.bootindex > 0
      BY <3>3 DEF SpecOK, MediumOK
    <3>8. spec.name # ""
      BY <3>3 DEF SpecOK
    <3>9. spec.kind = "scratch" => ~spec.cdrom /\ spec.raw /\ Writable(medium) /\ spec.size > 0
      BY <3>3, <3>5, <3>6 DEF SpecOK, MediumOK, Writable
    <3>10. spec.kind = "image" => /\ spec.compression \in {"auto", "gzip", "none"}
                                  /\ spec.export => Writable(medium)
      BY <3>3, <3>5 DEF SpecOK, MediumOK, Writable
    <3>11. RefusedEarly(spec, medium)
      BY <2>1, <3>6, <3>9, <3>10 DEF Refused
    <3>12. spec.kind = "image" /\ BadMagic(spec)
      <4>1. ~(spec.bootindex # NoBoot /\ spec.bootindex <= 0)
        BY <3>6, <3>7
      <4>2. ~(spec.kind = "scratch" /\ (spec.cdrom \/ ~spec.raw \/ ~Writable(medium) \/ spec.size <= 0))
        BY <3>6, <3>9
      <4> QED
        BY <3>2, <3>4, <3>8, <3>10, <3>11, <4>1, <4>2 DEF RefusedEarly
    <3> QED
      BY <3>12
  <2>2. ASSUME stage = "machine"
        PROVE  \/ OnlyAtRunTime(options.machine)
               \/ /\ ConfiguresMachine(options.machine, options.vars)
                  /\ DebugconFits(options.machine) /\ CommandFits(options.machine)
    <3> DEFINE m == options.machine
    <3>1. LoadsMachine(m, options.vars)
      BY <2>2 DEF MainInv, Accepted
    <3> HIDE DEF m
    <3>2. CASE m.graphicsDevice # "empty" /\ m.firmwareDir # "other"
      BY <3>1, <3>2 DEF LoadsMachine, ValidateBoot, ConfiguresMachine, OnlyAtRunTime, m
    <3>3. CASE m.graphicsDevice = "empty" \/ m.firmwareDir = "other"
      BY <3>3 DEF OnlyAtRunTime, m
    <3> QED
      BY <3>2, <3>3
  <2> QED
    BY <2>1, <2>2 DEF LoadedIsAccepted
<1> QED
  BY <1>1, MainInvariant, PTL

=============================================================================
