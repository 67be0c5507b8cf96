------------------------------ MODULE TestMain ------------------------------
(***************************************************************************)
(* One uefi_test from its declaration to its exit status: main() of        *)
(* qemu_test_runner.py with the preparation of the media by                *)
(* UefiQemuConfig.from_namespace (qemu.py) and the checks the Starlark      *)
(* macros make when the target is loaded (defs.bzl).  The run of QEMU,     *)
(* detailed in module Runner, is here only its result; what is asked of    *)
(* the machine, and of /dev/kvm, is in MachineConfig.                      *)
(*                                                                         *)
(* A file is <<place, key>>: a runfile (an input of the test, shared with  *)
(* other actions), a private copy below TEST_TMPDIR, or an artifact.       *)
(* Medium i has the private file and the artifact of key i; key 0 is the   *)
(* firmware variable store.                                                *)
(***************************************************************************)
EXTENDS MachineConfig, Sequences

CONSTANTS Runfiles,    \* keys of the image runfiles
          Gzipped,     \* those that start with the gzip magic
          Names,       \* names of media, "" for none and "disk" among them
          DefaultNames,\* "media0", "media1", ...
          Tests,       \* the tests declared: the list of media, and the other options
          MaxMedia,    \* bound: media attached, the disk included
          MaxWrites    \* bound: writes of the guest that a file records

Vars == 0
Compressions == {"auto", "gzip", "none", "zip"}     \* the last for any other string
Declared == [kind : {"image", "scratch"}, path : Runfiles, name : Names, cdrom : BOOLEAN,
             raw : BOOLEAN, compression : Compressions, readonly : {"default", "on", "off"},
             snapshot : {"default", "on", "off"}, bootindex : Int, size : Int,
             export : BOOLEAN]
NoBoot == -1           \* bootindex = None

DiskSpec(key) ==
    [kind |-> "image", path |-> key, name |-> "disk", cdrom |-> FALSE, raw |-> TRUE,
     compression |-> "auto", readonly |-> "off", snapshot |-> "on", bootindex |-> 1,
     size |-> 0, export |-> FALSE]

Options ==
    [disk : {<<>>} \cup {<<DiskSpec(key)>> : key \in Runfiles},
     vars : BOOLEAN, exportVars : BOOLEAN, hook : {"none", "found", "missing"},
     machine : Machine]

ASSUME MainAssumption ==
    /\ Runfiles \subseteq Nat \ {Vars} /\ Gzipped \subseteq Runfiles
    /\ MaxMedia \in Nat /\ MaxWrites \in Nat /\ {"", "disk"} \subseteq Names
    /\ DefaultNames \in Seq(Names \ {""})
    /\ \A test \in Tests :
         /\ test.options \in Options /\ test.media \in Seq(Declared)
         /\ Len(test.media) < MaxMedia /\ Len(test.media) <= Len(DefaultNames)

VARIABLES declared,    \* the media list, as written and then as loaded
          options,     \* the other options of the test
          stage,       \* where main() is, or "rejected" by Bazel, or "returned"
          media,       \* resolved_media
          files,       \* the contents of every file
          alive,       \* QEMU runs
          passed,      \* result.passed
          index,       \* the next medium _export_media looks at
          errors,      \* export_errors
          hooked,      \* the failure hook was run
          kvm,         \* what the probe found, "unprobed" before
          junit,       \* a JUnit report of a skipped test was written
          status       \* the exit status, 2 before there is one

kvmVars == <<kvm, junit>>
vars == <<declared, options, stage, media, files, alive, passed, index, errors, hooked, kvmVars,
          status>>

Places == {"runfile", "private", "artifact"}
Files == Places \X (Runfiles \cup 0..MaxMedia)
Absent == [of |-> 0, form |-> "absent", writes |-> 0]
Content == [of : Runfiles \cup {0}, form : {"absent", "plain", "gzip", "blank", "partial"},
            writes : 0..MaxWrites]

\* What the runfiles hold, before and, it is hoped, after the test.
Original(key) == [of |-> key, form |-> IF key \in Gzipped THEN "gzip" ELSE "plain", writes |-> 0]

Init ==
    /\ \E test \in Tests : declared = test.media /\ options = test.options
    /\ stage = "load" /\ media = <<>> /\ alive = FALSE /\ passed = FALSE
    /\ files = [file \in Files |-> IF file[1] = "runfile" /\ file[2] \in Runfiles \cup {Vars}
                                   THEN Original(file[2]) ELSE Absent]
    /\ index = 1 /\ errors = {} /\ hooked = FALSE
    /\ kvm = "unprobed" /\ junit = FALSE /\ status = 2

Return(code) == stage' = "returned" /\ status' = code

-----------------------------------------------------------------------------
(***************************************************************************)
(* Loading the target.                                                     *)
(***************************************************************************)
Given(flag, default) == (flag = "on") \/ (flag = "default" /\ default)
Flag(value) == IF value THEN "on" ELSE "off"

\* qemu_media and qemu_scratch_disk fill in the defaults, the list position
\* gives an unnamed medium its name (_append_media_runtime).
LoadedMedium(spec, i) ==
    LET readonly == spec.kind = "image" /\ Given(spec.readonly, spec.cdrom)
        snapshot == spec.kind = "image" /\ ~readonly /\ Given(spec.snapshot, ~spec.cdrom)
    IN  [spec EXCEPT !.readonly = Flag(readonly), !.snapshot = Flag(snapshot),
                     !.raw = @ \/ spec.kind = "scratch",
                     !.compression = IF spec.kind = "scratch" THEN "none" ELSE @,
                     !.name = IF @ = "" THEN DefaultNames[i] ELSE @]

MediumOK(spec) ==
    /\ spec.bootindex = NoBoot \/ spec.bootindex > 0
    /\ CASE spec.kind = "image" ->
              /\ spec.compression \in {"auto", "gzip", "none"}
              /\ spec.export => spec.readonly = "off" /\ spec.snapshot = "off"
         [] spec.kind = "scratch" -> spec.size > 0 /\ ~spec.cdrom

Distinct(list) ==
    \A i, j \in DOMAIN list : i # j =>
        /\ list[i].name # list[j].name
        /\ list[i].bootindex = NoBoot \/ list[i].bootindex # list[j].bootindex

\* Mutant: disk = ... is left out of the uniqueness checks.
LoadOK_ForgetsDisk(list, loaded) ==
    /\ \A i \in DOMAIN list : list[i].kind = "scratch" => list[i].name # ""
    /\ \A i \in DOMAIN loaded : MediumOK(loaded[i])
    /\ Distinct(loaded)
    /\ options.exportVars => options.vars
    /\ LoadsMachine(options.machine, options.vars)

\* A scratch disk must be named, an image need not be.
LoadOK(list, loaded) ==
    /\ \A i \in DOMAIN list : list[i].kind = "scratch" => list[i].name # ""
    /\ \A i \in DOMAIN loaded : MediumOK(loaded[i])
    /\ Distinct(options.disk \o loaded)
    /\ options.exportVars => options.vars
    /\ LoadsMachine(options.machine, options.vars)

Load ==
    LET loaded == [i \in DOMAIN declared |-> LoadedMedium(declared[i], i)]
    IN  /\ stage = "load"
        /\ declared' = loaded
        /\ stage' = IF LoadOK(declared, loaded) THEN "machine" ELSE "rejected"
        /\ UNCHANGED <<options, media, files, alive, passed, index, errors, hooked, kvmVars, status>>

-----------------------------------------------------------------------------
(***************************************************************************)
(* UefiQemuConfig.from_namespace: the machine, then one medium at a time.  *)
(***************************************************************************)
Configure ==
    /\ stage = "machine"
    /\ IF ConfiguresMachine(options.machine, options.vars)
         THEN stage' = "config" /\ UNCHANGED status ELSE Return(1)
    /\ UNCHANGED <<declared, options, media, files, alive, passed, index, errors, hooked, kvmVars>>

Specs == options.disk \o declared

\* Mutant: the file name has no index.
Destination_Shared(i) == <<"private", IF i = Vars THEN Vars ELSE 1>>

\* Where the destination of medium i is.
Destination(i) == <<"private", i>>

\* _materialize_image returns the source or, decompressed, the destination.
Unpacks(spec) == spec.compression # "none" /\ spec.path \in Gzipped
BadMagic(spec) == spec.compression = "gzip" /\ spec.path \notin Gzipped

Writable(medium) == ~medium.readonly /\ ~medium.snapshot

\* Mutant: a writable image is attached where it is.
Private_NeverCopies(spec, writable) == spec.kind = "scratch" \/ Unpacks(spec)

\* A scratch disk, a decompressed image and a writable image get the private
\* file; any other medium is attached where it is.
Private(spec, writable) == spec.kind = "scratch" \/ Unpacks(spec) \/ writable

\* What the private file of a medium starts with.
Filled(spec) ==
    CASE spec.kind = "scratch" -> [of |-> 0, form |-> "blank", writes |-> 0]
      [] spec.kind = "image" /\ Unpacks(spec) -> [of |-> spec.path, form |-> "plain", writes |-> 0]
      [] OTHER -> files[<<"runfile", spec.path>>]

Resolved(spec, i) ==
    LET readonly == Given(spec.readonly, spec.kind = "image" /\ spec.cdrom)
        snapshot == Given(spec.snapshot, spec.kind = "image" /\ ~spec.cdrom)
    IN  [name |-> spec.name, bootindex |-> spec.bootindex, readonly |-> readonly,
         snapshot |-> snapshot, export |-> spec.export,
         path |-> IF Private(spec, ~readonly /\ ~snapshot)
                  THEN Destination(i) ELSE <<"runfile", spec.path>>]

\* The ValueErrors of one turn of the loop, before a private file is made ...
RefusedEarly(spec, medium) ==
    \/ spec.bootindex # NoBoot /\ spec.bootindex <= 0
    \/ \E i \in DOMAIN media :
         \/ media[i].name = spec.name
         \/ spec.bootindex # NoBoot /\ media[i].bootindex = spec.bootindex
    \/ spec.name = ""
    \/ /\ spec.kind = "scratch"
       /\ spec.cdrom \/ ~spec.raw \/ ~Writable(medium) \/ spec.size <= 0
    \/ spec.kind = "image" /\ (spec.compression \notin {"auto", "gzip", "none"} \/ BadMagic(spec))

\* ... and after it.
Refused(spec, medium) == RefusedEarly(spec, medium) \/ (spec.export /\ ~Writable(medium))

\* Whatever from_namespace raises leaves main() by its traceback, status 1.
Prepare ==
    LET i == Len(media) + 1
        spec == Specs[i]
        medium == Resolved(spec, i)
    IN  /\ stage = "config" /\ i <= Len(Specs)
        /\ files' = IF medium.path[1] = "private" /\ ~RefusedEarly(spec, medium)
                    THEN [files EXCEPT ![medium.path] = Filled(spec)] ELSE files
        /\ IF Refused(spec, medium)
           THEN Return(1) /\ UNCHANGED media
           ELSE media' = Append(media, medium) /\ UNCHANGED <<stage, status>>
        /\ UNCHANGED <<declared, options, alive, passed, index, errors, hooked, kvmVars>>

\* A full disk, or a runfile that is not there.
ConfigRaises ==
    /\ stage \in {"machine", "config", "start"} /\ Return(1)
    /\ UNCHANGED <<declared, options, media, files, alive, passed, index, errors, hooked, kvmVars>>

Probes == options.machine.requireKvm /\ options.machine.skip

\* The variable store is always a private copy; debugcon is looked at after it, and
\* the number of CPUs only when main() asks for the command.
PrepareVars ==
    /\ stage = "config" /\ Len(media) = Len(Specs)
    /\ files' = IF options.vars
                THEN [files EXCEPT ![Destination(Vars)] = files[<<"runfile", Vars>>]] ELSE files
    /\ IF DebugconFits(options.machine) /\ CommandFits(options.machine)
         THEN stage' = (IF Probes THEN "probe" ELSE "start") /\ UNCHANGED status
         ELSE Return(1)
    /\ UNCHANGED <<declared, options, media, alive, passed, index, errors, hooked, kvmVars>>

-----------------------------------------------------------------------------
(***************************************************************************)
(* The run.                                                                *)
(***************************************************************************)
\* The -drive options of a medium.
DriveOptions(medium) ==
    {option \in {"readonly=on", "snapshot=on"} :
        \/ option = "readonly=on" /\ medium.readonly
        \/ option = "snapshot=on" /\ medium.snapshot /\ ~medium.readonly}

Launch ==
    /\ stage = "start" /\ alive' = TRUE /\ stage' = "running"
    /\ UNCHANGED <<declared, options, media, files, passed, index, errors, hooked, kvmVars, status>>

\* Without KVM the test is skipped, which is a success; with XML_OUTPUT_FILE set it is
\* reported so, and a report that cannot be written fails the test.
Probe ==
    /\ stage = "probe"
    /\ \E host \in Host :
         LET available == ProbeLinuxKvm(options.machine.arch, host)
         IN  /\ kvm' = IF available THEN "available" ELSE "unavailable"
             /\ \/ available /\ stage' = "start" /\ UNCHANGED <<junit, status>>
                \/ ~available /\ junit' \in BOOLEAN /\ Return(0)
                \/ ~available /\ Return(1) /\ UNCHANGED junit
    /\ UNCHANGED <<declared, options, media, files, alive, passed, index, errors, hooked>>

Write(file) ==
    /\ files[file].writes < MaxWrites
    /\ files' = [files EXCEPT ![file].writes = @ + 1]

\* QEMU writes a drive's file unless it is read-only or has a snapshot to
\* write to, and the variable store it was given.
GuestWrites ==
    /\ alive
    /\ \/ \E i \in DOMAIN media : DriveOptions(media[i]) = {} /\ Write(media[i].path)
       \/ options.vars /\ Write(Destination(Vars))
    /\ UNCHANGED <<declared, options, stage, media, alive, passed, index, errors, hooked, kvmVars, status>>

\* _run_qemu returns with QEMU stopped, or not started at all.
RunEnds ==
    /\ stage \in {"start", "running"}
    /\ passed' \in IF alive THEN BOOLEAN ELSE {FALSE}
    /\ alive' = FALSE /\ stage' = "export"
    /\ UNCHANGED <<declared, options, media, files, index, errors, hooked, kvmVars, status>>

\* stop_process_group gives up on a process it cannot kill: _run_qemu raises.
RunRaises ==
    /\ stage = "running" /\ Return(1)
    /\ UNCHANGED <<declared, options, media, files, alive, passed, index, errors, hooked, kvmVars>>

-----------------------------------------------------------------------------
(***************************************************************************)
(* After the run: exports, verdict, hook.                                  *)
(***************************************************************************)
CopyFails(target) ==
    \/ files' = files
    \/ files' = [files EXCEPT ![target] = [Absent EXCEPT !.form = "partial"]]

\* One turn of _export_media; the first OSError ends the loop.
ExportMedium ==
    /\ stage = "export" /\ index <= Len(media)
    /\ \/ /\ ~media[index].export
          /\ UNCHANGED <<files, stage, errors>>
       \/ /\ media[index].export
          /\ files' = [files EXCEPT ![<<"artifact", index>>] = files[media[index].path]]
          /\ UNCHANGED <<stage, errors>>
       \/ /\ media[index].export
          /\ CopyFails(<<"artifact", index>>)
          /\ errors' = errors \cup {"media"} /\ stage' = "exportVars"
    /\ index' = index + 1
    /\ UNCHANGED <<declared, options, media, alive, passed, hooked, kvmVars, status>>

ExportMediaDone ==
    /\ stage = "export" /\ index > Len(media) /\ stage' = "exportVars"
    /\ UNCHANGED <<declared, options, media, files, alive, passed, index, errors, hooked, kvmVars, status>>

ExportVars ==
    /\ stage = "exportVars" /\ stage' = "verdict"
    /\ \/ ~options.exportVars /\ UNCHANGED <<files, errors>>
       \/ /\ options.exportVars
          /\ files' = [files EXCEPT ![<<"artifact", Vars>>] = files[Destination(Vars)]]
          /\ UNCHANGED errors
       \/ /\ options.exportVars
          /\ CopyFails(<<"artifact", Vars>>)
          /\ errors' = errors \cup {"vars"}
    /\ UNCHANGED <<declared, options, media, alive, passed, index, hooked, kvmVars, status>>

\* Mutant: a failed export is a warning.
Verdict_Warns ==
    /\ stage = "verdict"
    /\ IF passed THEN Return(0) ELSE stage' = "hook" /\ UNCHANGED status
    /\ UNCHANGED <<declared, options, media, files, alive, passed, index, errors, hooked, kvmVars>>

\* A failed export fails a test that had passed.
Verdict ==
    /\ stage = "verdict"
    /\ passed' = (passed /\ errors = {})
    /\ IF passed' THEN Return(0) ELSE stage' = "hook" /\ UNCHANGED status
    /\ UNCHANGED <<declared, options, media, files, alive, index, errors, hooked, kvmVars>>

\* Whatever becomes of the hook, the failure stands.
Hook ==
    /\ stage = "hook"
    /\ hooked' = (options.hook = "found")
    /\ Return(1)
    /\ UNCHANGED <<declared, options, media, files, alive, passed, index, errors, kvmVars>>

Done == stage \in {"returned", "rejected"} /\ UNCHANGED vars

Next ==
    \/ Load \/ Prepare \/ PrepareVars \/ ConfigRaises \/ Probe
    \/ Configure \/ Launch \/ GuestWrites
    \/ RunEnds \/ RunRaises \/ ExportMedium \/ ExportMediaDone \/ ExportVars \/ Verdict \/ Hook \/ Done

Spec == Init /\ [][Next]_vars

-----------------------------------------------------------------------------
(***************************************************************************)
(* What the test promises.                                                 *)
(***************************************************************************)
\* Every variable has its type, and a medium is attached from a file that is
\* there: from_namespace made it or found it.
TypeOK ==
    /\ options \in Options
    /\ stage \in {"load", "rejected", "machine", "config", "probe", "start", "running", "export", "exportVars",
                   "verdict", "hook", "returned"}
    /\ \A i \in DOMAIN media :
         /\ media[i].path \in Files /\ files[media[i].path].form # "absent"
         /\ {media[i].readonly, media[i].snapshot, media[i].export} \subseteq BOOLEAN
    /\ files \in [Files -> Content]
    /\ kvm \in {"unprobed", "available", "unavailable"}
    /\ {alive, passed, hooked, junit} \subseteq BOOLEAN
    /\ index \in 1..Len(media) + 1 /\ errors \subseteq {"media", "vars"} /\ status \in 0..2

\* The guest never changes a runfile, whatever the mix of read-only, snapshot,
\* compressed and exported media: each one it may write was copied first
\* (the copy in from_namespace, the drive options of command()).
SourcesAreKept ==
    \A key \in Runfiles \cup {Vars} : files[<<"runfile", key>>] = Original(key)

\* While QEMU runs, a file one drive writes is open through no other drive,
\* even when one runfile is attached several times.
OneWriterPerFile ==
    alive => \A i, j \in DOMAIN media :
        i # j /\ DriveOptions(media[i]) = {} => media[i].path # media[j].path

\* Status 0 means a test that may be skipped on a host where the probe found KVM
\* wanting, with nothing run; or a guest that passed and was stopped before every
\* medium and variable store to be exported was copied, none of them missing, partial
\* or older than the guest's last write, with no failure hook run and no skip reported.
PassMeansExported ==
    stage = "returned" /\ status = 0 =>
        \/ /\ options.machine.skip /\ kvm = "unavailable"
           /\ ~passed /\ ~alive
        \/ /\ passed /\ ~alive /\ ~hooked /\ ~junit
           /\ \A i \in DOMAIN media :
                media[i].export => files[<<"artifact", i>>] = files[media[i].path]
           /\ options.exportVars => files[<<"artifact", Vars>>] = files[Destination(Vars)]

\* What only the runner looks at: a firmware directory whose label is not a marker
\* file, an empty name of the display device, debugcon on AArch64, and more CPUs than
\* GICv2 has room for.
OnlyAtRunTime(m) ==
    \/ m.firmwareDir = "other" \/ m.graphicsDevice = "empty"
    \/ ~DebugconFits(m) \/ ~CommandFits(m)

\* What Bazel accepts at load time the runner accepts at run time, in three rounds of
\* checks written in two languages: the only medium it can still refuse is one declared
\* gzip whose bytes are not, the only machines are those of OnlyAtRunTime.
LoadedIsAccepted ==
    LET i == Len(media) + 1
    IN  /\ stage = "config" /\ i <= Len(Specs) =>
             (Refused(Specs[i], Resolved(Specs[i], i)) => BadMagic(Specs[i]))
        /\ stage = "machine" =>
             \/ OnlyAtRunTime(options.machine)
             \/ /\ ConfiguresMachine(options.machine, options.vars)
                /\ DebugconFits(options.machine) /\ CommandFits(options.machine)
=============================================================================
