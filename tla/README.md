# rules_ostest in TLA+

`rules_ostest` is a set of Bazel rules that boot operating-system images in
QEMU and turn what the guest does into a test verdict. This directory models
the part of it that runs while a test runs, and the builders of the images it
boots. Module names follow the classes and functions of the source;
`PROJECT.json` maps every definition to the lines it stands for.

## The system

| Part | State it keeps | Operations | What is hard |
| --- | --- | --- | --- |
| `SerialAssertionMachine` (`qemu_runner_support.py`) | phase, marker index, unmatched bytes, forbidden overlap, verdict | `feed`, `handle_reset`, `process_exited`, `timed_out` | a marker cut by a chunk boundary, markers that overlap, bytes around a RESET |
| `_run_qemu` (`qemu_test_runner.py`) | QEMU, pipe, QMP socket, companion, pending events, verdict | start-up, select loop, drains, clean-up | bytes, events, exits and deadlines in any order |
| `main`, media and machine preparation (`qemu_test_runner.py`, `qemu.py`, `defs.bzl`, the KVM probe of `qemu_runner_support.py`) | private copies, result, export errors | load checks, run-time checks, copies, KVM skip, run, exports, hook | inputs must not be written; one of several exports fails; three places judge one machine |
| Process groups (`qemu_runner_support.py`, `managed_network.py`) | the group, the leader's status | `stop_process_group`, `run_failure_hook`, `OneShotCompanion.start`, `wait`, `terminate`, `run_one_shot_companion` | children that ignore signals, fork and outlive the leader |
| Host forwards (`managed_network.py`, `qemu.py`, `defs.bzl`) | requests, QEMU's report | validation, resolution | ambiguous, missing or wrong rows |
| `EthernetHub` (`network.py`) | connections, a thread per port, pcap file | `_new_port`, `_forward_from`, `_capture`, `close` | threads that share destinations without a lock |
| `QemuSession` (`qemu.py`) | process, QMP connection, events, serial buffer | `start`, `execute`, `screendump`, `wait_for_serial`, `wait_for_exit`, `export_media`, `terminate` | late answers, quit, an exit between a read and a poll, a descendant that holds the pipe |
| `QemuLab` (`lab.py`) | sessions, hubs | `start`, `close`, `host_endpoint` | one step of several fails |
| FAT builder (`fat_image.py`) | the tree, the short names in use, the FAT | tree, 8.3 aliases, FAT search, clusters, chains | names that collide, the last cluster |
| Disk builders (`gpt_image.py`, `mbr_image.py`, `raw_image.py`, `iso_image.py`) | the layout, the file | placement, writes, boot-sector patches, boot catalogue | the last sector, 16-bit counts, neighbours |

A `uefi_test` is `main`, which prepares media, calls `_run_qemu`, exports and
runs the hook. `_run_qemu` feeds a `SerialAssertionMachine` with serial chunks
and QMP events, resolves host forwards, starts a `OneShotCompanion`, and ends
QEMU with `stop_process_group`. Scripted tests use `QemuSession` directly, or
several of them in a `QemuLab` whose networks are `EthernetHub`s.

## The modules

* **SerialAssertion**. Variables are the machine's fields. `Feed` is what
  `feed` does before its loop, `ScanMatch` and `ScanMiss` are one iteration
  each; `HandleReset`, `ProcessExited` and `TimedOut` are the other methods.
  `stream` and `boots` are history: all bytes fed, and where each phase began.
* **Runner**. `pc` is the place in `_run_qemu`; one action per piece of code
  between two reads of shared state. QEMU, the guest and the companion are
  external actions. Serial output is a sequence of tokens tagged with the boot
  that printed them; matching bytes is left to SerialAssertion.
* **TestRun**. What a test run promises, without saying how: goals owed,
  processes running, one verdict, a return. `Runner!ImplementsTestRun` is its
  specification under the mapping at the end of Runner: a goal is owed until the
  plan is met, the pattern read or an accepted status seen, until the screendump
  is good, until the companion exited with 0.
* **TestMain**. `stage` is the place in `main`. A file is a place and a key,
  and its content says which runfile it came from, whether it is compressed,
  and how often the guest wrote it. The run itself is one result.
* **MachineConfig**. The rest of a target's options as the three places that
  judge them see them (`LoadsMachine`, `ConfiguresMachine`, `CommandFits`), and
  `probe_linux_kvm`. TestMain calls them in the order of the code.
* **ProcessGroup**. A leader (a zombie between exit and reaping) and its
  descendants; the operations share the steps they share in the code.
  `run_one_shot_companion` starts, waits and terminates, once more after a
  `wait` that already did.
* **HostForwards**. From the declared list to the resolved ports, for
  `uefi_test` and for scripts, which have a resolver of their own.
* **EthernetHub**. A thread per port with a program counter; a frame is two
  units on the wire, so that a send can stop half-way.
* **QemuSession**. The script's thread inside one call at a time, QEMU outside.
  `heir` is a descendant that keeps QEMU's pipe, `dump` the number of the command
  that wrote the screendump file last.
* **QemuLab**. `start` and `close` step by step; a session is only the state of
  its QEMU, a hub only whether it is open and which ports it gave out.
* **FatLayout** has the FAT search, the clusters and the chains, one step per
  loop iteration. **FatImage** extends it with what comes between them: the tree
  of the manifest and the 8.3 names. Names keep their characters, over a small
  alphabet, because their collisions are the subject.
* **DiskImage**. The four other builders share one shape: place, then write.
  `disk` holds who wrote each unit last, `hidden` what was patched.
* **MC...** modules give the constants of the runs. Eight **...Proofs** modules hold
  the theorems: one for each of SerialAssertion, Runner, TestMain, QemuSession,
  FatImage (with FatLayout) and DiskImage, LifetimeProofs for ProcessGroup and
  QemuLab, and NetworkProofs for EthernetHub and HostForwards.

Operators whose comment says *Mutant* are wrong variants of the definition that
follows them. No specification uses them: they record a plausible slip in the
code that the properties would catch.

## The runs

| Run | What it shows |
| --- | --- |
| SerialAssertion | For every stream of up to 10 bytes cut into chunks of up to 3: a pass means the plan was met in order within each boot, the machine is never behind what the stream allows, a forbidden marker is found exactly when it is there, little is retained, and verdicts stand. |
| Runner | Over targets of every kind: a pass needs guest, screendump and companion, in any order; output that means failure, read before the success, never passes; an accepted exit status wins over the loss of QMP that comes with it; the drain before each QMP read keeps two boots apart when RESETs are the only events; and the run implements TestRun: the verdict is kept through pending events, every path, the exceptions of the loop included, stops QEMU and the companion, and the run returns whatever the guest does, unless QEMU sends events for ever while an answer is awaited at start-up. |
| EthernetHub | One sender, a listener, and a listener that may leave, on a hub that may close at any moment: frames arrive in order and once, all of them where everybody reads and nobody leaves; the capture has every frame a participant got, whole and once, although `close` may close the file while a record is being written; close ends the threads. |
| FatImage | Images filled to the last cluster and past it: the search ends at the smallest sufficient FAT, chains stay inside it and never cross. Manifests with clashing names: refused exactly when they are no file system, in whatever order; otherwise a driver finds every file under its destination and under its 8.3 name. |
| DiskImage | Partitions and blobs overlap neither each other nor the metadata, what is written is what the layout says, patches stay in their partition, and the boot catalogue makes firmware load the whole boot image. |
| ProcessGroup | When an operation ends, no member is left that was not killed, the leader is reaped and the log closed, and success means status 0; SIGKILL comes only after the grace period; every operation ends. |
| QemuSession | A command succeeds only on its own answer, a screendump only with its own file, events keep their order, serial text is kept, media are read only from a stopped QEMU, every call returns unless a descendant of QEMU holds up a failed start. |
| HostForwards | A resolved port is one QEMU is bound to, whatever is wrong in its report, but for one fault the code cannot see (below); a list that was accepted resolves from every faithful report. |
| TestMain | Runfiles are never written, no file has two drives with one writing, status 0 means everything was exported or the probe found no usable KVM, and what loads is accepted at run time but for four machine checks (below). |
| QemuLab | A running VM is always owned by the lab and has its networks; between calls the lab is whole, or holds nothing, unless a session could not be ended. |

Each `TypeOK` states the types of its module's variables. It is proved for
SerialAssertion, FatLayout, FatImage, DiskImage, ProcessGroup, TestMain, QemuLab and
EthernetHub; the invariants of Runner, QemuSession and HostForwards carry the types
their proofs need.

Two runs expect a violation. Each shows the code doing something else than a
comment of the source says:

* **RunnerResetRace**: QMP is readable because of some other event; while the
  pipe is being drained the guest prints and resets; the read of QMP then
  returns the RESET before the bytes are read, and they count for the next boot
  (`qemu_test_runner.py:487`).
* **HubFullBuffer**: two threads sending to a port with a full buffer mix their
  frames (`network.py:141`).

More behaviours are in the models and worth knowing, although no property asks
for the opposite:

* a forbidden marker printed after the last required one, while a companion
  still runs, does not fail the test (`qemu_runner_support.py:178`);
* the pass path leaves output in the pipe unread, so `qemu.log` can miss the end
  (`qemu_test_runner.py:597`);
* `wait_for_serial` reads once, sees QEMU gone and raises, with its pattern still
  in the pipe (`qemu.py:1049`);
* a `start()` that fails reads the pipe to its end with no time-out: as long as a
  descendant that outlived QEMU's SIGTERM holds it, the call does not return (`qemu.py:852`); CallsReturn has this exception;
* a file whose name looks like an alias (`A~1`) is hidden when a file before it in
  its directory was given that alias (`fat_image.py:141`); DestinationsAreFound
  leaves such destinations out;
* a firmware-directory label that is not a file, an empty `graphics_device`,
  `debugcon` on AArch64 and more than eight CPUs with GICv2 pass the load checks and
  are refused when the test runs (`qemu.py:303`, `318`, `476`, `530`);
  LoadedIsAccepted names these four and no other;
* the wait for an answer at start-up has a time-out for each `recv` and no deadline
  over the events it sets aside, so a QEMU that never stops sending them is never
  timed out (`qemu_test_runner.py:147`); ImplementsTestRun has this exception;
* a connection that QEMU resets, where it usually just closes it, ends the run by an
  exception, also when an accepted exit status is about to be seen
  (`qemu_test_runner.py:492`); the status decides only where the read reports the end;
* `close()` of the hub closes the capture without its lock, after joins that may give
  up: a thread can leave a cut record at the end of the file and die of a ValueError
  or AttributeError (`network.py:150`, `184`). CaptureIsComplete says what is left
  true: whole records of every frame that anybody got, and at most one cut record;
* a participant that does not read blocks the thread that serves it in `sendall`, and
  with it the frames to the others (`network.py:141`); EveryFrameArrives is about
  hubs whose participants all read;
* a port left to QEMU is taken from the only row that states it: if that port is
  wrong, and nothing else in the row, both resolvers accept it
  (`managed_network.py:276`); ResolvedAreBound has this exception (`Misreported`);
* after a `wait()` that timed out, `_result` holds the status the companion ended
  with, so a second `wait()` would succeed if it exits with 0 on SIGTERM
  (`managed_network.py:453`); nothing in the repository calls it twice.

### Bounds

Each bound is a named constant. SerialAssertion's 10 bytes are longer than the
whole plan with a forbidden marker in it, over markers that overlap themselves
and each other. In Runner each target has its own number of tokens and says
whether QEMU emits events other than RESET (`MCRunner`): the rebooting target of
two phases gets two tokens, which both phases or one phase and a stray marker
need, three boots, one more than its plan, and no events but RESETs;
RunnerResetRace gives it the other events too. Messages QEMU has sent and
the program has not read are bounded (`MaxEvents`), their number over time is not:
a run of events set aside at start-up is kept as one, so the behaviours where events
never end are there. `Room` is the socket buffer in
half frames; one is enough for a send to stop half-way. The passing hub run has
one sender and two listeners; the violation needs two senders. With one sender no two threads
want the capture's lock; that they may is part of `CaptureComplete`, which is about any
number of senders. QEMU's report has at most one fault, of any kind and in any field,
in a row of its own or in one too many; wrong ports are taken from those of the
instance. QemuSession has
two commands after the one start() sends, so that the answer to the first can
come during the second, and two pieces of output, events or serial text, with a
serial buffer that holds one. FatImage and DiskImage scale the geometry down so
that every boundary is crossed by some image; the program's own FAT constants are
an instance of the theorems. An 8.3 name in FatImage has a base of three
characters and its alias numbers are binary and few, so that aliases lose
characters to longer numbers and run out. DiskImage's boot catalogue counts to a
small MaxCatalog in place of 0xFFFF. ProcessGroup has two descendants, so
that one can fork the other. TestMain has at most two media and a disk. QemuLab
has three VMs, so that a failing one has one before and one after it, and two
calls of `start`.

### Fairness

Fairness is assumed only of this program's own threads and of time (a deadline
passes). QEMU, the guest, the companion and scripts may stop at any point; nothing
makes a participant of a hub read, so that participants read is a hypothesis of
EveryFrameArrives and not part of the specification. TestRun's `Ends`
(through ImplementsTestRun, unless AwaitEvent happens for ever), CallsReturn, OperationEnds, CloseEndsThreads, BuildEnds and EveryFrameArrives are the
liveness properties. QemuLab takes each `terminate` as a step that ends, which
QemuSession's CallsReturn checks; no liveness is asked of the lab itself.

## The proofs

Each theorem holds for every value of the constants that meets the module's
`ASSUME`, which TLC evaluates in the runs. Each has an inductive invariant of named
parts and one proof step per action; TLC checked the invariants on the runs'
instances before they were proved.

**SerialAssertionProofs**, from `PlanAssumption` (at least one phase; no empty phase,
marker, forbidden literal or chunk):

* `TypeCorrect` proves `IInv`: types, and `Control`, which says that an open
  machine has a current marker and that only a phase with a successor waits for
  a reboot. Types alone are not inductive because `ScanMatch` indexes the plan.
* `VerdictFinal` follows from it, action by action.
* `ForbiddenDetected` needs `Scanned`: the retained overlap is a suffix of the
  stream, one byte shorter than the longest forbidden literal or the whole
  stream, and no literal has ended yet. `WindowFindsAll` then shows that overlap
  plus chunk holds every literal that ends in the chunk.
* `MemoryBounded` bounds what is kept between chunks (`Kept`).
* `PassIsMet` and `NothingMissed` rest on `PhasesMet` and `Greedy`. `Greedy` says
  of the phase under way: the markers found end where their earliest ordered match
  in the bytes of this boot ends; the next marker does not begin between there and
  the buffer; and the buffer begins there, or holds all but one byte of that marker.
  The last clause is what makes trimming safe: a marker that ends in the next chunk
  cannot begin before the buffer. `ChainAscends`, the one induction, is over the set
  of counterexamples, which has a least element.

**RunnerProofs**, from `RunnerAssumption` (each target is one `_define_uefi_test`
lets through), prove `RunnerInv`:

* `Types`, `Queues`, `Processes` and `Sources` say where in `_run_qemu` each process,
  queue and file can be in which state; `Monitor` that at most one answer is on its
  way, none while a command is outstanding, and that the screendump is the only
  command of the loop;
* `Plan`, `Output`, `Decided` and `Reasoned` say what the flags and the verdict rest
  on: `guest_complete` on the machine's pass, the pattern or an accepted status;
  a pass on all three flags; a failure's reason on what happened. `PassEarned`,
  `FailuresNeverPass` and `ExitStatusDecides` follow;
* `Resets`, `Counted`, `Drained` and `Behind` are about reboots. With no events but
  RESETs, the boot the guest is in is the machine's phase plus the RESETs still
  queued, so when one is to be handled the drain before it has read all bytes of
  earlier boots. `BytesStayBehind` has the hypothesis `~cfg.chatty` because without
  it the statement is false: that is the run RunnerResetRace;
* `RunIsTestRun`: `Spec => Promise!Spec`, every step is a step of TestRun under the
  mapping of Runner, or invisible to it. This is ImplementsTestRun without its second
  conjunct, the return.

**TestMainProofs**, from `MainAssumption` (the options and media a target can
declare, and room for them among the default names), prove `MainInv`: what
is attached is a private copy or opened read-only or as a snapshot (`Attached`), so
runfiles are as they were (`SourcesKept`) and no two drives share a file that one
writes (`OneWriter`); `Progress` has what each stage has exported (`PassExported`);
`Accepted` keeps what the load checks judged until the run-time checks judge it
again (`AcceptedTwice`).

**LifetimeProofs**, for any set of descendants, prove `GroupInv`. Its core is
`Ending`: past the signals everything that runs has SIGKILL pending, so nothing can
fork any more. `NothingSurvives` and `GraceIsGiven` are conjuncts of it. For any
participants and networks they prove `LabInv`: the sessions are
the first participants in order, `start` is at the next one, `close` at the last one
not yet ended, and hubs stand as long as a session does. `RunningOwned`,
`NetworkOutlives` and `WholeOrEmpty` follow.

**QemuSessionProofs**, for any number of commands, events and pieces of output, prove
`SessionInv`. `Answers`: commands under way are numbered in order, and an answer on
the wire is to a command before all of them, so the last command's answer is on the
wire only when nothing else is outstanding. `EventFlow`: the events on the wire
continue those received without a gap. `Output`: what was printed is what was read
and then the pipe; `TrimTwice` shows that cutting the buffer after each chunk is
cutting it once. `OwnAnswers`, `EventsKept`, `OutputKept` and the action property
`MediaSettled` follow.

**FatImageProofs**, for every geometry, image size and tree:

* `FatInvariant` proves `FatInv`: the search interval always has a sufficient
  upper end and insufficient sizes below its lower end (`SufficientMonotone`),
  the assigned clusters follow each other, and links stay inside the assigned
  ones. `SmallestFat` and `ChainsStayInBounds` follow, and with `OwnInv` `ChainsOwned`;
* `ImageIsLayout`: a step of FatImage is a step of FatLayout or leaves its variables
  alone, so `ImageLayoutIsSound` has the three properties of the whole builder;
* `TreeInv` describes `_build_tree` from entry to entry, for every manifest: each node
  was made by an entry added before (`AllMade`), each entry added has a directory at
  every level of its path and a file at the end (`Placed`), and no path is a prefix of
  another (`Separate`). `EntryFits` looks only at the tree, so `AcceptedExactly` needs
  both directions: `FitsApart` (what fits clashes with no earlier entry) and
  `MisfitIncompatible` (what does not fit clashes with one of them);
* `NameInv` describes `_assign_short_names`: a short name is the node's key or has a
  tilde, and siblings have different ones. `DirectIsKey` and `AliasHasTilde` show it of
  the two ways a name is made, for every width and radix. With no tilde in a
  destination a name can then be mistaken for no other (`NodeIsFound`), and
  `DestinationsFound` follows the driver's lookup down the path (`PathIsFound`).
  `RecursionExists` and `UpTo` carry the inductions that the sanitizing loop, the
  digits of an alias and the lookup need: they are about sets of naturals and about
  functions, so that the provers can use them.

**DiskImageProofs**, for every job of the four builders, prove `DiskInv`: parts lie in
the usable range (`AllGood`) and in order (`InOrder`), the cursor is behind them, and
`Contents` and `Patches` say what the writes so far have left. `LayoutSound`,
`WritesAreKept` and `PatchesInside` follow.

**NetworkProofs**, for any number of ports, any traffic, any size of the socket buffers
and any list of forwards:

* `HubInvariant` proves `HubInv`. `Sockets`, `Threads`, `Aims` and `Upstream` say which
  socket is in which state while a thread reads, captures or sends, and that a port's
  frames are read in the order it sent them; `Captured` that a frame is in the capture
  before any thread sends it on and not before it was read; `Locked` that one thread at
  a time is between the header and the flush, so that an open record is that thread's.
  `close` takes no lock, so the file may be closed between any two of these calls; a
  thread that finds it so dies before it sends. `CaptureComplete` follows.
* `Lines` is what the order needs: the half frames between a sender's thread and a
  participant (what the participant has read of a frame, what is in the socket, what
  the thread has yet to send) continue what it got, source by source, without a gap.
  It is stated as long as no frame on that line was mixed with another, so
  `OrderWhileIntact` is unconditional and says that order is lost only with the framing.
* `WholeFrames` and `InOrder` have the hypothesis that no port hears two senders
  (`Lone`), which the run EthernetHub meets. Without it they are false: that is the run
  HubFullBuffer.
* `ForwardInvariant` proves `ForwardInv`, for reports of any rows at all. No two
  forwards of an accepted list are for the same port of the guest (`OneForward`), so a
  row QEMU meant for one forward is never taken for another's, and a row that is taken
  though wrong is wrong in its port only and is the only one for that forward
  (`PortIsBound`): `ResolvedForwardsBound` and `FaithfulReport`.

### Only model-checked

* All liveness (ENABLED is out of the prover's reach): `Ends` of TestRun through
  ImplementsTestRun, CallsReturn, OperationEnds, BuildEnds, CloseEndsThreads,
  EveryFrameArrives.
* The disagreements of the two violation runs, which are counterexamples.

Every invariant and every action property that a passing run checks is also a theorem.

## Not modelled

The bytes of FAT entries and boot sectors, GPT headers and CRCs, CHS addresses
and JUnit XML; the gzip wrappers around the builders; the parser of screendumps,
a sequential function whose verdict is one bit in Runner; the strings of QEMU's
command line that nothing decides on; the Bazel image rules, platforms and the
download of the QEMU runtime. They keep no state that other steps depend on.
Process ids are never reused. The lab keeps no track of a QEMU that outlived its
own failed start once the VM is started again.

Also left out: the RuntimeError of a hub's thread on an invalid length
(`network.py:132`; `send` refuses such frames) and a hub without a capture file;
writes to `qemu.log` that fail, which in the handler of an exception would skip the
companion's `terminate` (`qemu_test_runner.py:615`), and a descendant that left
QEMU's process group and prints for ever into the last read of that handler; a QEMU
that answers a screendump with success and has not written the file (SuccessIsReal is
about answers and files of other commands).

## Plan

Done, in this order: SerialAssertion, Runner, EthernetHub, FatLayout,
ProcessGroup, QemuSession, HostForwards, TestMain, QemuLab and the first
theorems; then TestRun and the refinement, FatImage, DiskImage, MachineConfig,
companions from start to end, screendumps and QEMU's descendants.

Then the theorems: SerialAssertion, Runner with its refinement of TestRun, TestMain,
ProcessGroup, QemuSession, QemuLab, FatImage, DiskImage, EthernetHub and HostForwards.

A change of the code is followed in the module that `PROJECT.json` maps it to, then in
its run, then in its proofs: TLC says quickly whether the invariant still holds, and a
failing step names the action and the conjunct that the change disturbed.
