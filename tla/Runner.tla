------------------------------- MODULE Runner -------------------------------
(***************************************************************************)
(* _run_qemu of ostest/private/qemu_test_runner.py: the event loop that    *)
(* runs one QEMU, reads its serial pipe and its QMP socket, polls the host *)
(* companion and the process status against a deadline, and gives the      *)
(* verdict of a uefi_test.                                                 *)
(*                                                                         *)
(* Three actors interleave: the runner (pc says where in the code it is),  *)
(* QEMU with its guest, and the host companion.  Serial output is a        *)
(* sequence of tokens, each with the boot it was printed in.  A phase has  *)
(* one marker, the token "ok"; "bad" is a forbidden marker, "fail" a match *)
(* of failure_pattern.  Output that matches nothing is only a flag, noise: *)
(* some of it is waiting in the pipe.  How bytes are matched is            *)
(* SerialAssertion's subject.                                              *)
(***************************************************************************)
EXTENDS Integers, Sequences

CONSTANTS Configs,       \* the targets run: see ConfigOK
          Names,         \* the tokens a guest may print
          MaxBoots,      \* bound on the boots of the guest
          MaxEvents,     \* bound on the QMP messages not yet read
          MaxLog         \* MAX_SERIAL_LOG_BYTES, in tokens

\* What _define_uefi_test in ostest/defs.bzl lets through.  failure says that there
\* is a failure_pattern, chatty that QEMU emits QMP events other than RESET for the
\* target, and tokens bounds what its guest prints.
ConfigOK(c) ==
    /\ c.kind \in {"legacy", "ordered", "phases"}
    /\ c.phases \in Nat \ {0} /\ c.tokens \in Nat
    /\ c.kind # "phases" => c.phases = 1
    /\ {c.shot, c.hostfwd, c.companion, c.accept, c.failure, c.chatty} \subseteq BOOLEAN
    /\ c.companion => c.hostfwd
    /\ c.accept => c.kind = "legacy" /\ ~c.shot

ASSUME RunnerAssumption ==
    /\ \A c \in Configs : ConfigOK(c)
    /\ Names \subseteq {"ok", "fail", "bad"}
    /\ {MaxBoots, MaxEvents, MaxLog} \subseteq Nat

VARIABLES
    cfg,               \* the target's attributes, fixed from the start
    \* the runner
    pc, ret,           \* where it is, and where drain_serial returns to
    outcome, why,      \* the verdict and its kind of reason
    machine,           \* phase_machine: [phase, waiting, outcome]
    guestComplete, shotComplete, companionComplete,
    shotAsked,         \* screenshot_request_id is not None
    exitHandled, serialEof,
    qmpState,          \* "open", "closed" (qmp_closed_at set) or "done"
    ready,             \* the rest of the events select returned
    inbox,             \* qmp_buffer: messages received and not yet handled
    pending,           \* pending_events
    log,               \* what was written to qemu.log
    \* clocks
    expired,           \* the deadline has passed
    graceOver,         \* 0.25 s have passed since qmp_closed_at
    \* QEMU, the guest and the companion
    proc, code, pipe, noise, pipeClosed, sock, sockClosed, request, boot, printed,
    companion,
    \* history: the boot of the token that completed each phase, and the
    \* length of log when the machine passed
    matched, passAt

control == <<pc, ret>>
verdict == <<outcome, why>>
progress == <<machine, guestComplete, shotAsked, log, matched, passAt>>
loopVars == <<shotComplete, companionComplete, exitHandled, serialEof, qmpState,
              ready, inbox, pending>>
runnerVars == <<control, verdict, progress, loopVars>>
clockVars == <<expired, graceOver>>
qemuVars == <<proc, code, pipe, noise, pipeClosed, sock, sockClosed, request, boot, printed>>
vars == <<cfg, runnerVars, clockVars, qemuVars, companion>>

Token == [name : {"ok", "fail", "bad"}, boot : Nat]
NamesIn(s) == {s[i].name : i \in DOMAIN s}
Events == {"RESET", "other event"}

NeedsQmp == cfg.kind = "phases" \/ cfg.hostfwd \/ cfg.shot
AllowReboot == cfg.phases > 1
HasMachine == cfg.kind # "legacy"

Init ==
    /\ cfg \in Configs
    /\ pc = "start" /\ ret = "top"
    /\ outcome = "none" /\ why = "none"
    /\ machine = [phase |-> 1, waiting |-> FALSE, outcome |-> "running"]
    /\ guestComplete = FALSE
    /\ shotComplete = ~cfg.shot
    /\ companionComplete = ~cfg.companion
    /\ shotAsked = FALSE
    /\ exitHandled = FALSE
    /\ serialEof = FALSE
    /\ qmpState = "open"
    /\ ready = {}
    /\ inbox = <<>> /\ pending = <<>> /\ log = <<>>
    /\ expired = FALSE /\ graceOver = FALSE
    /\ proc = "none" /\ code = "none"
    /\ pipe = <<>> /\ noise = FALSE /\ pipeClosed = FALSE
    /\ sock = <<>> /\ sockClosed = FALSE /\ request = "none"
    /\ boot = 1 /\ printed = 0
    /\ companion = "none"
    /\ matched = <<>> /\ passAt = 0

-----------------------------------------------------------------------------
(***************************************************************************)
(* QEMU, its guest and the companion (external; what src/ relies on).      *)
(***************************************************************************)

\* The guest prints a token on its serial port; without a failure_pattern what
\* would match it is noise.
GuestPrint(name) ==
    /\ proc = "running" /\ (name = "fail" => cfg.failure)
    /\ printed < cfg.tokens
    /\ printed' = printed + 1
    /\ pipe' = Append(pipe, [name |-> name, boot |-> boot])
    /\ UNCHANGED <<cfg, runnerVars, clockVars, proc, code, noise, pipeClosed, sock,
                   sockClosed, request, boot, companion>>

GuestNoise ==
    /\ proc = "running"
    /\ noise' = TRUE
    /\ UNCHANGED <<cfg, runnerVars, clockVars, proc, code, pipe, pipeClosed, sock,
                   sockClosed, request, boot, printed, companion>>

QmpSend(message) ==
    /\ NeedsQmp /\ proc = "running" /\ ~sockClosed
    /\ sock' = Append(sock, message)
    /\ UNCHANGED <<cfg, runnerVars, clockVars, proc, code, pipe, noise, pipeClosed,
                   sockClosed, printed, companion>>

RoomForEvent == Len(sock) < MaxEvents

\* The guest resets itself; without reboot phases QEMU runs with -no-reboot.
GuestReset ==
    /\ AllowReboot /\ boot < MaxBoots /\ RoomForEvent
    /\ QmpSend("RESET")
    /\ boot' = boot + 1
    /\ UNCHANGED request

OtherEvent ==
    /\ cfg.chatty /\ RoomForEvent
    /\ QmpSend("other event")
    /\ UNCHANGED <<boot, request>>

\* QEMU answers the outstanding command.
QmpReply(answer) ==
    /\ request # "none"
    /\ QmpSend(answer)
    /\ answer \in IF request = "screendump" THEN {"image", "blank", "error"}
                  ELSE {"return", "error"}
    /\ request' = "none"
    /\ UNCHANGED boot

\* QEMU closes its monitor a moment before it exits, or for good.
QmpClose ==
    /\ NeedsQmp /\ proc = "running" /\ ~sockClosed
    /\ sockClosed' = TRUE
    /\ UNCHANGED <<cfg, runnerVars, clockVars, proc, code, pipe, noise, pipeClosed, sock,
                   request, boot, printed, companion>>

\* QEMU exits; a descendant may keep the serial pipe's write end open.
QemuExit(status, leak) ==
    /\ proc = "running"
    /\ proc' = "exited" /\ code' = status
    /\ pipeClosed' = ~leak
    /\ sockClosed' = TRUE
    /\ UNCHANGED <<cfg, runnerVars, clockVars, pipe, noise, sock, request, boot, printed,
                   companion>>

CompanionExit(status) ==
    /\ companion = "running"
    /\ companion' = status
    /\ UNCHANGED <<cfg, runnerVars, clockVars, qemuVars>>

\* Time passes: the global deadline, and the grace period after QMP's EOF.
DeadlinePasses ==
    /\ pc # "start" /\ ~expired
    /\ expired' = TRUE
    /\ UNCHANGED <<cfg, runnerVars, graceOver, qemuVars, companion>>

GracePasses ==
    /\ qmpState = "closed" /\ ~graceOver
    /\ graceOver' = TRUE
    /\ UNCHANGED <<cfg, runnerVars, expired, qemuVars, companion>>

Environment ==
    \/ \E name \in Names : GuestPrint(name)
    \/ GuestNoise
    \/ GuestReset
    \/ OtherEvent
    \/ \E answer \in {"return", "image", "blank", "error"} : QmpReply(answer)
    \/ QmpClose
    \/ \E status \in {"accepted", "other"}, leak \in BOOLEAN : QemuExit(status, leak)
    \/ \E status \in {"exit 0", "exit 1"} : CompanionExit(status)

-----------------------------------------------------------------------------
(***************************************************************************)
(* The assertion machine on tokens (SerialAssertion on bytes).             *)
(***************************************************************************)
MachineFeed(m, names) ==
    IF m.outcome # "running" THEN m
    ELSE IF "bad" \in names THEN [m EXCEPT !.outcome = "fail"]
    ELSE IF m.waiting \/ "ok" \notin names THEN m
    ELSE IF m.phase = cfg.phases THEN [m EXCEPT !.outcome = "pass"]
    ELSE [m EXCEPT !.waiting = TRUE]

MachineEvent(m, event) ==
    IF event # "RESET" \/ m.outcome # "running" THEN m
    ELSE IF ~m.waiting THEN [m EXCEPT !.outcome = "fail"]
    ELSE [m EXCEPT !.phase = m.phase + 1, !.waiting = FALSE]

\* process_exited and timed_out, where there is a machine.
MachineClose(m) ==
    IF HasMachine /\ m.outcome = "running" THEN [m EXCEPT !.outcome = "fail"] ELSE m

Verdict(v, reason) == outcome' = v /\ why' = reason
NoVerdict == UNCHANGED <<outcome, why>>
Goto(label) == pc' = label /\ UNCHANGED ret

-----------------------------------------------------------------------------
(***************************************************************************)
(* Startup: Popen, the QMP handshake, the host forwards, the companion.    *)
(***************************************************************************)
Start ==
    /\ pc = "start"
    /\ Goto(IF NeedsQmp THEN "connect" ELSE "top")
    /\ proc' = "running"
    /\ UNCHANGED <<cfg, verdict, progress, loopVars, clockVars, code, pipe, noise, pipeClosed,
                   sock, sockClosed, request, boot, printed, companion>>

StartFails ==
    /\ pc = "start"
    /\ Goto("done")
    /\ Verdict("fail", "not started")
    /\ UNCHANGED <<cfg, progress, loopVars, clockVars, qemuVars, companion>>

\* _connect_qmp up to the qmp_capabilities request.
Connect ==
    /\ pc = "connect"
    /\ proc = "running" /\ ~sockClosed
    /\ Goto("negotiate")
    /\ request' = "qmp_capabilities"
    /\ UNCHANGED <<cfg, verdict, progress, loopVars, clockVars, proc, code, pipe,
                   noise, pipeClosed, sock, sockClosed, boot, printed, companion>>

\* _qmp_wait_response sets events aside until the answer arrives; nothing bounds how
\* many.  The machine ignores all but RESETs, so a run of others is kept as one.
AwaitEvent ==
    /\ pc \in {"negotiate", "resolve"}
    /\ sock # <<>> /\ Head(sock) \in Events
    /\ sock' = Tail(sock)
    /\ pending' = IF pending # <<>> /\ Head(sock) = "other event"
                       /\ pending[Len(pending)] = "other event"
                    THEN pending ELSE Append(pending, Head(sock))
    /\ UNCHANGED <<cfg, control, verdict, progress, shotComplete, companionComplete,
                   exitHandled, serialEof, qmpState, ready, inbox, clockVars, proc,
                   code, pipe, noise, pipeClosed, sockClosed, request, boot, printed, companion>>

\* With host forwards the handshake is followed by "info usernet", and its answer
\* by the companion's start.
AwaitReturn ==
    /\ pc \in {"negotiate", "resolve"}
    /\ sock # <<>> /\ Head(sock) = "return"
    /\ sock' = Tail(sock)
    /\ LET query == pc = "negotiate" /\ cfg.hostfwd
       IN  /\ Goto(IF query THEN "resolve" ELSE "top")
           /\ request' = IF query THEN "info usernet" ELSE request
           /\ companion' = IF cfg.companion /\ ~query THEN "running" ELSE companion
    /\ UNCHANGED <<cfg, verdict, progress, loopVars, clockVars, proc, code, pipe,
                   noise, pipeClosed, sockClosed, boot, printed>>

\* Every raise of the startup: QEMU gone or not connected in time; and, while an
\* answer is awaited, the connection closed or silent for the whole timeout, an error
\* answer or one that is not JSON, unresolvable forwards, or a companion that cannot
\* start.  The timeout is the socket's, so it starts again with every recv: an event
\* that is there to be read is read, however late it is.
StartupRaises ==
    /\ \/ pc = "connect"
       \/ pc \in {"negotiate", "resolve"} /\ (sock # <<>> => Head(sock) \notin Events)
    /\ Goto("error")
    /\ UNCHANGED <<cfg, verdict, progress, loopVars, clockVars, qemuVars, companion>>

-----------------------------------------------------------------------------
(***************************************************************************)
(* process_serial and drain_serial.                                        *)
(***************************************************************************)

\* The boot in which the first marker of chunk was printed.
FirstOk(chunk) ==
    LET i == CHOOSE i \in DOMAIN chunk :
               chunk[i].name = "ok" /\ \A j \in 1..(i - 1) : chunk[j].name # "ok"
    IN  chunk[i].boot

\* Mutant: failure_pattern is only searched in the legacy mode.
SerialVerdict_LegacyOnly(names, m) ==
    IF HasMachine THEN (IF m.outcome = "fail" THEN "fail" ELSE "none")
    ELSE IF names \cap {"fail", "bad"} # {} THEN "fail" ELSE "none"

\* The verdict of process_serial on a chunk, and the new guest_complete.
\* failure_pattern is searched in everything read so far, in both modes; in the
\* legacy mode so is success_pattern.
SerialVerdict(names, m) ==
    IF "fail" \in names THEN "fail"
    ELSE IF HasMachine THEN (IF m.outcome = "fail" THEN "fail" ELSE "none")
    ELSE IF "bad" \in names THEN "fail" ELSE "none"

GuestDone(names, m) ==
    \/ guestComplete
    \/ HasMachine /\ "fail" \notin names /\ m.outcome = "pass"
    \/ ~HasMachine /\ names \cap {"fail", "bad"} = {} /\ "ok" \in names

\* process_serial(chunk), with the screendump request it may send.  When the
\* monitor is closed the request is lost, or the write raises.
ProcessSerial(chunk) ==
    LET names == NamesIn(chunk)
        m == IF HasMachine /\ "fail" \notin names THEN MachineFeed(machine, names)
             ELSE machine
        done == GuestDone(names, m)
        ask == done /\ ~shotComplete /\ ~shotAsked
    IN  /\ machine' = m
        /\ matched' = IF m # machine /\ m.outcome # "fail"
                        THEN Append(matched, FirstOk(chunk)) ELSE matched
        /\ passAt' = IF m # machine /\ m.outcome = "pass" THEN Len(log') ELSE passAt
        /\ guestComplete' = done
        /\ shotAsked' = (shotAsked \/ ask)
        /\ IF SerialVerdict(names, m) = "fail" THEN Verdict("fail", "serial")
           ELSE NoVerdict
        /\ \/ /\ pc' = pc
              /\ request' = IF ask /\ ~sockClosed THEN "screendump" ELSE request
           \/ /\ ask /\ sockClosed
              /\ pc' = "error"
              /\ UNCHANGED request

\* The test of the deadline inside the loop of drain_serial.
DrainDeadline == expired

\* One iteration of that loop: os.read takes all there is.
DrainRead ==
    /\ pc = "drain"
    /\ ~serialEof /\ outcome = "none" /\ ~DrainDeadline
    /\ pipe # <<>> \/ noise
    /\ log' = log \o pipe
    /\ pipe' = <<>> /\ noise' = FALSE
    /\ IF Len(log') > MaxLog
         THEN /\ Verdict("fail", "log limit")
              /\ UNCHANGED <<pc, machine, guestComplete, shotAsked, matched, passAt, request>>
         ELSE ProcessSerial(pipe)
    /\ UNCHANGED <<cfg, ret, loopVars, clockVars, proc, code, pipeClosed, sock,
                   sockClosed, boot, printed, companion>>

DrainTimeout ==
    /\ pc = "drain"
    /\ ~serialEof /\ outcome = "none" /\ DrainDeadline
    /\ machine' = MachineClose(machine)
    /\ Verdict("fail", "timeout")
    /\ UNCHANGED <<cfg, control, guestComplete, shotAsked, log, matched, passAt, loopVars,
                   clockVars, qemuVars, companion>>

\* The return of drain_serial: a verdict, nothing to read, or the end of file.
DrainReturn ==
    /\ pc = "drain"
    /\ \/ serialEof \/ outcome # "none"
       \/ ~DrainDeadline /\ pipe = <<>> /\ ~noise
    /\ serialEof' = (serialEof \/ (outcome = "none" /\ pipeClosed))
    /\ pc' = ret
    /\ UNCHANGED <<cfg, ret, verdict, progress, shotComplete, companionComplete,
                   exitHandled, qmpState, ready, inbox, pending, clockVars, qemuVars,
                   companion>>

Drain(label) == pc' = "drain" /\ ret' = label

-----------------------------------------------------------------------------
(***************************************************************************)
(* The main loop.                                                          *)
(***************************************************************************)

\* Data or an end of file is waiting and the selector still watches the source.
Readable(source) ==
    IF source = "serial" THEN ~serialEof /\ (pipe # <<>> \/ noise \/ pipeClosed)
    ELSE NeedsQmp /\ qmpState = "open" /\ (sock # <<>> \/ sockClosed)

\* The head of the loop, and select: every source that can be read right now,
\* or none when 0.1 s pass without any.
LoopTop ==
    /\ pc = "top"
    /\ IF outcome # "none" THEN Goto("stop") /\ NoVerdict /\ UNCHANGED <<machine, ready>>
       ELSE IF expired
         THEN /\ Goto("stop")
              /\ machine' = MachineClose(machine)
              /\ Verdict("fail", "timeout")
              /\ UNCHANGED ready
         ELSE /\ Goto("events")
              /\ ready' = {source \in {"serial", "qmp"} : Readable(source)}
              /\ NoVerdict /\ UNCHANGED machine
    /\ UNCHANGED <<cfg, guestComplete, shotAsked, log, matched, passAt, shotComplete,
                   companionComplete, exitHandled, serialEof, qmpState, inbox, pending,
                   clockVars, qemuVars, companion>>

\* Mutant: QMP is handled before serial.
DispatchEvent_QmpFirst ==
    /\ pc = "events"
    /\ \/ "qmp" \in ready /\ Goto("recv") /\ ready' = {}
       \/ ready = {"serial"} /\ Drain("events") /\ ready' = {}
       \/ ready = {} /\ Goto("after") /\ UNCHANGED ready
    /\ UNCHANGED <<cfg, verdict, progress, shotComplete, companionComplete, exitHandled,
                   serialEof, qmpState, inbox, pending, clockVars, qemuVars, companion>>

\* Serial is handled first; the QMP branch drains serial again before recv.
DispatchEvent ==
    /\ pc = "events"
    /\ \/ "serial" \in ready /\ Drain("events") /\ ready' = ready \ {"serial"}
       \/ ready = {"qmp"} /\ Drain("recv") /\ ready' = {}
       \/ ready = {} /\ Goto("after") /\ UNCHANGED ready
    /\ UNCHANGED <<cfg, verdict, progress, shotComplete, companionComplete, exitHandled,
                   serialEof, qmpState, inbox, pending, clockVars, qemuVars, companion>>

\* recv: everything the socket holds, or its end of file.
QmpRecv ==
    /\ pc = "recv"
    /\ IF outcome # "none" THEN Goto("after") /\ UNCHANGED <<inbox, sock, qmpState>>
       ELSE IF sock # <<>>
         THEN Goto("messages") /\ inbox' = sock /\ sock' = <<>> /\ UNCHANGED qmpState
         ELSE /\ Goto("after")
              /\ qmpState' = IF guestComplete /\ shotComplete THEN "done" ELSE "closed"
              /\ UNCHANGED <<inbox, sock>>
    /\ UNCHANGED <<cfg, verdict, progress, shotComplete, companionComplete, exitHandled,
                   serialEof, ready, pending, clockVars, proc, code, pipe, noise,
                   pipeClosed, sockClosed, request, boot, printed, companion>>

\* The exceptions of the QMP branch: recv raises once QEMU has reset the connection,
\* json.loads on a line that is not JSON, which no check has ruled out.
QmpRaises ==
    /\ \/ pc = "recv" /\ outcome = "none" /\ sockClosed
       \/ pc = "messages" /\ inbox # <<>>
    /\ Goto("error")
    /\ UNCHANGED <<cfg, verdict, progress, loopVars, clockVars, qemuVars, companion>>

\* An event given to phase_machine.handle_qmp_event; the verdict if it fails.
HandleEvent(event) ==
    IF HasMachine
      THEN /\ machine' = MachineEvent(machine, event)
           /\ IF machine'.outcome = "fail" THEN Verdict("fail", "reset") ELSE NoVerdict
      ELSE NoVerdict /\ UNCHANGED machine

\* One line of qmp_buffer: an event, or the answer to the screendump, whose image
\* must have enough distinct pixels.  Later lines are handled even after a verdict.
HandleMessage ==
    /\ pc = "messages" /\ inbox # <<>>
    /\ inbox' = Tail(inbox)
    /\ CASE Head(inbox) \in Events ->
              HandleEvent(Head(inbox)) /\ UNCHANGED shotComplete
         [] Head(inbox) \in {"blank", "error"} ->
              Verdict("fail", "screendump") /\ UNCHANGED <<machine, shotComplete>>
         [] OTHER -> shotComplete' = TRUE /\ NoVerdict /\ UNCHANGED machine
    /\ UNCHANGED <<cfg, control, guestComplete, shotAsked, log, matched, passAt,
                   companionComplete, exitHandled, serialEof, qmpState, ready, pending,
                   clockVars, qemuVars, companion>>

MessagesHandled ==
    /\ pc = "messages" /\ inbox = <<>>
    /\ Goto("after")
    /\ UNCHANGED <<cfg, verdict, progress, loopVars, clockVars, qemuVars, companion>>

\* After the events: the ones set aside during startup, behind another drain.
AfterEvents ==
    /\ pc = "after"
    /\ IF outcome # "none" THEN Goto("stop")
       ELSE IF pending # <<>> THEN Drain("pending")
       ELSE Goto("companion")
    /\ UNCHANGED <<cfg, verdict, progress, loopVars, clockVars, qemuVars, companion>>

\* A failing event ends the for loop, not the iteration of the main loop.
HandlePending ==
    /\ pc = "pending"
    /\ IF pending = <<>> \/ outcome # "none"
         THEN /\ Goto(IF pending # <<>> THEN "stop" ELSE "companion")
              /\ NoVerdict /\ UNCHANGED <<pending, machine>>
         ELSE /\ HandleEvent(Head(pending))
              /\ pending' = IF outcome' = "fail" THEN <<>> ELSE Tail(pending)
              /\ UNCHANGED control
    /\ UNCHANGED <<cfg, guestComplete, shotAsked, log, matched, passAt, shotComplete,
                   companionComplete, exitHandled, serialEof, qmpState, ready, inbox,
                   clockVars, qemuVars, companion>>

\* Mutant: the companion's status is not looked at.
CompanionDone_AnyStatus == companion \in {"exit 0", "exit 1"}

CompanionDone == companion = "exit 0"

\* companion.poll and wait, then the check that everything is complete.
PollCompanion ==
    /\ pc = "companion"
    /\ companionComplete' = (companionComplete \/ CompanionDone)
    /\ IF guestComplete /\ shotComplete /\ companionComplete'
         THEN Verdict("pass", "complete") /\ Goto("stop")
         ELSE /\ Goto("poll")
              /\ IF ~companionComplete /\ companion = "exit 1"
                   THEN Verdict("fail", "companion") ELSE NoVerdict
    /\ UNCHANGED <<cfg, progress, shotComplete, exitHandled, serialEof, qmpState, ready,
                   inbox, pending, clockVars, qemuVars, companion>>

\* process.poll()
PollProcess ==
    /\ pc = "poll"
    /\ IF proc # "running" /\ ~exitHandled THEN Drain("exit") ELSE Goto("closed")
    /\ UNCHANGED <<cfg, verdict, progress, loopVars, clockVars, qemuVars, companion>>

\* The branch taken once QEMU has exited and its output is read to the end.
HandleExit ==
    /\ pc = "exit"
    /\ IF ~serialEof THEN Goto("top") /\ NoVerdict /\ UNCHANGED <<exitHandled, guestComplete, machine>>
       ELSE /\ Goto("closed")
            /\ exitHandled' = TRUE
            /\ guestComplete' = (guestComplete \/ (outcome = "none" /\ cfg.accept /\ code = "accepted"))
            /\ IF outcome # "none" THEN NoVerdict /\ UNCHANGED machine
               ELSE IF guestComplete' /\ shotComplete
                 THEN /\ IF companionComplete THEN Verdict("pass", "exit status") ELSE NoVerdict
                      /\ UNCHANGED machine
                 ELSE /\ machine' = MachineClose(machine)
                      /\ Verdict("fail", "exited")
    /\ UNCHANGED <<cfg, shotAsked, log, matched, passAt, shotComplete, companionComplete,
                   serialEof, qmpState, ready, inbox, pending, clockVars, qemuVars, companion>>

\* Mutant: no grace period after the monitor's end of file.
QmpLost_AtOnce ==
    qmpState = "closed" /\ proc = "running" /\ ~(guestComplete /\ shotComplete)

\* The monitor closed 0.25 s ago, QEMU still runs and the test needs more of it.
QmpLost ==
    /\ qmpState = "closed" /\ graceOver
    /\ proc = "running"
    /\ ~(guestComplete /\ shotComplete)

\* The last check of an iteration.
CheckQmpClosed ==
    /\ pc = "closed"
    /\ Goto("top")
    /\ IF outcome = "none" /\ QmpLost THEN Verdict("fail", "qmp closed") ELSE NoVerdict
    /\ UNCHANGED <<cfg, progress, loopVars, clockVars, qemuVars, companion>>

-----------------------------------------------------------------------------
(***************************************************************************)
(* The end: stop_process_group, companion.terminate, the result.           *)
(***************************************************************************)
StopQemu == proc' = "stopped" /\ pipeClosed' = TRUE /\ sockClosed' = TRUE

\* Mutant: the companion is left to itself.
TerminateCompanion_Not == UNCHANGED companion

TerminateCompanion ==
    companion' = IF companion = "running" THEN "terminated" ELSE companion

Stop ==
    /\ pc = "stop"
    /\ StopQemu
    /\ IF companionComplete THEN UNCHANGED companion ELSE TerminateCompanion
    /\ Goto("done")
    /\ UNCHANGED <<cfg, verdict, progress, loopVars, clockVars, code, pipe, noise, sock,
                   request, boot, printed>>

\* The except clause: whatever the pipe still holds goes to the log.
HandleError ==
    /\ pc = "error"
    /\ StopQemu
    /\ TerminateCompanion
    /\ log' = log \o pipe /\ pipe' = <<>> /\ noise' = FALSE
    /\ Verdict("fail", "error")
    /\ Goto("done")
    /\ UNCHANGED <<cfg, machine, guestComplete, shotAsked, matched, passAt, loopVars,
                   clockVars, code, sock, request, boot, printed>>

Returned == pc = "done" /\ UNCHANGED vars

RunnerStep ==
    \/ Start \/ StartFails \/ Connect \/ AwaitEvent \/ AwaitReturn \/ StartupRaises
    \/ DrainRead \/ DrainTimeout \/ DrainReturn
    \/ LoopTop \/ DispatchEvent \/ QmpRecv \/ QmpRaises \/ HandleMessage \/ MessagesHandled
    \/ AfterEvents \/ HandlePending \/ PollCompanion \/ PollProcess \/ HandleExit
    \/ CheckQmpClosed \/ Stop \/ HandleError

Next == Environment \/ DeadlinePasses \/ GracePasses \/ RunnerStep \/ Returned

\* The runner's thread runs, and time passes; nothing is assumed of QEMU, the
\* guest and the companion.
Spec ==
    /\ Init /\ [][Next]_vars
    /\ WF_vars(RunnerStep) /\ WF_vars(DeadlinePasses)

-----------------------------------------------------------------------------
(***************************************************************************)
(* Properties.                                                             *)
(***************************************************************************)
Labels == {"start", "connect", "negotiate", "resolve", "top", "events", "drain",
           "recv", "messages", "after", "pending", "companion", "poll", "exit",
           "closed", "stop", "error", "done"}
Messages == Events \cup {"return", "image", "blank", "error"}

\* Type invariant.
TypeOK ==
    /\ cfg \in Configs
    /\ pc \in Labels
    /\ ret \in {"top", "events", "recv", "pending", "exit"}
    /\ outcome \in {"none", "pass", "fail"}
    /\ why \in {"none", "not started", "serial", "log limit", "timeout", "reset",
                "screendump", "complete", "companion", "exit status", "exited",
                "qmp closed", "error"}
    /\ machine \in [phase : 1..cfg.phases, waiting : BOOLEAN,
                    outcome : {"running", "pass", "fail"}]
    /\ {guestComplete, shotComplete, companionComplete, shotAsked, exitHandled,
        serialEof, expired, graceOver, noise, pipeClosed, sockClosed} \subseteq BOOLEAN
    /\ qmpState \in {"open", "closed", "done"}
    /\ ready \subseteq {"serial", "qmp"}
    /\ inbox \in Seq(Messages) /\ sock \in Seq(Messages) /\ pending \in Seq(Events)
    /\ pipe \in Seq(Token) /\ log \in Seq(Token)
    /\ proc \in {"none", "running", "exited", "stopped"}
    /\ code \in {"none", "accepted", "other"}
    /\ request \in {"none", "qmp_capabilities", "info usernet", "screendump"}
    /\ companion \in {"none", "running", "exit 0", "exit 1", "terminated"}
    /\ boot \in Nat /\ printed \in Nat /\ passAt \in Nat /\ matched \in Seq(Nat)

\* A test passes only when every part of it succeeded: the plan was met or, where
\* exit codes are accepted, QEMU itself exited with one; the screendump was
\* answered; and the companion, if there is one, exited with status zero.  Three
\* branches of the loop give the verdict and each tests only flags.
PassIsEarned ==
    outcome = "pass" =>
        /\ HasMachine => machine.outcome = "pass" /\ Len(matched) = cfg.phases
        /\ ~HasMachine => \/ "ok" \in NamesIn(log)
                          \/ cfg.accept /\ code = "accepted"
        /\ cfg.shot => shotAsked /\ request # "screendump"
        /\ cfg.companion => companion = "exit 0"

\* A passed test printed no match of failure_pattern among the output read, and no
\* forbidden marker: in the legacy mode anywhere in it, with a machine up to the
\* end of the chunk that completed the plan.
FailureOutputNeverPasses ==
    outcome = "pass" =>
        /\ "fail" \notin NamesIn(log)
        /\ "bad" \notin NamesIn(IF HasMachine THEN SubSeq(log, 1, passAt) ELSE log)

\* Bytes printed before a RESET never satisfy the phase that the RESET opens: the
\* marker that completes phase p was printed in boot p or later.
PreResetBytesStayBehind == \A p \in DOMAIN matched : matched[p] >= p

\* The monitor's end of file never beats an accepted exit status: if QEMU exits
\* with one, prints nothing that fails the test, neither timer runs out and no
\* exception ends the run (a connection that is reset instead of closed is one), the
\* test passes in whichever order EOF, exit and output become visible.
AcceptedExitIsAuthoritative ==
    (/\ pc = "done" /\ cfg.accept /\ ~cfg.companion /\ code = "accepted"
     /\ ~expired /\ ~graceOver
     /\ NamesIn(log) \cap {"fail", "bad"} = {}
     /\ why \notin {"error", "log limit"}) => outcome = "pass"

\* What the test still owes: the guest's part (its plan met, the success pattern in
\* the output read, or an accepted exit status), the screendump, the companion.
Owed ==
    {goal \in {"guest", "screen", "companion"} :
        CASE goal = "guest" -> ~ \/ HasMachine /\ machine.outcome = "pass"
                                 \/ ~HasMachine /\ "ok" \in NamesIn(log)
                                 \/ cfg.accept /\ code = "accepted"
          [] goal = "screen" -> ~shotComplete
          [] goal = "companion" -> cfg.companion /\ companion # "exit 0"}

Live == {p \in {"qemu", "companion"} :
            IF p = "qemu" THEN proc = "running" ELSE companion = "running"}

Promise == INSTANCE TestRun WITH
    Goals <- {"guest", "screen", "companion"}, Processes <- {"qemu", "companion"},
    owed <- Owed, live <- Live, verdict <- outcome, returned <- pc = "done"

\* _run_qemu keeps the promise of TestRun.  The verdict is never replaced, although
\* the branches for pending events and the companion go on through the iteration
\* after they set it; a pass owes nothing; on every path (verdict, start-up error,
\* an exception of the loop: the screendump's request, recv or a line that is not
\* JSON) nothing is left running at the return.  And every run returns, under endless
\* serial output too, because the deadline is checked inside drain_serial; the one
\* exception is a start-up that is kept reading events for ever, since
\* _qmp_wait_response has a timeout for each recv and no deadline over them.
ImplementsTestRun == Promise!Spec /\ (Promise!Ends \/ []<><<AwaitEvent>>_vars)

=============================================================================
