---------------------------- MODULE QemuSession ----------------------------
(***************************************************************************)
(* QemuSession of ostest/python/qemu.py: the object through which a        *)
(* scripted test drives one QEMU.  The script's thread calls one operation *)
(* at a time (pc = "idle" between calls) while QEMU prints, emits events,  *)
(* answers commands, closes its monitor and exits.                         *)
(*                                                                         *)
(* Every wait of an operation has its own deadline; expired says that the  *)
(* one of the current wait has passed.  A call that raises returns to the  *)
(* script like one that succeeds, except inside start(), which terminates  *)
(* the session first.                                                      *)
(***************************************************************************)
EXTENDS Integers, Sequences

CONSTANTS Text,          \* the pieces of serial output that patterns match
          MaxOutput,     \* bound on the pieces printed and QMP events emitted, together
          MaxBuffer,     \* MAX_SERIAL_BUFFER, in pieces
          MaxCommands    \* bound on the commands executed

ASSUME SessionAssumption ==
    /\ MaxBuffer \in Nat \ {0}
    /\ MaxOutput \in Nat
    /\ MaxCommands \in Nat \ {0}

VARIABLES
    \* the session
    pc, starting,      \* where the script's thread is; is it inside start()?
    command,           \* the command or pattern of the current call
    result,            \* how the last call ended
    qmpFile,           \* _qmp_file is not None
    timedOut,          \* a read of _qmp_file has timed out: it is dead
    qmpId, events,     \* _qmp_id, _events
    serialBuffer,      \* _serial_buffer
    log, logOpen,      \* the serial log and whether _serial_log is open
    terminated,        \* terminate() has returned
    handed,            \* media_path() has given the script a medium
    expired,           \* the deadline of the current wait has passed
    \* QEMU
    process, status,   \* "none", "running" or "exited", and the exit status
    monitor,           \* QEMU's end of the QMP connection is open
    requests, wire,    \* commands towards QEMU, messages towards the session
    pipe,              \* serial output not yet read
    heir,              \* a descendant of QEMU holds the other end of the pipe
    media,             \* the content of a writable medium
    dump,              \* the command that wrote the screendump file last, 0 if none
    \* history
    emitted, printed   \* events emitted, pieces printed

callVars == <<pc, starting, command, result, expired>>
qmpVars == <<qmpFile, timedOut, qmpId, events>>
serialVars == <<serialBuffer, log, logOpen>>
ownVars == <<qmpVars, serialVars, terminated, handed>>
channelVars == <<monitor, requests, wire, emitted>>
outputVars == <<pipe, printed>>
otherVars == <<heir, media, dump>>
qemuVars == <<process, status, channelVars, outputVars, otherVars>>
vars == <<callVars, ownVars, qemuVars>>

LastPieces(s, n) == IF Len(s) <= n THEN s ELSE SubSeq(s, Len(s) - n + 1, Len(s))
Has(s, piece) == \E i \in DOMAIN s : s[i] = piece

Message == [kind : {"event", "return", "error"}, id : Nat]
NoResult == [kind |-> "none", id |-> 0]

Init ==
    /\ pc = "new" /\ starting = FALSE /\ command = "none" /\ result = NoResult
    /\ qmpFile = FALSE /\ timedOut = FALSE /\ qmpId = 0 /\ events = <<>>
    /\ serialBuffer = <<>> /\ log = <<>> /\ logOpen = FALSE
    /\ terminated = FALSE /\ handed = FALSE /\ expired = FALSE
    /\ process = "none" /\ status = 0
    /\ monitor = FALSE /\ requests = <<>> /\ wire = <<>> /\ emitted = 0
    /\ pipe = <<>> /\ printed = <<>>
    /\ heir = FALSE /\ media = 0 /\ dump = 0

-----------------------------------------------------------------------------
(***************************************************************************)
(* QEMU (external).                                                        *)
(***************************************************************************)
QemuPrints(piece) ==
    /\ process = "running" \/ heir
    /\ Len(printed) + emitted < MaxOutput
    /\ pipe' = Append(pipe, piece) /\ printed' = Append(printed, piece)
    /\ UNCHANGED <<callVars, ownVars, process, status, channelVars, otherVars>>

QemuEvent ==
    /\ process = "running" /\ monitor /\ Len(printed) + emitted < MaxOutput
    /\ emitted' = emitted + 1
    /\ wire' = Append(wire, [kind |-> "event", id |-> emitted'])
    /\ UNCHANGED <<callVars, ownVars, process, status, monitor, requests, outputVars, otherVars>>

\* QEMU answers the oldest command, perhaps after its caller gave up; a screendump
\* has its file by then.
QemuAnswers(kind) ==
    /\ process = "running" /\ monitor /\ requests # <<>>
    /\ wire' = Append(wire, [kind |-> kind, id |-> Head(requests).id])
    /\ requests' = Tail(requests)
    /\ dump' = IF kind = "return" /\ Head(requests).dumps THEN Head(requests).id ELSE dump
    /\ UNCHANGED <<callVars, ownVars, process, status, monitor, emitted, outputVars, heir, media>>

\* The connection ends; a reset of it also discards what was under way.
Disconnect ==
    /\ monitor' = FALSE /\ requests' = <<>>
    /\ wire' \in IF requests = <<>> THEN {wire} ELSE {wire, <<>>}
    /\ UNCHANGED emitted

MonitorCloses ==
    /\ process = "running" /\ monitor
    /\ Disconnect
    /\ UNCHANGED <<callVars, ownVars, process, status, outputVars, otherVars>>

QemuExits(code) ==
    /\ process = "running"
    /\ process' = "exited" /\ status' = code
    /\ Disconnect
    /\ UNCHANGED <<callVars, ownVars, outputVars, otherVars>>

\* The guest writes to its disk.
QemuWrites ==
    /\ process = "running"
    /\ media' = 1 - media
    /\ UNCHANGED <<callVars, ownVars, process, status, channelVars, outputVars, heir, dump>>

\* A descendant that QEMU, or a wrapper around it, left has the pipe too.  Only a
\* start() that fails waits for the pipe's end, so that is when the model shows it.
HeirShows ==
    /\ pc = "terminate" /\ starting /\ ~heir
    /\ heir' = TRUE
    /\ UNCHANGED <<callVars, ownVars, process, status, channelVars, outputVars, media, dump>>

HeirEnds ==
    /\ heir /\ heir' = FALSE
    /\ UNCHANGED <<callVars, ownVars, process, status, channelVars, outputVars, media, dump>>

Qemu ==
    \/ \E piece \in Text : QemuPrints(piece)
    \/ QemuEvent
    \/ \E kind \in {"return", "error"} : QemuAnswers(kind)
    \/ MonitorCloses
    \/ \E code \in 0..1 : QemuExits(code)
    \/ QemuWrites \/ HeirShows \/ HeirEnds

DeadlinePasses ==
    /\ pc \notin {"new", "idle", "failed"} /\ ~expired
    /\ expired' = TRUE
    /\ UNCHANGED <<pc, starting, command, result, ownVars, qemuVars>>

-----------------------------------------------------------------------------
(***************************************************************************)
(* How a call begins and ends.                                             *)
(***************************************************************************)
Call(label, what) ==
    /\ pc = "idle"
    /\ pc' = label /\ command' = what /\ result' = NoResult /\ expired' = FALSE
    /\ UNCHANGED starting

Return(kind, id) ==
    /\ pc' = "idle" /\ starting' = FALSE /\ result' = [kind |-> kind, id |-> id]
    /\ UNCHANGED <<command, expired>>

\* An exception: inside start() it runs terminate() before it reaches the script.
Raise(kind) ==
    /\ pc' = IF starting THEN "terminate" ELSE "idle"
    /\ result' = [kind |-> kind, id |-> 0]
    /\ UNCHANGED <<starting, command, expired>>

-----------------------------------------------------------------------------
(***************************************************************************)
(* start and execute.                                                      *)
(***************************************************************************)

\* start() up to the greeting, and its execute("qmp_capabilities").  A Popen that
\* fails leaves the session as it was.
Start ==
    /\ pc = "new"
    /\ process' = "running" /\ monitor' = TRUE /\ qmpFile' = TRUE /\ logOpen' = TRUE
    /\ qmpId' = 1 /\ requests' = <<[id |-> 1, dumps |-> FALSE]>>
    /\ pc' = "exec" /\ starting' = TRUE /\ command' = "qmp_capabilities"
    /\ expired' = FALSE
    /\ UNCHANGED <<result, timedOut, events, serialBuffer, log, terminated, handed,
                   status, wire, emitted, outputVars, otherVars>>

\* Mutant: a new command forgets the events of earlier ones.
Execute_Forgets(what) ==
    /\ Call("exec", what)
    /\ qmpFile /\ qmpId < MaxCommands
    /\ qmpId' = qmpId + 1 /\ events' = <<>>
    /\ requests' = IF monitor THEN Append(requests, [id |-> qmpId', dumps |-> what = "screendump"])
                   ELSE requests
    /\ UNCHANGED <<qmpFile, timedOut, serialVars, terminated, handed,
                   process, status, monitor, wire, emitted, outputVars, otherVars>>

\* execute(), also as called by screendump(), whose file is all that sets it apart:
\* the request is numbered and written; to a closed monitor it is lost.
Execute(what) ==
    /\ Call("exec", what)
    /\ qmpFile /\ qmpId < MaxCommands
    /\ qmpId' = qmpId + 1
    /\ requests' = IF monitor THEN Append(requests, [id |-> qmpId', dumps |-> what = "screendump"])
                   ELSE requests
    /\ UNCHANGED <<qmpFile, timedOut, events, serialVars, terminated, handed,
                   process, status, monitor, wire, emitted, outputVars, otherVars>>

\* The write finds the connection closed: the number is used up.
WriteRaises ==
    /\ pc = "idle" /\ qmpFile /\ ~monitor /\ qmpId < MaxCommands
    /\ qmpId' = qmpId + 1
    /\ Raise("raised")
    /\ UNCHANGED <<qmpFile, timedOut, events, serialVars, terminated, handed, qemuVars>>

CanRead == pc = "exec" /\ ~timedOut /\ ~expired

\* Messages the loop of execute() passes over: events are kept, answers with
\* another id are those of calls that have timed out.
ReadEvent ==
    /\ CanRead /\ wire # <<>> /\ Head(wire).kind = "event"
    /\ wire' = Tail(wire)
    /\ events' = Append(events, Head(wire).id)
    /\ UNCHANGED <<callVars, qmpFile, timedOut, qmpId, serialVars, terminated, handed,
                   process, status, monitor, requests, emitted, outputVars, otherVars>>

\* Mutant: the id is not compared.
OwnAnswer_Any(message) == message.kind # "event"

OwnAnswer(message) == message.kind # "event" /\ message.id = qmpId

ReadStale ==
    /\ CanRead /\ wire # <<>> /\ Head(wire).kind # "event" /\ ~OwnAnswer(Head(wire))
    /\ wire' = Tail(wire)
    /\ UNCHANGED <<callVars, ownVars, process, status, monitor, requests, emitted,
                   outputVars, otherVars>>

\* The file that screendump() looks for when its command has succeeded.
DumpIsThere == dump # 0

ReadAnswer ==
    /\ CanRead /\ wire # <<>> /\ OwnAnswer(Head(wire))
    /\ wire' = Tail(wire)
    /\ CASE Head(wire).kind = "error" -> Raise("error")
         [] command = "screendump" /\ ~DumpIsThere -> Raise("no file")
         [] OTHER -> Return("return", Head(wire).id)
    /\ UNCHANGED <<ownVars, process, status, monitor, requests, emitted, outputVars, otherVars>>

\* The deadline passes between two messages, or during a read, after which every
\* later read of _qmp_file raises.
ReadTimesOut ==
    /\ pc = "exec" /\ expired
    /\ timedOut' \in {timedOut, TRUE}
    /\ Raise("timeout")
    /\ UNCHANGED <<qmpFile, qmpId, events, serialVars, terminated, handed, qemuVars>>

ReadRaises ==
    /\ pc = "exec" /\ timedOut
    /\ Raise("raised")
    /\ UNCHANGED <<ownVars, qemuVars>>

\* End of file: after "quit" it may be QEMU's way to obey.
ReadEof ==
    /\ CanRead /\ wire = <<>> /\ ~monitor
    /\ IF command = "quit" THEN pc' = "quit" /\ UNCHANGED <<starting, command, result, expired>>
       ELSE Raise("closed")
    /\ UNCHANGED <<ownVars, qemuVars>>

\* process.wait after the end of file: only status 0 is success.
QuitWait ==
    /\ pc = "quit"
    /\ \/ process = "exited" /\ status = 0 /\ Return("quit", qmpId)
       \/ process = "exited" /\ status # 0 /\ Raise("status")
       \/ process = "running" /\ expired /\ Raise("closed")
    /\ UNCHANGED <<ownVars, qemuVars>>

-----------------------------------------------------------------------------
(***************************************************************************)
(* wait_for_serial, wait_for_exit, media_path.                             *)
(***************************************************************************)

\* The output read by earlier calls is searched first.
WaitForSerial(piece) ==
    /\ process # "none"
    /\ IF Has(serialBuffer, piece)
         THEN /\ pc = "idle" /\ pc' = "idle" /\ command' = piece
              /\ result' = [kind |-> "match", id |-> 0]
              /\ UNCHANGED <<starting, expired>>
         ELSE Call("serial", piece)
    /\ UNCHANGED <<ownVars, qemuVars>>

\* Mutant: the buffer holds the last chunk only.
SerialRead_LastChunk ==
    /\ pc = "serial" /\ ~expired
    /\ pipe' = <<>>
    /\ log' = IF logOpen THEN log \o pipe ELSE log
    /\ serialBuffer' = LastPieces(pipe, MaxBuffer)
    /\ IF pipe # <<>> /\ Has(serialBuffer', command)
         THEN Return("match", 0)
         ELSE pc' = "poll" /\ UNCHANGED <<starting, command, result, expired>>
    /\ UNCHANGED <<qmpVars, logOpen, terminated, handed, process, status, channelVars,
                   printed, otherVars>>

\* One iteration up to process.poll(): select and at most one read, which takes all
\* there is.
SerialRead ==
    /\ pc = "serial" /\ ~expired
    /\ pipe' = <<>>
    /\ log' = IF logOpen THEN log \o pipe ELSE log
    /\ serialBuffer' = LastPieces(serialBuffer \o pipe, MaxBuffer)
    /\ IF pipe # <<>> /\ Has(serialBuffer', command)
         THEN Return("match", 0)
         ELSE pc' = "poll" /\ UNCHANGED <<starting, command, result, expired>>
    /\ UNCHANGED <<qmpVars, logOpen, terminated, handed, process, status, channelVars,
                   printed, otherVars>>

SerialPoll ==
    /\ pc = "poll"
    /\ IF process = "exited" THEN Raise("exited")
       ELSE pc' = "serial" /\ UNCHANGED <<starting, command, result, expired>>
    /\ UNCHANGED <<ownVars, qemuVars>>

SerialTimesOut ==
    /\ pc = "serial" /\ expired
    /\ Raise("timeout")
    /\ UNCHANGED <<ownVars, qemuVars>>

WaitForExit ==
    /\ Call("wait", "exit")
    /\ process # "none"
    /\ UNCHANGED <<ownVars, qemuVars>>

ExitWait ==
    /\ pc = "wait"
    /\ \/ process = "exited" /\ (IF status = 0 THEN Return("exit", 0) ELSE Raise("status"))
       \/ process = "running" /\ expired /\ Raise("timeout")
    /\ UNCHANGED <<ownVars, qemuVars>>

\* Mutant: the process is not polled.
MediaPath_Running ==
    /\ pc = "idle" /\ process # "none"
    /\ handed' = TRUE
    /\ UNCHANGED <<callVars, qmpVars, serialVars, terminated, qemuVars>>

\* media_path and export_media: refused while QEMU runs.
MediaPath ==
    /\ pc = "idle" /\ process # "none"
    /\ handed' = (handed \/ process = "exited")
    /\ UNCHANGED <<callVars, qmpVars, serialVars, terminated, qemuVars>>

-----------------------------------------------------------------------------
(***************************************************************************)
(* terminate, called by the script or by a start() that fails.             *)
(***************************************************************************)
Terminate ==
    /\ Call("terminate", "terminate")
    /\ UNCHANGED <<ownVars, qemuVars>>

\* The QMP file is closed; a running QEMU gets SIGTERM.
CloseQmp ==
    /\ pc = "terminate"
    /\ qmpFile' = FALSE /\ monitor' = FALSE /\ wire' = <<>> /\ requests' = <<>>
    /\ pc' = IF process = "running" THEN "term" ELSE "close"
    /\ expired' = FALSE
    /\ UNCHANGED <<starting, command, result, timedOut, qmpId, events, serialVars,
                   terminated, handed, process, status, emitted, outputVars, otherVars>>

\* Mutant: the wait has no timeout.
TermWait_Untimed ==
    /\ pc = "term" /\ process = "exited"
    /\ pc' = "close" /\ expired' = FALSE
    /\ UNCHANGED <<starting, command, result, ownVars, qemuVars>>

\* process.wait(timeout=2), then SIGKILL to the group, which also ends an heir.
TermWait ==
    /\ pc = "term"
    /\ \/ process = "exited" /\ pc' = "close"
       \/ process = "running" /\ expired /\ pc' = "kill"
    /\ expired' = FALSE
    /\ heir' = (heir /\ pc' # "kill")
    /\ UNCHANGED <<starting, command, result, ownVars, process, status, channelVars, outputVars,
                   media, dump>>

\* terminate() is over; a start() that called it goes on with label.
Finish(kind, label) ==
    /\ pc' = IF starting THEN label ELSE "idle"
    /\ result' = [kind |-> kind, id |-> 0]
    /\ UNCHANGED <<starting, command, expired>>

\* The second wait may time out too: the log then stays open.
KillWait ==
    /\ pc = "kill"
    /\ \/ process = "exited" /\ pc' = "close" /\ UNCHANGED <<starting, command, result, expired>>
       \/ process = "running" /\ expired /\ Finish("timeout", "failed")
    /\ UNCHANGED <<ownVars, qemuVars>>

CloseLog ==
    /\ pc = "close"
    /\ logOpen' = FALSE /\ terminated' = TRUE
    /\ Finish("terminated", "drain")
    /\ UNCHANGED <<qmpVars, serialBuffer, log, handed, qemuVars>>

\* A start() that failed adds to the log what comes out of the pipe up to its end,
\* which is there when nobody holds the other side any more.
DrainPipe ==
    /\ pc = "drain" /\ ~heir
    /\ log' = log \o pipe /\ pipe' = <<>>
    /\ pc' = "failed"
    /\ UNCHANGED <<starting, command, result, expired, qmpVars, serialBuffer, logOpen, terminated,
                   handed, process, status, channelVars, printed, otherVars>>

Failed == pc = "failed" /\ UNCHANGED vars

-----------------------------------------------------------------------------
Script ==
    \/ Start
    \/ \E what \in {"screendump", "quit"} : Execute(what)
    \/ WriteRaises
    \/ \E piece \in Text : WaitForSerial(piece)
    \/ WaitForExit
    \/ MediaPath
    \/ Terminate

SessionStep ==
    \/ ReadEvent \/ ReadStale \/ ReadAnswer \/ ReadTimesOut
    \/ ReadRaises \/ ReadEof \/ QuitWait
    \/ SerialRead \/ SerialPoll \/ SerialTimesOut \/ ExitWait
    \/ CloseQmp \/ TermWait \/ KillWait \/ CloseLog \/ DrainPipe

Next == Qemu \/ DeadlinePasses \/ Script \/ SessionStep \/ Failed

\* The thread inside a call runs and time passes; QEMU and the script need not.
Spec == Init /\ [][Next]_vars /\ WF_vars(SessionStep) /\ WF_vars(DeadlinePasses)

-----------------------------------------------------------------------------
(***************************************************************************)
(* Properties.                                                             *)
(***************************************************************************)

\* Type invariant.
TypeOK ==
    /\ pc \in {"new", "idle", "exec", "quit", "serial", "poll", "wait", "terminate",
               "term", "kill", "close", "drain", "failed"}
    /\ result \in [kind : {"none", "return", "error", "timeout", "raised", "closed",
                           "quit", "status", "match", "exited", "exit", "terminated",
                           "no file"}, id : Nat]
    /\ {starting, qmpFile, timedOut, logOpen, terminated, handed, expired, monitor, heir}
           \subseteq BOOLEAN
    /\ command \in Text \cup {"none", "qmp_capabilities", "quit", "screendump", "exit",
                            "terminate"}
    /\ qmpId \in 0..MaxCommands /\ emitted \in 0..MaxOutput
    /\ events \in Seq(1..MaxOutput) /\ requests \in Seq([id : 1..MaxCommands, dumps : BOOLEAN])
    /\ dump \in 0..MaxCommands
    /\ wire \in Seq(Message)
    /\ process \in {"none", "running", "exited"} /\ status \in 0..1 /\ media \in 0..1
    /\ {serialBuffer, log, pipe, printed} \subseteq Seq(Text)
    /\ Len(serialBuffer) <= MaxBuffer

\* A call that succeeds has the answer to its own command, never the late one of a
\* call that timed out before it, and a screendump has the file that its own command
\* wrote, not one of an earlier or abandoned call; a quit whose connection was cut before the answer
\* succeeds only if QEMU is gone with status 0 (execute).
SuccessIsReal ==
    /\ result.kind = "return" =>
           result.id = qmpId /\ (command = "screendump" => dump = qmpId)
    /\ result.kind = "quit" => process = "exited" /\ status = 0

\* The events property holds QEMU's events in order and without a gap, whichever
\* calls they arrived in and however those calls ended.
EventsInOrder == \A i \in DOMAIN events : events[i] = i

\* Serial output is neither lost nor reordered between calls: what was read is in
\* the log, and the buffer that the next call searches holds the end of it.  What
\* QEMU printed before start() failed is in the log too.
SerialIsKept ==
    LET seen == SubSeq(printed, 1, Len(printed) - Len(pipe))
    IN  /\ pc # "failed" => serialBuffer = LastPieces(seen, MaxBuffer)
        /\ logOpen \/ starting => log = seen
        /\ terminated /\ pc = "failed" => log = printed

\* A medium handed to the script is not written any more: QEMU has stopped before
\* media_path returns and no operation runs it again.
MediaIsStable == [][handed => media' = media]_vars

\* Every call returns or raises: a silent QEMU, one that only sends events, and one
\* that ignores SIGTERM included.  The one exception is a start() that fails while a
\* descendant of QEMU keeps the pipe: terminate() signals the group only while QEMU
\* itself runs and kills it only if QEMU ignores SIGTERM, and the read has no time-out.
CallsReturn == (pc # "new") ~> (pc \in {"idle", "failed"} \/ (pc = "drain" /\ heir))

=============================================================================
