--------------------------- MODULE SerialAssertion ---------------------------
(***************************************************************************)
(* SerialAssertionMachine of ostest/private/qemu_runner_support.py: the    *)
(* matcher that decides from the guest's serial bytes and from QMP RESET   *)
(* events whether a test's assertion plan is met.                          *)
(*                                                                         *)
(* feed() scans a chunk in a while loop; here the call is a Feed step that *)
(* does everything before the loop, then one Scan step per iteration while *)
(* pc = "scan".  No other operation runs while pc = "scan": the machine    *)
(* belongs to one thread.  Indices are 1-based.                            *)
(*                                                                         *)
(* stream and boots are history variables: the bytes fed while the verdict *)
(* was open, and for each phase entered the length of stream at its start. *)
(***************************************************************************)
EXTENDS Integers, Sequences

CONSTANTS Byte,          \* the alphabet of the serial stream
          Phases,        \* phases: a sequence of sequences of markers
          Forbidden,     \* forbidden_markers: a sequence of markers
          Chunks,        \* the chunks feed() is called with
          MaxStream      \* bound on the bytes fed in one behaviour

Marker == Seq(Byte) \ {<<>>}

\* _marker_bytes and __post_init__ reject empty markers and empty phases;
\* __init__ rejects an empty plan.  That all phases but the last end with
\* "reboot" and the last with "complete" is the reading of Phases.
ASSUME PlanAssumption ==
    /\ Phases \in Seq(Seq(Marker) \ {<<>>}) \ {<<>>}
    /\ Forbidden \in Seq(Marker)
    /\ Chunks \subseteq Marker
    /\ MaxStream \in Nat

VARIABLES forbiddenTail, markerBuffer, phaseIndex, markerIndex,
          waitingForReboot, outcome, reason, pc, stream, boots

vars == <<forbiddenTail, markerBuffer, phaseIndex, markerIndex,
          waitingForReboot, outcome, reason, pc, stream, boots>>

Outcomes == {"running", "pass", "fail"}
Reasons == {"waiting", "complete", "reboot", "forbidden", "host reset",
            "early reset", "exited", "timeout"}

-----------------------------------------------------------------------------
(***************************************************************************)
(* bytes.find and the slices feed() takes.                                 *)
(***************************************************************************)

\* m occurs in s and its last byte is s[e].
EndsAt(m, s, e) ==
    /\ e \in Len(m)..Len(s)
    /\ \A i \in 1..Len(m) : s[e - Len(m) + i] = m[i]

Occurs(m, s) == \E e \in 1..Len(s) : EndsAt(m, s, e)

\* position + len(marker) for position = s.find(m): the first occurrence.
FindEnd(m, s) ==
    CHOOSE e \in 1..Len(s) :
        /\ EndsAt(m, s, e)
        /\ \A d \in 1..(e - 1) : ~EndsAt(m, s, d)

\* Mutant: the buffer is never trimmed.
LastBytes_KeepsAll(s, n) == s

\* s[-n:] when n > 0 and b"" when n = 0.
LastBytes(s, n) == IF n >= Len(s) THEN s ELSE SubSeq(s, Len(s) - n + 1, Len(s))

\* Mutant: the last byte of a match may start the next one.
DropBytes_OffByOne(s, n) == SubSeq(s, n, Len(s))

\* s[n:]
DropBytes(s, n) == SubSeq(s, n + 1, Len(s))

\* Mutant: the overlap of the first forbidden marker serves for all.
ForbiddenOverlap_First == Len(Forbidden[1]) - 1

\* max((len(marker) - 1 for marker in forbidden), default=0)
ForbiddenOverlap ==
    CHOOSE n \in {0} \cup {Len(Forbidden[i]) - 1 : i \in DOMAIN Forbidden} :
        \A i \in DOMAIN Forbidden : Len(Forbidden[i]) - 1 <= n

-----------------------------------------------------------------------------
Init ==
    /\ forbiddenTail = <<>>
    /\ markerBuffer = <<>>
    /\ phaseIndex = 1
    /\ markerIndex = 1
    /\ waitingForReboot = FALSE
    /\ outcome = "running"
    /\ reason = "waiting"
    /\ pc = "idle"
    /\ stream = <<>>
    /\ boots = <<0>>

Fail(why) == outcome' = "fail" /\ reason' = why

ForbiddenIn(window) == \E i \in DOMAIN Forbidden : Occurs(Forbidden[i], window)

\* The part of feed() after the terminal check and before the while loop.
Receive(chunk) ==
    LET window == forbiddenTail \o chunk
    IN  /\ stream' = stream \o chunk
        /\ IF ForbiddenIn(window)
             THEN /\ Fail("forbidden")
                  /\ UNCHANGED <<forbiddenTail, markerBuffer, pc>>
             ELSE /\ forbiddenTail' = LastBytes(window, ForbiddenOverlap)
                  /\ IF waitingForReboot
                       THEN UNCHANGED <<markerBuffer, pc>>
                       ELSE markerBuffer' = markerBuffer \o chunk /\ pc' = "scan"
                  /\ UNCHANGED <<outcome, reason>>
        /\ UNCHANGED <<phaseIndex, markerIndex, waitingForReboot, boots>>

\* feed(): a chunk fed after the verdict changes nothing.
Feed(chunk) ==
    /\ pc = "idle"
    /\ Len(stream) + Len(chunk) <= MaxStream
    /\ IF outcome = "running" THEN Receive(chunk) ELSE UNCHANGED vars

\* Past the last marker the index is out of range, as after the loop in the
\* code: waiting_for_reboot or the verdict keeps it from being read.
CurrentMarker == Phases[phaseIndex][markerIndex]

\* One iteration of the while loop that finds the current marker.
ScanMatch ==
    /\ pc = "scan"
    /\ Occurs(CurrentMarker, markerBuffer)
    /\ markerIndex' = markerIndex + 1
    /\ LET rest == DropBytes(markerBuffer, FindEnd(CurrentMarker, markerBuffer))
           last == markerIndex = Len(Phases[phaseIndex])
           complete == last /\ phaseIndex = Len(Phases)
       IN  /\ markerBuffer' = IF last THEN <<>> ELSE rest
           /\ pc' = IF last THEN "idle" ELSE "scan"
           /\ waitingForReboot' = (last /\ ~complete)
           /\ outcome' = IF complete THEN "pass" ELSE outcome
           /\ reason' = IF complete THEN "complete"
                        ELSE IF last THEN "reboot" ELSE reason
    /\ UNCHANGED <<forbiddenTail, phaseIndex, stream, boots>>

\* Mutant: a miss discards the whole buffer.
ScanMiss_DropsAll ==
    /\ pc = "scan"
    /\ ~Occurs(CurrentMarker, markerBuffer)
    /\ markerBuffer' = <<>> /\ reason' = "waiting" /\ pc' = "idle"
    /\ UNCHANGED <<forbiddenTail, phaseIndex, markerIndex, waitingForReboot,
                   outcome, stream, boots>>

\* The iteration that does not find it and ends the call.
ScanMiss ==
    /\ pc = "scan"
    /\ ~Occurs(CurrentMarker, markerBuffer)
    /\ markerBuffer' = LastBytes(markerBuffer, Len(CurrentMarker) - 1)
    /\ reason' = "waiting"
    /\ pc' = "idle"
    /\ UNCHANGED <<forbiddenTail, phaseIndex, markerIndex, waitingForReboot,
                   outcome, stream, boots>>

-----------------------------------------------------------------------------
(***************************************************************************)
(* QMP events.  guest and reason are what the event's data carries;        *)
(* "absent" stands for a field that is missing or of the wrong type.       *)
(***************************************************************************)
GuestField == {"true", "false", "absent"}
ReasonField == {"guest-reset", "other", "absent"}

EnterNextPhase ==
    /\ phaseIndex' = phaseIndex + 1
    /\ markerIndex' = 1
    /\ markerBuffer' = <<>>
    /\ waitingForReboot' = FALSE
    /\ reason' = "waiting"
    /\ boots' = Append(boots, Len(stream))
    /\ UNCHANGED <<forbiddenTail, outcome, pc, stream>>

RejectReset(why) ==
    /\ Fail(why)
    /\ UNCHANGED <<forbiddenTail, markerBuffer, phaseIndex, markerIndex,
                   waitingForReboot, pc, stream, boots>>

\* handle_qmp_event and handle_reset for an event named RESET.
HandleReset(guest, why) ==
    /\ pc = "idle"
    /\ IF outcome # "running" THEN UNCHANGED vars
       ELSE IF guest # "true" /\ why # "guest-reset" THEN RejectReset("host reset")
       ELSE IF ~waitingForReboot THEN RejectReset("early reset")
       ELSE EnterNextPhase

\* Mutant: an exit or a timeout overrides a pass.
CloseRunning_AfterPass(why) ==
    /\ pc = "idle" /\ outcome # "fail"
    /\ Fail(why)
    /\ UNCHANGED <<forbiddenTail, markerBuffer, phaseIndex, markerIndex,
                   waitingForReboot, pc, stream, boots>>

\* process_exited and timed_out.
CloseRunning(why) ==
    /\ pc = "idle"
    /\ outcome = "running"
    /\ Fail(why)
    /\ UNCHANGED <<forbiddenTail, markerBuffer, phaseIndex, markerIndex,
                   waitingForReboot, pc, stream, boots>>

ProcessExited == CloseRunning("exited")
TimedOut == CloseRunning("timeout")

Next ==
    \/ \E chunk \in Chunks : Feed(chunk)
    \/ ScanMatch
    \/ ScanMiss
    \/ \E guest \in GuestField, why \in ReasonField : HandleReset(guest, why)
    \/ ProcessExited
    \/ TimedOut

Spec == Init /\ [][Next]_vars

-----------------------------------------------------------------------------
(***************************************************************************)
(* What the machine must compute, said of the whole stream at once.        *)
(***************************************************************************)

\* The bytes between the start of phase p and the start of the next one.
PhaseStream(p) ==
    SubSeq(stream, boots[p] + 1,
           IF p < Len(boots) THEN boots[p + 1] ELSE Len(stream))

\* The first n markers of ms occur in s, in order and without overlapping.
Embeds(ms, n, s) ==
    \E e \in [0..n -> 0..Len(s)] :
        /\ e[0] = 0
        /\ \A i \in 1..n : /\ EndsAt(ms[i], s, e[i])
                           /\ e[i] - Len(ms[i]) >= e[i - 1]

\* Type invariant.
TypeOK ==
    /\ forbiddenTail \in Seq(Byte)
    /\ markerBuffer \in Seq(Byte)
    /\ phaseIndex \in 1..Len(Phases)
    /\ markerIndex \in 1..(Len(Phases[phaseIndex]) + 1)
    /\ waitingForReboot \in BOOLEAN
    /\ outcome \in Outcomes
    /\ reason \in Reasons
    /\ pc \in {"idle", "scan"}
    /\ stream \in Seq(Byte)
    /\ boots \in Seq(Nat)

\* A plan passes only if every phase was entered by its own guest RESET and its
\* markers occur in order in the bytes of its own boot: neither the bytes before
\* a RESET nor a marker split over chunks is miscounted (feed, handle_reset).
PassMeansPlanMet ==
    outcome = "pass" =>
        /\ Len(boots) = Len(Phases)
        /\ \A p \in 1..Len(Phases) : Embeds(Phases[p], Len(Phases[p]), PhaseStream(p))

\* However the stream is cut into chunks, the machine has matched exactly as many
\* markers of the current phase as occur in order in the bytes of the current
\* boot: the suffix feed() retains loses no match.
ProgressIsMaximal ==
    (outcome = "running" /\ pc = "idle") =>
        \A n \in 1..Len(Phases[phaseIndex]) :
            Embeds(Phases[phaseIndex], n, PhaseStream(phaseIndex)) <=> n < markerIndex

\* The verdict "forbidden" is given exactly when some forbidden marker occurs in
\* the stream up to the verdict, however it is split over chunks and even when it
\* spans a RESET: the tail feed() keeps between chunks is long enough.
ForbiddenExactly ==
    (reason = "forbidden") <=> ForbiddenIn(stream)

\* Between calls the machine retains less than one marker of ordered bytes and
\* less than one of forbidden bytes, whatever it was fed (retained_bytes).
RetainedIsBounded ==
    pc = "idle" =>
        /\ Len(forbiddenTail) <= ForbiddenOverlap
        /\ outcome = "running" /\ ~waitingForReboot =>
               Len(markerBuffer) < Len(CurrentMarker)
        /\ outcome = "pass" \/ waitingForReboot => markerBuffer = <<>>

\* A verdict is final: no later chunk, RESET, exit or deadline changes it, or the
\* phase it was reached in (the early returns of every operation).
VerdictIsFinal ==
    [][outcome # "running" =>
         UNCHANGED <<outcome, reason, phaseIndex, markerIndex>>]_vars

=============================================================================
