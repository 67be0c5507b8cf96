------------------------------ MODULE QemuLab -------------------------------
(***************************************************************************)
(* QemuLab of ostest/python/lab.py: the object that owns the VMs and the   *)
(* Ethernet segments of a uefi_lab_test.  start() makes a hub per network, *)
(* then per participant its NICs (one port of a hub each) and its session; *)
(* close() ends the sessions, last one first, and then the hubs.  Any of   *)
(* these may raise, and a session whose QEMU survives SIGKILL for two      *)
(* seconds raises from terminate().                                        *)
(*                                                                         *)
(* A session is QemuSession (its module has the detail) seen from outside: *)
(* whether its QEMU runs.  A hub is EthernetHub seen from outside: whether *)
(* it is open, and which participant ends of its ports this process still  *)
(* holds.  A QEMU that outlived its own failed start() is followed until   *)
(* the VM is started again.                                                *)
(***************************************************************************)
EXTENDS Integers, Sequences, SequencesExt

CONSTANTS Participants,  \* the sequence of VM names
          Networks,
          NicsOf,        \* the networks each VM is attached to
          MaxStarts      \* bound: calls of start() that get past its check

Host == "host"           \* owner of the port of a host_endpoint

ASSUME LabAssumption ==
    /\ Participants \in Seq(STRING \ {Host}) /\ Len(Participants) > 0
    /\ \A i, j \in DOMAIN Participants : Participants[i] = Participants[j] => i = j
    /\ NicsOf \in [Range(Participants) -> SUBSET Networks]
    /\ MaxStarts \in Nat

VARIABLES pc,         \* "idle" between calls, "nics", "session", or "close"
          starting,   \* the call under way, or the last one, is start()
          returned,   \* history: the last call returned and did not raise
          sessions,   \* _sessions, in insertion order
          hubs,       \* _hubs
          ports,      \* the participant ends <<network, owner>> held here
          qemu,       \* each VM's QEMU
          next,       \* participant being started, or session being ended
          starts      \* calls of start() so far

vars == <<pc, starting, returned, sessions, hubs, ports, qemu, next, starts>>

VMs == Range(Participants)
Used == UNION {NicsOf[vm] : vm \in VMs}
PortsOf(vm) == NicsOf[vm] \X {vm}

Init ==
    /\ pc = "idle" /\ starting = FALSE /\ returned = TRUE
    /\ sessions = <<>> /\ hubs = {} /\ ports = {}
    /\ qemu = [vm \in VMs |-> "none"]
    /\ next = 0 /\ starts = 0

-----------------------------------------------------------------------------
(***************************************************************************)
(* QEMU.                                                                   *)
(***************************************************************************)
\* A guest powers off, or a QEMU that would not die at last does.
QemuExits(vm) ==
    /\ qemu[vm] \in {"running", "stuck"}
    /\ qemu' = [qemu EXCEPT ![vm] = "exited"]
    /\ UNCHANGED <<pc, starting, returned, sessions, hubs, ports, next, starts>>

\* terminate() leaves QEMU dead, or raises with QEMU still there.
Terminated(vm) == qemu' = [qemu EXCEPT ![vm] = IF @ = "none" THEN "none" ELSE "exited"]
TerminateRaises(vm) ==
    /\ qemu[vm] \in {"running", "stuck"}
    /\ qemu' = [qemu EXCEPT ![vm] = "stuck"]

Raise == pc' = "idle" /\ returned' = FALSE

-----------------------------------------------------------------------------
(***************************************************************************)
(* start()                                                                 *)
(***************************************************************************)
StartRefused ==
    /\ pc = "idle" /\ sessions # <<>>
    /\ starting' = TRUE /\ Raise
    /\ UNCHANGED <<sessions, hubs, ports, qemu, next, starts>>

\* All the hubs are made before any is kept: when the pcap file of one cannot
\* be created the others are garbage.
Start ==
    /\ pc = "idle" /\ sessions = <<>> /\ starts < MaxStarts
    /\ starts' = starts + 1 /\ starting' = TRUE
    /\ \/ hubs' = Used /\ next' = 1 /\ pc' = "nics" /\ UNCHANGED returned
       \/ Raise /\ UNCHANGED <<hubs, next>>
    /\ UNCHANGED <<sessions, ports, qemu>>

\* The except clause of start() closes the lab, then raises.
Cleanup == pc' = "close" /\ next' = Len(sessions)

\* A port of each of the VM's hubs; a socket call may fail at any of them.
MakeNics ==
    /\ pc = "nics" /\ next <= Len(Participants)
    /\ LET vm == Participants[next]
       IN  \/ ports' = ports \cup PortsOf(vm) /\ pc' = "session" /\ UNCHANGED next
           \/ \E made \in SUBSET PortsOf(vm) :
                made # PortsOf(vm) /\ ports' = ports \cup made /\ Cleanup
    /\ UNCHANGED <<starting, returned, sessions, hubs, qemu, starts>>

\* QemuSession.start(): QEMU has the NICs once it is spawned.
SessionStarts ==
    /\ pc = "session"
    /\ LET vm == Participants[next]
       IN  /\ qemu' = [qemu EXCEPT ![vm] = "running"]
           /\ ports' = ports \ PortsOf(vm)
           /\ sessions' = Append(sessions, vm)
    /\ next' = next + 1 /\ pc' = "nics"
    /\ UNCHANGED <<starting, returned, hubs, starts>>

\* It raises: QEMU was not spawned, or it was and start() has terminated it, or
\* could not.  The session is nowhere but in the exception.
SessionFails ==
    /\ pc = "session"
    /\ LET vm == Participants[next]
       IN  \/ UNCHANGED <<qemu, ports>>
           \/ /\ \E end \in {"exited", "stuck"} : qemu' = [qemu EXCEPT ![vm] = end]
              /\ ports' = ports \ PortsOf(vm)
    /\ Cleanup
    /\ UNCHANGED <<starting, returned, sessions, hubs, starts>>

StartReturns ==
    /\ pc = "nics" /\ next > Len(Participants)
    /\ pc' = "idle" /\ returned' = TRUE
    /\ UNCHANGED <<starting, sessions, hubs, ports, qemu, next, starts>>

-----------------------------------------------------------------------------
(***************************************************************************)
(* close()                                                                 *)
(***************************************************************************)
Close ==
    /\ pc = "idle"
    /\ starting' = FALSE /\ Cleanup
    /\ UNCHANGED <<returned, sessions, hubs, ports, qemu, starts>>

\* Mutant: the sessions are forgotten even if one cannot be ended.
CloseSession_Finally ==
    /\ pc = "close" /\ next > 0
    /\ \/ Terminated(sessions[next]) /\ next' = next - 1 /\ UNCHANGED <<pc, returned, sessions>>
       \/ TerminateRaises(sessions[next]) /\ Raise /\ sessions' = <<>> /\ UNCHANGED next
    /\ UNCHANGED <<starting, hubs, ports, starts>>

\* The first session that raises ends close(): the ones before it keep running,
\* the hubs stay open, and all of them stay in the lab.
CloseSession ==
    /\ pc = "close" /\ next > 0
    /\ \/ Terminated(sessions[next]) /\ next' = next - 1 /\ UNCHANGED <<pc, returned>>
       \/ TerminateRaises(sessions[next]) /\ Raise /\ UNCHANGED next
    /\ UNCHANGED <<starting, sessions, hubs, ports, starts>>

\* Mutant: a hub closes only the ports of its QEMUs.
PortsLeft_Host == {port \in ports : port[2] = Host}

\* EthernetHub.close() closes every participant end it ever gave out.
PortsLeft == {port \in ports : port[1] \notin hubs}

\* Mutant: the hubs go before the sessions.
CloseHubs_First ==
    /\ pc = "close" /\ (next = 0 \/ hubs # {})
    /\ hubs' = {} /\ ports' = PortsLeft
    /\ IF next = 0
       THEN sessions' = <<>> /\ pc' = "idle" /\ returned' = ~starting
       ELSE UNCHANGED <<sessions, pc, returned>>
    /\ UNCHANGED <<starting, qemu, next, starts>>

\* The hubs go last; start() then raises what made it close the lab.
CloseHubs ==
    /\ pc = "close" /\ next = 0
    /\ sessions' = <<>> /\ hubs' = {} /\ ports' = PortsLeft
    /\ pc' = "idle" /\ returned' = ~starting
    /\ UNCHANGED <<starting, qemu, next, starts>>

-----------------------------------------------------------------------------
(***************************************************************************)
(* The test script.                                                        *)
(***************************************************************************)
\* lab["a"].terminate(), lab.host_endpoint() and the endpoint's close().
ScriptTerminates(vm) ==
    /\ pc = "idle" /\ vm \in Range(sessions)
    /\ Terminated(vm) \/ TerminateRaises(vm)
    /\ UNCHANGED <<pc, starting, returned, sessions, hubs, ports, next, starts>>

HostEndpoint(network) ==
    /\ pc = "idle" /\ network \in hubs
    /\ ports' = ports \cup {<<network, Host>>}
    /\ UNCHANGED <<pc, starting, returned, sessions, hubs, qemu, next, starts>>

EndpointCloses(network) ==
    /\ pc = "idle" /\ <<network, Host>> \in ports
    /\ ports' = ports \ {<<network, Host>>}
    /\ UNCHANGED <<pc, starting, returned, sessions, hubs, qemu, next, starts>>

LabStep ==
    \/ MakeNics \/ SessionStarts \/ SessionFails \/ StartReturns \/ CloseSession \/ CloseHubs

Next ==
    \/ StartRefused \/ Start \/ Close \/ LabStep
    \/ \E vm \in VMs : QemuExits(vm) \/ ScriptTerminates(vm)
    \/ \E network \in Networks : HostEndpoint(network) \/ EndpointCloses(network)

\* The calls under way go on: nothing in them waits without a timeout.
Spec == Init /\ [][Next]_vars /\ WF_vars(LabStep)

-----------------------------------------------------------------------------
(***************************************************************************)
(* What the lab promises.                                                  *)
(***************************************************************************)
\* Every variable has its type; the sessions are a prefix of the participants.
TypeOK ==
    /\ pc \in {"idle", "nics", "session", "close"}
    /\ starting \in BOOLEAN /\ returned \in BOOLEAN
    /\ sessions \in {SubSeq(Participants, 1, n) : n \in 0..Len(Participants)}
    /\ hubs \in {{}, Used}
    /\ ports \subseteq Used \X (VMs \cup {Host})
    /\ qemu \in [VMs -> {"none", "running", "stuck", "exited"}]
    /\ next \in 0..Len(Participants) + 1 /\ starts \in 0..MaxStarts

\* A QEMU that runs is one the lab can still end, through every failure of
\* start() and close(): it is a session of the lab.
RunningIsOwned == \A vm \in VMs : qemu[vm] = "running" => vm \in Range(sessions)

\* The network of a VM that runs is there: start() makes the hubs first and
\* close() ends them last, or not at all when a session could not be ended.
NetworkOutlivesVm == \A vm \in VMs : qemu[vm] = "running" => NicsOf[vm] \subseteq hubs

\* Between two calls the lab is whole or empty: a start() that returned has a
\* session for each participant; a close() that returned, and a start() that raised
\* without finding the lab started and could close it, leave no QEMU running, no
\* hub and no descriptor, those of NICs no QEMU ever took and of host endpoints
\* included.
AllOrNothing ==
    pc = "idle" =>
        /\ starting /\ returned => sessions = Participants
        /\ sessions = <<>> =>
               hubs = {} /\ ports = {} /\ \A vm \in VMs : qemu[vm] # "running"

=============================================================================
