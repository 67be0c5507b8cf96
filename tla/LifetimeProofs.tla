--------------------------- MODULE LifetimeProofs ---------------------------
(***************************************************************************)
(* Theorems about what a test starts and has to end, for every number of   *)
(* processes and for every lab.                                            *)
(*                                                                         *)
(* QemuLab: whatever fails, a QEMU that runs is the lab's, its networks    *)
(* are there, and between two calls the lab is whole or empty.             *)
(* ProcessGroup: when an operation on a group is over nothing survives it, *)
(* and nothing was killed before its grace period had passed.              *)
(* The two machines share no variable and no definition.                   *)
(***************************************************************************)
EXTENDS QemuLab, ProcessGroup, TLAPS

-----------------------------------------------------------------------------
(***************************************************************************)
(* Labs: the inductive invariant.                                          *)
(***************************************************************************)

\* The types; the sessions are the first participants, in their order.
LabTypes ==
    /\ pc \in {"idle", "nics", "session", "close"}
    /\ starting \in BOOLEAN /\ returned \in BOOLEAN
    /\ sessions \in Seq(VMs) /\ Len(sessions) <= Len(Participants)
    /\ \A i \in 1..Len(sessions) : sessions[i] = Participants[i]
    /\ hubs \in {{}, Used}
    /\ ports \subseteq Used \X (VMs \cup {Host})
    /\ qemu \in [VMs -> {"none", "running", "stuck", "exited"}]
    /\ next \in 0..Len(Participants) + 1 /\ starts \in 0..MaxStarts

\* start() is at the participant after the last session; close() is at a session.
Position ==
    /\ pc \in {"nics", "session"} => next = Len(sessions) + 1
    /\ pc = "session" => next <= Len(Participants)
    /\ pc = "close" => next <= Len(sessions)

\* A QEMU that runs is a session's.
Owned ==
    \A vm \in VMs : qemu[vm] = "running" => \E i \in 1..Len(sessions) : sessions[i] = vm

\* The sessions close() is done with run no more.
Ended == pc = "close" => \A i \in next + 1..Len(sessions) : qemu[sessions[i]] # "running"

\* While a participant is being started, and while there is a session, the hubs stand;
\* every port is one of a hub that stands.
HubsStand ==
    /\ pc \in {"nics", "session"} \/ sessions # <<>> => hubs = Used
    /\ \A port \in ports : port[1] \in hubs

\* AllOrNothing, without what Owned says of the processes.
Whole == pc = "idle" /\ starting /\ returned => sessions = Participants
Empty == pc = "idle" /\ sessions = <<>> => hubs = {} /\ ports = {}

LabInv == LabTypes /\ Position /\ Owned /\ Ended /\ HubsStand /\ Whole /\ Empty

\* What the constants are.
LEMMA Constants ==
    /\ Participants \in Seq(VMs) /\ Len(Participants) \in Nat \ {0} /\ MaxStarts \in Nat
    /\ \A i \in 1..Len(Participants) : Participants[i] \in VMs
    /\ \A vm \in VMs : NicsOf[vm] \subseteq Used
  BY LabAssumption DEF VMs, Used, Range

\* A new lab has it.
LEMMA LabInit == Init => LabInv
<1> SUFFICES ASSUME Init PROVE LabInv
  OBVIOUS
<1>1. sessions \in Seq(VMs) /\ Len(sessions) = 0
  BY DEF Init
<1>2. LabTypes
  <2>1. starting \in BOOLEAN /\ returned \in BOOLEAN
    BY DEF Init
  <2>2. next \in 0..Len(Participants) + 1 /\ starts \in 0..MaxStarts
    BY Constants DEF Init
  <2>3. Len(sessions) <= Len(Participants)
    BY <1>1, Constants
  <2> QED
    BY <1>1, <2>1, <2>2, <2>3 DEF Init, LabTypes
<1>3. Position /\ Owned /\ Ended
  BY <1>1 DEF Init, Position, Owned, Ended
<1>4. HubsStand /\ Whole /\ Empty
  BY <1>1 DEF Init, HubsStand, Whole, Empty
<1> QED
  BY <1>2, <1>3, <1>4 DEF LabInv

\* Each step of a call, of the script or of a QEMU preserves it.
LEMMA LabStepInv == LabInv /\ [Next]_vars => LabInv'
<1> SUFFICES ASSUME LabInv, [Next]_vars PROVE LabInv'
  OBVIOUS
<1> USE Constants DEF LabInv
<1>1. CASE StartRefused
  <2> USE <1>1 DEF StartRefused, Raise
  <2>1. LabTypes'
    BY DEF LabTypes, Position
  <2>2. Position'
    BY DEF Position, LabTypes
  <2>3. Owned'
    BY DEF Owned, LabTypes, Ended, Position
  <2>4. Ended'
    BY DEF Ended, LabTypes, Position, Owned
  <2>5. HubsStand'
    BY DEF HubsStand, LabTypes, Empty
  <2>6. Whole'
    BY DEF Whole, LabTypes, Position
  <2>7. Empty'
    BY DEF Empty, LabTypes, Position, HubsStand
  <2> QED
    BY <2>1, <2>2, <2>3, <2>4, <2>5, <2>6, <2>7 DEF LabInv
<1>2. CASE Start
  <2> USE <1>2 DEF Start, Raise
  <2>1. starting' \in BOOLEAN /\ returned' \in BOOLEAN
    BY DEF LabTypes
  <2>2. LabTypes'
    BY <2>1 DEF LabTypes, Position
  <2>3. Position'
    BY <2>1 DEF Position, LabTypes
  <2>4. Owned'
    BY <2>1 DEF Owned, LabTypes, Ended, Position
  <2>5. Ended'
    BY <2>1 DEF Ended, LabTypes, Position, Owned
  <2>6. HubsStand'
    BY <2>1 DEF HubsStand, LabTypes, Empty
  <2>7. Whole'
    BY <2>1 DEF Whole, LabTypes, Position
  <2>8. Empty'
    BY <2>1 DEF Empty, LabTypes, Position, HubsStand
  <2> QED
    BY <2>2, <2>3, <2>4, <2>5, <2>6, <2>7, <2>8 DEF LabInv
<1>3. CASE MakeNics
  <2> USE <1>3 DEF MakeNics, Cleanup, PortsOf
  <2>1. Participants[next] \in VMs
    BY DEF LabTypes, Position
  <2>2. LabTypes'
    BY <2>1 DEF LabTypes, Position
  <2>3. Position'
    BY <2>1 DEF Position, LabTypes
  <2>4. Owned'
    BY <2>1 DEF Owned, LabTypes, Ended, Position
  <2>5. Ended'
    BY <2>1 DEF Ended, LabTypes, Position, Owned
  <2>6. HubsStand'
    BY <2>1 DEF HubsStand, LabTypes, Empty
  <2>7. Whole'
    BY <2>1 DEF Whole, LabTypes, Position
  <2>8. Empty'
    BY <2>1 DEF Empty, LabTypes, Position, HubsStand
  <2> QED
    BY <2>2, <2>3, <2>4, <2>5, <2>6, <2>7, <2>8 DEF LabInv
<1>4. CASE SessionStarts
  <2> USE <1>4 DEF SessionStarts, PortsOf
  <2>1. next \in 1..Len(Participants) /\ Participants[next] \in VMs
    BY DEF LabTypes, Position
  <2>2. sessions' = Append(sessions, Participants[next]) /\ sessions \in Seq(VMs)
    BY DEF LabTypes
  <2>3. /\ sessions' \in Seq(VMs) /\ Len(sessions') = Len(sessions) + 1
        /\ \A i \in 1..Len(sessions) : sessions'[i] = sessions[i]
        /\ sessions'[Len(sessions) + 1] = Participants[next]
    BY <2>1, <2>2
  <2>4. LabTypes'
    BY <2>1, <2>2, <2>3 DEF LabTypes, Position
  <2>5. Position'
    BY <2>1, <2>2, <2>3 DEF Position, LabTypes
  <2>6. Owned'
    BY <2>1, <2>2, <2>3 DEF Owned, LabTypes, Ended, Position
  <2>7. Ended'
    BY <2>1, <2>2, <2>3 DEF Ended, LabTypes, Position, Owned
  <2>8. HubsStand'
    BY <2>1, <2>2, <2>3 DEF HubsStand, LabTypes, Empty
  <2>9. Whole'
    BY <2>1, <2>2, <2>3 DEF Whole, LabTypes, Position
  <2>10. Empty'
    BY <2>1, <2>2, <2>3 DEF Empty, LabTypes, Position, HubsStand
  <2> QED
    BY <2>4, <2>5, <2>6, <2>7, <2>8, <2>9, <2>10 DEF LabInv
<1>5. CASE SessionFails
  <2> USE <1>5 DEF SessionFails, Cleanup, PortsOf
  <2>1. next \in 1..Len(Participants) /\ Participants[next] \in VMs
    BY DEF LabTypes, Position
  <2>2. LabTypes'
    BY <2>1 DEF LabTypes, Position
  <2>3. Position'
    BY <2>1 DEF Position, LabTypes
  <2>4. Owned'
    BY <2>1 DEF Owned, LabTypes, Ended, Position
  <2>5. Ended'
    BY <2>1 DEF Ended, LabTypes, Position, Owned
  <2>6. HubsStand'
    BY <2>1 DEF HubsStand, LabTypes, Empty
  <2>7. Whole'
    BY <2>1 DEF Whole, LabTypes, Position
  <2>8. Empty'
    BY <2>1 DEF Empty, LabTypes, Position, HubsStand
  <2> QED
    BY <2>2, <2>3, <2>4, <2>5, <2>6, <2>7, <2>8 DEF LabInv
<1>6. CASE StartReturns
  <2> USE <1>6 DEF StartReturns
  <2>1. LabTypes'
    BY DEF LabTypes, Position
  <2>2. Position'
    BY DEF Position, LabTypes
  <2>3. Owned'
    BY DEF Owned, LabTypes, Ended, Position
  <2>4. Ended'
    BY DEF Ended, LabTypes, Position, Owned
  <2>5. HubsStand'
    BY DEF HubsStand, LabTypes, Empty
  <2>6. Whole'
    BY DEF Whole, LabTypes, Position
  <2>7. Empty'
    BY DEF Empty, LabTypes, Position, HubsStand
  <2> QED
    BY <2>1, <2>2, <2>3, <2>4, <2>5, <2>6, <2>7 DEF LabInv
<1>7. CASE Close
  <2> USE <1>7 DEF Close, Cleanup
  <2>1. starting' \in BOOLEAN /\ returned' \in BOOLEAN
    BY DEF LabTypes
  <2>2. LabTypes'
    BY <2>1 DEF LabTypes, Position
  <2>3. Position'
    BY <2>1 DEF Position, LabTypes
  <2>4. Owned'
    BY <2>1 DEF Owned, LabTypes, Ended, Position
  <2>5. Ended'
    BY <2>1 DEF Ended, LabTypes, Position, Owned
  <2>6. HubsStand'
    BY <2>1 DEF HubsStand, LabTypes, Empty
  <2>7. Whole'
    BY <2>1 DEF Whole, LabTypes, Position
  <2>8. Empty'
    BY <2>1 DEF Empty, LabTypes, Position, HubsStand
  <2> QED
    BY <2>2, <2>3, <2>4, <2>5, <2>6, <2>7, <2>8 DEF LabInv
<1>8. CASE CloseSession
  <2> USE <1>8 DEF CloseSession, Terminated, TerminateRaises, Raise
  <2>1. next \in 1..Len(sessions) /\ sessions[next] \in VMs
    BY DEF LabTypes, Position
  <2>2. starting' \in BOOLEAN /\ returned' \in BOOLEAN
    BY DEF LabTypes
  <2>3. LabTypes'
    <3>1. qemu' \in [VMs -> {"none", "running", "stuck", "exited"}]
      BY <2>1 DEF LabTypes
    <3>2. next' \in 0..Len(Participants) + 1 /\ pc' \in {"idle", "nics", "session", "close"}
      BY <2>1 DEF LabTypes
    <3>3. UNCHANGED <<sessions, hubs, ports, starts>>
      OBVIOUS
    <3> QED
      BY <2>2, <3>1, <3>2, <3>3 DEF LabTypes
  <2>4. Position'
    BY <2>1, <2>2 DEF Position, LabTypes
  <2>5. Owned'
    BY <2>1, <2>2 DEF Owned, LabTypes, Ended, Position
  <2>6. Ended'
    BY <2>1, <2>2 DEF Ended, LabTypes, Position, Owned
  <2>7. HubsStand'
    BY <2>1, <2>2 DEF HubsStand, LabTypes, Empty
  <2>8. Whole'
    BY <2>1, <2>2 DEF Whole, LabTypes, Position
  <2>9. Empty'
    BY <2>1, <2>2 DEF Empty, LabTypes, Position, HubsStand
  <2> QED
    BY <2>3, <2>4, <2>5, <2>6, <2>7, <2>8, <2>9 DEF LabInv
<1>9. CASE CloseHubs
  <2> USE <1>9 DEF CloseHubs, PortsLeft
  <2>1. ports' = {}
    BY DEF HubsStand
  <2>2. sessions' \in Seq(VMs) /\ Len(sessions') = 0
    OBVIOUS
  <2>3. \A vm \in VMs : qemu[vm] # "running"
    BY DEF LabTypes, Owned, Ended
  <2>4. LabTypes'
    BY <2>1, <2>2, <2>3 DEF LabTypes, Position
  <2>5. Position'
    BY <2>1, <2>2, <2>3 DEF Position, LabTypes
  <2>6. Owned'
    BY <2>1, <2>2, <2>3 DEF Owned, LabTypes, Ended, Position
  <2>7. Ended'
    BY <2>1, <2>2, <2>3 DEF Ended, LabTypes, Position, Owned
  <2>8. HubsStand'
    BY <2>1, <2>2, <2>3 DEF HubsStand, LabTypes, Empty
  <2>9. Whole'
    BY <2>1, <2>2, <2>3 DEF Whole, LabTypes, Position
  <2>10. Empty'
    BY <2>1, <2>2, <2>3 DEF Empty, LabTypes, Position, HubsStand
  <2> QED
    BY <2>4, <2>5, <2>6, <2>7, <2>8, <2>9, <2>10 DEF LabInv
<1>10. ASSUME NEW vm \in VMs, QemuExits(vm) PROVE LabInv'
  <2> USE <1>10 DEF QemuExits
  <2>1. LabTypes'
    BY DEF LabTypes, Position
  <2>2. Position'
    BY DEF Position, LabTypes
  <2>3. Owned'
    BY DEF Owned, LabTypes, Ended, Position
  <2>4. Ended'
    BY DEF Ended, LabTypes, Position, Owned
  <2>5. HubsStand'
    BY DEF HubsStand, LabTypes, Empty
  <2>6. Whole'
    BY DEF Whole, LabTypes, Position
  <2>7. Empty'
    BY DEF Empty, LabTypes, Position, HubsStand
  <2> QED
    BY <2>1, <2>2, <2>3, <2>4, <2>5, <2>6, <2>7 DEF LabInv
<1>11. ASSUME NEW vm \in VMs, ScriptTerminates(vm) PROVE LabInv'
  <2> USE <1>11 DEF ScriptTerminates, Terminated, TerminateRaises
  <2>1. LabTypes'
    BY DEF LabTypes, Position
  <2>2. Position'
    BY DEF Position, LabTypes
  <2>3. Owned'
    BY DEF Owned, LabTypes, Ended, Position
  <2>4. Ended'
    BY DEF Ended, LabTypes, Position, Owned
  <2>5. HubsStand'
    BY DEF HubsStand, LabTypes, Empty
  <2>6. Whole'
    BY DEF Whole, LabTypes, Position
  <2>7. Empty'
    BY DEF Empty, LabTypes, Position, HubsStand
  <2> QED
    BY <2>1, <2>2, <2>3, <2>4, <2>5, <2>6, <2>7 DEF LabInv
<1>12. ASSUME NEW network \in Networks, HostEndpoint(network) PROVE LabInv'
  <2> USE <1>12 DEF HostEndpoint
  <2>1. LabTypes'
    BY DEF LabTypes, Position
  <2>2. Position'
    BY DEF Position, LabTypes
  <2>3. Owned'
    BY DEF Owned, LabTypes, Ended, Position
  <2>4. Ended'
    BY DEF Ended, LabTypes, Position, Owned
  <2>5. HubsStand'
    BY DEF HubsStand, LabTypes, Empty
  <2>6. Whole'
    BY DEF Whole, LabTypes, Position
  <2>7. Empty'
    BY DEF Empty, LabTypes, Position, HubsStand
  <2> QED
    BY <2>1, <2>2, <2>3, <2>4, <2>5, <2>6, <2>7 DEF LabInv
<1>13. ASSUME NEW network \in Networks, EndpointCloses(network) PROVE LabInv'
  <2> USE <1>13 DEF EndpointCloses
  <2>1. LabTypes'
    BY DEF LabTypes, Position
  <2>2. Position'
    BY DEF Position, LabTypes
  <2>3. Owned'
    BY DEF Owned, LabTypes, Ended, Position
  <2>4. Ended'
    BY DEF Ended, LabTypes, Position, Owned
  <2>5. HubsStand'
    BY DEF HubsStand, LabTypes, Empty
  <2>6. Whole'
    BY DEF Whole, LabTypes, Position
  <2>7. Empty'
    BY DEF Empty, LabTypes, Position, HubsStand
  <2> QED
    BY <2>1, <2>2, <2>3, <2>4, <2>5, <2>6, <2>7 DEF LabInv
<1>14. CASE UNCHANGED vars
  <2> USE <1>14 DEF vars
  <2>1. LabTypes'
    BY DEF LabTypes, Position
  <2>2. Position'
    BY DEF Position, LabTypes
  <2>3. Owned'
    BY DEF Owned, LabTypes, Ended, Position
  <2>4. Ended'
    BY DEF Ended, LabTypes, Position, Owned
  <2>5. HubsStand'
    BY DEF HubsStand, LabTypes, Empty
  <2>6. Whole'
    BY DEF Whole, LabTypes, Position
  <2>7. Empty'
    BY DEF Empty, LabTypes, Position, HubsStand
  <2> QED
    BY <2>1, <2>2, <2>3, <2>4, <2>5, <2>6, <2>7 DEF LabInv
<1> QED
  BY <1>1, <1>2, <1>3, <1>4, <1>5, <1>6, <1>7, <1>8, <1>9, <1>10, <1>11, <1>12, <1>13, <1>14
     DEF Next, LabStep

-----------------------------------------------------------------------------
\* The inductive invariant holds in every state of every lab.
THEOREM LabInvariant == Spec => []LabInv
<1>1. Init => LabInv
  BY LabInit
<1>2. LabInv /\ [Next]_vars => LabInv'
  BY LabStepInv
<1> QED
  BY <1>1, <1>2, PTL DEF Spec

\* Type correctness, the sessions being a prefix of the participants.
THEOREM LabTypesHold == Spec => []TypeOK
<1>1. LabInv => TypeOK
  <2> SUFFICES ASSUME LabInv PROVE TypeOK
    OBVIOUS
  <2>1. /\ sessions \in Seq(VMs) /\ Participants \in Seq(VMs)
        /\ Len(sessions) \in 0..Len(Participants)
        /\ \A i \in 1..Len(sessions) : sessions[i] = Participants[i]
    BY Constants DEF LabInv, LabTypes
  <2>2. sessions = SubSeq(Participants, 1, Len(sessions))
    BY <2>1
  <2> QED
    BY <2>1, <2>2 DEF LabInv, LabTypes, TypeOK
<1> QED
  BY <1>1, LabInvariant, PTL

\* However start() and close() fail, a QEMU that runs is a session of the lab, which
\* close() can still end.
THEOREM RunningOwned == Spec => []RunningIsOwned
<1>1. LabInv => RunningIsOwned
  BY DEF LabInv, LabTypes, Owned, RunningIsOwned, Range
<1> QED
  BY <1>1, LabInvariant, PTL

\* The networks of a VM that runs are open: start() makes the hubs first and close()
\* ends them last.
THEOREM NetworkOutlives == Spec => []NetworkOutlivesVm
<1>1. LabInv => NetworkOutlivesVm
  BY Constants DEF LabInv, LabTypes, Owned, HubsStand, NetworkOutlivesVm
<1> QED
  BY <1>1, LabInvariant, PTL

\* Between two calls a lab that start() returned has every session, and one without
\* sessions has no hub, no descriptor and no QEMU that runs.
THEOREM WholeOrEmpty == Spec => []AllOrNothing
<1>1. LabInv => AllOrNothing
  BY DEF LabInv, LabTypes, Owned, Whole, Empty, AllOrNothing
<1> QED
  BY <1>1, LabInvariant, PTL

-----------------------------------------------------------------------------
(***************************************************************************)
(* Process groups: the inductive invariant.                                *)
(***************************************************************************)

\* Where each operation can be, and what it knows of the leader there.  A leader that
\* was never started has no group, and an operation that goes on has started it.
Control ==
    /\ at \in {"poll", "term", "term loop", "kill", "kill loop", "stop wait"} =>
           op \in {"stop", "hook"}
    /\ at \in {"group", "grace", "reap", "last wait", "settle", "close"} =>
           op \in {"wait", "terminate", "run"}
    /\ at = "wait" => op \in {"hook", "wait", "run"}
    /\ state[Leader] = "unborn" =>
           /\ \A p \in Proc : state[p] = "unborn"
           /\ at \in {"start", "returned"}
    /\ at = "start" => op = "run" /\ state[Leader] = "unborn" /\ result = "none"
    /\ at \in {"settle", "close"} => state[Leader] = "gone"

\* Everything that runs has SIGKILL pending, so that nothing can fork any more.
Doomed == \A p \in Proc : state[p] = "running" => p \in killed

\* Past the signals every operation has reached that point, and stays there.
Ending ==
    at \in {"kill loop", "stop wait", "reap", "last wait", "settle", "close", "returned", "raised"}
        => Doomed

\* A timeout that has passed is on record, and only one leads to SIGKILL.
Timed ==
    /\ timer => at \in overdue
    /\ at = "kill" => "term loop" \in overdue

GroupInv == GroupTypeOK /\ Control /\ Ending /\ EndIsClean /\ Timed /\ KilledAfterGrace

\* It holds of the states an operation begins in.
LEMMA GroupStarts == GroupInit => GroupInv
<1> SUFFICES ASSUME GroupInit PROVE GroupInv
  OBVIOUS
<1>1. Leader \in Proc
  BY DEF Proc
<1>2. GroupTypeOK
  BY <1>1, GroupAssumption DEF GroupInit, GroupTypeOK
<1>3. Control
  BY <1>1, GroupAssumption DEF GroupInit, Control
<1>4. Ending /\ EndIsClean /\ Timed /\ KilledAfterGrace
  BY DEF GroupInit, Ending, EndIsClean, NoSurvivor, Settled, Timed, KilledAfterGrace
<1> QED
  BY <1>2, <1>3, <1>4 DEF GroupInv

\* Each step of an operation, of a process or of the clock preserves it.
LEMMA GroupStep == GroupInv /\ [GroupNext]_groupVars => GroupInv'
<1> SUFFICES ASSUME GroupInv, [GroupNext]_groupVars PROVE GroupInv'
  OBVIOUS
<1> USE DEF GroupInv, Doomed, EndIsClean
<1>0. Leader \in Proc
  BY DEF Proc
<1>1. ASSUME NEW p \in Proc, Ends(p) PROVE GroupInv'
  <2> USE <1>0, <1>1 DEF Ends, companionVars
  <2>1. GroupTypeOK'
    BY ZenonT(60) DEF GroupTypeOK
  <2>2. Control'
    BY DEF GroupTypeOK, Control
  <2>3. Ending'
    BY DEF GroupTypeOK, Ending
  <2>4. NoSurvivor'
    BY DEF GroupTypeOK, NoSurvivor
  <2>5. Settled'
    BY DEF GroupTypeOK, Settled
  <2>6. Timed'
    BY DEF GroupTypeOK, Timed
  <2>7. KilledAfterGrace'
    BY DEF KilledAfterGrace
  <2> QED
    BY <2>1, <2>2, <2>3, <2>4, <2>5, <2>6, <2>7
<1>2. ASSUME NEW p \in Proc, Forks(p) PROVE GroupInv'
  <2> USE <1>0, <1>2 DEF Forks, companionVars
  <2>1. state[Leader] # "unborn"
    BY DEF Control
  <2>2. GroupTypeOK'
    BY <2>1, ZenonT(60) DEF GroupTypeOK
  <2>3. Control'
    BY <2>1 DEF GroupTypeOK, Control
  <2>4. Ending'
    BY DEF GroupTypeOK, Ending
  <2>5. NoSurvivor'
    BY DEF GroupTypeOK, Ending, NoSurvivor
  <2>6. Settled'
    BY <2>1 DEF GroupTypeOK, Settled
  <2>7. Timed'
    BY DEF GroupTypeOK, Timed
  <2>8. KilledAfterGrace'
    BY DEF KilledAfterGrace
  <2> QED
    BY <2>2, <2>3, <2>4, <2>5, <2>6, <2>7, <2>8
<1>3. CASE TimePasses
  <2> USE <1>3 DEF TimePasses, companionVars
  <2>1. GroupTypeOK' /\ Control' /\ Ending' /\ NoSurvivor' /\ Settled'
    BY ZenonT(60) DEF GroupTypeOK, Control, Ending, NoSurvivor, Settled
  <2>2. Timed' /\ KilledAfterGrace'
    BY DEF Timed, KilledAfterGrace
  <2> QED
    BY <2>1, <2>2
<1>4. CASE StopBegins
  <2> USE <1>0, <1>4 DEF StopBegins, Reap, NoSignal, Goto, rest, companionVars
  <2>1. GroupTypeOK' /\ Control'
    BY DEF GroupTypeOK, Control
  <2>2. Ending' /\ NoSurvivor' /\ Settled'
    BY DEF GroupTypeOK, Ending, NoSurvivor, Settled
  <2>3. Timed' /\ KilledAfterGrace'
    BY DEF Timed, KilledAfterGrace
  <2> QED
    BY <2>1, <2>2, <2>3
<1>5. CASE StopTerm
  BY <1>0, <1>5, ZenonT(60) DEF GroupTypeOK, Control, Ending, NoSurvivor, Settled, Timed,
             KilledAfterGrace, StopTerm, SendTerm, Members, NoReap, Goto, rest,
             companionVars
<1>6. CASE TermLoop
  <2> USE <1>0, <1>6 DEF TermLoop, NoSignal, rest, companionVars
  <2>1. CASE Reap /\ UNCHANGED <<at, timer>>
    <3>1. at' = at /\ timer' = timer /\ overdue' = overdue
      BY <2>1
    <3>2. Timed' /\ KilledAfterGrace'
      BY <3>1 DEF GroupTypeOK, Timed, KilledAfterGrace
    <3> QED
      BY <2>1, <3>2, ZenonT(60) DEF GroupTypeOK, Control, Ending, NoSurvivor, Settled, Reap
  <2>2. CASE (~GroupExists \/ timer) /\ NoReap /\ Goto(IF GroupExists THEN "kill" ELSE "stop wait")
    BY <2>2, ZenonT(60) DEF GroupTypeOK, Control, Ending, NoSurvivor, Settled, Timed, KilledAfterGrace,
                NoReap, Goto, GroupExists, Members
  <2> QED
    BY <2>1, <2>2
<1>7. CASE StopKill
  BY <1>0, <1>7 DEF GroupTypeOK, Control, Ending, NoSurvivor, Settled, Timed,
             KilledAfterGrace, StopKill, SendKill, Members, NoReap, Goto, rest,
             companionVars
<1>8. CASE KillLoop
  <2> USE <1>0, <1>8 DEF KillLoop, NoSignal, rest, companionVars
  <2>1. CASE Reap /\ UNCHANGED <<at, timer>>
    <3>1. at' = at /\ timer' = timer /\ overdue' = overdue
      BY <2>1
    <3>2. Timed' /\ KilledAfterGrace'
      BY <3>1 DEF GroupTypeOK, Timed, KilledAfterGrace
    <3> QED
      BY <2>1, <3>2, ZenonT(60) DEF GroupTypeOK, Control, Ending, NoSurvivor, Settled, Reap
  <2>2. CASE (~GroupExists \/ timer) /\ NoReap /\ Goto("stop wait")
    BY <2>2 DEF GroupTypeOK, Control, Ending, NoSurvivor, Settled, Timed, KilledAfterGrace,
                NoReap, Goto, GroupExists, Members
  <2> QED
    BY <2>1, <2>2
<1>9. CASE StopReturns
  BY <1>0, <1>9, ZenonT(60) DEF GroupTypeOK, Control, Ending, NoSurvivor, Settled, Timed,
             KilledAfterGrace, StopReturns, Reap, NoSignal, Goto, rest, companionVars
<1>10. CASE WaitEnds
  BY <1>0, <1>10, ZenonT(60) DEF GroupTypeOK, Control, Ending, NoSurvivor, Settled, Timed,
             KilledAfterGrace, WaitEnds, Reap, Polled, NoSignal, Goto, rest,
             companionVars
<1>11. CASE GroupTerm
  BY <1>0, <1>11, ZenonT(60) DEF GroupTypeOK, Control, Ending, NoSurvivor, Settled, Timed,
             KilledAfterGrace, GroupTerm, SendTerm, NoSignal, NoReap, Goto,
             AfterGroup, GroupExists, Members, rest, companionVars
<1>12. CASE GroupGrace
  BY <1>0, <1>12, ZenonT(60) DEF GroupTypeOK, Control, Ending, NoSurvivor, Settled, Timed,
             KilledAfterGrace, GroupGrace, SendKill, NoSignal, NoReap, Goto,
             AfterGroup, GroupExists, Members, rest, companionVars
<1>13. CASE CompanionReap
  BY <1>0, <1>13, ZenonT(60) DEF GroupTypeOK, Control, Ending, NoSurvivor, Settled, Timed,
             KilledAfterGrace, CompanionReap, Reap, Polled, SendKill, Members,
             NoSignal, Goto, rest, companionVars
<1>14. CASE LastWait
  BY <1>0, <1>14, ZenonT(60) DEF GroupTypeOK, Control, Ending, NoSurvivor, Settled, Timed,
             KilledAfterGrace, LastWait, Reap, Polled, NoSignal, Goto, AfterWait,
             companionVars
<1>15. CASE CloseLog
  BY <1>0, <1>15 DEF GroupTypeOK, Control, Ending, NoSurvivor, Settled, Timed,
             KilledAfterGrace, CloseLog, NoReap, NoSignal, Goto, AfterWait,
             companionVars
<1>16. CASE CompanionStart
  <2> USE <1>0, <1>16 DEF CompanionStart, NoSignal, Goto
  <2>1. \A p \in Proc : state[p] = "unborn"
    BY DEF Control
  <2>2. GroupTypeOK'
    BY <2>1 DEF GroupTypeOK
  <2>3. Control'
    BY <2>1 DEF GroupTypeOK, Control
  <2>4. Ending' /\ NoSurvivor' /\ Settled'
    BY <2>1, <2>3 DEF GroupTypeOK, Control, Ending, NoSurvivor, Settled
  <2>5. Timed' /\ KilledAfterGrace'
    BY DEF GroupTypeOK, Timed, KilledAfterGrace
  <2> QED
    BY <2>2, <2>3, <2>4, <2>5
<1>17. CASE Returned
  <2>1. UNCHANGED <<op, at, state, terminated, killed, overdue, returncode, status, log, result>>
        /\ timer' = timer
    BY <1>17 DEF Returned, groupVars, companionVars
  <2>2. GroupTypeOK'
    BY <2>1, ZenonT(60) DEF GroupTypeOK
  <2>3. Control'
    BY <2>1 DEF Control
  <2>4. Ending' /\ NoSurvivor'
    BY <2>1 DEF Ending, NoSurvivor
  <2>5. Settled'
    BY <2>1 DEF Settled
  <2>6. Timed'
    BY <2>1 DEF Timed
  <2>7. KilledAfterGrace'
    BY <2>1 DEF KilledAfterGrace
  <2> QED
    BY <2>2, <2>3, <2>4, <2>5, <2>6, <2>7
<1>18. CASE UNCHANGED groupVars
  <2>1. UNCHANGED <<op, at, state, terminated, killed, overdue, returncode, status, log, result>>
        /\ timer' = timer
    BY <1>18 DEF groupVars, companionVars
  <2>2. GroupTypeOK'
    BY <2>1 DEF GroupTypeOK
  <2>3. Control'
    BY <2>1 DEF Control
  <2>4. Ending' /\ NoSurvivor'
    BY <2>1 DEF Ending, NoSurvivor
  <2>5. Settled'
    BY <2>1 DEF Settled
  <2>6. Timed'
    BY <2>1 DEF Timed
  <2>7. KilledAfterGrace'
    BY <2>1 DEF KilledAfterGrace
  <2> QED
    BY <2>2, <2>3, <2>4, <2>5, <2>6, <2>7
<1> QED
  BY <1>1, <1>2, <1>3, <1>4, <1>5, <1>6, <1>7, <1>8, <1>9, <1>10, <1>11, <1>12, <1>13,
     <1>14, <1>15, <1>16, <1>17, <1>18 DEF GroupNext, Runner

-----------------------------------------------------------------------------
\* The inductive invariant holds in every state of every operation, whatever the
\* members of the group do and however many they are.
THEOREM GroupInvariant == GroupSpec => []GroupInv
<1>1. GroupInit => GroupInv
  BY GroupStarts
<1>2. GroupInv /\ [GroupNext]_groupVars => GroupInv'
  BY GroupStep
<1> QED
  BY <1>1, <1>2, PTL DEF GroupSpec

\* Nothing survives stop_process_group, run_failure_hook or a companion's end: what is
\* still running has been sent SIGKILL, and a companion's leader is reaped and its log
\* closed.
THEOREM NothingSurvives == GroupSpec => []EndIsClean
<1>1. GroupInv => EndIsClean
  BY DEF GroupInv
<1> QED
  BY <1>1, GroupInvariant, PTL

\* No member of the group is sent SIGKILL before a timeout after SIGTERM has passed.
THEOREM GraceIsGiven == GroupSpec => []KilledAfterGrace
<1>1. GroupInv => KilledAfterGrace
  BY DEF GroupInv
<1> QED
  BY <1>1, GroupInvariant, PTL

=============================================================================
